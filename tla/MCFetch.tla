------------------------------- MODULE MCFetch -------------------------------
(* Two pages of two half words: the frames of neighbouring pages are       *)
(* neighbours, exchanged, or one of them may not be executed.              *)
EXTENDS Fetch

CONSTANTS zero, rvc, rvc_neg, wide, long, ones

MCRvc == {rvc, rvc_neg}
MCNegative == {rvc_neg}
MCWide == {wide}
MCLong == {long, ones}
MCMaps == {<<0, 1>>, <<1, 0>>, <<0, -1>>}
AsMap(s) == [p \in 0 .. 1 |-> s[p + 1]]
AsImage(s) == [c \in Cells |-> s[2 * c[1] + c[2] + 1]]
MCMapSet == {AsMap(s) : s \in MCMaps}
MCImages ==
  {AsImage(s) : s \in
     {<<rvc, rvc_neg, rvc, wide, rvc, zero>>,
      <<wide, rvc, zero, rvc_neg, long, ones>>,
      <<rvc_neg, rvc, wide, zero, ones, ones>>,
      <<zero, zero, rvc, rvc, wide, rvc_neg>>,
      <<ones, ones, rvc_neg, rvc_neg, zero, rvc>>}}
=============================================================================
