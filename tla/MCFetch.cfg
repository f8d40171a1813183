SPECIFICATION Spec
CONSTANTS
  zero = zero
  rvc = rvc
  rvc_neg = rvc_neg
  wide = wide
  long = long
  ones = ones
  Rvc <- MCRvc
  Negative <- MCNegative
  Zero = zero
  Wide <- MCWide
  Long <- MCLong
  Ones = ones
  PAGE = 2
  NPages = 2
  NFrames = 2
  Maps <- MCMapSet
  Images <- MCImages
  MaxStores = 2
INVARIANTS
  BufferTrue
  WideAlone
PROPERTIES
  RunsCode
