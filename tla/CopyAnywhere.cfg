SPECIFICATION CopySpec
CONSTANTS
  FirstSizes = {2}
  Limits = {2, 5}
  Ceiling = 4
  Structs <- MCStructs
  Lists <- MCLists
  StructLists <- MCStructLists
  Texts <- MCTexts
  Payloads = {p1}
  MaxTotal = 5
  MaxSegments = 4
  TraversalLimit = 20
  DepthLimit = 2
  CountRange = 64
  ByteBits = 8
  CopyAnywhere = TRUE
INVARIANTS
  CopyReadsBack
CHECK_DEADLOCK FALSE
