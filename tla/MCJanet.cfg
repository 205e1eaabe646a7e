SPECIFICATION CapnpcSpec
CONSTANTS
  FirstSizes = {2}
  Limits = {0}
  Ceiling = 16
  Structs <- MCStructs
  Lists = {}
  StructLists <- MCStructLists
  Texts = {}
  Payloads = {}
  MaxTotal = 8
  MaxSegments = 16
  TraversalLimit = 9
  DepthLimit = 64
  CountRange = 64
  ByteBits = 2
  DoubleBits = 13
  Fields <- MCFields
  Strings <- MCStrings
  ValueLists <- MCValueLists
  FlatMessages <- MCFlatMessages
  Arrivals <- MCArrivals
  Nodes <- MCNodes
  Arguments <- MCArguments
  MaxCalls = 6
INVARIANTS
  HandlesStayGood
  ValuesReadBack
  ViewsAgree
  EachVisitsAll
  BudgetHolds
  IntegersSurvive
  NoStaleArm
CHECK_DEADLOCK FALSE
