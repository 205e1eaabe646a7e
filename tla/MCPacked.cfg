SPECIFICATION Spec
CONSTANTS
  WordBytes = 3
  MaxRun = 3
  Slack = 2
  TagByte <- MCTagByte
  Inputs <- MCInputs
INVARIANTS
  TypeOK
  UnpackInvertsPack
  CutYieldsPrefix
  BufferHolds
CHECK_DEADLOCK FALSE
