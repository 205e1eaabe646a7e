SPECIFICATION Spec
CONSTANTS
  a = a
  b = b
  Ends = {a, b}
  Peer <- MCPeer
  Servers = {s1, s2}
  NoServer = NoServer
  Nonces = {}
  NoNonce = NoNonce
  JoinIds = {}
  MaxExports = 2
  MaxJoinParts = 1
  MaxAsks = 3
  MaxInFlight = 2
  MaxAnswers = 1
  MaxJoins = 0
  MaxWraps = 1
  Outcomes = {"small", "large", "fails"}
  NoAnswer = NoAnswer
  NoJoin = NoJoin
  NoPart = NoPart
  Vats = {a, b}
  VatOf <- MCVatOf
  MaxProvisions = 0
  MaxIntroductions = 0
  NoProvision = NoProvision
  NoIntroduction = NoIntroduction
  NoEnd = NoEnd
  MaxQuestions = 2
  SendMayFail = {}
  NoQuestion = NoQuestion
  NoReply = NoReply
  Ops <- MCOps
  JoinCounts = {}
INVARIANT
  KeptAnswersNameTheirObject
SYMMETRY ServerSymmetry
CHECK_DEADLOCK FALSE
