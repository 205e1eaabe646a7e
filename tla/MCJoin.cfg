SPECIFICATION Spec
CONSTANTS
  a = a
  b = b
  Ends = {a, b}
  Peer <- MCPeer
  Servers = {s1, s2}
  NoServer = NoServer
  Nonces = {}
  NoNonce = NoNonce
  JoinIds = {j}
  MaxExports = 2
  MaxJoinParts = 2
  MaxAsks = 5
  MaxInFlight = 2
  MaxAnswers = 1
  MaxJoins = 1
  MaxWraps = 1
  Outcomes = {"small"}
  NoAnswer = NoAnswer
  NoJoin = NoJoin
  NoPart = NoPart
  Vats = {a, b}
  VatOf <- MCVatOf
  MaxProvisions = 0
  MaxIntroductions = 0
  NoProvision = NoProvision
  NoIntroduction = NoIntroduction
  NoEnd = NoEnd
  MaxQuestions = 3
  SendMayFail = {}
  NoQuestion = NoQuestion
  NoReply = NoReply
  Ops <- MCOps
  JoinCounts = {1, 2}
INVARIANTS
  NoEarlyFree
  KeptAnswersNameTheirObject
  JoinVerdictsTrue
SYMMETRY ServerSymmetry
CHECK_DEADLOCK FALSE
