SPECIFICATION FairSpec
CONSTANTS
  a = a
  b = b
  Ends = {a, b}
  Peer <- MCPeer
  Servers = {s1}
  NoServer = NoServer
  Nonces = {n1}
  NoNonce = NoNonce
  JoinIds = {}
  MaxExports = 1
  MaxJoinParts = 1
  MaxAsks = 4
  MaxInFlight = 2
  MaxAnswers = 1
  MaxJoins = 0
  MaxWraps = 2
  Outcomes = {"small"}
  NoAnswer = NoAnswer
  NoJoin = NoJoin
  NoPart = NoPart
  Vats = {a, b}
  VatOf <- MCVatOf
  MaxProvisions = 2
  MaxIntroductions = 0
  NoProvision = NoProvision
  NoIntroduction = NoIntroduction
  NoEnd = NoEnd
  MaxQuestions = 2
  SendMayFail = {}
  NoQuestion = NoQuestion
  NoReply = NoReply
  Ops <- MCOps
  JoinCounts = {}
INVARIANTS
  LoopbackFollowsCalls
  NonceLedger
  EmbargoHolds
PROPERTIES
  QuestionsImplemented
  QuestionsAnswered
  LiftedEmbargoesAnswer
CHECK_DEADLOCK FALSE
