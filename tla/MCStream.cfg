SPECIFICATION StreamSpec
CONSTANTS
  a = a
  b = b
  Ends = {a, b}
  Peer <- MCPeer
  Servers = {s1}
  NoServer = NoServer
  Nonces = {n1}
  NoNonce = NoNonce
  JoinIds = {}
  MaxExports = 2
  MaxJoinParts = 1
  MaxAsks = 5
  MaxInFlight = 2
  MaxAnswers = 1
  MaxJoins = 0
  MaxWraps = 1
  Outcomes = {"small", "large", "fails"}
  NoAnswer = NoAnswer
  NoJoin = NoJoin
  NoPart = NoPart
  Vats = {a, b}
  VatOf <- MCVatOf
  MaxProvisions = 0
  MaxIntroductions = 1
  NoProvision = NoProvision
  NoIntroduction = NoIntroduction
  NoEnd = NoEnd
  MaxQuestions = 4
  SendMayFail = {a}
  NoQuestion = NoQuestion
  NoReply = NoReply
  Ops <- MCOps
  MaxWindow = 2
  Windows = {0, 1, 3}
  JoinCounts = {}
INVARIANTS
  StreamTypeOK
  StreamTracksOpenCalls
  FinishOkMeansAllSucceeded
  FirstFailureIsFirst
PROPERTY
  QuestionsImplemented
CHECK_DEADLOCK FALSE
