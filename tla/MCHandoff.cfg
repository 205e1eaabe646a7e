SPECIFICATION Spec
CONSTANTS
  ab = ab
  ba = ba
  cb = cb
  bc = bc
  ac = ac
  ca = ca
  alice = alice
  bob = bob
  carol = carol
  Ends = {ab, ba, cb, bc, ac, ca}
  Peer <- MCPeer
  Servers = {s1, s2}
  NoServer = NoServer
  Nonces = {n1}
  NoNonce = NoNonce
  JoinIds = {}
  MaxExports = 2
  MaxJoinParts = 1
  MaxAsks = 2
  MaxInFlight = 1
  MaxAnswers = 1
  MaxJoins = 0
  MaxWraps = 1
  Outcomes = {"small"}
  NoAnswer = NoAnswer
  NoJoin = NoJoin
  NoPart = NoPart
  Vats = {alice, bob, carol}
  VatOf <- MCVatOf
  MaxProvisions = 1
  MaxIntroductions = 1
  NoProvision = NoProvision
  NoIntroduction = NoIntroduction
  NoEnd = NoEnd
  MaxQuestions = 2
  SendMayFail = {ca}
  NoQuestion = NoQuestion
  NoReply = NoReply
  Ops <- MCOps
  JoinCounts = {}
INVARIANTS
  NoEarlyFree
  ImportsNameTheirObject
  NonceLedger
CHECK_DEADLOCK FALSE
SYMMETRY ServerSymmetry
