---------------------------- MODULE RpcAnswerProofs ----------------------------
(***************************************************************************)
(* The answers that a vat keeps for pipelining.  A kept answer costs a     *)
(* slot until its Finish comes, and names an export that nothing but the   *)
(* peer's references keeps in use, so both theorems relate the table of    *)
(* one end to the questions, the references and the queue of the other.    *)
(*                                                                         *)
(* A question may be finished in vain (vain, in RpcClient): the properties *)
(* except it, and the invariants say that nothing else need be excepted.   *)
(* An application that releases a capability before it finishes the        *)
(* question that brought it breaks the second: that theorem is about the   *)
(* behaviours in which nobody has done so.                                 *)
(***************************************************************************)
EXTENDS RpcLedgerProofs

\* A capability is released only when no question that addressed or brought it is open.
ReleasedLate ==
  \A e \in Ends, x \in ExportIds : imports'[e][x].n < imports[e][x].n => ~InUse(e, x)

-----------------------------------------------------------------------------
(* The inductive invariants *)

\* The answers that the peer of e keeps for question q.
Keeps(e, q) ==
  {i \in AnswerSlots : answers[Peer[e]][i] # NoAnswer /\ answers[Peer[e]][i].qid = q}

\* The places in the queue of the peer of e where a Finish of question q waits.
Ending(e, q) ==
  {k \in DOMAIN inbox[Peer[e]] : inbox[Peer[e]][k].type = "Finish" /\ inbox[Peer[e]][k].qid = q}

\* The peer keeps one answer to a question, once it is done with the question.
Once(e, q) ==
  Keeps(e, q) # {} =>
    /\ Tally(Keeps(e, q)) <= 1
    /\ Asking(e, q) = {} /\ Parts(e, q) = {} /\ Embargoes(e, q) = {}
    /\ q < nextQid[e]

KeptOnce == \A e \in Ends, q \in QuestionIds : Once(e, q)

\* When a question has been finished, and not in vain, its Finish waits behind its
\* request, and for as long as the answer is kept or held back.
Follows(e, q) ==
  SlotsOf(e, q) = {} /\ q \notin vain[e] =>
    /\ \A i \in Asking(e, q) : \E k \in Ending(e, q) : k > i
    /\ Keeps(e, q) # {} \/ Embargoes(e, q) # {} => Ending(e, q) # {}

EndsFollow == \A e \in Ends, q \in QuestionIds : Follows(e, q)

AnswerInv == KeptOnce /\ EndsFollow

\* Question q is open and has brought x to e, or will.
Brings(e, q, x) ==
  /\ SlotsOf(e, q) # {}
  /\ \/ \E r \in Returning(e, q) : /\ inbox[e][r].cap = x
                                   /\ inbox[e][r].small /\ inbox[e][r].results
     \/ \E s \in SlotsOf(e, q) : /\ questions[e][s].answered /\ ~questions[e][s].failed
                                 /\ questions[e][s].reply.cap = x

\* The frames before place k of a queue.
Before(w, k) == SubSeq(w, 1, k - 1)

\* Question q has been finished, and the frames that wait before its Finish leave some of
\* the references that the peer of e counts on its export x.
Leaves(e, q, x) ==
  \E k \in Ending(e, q) : GivenBackIn(Before(inbox[Peer[e]], k), x) < refcount[Peer[e]][x]

\* The capability of a kept answer a is held by its question, and from the Finish on by
\* the references that the Finish will find.
AnswerStands(e, q, a) ==
  /\ a.obj \in Servers /\ server[Peer[e]][a.cap] = a.obj
  /\ Brings(e, q, a.cap) \/ Leaves(e, q, a.cap)

AnswersStand ==
  \A e \in Ends, q \in QuestionIds : \A i \in Keeps(e, q) :
    answers[Peer[e]][i].cap # NoExport /\ q \notin vain[e]
      => AnswerStands(e, q, answers[Peer[e]][i])

\* What an open question has brought is held.
BroughtIsHeld ==
  \A e \in Ends, q \in QuestionIds : \A s \in SlotsOf(e, q), x \in ExportIds :
    LET r == questions[e][s]
    IN  r.answered /\ ~r.failed /\ r.reply.cap = x => imports[e][x].n > 0

KeptInv == AnswersStand /\ BroughtIsHeld

-----------------------------------------------------------------------------
(* The table of answers *)

\* A handler at f sends ret and keeps it in slot i.
KeepsIn(f, ret, i) ==
  /\ Answer(f, <<ret>>) /\ ret.small /\ ret.results
  /\ answers[f][i] = NoAnswer
  /\ answers' = [answers EXCEPT ![f][i] = [qid |-> ret.qid, cap |-> ret.cap, obj |-> ret.obj]]

\* A handler at f keeps an answer: to the request it was given, or to an Accept whose
\* embargo is lifted.  The capability in it stands for the object it should.
KeepsOne(f) ==
  /\ ~Given(f, "Finish")
  /\ \E ret \in Return, i \in AnswerSlots :
       /\ KeepsIn(f, ret, i)
       /\ Served(Peer[f], ret.qid) \/ Embargoes(Peer[f], ret.qid) # {}
       /\ ret.cap # NoExport => server'[f][ret.cap] = ret.obj

\* A handler at f drops the answer to the question that is finished.
DropsOne(f) ==
  LET kept == {i \in AnswerSlots :
                 answers[f][i] # NoAnswer /\ answers[f][i].qid = Head(inbox[f]).qid}
  IN  /\ Given(f, "Finish")
      /\ answers' = IF kept = {} THEN answers
                    ELSE [answers EXCEPT ![f][First(kept)] = NoAnswer]

AnswersMove(f) ==
  \/ UNCHANGED answers /\ ~Given(f, "Finish")
  \/ KeepsOne(f)
  \/ DropsOne(f)

\* flush_answer keeps the Return or leaves the table alone.
LEMMA FlushKeeps ==
  ASSUME NEW f \in Ends, NEW ret, ret.results, FlushAnswer(f, ret)
  PROVE  UNCHANGED answers \/ \E i \in AnswerSlots : KeepsIn(f, ret, i)
<1> DEFINE free == {i \in AnswerSlots : answers[f][i] = NoAnswer}
<1>1. CASE ret.small /\ free # {}
  <2>1. First(free) \in free
    BY <1>1, FirstInNat, Ranges
  <2>2. answers' = [answers EXCEPT ![f][First(free)] =
                      [qid |-> ret.qid, cap |-> ret.cap, obj |-> ret.obj]]
        /\ Answer(f, <<ret>>)
    BY <1>1 DEF FlushAnswer
  <2> HIDE DEF free
  <2>3. PICK i \in free : i = First(free)
    BY <2>1
  <2>4. i \in AnswerSlots /\ answers[f][i] = NoAnswer
    BY <2>3 DEF free
  <2> QED BY <1>1, <2>2, <2>3, <2>4 DEF KeepsIn
<1>2. CASE ~(ret.small /\ free # {})
  BY <1>2 DEF FlushAnswer
<1> QED BY <1>1, <1>2

\* A handler answers its request and may keep the answer.
LEMMA ReplyMoves ==
  ASSUME NEW f \in Ends, NEW m, m = Head(inbox[f]), m.type \in RequestTypes,
         NEW ret \in Return, ret.results, ret.qid = m.qid, FlushAnswer(f, ret),
         ret.cap # NoExport => server'[f][ret.cap] = ret.obj
  PROVE  AnswersMove(f)
<1>1. ~Given(f, "Finish")
  BY DEF Given, RequestTypes
<1>2. Peer[Peer[f]] = f
  BY PeerFacts
<1>3. Served(Peer[f], ret.qid)
  BY <1>2 DEF Served
<1> QED BY <1>1, <1>3, FlushKeeps DEF AnswersMove, KeepsOne

\* A handler that keeps nothing and was not given a Finish.
LEMMA RestMoves ==
  ASSUME NEW f \in Ends, NEW type, Given(f, type), type # "Finish", UNCHANGED answers
  PROVE  AnswersMove(f)
BY DEF AnswersMove, Given

\* handle_bootstrap
LEMMA BootstrapMoves ==
  ASSUME NEW f \in Ends, TypeInv, RecvBootstrap(f)
  PROVE  AnswersMove(f)
<1>1. PICK m : m = Head(inbox[f])
  OBVIOUS
<1>2. m.type = "Bootstrap" /\ m.type \in RequestTypes /\ m.qid \in QuestionIds /\ Given(f, "Bootstrap")
  BY <1>1, HandlerFacts DEF RecvBootstrap, RequestTypes
<1>3. PICK s : s = bootstrap[f]
  OBVIOUS
<1>4. PICK x : x = ExportId(f, s)
  OBVIOUS
<1>5. CASE s = NoServer \/ x = NoExport
  <2>1. UNCHANGED answers
    BY <1>1, <1>3, <1>4, <1>5 DEF RecvBootstrap, HandleBootstrap, Refuse, serverVars
  <2> QED BY <1>2, <2>1, RestMoves
<1>6. CASE ~(s = NoServer \/ x = NoExport)
  <2>1. s \in Servers
    BY <1>3, <1>6 DEF TypeInv, TypeOK, ServerTypeOK
  <2>2. x \in ExportIds
    BY <1>4, <1>6, <2>1, ExportIdType DEF TypeInv, TypeOK
  <2>3. PICK r \in Return : r = Results(f, m, x)
    BY <1>2, <2>2, ResultsType
  <2>4. r.cap = x /\ r.results /\ r.qid = m.qid
    BY <2>3 DEF Results
  <2>5. PICK ret : ret = [r EXCEPT !.obj = s]
    OBVIOUS
  <2>6. ret \in Return /\ ret.cap = x /\ ret.results /\ ret.obj = s /\ ret.qid = m.qid
    BY <2>1, <2>4, <2>5 DEF Return
  <2>7. Export(f, s, x) /\ FlushAnswer(f, ret)
    BY <1>1, <1>3, <1>4, <1>6, <2>3, <2>5 DEF RecvBootstrap, HandleBootstrap
  <2>8. server'[f][x] = s
    BY <2>2, <2>7 DEF Export, TypeInv, TypeOK, ServerTypeOK
  <2> QED BY <1>1, <1>2, <2>6, <2>7, <2>8, ReplyMoves
<1> QED BY <1>5, <1>6

\* handle_call: a result names no capability.
LEMMA CallMoves ==
  ASSUME NEW f \in Ends, TypeInv, RecvCall(f)
  PROVE  AnswersMove(f)
<1>1. PICK m : m = Head(inbox[f])
  OBVIOUS
<1>2. m.type = "Call" /\ m.type \in RequestTypes /\ m.qid \in QuestionIds /\ Given(f, "Call")
  BY <1>1, HandlerFacts DEF RecvCall, RequestTypes
<1>3. PICK x : x = ResolveTarget(f, m.target)
  OBVIOUS
<1>4. CASE UNCHANGED answers
  BY <1>2, <1>4, RestMoves
<1>5. CASE ~UNCHANGED answers
  <2>1. x # NoExport /\ Dispatch(f, m, x)
    BY <1>1, <1>3, <1>5 DEF RecvCall, HandleCall, Refuse, serverVars
  <2>2. PICK r \in Return : r = Results(f, m, NoExport)
    BY <1>2, ResultsType
  <2>3. r.cap = NoExport /\ r.results /\ r.qid = m.qid
    BY <2>2 DEF Results
  <2>4. PICK o \in Servers \cup {NoServer} : o = server[f][x]
    <3>1. x \in ExportIds
      BY <1>3, <2>1, ResolveTargetType
    <3> QED BY <3>1 DEF TypeInv, TypeOK, ServerTypeOK
  <2>5. PICK outcome \in Outcomes :
          FlushAnswer(f, [r EXCEPT !.small = (outcome = "small"), !.obj = o])
    BY <1>5, <2>1, <2>2, <2>4 DEF Dispatch
  <2>6. PICK ret : ret = [r EXCEPT !.small = (outcome = "small"), !.obj = o]
    OBVIOUS
  <2>7. ret \in Return /\ ret.cap = NoExport /\ ret.results /\ ret.qid = m.qid
    BY <2>3, <2>4, <2>6 DEF Return
  <2> QED BY <1>1, <1>2, <2>5, <2>6, <2>7, ReplyMoves
<1> QED BY <1>4, <1>5

\* handle_provide: the results are empty.
LEMMA ProvideMoves ==
  ASSUME NEW f \in Ends, TypeInv, RecvProvide(f)
  PROVE  AnswersMove(f)
<1>1. PICK m : m = Head(inbox[f])
  OBVIOUS
<1>2. m.type = "Provide" /\ m.type \in RequestTypes /\ m.qid \in QuestionIds /\ Given(f, "Provide")
  BY <1>1, HandlerFacts DEF RecvProvide, RequestTypes
<1>3. CASE UNCHANGED answers
  BY <1>2, <1>3, RestMoves
<1>4. CASE ~UNCHANGED answers
  <2>1. PICK ret \in Return : ret = Results(f, m, NoExport)
    BY <1>2, ResultsType
  <2>2. ret.cap = NoExport /\ ret.results /\ ret.qid = m.qid
    BY <2>1 DEF Results
  <2>3. FlushAnswer(f, ret)
    BY <1>1, <1>4, <2>1 DEF RecvProvide, HandleProvide, Refuse, serverVars
  <2> QED BY <1>1, <1>2, <2>2, <2>3, ReplyMoves
<1> QED BY <1>3, <1>4

\* handle_accept
LEMMA AcceptMoves ==
  ASSUME NEW f \in Ends, TypeInv, RecvAccept(f)
  PROVE  AnswersMove(f)
<1>1. PICK m : m = Head(inbox[f])
  OBVIOUS
<1>2. m.type = "Accept" /\ m.type \in RequestTypes /\ m.qid \in QuestionIds /\ Given(f, "Accept")
  BY <1>1, HandlerFacts DEF RecvAccept, RequestTypes
<1>3. PICK v \in Vats : v = VatOf[f]
  BY HandoffAssumption DEF HandoffAssumption
<1>4. PICK match : match = Claimable(v, m.nonce)
  OBVIOUS
<1>5. PICK x : x = ExportId(f, provisions[v][First(match)].server)
  OBVIOUS
<1>6. CASE UNCHANGED answers
  BY <1>2, <1>6, RestMoves
<1>7. CASE ~UNCHANGED answers
  <2>1. match # {} /\ x # NoExport /\ Grant(f, m, First(match), x)
    BY <1>1, <1>3, <1>4, <1>5, <1>7 DEF RecvAccept, HandleAccept, Refuse, serverVars
  <2>2. PICK i \in ProvisionSlots : i = First(match) /\ provisions[v][i] # NoProvision
    <3>1. First(match) \in match
      BY <1>4, <2>1, FirstInNat, Ranges DEF Claimable
    <3> QED BY <1>4, <3>1 DEF Claimable
  <2>3. PICK s \in Servers : s = provisions[v][i].server
    BY <2>2 DEF TypeInv, TypeOK, HandoffTypeOK, Provision
  <2>4. x \in ExportIds
    BY <1>5, <2>1, <2>2, <2>3, ExportIdType DEF TypeInv, TypeOK
  <2>5. PICK r \in Return : r = Results(f, m, x)
    BY <1>2, <2>4, ResultsType
  <2>6. r.cap = x /\ r.results /\ r.qid = m.qid
    BY <2>5 DEF Results
  <2>7. PICK ret : ret = [r EXCEPT !.obj = s]
    OBVIOUS
  <2>8. ret \in Return /\ ret.cap = x /\ ret.results /\ ret.obj = s /\ ret.qid = m.qid
    BY <2>6, <2>7 DEF Return
  <2>9. Export(f, s, x) /\ FlushAnswer(f, ret)
    BY <1>3, <1>7, <2>1, <2>2, <2>3, <2>5, <2>7 DEF Grant
  <2>10. server'[f][x] = s
    BY <2>4, <2>9 DEF Export, TypeInv, TypeOK, ServerTypeOK
  <2> QED BY <1>1, <1>2, <2>8, <2>9, <2>10, ReplyMoves
<1> QED BY <1>6, <1>7

\* handle_disembargo: the Accept that is answered was kept under an embargo.
LEMMA DisembargoMoves ==
  ASSUME NEW f \in Ends, TypeInv, PledgesNamed, RecvDisembargo(f), EmbargoedAcceptsReachClaimant'
  PROVE  AnswersMove(f)
<1>1. PICK m : m = Head(inbox[f])
  OBVIOUS
<1>2. inbox[f] # <<>> /\ m.type = "Disembargo" /\ Given(f, "Disembargo") /\ ~Given(f, "Finish")
  BY <1>1, HandlerFacts DEF RecvDisembargo, Given
<1>3. CASE UNCHANGED answers
  BY <1>2, <1>3, RestMoves
<1>4. CASE ~UNCHANGED answers
  <2>1. PICK v \in Vats : v = VatOf[f]
    BY HandoffAssumption DEF HandoffAssumption
  <2>2. PICK held : held = {i \in ProvisionSlots : /\ provisions[v][i] # NoProvision
                                                   /\ provisions[v][i].embargoed
                                                   /\ provisions[v][i].qid = m.id}
    OBVIOUS
  <2>3. HandleDisembargoProvide(f, m)
    BY <1>1, <1>4 DEF RecvDisembargo, HandleDisembargo, serverVars
  <2>4. held # {}
    BY <1>4, <2>1, <2>2, <2>3 DEF HandleDisembargoProvide
  <2>5. PICK i \in ProvisionSlots :
          i = First(held) /\ provisions[v][i] # NoProvision /\ provisions[v][i].embargoed
    <3>1. First(held) \in held
      BY <2>2, <2>4, FirstInNat, Ranges
    <3> QED BY <2>2, <3>1
  <2>6. PICK p \in Provision : p = provisions[v][i]
    BY <2>5 DEF TypeInv, TypeOK, HandoffTypeOK
  <2>7. /\ p.aqid \in QuestionIds /\ p.by \in Ends /\ p.eid \in ExportIds /\ p.server \in Servers
        /\ Peer[p.by] \in Ends
    <3>1. p.aqid \in QuestionIds /\ p.by \in Ends
      BY <2>5, <2>6 DEF TypeInv, EmbargoedAreClaimed
    <3> QED BY <2>6, <3>1, PeerFacts DEF Provision
  <2>8. PICK r \in Return : r = Results(f, [qid |-> p.aqid, type |-> "Accept"], p.eid)
    BY <2>7, ResultsType DEF RequestTypes
  <2>9. PICK ret : ret = [r EXCEPT !.to = Peer[p.by], !.obj = p.server]
    OBVIOUS
  <2>10. /\ ret \in Return /\ ret.to = Peer[p.by] /\ ret.qid = p.aqid /\ ret.results
         /\ ret.cap = p.eid /\ ret.obj = p.server
    <3>1. r.qid = p.aqid /\ r.results /\ r.cap = p.eid
      BY <2>8 DEF Results
    <3> QED BY <2>7, <2>9, <3>1 DEF Return
  <2>11. /\ server' = server /\ FlushAnswer(f, ret)
    BY <2>1, <2>2, <2>3, <2>4, <2>5, <2>6, <2>8, <2>9 DEF HandleDisembargoProvide
  <2>12. p.by = f
    <3>1. ret.to = Peer[f]
      BY <1>2, <2>10, <2>11, SentIsDelivered DEF FlushAnswer
    <3>2. Peer[Peer[p.by]] = p.by /\ Peer[Peer[f]] = f
      BY <2>7, PeerFacts
    <3> QED BY <2>10, <3>1, <3>2
  <2>13. Embargoes(Peer[f], ret.qid) # {}
    <3>1. Peer[Peer[f]] = f
      BY PeerFacts
    <3>2. <<v, i>> \in Vats \X ProvisionSlots
      OBVIOUS
    <3>3. <<v, i>> \in Embargoes(Peer[f], ret.qid)
      BY <2>5, <2>6, <2>10, <2>12, <3>1, <3>2 DEF Embargoes
    <3> QED BY <3>3
  <2>14. server'[f][ret.cap] = ret.obj
    <3>1. PledgeAt(f, i)
      BY <2>1, <2>5, <2>6, <2>12 DEF PledgeAt
    <3> QED BY <2>1, <2>6, <2>10, <2>11, <3>1 DEF PledgesNamed
  <2>15. PICK k \in AnswerSlots : KeepsIn(f, ret, k)
    BY <1>4, <2>10, <2>11, FlushKeeps
  <2> QED BY <1>2, <2>10, <2>13, <2>14, <2>15 DEF AnswersMove, KeepsOne
<1> QED BY <1>3, <1>4

\* Every handler that was not given a Return.
LEMMA HandlersMove ==
  ASSUME NEW f \in Ends, TypeInv, PledgesNamed, EmbargoedAcceptsReachClaimant', Receive(f)
  PROVE  AnswersMove(f)
<1>1. CASE RecvBootstrap(f) \/ RecvCall(f) \/ RecvProvide(f) \/ RecvAccept(f) \/ RecvDisembargo(f)
  BY <1>1, BootstrapMoves, CallMoves, ProvideMoves, AcceptMoves, DisembargoMoves
<1>2. CASE RecvFinish(f)
  BY <1>2 DEF RecvFinish, HandleFinish, AnswersMove, DropsOne
<1>3. CASE RecvRelease(f)
  <2>1. Given(f, "Release") /\ UNCHANGED answers
    BY <1>3 DEF RecvRelease, HandleRelease
  <2> QED BY <2>1, RestMoves
<1>4. CASE RecvJoin(f)
  <2>1. Given(f, "Join") /\ UNCHANGED answers
    BY <1>4 DEF RecvJoin, HandleJoin
  <2> QED BY <2>1, RestMoves
<1>5. CASE RecvOther(f)
  <2>1. (Given(f, "Resolve") \/ Given(f, "Unimplemented")) /\ UNCHANGED answers
    BY <1>5 DEF RecvOther, HandleUnimplemented, serverVars
  <2> QED BY <2>1, RestMoves
<1>6. CASE RecvReturn(f)
  <2>1. Given(f, "Return") /\ UNCHANGED answers
    BY <1>6 DEF RecvReturn, serverVars
  <2> QED BY <2>1, RestMoves
<1> QED BY <1>1, <1>2, <1>3, <1>4, <1>5, <1>6 DEF Receive

-----------------------------------------------------------------------------
(* Kept answers are finished: the handlers *)

\* A handler at f, as far as kept answers go: frames move, an end asks and forgets
\* nothing, and what is kept back of a question is what was, or its request.
Serves(f) ==
  /\ inbox[f] # <<>>
  /\ \E msgs \in Seq(Message) :
       /\ QueuesMoved(Peer[f], f, msgs)
       /\ \A q \in QuestionIds : FramesMoved(Peer[f], f, msgs, q)
  /\ \A d \in Ends, q \in QuestionIds :
       /\ SlotsOf(d, q)' = SlotsOf(d, q)
       /\ Parts(d, q)' # {} => Parts(d, q) # {} \/ (d = Peer[f] /\ Served(d, q))
       /\ Embargoes(d, q)' # {} => Embargoes(d, q) # {} \/ (d = Peer[f] /\ Served(d, q))
  /\ UNCHANGED nextQid
  /\ AnswersMove(f)

\* A question that was finished in vain stays so.
VainStays == \A d \in Ends : vain[d] \subseteq vain'[d]

\* A Finish that a handler at f is given too early was sent in vain.
DropsEarly(f) ==
  Given(f, "Finish") /\ Embargoes(Peer[f], Head(inbox[f]).qid) # {}
    => Head(inbox[f]).qid \in vain'[Peer[f]]

LEMMA VainGrows ==
  ASSUME NEW f \in Ends, TypeInv, Receive(f) \/ Acts(f)
  PROVE  VainStays
<1>1. vain \in [Ends -> SUBSET QuestionIds]
  BY DEF TypeInv, TypeOK, ClientTypeOK
<1>2. ASSUME NEW g \in Ends, NEW S, InVain(g, S)
      PROVE  VainStays
  <2>1. vain' = [vain EXCEPT ![g] = @ \cup S]
    BY <1>2 DEF InVain
  <2> QED BY <1>1, <2>1 DEF VainStays
<1>3. UNCHANGED vain => VainStays
  BY DEF VainStays
<1>4. RecvFinish(f) => VainStays
  BY <1>2, PeerFacts DEF RecvFinish
<1>5. Receive(f) => RecvFinish(f) \/ UNCHANGED vain
  BY DEF Receive, RecvBootstrap, RecvCall, RecvRelease, RecvJoin, RecvDisembargo, RecvReturn,
         RecvProvide, RecvAccept, RecvOther, HandleReturn, clientVars
<1>6. Asks(f) \/ Introduces(f) => UNCHANGED vain
  BY AsksRequest, IntroducesTypes DEF TypeInv, Requests, Ask
<1>7. ASSUME NEW q, SendFinish(f, q)
      PROVE  VainStays
  BY <1>2, <1>3, <1>7 DEF SendFinish
<1>8. Tells(f) => VainStays
  BY <1>3, <1>7 DEF Tells, SendRelease, SendDisembargo, SendResolve, clientVars
<1>9. Hosts(f) \/ ReturnsIntroduction(f) \/ PicksUp(f) => UNCHANGED vain
  BY DEF Hosts, ReturnsIntroduction, PicksUp, clientVars
<1> QED BY <1>3, <1>4, <1>5, <1>6, <1>8, <1>9 DEF Acts

\* handle_finish at the vat that holds the answer back.
LEMMA FinishDrops ==
  ASSUME NEW f \in Ends, TypeInv, ClaimedHere, RecvFinish(f)
  PROVE  DropsEarly(f)
<1>1. PICK e \in Ends : e = Peer[f] /\ f = Peer[e]
  BY PeerFacts
<1>2. PICK q : q = Head(inbox[f]).qid
  OBVIOUS
<1>3. ASSUME Embargoes(e, q) # {}
      PROVE  q \in HeldBack(f)
  <2>1. PICK vi \in Embargoes(e, q) : TRUE
    BY <1>3
  <2>2. PICK v \in Vats, i \in ProvisionSlots :
          /\ provisions[v][i] # NoProvision /\ provisions[v][i].embargoed
          /\ provisions[v][i].by = f /\ provisions[v][i].aqid = q
    BY <1>1, <2>1 DEF Embargoes
  <2>3. v = VatOf[f]
    BY <2>2 DEF ClaimedHere
  <2> QED BY <2>2, <2>3 DEF HeldBack
<1>4. InVain(e, {q} \cap HeldBack(f))
  BY <1>1, <1>2 DEF RecvFinish
<1>5. vain \in [Ends -> SUBSET QuestionIds]
  BY DEF TypeInv, TypeOK, ClientTypeOK
<1>6. q \in HeldBack(f) => q \in vain'[e]
  BY <1>4, <1>5 DEF InVain
<1> QED BY <1>1, <1>2, <1>3, <1>6 DEF DropsEarly

LEMMA HandlersDrop ==
  ASSUME NEW f \in Ends, TypeInv, ClaimedHere, Receive(f) \/ ReturnsIntroduction(f)
  PROVE  DropsEarly(f)
<1>1. RecvFinish(f) \/ ~Given(f, "Finish")
  BY DEF Receive, Given, RecvBootstrap, RecvCall, RecvRelease, RecvJoin, RecvDisembargo,
         RecvReturn, RecvProvide, RecvAccept, RecvOther, ReturnsIntroduction
<1> QED BY <1>1, FinishDrops DEF DropsEarly

\* Where the Finishes wait after the frame of a handler at f is gone, f = Peer[e].
LEMMA EndingMoves ==
  ASSUME NEW e \in Ends, NEW f \in Ends, f = Peer[e], NEW msgs, QueuesMoved(e, f, msgs), NEW q
  PROVE  /\ Ending(e, q) \subseteq Nat \ {0} /\ Ending(e, q)' \subseteq Nat \ {0}
         /\ \A k \in Nat \ {0} : k \in Ending(e, q)' <=> k + 1 \in Ending(e, q)
         /\ 1 \in Ending(e, q) <=> Given(f, "Finish") /\ Head(inbox[f]).qid = q
         /\ Ending(f, q) \subseteq Ending(f, q)'
<1>1. Peer[f] = e /\ e # f
  BY PeerFacts
<1>2. /\ Ending(e, q) = {k \in DOMAIN inbox[f] : inbox[f][k].type = "Finish" /\ inbox[f][k].qid = q}
      /\ Ending(e, q)' = {k \in DOMAIN inbox'[f] : inbox'[f][k].type = "Finish"
                                                   /\ inbox'[f][k].qid = q}
      /\ Ending(f, q) = {k \in DOMAIN inbox[e] : inbox[e][k].type = "Finish" /\ inbox[e][k].qid = q}
      /\ Ending(f, q)' = {k \in DOMAIN inbox'[e] : inbox'[e][k].type = "Finish"
                                                   /\ inbox'[e][k].qid = q}
  BY <1>1 DEF Ending
<1>3. /\ DOMAIN inbox[f] \subseteq Nat \ {0} /\ DOMAIN inbox'[f] \subseteq Nat \ {0}
      /\ \A i \in Nat \ {0} : i \in DOMAIN inbox'[f] <=> i + 1 \in DOMAIN inbox[f]
      /\ \A i \in DOMAIN inbox'[f] : inbox'[f][i] = inbox[f][i + 1]
      /\ 1 \in DOMAIN inbox[f] /\ inbox[f][1] = Head(inbox[f])
  BY DEF QueuesMoved
<1>4. /\ DOMAIN inbox[e] \subseteq DOMAIN inbox'[e]
      /\ \A i \in DOMAIN inbox[e] : inbox'[e][i] = inbox[e][i]
  <2>1. /\ Len(inbox[e]) \in Nat /\ DOMAIN inbox[e] = 1 .. Len(inbox[e])
        /\ DOMAIN inbox'[e] = 1 .. (Len(inbox[e]) + Len(msgs)) /\ DOMAIN inbox'[e] \subseteq Nat \ {0}
        /\ \A i \in DOMAIN inbox[e] : inbox'[e][i] = inbox[e][i]
    BY DEF QueuesMoved
  <2> QED BY <2>1
<1>5. inbox[f] # <<>>
  BY <1>3
<1>6. 1 \in Ending(e, q) <=> Given(f, "Finish") /\ Head(inbox[f]).qid = q
  BY <1>2, <1>3, <1>5 DEF Given
<1>7. Ending(f, q) \subseteq Ending(f, q)'
  BY <1>2, <1>4
<1>8. /\ Ending(e, q) \subseteq Nat \ {0} /\ Ending(e, q)' \subseteq Nat \ {0}
      /\ \A k \in Nat \ {0} : k \in Ending(e, q)' <=> k + 1 \in Ending(e, q)
  BY <1>2, <1>3
<1> QED BY <1>6, <1>7, <1>8

\* Ends that do not take part see no Finish move.
LEMMA EndingRest ==
  ASSUME NEW e \in Ends, NEW f \in Ends, f = Peer[e], NEW msgs, QueuesMoved(e, f, msgs),
         NEW d \in Ends, d # e, d # f, NEW q
  PROVE  Ending(d, q)' = Ending(d, q)
<1>1. Peer[d] \in Ends /\ Peer[d] # e /\ Peer[d] # f
  BY PeerFacts
<1>2. inbox'[Peer[d]] = inbox[Peer[d]]
  BY <1>1 DEF QueuesMoved
<1> QED BY <1>2 DEF Ending

\* Of the answers that f keeps for question q of e none is new, and a Finish drops them.
KeepsLess(e, f, q) ==
  /\ Keeps(e, q)' \subseteq Keeps(e, q)
  /\ \A i \in Keeps(e, q)' : answers'[f][i] = answers[f][i]
  /\ Given(f, "Finish") /\ Head(inbox[f]).qid = q /\ Tally(Keeps(e, q)) <= 1
       => Keeps(e, q)' = {}

\* The Return ret, which f sends for question q of e, is kept in slot i.
KeepsMore(e, f, q, ret, i) ==
  /\ ~Given(f, "Finish") /\ KeepsIn(f, ret, i) /\ ret.qid = q
  /\ Served(e, q) \/ Embargoes(e, q) # {}
  /\ ret.cap # NoExport => server'[f][ret.cap] = ret.obj
  /\ Keeps(e, q)' = Keeps(e, q) \cup {i}
  /\ \A j \in Keeps(e, q) : answers'[f][j] = answers[f][j]
  /\ answers'[f][i] = [qid |-> ret.qid, cap |-> ret.cap, obj |-> ret.obj]

\* What becomes of the answers f keeps for the questions of e, f = Peer[e].
LEMMA KeepsMove ==
  ASSUME NEW e \in Ends, NEW f \in Ends, f = Peer[e], TypeInv, AnswersMove(f),
         NEW q \in QuestionIds
  PROVE  KeepsLess(e, f, q) \/ \E ret \in Return, i \in AnswerSlots : KeepsMore(e, f, q, ret, i)
<1>1. Peer[f] = e /\ e # f
  BY PeerFacts
<1>2. answers \in [Ends -> [AnswerSlots -> KeptAnswer \cup {NoAnswer}]]
  BY DEF TypeInv, TypeOK, ServerTypeOK
<1>3. NoAnswer \notin KeptAnswer
  BY UnusedSlotsAssumption
<1>5. CASE UNCHANGED answers /\ ~Given(f, "Finish")
  BY <1>5 DEF Keeps, KeepsLess
<1>6. CASE KeepsOne(f)
  <2>1. PICK ret \in Return, i \in AnswerSlots :
          /\ KeepsIn(f, ret, i)
          /\ Served(e, ret.qid) \/ Embargoes(e, ret.qid) # {}
          /\ ret.cap # NoExport => server'[f][ret.cap] = ret.obj
    BY <1>1, <1>6 DEF KeepsOne
  <2>2. PICK a : a = [qid |-> ret.qid, cap |-> ret.cap, obj |-> ret.obj]
    OBVIOUS
  <2>3. a \in KeptAnswer /\ a.qid = ret.qid
    BY <2>2 DEF KeptAnswer, Return
  <2>4. answers[f][i] = NoAnswer /\ answers' = [answers EXCEPT ![f][i] = a]
    BY <2>1, <2>2 DEF KeepsIn
  <2>5. answers'[f][i] = a /\ \A j \in AnswerSlots : j # i => answers'[f][j] = answers[f][j]
    BY <1>2, <2>4
  <2>6. Keeps(e, q)' = Keeps(e, q) \cup (IF ret.qid = q THEN {i} ELSE {})
        /\ i \notin Keeps(e, q)
    BY <1>3, <2>3, <2>4, <2>5 DEF Keeps
  <2>7. \A j \in Keeps(e, q) : answers'[f][j] = answers[f][j]
    BY <2>5, <2>6 DEF Keeps
  <2>8. ~Given(f, "Finish")
    BY <1>6 DEF KeepsOne
  <2>9. CASE ret.qid = q
    <3>1. KeepsMore(e, f, q, ret, i)
      BY <2>1, <2>2, <2>5, <2>6, <2>7, <2>8, <2>9 DEF KeepsMore
    <3> QED BY <3>1
  <2>10. CASE ret.qid # q
    BY <2>6, <2>7, <2>8, <2>10 DEF KeepsLess
  <2> QED BY <2>9, <2>10
<1>7. CASE DropsOne(f)
  <2> DEFINE m == Head(inbox[f])
             kept == {i \in AnswerSlots : answers[f][i] # NoAnswer /\ answers[f][i].qid = m.qid}
  <2>1. answers' = IF kept = {} THEN answers ELSE [answers EXCEPT ![f][First(kept)] = NoAnswer]
    BY <1>7 DEF DropsOne
  <2>2. kept = Keeps(e, m.qid)
    BY DEF Keeps
  <2>3. kept # {} => First(kept) \in kept
    BY FirstInNat, Ranges
  <2> HIDE DEF kept, m
  <2>4. \A i \in AnswerSlots : answers'[f][i] \in {answers[f][i], NoAnswer}
    BY <1>2, <2>1
  <2>5. Keeps(e, q)' \subseteq Keeps(e, q)
        /\ \A i \in Keeps(e, q)' : answers'[f][i] = answers[f][i]
    BY <2>4 DEF Keeps
  <2>6. ASSUME m.qid = q, Tally(Keeps(e, q)) <= 1
        PROVE  Keeps(e, q)' = {}
    <3>1. CASE kept = {}
      BY <2>2, <2>5, <2>6, <3>1
    <3>2. CASE kept # {}
      <4>1. PICK i \in kept : i = First(kept)
        BY <2>3, <3>2
      <4>2. i \in AnswerSlots /\ answers'[f][i] = NoAnswer
        BY <1>2, <2>1, <2>2, <3>2, <4>1 DEF Keeps
      <4>3. i \notin Keeps(e, q)'
        BY <4>2 DEF Keeps
      <4>4. \A j \in Keeps(e, q) : j = i
        BY <2>2, <2>6, <4>1, TallyFacts
      <4> QED BY <2>5, <4>3, <4>4
    <3> QED BY <3>1, <3>2
  <2> QED BY <2>5, <2>6 DEF m, KeepsLess
<1> QED BY <1>5, <1>6, <1>7 DEF AnswersMove

\* The answers kept for the questions of other ends stay.
LEMMA KeepsRest ==
  ASSUME NEW e \in Ends, NEW f \in Ends, f = Peer[e], TypeInv, AnswersMove(f),
         NEW d \in Ends, d # e, NEW q
  PROVE  Keeps(d, q)' = Keeps(d, q) /\ answers'[Peer[d]] = answers[Peer[d]]
<1>1. answers \in [Ends -> [AnswerSlots -> KeptAnswer \cup {NoAnswer}]]
  BY DEF TypeInv, TypeOK, ServerTypeOK
<1>2. Peer[d] \in Ends /\ Peer[d] # f
  BY PeerFacts
<1>3. answers'[Peer[d]] = answers[Peer[d]]
  BY <1>1, <1>2 DEF AnswersMove, KeepsOne, DropsOne, KeepsIn
<1> QED BY <1>3 DEF Keeps

\* What a handler at f leaves of a question of the end it answers.
LEMMA ServesMoves ==
  ASSUME NEW e \in Ends, NEW f \in Ends, f = Peer[e], Serves(f), NEW q \in QuestionIds
  PROVE  /\ \A i \in Asking(e, q)' : i + 1 \in Asking(e, q)
         /\ Served(e, q) => 1 \in Asking(e, q)
         /\ \A k \in Ending(e, q) : k = 1 \/ k - 1 \in Ending(e, q)'
         /\ 1 \in Ending(e, q) => Given(f, "Finish") /\ Head(inbox[f]).qid = q
         /\ Ending(e, q) \subseteq Nat \ {0} /\ Asking(e, q) \subseteq Nat \ {0}
         /\ Asking(e, q)' \subseteq Nat \ {0}
<1>1. Peer[f] = e
  BY PeerFacts
<1>2. PICK msgs \in Seq(Message) : QueuesMoved(e, f, msgs) /\ FramesMoved(e, f, msgs, q)
  BY <1>1 DEF Serves
<1>3. /\ Ending(e, q) \subseteq Nat \ {0} /\ Ending(e, q)' \subseteq Nat \ {0}
      /\ \A k \in Nat \ {0} : k \in Ending(e, q)' <=> k + 1 \in Ending(e, q)
      /\ 1 \in Ending(e, q) <=> Given(f, "Finish") /\ Head(inbox[f]).qid = q
  BY <1>2, EndingMoves, ZenonT(40)
<1>4. \A k \in Ending(e, q) : k = 1 \/ k - 1 \in Ending(e, q)'
  <2> TAKE k \in Ending(e, q)
  <2>1. CASE k # 1
    <3>1. k - 1 \in Nat \ {0} /\ (k - 1) + 1 = k
      BY <1>3, <2>1
    <3> QED BY <1>3, <3>1
  <2> QED BY <2>1
<1>5. /\ Asking(e, q) \subseteq Nat \ {0} /\ Asking(e, q)' \subseteq Nat \ {0}
      /\ \A i \in Nat \ {0} : i \in Asking(e, q)' <=> i + 1 \in Asking(e, q)
      /\ 1 \in Asking(e, q) <=> Served(e, q)
  BY <1>2 DEF FramesMoved, Served
<1>6. \A i \in Asking(e, q)' : i + 1 \in Asking(e, q)
  BY <1>5
<1> QED BY <1>3, <1>4, <1>5, <1>6

\* The ends that are not answered keep what the invariant says of them.
LEMMA ServesRest ==
  ASSUME NEW e \in Ends, NEW f \in Ends, f = Peer[e], TypeInv, Serves(f),
         NEW d \in Ends, d # e, NEW q \in QuestionIds
  PROVE  /\ Asking(d, q)' = Asking(d, q) /\ Ending(d, q) \subseteq Ending(d, q)'
         /\ Keeps(d, q)' = Keeps(d, q) /\ SlotsOf(d, q)' = SlotsOf(d, q)
         /\ Parts(d, q)' # {} => Parts(d, q) # {}
         /\ Embargoes(d, q)' # {} => Embargoes(d, q) # {}
<1>1. Peer[f] = e
  BY PeerFacts
<1>2. PICK msgs \in Seq(Message) : QueuesMoved(e, f, msgs) /\ FramesMoved(e, f, msgs, q)
  BY <1>1 DEF Serves
<1>3. /\ Ending(f, q) \subseteq Ending(f, q)'
      /\ d # f => Ending(d, q)' = Ending(d, q)
  <2>1. QueuesMoved(e, f, msgs)
    BY <1>2
  <2>2. Ending(f, q) \subseteq Ending(f, q)'
    BY <2>1, EndingMoves
  <2>3. ASSUME d # f PROVE Ending(d, q)' = Ending(d, q)
    BY <2>1, <2>3, EndingRest
  <2> QED BY <2>2, <2>3
<1>4. d = f => Asking(f, q)' = Asking(f, q)
  BY <1>2 DEF FramesMoved
<1>5. d # f => Asking(d, q)' = Asking(d, q)
  BY <1>2, OthersUnmoved, ZenonT(40)
<1>6. Keeps(d, q)' = Keeps(d, q)
  BY KeepsRest DEF Serves
<1>7. /\ SlotsOf(d, q)' = SlotsOf(d, q)
      /\ Parts(d, q)' # {} => Parts(d, q) # {}
      /\ Embargoes(d, q)' # {} => Embargoes(d, q) # {}
  BY <1>1 DEF Serves
<1> QED BY <1>1, <1>3, <1>4, <1>5, <1>6, <1>7

\* A handler that keeps the answer to question q has sent it, so it is nowhere else.
LEMMA KeptIsReturning ==
  ASSUME NEW e \in Ends, NEW f \in Ends, f = Peer[e], TypeInv, TypeInv', FlowInv',
         inbox[f] # <<>>, NEW ret \in Return, NEW i, KeepsIn(f, ret, i), NEW q \in QuestionIds, ret.qid = q
  PROVE  /\ Asking(e, q)' = {} /\ Parts(e, q)' = {} /\ Embargoes(e, q)' = {}
         /\ q < nextQid'[e]
         /\ \E r \in Returning(e, q)' : inbox'[e][r] = ret
<1>1. inbox \in [Ends -> Seq(Message)]
  BY DEF TypeInv, TypeOK
<1>2. PICK msgs \in Seq(Message) : msgs = <<ret>>
  <2>1. ret \in Message
    BY DEF Message
  <2>2. <<ret>> \in Seq(Message)
    BY <2>1
  <2> QED BY <2>2
<1>3. Answer(f, msgs)
  BY <1>2 DEF KeepsIn
<1>4. QueuesMoved(e, f, msgs)
  BY <1>1, <1>3, AnswerQueues
<1>5. PICK n \in Nat : /\ n = Len(inbox[e]) + 1 /\ n \in DOMAIN inbox'[e] /\ inbox'[e][n] = ret
  <2>1. /\ Len(inbox[e]) \in Nat /\ DOMAIN inbox'[e] = 1 .. (Len(inbox[e]) + 1)
        /\ inbox'[e][Len(inbox[e]) + 1] = ret
    BY <1>2, <1>4, SMTT(30) DEF QueuesMoved
  <2> QED BY <2>1
<1>6. n \in Returning(e, q)'
  BY <1>5 DEF Returning, Return
<1>7. Returning(e, q)' # {}
  BY <1>6
<1>8. Tally(Asking(e, q)') = 0 /\ Tally(Parts(e, q)') = 0 /\ Tally(Embargoes(e, q)') = 0
      /\ Places(e, q)' # 0
  <2>1. /\ Tally(Asking(e, q)') \in 0 .. 2 /\ Tally(Returning(e, q)') \in 1 .. 2
        /\ Tally(Parts(e, q)') \in 0 .. 2 /\ Tally(Embargoes(e, q)') \in 0 .. 2
        /\ Tally(Answered(e, q)') \in 0 .. 2
    BY <1>7, TallyFacts
  <2>2. Places(e, q)' <= 1
    BY DEF FlowInv, OnePlace
  <2>3. Places(e, q)' = Tally(Asking(e, q)') + Tally(Returning(e, q)') + Tally(Parts(e, q)')
                        + Tally(Embargoes(e, q)') + Tally(Answered(e, q)')
    BY DEF Places, Tally
  <2> QED BY <2>1, <2>2, <2>3
<1>9. q < nextQid'[e]
  <2>1. ~(q >= nextQid'[e])
    BY <1>8 DEF FlowInv, IdsInTurn
  <2>2. nextQid'[e] \in Int /\ q \in Int
    <3>1. nextQid' \in [Ends -> 0 .. MaxAsks] /\ MaxAsks \in Nat
      BY WireAssumption DEF TypeInv, TypeOK, ClientTypeOK, WireAssumption
    <3> QED BY <3>1, Ranges
  <2> QED BY <2>1, <2>2
<1> QED BY <1>5, <1>6, <1>8, <1>9, TallyFacts

\* A handler keeps the invariant of the kept answers.
LEMMA ServesKeepsAnswers ==
  ASSUME NEW e \in Ends, NEW f \in Ends, f = Peer[e], TypeInv, TypeInv', FlowInv', AnswerInv,
         Serves(f), VainStays, DropsEarly(f)
  PROVE  AnswerInv'
<1>1. Peer[f] = e
  BY PeerFacts
<1>2. ASSUME NEW d \in Ends, d # e, NEW q \in QuestionIds
      PROVE  Once(d, q)' /\ Follows(d, q)'
  <2>1. /\ Asking(d, q)' = Asking(d, q) /\ Ending(d, q) \subseteq Ending(d, q)'
        /\ Keeps(d, q)' = Keeps(d, q) /\ SlotsOf(d, q)' = SlotsOf(d, q)
        /\ Parts(d, q)' # {} => Parts(d, q) # {}
        /\ Embargoes(d, q)' # {} => Embargoes(d, q) # {}
    BY <1>2, ServesRest
  <2>2. nextQid' = nextQid /\ (q \in vain[d] => q \in vain'[d])
    BY DEF Serves, VainStays
  <2>3. Once(d, q) /\ Follows(d, q)
    BY DEF AnswerInv, KeptOnce, EndsFollow
  <2>4. Once(d, q)'
    BY <2>1, <2>2, <2>3 DEF Once, Tally
  <2>5. Follows(d, q)'
    BY <2>1, <2>2, <2>3 DEF Follows
  <2> QED BY <2>4, <2>5
<1>3. ASSUME NEW q \in QuestionIds
      PROVE  Once(e, q)' /\ Follows(e, q)'
  <2>1. /\ \A i \in Asking(e, q)' : i + 1 \in Asking(e, q)
        /\ Served(e, q) => 1 \in Asking(e, q)
        /\ \A k \in Ending(e, q) : k = 1 \/ k - 1 \in Ending(e, q)'
        /\ 1 \in Ending(e, q) => Given(f, "Finish") /\ Head(inbox[f]).qid = q
        /\ Ending(e, q) \subseteq Nat \ {0} /\ Asking(e, q) \subseteq Nat \ {0}
        /\ Asking(e, q)' \subseteq Nat \ {0}
    BY ServesMoves
  <2>2. /\ SlotsOf(e, q)' = SlotsOf(e, q) /\ nextQid' = nextQid
        /\ Parts(e, q)' # {} => Parts(e, q) # {} \/ Served(e, q)
        /\ Embargoes(e, q)' # {} => Embargoes(e, q) # {} \/ Served(e, q)
        /\ q \in vain[e] => q \in vain'[e]
    BY <1>1 DEF Serves, VainStays
  <2>3. /\ Keeps(e, q) # {} =>
             /\ Tally(Keeps(e, q)) <= 1
             /\ Asking(e, q) = {} /\ Parts(e, q) = {} /\ Embargoes(e, q) = {}
             /\ q < nextQid[e]
        /\ SlotsOf(e, q) = {} /\ q \notin vain[e] =>
             /\ \A i \in Asking(e, q) : \E k \in Ending(e, q) : k > i
             /\ Keeps(e, q) # {} \/ Embargoes(e, q) # {} => Ending(e, q) # {}
    BY DEF AnswerInv, KeptOnce, EndsFollow, Once, Follows
  <2>4. KeepsLess(e, f, q) \/ \E ret \in Return, i \in AnswerSlots : KeepsMore(e, f, q, ret, i)
    BY KeepsMove DEF Serves
  <2>5. ASSUME SlotsOf(e, q)' = {}, q \notin vain'[e]
        PROVE  \A i \in Asking(e, q)' : \E k \in Ending(e, q)' : k > i
    <3> TAKE i \in Asking(e, q)'
    <3>1. i \in Nat \ {0} /\ i + 1 \in Asking(e, q)
      BY <2>1
    <3>2. PICK k \in Ending(e, q) : k > i + 1
      BY <2>2, <2>3, <2>5, <3>1
    <3>3. k \in Nat /\ k # 1 /\ k - 1 > i
      BY <2>1, <3>1, <3>2
    <3> QED BY <2>1, <3>3
  <2>6. ASSUME SlotsOf(e, q)' = {}, q \notin vain'[e], Embargoes(e, q)' # {}
        PROVE  Ending(e, q)' # {}
    <3>1. CASE Embargoes(e, q) # {}
      <4>1. PICK k \in Ending(e, q) : TRUE
        BY <2>2, <2>3, <2>6, <3>1
      <4>2. k # 1
        BY <1>1, <2>1, <2>6, <3>1, <4>1 DEF DropsEarly
      <4> QED BY <2>1, <4>1, <4>2
    <3>2. CASE Served(e, q)
      <4>1. PICK k \in Ending(e, q) : k > 1
        BY <2>1, <2>2, <2>3, <2>6, <3>2
      <4> QED BY <2>1, <4>1
    <3> QED BY <2>2, <2>6, <3>1, <3>2
  <2>7. CASE KeepsLess(e, f, q)
    <3>0. /\ Keeps(e, q)' \subseteq Keeps(e, q)
          /\ Given(f, "Finish") /\ Head(inbox[f]).qid = q /\ Tally(Keeps(e, q)) <= 1
               => Keeps(e, q)' = {}
      BY <2>7 DEF KeepsLess
    <3>1. Once(e, q)'
      <4> SUFFICES ASSUME Keeps(e, q)' # {}
                   PROVE  /\ Tally(Keeps(e, q)') <= 1
                          /\ Asking(e, q)' = {} /\ Parts(e, q)' = {} /\ Embargoes(e, q)' = {}
                          /\ q < nextQid'[e]
        BY DEF Once, Tally
      <4>1. Keeps(e, q) # {}
        BY <3>0
      <4>2. Tally(Keeps(e, q)') <= 1
        BY <2>3, <3>0, <4>1, TallyFacts
      <4> QED BY <2>1, <2>2, <2>3, <4>1, <4>2
    <3>2. ASSUME SlotsOf(e, q)' = {}, q \notin vain'[e], Keeps(e, q)' # {}
          PROVE  Ending(e, q)' # {}
      <4>1. Keeps(e, q) # {}
        BY <3>0, <3>2
      <4>2. PICK k \in Ending(e, q) : TRUE
        BY <2>2, <2>3, <3>2, <4>1
      <4>3. k # 1
        BY <2>1, <2>3, <3>0, <3>2, <4>1, <4>2
      <4> QED BY <2>1, <4>2, <4>3
    <3> QED BY <2>5, <2>6, <3>1, <3>2 DEF Follows
  <2>8. CASE \E ret \in Return, i \in AnswerSlots : KeepsMore(e, f, q, ret, i)
    <3>1. PICK ret \in Return, i \in AnswerSlots :
            /\ KeepsIn(f, ret, i) /\ ret.qid = q /\ ~Given(f, "Finish")
            /\ Served(e, q) \/ Embargoes(e, q) # {}
            /\ Keeps(e, q)' = Keeps(e, q) \cup {i}
      BY <2>8 DEF KeepsMore
    <3>2. Keeps(e, q) = {}
      BY <2>1, <2>3, <3>1
    <3>3. Tally(Keeps(e, q)') <= 1
      BY <3>1, <3>2, TallyOne
    <3>4. /\ Asking(e, q)' = {} /\ Parts(e, q)' = {} /\ Embargoes(e, q)' = {}
          /\ q < nextQid'[e]
      BY <3>1, KeptIsReturning DEF Serves
    <3>5. ASSUME SlotsOf(e, q)' = {}, q \notin vain'[e]
          PROVE  Ending(e, q)' # {}
      <4>1. PICK k \in Ending(e, q) : k # 1
        <5>1. CASE Served(e, q)
          BY <2>1, <2>2, <2>3, <3>5, <5>1
        <5>2. CASE Embargoes(e, q) # {}
          <6>1. PICK k \in Ending(e, q) : TRUE
            BY <2>2, <2>3, <3>5, <5>2
          <6> QED BY <2>1, <3>1, <6>1
        <5> QED BY <3>1, <5>1, <5>2
      <4> QED BY <2>1, <4>1
    <3>6. Once(e, q)'
      BY <3>3, <3>4 DEF Once, Tally
    <3> QED BY <2>5, <3>5, <3>6 DEF Follows
  <2> QED BY <2>4, <2>7, <2>8
<1>4. \A d \in Ends, q \in QuestionIds : Once(d, q)' /\ Follows(d, q)'
  BY <1>2, <1>3
<1> QED BY <1>4 DEF AnswerInv, KeptOnce, EndsFollow

\* Every handler but handle_return.
LEMMA HandlesServes ==
  ASSUME NEW f \in Ends, TypeInv, Handles(f), AnswersMove(f)
  PROVE  Serves(f)
<1>1. PICK e \in Ends : e = Peer[f] /\ f = Peer[e]
  BY PeerFacts
<1>2. PICK msgs \in Seq(Message) :
        /\ Answer(f, msgs)
        /\ \A k \in 1 .. Len(msgs) : msgs[k].type \notin RequestTypes
        /\ \A q \in QuestionIds : Handled(e, q, msgs)
        /\ \A d \in Ends \ {e}, q \in QuestionIds :
             Parts(d, q)' = Parts(d, q) /\ Embargoes(d, q)' = Embargoes(d, q)
        /\ inbox[f] # <<>>
        /\ UNCHANGED <<questions, nextQid>>
  BY <1>1 DEF Handles
<1>3. inbox \in [Ends -> Seq(Message)]
  BY DEF TypeInv, TypeOK
<1>4. QueuesMoved(e, f, msgs)
  BY <1>1, <1>2, <1>3, AnswerQueues
<1>5. ASSUME NEW q \in QuestionIds
      PROVE  FramesMoved(e, f, msgs, q)
  BY <1>1, <1>2, <1>3, AnswerMoves
<1>6. ASSUME NEW q \in QuestionIds
      PROVE  /\ Parts(e, q)' # {} => Parts(e, q) # {} \/ Served(e, q)
             /\ Embargoes(e, q)' # {} => Embargoes(e, q) # {} \/ Served(e, q)
  <2>1. Handled(e, q, msgs)
    BY <1>2
  <2> QED BY <2>1 DEF Handled
<1>7. \A d \in Ends, q \in QuestionIds : SlotsOf(d, q)' = SlotsOf(d, q)
  BY <1>2, SlotsUnmoved
<1>8. \A d \in Ends, q \in QuestionIds :
        /\ Parts(d, q)' # {} => Parts(d, q) # {} \/ (d = e /\ Served(d, q))
        /\ Embargoes(d, q)' # {} => Embargoes(d, q) # {} \/ (d = e /\ Served(d, q))
  <2> TAKE d \in Ends, q \in QuestionIds
  <2>1. CASE d = e
    BY <1>6, <2>1
  <2>2. CASE d # e
    BY <1>2, <2>2
  <2> QED BY <2>1, <2>2
<1>9. UNCHANGED nextQid /\ inbox[f] # <<>>
  BY <1>2
<1>10. \E s \in Seq(Message) :
         QueuesMoved(e, f, s) /\ \A q \in QuestionIds : FramesMoved(e, f, s, q)
  BY <1>4, <1>5
<1> QED BY <1>1, <1>7, <1>8, <1>9, <1>10 DEF Serves

\* handle_return
LEMMA ReturnServes ==
  ASSUME NEW f \in Ends, TypeInv, RecvReturn(f)
  PROVE  Serves(f)
<1>1. PICK e \in Ends : e = Peer[f] /\ f = Peer[e]
  BY PeerFacts
<1>2. PICK m : m = Head(inbox[f])
  OBVIOUS
<1>3. /\ inbox[f] # <<>> /\ m \in Message /\ m.type = "Return" /\ Given(f, "Return")
  BY <1>2, HandlerFacts DEF RecvReturn
<1>4. m \in Return /\ m.qid \in QuestionIds
  BY <1>3, MessageFields DEF Return
<1>5. Absorb(f) /\ UNCHANGED nextQid /\ UNCHANGED <<joins, provisions>> /\ UNCHANGED answers
  BY DEF RecvReturn, HandleReturn, serverVars
<1>6. NoneKept
  BY <1>5, NoneKeptSame
<1>7. PICK msgs \in Seq(Message) : msgs = <<>>
  BY NoFrames
<1>8. inbox \in [Ends -> Seq(Message)] /\ Answer(f, msgs) /\ \A k \in 1 .. Len(msgs) : FALSE
  BY <1>5, <1>7 DEF TypeInv, TypeOK, Absorb
<1>9. QueuesMoved(e, f, msgs)
  BY <1>1, <1>3, <1>8, AnswerQueues
<1>10. ASSUME NEW q \in QuestionIds
       PROVE  FramesMoved(e, f, msgs, q)
  BY <1>1, <1>3, <1>8, AnswerMoves
<1>11. UNCHANGED questions \/ \E s \in SlotsOf(f, m.qid) : Records(f, m, s)
  <2>1. CASE Recorded(f, m)
    <3>1. Min(SlotsOf(f, m.qid)) \in SlotsOf(f, m.qid)
      BY <2>1, MinInNat, Ranges DEF Recorded, SlotsOf
    <3>2. Records(f, m, Min(SlotsOf(f, m.qid)))
      BY <1>2, <2>1 DEF RecvReturn, HandleReturn, Records
    <3> QED BY <3>1, <3>2
  <2>2. CASE ~Recorded(f, m)
    BY <1>2, <2>2 DEF RecvReturn, HandleReturn
  <2> QED BY <2>1, <2>2
<1>12. \A d \in Ends, q \in QuestionIds : SlotsOf(d, q)' = SlotsOf(d, q)
  BY <1>4, <1>11, SlotsUnmoved, RecordsFacts
<1>13. AnswersMove(f)
  BY <1>3, <1>5, RestMoves
<1>14. \E s \in Seq(Message) :
         QueuesMoved(e, f, s) /\ \A q \in QuestionIds : FramesMoved(e, f, s, q)
  BY <1>9, <1>10
<1> QED BY <1>1, <1>3, <1>5, <1>6, <1>12, <1>13, <1>14 DEF Serves, NoneKept

\* Every handler of capnp_rpc_handle serves its frame.
LEMMA ReceiveServes ==
  ASSUME NEW f \in Ends, TypeInv, OnePlace, PledgesNamed, EmbargoedAcceptsReachClaimant',
         Receive(f)
  PROVE  Serves(f)
<1>1. AnswersMove(f)
  BY HandlersMove
<1>2. CASE RecvReturn(f)
  BY <1>2, ReturnServes
<1>3. CASE ~RecvReturn(f)
  <2>1. Handles(f)
    BY <1>3, BootstrapHandles, CallHandles, NoticesHandle, JoinHandles, DisembargoHandles,
       ProvideHandles, AcceptHandles DEF Receive
  <2> QED BY <1>1, <2>1, HandlesServes
<1> QED BY <1>2, <1>3

\* The call of a vat that is not this library is answered by its application.
LEMMA IntroductionServes ==
  ASSUME NEW f \in Ends, TypeInv, ReturnsIntroduction(f)
  PROVE  Serves(f)
<1>1. Given(f, "Call") /\ UNCHANGED answers
  BY DEF ReturnsIntroduction
<1>2. AnswersMove(f)
  BY <1>1, RestMoves
<1>3. Handles(f)
  BY ReturnsIntroductionHandles
<1> QED BY <1>2, <1>3, HandlesServes

-----------------------------------------------------------------------------
(* Kept answers are finished: the applications *)

\* An application's step: a request takes the next id; a question that is forgotten
\* leaves a Finish behind its request, or is finished in vain.
ActsOn(d, q) ==
  /\ Ending(d, q) \subseteq Ending(d, q)'
  /\ \A i \in Asking(d, q)' :
       i \in Asking(d, q) \/ (q = nextQid[d] /\ SlotsOf(d, q)' # {})
  /\ SlotsOf(d, q)' = {} /\ SlotsOf(d, q) # {} =>
       \/ q \in vain'[d]
       \/ \E k \in Ending(d, q)' : \A i \in Asking(d, q)' : i < k

\* An operation that only asks, finishes or notifies keeps AnswerInv.
LEMMA ActsKeepsAnswers ==
  ASSUME TypeInv, TypeInv', AnswerInv, UNCHANGED answers, NoneKept, VainStays,
         \A d \in Ends : nextQid'[d] \in {nextQid[d], nextQid[d] + 1},
         \A d \in Ends, q \in QuestionIds : ActsOn(d, q)
  PROVE  AnswerInv'
<1>1. ASSUME NEW d \in Ends, NEW q \in QuestionIds
      PROVE  Once(d, q)' /\ Follows(d, q)'
  <2>1. Keeps(d, q)' = Keeps(d, q) /\ Parts(d, q)' = Parts(d, q) /\ Embargoes(d, q)' = Embargoes(d, q)
    BY DEF Keeps, NoneKept
  <2>2. /\ nextQid[d] \in Int /\ q \in Int /\ nextQid'[d] \in {nextQid[d], nextQid[d] + 1}
    <3>1. nextQid \in [Ends -> 0 .. MaxAsks] /\ MaxAsks \in Nat
      BY WireAssumption DEF TypeInv, TypeOK, ClientTypeOK, WireAssumption
    <3> QED BY <3>1, Ranges
  <2>3. Once(d, q) /\ Follows(d, q)
    BY DEF AnswerInv, KeptOnce, EndsFollow
  <2>4. ActsOn(d, q) /\ (q \in vain[d] => q \in vain'[d])
    BY DEF VainStays
  <2>5. Once(d, q)'
    <3> SUFFICES ASSUME Keeps(d, q)' # {}
                 PROVE  /\ Tally(Keeps(d, q)') <= 1
                        /\ Asking(d, q)' = {} /\ Parts(d, q)' = {} /\ Embargoes(d, q)' = {}
                        /\ q < nextQid'[d]
      BY DEF Once, Tally
    <3>1. /\ Tally(Keeps(d, q)) <= 1
          /\ Asking(d, q) = {} /\ Parts(d, q) = {} /\ Embargoes(d, q) = {}
          /\ q < nextQid[d]
      BY <2>1, <2>3 DEF Once
    <3>2. q # nextQid[d] /\ q < nextQid'[d]
      BY <2>2, <3>1
    <3>3. Asking(d, q)' = {}
      BY <2>4, <3>1, <3>2 DEF ActsOn
    <3> QED BY <2>1, <3>1, <3>2, <3>3
  <2>6. ASSUME SlotsOf(d, q)' = {}, q \notin vain'[d]
        PROVE  /\ \A i \in Asking(d, q)' : \E k \in Ending(d, q)' : k > i
               /\ Keeps(d, q)' # {} \/ Embargoes(d, q)' # {} => Ending(d, q)' # {}
    <3>1. Asking(d, q)' \subseteq Asking(d, q) /\ Ending(d, q) \subseteq Ending(d, q)'
      BY <2>4, <2>6 DEF ActsOn
    <3>2. CASE SlotsOf(d, q) = {}
      <4>1. /\ \A i \in Asking(d, q) : \E k \in Ending(d, q) : k > i
            /\ Keeps(d, q) # {} \/ Embargoes(d, q) # {} => Ending(d, q) # {}
        BY <2>3, <2>4, <2>6, <3>2 DEF Follows
      <4> QED BY <2>1, <3>1, <4>1
    <3>3. CASE SlotsOf(d, q) # {}
      <4>1. PICK k \in Ending(d, q)' : \A i \in Asking(d, q)' : i < k
        BY <2>4, <2>6, <3>3 DEF ActsOn
      <4>2. \A i \in Asking(d, q)' : k > i
        <5> TAKE i \in Asking(d, q)'
        <5>1. i < k
          BY <4>1
        <5> QED BY <5>1
      <4> QED BY <4>1, <4>2
    <3> QED BY <3>2, <3>3
  <2> QED BY <2>5, <2>6 DEF Follows
<1> QED BY <1>1 DEF AnswerInv, KeptOnce, EndsFollow

\* Where the Finishes wait after one message is posted.
LEMMA PostEnds ==
  ASSUME NEW e \in Ends, TypeInv, NEW m \in Message, Post(e, m), NEW d \in Ends, NEW q
  PROVE  /\ Ending(d, q) \subseteq Ending(d, q)'
         /\ \A k \in Ending(d, q)' :
              \/ k \in Ending(d, q)
              \/ d = e /\ m.type = "Finish" /\ m.qid = q /\ k = Len(inbox[Peer[e]]) + 1
         /\ d = e /\ m.type = "Finish" /\ m.qid = q => Len(inbox[Peer[e]]) + 1 \in Ending(d, q)'
<1>1. PICK f \in Ends : f = Peer[e]
  BY PeerFacts
<1>2. PICK b \in Seq(Message) : b = inbox[f]
  BY DEF TypeInv, TypeOK
<1>3. inbox' = [inbox EXCEPT ![f] = Append(b, m)] /\ inbox \in [Ends -> Seq(Message)]
  BY <1>1, <1>2 DEF Post, TypeInv, TypeOK
<1>4. inbox'[f] = Append(b, m) /\ \A g \in Ends : g # f => inbox'[g] = inbox[g]
  BY <1>3
<1>5. /\ DOMAIN Append(b, m) = DOMAIN b \cup {Len(b) + 1}
      /\ \A i \in DOMAIN b : Append(b, m)[i] = b[i]
      /\ Append(b, m)[Len(b) + 1] = m
  OBVIOUS
<1>6. Peer[d] \in Ends /\ (Peer[d] = f <=> d = e)
  BY <1>1, PeerFacts
<1>7. CASE d = e
  <2>1. inbox[Peer[d]] = b /\ inbox'[Peer[d]] = Append(b, m) /\ Len(inbox[Peer[e]]) = Len(b)
    BY <1>1, <1>2, <1>4, <1>7
  <2> QED BY <1>5, <1>7, <2>1 DEF Ending
<1>8. CASE d # e
  <2>1. inbox'[Peer[d]] = inbox[Peer[d]]
    BY <1>4, <1>6, <1>8
  <2> QED BY <1>8, <2>1 DEF Ending
<1> QED BY <1>7, <1>8

\* A step that moves no frame and no question.
LEMMA QuietActs ==
  ASSUME UNCHANGED <<questions, inbox>>, NEW d \in Ends, NEW q
  PROVE  ActsOn(d, q)
BY DEF ActsOn, Ending, Asking, SlotsOf

\* A request of an application.
LEMMA RequestActs ==
  ASSUME NEW e \in Ends, TypeInv, Requests(e), NEW d \in Ends, NEW q \in QuestionIds
  PROVE  ActsOn(d, q)
<1>1. PICK req \in Request : req.qid = nextQid[e] /\ Ask(e, req)
  BY DEF Requests
<1>2. req.qid \in QuestionIds
  BY <1>1, NextQidType DEF Ask, TypeInv
<1>3. CASE Claim(e, req) /\ Post(e, req)
  <2>1. FreeQuestions(e) \subseteq Nat /\ FreeQuestions(e) # {}
    BY <1>1, Ranges DEF Ask, FreeQuestions
  <2>2. PICK i \in FreeQuestions(e) : i = Min(FreeQuestions(e))
    BY <2>1, MinInNat
  <2>3. Claims(e, i, req)
    BY <1>3, <2>2 DEF Claim, Claims
  <2>4. SlotsOf(d, q)' = IF d = e /\ q = req.qid THEN SlotsOf(d, q) \cup {i} ELSE SlotsOf(d, q)
    BY <1>2, <2>3, ClaimsFacts
  <2>5. req \in Message /\ req.type # "Return" /\ req.type \in RequestTypes
    BY DEF Message, Request, RequestTypes
  <2>6. FramesKept(e, q, IF req.type \in RequestTypes /\ req.qid = q
                         THEN {Len(inbox[Peer[e]]) + 1} ELSE {})
    BY <1>3, <2>5, PostMoves
  <2>7. Ending(d, q) \subseteq Ending(d, q)'
    BY <1>3, <2>5, PostEnds
  <2>8. ASSUME NEW k \in Asking(d, q)', k \notin Asking(d, q)
        PROVE  q = nextQid[d] /\ SlotsOf(d, q)' # {}
    <3>1. d = e
      BY <2>6, <2>8 DEF FramesKept
    <3>2. q = req.qid
      BY <2>6, <2>8, <3>1 DEF FramesKept
    <3> QED BY <1>1, <2>4, <3>1, <3>2
  <2>9. ~(SlotsOf(d, q)' = {} /\ SlotsOf(d, q) # {})
    BY <2>4
  <2> QED BY <2>7, <2>8, <2>9 DEF ActsOn
<1>4. CASE UNCHANGED <<questions, inbox>>
  BY <1>4, QuietActs
<1> QED BY <1>1, <1>3, <1>4 DEF Ask, SendFails

\* A notice that forgets no question.
LEMMA NoticeActs ==
  ASSUME NEW e \in Ends, TypeInv, Notifies(e), UNCHANGED questions,
         NEW d \in Ends, NEW q \in QuestionIds
  PROVE  ActsOn(d, q)
<1>1. PICK m \in Notice : Post(e, m) \/ UNCHANGED inbox
  BY DEF Notifies
<1>2. m \in Message /\ m.type # "Return" /\ m.type \notin RequestTypes
  BY DEF Message, Notice, RequestTypes
<1>3. CASE Post(e, m)
  <2>1. FramesKept(e, q, IF m.type \in RequestTypes /\ m.qid = q
                         THEN {Len(inbox[Peer[e]]) + 1} ELSE {})
    BY <1>2, <1>3, PostMoves
  <2>2. Asking(d, q)' = Asking(d, q)
    BY <1>2, <2>1 DEF FramesKept
  <2>3. Ending(d, q) \subseteq Ending(d, q)'
    BY <1>2, <1>3, PostEnds
  <2>4. SlotsOf(d, q)' = SlotsOf(d, q)
    BY DEF SlotsOf
  <2> QED BY <2>2, <2>3, <2>4 DEF ActsOn
<1>4. CASE UNCHANGED inbox
  BY <1>4, QuietActs
<1> QED BY <1>1, <1>3, <1>4

\* capnp_rpc_send_finish, whether the Finish is sent or not.
LEMMA FinishActs ==
  ASSUME NEW e \in Ends, TypeInv, NEW r \in OpenQuestions(e), SendFinish(e, r.qid),
         NEW d \in Ends, NEW q \in QuestionIds
  PROVE  ActsOn(d, q)
<1>1. r.qid \in QuestionIds
  BY OpenQuestionType DEF TypeInv
<1>2. PICK m \in Message : m = [type |-> "Finish", qid |-> r.qid]
  <2>1. [type |-> "Finish", qid |-> r.qid] \in Message
    BY <1>1 DEF Message, Notice
  <2> QED BY <2>1
<1>3. /\ m.type = "Finish" /\ m.type # "Return" /\ m.type \notin RequestTypes /\ m.qid = r.qid
      /\ Forget(e, r.qid)
  BY <1>2 DEF SendFinish, RequestTypes
<1>4. Post(e, m) \/ (UNCHANGED inbox /\ InVain(e, {r.qid}))
  BY <1>2 DEF SendFinish, SendFails
<1>5. questions \in [Ends -> [QuestionSlots -> Question \cup {NoQuestion}]]
      /\ vain \in [Ends -> SUBSET QuestionIds]
  BY DEF TypeInv, TypeOK, ClientTypeOK
<1>6. PICK i0 \in SlotsOf(e, r.qid) : i0 = Min(SlotsOf(e, r.qid))
  <2>1. PICK s \in SlotsOf(e, r.qid) : questions[e][s] = r
    BY DEF OpenQuestions, FreeQuestions, SlotsOf
  <2> QED BY <2>1, SlotsOfType
<1>7. questions' = [questions EXCEPT ![e][i0] = NoQuestion]
  BY <1>3, <1>6 DEF Forget
<1>8. ~(d = e /\ q = r.qid) => SlotsOf(d, q)' = SlotsOf(d, q)
  <2> SUFFICES ASSUME ~(d = e /\ q = r.qid)
               PROVE  SlotsOf(d, q)' = SlotsOf(d, q)
    OBVIOUS
  <2>1. i0 \in QuestionSlots /\ questions[e][i0] # NoQuestion /\ questions[e][i0].qid = r.qid
    BY <1>6 DEF SlotsOf
  <2>2. questions'[e][i0] = NoQuestion
    BY <1>5, <1>7, <2>1
  <2>3. \A i \in QuestionSlots : ~(d = e /\ i = i0) => questions'[d][i] = questions[d][i]
    BY <1>5, <1>7
  <2> QED BY <2>1, <2>2, <2>3 DEF SlotsOf
<1>9. CASE Post(e, m)
  <2>1. FramesKept(e, q, IF m.type \in RequestTypes /\ m.qid = q
                         THEN {Len(inbox[Peer[e]]) + 1} ELSE {})
    BY <1>3, <1>9, PostMoves
  <2>2. Asking(d, q)' = Asking(d, q)
    BY <1>3, <2>1 DEF FramesKept
  <2>3. Ending(d, q) \subseteq Ending(d, q)'
        /\ (d = e /\ r.qid = q => Len(inbox[Peer[e]]) + 1 \in Ending(d, q)')
    BY <1>3, <1>9, PostEnds
  <2>4. ASSUME d = e, q = r.qid
        PROVE  \E k \in Ending(d, q)' : \A i \in Asking(d, q)' : i < k
    <3>1. PICK b \in Seq(Message) : b = inbox[Peer[e]]
      BY PeerFacts DEF TypeInv, TypeOK
    <3>2. Len(b) \in Nat /\ DOMAIN b = 1 .. Len(b)
      OBVIOUS
    <3>3. \A i \in Asking(d, q)' : i \in 1 .. Len(b)
      BY <2>2, <2>4, <3>1, <3>2 DEF Asking
    <3>4. \A i \in Asking(d, q)' : i < Len(b) + 1
      BY <3>2, <3>3
    <3>5. Len(b) + 1 \in Ending(d, q)'
      BY <2>3, <2>4, <3>1
    <3> QED BY <3>4, <3>5
  <2> QED BY <1>8, <2>2, <2>3, <2>4 DEF ActsOn
<1>10. CASE UNCHANGED inbox /\ InVain(e, {r.qid})
  <2>1. Asking(d, q)' = Asking(d, q) /\ Ending(d, q)' = Ending(d, q)
    BY <1>10 DEF Asking, Ending
  <2>2. d = e /\ q = r.qid => q \in vain'[d]
    BY <1>5, <1>10 DEF InVain
  <2> QED BY <1>8, <2>1, <2>2 DEF ActsOn
<1> QED BY <1>4, <1>9, <1>10

-----------------------------------------------------------------------------
(* Kept answers are finished: the theorem *)

\* Every operation of an application but the answering of a call.
LEMMA ApplicationsKeepAnswers ==
  ASSUME TypeInv, TypeInv', AnswerInv, NEW e \in Ends, Acts(e), ~ReturnsIntroduction(e)
  PROVE  AnswerInv'
<1>0. VainStays
  BY VainGrows
<1>1. UNCHANGED answers /\ NoneKept
  <2>1. UNCHANGED answers /\ UNCHANGED <<joins, provisions>>
    BY DEF Acts, Asks, Tells, Hosts, SetBootstrap, Introduces, PicksUp, IntroductionDone,
           serverVars, handoffVars
  <2> QED BY <2>1, NoneKeptSame
<1>2. nextQid \in [Ends -> 0 .. MaxAsks]
  BY DEF TypeInv, TypeOK, ClientTypeOK
<1>3. CASE Requests(e)
  <2>1. nextQid' = [nextQid EXCEPT ![e] = @ + 1]
    BY <1>3 DEF Requests, Ask
  <2>2. \A d \in Ends : nextQid'[d] \in {nextQid[d], nextQid[d] + 1}
    BY <1>2, <2>1
  <2>3. \A d \in Ends, q \in QuestionIds : ActsOn(d, q)
    BY <1>3, RequestActs
  <2> QED BY <1>0, <1>1, <2>2, <2>3, ActsKeepsAnswers
<1>4. CASE UNCHANGED nextQid /\ Notifies(e) /\ UNCHANGED questions
  <2>1. \A d \in Ends, q \in QuestionIds : ActsOn(d, q)
    BY <1>4, NoticeActs
  <2>2. \A d \in Ends : nextQid'[d] \in {nextQid[d], nextQid[d] + 1}
    BY <1>4
  <2> QED BY <1>0, <1>1, <2>1, <2>2, ActsKeepsAnswers
<1>5. CASE \E r \in OpenQuestions(e) : SendFinish(e, r.qid)
  <2>1. PICK r \in OpenQuestions(e) : SendFinish(e, r.qid)
    BY <1>5
  <2>2. \A d \in Ends, q \in QuestionIds : ActsOn(d, q)
    BY <2>1, FinishActs
  <2>3. UNCHANGED nextQid
    BY <2>1 DEF SendFinish
  <2>4. \A d \in Ends : nextQid'[d] \in {nextQid[d], nextQid[d] + 1}
    BY <2>3
  <2> QED BY <1>0, <1>1, <2>2, <2>4, ActsKeepsAnswers
<1>6. CASE UNCHANGED <<inbox, questions, nextQid>>
  <2>1. \A d \in Ends, q \in QuestionIds : ActsOn(d, q)
    BY <1>6, QuietActs
  <2>2. \A d \in Ends : nextQid'[d] \in {nextQid[d], nextQid[d] + 1}
    BY <1>6
  <2> QED BY <1>0, <1>1, <2>1, <2>2, ActsKeepsAnswers
<1>7. Asks(e) \/ Introduces(e) => Requests(e)
  BY AsksRequest, IntroducesTypes DEF TypeInv
<1>8. Tells(e) => \/ UNCHANGED nextQid /\ Notifies(e) /\ UNCHANGED questions
                  \/ \E r \in OpenQuestions(e) : SendFinish(e, r.qid)
  <2> SUFFICES ASSUME Tells(e)
               PROVE  \/ UNCHANGED nextQid /\ Notifies(e) /\ UNCHANGED questions
                      \/ \E r \in OpenQuestions(e) : SendFinish(e, r.qid)
    OBVIOUS
  <2>1. Notifies(e) /\ UNCHANGED nextQid
    BY TellsNotify DEF TypeInv
  <2>2. UNCHANGED questions \/ \E r \in OpenQuestions(e) : SendFinish(e, r.qid)
    BY DEF Tells, SendRelease, SendDisembargo, SendResolve, clientVars
  <2> QED BY <2>1, <2>2
<1>9. PicksUp(e) => UNCHANGED nextQid /\ Notifies(e) /\ UNCHANGED questions
  BY PicksUpTypes DEF PicksUp, clientVars, TypeInv
<1>10. Hosts(e) => UNCHANGED <<inbox, questions, nextQid>>
  BY DEF Hosts, SetBootstrap, clientVars
<1> QED BY <1>3, <1>4, <1>5, <1>6, <1>7, <1>8, <1>9, <1>10 DEF Acts

\* Every step keeps AnswerInv.
LEMMA AnswerStep ==
  ASSUME TypeInv, TypeInv', FlowInv, FlowInv', RefInv, RouteInv, RouteInv', AnswerInv,
         [Next]_vars
  PROVE  AnswerInv'
<1>1. CASE UNCHANGED vars
  <2>1. UNCHANGED <<answers, inbox, questions, nextQid, vain>> /\ UNCHANGED <<joins, provisions>>
    BY <1>1 DEF vars, clientVars
  <2>2. \A d \in Ends, q \in QuestionIds : ActsOn(d, q)
    BY <2>1, QuietActs
  <2>3. VainStays
    BY <2>1 DEF VainStays
  <2> QED BY <2>1, <2>2, <2>3, NoneKeptSame, ActsKeepsAnswers
<1>2. ASSUME NEW f \in Ends, Serves(f), Receive(f) \/ ReturnsIntroduction(f)
      PROVE  AnswerInv'
  <2>1. PICK e \in Ends : f = Peer[e]
    BY PeerFacts
  <2>2. VainStays
    BY <1>2, VainGrows DEF Acts
  <2>3. DropsEarly(f)
    BY <1>2, HandlersDrop DEF RouteInv
  <2> QED BY <1>2, <2>1, <2>2, <2>3, ServesKeepsAnswers
<1>3. ASSUME NEW f \in Ends, Receive(f)
      PROVE  AnswerInv'
  <2>1. EmbargoedAcceptsReachClaimant'
    BY RoutedReach, PTL
  <2> QED BY <1>2, <1>3, <2>1, ReceiveServes DEF FlowInv, RefInv
<1>4. ASSUME NEW f \in Ends, Acts(f)
      PROVE  AnswerInv'
  BY <1>2, <1>4, IntroductionServes, ApplicationsKeepAnswers
<1> QED BY <1>1, <1>3, <1>4 DEF Next

\* Nothing is kept and nothing is asked before the first step.
LEMMA AnswerInit == Init => AnswerInv
<1> SUFFICES ASSUME Init
             PROVE  AnswerInv
  OBVIOUS
<1>1. ASSUME NEW e \in Ends, NEW q \in QuestionIds
      PROVE  /\ Keeps(e, q) = {} /\ Asking(e, q) = {} /\ Embargoes(e, q) = {}
             /\ SlotsOf(e, q) = {}
  <2>1. Peer[e] \in Ends
    BY PeerFacts
  <2>2. Keeps(e, q) = {}
    BY <2>1 DEF Init, ServerInit, Keeps
  <2>3. Asking(e, q) = {}
    BY <2>1 DEF Init, WireInit, Asking
  <2>4. Embargoes(e, q) = {}
    BY DEF Init, HandoffInit, Embargoes
  <2>5. SlotsOf(e, q) = {}
    BY DEF Init, ClientInit, SlotsOf
  <2> QED BY <2>2, <2>3, <2>4, <2>5
<1> QED BY <1>1 DEF AnswerInv, KeptOnce, Once, EndsFollow, Follows

\* An answer is kept for a question that is open, or whose Finish is on its way, or
\* that was finished in vain.
LEMMA AnswersWillBeFinished == TypeInv /\ AnswerInv => KeptAnswersWillBeFinished
<1> SUFFICES ASSUME TypeInv, AnswerInv, NEW e \in Ends, NEW i \in AnswerSlots,
                    answers[e][i] # NoAnswer
             PROVE  \/ \E q \in OpenQuestions(Peer[e]) : q.qid = answers[e][i].qid
                    \/ \E k \in DOMAIN inbox[e] : /\ inbox[e][k].type = "Finish"
                                                  /\ inbox[e][k].qid = answers[e][i].qid
                    \/ answers[e][i].qid \in vain[Peer[e]]
  BY DEF KeptAnswersWillBeFinished
<1>1. PICK d \in Ends : d = Peer[e] /\ e = Peer[d]
  BY PeerFacts
<1>2. PICK q \in QuestionIds : q = answers[e][i].qid
  BY DEF TypeInv, TypeOK, ServerTypeOK, KeptAnswer
<1>3. Keeps(d, q) # {}
  BY <1>1, <1>2 DEF Keeps
<1>4. CASE SlotsOf(d, q) = {}
  <2>1. q \in vain[d] \/ Ending(d, q) # {}
    BY <1>3, <1>4 DEF AnswerInv, EndsFollow, Follows
  <2> QED BY <1>1, <1>2, <2>1 DEF Ending
<1>5. CASE SlotsOf(d, q) # {}
  <2>1. PICK s \in SlotsOf(d, q) : TRUE
    BY <1>5
  <2>2. questions[d][s] \in OpenQuestions(d) /\ questions[d][s].qid = q
    BY <2>1 DEF SlotsOf, OpenQuestions, FreeQuestions
  <2> QED BY <1>1, <1>2, <2>2
<1> QED BY <1>4, <1>5

\* An answer is kept only for a question whose Finish the peer has not sent or that is
\* on its way, whatever crosses on the wire (flush_answer, handle_finish,
\* capnp_rpc_send_finish).  A slot of the table is lost in no way but the two of vain: a
\* Finish that could not be sent, and one that overtook the lifting of an embargo.
THEOREM KeptAnswersFinished ==
  ASSUME Routed
  PROVE  Spec => []KeptAnswersWillBeFinished
<1>1. Spec => []TypeInv /\ []FlowInv /\ []RefInv /\ []RouteInv
  BY TypeInvariant, FlowInvariant, RefInvariant, RouteInvariant, PTL
<1>2. Init => AnswerInv
  BY AnswerInit
<1>3. TypeInv /\ TypeInv' /\ FlowInv /\ FlowInv' /\ RefInv /\ RouteInv /\ RouteInv'
      /\ AnswerInv /\ [Next]_vars => AnswerInv'
  BY AnswerStep
<1>4. TypeInv /\ AnswerInv => KeptAnswersWillBeFinished
  BY AnswersWillBeFinished
<1> QED BY <1>1, <1>2, <1>3, <1>4, PTL DEF Spec

-----------------------------------------------------------------------------
(* Kept answers name their object: the frames before a Finish *)

\* The frames before a place are a part of the queue.
LEMMA BeforeFacts ==
  ASSUME NEW w \in Seq(Message), NEW k \in 1 .. (Len(w) + 1)
  PROVE  /\ Before(w, k) \in Seq(Message)
         /\ \E r \in Seq(Message) : w = Before(w, k) \o r
<1>1. Len(w) \in Nat /\ k \in Nat /\ k - 1 \in 0 .. Len(w) /\ k - 1 + 1 = k
      /\ Len(w) \in (k - 1) .. Len(w) /\ 1 \in 1 .. (Len(w) + 1)
  OBVIOUS
<1>2. \A i \in 1 .. Len(w) : w[i] \in Message
  OBVIOUS
<1>3. SubSeq(w, 1, k - 1) \in Seq(Message)
  <2>1. \A i \in 1 .. (k - 1) : w[i] \in Message
    BY <1>1, <1>2
  <2> QED BY <1>1, <2>1, SubSeqProperties
<1>4. SubSeq(w, k, Len(w)) \in Seq(Message)
  <2>1. \A i \in k .. Len(w) : w[i] \in Message
    BY <1>1, <1>2
  <2> QED BY <1>1, <2>1, SubSeqProperties
<1>5. SubSeq(w, 1, k - 1) \o SubSeq(w, k - 1 + 1, Len(w)) = SubSeq(w, 1, Len(w))
  <2>1. k - 1 \in (1 - 1) .. Len(w)
    BY <1>1
  <2> QED BY <1>1, <2>1, ConcatAdjacentSubSeq
<1>6. w = SubSeq(w, 1, k - 1) \o SubSeq(w, k, Len(w))
  BY <1>1, <1>5, SubSeqFull
<1> QED BY <1>3, <1>4, <1>6 DEF Before

\* What is sent later comes after the frames before a place.
LEMMA BeforeAppend ==
  ASSUME NEW w \in Seq(Message), NEW r \in Seq(Message), NEW k \in 1 .. (Len(w) + 1)
  PROVE  /\ Before(w \o r, k) = Before(w, k)
         /\ Before(w \o r, Len(w) + 1) = w
<1>1. Len(w) \in Nat /\ k \in Nat
  OBVIOUS
<1>2. ASSUME NEW n \in 0 .. Len(w)
      PROVE  SubSeq(w \o r, 1, n) = SubSeq(w, 1, n)
  <2>1. CASE n = 0
    <3>1. n \in Int /\ n < 1
      BY <2>1
    <3>2. SubSeq(w \o r, 1, n) = <<>> /\ SubSeq(w, 1, n) = <<>>
      BY <3>1, SubSeqEmpty
    <3> QED BY <3>2
  <2>2. CASE n # 0
    <3>1. 1 \in 1 .. Len(w) /\ n \in 1 .. Len(w)
      BY <1>1, <2>2
    <3> QED BY <3>1, SubSeqOfConcat1
  <2> QED BY <2>1, <2>2
<1>3. k - 1 \in 0 .. Len(w) /\ Len(w) \in 0 .. Len(w) /\ Len(w) + 1 - 1 = Len(w)
  BY <1>1
<1>4. SubSeq(w, 1, Len(w)) = w
  BY SubSeqFull
<1> QED BY <1>2, <1>3, <1>4 DEF Before

\* Taking the first frame takes it from the frames before every later place.
LEMMA BeforeTail ==
  ASSUME NEW w \in Seq(Message), w # <<>>, NEW k \in 2 .. (Len(w) + 1)
  PROVE  Before(w, k) = <<Head(w)>> \o Before(Tail(w), k - 1)
<1>1. Len(w) \in Nat /\ Len(w) >= 1 /\ k \in Nat /\ k - 1 \in 1 .. Len(w) /\ 1 \in 1 .. Len(w)
      /\ Head(w) = w[1] /\ k - 1 - 1 = k - 2 /\ 1 + 1 = 2 /\ k - 2 \in Int /\ k - 1 \in Int
  OBVIOUS
<1>2. SubSeq(w, 1, k - 1) = <<w[1]>> \o SubSeq(w, 1 + 1, k - 1)
  BY <1>1, SubSeqRecursiveFirst
<1>3. SubSeq(Tail(w), 1, k - 2) = SubSeq(w, 2, k - 1)
  <2>1. CASE k = 2
    <3>1. k - 2 < 1 /\ k - 1 < 2
      BY <2>1
    <3> QED BY <1>1, <3>1, SubSeqEmpty
  <2>2. CASE k # 2
    <3>1. 2 \in 1 .. Len(w) /\ Len(w) \in 1 .. Len(w) /\ 1 \in 1 .. (Len(w) - 2 + 1)
          /\ k - 2 \in 1 .. (Len(w) - 2 + 1) /\ 2 + 1 - 1 = 2 /\ 2 + (k - 2) - 1 = k - 1
      BY <1>1, <2>2
    <3>2. SubSeq(SubSeq(w, 2, Len(w)), 1, k - 2) = SubSeq(w, 2 + 1 - 1, 2 + (k - 2) - 1)
      BY <3>1, SubSeqOfSubSeq
    <3>3. Tail(w) = SubSeq(w, 2, Len(w))
      BY TailIsSubSeq
    <3> QED BY <3>1, <3>2, <3>3
  <2> QED BY <2>1, <2>2
<1> QED BY <1>1, <1>2, <1>3 DEF Before

\* What the first frames give back, all of them give back.
LEMMA BeforeWeighs ==
  ASSUME NEW x \in ExportIds, NEW w \in Seq(Message), NEW k \in 1 .. (Len(w) + 1)
  PROVE  /\ GivenBackIn(Before(w, k), x) \in Nat /\ GivenBackIn(w, x) \in Nat
         /\ GivenBackIn(Before(w, k), x) <= GivenBackIn(w, x)
<1>1. PICK v \in Seq(Message) : v = Before(w, k)
  BY BeforeFacts
<1>2. PICK r \in Seq(Message) : w = v \o r
  BY <1>1, BeforeFacts
<1>3. /\ GivenBackIn(v \o r, x) = GivenBackIn(v, x) + GivenBackIn(r, x)
      /\ GivenBackIn(v, x) \in Nat /\ GivenBackIn(r, x) \in Nat
  BY QueuesWeigh
<1>4. GivenBackIn(w, x) = GivenBackIn(v, x) + GivenBackIn(r, x)
  BY <1>2, <1>3
<1> QED BY <1>1, <1>3, <1>4

-----------------------------------------------------------------------------
(* What is held is counted *)

\* Of the references that an end counts, the Releases on their way leave some for as long
\* as the peer holds one, or a Return with one is on its way to it.
HeldIsCounted ==
  \A e \in Ends, x \in ExportIds :
    \/ imports[Peer[e]][x].n > 0
    \/ \E i \in DOMAIN inbox[Peer[e]] : /\ inbox[Peer[e]][i].type = "Return"
                                        /\ inbox[Peer[e]][i].cap = x
    => GivenBackIn(inbox[e], x) < refcount[e][x]

\* Outstanding, term by term: one reference or one capability on its way exceeds
\* the Releases on their way.
LEMMA HeldAreCounted == TermsTyped /\ TypeOK /\ Counted => HeldIsCounted
<1> SUFFICES ASSUME TermsTyped, TypeOK, Counted, NEW e \in Ends, NEW x \in ExportIds,
                    \/ imports[Peer[e]][x].n > 0
                    \/ \E i \in DOMAIN inbox[Peer[e]] : /\ inbox[Peer[e]][i].type = "Return"
                                                        /\ inbox[Peer[e]][i].cap = x
             PROVE  GivenBackIn(inbox[e], x) < refcount[e][x]
  BY DEF HeldIsCounted
<1>1. PICK p \in Ends : p = Peer[e]
  BY PeerFacts
<1>2. /\ imports[p][x].n \in Nat
      /\ Cardinality(Vines(introductions[p], x)) \in Nat
      /\ CarriedIn(inbox[p], x) \in Nat
      /\ GivenBackIn(inbox[e], x) \in Nat
      /\ Cardinality(Pledged(e, x)) \in Nat
      /\ refcount[e][x] \in Int
  BY <1>1 DEF TermsTyped
<1>3. refcount[e][x] >= imports[p][x].n + Cardinality(Vines(introductions[p], x))
        + CarriedIn(inbox[p], x) + GivenBackIn(inbox[e], x) + Cardinality(Pledged(e, x))
  BY <1>1 DEF Counted, Outstanding
<1>4. imports[p][x].n >= 1 \/ CarriedIn(inbox[p], x) >= 1
  <2>1. CASE imports[p][x].n > 0
    BY <1>2, <2>1
  <2>2. ASSUME NEW i \in DOMAIN inbox[p], inbox[p][i].type = "Return", inbox[p][i].cap = x
        PROVE  CarriedIn(inbox[p], x) >= 1
    <3>1. inbox[p] \in Seq(Message) /\ x # NoExport
      BY Ranges DEF TypeOK
    <3> QED BY <2>2, <3>1, ReturnCarries
  <2> QED BY <1>1, <2>1, <2>2
<1> QED BY ONLY <1>2, <1>3, <1>4

\* What a question has brought is counted.
BroughtCounts ==
  \A e \in Ends, q \in QuestionIds, x \in ExportIds :
    Brings(e, q, x) => GivenBackIn(inbox[Peer[e]], x) < refcount[Peer[e]][x]

\* An answer that has been brought is held, one that will be is on its way.
LEMMA BroughtAreCounted == HeldIsCounted /\ BroughtIsHeld => BroughtCounts
<1> SUFFICES ASSUME HeldIsCounted, BroughtIsHeld, NEW e \in Ends, NEW q \in QuestionIds,
                    NEW x \in ExportIds, Brings(e, q, x)
             PROVE  GivenBackIn(inbox[Peer[e]], x) < refcount[Peer[e]][x]
  BY DEF BroughtCounts
<1>1. PICK p \in Ends : p = Peer[e] /\ e = Peer[p]
  BY PeerFacts
<1>2. imports[e][x].n > 0
      \/ \E i \in DOMAIN inbox[e] : inbox[e][i].type = "Return" /\ inbox[e][i].cap = x
  BY DEF Brings, BroughtIsHeld, Returning
<1> QED BY <1>1, <1>2 DEF HeldIsCounted

\* An export that backs a kept answer is in use.
BackedIsUsed ==
  \A e \in Ends, q \in QuestionIds, x \in ExportIds :
    Brings(e, q, x) \/ Leaves(e, q, x) => refcount[Peer[e]][x] # 0

\* An answer that stands names an export in use.
LEMMA BackedAreUsed == TypeOK /\ BroughtCounts => BackedIsUsed
<1> SUFFICES ASSUME TypeOK, BroughtCounts, NEW e \in Ends, NEW q \in QuestionIds,
                    NEW x \in ExportIds, Brings(e, q, x) \/ Leaves(e, q, x)
             PROVE  refcount[Peer[e]][x] # 0
  BY DEF BackedIsUsed
<1>1. PICK w \in Seq(Message) : w = inbox[Peer[e]]
  BY PeerFacts DEF TypeOK
<1>2. PICK c : c = refcount[Peer[e]][x]
  OBVIOUS
<1>3. CASE Brings(e, q, x)
  <2>1. GivenBackIn(w, x) < c /\ GivenBackIn(w, x) \in Nat
    BY <1>1, <1>2, <1>3, GivenBackFacts DEF BroughtCounts
  <2> QED BY <1>2, <2>1
<1>4. CASE Leaves(e, q, x)
  <2>1. PICK k \in DOMAIN w : GivenBackIn(Before(w, k), x) < c
    BY <1>1, <1>2, <1>4 DEF Leaves, Ending
  <2>2. k \in 1 .. (Len(w) + 1)
    OBVIOUS
  <2>3. GivenBackIn(Before(w, k), x) \in Nat
    BY <2>2, BeforeWeighs
  <2> QED BY <1>2, <2>1, <2>3
<1> QED BY <1>3, <1>4

\* The three, after a step as before it.
LEMMA BackedBoth ==
  ASSUME TypeInv, TypeInv', Counted, Counted', BroughtIsHeld, BroughtIsHeld'
  PROVE  /\ HeldIsCounted /\ HeldIsCounted' /\ BroughtCounts /\ BroughtCounts'
         /\ BackedIsUsed /\ BackedIsUsed'
<1>1. TypeOK /\ TypeOK' /\ TermsTyped /\ TermsTyped'
  BY TermsTypes DEF TypeInv
<1>2. HeldIsCounted /\ HeldIsCounted'
  BY <1>1, HeldAreCounted, PTL
<1>3. BroughtCounts /\ BroughtCounts'
  BY <1>2, BroughtAreCounted, PTL
<1> QED BY <1>1, <1>2, <1>3, BackedAreUsed, PTL

-----------------------------------------------------------------------------
(* A handler takes back what its frame gives back, and no more *)

\* The counts at f after frame m, which only a Release lowers.
CountsLast(f, m) ==
  \A x \in ExportIds : refcount'[f][x] + GivesBack(m, x) >= refcount[f][x]

\* A count that stays, or gains one, lowers nothing.
LEMMA CountsRest ==
  ASSUME NEW f \in Ends, TypeInv, NEW m \in Message,
         \A x \in ExportIds : refcount'[f][x] \in {refcount[f][x], refcount[f][x] + 1}
  PROVE  CountsLast(f, m)
<1> SUFFICES ASSUME NEW x \in ExportIds
             PROVE  refcount'[f][x] + GivesBack(m, x) >= refcount[f][x]
  BY DEF CountsLast
<1>1. PICK g \in Nat : g = GivesBack(m, x)
  BY CarriesType
<1>2. PICK n \in Int : n = refcount[f][x]
  BY DEF TypeInv, TypeOK, ServerTypeOK
<1> QED BY <1>1, <1>2

\* capnp_rpc_export adds a reference.
LEMMA ExportCounts ==
  ASSUME NEW f \in Ends, TypeInv, FreeIsZero, NEW s \in Servers, NEW x \in ExportIds,
         server[f][x] \in {s, NoServer}, Export(f, s, x)
  PROVE  \A y \in ExportIds : refcount'[f][y] \in {refcount[f][y], refcount[f][y] + 1}
<1>1. /\ refcount \in [Ends -> [ExportIds -> Int]]
      /\ refcount' = [refcount EXCEPT ![f][x] = IF server[f][x] = s THEN @ + 1 ELSE 1]
  BY DEF TypeInv, TypeOK, ServerTypeOK, Export
<1>2. /\ \A y \in ExportIds : y # x => refcount'[f][y] = refcount[f][y]
      /\ refcount'[f][x] = IF server[f][x] = s THEN refcount[f][x] + 1 ELSE 1
  BY <1>1
<1>3. server[f][x] # s => refcount[f][x] = 0
  BY DEF FreeIsZero, Used
<1> QED BY <1>2, <1>3

\* Counting one reference more.
LEMMA OneMoreCounts ==
  ASSUME NEW f \in Ends, TypeInv, NEW z, refcount' = [refcount EXCEPT ![f][z] = @ + 1]
  PROVE  \A y \in ExportIds : refcount'[f][y] \in {refcount[f][y], refcount[f][y] + 1}
<1>1. refcount \in [Ends -> [ExportIds -> Int]]
  BY DEF TypeInv, TypeOK, ServerTypeOK
<1> QED BY <1>1

\* handle_bootstrap
LEMMA BootstrapCounts ==
  ASSUME NEW f \in Ends, TypeInv, FreeIsZero, RecvBootstrap(f)
  PROVE  \A y \in ExportIds : refcount'[f][y] \in {refcount[f][y], refcount[f][y] + 1}
<1>1. PICK s, x : s = bootstrap[f] /\ x = ExportId(f, s)
  OBVIOUS
<1>2. CASE s = NoServer \/ x = NoExport
  BY <1>1, <1>2 DEF RecvBootstrap, HandleBootstrap, Refuse, serverVars
<1>3. CASE ~(s = NoServer \/ x = NoExport)
  <2>1. s \in Servers
    BY <1>1, <1>3 DEF TypeInv, TypeOK, ServerTypeOK
  <2>2. x \in ExportIds /\ server[f][x] \in {s, NoServer}
    BY <1>1, <1>3, <2>1, ExportIdType DEF TypeInv, TypeOK
  <2>3. Export(f, s, x)
    BY <1>1, <1>3 DEF RecvBootstrap, HandleBootstrap
  <2> QED BY <2>1, <2>2, <2>3, ExportCounts
<1> QED BY <1>2, <1>3

\* handle_provide
LEMMA ProvideCounts ==
  ASSUME NEW f \in Ends, TypeInv, RecvProvide(f)
  PROVE  \A y \in ExportIds : refcount'[f][y] \in {refcount[f][y], refcount[f][y] + 1}
<1>1. UNCHANGED refcount \/ refcount' = [refcount EXCEPT ![f][ResolveTarget(f, Head(inbox[f]).target)] = @ + 1]
  BY DEF RecvProvide, HandleProvide, Refuse, serverVars
<1> QED BY <1>1, OneMoreCounts

\* handle_accept
LEMMA AcceptCounts ==
  ASSUME NEW f \in Ends, TypeInv, FreeIsZero, RecvAccept(f)
  PROVE  \A y \in ExportIds : refcount'[f][y] \in {refcount[f][y], refcount[f][y] + 1}
<1>1. PICK m, v, match, x :
        /\ m = Head(inbox[f]) /\ v = VatOf[f] /\ match = Claimable(v, m.nonce)
        /\ x = ExportId(f, provisions[v][First(match)].server)
  OBVIOUS
<1>2. v \in Vats
  BY <1>1, HandoffAssumption DEF HandoffAssumption
<1>3. CASE match = {} \/ x = NoExport
  BY <1>1, <1>3 DEF RecvAccept, HandleAccept, Refuse, serverVars
<1>4. CASE match # {} /\ x # NoExport
  <2>1. PICK i \in ProvisionSlots : i = First(match) /\ provisions[v][i] # NoProvision
    <3>1. First(match) \in match
      BY <1>1, <1>4, FirstInNat, Ranges DEF Claimable
    <3> QED BY <1>1, <3>1 DEF Claimable
  <2>2. PICK s \in Servers : s = provisions[v][i].server
    BY <1>2, <2>1 DEF TypeInv, TypeOK, HandoffTypeOK, Provision
  <2>3. x \in ExportIds /\ server[f][x] \in {s, NoServer}
    BY <1>1, <1>4, <2>1, <2>2, ExportIdType DEF TypeInv, TypeOK
  <2>4. Export(f, s, x)
    BY <1>1, <1>4, <2>1, <2>2 DEF RecvAccept, HandleAccept, Grant
  <2> QED BY <2>2, <2>3, <2>4, ExportCounts
<1> QED BY <1>3, <1>4

\* handle_join
LEMMA JoinsCount ==
  ASSUME NEW f \in Ends, TypeInv, RecvJoin(f)
  PROVE  \A y \in ExportIds : refcount'[f][y] \in {refcount[f][y], refcount[f][y] + 1}
<1>1. UNCHANGED refcount \/ \E j : JoinComplete(f, j)
  BY DEF RecvJoin, HandleJoin
<1>2. UNCHANGED refcount \/ \E z : refcount' = [refcount EXCEPT ![f][z] = @ + 1]
  BY <1>1 DEF JoinComplete
<1> QED BY <1>2, OneMoreCounts

\* handle_release
LEMMA ReleaseCounts ==
  ASSUME NEW f \in Ends, TypeInv, RecvRelease(f), NEW m, m = Head(inbox[f])
  PROVE  CountsLast(f, m)
<1>1. m \in Message /\ m.type = "Release" /\ m.count \in Nat
  BY HandlerFacts, MessageFields DEF RecvRelease
<1>2. refcount \in [Ends -> [ExportIds -> Int]]
  BY DEF TypeInv, TypeOK, ServerTypeOK
<1>3. CASE ~(m.id \in ExportIds /\ Used(f, m.id))
  <2>1. UNCHANGED refcount
    BY <1>3 DEF RecvRelease, HandleRelease
  <2> QED BY <1>1, <2>1, CountsRest
<1>4. CASE m.id \in ExportIds /\ Used(f, m.id)
  <2>1. PICK left : left = refcount[f][m.id] - m.count
    OBVIOUS
  <2>2. refcount' = [refcount EXCEPT ![f][m.id] = IF left <= 0 THEN 0 ELSE left]
    BY <1>4, <2>1 DEF RecvRelease, HandleRelease
  <2>3. ASSUME NEW x \in ExportIds
        PROVE  refcount'[f][x] + GivesBack(m, x) >= refcount[f][x]
    <3>1. CASE x = m.id
      <4>1. refcount'[f][x] = IF left <= 0 THEN 0 ELSE left
        BY <1>2, <2>2, <3>1
      <4>2. GivesBack(m, x) = m.count
        BY <1>1, <3>1 DEF GivesBack
      <4>3. refcount[f][x] \in Int /\ left = refcount[f][x] - m.count
        BY <1>2, <2>1, <3>1
      <4> QED BY <1>1, <4>1, <4>2, <4>3
    <3>2. CASE x # m.id
      <4>1. refcount'[f][x] = refcount[f][x] /\ refcount[f][x] \in Int
        BY <1>2, <2>2, <3>2
      <4>2. GivesBack(m, x) = 0
        BY <3>2 DEF GivesBack
      <4> QED BY <4>1, <4>2
    <3> QED BY <3>1, <3>2
  <2> QED BY <2>3 DEF CountsLast
<1> QED BY <1>3, <1>4

\* The introductions of an application, which export a vine.
LEMMA IntroductionCounts ==
  ASSUME NEW f \in Ends, TypeInv, FreeIsZero, ReturnsIntroduction(f) \/ Introduces(f)
  PROVE  \A y \in ExportIds : refcount'[f][y] \in {refcount[f][y], refcount[f][y] + 1}
<1>1. PICK s \in Servers : \E x \in {ExportId(f, s)} : x # NoExport /\ Export(f, s, x)
  BY DEF ReturnsIntroduction, Introduces
<1>2. PICK x : x = ExportId(f, s) /\ x # NoExport /\ Export(f, s, x)
  BY <1>1
<1>3. x \in ExportIds /\ server[f][x] \in {s, NoServer}
  BY <1>2, ExportIdType DEF TypeInv, TypeOK
<1> QED BY <1>2, <1>3, ExportCounts

\* A handler lowers a count by what its frame gives back at most.
LEMMA HandlersCount ==
  ASSUME NEW f \in Ends, TypeInv, FreeIsZero, Receive(f) \/ ReturnsIntroduction(f),
         NEW m, m = Head(inbox[f])
  PROVE  CountsLast(f, m)
<1>1. m \in Message
  BY HandlerFacts DEF Receive, ReturnsIntroduction, RecvBootstrap, RecvCall, RecvFinish,
     RecvRelease, RecvJoin, RecvDisembargo, RecvReturn, RecvProvide, RecvAccept, RecvOther
<1>2. CASE RecvCall(f)
  BY <1>1, <1>2, CountsRest DEF RecvCall, HandleCall, Refuse, serverVars
<1>3. CASE RecvFinish(f) \/ RecvOther(f)
  BY <1>1, <1>3, CountsRest DEF RecvFinish, HandleFinish, RecvOther, HandleUnimplemented, serverVars
<1>4. CASE RecvDisembargo(f)
  BY <1>1, <1>4, CountsRest
     DEF RecvDisembargo, HandleDisembargo, HandleDisembargoProvide, serverVars
<1>5. CASE RecvReturn(f)
  BY <1>1, <1>5, CountsRest DEF RecvReturn, serverVars
<1> QED BY <1>1, <1>2, <1>3, <1>4, <1>5, CountsRest, BootstrapCounts, ProvideCounts, AcceptCounts,
           JoinsCount, ReleaseCounts, IntroductionCounts DEF Receive

-----------------------------------------------------------------------------
(* The end that keeps the answer *)

\* An export that is counted still stands for its object after a balanced step.
LEMMA ServerStays ==
  ASSUME NEW f \in Ends, Balanced(f), NEW x \in ExportIds, server[f][x] # NoServer,
         refcount'[f][x] # 0
  PROVE  server'[f][x] = server[f][x]
BY DEF Balanced, ExportsBalance

\* The peer's question still brings what it brought: its Return has not moved.
LEMMA KeeperBrings ==
  ASSUME NEW e \in Ends, NEW f \in Ends, f = Peer[e], NEW q, NEW x, Brings(e, q, x),
         questions'[e] = questions[e], DOMAIN inbox[e] \subseteq DOMAIN inbox'[e],
         \A i \in DOMAIN inbox[e] : inbox'[e][i] = inbox[e][i]
  PROVE  Brings(e, q, x)'
BY DEF Brings, SlotsOf, Returning

\* A balanced step sends behind what is on its way.
LEMMA BalancedSends ==
  ASSUME NEW f \in Ends, NEW e \in Ends, e = Peer[f], TypeInv, Balanced(f)
  PROVE  /\ \E sent \in Seq(Message) : inbox'[e] = inbox[e] \o sent
         /\ DOMAIN inbox[e] \subseteq DOMAIN inbox'[e]
         /\ \A i \in DOMAIN inbox[e] : inbox'[e][i] = inbox[e][i]
<1>1. PICK sent \in Seq(Message) : inbox'[e] = inbox[e] \o sent
  BY DEF Balanced, Turned
<1>2. PICK w \in Seq(Message) : w = inbox[e]
  BY DEF TypeInv, TypeOK
<1>3. /\ Len(w \o sent) = Len(w) + Len(sent) /\ w \o sent \in Seq(Message)
      /\ \A i \in 1 .. (Len(w) + Len(sent)) :
           (w \o sent)[i] = IF i <= Len(w) THEN w[i] ELSE sent[i - Len(w)]
  BY ConcatProperties
<1>4. /\ DOMAIN w = 1 .. Len(w) /\ DOMAIN (w \o sent) = 1 .. (Len(w) + Len(sent))
      /\ Len(w) \in Nat /\ Len(sent) \in Nat
  BY <1>3
<1>5. DOMAIN w \subseteq DOMAIN (w \o sent) /\ \A i \in DOMAIN w : (w \o sent)[i] = w[i]
  BY <1>3, <1>4
<1> QED BY <1>1, <1>2, <1>5

\* A handler takes the first frame of its queue.
LEMMA QueueTail ==
  ASSUME NEW e \in Ends, NEW f \in Ends, TypeInv, TypeInv', inbox[f] # <<>>, NEW msgs,
         QueuesMoved(e, f, msgs)
  PROVE  inbox'[f] = Tail(inbox[f])
<1>1. PICK w \in Seq(Message), v \in Seq(Message) : w = inbox[f] /\ v = inbox'[f]
  BY DEF TypeInv, TypeOK
<1>2. /\ \A i \in Nat \ {0} : i \in DOMAIN v <=> i + 1 \in DOMAIN w
      /\ \A i \in DOMAIN v : v[i] = w[i + 1]
  BY <1>1 DEF QueuesMoved
<1>3. /\ Tail(w) \in Seq(Message) /\ Len(Tail(w)) = Len(w) - 1
      /\ \A i \in 1 .. Len(Tail(w)) : Tail(w)[i] = w[i + 1]
  BY <1>1, HeadTailProperties
<1>4. Len(v) = Len(w) - 1
  <2>1. PICK n \in Nat, k \in Nat : n = Len(v) /\ k = Len(w)
    OBVIOUS
  <2>2. /\ \A i \in Nat \ {0} : i \in DOMAIN v <=> i <= n
        /\ \A i \in Nat \ {0} : i + 1 \in DOMAIN w <=> i + 1 <= k
    BY <2>1
  <2>3. \A i \in Nat \ {0} : i <= n <=> i + 1 <= k
    BY <1>2, <2>2
  <2>4. k >= 1
    BY <1>1, <2>1
  <2>5. n + 1 <= k
    BY ONLY <2>1, <2>3, <2>4
  <2>6. k <= n + 1
    BY ONLY <2>1, <2>3, <2>4
  <2> QED BY <2>1, <2>5, <2>6
<1>5. \A i \in 1 .. Len(v) : v[i] = Tail(w)[i]
  <2>1. DOMAIN v = 1 .. Len(v)
    OBVIOUS
  <2>2. \A i \in 1 .. Len(v) : v[i] = w[i + 1]
    BY <1>2, <2>1
  <2>3. \A i \in 1 .. Len(v) : Tail(w)[i] = w[i + 1]
    BY <1>3, <1>4
  <2> QED BY <2>2, <2>3
<1>6. v = Tail(w)
  BY <1>3, <1>4, <1>5, SeqEqual
<1> QED BY <1>1, <1>6

\* What a Finish leaves it still leaves when the queue before it has moved on.
LEMMA HandlerLeaves ==
  ASSUME NEW e \in Ends, NEW f \in Ends, f = Peer[e], TypeInv, TypeInv', Serves(f), NEW m,
         m = Head(inbox[f]), CountsLast(f, m), NEW q \in QuestionIds, NEW x \in ExportIds,
         Leaves(e, q, x), 1 \notin Ending(e, q)
  PROVE  Leaves(e, q, x)'
<1>1. PICK w \in Seq(Message) : w = inbox[f] /\ w # <<>>
  BY DEF TypeInv, TypeOK, Serves
<1>2. PICK k \in Ending(e, q) : GivenBackIn(Before(w, k), x) < refcount[f][x]
  BY <1>1 DEF Leaves
<1>3. k \in Nat \ {0} /\ k # 1 /\ k - 1 \in Ending(e, q)'
  BY <1>2, ServesMoves
<1>4. k \in 2 .. (Len(w) + 1)
  <2>1. k \in DOMAIN w
    BY <1>1, <1>2 DEF Ending
  <2>2. DOMAIN w = 1 .. Len(w) /\ Len(w) \in Nat
    OBVIOUS
  <2> QED BY ONLY <1>3, <2>1, <2>2
<1>5. inbox'[f] = Tail(w)
  <2>1. PICK msgs : QueuesMoved(Peer[f], f, msgs)
    BY DEF Serves
  <2>2. Peer[f] \in Ends
    BY PeerFacts
  <2> QED BY <1>1, <2>1, <2>2, QueueTail
<1>6. PICK h \in Seq(Message), t \in Seq(Message), v \in Seq(Message) :
        h = <<Head(w)>> /\ t = Tail(w) /\ v = Before(t, k - 1)
  <2>1. Tail(w) \in Seq(Message) /\ <<Head(w)>> \in Seq(Message) /\ Len(Tail(w)) = Len(w) - 1
        /\ Len(w) \in Nat
    BY <1>1, HeadAndTail, HeadTailProperties
  <2>2. k - 1 \in 1 .. (Len(Tail(w)) + 1)
    BY ONLY <1>4, <2>1
  <2> QED BY <2>1, <2>2, BeforeFacts
<1>7. GivenBackIn(Before(w, k), x) = GivenBackIn(h, x) + GivenBackIn(v, x)
      /\ GivenBackIn(v, x) \in Nat
  <2>1. Before(w, k) = h \o v
    BY <1>1, <1>4, <1>6, BeforeTail
  <2> QED BY <2>1, QueuesWeigh
<1>8. GivenBackIn(h, x) = GivesBack(m, x) /\ GivesBack(m, x) \in Nat
  BY <1>1, <1>6, HeadAndTail, GivenBackFacts, CarriesType
<1>9. PICK c \in Int, d \in Int : c = refcount[f][x] /\ d = refcount'[f][x]
  BY DEF TypeInv, TypeOK, ServerTypeOK
<1>10. d + GivesBack(m, x) >= c
  BY <1>9 DEF CountsLast
<1>11. GivenBackIn(v, x) < d
  <2>1. GivesBack(m, x) + GivenBackIn(v, x) < c
    BY <1>2, <1>7, <1>8, <1>9
  <2> QED BY ONLY <1>7, <1>8, <1>9, <1>10, <2>1
<1>12. k - 1 \in Ending(e, q)' /\ GivenBackIn(Before(inbox'[f], k - 1), x) < refcount'[f][x]
  BY <1>3, <1>5, <1>6, <1>9, <1>11
<1> QED BY <1>12 DEF Leaves, Before

\* A kept answer stands after the step if it is backed after the step.
LEMMA BackedStands ==
  ASSUME NEW e \in Ends, NEW f \in Ends, f = Peer[e], Balanced(f), BackedIsUsed',
         NEW q \in QuestionIds, NEW a, a.cap \in ExportIds, AnswerStands(e, q, a),
         Brings(e, q, a.cap)' \/ Leaves(e, q, a.cap)'
  PROVE  AnswerStands(e, q, a)'
<1>1. PICK x \in ExportIds : x = a.cap
  OBVIOUS
<1>2. a.obj \in Servers /\ server[f][x] = a.obj /\ server[f][x] # NoServer
  BY <1>1, WireAssumption DEF AnswerStands, WireAssumption
<1>3. refcount'[f][x] # 0
  BY <1>1 DEF BackedIsUsed
<1>4. server'[f][x] = a.obj
  BY <1>2, <1>3, ServerStays
<1> QED BY <1>1, <1>2, <1>4 DEF AnswerStands

\* The capability of a kept answer is an export id.
LEMMA KeptCap ==
  ASSUME TypeInv, NEW e \in Ends, NEW q, NEW i \in Keeps(e, q), NEW a,
         a = answers[Peer[e]][i], a.cap # NoExport
  PROVE  a.cap \in ExportIds
<1>1. Peer[e] \in Ends /\ i \in AnswerSlots
  BY PeerFacts DEF Keeps
<1> QED BY <1>1 DEF TypeInv, TypeOK, ServerTypeOK, Keeps, KeptAnswer

\* An answer that was kept before the handler, and still is.
LEMMA HandlerKeeps ==
  ASSUME NEW e \in Ends, NEW f \in Ends, f = Peer[e], TypeInv, TypeInv', AnswersStand,
         BackedIsUsed', Serves(f), Balanced(f), NEW m, m = Head(inbox[f]), CountsLast(f, m),
         NEW q \in QuestionIds, NEW i \in Keeps(e, q), 1 \notin Ending(e, q), NEW a,
         a = answers[f][i], a.cap # NoExport, q \notin vain[e]
  PROVE  AnswerStands(e, q, a)'
<1>1. a.cap \in ExportIds
  BY KeptCap
<1>2. AnswerStands(e, q, a)
  BY DEF AnswersStand
<1>3. Brings(e, q, a.cap) => Brings(e, q, a.cap)'
  <2>1. e = Peer[f] /\ e # f
    BY PeerFacts
  <2>2. questions'[e] = questions[e]
    BY <2>1 DEF Balanced, Alone
  <2>3. PICK x : x = a.cap
    OBVIOUS
  <2> QED BY <2>1, <2>2, <2>3, BalancedSends, KeeperBrings
<1>4. Leaves(e, q, a.cap) => Leaves(e, q, a.cap)'
  <2>1. PICK x \in ExportIds : x = a.cap
    BY <1>1
  <2> QED BY <2>1, HandlerLeaves
<1>5. Brings(e, q, a.cap)' \/ Leaves(e, q, a.cap)'
  BY <1>2, <1>3, <1>4 DEF AnswerStands
<1> QED BY <1>1, <1>2, <1>5, BackedStands

\* An answer that the handler has sent and kept.
LEMMA HandlerAdds ==
  ASSUME NEW e \in Ends, NEW f \in Ends, f = Peer[e], TypeInv, TypeInv', FlowInv', AnswerInv',
         FreeIsZero', HeldIsCounted', inbox[f] # <<>>, NEW q \in QuestionIds, NEW ret \in Return,
         NEW i \in AnswerSlots, KeepsMore(e, f, q, ret, i), NEW a, a = answers'[f][i],
         a.cap # NoExport, q \notin vain'[e]
  PROVE  AnswerStands(e, q, a)'
<1>1. /\ ret.qid = q /\ KeepsIn(f, ret, i) /\ a.cap = ret.cap /\ a.obj = ret.obj
      /\ i \in Keeps(e, q)' /\ ret.small /\ ret.results /\ server'[f][ret.cap] = ret.obj
  BY DEF KeepsMore, KeepsIn
<1>2. PICK x \in ExportIds : x = ret.cap
  BY <1>1 DEF Return
<1>3. PICK r \in Returning(e, q)' : inbox'[e][r] = ret
  <2>1. KeepsIn(f, ret, i) /\ ret.qid = q
    BY <1>1
  <2>2. \E r \in Returning(e, q)' : inbox'[e][r] = ret
    BY <2>1, KeptIsReturning, ZenonT(60)
  <2> QED BY <2>2
<1>4. PICK w \in Seq(Message) : w = inbox'[f]
  BY DEF TypeInv, TypeOK
<1>5. GivenBackIn(w, x) < refcount'[f][x]
  <2>1. Peer[f] = e
    BY PeerFacts
  <2>2. r \in DOMAIN inbox'[e] /\ inbox'[e][r].type = "Return" /\ inbox'[e][r].cap = x
    BY <1>2, <1>3 DEF Returning
  <2> QED BY <1>4, <2>1, <2>2 DEF HeldIsCounted
<1>6. a.obj \in Servers
  <2>1. GivenBackIn(w, x) \in Nat /\ refcount'[f][x] \in Int
    BY GivenBackFacts DEF TypeInv, TypeOK, ServerTypeOK
  <2>2. refcount'[f][x] # 0
    BY <1>5, <2>1
  <2>3. server'[f][x] # NoServer
    BY <2>2 DEF FreeIsZero, Used
  <2> QED BY <1>1, <1>2, <2>3 DEF Return
<1>7. Brings(e, q, x)' \/ Leaves(e, q, x)'
  <2>1. CASE SlotsOf(e, q)' # {}
    BY <1>1, <1>2, <1>3, <2>1 DEF Brings
  <2>2. CASE SlotsOf(e, q)' = {}
    <3>1. PICK k \in Ending(e, q)' : TRUE
      BY <1>1, <2>2 DEF AnswerInv, EndsFollow, Follows
    <3>2. k \in 1 .. (Len(w) + 1)
      <4>1. k \in DOMAIN w
        BY <1>4, <3>1 DEF Ending
      <4> QED BY <4>1
    <3>3. PICK b \in Nat, c \in Nat : /\ b = GivenBackIn(Before(w, k), x)
                                      /\ c = GivenBackIn(w, x) /\ b <= c
      BY <3>2, BeforeWeighs
    <3>4. refcount'[f][x] \in Int
      BY DEF TypeInv, TypeOK, ServerTypeOK
    <3>5. GivenBackIn(Before(w, k), x) < refcount'[f][x]
      BY <1>5, <3>3, <3>4
    <3> QED BY <1>4, <3>1, <3>5 DEF Leaves, Before
  <2> QED BY <2>1, <2>2
<1> QED BY <1>1, <1>2, <1>6, <1>7 DEF AnswerStands

\* Every answer that is kept after a handler at the keeper.
LEMMA HandlerStands ==
  ASSUME NEW e \in Ends, NEW f \in Ends, f = Peer[e], TypeInv, TypeInv', FlowInv', AnswerInv,
         AnswerInv', FreeIsZero', AnswersStand, HeldIsCounted', BackedIsUsed', Serves(f),
         Balanced(f), CountsLast(f, Head(inbox[f])), NEW q \in QuestionIds,
         NEW i \in Keeps(e, q)', NEW a, a = answers'[f][i], a.cap # NoExport,
         q \notin vain[e], q \notin vain'[e]
  PROVE  AnswerStands(e, q, a)'
<1>1. inbox[f] # <<>> /\ AnswersMove(f)
  BY DEF Serves
<1>2. 1 \in Ending(e, q) => Given(f, "Finish") /\ Head(inbox[f]).qid = q
  BY ServesMoves
<1>3. ASSUME NEW j \in Keeps(e, q), answers[f][j] = a, 1 \notin Ending(e, q)
      PROVE  AnswerStands(e, q, a)'
  <2>1. PICK m : m = Head(inbox[f])
    OBVIOUS
  <2> QED BY <1>3, <2>1, HandlerKeeps
<1>4. CASE KeepsLess(e, f, q)
  <2>1. i \in Keeps(e, q) /\ answers[f][i] = a
    BY <1>4 DEF KeepsLess
  <2>2. 1 \notin Ending(e, q)
    <3>1. Tally(Keeps(e, q)) <= 1
      BY <2>1 DEF AnswerInv, KeptOnce, Once
    <3> QED BY <1>2, <1>4, <3>1 DEF KeepsLess
  <2> QED BY <1>3, <2>1, <2>2
<1>5. ASSUME NEW ret \in Return, NEW j \in AnswerSlots, KeepsMore(e, f, q, ret, j)
      PROVE  AnswerStands(e, q, a)'
  <2>1. CASE i = j
    BY <1>1, <1>5, <2>1, HandlerAdds
  <2>2. CASE i # j
    <3>1. i \in Keeps(e, q) /\ answers[f][i] = a /\ ~Given(f, "Finish")
      BY <1>5, <2>2 DEF KeepsMore
    <3> QED BY <1>2, <1>3, <3>1
  <2> QED BY <2>1, <2>2
<1> QED BY <1>1, <1>4, <1>5, KeepsMove

\* What an application does leaves its own queue and its counts alone, but for a vine.
LEMMA ActsAlone ==
  ASSUME NEW f \in Ends, TypeInv, FreeIsZero, Acts(f), ~ReturnsIntroduction(f)
  PROVE  /\ inbox'[f] = inbox[f] /\ UNCHANGED answers
         /\ \A y \in ExportIds : refcount'[f][y] \in {refcount[f][y], refcount[f][y] + 1}
<1>1. Requests(f) \/ Notifies(f) \/ UNCHANGED inbox
  BY AsksRequest, TellsNotify, IntroducesTypes, PicksUpTypes DEF Acts, Hosts, SetBootstrap, TypeInv
<1>2. UNCHANGED inbox \/ \E m : Post(f, m)
  BY <1>1 DEF Requests, Ask, SendFails, Notifies
<1>3. inbox'[f] = inbox[f]
  <2>1. Peer[f] # f
    BY PeerFacts
  <2> QED BY <1>2, <2>1 DEF Post, TypeInv, TypeOK
<1>4. UNCHANGED answers
  BY DEF Acts, Asks, Tells, Hosts, SetBootstrap, Introduces, PicksUp, serverVars
<1>5. UNCHANGED refcount \/ Introduces(f)
  BY DEF Acts, Asks, Tells, Hosts, SetBootstrap, PicksUp, serverVars
<1> QED BY <1>3, <1>4, <1>5, IntroductionCounts

\* Every answer that is kept after an operation of the keeper's own application.
LEMMA ApplicationStands ==
  ASSUME NEW e \in Ends, NEW f \in Ends, f = Peer[e], TypeInv, TypeInv', FreeIsZero,
         AnswersStand, BackedIsUsed', Acts(f), ~ReturnsIntroduction(f), Balanced(f),
         NEW q \in QuestionIds, NEW i \in Keeps(e, q)', NEW a, a = answers'[f][i],
         a.cap # NoExport, q \notin vain[e]
  PROVE  AnswerStands(e, q, a)'
<1>1. /\ inbox'[f] = inbox[f] /\ UNCHANGED answers
      /\ \A y \in ExportIds : refcount'[f][y] \in {refcount[f][y], refcount[f][y] + 1}
  BY ActsAlone
<1>2. i \in Keeps(e, q) /\ a = answers[f][i]
  BY <1>1 DEF Keeps
<1>3. a.cap \in ExportIds
  BY <1>2, KeptCap
<1>4. AnswerStands(e, q, a)
  BY <1>2 DEF AnswersStand
<1>5. Brings(e, q, a.cap) => Brings(e, q, a.cap)'
  <2>1. e = Peer[f] /\ e # f
    BY PeerFacts
  <2>2. questions'[e] = questions[e]
    BY <2>1 DEF Balanced, Alone
  <2>3. PICK x : x = a.cap
    OBVIOUS
  <2> QED BY <2>1, <2>2, <2>3, BalancedSends, KeeperBrings
<1>6. Leaves(e, q, a.cap) => Leaves(e, q, a.cap)'
  <2> SUFFICES ASSUME Leaves(e, q, a.cap)
               PROVE  Leaves(e, q, a.cap)'
    OBVIOUS
  <2>1. PICK x \in ExportIds : x = a.cap
    BY <1>3
  <2>2. PICK w \in Seq(Message) : w = inbox[f]
    BY DEF TypeInv, TypeOK
  <2>3. PICK k \in Ending(e, q) : GivenBackIn(Before(w, k), x) < refcount[f][x]
    BY <2>1, <2>2 DEF Leaves
  <2>4. k \in 1 .. (Len(w) + 1)
    <3>1. k \in DOMAIN w
      BY <2>2, <2>3 DEF Ending
    <3> QED BY <3>1
  <2>5. PICK b \in Nat, c \in Int : b = GivenBackIn(Before(w, k), x) /\ c = refcount[f][x]
    <3>1. GivenBackIn(Before(w, k), x) \in Nat
      BY <2>4, BeforeWeighs
    <3>2. refcount[f][x] \in Int
      BY DEF TypeInv, TypeOK, ServerTypeOK
    <3> QED BY <3>1, <3>2
  <2>6. b < c /\ refcount'[f][x] \in {c, c + 1}
    BY <1>1, <2>3, <2>5
  <2>7. b < refcount'[f][x]
    BY <2>5, <2>6
  <2>8. k \in Ending(e, q)' /\ inbox'[f] = w
    BY <1>1, <2>2, <2>3 DEF Ending
  <2> QED BY <2>1, <2>5, <2>7, <2>8 DEF Leaves, Before
<1>7. Brings(e, q, a.cap)' \/ Leaves(e, q, a.cap)'
  BY <1>4, <1>5, <1>6 DEF AnswerStands
<1> QED BY <1>3, <1>4, <1>7, BackedStands

-----------------------------------------------------------------------------
(* What the application holds of an answer until the answer is forgotten *)

HeldFor(d) ==
  \A q \in QuestionIds : \A s \in SlotsOf(d, q), x \in ExportIds :
    LET r == questions[d][s]
    IN  r.answered /\ ~r.failed /\ r.reply.cap = x => imports[d][x].n > 0

\* BroughtIsHeld, end by end.
LEMMA HeldForAll == BroughtIsHeld <=> \A d \in Ends : HeldFor(d)
BY DEF BroughtIsHeld, HeldFor

\* An end whose questions and references stay.
LEMMA HeldRest ==
  ASSUME NEW d \in Ends, HeldFor(d), questions'[d] = questions[d], imports'[d] = imports[d]
  PROVE  HeldFor(d)'
BY DEF HeldFor, SlotsOf

\* A table that keeps some of its questions and the references of all of them.
LEMMA HeldLess ==
  ASSUME NEW d \in Ends, HeldFor(d),
         \A q \in QuestionIds : \A s \in SlotsOf(d, q)' :
           \/ s \in SlotsOf(d, q) /\ questions'[d][s] = questions[d][s]
           \/ ~questions'[d][s].answered,
         imports'[d] = imports[d]
  PROVE  HeldFor(d)'
BY DEF HeldFor

\* handle_return records the Return and hands its capability over.
LEMMA ReturnHolds ==
  ASSUME TypeInv, NEW f \in Ends, RecvReturn(f), HeldFor(f)
  PROVE  HeldFor(f)'
<1>1. PICK m \in Return : m = Head(inbox[f])
  BY GivenMessage, MessageFields DEF RecvReturn, TypeInv, TypeOK
<1>2. m.qid \in QuestionIds /\ m.cap \in ExportIds \cup {NoExport}
  BY DEF Return
<1>3. \A x \in ExportIds : imports'[f][x].n >= imports[f][x].n
  BY <1>1, ReturnHandsOver DEF HandedOver
<1>4. \A x \in ExportIds : imports[f][x].n \in Nat /\ imports'[f][x].n \in Nat
  BY <1>1, ReturnTypes DEF TypeInv, TypeOK, ClientTypeOK
<1>5. CASE ~Recorded(f, m)
  <2>1. questions' = questions /\ imports' = imports
    BY <1>1, <1>5 DEF RecvReturn, HandleReturn, Imported
  <2> QED BY <2>1, HeldRest
<1>6. CASE Recorded(f, m)
  <2>1. PICK s0 \in SlotsOf(f, m.qid) : s0 = Min(SlotsOf(f, m.qid))
    BY <1>6, SlotsOfType DEF Recorded
  <2>2. Records(f, m, s0)
    BY <1>1, <1>6, <2>1 DEF RecvReturn, HandleReturn, Records
  <2>3. /\ \A q \in QuestionIds : SlotsOf(f, q)' = SlotsOf(f, q)
        /\ \A i \in QuestionSlots : i # s0 => questions'[f][i] = questions[f][i]
        /\ questions'[f][s0].reply = m /\ questions'[f][s0].failed = ~m.results
    BY <2>2, RecordsFacts
  <2> SUFFICES ASSUME NEW q \in QuestionIds, NEW s \in SlotsOf(f, q)', NEW x \in ExportIds,
                      questions'[f][s].answered, ~questions'[f][s].failed,
                      questions'[f][s].reply.cap = x
               PROVE  imports'[f][x].n > 0
    BY DEF HeldFor
  <2>4. s \in SlotsOf(f, q) /\ s \in QuestionSlots
    BY <2>3 DEF SlotsOf
  <2>5. CASE s = s0
    <3>1. m.cap = x /\ m.results /\ x # NoExport
      BY <2>3, <2>5, Ranges
    <3>2. imports' = [imports EXCEPT ![f][x] = [n |-> @.n + 1, obj |-> m.obj]]
      BY <1>1, <1>6, <3>1 DEF RecvReturn, HandleReturn, Imported
    <3>3. imports'[f][x].n = imports[f][x].n + 1
      BY <3>2 DEF TypeInv, TypeOK, ClientTypeOK
    <3> QED BY <1>4, <3>3
  <2>6. CASE s # s0
    <3>1. imports[f][x].n > 0
      BY <2>3, <2>4, <2>6 DEF HeldFor
    <3> QED BY <1>3, <1>4, <3>1
  <2> QED BY <2>5, <2>6
<1> QED BY <1>5, <1>6

\* The application releases only what no answer it has not forgotten has brought.
LEMMA ReleaseHolds ==
  ASSUME TypeInv, ReleasedLate, NEW f \in Ends, NEW y \in ExportIds, NEW count,
         SendRelease(f, y, count), HeldFor(f)
  PROVE  HeldFor(f)'
<1>1. /\ questions' = questions /\ count \in 1 .. imports[f][y].n
      /\ imports' = [imports EXCEPT ![f][y].n = @ - count]
  BY DEF SendRelease
<1>2. /\ \A x \in ExportIds : x # y => imports'[f][x] = imports[f][x]
      /\ imports'[f][y].n = imports[f][y].n - count
  BY <1>1 DEF TypeInv, TypeOK, ClientTypeOK
<1>5. ~InUse(f, y)
  <2>1. PICK n \in Nat : n = imports[f][y].n
    BY DEF TypeInv, TypeOK, ClientTypeOK
  <2>2. imports'[f][y].n < imports[f][y].n
    BY <1>1, <1>2, <2>1
  <2> QED BY <2>2 DEF ReleasedLate
<1> SUFFICES ASSUME NEW q \in QuestionIds, NEW s \in SlotsOf(f, q), NEW x \in ExportIds,
                    questions[f][s].answered, ~questions[f][s].failed,
                    questions[f][s].reply.cap = x
             PROVE  imports'[f][x].n > 0
  BY <1>1 DEF HeldFor, SlotsOf
<1>3. questions[f][s] \in OpenQuestions(f)
  BY DEF SlotsOf, OpenQuestions, FreeQuestions
<1>4. x # y
  BY <1>3, <1>5 DEF InUse
<1> QED BY <1>2, <1>4 DEF HeldFor

\* A question that has just been asked has brought nothing.
LEMMA RequestHolds ==
  ASSUME TypeInv, NEW f \in Ends, Requests(f), HeldFor(f)
  PROVE  HeldFor(f)'
<1>1. PICK req \in Request : req.qid = nextQid[f] /\ Ask(f, req)
  BY DEF Requests
<1>2. req.qid \in QuestionIds
  BY <1>1, NextQidType DEF Ask, TypeInv
<1>3. imports' = imports
  BY <1>1 DEF Ask
<1>4. CASE Claim(f, req)
  <2>1. FreeQuestions(f) \subseteq Nat /\ FreeQuestions(f) # {}
    BY <1>1, Ranges DEF Ask, FreeQuestions
  <2>2. PICK i \in FreeQuestions(f) : i = Min(FreeQuestions(f))
    BY <2>1, MinInNat
  <2>3. Claims(f, i, req)
    BY <1>4, <2>2 DEF Claim, Claims
  <2>4. /\ \A q \in QuestionIds : SlotsOf(f, q)' \subseteq SlotsOf(f, q) \cup {i}
        /\ \A s \in QuestionSlots : s # i => questions'[f][s] = questions[f][s]
        /\ questions'[f][i] = Asked(req)
    BY <1>2, <2>3, ClaimsFacts
  <2>5. \A q \in QuestionIds : \A s \in SlotsOf(f, q)' :
          \/ s \in SlotsOf(f, q) /\ questions'[f][s] = questions[f][s]
          \/ ~questions'[f][s].answered
    <3> SUFFICES ASSUME NEW q \in QuestionIds, NEW s \in SlotsOf(f, q)'
                 PROVE  \/ s \in SlotsOf(f, q) /\ questions'[f][s] = questions[f][s]
                        \/ ~questions'[f][s].answered
      OBVIOUS
    <3>1. s \in QuestionSlots
      BY DEF SlotsOf
    <3> QED BY <2>4, <3>1 DEF Asked
  <2> QED BY <1>3, <2>5, HeldLess
<1>5. CASE questions' = questions
  BY <1>3, <1>5, HeldRest
<1> QED BY <1>1, <1>4, <1>5 DEF Ask

\* A step of f keeps what the answers of f have brought.
LEMMA AskerHolds ==
  ASSUME TypeInv, ReleasedLate, NEW f \in Ends, Receive(f) \/ Acts(f), HeldFor(f)
  PROVE  HeldFor(f)'
<1>1. CASE UNCHANGED <<questions, imports>>
  BY <1>1, HeldRest
<1>2. CASE RecvReturn(f)
  BY <1>2, ReturnHolds
<1>3. CASE Requests(f)
  BY <1>3, RequestHolds
<1>4. Receive(f) => RecvReturn(f) \/ UNCHANGED <<questions, imports>>
  BY DEF Receive, RecvBootstrap, RecvCall, RecvFinish, RecvRelease, RecvJoin, RecvDisembargo,
         RecvProvide, RecvAccept, RecvOther, clientVars
<1>5. Asks(f) \/ Introduces(f) => Requests(f)
  BY AsksRequest, IntroducesTypes DEF TypeInv
<1>6. Hosts(f) \/ PicksUp(f) \/ ReturnsIntroduction(f) => UNCHANGED <<questions, imports>>
  BY DEF Hosts, PicksUp, ReturnsIntroduction, clientVars
<1>7. CASE Tells(f)
  <2>1. CASE \E r \in OpenQuestions(f) : SendFinish(f, r.qid)
    <3>1. PICK r \in OpenQuestions(f) : SendFinish(f, r.qid)
      BY <2>1
    <3>2. Forget(f, r.qid) /\ imports' = imports
      BY <3>1 DEF SendFinish
    <3>3. \A q \in QuestionIds : \A s \in SlotsOf(f, q)' :
            s \in SlotsOf(f, q) /\ questions'[f][s] = questions[f][s]
      BY <3>2, ForgetFacts
    <3> QED BY <3>2, <3>3, HeldLess
  <2>2. CASE \E y \in ExportIds, count \in Nat : SendRelease(f, y, count)
    BY <2>2, ReleaseHolds
  <2>3. \/ UNCHANGED <<questions, imports>>
        \/ \E r \in OpenQuestions(f) : SendFinish(f, r.qid)
        \/ \E y \in ExportIds, count \in Nat : SendRelease(f, y, count)
    <3>1. 1 .. MaxAsks \subseteq Nat /\ 1 \in Nat
      BY WireAssumption DEF WireAssumption
    <3> QED BY <1>7, <3>1 DEF Tells, SendDisembargo, SendResolve, clientVars
  <2> QED BY <1>1, <2>1, <2>2, <2>3
<1> QED BY <1>1, <1>2, <1>3, <1>4, <1>5, <1>6, <1>7 DEF Acts

\* No step lets go of what an open question has brought.
LEMMA BroughtStaysHeld ==
  ASSUME TypeInv, ReleasedLate, NEW f \in Ends, Receive(f) \/ Acts(f), Balanced(f), BroughtIsHeld
  PROVE  BroughtIsHeld'
<1>1. ASSUME NEW d \in Ends
      PROVE  HeldFor(d)'
  <2>1. HeldFor(d)
    BY HeldForAll
  <2>2. CASE d = f
    BY <2>1, <2>2, AskerHolds
  <2>3. CASE d # f
    <3>1. questions'[d] = questions[d] /\ imports'[d] = imports[d]
      BY <2>3 DEF Balanced, Alone
    <3> QED BY <2>1, <3>1, HeldRest
  <2> QED BY <2>2, <2>3
<1>2. \A d \in Ends : HeldFor(d)'
  BY <1>1
<1> QED BY <1>2 DEF BroughtIsHeld, HeldFor

-----------------------------------------------------------------------------
(* What the asker has of a kept answer, until it sends the Finish *)

\* The answer stays on its way or in its slot, or the Finish is now the last message of
\* the queue, or was sent in vain.
StaysBrought(f, q) ==
  \A x \in ExportIds :
    Brings(f, q, x) => \/ Brings(f, q, x)'
                       \/ Len(inbox[Peer[f]]) + 1 \in Ending(f, q)'
                       \/ q \in vain'[f]

SlotsStay(f, q) ==
  \A s \in SlotsOf(f, q) : s \in SlotsOf(f, q)' /\ questions'[f][s] = questions[f][s]

\* The question and its Return stay.
LEMMA BringsStays ==
  ASSUME NEW f \in Ends, NEW q, SlotsStay(f, q),
         \A r \in Returning(f, q) : \E k \in Returning(f, q)' : inbox'[f][k] = inbox[f][r]
  PROVE  StaysBrought(f, q)
<1> SUFFICES ASSUME NEW x \in ExportIds, Brings(f, q, x)
             PROVE  Brings(f, q, x)'
  BY DEF StaysBrought
<1>1. SlotsOf(f, q)' # {}
  BY DEF Brings, SlotsStay
<1>2. ASSUME NEW r \in Returning(f, q), inbox[f][r].cap = x, inbox[f][r].small,
             inbox[f][r].results
      PROVE  Brings(f, q, x)'
  <2>1. PICK k \in Returning(f, q)' : inbox'[f][k] = inbox[f][r]
    BY <1>2
  <2> QED BY <1>1, <1>2, <2>1 DEF Brings
<1>3. ASSUME NEW s \in SlotsOf(f, q), questions[f][s].answered, ~questions[f][s].failed,
             questions[f][s].reply.cap = x
      PROVE  Brings(f, q, x)'
  <2>1. s \in SlotsOf(f, q)' /\ questions'[f][s] = questions[f][s]
    BY DEF SlotsStay
  <2> QED BY <1>1, <1>3, <2>1 DEF Brings
<1> QED BY <1>2, <1>3 DEF Brings

\* The handler takes a frame that is not the Return of q.
LEMMA ReturningMoves ==
  ASSUME NEW f \in Ends, Serves(f), NEW q \in QuestionIds,
         ~(Given(f, "Return") /\ Head(inbox[f]).qid = q), NEW r \in Returning(f, q)
  PROVE  \E k \in Returning(f, q)' : inbox'[f][k] = inbox[f][r]
<1>1. PICK msgs \in Seq(Message) : \A p \in QuestionIds : FramesMoved(Peer[f], f, msgs, p)
  BY DEF Serves
<1>2. /\ Returning(f, q) \subseteq Nat \ {0}
      /\ \A i \in Nat \ {0} : i \in Returning(f, q)' <=> i + 1 \in Returning(f, q)
      /\ \A i \in Returning(f, q)' : inbox'[f][i] = inbox[f][i + 1]
      /\ 1 \in Returning(f, q) <=> Head(inbox[f]).type = "Return" /\ Head(inbox[f]).qid = q
  BY <1>1 DEF FramesMoved
<1>3. r # 1 /\ r \in Nat \ {0}
  BY <1>2 DEF Serves, Given
<1>4. PICK k \in Nat \ {0} : k + 1 = r
  <2>1. r - 1 \in Nat \ {0} /\ (r - 1) + 1 = r
    BY <1>3
  <2> QED BY <2>1
<1>5. k \in Returning(f, q)'
  BY <1>2, <1>4
<1> QED BY <1>2, <1>4, <1>5

\* The Return that is taken is the only place its question is at.
LEMMA ReturnTakenAlone ==
  ASSUME NEW f \in Ends, NEW q \in QuestionIds, OnePlace, 1 \in Returning(f, q)
  PROVE  Returning(f, q) = {1} /\ Answered(f, q) = {}
<1>1. Places(f, q) <= 1
  BY DEF OnePlace
<1>2. /\ Tally(Asking(f, q)) \in 0 .. 2 /\ Tally(Returning(f, q)) \in 1 .. 2
      /\ Tally(Parts(f, q)) \in 0 .. 2 /\ Tally(Embargoes(f, q)) \in 0 .. 2
      /\ Tally(Answered(f, q)) \in 0 .. 2
  BY TallyFacts
<1>3. Places(f, q) = Tally(Asking(f, q)) + Tally(Returning(f, q)) + Tally(Parts(f, q))
                     + Tally(Embargoes(f, q)) + Tally(Answered(f, q))
  BY DEF Places
<1>4. Tally(Returning(f, q)) <= 1 /\ Tally(Answered(f, q)) = 0
  BY ONLY <1>1, <1>2, <1>3
<1> QED BY <1>4, TallyFacts

\* handle_return moves the answer from the wire to its slot.
LEMMA ReturnBrings ==
  ASSUME TypeInv, OnePlace, NEW f \in Ends, RecvReturn(f), Serves(f), NEW q \in QuestionIds
  PROVE  StaysBrought(f, q)
<1>1. PICK m \in Return : m = Head(inbox[f])
  BY GivenMessage, MessageFields DEF RecvReturn, TypeInv, TypeOK
<1>2. m.qid \in QuestionIds /\ Given(f, "Return")
  BY DEF Return, RecvReturn
<1>3. CASE ~Recorded(f, m)
  <2>1. questions' = questions
    BY <1>1, <1>3 DEF RecvReturn, HandleReturn
  <2>2. SlotsStay(f, q)
    BY <2>1 DEF SlotsStay, SlotsOf
  <2>3. CASE q # m.qid
    BY <1>1, <2>2, <2>3, ReturningMoves, BringsStays
  <2>4. CASE q = m.qid
    <3>1. inbox[f] \in Seq(Message) /\ inbox[f] # <<>> /\ Head(inbox[f]).type = "Return"
      BY <1>2 DEF Given, TypeInv, TypeOK
    <3>2. 1 \in Returning(f, q) /\ inbox[f][1] = m
      BY <1>1, <2>4, <3>1, HeadAndTail DEF Returning
    <3>3. Returning(f, q) = {1} /\ Answered(f, q) = {}
      BY <3>2, ReturnTakenAlone
    <3> QED BY <1>3, <2>4, <3>2, <3>3 DEF StaysBrought, Brings, Recorded, Answered
  <2> QED BY <2>3, <2>4
<1>4. CASE Recorded(f, m)
  <2>1. PICK s0 \in SlotsOf(f, m.qid) : s0 = Min(SlotsOf(f, m.qid))
    BY <1>4, SlotsOfType DEF Recorded
  <2>2. Records(f, m, s0)
    BY <1>1, <1>4, <2>1 DEF RecvReturn, HandleReturn, Records
  <2>3. /\ SlotsOf(f, q)' = SlotsOf(f, q)
        /\ \A i \in QuestionSlots : i # s0 => questions'[f][i] = questions[f][i]
        /\ questions'[f][s0].reply = m /\ questions'[f][s0].failed = ~m.results
        /\ questions'[f][s0].answered
    BY <2>2, RecordsFacts
  <2>4. CASE q # m.qid
    <3>1. s0 \notin SlotsOf(f, q)
      BY <2>1, <2>4 DEF SlotsOf
    <3>2. SlotsStay(f, q)
      BY <2>3, <3>1 DEF SlotsStay, SlotsOf
    <3> QED BY <1>1, <2>4, <3>2, ReturningMoves, BringsStays
  <2>5. CASE q = m.qid
    <3>1. inbox[f] \in Seq(Message) /\ inbox[f] # <<>> /\ Head(inbox[f]).type = "Return"
      BY <1>2 DEF Given, TypeInv, TypeOK
    <3>2. 1 \in Returning(f, q) /\ inbox[f][1] = m
      BY <1>1, <2>5, <3>1, HeadAndTail DEF Returning
    <3>3. Returning(f, q) = {1} /\ Answered(f, q) = {}
      BY <3>2, ReturnTakenAlone
    <3> SUFFICES ASSUME NEW x \in ExportIds, Brings(f, q, x)
                 PROVE  Brings(f, q, x)'
      BY DEF StaysBrought
    <3>4. m.cap = x /\ m.results
      BY <3>2, <3>3 DEF Brings, Answered
    <3>5. s0 \in SlotsOf(f, q)'
      BY <2>1, <2>3, <2>5
    <3> QED BY <2>3, <3>4, <3>5 DEF Brings
  <2> QED BY <2>4, <2>5
<1> QED BY <1>3, <1>4

\* Every other handler leaves the answers of f alone.
LEMMA HandlersBring ==
  ASSUME TypeInv, OnePlace, NEW f \in Ends, Receive(f) \/ ReturnsIntroduction(f), Serves(f),
         NEW q \in QuestionIds
  PROVE  StaysBrought(f, q)
<1>1. CASE RecvReturn(f)
  BY <1>1, ReturnBrings
<1>2. CASE ~RecvReturn(f)
  <2>1. UNCHANGED questions /\ ~Given(f, "Return")
    BY <1>2 DEF Receive, RecvBootstrap, RecvCall, RecvFinish, RecvRelease, RecvJoin,
         RecvDisembargo, RecvProvide, RecvAccept, RecvOther, ReturnsIntroduction, clientVars, Given
  <2>2. SlotsStay(f, q)
    BY <2>1 DEF SlotsStay, SlotsOf
  <2> QED BY <2>1, <2>2, ReturningMoves, BringsStays
<1> QED BY <1>1, <1>2

\* A message that is posted leaves the Returns in place.
LEMMA PostBrings ==
  ASSUME NEW e \in Ends, TypeInv, NEW m \in Message, m.type # "Return", Post(e, m), NEW q
  PROVE  \A r \in Returning(e, q) : \E k \in Returning(e, q)' : inbox'[e][k] = inbox[e][r]
<1>1. FramesKept(e, q, IF m.type \in RequestTypes /\ m.qid = q
                       THEN {Len(inbox[Peer[e]]) + 1} ELSE {})
  BY PostMoves
<1>2. Returning(e, q)' = Returning(e, q) /\ \A i \in Returning(e, q) : inbox'[e][i] = inbox[e][i]
  BY <1>1 DEF FramesKept
<1> QED BY <1>2

\* question_claim takes a free slot, so no other question loses its own.
LEMMA RequestBrings ==
  ASSUME TypeInv, NEW f \in Ends, Requests(f), NEW q \in QuestionIds
  PROVE  StaysBrought(f, q)
<1>1. PICK req \in Request : req.qid = nextQid[f] /\ Ask(f, req)
  BY DEF Requests
<1>2. req.qid \in QuestionIds
  BY <1>1, NextQidType DEF Ask, TypeInv
<1>3. CASE Claim(f, req) /\ Post(f, req)
  <2>1. FreeQuestions(f) \subseteq Nat /\ FreeQuestions(f) # {}
    BY <1>1, Ranges DEF Ask, FreeQuestions
  <2>2. PICK i \in FreeQuestions(f) : i = Min(FreeQuestions(f))
    BY <2>1, MinInNat
  <2>3. Claims(f, i, req)
    BY <1>3, <2>2 DEF Claim, Claims
  <2>4. /\ SlotsOf(f, q) \subseteq SlotsOf(f, q)'
        /\ \A s \in QuestionSlots : s # i => questions'[f][s] = questions[f][s]
    BY <1>2, <2>3, ClaimsFacts
  <2>5. i \notin SlotsOf(f, q)
    BY DEF SlotsOf, FreeQuestions
  <2>6. SlotsStay(f, q)
    BY <2>4, <2>5 DEF SlotsStay, SlotsOf
  <2>7. req \in Message /\ req.type # "Return"
    BY DEF Message, Request
  <2> QED BY <1>3, <2>6, <2>7, PostBrings, BringsStays
<1>4. CASE UNCHANGED <<questions, inbox>>
  <2>1. SlotsStay(f, q)
    BY <1>4 DEF SlotsStay, SlotsOf
  <2>2. \A r \in Returning(f, q) : \E k \in Returning(f, q)' : inbox'[f][k] = inbox[f][r]
    BY <1>4 DEF Returning
  <2> QED BY <2>1, <2>2, BringsStays
<1> QED BY <1>1, <1>3, <1>4 DEF Ask, SendFails

\* A notice that forgets no question leaves the answers alone.
LEMMA NoticeBrings ==
  ASSUME TypeInv, NEW f \in Ends, Notifies(f), UNCHANGED questions, NEW q \in QuestionIds
  PROVE  StaysBrought(f, q)
<1>1. PICK m \in Notice : Post(f, m) \/ UNCHANGED inbox
  BY DEF Notifies
<1>2. m \in Message /\ m.type # "Return"
  BY DEF Message, Notice
<1>3. SlotsStay(f, q)
  BY DEF SlotsStay, SlotsOf
<1>4. \A r \in Returning(f, q) : \E k \in Returning(f, q)' : inbox'[f][k] = inbox[f][r]
  <2>1. CASE Post(f, m)
    BY <1>2, <2>1, PostBrings
  <2>2. CASE UNCHANGED inbox
    BY <2>2 DEF Returning
  <2> QED BY <1>1, <2>1, <2>2
<1> QED BY <1>3, <1>4, BringsStays

\* capnp_rpc_send_finish forgets the question it names and no other.
LEMMA FinishBrings ==
  ASSUME TypeInv, NEW f \in Ends, NEW r \in OpenQuestions(f), SendFinish(f, r.qid),
         NEW q \in QuestionIds
  PROVE  StaysBrought(f, q)
<1>1. r.qid \in QuestionIds
  BY OpenQuestionType DEF TypeInv
<1>2. PICK m \in Message : m = [type |-> "Finish", qid |-> r.qid]
  <2>1. [type |-> "Finish", qid |-> r.qid] \in Message
    BY <1>1 DEF Message, Notice
  <2> QED BY <2>1
<1>3. /\ m.type = "Finish" /\ m.type # "Return" /\ m.qid = r.qid
      /\ Forget(f, r.qid)
      /\ Post(f, m) \/ (UNCHANGED inbox /\ InVain(f, {r.qid}))
  BY <1>2 DEF SendFinish, SendFails
<1>4. CASE q = r.qid
  <2>1. CASE Post(f, m)
    <3>1. Len(inbox[Peer[f]]) + 1 \in Ending(f, q)'
      BY <1>3, <1>4, <2>1, PostEnds
    <3> QED BY <3>1 DEF StaysBrought
  <2>2. CASE InVain(f, {r.qid})
    <3>1. q \in vain'[f]
      BY <1>4, <2>2 DEF InVain, TypeInv, TypeOK, ClientTypeOK
    <3> QED BY <3>1 DEF StaysBrought
  <2> QED BY <1>3, <2>1, <2>2
<1>5. CASE q # r.qid
  <2>1. PICK s \in SlotsOf(f, r.qid) : questions[f][s] = r
    BY DEF OpenQuestions, FreeQuestions, SlotsOf
  <2>2. PICK i0 \in SlotsOf(f, r.qid) : i0 = Min(SlotsOf(f, r.qid))
    BY <2>1, SlotsOfType
  <2>3. questions' = [questions EXCEPT ![f][i0] = NoQuestion]
    BY <1>3, <2>1, <2>2 DEF Forget
  <2>4. \A i \in QuestionSlots : i # i0 => questions'[f][i] = questions[f][i]
    BY <2>3 DEF TypeInv, TypeOK, ClientTypeOK
  <2>5. i0 \notin SlotsOf(f, q)
    BY <1>5, <2>2 DEF SlotsOf
  <2>6. SlotsStay(f, q)
    BY <2>4, <2>5 DEF SlotsStay, SlotsOf
  <2>7. \A k \in Returning(f, q) : \E n \in Returning(f, q)' : inbox'[f][n] = inbox[f][k]
    <3>1. CASE Post(f, m)
      BY <1>3, <3>1, PostBrings
    <3>2. CASE UNCHANGED inbox
      BY <3>2 DEF Returning
    <3> QED BY <1>3, <3>1, <3>2
  <2> QED BY <2>6, <2>7, BringsStays
<1> QED BY <1>4, <1>5

\* Every operation of the application but the answering of a call.
LEMMA ApplicationsBring ==
  ASSUME TypeInv, NEW f \in Ends, Acts(f), ~ReturnsIntroduction(f), NEW q \in QuestionIds
  PROVE  StaysBrought(f, q)
<1>1. Asks(f) \/ Introduces(f) => StaysBrought(f, q)
  BY AsksRequest, IntroducesTypes, RequestBrings DEF TypeInv
<1>2. CASE Tells(f)
  <2>1. Notifies(f)
    BY <1>2, TellsNotify DEF TypeInv
  <2>2. UNCHANGED questions \/ \E r \in OpenQuestions(f) : SendFinish(f, r.qid)
    BY <1>2 DEF Tells, SendRelease, SendDisembargo, SendResolve, clientVars
  <2> QED BY <2>1, <2>2, NoticeBrings, FinishBrings
<1>3. PicksUp(f) => StaysBrought(f, q)
  BY PicksUpTypes, NoticeBrings DEF PicksUp, clientVars, TypeInv
<1>4. CASE Hosts(f)
  <2>1. UNCHANGED <<inbox, questions>>
    BY <1>4 DEF Hosts, SetBootstrap, clientVars
  <2>2. SlotsStay(f, q)
    BY <2>1 DEF SlotsStay, SlotsOf
  <2>3. \A r \in Returning(f, q) : \E k \in Returning(f, q)' : inbox'[f][k] = inbox[f][r]
    BY <2>1 DEF Returning
  <2> QED BY <2>2, <2>3, BringsStays
<1> QED BY <1>1, <1>2, <1>3, <1>4 DEF Acts

-----------------------------------------------------------------------------
(* Kept answers name their object: the theorem *)

\* The asker's own step.
LEMMA AskerStands ==
  ASSUME NEW e \in Ends, NEW p \in Ends, p = Peer[e], TypeInv, TypeInv', BroughtCounts,
         AnswersStand, Balanced(e), answers'[p] = answers[p], NEW q \in QuestionIds,
         StaysBrought(e, q), NEW i \in Keeps(e, q)', NEW a, a = answers'[p][i], a.cap # NoExport,
         q \notin vain[e], q \notin vain'[e]
  PROVE  AnswerStands(e, q, a)'
<1>1. i \in Keeps(e, q) /\ a = answers[p][i]
  BY DEF Keeps
<1>2. PICK x \in ExportIds : x = a.cap
  BY <1>1, KeptCap
<1>3. AnswerStands(e, q, a)
  BY <1>1 DEF AnswersStand
<1>4. refcount'[p] = refcount[p] /\ server'[p] = server[p] /\ p # e
  BY PeerFacts DEF Balanced, Alone
<1>5. PICK w \in Seq(Message) : w = inbox[p]
  BY DEF TypeInv, TypeOK
<1>6. PICK sent \in Seq(Message) : inbox'[p] = w \o sent
  BY <1>5, BalancedSends
<1>7. ASSUME NEW k \in Ending(e, q)
      PROVE  k \in Ending(e, q)' /\ k \in 1 .. (Len(w) + 1)
  <2>1. k \in DOMAIN w /\ k \in DOMAIN inbox'[p] /\ inbox'[p][k] = w[k]
    BY <1>5, BalancedSends DEF Ending
  <2> QED BY <1>5, <1>7, <2>1 DEF Ending
<1>8. CASE Leaves(e, q, x)
  <2>1. PICK k \in Ending(e, q) : GivenBackIn(Before(w, k), x) < refcount[p][x]
    BY <1>5, <1>8 DEF Leaves
  <2>2. Before(w \o sent, k) = Before(w, k) /\ k \in Ending(e, q)'
    BY <1>7, BeforeAppend
  <2>3. Leaves(e, q, x)'
    BY <1>4, <1>6, <2>1, <2>2 DEF Leaves, Before
  <2> QED BY <1>2, <1>3, <1>4, <2>3 DEF AnswerStands
<1>9. CASE Brings(e, q, x)
  <2>1. GivenBackIn(w, x) < refcount[p][x]
    BY <1>5, <1>9 DEF BroughtCounts
  <2>2. CASE Brings(e, q, x)'
    BY <1>2, <1>3, <1>4, <2>2 DEF AnswerStands
  <2>3. CASE Len(w) + 1 \in Ending(e, q)'
    <3>1. PICK k \in 1 .. (Len(w) + 1) : k = Len(w) + 1 /\ k \in Ending(e, q)'
      BY <2>3
    <3>2. Before(w \o sent, k) = w
      BY <3>1, BeforeAppend
    <3>3. Leaves(e, q, x)'
      BY <1>4, <1>6, <2>1, <3>1, <3>2 DEF Leaves, Before
    <3> QED BY <1>2, <1>3, <1>4, <3>3 DEF AnswerStands
  <2> QED BY <1>5, <1>9, <2>2, <2>3 DEF StaysBrought
<1> QED BY <1>2, <1>3, <1>8, <1>9 DEF AnswerStands

\* A step of a third connection.
LEMMA OthersStand ==
  ASSUME NEW f \in Ends, TypeInv, AnswersStand, Balanced(f), NEW e \in Ends, e # f,
         Peer[e] # f, answers'[Peer[e]] = answers[Peer[e]], NEW q \in QuestionIds,
         NEW i \in Keeps(e, q)', NEW a, a = answers'[Peer[e]][i], a.cap # NoExport,
         q \notin vain[e]
  PROVE  AnswerStands(e, q, a)'
<1>1. Peer[e] \in Ends /\ e # Peer[f] /\ Peer[e] # Peer[f]
  BY PeerFacts
<1>2. i \in Keeps(e, q) /\ a = answers[Peer[e]][i]
  BY DEF Keeps
<1>3. AnswerStands(e, q, a)
  BY <1>2 DEF AnswersStand
<1>4. /\ refcount'[Peer[e]] = refcount[Peer[e]] /\ server'[Peer[e]] = server[Peer[e]]
      /\ questions'[e] = questions[e]
  BY <1>1 DEF Balanced, Alone
<1>5. inbox'[e] = inbox[e] /\ inbox'[Peer[e]] = inbox[Peer[e]]
  BY <1>1 DEF Balanced, Turned
<1>6. SlotsOf(e, q)' = SlotsOf(e, q) /\ Returning(e, q)' = Returning(e, q)
      /\ Ending(e, q)' = Ending(e, q)
  BY <1>4, <1>5 DEF SlotsOf, Returning, Ending
<1>7. Brings(e, q, a.cap)' = Brings(e, q, a.cap)
  BY <1>4, <1>5, <1>6 DEF Brings
<1>8. Leaves(e, q, a.cap)' = Leaves(e, q, a.cap)
  BY <1>4, <1>5, <1>6 DEF Leaves
<1> QED BY <1>3, <1>4, <1>7, <1>8 DEF AnswerStands

\* A step of f leaves the answers of the other ends alone.
LEMMA AnswersAlone ==
  ASSUME NEW f \in Ends, TypeInv, Serves(f) \/ UNCHANGED answers, NEW e \in Ends, Peer[e] # f
  PROVE  answers'[Peer[e]] = answers[Peer[e]]
<1>1. CASE Serves(f)
  <2>1. PICK g \in Ends : g = Peer[f] /\ f = Peer[g]
    BY PeerFacts
  <2>2. AnswersMove(f) /\ e # g
    BY <1>1, <2>1 DEF Serves
  <2> QED BY <2>1, <2>2, KeepsRest
<1> QED BY <1>1

\* One step of f, as the keeper of an answer, as the one who asked, and as neither.
LEMMA KeptStepBy ==
  ASSUME TypeInv, TypeInv', FlowInv, FlowInv', RefInv, RefInv', AnswerInv, AnswerInv',
         ReleasedLate, KeptInv, NEW f \in Ends, Receive(f) \/ Acts(f), Balanced(f),
         Receive(f) \/ ReturnsIntroduction(f) => Serves(f)
  PROVE  KeptInv'
<1>1. BroughtIsHeld'
  BY BroughtStaysHeld DEF KeptInv
<1>2. /\ FreeIsZero /\ FreeIsZero' /\ Counted /\ Counted' /\ OnePlace
      /\ AnswersStand /\ BroughtIsHeld
  BY DEF RefInv, FlowInv, KeptInv
<1>3. HeldIsCounted' /\ BroughtCounts /\ BackedIsUsed'
  BY <1>1, <1>2, BackedBoth
<1>0. \A e \in Ends, q \in QuestionIds : q \notin vain'[e] => q \notin vain[e]
  BY VainGrows DEF VainStays
<1>4. CASE Receive(f) \/ ReturnsIntroduction(f)
  <2>1. Serves(f)
    BY <1>4
  <2>2. CountsLast(f, Head(inbox[f]))
    <3>1. PICK m : m = Head(inbox[f])
      OBVIOUS
    <3> QED BY <1>2, <1>4, <3>1, HandlersCount
  <2>3. ASSUME NEW e \in Ends, NEW q \in QuestionIds, NEW i \in Keeps(e, q)', NEW a,
               a = answers'[Peer[e]][i], a.cap # NoExport, q \notin vain'[e]
        PROVE  AnswerStands(e, q, a)'
    <3>0. q \notin vain[e]
      BY <1>0, <2>3
    <3>1. CASE Peer[e] = f
      BY <1>2, <1>3, <2>1, <2>2, <2>3, <3>0, <3>1, HandlerStands
    <3>2. CASE Peer[e] # f
      <4>1. answers'[Peer[e]] = answers[Peer[e]] /\ Peer[e] \in Ends
        BY <2>1, <3>2, AnswersAlone, PeerFacts
      <4>2. CASE e = f
        <5>1. StaysBrought(e, q)
          BY <1>2, <1>4, <2>1, <4>2, HandlersBring
        <5> QED BY <1>2, <1>3, <2>3, <3>0, <4>1, <4>2, <5>1, AskerStands
      <4> QED BY <1>2, <2>3, <3>0, <3>2, <4>1, <4>2, OthersStand
    <3> QED BY <3>1, <3>2
  <2> QED BY <1>1, <2>3 DEF KeptInv, AnswersStand
<1>5. CASE Acts(f) /\ ~ReturnsIntroduction(f)
  <2>1. UNCHANGED answers
    BY <1>2, <1>5, ActsAlone
  <2>2. ASSUME NEW e \in Ends, NEW q \in QuestionIds, NEW i \in Keeps(e, q)', NEW a,
               a = answers'[Peer[e]][i], a.cap # NoExport, q \notin vain'[e]
        PROVE  AnswerStands(e, q, a)'
    <3>0. q \notin vain[e]
      BY <1>0, <2>2
    <3>1. CASE Peer[e] = f
      BY <1>2, <1>3, <1>5, <2>2, <3>0, <3>1, ApplicationStands
    <3>2. CASE Peer[e] # f
      <4>1. answers'[Peer[e]] = answers[Peer[e]] /\ Peer[e] \in Ends
        BY <2>1, PeerFacts
      <4>2. CASE e = f
        <5>1. StaysBrought(e, q)
          BY <1>5, <4>2, ApplicationsBring
        <5> QED BY <1>2, <1>3, <2>2, <3>0, <4>1, <4>2, <5>1, AskerStands
      <4> QED BY <1>2, <2>2, <3>0, <3>2, <4>1, <4>2, OthersStand
    <3> QED BY <3>1, <3>2
  <2> QED BY <1>1, <2>2 DEF KeptInv, AnswersStand
<1> QED BY <1>4, <1>5

\* A stuttering step.
LEMMA KeptStutter ==
  ASSUME KeptInv, UNCHANGED vars
  PROVE  KeptInv'
<1>1. UNCHANGED <<inbox, server, refcount, answers, questions, imports, vain>>
  BY DEF vars, clientVars
<1>2. ASSUME NEW e \in Ends, NEW q \in QuestionIds
      PROVE  /\ Keeps(e, q)' = Keeps(e, q) /\ SlotsOf(e, q)' = SlotsOf(e, q)
             /\ \A x : Brings(e, q, x)' = Brings(e, q, x)
             /\ \A x : Leaves(e, q, x)' = Leaves(e, q, x)
  <2>1. /\ Keeps(e, q)' = Keeps(e, q) /\ SlotsOf(e, q)' = SlotsOf(e, q)
        /\ Returning(e, q)' = Returning(e, q) /\ Ending(e, q)' = Ending(e, q)
    BY <1>1 DEF Keeps, SlotsOf, Returning, Ending
  <2> QED BY <1>1, <2>1 DEF Brings, Leaves
<1>3. AnswersStand'
  BY <1>1, <1>2 DEF KeptInv, AnswersStand, AnswerStands
<1>4. BroughtIsHeld'
  BY <1>1, <1>2 DEF KeptInv, BroughtIsHeld
<1> QED BY <1>3, <1>4 DEF KeptInv

\* Every step keeps KeptInv.
LEMMA KeptStep ==
  ASSUME TypeInv, TypeInv', FlowInv, FlowInv', RefInv, RefInv', OneIdPerObject,
         RouteInv', AnswerInv, AnswerInv', [ReleasedLate]_vars, KeptInv, [Next]_vars
  PROVE  KeptInv'
<1>0. CASE UNCHANGED vars
  BY <1>0, KeptStutter
<1> SUFFICES ASSUME ReleasedLate
             PROVE  KeptInv'
  BY <1>0
<1>3. EmbargoedAcceptsReachClaimant'
  BY RoutedReach, PTL
<1>1. ASSUME NEW f \in Ends, Receive(f)
      PROVE  KeptInv'
  <2>1. Balanced(f)
    BY <1>1, <1>3, ReceivesBalanced
  <2>2. OnePlace /\ PledgesNamed
    BY DEF FlowInv, RefInv
  <2>3. Serves(f)
    BY <1>1, <1>3, <2>2, ReceiveServes
  <2> QED BY <1>1, <2>1, <2>3, KeptStepBy
<1>2. ASSUME NEW f \in Ends, Acts(f), ~Receive(f)
      PROVE  KeptInv'
  <2>1. Balanced(f)
    BY <1>2, <1>3, ActsBalanced
  <2>2. ReturnsIntroduction(f) => Serves(f)
    BY IntroductionServes
  <2> QED BY <1>2, <2>1, <2>2, KeptStepBy
<1> QED BY <1>0, <1>1, <1>2 DEF Next

\* Nothing is kept before the first frame.
LEMMA KeptInit == Init => KeptInv
<1> SUFFICES ASSUME Init
             PROVE  KeptInv
  OBVIOUS
<1>1. ASSUME NEW e \in Ends, NEW q \in QuestionIds
      PROVE  Keeps(e, q) = {} /\ SlotsOf(e, q) = {}
  <2>1. Peer[e] \in Ends
    BY PeerFacts
  <2>2. Keeps(e, q) = {}
    BY <2>1 DEF Init, ServerInit, Keeps
  <2>3. SlotsOf(e, q) = {}
    BY DEF Init, ClientInit, SlotsOf
  <2> QED BY <2>2, <2>3
<1> QED BY <1>1 DEF KeptInv, AnswersStand, BroughtIsHeld

\* An answer that stands names its object.
LEMMA KeptAnswersStand == TypeInv /\ KeptInv => KeptAnswersNameTheirObject
<1> SUFFICES ASSUME TypeInv, KeptInv, NEW p \in Ends, NEW i \in AnswerSlots,
                    answers[p][i] # NoAnswer, answers[p][i].cap # NoExport,
                    answers[p][i].qid \notin vain[Peer[p]]
             PROVE  server[p][answers[p][i].cap] = answers[p][i].obj
  BY DEF KeptAnswersNameTheirObject
<1>1. PICK e \in Ends : p = Peer[e] /\ e = Peer[p]
  BY PeerFacts
<1>2. PICK q \in QuestionIds : q = answers[p][i].qid
  BY DEF TypeInv, TypeOK, ServerTypeOK, KeptAnswer
<1>3. i \in Keeps(e, q)
  BY <1>1, <1>2 DEF Keeps
<1> QED BY <1>1, <1>2, <1>3 DEF KeptInv, AnswersStand, AnswerStands

\* flush_answer keeps a Return for the pipelined calls that name its capability, and takes
\* no reference for it.  For as long as no application has released a capability before it
\* finished the question that brought it, the export that a kept answer names is not freed
\* and not given to another object until the Finish is handled, whatever other Releases,
\* Joins and Accepts come between.  Without the habit it is not so: see AnswerRelease.cfg.
THEOREM KeptAnswersCorrect ==
  ASSUME Routed
  PROVE  Spec /\ [][ReleasedLate]_vars => []KeptAnswersNameTheirObject
<1>1. Spec => []TypeInv /\ []FlowInv /\ []RefInv /\ []OneIdPerObject /\ []RouteInv
  BY TypeInvariant, FlowInvariant, RefInvariant, OneIdPerObjectCorrect, RouteInvariant, PTL
<1>2. Init => AnswerInv /\ KeptInv
  BY AnswerInit, KeptInit
<1>3. TypeInv /\ TypeInv' /\ FlowInv /\ FlowInv' /\ RefInv /\ RouteInv /\ RouteInv'
      /\ AnswerInv /\ [Next]_vars => AnswerInv'
  BY AnswerStep
<1>4. TypeInv /\ TypeInv' /\ FlowInv /\ FlowInv' /\ RefInv /\ RefInv' /\ OneIdPerObject
      /\ RouteInv' /\ AnswerInv /\ AnswerInv' /\ KeptInv /\ [ReleasedLate]_vars /\ [Next]_vars
      => KeptInv'
  BY KeptStep
<1>5. TypeInv /\ KeptInv => KeptAnswersNameTheirObject
  BY KeptAnswersStand
<1> QED BY <1>1, <1>2, <1>3, <1>4, <1>5, PTL DEF Spec
=============================================================================
