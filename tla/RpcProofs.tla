------------------------------ MODULE RpcProofs ------------------------------
(***************************************************************************)
(* Type correctness of the connections of RpcConn, and the safety          *)
(* invariants that follow from it, for every number of connections, every  *)
(* table size and every bound.                                             *)
(*                                                                         *)
(* Types.  TypeOK is not inductive: release_provide_embargo puts the       *)
(* question id that an embargoed provision recorded into a Return, so the  *)
(* proof needs EmbargoedAreClaimed as well.  One lemma per handler and per *)
(* operation says what it does to the types; TypeStep puts them together.  *)
(*                                                                         *)
(* Safety.  One export id per object and the ledger of handoff nonces, both*)
(* inductive together with TypeInv, and where the Returns of embargoed     *)
(* Accepts go.                                                             *)
(*                                                                         *)
(* Order.  The ordering guarantee of a loopback embargo, proved            *)
(* from the FIFO transport.  LoopbackFollowsCalls speaks of the reflection *)
(* only; that it is inductive needs what holds on the way there, OrderInv: *)
(* the ids on the wire are older than the next question, and no call that  *)
(* was sent before an embargo stands behind it.                            *)
(***************************************************************************)
EXTENDS RpcProps, TLAPS, WellFoundedInduction, FiniteSetTheorems

-----------------------------------------------------------------------------
(* Type correctness *)

\* An embargoed provision has been claimed: it knows the question of its Accept
\* and the connection that it arrived on.
EmbargoedAreClaimed ==
  \A v \in Vats, i \in ProvisionSlots :
    provisions[v][i] # NoProvision /\ provisions[v][i].embargoed =>
      provisions[v][i].aqid \in QuestionIds /\ provisions[v][i].by \in Ends

\* The inductive form of TypeOK.
TypeInv == TypeOK /\ EmbargoedAreClaimed

\* A non-empty set of naturals contains its minimum, which is what the loops over a
\* table return.
LEMMA MinIsLeast ==
  ASSUME NEW S, S \subseteq Nat, S # {}
  PROVE  Min(S) \in S /\ \A y \in S : Min(S) <= y
<1> DEFINE Less == {ss \in Nat \X Nat : ss[1] < ss[2]}
<1>1. Less = OpToRel(<, Nat)
  BY Zenon DEF OpToRel
<1>2. IsWellFoundedOn(Less, Nat)
  BY <1>1, NatLessThanWellFounded, Zenon
<1> HIDE DEF Less
<1>3. PICK x \in S : \A y \in S : ~(<<y, x>> \in Less)
  BY <1>2, WFMin, Zenon
<1>4. \A y \in S : x <= y
  <2> TAKE y \in S
  <2>1. <<y, x>> \in Nat \X Nat
    OBVIOUS
  <2>2. ~(<<y, x>>[1] < <<y, x>>[2])
    BY <2>1, <1>3, Zenon DEF Less
  <2>3. ~(y < x)
    BY <2>2
  <2>4. x \in Nat /\ y \in Nat
    OBVIOUS
  <2> QED BY <2>3, <2>4
<1> QED BY <1>4 DEF Min

LEMMA MinInNat ==
  ASSUME NEW S, S \subseteq Nat, S # {}
  PROVE  Min(S) \in S
BY MinIsLeast

\* The first slot that fits is one of the slots that fit.
LEMMA FirstInNat ==
  ASSUME NEW S, S \subseteq Nat, S # {}
  PROVE  First(S) \in S
BY MinInNat DEF First

\* Slots and ids are naturals, and the -1 of capnp_rpc_export is none of them.
LEMMA Ranges ==
  /\ ExportIds \subseteq Nat /\ QuestionIds \subseteq Nat /\ AnswerSlots \subseteq Nat
  /\ JoinSlots \subseteq Nat /\ PartNums \subseteq Nat /\ QuestionSlots \subseteq Nat
  /\ ProvisionSlots \subseteq Nat /\ IntroductionSlots \subseteq Nat
  /\ NoExport \notin ExportIds /\ NoExport \notin QuestionIds
  /\ ExportIds \subseteq WireIds
BY WireAssumption, ServerAssumption, ClientAssumption, HandoffAssumption
   DEF WireAssumption, ServerAssumption, ClientAssumption, HandoffAssumption,
       ExportIds, QuestionIds, AnswerSlots, JoinSlots, PartNums, QuestionSlots,
       ProvisionSlots, IntroductionSlots, NoExport, WireIds

\* A frame of a given type has the fields that its handler reads, in their ranges.
LEMMA MessageFields ==
  ASSUME NEW m \in Message
  PROVE  /\ m.type \in RequestTypes => m \in Request /\ m.qid \in QuestionIds
         /\ m.type = "Call" => m.target \in Target /\ m.intros \in Seq(Descriptor)
         /\ m.type = "Join" => /\ m.target \in Target /\ m.jid \in JoinIds
                               /\ m.pcount \in Nat /\ m.pnum \in Nat
         /\ m.type = "Provide" => m.target \in Target /\ m.nonce \in Nonces \cup {NoNonce}
         /\ m.type = "Accept" => m.nonce \in Nonces \cup {NoNonce} /\ m.embargo \in BOOLEAN
         /\ m.type = "Return" => m \in Return
         /\ m.type = "Release" => m.id \in WireIds /\ m.count \in Nat
         /\ m.type = "Finish" => m.qid \in QuestionIds
         /\ m.type = "Unimplemented" => m.wraps \in Nat
         /\ m.type = "Disembargo" =>
              /\ m.id \in Nat
              /\ m \in [type : {"Disembargo"}, id : Nat,
                   context : {"senderLoopback", "receiverLoopback", "accept", "provide"}]
BY DEF Message, Request, Return, Notice, RequestTypes

\* A handler that sends well-formed frames keeps the transport well-formed.
LEMMA AnswerTypes ==
  ASSUME NEW e \in Ends, NEW msgs \in Seq(Message),
         inbox \in [Ends -> Seq(Message)], inbox[e] # <<>>, Answer(e, msgs)
  PROVE  inbox' \in [Ends -> Seq(Message)]
<1>1. Tail(inbox[e]) \in Seq(Message)
  OBVIOUS
<1>2. Peer[e] \in Ends /\ inbox[Peer[e]] \o msgs \in Seq(Message)
  BY WireAssumption DEF WireAssumption
<1> QED BY <1>1, <1>2, WireAssumption DEF Answer, WireAssumption

\* So does a handler that sends nothing.
LEMMA AbsorbTypes ==
  ASSUME NEW e \in Ends, inbox \in [Ends -> Seq(Message)], inbox[e] # <<>>, Absorb(e)
  PROVE  inbox' \in [Ends -> Seq(Message)]
<1>1. << >> \in Seq(Message)
  OBVIOUS
<1> QED BY <1>1, AnswerTypes DEF Absorb

\* So does an application that sends a well-formed frame.
LEMMA PostTypes ==
  ASSUME NEW e \in Ends, NEW m \in Message,
         inbox \in [Ends -> Seq(Message)], Post(e, m)
  PROVE  inbox' \in [Ends -> Seq(Message)]
<1>1. Peer[e] \in Ends /\ Append(inbox[Peer[e]], m) \in Seq(Message)
  BY WireAssumption DEF WireAssumption
<1> QED BY <1>1 DEF Post

\* begin_return makes a well-formed Return.
LEMMA ResultsType ==
  ASSUME NEW e \in Ends, NEW m, m.qid \in QuestionIds, m.type \in RequestTypes,
         NEW cap \in ExportIds \cup {NoExport}
  PROVE  Results(e, m, cap) \in Return
BY WireAssumption DEF Results, Return, WireAssumption

\* send_return_exception makes a well-formed Return.
LEMMA ExceptionType ==
  ASSUME NEW e \in Ends, NEW m, m.qid \in QuestionIds, m.type \in RequestTypes
  PROVE  Exception(e, m) \in Return
<1>1. Results(e, m, NoExport) \in Return
  BY ResultsType
<1> QED BY <1>1 DEF Exception, Return

\* capnp_rpc_export returns -1, or an id that already names the server, or an
\* unused id when no id names it.
LEMMA ExportIdType ==
  ASSUME NEW e \in Ends, NEW s \in Servers, ServerTypeOK
  PROVE  /\ ExportId(e, s) \in ExportIds \cup {NoExport}
         /\ ExportId(e, s) # NoExport =>
              \/ server[e][ExportId(e, s)] = s
              \/ /\ server[e][ExportId(e, s)] = NoServer
                 /\ \A y \in ExportIds : server[e][y] # s
<1> DEFINE naming == {x \in ExportIds : server[e][x] = s}
           free   == {x \in ExportIds : ~Used(e, x)}
<1>1. naming # {} => First(naming) \in naming
  BY FirstInNat, Ranges
<1>2. free # {} => First(free) \in free
  BY FirstInNat, Ranges
<1>3. ExportId(e, s) = IF naming # {} THEN First(naming)
                       ELSE IF free # {} THEN First(free) ELSE NoExport
  BY DEF ExportId
<1> QED BY <1>1, <1>2, <1>3 DEF Used

\* resolve_target returns -1 or the id of an export that is in use.
LEMMA ResolveTargetType ==
  ASSUME NEW e \in Ends, NEW t
  PROVE  /\ ResolveTarget(e, t) \in ExportIds \cup {NoExport}
         /\ ResolveTarget(e, t) # NoExport => Used(e, ResolveTarget(e, t))
BY DEF ResolveTarget

\* flush_answer keeps the answer table and the transport well-formed.
LEMMA FlushAnswerTypes ==
  ASSUME NEW e \in Ends, NEW ret \in Return, inbox[e] # <<>>,
         inbox \in [Ends -> Seq(Message)], ServerTypeOK, FlushAnswer(e, ret)
  PROVE  /\ inbox' \in [Ends -> Seq(Message)]
         /\ answers' \in [Ends -> [AnswerSlots -> KeptAnswer \cup {NoAnswer}]]
<1> DEFINE free == {i \in AnswerSlots : answers[e][i] = NoAnswer}
           kept == [qid |-> ret.qid, cap |-> ret.cap, obj |-> ret.obj]
<1>1. <<ret>> \in Seq(Message)
  BY DEF Message
<1>2. inbox' \in [Ends -> Seq(Message)]
  BY <1>1, AnswerTypes DEF FlushAnswer
<1>3. free # {} => First(free) \in AnswerSlots
  BY FirstInNat, Ranges
<1>4. kept \in KeptAnswer
  BY DEF Return, KeptAnswer
<1>5. answers' = IF ret.small /\ free # {}
                 THEN [answers EXCEPT ![e][First(free)] = kept] ELSE answers
  BY DEF FlushAnswer
<1> QED BY <1>2, <1>3, <1>4, <1>5 DEF ServerTypeOK

\* capnp_rpc_export keeps the export table well-formed.
LEMMA ExportTypes ==
  ASSUME NEW e \in Ends, NEW s \in Servers, NEW x \in ExportIds, ServerTypeOK, Export(e, s, x)
  PROVE  /\ server' \in [Ends -> [ExportIds -> Servers \cup {NoServer}]]
         /\ refcount' \in [Ends -> [ExportIds -> Int]]
BY DEF Export, ServerTypeOK

\* The frame capnp_rpc_handle dispatches on is a message of the type it found.
LEMMA GivenMessage ==
  ASSUME NEW e \in Ends, NEW type, inbox \in [Ends -> Seq(Message)], Given(e, type)
  PROVE  /\ inbox[e] # <<>>
         /\ Head(inbox[e]) \in Message
         /\ Head(inbox[e]).type = type
BY DEF Given

\* Answering with an exception keeps every type.
LEMMA RefuseTypes ==
  ASSUME NEW e \in Ends, NEW m, m.qid \in QuestionIds, m.type \in RequestTypes,
         inbox \in [Ends -> Seq(Message)], inbox[e] # <<>>, ServerTypeOK, Refuse(e, m)
  PROVE  inbox' \in [Ends -> Seq(Message)] /\ ServerTypeOK'
<1>1. <<Exception(e, m)>> \in Seq(Message)
  BY ExceptionType DEF Message
<1> QED BY <1>1, AnswerTypes DEF Refuse, serverVars, ServerTypeOK

\* handle_bootstrap keeps the types of the answering half.
LEMMA BootstrapTypes ==
  ASSUME NEW e \in Ends, TypeOK, RecvBootstrap(e)
  PROVE  inbox' \in [Ends -> Seq(Message)] /\ ServerTypeOK'
<1> DEFINE m == Head(inbox[e])
           s == bootstrap[e]
           x == ExportId(e, s)
<1>1. inbox[e] # <<>> /\ m.qid \in QuestionIds /\ m.type \in RequestTypes
  BY GivenMessage, MessageFields DEF RecvBootstrap, TypeOK, RequestTypes
<1>2. CASE s = NoServer \/ x = NoExport
  BY <1>1, <1>2, RefuseTypes DEF RecvBootstrap, HandleBootstrap, TypeOK
<1>3. CASE s # NoServer /\ x # NoExport
  <2>1. s \in Servers /\ x \in ExportIds
    BY <1>3, ExportIdType DEF TypeOK, ServerTypeOK
  <2>2. /\ Export(e, s, x)
        /\ FlushAnswer(e, [Results(e, m, x) EXCEPT !.obj = s])
        /\ UNCHANGED <<bootstrap, joins>>
    BY <1>3 DEF RecvBootstrap, HandleBootstrap
  <2>3. [Results(e, m, x) EXCEPT !.obj = s] \in Return
    BY <1>1, <2>1, ResultsType DEF Return
  <2> QED BY <1>1, <2>1, <2>2, <2>3, ExportTypes, FlushAnswerTypes DEF TypeOK, ServerTypeOK
<1> QED BY <1>2, <1>3

\* handle_call keeps the types of the answering half, whatever the dispatch
\* function does.
LEMMA CallTypes ==
  ASSUME NEW e \in Ends, TypeOK, RecvCall(e)
  PROVE  inbox' \in [Ends -> Seq(Message)] /\ ServerTypeOK'
<1> DEFINE m == Head(inbox[e])
           x == ResolveTarget(e, m.target)
<1>1. inbox[e] # <<>> /\ m.qid \in QuestionIds /\ m.type \in RequestTypes
  BY GivenMessage, MessageFields DEF RecvCall, TypeOK, RequestTypes
<1>2. CASE x = NoExport
  BY <1>1, <1>2, RefuseTypes DEF RecvCall, HandleCall, TypeOK
<1>3. CASE x # NoExport
  <2>1. x \in ExportIds /\ server[e][x] \in Servers \cup {NoServer}
    BY <1>3, ResolveTargetType DEF TypeOK, ServerTypeOK
  <2>2. Dispatch(e, m, x) /\ UNCHANGED <<server, refcount, bootstrap, joins>>
    BY <1>3 DEF RecvCall, HandleCall
  <2>3. inbox' \in [Ends -> Seq(Message)]
        /\ answers' \in [Ends -> [AnswerSlots -> KeptAnswer \cup {NoAnswer}]]
    <3>1. PICK outcome \in Outcomes :
            IF outcome = "fails" THEN Absorb(e) /\ UNCHANGED answers
            ELSE FlushAnswer(e, [Results(e, m, NoExport) EXCEPT
                                   !.small = (outcome = "small"), !.obj = server[e][x]])
      BY <2>2 DEF Dispatch
    <3>2. CASE outcome = "fails"
      BY <3>1, <3>2, <1>1, AbsorbTypes DEF TypeOK, ServerTypeOK
    <3>3. CASE outcome # "fails"
      <4>1. Results(e, m, NoExport) \in Return
        BY <1>1, ResultsType
      <4>2. [Results(e, m, NoExport) EXCEPT !.small = (outcome = "small"),
                                            !.obj = server[e][x]] \in Return
        BY <4>1, <2>1 DEF Return
      <4> QED BY <4>2, <3>1, <3>3, <1>1, FlushAnswerTypes DEF TypeOK
    <3> QED BY <3>2, <3>3
  <2> QED BY <2>2, <2>3 DEF TypeOK, ServerTypeOK
<1> QED BY <1>2, <1>3

\* answer_drop keeps the types of the answering half.
LEMMA FinishTypes ==
  ASSUME NEW e \in Ends, TypeOK, RecvFinish(e)
  PROVE  inbox' \in [Ends -> Seq(Message)] /\ ServerTypeOK'
<1> DEFINE m == Head(inbox[e])
           kept == {i \in AnswerSlots : answers[e][i] # NoAnswer /\ answers[e][i].qid = m.qid}
<1>1. inbox[e] # <<>>
  BY GivenMessage DEF RecvFinish, TypeOK
<1>2. kept # {} => First(kept) \in AnswerSlots
  BY FirstInNat, Ranges
<1>3. /\ answers' = IF kept = {} THEN answers
                    ELSE [answers EXCEPT ![e][First(kept)] = NoAnswer]
      /\ Absorb(e)
      /\ UNCHANGED <<server, refcount, bootstrap, joins>>
  BY DEF RecvFinish, HandleFinish
<1>4. inbox' \in [Ends -> Seq(Message)]
  BY <1>1, <1>3, AbsorbTypes DEF TypeOK
<1> QED BY <1>2, <1>3, <1>4 DEF TypeOK, ServerTypeOK

\* handle_release keeps the types of the answering half, also for ids that are
\* past the export table.
LEMMA ReleaseTypes ==
  ASSUME NEW e \in Ends, TypeOK, RecvRelease(e)
  PROVE  inbox' \in [Ends -> Seq(Message)] /\ ServerTypeOK'
<1> DEFINE m == Head(inbox[e])
           left == refcount[e][m.id] - m.count
<1>1. inbox[e] # <<>> /\ m.count \in Nat
  BY GivenMessage, MessageFields DEF RecvRelease, TypeOK
<1>2. /\ Absorb(e)
      /\ UNCHANGED <<bootstrap, answers, joins>>
  BY DEF RecvRelease, HandleRelease
<1>3. inbox' \in [Ends -> Seq(Message)]
  BY <1>1, <1>2, AbsorbTypes DEF TypeOK
<1>4. CASE m.id \in ExportIds /\ Used(e, m.id)
  <2>1. /\ refcount' = [refcount EXCEPT ![e][m.id] = IF left <= 0 THEN 0 ELSE left]
        /\ server' = [server EXCEPT ![e][m.id] = IF left <= 0 THEN NoServer ELSE @]
    BY <1>4 DEF RecvRelease, HandleRelease
  <2>2. left \in Int
    BY <1>1, <1>4 DEF TypeOK, ServerTypeOK
  <2> HIDE DEF left
  <2>3. (IF left <= 0 THEN 0 ELSE left) \in Int
    BY <2>2
  <2>4. (IF left <= 0 THEN NoServer ELSE server[e][m.id]) \in Servers \cup {NoServer}
    BY <1>4 DEF TypeOK, ServerTypeOK
  <2> HIDE DEF m
  <2> QED BY <1>2, <1>3, <1>4, <2>1, <2>3, <2>4 DEF TypeOK, ServerTypeOK
<1>5. CASE ~(m.id \in ExportIds /\ Used(e, m.id))
  <2>1. UNCHANGED <<server, refcount>>
    BY <1>5 DEF RecvRelease, HandleRelease
  <2> QED BY <1>2, <1>3, <2>1 DEF TypeOK, ServerTypeOK
<1> QED BY <1>4, <1>5

\* Every frame that the handler sends is the answer to a Join.
AnswersJoins(e) ==
  \E msgs \in Seq(Message) :
    /\ Answer(e, msgs)
    /\ \A i \in 1 .. Len(msgs) :
         msgs[i].type = "Return" /\ msgs[i].for = "Join" /\ msgs[i].to = Peer[e]

\* ret answers, at e, the part of a Join set that was asked in question qid.
AnswersJoin(e, qid, ret) ==
  ret \in Return /\ ret.for = "Join" /\ ret.qid = qid /\ ret.to = Peer[e]

\* Every part of a Join set is answered, in order.
AnswersParts(e, j) ==
  \E msgs \in Seq(Message) :
    /\ Answer(e, msgs)
    /\ Len(msgs) = j.pcount
    /\ \A i \in 1 .. j.pcount : /\ msgs[i].type = "Return" /\ msgs[i].for = "Join"
                               /\ msgs[i].qid = j.parts[i - 1].qid /\ msgs[i].to = Peer[e]

\* send_join_result makes a well-formed Return for a Join.
LEMMA JoinResultType ==
  ASSUME NEW e \in Ends, NEW qid \in QuestionIds, NEW joined \in BOOLEAN,
         NEW cap \in ExportIds \cup {NoExport}, NEW obj \in Servers \cup {NoServer}
  PROVE  AnswersJoin(e, qid, JoinResult(e, qid, joined, cap, obj))
<1> DEFINE ret == Results(e, [qid |-> qid, type |-> "Join"], cap)
<1>1. ret \in Return /\ ret.for = "Join" /\ ret.qid = qid /\ ret.to = Peer[e]
  BY ResultsType DEF RequestTypes, Results
<1> HIDE DEF ret
<1>2. AnswersJoin(e, qid, [ret EXCEPT !.joined = joined, !.obj = obj])
  BY <1>1 DEF Return, AnswersJoin
<1> QED BY <1>2 DEF JoinResult, ret

\* join_complete answers every part with a well-formed Return and keeps the
\* reference counts integers.
LEMMA JoinCompleteTypes ==
  ASSUME NEW e \in Ends, TypeOK, inbox[e] # <<>>, NEW j \in JoinSet,
         \A p \in 0 .. (j.pcount - 1) : j.parts[p] \in Part, JoinComplete(e, j)
  PROVE  AnswersParts(e, j) /\ refcount' \in [Ends -> [ExportIds -> Int]]
<1> DEFINE first == j.parts[0].eid
           same  == /\ first # NoExport
                    /\ \A p \in 0 .. (j.pcount - 1) : j.parts[p].eid = first
           obj   == IF \A p \in 0 .. (j.pcount - 1) : j.parts[p].obj = j.parts[0].obj
                    THEN j.parts[0].obj ELSE NoServer
           msgs  == [i \in 1 .. j.pcount |->
                       JoinResult(e, j.parts[i - 1].qid, same,
                                  IF same /\ i = 1 THEN first ELSE NoExport, obj)]
<1>1. j.pcount \in Nat \ {0}
  BY WireAssumption DEF JoinSet, WireAssumption
<1>2. first \in ExportIds \cup {NoExport} /\ obj \in Servers \cup {NoServer}
  BY <1>1 DEF Part
<1>3. same \in BOOLEAN /\ (same => first \in ExportIds)
  BY <1>2
<1>4. refcount' = (IF same THEN [refcount EXCEPT ![e][first] = @ + 1] ELSE refcount)
      /\ Answer(e, msgs)
  BY DEF JoinComplete
<1> DEFINE result(i) == JoinResult(e, j.parts[i - 1].qid, same,
                                   IF same /\ i = 1 THEN first ELSE NoExport, obj)
<1>5. ASSUME NEW i \in 1 .. j.pcount
      PROVE  /\ result(i) \in Message /\ result(i).type = "Return" /\ result(i).for = "Join"
             /\ result(i).qid = j.parts[i - 1].qid /\ result(i).to = Peer[e]
  <2>1. i - 1 \in 0 .. (j.pcount - 1)
    BY <1>1
  <2>2. j.parts[i - 1].qid \in QuestionIds
    BY <2>1 DEF Part
  <2> HIDE DEF same, first, obj
  <2>3. AnswersJoin(e, j.parts[i - 1].qid, result(i))
    BY <2>2, <1>2, <1>3, JoinResultType
  <2> HIDE DEF result
  <2> QED BY <2>3 DEF Message, Return, AnswersJoin
<1>6. msgs = [i \in 1 .. j.pcount |-> result(i)]
  OBVIOUS
<1> HIDE DEF same, first, obj, msgs, result
<1>7. /\ msgs \in Seq(Message) /\ Len(msgs) = j.pcount
      /\ \A i \in 1 .. j.pcount : /\ msgs[i].type = "Return" /\ msgs[i].for = "Join"
                                 /\ msgs[i].qid = j.parts[i - 1].qid /\ msgs[i].to = Peer[e]
  BY <1>1, <1>5, <1>6
<1>8. refcount' \in [Ends -> [ExportIds -> Int]]
  BY <1>2, <1>3, <1>4 DEF TypeOK, ServerTypeOK
<1> QED BY <1>4, <1>7, <1>8 DEF AnswersParts

\* join_slot_find returns a slot or -1.
LEMMA JoinSlotType ==
  ASSUME NEW e \in Ends, NEW jid, NEW pcount
  PROVE  JoinSlot(e, jid, pcount) \in JoinSlots \cup {-1}
<1> DEFINE same == {i \in JoinSlots : joins[e][i] # NoJoin /\ joins[e][i].jid = jid}
           free == {i \in JoinSlots : joins[e][i] = NoJoin}
<1>1. same # {} => First(same) \in JoinSlots
  BY FirstInNat, Ranges
<1>2. free # {} => First(free) \in JoinSlots
  BY FirstInNat, Ranges
<1>3. JoinSlot(e, jid, pcount) =
        IF same # {}
        THEN IF joins[e][First(same)].pcount = pcount THEN First(same) ELSE -1
        ELSE IF free # {} THEN First(free) ELSE -1
  BY DEF JoinSlot
<1> HIDE DEF same, free
<1> QED BY <1>1, <1>2, <1>3

\* handle_join keeps the types of the answering half, and the frames it sends are
\* answers to Joins.
LEMMA JoinTypes ==
  ASSUME NEW e \in Ends, TypeOK, RecvJoin(e)
  PROVE  /\ inbox' \in [Ends -> Seq(Message)] /\ ServerTypeOK'
         /\ Absorb(e) \/ AnswersJoins(e)
<1> DEFINE m     == Head(inbox[e])
           keyOK == m.pcount \in 1 .. MaxJoinParts /\ m.pnum < m.pcount
           slot  == JoinSlot(e, m.jid, m.pcount)
           seen  == IF joins[e][slot] = NoJoin THEN NoParts ELSE joins[e][slot].parts
           eid   == ResolveTarget(e, m.target)
           part  == [qid |-> m.qid, eid |-> eid,
                     obj |-> IF eid = NoExport THEN NoServer ELSE server[e][eid]]
           j     == [jid |-> m.jid, pcount |-> m.pcount,
                     parts |-> [seen EXCEPT ![m.pnum] = part]]
           full  == \A p \in 0 .. (m.pcount - 1) : j.parts[p] # NoPart
<1>1. /\ inbox[e] # <<>> /\ m.qid \in QuestionIds /\ m.type \in RequestTypes
      /\ m.jid \in JoinIds /\ m.pcount \in Nat /\ m.pnum \in Nat
  BY GivenMessage, MessageFields DEF RecvJoin, TypeOK, RequestTypes
<1>2. UNCHANGED <<server, bootstrap, answers>>
  BY DEF RecvJoin, HandleJoin
<1> DEFINE Done == /\ ServerTypeOK'
                   /\ Absorb(e) \/ AnswersJoins(e)
<1>3. ASSUME ~keyOK \/ slot = -1 \/ seen[m.pnum] # NoPart
      PROVE  Done
  <2> DEFINE ret == JoinResult(e, m.qid, FALSE, NoExport, NoServer)
  <2>1. Answer(e, <<ret>>) /\ UNCHANGED <<refcount, joins>>
    BY <1>3 DEF RecvJoin, HandleJoin
  <2>2. AnswersJoin(e, m.qid, ret)
    BY <1>1, JoinResultType
  <2> HIDE DEF ret
  <2>3. <<ret>> \in Seq(Message) /\ ret.type = "Return" /\ ret.for = "Join" /\ ret.to = Peer[e]
    BY <2>2 DEF Message, Return, AnswersJoin
  <2>4. AnswersJoins(e)
    <3>1. \A i \in 1 .. Len(<<ret>>) :
            <<ret>>[i].type = "Return" /\ <<ret>>[i].for = "Join" /\ <<ret>>[i].to = Peer[e]
      BY <2>3
    <3> QED BY <2>1, <2>3, <3>1 DEF AnswersJoins
  <2> QED BY <1>2, <2>1, <2>4 DEF TypeOK, ServerTypeOK
<1>4. ASSUME keyOK /\ slot # -1 /\ seen[m.pnum] = NoPart
      PROVE  Done
  <2>1. /\ joins' = [joins EXCEPT ![e][slot] = IF full THEN NoJoin ELSE j]
        /\ IF full THEN JoinComplete(e, j) ELSE Absorb(e) /\ UNCHANGED refcount
    BY <1>4 DEF RecvJoin, HandleJoin
  <2>2. slot \in JoinSlots
    BY <1>4, JoinSlotType
  <2>3. seen \in [PartNums -> Part \cup {NoPart}]
    <3>1. joins[e][slot] # NoJoin => joins[e][slot] \in JoinSet
      BY <2>2 DEF TypeOK, ServerTypeOK
    <3>2. NoParts \in [PartNums -> Part \cup {NoPart}]
      BY DEF NoParts
    <3> HIDE DEF slot
    <3> QED BY <3>1, <3>2 DEF JoinSet
  <2>4. part \in Part
    BY <1>1, ResolveTargetType DEF Part, TypeOK, ServerTypeOK
  <2> HIDE DEF seen, part, slot, m
  <2>5. j \in JoinSet
    BY <1>1, <1>4, <2>3, <2>4 DEF JoinSet
  <2>6. joins' \in [Ends -> [JoinSlots -> JoinSet \cup {NoJoin}]]
    <3> HIDE DEF j, full
    <3> QED BY <2>1, <2>2, <2>5 DEF TypeOK, ServerTypeOK
  <2>7. CASE full
    <3>1. m.pcount - 1 \in Nat /\ 0 .. (m.pcount - 1) \subseteq PartNums /\ j.pcount = m.pcount
      BY <1>1, <1>4, WireAssumption DEF PartNums, WireAssumption
    <3>2. \A p \in 0 .. (j.pcount - 1) : j.parts[p] \in Part
      BY <2>3, <2>4, <2>7, <3>1
    <3> HIDE DEF j
    <3>3. AnswersParts(e, j) /\ refcount' \in [Ends -> [ExportIds -> Int]]
      BY <1>1, <2>1, <2>5, <2>7, <3>2, JoinCompleteTypes
    <3>4. AnswersJoins(e)
      BY <3>3 DEF AnswersParts, AnswersJoins
    <3> QED BY <1>2, <2>6, <3>3, <3>4 DEF TypeOK, ServerTypeOK
  <2>8. CASE ~full
    BY <1>2, <2>1, <2>6, <2>8 DEF TypeOK, ServerTypeOK
  <2> QED BY <2>7, <2>8
<1>5. Done
  BY <1>3, <1>4
<1>6. inbox' \in [Ends -> Seq(Message)]
  BY <1>1, <1>5, AbsorbTypes, AnswerTypes DEF AnswersJoins, TypeOK
<1> QED BY <1>5, <1>6

\* send_unimplemented sends nothing but Unimplemented messages.
LEMMA Echoes ==
  ASSUME NEW e \in Ends, TypeOK, RecvOther(e)
  PROVE  /\ inbox[e] # <<>>
         /\ \E msgs \in Seq(Message) :
              Answer(e, msgs) /\ \A k \in 1 .. Len(msgs) : msgs[k].type = "Unimplemented"
<1> DEFINE m == Head(inbox[e])
           wraps == IF m.type = "Unimplemented" THEN m.wraps + 1 ELSE 1
           echo == [type |-> "Unimplemented", wraps |-> wraps]
<1>1. inbox[e] # <<>> /\ m \in Message
  BY GivenMessage DEF RecvOther, TypeOK
<1>2. wraps \in Nat
  BY <1>1, MessageFields
<1> HIDE DEF wraps
<1>3. echo \in Message /\ echo.type = "Unimplemented"
  BY <1>2 DEF Message, Notice
<1>4. Answer(e, <<echo>>) \/ Answer(e, << >>)
  BY DEF RecvOther, HandleUnimplemented, Wrapped, wraps
<1> HIDE DEF echo
<1>5. <<echo>> \in Seq(Message) /\ \A k \in 1 .. Len(<<echo>>) : <<echo>>[k].type = "Unimplemented"
  BY <1>3
<1>6. << >> \in Seq(Message) /\ \A k \in 1 .. Len(<< >>) : FALSE
  OBVIOUS
<1> QED BY <1>1, <1>4, <1>5, <1>6

\* So it keeps every type.
LEMMA OtherTypes ==
  ASSUME NEW e \in Ends, TypeOK, RecvOther(e)
  PROVE  inbox' \in [Ends -> Seq(Message)] /\ ServerTypeOK'
<1>1. inbox' \in [Ends -> Seq(Message)]
  BY Echoes, AnswerTypes DEF TypeOK
<1> QED BY <1>1 DEF RecvOther, HandleUnimplemented, TypeOK, ServerTypeOK, serverVars

\* handle_disembargo and release_provide_embargo keep every type: the question id
\* that goes into the Return was recorded when the provision was claimed.
LEMMA DisembargoTypes ==
  ASSUME NEW e \in Ends, TypeOK, EmbargoedAreClaimed, RecvDisembargo(e)
  PROVE  /\ inbox' \in [Ends -> Seq(Message)]
         /\ ServerTypeOK' /\ HandoffTypeOK' /\ EmbargoedAreClaimed'
<1> DEFINE m    == Head(inbox[e])
           v    == VatOf[e]
           held == {i \in ProvisionSlots : /\ provisions[v][i] # NoProvision
                                           /\ provisions[v][i].embargoed
                                           /\ provisions[v][i].qid = m.id}
           i0   == First(held)
           p    == provisions[v][i0]
<1>1. /\ inbox[e] # <<>> /\ m \in Message
      /\ m \in [type : {"Disembargo"}, id : Nat,
                context : {"senderLoopback", "receiverLoopback", "accept", "provide"}]
  BY GivenMessage, MessageFields DEF RecvDisembargo, TypeOK
<1>2. CASE HandleDisembargo(e, m) /\ UNCHANGED handoffVars
  <2>1. [m EXCEPT !.context = "receiverLoopback"] \in Message
    BY <1>1 DEF Message, Notice
  <2>2. (IF m.context = "senderLoopback" THEN <<[m EXCEPT !.context = "receiverLoopback"]>>
         ELSE <<>>) \in Seq(Message)
    BY <2>1
  <2> QED BY <1>1, <1>2, <2>2, AnswerTypes
          DEF HandleDisembargo, TypeOK, ServerTypeOK, serverVars, HandoffTypeOK, handoffVars,
              EmbargoedAreClaimed
<1>3. CASE HandleDisembargoProvide(e, m) /\ UNCHANGED <<introductions, provided, claims>>
  <2>1. v \in Vats
    BY HandoffAssumption DEF HandoffAssumption
  <2>2. UNCHANGED <<server, refcount, bootstrap, joins>>
    BY <1>3 DEF HandleDisembargoProvide
  <2>3. CASE held = {}
    <3>1. Absorb(e) /\ UNCHANGED <<answers, provisions>>
      BY <1>3, <2>3 DEF HandleDisembargoProvide
    <3> QED BY <1>1, <1>3, <2>2, <3>1, AbsorbTypes
            DEF TypeOK, ServerTypeOK, HandoffTypeOK, EmbargoedAreClaimed
  <2>4. CASE held # {}
    <3> DEFINE ret == [Results(e, [qid |-> p.aqid, type |-> "Accept"], p.eid)
                         EXCEPT !.to = Peer[p.by], !.obj = p.server]
    <3>1. /\ provisions' = [provisions EXCEPT ![v][i0] = NoProvision]
          /\ FlushAnswer(e, ret)
      BY <1>3, <2>4 DEF HandleDisembargoProvide
    <3>2. i0 \in ProvisionSlots /\ p # NoProvision /\ p.embargoed
      BY <2>4, FirstInNat, Ranges
    <3>3. p \in Provision /\ p.aqid \in QuestionIds /\ p.by \in Ends
      <4> HIDE DEF v, i0
      <4> QED BY <2>1, <3>2 DEF TypeOK, HandoffTypeOK, EmbargoedAreClaimed
    <3>4. p.eid \in ExportIds /\ p.server \in Servers /\ Peer[p.by] \in Ends
      <4> HIDE DEF p
      <4> QED BY <3>3, WireAssumption DEF Provision, WireAssumption
    <3>5. ret \in Return
      <4> HIDE DEF p
      <4>1. Results(e, [qid |-> p.aqid, type |-> "Accept"], p.eid) \in Return
        BY <3>3, <3>4, ResultsType DEF RequestTypes
      <4> QED BY <4>1, <3>4 DEF Return
    <3>6. HandoffTypeOK' /\ EmbargoedAreClaimed'
      <4> HIDE DEF i0, v
      <4> QED BY <1>3, <2>1, <3>1, <3>2 DEF TypeOK, HandoffTypeOK, EmbargoedAreClaimed
    <3> HIDE DEF ret
    <3> QED BY <1>1, <2>2, <3>1, <3>5, <3>6, FlushAnswerTypes DEF TypeOK, ServerTypeOK
  <2> QED BY <2>3, <2>4
<1> QED BY <1>2, <1>3 DEF RecvDisembargo

\* handle_provide keeps every type.
LEMMA ProvideTypes ==
  ASSUME NEW e \in Ends, TypeOK, EmbargoedAreClaimed, RecvProvide(e)
  PROVE  /\ inbox' \in [Ends -> Seq(Message)]
         /\ ServerTypeOK' /\ HandoffTypeOK' /\ EmbargoedAreClaimed'
<1> DEFINE m    == Head(inbox[e])
           v    == VatOf[e]
           eid  == ResolveTarget(e, m.target)
           free == {i \in ProvisionSlots : provisions[v][i] = NoProvision}
<1>1. /\ inbox[e] # <<>> /\ m.qid \in QuestionIds /\ m.type \in RequestTypes
      /\ m.nonce \in Nonces \cup {NoNonce}
  BY GivenMessage, MessageFields DEF RecvProvide, TypeOK, RequestTypes
<1>2. v \in Vats
  BY HandoffAssumption DEF HandoffAssumption
<1>3. UNCHANGED <<introductions, claims>>
  BY DEF RecvProvide
<1>4. CASE eid = NoExport \/ m.nonce = NoNonce \/ free = {}
  <2>1. Refuse(e, m) /\ UNCHANGED <<provisions, provided>>
    BY <1>4 DEF RecvProvide, HandleProvide
  <2> QED BY <1>1, <1>3, <2>1, RefuseTypes DEF TypeOK, HandoffTypeOK, EmbargoedAreClaimed
<1>5. CASE eid # NoExport /\ m.nonce # NoNonce /\ free # {}
  <2> DEFINE new == [nonce |-> m.nonce, server |-> server[e][eid], eid |-> eid, qid |-> m.qid,
                     embargoed |-> FALSE, aqid |-> NoExport, from |-> e, by |-> NoEnd]
             i0  == First(free)
  <2>1. /\ provisions' = [provisions EXCEPT ![v][i0] = new]
        /\ provided' = [provided EXCEPT ![v][m.nonce] = @ + 1]
        /\ refcount' = [refcount EXCEPT ![e][eid] = @ + 1]
        /\ FlushAnswer(e, Results(e, m, NoExport))
        /\ UNCHANGED <<server, bootstrap, joins>>
    BY <1>5 DEF RecvProvide, HandleProvide
  <2>2. i0 \in ProvisionSlots
    BY <1>5, FirstInNat, Ranges
  <2>3. eid \in ExportIds /\ server[e][eid] \in Servers
    <3>1. eid \in ExportIds /\ Used(e, eid)
      BY <1>5, ResolveTargetType
    <3> HIDE DEF eid
    <3> QED BY <3>1 DEF Used, TypeOK, ServerTypeOK
  <2>4. new \in Provision /\ ~new.embargoed
    BY <1>1, <1>5, <2>3 DEF Provision
  <2> HIDE DEF i0, v, new, eid, m
  <2>5. HandoffTypeOK' /\ EmbargoedAreClaimed'
    BY <1>1, <1>2, <1>3, <1>5, <2>1, <2>2, <2>4 DEF TypeOK, HandoffTypeOK, EmbargoedAreClaimed
  <2>6. Results(e, m, NoExport) \in Return
    BY <1>1, ResultsType
  <2>7. refcount' \in [Ends -> [ExportIds -> Int]]
    BY <2>1, <2>3 DEF TypeOK, ServerTypeOK
  <2> QED BY <1>1, <2>1, <2>5, <2>6, <2>7, FlushAnswerTypes DEF TypeOK, ServerTypeOK
<1> QED BY <1>4, <1>5

\* handle_accept keeps every type, and an embargoed provision records who claimed it.
LEMMA AcceptTypes ==
  ASSUME NEW e \in Ends, TypeOK, EmbargoedAreClaimed, RecvAccept(e)
  PROVE  /\ inbox' \in [Ends -> Seq(Message)]
         /\ ServerTypeOK' /\ HandoffTypeOK' /\ EmbargoedAreClaimed'
<1> DEFINE m     == Head(inbox[e])
           v     == VatOf[e]
           match == Claimable(v, m.nonce)
           i0    == First(match)
           p     == provisions[v][i0]
           x     == ExportId(e, p.server)
<1>1. /\ inbox[e] # <<>> /\ m.qid \in QuestionIds /\ m.type \in RequestTypes
      /\ m.nonce \in Nonces \cup {NoNonce} /\ m.embargo \in BOOLEAN
  BY GivenMessage, MessageFields DEF RecvAccept, TypeOK, RequestTypes
<1>2. v \in Vats
  BY HandoffAssumption DEF HandoffAssumption
<1>3. UNCHANGED <<introductions, provided>>
  BY DEF RecvAccept
<1>4. CASE match = {} \/ x = NoExport
  <2>1. Refuse(e, m) /\ UNCHANGED <<provisions, claims>>
    BY <1>4 DEF RecvAccept, HandleAccept
  <2> QED BY <1>1, <1>3, <2>1, RefuseTypes DEF TypeOK, HandoffTypeOK, EmbargoedAreClaimed
<1>5. CASE match # {} /\ x # NoExport
  <2>1. Grant(e, m, i0, x)
    BY <1>5 DEF RecvAccept, HandleAccept
  <2>2. i0 \in ProvisionSlots /\ p # NoProvision /\ p.nonce = m.nonce
    BY <1>5, FirstInNat, Ranges DEF Claimable
  <2>3. p \in Provision
    <3> HIDE DEF i0, v
    <3> QED BY <1>2, <2>2 DEF TypeOK, HandoffTypeOK
  <2> HIDE DEF p
  <2>4. p.server \in Servers /\ m.nonce \in Nonces
    BY <2>2, <2>3 DEF Provision
  <2>5. x \in ExportIds
    BY <1>5, <2>4, ExportIdType DEF TypeOK
  <2>6. /\ Export(e, p.server, x)
        /\ claims' = [claims EXCEPT ![v][m.nonce] = @ + 1]
        /\ UNCHANGED <<bootstrap, joins>>
    BY <2>1 DEF Grant, p
  <2> HIDE DEF x, v, i0, m
  <2>7. claims' \in [Vats -> [Nonces -> Nat]]
    BY <1>2, <2>4, <2>6 DEF TypeOK, HandoffTypeOK
  <2>8. CASE m.embargo
    <3> DEFINE new == [p EXCEPT !.eid = x, !.embargoed = TRUE, !.aqid = m.qid, !.by = e]
    <3>1. /\ provisions' = [provisions EXCEPT ![v][i0] = new]
          /\ Absorb(e)
          /\ UNCHANGED answers
      BY <2>1, <2>8 DEF Grant, p, v, i0
    <3>2. new \in Provision /\ new.aqid \in QuestionIds /\ new.by \in Ends
      BY <1>1, <2>3, <2>5 DEF Provision
    <3> HIDE DEF new
    <3>3. HandoffTypeOK' /\ EmbargoedAreClaimed'
      BY <1>2, <1>3, <2>2, <2>7, <3>1, <3>2 DEF TypeOK, HandoffTypeOK, EmbargoedAreClaimed
    <3> QED BY <1>1, <2>4, <2>5, <2>6, <3>1, <3>3, ExportTypes, AbsorbTypes
            DEF TypeOK, ServerTypeOK
  <2>9. CASE ~m.embargo
    <3> DEFINE ret == [Results(e, m, x) EXCEPT !.obj = p.server]
    <3>1. /\ provisions' = [provisions EXCEPT ![v][i0] = NoProvision]
          /\ FlushAnswer(e, ret)
      BY <2>1, <2>9 DEF Grant, p, v, i0
    <3>2. ret \in Return
      <4>1. Results(e, m, x) \in Return
        BY <1>1, <2>5, ResultsType
      <4> QED BY <4>1, <2>4 DEF Return
    <3> HIDE DEF ret
    <3>3. HandoffTypeOK' /\ EmbargoedAreClaimed'
      BY <1>2, <1>3, <2>2, <2>7, <3>1 DEF TypeOK, HandoffTypeOK, EmbargoedAreClaimed
    <3> QED BY <1>1, <2>4, <2>5, <2>6, <3>1, <3>2, <3>3, ExportTypes, FlushAnswerTypes
            DEF TypeOK, ServerTypeOK
  <2> QED BY <2>8, <2>9
<1> QED BY <1>4, <1>5

\* note_introductions fills slots with well-formed introductions only.
LEMMA NoteIntroductionsTypes ==
  ASSUME NEW e \in Ends, NEW intros \in Seq(Descriptor), HandoffTypeOK,
         NoteIntroductions(e, intros)
  PROVE  introductions' \in [Ends -> [IntroductionSlots -> Introduction \cup {NoIntroduction}]]
<1> DEFINE fitting == {k \in DOMAIN intros : intros[k].fits}
           free == {i \in IntroductionSlots : introductions[e][i] = NoIntroduction}
           taking(i) == {k \in fitting : Cardinality({h \in fitting : h < k})
                                         = Cardinality({j \in free : j < i})}
           noted(k) == [nonce |-> intros[k].nonce, vine |-> intros[k].vine]
           table == [i \in IntroductionSlots |->
                       IF i \in free /\ taking(i) # {} THEN noted(First(taking(i)))
                       ELSE introductions[e][i]]
<1>1. introductions' = [introductions EXCEPT ![e] = table]
  BY DEF NoteIntroductions
<1>2. ASSUME NEW i \in IntroductionSlots, taking(i) # {}
      PROVE  noted(First(taking(i))) \in Introduction
  <2>1. DOMAIN intros \subseteq Nat
    OBVIOUS
  <2>2. taking(i) \subseteq DOMAIN intros
    OBVIOUS
  <2> HIDE DEF taking
  <2>3. First(taking(i)) \in DOMAIN intros
    BY <1>2, <2>1, <2>2, FirstInNat
  <2>4. \A k \in DOMAIN intros : intros[k] \in Descriptor
    OBVIOUS
  <2> QED BY <2>3, <2>4 DEF Descriptor, Introduction
<1> HIDE DEF taking, noted, free
<1>3. table \in [IntroductionSlots -> Introduction \cup {NoIntroduction}]
  BY <1>2 DEF HandoffTypeOK
<1> HIDE DEF table
<1> QED BY <1>1, <1>3 DEF HandoffTypeOK

\* question_find returns a slot that holds the question.
LEMMA SlotsOfType ==
  ASSUME NEW e \in Ends, NEW qid, SlotsOf(e, qid) # {}
  PROVE  Min(SlotsOf(e, qid)) \in SlotsOf(e, qid)
<1>1. SlotsOf(e, qid) \subseteq Nat
  BY Ranges DEF SlotsOf
<1> QED BY <1>1, MinInNat

\* handle_return keeps the types of the asking half.
LEMMA ReturnTypes ==
  ASSUME NEW e \in Ends, TypeOK, RecvReturn(e)
  PROVE  inbox' \in [Ends -> Seq(Message)] /\ ClientTypeOK' /\ HandoffTypeOK'
<1> DEFINE m == Head(inbox[e])
           i0 == Min(SlotsOf(e, m.qid))
           old == questions[e][i0]
           new == [old EXCEPT !.answered = TRUE, !.failed = ~m.results, !.reply = m]
<1>1. inbox[e] # <<>> /\ m \in Return
  BY GivenMessage, MessageFields DEF RecvReturn, TypeOK
<1>2. Absorb(e) /\ UNCHANGED <<nextQid, vain, provisions, provided, claims>>
  BY DEF RecvReturn, HandleReturn
<1>3. inbox' \in [Ends -> Seq(Message)]
  BY <1>1, <1>2, AbsorbTypes DEF TypeOK
<1>4. introductions' \in [Ends -> [IntroductionSlots -> Introduction \cup {NoIntroduction}]]
  <2>1. m.intros \in Seq(Descriptor)
    BY <1>1 DEF Return
  <2>2. CASE Recorded(e, m) /\ m.results
    <3>1. NoteIntroductions(e, m.intros)
      BY <2>2 DEF RecvReturn
    <3> QED BY <2>1, <3>1, NoteIntroductionsTypes DEF TypeOK
  <2>3. CASE ~(Recorded(e, m) /\ m.results)
    <3>1. UNCHANGED introductions
      BY <2>3 DEF RecvReturn
    <3> QED BY <3>1 DEF TypeOK, HandoffTypeOK
  <2> QED BY <2>2, <2>3
<1>5. questions' \in [Ends -> [QuestionSlots -> Question \cup {NoQuestion}]]
  <2>1. CASE Recorded(e, m)
    <3>1. questions' = [questions EXCEPT ![e][i0] = new]
      BY <2>1 DEF RecvReturn, HandleReturn
    <3>2. i0 \in QuestionSlots /\ old # NoQuestion
      BY <2>1, SlotsOfType DEF Recorded, SlotsOf
    <3>3. old \in Question
      <4> HIDE DEF i0
      <4> QED BY <3>2 DEF TypeOK, ClientTypeOK
    <3> HIDE DEF old, m
    <3>4. new \in Question
      BY <1>1, <3>3 DEF Question, Return
    <3> HIDE DEF i0, new
    <3> QED BY <3>1, <3>2, <3>4 DEF TypeOK, ClientTypeOK
  <2>2. CASE ~Recorded(e, m)
    BY <2>2 DEF RecvReturn, HandleReturn, TypeOK, ClientTypeOK
  <2> QED BY <2>1, <2>2
<1>6. imports' \in [Ends -> [ExportIds -> [n : Nat, obj : Servers \cup {NoServer}]]]
  <2>1. imports' = IF Recorded(e, m) /\ m.results /\ m.cap # NoExport
                   THEN [imports EXCEPT ![e][m.cap] = [n |-> @.n + 1, obj |-> m.obj]]
                   ELSE imports
    BY DEF RecvReturn, HandleReturn, Imported
  <2>2. m.cap \in ExportIds \cup {NoExport} /\ m.obj \in Servers \cup {NoServer}
    BY <1>1 DEF Return
  <2> HIDE DEF m
  <2> QED BY <2>1, <2>2 DEF TypeOK, ClientTypeOK
<1> QED BY <1>2, <1>3, <1>4, <1>5, <1>6 DEF TypeOK, ClientTypeOK, HandoffTypeOK

\* Asking a question keeps the types of the asking half, whether or not the send
\* callback fails.
LEMMA AskTypes ==
  ASSUME NEW e \in Ends, TypeOK, NEW req \in Request, req.qid \in QuestionIds, Ask(e, req)
  PROVE  inbox' \in [Ends -> Seq(Message)] /\ ClientTypeOK'
<1> DEFINE i0 == Min(FreeQuestions(e))
<1>1. i0 \in QuestionSlots
  <2>1. FreeQuestions(e) \subseteq Nat /\ FreeQuestions(e) # {}
    BY Ranges DEF Ask, FreeQuestions
  <2>2. i0 \in FreeQuestions(e)
    BY <2>1, MinInNat
  <2> QED BY <2>2 DEF FreeQuestions
<1>2. nextQid' \in [Ends -> 0 .. MaxAsks] /\ UNCHANGED <<imports, vain>>
  BY WireAssumption DEF Ask, TypeOK, ClientTypeOK, WireAssumption
<1>3. Asked(req) \in Question
  BY DEF Asked, Question
<1>4. CASE Claim(e, req) /\ Post(e, req)
  <2>1. inbox' \in [Ends -> Seq(Message)]
    BY <1>4, PostTypes DEF Message, TypeOK
  <2>2. questions' = [questions EXCEPT ![e][i0] = Asked(req)]
    BY <1>4 DEF Claim
  <2> HIDE DEF i0
  <2> QED BY <1>1, <1>2, <1>3, <2>1, <2>2 DEF TypeOK, ClientTypeOK
<1>5. CASE UNCHANGED <<questions, inbox>>
  BY <1>2, <1>5 DEF TypeOK, ClientTypeOK
<1> QED BY <1>4, <1>5 DEF Ask, SendFails

\* A question in the table is well-formed.
LEMMA OpenQuestionType ==
  ASSUME NEW e \in Ends, TypeOK, NEW r \in OpenQuestions(e)
  PROVE  r \in Question /\ r.qid \in QuestionIds
<1>1. PICK i \in QuestionSlots : r = questions[e][i] /\ r # NoQuestion
  BY DEF OpenQuestions, FreeQuestions
<1>2. r \in Question
  BY <1>1 DEF TypeOK, ClientTypeOK
<1> QED BY <1>2 DEF Question

\* next_question_id is an id as long as the bound on questions is not reached.
LEMMA NextQidType ==
  ASSUME NEW e \in Ends, TypeOK
  PROVE  nextQid[e] \in Nat /\ (nextQid[e] < MaxAsks => nextQid[e] \in QuestionIds)
BY WireAssumption DEF TypeOK, ClientTypeOK, QuestionIds, WireAssumption

\* An import is a well-formed target.
LEMMA ImportType ==
  ASSUME NEW id \in Nat
  PROVE  Import(id) \in Target
BY DEF Import, Target

\* Only an application that uses embargoes asks for one.
MayEmbargo(e, req) == req.type = "Accept" /\ req.embargo => "embargo" \in Ops[e]

\* The application asks one question, with the next id.
Requests(e) == \E req \in Request : req.qid = nextQid[e] /\ Ask(e, req) /\ MayEmbargo(e, req)

\* A call without introductions, a Join of an import that is held, or another request.
PlainRequest(e, req) ==
  /\ MayEmbargo(e, req)
  /\ req.type = "Call" => req.intros = <<>>
  /\ req.type = "Join" => "join" \in Ops[e] /\ \E x \in Held(e) : req.target = Import(x)

\* The application asks one such question, with the next id.
AsksOne(e) == \E req \in Request : req.qid = nextQid[e] /\ Ask(e, req) /\ PlainRequest(e, req)

\* Every request operation of an application asks one question, with the next id.
LEMMA AsksPlain ==
  ASSUME NEW e \in Ends, TypeOK, Asks(e)
  PROVE  AsksOne(e)
<1> DEFINE q == nextQid[e]
<1>1. nextQid[e] < MaxAsks
  BY DEF Asks, SendBootstrap, SendCall, SendPipelinedCall, SendJoin, SendProvide, SendAccept, Ask
<1>2. q \in QuestionIds
  BY <1>1, NextQidType
<1>3. ASSUME SendBootstrap(e)
      PROVE  AsksOne(e)
  <2> DEFINE req == [type |-> "Bootstrap", qid |-> q]
  <2>1. req \in Request /\ req.qid = q
    BY <1>2 DEF Request
  <2> HIDE DEF req
  <2> QED BY <1>3, <2>1 DEF SendBootstrap, AsksOne, PlainRequest, MayEmbargo, req
<1>4. ASSUME NEW x \in WireIds, SendCall(e, x)
      PROVE  AsksOne(e)
  <2> DEFINE req == [type |-> "Call", qid |-> q, target |-> Import(x), intros |-> <<>>]
  <2>1. Import(x) \in Target
    BY ImportType, WireAssumption DEF WireIds, WireAssumption
  <2>2. req \in Request /\ req.qid = q
    BY <1>2, <2>1 DEF Request
  <2> HIDE DEF req
  <2> QED BY <1>4, <2>2 DEF SendCall, AsksOne, PlainRequest, MayEmbargo, req
<1>5. ASSUME NEW qid \in Nat, NEW ops \in BOOLEAN, SendPipelinedCall(e, qid, ops)
      PROVE  AsksOne(e)
  <2> DEFINE req == [type |-> "Call", qid |-> q, intros |-> <<>>,
                     target |-> [kind |-> "promisedAnswer", id |-> qid, ops |-> ops]]
  <2>1. req \in Request /\ req.qid = q
    BY <1>2 DEF Request, Target
  <2> HIDE DEF req
  <2> QED BY <1>5, <2>1 DEF SendPipelinedCall, AsksOne, PlainRequest, MayEmbargo, req
<1>6. ASSUME NEW x \in Held(e), x \in ExportIds, NEW jid \in JoinIds, NEW pcount \in JoinCounts,
             NEW pnum \in PartNums, SendJoin(e, Import(x), jid, pcount, pnum), "join" \in Ops[e]
      PROVE  AsksOne(e)
  <2> DEFINE req == [type |-> "Join", qid |-> q, target |-> Import(x), jid |-> jid,
                     pcount |-> pcount, pnum |-> pnum]
  <2>1. Import(x) \in Target /\ pcount \in Nat /\ pnum \in Nat
    BY <1>6, ImportType, Ranges, ConnAssumption DEF ConnAssumption
  <2>2. req \in Request /\ req.qid = q /\ req.type = "Join" /\ req.target = Import(x)
    BY <1>2, <2>1 DEF Request
  <2>3. Ask(e, req)
    BY <1>6 DEF SendJoin
  <2> HIDE DEF req
  <2>4. PlainRequest(e, req)
    BY <1>6, <2>2 DEF PlainRequest, MayEmbargo
  <2> QED BY <2>2, <2>3, <2>4 DEF AsksOne
<1>7. ASSUME NEW x \in ExportIds, NEW n \in Nonces, SendProvide(e, x, n)
      PROVE  AsksOne(e)
  <2> DEFINE req == [type |-> "Provide", qid |-> q, target |-> Import(x), nonce |-> n]
  <2>1. Import(x) \in Target
    BY ImportType, Ranges
  <2>2. req \in Request /\ req.qid = q
    BY <1>2, <2>1 DEF Request
  <2> HIDE DEF req
  <2> QED BY <1>7, <2>2 DEF SendProvide, AsksOne, PlainRequest, MayEmbargo, req
<1>8. ASSUME NEW n \in Nonces, NEW embargo \in BOOLEAN, SendAccept(e, n, embargo),
             embargo => "embargo" \in Ops[e]
      PROVE  AsksOne(e)
  <2> DEFINE req == [type |-> "Accept", qid |-> q, nonce |-> n, embargo |-> embargo]
  <2>1. req \in Request /\ req.qid = q
    BY <1>2 DEF Request
  <2> HIDE DEF req
  <2> QED BY <1>8, <2>1 DEF SendAccept, AsksOne, PlainRequest, MayEmbargo, req
<1>9. \A x \in Held(e) : x \in ExportIds /\ x \in WireIds
  BY Ranges DEF Held
<1>10. \A r \in OpenQuestions(e) : r.qid \in Nat
  BY Ranges, OpenQuestionType
<1>11. TRUE \in BOOLEAN /\ FALSE \in BOOLEAN
  OBVIOUS
<1> QED BY <1>3, <1>4, <1>5, <1>6, <1>7, <1>8, <1>9, <1>10, <1>11 DEF Asks

LEMMA AsksRequest ==
  ASSUME NEW e \in Ends, TypeOK, Asks(e)
  PROVE  Requests(e)
BY AsksPlain DEF AsksOne, PlainRequest, Requests

\* A request operation keeps the types of the asking half.
LEMMA RequestsTypes ==
  ASSUME NEW e \in Ends, TypeOK, Requests(e)
  PROVE  inbox' \in [Ends -> Seq(Message)] /\ ClientTypeOK'
<1>1. PICK req \in Request : req.qid = nextQid[e] /\ Ask(e, req)
  BY DEF Requests
<1>2. req.qid \in QuestionIds
  BY <1>1, NextQidType DEF Ask
<1> QED BY <1>1, <1>2, AskTypes

\* capnp_rpc_send_finish keeps the question table well-formed.
LEMMA ForgetTypes ==
  ASSUME NEW e \in Ends, NEW qid, TypeOK, Forget(e, qid)
  PROVE  questions' \in [Ends -> [QuestionSlots -> Question \cup {NoQuestion}]]
<1> DEFINE i0 == Min(SlotsOf(e, qid))
<1>1. SlotsOf(e, qid) # {} => i0 \in QuestionSlots
  BY SlotsOfType DEF SlotsOf
<1>2. questions' = IF SlotsOf(e, qid) = {} THEN questions
                   ELSE [questions EXCEPT ![e][i0] = NoQuestion]
  BY DEF Forget
<1> HIDE DEF i0
<1> QED BY <1>1, <1>2 DEF TypeOK, ClientTypeOK

\* Recording that questions were finished in vain keeps the types.
LEMMA InVainTypes ==
  ASSUME NEW e \in Ends, NEW S \in SUBSET QuestionIds, ClientTypeOK, InVain(e, S)
  PROVE  vain' \in [Ends -> SUBSET QuestionIds]
BY DEF ClientTypeOK, InVain

\* The application sends one notice, or fails to; an embargo it raises has the next
\* id, and only the introducer lifts one.
Notifies(e) ==
  \E m \in Notice :
    /\ Post(e, m) \/ UNCHANGED inbox
    /\ m.type = "Disembargo" =>
         \/ m.context = "provide" /\ "disembargo" \in Ops[e]
         \/ m.context = "senderLoopback" /\ m.id = nextQid[e]

\* Sending a notice keeps the transport well-formed.
LEMMA NotifiesTypes ==
  ASSUME NEW e \in Ends, TypeOK, Notifies(e)
  PROVE  inbox' \in [Ends -> Seq(Message)]
BY PostTypes DEF Notifies, Message, TypeOK

\* Every notice operation of an application sends at most one notice and asks nothing.
LEMMA TellsNotify ==
  ASSUME NEW e \in Ends, TypeOK, Tells(e)
  PROVE  Notifies(e) /\ ClientTypeOK' /\ UNCHANGED nextQid
<1> DEFINE Done == Notifies(e) /\ ClientTypeOK' /\ UNCHANGED nextQid
<1>1. ASSUME NEW qid \in QuestionIds, SendFinish(e, qid)
      PROVE  Done
  <2>1. [type |-> "Finish", qid |-> qid] \in Notice
    BY DEF Notice
  <2>2. Notifies(e)
    BY <1>1, <2>1 DEF SendFinish, SendFails, Notifies
  <2>3. vain' \in [Ends -> SUBSET QuestionIds]
    <3>1. UNCHANGED vain \/ InVain(e, {qid})
      BY <1>1 DEF SendFinish
    <3> QED BY <3>1, InVainTypes DEF TypeOK, ClientTypeOK
  <2>4. Forget(e, qid) /\ UNCHANGED <<nextQid, imports>>
    BY <1>1 DEF SendFinish
  <2> QED BY <2>2, <2>3, <2>4, ForgetTypes DEF TypeOK, ClientTypeOK
<1>2. ASSUME NEW x \in ExportIds, NEW count, SendRelease(e, x, count)
      PROVE  Done
  <2>1. imports[e][x] \in [n : Nat, obj : Servers \cup {NoServer}] /\ count \in 1 .. imports[e][x].n
    BY <1>2 DEF SendRelease, TypeOK, ClientTypeOK
  <2>2. imports[e][x].n - count \in Nat /\ count \in Nat
    BY <2>1
  <2>3. [type |-> "Release", id |-> x, count |-> count] \in Notice
    BY <2>2, Ranges DEF Notice
  <2>4. imports' \in [Ends -> [ExportIds -> [n : Nat, obj : Servers \cup {NoServer}]]]
    BY <1>2, <2>1, <2>2 DEF SendRelease, TypeOK, ClientTypeOK
  <2>5. Notifies(e)
    BY <1>2, <2>3 DEF SendRelease, Notifies
  <2> QED BY <1>2, <2>4, <2>5 DEF SendRelease, TypeOK, ClientTypeOK
<1>3. ASSUME NEW id \in Nat, NEW context \in {"senderLoopback", "provide"},
             SendDisembargo(e, context, id), context = "senderLoopback" => id = nextQid[e],
             context = "provide" => "disembargo" \in Ops[e]
      PROVE  Done
  <2>1. [type |-> "Disembargo", context |-> context, id |-> id] \in Notice
    BY DEF Notice
  <2>2. Notifies(e)
    BY <1>3, <2>1 DEF SendDisembargo, Notifies
  <2> QED BY <1>3, <2>2 DEF SendDisembargo, clientVars, TypeOK, ClientTypeOK
<1>4. ASSUME SendResolve(e)
      PROVE  Done
  <2>1. [type |-> "Resolve"] \in Notice
    BY DEF Notice
  <2>2. Notifies(e)
    BY <1>4, <2>1 DEF SendResolve, Notifies
  <2> QED BY <1>4, <2>2 DEF SendResolve, clientVars, TypeOK, ClientTypeOK
<1>5. \A r \in OpenQuestions(e) : r.qid \in QuestionIds /\ r.qid \in Nat
  BY OpenQuestionType, Ranges
<1>6. nextQid[e] \in Nat
  BY NextQidType
<1> QED BY <1>1, <1>2, <1>3, <1>4, <1>5, <1>6 DEF Tells

\* capnp_rpc_write_third_party_cap writes a well-formed descriptor.
LEMMA DescriptorType ==
  ASSUME NEW n \in Nonces, NEW x \in ExportIds, NEW fits \in BOOLEAN
  PROVE  <<[nonce |-> n, vine |-> x, fits |-> fits]>> \in Seq(Descriptor)
BY DEF Descriptor

\* An introduction in a call is one request, and keeps the export table well-formed.
LEMMA IntroducesTypes ==
  ASSUME NEW e \in Ends, TypeOK, Introduces(e)
  PROVE  Requests(e) /\ ServerTypeOK'
<1>1. PICK s \in Servers, n \in Nonces, fits \in BOOLEAN :
        LET x == ExportId(e, s)
        IN  /\ x # NoExport
            /\ Export(e, s, x)
            /\ Ask(e, [type |-> "Call", qid |-> nextQid[e], target |-> Import(0),
                       intros |-> <<[nonce |-> n, vine |-> x, fits |-> fits]>>])
            /\ UNCHANGED <<bootstrap, answers, joins>>
  BY DEF Introduces
<1> DEFINE x == ExportId(e, s)
           d == <<[nonce |-> n, vine |-> x, fits |-> fits]>>
           req == [type |-> "Call", qid |-> nextQid[e], target |-> Import(0), intros |-> d]
<1>2. x \in ExportIds
  BY <1>1, ExportIdType DEF TypeOK
<1>3. nextQid[e] \in QuestionIds
  BY <1>1, NextQidType DEF Ask
<1>4. Import(0) \in Target /\ d \in Seq(Descriptor)
  BY <1>2, DescriptorType, ImportType
<1>5. Ask(e, req) /\ Export(e, s, x) /\ UNCHANGED <<bootstrap, answers, joins>>
  BY <1>1
<1> HIDE DEF d, x
<1>6. req \in Request /\ req.qid = nextQid[e] /\ req.type = "Call"
  BY <1>3, <1>4 DEF Request
<1> HIDE DEF req
<1>7. Requests(e)
  BY <1>5, <1>6 DEF Requests, MayEmbargo
<1> QED BY <1>2, <1>5, <1>7, ExportTypes DEF TypeOK, ServerTypeOK

\* An introduction in a Return answers the call it is given, and keeps the export
\* table well-formed.
LEMMA ReturnsIntroductionTypes ==
  ASSUME NEW e \in Ends, TypeOK, ReturnsIntroduction(e)
  PROVE  /\ inbox' \in [Ends -> Seq(Message)] /\ ServerTypeOK'
         /\ Given(e, "Call")
         /\ \E ret \in Return : /\ ret.qid = Head(inbox[e]).qid /\ ret.to = Peer[e]
                               /\ Answer(e, <<ret>>)
<1> DEFINE m == Head(inbox[e])
<1>1. PICK s \in Servers, n \in Nonces :
        LET x   == ExportId(e, s)
            ret == Results(e, m, NoExport)
        IN  /\ x # NoExport
            /\ Given(e, "Call")
            /\ Export(e, s, x)
            /\ Answer(e, <<[ret EXCEPT !.intros = <<[nonce |-> n, vine |-> x, fits |-> TRUE]>>]>>)
            /\ UNCHANGED <<bootstrap, answers, joins>>
  BY DEF ReturnsIntroduction
<1> DEFINE x == ExportId(e, s)
           d == <<[nonce |-> n, vine |-> x, fits |-> TRUE]>>
           ret == [Results(e, m, NoExport) EXCEPT !.intros = d]
<1>2. x \in ExportIds
  BY <1>1, ExportIdType DEF TypeOK
<1>3. inbox[e] # <<>> /\ m.qid \in QuestionIds /\ m.type \in RequestTypes
  BY <1>1, GivenMessage, MessageFields DEF TypeOK, RequestTypes
<1>4. d \in Seq(Descriptor)
  BY <1>2, DescriptorType
<1>5. Answer(e, <<ret>>) /\ Export(e, s, x) /\ UNCHANGED <<bootstrap, answers, joins>>
  BY <1>1
<1> HIDE DEF d, x
<1>6. Results(e, m, NoExport) \in Return
  BY <1>3, ResultsType
<1>7. ret \in Return /\ ret.qid = m.qid /\ ret.to = Peer[e]
  BY <1>4, <1>6 DEF Return, Results
<1> HIDE DEF ret
<1>8. <<ret>> \in Seq(Message)
  BY <1>7 DEF Message
<1> QED BY <1>1, <1>2, <1>3, <1>5, <1>7, <1>8, ExportTypes, AnswerTypes DEF TypeOK, ServerTypeOK

\* capnp_rpc_introduction_done sends at most one notice and keeps the introductions well-formed.
LEMMA PicksUpTypes ==
  ASSUME NEW e \in Ends, TypeOK, PicksUp(e)
  PROVE  Notifies(e) /\ HandoffTypeOK'
<1>1. PICK n \in Nonces : IntroductionDone(e, n)
  BY DEF PicksUp
<1> DEFINE held == {i \in IntroductionSlots :
                      introductions[e][i] # NoIntroduction /\ introductions[e][i].nonce = n}
           i0 == First(held)
           vine == introductions[e][i0].vine
<1>2. /\ held # {}
      /\ Post(e, [type |-> "Release", id |-> vine, count |-> 1]) \/ UNCHANGED inbox
      /\ introductions' = [introductions EXCEPT ![e][i0] = NoIntroduction]
      /\ UNCHANGED <<provisions, provided, claims>>
  BY <1>1 DEF IntroductionDone, SendFails
<1>3. i0 \in held
  BY <1>2, FirstInNat, Ranges
<1>4. i0 \in IntroductionSlots /\ introductions[e][i0] # NoIntroduction
  BY <1>3
<1> HIDE DEF i0
<1>5. introductions[e][i0] \in Introduction
  BY <1>4 DEF TypeOK, HandoffTypeOK
<1>6. vine \in WireIds
  BY <1>5, Ranges DEF Introduction
<1> HIDE DEF vine
<1>7. [type |-> "Release", id |-> vine, count |-> 1] \in Notice
  BY <1>6 DEF Notice
<1>8. Notifies(e)
  BY <1>2, <1>7 DEF Notifies
<1> QED BY <1>2, <1>4, <1>8 DEF TypeOK, HandoffTypeOK

\* capnp_rpc_init leaves well-formed tables.
LEMMA TypeInit == Init => TypeInv
<1> SUFFICES ASSUME Init PROVE TypeInv
  OBVIOUS
<1>1. inbox \in [Ends -> Seq(Message)]
  BY DEF Init, WireInit
<1>2. ServerTypeOK
  BY DEF Init, ServerInit, ServerTypeOK
<1>3. ClientTypeOK
  BY WireAssumption DEF Init, ClientInit, ClientTypeOK, WireAssumption
<1>4. HandoffTypeOK
  BY DEF Init, HandoffInit, HandoffTypeOK
<1>5. EmbargoedAreClaimed
  BY DEF Init, HandoffInit, EmbargoedAreClaimed
<1> QED BY <1>1, <1>2, <1>3, <1>4, <1>5 DEF TypeInv, TypeOK

\* Every handler and every operation keeps the types.
LEMMA TypeStep ==
  ASSUME TypeInv, [Next]_vars
  PROVE  TypeInv'
<1> USE DEF TypeInv
<1>1. /\ UNCHANGED serverVars => ServerTypeOK'
      /\ UNCHANGED clientVars => ClientTypeOK'
      /\ UNCHANGED handoffVars => HandoffTypeOK' /\ EmbargoedAreClaimed'
      /\ UNCHANGED provisions => EmbargoedAreClaimed'
  BY DEF TypeOK, ServerTypeOK, ClientTypeOK, HandoffTypeOK, EmbargoedAreClaimed,
         serverVars, clientVars, handoffVars
<1>2. CASE UNCHANGED vars
  BY <1>1, <1>2 DEF vars, serverVars, clientVars, handoffVars, TypeOK
<1>3. ASSUME NEW e \in Ends, Receive(e)
      PROVE  TypeInv'
  <2>1. CASE RecvBootstrap(e)
    BY <1>1, <2>1, BootstrapTypes DEF RecvBootstrap, TypeOK
  <2>2. CASE RecvCall(e)
    <3>1. Head(inbox[e]).intros \in Seq(Descriptor)
      BY <2>2, GivenMessage, MessageFields DEF RecvCall, TypeOK
    <3>2. HandoffTypeOK' /\ EmbargoedAreClaimed'
      BY <1>1, <2>2, <3>1, NoteIntroductionsTypes DEF RecvCall, TypeOK, HandoffTypeOK
    <3> QED BY <1>1, <2>2, <3>2, CallTypes DEF RecvCall, TypeOK
  <2>3. CASE RecvFinish(e)
    <3> DEFINE S == {Head(inbox[e]).qid} \cap HeldBack(e)
    <3>1. S \in SUBSET QuestionIds
      BY <2>3, GivenMessage, MessageFields DEF RecvFinish, TypeOK
    <3>2. InVain(Peer[e], S) /\ Peer[e] \in Ends
      BY <2>3, WireAssumption DEF RecvFinish, WireAssumption
    <3> HIDE DEF S
    <3>3. ClientTypeOK'
      BY <2>3, <3>1, <3>2, InVainTypes DEF RecvFinish, TypeOK, ClientTypeOK
    <3> QED BY <1>1, <2>3, <3>3, FinishTypes DEF RecvFinish, TypeOK
  <2>4. CASE RecvRelease(e)
    BY <1>1, <2>4, ReleaseTypes DEF RecvRelease, TypeOK
  <2>5. CASE RecvJoin(e)
    BY <1>1, <2>5, JoinTypes DEF RecvJoin, TypeOK
  <2>6. CASE RecvDisembargo(e)
    BY <1>1, <2>6, DisembargoTypes DEF RecvDisembargo, TypeOK
  <2>7. CASE RecvReturn(e)
    BY <1>1, <2>7, ReturnTypes DEF RecvReturn, TypeOK
  <2>8. CASE RecvProvide(e)
    BY <1>1, <2>8, ProvideTypes DEF RecvProvide, TypeOK
  <2>9. CASE RecvAccept(e)
    BY <1>1, <2>9, AcceptTypes DEF RecvAccept, TypeOK
  <2>10. CASE RecvOther(e)
    BY <1>1, <2>10, OtherTypes DEF RecvOther, TypeOK
  <2> QED BY <1>3, <2>1, <2>2, <2>3, <2>4, <2>5, <2>6, <2>7, <2>8, <2>9, <2>10 DEF Receive
<1>4. ASSUME NEW e \in Ends, Acts(e)
      PROVE  TypeInv'
  <2>1. CASE Asks(e)
    BY <1>1, <2>1, AsksRequest, RequestsTypes DEF Asks, TypeOK
  <2>2. CASE Tells(e)
    BY <1>1, <2>2, TellsNotify, NotifiesTypes DEF Tells, TypeOK
  <2>3. CASE Hosts(e)
    <3>1. ServerTypeOK' /\ UNCHANGED inbox
      BY <2>3 DEF Hosts, SetBootstrap, TypeOK, ServerTypeOK
    <3> QED BY <1>1, <2>3, <3>1 DEF Hosts, TypeOK
  <2>4. CASE Introduces(e)
    <3>1. UNCHANGED handoffVars
      BY <2>4 DEF Introduces
    <3> QED BY <1>1, <2>4, <3>1, IntroducesTypes, RequestsTypes DEF TypeOK
  <2>5. CASE ReturnsIntroduction(e)
    <3>1. UNCHANGED handoffVars /\ UNCHANGED clientVars
      BY <2>5 DEF ReturnsIntroduction
    <3> QED BY <1>1, <2>5, <3>1, ReturnsIntroductionTypes DEF TypeOK
  <2>6. CASE PicksUp(e)
    <3>1. UNCHANGED serverVars /\ UNCHANGED clientVars /\ UNCHANGED provisions
      BY <2>6 DEF PicksUp, IntroductionDone
    <3> QED BY <1>1, <2>6, <3>1, PicksUpTypes, NotifiesTypes DEF TypeOK
  <2> QED BY <1>4, <2>1, <2>2, <2>3, <2>4, <2>5, <2>6 DEF Acts
<1> QED BY <1>2, <1>3, <1>4 DEF Next

\* Type correctness in its inductive form: every handler of capnp_rpc_handle and
\* every operation of the API keeps the tables of all connections well-formed, and
\* an embargoed provision always knows the Accept that claimed it.
THEOREM TypeInvariant == Spec => []TypeInv
<1>1. TypeInv /\ [Next]_vars => TypeInv'
  BY TypeStep
<1> QED BY <1>1, TypeInit, PTL DEF Spec

\* Type correctness (TypeOK, the type invariant of the runs) for every set of
\* connections and vats, every table size of capnp_rpc.h and every bound.
THEOREM TypeCorrect == Spec => []TypeOK
<1>1. TypeInv => TypeOK
  BY DEF TypeInv
<1> QED BY <1>1, TypeInvariant, PTL

-----------------------------------------------------------------------------
(* Safety invariants on top of it *)

\* capnp_rpc_export never gives an object a second id.
LEMMA ExportKeepsOneId ==
  ASSUME NEW e \in Ends, NEW s \in Servers, TypeOK, OneIdPerObject,
         ExportId(e, s) # NoExport, Export(e, s, ExportId(e, s))
  PROVE  OneIdPerObject'
<1> DEFINE x0 == ExportId(e, s)
<1>1. /\ x0 \in ExportIds
      /\ \/ server[e][x0] = s
         \/ \A y \in ExportIds : server[e][y] # s
  BY ExportIdType DEF TypeOK
<1>2. server' = [server EXCEPT ![e][x0] = s]
  BY DEF Export
<1>3. server \in [Ends -> [ExportIds -> Servers \cup {NoServer}]] /\ s # NoServer
  BY WireAssumption DEF TypeOK, ServerTypeOK, WireAssumption
<1> HIDE DEF x0
<1> QED BY <1>1, <1>2, <1>3 DEF OneIdPerObject, Used

\* No handler and no operation gives an object a second id.
LEMMA OneIdStep ==
  ASSUME TypeInv, OneIdPerObject, [Next]_vars
  PROVE  OneIdPerObject'
<1> USE DEF TypeInv
<1>1. UNCHANGED server => OneIdPerObject'
  BY DEF OneIdPerObject, Used
<1>2. CASE UNCHANGED vars
  BY <1>1, <1>2 DEF vars
<1>3. ASSUME NEW e \in Ends, Receive(e)
      PROVE  OneIdPerObject'
  <2> DEFINE m == Head(inbox[e])
  <2>1. CASE RecvBootstrap(e)
    <3>1. CASE bootstrap[e] = NoServer \/ ExportId(e, bootstrap[e]) = NoExport
      BY <1>1, <2>1, <3>1 DEF RecvBootstrap, HandleBootstrap, Refuse, serverVars
    <3>2. CASE bootstrap[e] # NoServer /\ ExportId(e, bootstrap[e]) # NoExport
      <4>1. bootstrap[e] \in Servers
        BY <3>2 DEF TypeOK, ServerTypeOK
      <4>2. Export(e, bootstrap[e], ExportId(e, bootstrap[e]))
        BY <2>1, <3>2 DEF RecvBootstrap, HandleBootstrap
      <4> QED BY <3>2, <4>1, <4>2, ExportKeepsOneId
    <3> QED BY <3>1, <3>2
  <2>2. CASE RecvCall(e)
    BY <1>1, <2>2 DEF RecvCall, HandleCall, Refuse, serverVars
  <2>3. CASE RecvFinish(e)
    BY <1>1, <2>3 DEF RecvFinish, HandleFinish
  <2>4. CASE RecvRelease(e)
    <3>1. CASE m.id \in ExportIds /\ Used(e, m.id)
      <4>1. PICK new \in {NoServer, server[e][m.id]} :
              server' = [server EXCEPT ![e][m.id] = new]
        BY <2>4, <3>1 DEF RecvRelease, HandleRelease
      <4>2. server \in [Ends -> [ExportIds -> Servers \cup {NoServer}]]
        BY DEF TypeOK, ServerTypeOK
      <4> HIDE DEF m
      <4> QED BY <3>1, <4>1, <4>2 DEF OneIdPerObject, Used
    <3>2. CASE ~(m.id \in ExportIds /\ Used(e, m.id))
      BY <1>1, <2>4, <3>2 DEF RecvRelease, HandleRelease
    <3> QED BY <3>1, <3>2
  <2>5. CASE RecvJoin(e)
    BY <1>1, <2>5 DEF RecvJoin, HandleJoin
  <2>6. CASE RecvDisembargo(e)
    BY <1>1, <2>6 DEF RecvDisembargo, HandleDisembargo, HandleDisembargoProvide, serverVars
  <2>7. CASE RecvReturn(e)
    BY <1>1, <2>7 DEF RecvReturn, serverVars
  <2>8. CASE RecvProvide(e)
    BY <1>1, <2>8 DEF RecvProvide, HandleProvide, Refuse, serverVars
  <2>9. CASE RecvAccept(e)
    <3> DEFINE match == Claimable(VatOf[e], m.nonce)
               i0    == First(match)
               p     == provisions[VatOf[e]][i0]
    <3>1. CASE match = {} \/ ExportId(e, p.server) = NoExport
      BY <1>1, <2>9, <3>1 DEF RecvAccept, HandleAccept, Refuse, serverVars
    <3>2. CASE match # {} /\ ExportId(e, p.server) # NoExport
      <4>1. Export(e, p.server, ExportId(e, p.server))
        BY <2>9, <3>2 DEF RecvAccept, HandleAccept, Grant
      <4>2. p.server \in Servers
        <5>1. VatOf[e] \in Vats /\ i0 \in ProvisionSlots /\ p # NoProvision
          <6>1. VatOf[e] \in Vats
            BY HandoffAssumption DEF HandoffAssumption
          <6>2. /\ match \subseteq ProvisionSlots
                /\ \A i \in match : provisions[VatOf[e]][i] # NoProvision
            BY DEF Claimable
          <6> HIDE DEF match
          <6>3. i0 \in match
            BY <3>2, <6>2, FirstInNat, Ranges
          <6> QED BY <6>1, <6>2, <6>3
        <5> HIDE DEF i0
        <5>2. p \in Provision
          BY <5>1 DEF TypeOK, HandoffTypeOK
        <5> QED BY <5>2 DEF Provision
      <4> HIDE DEF p
      <4> QED BY <3>2, <4>1, <4>2, ExportKeepsOneId
    <3> QED BY <3>1, <3>2
  <2>10. CASE RecvOther(e)
    BY <1>1, <2>10 DEF RecvOther, HandleUnimplemented, serverVars
  <2> QED BY <1>3, <2>1, <2>2, <2>3, <2>4, <2>5, <2>6, <2>7, <2>8, <2>9, <2>10 DEF Receive
<1>4. ASSUME NEW e \in Ends, Acts(e)
      PROVE  OneIdPerObject'
  <2>1. CASE Introduces(e) \/ ReturnsIntroduction(e)
    <3>1. PICK s \in Servers : ExportId(e, s) # NoExport /\ Export(e, s, ExportId(e, s))
      BY <2>1 DEF Introduces, ReturnsIntroduction
    <3> QED BY <3>1, ExportKeepsOneId
  <2>2. CASE Asks(e) \/ Tells(e) \/ Hosts(e) \/ PicksUp(e)
    BY <1>1, <2>2 DEF Asks, Tells, Hosts, SetBootstrap, PicksUp, serverVars
  <2> QED BY <1>4, <2>1, <2>2 DEF Acts
<1> QED BY <1>2, <1>3, <1>4 DEF Next

\* capnp_rpc_export gives an object one id per connection, whatever Releases,
\* Bootstraps, Accepts and introductions come between: OneIdPerObject holds for
\* every export table size.
THEOREM OneIdPerObjectCorrect == Spec => []OneIdPerObject
<1>1. Init => OneIdPerObject
  BY DEF Init, ServerInit, OneIdPerObject, Used
<1>2. TypeInv /\ OneIdPerObject /\ [Next]_vars => OneIdPerObject'
  BY OneIdStep
<1> QED BY <1>1, <1>2, TypeInvariant, PTL DEF Spec

\* Provisions that can be claimed can be counted.
LEMMA ClaimableFinite ==
  ASSUME NEW v, NEW n
  PROVE  IsFiniteSet(Claimable(v, n)) /\ Cardinality(Claimable(v, n)) \in Nat
<1>1. IsFiniteSet(ProvisionSlots)
  BY FS_Interval, HandoffAssumption DEF ProvisionSlots, HandoffAssumption
<1>2. Claimable(v, n) \subseteq ProvisionSlots
  BY DEF Claimable
<1> QED BY <1>1, <1>2, FS_Subset, FS_CardinalityType

\* handle_provide enters a recorded Provide and one claimable provision, or neither.
LEMMA ProvideKeepsLedger ==
  ASSUME NEW e \in Ends, TypeInv, NonceLedger, RecvProvide(e)
  PROVE  NonceLedger'
<1> DEFINE m    == Head(inbox[e])
           v    == VatOf[e]
           eid  == ResolveTarget(e, m.target)
           free == {i \in ProvisionSlots : provisions[v][i] = NoProvision}
<1>1. m.nonce \in Nonces \cup {NoNonce} /\ m.qid \in QuestionIds /\ v \in Vats
  BY GivenMessage, MessageFields, HandoffAssumption
     DEF RecvProvide, TypeInv, TypeOK, RequestTypes, HandoffAssumption
<1>2. CASE eid = NoExport \/ m.nonce = NoNonce \/ free = {}
  <2>1. UNCHANGED <<provisions, provided, claims>>
    BY <1>2 DEF RecvProvide, HandleProvide
  <2> QED BY <2>1 DEF NonceLedger, Claimable
<1>3. CASE eid # NoExport /\ m.nonce # NoNonce /\ free # {}
  <2> DEFINE new == [nonce |-> m.nonce, server |-> server[e][eid], eid |-> eid, qid |-> m.qid,
                     embargoed |-> FALSE, aqid |-> NoExport, from |-> e, by |-> NoEnd]
             i0  == First(free)
  <2>1. /\ provisions' = [provisions EXCEPT ![v][i0] = new]
        /\ provided' = [provided EXCEPT ![v][m.nonce] = @ + 1]
        /\ claims' = claims
    BY <1>3 DEF RecvProvide, HandleProvide
  <2>2. i0 \in ProvisionSlots /\ provisions[v][i0] = NoProvision
    BY <1>3, FirstInNat, Ranges
  <2>3. new \in Provision
    <3>1. eid \in ExportIds /\ Used(e, eid)
      BY <1>3, ResolveTargetType
    <3> HIDE DEF eid
    <3>2. server[e][eid] \in Servers
      BY <3>1 DEF Used, TypeInv, TypeOK, ServerTypeOK
    <3> QED BY <1>1, <1>3, <3>1, <3>2 DEF Provision
  <2>4. new # NoProvision /\ ~new.embargoed /\ new.nonce = m.nonce
    BY <2>3, UnusedAssumption
  <2>5. /\ provisions \in [Vats -> [ProvisionSlots -> Provision \cup {NoProvision}]]
        /\ provided \in [Vats -> [Nonces -> Nat]] /\ claims \in [Vats -> [Nonces -> Nat]]
    BY DEF TypeInv, TypeOK, HandoffTypeOK
  <2> HIDE DEF i0, v, new, m, eid, free
  <2>6. ASSUME NEW w \in Vats, NEW n \in Nonces
        PROVE  claims[w][n]' + Cardinality(Claimable(w, n)') = provided[w][n]'
    <3>1. claims[w][n] + Cardinality(Claimable(w, n)) = provided[w][n]
      BY DEF NonceLedger
    <3>2. CASE w = v /\ n = m.nonce
      <4>1. Claimable(w, n)' = Claimable(w, n) \cup {i0} /\ i0 \notin Claimable(w, n)
        BY <1>1, <2>1, <2>2, <2>4, <2>5, <3>2 DEF Claimable
      <4>2. Cardinality(Claimable(w, n)') = Cardinality(Claimable(w, n)) + 1
        BY <4>1, ClaimableFinite, FS_AddElement
      <4>3. provided[w][n]' = provided[w][n] + 1 /\ claims[w][n]' = claims[w][n]
        BY <2>1, <2>5, <3>2
      <4>4. claims[w][n] \in Nat /\ provided[w][n] \in Nat
        BY <2>5
      <4> QED BY <3>1, <4>2, <4>3, <4>4, ClaimableFinite
    <3>3. CASE ~(w = v /\ n = m.nonce)
      <4>1. Claimable(w, n)' = Claimable(w, n)
        BY <1>1, <2>1, <2>2, <2>4, <2>5, <3>3 DEF Claimable
      <4>2. provided[w][n]' = provided[w][n] /\ claims[w][n]' = claims[w][n]
        BY <1>1, <1>3, <2>1, <2>5, <3>3
      <4> QED BY <3>1, <4>1, <4>2
    <3> QED BY <3>2, <3>3
  <2> QED BY <2>6 DEF NonceLedger
<1> QED BY <1>2, <1>3

\* handle_accept takes one claimable provision per granted Accept, embargoed or not.
LEMMA AcceptKeepsLedger ==
  ASSUME NEW e \in Ends, TypeInv, NonceLedger, RecvAccept(e)
  PROVE  NonceLedger'
<1> DEFINE m     == Head(inbox[e])
           v     == VatOf[e]
           match == Claimable(v, m.nonce)
           i0    == First(match)
           p     == provisions[v][i0]
           x     == ExportId(e, p.server)
<1>1. v \in Vats
  BY HandoffAssumption DEF HandoffAssumption
<1>2. CASE match = {} \/ x = NoExport
  <2>1. UNCHANGED <<provisions, provided, claims>>
    BY <1>2 DEF RecvAccept, HandleAccept
  <2> QED BY <2>1 DEF NonceLedger, Claimable
<1>3. CASE match # {} /\ x # NoExport
  <2>1. Grant(e, m, i0, x) /\ provided' = provided
    BY <1>3 DEF RecvAccept, HandleAccept
  <2>2. i0 \in match
    BY <1>3, FirstInNat, Ranges DEF Claimable
  <2>3. i0 \in ProvisionSlots /\ p # NoProvision /\ p.nonce = m.nonce
    BY <2>2 DEF Claimable
  <2>4. /\ provisions \in [Vats -> [ProvisionSlots -> Provision \cup {NoProvision}]]
        /\ provided \in [Vats -> [Nonces -> Nat]] /\ claims \in [Vats -> [Nonces -> Nat]]
    BY DEF TypeInv, TypeOK, HandoffTypeOK
  <2>5. p \in Provision
    <3> HIDE DEF v, i0
    <3> QED BY <1>1, <2>3, <2>4
  <2>6. m.nonce \in Nonces
    <3> HIDE DEF p
    <3> QED BY <2>3, <2>5 DEF Provision
  <2>7. claims' = [claims EXCEPT ![v][m.nonce] = @ + 1]
    BY <2>1 DEF Grant
  <2>8. PICK new : /\ provisions' = [provisions EXCEPT ![v][i0] = new]
                   /\ new = NoProvision \/ new.embargoed
    <3>1. CASE m.embargo
      <4> DEFINE new == [p EXCEPT !.eid = x, !.embargoed = TRUE, !.aqid = m.qid, !.by = e]
      <4>1. provisions' = [provisions EXCEPT ![v][i0] = new]
        BY <2>1, <3>1 DEF Grant
      <4> HIDE DEF p
      <4>2. new.embargoed
        BY <2>5 DEF Provision
      <4> QED BY <4>1, <4>2
    <3>2. CASE ~m.embargo
      BY <2>1, <3>2 DEF Grant
    <3> QED BY <3>1, <3>2
  <2> HIDE DEF i0, v, m, x
  <2>9. ASSUME NEW w \in Vats, NEW n \in Nonces
        PROVE  claims[w][n]' + Cardinality(Claimable(w, n)') = provided[w][n]'
    <3>1. claims[w][n] + Cardinality(Claimable(w, n)) = provided[w][n]
      BY DEF NonceLedger
    <3>2. CASE w = v /\ n = m.nonce
      <4>1. Claimable(w, n)' = Claimable(w, n) \ {i0} /\ i0 \in Claimable(w, n)
        BY <1>1, <2>2, <2>3, <2>4, <2>8, <3>2 DEF Claimable
      <4>2. Cardinality(Claimable(w, n)') = Cardinality(Claimable(w, n)) - 1
        BY <4>1, ClaimableFinite, FS_RemoveElement
      <4>3. provided[w][n]' = provided[w][n] /\ claims[w][n]' = claims[w][n] + 1
        BY <2>1, <2>4, <2>7, <3>2
      <4>4. claims[w][n] \in Nat /\ provided[w][n] \in Nat
        BY <2>4
      <4> QED BY <3>1, <4>2, <4>3, <4>4, ClaimableFinite
    <3>3. CASE ~(w = v /\ n = m.nonce)
      <4>1. Claimable(w, n)' = Claimable(w, n)
        BY <1>1, <2>3, <2>4, <2>8, <3>3 DEF Claimable
      <4>2. provided[w][n]' = provided[w][n] /\ claims[w][n]' = claims[w][n]
        BY <1>1, <2>1, <2>4, <2>6, <2>7, <3>3
      <4> QED BY <3>1, <4>1, <4>2
    <3> QED BY <3>2, <3>3
  <2> QED BY <2>9 DEF NonceLedger
<1> QED BY <1>2, <1>3

\* release_provide_embargo drops a provision that can no longer be claimed.
LEMMA DisembargoKeepsLedger ==
  ASSUME NEW e \in Ends, TypeInv, NonceLedger, RecvDisembargo(e)
  PROVE  NonceLedger'
<1> DEFINE m    == Head(inbox[e])
           v    == VatOf[e]
           held == {i \in ProvisionSlots : /\ provisions[v][i] # NoProvision
                                           /\ provisions[v][i].embargoed
                                           /\ provisions[v][i].qid = m.id}
           i0   == First(held)
<1>1. provided' = provided /\ claims' = claims
  BY DEF RecvDisembargo, handoffVars
<1>2. CASE provisions' = provisions
  BY <1>1, <1>2 DEF NonceLedger, Claimable
<1>3. CASE held # {} /\ provisions' = [provisions EXCEPT ![v][i0] = NoProvision]
  <2>1. i0 \in held
    BY <1>3, FirstInNat, Ranges
  <2>2. v \in Vats /\ i0 \in ProvisionSlots /\ provisions[v][i0].embargoed
    BY <2>1, HandoffAssumption DEF HandoffAssumption
  <2>3. provisions \in [Vats -> [ProvisionSlots -> Provision \cup {NoProvision}]]
    BY DEF TypeInv, TypeOK, HandoffTypeOK
  <2> HIDE DEF i0, v
  <2>4. \A w \in Vats, n \in Nonces : Claimable(w, n)' = Claimable(w, n)
    BY <1>3, <2>2, <2>3 DEF Claimable
  <2> QED BY <1>1, <2>4 DEF NonceLedger
<1> QED BY <1>2, <1>3
        DEF RecvDisembargo, HandleDisembargoProvide, HandleDisembargo, handoffVars

\* No handler and no operation unbalances the ledger.
LEMMA LedgerStep ==
  ASSUME TypeInv, NonceLedger, [Next]_vars
  PROVE  NonceLedger'
<1>1. UNCHANGED <<provisions, provided, claims>> => NonceLedger'
  BY DEF NonceLedger, Claimable
<1>2. CASE UNCHANGED vars
  BY <1>1, <1>2 DEF vars
<1>3. ASSUME NEW e \in Ends, Receive(e)
      PROVE  NonceLedger'
  <2>1. CASE RecvProvide(e)
    BY <2>1, ProvideKeepsLedger
  <2>2. CASE RecvAccept(e)
    BY <2>2, AcceptKeepsLedger
  <2>3. CASE RecvDisembargo(e)
    BY <2>3, DisembargoKeepsLedger
  <2>4. CASE \/ RecvBootstrap(e) \/ RecvCall(e) \/ RecvFinish(e) \/ RecvRelease(e)
             \/ RecvJoin(e) \/ RecvReturn(e) \/ RecvOther(e)
    BY <1>1, <2>4 DEF RecvBootstrap, RecvCall, RecvFinish, RecvRelease, RecvJoin, RecvReturn,
                      RecvOther, handoffVars
  <2> QED BY <1>3, <2>1, <2>2, <2>3, <2>4 DEF Receive
<1>4. ASSUME NEW e \in Ends, Acts(e)
      PROVE  NonceLedger'
  BY <1>1, <1>4 DEF Acts, Asks, Tells, Hosts, Introduces, ReturnsIntroduction, PicksUp,
                    IntroductionDone, handoffVars
<1> QED BY <1>2, <1>3, <1>4 DEF Next

\* A handoff nonce is single-use, on however many connections of a vat Provides
\* and Accepts arrive: handle_provide, handle_accept and release_provide_embargo
\* keep NonceLedger for every number of provisions and nonces.
THEOREM NonceLedgerCorrect == Spec => []NonceLedger
<1>1. Init => NonceLedger
  <2> SUFFICES ASSUME Init, NEW v \in Vats, NEW n \in Nonces
               PROVE  claims[v][n] + Cardinality(Claimable(v, n)) = provided[v][n]
    BY DEF NonceLedger
  <2>1. Claimable(v, n) = {} /\ claims[v][n] = 0 /\ provided[v][n] = 0
    BY DEF Init, HandoffInit, Claimable
  <2> QED BY <2>1, FS_EmptySet
<1>2. TypeInv /\ NonceLedger /\ [Next]_vars => NonceLedger'
  BY LedgerStep
<1> QED BY <1>1, <1>2, TypeInvariant, PTL DEF Spec

-----------------------------------------------------------------------------
(* Routing *)

\* No application lifts embargoes.
NobodyLifts == \A e \in Ends : "disembargo" \notin Ops[e]

\* release_provide_embargo answers on the connection that the Disembargo came in on,
\* whoever claimed the capability.  That is the right one when the vat has no other,
\* and it never happens when no introducer lifts an embargo.
Routed == (\A e, f \in Ends : VatOf[e] = VatOf[f] => e = f) \/ NobodyLifts

\* A frame that may be on its way to e.
MayReach(e, m) ==
  /\ m.type = "Return" => m.to = e
  /\ NobodyLifts /\ m.type = "Disembargo" => m.context # "provide"

\* Every frame is where it belongs.
FramesRouted == \A e \in Ends : \A i \in DOMAIN inbox[e] : MayReach(e, inbox[e][i])

\* An embargoed Accept arrived in the vat that holds the provision.
ClaimedHere ==
  \A v \in Vats, i \in ProvisionSlots :
    provisions[v][i] # NoProvision /\ provisions[v][i].embargoed
      => VatOf[provisions[v][i].by] = v

RouteInv == FramesRouted /\ ClaimedHere

\* A handler at f sends only frames that may reach the other end.
SendsRouted(f) ==
  /\ inbox[f] # <<>>
  /\ \E msgs \in Seq(Message) : Answer(f, msgs) /\ \A k \in 1 .. Len(msgs) : MayReach(Peer[f], msgs[k])

\* Such a handler leaves every frame where it belongs.
LEMMA SendsKeepsRoute ==
  ASSUME NEW f \in Ends, TypeInv, RouteInv, SendsRouted(f)
  PROVE  FramesRouted'
<1>1. PICK msgs \in Seq(Message) :
        Answer(f, msgs) /\ \A k \in 1 .. Len(msgs) : MayReach(Peer[f], msgs[k])
  BY DEF SendsRouted
<1>2. inbox \in [Ends -> Seq(Message)] /\ inbox[f] # <<>>
  BY DEF TypeInv, TypeOK, SendsRouted
<1>3. PICK g \in Ends : g = Peer[f] /\ g # f
  BY WireAssumption DEF WireAssumption
<1>4. /\ inbox'[f] = Tail(inbox[f]) /\ inbox'[g] = inbox[g] \o msgs
      /\ \A e \in Ends \ {f, g} : inbox'[e] = inbox[e]
  BY <1>1, <1>2, <1>3 DEF Answer
<1>5. inbox[f] \in Seq(Message) /\ inbox[g] \in Seq(Message)
  BY <1>2
<1>6. \A e \in Ends : \A i \in DOMAIN inbox[e] : MayReach(e, inbox[e][i])
  BY DEF RouteInv, FramesRouted
<1>7. \A i \in DOMAIN inbox'[f] : MayReach(f, inbox'[f][i])
  <2> TAKE i \in DOMAIN inbox'[f]
  <2>1. i + 1 \in DOMAIN inbox[f] /\ inbox'[f][i] = inbox[f][i + 1]
    BY <1>2, <1>4, <1>5
  <2> QED BY <1>6, <2>1
<1>8. \A i \in DOMAIN inbox'[g] : MayReach(g, inbox'[g][i])
  <2> TAKE i \in DOMAIN inbox'[g]
  <2>1. \/ i \in DOMAIN inbox[g] /\ inbox'[g][i] = inbox[g][i]
        \/ \E k \in 1 .. Len(msgs) : inbox'[g][i] = msgs[k]
    <3>1. i \in 1 .. (Len(inbox[g]) + Len(msgs))
      BY <1>4, <1>5
    <3>2. CASE i <= Len(inbox[g])
      BY <1>4, <1>5, <3>1, <3>2
    <3>3. CASE i > Len(inbox[g])
      <4>1. i - Len(inbox[g]) \in 1 .. Len(msgs) /\ inbox'[g][i] = msgs[i - Len(inbox[g])]
        BY <1>4, <1>5, <3>1, <3>3
      <4> QED BY <4>1
    <3> QED BY <1>5, <3>1, <3>2, <3>3
  <2> QED BY <1>1, <1>3, <1>6, <2>1
<1>9. \A e \in Ends : \A i \in DOMAIN inbox'[e] : MayReach(e, inbox'[e][i])
  BY <1>3, <1>4, <1>6, <1>7, <1>8
<1> QED BY <1>9 DEF FramesRouted, MayReach

\* Nothing at all may reach anybody.
LEMMA AbsorbRoutes ==
  ASSUME NEW f \in Ends, inbox[f] # <<>>, Absorb(f)
  PROVE  SendsRouted(f)
<1>1. << >> \in Seq(Message) /\ \A k \in 1 .. Len(<< >>) : FALSE
  OBVIOUS
<1> QED BY <1>1 DEF SendsRouted, Absorb

\* So may one Return that names the other end.
LEMMA ReplyRoutes ==
  ASSUME NEW f \in Ends, inbox[f] # <<>>, NEW ret \in Return, ret.to = Peer[f],
         Answer(f, <<ret>>)
  PROVE  SendsRouted(f)
<1>1. <<ret>> \in Seq(Message) /\ ret.type = "Return"
  BY DEF Message, Return
<1>2. \A k \in 1 .. Len(<<ret>>) : MayReach(Peer[f], <<ret>>[k])
  BY <1>1 DEF MayReach
<1> QED BY <1>1, <1>2 DEF SendsRouted

\* A refusal names the end that asked.
LEMMA RefuseRoutes ==
  ASSUME NEW f \in Ends, TypeInv, inbox[f] # <<>>, NEW m, m.qid \in QuestionIds,
         m.type \in RequestTypes, Refuse(f, m)
  PROVE  SendsRouted(f)
<1> DEFINE ret == Exception(f, m)
<1>1. ret \in Return /\ Answer(f, <<ret>>)
  BY ExceptionType DEF Refuse
<1>2. ret.to = Peer[f]
  BY DEF Exception, Results
<1> HIDE DEF ret
<1> QED BY <1>1, <1>2, ReplyRoutes

\* An application's frame belongs where it is sent.
LEMMA PostKeepsRoute ==
  ASSUME NEW f \in Ends, TypeInv, RouteInv, NEW m \in Message, MayReach(Peer[f], m), Post(f, m)
  PROVE  FramesRouted'
<1>1. inbox \in [Ends -> Seq(Message)]
  BY DEF TypeInv, TypeOK
<1>2. PICK g \in Ends : g = Peer[f]
  BY WireAssumption DEF WireAssumption
<1>3. inbox'[g] = Append(inbox[g], m) /\ \A e \in Ends : e # g => inbox'[e] = inbox[e]
  BY <1>1, <1>2 DEF Post
<1>4. \A e \in Ends : \A i \in DOMAIN inbox[e] : MayReach(e, inbox[e][i])
  BY DEF RouteInv, FramesRouted
<1>5. \A i \in DOMAIN inbox'[g] : MayReach(g, inbox'[g][i])
  <2> TAKE i \in DOMAIN inbox'[g]
  <2>1. inbox[g] \in Seq(Message)
    BY <1>1
  <2>2. \/ i \in DOMAIN inbox[g] /\ inbox'[g][i] = inbox[g][i]
        \/ inbox'[g][i] = m
    BY <1>3, <2>1
  <2> QED BY <1>2, <1>4, <2>2
<1> QED BY <1>3, <1>4, <1>5 DEF FramesRouted, MayReach

\* release_provide_embargo answers the end that claimed the capability, when the system
\* is routed.
LEMMA DisembargoRoutes ==
  ASSUME NEW f \in Ends, TypeInv, RouteInv, Routed, RecvDisembargo(f)
  PROVE  SendsRouted(f)
<1> DEFINE m    == Head(inbox[f])
           v    == VatOf[f]
           held == {i \in ProvisionSlots : /\ provisions[v][i] # NoProvision
                                           /\ provisions[v][i].embargoed
                                           /\ provisions[v][i].qid = m.id}
           i0   == First(held)
           p    == provisions[v][i0]
<1>1. /\ inbox[f] # <<>> /\ m.type = "Disembargo"
      /\ m \in [type : {"Disembargo"}, id : Nat,
                context : {"senderLoopback", "receiverLoopback", "accept", "provide"}]
  BY GivenMessage, MessageFields DEF RecvDisembargo, TypeInv, TypeOK
<1>2. CASE HandleDisembargo(f, m)
  <2> DEFINE echo == [m EXCEPT !.context = "receiverLoopback"]
             msgs == IF m.context = "senderLoopback" THEN <<echo>> ELSE <<>>
  <2>1. Answer(f, msgs)
    BY <1>2 DEF HandleDisembargo
  <2>2. /\ echo \in Message /\ echo.type = "Disembargo" /\ echo.context = "receiverLoopback"
    BY <1>1 DEF Message, Notice
  <2> HIDE DEF echo
  <2>3. msgs \in Seq(Message) /\ \A k \in 1 .. Len(msgs) : MayReach(Peer[f], msgs[k])
    BY <2>2 DEF MayReach
  <2> HIDE DEF msgs
  <2> QED BY <1>1, <2>1, <2>3 DEF SendsRouted
<1>3. CASE HandleDisembargoProvide(f, m) /\ held = {}
  BY <1>1, <1>3, AbsorbRoutes DEF HandleDisembargoProvide
<1>4. CASE HandleDisembargoProvide(f, m) /\ held # {}
  <2> DEFINE q   == [qid |-> p.aqid, type |-> "Accept"]
             ret == [Results(f, q, p.eid) EXCEPT !.to = Peer[p.by], !.obj = p.server]
  <2>1. Answer(f, <<ret>>) /\ m.context = "provide"
    BY <1>4 DEF HandleDisembargoProvide, FlushAnswer
  <2>2. v \in Vats /\ i0 \in ProvisionSlots /\ p # NoProvision /\ p.embargoed
    <3>1. i0 \in held
      BY <1>4, FirstInNat, Ranges
    <3> QED BY <3>1, HandoffAssumption DEF HandoffAssumption
  <2>3. p \in Provision /\ p.aqid \in QuestionIds /\ p.by \in Ends /\ VatOf[p.by] = v
    <3> HIDE DEF v, i0
    <3> QED BY <2>2 DEF TypeInv, TypeOK, HandoffTypeOK, EmbargoedAreClaimed, RouteInv,
                    ClaimedHere
  <2>4. ~NobodyLifts
    <3>1. 1 \in DOMAIN inbox[f] /\ inbox[f][1] = m
      BY <1>1 DEF TypeInv, TypeOK
    <3>2. MayReach(f, m)
      BY <3>1 DEF RouteInv, FramesRouted
    <3> QED BY <1>1, <2>1, <3>2 DEF MayReach
  <2>5. p.by = f
    BY <2>3, <2>4 DEF Routed
  <2> HIDE DEF p
  <2>6. p.eid \in ExportIds /\ p.server \in Servers /\ Peer[p.by] \in Ends
    BY <2>3, WireAssumption DEF Provision, WireAssumption
  <2>7. Results(f, q, p.eid) \in Return
    <3>1. q.qid \in QuestionIds /\ q.type \in RequestTypes
      BY <2>3 DEF RequestTypes
    <3> HIDE DEF q
    <3> QED BY <2>6, <3>1, ResultsType
  <2> HIDE DEF q
  <2>8. ret \in Return /\ ret.to = Peer[f]
    BY <2>5, <2>6, <2>7 DEF Return
  <2> HIDE DEF ret
  <2> QED BY <1>1, <2>1, <2>8, ReplyRoutes
<1> QED BY <1>2, <1>3, <1>4 DEF RecvDisembargo

\* Every other handler answers the end that the request came from.
LEMMA ReceiveRoutes ==
  ASSUME NEW f \in Ends, TypeInv, RouteInv, Routed, Receive(f)
  PROVE  SendsRouted(f)
<1> DEFINE m == Head(inbox[f])
<1>1. /\ inbox[f] # <<>> /\ m \in Message
      /\ m.type \in RequestTypes => m.qid \in QuestionIds
  <2>1. inbox[f] # <<>>
    BY DEF Receive, RecvBootstrap, RecvCall, RecvFinish, RecvRelease, RecvJoin, RecvDisembargo,
           RecvReturn, RecvProvide, RecvAccept, RecvOther, Given
  <2>2. m \in Message
    BY <2>1 DEF TypeInv, TypeOK
  <2> QED BY <2>1, <2>2, MessageFields
<1>2. CASE m.type \in RequestTypes /\ Refuse(f, m)
  BY <1>1, <1>2, RefuseRoutes
<1>3. CASE Absorb(f)
  BY <1>1, <1>3, AbsorbRoutes
<1>4. ASSUME NEW ret \in Return, FlushAnswer(f, ret), ret.to = Peer[f]
      PROVE  SendsRouted(f)
  BY <1>1, <1>4, ReplyRoutes DEF FlushAnswer
<1>5. ServerTypeOK /\ TypeOK /\ HandoffTypeOK
  BY DEF TypeInv, TypeOK
<1>6. CASE RecvBootstrap(f)
  <2>1. m.type = "Bootstrap" /\ m.type \in RequestTypes
    BY <1>6 DEF RecvBootstrap, Given, RequestTypes
  <2>2. CASE bootstrap[f] # NoServer /\ ExportId(f, bootstrap[f]) # NoExport
    <3> DEFINE x == ExportId(f, bootstrap[f])
               ret == [Results(f, m, x) EXCEPT !.obj = bootstrap[f]]
    <3>1. FlushAnswer(f, ret)
      BY <1>6, <2>2 DEF RecvBootstrap, HandleBootstrap
    <3>2. bootstrap[f] \in Servers /\ x \in ExportIds
      BY <1>5, <2>2, ExportIdType DEF ServerTypeOK
    <3> HIDE DEF x
    <3>3. Results(f, m, x) \in Return
      BY <1>1, <2>1, <3>2, ResultsType
    <3>4. ret \in Return /\ ret.to = Peer[f]
      BY <3>2, <3>3 DEF Return, Results
    <3> HIDE DEF ret
    <3> QED BY <3>1, <3>4, <1>4
  <2>3. CASE ~(bootstrap[f] # NoServer /\ ExportId(f, bootstrap[f]) # NoExport)
    BY <1>2, <1>6, <2>1, <2>3 DEF RecvBootstrap, HandleBootstrap
  <2> QED BY <2>2, <2>3
<1>7. CASE RecvCall(f)
  <2> DEFINE x == ResolveTarget(f, m.target)
  <2>1. m.type = "Call" /\ m.type \in RequestTypes
    BY <1>7 DEF RecvCall, Given, RequestTypes
  <2>2. CASE x = NoExport
    BY <1>2, <1>7, <2>1, <2>2 DEF RecvCall, HandleCall
  <2>3. CASE x # NoExport
    <3>1. x \in ExportIds /\ server[f][x] \in Servers \cup {NoServer}
      BY <1>5, <2>3, ResolveTargetType DEF ServerTypeOK
    <3>2. PICK outcome \in Outcomes :
            IF outcome = "fails" THEN Absorb(f) /\ UNCHANGED answers
            ELSE FlushAnswer(f, [Results(f, m, NoExport) EXCEPT
                                   !.small = (outcome = "small"), !.obj = server[f][x]])
      BY <1>7, <2>3 DEF RecvCall, HandleCall, Dispatch
    <3> DEFINE ret == [Results(f, m, NoExport) EXCEPT !.small = (outcome = "small"),
                                                      !.obj = server[f][x]]
    <3>3. Results(f, m, NoExport) \in Return
      BY <1>1, <2>1, ResultsType
    <3> HIDE DEF x
    <3>4. ret \in Return /\ ret.to = Peer[f]
      BY <3>1, <3>3 DEF Return, Results
    <3>5. outcome # "fails" => FlushAnswer(f, ret)
      BY <3>2
    <3>6. outcome = "fails" => Absorb(f)
      BY <3>2
    <3> HIDE DEF ret
    <3> QED BY <1>3, <1>4, <3>4, <3>5, <3>6
  <2> QED BY <2>2, <2>3
<1>8. CASE RecvFinish(f) \/ RecvRelease(f) \/ RecvReturn(f)
  BY <1>3, <1>8 DEF RecvFinish, HandleFinish, RecvRelease, HandleRelease, RecvReturn, HandleReturn
<1>9. CASE RecvOther(f)
  BY <1>5, <1>9, Echoes DEF SendsRouted, MayReach
<1>10. CASE RecvProvide(f)
  <2>1. m.type = "Provide" /\ m.type \in RequestTypes
    BY <1>10 DEF RecvProvide, Given, RequestTypes
  <2>2. Refuse(f, m) \/ FlushAnswer(f, Results(f, m, NoExport))
    BY <1>10 DEF RecvProvide, HandleProvide
  <2>3. Results(f, m, NoExport) \in Return /\ Results(f, m, NoExport).to = Peer[f]
    <3>1. Results(f, m, NoExport) \in Return
      BY <1>1, <2>1, ResultsType
    <3> QED BY <3>1 DEF Results
  <2> QED BY <1>2, <1>4, <2>1, <2>2, <2>3
<1>11. CASE RecvAccept(f)
  <2> DEFINE v     == VatOf[f]
             match == Claimable(v, m.nonce)
             p     == provisions[v][First(match)]
             x     == ExportId(f, p.server)
             ret   == [Results(f, m, x) EXCEPT !.obj = p.server]
  <2>1. m.type = "Accept" /\ m.type \in RequestTypes
    BY <1>11 DEF RecvAccept, Given, RequestTypes
  <2>2. CASE match = {} \/ x = NoExport
    BY <1>2, <1>11, <2>1, <2>2 DEF RecvAccept, HandleAccept
  <2>3. CASE match # {} /\ x # NoExport
    <3>1. Absorb(f) \/ FlushAnswer(f, ret)
      BY <1>11, <2>3 DEF RecvAccept, HandleAccept, Grant
    <3>2. p.server \in Servers
      <4>1. v \in Vats
        BY HandoffAssumption DEF HandoffAssumption
      <4>2. match \subseteq ProvisionSlots /\ \A i \in match : provisions[v][i] # NoProvision
        BY DEF Claimable
      <4> HIDE DEF match, v
      <4>3. First(match) \in match
        BY <2>3, <4>2, FirstInNat, Ranges
      <4>4. p \in Provision
        BY <1>5, <4>1, <4>2, <4>3 DEF HandoffTypeOK
      <4> QED BY <4>4 DEF Provision
    <3> HIDE DEF p
    <3>3. x \in ExportIds
      BY <1>5, <2>3, <3>2, ExportIdType
    <3> HIDE DEF x
    <3>4. Results(f, m, x) \in Return
      BY <1>1, <2>1, <3>3, ResultsType
    <3>5. ret \in Return /\ ret.to = Peer[f]
      BY <3>2, <3>4 DEF Return, Results
    <3> HIDE DEF ret
    <3> QED BY <1>3, <1>4, <3>1, <3>5
  <2> QED BY <2>2, <2>3
<1>12. CASE RecvDisembargo(f)
  BY <1>12, DisembargoRoutes
<1>13. CASE RecvJoin(f)
  <2>1. Absorb(f) \/ AnswersJoins(f)
    BY <1>5, <1>13, JoinTypes
  <2>2. ASSUME NEW msgs \in Seq(Message), Answer(f, msgs),
               \A i \in 1 .. Len(msgs) :
                 msgs[i].type = "Return" /\ msgs[i].for = "Join" /\ msgs[i].to = Peer[f]
        PROVE  SendsRouted(f)
    <3>1. \A i \in 1 .. Len(msgs) : MayReach(Peer[f], msgs[i])
      BY <2>2 DEF MayReach
    <3> QED BY <1>1, <2>2, <3>1 DEF SendsRouted
  <2> QED BY <1>3, <2>1, <2>2 DEF AnswersJoins
<1> QED BY <1>6, <1>7, <1>8, <1>9, <1>10, <1>11, <1>12, <1>13 DEF Receive

\* A provision is claimed by an Accept that a connection of its vat handles.
LEMMA ClaimsRoute ==
  ASSUME NEW f \in Ends, TypeInv, ClaimedHere, Receive(f)
  PROVE  ClaimedHere'
<1> DEFINE m == Head(inbox[f])
<1>1. provisions \in [Vats -> [ProvisionSlots -> Provision \cup {NoProvision}]]
  BY DEF TypeInv, TypeOK, HandoffTypeOK
<1>2. PICK v \in Vats : v = VatOf[f]
  BY HandoffAssumption DEF HandoffAssumption
<1>3. UNCHANGED provisions => ClaimedHere'
  BY DEF ClaimedHere
<1>4. ASSUME NEW i, NEW p, provisions' = [provisions EXCEPT ![v][i] = p],
             p = NoProvision \/ ~p.embargoed \/ p.by = f
      PROVE  ClaimedHere'
  <2>1. \A w \in Vats, k \in ProvisionSlots :
          provisions'[w][k] = provisions[w][k] \/ (w = v /\ provisions'[w][k] = p)
    BY <1>1, <1>4
  <2> QED BY <1>2, <1>4, <2>1 DEF ClaimedHere
<1>5. CASE RecvProvide(f)
  <2> DEFINE free == {i \in ProvisionSlots : provisions[v][i] = NoProvision}
             eid  == ResolveTarget(f, m.target)
             p    == [nonce |-> m.nonce, server |-> server[f][eid], eid |-> eid, qid |-> m.qid,
                      embargoed |-> FALSE, aqid |-> NoExport, from |-> f, by |-> NoEnd]
  <2>1. \/ UNCHANGED provisions
        \/ provisions' = [provisions EXCEPT ![v][First(free)] = p]
    BY <1>2, <1>5 DEF RecvProvide, HandleProvide
  <2>2. ~p.embargoed
    OBVIOUS
  <2> HIDE DEF free, p
  <2> QED BY <1>3, <1>4, <2>1, <2>2
<1>6. CASE RecvAccept(f)
  <2> DEFINE i0 == First(Claimable(v, m.nonce))
             x  == ExportId(f, provisions[v][i0].server)
             p  == [provisions[v][i0] EXCEPT !.eid = x, !.embargoed = TRUE, !.aqid = m.qid,
                                             !.by = f]
  <2>1. \/ UNCHANGED provisions
        \/ Claimable(v, m.nonce) # {} /\ provisions' = [provisions EXCEPT ![v][i0] = p]
        \/ provisions' = [provisions EXCEPT ![v][i0] = NoProvision]
    BY <1>2, <1>6 DEF RecvAccept, HandleAccept, Grant
  <2>2. Claimable(v, m.nonce) # {} => p.by = f
    <3>1. /\ Claimable(v, m.nonce) \subseteq ProvisionSlots
          /\ \A i \in Claimable(v, m.nonce) : provisions[v][i] # NoProvision
      BY DEF Claimable
    <3>2. Claimable(v, m.nonce) # {} => i0 \in Claimable(v, m.nonce)
      BY <3>1, FirstInNat, Ranges
    <3> HIDE DEF i0
    <3>3. Claimable(v, m.nonce) # {} => provisions[v][i0] \in Provision
      BY <1>1, <3>1, <3>2
    <3> QED BY <3>3 DEF Provision
  <2> HIDE DEF i0, p
  <2> QED BY <1>3, <1>4, <2>1, <2>2
<1>7. CASE RecvDisembargo(f)
  <2> DEFINE held == {i \in ProvisionSlots : /\ provisions[v][i] # NoProvision
                                             /\ provisions[v][i].embargoed
                                             /\ provisions[v][i].qid = m.id}
  <2>1. \/ UNCHANGED provisions
        \/ provisions' = [provisions EXCEPT ![v][First(held)] = NoProvision]
    BY <1>2, <1>7 DEF RecvDisembargo, HandleDisembargoProvide, handoffVars
  <2> HIDE DEF held
  <2> QED BY <1>3, <1>4, <2>1
<1>8. CASE \/ RecvBootstrap(f) \/ RecvCall(f) \/ RecvFinish(f) \/ RecvRelease(f)
           \/ RecvJoin(f) \/ RecvReturn(f) \/ RecvOther(f)
  BY <1>3, <1>8 DEF RecvBootstrap, RecvCall, RecvFinish, RecvRelease, RecvJoin, RecvReturn,
                    RecvOther, handoffVars
<1> QED BY <1>5, <1>6, <1>7, <1>8 DEF Receive

\* No step sends a Return to the wrong end of a routed system.
LEMMA RouteStep ==
  ASSUME TypeInv, RouteInv, Routed, [Next]_vars
  PROVE  RouteInv'
<1>1. FramesRouted /\ ClaimedHere
  BY DEF RouteInv
<1>2. CASE UNCHANGED vars
  BY <1>1, <1>2 DEF vars, RouteInv, FramesRouted, ClaimedHere, MayReach
<1>3. ASSUME NEW f \in Ends, Receive(f)
      PROVE  RouteInv'
  <2>1. SendsRouted(f)
    BY <1>3, ReceiveRoutes
  <2>2. FramesRouted'
    BY <2>1, SendsKeepsRoute
  <2>3. ClaimedHere'
    BY <1>1, <1>3, ClaimsRoute
  <2> QED BY <2>2, <2>3 DEF RouteInv
<1>4. ASSUME NEW f \in Ends, Acts(f)
      PROVE  RouteInv'
  <2>1. UNCHANGED provisions
    BY <1>4 DEF Acts, Asks, Tells, Hosts, Introduces, ReturnsIntroduction, PicksUp,
                IntroductionDone, handoffVars
  <2>2. ClaimedHere'
    BY <1>1, <2>1 DEF ClaimedHere
  <2>3. TypeOK
    BY DEF TypeInv
  <2>4. ASSUME Requests(f)
        PROVE  FramesRouted'
    <3>1. PICK req \in Request : Post(f, req) \/ UNCHANGED inbox
      BY <2>4 DEF Requests, Ask, SendFails
    <3>2. req \in Message /\ MayReach(Peer[f], req)
      BY DEF Message, Request, MayReach
    <3>3. UNCHANGED inbox => FramesRouted'
      BY <1>1 DEF FramesRouted, MayReach
    <3> QED BY <3>1, <3>2, <3>3, PostKeepsRoute
  <2>5. ASSUME Notifies(f)
        PROVE  FramesRouted'
    <3>1. PICK n \in Notice :
            /\ Post(f, n) \/ UNCHANGED inbox
            /\ n.type = "Disembargo" =>
                 \/ n.context = "provide" /\ "disembargo" \in Ops[f]
                 \/ n.context = "senderLoopback" /\ n.id = nextQid[f]
      BY <2>5 DEF Notifies
    <3>2. n \in Message /\ n.type # "Return"
      BY DEF Message, Notice
    <3>3. MayReach(Peer[f], n)
      BY <3>1, <3>2 DEF MayReach, NobodyLifts
    <3>4. UNCHANGED inbox => FramesRouted'
      BY <1>1 DEF FramesRouted, MayReach
    <3> QED BY <3>1, <3>2, <3>3, <3>4, PostKeepsRoute
  <2>6. CASE Asks(f) \/ Introduces(f)
    BY <2>2, <2>3, <2>4, <2>6, AsksRequest, IntroducesTypes DEF RouteInv
  <2>7. CASE Tells(f) \/ PicksUp(f)
    BY <2>2, <2>3, <2>5, <2>7, TellsNotify, PicksUpTypes DEF RouteInv
  <2>8. CASE Hosts(f)
    <3>1. UNCHANGED inbox
      BY <2>8 DEF Hosts, SetBootstrap
    <3> QED BY <1>1, <2>2, <3>1 DEF RouteInv, FramesRouted, MayReach
  <2>9. CASE ReturnsIntroduction(f)
    <3>1. inbox[f] # <<>>
      BY <2>9 DEF ReturnsIntroduction, Given
    <3>2. PICK ret \in Return : ret.to = Peer[f] /\ Answer(f, <<ret>>)
      BY <2>3, <2>9, ReturnsIntroductionTypes
    <3>3. SendsRouted(f)
      BY <3>1, <3>2, ReplyRoutes
    <3>4. FramesRouted'
      BY <3>3, SendsKeepsRoute
    <3> QED BY <2>2, <3>4 DEF RouteInv
  <2> QED BY <1>4, <2>6, <2>7, <2>8, <2>9 DEF Acts
<1> QED BY <1>2, <1>3, <1>4 DEF Next

\* What is routed reaches the claimant.
LEMMA RoutedReach == RouteInv => EmbargoedAcceptsReachClaimant
BY DEF RouteInv, FramesRouted, MayReach, EmbargoedAcceptsReachClaimant

LEMMA RouteInvariant ==
  ASSUME Routed
  PROVE  Spec => []RouteInv
<1>1. Init => RouteInv
  BY DEF Init, WireInit, HandoffInit, RouteInv, FramesRouted, ClaimedHere
<1>2. TypeInv /\ RouteInv /\ [Next]_vars => RouteInv'
  BY RouteStep
<1> QED BY <1>1, <1>2, TypeInvariant, PTL DEF Spec

\* A system in which release_provide_embargo cannot err, and what it answers is routed.
\* The theorems that need that much say so; the run that violates
\* EmbargoedAcceptsReachClaimant has a vat with two connections and an introducer that
\* lifts embargoes, the two conditions of Routed.
LEMMA EmbargoedAcceptsRouted ==
  ASSUME Routed
  PROVE  Spec => []EmbargoedAcceptsReachClaimant
BY RouteInvariant, RoutedReach, PTL

-----------------------------------------------------------------------------
(* The order of loopback embargoes and calls *)

\* A loopback Disembargo, and the Return to a call.
Loopback(m, context) == m.type = "Disembargo" /\ m.context = context
CallReturn(m) == m.type = "Return" /\ m.for = "Call"

\* Calls and embargoes on the wire are older than the next question.
SentBefore ==
  \A e \in Ends : \A i \in 1 .. Len(inbox[e]) :
    LET m == inbox[e][i]
    IN  /\ m.type = "Call" => m.qid < nextQid[Peer[e]]
        /\ Loopback(m, "senderLoopback") => m.id <= nextQid[Peer[e]]
        /\ Loopback(m, "receiverLoopback") => m.id <= nextQid[e]

\* A call that follows an embargo was asked after it was raised.
EmbargoesPrecedeCalls ==
  \A e \in Ends : \A i, k \in 1 .. Len(inbox[e]) :
    i < k /\ Loopback(inbox[e][i], "senderLoopback") /\ inbox[e][k].type = "Call"
      => inbox[e][k].qid >= inbox[e][i].id

\* No call sent before an embargo waits at the peer once its reflection is on its way.
NoCallBehind ==
  \A e \in Ends : \A k \in 1 .. Len(inbox[e]), i \in 1 .. Len(inbox[Peer[e]]) :
    Loopback(inbox[e][k], "receiverLoopback") /\ inbox[Peer[e]][i].type = "Call"
      => inbox[Peer[e]][i].qid >= inbox[e][k].id

\* No Return of such a call comes after the reflection.
NoReturnBehind ==
  \A e \in Ends : \A i, k \in 1 .. Len(inbox[e]) :
    k <= i /\ Loopback(inbox[e][k], "receiverLoopback") /\ CallReturn(inbox[e][i])
      => inbox[e][i].qid >= inbox[e][k].id

\* The inductive invariant.
OrderInv == SentBefore /\ EmbargoesPrecedeCalls /\ NoCallBehind /\ NoReturnBehind

\* The inductive invariant implies the property.
LEMMA OrderImplies ==
  ASSUME TypeInv, OrderInv
  PROVE  LoopbackFollowsCalls
<1> SUFFICES ASSUME NEW e \in Ends, NEW k \in DOMAIN inbox[e],
                    inbox[e][k].type = "Disembargo", inbox[e][k].context = "receiverLoopback"
             PROVE  /\ \A i \in DOMAIN inbox[Peer[e]] :
                         inbox[Peer[e]][i].type = "Call"
                           => inbox[Peer[e]][i].qid >= inbox[e][k].id
                    /\ \A i \in k .. Len(inbox[e]) :
                         inbox[e][i].type = "Return" /\ inbox[e][i].for = "Call"
                           => inbox[e][i].qid >= inbox[e][k].id
  BY DEF LoopbackFollowsCalls
<1>1. inbox[e] \in Seq(Message) /\ inbox[Peer[e]] \in Seq(Message)
  BY WireAssumption DEF WireAssumption, TypeInv, TypeOK
<1>2. \A i \in DOMAIN inbox[Peer[e]] :
        inbox[Peer[e]][i].type = "Call" => inbox[Peer[e]][i].qid >= inbox[e][k].id
  BY <1>1 DEF OrderInv, NoCallBehind, Loopback
<1>3. ASSUME NEW i \in k .. Len(inbox[e]), inbox[e][i].type = "Return", inbox[e][i].for = "Call"
      PROVE  inbox[e][i].qid >= inbox[e][k].id
  <2>1. i \in 1 .. Len(inbox[e]) /\ k \in 1 .. Len(inbox[e]) /\ k <= i
    BY <1>1
  <2> QED BY <1>3, <2>1 DEF OrderInv, NoReturnBehind, Loopback, CallReturn
<1> QED BY <1>2, <1>3

\* What a handler sends in answer to the first frame of e.
Reacts(e, msgs) ==
  LET m == Head(inbox[e])
  IN  \A i \in 1 .. Len(msgs) :
        /\ msgs[i].type # "Call"
        /\ ~Loopback(msgs[i], "senderLoopback")
        /\ CallReturn(msgs[i]) => m.type = "Call" /\ msgs[i].qid = m.qid
        /\ Loopback(msgs[i], "receiverLoopback") =>
             Loopback(m, "senderLoopback") /\ msgs[i].id = m.id /\ Len(msgs) = 1

\* A handler that only returns to a call, or only reflects an embargo, keeps the order.
LEMMA AnswerKeepsOrder ==
  ASSUME NEW e \in Ends, TypeInv, OrderInv, inbox[e] # <<>>, NEW msgs \in Seq(Message),
         Reacts(e, msgs), Answer(e, msgs), UNCHANGED nextQid
  PROVE  OrderInv'
<1> DEFINE f == Peer[e]
           m == Head(inbox[e])
<1>1. /\ f \in Ends /\ f # e /\ Peer[f] = e
      /\ \A d \in Ends : Peer[d] \in Ends /\ Peer[Peer[d]] = d
  BY WireAssumption DEF WireAssumption
<1>2. inbox \in [Ends -> Seq(Message)]
  BY DEF TypeInv, TypeOK
<1>3. /\ inbox'[e] = Tail(inbox[e]) /\ inbox'[f] = inbox[f] \o msgs
      /\ \A d \in Ends : d # e /\ d # f => inbox'[d] = inbox[d]
  BY <1>1, <1>2 DEF Answer
<1>4. \A d \in Ends : d # e /\ d # f => Peer[d] # e /\ Peer[d] # f
  BY <1>1
<1>5. \* the queue of e moves up by one
      /\ Len(inbox'[e]) = Len(inbox[e]) - 1
      /\ \A i \in 1 .. Len(inbox'[e]) :
           i + 1 \in 1 .. Len(inbox[e]) /\ inbox'[e][i] = inbox[e][i + 1]
      /\ 1 \in 1 .. Len(inbox[e]) /\ m = inbox[e][1]
  BY <1>2, <1>3
<1>6. \* the queue of f grows by msgs
      \A i \in 1 .. Len(inbox'[f]) :
        \/ i \in 1 .. Len(inbox[f]) /\ inbox'[f][i] = inbox[f][i]
        \/ /\ i > Len(inbox[f]) /\ i - Len(inbox[f]) \in 1 .. Len(msgs)
           /\ inbox'[f][i] = msgs[i - Len(inbox[f])]
  BY <1>1, <1>2, <1>3
<1>7. Len(inbox[e]) \in Nat /\ Len(inbox[f]) \in Nat /\ Len(msgs) \in Nat
      /\ Len(inbox'[f]) = Len(inbox[f]) + Len(msgs)
  BY <1>1, <1>2, <1>3
<1> HIDE DEF f, m
<1>8. \* what the head and the new frames say
      \A i \in 1 .. Len(msgs) :
        /\ msgs[i].type # "Call"
        /\ ~Loopback(msgs[i], "senderLoopback")
        /\ CallReturn(msgs[i]) => m.type = "Call" /\ msgs[i].qid = m.qid
        /\ Loopback(msgs[i], "receiverLoopback") =>
             Loopback(m, "senderLoopback") /\ msgs[i].id = m.id /\ Len(msgs) = 1
  BY DEF Reacts, m
<1>9. SentBefore'
  <2> SUFFICES ASSUME NEW d \in Ends, NEW i \in 1 .. Len(inbox'[d])
               PROVE  /\ inbox'[d][i].type = "Call" => inbox'[d][i].qid < nextQid[Peer[d]]
                      /\ Loopback(inbox'[d][i], "senderLoopback")
                           => inbox'[d][i].id <= nextQid[Peer[d]]
                      /\ Loopback(inbox'[d][i], "receiverLoopback")
                           => inbox'[d][i].id <= nextQid[d]
    BY DEF SentBefore, Loopback
  <2>1. CASE d = e
    BY <1>5, <2>1 DEF OrderInv, SentBefore
  <2>2. CASE d = f
    <3>1. CASE i \in 1 .. Len(inbox[f]) /\ inbox'[f][i] = inbox[f][i]
      BY <1>1, <2>2, <3>1 DEF OrderInv, SentBefore
    <3>2. CASE i - Len(inbox[f]) \in 1 .. Len(msgs) /\ inbox'[f][i] = msgs[i - Len(inbox[f])]
      <4>1. Loopback(m, "senderLoopback") => m.id <= nextQid[f]
        BY <1>5 DEF OrderInv, SentBefore, f
      <4> QED BY <1>8, <2>2, <3>2, <4>1
    <3> QED BY <1>6, <2>2, <3>1, <3>2
  <2>3. CASE d # e /\ d # f
    BY <1>3, <2>3 DEF OrderInv, SentBefore
  <2> QED BY <2>1, <2>2, <2>3
<1>10. EmbargoesPrecedeCalls'
  <2> SUFFICES ASSUME NEW d \in Ends, NEW i \in 1 .. Len(inbox'[d]),
                      NEW k \in 1 .. Len(inbox'[d]), i < k,
                      Loopback(inbox'[d][i], "senderLoopback"), inbox'[d][k].type = "Call"
               PROVE  inbox'[d][k].qid >= inbox'[d][i].id
    BY DEF EmbargoesPrecedeCalls, Loopback
  <2>1. CASE d = e
    <3>1. /\ i + 1 \in 1 .. Len(inbox[e]) /\ inbox'[e][i] = inbox[e][i + 1]
          /\ k + 1 \in 1 .. Len(inbox[e]) /\ inbox'[e][k] = inbox[e][k + 1]
          /\ i + 1 < k + 1
      <4>1. i \in 1 .. Len(inbox'[e]) /\ k \in 1 .. Len(inbox'[e])
        BY <2>1
      <4>2. i + 1 \in 1 .. Len(inbox[e]) /\ inbox'[e][i] = inbox[e][i + 1]
        BY ONLY <1>5, <4>1
      <4>3. k + 1 \in 1 .. Len(inbox[e]) /\ inbox'[e][k] = inbox[e][k + 1]
        BY ONLY <1>5, <4>1
      <4>4. i \in Int /\ k \in Int
        OBVIOUS
      <4> QED BY ONLY <4>2, <4>3, <4>4, i < k
    <3>2. /\ Loopback(inbox[e][i + 1], "senderLoopback") /\ inbox[e][k + 1].type = "Call"
      BY <2>1, <3>1
    <3>3. EmbargoesPrecedeCalls
      BY DEF OrderInv
    <3>4. inbox[e][k + 1].qid >= inbox[e][i + 1].id
      BY ONLY <3>1, <3>2, <3>3, e \in Ends DEF EmbargoesPrecedeCalls
    <3> QED BY <2>1, <3>1, <3>4
  <2>2. CASE d = f
    <3>1. /\ i \in 1 .. Len(inbox[f]) /\ inbox'[f][i] = inbox[f][i]
          /\ k \in 1 .. Len(inbox[f]) /\ inbox'[f][k] = inbox[f][k]
      BY <1>6, <1>8, <2>2
    <3> QED BY <1>1, <2>2, <3>1 DEF OrderInv, EmbargoesPrecedeCalls
  <2>3. CASE d # e /\ d # f
    BY <1>3, <2>3 DEF OrderInv, EmbargoesPrecedeCalls
  <2> QED BY <2>1, <2>2, <2>3
<1>11. NoCallBehind'
  <2> SUFFICES ASSUME NEW d \in Ends, NEW k \in 1 .. Len(inbox'[d]),
                      NEW i \in 1 .. Len(inbox'[Peer[d]]),
                      Loopback(inbox'[d][k], "receiverLoopback"), inbox'[Peer[d]][i].type = "Call"
               PROVE  inbox'[Peer[d]][i].qid >= inbox'[d][k].id
    BY DEF NoCallBehind, Loopback
  <2>1. CASE d = e
    <3>1. k + 1 \in 1 .. Len(inbox[e]) /\ inbox'[e][k] = inbox[e][k + 1]
      BY <1>5, <2>1
    <3>2. i \in 1 .. Len(inbox[f]) /\ inbox'[f][i] = inbox[f][i]
      BY <1>6, <1>8, <2>1 DEF f
    <3> QED BY <2>1, <3>1, <3>2 DEF OrderInv, NoCallBehind, f
  <2>2. CASE d = f
    <3>1. i + 1 \in 1 .. Len(inbox[e]) /\ inbox'[e][i] = inbox[e][i + 1] /\ 1 < i + 1
      BY <1>1, <1>5, <2>2
    <3>2. CASE k \in 1 .. Len(inbox[f]) /\ inbox'[f][k] = inbox[f][k]
      BY <1>1, <2>2, <3>1, <3>2 DEF OrderInv, NoCallBehind
    <3>3. CASE k - Len(inbox[f]) \in 1 .. Len(msgs) /\ inbox'[f][k] = msgs[k - Len(inbox[f])]
      <4>1. Loopback(inbox[e][1], "senderLoopback") /\ inbox'[f][k].id = inbox[e][1].id
        BY <1>5, <1>8, <2>2, <3>3
      <4>2. inbox[e][i + 1].type = "Call"
        BY <1>1, <2>2, <3>1
      <4>3. inbox[e][i + 1].qid >= inbox[e][1].id
        BY <1>5, <3>1, <4>1, <4>2 DEF OrderInv, EmbargoesPrecedeCalls
      <4> QED BY <1>1, <2>2, <3>1, <4>1, <4>3
    <3> QED BY <1>6, <2>2, <3>2, <3>3
  <2>3. CASE d # e /\ d # f
    BY <1>1, <1>3, <1>4, <2>3 DEF OrderInv, NoCallBehind
  <2> QED BY <2>1, <2>2, <2>3
<1>12. NoReturnBehind'
  <2> SUFFICES ASSUME NEW d \in Ends, NEW i \in 1 .. Len(inbox'[d]),
                      NEW k \in 1 .. Len(inbox'[d]), k <= i,
                      Loopback(inbox'[d][k], "receiverLoopback"), CallReturn(inbox'[d][i])
               PROVE  inbox'[d][i].qid >= inbox'[d][k].id
    BY DEF NoReturnBehind, Loopback, CallReturn
  <2>1. CASE d = e
    <3>1. /\ i + 1 \in 1 .. Len(inbox[e]) /\ inbox'[e][i] = inbox[e][i + 1]
          /\ k + 1 \in 1 .. Len(inbox[e]) /\ inbox'[e][k] = inbox[e][k + 1]
          /\ k + 1 <= i + 1
      BY <1>5, <2>1
    <3> QED BY <2>1, <3>1 DEF OrderInv, NoReturnBehind
  <2>2. CASE d = f
    <3>1. CASE i \in 1 .. Len(inbox[f]) /\ inbox'[f][i] = inbox[f][i]
      <4>1. k \in 1 .. Len(inbox[f]) /\ inbox'[f][k] = inbox[f][k]
        BY <1>6, <1>7, <2>2, <3>1
      <4> QED BY <1>1, <2>2, <3>1, <4>1 DEF OrderInv, NoReturnBehind
    <3>2. CASE i > Len(inbox[f]) /\ i - Len(inbox[f]) \in 1 .. Len(msgs)
               /\ inbox'[f][i] = msgs[i - Len(inbox[f])]
      <4>1. m.type = "Call" /\ inbox'[f][i].qid = m.qid
        BY <1>8, <2>2, <3>2
      <4>2. k \in 1 .. Len(inbox[f]) /\ inbox'[f][k] = inbox[f][k]
        <5>1. CASE k - Len(inbox[f]) \in 1 .. Len(msgs)
                   /\ inbox'[f][k] = msgs[k - Len(inbox[f])]
          BY <1>8, <2>2, <4>1, <5>1 DEF Loopback
        <5> QED BY <1>6, <2>2, <5>1
      <4> QED BY <1>1, <1>5, <2>2, <4>1, <4>2 DEF OrderInv, NoCallBehind
    <3> QED BY <1>6, <2>2, <3>1, <3>2
  <2>3. CASE d # e /\ d # f
    BY <1>3, <2>3 DEF OrderInv, NoReturnBehind
  <2> QED BY <2>1, <2>2, <2>3
<1> QED BY <1>9, <1>10, <1>11, <1>12 DEF OrderInv

\* Ids on the wire are naturals.
LEMMA IdsAreNat ==
  ASSUME TypeInv, NEW d \in Ends, NEW i \in 1 .. Len(inbox[d])
  PROVE  /\ inbox[d][i].type = "Call" => inbox[d][i].qid \in Nat
         /\ Loopback(inbox[d][i], "senderLoopback") => inbox[d][i].id \in Nat
         /\ Loopback(inbox[d][i], "receiverLoopback") => inbox[d][i].id \in Nat
<1>1. inbox[d][i] \in Message
  BY DEF TypeInv, TypeOK
<1> QED BY <1>1, MessageFields, Ranges DEF Loopback, RequestTypes

\* A frame an application sends joins the end of the queue, with the newest id.
LEMMA PostKeepsOrder ==
  ASSUME NEW e \in Ends, TypeInv, OrderInv, NEW m \in Message, Post(e, m),
         nextQid' \in [Ends -> Nat], \A d \in Ends : nextQid[d] <= nextQid'[d],
         ~Loopback(m, "receiverLoopback"), ~CallReturn(m),
         m.type = "Call" => m.qid = nextQid[e] /\ nextQid[e] < nextQid'[e],
         Loopback(m, "senderLoopback") => m.id = nextQid[e]
  PROVE  OrderInv'
<1> DEFINE f == Peer[e]
<1>1. /\ f \in Ends /\ f # e /\ Peer[f] = e
      /\ \A d \in Ends : Peer[d] \in Ends /\ Peer[Peer[d]] = d
  BY WireAssumption DEF WireAssumption
<1>2. inbox \in [Ends -> Seq(Message)] /\ nextQid \in [Ends -> Nat]
  BY WireAssumption DEF TypeInv, TypeOK, ClientTypeOK, WireAssumption
<1>3. /\ inbox'[f] = Append(inbox[f], m)
      /\ \A d \in Ends : d # f => inbox'[d] = inbox[d]
  BY <1>1, <1>2 DEF Post
<1>4. \A i \in 1 .. Len(inbox'[f]) :
        \/ i \in 1 .. Len(inbox[f]) /\ inbox'[f][i] = inbox[f][i]
        \/ i = Len(inbox[f]) + 1 /\ inbox'[f][i] = m
  BY <1>1, <1>2, <1>3
<1>5. Len(inbox[f]) \in Nat /\ Len(inbox'[f]) = Len(inbox[f]) + 1
  BY <1>1, <1>2, <1>3
<1>6. \A d \in Ends : \A i \in 1 .. Len(inbox[d]) :
        /\ inbox[d][i].type = "Call" => inbox[d][i].qid \in Nat
        /\ Loopback(inbox[d][i], "senderLoopback") => inbox[d][i].id \in Nat
        /\ Loopback(inbox[d][i], "receiverLoopback") => inbox[d][i].id \in Nat
  BY IdsAreNat
<1>7. m.type = "Call" => m.qid \in Nat
  BY MessageFields, Ranges DEF RequestTypes
<1> HIDE DEF f
<1>8. SentBefore'
  <2> SUFFICES ASSUME NEW d \in Ends, NEW i \in 1 .. Len(inbox'[d])
               PROVE  /\ inbox'[d][i].type = "Call" => inbox'[d][i].qid < nextQid'[Peer[d]]
                      /\ Loopback(inbox'[d][i], "senderLoopback")
                           => inbox'[d][i].id <= nextQid'[Peer[d]]
                      /\ Loopback(inbox'[d][i], "receiverLoopback")
                           => inbox'[d][i].id <= nextQid'[d]
    BY DEF SentBefore, Loopback
  <2>1. CASE i \in 1 .. Len(inbox[d]) /\ inbox'[d][i] = inbox[d][i]
    <3>1. /\ inbox[d][i].type = "Call" => inbox[d][i].qid < nextQid[Peer[d]]
          /\ Loopback(inbox[d][i], "senderLoopback") => inbox[d][i].id <= nextQid[Peer[d]]
          /\ Loopback(inbox[d][i], "receiverLoopback") => inbox[d][i].id <= nextQid[d]
      BY <2>1 DEF OrderInv, SentBefore
    <3>2. /\ nextQid[d] <= nextQid'[d] /\ nextQid[Peer[d]] <= nextQid'[Peer[d]]
          /\ nextQid[d] \in Nat /\ nextQid'[d] \in Nat
          /\ nextQid[Peer[d]] \in Nat /\ nextQid'[Peer[d]] \in Nat
      BY <1>1, <1>2
    <3>3. ASSUME inbox[d][i].type = "Call"
          PROVE  inbox[d][i].qid < nextQid'[Peer[d]]
      <4>1. inbox[d][i].qid \in Nat
        BY <1>6, <2>1, <3>3
      <4> QED BY <3>1, <3>2, <3>3, <4>1
    <3>4. ASSUME Loopback(inbox[d][i], "senderLoopback")
          PROVE  inbox[d][i].id <= nextQid'[Peer[d]]
      <4>1. inbox[d][i].id \in Nat
        BY <1>6, <2>1, <3>4
      <4> QED BY <3>1, <3>2, <3>4, <4>1
    <3>5. ASSUME Loopback(inbox[d][i], "receiverLoopback")
          PROVE  inbox[d][i].id <= nextQid'[d]
      <4>1. inbox[d][i].id \in Nat
        BY <1>6, <2>1, <3>5
      <4> QED BY <3>1, <3>2, <3>5, <4>1
    <3> QED BY <2>1, <3>3, <3>4, <3>5
  <2>2. CASE d = f /\ inbox'[d][i] = m
    BY <1>1, <1>2, <1>7, <2>2
  <2> QED BY <1>3, <1>4, <2>1, <2>2
<1>9. EmbargoesPrecedeCalls'
  <2> SUFFICES ASSUME NEW d \in Ends, NEW i \in 1 .. Len(inbox'[d]),
                      NEW k \in 1 .. Len(inbox'[d]), i < k,
                      Loopback(inbox'[d][i], "senderLoopback"), inbox'[d][k].type = "Call"
               PROVE  inbox'[d][k].qid >= inbox'[d][i].id
    BY DEF EmbargoesPrecedeCalls, Loopback
  <2>1. i \in 1 .. Len(inbox[d]) /\ inbox'[d][i] = inbox[d][i]
    <3>1. CASE d = f
      <4>1. i # Len(inbox[f]) + 1
        BY <1>5, <3>1
      <4> QED BY <1>4, <3>1, <4>1
    <3>2. CASE d # f
      BY <1>3, <3>2
    <3> QED BY <3>1, <3>2
  <2>2. CASE k \in 1 .. Len(inbox[d]) /\ inbox'[d][k] = inbox[d][k]
    BY <2>1, <2>2 DEF OrderInv, EmbargoesPrecedeCalls
  <2>3. CASE d = f /\ inbox'[d][k] = m
    <3>1. inbox[f][i].id <= nextQid[e] /\ m.qid = nextQid[e]
      BY <1>1, <2>1, <2>3 DEF OrderInv, SentBefore
    <3>2. inbox[f][i].id \in Nat
      BY <1>1, <1>6, <2>1, <2>3
    <3> QED BY <1>2, <2>1, <2>3, <3>1, <3>2
  <2> QED BY <1>3, <1>4, <2>2, <2>3
<1>10. NoCallBehind'
  <2> SUFFICES ASSUME NEW d \in Ends, NEW k \in 1 .. Len(inbox'[d]),
                      NEW i \in 1 .. Len(inbox'[Peer[d]]),
                      Loopback(inbox'[d][k], "receiverLoopback"), inbox'[Peer[d]][i].type = "Call"
               PROVE  inbox'[Peer[d]][i].qid >= inbox'[d][k].id
    BY DEF NoCallBehind, Loopback
  <2>1. k \in 1 .. Len(inbox[d]) /\ inbox'[d][k] = inbox[d][k]
    BY <1>3, <1>4
  <2>2. CASE i \in 1 .. Len(inbox[Peer[d]]) /\ inbox'[Peer[d]][i] = inbox[Peer[d]][i]
    BY <2>1, <2>2 DEF OrderInv, NoCallBehind
  <2>3. CASE Peer[d] = f /\ inbox'[Peer[d]][i] = m
    <3>1. d = e
      BY <1>1, <2>3
    <3>2. inbox[e][k].id <= nextQid[e] /\ m.qid = nextQid[e]
      BY <2>1, <2>3, <3>1 DEF OrderInv, SentBefore
    <3>3. inbox[e][k].id \in Nat
      BY <1>6, <2>1, <3>1
    <3> QED BY <1>2, <2>1, <2>3, <3>1, <3>2, <3>3
  <2> QED BY <1>1, <1>3, <1>4, <2>2, <2>3
<1>11. NoReturnBehind'
  <2> SUFFICES ASSUME NEW d \in Ends, NEW i \in 1 .. Len(inbox'[d]),
                      NEW k \in 1 .. Len(inbox'[d]), k <= i,
                      Loopback(inbox'[d][k], "receiverLoopback"), CallReturn(inbox'[d][i])
               PROVE  inbox'[d][i].qid >= inbox'[d][k].id
    BY DEF NoReturnBehind, Loopback, CallReturn
  <2>1. /\ i \in 1 .. Len(inbox[d]) /\ inbox'[d][i] = inbox[d][i]
        /\ k \in 1 .. Len(inbox[d]) /\ inbox'[d][k] = inbox[d][k]
    BY <1>3, <1>4
  <2> QED BY <2>1 DEF OrderInv, NoReturnBehind
<1> QED BY <1>8, <1>9, <1>10, <1>11 DEF OrderInv

\* A step that sends nothing keeps the order.
LEMMA QuietKeepsOrder ==
  ASSUME TypeInv, OrderInv, UNCHANGED inbox,
         nextQid' \in [Ends -> Nat], \A d \in Ends : nextQid[d] <= nextQid'[d]
  PROVE  OrderInv'
<1>1. inbox \in [Ends -> Seq(Message)] /\ nextQid \in [Ends -> Nat]
  BY WireAssumption DEF TypeInv, TypeOK, ClientTypeOK, WireAssumption
<1>2. \A d \in Ends : Peer[d] \in Ends
  BY WireAssumption DEF WireAssumption
<1>3. \A d \in Ends : \A i \in 1 .. Len(inbox[d]) :
        /\ inbox[d][i].type = "Call" => inbox[d][i].qid \in Nat
        /\ Loopback(inbox[d][i], "senderLoopback") => inbox[d][i].id \in Nat
        /\ Loopback(inbox[d][i], "receiverLoopback") => inbox[d][i].id \in Nat
  BY IdsAreNat
<1>4. SentBefore'
  <2> SUFFICES ASSUME NEW d \in Ends, NEW i \in 1 .. Len(inbox[d])
               PROVE  /\ inbox[d][i].type = "Call" => inbox[d][i].qid < nextQid'[Peer[d]]
                      /\ Loopback(inbox[d][i], "senderLoopback")
                           => inbox[d][i].id <= nextQid'[Peer[d]]
                      /\ Loopback(inbox[d][i], "receiverLoopback")
                           => inbox[d][i].id <= nextQid'[d]
    BY DEF SentBefore, Loopback
  <2> QED BY <1>1, <1>2, <1>3 DEF OrderInv, SentBefore
<1> QED BY <1>4 DEF OrderInv, EmbargoesPrecedeCalls, NoCallBehind, NoReturnBehind,
                    Loopback, CallReturn

\* next_question_id is a natural.
LEMMA NatQids ==
  ASSUME TypeInv
  PROVE  nextQid \in [Ends -> Nat]
BY WireAssumption DEF TypeInv, TypeOK, ClientTypeOK, WireAssumption

\* Asking a question keeps the order.
LEMMA AskKeepsOrder ==
  ASSUME NEW e \in Ends, TypeInv, OrderInv, NEW req \in Request, req.qid = nextQid[e],
         Ask(e, req)
  PROVE  OrderInv'
<1>1. nextQid' = [nextQid EXCEPT ![e] = @ + 1]
  BY DEF Ask
<1>2. /\ nextQid' \in [Ends -> Nat] /\ nextQid[e] < nextQid'[e]
      /\ \A d \in Ends : nextQid[d] <= nextQid'[d]
  BY <1>1, NatQids
<1>3. req \in Message /\ ~CallReturn(req)
      /\ ~Loopback(req, "receiverLoopback") /\ ~Loopback(req, "senderLoopback")
  BY DEF Message, Request, CallReturn, Loopback
<1>4. CASE Post(e, req)
  BY <1>2, <1>3, <1>4, PostKeepsOrder
<1>5. CASE UNCHANGED inbox
  BY <1>2, <1>5, QuietKeepsOrder
<1> QED BY <1>4, <1>5 DEF Ask, SendFails

\* Sending a notice keeps the order.
LEMMA NotifiesKeepsOrder ==
  ASSUME NEW e \in Ends, TypeInv, OrderInv, Notifies(e), UNCHANGED nextQid
  PROVE  OrderInv'
<1>1. PICK m \in Notice :
        /\ Post(e, m) \/ UNCHANGED inbox
        /\ m.type = "Disembargo" =>
             \/ m.context = "provide" /\ "disembargo" \in Ops[e]
             \/ m.context = "senderLoopback" /\ m.id = nextQid[e]
  BY DEF Notifies
<1>2. nextQid' \in [Ends -> Nat] /\ \A d \in Ends : nextQid[d] <= nextQid'[d]
  BY NatQids
<1>3. m \in Message /\ m.type # "Call" /\ ~CallReturn(m)
  BY DEF Message, Notice, CallReturn
<1>4. /\ ~Loopback(m, "receiverLoopback")
      /\ Loopback(m, "senderLoopback") => m.id = nextQid[e]
  BY <1>1 DEF Loopback
<1> QED BY <1>1, <1>2, <1>3, <1>4, PostKeepsOrder, QuietKeepsOrder

\* Answering the call that was given keeps the order.
LEMMA FlushKeepsOrder ==
  ASSUME NEW e \in Ends, TypeInv, OrderInv, inbox[e] # <<>>, NEW ret \in Return,
         CallReturn(ret) => Head(inbox[e]).type = "Call" /\ ret.qid = Head(inbox[e]).qid,
         Answer(e, <<ret>>), UNCHANGED nextQid
  PROVE  OrderInv'
<1>1. <<ret>> \in Seq(Message) /\ ret.type = "Return"
  BY DEF Message, Return
<1>2. Reacts(e, <<ret>>)
  BY <1>1 DEF Reacts, Loopback
<1> QED BY <1>1, <1>2, AnswerKeepsOrder

\* Answering nothing keeps the order.
LEMMA AbsorbKeepsOrder ==
  ASSUME NEW e \in Ends, TypeInv, OrderInv, inbox[e] # <<>>, Absorb(e), UNCHANGED nextQid
  PROVE  OrderInv'
<1>1. << >> \in Seq(Message) /\ Reacts(e, << >>)
  BY DEF Reacts
<1> QED BY <1>1, AnswerKeepsOrder DEF Absorb

\* Answering with an exception keeps the order.
LEMMA RefuseKeepsOrder ==
  ASSUME NEW e \in Ends, TypeInv, OrderInv, inbox[e] # <<>>, Head(inbox[e]).qid \in QuestionIds,
         Head(inbox[e]).type \in RequestTypes, Refuse(e, Head(inbox[e])), UNCHANGED nextQid
  PROVE  OrderInv'
<1> DEFINE ret == Exception(e, Head(inbox[e]))
<1>1. ret \in Return
  BY ExceptionType
<1>2. CallReturn(ret) => Head(inbox[e]).type = "Call" /\ ret.qid = Head(inbox[e]).qid
  BY DEF CallReturn, Exception, Results
<1>3. Answer(e, <<ret>>)
  BY DEF Refuse
<1> HIDE DEF ret
<1> QED BY <1>1, <1>2, <1>3, FlushKeepsOrder

\* Answers to Joins are not constrained by embargoes.
LEMMA JoinKeepsOrder ==
  ASSUME NEW e \in Ends, TypeInv, OrderInv, RecvJoin(e)
  PROVE  OrderInv'
<1>1. inbox[e] # <<>> /\ UNCHANGED nextQid
  BY DEF RecvJoin, Given, clientVars
<1>2. CASE Absorb(e)
  BY <1>1, <1>2, AbsorbKeepsOrder
<1>3. ASSUME NEW msgs \in Seq(Message), Answer(e, msgs),
             \A i \in 1 .. Len(msgs) :
               msgs[i].type = "Return" /\ msgs[i].for = "Join" /\ msgs[i].to = Peer[e]
      PROVE  OrderInv'
  <2>1. Reacts(e, msgs)
    BY <1>3 DEF Reacts, CallReturn, Loopback
  <2> QED BY <1>1, <1>3, <2>1, AnswerKeepsOrder
<1>4. Absorb(e) \/ AnswersJoins(e)
  BY JoinTypes DEF TypeInv
<1> QED BY <1>2, <1>3, <1>4 DEF AnswersJoins

\* Every handler of capnp_rpc_handle keeps the order.
LEMMA OrderReceive ==
  ASSUME NEW e \in Ends, TypeInv, OrderInv, Receive(e)
  PROVE  OrderInv'
<1> DEFINE m == Head(inbox[e])
<1>1. /\ inbox[e] # <<>> /\ m \in Message /\ UNCHANGED nextQid
      /\ m.type \in RequestTypes => m.qid \in QuestionIds
  <2>1. inbox[e] # <<>>
    BY DEF Receive, RecvBootstrap, RecvCall, RecvFinish, RecvRelease, RecvJoin, RecvDisembargo,
           RecvReturn, RecvProvide, RecvAccept, RecvOther, Given
  <2>2. UNCHANGED nextQid
    BY DEF Receive, RecvBootstrap, RecvCall, RecvFinish, RecvRelease, RecvJoin, RecvDisembargo,
           RecvReturn, HandleReturn, RecvProvide, RecvAccept, RecvOther, clientVars
  <2>3. m \in Message
    BY <2>1 DEF TypeInv, TypeOK
  <2> QED BY <2>1, <2>2, <2>3, MessageFields
<1>2. CASE m.type \in RequestTypes /\ Refuse(e, m)
  BY <1>1, <1>2, RefuseKeepsOrder
<1>3. CASE Absorb(e)
  BY <1>1, <1>3, AbsorbKeepsOrder
<1>4. ASSUME NEW ret \in Return, FlushAnswer(e, ret),
             CallReturn(ret) => m.type = "Call" /\ ret.qid = m.qid
      PROVE  OrderInv'
  BY <1>1, <1>4, FlushKeepsOrder DEF FlushAnswer
<1>5. ServerTypeOK /\ TypeOK /\ HandoffTypeOK
  BY DEF TypeInv, TypeOK
<1>6. CASE RecvBootstrap(e)
  <2>1. m.type = "Bootstrap" /\ m.type \in RequestTypes
    BY <1>6 DEF RecvBootstrap, Given, RequestTypes
  <2>2. CASE bootstrap[e] # NoServer /\ ExportId(e, bootstrap[e]) # NoExport
    <3> DEFINE x == ExportId(e, bootstrap[e])
               ret == [Results(e, m, x) EXCEPT !.obj = bootstrap[e]]
    <3>1. FlushAnswer(e, ret)
      BY <1>6, <2>2 DEF RecvBootstrap, HandleBootstrap
    <3>2. bootstrap[e] \in Servers /\ x \in ExportIds
      BY <1>5, <2>2, ExportIdType DEF ServerTypeOK
    <3> HIDE DEF x
    <3>3. Results(e, m, x) \in Return
      BY <1>1, <2>1, <3>2, ResultsType
    <3>4. ret \in Return /\ ~CallReturn(ret)
      BY <2>1, <3>2, <3>3 DEF Return, CallReturn, Results
    <3> HIDE DEF ret
    <3> QED BY <3>1, <3>4, <1>4
  <2>3. CASE ~(bootstrap[e] # NoServer /\ ExportId(e, bootstrap[e]) # NoExport)
    BY <1>2, <1>6, <2>1, <2>3 DEF RecvBootstrap, HandleBootstrap
  <2> QED BY <2>2, <2>3
<1>7. CASE RecvCall(e)
  <2> DEFINE x == ResolveTarget(e, m.target)
  <2>1. m.type = "Call" /\ m.type \in RequestTypes
    BY <1>7 DEF RecvCall, Given, RequestTypes
  <2>2. CASE x = NoExport
    BY <1>2, <1>7, <2>1, <2>2 DEF RecvCall, HandleCall
  <2>3. CASE x # NoExport
    <3>1. x \in ExportIds /\ server[e][x] \in Servers \cup {NoServer}
      BY <1>5, <2>3, ResolveTargetType DEF ServerTypeOK
    <3>2. Dispatch(e, m, x)
      BY <1>7, <2>3 DEF RecvCall, HandleCall
    <3>3. PICK outcome \in Outcomes :
            IF outcome = "fails" THEN Absorb(e) /\ UNCHANGED answers
            ELSE FlushAnswer(e, [Results(e, m, NoExport) EXCEPT
                                   !.small = (outcome = "small"), !.obj = server[e][x]])
      BY <3>2 DEF Dispatch
    <3> DEFINE ret == [Results(e, m, NoExport) EXCEPT !.small = (outcome = "small"),
                                                      !.obj = server[e][x]]
    <3>4. Results(e, m, NoExport) \in Return
      BY <1>1, <2>1, ResultsType
    <3> HIDE DEF x
    <3>5. ret \in Return /\ ret.qid = m.qid
      BY <3>1, <3>4 DEF Return, Results
    <3>6. outcome # "fails" => FlushAnswer(e, ret)
      BY <3>3
    <3>7. outcome = "fails" => Absorb(e)
      BY <3>3
    <3> HIDE DEF ret
    <3> QED BY <1>3, <1>4, <2>1, <3>5, <3>6, <3>7
  <2> QED BY <2>2, <2>3
<1>8. CASE RecvFinish(e) \/ RecvRelease(e) \/ RecvReturn(e)
  BY <1>3, <1>8 DEF RecvFinish, HandleFinish, RecvRelease, HandleRelease, RecvReturn, HandleReturn
<1>9. CASE RecvOther(e)
  <2>1. PICK msgs \in Seq(Message) :
          Answer(e, msgs) /\ \A k \in 1 .. Len(msgs) : msgs[k].type = "Unimplemented"
    BY <1>5, <1>9, Echoes
  <2>2. Reacts(e, msgs)
    BY <2>1 DEF Reacts, Loopback, CallReturn
  <2> QED BY <1>1, <2>1, <2>2, AnswerKeepsOrder
<1>10. CASE RecvProvide(e)
  <2>1. m.type = "Provide" /\ m.type \in RequestTypes
    BY <1>10 DEF RecvProvide, Given, RequestTypes
  <2>2. Refuse(e, m) \/ FlushAnswer(e, Results(e, m, NoExport))
    BY <1>10 DEF RecvProvide, HandleProvide
  <2>3. Results(e, m, NoExport) \in Return /\ ~CallReturn(Results(e, m, NoExport))
    <3>1. Results(e, m, NoExport) \in Return
      BY <1>1, <2>1, ResultsType
    <3> QED BY <2>1, <3>1 DEF CallReturn, Results
  <2> QED BY <1>2, <1>4, <2>1, <2>2, <2>3
<1>11. CASE RecvAccept(e)
  <2> DEFINE v     == VatOf[e]
             match == Claimable(v, m.nonce)
             p     == provisions[v][First(match)]
             x     == ExportId(e, p.server)
             ret   == [Results(e, m, x) EXCEPT !.obj = p.server]
  <2>1. m.type = "Accept" /\ m.type \in RequestTypes
    BY <1>11 DEF RecvAccept, Given, RequestTypes
  <2>2. CASE match = {} \/ x = NoExport
    BY <1>2, <1>11, <2>1, <2>2 DEF RecvAccept, HandleAccept
  <2>3. CASE match # {} /\ x # NoExport
    <3>1. Grant(e, m, First(match), x)
      BY <1>11, <2>3 DEF RecvAccept, HandleAccept
    <3>2. Absorb(e) \/ FlushAnswer(e, ret)
      BY <3>1 DEF Grant
    <3>3. p.server \in Servers
      <4>1. v \in Vats /\ First(match) \in ProvisionSlots /\ p # NoProvision
        <5>1. v \in Vats
          BY HandoffAssumption DEF HandoffAssumption
        <5>2. /\ match \subseteq ProvisionSlots
              /\ \A i \in match : provisions[v][i] # NoProvision
          BY DEF Claimable
        <5> HIDE DEF match, v
        <5>3. First(match) \in match
          BY <2>3, <5>2, FirstInNat, Ranges
        <5> QED BY <5>1, <5>2, <5>3
      <4> HIDE DEF match, v
      <4>2. p \in Provision
        BY <1>5, <4>1 DEF HandoffTypeOK
      <4> QED BY <4>2 DEF Provision
    <3> HIDE DEF p
    <3>4. x \in ExportIds
      BY <1>5, <2>3, <3>3, ExportIdType
    <3> HIDE DEF x
    <3>5. Results(e, m, x) \in Return
      BY <1>1, <2>1, <3>4, ResultsType
    <3>6. ret \in Return /\ ~CallReturn(ret)
      BY <2>1, <3>3, <3>5 DEF Return, CallReturn, Results
    <3> HIDE DEF ret
    <3> QED BY <1>3, <1>4, <3>2, <3>6
  <2> QED BY <2>2, <2>3
<1>12. CASE RecvDisembargo(e)
  <2>1. m \in [type : {"Disembargo"}, id : Nat,
               context : {"senderLoopback", "receiverLoopback", "accept", "provide"}]
    BY <1>1, <1>12, MessageFields DEF RecvDisembargo, Given
  <2>2. CASE HandleDisembargo(e, m)
    <3> DEFINE echo == [m EXCEPT !.context = "receiverLoopback"]
    <3>1. CASE m.context = "senderLoopback"
      <4>1. Answer(e, <<echo>>)
        BY <2>2, <3>1 DEF HandleDisembargo
      <4>2. echo \in Message /\ echo.type = "Disembargo" /\ echo.id = m.id
            /\ echo.context = "receiverLoopback"
        BY <2>1 DEF Message, Notice
      <4>3. Reacts(e, <<echo>>)
        <5> HIDE DEF echo
        <5> QED BY <2>1, <3>1, <4>2 DEF Reacts, Loopback, CallReturn
      <4> HIDE DEF echo
      <4>4. <<echo>> \in Seq(Message)
        BY <4>2
      <4> QED BY <1>1, <4>1, <4>3, <4>4, AnswerKeepsOrder
    <3>2. CASE m.context # "senderLoopback"
      BY <1>3, <2>2, <3>2 DEF HandleDisembargo, Absorb
    <3> QED BY <3>1, <3>2
  <2>3. CASE HandleDisembargoProvide(e, m)
    <3> DEFINE v    == VatOf[e]
               held == {i \in ProvisionSlots : /\ provisions[v][i] # NoProvision
                                               /\ provisions[v][i].embargoed
                                               /\ provisions[v][i].qid = m.id}
               i0   == First(held)
               p    == provisions[v][i0]
               q    == [qid |-> p.aqid, type |-> "Accept"]
               ret  == [Results(e, q, p.eid) EXCEPT !.to = Peer[p.by], !.obj = p.server]
    <3>1. CASE held = {}
      BY <1>3, <2>3, <3>1 DEF HandleDisembargoProvide
    <3>2. CASE held # {}
      <4>1. FlushAnswer(e, ret)
        BY <2>3, <3>2 DEF HandleDisembargoProvide
      <4>2. v \in Vats /\ i0 \in ProvisionSlots /\ p # NoProvision /\ p.embargoed
        <5>1. i0 \in held
          BY <3>2, FirstInNat, Ranges
        <5> QED BY <5>1, HandoffAssumption DEF HandoffAssumption
      <4>3. p \in Provision /\ p.aqid \in QuestionIds /\ p.by \in Ends
        <5> HIDE DEF v, i0
        <5> QED BY <1>5, <4>2 DEF HandoffTypeOK, TypeInv, EmbargoedAreClaimed
      <4> HIDE DEF p
      <4>4. p.eid \in ExportIds /\ p.server \in Servers /\ Peer[p.by] \in Ends
        BY <4>3, WireAssumption DEF Provision, WireAssumption
      <4>5. Results(e, q, p.eid) \in Return /\ Results(e, q, p.eid).for = "Accept"
        <5>1. q.qid \in QuestionIds /\ q.type = "Accept" /\ q.type \in RequestTypes
          BY <4>3 DEF RequestTypes
        <5> HIDE DEF q
        <5>2. Results(e, q, p.eid) \in Return
          BY <4>4, <5>1, ResultsType
        <5> QED BY <5>1, <5>2 DEF Results
      <4> HIDE DEF q
      <4>6. ret \in Return /\ ~CallReturn(ret)
        BY <4>4, <4>5 DEF Return, CallReturn
      <4> HIDE DEF ret
      <4> QED BY <1>4, <4>1, <4>6
    <3> QED BY <3>1, <3>2
  <2> QED BY <1>12, <2>2, <2>3 DEF RecvDisembargo
<1>13. CASE RecvJoin(e)
  BY <1>13, JoinKeepsOrder
<1> QED BY <1>6, <1>7, <1>8, <1>9, <1>10, <1>11, <1>12, <1>13 DEF Receive

\* Every operation of an application keeps the order.
LEMMA OrderActs ==
  ASSUME NEW e \in Ends, TypeInv, OrderInv, Acts(e)
  PROVE  OrderInv'
<1>1. TypeOK /\ nextQid \in [Ends -> Nat]
  BY NatQids DEF TypeInv
<1>2. CASE Requests(e)
  BY <1>2, AskKeepsOrder DEF Requests
<1>3. CASE Notifies(e) /\ UNCHANGED nextQid
  BY <1>3, NotifiesKeepsOrder
<1>4. CASE Asks(e) \/ Introduces(e)
  BY <1>1, <1>2, <1>4, AsksRequest, IntroducesTypes
<1>5. CASE Tells(e)
  BY <1>1, <1>3, <1>5, TellsNotify
<1>6. CASE PicksUp(e)
  <2>1. UNCHANGED nextQid
    BY <1>6 DEF PicksUp, clientVars
  <2> QED BY <1>1, <1>3, <1>6, <2>1, PicksUpTypes
<1>7. CASE Hosts(e)
  BY <1>1, <1>7, QuietKeepsOrder DEF Hosts, SetBootstrap, clientVars
<1>8. CASE ReturnsIntroduction(e)
  <2>1. UNCHANGED nextQid /\ inbox[e] # <<>> /\ Head(inbox[e]).type = "Call"
    BY <1>8 DEF ReturnsIntroduction, Given, clientVars
  <2>2. PICK ret \in Return : ret.qid = Head(inbox[e]).qid /\ Answer(e, <<ret>>)
    BY <1>1, <1>8, ReturnsIntroductionTypes
  <2> QED BY <2>1, <2>2, FlushKeepsOrder
<1> QED BY <1>4, <1>5, <1>6, <1>7, <1>8 DEF Acts

\* handle_disembargo's reflection is a barrier: when it is on its way back, every
\* call sent before the embargo has been handled and its Return, if it has one, is
\* in front of it (LoopbackFollowsCalls), for every queue length and every number
\* of questions.
THEOREM LoopbackOrderCorrect == Spec => []LoopbackFollowsCalls
<1>1. Init => OrderInv
  BY DEF Init, WireInit, OrderInv, SentBefore, EmbargoesPrecedeCalls, NoCallBehind, NoReturnBehind
<1>2. TypeInv /\ OrderInv /\ [Next]_vars => OrderInv'
  <2> SUFFICES ASSUME TypeInv, OrderInv, [Next]_vars
               PROVE  OrderInv'
    OBVIOUS
  <2>1. CASE UNCHANGED vars
    <3>1. UNCHANGED inbox /\ UNCHANGED nextQid
      BY <2>1 DEF vars
    <3> QED BY <3>1, NatQids, QuietKeepsOrder
  <2> QED BY <2>1, OrderReceive, OrderActs DEF Next
<1>3. TypeInv /\ OrderInv => LoopbackFollowsCalls
  BY OrderImplies
<1> QED BY <1>1, <1>2, <1>3, TypeInvariant, PTL DEF Spec
=============================================================================
