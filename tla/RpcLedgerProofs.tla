--------------------------- MODULE RpcLedgerProofs ---------------------------
(***************************************************************************)
(* Every step of RpcConn is balanced (see RpcRefProofs): the handlers that *)
(* move pledged references and parts of Join sets, the Returns that hand   *)
(* references over, and what the applications do.  So no capability is     *)
(* freed under a peer that holds it, and no id outlives its object.        *)
(***************************************************************************)
EXTENDS RpcRefProofs

-----------------------------------------------------------------------------
(* Pledges *)

\* A table of provisions that gains or loses slot i.
LEMMA SlotsGainLose ==
  ASSUME NEW P, P \subseteq ProvisionSlots, NEW Q, Q \subseteq ProvisionSlots,
         NEW i \in ProvisionSlots
  PROVE  /\ Cardinality(P) \in Nat /\ Cardinality(Q) \in Nat
         /\ Q \subseteq P => Cardinality(Q) <= Cardinality(P)
         /\ Q \subseteq P \ {i} /\ i \in P => Cardinality(Q) + 1 <= Cardinality(P)
         /\ Q \subseteq P \cup {i} => Cardinality(Q) <= Cardinality(P) + 1
<1>1. IsFiniteSet(P) /\ Cardinality(P) \in Nat /\ IsFiniteSet(Q) /\ Cardinality(Q) \in Nat
  BY SlotSetsFinite
<1>2. Q \subseteq P => Cardinality(Q) <= Cardinality(P)
  BY <1>1, FS_Subset
<1>3. ASSUME Q \subseteq P \ {i}, i \in P
      PROVE  Cardinality(Q) + 1 <= Cardinality(P)
  <2>1. IsFiniteSet(P \ {i}) /\ Cardinality(P \ {i}) = Cardinality(P) - 1
    BY <1>1, <1>3, FS_RemoveElement
  <2>2. Cardinality(Q) <= Cardinality(P \ {i})
    BY <1>3, <2>1, FS_Subset
  <2> QED BY <1>1, <2>1, <2>2
<1>4. ASSUME Q \subseteq P \cup {i}
      PROVE  Cardinality(Q) <= Cardinality(P) + 1
  <2>1. IsFiniteSet(P \cup {i}) /\ Cardinality(P \cup {i}) <= Cardinality(P) + 1
    <3>1. /\ IsFiniteSet(P \cup {i})
          /\ Cardinality(P \cup {i}) = IF i \in P THEN Cardinality(P) ELSE Cardinality(P) + 1
      BY <1>1, FS_AddElement
    <3> QED BY <1>1, <3>1
  <2>2. Cardinality(Q) <= Cardinality(P \cup {i}) /\ Cardinality(P \cup {i}) \in Nat
    BY <1>4, <2>1, FS_Subset, FS_CardinalityType
  <2> QED BY <1>1, <2>1, <2>2
<1> QED BY <1>1, <1>2, <1>3, <1>4

\* The pledge of f in slot i is gone.
LEMMA PledgeGone ==
  ASSUME TypeInv, NEW f \in Ends, NEW v \in Vats, v = VatOf[f], NEW i \in ProvisionSlots, NEW p,
         p = provisions[v][i], p # NoProvision, p.embargoed, p.by = f,
         provisions' = [provisions EXCEPT ![v][i] = NoProvision]
  PROVE  /\ PledgesKept(f)
         /\ \A x \in ExportIds :
              Cardinality(Pledged(f, x)') + (IF x = p.eid THEN 1 ELSE 0)
                <= Cardinality(Pledged(f, x))
<1>0. PledgeChanges(v, i, NoProvision)
  BY PledgeChange
<1>1. \A d \in Ends, j \in ProvisionSlots : ~(VatOf[d] = v /\ j = i) =>
        /\ PledgeAt(d, j)' <=> PledgeAt(d, j)
        /\ provisions'[VatOf[d]][j] = provisions[VatOf[d]][j]
  BY <1>0 DEF PledgeChanges
<1>2. ASSUME NEW d \in Ends, VatOf[d] = v
      PROVE  ~PledgeAt(d, i)' /\ (PledgeAt(d, i) <=> d = f)
  <2>1. provisions'[v][i] = NoProvision
    BY <1>0 DEF PledgeChanges
  <2> QED BY <1>2, <2>1 DEF PledgeAt
<1> HIDE DEF PledgeAt
<1>3. PledgesKept(f)
  <2> SUFFICES ASSUME NEW d \in Ends, NEW j \in ProvisionSlots
               PROVE  /\ d # f => (PledgeAt(d, j)' <=> PledgeAt(d, j))
                      /\ PledgeAt(d, j)' =>
                           /\ PledgeAt(d, j)
                           /\ provisions'[VatOf[d]][j] = provisions[VatOf[d]][j]
    BY DEF PledgesKept
  <2> QED BY <1>1, <1>2
<1>4. ASSUME NEW x \in ExportIds
      PROVE  Cardinality(Pledged(f, x)') + (IF x = p.eid THEN 1 ELSE 0)
               <= Cardinality(Pledged(f, x))
  <2>1. PICK P, Q : P = Pledged(f, x) /\ Q = Pledged(f, x)'
    OBVIOUS
  <2>2. /\ P = {j \in ProvisionSlots : PledgeAt(f, j) /\ provisions[VatOf[f]][j].eid = x}
        /\ Q = {j \in ProvisionSlots : PledgeAt(f, j)' /\ provisions'[VatOf[f]][j].eid = x}
    BY <2>1 DEF Pledged
  <2>3. Q \subseteq P \ {i} /\ P \subseteq ProvisionSlots /\ (i \in P <=> x = p.eid)
    BY <1>1, <1>2, <2>2
  <2>4. /\ Cardinality(P) \in Nat /\ Cardinality(Q) \in Nat
        /\ Cardinality(Q) <= Cardinality(P)
        /\ i \in P => Cardinality(Q) + 1 <= Cardinality(P)
    BY <2>3, SlotsGainLose
  <2>5. Cardinality(Q) + (IF x = p.eid THEN 1 ELSE 0) <= Cardinality(P)
    <3>1. CASE x = p.eid
      BY <2>3, <2>4, <3>1
    <3>2. CASE x # p.eid
      BY <2>4, <3>2
    <3> QED BY <3>1, <3>2
  <2> QED BY <2>1, <2>5
<1> QED BY <1>3, <1>4

\* Slot i holds a new pledge of f, whose export stands for its object.
LEMMA PledgeMade ==
  ASSUME TypeInv, NEW f \in Ends, NEW v \in Vats, v = VatOf[f], NEW i \in ProvisionSlots, NEW p,
         provisions[v][i] = NoProvision \/ ~provisions[v][i].embargoed,
         provisions' = [provisions EXCEPT ![v][i] = p], p.by = f, server'[f][p.eid] = p.server
  PROVE  /\ PledgesKept(f)
         /\ \A x \in ExportIds :
              Cardinality(Pledged(f, x)')
                <= Cardinality(Pledged(f, x)) + (IF x = p.eid THEN 1 ELSE 0)
<1>0. PledgeChanges(v, i, p)
  BY PledgeChange
<1>1. \A d \in Ends, j \in ProvisionSlots : ~(VatOf[d] = v /\ j = i) =>
        /\ PledgeAt(d, j)' <=> PledgeAt(d, j)
        /\ provisions'[VatOf[d]][j] = provisions[VatOf[d]][j]
  BY <1>0 DEF PledgeChanges
<1>2. ASSUME NEW d \in Ends, VatOf[d] = v
      PROVE  ~PledgeAt(d, i) /\ (PledgeAt(d, i)' => d = f)
  <2>1. PledgeAt(d, i)' => p.by = d
    BY <1>0, <1>2 DEF PledgeChanges
  <2>2. ~PledgeAt(d, i)
    BY <1>2 DEF PledgeAt
  <2> QED BY <2>1, <2>2
<1>3. provisions'[v][i] = p
  BY <1>0 DEF PledgeChanges
<1> HIDE DEF PledgeAt
<1>4. PledgesKept(f)
  <2> SUFFICES ASSUME NEW d \in Ends, NEW j \in ProvisionSlots
               PROVE  /\ d # f => (PledgeAt(d, j)' <=> PledgeAt(d, j))
                      /\ PledgeAt(d, j)' =>
                           \/ /\ PledgeAt(d, j)
                              /\ provisions'[VatOf[d]][j] = provisions[VatOf[d]][j]
                           \/ /\ d = f
                              /\ server'[f][provisions'[VatOf[d]][j].eid]
                                   = provisions'[VatOf[d]][j].server
    BY DEF PledgesKept
  <2>1. CASE VatOf[d] = v /\ j = i
    BY <1>2, <1>3, <2>1
  <2>2. CASE ~(VatOf[d] = v /\ j = i)
    BY <1>1, <2>2
  <2> QED BY <2>1, <2>2
<1>5. ASSUME NEW x \in ExportIds
      PROVE  Cardinality(Pledged(f, x)')
               <= Cardinality(Pledged(f, x)) + (IF x = p.eid THEN 1 ELSE 0)
  <2>1. PICK P, Q : P = Pledged(f, x) /\ Q = Pledged(f, x)'
    OBVIOUS
  <2>2. /\ P = {j \in ProvisionSlots : PledgeAt(f, j) /\ provisions[VatOf[f]][j].eid = x}
        /\ Q = {j \in ProvisionSlots : PledgeAt(f, j)' /\ provisions'[VatOf[f]][j].eid = x}
    BY <2>1 DEF Pledged
  <2>3. /\ Q \subseteq P \cup {i} /\ P \subseteq ProvisionSlots /\ Q \subseteq ProvisionSlots
        /\ x # p.eid => Q \subseteq P
    <3>1. \A j \in Q : j # i => j \in P
      BY <1>1, <2>2
    <3>2. i \in Q => x = p.eid
      BY <1>3, <2>2
    <3> QED BY <2>2, <3>1, <3>2
  <2>4. /\ Cardinality(P) \in Nat /\ Cardinality(Q) \in Nat
        /\ Cardinality(Q) <= Cardinality(P) + 1
        /\ x # p.eid => Cardinality(Q) <= Cardinality(P)
    BY <2>3, SlotsGainLose
  <2>5. Cardinality(Q) <= Cardinality(P) + (IF x = p.eid THEN 1 ELSE 0)
    <3>1. CASE x = p.eid
      BY <2>4, <3>1
    <3>2. CASE x # p.eid
      BY <2>4, <3>2
    <3> QED BY <3>1, <3>2
  <2> QED BY <2>1, <2>5
<1> QED BY <1>4, <1>5

-----------------------------------------------------------------------------
(* Disembargo and Accept *)

\* release_provide_embargo hands over what was pledged.
LEMMA DisembargoBalance ==
  ASSUME TypeInv, TypeInv', FreeIsZero, PledgesNamed, NEW f \in Ends, RecvDisembargo(f),
         EmbargoedAcceptsReachClaimant'
  PROVE  Balanced(f)
<1>1. PICK m : m = Head(inbox[f])
  OBVIOUS
<1>2. inbox[f] # <<>> /\ m \in Message /\ m.type = "Disembargo"
  BY <1>1, HandlerFacts DEF RecvDisembargo
<1>3. UNCHANGED <<imports, questions>>
  BY DEF RecvDisembargo, clientVars
<1>4. CASE HandleDisembargo(f, m) /\ UNCHANGED handoffVars
  <2> DEFINE echo == [m EXCEPT !.context = "receiverLoopback"]
  <2>1. PICK msgs : msgs = IF m.context = "senderLoopback" THEN <<echo>> ELSE <<>>
    OBVIOUS
  <2>2. Answer(f, msgs) /\ UNCHANGED <<server, refcount, joins, provisions, introductions>>
    BY <1>4, <2>1 DEF HandleDisembargo, serverVars, handoffVars
  <2>3. m \in [type : {"Disembargo"}, id : Nat,
               context : {"senderLoopback", "receiverLoopback", "accept", "provide"}]
    BY <1>2, MessageFields
  <2>4. echo \in Message /\ echo.type = "Disembargo"
    BY <2>3 DEF Message, Notice
  <2> HIDE DEF echo
  <2>5. <<echo>> \in Seq(Message) /\ PlainFrames(<<echo>>)
    BY <2>4 DEF PlainFrames
  <2>6. msgs \in Seq(Message) /\ PlainFrames(msgs)
    BY <2>1, <2>5, NoFrames
  <2>7. TakesVines(f)
    BY <1>2, <2>2, TakesNone
  <2> QED BY <1>2, <1>3, <2>2, <2>6, <2>7, PlainBalance
<1>5. CASE HandleDisembargoProvide(f, m) /\ UNCHANGED introductions
  <2>1. PICK v \in Vats : v = VatOf[f]
    BY HandoffAssumption DEF HandoffAssumption
  <2>2. PICK held : held = {i \in ProvisionSlots : /\ provisions[v][i] # NoProvision
                                                   /\ provisions[v][i].embargoed
                                                   /\ provisions[v][i].qid = m.id}
    OBVIOUS
  <2>3. TakesVines(f) /\ UNCHANGED <<server, refcount, joins>>
    BY <1>2, <1>5, TakesNone DEF HandleDisembargoProvide
  <2>4. CASE held = {}
    <3>1. Answer(f, <<>>) /\ UNCHANGED provisions
      BY <1>5, <2>1, <2>2, <2>4 DEF HandleDisembargoProvide, Absorb
    <3> QED BY <1>2, <1>3, <2>3, <3>1, NoFrames, PlainBalance
  <2>5. CASE held # {}
    <3>1. PICK i \in ProvisionSlots : i = First(held) /\ i \in held
      <4>1. First(held) \in held
        BY <2>2, <2>5, FirstInNat, Ranges
      <4> QED BY <2>2, <4>1
    <3>2. PICK p \in Provision : /\ p = provisions[v][i] /\ p # NoProvision /\ p.embargoed
                                 /\ p.aqid \in QuestionIds /\ p.by \in Ends
      <4>1. provisions[v][i] # NoProvision /\ provisions[v][i].embargoed
        BY <2>2, <3>1
      <4>2. provisions[v][i] \in Provision
        BY <4>1 DEF TypeInv, TypeOK, HandoffTypeOK
      <4>3. provisions[v][i].aqid \in QuestionIds /\ provisions[v][i].by \in Ends
        BY <4>1 DEF TypeInv, EmbargoedAreClaimed
      <4> QED BY <4>1, <4>2, <4>3
    <3>3. p.eid \in ExportIds /\ p.server \in Servers /\ Peer[p.by] \in Ends
      BY <3>2, PeerFacts DEF Provision
    <3>4. PICK r \in Return : r = Results(f, [qid |-> p.aqid, type |-> "Accept"], p.eid)
      BY <3>2, <3>3, ResultsType DEF RequestTypes
    <3>5. r.cap = p.eid /\ r.intros = <<>> /\ r.for = "Accept"
      BY <3>4 DEF Results
    <3>6. PICK ret : ret = [r EXCEPT !.to = Peer[p.by], !.obj = p.server]
      OBVIOUS
    <3>7. /\ ret \in Return /\ ret.cap = p.eid /\ ret.intros = <<>> /\ ret.for # "Join"
          /\ ret.obj = p.server /\ ret.to = Peer[p.by] /\ ret.type = "Return"
      BY <3>3, <3>5, <3>6 DEF Return
    <3>8. Answer(f, <<ret>>) /\ provisions' = [provisions EXCEPT ![v][i] = NoProvision]
      BY <1>5, <2>1, <2>2, <2>5, <3>1, <3>2, <3>4, <3>6 DEF HandleDisembargoProvide, FlushAnswer
    <3>9. p.by = f
      <4>1. ret.to = Peer[f]
        BY <1>2, <3>7, <3>8, SentIsDelivered
      <4>2. Peer[Peer[p.by]] = p.by /\ Peer[Peer[f]] = f
        BY <3>2, PeerFacts
      <4> QED BY <3>7, <4>1, <4>2
    <3>10. server[f][p.eid] = p.server
      BY <2>1, <3>2, <3>9 DEF PledgesNamed, PledgeAt
    <3>11. /\ PledgesKept(f)
           /\ \A x \in ExportIds :
                Cardinality(Pledged(f, x)') + (IF x = p.eid THEN 1 ELSE 0)
                  <= Cardinality(Pledged(f, x))
      BY <2>1, <3>2, <3>8, <3>9, PledgeGone, ZenonT(60)
    <3>12. ret \in Message
      BY <3>7 DEF Message
    <3>13. PICK sent \in Seq(Message) : sent = <<ret>>
      <4>1. <<ret>> \in Seq(Message)
        BY <3>12
      <4> QED BY <4>1
    <3>14. PICK taken \in Seq(Message) : taken = <<Head(inbox[f])>>
      BY <1>2, <3>8, <3>13, TurnedByAnswer
    <3>15. ASSUME NEW x \in ExportIds
           PROVE  CarriedIn(sent, x) + Cardinality(Pledged(f, x)') <= Cardinality(Pledged(f, x))
      <4>1. CarriedIn(sent, x) = IF x = p.eid THEN 1 ELSE 0
        BY <3>7, <3>12, <3>13, CarriedFacts, CapCarried
      <4>2. PICK a \in Nat, b \in Nat : a = Cardinality(Pledged(f, x)) /\ b = Cardinality(Pledged(f, x)')
        BY TermsTypes DEF TermsTyped
      <4>3. b + (IF x = p.eid THEN 1 ELSE 0) <= a
        BY <3>11, <4>2
      <4>4. (IF x = p.eid THEN 1 ELSE 0) + b <= a
        BY <4>3
      <4> QED BY <4>1, <4>2, <4>4
    <3>16. ExportsBalance(f, taken, sent)
      BY <2>3, <3>15, ExportsRest
    <3>17. Alone(f)
      BY <1>3, <2>3 DEF Alone, TakesVines
    <3>18. SentStand(f, sent) /\ \A k \in DOMAIN sent : sent[k].type # "Release"
      <4>1. DOMAIN sent = {1} /\ sent[1] = ret
        BY <3>13
      <4> QED BY <2>3, <3>7, <3>10, <4>1 DEF SentStand
    <3>19. PartsStand(f)
      BY <2>3, PartsRest
    <3> QED BY <1>2, <1>3, <2>3, <3>8, <3>11, <3>13, <3>14, <3>16, <3>17, <3>18, <3>19,
               ServesBalance
  <2> QED BY <2>4, <2>5
<1> QED BY <1>1, <1>4, <1>5 DEF RecvDisembargo

\* handle_accept hands over the export that it counted, or pledges it.
LEMMA AcceptBalance ==
  ASSUME TypeInv, TypeInv', FreeIsZero, NEW f \in Ends, RecvAccept(f)
  PROVE  Balanced(f)
<1>1. PICK m : m = Head(inbox[f])
  OBVIOUS
<1>2. /\ inbox[f] # <<>> /\ m \in Message /\ m.type = "Accept"
      /\ m.type \in RequestTypes /\ m.qid \in QuestionIds
  BY <1>1, HandlerFacts DEF RecvAccept, RequestTypes
<1>3. UNCHANGED <<imports, questions, introductions>>
  BY DEF RecvAccept, clientVars
<1>4. TakesVines(f)
  BY <1>2, <1>3, TakesNone
<1>5. PICK v \in Vats : v = VatOf[f]
  BY HandoffAssumption DEF HandoffAssumption
<1>6. PICK match : match = Claimable(v, m.nonce)
  OBVIOUS
<1>7. PICK x : x = ExportId(f, provisions[v][First(match)].server)
  OBVIOUS
<1>8. CASE match = {} \/ x = NoExport
  <2>1. Refuse(f, m) /\ UNCHANGED provisions
    BY <1>1, <1>5, <1>6, <1>7, <1>8 DEF RecvAccept, HandleAccept
  <2> QED BY <1>2, <1>3, <1>4, <2>1, RefuseBalance
<1>9. CASE match # {} /\ x # NoExport
  <2>1. PICK i \in ProvisionSlots : /\ i = First(match) /\ provisions[v][i] # NoProvision
                                    /\ ~provisions[v][i].embargoed
    <3>1. First(match) \in match
      BY <1>6, <1>9, FirstInNat, Ranges DEF Claimable
    <3> QED BY <1>6, <3>1 DEF Claimable
  <2>2. PICK p \in Provision : p = provisions[v][i]
    BY <2>1 DEF TypeInv, TypeOK, HandoffTypeOK
  <2>3. PICK s \in Servers : s = p.server
    BY <2>2 DEF Provision
  <2>4. x \in ExportIds /\ server[f][x] \in {s, NoServer}
    <3>1. x = ExportId(f, s)
      BY <1>7, <2>1, <2>2, <2>3
    <3> QED BY <1>9, <3>1, ExportIdType DEF TypeInv, TypeOK
  <2>5. Grant(f, m, i, x)
    BY <1>1, <1>5, <1>6, <1>7, <1>9, <2>1 DEF RecvAccept, HandleAccept
  <2>6. Export(f, s, x) /\ UNCHANGED joins
    BY <1>5, <2>2, <2>3, <2>5 DEF Grant
  <2>7. CASE ~m.embargo
    <3>1. PICK r \in Return : r = Results(f, m, x)
      BY <1>2, <2>4, ResultsType
    <3>2. r.cap = x /\ r.intros = <<>> /\ r.for = "Accept"
      BY <1>2, <3>1 DEF Results
    <3>3. PICK ret : ret = [r EXCEPT !.obj = s]
      OBVIOUS
    <3>4. ret \in Return /\ ret.cap = x /\ ret.intros = <<>> /\ ret.for # "Join" /\ ret.obj = s
      BY <3>2, <3>3 DEF Return
    <3>5. Answer(f, <<ret>>) /\ provisions' = [provisions EXCEPT ![v][i] = NoProvision]
      BY <1>5, <2>2, <2>3, <2>5, <2>7, <3>1, <3>3 DEF Grant, FlushAnswer
    <3>6. \A y \in ExportIds : Carries(ret, y) <= IF y = x THEN 1 ELSE 0
      BY <3>4, CapCarried
    <3>7. PledgesKept(f) /\ \A y \in ExportIds : Pledged(f, y)' = Pledged(f, y)
      BY <2>1, <3>5, UnpledgedRest
    <3> QED BY <1>2, <1>3, <2>4, <2>6, <3>4, <3>5, <3>6, <3>7, HandsOver
  <2>8. CASE m.embargo
    <3>1. PICK new : new = [p EXCEPT !.eid = x, !.embargoed = TRUE, !.aqid = m.qid, !.by = f]
      OBVIOUS
    <3>2. new.by = f /\ new.eid = x /\ new.server = s
      BY <2>2, <2>3, <3>1 DEF Provision
    <3>3. provisions' = [provisions EXCEPT ![v][i] = new] /\ Answer(f, <<>>)
      BY <1>5, <2>2, <2>5, <2>8, <3>1 DEF Grant, Absorb
    <3>4. server'[f][x] = s
      <4>1. server \in [Ends -> [ExportIds -> Servers \cup {NoServer}]]
        BY DEF TypeInv, TypeOK, ServerTypeOK
      <4> QED BY <2>4, <2>6, <4>1 DEF Export
    <3>5. /\ PledgesKept(f)
          /\ \A y \in ExportIds :
               Cardinality(Pledged(f, y)')
                 <= Cardinality(Pledged(f, y)) + (IF y = new.eid THEN 1 ELSE 0)
      <4>1. server'[f][new.eid] = new.server
        BY <3>2, <3>4
      <4> QED BY <1>5, <2>1, <3>2, <3>3, <4>1, PledgeMade
    <3>6. PICK sent \in Seq(Message) : sent = <<>> /\ PlainFrames(sent)
      BY NoFrames
    <3>7. SentStand(f, sent) /\ \A k \in DOMAIN sent : sent[k].type # "Release"
      BY <3>6, PlainStand
    <3>8. PICK taken \in Seq(Message) : taken = <<Head(inbox[f])>>
      BY <1>2, <3>3, <3>6, TurnedByAnswer
    <3>9. ASSUME NEW y \in ExportIds
          PROVE  CarriedIn(sent, y) + Cardinality(Pledged(f, y)')
                   <= Cardinality(Pledged(f, y)) + (IF y = x THEN 1 ELSE 0)
      <4>1. CarriedIn(sent, y) = 0
        BY <3>6, PlainCarry
      <4>2. PICK a \in Nat, b \in Nat : a = Cardinality(Pledged(f, y)) /\ b = Cardinality(Pledged(f, y)')
        BY TermsTypes DEF TermsTyped
      <4>3. b <= a + (IF y = x THEN 1 ELSE 0)
        BY <3>2, <3>5, <4>2
      <4>4. 0 + b <= a + (IF y = x THEN 1 ELSE 0)
        BY <4>3
      <4> QED BY <4>1, <4>2, <4>4
    <3>10. /\ ExportsBalance(f, taken, sent)
           /\ \A d \in Ends \ {f} : server'[d] = server[d] /\ refcount'[d] = refcount[d]
      BY <2>4, <2>6, <3>9, ExportBalances
    <3>11. Alone(f) /\ PartsStand(f)
      BY <1>3, <2>6, <3>10, PartsRest DEF Alone
    <3> QED BY <1>2, <1>3, <1>4, <3>3, <3>5, <3>6, <3>7, <3>8, <3>10, <3>11, ServesBalance
  <2> QED BY <2>7, <2>8
<1> QED BY <1>8, <1>9

-----------------------------------------------------------------------------
(* Join *)

LEMMA HeadAndTail ==
  ASSUME NEW q \in Seq(Message), q # <<>>
  PROVE  /\ q = <<Head(q)>> \o Tail(q) /\ Head(q) \in Message /\ <<Head(q)>> \in Seq(Message)
         /\ Tail(q) \in Seq(Message) /\ Head(q) = q[1] /\ 1 \in DOMAIN q
         /\ \A i \in DOMAIN Tail(q) : i + 1 \in DOMAIN q /\ i + 1 # 1 /\ Tail(q)[i] = q[i + 1]
<1>1. /\ Tail(q) \in Seq(Message) /\ Head(q) \in Message /\ Len(Tail(q)) = Len(q) - 1
      /\ Len(q) \in Nat \ {0} /\ Head(q) = q[1]
      /\ \A i \in 1 .. Len(Tail(q)) : Tail(q)[i] = q[i + 1]
  OBVIOUS
<1>2. <<Head(q)>> \in Seq(Message) /\ Len(<<Head(q)>>) = 1 /\ <<Head(q)>>[1] = Head(q)
  BY <1>1
<1>3. PICK t, h : t = Tail(q) /\ h = <<Head(q)>>
  OBVIOUS
<1>4. /\ h \o t \in Seq(Message) /\ Len(h \o t) = Len(h) + Len(t)
      /\ \A i \in 1 .. (Len(h) + Len(t)) :
           (h \o t)[i] = IF i <= Len(h) THEN h[i] ELSE t[i - Len(h)]
  BY <1>1, <1>2, <1>3, ConcatProperties
<1>5. Len(h \o t) = Len(q) /\ Len(h) = 1
  BY <1>1, <1>2, <1>3, <1>4
<1>6. ASSUME NEW i \in 1 .. Len(q)
      PROVE  (h \o t)[i] = q[i]
  <2>1. CASE i = 1
    BY <1>1, <1>2, <1>3, <1>4, <1>5, <2>1
  <2>2. CASE i # 1
    <3>1. i - 1 \in 1 .. Len(t) /\ ~(i <= 1) /\ (i - 1) + 1 = i
      BY <1>1, <1>3, <2>2
    <3>2. (h \o t)[i] = t[i - 1]
      BY <1>4, <1>5, <3>1
    <3>3. t[i - 1] = q[(i - 1) + 1]
      BY <1>1, <1>3, <3>1
    <3> QED BY <3>1, <3>2, <3>3
  <2> QED BY <2>1, <2>2
<1>7. h \o t = q
  BY <1>4, <1>5, <1>6, SeqEqual
<1>8. ASSUME NEW i \in DOMAIN Tail(q)
      PROVE  i + 1 \in DOMAIN q /\ i + 1 # 1 /\ Tail(q)[i] = q[i + 1]
  <2>1. DOMAIN Tail(q) = 1 .. Len(Tail(q)) /\ DOMAIN q = 1 .. Len(q)
    BY <1>1
  <2> QED BY <1>1, <2>1
<1> QED BY <1>1, <1>2, <1>3, <1>7, <1>8

\* Of these frames only the first carries references to x.
LEMMA FirstCarries ==
  ASSUME NEW q \in Seq(Message), q # <<>>, NEW x \in ExportIds,
         \A i \in DOMAIN q : i # 1 => Carries(q[i], x) = 0
  PROVE  CarriedIn(q, x) = Carries(q[1], x) /\ Carries(q[1], x) \in Nat
<1>1. PICK m \in Message, t \in Seq(Message) : m = q[1] /\ t = Tail(q) /\ q = <<m>> \o t
  BY HeadAndTail
<1>2. \A i \in DOMAIN t : Carries(t[i], x) = 0
  BY <1>1, HeadAndTail
<1>3. CarriedIn(t, x) = 0
  BY <1>2, CarriedFacts
<1>4. <<m>> \in Seq(Message)
  OBVIOUS
<1>5. CarriedIn(<<m>> \o t, x) = CarriedIn(<<m>>, x) + CarriedIn(t, x)
  BY <1>4, CarriedFacts
<1>6. CarriedIn(<<m>>, x) = Carries(m, x) /\ Carries(m, x) \in Nat
  BY CarriedFacts, CarriesType
<1>7. CarriedIn(<<m>> \o t, x) = Carries(m, x)
  BY <1>3, <1>5, <1>6
<1> QED BY <1>1, <1>6, <1>7

\* A Join names an export that is in use: its sender holds it.
JoinResolves(f, m) ==
  LET eid == ResolveTarget(f, m.target)
  IN  /\ eid \in ExportIds /\ Used(f, eid) /\ m.target = Import(eid)
      /\ AskedJoin(Peer[f], m.qid, m.target)

HeldIsUsed ==
  \A f \in Ends : \A q, t :
    AskedJoin(Peer[f], q, t) => \E y \in ExportIds : t = Import(y) /\ Used(f, y)

LEMMA HeldAreUsed ==
  ASSUME TypeInv, Counted, FreeIsZero
  PROVE  HeldIsUsed
<1> SUFFICES ASSUME NEW f \in Ends, NEW q, NEW t, AskedJoin(Peer[f], q, t)
             PROVE  \E y \in ExportIds : t = Import(y) /\ Used(f, y)
  BY DEF HeldIsUsed
<1>1. PICK y \in ExportIds : t = Import(y) /\ imports[Peer[f]][y].n > 0
  BY DEF AskedJoin, Held
<1>2. TypeOK
  BY DEF TypeInv
<1>3. TermsTyped
  BY <1>2, TermsType
<1>4. NoneOut
  BY <1>3, CountedOut
<1>5. refcount[f][y] # 0
  BY <1>1, <1>4 DEF NoneOut
<1>6. Used(f, y)
  BY <1>5 DEF FreeIsZero
<1> QED BY <1>1, <1>6

LEMMA JoinsResolve ==
  ASSUME TypeInv, HeldIsUsed, JoinsStand, NEW f \in Ends, RecvJoin(f), NEW m, m = Head(inbox[f])
  PROVE  JoinResolves(f, m)
<1>1. inbox[f] # <<>> /\ m.type = "Join" /\ inbox[f] \in Seq(Message)
  BY HandlerFacts DEF RecvJoin, TypeInv, TypeOK
<1>2. 1 \in DOMAIN inbox[f] /\ inbox[f][1] = m
  BY <1>1
<1>3. AskedJoin(Peer[f], m.qid, m.target)
  BY <1>1, <1>2 DEF JoinsStand
<1>4. PICK y \in ExportIds : m.target = Import(y) /\ Used(f, y)
  BY <1>3 DEF HeldIsUsed
<1>5. m.target.kind = "importedCap" /\ m.target.id = y
  BY <1>4 DEF Import
<1>6. ResolveTarget(f, m.target) = y
  BY <1>4, <1>5 DEF ResolveTarget
<1> QED BY <1>3, <1>4, <1>6 DEF JoinResolves

\* The frames with which join_complete answers: the first of a set that joined
\* carries the capability.
JoinAnswers(msgs, pcount, same, first, obj) ==
  /\ Len(msgs) = pcount
  /\ \A i \in 1 .. pcount :
       /\ msgs[i].type = "Return" /\ msgs[i].for = "Join" /\ msgs[i].intros = <<>>
       /\ msgs[i].cap = (IF same /\ i = 1 THEN first ELSE NoExport)
       /\ msgs[i].joined = same /\ msgs[i].obj = obj

\* What join_complete does: the verdict, the count and the frames.
Completes(f, parts, pcount, same, first, obj, msgs) ==
  /\ first = parts[0].eid
  /\ same <=> first # NoExport /\ \A p \in 0 .. (pcount - 1) : parts[p].eid = first
  /\ obj = IF \A p \in 0 .. (pcount - 1) : parts[p].obj = parts[0].obj
           THEN parts[0].obj ELSE NoServer
  /\ refcount' = IF same THEN [refcount EXCEPT ![f][first] = @ + 1] ELSE refcount
  /\ Answer(f, msgs)
  /\ JoinAnswers(msgs, pcount, same, first, obj)

LEMMA JoinCompletes ==
  ASSUME NEW f \in Ends, NEW parts, NEW pcount \in Nat \ {0}, NEW jid,
         \A p \in 0 .. (pcount - 1) : parts[p] \in Part,
         JoinComplete(f, [jid |-> jid, pcount |-> pcount, parts |-> parts])
  PROVE  \E same \in BOOLEAN, first \in ExportIds \cup {NoExport},
            obj \in Servers \cup {NoServer}, msgs \in Seq(Message) :
           Completes(f, parts, pcount, same, first, obj, msgs)
<1>1. PICK j : j = [jid |-> jid, pcount |-> pcount, parts |-> parts]
  OBVIOUS
<1>2. j.pcount = pcount /\ j.parts = parts /\ JoinComplete(f, j)
  BY <1>1
<1> DEFINE c == parts[0].eid
           b == c # NoExport /\ \A p \in 0 .. (pcount - 1) : parts[p].eid = c
           o == IF \A p \in 0 .. (pcount - 1) : parts[p].obj = parts[0].obj
                THEN parts[0].obj ELSE NoServer
<1>3. 0 \in 0 .. (pcount - 1)
  OBVIOUS
<1>4. c \in ExportIds \cup {NoExport} /\ o \in Servers \cup {NoServer}
  <2>1. parts[0] \in Part
    BY <1>3
  <2> QED BY <2>1 DEF Part
<1>5. b \in BOOLEAN /\ (b => c \in ExportIds)
  BY <1>4
<1>6. PICK same \in BOOLEAN, first \in ExportIds \cup {NoExport}, obj \in Servers \cup {NoServer} :
        same = b /\ first = c /\ obj = o
  <2> HIDE DEF b, c, o
  <2> QED BY <1>4, <1>5
<1> DEFINE result(i) == JoinResult(f, parts[i - 1].qid, same,
                                   IF same /\ i = 1 THEN first ELSE NoExport, obj)
           msgs == [i \in 1 .. pcount |-> result(i)]
<1>7. /\ refcount' = IF same THEN [refcount EXCEPT ![f][first] = @ + 1] ELSE refcount
      /\ Answer(f, msgs)
  BY <1>2, <1>6 DEF JoinComplete
<1>8. ASSUME NEW i \in 1 .. pcount
      PROVE  /\ result(i) \in Message /\ result(i).type = "Return" /\ result(i).for = "Join"
             /\ result(i).intros = <<>>
             /\ result(i).cap = (IF same /\ i = 1 THEN first ELSE NoExport)
             /\ result(i).joined = same /\ result(i).obj = obj
  <2>1. parts[i - 1].qid \in QuestionIds
    <3>1. i - 1 \in 0 .. (pcount - 1)
      OBVIOUS
    <3>2. parts[i - 1] \in Part
      BY <3>1
    <3> QED BY <3>2 DEF Part
  <2>2. PICK cap \in ExportIds \cup {NoExport} : cap = IF same /\ i = 1 THEN first ELSE NoExport
    OBVIOUS
  <2>3. PICK req : req = [qid |-> parts[i - 1].qid, type |-> "Join"]
    OBVIOUS
  <2>4. PICK r \in Return : r = Results(f, req, cap)
    BY <2>1, <2>3, ResultsType DEF RequestTypes
  <2>5. r.cap = cap /\ r.intros = <<>> /\ r.for = "Join"
    BY <2>3, <2>4 DEF Results
  <2>6. result(i) = [r EXCEPT !.joined = same, !.obj = obj]
    BY <2>2, <2>3, <2>4 DEF JoinResult
  <2> HIDE DEF result
  <2>7. PICK ret : ret = result(i)
    OBVIOUS
  <2>8. /\ ret \in Return /\ ret.type = "Return" /\ ret.for = "Join" /\ ret.intros = <<>>
        /\ ret.cap = cap /\ ret.joined = same /\ ret.obj = obj
    BY <2>5, <2>6, <2>7 DEF Return
  <2> QED BY <2>2, <2>7, <2>8 DEF Message
<1> HIDE DEF result
<1>9. /\ msgs \in Seq(Message) /\ Len(msgs) = pcount
      /\ \A i \in 1 .. pcount : msgs[i] = result(i)
  BY <1>8
<1> HIDE DEF msgs
<1>10. PICK sent \in Seq(Message) : sent = msgs
  BY <1>9
<1>11. JoinAnswers(sent, pcount, same, first, obj)
  BY <1>8, <1>9, <1>10 DEF JoinAnswers
<1>12. Completes(f, parts, pcount, same, first, obj, sent)
  BY <1>6, <1>7, <1>10, <1>11 DEF Completes
<1> QED BY <1>12

\* The verdict on parts that stand is true of their objects.
AllStand(f, parts, pcount) == \A p \in 0 .. (pcount - 1) : PartStands(f, parts[p])

VerdictHolds(f, same, first, obj) ==
  /\ same <=> obj # NoServer
  /\ first \in ExportIds /\ server[f][first] # NoServer
  /\ same => obj = server[f][first]

LEMMA VerdictTrue ==
  ASSUME TypeInv, HeldIsUsed, OneIdPerObject, NEW f \in Ends, NEW parts, NEW pcount \in Nat \ {0},
         AllStand(f, parts, pcount), NEW same \in BOOLEAN, NEW first, NEW obj, NEW msgs,
         Completes(f, parts, pcount, same, first, obj, msgs)
  PROVE  VerdictHolds(f, same, first, obj)
<1>1. 0 \in 0 .. (pcount - 1)
  OBVIOUS
<1>2. ASSUME NEW p \in 0 .. (pcount - 1)
      PROVE  /\ parts[p].eid \in ExportIds /\ Used(f, parts[p].eid)
             /\ parts[p].obj = server[f][parts[p].eid]
  <2>1. /\ parts[p].eid \in ExportIds /\ parts[p].obj = server[f][parts[p].eid]
        /\ AskedJoin(Peer[f], parts[p].qid, Import(parts[p].eid))
    BY DEF AllStand, PartStands
  <2>2. PICK y \in ExportIds : Import(parts[p].eid) = Import(y) /\ Used(f, y)
    BY <2>1 DEF HeldIsUsed
  <2>3. parts[p].eid = y
    <3>1. Import(parts[p].eid).id = Import(y).id
      BY <2>2
    <3> QED BY <3>1 DEF Import
  <2> QED BY <2>1, <2>2, <2>3
<1>3. /\ first = parts[0].eid
      /\ same <=> first # NoExport /\ \A p \in 0 .. (pcount - 1) : parts[p].eid = first
      /\ obj = IF \A p \in 0 .. (pcount - 1) : parts[p].obj = parts[0].obj
               THEN parts[0].obj ELSE NoServer
  BY DEF Completes
<1>4. first \in ExportIds /\ server[f][first] # NoServer /\ parts[0].obj = server[f][first]
  BY <1>1, <1>2, <1>3 DEF Used
<1>5. CASE same
  <2>1. \A p \in 0 .. (pcount - 1) : parts[p].obj = parts[0].obj
    BY <1>2, <1>3, <1>4, <1>5
  <2> QED BY <1>3, <1>4, <1>5, <2>1 DEF VerdictHolds
<1>6. CASE ~same
  <2>1. first # NoExport
    BY <1>4, Ranges
  <2>2. PICK p \in 0 .. (pcount - 1) : parts[p].eid # first
    BY <1>3, <1>6, <2>1
  <2>3. parts[p].obj # parts[0].obj
    BY <1>2, <1>4, <2>2 DEF OneIdPerObject
  <2> QED BY <1>3, <1>4, <1>6, <2>3 DEF VerdictHolds
<1> QED BY <1>5, <1>6

\* A Join set that is taken out of its slot leaves the other parts as they are.
LEMMA PartsGone ==
  ASSUME TypeInv, NEW f \in Ends, NEW slot \in JoinSlots,
         joins' = [joins EXCEPT ![f][slot] = NoJoin]
  PROVE  PartsStand(f) /\ \A d \in Ends \ {f} : joins'[d] = joins[d]
<1>1. joins \in [Ends -> [JoinSlots -> JoinSet \cup {NoJoin}]]
  BY DEF TypeInv, TypeOK, ServerTypeOK
<1>2. /\ joins'[f][slot] = NoJoin
      /\ \A k \in JoinSlots : k # slot => joins'[f][k] = joins[f][k]
      /\ \A d \in Ends \ {f} : joins'[d] = joins[d]
  BY <1>1
<1>3. ASSUME NEW k \in JoinSlots, NEW n \in PartNums, NEW part \in Part, HasPart(f, k, n, part)'
      PROVE  HasPart(f, k, n, part)
  <2>1. joins'[f][k] # NoJoin /\ joins'[f][k].parts[n] = part
    BY <1>3 DEF HasPart
  <2> QED BY <1>2, <2>1 DEF HasPart
<1> HIDE DEF HasPart
<1> QED BY <1>2, <1>3 DEF PartsStand

\* A part that is recorded is the only one that is new.
LEMMA PartsGrow ==
  ASSUME TypeInv, NEW f \in Ends, NEW slot \in JoinSlots, NEW pnum \in PartNums, NEW seen,
         NEW part \in Part, NEW j, PartAdded(f, slot, pnum, seen, part, j.parts),
         seen \in [PartNums -> Part \cup {NoPart}],
         joins' = [joins EXCEPT ![f][slot] = j], JoinersHold => PartStands(f, part)'
  PROVE  PartsStand(f) /\ \A d \in Ends \ {f} : joins'[d] = joins[d]
<1>1. joins \in [Ends -> [JoinSlots -> JoinSet \cup {NoJoin}]]
  BY DEF TypeInv, TypeOK, ServerTypeOK
<1>2. /\ joins'[f][slot] = j
      /\ \A k \in JoinSlots : k # slot => joins'[f][k] = joins[f][k]
      /\ \A d \in Ends \ {f} : joins'[d] = joins[d]
  BY <1>1
<1>3. /\ seen = IF joins[f][slot] = NoJoin THEN NoParts ELSE joins[f][slot].parts
      /\ j.parts = [seen EXCEPT ![pnum] = part]
  BY DEF PartAdded, PartsSeen
<1>4. \A n \in PartNums : j.parts[n] = IF n = pnum THEN part ELSE seen[n]
  BY <1>3
<1>5. ASSUME NEW k \in JoinSlots, NEW n \in PartNums, NEW q \in Part, HasPart(f, k, n, q)',
             q # part
      PROVE  HasPart(f, k, n, q)
  <2>1. joins'[f][k] # NoJoin /\ joins'[f][k].parts[n] = q
    BY <1>5 DEF HasPart
  <2>2. CASE k # slot
    BY <1>2, <2>1, <2>2 DEF HasPart
  <2>3. CASE k = slot
    <3>1. seen[n] = q
      BY <1>2, <1>4, <1>5, <2>1, <2>3
    <3>2. q # NoPart
      BY UnusedSlotsAssumption
    <3>3. joins[f][slot] # NoJoin
      BY <1>3, <3>1, <3>2 DEF NoParts
    <3> QED BY <1>3, <2>3, <3>1, <3>3 DEF HasPart
  <2> QED BY <2>2, <2>3
<1> HIDE DEF HasPart, PartStands
<1>6. ASSUME NEW k \in JoinSlots, NEW n \in PartNums, NEW q \in Part, HasPart(f, k, n, q)'
      PROVE  JoinersHold => HasPart(f, k, n, q) \/ PartStands(f, q)'
  <2>1. CASE q = part
    BY <2>1
  <2>2. CASE q # part
    BY <1>5, <1>6, <2>2
  <2> QED BY <2>1, <2>2
<1> QED BY <1>2, <1>6 DEF PartsStand

\* join_complete counts the one reference that its first frame carries.
LEMMA CompleteBalance ==
  ASSUME TypeInv, TypeInv', FreeIsZero, HeldIsUsed, OneIdPerObject, NEW f \in Ends,
         inbox[f] # <<>>, NEW parts, NEW pcount \in Nat \ {0},
         JoinersHold => AllStand(f, parts, pcount), NEW same \in BOOLEAN, NEW first, NEW obj,
         NEW msgs \in Seq(Message), Completes(f, parts, pcount, same, first, obj, msgs),
         same => first \in ExportIds /\ Used(f, first), PartsStand(f), \A d \in Ends \ {f} : joins'[d] = joins[d],
         UNCHANGED <<server, imports, questions, provisions, introductions>>
  PROVE  Balanced(f)
<1>0. JoinersHold => VerdictHolds(f, same, first, obj)
  BY VerdictTrue
<1>1. /\ JoinersHold => (same <=> obj # NoServer) /\ (same => obj = server[f][first])
      /\ same => first \in ExportIds /\ server[f][first] # NoServer
  BY <1>0 DEF VerdictHolds, Used
<1>2. /\ refcount' = IF same THEN [refcount EXCEPT ![f][first] = @ + 1] ELSE refcount
      /\ Answer(f, msgs)
  BY DEF Completes
<1>3. /\ Len(msgs) = pcount /\ DOMAIN msgs = 1 .. pcount
      /\ \A i \in 1 .. pcount :
           /\ msgs[i].type = "Return" /\ msgs[i].for = "Join" /\ msgs[i].intros = <<>>
           /\ msgs[i].cap = (IF same /\ i = 1 THEN first ELSE NoExport)
           /\ msgs[i].joined = same /\ msgs[i].obj = obj
  BY DEF Completes, JoinAnswers
<1>4. /\ \A d \in Ends \ {f} : refcount'[d] = refcount[d]
      /\ \A x \in ExportIds : refcount[f][x] \in Int
      /\ \A x \in ExportIds :
           refcount'[f][x] = refcount[f][x] + (IF same /\ x = first THEN 1 ELSE 0)
  <2>1. refcount \in [Ends -> [ExportIds -> Int]]
    BY DEF TypeInv, TypeOK, ServerTypeOK
  <2>2. CASE same
    BY <1>1, <1>2, <2>1, <2>2
  <2>3. CASE ~same
    BY <1>2, <2>1, <2>3
  <2> QED BY <2>2, <2>3
<1>5. ASSUME NEW x \in ExportIds, NEW i \in 1 .. pcount
      PROVE  Carries(msgs[i], x) = IF same /\ i = 1 /\ x = first THEN 1 ELSE 0
  <2>1. PICK r \in Message : r = msgs[i]
    BY <1>3
  <2>2. r \in Return
    BY <1>3, <2>1, MessageFields
  <2>3. Carries(r, x) = IF r.cap = x THEN 1 ELSE 0
    BY <1>3, <2>1, <2>2, CapCarried
  <2>4. NoExport # x
    BY Ranges
  <2>5. r.cap = x <=> same /\ i = 1 /\ x = first
    BY <1>3, <2>1, <2>4
  <2> QED BY <2>1, <2>3, <2>5
<1>6. ASSUME NEW x \in ExportIds
      PROVE  CarriedIn(msgs, x) = IF same /\ x = first THEN 1 ELSE 0
  <2>1. msgs # <<>> /\ 1 \in 1 .. pcount
    BY <1>3
  <2>2. \A i \in DOMAIN msgs : i # 1 => Carries(msgs[i], x) = 0
    BY <1>3, <1>5
  <2>3. CarriedIn(msgs, x) = Carries(msgs[1], x)
    BY <2>1, <2>2, FirstCarries
  <2> QED BY <1>5, <2>1, <2>3
<1>7. PICK taken \in Seq(Message) : taken = <<Head(inbox[f])>>
  BY <1>2, TurnedByAnswer
<1>8. PledgesKept(f) /\ \A x \in ExportIds : Pledged(f, x)' = Pledged(f, x)
  BY PledgesRest
<1>9. ExportsBalance(f, taken, msgs)
  <2> SUFFICES ASSUME NEW x \in ExportIds
               PROVE  /\ refcount'[f][x] + Cardinality(Pledged(f, x)) + GivenBackIn(taken, x)
                           >= refcount[f][x] + Cardinality(Pledged(f, x)') + CarriedIn(msgs, x)
                      /\ server'[f][x] = NoServer => refcount'[f][x] = 0
                      /\ server'[f][x] = server[f][x]
    BY DEF ExportsBalance
  <2>1. PICK q \in Nat : q = Cardinality(Pledged(f, x)) /\ q = Cardinality(Pledged(f, x)')
    BY <1>8, TermsTypes DEF TermsTyped
  <2>2. PICK g \in Nat : g = GivenBackIn(taken, x)
    BY GivenBackFacts
  <2>3. PICK r \in Int : r = refcount[f][x]
    BY <1>4
  <2>4. PICK c \in Nat : c = (IF same /\ x = first THEN 1 ELSE 0)
    OBVIOUS
  <2>5. refcount'[f][x] = r + c /\ CarriedIn(msgs, x) = c
    BY <1>4, <1>6, <2>3, <2>4
  <2>6. (r + c) + q + g >= r + q + c
    OBVIOUS
  <2>7. server' = server
    OBVIOUS
  <2>8. server[f][x] = NoServer => refcount'[f][x] = 0
    <3>1. server[f][x] = NoServer => r = 0 /\ c = 0
      BY <1>1, <2>3, <2>4 DEF FreeIsZero, Used
    <3>2. server[f][x] = NoServer => r + c = 0
      BY <3>1
    <3> QED BY <2>5, <3>2
  <2> QED BY <2>1, <2>2, <2>3, <2>5, <2>6, <2>7, <2>8
<1>10. Alone(f)
  BY <1>4 DEF Alone
<1>11. SentStand(f, msgs) /\ \A k \in DOMAIN msgs : msgs[k].type # "Release"
  <2>1. ASSUME NEW k \in DOMAIN msgs
        PROVE  /\ msgs[k].type = "Return"
               /\ JoinersHold => /\ msgs[k].cap # NoExport => server'[f][msgs[k].cap] = msgs[k].obj
                                 /\ msgs[k].joined <=> msgs[k].obj # NoServer
    BY <1>1, <1>3
  <2> QED BY <2>1 DEF SentStand
<1>12. TakesVines(f)
  BY TakesNone
<1> QED BY <1>2, <1>7, <1>8, <1>9, <1>10, <1>11, <1>12, ServesBalance

\* handle_join records a part that stands, or answers parts that stand.
LEMMA JoinBalance ==
  ASSUME TypeInv, TypeInv', RefInv, OneIdPerObject, NEW f \in Ends, RecvJoin(f)
  PROVE  Balanced(f)
<1> DEFINE m     == Head(inbox[f])
           keyOK == m.pcount \in 1 .. MaxJoinParts /\ m.pnum < m.pcount
           slot  == JoinSlot(f, m.jid, m.pcount)
           seen  == IF joins[f][slot] = NoJoin THEN NoParts ELSE joins[f][slot].parts
           eid   == ResolveTarget(f, m.target)
           part  == [qid |-> m.qid, eid |-> eid,
                     obj |-> IF eid = NoExport THEN NoServer ELSE server[f][eid]]
           j     == [jid |-> m.jid, pcount |-> m.pcount,
                     parts |-> [seen EXCEPT ![m.pnum] = part]]
           full  == \A p \in 0 .. (m.pcount - 1) : j.parts[p] # NoPart
<1>0. FreeIsZero /\ Counted /\ (JoinersHold => JoinsStand)
  BY DEF RefInv, IdsStand
<1>1. /\ inbox[f] # <<>> /\ m.qid \in QuestionIds /\ m.type = "Join" /\ m \in Message
  BY HandlerFacts DEF RecvJoin, RequestTypes
<1>2. m.jid \in JoinIds /\ m.pcount \in Nat /\ m.pnum \in Nat
  BY <1>1, MessageFields
<1>3. UNCHANGED <<imports, questions, introductions, provisions>> /\ UNCHANGED server
  BY DEF RecvJoin, HandleJoin, clientVars, handoffVars
<1>4. TakesVines(f)
  BY <1>1, <1>3, TakesNone
<1>5. CASE ~keyOK \/ slot = -1 \/ seen[m.pnum] # NoPart
  <2>1. PICK ret : ret = JoinResult(f, m.qid, FALSE, NoExport, NoServer)
    OBVIOUS
  <2>2. Answer(f, <<ret>>) /\ UNCHANGED <<refcount, joins>>
    BY <1>5, <2>1 DEF RecvJoin, HandleJoin
  <2>3. PICK req : req = [qid |-> m.qid, type |-> "Join"]
    OBVIOUS
  <2>4. PICK r \in Return : r = Results(f, req, NoExport)
    BY <1>1, <2>3, ResultsType DEF RequestTypes
  <2>5. r.cap = NoExport /\ r.intros = <<>>
    BY <2>4 DEF Results
  <2>6. ret = [r EXCEPT !.joined = FALSE, !.obj = NoServer]
    BY <2>1, <2>3, <2>4 DEF JoinResult
  <2>7. /\ ret \in Return /\ ret.cap = NoExport /\ ret.intros = <<>>
        /\ ret.joined = FALSE /\ ret.obj = NoServer
    BY <2>5, <2>6 DEF Return
  <2>8. <<ret>> \in Seq(Message) /\ PlainFrames(<<ret>>)
    BY <2>7, PlainOne
  <2> QED BY <1>0, <1>1, <1>3, <1>4, <2>2, <2>8, PlainBalance
<1>6. CASE keyOK /\ slot # -1 /\ seen[m.pnum] = NoPart
  <2>1. /\ joins' = [joins EXCEPT ![f][slot] = IF full THEN NoJoin ELSE j]
        /\ IF full THEN JoinComplete(f, j) ELSE Absorb(f) /\ UNCHANGED refcount
    BY <1>6 DEF RecvJoin, HandleJoin
  <2>2. slot \in JoinSlots
    BY <1>6, JoinSlotType
  <2>3. seen \in [PartNums -> Part \cup {NoPart}]
    <3>1. joins[f][slot] # NoJoin => joins[f][slot] \in JoinSet
      BY <2>2 DEF TypeInv, TypeOK, ServerTypeOK
    <3>2. NoParts \in [PartNums -> Part \cup {NoPart}]
      BY DEF NoParts
    <3> HIDE DEF slot
    <3> QED BY <3>1, <3>2 DEF JoinSet
  <2>4. PartsSeen(f, slot, seen)
    BY DEF PartsSeen
  <2>5. HeldIsUsed
    BY <1>0, HeldAreUsed
  <2>6. JoinersHold => JoinResolves(f, m)
    BY <1>0, <2>5, JoinsResolve
  <2>7. PICK part0 \in Part :
          /\ part0 = part
          /\ part0.eid # NoExport => part0.eid \in ExportIds /\ Used(f, part0.eid)
          /\ JoinersHold => PartStands(f, part0)
    <3>1. /\ eid # NoExport => eid \in ExportIds /\ Used(f, eid)
          /\ JoinersHold => /\ eid \in ExportIds /\ eid # NoExport
                            /\ AskedJoin(Peer[f], m.qid, Import(eid))
      <4>1. eid # NoExport => eid \in ExportIds /\ Used(f, eid)
        BY DEF ResolveTarget
      <4> QED BY <2>6, <4>1, Ranges DEF JoinResolves
    <3>2. PICK o : o = IF eid = NoExport THEN NoServer ELSE server[f][eid]
      OBVIOUS
    <3> HIDE DEF eid, m
    <3>3. o \in Servers \cup {NoServer}
      BY <3>1, <3>2 DEF TypeInv, TypeOK, ServerTypeOK
    <3>4. part = [qid |-> m.qid, eid |-> eid, obj |-> o]
      BY <3>2
    <3> HIDE DEF part
    <3>5. part \in Part
      BY <1>1, <3>1, <3>3, <3>4 DEF Part
    <3>6. part.qid = m.qid /\ part.eid = eid /\ part.obj = o
      BY <3>4
    <3>7. JoinersHold => PartStands(f, part)
      BY <3>1, <3>2, <3>6 DEF PartStands
    <3> QED BY <3>1, <3>5, <3>6, <3>7
  <2> HIDE DEF part
  <2>8a. PICK parts0 : parts0 = [seen EXCEPT ![m.pnum] = part0]
    OBVIOUS
  <2>8. PICK s0 \in JoinSlots, n0 \in PartNums, c0 \in Nat \ {0},
             seen0 \in [PartNums -> Part \cup {NoPart}] :
          /\ s0 = slot /\ n0 = m.pnum /\ c0 = m.pcount /\ seen0 = seen
          /\ parts0 = [seen0 EXCEPT ![n0] = part0] /\ 0 .. (c0 - 1) \subseteq PartNums
    <3>1. m.pcount \in Nat \ {0} /\ m.pnum \in PartNums /\ 0 .. (m.pcount - 1) \subseteq PartNums
      BY <1>2, <1>6, WireAssumption DEF PartNums, WireAssumption
    <3> HIDE DEF m, seen, slot
    <3> QED BY <2>2, <2>3, <2>8a, <3>1
  <2>9. PICK jid : jid = m.jid
    OBVIOUS
  <2>10. j = [jid |-> jid, pcount |-> c0, parts |-> parts0] /\ j.parts = parts0
    BY <2>7, <2>8, <2>9
  <2>11. PartAdded(f, s0, n0, seen0, part0, parts0)
    BY <1>6, <2>4, <2>8 DEF PartAdded
  <2>12. full <=> \A p \in 0 .. (c0 - 1) : parts0[p] # NoPart
    BY <2>8, <2>10
  <2>13. CASE full
    <3>1. ASSUME NEW p \in 0 .. (c0 - 1)
          PROVE  parts0[p] \in Part /\ (JoinersHold => PartStands(f, parts0[p]))
      <4>1. p \in PartNums /\ parts0[p] # NoPart
        BY <2>8, <2>12, <2>13
      <4>2. CASE p = n0
        <5>1. parts0[p] = part0
          BY <2>8, <4>1, <4>2
        <5> QED BY <2>7, <5>1
      <4>3. CASE p # n0
        <5>1. parts0[p] = seen0[p]
          BY <2>8, <4>1, <4>3
        <5>2. seen0[p] \in Part
          BY <4>1, <5>1
        <5>3. seen0 = IF joins[f][s0] = NoJoin THEN NoParts ELSE joins[f][s0].parts
          BY <2>8
        <5>4. HasPart(f, s0, p, seen0[p])
          <6>1. joins[f][s0] # NoJoin
            BY <4>1, <5>1, <5>3 DEF NoParts
          <6> QED BY <5>3, <6>1 DEF HasPart
        <5>5. JoinersHold => PartStands(f, seen0[p])
          BY <1>0, <4>1, <5>2, <5>4 DEF JoinsStand
        <5> QED BY <5>1, <5>2, <5>5
      <4> QED BY <4>2, <4>3
    <3>2. JoinComplete(f, [jid |-> jid, pcount |-> c0, parts |-> parts0])
          /\ joins' = [joins EXCEPT ![f][s0] = NoJoin]
      <4> HIDE DEF full, j
      <4> QED BY <2>1, <2>8, <2>10, <2>13
    <3> HIDE DEF full, j, m, slot, seen
    <3>3. PICK same \in BOOLEAN, first \in ExportIds \cup {NoExport},
               obj \in Servers \cup {NoServer}, msgs \in Seq(Message) :
            Completes(f, parts0, c0, same, first, obj, msgs)
      BY <3>1, <3>2, JoinCompletes
    <3>4. PartsStand(f) /\ \A d \in Ends \ {f} : joins'[d] = joins[d]
      BY <3>2, PartsGone
    <3>5. JoinersHold => AllStand(f, parts0, c0)
      BY <3>1 DEF AllStand
    <3>6. same => first \in ExportIds /\ Used(f, first)
      <4>1. n0 \in 0 .. (c0 - 1) /\ parts0[n0] = part0
        BY <1>2, <1>6, <2>8 DEF m
      <4>2. same => first # NoExport /\ parts0[n0].eid = first
        BY <3>3, <4>1 DEF Completes
      <4> QED BY <2>7, <4>1, <4>2
    <3> QED BY <1>0, <1>1, <1>3, <2>5, <3>3, <3>4, <3>5, <3>6, CompleteBalance
  <2>14. CASE ~full
    <3>1. joins' = [joins EXCEPT ![f][s0] = j] /\ Answer(f, <<>>) /\ UNCHANGED refcount
      <4> HIDE DEF full, j
      <4> QED BY <2>1, <2>8, <2>14 DEF Absorb
    <3>2. JoinersHold => PartStands(f, part0)'
      <4>1. AskedJoin(Peer[f], part0.qid, Import(part0.eid))'
              <=> AskedJoin(Peer[f], part0.qid, Import(part0.eid))
        BY <1>3 DEF AskedJoin, Held, SlotsOf
      <4> HIDE DEF AskedJoin
      <4> QED BY <1>3, <2>7, <4>1 DEF PartStands
    <3>3. PICK j0 : j0 = j
      OBVIOUS
    <3>4. PartAdded(f, s0, n0, seen0, part0, j0.parts) /\ joins' = [joins EXCEPT ![f][s0] = j0]
      BY <2>10, <2>11, <3>1, <3>3
    <3> HIDE DEF full, j, m, slot, seen
    <3>5. PartsStand(f) /\ \A d \in Ends \ {f} : joins'[d] = joins[d]
      BY <3>2, <3>4, PartsGrow
    <3>6. PICK sent \in Seq(Message) : sent = <<>> /\ PlainFrames(sent)
      BY NoFrames
    <3>7. PICK taken \in Seq(Message) : taken = <<Head(inbox[f])>>
      BY <1>1, <3>1, <3>6, TurnedByAnswer DEF m
    <3>8. PledgesKept(f) /\ \A x \in ExportIds : Pledged(f, x)' = Pledged(f, x)
      BY <1>3, PledgesRest
    <3>9. ASSUME NEW x \in ExportIds
          PROVE  CarriedIn(sent, x) + Cardinality(Pledged(f, x)') <= Cardinality(Pledged(f, x))
      <4>1. CarriedIn(sent, x) = 0
        BY <3>6, PlainCarry
      <4>2. PICK q \in Nat : q = Cardinality(Pledged(f, x)) /\ q = Cardinality(Pledged(f, x)')
        BY <3>8, TermsTypes DEF TermsTyped
      <4> QED BY <4>1, <4>2
    <3>10. ExportsBalance(f, taken, sent)
      BY <1>0, <1>3, <3>1, <3>9, ExportsRest
    <3>11. SentStand(f, sent) /\ \A k \in DOMAIN sent : sent[k].type # "Release"
      BY <3>6, PlainStand
    <3>12. Alone(f)
      BY <1>3, <3>1, <3>5 DEF Alone
    <3> QED BY <1>1, <1>3, <1>4, <3>1, <3>5, <3>6, <3>7, <3>8, <3>10, <3>11, <3>12,
               ServesBalance DEF m
  <2> QED BY <2>13, <2>14
<1> QED BY <1>5, <1>6

-----------------------------------------------------------------------------
(* Returns *)

\* The imports that t names are held after the step as before it.
StaysHeld(f, t) == \A y \in Held(f) : t = Import(y) => y \in Held(f)'

\* The slots of question q are as before.
StaysAsked(f, q) ==
  \A i \in SlotsOf(f, q) : i \in SlotsOf(f, q)' /\ questions'[f][i] = questions[f][i]

\* A Join stands while its question and its import do.
LEMMA AskedKept ==
  ASSUME NEW f \in Ends, NEW q, NEW t, AskedJoin(f, q, t), StaysHeld(f, t), StaysAsked(f, q)
  PROVE  AskedJoin(f, q, t)'
<1>1. "join" \in Ops[f]
  BY DEF AskedJoin
<1>2. PICK y \in Held(f) : t = Import(y)
  BY DEF AskedJoin
<1>3. PICK i \in SlotsOf(f, q) : /\ ~questions[f][i].answered
                                 /\ questions[f][i].req.type = "Join"
                                 /\ questions[f][i].req.target = t
  BY DEF AskedJoin
<1>4. y \in Held(f)'
  BY <1>2 DEF StaysHeld
<1>5. i \in SlotsOf(f, q)' /\ questions'[f][i] = questions[f][i]
  BY DEF StaysAsked
<1>6. \E z \in Held(f)' : t = Import(z)
  BY <1>2, <1>4
<1>7. \E j \in SlotsOf(f, q)' : /\ ~questions'[f][j].answered
                                /\ questions'[f][j].req.type = "Join"
                                /\ questions'[f][j].req.target = t
  BY <1>3, <1>5
<1> QED BY <1>1, <1>6, <1>7 DEF AskedJoin, Import

\* A Return that is on its way is where its question is.
LEMMA ReturnIsOnce ==
  ASSUME NEW f \in Ends, TypeInv, OnePlace, NEW m, m = Head(inbox[f]), Given(f, "Return"),
         m.qid \in QuestionIds
  PROVE  Asking(f, m.qid) = {} /\ Parts(f, m.qid) = {}
<1>1. inbox[f] \in Seq(Message) /\ inbox[f] # <<>> /\ m.type = "Return"
  BY DEF TypeInv, TypeOK, Given
<1>2. 1 \in DOMAIN inbox[f] /\ inbox[f][1] = m
  BY <1>1
<1>3. 1 \in Returning(f, m.qid)
  BY <1>1, <1>2 DEF Returning
<1>4. PICK q \in QuestionIds : q = m.qid
  OBVIOUS
<1>5. /\ Tally(Asking(f, q)) \in 0 .. 2 /\ Tally(Returning(f, q)) \in 0 .. 2
      /\ Tally(Parts(f, q)) \in 0 .. 2 /\ Tally(Embargoes(f, q)) \in 0 .. 2
      /\ Tally(Answered(f, q)) \in 0 .. 2
      /\ (Tally(Asking(f, q)) = 0 <=> Asking(f, q) = {})
      /\ (Tally(Returning(f, q)) = 0 <=> Returning(f, q) = {})
      /\ (Tally(Parts(f, q)) = 0 <=> Parts(f, q) = {})
  BY PlacesFacts
<1>6. Tally(Asking(f, q)) + Tally(Returning(f, q)) + Tally(Parts(f, q)) + Tally(Embargoes(f, q))
        + Tally(Answered(f, q)) <= 1
  BY DEF OnePlace, Places
<1>7. Returning(f, q) # {}
  BY <1>3, <1>4
<1>8. Asking(f, q) = {} /\ Parts(f, q) = {}
  BY <1>5, <1>6, <1>7
<1> QED BY <1>4, <1>8

\* What handle_return hands over to the application: no more than the frame carries.
HandedOver(f, m, x) ==
  /\ imports'[f][x].n + Cardinality(Vines(introductions'[f], x))
       <= imports[f][x].n + Cardinality(Vines(introductions[f], x)) + Carries(m, x)
  /\ imports'[f][x].n >= imports[f][x].n
  /\ imports'[f][x].n > 0 => \/ imports'[f][x] = imports[f][x]
                             \/ m.cap = x /\ m.obj = imports'[f][x].obj
  /\ \A d \in Ends \ {f} : imports'[d] = imports[d] /\ introductions'[d] = introductions[d]

LEMMA ReturnHandsOver ==
  ASSUME TypeInv, NEW f \in Ends, RecvReturn(f), NEW m \in Return, m = Head(inbox[f]),
         NEW x \in ExportIds
  PROVE  HandedOver(f, m, x)
<1>1. /\ imports' = Imported(f, m)
      /\ IF Recorded(f, m) /\ m.results
         THEN NoteIntroductions(f, m.intros) ELSE UNCHANGED introductions
  BY DEF RecvReturn, HandleReturn
<1>2. PICK K : K = {k \in DOMAIN m.intros : m.intros[k].vine = x}
  OBVIOUS
<1>3. m.type = "Return" /\ m.intros \in Seq(Descriptor) /\ m \in Message
      /\ m.cap \in ExportIds \cup {NoExport}
  BY DEF Return, Message
<1>4. Carries(m, x) = (IF m.cap = x THEN 1 ELSE 0) + Cardinality(K)
  BY <1>2, <1>3 DEF Carries
<1>5. Cardinality(K) \in Nat
  <2>1. IsFiniteSet(K)
    BY <1>2, <1>3, CarriesType
  <2> QED BY <2>1, FS_CardinalityType
<1>6. /\ Cardinality(Vines(introductions'[f], x))
           <= Cardinality(Vines(introductions[f], x)) + Cardinality(K)
      /\ \A d \in Ends \ {f} : introductions'[d] = introductions[d]
  <2>1. Cardinality(Vines(introductions[f], x)) \in Nat
    BY SlotSetsFinite
  <2>2. CASE Recorded(f, m) /\ m.results
    BY <1>1, <1>2, <1>3, <2>2, NotesVines
  <2>3. CASE ~(Recorded(f, m) /\ m.results)
    BY <1>1, <1>5, <2>1, <2>3
  <2> QED BY <2>2, <2>3
<1>7. imports \in [Ends -> [ExportIds -> [n : Nat, obj : Servers \cup {NoServer}]]]
  BY DEF TypeInv, TypeOK, ClientTypeOK
<1>8. imports[f][x].n \in Nat
  BY <1>7
<1>9. /\ \A d \in Ends \ {f} : imports'[d] = imports[d]
      /\ \/ imports'[f][x] = imports[f][x]
         \/ m.cap = x /\ imports'[f][x] = [n |-> imports[f][x].n + 1, obj |-> m.obj]
  <2>1. CASE Recorded(f, m) /\ m.results /\ m.cap # NoExport
    <3>1. imports' = [imports EXCEPT ![f][m.cap] = [n |-> imports[f][m.cap].n + 1, obj |-> m.obj]]
      BY <1>1, <2>1 DEF Imported
    <3>2. m.cap \in ExportIds
      BY <1>3, <2>1
    <3>3. imports[f] \in [ExportIds -> [n : Nat, obj : Servers \cup {NoServer}]]
      BY <1>7
    <3>4. /\ \A d \in Ends \ {f} : imports'[d] = imports[d]
          /\ imports'[f] = [imports[f] EXCEPT ![m.cap] = [n |-> imports[f][m.cap].n + 1, obj |-> m.obj]]
      BY <1>7, <3>1
    <3>5. CASE m.cap = x
      BY <3>3, <3>4, <3>5
    <3>6. CASE m.cap # x
      BY <3>3, <3>4, <3>6
    <3> QED BY <3>4, <3>5, <3>6
  <2>2. CASE ~(Recorded(f, m) /\ m.results /\ m.cap # NoExport)
    BY <1>1, <2>2 DEF Imported
  <2> QED BY <2>1, <2>2
<1>10. /\ Cardinality(Vines(introductions'[f], x)) \in Nat
       /\ Cardinality(Vines(introductions[f], x)) \in Nat
  BY SlotSetsFinite
<1>11. PICK v \in Nat, w \in Nat, c \in Nat :
         /\ v = Cardinality(Vines(introductions[f], x))
         /\ w = Cardinality(Vines(introductions'[f], x))
         /\ c = Cardinality(K)
  BY <1>5, <1>10
<1>12. w <= v + c
  BY <1>6, <1>11
<1>13. CASE imports'[f][x] = imports[f][x]
  <2>1. Carries(m, x) >= c /\ Carries(m, x) \in Nat
    BY <1>4, <1>11
  <2>2. imports[f][x].n + w <= imports[f][x].n + v + Carries(m, x)
    BY <1>8, <1>12, <2>1
  <2> QED BY <1>6, <1>8, <1>9, <1>11, <1>13, <2>2 DEF HandedOver
<1>14. CASE m.cap = x /\ imports'[f][x] = [n |-> imports[f][x].n + 1, obj |-> m.obj]
  <2>1. Carries(m, x) = 1 + c
    BY <1>4, <1>11, <1>14
  <2>2. imports'[f][x].n = imports[f][x].n + 1 /\ imports'[f][x].obj = m.obj
    BY <1>14
  <2>3. imports'[f][x].n + w <= imports[f][x].n + v + Carries(m, x)
        /\ imports'[f][x].n >= imports[f][x].n
    BY <1>8, <1>12, <2>1, <2>2
  <2> QED BY <1>6, <1>9, <1>11, <1>14, <2>2, <2>3 DEF HandedOver
<1> QED BY <1>9, <1>13, <1>14

\* handle_return.
LEMMA ReturnBalance ==
  ASSUME TypeInv, TypeInv', FreeIsZero, FlowInv, NEW f \in Ends, RecvReturn(f)
  PROVE  Balanced(f)
<1>1. PICK m : m = Head(inbox[f])
  OBVIOUS
<1>2. Given(f, "Return") /\ Absorb(f) /\ UNCHANGED <<serverVars, provisions>>
  BY DEF RecvReturn, HandleReturn
<1>3. inbox[f] # <<>> /\ m \in Message /\ m.type = "Return"
  BY <1>1, <1>2, HandlerFacts
<1>4. m \in Return /\ m.qid \in QuestionIds
  BY <1>3, MessageFields DEF Return
<1>5. PICK sent \in Seq(Message) : sent = <<>>
  BY NoFrames
<1>6. PlainFrames(sent) /\ Answer(f, sent)
  BY <1>2, <1>5, NoFrames DEF Absorb
<1>7. <<Head(inbox[f])>> \in Seq(Message) /\ Turned(f, <<Head(inbox[f])>>, sent)
  BY <1>3, <1>6, TurnedByAnswer
<1>8. PICK taken \in Seq(Message) : taken = <<m>>
  BY <1>1, <1>7
<1>9. Turned(f, taken, sent)
  BY <1>1, <1>7, <1>8
<1>10. SentStand(f, sent)
  BY <1>6, PlainStand
<1>11. PledgesKept(f) /\ \A x \in ExportIds : Pledged(f, x)' = Pledged(f, x)
  BY <1>2, PledgesRest
<1>12. ExportsBalance(f, taken, sent)
  <2>1. ASSUME NEW x \in ExportIds
        PROVE  CarriedIn(sent, x) + Cardinality(Pledged(f, x)') <= Cardinality(Pledged(f, x))
    <3>1. CarriedIn(sent, x) = 0
      BY <1>6, PlainCarry
    <3>2. Cardinality(Pledged(f, x)) \in Nat
      BY TermsTypes DEF TermsTyped
    <3>3. Cardinality(Pledged(f, x)') = Cardinality(Pledged(f, x))
      BY <1>11
    <3> QED BY <3>1, <3>2, <3>3
  <2>2. UNCHANGED <<server, refcount>>
    BY <1>2 DEF serverVars
  <2> QED BY <2>1, <2>2, ExportsRest
<1>13. \A x \in ExportIds : HandedOver(f, m, x)
  BY <1>1, <1>4, ReturnHandsOver
<1>14. ImportsBalance(f, taken, sent)
  <2>1. ASSUME NEW x \in ExportIds
        PROVE  /\ imports'[f][x].n + Cardinality(Vines(introductions'[f], x))
                    + GivenBackIn(sent, x)
                  <= imports[f][x].n + Cardinality(Vines(introductions[f], x))
                     + CarriedIn(taken, x)
               /\ imports'[f][x].n > 0 =>
                    \/ imports[f][x].n > 0 /\ imports'[f][x].obj = imports[f][x].obj
                    \/ \E k \in DOMAIN taken : /\ taken[k].type = "Return" /\ taken[k].cap = x
                                               /\ taken[k].obj = imports'[f][x].obj
    <3>1. CarriedIn(taken, x) = Carries(m, x) /\ Carries(m, x) \in Nat
      BY <1>3, <1>8, CarriedFacts, CarriesType
    <3>2. GivenBackIn(sent, x) = 0
      <4>1. \A k \in DOMAIN sent : GivesBack(sent[k], x) = 0
        BY <1>5
      <4> QED BY <4>1, GivenBackFacts
    <3>3. imports[f][x].n \in Nat /\ imports'[f][x].n \in Nat
      BY TermsTypes DEF TermsTyped
    <3>4. Cardinality(Vines(introductions'[f], x)) \in Nat
          /\ Cardinality(Vines(introductions[f], x)) \in Nat
      BY SlotSetsFinite
    <3>5. /\ imports'[f][x].n + Cardinality(Vines(introductions'[f], x))
               <= imports[f][x].n + Cardinality(Vines(introductions[f], x)) + Carries(m, x)
          /\ imports'[f][x].n > 0 => \/ imports'[f][x] = imports[f][x]
                                     \/ m.cap = x /\ m.obj = imports'[f][x].obj
      BY <1>13 DEF HandedOver
    <3>6. 1 \in DOMAIN taken /\ taken[1] = m
      BY <1>8
    <3>7. imports'[f][x].n + Cardinality(Vines(introductions'[f], x)) + GivenBackIn(sent, x)
            <= imports[f][x].n + Cardinality(Vines(introductions[f], x)) + CarriedIn(taken, x)
      BY <3>1, <3>2, <3>3, <3>4, <3>5
    <3> QED BY <1>3, <3>5, <3>6, <3>7
  <2> QED BY <2>1 DEF ImportsBalance
<1>15. UNCHANGED questions \/ \E s \in SlotsOf(f, m.qid) : Records(f, m, s)
  <2>1. CASE Recorded(f, m)
    <3>1. Min(SlotsOf(f, m.qid)) \in SlotsOf(f, m.qid)
      BY <2>1, MinInNat, Ranges DEF Recorded, SlotsOf
    <3>2. Records(f, m, Min(SlotsOf(f, m.qid)))
      BY <1>1, <2>1 DEF RecvReturn, HandleReturn, Records
    <3> QED BY <3>1, <3>2
  <2>2. CASE ~Recorded(f, m)
    BY <1>1, <2>2 DEF RecvReturn, HandleReturn
  <2> QED BY <2>1, <2>2
<1>16. \A d \in Ends \ {f} : questions'[d] = questions[d]
  BY <1>15 DEF Records, TypeInv, TypeOK, ClientTypeOK
<1>17. Alone(f)
  <2>1. \A d \in Ends \ {f} : imports'[d] = imports[d] /\ introductions'[d] = introductions[d]
    <3>1. 0 \in ExportIds
      BY WireAssumption DEF WireAssumption, ExportIds
    <3> QED BY <1>13, <3>1 DEF HandedOver
  <2> QED BY <1>2, <1>16, <2>1 DEF Alone, serverVars
<1>18. JoinsKept(f)
  <2>1. ASSUME NEW q \in QuestionIds, NEW t, AskedJoin(f, q, t),
               Asking(f, q) # {} \/ Parts(f, q) # {}
        PROVE  AskedJoin(f, q, t)'
    <3>1. q # m.qid
      BY <1>1, <1>2, <1>4, <2>1, ReturnIsOnce DEF FlowInv
    <3>2. StaysAsked(f, q)
      <4>1. CASE UNCHANGED questions
        BY <4>1 DEF StaysAsked, SlotsOf
      <4>2. ASSUME NEW s \in SlotsOf(f, m.qid), Records(f, m, s)
            PROVE  StaysAsked(f, q)
        <5>1. SlotsOf(f, q)' = SlotsOf(f, q)
          BY <1>4, <4>2, RecordsFacts
        <5>2. \A i \in QuestionSlots : i # s => questions'[f][i] = questions[f][i]
          BY <1>4, <4>2, RecordsFacts
        <5>3. \A i \in SlotsOf(f, q) : i \in QuestionSlots /\ i # s
          BY <3>1 DEF SlotsOf
        <5> QED BY <5>1, <5>2, <5>3 DEF StaysAsked
      <4> QED BY <1>15, <4>1, <4>2
    <3>3. StaysHeld(f, t)
      <4>1. \A y \in ExportIds : imports'[f][y].n >= imports[f][y].n
        BY <1>13 DEF HandedOver
      <4>2. \A y \in ExportIds : imports[f][y].n \in Nat /\ imports'[f][y].n \in Nat
        BY TermsTypes DEF TermsTyped
      <4> QED BY <4>1, <4>2 DEF StaysHeld, Held
    <3> QED BY <2>1, <3>2, <3>3, AskedKept
  <2>2. PartsStand(f)
    BY <1>2, PartsRest DEF serverVars
  <2> HIDE DEF AskedJoin
  <2> QED BY <2>1, <2>2 DEF JoinsKept, PartsStand
<1> QED BY <1>9, <1>10, <1>11, <1>12, <1>14, <1>17, <1>18 DEF Balanced

-----------------------------------------------------------------------------
(* What an application does *)

\* A step of the application takes no frame.
Quits(f, taken, sent) == taken = <<>> /\ Turned(f, taken, sent)

\* The frames that are in a queue, and one more.
LEMMA AppendOne ==
  ASSUME NEW q \in Seq(Message), NEW m \in Message, NEW s \in Seq(Message), s = <<m>>,
         NEW n \in Seq(Message), n = <<>>
  PROVE  Append(q, m) = q \o s /\ q = q \o n /\ q = n \o q
<1>1. Append(q, m) = q \o s
  <2>1. /\ q \o s \in Seq(Message) /\ Len(q \o s) = Len(q) + 1
        /\ \A i \in 1 .. (Len(q) + 1) : (q \o s)[i] = IF i <= Len(q) THEN q[i] ELSE s[i - Len(q)]
    <3>1. Len(s) = 1
      OBVIOUS
    <3>2. /\ q \o s \in Seq(Message) /\ Len(q \o s) = Len(q) + Len(s)
          /\ \A i \in 1 .. (Len(q) + Len(s)) :
               (q \o s)[i] = IF i <= Len(q) THEN q[i] ELSE s[i - Len(q)]
      BY ConcatProperties
    <3> QED BY <3>1, <3>2
  <2>2. /\ Append(q, m) \in Seq(Message) /\ Len(Append(q, m)) = Len(q) + 1
        /\ \A i \in 1 .. Len(q) : Append(q, m)[i] = q[i]
        /\ Append(q, m)[Len(q) + 1] = m
    BY AppendProperties
  <2>3. Len(q) \in Nat /\ s[1] = m
    OBVIOUS
  <2>4. ASSUME NEW i \in 1 .. (Len(q) + 1)
        PROVE  Append(q, m)[i] = (q \o s)[i]
    <3>1. CASE i <= Len(q)
      BY <2>1, <2>2, <2>3, <3>1
    <3>2. CASE i = Len(q) + 1
      <4>1. ~(i <= Len(q)) /\ i - Len(q) = 1
        BY <2>3, <3>2
      <4> QED BY <2>1, <2>2, <2>3, <3>2, <4>1
    <3> QED BY <2>3, <3>1, <3>2
  <2> QED BY <2>1, <2>2, <2>4, SeqEqual
<1>2. q = q \o n /\ q = n \o q
  BY ConcatEmptySeq
<1> QED BY <1>1, <1>2

\* The application sends a frame, or none.
LEMMA TurnedByPost ==
  ASSUME TypeInv, TypeInv', NEW f \in Ends, NEW m \in Message, NEW taken \in Seq(Message),
         taken = <<>>, NEW sent \in Seq(Message)
  PROVE  /\ Post(f, m) /\ sent = <<m>> => Turned(f, taken, sent)
         /\ UNCHANGED inbox /\ sent = <<>> => Turned(f, taken, sent)
<1>1. inbox \in [Ends -> Seq(Message)] /\ inbox' \in [Ends -> Seq(Message)]
  BY DEF TypeInv, TypeOK
<1>2. Peer[f] \in Ends /\ Peer[f] # f
  BY PeerFacts
<1>3. inbox'[f] = taken \o inbox'[f]
  BY <1>1, AppendOne
<1>4. ASSUME Post(f, m), sent = <<m>>
      PROVE  Turned(f, taken, sent)
  <2>1. inbox' = [inbox EXCEPT ![Peer[f]] = Append(inbox[Peer[f]], m)]
    BY <1>4 DEF Post
  <2>2. /\ inbox'[f] = inbox[f] /\ inbox'[Peer[f]] = Append(inbox[Peer[f]], m)
        /\ \A d \in Ends : d # f /\ d # Peer[f] => inbox'[d] = inbox[d]
    BY <1>1, <1>2, <2>1
  <2>3. PICK q \in Seq(Message) : q = inbox[Peer[f]]
    BY <1>1, <1>2
  <2>4. Append(q, m) = q \o sent
    BY <1>4, AppendOne
  <2> QED BY <1>3, <2>2, <2>3, <2>4 DEF Turned
<1>5. ASSUME UNCHANGED inbox, sent = <<>>
      PROVE  Turned(f, taken, sent)
  <2>1. inbox[Peer[f]] = inbox[Peer[f]] \o sent
    BY <1>1, <1>2, <1>5, AppendOne
  <2> QED BY <1>3, <1>5, <2>1 DEF Turned
<1> HIDE DEF Turned, Post
<1> QED BY <1>4, <1>5

\* The Joins that f has asked and that are not answered still stand.
KeepsAsked(f) ==
  JoinersHold => \A q \in QuestionIds : \A t : AskedJoin(f, q, t) => AskedJoin(f, q, t)'

\* What f holds and releases, when it takes no frame.
GivesUp(f, sent) ==
  \A x \in ExportIds :
    /\ imports'[f][x].n + Cardinality(Vines(introductions'[f], x)) + GivenBackIn(sent, x)
         <= imports[f][x].n + Cardinality(Vines(introductions[f], x))
    /\ imports'[f][x].n > 0 =>
         imports[f][x].n > 0 /\ imports'[f][x].obj = imports[f][x].obj

\* An operation of the application.
LEMMA ActsBalance ==
  ASSUME NEW f \in Ends, NEW taken \in Seq(Message), taken = <<>>,
         NEW sent \in Seq(Message), Turned(f, taken, sent), ExportsBalance(f, taken, sent),
         GivesUp(f, sent), SentStand(f, sent), Alone(f), KeepsAsked(f),
         UNCHANGED <<joins, provisions>>, TypeInv, TypeInv'
  PROVE  Balanced(f)
<1>1. PledgesKept(f)
  BY PledgesRest
<1>2. PartsStand(f)
  BY PartsRest
<1>3. JoinsKept(f)
  <2> HIDE DEF AskedJoin
  <2> QED BY <1>2 DEF JoinsKept, PartsStand, KeepsAsked
<1>4. ImportsBalance(f, taken, sent)
  <2>1. ASSUME NEW x \in ExportIds
        PROVE  /\ imports'[f][x].n + Cardinality(Vines(introductions'[f], x))
                    + GivenBackIn(sent, x)
                  <= imports[f][x].n + Cardinality(Vines(introductions[f], x))
                     + CarriedIn(taken, x)
               /\ imports'[f][x].n > 0 =>
                    imports[f][x].n > 0 /\ imports'[f][x].obj = imports[f][x].obj
    <3>1. CarriedIn(taken, x) = 0
      <4>1. \A k \in DOMAIN taken : Carries(taken[k], x) = 0
        OBVIOUS
      <4> QED BY <4>1, CarriedFacts
    <3>2. imports[f][x].n \in Nat
      BY TermsTypes DEF TermsTyped
    <3>3. Cardinality(Vines(introductions[f], x)) \in Nat
      BY SlotSetsFinite
    <3> QED BY <3>1, <3>2, <3>3 DEF GivesUp
  <2> QED BY <2>1 DEF ImportsBalance
<1> QED BY <1>1, <1>3, <1>4 DEF Balanced

\* One that leaves the exports alone and sends frames that carry no references.
LEMMA AsksBalance ==
  ASSUME NEW f \in Ends, TypeInv, TypeInv', FreeIsZero, NEW taken \in Seq(Message), taken = <<>>,
         NEW sent \in Seq(Message), Turned(f, taken, sent),
         \A k \in DOMAIN sent : \A x \in ExportIds : Carries(sent[k], x) = 0,
         GivesUp(f, sent), SentStand(f, sent), KeepsAsked(f),
         UNCHANGED <<server, refcount, joins, provisions>>,
         \A d \in Ends \ {f} : /\ imports'[d] = imports[d] /\ questions'[d] = questions[d]
                               /\ introductions'[d] = introductions[d]
  PROVE  Balanced(f)
<1>1. \A x \in ExportIds : Pledged(f, x)' = Pledged(f, x)
  BY PledgesRest
<1>2. ASSUME NEW x \in ExportIds
      PROVE  CarriedIn(sent, x) + Cardinality(Pledged(f, x)') <= Cardinality(Pledged(f, x))
  <2>1. CarriedIn(sent, x) = 0
    BY CarriedFacts
  <2>2. Cardinality(Pledged(f, x)) \in Nat
    BY TermsTypes DEF TermsTyped
  <2>3. Cardinality(Pledged(f, x)') = Cardinality(Pledged(f, x))
    BY <1>1
  <2> QED BY <2>1, <2>2, <2>3
<1>3. ExportsBalance(f, taken, sent)
  BY <1>2, ExportsRest
<1>4. Alone(f)
  BY DEF Alone
<1> QED BY <1>3, <1>4, ActsBalance

\* What f holds when it gives nothing up.
LEMMA GivesNothing ==
  ASSUME TypeInv, NEW f \in Ends, NEW sent \in Seq(Message), UNCHANGED <<imports, introductions>>,
         \A k \in DOMAIN sent : sent[k].type # "Release"
  PROVE  GivesUp(f, sent)
<1> SUFFICES ASSUME NEW x \in ExportIds
             PROVE  /\ imports[f][x].n + Cardinality(Vines(introductions[f], x))
                         + GivenBackIn(sent, x)
                       <= imports[f][x].n + Cardinality(Vines(introductions[f], x))
  BY DEF GivesUp
<1>1. GivenBackIn(sent, x) = 0
  <2>1. \A k \in DOMAIN sent : GivesBack(sent[k], x) = 0
    BY DEF GivesBack
  <2> QED BY <2>1, GivenBackFacts
<1>2. imports[f][x].n \in Nat
  BY DEF TypeInv, TypeOK, ClientTypeOK
<1>3. Cardinality(Vines(introductions[f], x)) \in Nat
  BY SlotSetsFinite
<1> QED BY <1>1, <1>2, <1>3

\* Questions and imports that are as before.
LEMMA AsksRest ==
  ASSUME NEW f \in Ends, UNCHANGED <<questions, imports>>
  PROVE  KeepsAsked(f)
<1>1. \A q, t : AskedJoin(f, q, t)' <=> AskedJoin(f, q, t)
  BY DEF AskedJoin, Held, SlotsOf
<1> HIDE DEF AskedJoin
<1> QED BY <1>1 DEF KeepsAsked

\* question_claim leaves the questions that are asked as they are, and asks one more.
LEMMA ClaimKeepsAsked ==
  ASSUME NEW f \in Ends, TypeInv, NEW i \in FreeQuestions(f), NEW req \in Request,
         req.qid \in QuestionIds, Claims(f, i, req), UNCHANGED imports
  PROVE  /\ KeepsAsked(f)
         /\ \A d \in Ends \ {f} : questions'[d] = questions[d]
         /\ req.type = "Join" /\ "join" \in Ops[f] /\ (\E x \in Held(f) : req.target = Import(x))
              => AskedJoin(f, req.qid, req.target)'
<1>1. /\ \A q \in QuestionIds :
           SlotsOf(f, q)' = IF q = req.qid THEN SlotsOf(f, q) \cup {i} ELSE SlotsOf(f, q)
      /\ \A s \in QuestionSlots : s # i => questions'[f][s] = questions[f][s]
      /\ questions'[f][i] = Asked(req)
  BY ClaimsFacts
<1>2. ASSUME NEW q \in QuestionIds
      PROVE  StaysAsked(f, q)
  <2>1. \A s \in SlotsOf(f, q) : s \in QuestionSlots /\ s # i
    BY DEF SlotsOf, FreeQuestions
  <2>2. \A s \in SlotsOf(f, q) : s \in SlotsOf(f, q)'
    BY <1>1
  <2> QED BY <1>1, <2>1, <2>2 DEF StaysAsked
<1>3. \A t : StaysHeld(f, t)
  BY DEF StaysHeld, Held
<1>4. KeepsAsked(f)
  <2> SUFFICES ASSUME NEW q \in QuestionIds, NEW t, AskedJoin(f, q, t)
               PROVE  AskedJoin(f, q, t)'
    BY DEF KeepsAsked
  <2> QED BY <1>2, <1>3, AskedKept
<1>5. \A d \in Ends \ {f} : questions'[d] = questions[d]
  BY DEF Claims, TypeInv, TypeOK, ClientTypeOK
<1>6. ASSUME req.type = "Join", "join" \in Ops[f], NEW x \in Held(f), req.target = Import(x)
      PROVE  AskedJoin(f, req.qid, req.target)'
  <2>1. x \in Held(f)'
    BY <1>3 DEF StaysHeld, Held
  <2>2. i \in SlotsOf(f, req.qid)'
    BY <1>1
  <2>3. questions'[f][i].req = req /\ ~questions'[f][i].answered
    BY <1>1 DEF Asked
  <2>4. \E z \in Held(f)' : req.target = Import(z)
    BY <1>6, <2>1
  <2>5. \E j \in SlotsOf(f, req.qid)' : /\ ~questions'[f][j].answered
                                        /\ questions'[f][j].req.type = "Join"
                                        /\ questions'[f][j].req.target = req.target
    BY <1>6, <2>2, <2>3
  <2> QED BY <1>6, <2>4, <2>5 DEF AskedJoin, Import
<1> QED BY <1>4, <1>5, <1>6

\* What a request does to the asking half: it is sent, or the send callback fails.
AsksBy(f, req, sent) ==
  /\ KeepsAsked(f)
  /\ \A d \in Ends \ {f} : questions'[d] = questions[d]
  /\ imports' = imports
  /\ \/ /\ sent = <<req>> /\ Post(f, req)
        /\ req.type = "Join" /\ PlainRequest(f, req) => AskedJoin(f, req.qid, req.target)'
     \/ sent = <<>> /\ UNCHANGED inbox

LEMMA RequestKeepsAsked ==
  ASSUME NEW f \in Ends, TypeInv, NEW req \in Request, req.qid = nextQid[f], Ask(f, req)
  PROVE  \E sent \in Seq(Message) : AsksBy(f, req, sent)
<1>1. req.qid \in QuestionIds /\ req \in Message /\ UNCHANGED imports
  BY NextQidType DEF Ask, TypeInv, Message
<1>2. CASE Claim(f, req) /\ Post(f, req)
  <2>1. FreeQuestions(f) \subseteq Nat /\ FreeQuestions(f) # {}
    BY Ranges DEF Ask, FreeQuestions
  <2>2. PICK i \in FreeQuestions(f) : i = Min(FreeQuestions(f))
    BY <2>1, MinInNat
  <2>3. Claims(f, i, req)
    BY <1>2, <2>2 DEF Claim, Claims
  <2>4. /\ KeepsAsked(f) /\ \A d \in Ends \ {f} : questions'[d] = questions[d]
        /\ req.type = "Join" /\ "join" \in Ops[f] /\ (\E x \in Held(f) : req.target = Import(x))
             => AskedJoin(f, req.qid, req.target)'
    BY <1>1, <2>3, ClaimKeepsAsked
  <2>5. <<req>> \in Seq(Message)
    BY <1>1
  <2>6. PICK sent \in Seq(Message) : sent = <<req>>
    BY <2>5
  <2> HIDE DEF KeepsAsked, AskedJoin
  <2>7. AsksBy(f, req, sent)
    BY <1>1, <1>2, <2>4, <2>6 DEF AsksBy, PlainRequest
  <2> QED BY <2>7
<1>3. CASE UNCHANGED <<questions, inbox>>
  <2>1. PICK sent \in Seq(Message) : sent = <<>>
    BY NoFrames
  <2>2. KeepsAsked(f)
    BY <1>1, <1>3, AsksRest
  <2>3. AsksBy(f, req, sent)
    BY <1>1, <1>3, <2>1, <2>2 DEF AsksBy
  <2> QED BY <2>3
<1> QED BY <1>2, <1>3 DEF Ask, SendFails

\* A request hands nothing back, and only introductions hand something over.
LEMMA RequestWeighs ==
  ASSUME NEW f \in Ends, TypeInv, NEW req \in Request, NEW sent \in Seq(Message),
         AsksBy(f, req, sent), req.type = "Join" => PlainRequest(f, req)
  PROVE  /\ SentStand(f, sent)
         /\ \A k \in DOMAIN sent : sent[k].type # "Release"
         /\ \A k \in DOMAIN sent : \A x \in ExportIds :
              (req.type = "Call" => req.intros = <<>>) => Carries(sent[k], x) = 0
<1>1. req \in Message /\ req.type \in RequestTypes
  BY DEF Message, Request, RequestTypes
<1>2. req.type # "Return" /\ req.type # "Release"
  BY <1>1 DEF RequestTypes
<1>3. CASE sent = <<>>
  BY <1>3 DEF SentStand
<1>4. CASE sent = <<req>> /\ (req.type = "Join" => AskedJoin(f, req.qid, req.target)')
  <2>1. \A k \in DOMAIN sent : sent[k] = req
    BY <1>4
  <2>2. \A x \in ExportIds : req.type # "Call" => Carries(req, x) = 0
    BY <1>1, <1>2, CarriesType
  <2>3. \A x \in ExportIds : req.type = "Call" /\ req.intros = <<>> => Carries(req, x) = 0
    BY <1>1, <1>2, CarriesType
  <2> HIDE DEF AskedJoin
  <2>4. SentStand(f, sent)
    <3> SUFFICES ASSUME NEW k \in DOMAIN sent, sent[k].type = "Join"
                 PROVE  AskedJoin(f, sent[k].qid, sent[k].target)'
      BY <1>2, <2>1 DEF SentStand
    <3>1. sent[k] = req
      BY <2>1
    <3> QED BY <1>4, <3>1
  <2> QED BY <1>2, <2>1, <2>2, <2>3, <2>4
<1> HIDE DEF AskedJoin
<1> QED BY <1>3, <1>4 DEF AsksBy

\* The requests of an application.
LEMMA AskingBalance ==
  ASSUME TypeInv, TypeInv', FreeIsZero, NEW f \in Ends, Asks(f)
  PROVE  Balanced(f)
<1>1. PICK req \in Request : req.qid = nextQid[f] /\ Ask(f, req) /\ PlainRequest(f, req)
  BY AsksPlain DEF TypeInv, AsksOne
<1>2. PICK sent \in Seq(Message) : AsksBy(f, req, sent)
  BY <1>1, RequestKeepsAsked
<1>3. PICK taken \in Seq(Message) : taken = <<>>
  BY NoFrames
<1>4. req \in Message
  BY DEF Message
<1>5. Turned(f, taken, sent)
  BY <1>2, <1>3, <1>4, TurnedByPost DEF AsksBy
<1>6. /\ SentStand(f, sent)
      /\ \A k \in DOMAIN sent : sent[k].type # "Release"
      /\ \A k \in DOMAIN sent : \A x \in ExportIds :
           (req.type = "Call" => req.intros = <<>>) => Carries(sent[k], x) = 0
  BY <1>1, <1>2, RequestWeighs
<1>7. \A k \in DOMAIN sent : \A x \in ExportIds : Carries(sent[k], x) = 0
  BY <1>1, <1>6 DEF PlainRequest
<1>8. UNCHANGED <<server, refcount, joins, provisions, introductions>>
  BY DEF Asks, serverVars, handoffVars
<1>9. /\ KeepsAsked(f) /\ UNCHANGED imports
      /\ \A d \in Ends \ {f} : questions'[d] = questions[d]
  BY <1>2 DEF AsksBy
<1>10. GivesUp(f, sent)
  BY <1>6, <1>8, <1>9, GivesNothing
<1> HIDE DEF KeepsAsked, SentStand, GivesUp, Turned
<1> QED BY <1>3, <1>5, <1>6, <1>7, <1>8, <1>9, <1>10, AsksBalance

\* capnp_rpc_send_finish of a question that is answered forgets no Join that is not.
LEMMA ForgetKeepsAsked ==
  ASSUME NEW f \in Ends, TypeInv, OneSlot, NEW r \in OpenQuestions(f), Forget(f, r.qid),
         JoinersHold => r.answered \/ "join" \notin Ops[f], UNCHANGED imports
  PROVE  KeepsAsked(f) /\ \A d \in Ends \ {f} : questions'[d] = questions[d]
<1>1. questions \in [Ends -> [QuestionSlots -> Question \cup {NoQuestion}]]
  BY DEF TypeInv, TypeOK, ClientTypeOK
<1>2. PICK s \in QuestionSlots : questions[f][s] = r /\ r # NoQuestion
  BY DEF OpenQuestions, FreeQuestions
<1>3. s \in SlotsOf(f, r.qid)
  BY <1>2 DEF SlotsOf
<1>4. r.qid \in QuestionIds
  BY OpenQuestionType DEF TypeInv
<1>5. \A i, j \in SlotsOf(f, r.qid) : i = j
  BY <1>4, TallyFacts DEF OneSlot
<1>6. PICK i0 : i0 = Min(SlotsOf(f, r.qid))
  OBVIOUS
<1>7. i0 \in SlotsOf(f, r.qid)
  BY <1>3, <1>6, SlotsOfType
<1>8. i0 = s
  BY <1>3, <1>5, <1>7
<1>9. questions' = [questions EXCEPT ![f][s] = NoQuestion]
  BY <1>3, <1>6, <1>8 DEF Forget
<1>10. /\ \A d \in Ends \ {f} : questions'[d] = questions[d]
       /\ \A i \in QuestionSlots : i # s => questions'[f][i] = questions[f][i]
  BY <1>1, <1>9
<1>11. ASSUME JoinersHold, NEW q \in QuestionIds, NEW t, AskedJoin(f, q, t)
       PROVE  AskedJoin(f, q, t)'
  <2>1. r.answered
    BY <1>11 DEF AskedJoin
  <2>2. q # r.qid
    <3>1. PICK i \in SlotsOf(f, q) : ~questions[f][i].answered
      BY <1>11 DEF AskedJoin
    <3>2. ASSUME q = r.qid
          PROVE  FALSE
      <4>1. i = s
        BY <1>3, <1>5, <3>1, <3>2
      <4> QED BY <1>2, <2>1, <3>1, <4>1
    <3> QED BY <3>2
  <2>3. \A i \in SlotsOf(f, q) : i \in QuestionSlots /\ i # s
    BY <1>2, <2>2 DEF SlotsOf
  <2>4. StaysAsked(f, q)
    BY <1>10, <2>3 DEF StaysAsked, SlotsOf
  <2>5. StaysHeld(f, t)
    BY DEF StaysHeld, Held
  <2> QED BY <1>11, <2>4, <2>5, AskedKept
<1> HIDE DEF AskedJoin
<1> QED BY <1>10, <1>11 DEF KeepsAsked

\* One notice that carries and asks nothing.
LEMMA NoticeWeighs ==
  ASSUME NEW f \in Ends, TypeInv, TypeInv', NEW m \in Notice, Post(f, m), NEW taken, NEW sent,
         taken = <<>>, sent = <<m>>
  PROVE  /\ taken \in Seq(Message) /\ sent \in Seq(Message) /\ Turned(f, taken, sent)
         /\ \A k \in DOMAIN sent : \A x \in ExportIds : Carries(sent[k], x) = 0
         /\ SentStand(f, sent)
         /\ \A x \in ExportIds : GivenBackIn(sent, x) = GivesBack(m, x)
         /\ m.type # "Release" => \A k \in DOMAIN sent : sent[k].type # "Release"
<1>1. m \in Message /\ m.type \notin {"Return", "Call", "Join"}
  BY DEF Message, Notice
<1>2. sent \in Seq(Message) /\ (\A k \in DOMAIN sent : sent[k] = m)
  BY <1>1
<1>3. taken \in Seq(Message)
  BY NoFrames
<1>4. Turned(f, taken, sent)
  BY <1>1, <1>2, <1>3, TurnedByPost
<1>5. \A x \in ExportIds : Carries(m, x) = 0
  BY <1>1, CarriesType
<1>6. SentStand(f, sent)
  BY <1>1, <1>2 DEF SentStand
<1>7. \A x \in ExportIds : GivenBackIn(sent, x) = GivesBack(m, x)
  BY <1>1, GivenBackFacts
<1> QED BY <1>2, <1>3, <1>4, <1>5, <1>6, <1>7

\* A notice that could not be sent.
LEMMA FailureWeighs ==
  ASSUME NEW f \in Ends, TypeInv, TypeInv', UNCHANGED inbox, NEW taken, NEW sent,
         taken = <<>>, sent = <<>>
  PROVE  /\ taken \in Seq(Message) /\ sent \in Seq(Message) /\ Turned(f, taken, sent)
         /\ \A k \in DOMAIN sent : \A x \in ExportIds : Carries(sent[k], x) = 0
         /\ SentStand(f, sent)
         /\ \A x \in ExportIds : GivenBackIn(sent, x) = 0
         /\ \A k \in DOMAIN sent : sent[k].type # "Release"
<1>1. taken \in Seq(Message) /\ sent \in Seq(Message) /\ DOMAIN sent = {}
  BY NoFrames
<1>2. [type |-> "Resolve"] \in Message
  BY DEF Message, Notice
<1>3. PICK m \in Message : m = [type |-> "Resolve"]
  BY <1>2
<1>4. Turned(f, taken, sent)
  BY <1>1, <1>3, TurnedByPost
<1>5. SentStand(f, sent)
  BY <1>1 DEF SentStand
<1>6. \A x \in ExportIds : GivenBackIn(sent, x) = 0
  BY <1>1, GivenBackFacts
<1> QED BY <1>1, <1>4, <1>5, <1>6

\* A notice of an application that gives no reference back.
LEMMA NoticeBalance ==
  ASSUME TypeInv, TypeInv', FreeIsZero, NEW f \in Ends, NEW m \in Notice,
         Post(f, m) \/ UNCHANGED inbox, m.type # "Release", KeepsAsked(f), UNCHANGED <<imports, introductions>>,
         UNCHANGED <<server, refcount, joins, provisions>>,
         \A d \in Ends \ {f} : questions'[d] = questions[d]
  PROVE  Balanced(f)
<1>1. PICK taken, sent : /\ taken = <<>>
                         /\ \/ Post(f, m) /\ sent = <<m>>
                            \/ UNCHANGED inbox /\ sent = <<>>
  OBVIOUS
<1>2. /\ taken \in Seq(Message) /\ sent \in Seq(Message) /\ Turned(f, taken, sent)
      /\ \A k \in DOMAIN sent : \A x \in ExportIds : Carries(sent[k], x) = 0
      /\ SentStand(f, sent)
      /\ \A k \in DOMAIN sent : sent[k].type # "Release"
  BY <1>1, NoticeWeighs, FailureWeighs
<1>3. GivesUp(f, sent)
  BY <1>2, GivesNothing
<1> HIDE DEF KeepsAsked, SentStand, GivesUp, Turned
<1> QED BY <1>1, <1>2, <1>3, AsksBalance

\* capnp_rpc_send_release: the application gives up references that no open Join names.
LEMMA ReleasesBalance ==
  ASSUME TypeInv, TypeInv', FreeIsZero, NEW f \in Ends, NEW x \in ExportIds, NEW count,
         SendRelease(f, x, count), JoinersHold => "join" \notin Ops[f] \/ ~InUse(f, x),
         UNCHANGED <<introductions, server, refcount, joins, provisions>>
  PROVE  Balanced(f)
<1>1. /\ count \in 1 .. imports[f][x].n
      /\ imports' = [imports EXCEPT ![f][x].n = @ - count]
      /\ Post(f, [type |-> "Release", id |-> x, count |-> count])
      /\ UNCHANGED questions
  BY DEF SendRelease
<1>2. imports \in [Ends -> [ExportIds -> [n : Nat, obj : Servers \cup {NoServer}]]]
  BY DEF TypeInv, TypeOK, ClientTypeOK
<1>3. imports[f][x].n \in Nat
  BY <1>2
<1>4. count \in Nat /\ imports[f][x].n - count \in Nat
  BY <1>1, <1>3
<1>5. PICK m : m = [type |-> "Release", id |-> x, count |-> count]
  OBVIOUS
<1>6. m \in Notice /\ Post(f, m) /\ m.type = "Release" /\ m.id = x /\ m.count = count
  BY <1>1, <1>4, <1>5, Ranges DEF Notice
<1>7. /\ \A d \in Ends \ {f} : imports'[d] = imports[d]
      /\ imports'[f][x].n = imports[f][x].n - count /\ imports'[f][x].obj = imports[f][x].obj
      /\ \A y \in ExportIds : y # x => imports'[f][y] = imports[f][y]
  <2>1. imports[f] \in [ExportIds -> [n : Nat, obj : Servers \cup {NoServer}]]
    BY <1>2
  <2>2. PICK new : new = [imports[f][x] EXCEPT !.n = @ - count]
    OBVIOUS
  <2>3. imports[f][x] \in [n : Nat, obj : Servers \cup {NoServer}]
    BY <2>1
  <2>4. new.n = imports[f][x].n - count /\ new.obj = imports[f][x].obj
    BY <2>2, <2>3
  <2>5. imports' = [imports EXCEPT ![f][x] = new]
    BY <1>1, <1>2, <2>2
  <2>6. /\ \A d \in Ends \ {f} : imports'[d] = imports[d]
        /\ imports'[f] = [imports[f] EXCEPT ![x] = new]
    BY <1>2, <2>5
  <2>7. /\ imports'[f][x] = new
        /\ \A y \in ExportIds : y # x => imports'[f][y] = imports[f][y]
    BY <2>1, <2>6
  <2> QED BY <2>4, <2>6, <2>7
<1>8. PICK taken, sent : taken = <<>> /\ sent = <<m>>
  OBVIOUS
<1>9. /\ taken \in Seq(Message) /\ sent \in Seq(Message) /\ Turned(f, taken, sent)
      /\ \A k \in DOMAIN sent : \A y \in ExportIds : Carries(sent[k], y) = 0
      /\ SentStand(f, sent)
      /\ \A y \in ExportIds : GivenBackIn(sent, y) = GivesBack(m, y)
  BY <1>6, <1>8, NoticeWeighs
<1>10. GivesUp(f, sent)
  <2> SUFFICES ASSUME NEW y \in ExportIds
               PROVE  /\ imports'[f][y].n + Cardinality(Vines(introductions'[f], y))
                           + GivenBackIn(sent, y)
                         <= imports[f][y].n + Cardinality(Vines(introductions[f], y))
                      /\ imports'[f][y].n > 0 =>
                           imports[f][y].n > 0 /\ imports'[f][y].obj = imports[f][y].obj
    BY DEF GivesUp
  <2>1. Cardinality(Vines(introductions[f], y)) \in Nat /\ introductions' = introductions
    BY SlotSetsFinite
  <2>2. GivenBackIn(sent, y) = IF y = x THEN count ELSE 0
    BY <1>6, <1>9 DEF GivesBack
  <2>3. imports[f][y].n \in Nat
    BY <1>2
  <2>4. CASE y = x
    <3>1. imports'[f][x].n + count = imports[f][x].n
      BY <1>3, <1>4, <1>7
    <3>2. imports'[f][x].n > 0 => imports[f][x].n > 0
      BY <1>3, <1>4, <1>7
    <3>3. imports'[f][x].n \in Nat
      BY <1>4, <1>7
    <3>4. PICK n \in Nat, k \in Nat, c \in Nat, v \in Nat :
            /\ n = imports[f][x].n /\ k = imports'[f][x].n /\ c = count
            /\ v = Cardinality(Vines(introductions[f], x))
      BY <1>3, <1>4, <2>1, <2>4, <3>3
    <3>5. k + v + c <= n + v
      BY <3>1, <3>4
    <3>6. GivenBackIn(sent, x) = c /\ Vines(introductions'[f], x) = Vines(introductions[f], x)
      BY <2>1, <2>2, <2>4, <3>4
    <3> QED BY <1>7, <2>4, <3>2, <3>4, <3>5, <3>6
  <2>5. CASE y # x
    BY <1>7, <2>1, <2>2, <2>3, <2>5
  <2> QED BY <2>4, <2>5
<1>11. KeepsAsked(f)
  <2> SUFFICES ASSUME JoinersHold, NEW q \in QuestionIds, NEW t, AskedJoin(f, q, t)
               PROVE  AskedJoin(f, q, t)'
    BY DEF KeepsAsked
  <2>1. ~InUse(f, x)
    BY DEF AskedJoin
  <2>2. PICK i \in SlotsOf(f, q) : /\ questions[f][i].req.type = "Join"
                                   /\ questions[f][i].req.target = t
    BY DEF AskedJoin
  <2>3. questions[f][i] \in OpenQuestions(f)
    BY DEF SlotsOf, OpenQuestions, FreeQuestions
  <2>4. t # Import(x)
    BY <2>1, <2>2, <2>3 DEF InUse
  <2>5. StaysHeld(f, t)
    BY <1>7, <2>4 DEF StaysHeld, Held
  <2>6. StaysAsked(f, q)
    BY <1>1 DEF StaysAsked, SlotsOf
  <2> QED BY <2>5, <2>6, AskedKept
<1> HIDE DEF KeepsAsked, SentStand, GivesUp, Turned
<1> QED BY <1>1, <1>7, <1>8, <1>9, <1>10, <1>11, AsksBalance

\* The notices of an application.
LEMMA TellsBalance ==
  ASSUME TypeInv, TypeInv', FreeIsZero, OneSlot, NEW f \in Ends, Tells(f)
  PROVE  Balanced(f)
<1>1. UNCHANGED <<introductions, server, refcount, joins, provisions>>
  BY DEF Tells, serverVars, handoffVars
<1>2. ASSUME NEW r \in OpenQuestions(f), SendFinish(f, r.qid),
             JoinersHold => r.answered \/ "join" \notin Ops[f]
      PROVE  Balanced(f)
  <2>1. r.qid \in QuestionIds
    BY OpenQuestionType DEF TypeInv
  <2>2. PICK m : m = [type |-> "Finish", qid |-> r.qid]
    OBVIOUS
  <2>3. m \in Notice /\ (Post(f, m) \/ UNCHANGED inbox) /\ m.type # "Release"
    BY <1>2, <2>1, <2>2 DEF Notice, SendFinish, SendFails
  <2>4. Forget(f, r.qid) /\ UNCHANGED imports
    BY <1>2 DEF SendFinish
  <2>5. KeepsAsked(f) /\ \A d \in Ends \ {f} : questions'[d] = questions[d]
    BY <1>2, <2>4, ForgetKeepsAsked
  <2> QED BY <1>1, <2>3, <2>4, <2>5, NoticeBalance
<1>3. ASSUME NEW x \in ExportIds, NEW count, SendRelease(f, x, count),
             "release" \in Ops[f] \/ ~InUse(f, x)
      PROVE  Balanced(f)
  <2>1. JoinersHold => "join" \notin Ops[f] \/ ~InUse(f, x)
    BY <1>3 DEF JoinersHold
  <2> HIDE DEF InUse
  <2> QED BY <1>1, <1>3, <2>1, ReleasesBalance
<1>4. ASSUME NEW m \in Notice, Post(f, m), m.type # "Release", UNCHANGED clientVars
      PROVE  Balanced(f)
  <2>1. UNCHANGED <<questions, imports>>
    BY <1>4 DEF clientVars
  <2>2. KeepsAsked(f)
    BY <2>1, AsksRest
  <2> QED BY <1>1, <1>4, <2>1, <2>2, NoticeBalance
<1>5. ASSUME NEW id \in Nat, NEW context \in {"senderLoopback", "provide"},
             SendDisembargo(f, context, id)
      PROVE  Balanced(f)
  <2>1. PICK m : m = [type |-> "Disembargo", context |-> context, id |-> id]
    OBVIOUS
  <2>2. m \in Notice /\ Post(f, m) /\ m.type # "Release" /\ UNCHANGED clientVars
    BY <1>5, <2>1 DEF Notice, SendDisembargo
  <2> QED BY <1>4, <2>2
<1>6. ASSUME SendResolve(f)
      PROVE  Balanced(f)
  <2>1. PICK m : m = [type |-> "Resolve"]
    OBVIOUS
  <2>2. m \in Notice /\ Post(f, m) /\ m.type # "Release" /\ UNCHANGED clientVars
    BY <1>6, <2>1 DEF Notice, SendResolve
  <2> QED BY <1>4, <2>2
<1>7. nextQid[f] \in Nat /\ \A r \in OpenQuestions(f) : r.qid \in Nat
  BY NextQidType, OpenQuestionType, Ranges DEF TypeInv
<1>8. JoinersHold /\ "earlyFinish" \in Ops[f] => "join" \notin Ops[f]
  BY DEF JoinersHold
<1> HIDE DEF Balanced, InUse
<1> QED BY <1>2, <1>3, <1>5, <1>6, <1>7, <1>8 DEF Tells

\* capnp_rpc_introduction_done: the vine that is released is no longer noted, whether
\* or not the Release could be sent.
LEMMA PicksUpBalance ==
  ASSUME TypeInv, TypeInv', FreeIsZero, NEW f \in Ends, PicksUp(f)
  PROVE  Balanced(f)
<1>1. PICK n \in Nonces : IntroductionDone(f, n)
  BY DEF PicksUp
<1>2. UNCHANGED <<server, refcount, joins, provisions, imports, questions>>
  BY <1>1 DEF PicksUp, IntroductionDone, serverVars, clientVars
<1>3. PICK held : held = {i \in IntroductionSlots :
                            introductions[f][i] # NoIntroduction /\ introductions[f][i].nonce = n}
  OBVIOUS
<1>4. PICK i : i = First(held)
  OBVIOUS
<1>5. PICK vine : vine = introductions[f][i].vine
  OBVIOUS
<1>6. PICK m : m = [type |-> "Release", id |-> vine, count |-> 1]
  OBVIOUS
<1>7. /\ held # {} /\ (Post(f, m) \/ UNCHANGED inbox)
      /\ introductions' = [introductions EXCEPT ![f][i] = NoIntroduction]
  BY <1>1, <1>3, <1>4, <1>5, <1>6 DEF IntroductionDone, SendFails
<1>8. i \in IntroductionSlots /\ introductions[f][i] # NoIntroduction
  <2>1. i \in held
    BY <1>3, <1>4, <1>7, FirstInNat, Ranges
  <2> QED BY <1>3, <2>1
<1>9. introductions \in [Ends -> [IntroductionSlots -> Introduction \cup {NoIntroduction}]]
  BY DEF TypeInv, TypeOK, HandoffTypeOK
<1>10. vine \in ExportIds
  <2>1. introductions[f][i] \in Introduction
    BY <1>8, <1>9
  <2> QED BY <1>5, <2>1 DEF Introduction
<1>11. m \in Notice
  BY <1>6, <1>10, Ranges DEF Notice
<1>12. /\ \A d \in Ends \ {f} : introductions'[d] = introductions[d]
       /\ introductions'[f] = [introductions[f] EXCEPT ![i] = NoIntroduction]
  BY <1>7, <1>9
<1>13. PICK taken, sent : /\ taken = <<>>
                          /\ \/ Post(f, m) /\ sent = <<m>>
                             \/ UNCHANGED inbox /\ sent = <<>>
  BY <1>7
<1>14. /\ taken \in Seq(Message) /\ sent \in Seq(Message) /\ Turned(f, taken, sent)
       /\ \A k \in DOMAIN sent : \A y \in ExportIds : Carries(sent[k], y) = 0
       /\ SentStand(f, sent)
       /\ \A y \in ExportIds : GivenBackIn(sent, y) \in {0, GivesBack(m, y)}
  BY <1>11, <1>13, NoticeWeighs, FailureWeighs
<1>15. GivesUp(f, sent)
  <2> SUFFICES ASSUME NEW y \in ExportIds
               PROVE  imports[f][y].n + Cardinality(Vines(introductions'[f], y))
                        + GivenBackIn(sent, y)
                      <= imports[f][y].n + Cardinality(Vines(introductions[f], y))
    BY <1>2 DEF GivesUp
  <2>1. GivenBackIn(sent, y) \in {0, IF y = vine THEN 1 ELSE 0}
    BY <1>6, <1>14 DEF GivesBack
  <2>2. PICK V, W : V = Vines(introductions[f], y) /\ W = Vines(introductions'[f], y)
    OBVIOUS
  <2>3. IsFiniteSet(V) /\ Cardinality(V) \in Nat /\ IsFiniteSet(W) /\ Cardinality(W) \in Nat
    BY <2>2, SlotSetsFinite
  <2>4. introductions[f] \in [IntroductionSlots -> Introduction \cup {NoIntroduction}]
    BY <1>9
  <2>5. W = V \ {i} /\ (y = vine => i \in V)
    BY <1>5, <1>8, <1>12, <2>2, <2>4 DEF Vines
  <2>6. Cardinality(W) <= Cardinality(V)
    BY <2>3, <2>5, FS_Subset
  <2>7. y = vine => Cardinality(W) = Cardinality(V) - 1
    BY <2>3, <2>5, FS_RemoveElement
  <2>8. imports[f][y].n \in Nat
    BY TermsTypes DEF TermsTyped
  <2> QED BY <2>1, <2>2, <2>3, <2>6, <2>7, <2>8
<1>16. KeepsAsked(f)
  BY <1>2, AsksRest
<1> HIDE DEF KeepsAsked, SentStand, GivesUp, Turned
<1> QED BY <1>2, <1>12, <1>13, <1>14, <1>15, <1>16, AsksBalance

\* capnp_rpc_set_bootstrap.
LEMMA HostsBalance ==
  ASSUME TypeInv, TypeInv', FreeIsZero, NEW f \in Ends, Hosts(f)
  PROVE  Balanced(f)
<1>1. UNCHANGED <<inbox, server, refcount, joins, provisions, imports, questions, introductions>>
  BY DEF Hosts, SetBootstrap, clientVars, handoffVars
<1>2. PICK taken \in Seq(Message) : taken = <<>>
  BY NoFrames
<1>3. PICK sent \in Seq(Message) : sent = <<>>
  BY NoFrames
<1>4. Turned(f, taken, sent)
  <2>1. [type |-> "Resolve"] \in Message
    BY DEF Message, Notice
  <2>2. PICK m \in Message : m = [type |-> "Resolve"]
    BY <2>1
  <2> QED BY <1>1, <1>2, <1>3, <2>2, TurnedByPost
<1>5. SentStand(f, sent)
  BY <1>3 DEF SentStand
<1>6. GivesUp(f, sent)
  <2>1. UNCHANGED <<imports, introductions>> /\ \A k \in DOMAIN sent : sent[k].type # "Release"
    BY <1>1, <1>3
  <2> QED BY <2>1, GivesNothing
<1>7. KeepsAsked(f)
  BY <1>1, AsksRest
<1> HIDE DEF KeepsAsked, SentStand, GivesUp, Turned
<1>8. \A k \in DOMAIN sent : \A x \in ExportIds : Carries(sent[k], x) = 0
  BY <1>3
<1>9. /\ UNCHANGED <<server, refcount, joins, provisions>>
      /\ \A d \in Ends \ {f} : /\ imports'[d] = imports[d] /\ questions'[d] = questions[d]
                                /\ introductions'[d] = introductions[d]
  BY <1>1
<1> QED BY <1>2, <1>4, <1>5, <1>6, <1>7, <1>8, <1>9, AsksBalance

\* capnp_rpc_write_third_party_cap: the vine is exported before the call that carries it
\* is sent, and stays exported when the send callback fails.
LEMMA IntroducesBalance ==
  ASSUME TypeInv, TypeInv', FreeIsZero, NEW f \in Ends, Introduces(f)
  PROVE  Balanced(f)
<1>1. PICK s \in Servers, n \in Nonces, fits \in BOOLEAN :
        /\ ExportId(f, s) # NoExport /\ Export(f, s, ExportId(f, s))
        /\ Ask(f, [type |-> "Call", qid |-> nextQid[f], target |-> Import(0),
                   intros |-> <<[nonce |-> n, vine |-> ExportId(f, s), fits |-> fits]>>])
        /\ UNCHANGED <<joins, handoffVars>>
  BY DEF Introduces
<1>2. PICK x : x = ExportId(f, s)
  OBVIOUS
<1>3. x \in ExportIds /\ server[f][x] \in {s, NoServer}
  BY <1>1, <1>2, ExportIdType DEF TypeInv, TypeOK
<1>4. PICK d : d = <<[nonce |-> n, vine |-> x, fits |-> fits]>>
  OBVIOUS
<1>5. PICK req : req = [type |-> "Call", qid |-> nextQid[f], target |-> Import(0), intros |-> d]
  OBVIOUS
<1>6. Ask(f, req) /\ Export(f, s, x)
  BY <1>1, <1>2, <1>4, <1>5
<1>7. req \in Request /\ req.qid = nextQid[f] /\ req.type = "Call" /\ req.intros = d
  <2>1. nextQid[f] \in QuestionIds
    BY <1>6, NextQidType DEF Ask, TypeInv
  <2>2. Import(0) \in Target /\ d \in Seq(Descriptor)
    BY <1>3, <1>4, DescriptorType, ImportType
  <2> QED BY <1>5, <2>1, <2>2 DEF Request
<1>8. PICK sent \in Seq(Message) : AsksBy(f, req, sent)
  BY <1>6, <1>7, RequestKeepsAsked
<1>9. PICK taken \in Seq(Message) : taken = <<>>
  BY NoFrames
<1>10. req \in Message
  BY <1>7 DEF Message
<1>11. Turned(f, taken, sent)
  BY <1>8, <1>9, <1>10, TurnedByPost DEF AsksBy
<1>12. SentStand(f, sent) /\ \A k \in DOMAIN sent : sent[k].type # "Release"
  BY <1>7, <1>8, RequestWeighs
<1>13. UNCHANGED <<joins, provisions, introductions>>
  BY <1>1 DEF handoffVars
<1>14. /\ KeepsAsked(f) /\ UNCHANGED imports
       /\ \A e \in Ends \ {f} : questions'[e] = questions[e]
  BY <1>8 DEF AsksBy
<1>15. GivesUp(f, sent)
  BY <1>12, <1>13, <1>14, GivesNothing
<1>16. ASSUME NEW y \in ExportIds
       PROVE  CarriedIn(sent, y) + Cardinality(Pledged(f, y)')
                <= Cardinality(Pledged(f, y)) + (IF y = x THEN 1 ELSE 0)
  <2>1. Carries(req, y) = IF y = x THEN 1 ELSE 0
    BY <1>3, <1>4, <1>7, <1>10, DescriptorCarries
  <2>2. sent = <<req>> \/ sent = <<>>
    BY <1>8 DEF AsksBy
  <2>3. sent = <<req>> => CarriedIn(sent, y) = Carries(req, y)
    BY <1>10, CarriedFacts
  <2>4. sent = <<>> => CarriedIn(sent, y) = 0
    <3>1. sent = <<>> => \A k \in DOMAIN sent : Carries(sent[k], y) = 0
      OBVIOUS
    <3> QED BY <3>1, CarriedFacts
  <2>5. PICK q \in Nat : q = Cardinality(Pledged(f, y)) /\ q = Cardinality(Pledged(f, y)')
    <3>1. Pledged(f, y)' = Pledged(f, y)
      BY <1>13, PledgesRest
    <3> QED BY <3>1, TermsTypes DEF TermsTyped
  <2> QED BY <2>1, <2>2, <2>3, <2>4, <2>5
<1>17. /\ ExportsBalance(f, taken, sent)
       /\ \A e \in Ends \ {f} : server'[e] = server[e] /\ refcount'[e] = refcount[e]
  BY <1>3, <1>6, <1>16, ExportBalances
<1>18. Alone(f)
  BY <1>13, <1>14, <1>17 DEF Alone
<1> HIDE DEF KeepsAsked, SentStand, GivesUp, Turned, Alone, ExportsBalance
<1> QED BY <1>9, <1>11, <1>12, <1>13, <1>14, <1>15, <1>17, <1>18, ActsBalance
-----------------------------------------------------------------------------
(* The invariant *)

\* capnp_rpc_handle.
LEMMA ReceivesBalanced ==
  ASSUME TypeInv, TypeInv', RefInv, FlowInv, OneIdPerObject, EmbargoedAcceptsReachClaimant',
         NEW f \in Ends, Receive(f)
  PROVE  Balanced(f)
<1>1. FreeIsZero /\ PledgesNamed
  BY DEF RefInv
<1>2. CASE RecvBootstrap(f)
  BY <1>1, <1>2, BootstrapBalance
<1>3. CASE RecvCall(f)
  BY <1>1, <1>3, CallBalance
<1>4. CASE RecvFinish(f)
  BY <1>1, <1>4, FinishBalance
<1>5. CASE RecvRelease(f)
  BY <1>1, <1>5, ReleaseBalance
<1>6. CASE RecvJoin(f)
  BY <1>6, JoinBalance
<1>7. CASE RecvDisembargo(f)
  BY <1>1, <1>7, DisembargoBalance
<1>8. CASE RecvReturn(f)
  BY <1>1, <1>8, ReturnBalance
<1>9. CASE RecvProvide(f)
  BY <1>1, <1>9, ProvideBalance
<1>10. CASE RecvAccept(f)
  BY <1>1, <1>10, AcceptBalance
<1>11. CASE RecvOther(f)
  BY <1>1, <1>11, OtherBalance
<1> QED BY <1>2, <1>3, <1>4, <1>5, <1>6, <1>7, <1>8, <1>9, <1>10, <1>11 DEF Receive

\* The applications.
LEMMA ActsBalanced ==
  ASSUME TypeInv, TypeInv', RefInv, FlowInv, NEW f \in Ends, Acts(f)
  PROVE  Balanced(f)
<1>1. FreeIsZero /\ OneSlot
  BY DEF RefInv, FlowInv
<1>2. CASE Asks(f)
  BY <1>1, <1>2, AskingBalance
<1>3. CASE Tells(f)
  BY <1>1, <1>3, TellsBalance
<1>4. CASE Hosts(f)
  BY <1>1, <1>4, HostsBalance
<1>5. CASE Introduces(f)
  BY <1>1, <1>5, IntroducesBalance
<1>6. CASE ReturnsIntroduction(f)
  BY <1>1, <1>6, ReturnsIntroductionBalance
<1>7. CASE PicksUp(f)
  BY <1>1, <1>7, PicksUpBalance
<1> QED BY <1>2, <1>3, <1>4, <1>5, <1>6, <1>7 DEF Acts

\* Nothing moves.
LEMMA RefStutter ==
  ASSUME RefInv, UNCHANGED vars
  PROVE  RefInv'
<1>1. UNCHANGED <<inbox, server, refcount, joins, provisions, imports, questions, introductions>>
  BY DEF vars
<1>2. \A e, i : PledgeAt(e, i)' <=> PledgeAt(e, i)
  BY <1>1 DEF PledgeAt
<1>3. \A e, x : Pledged(e, x)' = Pledged(e, x)
  BY <1>1, <1>2 DEF Pledged
<1>4. \A e, x : Outstanding(e, x)' = Outstanding(e, x) /\ (Used(e, x)' <=> Used(e, x))
  BY <1>1 DEF Outstanding, Used
<1>5. Counted' /\ FreeIsZero'
  BY <1>1, <1>3, <1>4 DEF RefInv, Counted, FreeIsZero
<1>6. PledgesNamed'
  BY <1>1, <1>2 DEF RefInv, PledgesNamed
<1>7. \A p, q, t : AskedJoin(p, q, t)' <=> AskedJoin(p, q, t)
  BY <1>1 DEF AskedJoin, Held, SlotsOf
<1>8. /\ \A e, part : PartStands(e, part)' <=> PartStands(e, part)
      /\ \A e, k, n, part : HasPart(e, k, n, part)' <=> HasPart(e, k, n, part)
  BY <1>1, <1>7 DEF PartStands, HasPart
<1>9. JoinersHold => JoinsStand'
  BY <1>1, <1>7, <1>8 DEF RefInv, IdsStand, JoinsStand
<1>10. JoinersHold => ImportsNameTheirObject' /\ JoinVerdictsTrue'
  BY <1>1 DEF RefInv, IdsStand, ImportsNameTheirObject, JoinVerdictsTrue, Held
<1> QED BY <1>5, <1>6, <1>9, <1>10 DEF RefInv, IdsStand, JoinersHold

\* Every step keeps the ledger.
LEMMA RefStep ==
  ASSUME TypeInv, TypeInv', RefInv, FlowInv, OneIdPerObject, EmbargoedAcceptsReachClaimant',
         [Next]_vars
  PROVE  RefInv'
<1>1. CASE UNCHANGED vars
  BY <1>1, RefStutter
<1>2. ASSUME NEW f \in Ends, Receive(f) \/ Acts(f)
      PROVE  RefInv'
  <2>1. Balanced(f)
    BY <1>2, ReceivesBalanced, ActsBalanced
  <2> QED BY <2>1, BalancedKeeps
<1> QED BY <1>1, <1>2 DEF Next

\* Nothing is exported, held or sent.
LEMMA RefInit == Init => RefInv
<1> SUFFICES ASSUME Init
             PROVE  RefInv
  OBVIOUS
<1>1. /\ \A e \in Ends : inbox[e] = <<>>
      /\ \A e \in Ends, x \in ExportIds : server[e][x] = NoServer /\ refcount[e][x] = 0
      /\ \A e \in Ends, k \in JoinSlots : joins[e][k] = NoJoin
  BY DEF Init, WireInit, ServerInit
<1>2. \A e \in Ends, x \in ExportIds : imports[e][x].n = 0
  BY DEF Init, ClientInit
<1>3. /\ \A e \in Ends, i \in IntroductionSlots : introductions[e][i] = NoIntroduction
      /\ \A e \in Ends, i \in ProvisionSlots : provisions[VatOf[e]][i] = NoProvision
  <2>1. \A e \in Ends : VatOf[e] \in Vats
    BY HandoffAssumption DEF HandoffAssumption
  <2> QED BY <2>1 DEF Init, HandoffInit
<1>4. \A e \in Ends : Peer[e] \in Ends
  BY PeerFacts
<1>5. \A e \in Ends, i \in ProvisionSlots : ~PledgeAt(e, i)
  BY <1>3 DEF PledgeAt
<1>6. Counted
  <2> SUFFICES ASSUME NEW e \in Ends, NEW x \in ExportIds
               PROVE  refcount[e][x] >= Outstanding(e, x) + Cardinality(Pledged(e, x))
    BY DEF Counted
  <2>1. Pledged(e, x) = {}
    BY <1>5 DEF Pledged
  <2>2. Vines(introductions[Peer[e]], x) = {}
    BY <1>3, <1>4 DEF Vines
  <2>3. CarriedIn(inbox[Peer[e]], x) = 0 /\ GivenBackIn(inbox[e], x) = 0
    <3>1. PICK q \in Seq(Message) : q = <<>>
      BY NoFrames
    <3>2. /\ \A k \in DOMAIN q : Carries(q[k], x) = 0
          /\ \A k \in DOMAIN q : GivesBack(q[k], x) = 0
      BY <3>1
    <3>3. CarriedIn(q, x) = 0 /\ GivenBackIn(q, x) = 0
      BY <3>2, CarriedFacts, GivenBackFacts
    <3>4. inbox[Peer[e]] = q /\ inbox[e] = q
      BY <1>1, <1>4, <3>1
    <3> QED BY <3>3, <3>4
  <2>4. Outstanding(e, x) = 0
    BY <1>2, <1>4, <2>2, <2>3, FS_EmptySet DEF Outstanding
  <2> QED BY <1>1, <2>1, <2>4, FS_EmptySet
<1>7. FreeIsZero /\ PledgesNamed
  BY <1>1, <1>5 DEF FreeIsZero, PledgesNamed
<1>8. JoinsStand
  BY <1>1 DEF JoinsStand, HasPart
<1>9. ImportsNameTheirObject /\ JoinVerdictsTrue
  BY <1>1, <1>2 DEF ImportsNameTheirObject, JoinVerdictsTrue, Held
<1> QED BY <1>6, <1>7, <1>8, <1>9 DEF RefInv, IdsStand

\* The references of a routed system are counted, the pledged ones among them, and a
\* pledged id stands for its object.  When the peers hold what they ask Joins about, so
\* does every id that is held, sent or named in a part of a Join.
THEOREM RefInvariant ==
  ASSUME Routed
  PROVE  Spec => []RefInv
<1>1. Init => RefInv
  BY RefInit
<1>2. /\ TypeInv /\ TypeInv' /\ RefInv /\ FlowInv /\ OneIdPerObject
      /\ EmbargoedAcceptsReachClaimant' /\ [Next]_vars
      => RefInv'
  BY RefStep
<1>3. Spec => []EmbargoedAcceptsReachClaimant /\ []FlowInv
  BY EmbargoedAcceptsRouted, FlowInvariant, PTL
<1> QED BY <1>1, <1>2, <1>3, TypeInvariant, OneIdPerObjectCorrect, PTL DEF Spec

\* handle_release, which frees a slot when its count runs out, never frees a capability
\* under a peer that holds it, keeps a vine of it, is being sent it, or has released it
\* without the Release having arrived (NoEarlyFree).
THEOREM NoEarlyFreeCorrect ==
  ASSUME Routed
  PROVE  Spec => []NoEarlyFree
<1>1. TypeInv /\ RefInv => NoEarlyFree
  <2> SUFFICES ASSUME TypeInv, RefInv, NEW e \in Ends, NEW x \in ExportIds
               PROVE  refcount[e][x] >= Outstanding(e, x)
    BY DEF NoEarlyFree
  <2>1. TermsTyped
    BY TermsType DEF TypeInv
  <2>2. Peer[e] \in Ends
    BY PeerFacts
  <2>3. PICK o : o = Outstanding(e, x)
    OBVIOUS
  <2>4. o \in Nat
    BY <2>1, <2>2, <2>3 DEF TermsTyped, Outstanding
  <2>5. PICK p : p = Cardinality(Pledged(e, x))
    OBVIOUS
  <2>6. p \in Nat /\ refcount[e][x] \in Int
    BY <2>1, <2>5 DEF TermsTyped
  <2>7. refcount[e][x] >= o + p
    BY <2>3, <2>5 DEF RefInv, Counted
  <2> QED BY <2>3, <2>4, <2>6, <2>7
<1> QED BY <1>1, RefInvariant, TypeInvariant, PTL

\* An export id that a peer holds, or that a Return carries to it, stands for the object
\* it was handed over for (ImportsNameTheirObject): capnp_rpc_export never gives a slot
\* to another server while anyone can still name the old one by its id.
THEOREM NamesCorrect ==
  ASSUME Routed, JoinersHold
  PROVE  Spec => []ImportsNameTheirObject
<1>1. RefInv => ImportsNameTheirObject
  BY DEF RefInv, IdsStand
<1> QED BY <1>1, RefInvariant, PTL

\* join_complete compares export ids that were recorded when the parts of the set
\* arrived.  The verdict is about the objects (JoinVerdictsTrue), whatever else was
\* exported, released or finished between the first part and the last: the peer still
\* holds what its parts name, so the slots the ids stand for have not been used again.
THEOREM JoinVerdictsCorrect ==
  ASSUME Routed, JoinersHold
  PROVE  Spec => []JoinVerdictsTrue
<1>1. RefInv => JoinVerdictsTrue
  BY DEF RefInv, IdsStand
<1> QED BY <1>1, RefInvariant, PTL
=============================================================================
