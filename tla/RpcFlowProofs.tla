---------------------------- MODULE RpcFlowProofs ----------------------------
(***************************************************************************)
(* The way of a question through the connection, proved from one idea: a   *)
(* question is in at most one place.  Its request waits at the peer, or    *)
(* the peer keeps it (a part of a Join set, an Accept under an embargo),   *)
(* or its Return is on its way, or it has been answered.  RepliesMatch-    *)
(* Questions and EmbargoHolds both follow from that, and neither is        *)
(* inductive without it.                                                   *)
(*                                                                         *)
(* release_provide_embargo answers on the connection of the Disembargo,    *)
(* whoever claimed the capability; with several connections in a vat that  *)
(* breaks both properties.  The steps are proved for behaviours in which   *)
(* every Return reaches the end that asked, and the theorems are stated    *)
(* for routed systems, which have only such behaviours (see RpcProofs).    *)
(***************************************************************************)
EXTENDS RpcProofs, RpcRefine

-----------------------------------------------------------------------------
(* Places *)

\* 0, 1 or 2: S is empty, has one element, or has more.
Tally(S) == IF S = {} THEN 0 ELSE IF \E x \in S : S = {x} THEN 1 ELSE 2

\* The requests with id q that wait at the peer of e.
Asking(e, q) ==
  {i \in DOMAIN inbox[Peer[e]] :
     inbox[Peer[e]][i].type \in RequestTypes /\ inbox[Peer[e]][i].qid = q}

\* The parts of incomplete Join sets that the peer of e keeps for question q.
Parts(e, q) ==
  {jp \in JoinSlots \X PartNums :
     LET j == joins[Peer[e]][jp[1]]
     IN  j # NoJoin /\ j.parts[jp[2]] # NoPart /\ j.parts[jp[2]].qid = q}

\* The provisions that keep the Accept asked in question q of e under an embargo.
Embargoes(e, q) ==
  {vi \in Vats \X ProvisionSlots :
     LET p == provisions[vi[1]][vi[2]]
     IN  p # NoProvision /\ p.embargoed /\ p.by = Peer[e] /\ p.aqid = q}

\* The slots that hold question q of e, answered.
Answered(e, q) == {i \in SlotsOf(e, q) : questions[e][i].answered}

\* In how many places a question is.
Places(e, q) ==
  Tally(Asking(e, q)) + Tally(Returning(e, q)) + Tally(Parts(e, q)) + Tally(Embargoes(e, q))
  + Tally(Answered(e, q))

-----------------------------------------------------------------------------
(* The inductive invariant *)

OnePlace == \A e \in Ends, q \in QuestionIds : Places(e, q) <= 1

\* A question has one slot.
OneSlot == \A e \in Ends, q \in QuestionIds : Tally(SlotsOf(e, q)) <= 1

\* An id that has not been spent is nowhere.
IdsInTurn ==
  \A e \in Ends, q \in QuestionIds :
    q >= nextQid[e] => Places(e, q) = 0 /\ SlotsOf(e, q) = {}

\* Where an open question is agrees with what it asked.
Matched ==
  \A e \in Ends, q \in QuestionIds : \A s \in SlotsOf(e, q) :
    LET r == questions[e][s]
        t == r.req.type
    IN  /\ \A i \in Asking(e, q) : inbox[Peer[e]][i].type = t
        /\ \A i \in Returning(e, q) : inbox[e][i].for = t
        /\ Parts(e, q) # {} => t = "Join"
        /\ Embargoes(e, q) # {} => t = "Accept"
        /\ r.answered => r.reply.to = e /\ r.reply.for = t

FlowInv == OnePlace /\ OneSlot /\ IdsInTurn /\ Matched

-----------------------------------------------------------------------------
(* Tallies *)

\* What a tally says.
LEMMA TallyFacts ==
  ASSUME NEW S
  PROVE  /\ Tally(S) \in {0, 1, 2}
         /\ Tally(S) = 0 <=> S = {}
         /\ Tally(S) <= 1 <=> \A x, y \in S : x = y
<1>1. CASE S = {}
  BY <1>1 DEF Tally
<1>2. CASE \E x \in S : S = {x}
  <2>1. PICK x \in S : S = {x}
    BY <1>2
  <2> QED BY <2>1 DEF Tally
<1>3. CASE S # {} /\ ~\E x \in S : S = {x}
  <2>1. ~\A x, y \in S : x = y
    BY <1>3, Zenon
  <2> QED BY <1>3, <2>1 DEF Tally
<1> QED BY <1>1, <1>2, <1>3

\* The tally of one element.
LEMMA TallyOne ==
  ASSUME NEW x
  PROVE  Tally({x}) = 1
BY DEF Tally

\* Taking the first frame off a queue: the positions in S move up by one.
LEMMA TallyShift ==
  ASSUME NEW S, S \subseteq Nat \ {0}, NEW T, T \subseteq Nat \ {0},
         \A i \in Nat \ {0} : i \in T <=> i + 1 \in S
  PROVE  /\ 1 \notin S => Tally(T) = Tally(S)
         /\ 1 \in S /\ Tally(S) <= 1 => T = {}
<1>1. ASSUME 1 \notin S
      PROVE  Tally(T) = Tally(S)
  <2>1. \A i \in S : i - 1 \in T
    BY <1>1
  <2>2. S = {} <=> T = {}
    BY <2>1
  <2>3. ASSUME \A x, y \in S : x = y
        PROVE  \A x, y \in T : x = y
    <3> TAKE x \in T, y \in T
    <3>1. x + 1 \in S /\ y + 1 \in S
      OBVIOUS
    <3>2. x + 1 = y + 1
      BY <2>3, <3>1
    <3> QED BY <3>2
  <2>4. ASSUME \A x, y \in T : x = y
        PROVE  \A x, y \in S : x = y
    <3> TAKE x \in S, y \in S
    <3>1. x - 1 \in T /\ y - 1 \in T
      BY <2>1
    <3>2. x - 1 = y - 1
      BY <2>4, <3>1
    <3> QED BY <3>2
  <2>5. /\ Tally(S) \in {0, 1, 2} /\ (Tally(S) = 0 <=> S = {})
        /\ Tally(S) <= 1 <=> \A x, y \in S : x = y
    BY TallyFacts
  <2>6. /\ Tally(T) \in {0, 1, 2} /\ (Tally(T) = 0 <=> T = {})
        /\ Tally(T) <= 1 <=> \A x, y \in T : x = y
    BY TallyFacts
  <2>7. Tally(S) <= 1 <=> Tally(T) <= 1
    BY <2>3, <2>4, <2>5, <2>6
  <2> QED BY <2>2, <2>5, <2>6, <2>7
<1>2. ASSUME 1 \in S, Tally(S) <= 1
      PROVE  T = {}
  <2>1. \A x, y \in S : x = y
    BY <1>2, TallyFacts
  <2>2. \A i \in T : FALSE
    <3> TAKE i \in T
    <3>1. i + 1 \in S /\ i + 1 # 1
      OBVIOUS
    <3> QED BY <1>2, <2>1, <3>1
  <2> QED BY <2>2
<1> QED BY <1>1, <1>2

-----------------------------------------------------------------------------
(* Queues *)

\* The two ends of a transport.
LEMMA PeerFacts ==
  ASSUME NEW e \in Ends
  PROVE  Peer[e] \in Ends /\ Peer[e] # e /\ Peer[Peer[e]] = e
BY WireAssumption DEF WireAssumption

\* The first frame of f's queue is gone and msgs stand at the end of the queue of e.
QueuesMoved(e, f, msgs) ==
  /\ \A d \in Ends : DOMAIN inbox[d] \subseteq Nat \ {0}
  /\ \A d \in Ends : DOMAIN inbox'[d] \subseteq Nat \ {0}
  /\ \A i \in Nat \ {0} : i \in DOMAIN inbox'[f] <=> i + 1 \in DOMAIN inbox[f]
  /\ \A i \in DOMAIN inbox'[f] : inbox'[f][i] = inbox[f][i + 1]
  /\ 1 \in DOMAIN inbox[f] /\ inbox[f][1] = Head(inbox[f])
  /\ Len(inbox[e]) \in Nat /\ DOMAIN inbox[e] = 1 .. Len(inbox[e])
  /\ DOMAIN inbox'[e] = 1 .. (Len(inbox[e]) + Len(msgs))
  /\ \A i \in DOMAIN inbox[e] : inbox'[e][i] = inbox[e][i]
  /\ \A k \in 1 .. Len(msgs) : inbox'[e][Len(inbox[e]) + k] = msgs[k]
  /\ \A d \in Ends : d # e /\ d # f => inbox'[d] = inbox[d]

\* A handler at f takes the first frame off its queue and adds msgs to that of e.
LEMMA AnswerQueues ==
  ASSUME NEW e \in Ends, NEW f \in Ends, f = Peer[e], inbox \in [Ends -> Seq(Message)],
         inbox[f] # <<>>, NEW msgs \in Seq(Message), Answer(f, msgs)
  PROVE  QueuesMoved(e, f, msgs)
<1>1. Peer[f] = e /\ e # f
  BY PeerFacts
<1>2. /\ inbox'[f] = Tail(inbox[f]) /\ inbox'[e] = inbox[e] \o msgs
      /\ \A d \in Ends : d # e /\ d # f => inbox'[d] = inbox[d]
  BY <1>1 DEF Answer
<1>3. inbox[f] \in Seq(Message) /\ inbox[e] \in Seq(Message)
  OBVIOUS
<1>4. /\ \A i \in Nat \ {0} : i \in DOMAIN inbox'[f] <=> i + 1 \in DOMAIN inbox[f]
      /\ \A i \in DOMAIN inbox'[f] : inbox'[f][i] = inbox[f][i + 1]
      /\ 1 \in DOMAIN inbox[f] /\ inbox[f][1] = Head(inbox[f])
      /\ DOMAIN inbox'[f] \subseteq Nat \ {0}
  BY <1>2, <1>3
<1>5. /\ Len(inbox[e]) \in Nat /\ DOMAIN inbox[e] = 1 .. Len(inbox[e])
      /\ DOMAIN inbox'[e] = 1 .. (Len(inbox[e]) + Len(msgs))
      /\ \A i \in DOMAIN inbox[e] : inbox'[e][i] = inbox[e][i]
      /\ \A k \in 1 .. Len(msgs) : inbox'[e][Len(inbox[e]) + k] = msgs[k]
  BY <1>2, <1>3
<1>6. \A d \in Ends : DOMAIN inbox[d] \subseteq Nat \ {0}
  OBVIOUS
<1>7. ASSUME NEW d \in Ends
      PROVE  DOMAIN inbox'[d] \subseteq Nat \ {0}
  <2>1. CASE d = e
    BY <1>5, <2>1
  <2>2. CASE d = f
    BY <1>4, <2>2
  <2>3. CASE d # e /\ d # f
    BY <1>2, <1>6, <2>3
  <2> QED BY <2>1, <2>2, <2>3
<1> QED BY <1>2, <1>4, <1>5, <1>6, <1>7 DEF QueuesMoved

\* The Returns with id q among the frames that a handler sends.
Returns(msgs, q) == {k \in 1 .. Len(msgs) : msgs[k].type = "Return" /\ msgs[k].qid = q}

\* The requests and the Returns with id q of the two ends have moved with the queues.
FramesMoved(e, f, msgs, q) ==
  LET m == Head(inbox[f])
  IN  /\ Asking(e, q) \subseteq Nat \ {0} /\ Asking(e, q)' \subseteq Nat \ {0}
      /\ \A i \in Nat \ {0} : i \in Asking(e, q)' <=> i + 1 \in Asking(e, q)
      /\ \A i \in Asking(e, q)' : inbox'[f][i] = inbox[f][i + 1]
      /\ 1 \in Asking(e, q) <=> m.type \in RequestTypes /\ m.qid = q
      /\ Returning(f, q) \subseteq Nat \ {0} /\ Returning(f, q)' \subseteq Nat \ {0}
      /\ \A i \in Nat \ {0} : i \in Returning(f, q)' <=> i + 1 \in Returning(f, q)
      /\ \A i \in Returning(f, q)' : inbox'[f][i] = inbox[f][i + 1]
      /\ 1 \in Returning(f, q) <=> m.type = "Return" /\ m.qid = q
      /\ \A i : i \in Returning(e, q)' <=>
           \/ i \in Returning(e, q)
           \/ \E k \in Returns(msgs, q) : i = Len(inbox[e]) + k
      /\ \A i \in Returning(e, q) : inbox'[e][i] = inbox[e][i]
      /\ \A k \in Returns(msgs, q) : inbox'[e][Len(inbox[e]) + k] = msgs[k]
      /\ Asking(f, q)' = Asking(f, q)
      /\ \A i \in Asking(f, q) : inbox'[e][i] = inbox[e][i]
      /\ Len(inbox[e]) \in Nat

\* What that does to the requests and the Returns of the asking ends.  The end that
\* asked is e, and f handles.
LEMMA AnswerMoves ==
  ASSUME NEW e \in Ends, NEW f \in Ends, f = Peer[e], inbox \in [Ends -> Seq(Message)],
         inbox[f] # <<>>, NEW msgs \in Seq(Message), Answer(f, msgs),
         \A k \in 1 .. Len(msgs) : msgs[k].type \notin RequestTypes, NEW q
  PROVE  FramesMoved(e, f, msgs, q)
<1>0. QueuesMoved(e, f, msgs)
  BY AnswerQueues
<1> DEFINE m == Head(inbox[f])
           n == Len(inbox[e])
<1>1. Peer[f] = e /\ e # f
  BY PeerFacts
<1>2. /\ DOMAIN inbox[f] \subseteq Nat \ {0} /\ DOMAIN inbox'[f] \subseteq Nat \ {0}
      /\ \A i \in Nat \ {0} : i \in DOMAIN inbox'[f] <=> i + 1 \in DOMAIN inbox[f]
      /\ \A i \in DOMAIN inbox'[f] : inbox'[f][i] = inbox[f][i + 1]
      /\ 1 \in DOMAIN inbox[f] /\ inbox[f][1] = m
  BY <1>0 DEF QueuesMoved
<1>3. /\ n \in Nat /\ DOMAIN inbox[e] = 1 .. n
      /\ DOMAIN inbox'[e] = 1 .. (n + Len(msgs))
      /\ \A i \in DOMAIN inbox[e] : inbox'[e][i] = inbox[e][i]
      /\ \A k \in 1 .. Len(msgs) : inbox'[e][n + k] = msgs[k]
  BY <1>0 DEF QueuesMoved
<1> HIDE DEF m, n
<1>4. /\ Asking(e, q) = {i \in DOMAIN inbox[f] : inbox[f][i].type \in RequestTypes
                                                 /\ inbox[f][i].qid = q}
      /\ Asking(e, q)' = {i \in DOMAIN inbox'[f] : inbox'[f][i].type \in RequestTypes
                                                   /\ inbox'[f][i].qid = q}
      /\ Returning(f, q) = {i \in DOMAIN inbox[f] : inbox[f][i].type = "Return"
                                                    /\ inbox[f][i].qid = q}
      /\ Returning(f, q)' = {i \in DOMAIN inbox'[f] : inbox'[f][i].type = "Return"
                                                      /\ inbox'[f][i].qid = q}
  BY DEF Asking, Returning
<1>5. /\ Asking(f, q) = {i \in DOMAIN inbox[e] : inbox[e][i].type \in RequestTypes
                                                 /\ inbox[e][i].qid = q}
      /\ Asking(f, q)' = {i \in DOMAIN inbox'[e] : inbox'[e][i].type \in RequestTypes
                                                   /\ inbox'[e][i].qid = q}
      /\ Returning(e, q) = {i \in DOMAIN inbox[e] : inbox[e][i].type = "Return"
                                                    /\ inbox[e][i].qid = q}
      /\ Returning(e, q)' = {i \in DOMAIN inbox'[e] : inbox'[e][i].type = "Return"
                                                      /\ inbox'[e][i].qid = q}
  BY <1>1 DEF Asking, Returning
<1>6. /\ Asking(e, q) \subseteq Nat \ {0} /\ Asking(e, q)' \subseteq Nat \ {0}
      /\ \A i \in Nat \ {0} : i \in Asking(e, q)' <=> i + 1 \in Asking(e, q)
      /\ \A i \in Asking(e, q)' : inbox'[f][i] = inbox[f][i + 1]
      /\ 1 \in Asking(e, q) <=> m.type \in RequestTypes /\ m.qid = q
  BY <1>2, <1>4
<1>7. /\ Returning(f, q) \subseteq Nat \ {0} /\ Returning(f, q)' \subseteq Nat \ {0}
      /\ \A i \in Nat \ {0} : i \in Returning(f, q)' <=> i + 1 \in Returning(f, q)
      /\ \A i \in Returning(f, q)' : inbox'[f][i] = inbox[f][i + 1]
      /\ 1 \in Returning(f, q) <=> m.type = "Return" /\ m.qid = q
  BY <1>2, <1>4
<1>8. \A i \in DOMAIN inbox'[e] :
        i \in DOMAIN inbox[e] \/ (i - n \in 1 .. Len(msgs) /\ i = n + (i - n))
  BY <1>3
<1>9. DOMAIN inbox[e] \subseteq DOMAIN inbox'[e]
      /\ \A k \in 1 .. Len(msgs) : n + k \in DOMAIN inbox'[e]
  BY <1>3
<1>10. /\ \A i : i \in Returning(e, q)' <=>
             \/ i \in Returning(e, q)
             \/ \E k \in Returns(msgs, q) : i = n + k
       /\ \A i \in Returning(e, q) : inbox'[e][i] = inbox[e][i]
       /\ \A k \in Returns(msgs, q) : inbox'[e][n + k] = msgs[k]
  <2>1. \A k \in Returns(msgs, q) : k \in 1 .. Len(msgs) /\ inbox'[e][n + k] = msgs[k]
    BY <1>3 DEF Returns
  <2>2. ASSUME NEW i, i \in Returning(e, q)', i \notin Returning(e, q)
        PROVE  \E k \in Returns(msgs, q) : i = n + k
    <3>1. i \in DOMAIN inbox'[e] /\ inbox'[e][i].type = "Return" /\ inbox'[e][i].qid = q
      BY <1>5, <2>2
    <3>2. i \notin DOMAIN inbox[e]
      BY <1>3, <1>5, <2>2, <3>1
    <3>3. i - n \in 1 .. Len(msgs) /\ i = n + (i - n)
      BY <1>8, <3>1, <3>2
    <3>4. inbox'[e][i] = msgs[i - n]
      BY <1>3, <3>3
    <3>5. i - n \in Returns(msgs, q)
      BY <3>1, <3>3, <3>4 DEF Returns
    <3> QED BY <3>3, <3>5
  <2>3. ASSUME NEW i \in Returning(e, q)
        PROVE  i \in Returning(e, q)' /\ inbox'[e][i] = inbox[e][i]
    BY <1>3, <1>5, <1>9, <2>3
  <2>4. ASSUME NEW k \in Returns(msgs, q)
        PROVE  n + k \in Returning(e, q)'
    BY <1>5, <1>9, <2>1 DEF Returns
  <2> QED BY <2>1, <2>2, <2>3, <2>4
<1>11. Asking(f, q)' = Asking(f, q) /\ \A i \in Asking(f, q) : inbox'[e][i] = inbox[e][i]
  <2>1. ASSUME NEW i \in Asking(f, q)'
        PROVE  i \in Asking(f, q)
    <3>1. CASE i \in DOMAIN inbox[e]
      BY <1>3, <1>5, <2>1, <3>1
    <3>2. CASE i - n \in 1 .. Len(msgs) /\ i = n + (i - n)
      <4>1. inbox'[e][i] = msgs[i - n]
        BY <1>3, <3>2
      <4> QED BY <1>5, <2>1, <3>2, <4>1
    <3> QED BY <1>5, <1>8, <2>1, <3>1, <3>2
  <2>2. ASSUME NEW i \in Asking(f, q)
        PROVE  i \in Asking(f, q)' /\ inbox'[e][i] = inbox[e][i]
    BY <1>3, <1>5, <1>9, <2>2
  <2> QED BY <2>1, <2>2
<1> QED BY <1>3, <1>6, <1>7, <1>10, <1>11 DEF m, n, FramesMoved

\* The first frame waiting at the peer of e is the request of question q.
Served(e, q) ==
  LET m == Head(inbox[Peer[e]]) IN m.type \in RequestTypes /\ m.qid = q

\* What a handler at the peer of e, sending msgs, may do to question q of e: nothing,
\* or answer the request it was given, or keep it, or answer a question it kept.
Handled(e, q, msgs) ==
  LET m == Head(inbox[Peer[e]])
      rets == Returns(msgs, q)
      for(t) == \A k \in rets : msgs[k].for = t
      partsSame == Parts(e, q)' = Parts(e, q)
      partsGone == Parts(e, q)' = {}
      embargoesSame == Embargoes(e, q)' = Embargoes(e, q)
  IN  \/ rets = {} /\ (partsSame \/ partsGone) /\ embargoesSame
      \/ Served(e, q) /\ Tally(rets) = 1 /\ for(m.type) /\ partsSame /\ embargoesSame
      \/ /\ Served(e, q) /\ m.type = "Join" /\ rets = {}
         /\ Tally(Parts(e, q)') = 1 /\ embargoesSame
      \/ /\ Served(e, q) /\ m.type = "Accept" /\ rets = {}
         /\ Tally(Embargoes(e, q)') = 1 /\ partsSame
      \/ /\ Parts(e, q) # {} /\ Parts(e, q)' = {} /\ embargoesSame
         /\ Tally(rets) = 1 /\ for("Join")
      \/ /\ Embargoes(e, q) # {} /\ Embargoes(e, q)' = {} /\ partsSame
         /\ Tally(rets) = 1 /\ for("Accept")

\* What a handler at f that was not given a Return does to the questions of all ends.
Handles(f) ==
  \E msgs \in Seq(Message) :
    /\ Answer(f, msgs)
    /\ \A k \in 1 .. Len(msgs) : msgs[k].type \notin RequestTypes
    /\ \A q \in QuestionIds : Handled(Peer[f], q, msgs)
    /\ \A d \in Ends \ {Peer[f]}, q \in QuestionIds :
         Parts(d, q)' = Parts(d, q) /\ Embargoes(d, q)' = Embargoes(d, q)
    /\ inbox[f] # <<>> /\ ~Given(f, "Return")
    /\ UNCHANGED <<questions, nextQid>>

\* How the tallies of the queues move.
LEMMA HandledTallies ==
  ASSUME NEW e \in Ends, NEW f \in Ends, f = Peer[e], NEW msgs, NEW q, FramesMoved(e, f, msgs, q),
         Tally(Asking(e, q)) <= 1, Tally(Returning(f, q)) <= 1
  PROVE  /\ Served(e, q) => Tally(Asking(e, q)) = 1 /\ Tally(Asking(e, q)') = 0
         /\ ~Served(e, q) => Tally(Asking(e, q)') = Tally(Asking(e, q))
         /\ Returns(msgs, q) = {} => Returning(e, q)' = Returning(e, q)
         /\ Returning(e, q) = {} => Tally(Returning(e, q)') = Tally(Returns(msgs, q))
         /\ 1 \in Returning(f, q) => Tally(Returning(f, q)) = 1 /\ Tally(Returning(f, q)') = 0
         /\ 1 \notin Returning(f, q) => Tally(Returning(f, q)') = Tally(Returning(f, q))
<1>1. /\ Asking(e, q) \subseteq Nat \ {0} /\ Asking(e, q)' \subseteq Nat \ {0}
      /\ \A i \in Nat \ {0} : i \in Asking(e, q)' <=> i + 1 \in Asking(e, q)
      /\ 1 \in Asking(e, q) <=> Served(e, q)
      /\ Returning(f, q) \subseteq Nat \ {0} /\ Returning(f, q)' \subseteq Nat \ {0}
      /\ \A i \in Nat \ {0} : i \in Returning(f, q)' <=> i + 1 \in Returning(f, q)
  BY DEF FramesMoved, Served
<1>2. /\ 1 \notin Asking(e, q) => Tally(Asking(e, q)') = Tally(Asking(e, q))
      /\ 1 \in Asking(e, q) => Asking(e, q)' = {}
  BY <1>1, TallyShift
<1>3. /\ 1 \notin Returning(f, q) => Tally(Returning(f, q)') = Tally(Returning(f, q))
      /\ 1 \in Returning(f, q) => Returning(f, q)' = {}
  BY <1>1, TallyShift
<1>4. /\ Tally({}) = 0
      /\ 1 \in Asking(e, q) => Tally(Asking(e, q)) = 1
      /\ 1 \in Returning(f, q) => Tally(Returning(f, q)) = 1
  BY TallyFacts
<1>5. Returns(msgs, q) = {} => Returning(e, q)' = Returning(e, q)
  BY DEF FramesMoved
<1>6. ASSUME Returning(e, q) = {}
      PROVE  Tally(Returning(e, q)') = Tally(Returns(msgs, q))
  <2> DEFINE n == Len(inbox[e])
             S == Returning(e, q)'
             T == Returns(msgs, q)
  <2>1. n \in Nat /\ \A i : i \in S <=> \E k \in T : i = n + k
    BY <1>6 DEF FramesMoved
  <2>2. T \subseteq Nat
    BY DEF Returns
  <2> HIDE DEF n, S, T
  <2>3. S = {} <=> T = {}
    BY <2>1
  <2>4. (\A x, y \in S : x = y) <=> \A x, y \in T : x = y
    <3>1. ASSUME \A x, y \in S : x = y, NEW x \in T, NEW y \in T
          PROVE  x = y
      <4>1. n + x \in S /\ n + y \in S
        BY <2>1
      <4>2. n + x = n + y
        BY <3>1, <4>1
      <4> QED BY <2>1, <2>2, <4>2
    <3>2. ASSUME \A x, y \in T : x = y, NEW x \in S, NEW y \in S
          PROVE  x = y
      BY <2>1, <3>2
    <3> QED BY <3>1, <3>2
  <2>5. /\ Tally(S) \in {0, 1, 2} /\ (Tally(S) = 0 <=> S = {})
        /\ Tally(S) <= 1 <=> \A x, y \in S : x = y
    BY TallyFacts
  <2>6. /\ Tally(T) \in {0, 1, 2} /\ (Tally(T) = 0 <=> T = {})
        /\ Tally(T) <= 1 <=> \A x, y \in T : x = y
    BY TallyFacts
  <2>7. Tally(S) = Tally(T)
    BY <2>3, <2>4, <2>5, <2>6
  <2> QED BY <2>7 DEF S, T
<1> QED BY <1>1, <1>2, <1>3, <1>4, <1>5, <1>6

\* A question in no more than one place is empty in the others.
LEMMA PlacesFacts ==
  ASSUME NEW e \in Ends, NEW q
  PROVE  /\ Tally(Asking(e, q)) \in 0 .. 2 /\ Tally(Returning(e, q)) \in 0 .. 2
         /\ Tally(Parts(e, q)) \in 0 .. 2 /\ Tally(Embargoes(e, q)) \in 0 .. 2
         /\ Tally(Answered(e, q)) \in 0 .. 2
         /\ (Tally(Asking(e, q)) = 0 <=> Asking(e, q) = {})
         /\ (Tally(Returning(e, q)) = 0 <=> Returning(e, q) = {})
         /\ (Tally(Parts(e, q)) = 0 <=> Parts(e, q) = {})
         /\ (Tally(Embargoes(e, q)) = 0 <=> Embargoes(e, q) = {})
         /\ (Tally(Answered(e, q)) = 0 <=> Answered(e, q) = {})
BY TallyFacts

\* A handler moves a question of the end that asked from one place to another, or
\* out of all of them.
LEMMA HandledPlaces ==
  ASSUME NEW e \in Ends, NEW f \in Ends, f = Peer[e], NEW msgs, NEW q, FramesMoved(e, f, msgs, q),
         Handled(e, q, msgs), Places(e, q) <= 1, Tally(Returning(f, q)) <= 1,
         Answered(e, q)' = Answered(e, q)
  PROVE  Places(e, q)' <= Places(e, q)
<1> DEFINE rets == Returns(msgs, q)
<1>1. /\ Tally(Asking(e, q)) \in 0 .. 2 /\ Tally(Returning(e, q)) \in 0 .. 2
      /\ Tally(Parts(e, q)) \in 0 .. 2 /\ Tally(Embargoes(e, q)) \in 0 .. 2
      /\ Tally(Answered(e, q)) \in 0 .. 2
      /\ (Tally(Returning(e, q)) = 0 <=> Returning(e, q) = {})
      /\ (Tally(Parts(e, q)) = 0 <=> Parts(e, q) = {})
      /\ (Tally(Embargoes(e, q)) = 0 <=> Embargoes(e, q) = {})
  BY PlacesFacts
<1>2. Tally({}) = 0 /\ Tally(Asking(e, q)') \in 0 .. 2 /\ Tally(Returning(e, q)') \in 0 .. 2
  BY TallyFacts
<1>3. Places(e, q) = Tally(Asking(e, q)) + Tally(Returning(e, q)) + Tally(Parts(e, q))
                     + Tally(Embargoes(e, q)) + Tally(Answered(e, q))
  BY DEF Places
<1>4. Places(e, q)' = Tally(Asking(e, q)') + Tally(Returning(e, q)') + Tally(Parts(e, q)')
                      + Tally(Embargoes(e, q)') + Tally(Answered(e, q)')
  BY DEF Places, Tally
<1>5. /\ Served(e, q) => Tally(Asking(e, q)) = 1 /\ Tally(Asking(e, q)') = 0
      /\ ~Served(e, q) => Tally(Asking(e, q)') = Tally(Asking(e, q))
      /\ rets = {} => Returning(e, q)' = Returning(e, q)
      /\ Returning(e, q) = {} => Tally(Returning(e, q)') = Tally(rets)
  <2>1. Tally(Asking(e, q)) <= 1
    BY <1>1, <1>3
  <2> QED BY <2>1, HandledTallies
<1>6. \/ /\ rets = {} /\ (Parts(e, q)' = Parts(e, q) \/ Parts(e, q)' = {})
         /\ Embargoes(e, q)' = Embargoes(e, q)
      \/ /\ Served(e, q) /\ Tally(rets) = 1
         /\ Parts(e, q)' = Parts(e, q) /\ Embargoes(e, q)' = Embargoes(e, q)
      \/ /\ Served(e, q) /\ rets = {}
         /\ Tally(Parts(e, q)') = 1 /\ Embargoes(e, q)' = Embargoes(e, q)
      \/ /\ Served(e, q) /\ rets = {}
         /\ Tally(Embargoes(e, q)') = 1 /\ Parts(e, q)' = Parts(e, q)
      \/ /\ Parts(e, q) # {} /\ Parts(e, q)' = {} /\ Embargoes(e, q)' = Embargoes(e, q)
         /\ Tally(rets) = 1
      \/ /\ Embargoes(e, q) # {} /\ Embargoes(e, q)' = {} /\ Parts(e, q)' = Parts(e, q)
         /\ Tally(rets) = 1
  BY DEF Handled
<1> HIDE DEF rets
<1> QED BY <1>1, <1>2, <1>3, <1>4, <1>5, <1>6

\* Ends that do not take part see no frame move.
LEMMA OthersUnmoved ==
  ASSUME NEW e \in Ends, NEW f \in Ends, f = Peer[e], NEW msgs, QueuesMoved(e, f, msgs),
         NEW d \in Ends, d # e, d # f, NEW q
  PROVE  /\ Asking(d, q)' = Asking(d, q) /\ Returning(d, q)' = Returning(d, q)
         /\ inbox'[d] = inbox[d] /\ inbox'[Peer[d]] = inbox[Peer[d]]
<1>1. Peer[d] \in Ends /\ Peer[d] # e /\ Peer[d] # f
  BY PeerFacts
<1>2. inbox'[d] = inbox[d] /\ inbox'[Peer[d]] = inbox[Peer[d]]
  BY <1>1 DEF QueuesMoved
<1> QED BY <1>2 DEF Asking, Returning

\* The slots of a question depend on the table alone.
LEMMA SlotsUnmoved ==
  ASSUME NEW e \in Ends, NEW q, questions'[e] = questions[e]
  PROVE  SlotsOf(e, q)' = SlotsOf(e, q) /\ Answered(e, q)' = Answered(e, q)
BY DEF SlotsOf, Answered

\* A handler that was not given a Return keeps every question in one place, where
\* its kind belongs.
LEMMA HandlesKeepsFlow ==
  ASSUME NEW e \in Ends, NEW f \in Ends, f = Peer[e], TypeInv, FlowInv, Handles(f)
  PROVE  FlowInv'
<1>2. Peer[f] = e /\ e # f
  BY PeerFacts
<1>1. PICK msgs \in Seq(Message) :
        /\ Answer(f, msgs)
        /\ \A k \in 1 .. Len(msgs) : msgs[k].type \notin RequestTypes
        /\ \A q \in QuestionIds : Handled(e, q, msgs)
        /\ \A d \in Ends \ {e}, q \in QuestionIds :
             Parts(d, q)' = Parts(d, q) /\ Embargoes(d, q)' = Embargoes(d, q)
        /\ inbox[f] # <<>> /\ ~Given(f, "Return")
        /\ UNCHANGED <<questions, nextQid>>
  BY <1>2 DEF Handles
<1>3. inbox \in [Ends -> Seq(Message)]
  BY DEF TypeInv, TypeOK
<1>4. QueuesMoved(e, f, msgs)
  BY <1>1, <1>2, <1>3, AnswerQueues
<1>5. \A q \in QuestionIds : FramesMoved(e, f, msgs, q)
  BY <1>1, <1>2, <1>3, AnswerMoves
<1>6. \A d \in Ends, q \in QuestionIds :
        SlotsOf(d, q)' = SlotsOf(d, q) /\ Answered(d, q)' = Answered(d, q)
  BY <1>1, SlotsUnmoved
<1>7. \A d \in Ends, q \in QuestionIds : Tally(Returning(d, q)) <= 1 /\ Tally(Asking(d, q)) <= 1
  BY PlacesFacts DEF FlowInv, OnePlace, Places
<1>8. ASSUME NEW d \in Ends, NEW q \in QuestionIds
      PROVE  Places(d, q)' <= Places(d, q) /\ Places(d, q) \in Nat /\ Places(d, q)' \in Nat
  <2>1. Places(d, q) \in Nat
    BY PlacesFacts DEF Places
  <2>2. Places(d, q)' \in Nat
    <3>1. /\ Tally(Asking(d, q)') \in 0 .. 2 /\ Tally(Returning(d, q)') \in 0 .. 2
          /\ Tally(Parts(d, q)') \in 0 .. 2 /\ Tally(Embargoes(d, q)') \in 0 .. 2
          /\ Tally(Answered(d, q)') \in 0 .. 2
      BY TallyFacts
    <3> QED BY <3>1 DEF Places, Tally
  <2>3. CASE d = e
    <3>1. Places(e, q) <= 1
      BY <1>2 DEF FlowInv, OnePlace
    <3>2. /\ FramesMoved(e, f, msgs, q) /\ Handled(e, q, msgs)
          /\ Tally(Returning(f, q)) <= 1 /\ Answered(e, q)' = Answered(e, q)
      BY <1>1, <1>2, <1>5, <1>6, <1>7
    <3>3. Places(e, q)' <= Places(e, q)
      BY <1>2, <3>1, <3>2, HandledPlaces
    <3> QED BY <2>1, <2>2, <2>3, <3>3
  <2>4. CASE d = f
    <3>1. Asking(f, q)' = Asking(f, q)
      BY <1>5 DEF FramesMoved
    <3>2. 1 \notin Returning(f, q)
      BY <1>1, <1>5 DEF FramesMoved, Given
    <3>3. Tally(Returning(f, q)') = Tally(Returning(f, q))
      <4>1. /\ FramesMoved(e, f, msgs, q)
            /\ Tally(Asking(e, q)) <= 1 /\ Tally(Returning(f, q)) <= 1
        BY <1>5, <1>7
      <4> QED BY <3>2, <4>1, HandledTallies
    <3>4. Parts(f, q)' = Parts(f, q) /\ Embargoes(f, q)' = Embargoes(f, q)
      BY <1>1, <1>2
    <3>5. Places(f, q)' = Places(f, q)
      BY <1>6, <3>1, <3>3, <3>4 DEF Places, Tally
    <3> QED BY <2>1, <2>2, <2>4, <3>5
  <2>5. CASE d # e /\ d # f
    <3>1. Asking(d, q)' = Asking(d, q) /\ Returning(d, q)' = Returning(d, q)
      BY <1>2, <1>4, <2>5, OthersUnmoved, SMTT(30)
    <3>2. Parts(d, q)' = Parts(d, q) /\ Embargoes(d, q)' = Embargoes(d, q)
      BY <1>1, <2>5
    <3>3. Places(d, q)' = Places(d, q)
      BY <1>6, <3>1, <3>2 DEF Places
    <3> QED BY <2>1, <2>2, <3>3
  <2> QED BY <2>3, <2>4, <2>5
<1>9. OnePlace'
  <2>1. \A d \in Ends, q \in QuestionIds : Places(d, q)' <= 1
    BY <1>8 DEF FlowInv, OnePlace
  <2> QED BY <2>1 DEF OnePlace
<1>10. OneSlot'
  <2>1. \A d \in Ends, q \in QuestionIds : Tally(SlotsOf(d, q)') <= 1
    BY <1>6 DEF FlowInv, OneSlot
  <2> QED BY <2>1 DEF OneSlot, Tally
<1>11. IdsInTurn'
  <2>1. \A d \in Ends, q \in QuestionIds :
          q >= nextQid'[d] => Places(d, q)' = 0 /\ SlotsOf(d, q)' = {}
    BY <1>1, <1>6, <1>8 DEF FlowInv, IdsInTurn
  <2> QED BY <2>1 DEF IdsInTurn
<1>12. Matched'
  <2> SUFFICES ASSUME NEW d \in Ends, NEW q \in QuestionIds, NEW s \in SlotsOf(d, q)
               PROVE  LET r == questions[d][s]
                          t == r.req.type
                      IN  /\ \A i \in Asking(d, q)' : inbox'[Peer[d]][i].type = t
                          /\ \A i \in Returning(d, q)' : inbox'[d][i].for = t
                          /\ Parts(d, q)' # {} => t = "Join"
                          /\ Embargoes(d, q)' # {} => t = "Accept"
                          /\ r.answered => r.reply.to = d /\ r.reply.for = t
    BY <1>1, <1>6 DEF Matched
  <2> DEFINE r == questions[d][s]
             t == r.req.type
             m == Head(inbox[f])
  <2>2. /\ \A i \in Asking(d, q) : inbox[Peer[d]][i].type = t
        /\ \A i \in Returning(d, q) : inbox[d][i].for = t
        /\ Parts(d, q) # {} => t = "Join"
        /\ Embargoes(d, q) # {} => t = "Accept"
        /\ r.answered => r.reply.to = d /\ r.reply.for = t
    BY DEF FlowInv, Matched
  <2> HIDE DEF r, t, m
  <2>3. CASE d = e
    <3>1. ASSUME NEW i \in Asking(e, q)'
          PROVE  inbox'[f][i].type = t
      <4>1. i + 1 \in Asking(e, q) /\ inbox'[f][i] = inbox[f][i + 1]
        BY <1>5, <3>1 DEF FramesMoved
      <4> QED BY <1>2, <2>2, <2>3, <4>1
    <3>2. Served(e, q) => m.type = t
      <4>1. Served(e, q) => 1 \in Asking(e, q)
        BY <1>2, <1>5 DEF FramesMoved, Served
      <4>2. inbox[f][1] = m
        BY <1>4 DEF QueuesMoved, m
      <4> QED BY <1>2, <2>2, <2>3, <4>1, <4>2
    <3>3. Handled(e, q, msgs)
      BY <1>1
    <3>4. /\ Parts(e, q)' # {} => t = "Join"
          /\ Embargoes(e, q)' # {} => t = "Accept"
          /\ \A k \in Returns(msgs, q) : msgs[k].for = t
      BY <1>2, <2>2, <2>3, <3>2, <3>3 DEF Handled, m
    <3>5. ASSUME NEW i \in Returning(e, q)'
          PROVE  inbox'[e][i].for = t
      <4>1. /\ i \in Returning(e, q) \/ \E k \in Returns(msgs, q) : i = Len(inbox[e]) + k
            /\ i \in Returning(e, q) => inbox'[e][i] = inbox[e][i]
            /\ \A k \in Returns(msgs, q) : inbox'[e][Len(inbox[e]) + k] = msgs[k]
        BY <1>5, <3>5 DEF FramesMoved
      <4>2. CASE i \in Returning(e, q)
        BY <2>2, <2>3, <4>1, <4>2
      <4>3. CASE \E k \in Returns(msgs, q) : i = Len(inbox[e]) + k
        BY <3>4, <4>1, <4>3
      <4> QED BY <4>1, <4>2, <4>3
    <3> QED BY <1>2, <2>2, <2>3, <3>1, <3>4, <3>5 DEF r, t
  <2>4. CASE d = f
    <3>1. ASSUME NEW i \in Returning(f, q)'
          PROVE  inbox'[f][i].for = t
      <4>1. i + 1 \in Returning(f, q) /\ inbox'[f][i] = inbox[f][i + 1]
        BY <1>5, <3>1 DEF FramesMoved
      <4> QED BY <2>2, <2>4, <4>1
    <3>2. \A i \in Asking(f, q)' : inbox'[e][i].type = t
      <4>1. Asking(f, q)' = Asking(f, q) /\ \A i \in Asking(f, q) : inbox'[e][i] = inbox[e][i]
        BY <1>5 DEF FramesMoved
      <4>2. \A i \in Asking(f, q) : inbox[e][i].type = t
        BY <1>2, <2>2, <2>4
      <4> QED BY <4>1, <4>2
    <3>3. Parts(f, q)' = Parts(f, q) /\ Embargoes(f, q)' = Embargoes(f, q)
      BY <1>1, <1>2
    <3> QED BY <1>2, <2>2, <2>4, <3>1, <3>2, <3>3 DEF r, t
  <2>5. CASE d # e /\ d # f
    <3>1. /\ Asking(d, q)' = Asking(d, q) /\ Returning(d, q)' = Returning(d, q)
          /\ inbox'[d] = inbox[d] /\ inbox'[Peer[d]] = inbox[Peer[d]]
      BY <1>2, <1>4, <2>5, OthersUnmoved
    <3>2. Parts(d, q)' = Parts(d, q) /\ Embargoes(d, q)' = Embargoes(d, q)
      BY <1>1, <2>5
    <3> QED BY <2>2, <3>1, <3>2 DEF r, t
  <2> QED BY <2>3, <2>4, <2>5
<1> QED BY <1>9, <1>10, <1>11, <1>12 DEF FlowInv

-----------------------------------------------------------------------------
(* Handlers *)

\* No peer keeps more or fewer questions than before.
NoneKept ==
  \A d \in Ends, q \in QuestionIds :
    Parts(d, q)' = Parts(d, q) /\ Embargoes(d, q)' = Embargoes(d, q)

\* A handler that answers the request it was given.
LEMMA RepliesHandles ==
  ASSUME NEW f \in Ends, NEW m, m = Head(inbox[f]), inbox[f] # <<>>, m.type \in RequestTypes,
         NEW ret \in Return, ret.qid = m.qid, ret.for = m.type, Answer(f, <<ret>>), NoneKept,
         UNCHANGED <<questions, nextQid>>
  PROVE  Handles(f)
<1>1. <<ret>> \in Seq(Message) /\ ret.type = "Return"
  BY DEF Message, Return
<1>2. \A k \in 1 .. Len(<<ret>>) : <<ret>>[k].type \notin RequestTypes
  BY <1>1 DEF RequestTypes
<1>3. Peer[f] \in Ends /\ Peer[Peer[f]] = f
  BY PeerFacts
<1>4. ASSUME NEW q \in QuestionIds
      PROVE  Handled(Peer[f], q, <<ret>>)
  <2>1. CASE q = m.qid
    <3>1. Returns(<<ret>>, q) = {1}
      BY <1>1, <2>1 DEF Returns
    <3>2. Tally(Returns(<<ret>>, q)) = 1
      BY <3>1, TallyOne
    <3>3. \A k \in Returns(<<ret>>, q) : <<ret>>[k].for = m.type
      BY <3>1
    <3>4. Served(Peer[f], q)
      BY <1>3, <2>1 DEF Served
    <3>5. Parts(Peer[f], q)' = Parts(Peer[f], q) /\ Embargoes(Peer[f], q)' = Embargoes(Peer[f], q)
      BY <1>3 DEF NoneKept
    <3> QED BY <1>3, <3>2, <3>3, <3>4, <3>5 DEF Handled
  <2>2. CASE q # m.qid
    <3>1. Returns(<<ret>>, q) = {}
      BY <1>1, <2>2 DEF Returns
    <3> QED BY <1>3, <3>1 DEF Handled, NoneKept
  <2> QED BY <2>1, <2>2
<1>5. ~Given(f, "Return")
  BY DEF Given, RequestTypes
<1> QED BY <1>1, <1>2, <1>3, <1>4, <1>5 DEF Handles, NoneKept

\* A handler that sends no request and no Return.
LEMMA SilentHandles ==
  ASSUME NEW f \in Ends, inbox[f] # <<>>, ~Given(f, "Return"), NEW msgs \in Seq(Message),
         \A k \in 1 .. Len(msgs) : msgs[k].type \notin RequestTypes /\ msgs[k].type # "Return",
         Answer(f, msgs), NoneKept, UNCHANGED <<questions, nextQid>>
  PROVE  Handles(f)
<1>1. Peer[f] \in Ends /\ Peer[Peer[f]] = f
  BY PeerFacts
<1>2. \A q \in QuestionIds : Returns(msgs, q) = {}
  BY DEF Returns
<1>3. \A q \in QuestionIds : Handled(Peer[f], q, msgs)
  BY <1>1, <1>2 DEF Handled, NoneKept
<1> QED BY <1>1, <1>3 DEF Handles, NoneKept

\* So a handler that sends nothing.
LEMMA AbsorbHandles ==
  ASSUME NEW f \in Ends, inbox[f] # <<>>, ~Given(f, "Return"), Absorb(f), NoneKept,
         UNCHANGED <<questions, nextQid>>
  PROVE  Handles(f)
<1>1. << >> \in Seq(Message) /\ \A k \in 1 .. Len(<< >>) : FALSE
  OBVIOUS
<1> QED BY <1>1, SilentHandles DEF Absorb

\* A handler that leaves the Join sets and the provisions alone keeps nothing.
LEMMA NoneKeptSame ==
  ASSUME UNCHANGED <<joins, provisions>>
  PROVE  NoneKept
BY DEF NoneKept, Parts, Embargoes

\* Neither does one that changes a provision that is not under an embargo into another
\* such, or into none.
LEMMA NoneKeptFree ==
  ASSUME TypeInv, UNCHANGED joins, NEW v \in Vats, NEW i \in ProvisionSlots, NEW p,
         provisions' = [provisions EXCEPT ![v][i] = p],
         provisions[v][i] = NoProvision \/ ~provisions[v][i].embargoed,
         p = NoProvision \/ ~p.embargoed
  PROVE  NoneKept
<1>1. /\ provisions \in [Vats -> [ProvisionSlots -> Provision \cup {NoProvision}]]
  BY DEF TypeInv, TypeOK, HandoffTypeOK
<1>2. ASSUME NEW d \in Ends, NEW q \in QuestionIds
      PROVE  Embargoes(d, q)' = Embargoes(d, q)
  <2>1. \A w \in Vats, k \in ProvisionSlots :
          provisions'[w][k] = IF w = v /\ k = i THEN p ELSE provisions[w][k]
    BY <1>1
  <2> QED BY <2>1 DEF Embargoes
<1>3. \A d \in Ends, q \in QuestionIds : Parts(d, q)' = Parts(d, q)
  BY DEF Parts
<1> QED BY <1>2, <1>3 DEF NoneKept

\* Refusing a request.
LEMMA RefuseHandles ==
  ASSUME NEW f \in Ends, TypeInv, NEW m, m = Head(inbox[f]), inbox[f] # <<>>,
         m.type \in RequestTypes, m.qid \in QuestionIds, Refuse(f, m), UNCHANGED provisions,
         UNCHANGED <<questions, nextQid>>
  PROVE  Handles(f)
<1> DEFINE ret == Exception(f, m)
<1>1. ret \in Return
  BY ExceptionType
<1>2. ret.qid = m.qid /\ ret.for = m.type
  BY DEF Exception, Results
<1>3. Answer(f, <<ret>>) /\ UNCHANGED joins
  BY DEF Refuse, serverVars
<1> HIDE DEF ret
<1> QED BY <1>1, <1>2, <1>3, NoneKeptSame, RepliesHandles

\* The frame that a handler was given, and that it leaves the asking half alone.
LEMMA HandlerFacts ==
  ASSUME NEW f \in Ends, TypeInv, NEW type, Given(f, type), NEW m, m = Head(inbox[f])
  PROVE  /\ inbox[f] # <<>> /\ m \in Message /\ m.type = type
         /\ type \in RequestTypes => m.type \in RequestTypes /\ m.qid \in QuestionIds
         /\ type # "Return" => ~Given(f, "Return")
<1>1. inbox[f] # <<>> /\ m \in Message /\ m.type = type
  BY GivenMessage DEF TypeInv, TypeOK
<1> QED BY <1>1, MessageFields DEF Given

\* handle_bootstrap answers the question.
LEMMA BootstrapHandles ==
  ASSUME NEW f \in Ends, TypeInv, RecvBootstrap(f)
  PROVE  Handles(f)
<1> DEFINE m == Head(inbox[f])
           s == bootstrap[f]
           x == ExportId(f, s)
<1>1. inbox[f] # <<>> /\ m.qid \in QuestionIds /\ m.type \in RequestTypes
  BY HandlerFacts DEF RecvBootstrap, RequestTypes
<1>2. UNCHANGED <<questions, nextQid>> /\ UNCHANGED provisions
  BY DEF RecvBootstrap, clientVars, handoffVars
<1>3. CASE s = NoServer \/ x = NoExport
  <2>1. Refuse(f, m)
    BY <1>3 DEF RecvBootstrap, HandleBootstrap
  <2> QED BY <1>1, <1>2, <2>1, RefuseHandles
<1>4. CASE s # NoServer /\ x # NoExport
  <2> DEFINE ret == [Results(f, m, x) EXCEPT !.obj = s]
  <2>1. s \in Servers /\ x \in ExportIds
    BY <1>4, ExportIdType DEF TypeInv, TypeOK, ServerTypeOK
  <2>2. Answer(f, <<ret>>) /\ UNCHANGED joins
    BY <1>4 DEF RecvBootstrap, HandleBootstrap, FlushAnswer
  <2>3. ret \in Return
    BY <1>1, <2>1, ResultsType DEF Return
  <2>4. ret.qid = m.qid /\ ret.for = m.type
    BY DEF Results
  <2> HIDE DEF ret
  <2> QED BY <1>1, <1>2, <2>2, <2>3, <2>4, NoneKeptSame, RepliesHandles
<1> QED BY <1>3, <1>4

\* handle_call answers the question, or the dispatch function fails and nothing is sent.
LEMMA CallHandles ==
  ASSUME NEW f \in Ends, TypeInv, RecvCall(f)
  PROVE  Handles(f)
<1> DEFINE m == Head(inbox[f])
           x == ResolveTarget(f, m.target)
<1>1. /\ inbox[f] # <<>> /\ m.qid \in QuestionIds /\ m.type \in RequestTypes
      /\ ~Given(f, "Return")
  BY HandlerFacts DEF RecvCall, RequestTypes
<1>2. UNCHANGED <<questions, nextQid>> /\ UNCHANGED provisions
  BY DEF RecvCall, clientVars
<1>3. CASE x = NoExport
  <2>1. Refuse(f, m)
    BY <1>3 DEF RecvCall, HandleCall
  <2> QED BY <1>1, <1>2, <2>1, RefuseHandles
<1>4. CASE x # NoExport
  <2>1. x \in ExportIds /\ server[f][x] \in Servers \cup {NoServer}
    BY <1>4, ResolveTargetType DEF TypeInv, TypeOK, ServerTypeOK
  <2>2. Dispatch(f, m, x) /\ UNCHANGED joins
    BY <1>4 DEF RecvCall, HandleCall
  <2>3. PICK outcome \in Outcomes :
          IF outcome = "fails" THEN Absorb(f) /\ UNCHANGED answers
          ELSE FlushAnswer(f, [Results(f, m, NoExport) EXCEPT
                                 !.small = (outcome = "small"), !.obj = server[f][x]])
    BY <2>2 DEF Dispatch
  <2>4. CASE outcome = "fails"
    BY <1>1, <1>2, <2>2, <2>3, <2>4, NoneKeptSame, AbsorbHandles
  <2>5. CASE outcome # "fails"
    <3> DEFINE ret == [Results(f, m, NoExport) EXCEPT !.small = (outcome = "small"),
                                                      !.obj = server[f][x]]
    <3>1. Results(f, m, NoExport) \in Return
      BY <1>1, ResultsType
    <3>2. ret \in Return
      BY <2>1, <3>1 DEF Return
    <3>3. ret.qid = m.qid /\ ret.for = m.type
      BY DEF Results
    <3>4. Answer(f, <<ret>>)
      BY <2>3, <2>5 DEF FlushAnswer
    <3> HIDE DEF ret
    <3> QED BY <1>1, <1>2, <2>2, <3>2, <3>3, <3>4, NoneKeptSame, RepliesHandles
  <2> QED BY <2>4, <2>5
<1> QED BY <1>3, <1>4

\* A vat that answers a call with an introduction answers the question.
LEMMA ReturnsIntroductionHandles ==
  ASSUME NEW f \in Ends, TypeInv, ReturnsIntroduction(f)
  PROVE  Handles(f)
<1> DEFINE m == Head(inbox[f])
<1>1. PICK s \in Servers, n \in Nonces :
        LET x   == ExportId(f, s)
            ret == Results(f, m, NoExport)
        IN  /\ Given(f, "Call")
            /\ x # NoExport
            /\ Answer(f, <<[ret EXCEPT !.intros = <<[nonce |-> n, vine |-> x, fits |-> TRUE]>>]>>)
            /\ UNCHANGED <<bootstrap, answers, joins, clientVars, handoffVars>>
  BY DEF ReturnsIntroduction
<1> DEFINE x == ExportId(f, s)
           intros == <<[nonce |-> n, vine |-> x, fits |-> TRUE]>>
           ret == [Results(f, m, NoExport) EXCEPT !.intros = intros]
<1>2. inbox[f] # <<>> /\ m.qid \in QuestionIds /\ m.type \in RequestTypes
  BY <1>1, HandlerFacts DEF RequestTypes
<1>3. x \in ExportIds
  BY <1>1, ExportIdType DEF TypeInv, TypeOK
<1>4. intros \in Seq(Descriptor)
  BY <1>3 DEF Descriptor
<1>5. ret \in Return
  <2>1. Results(f, m, NoExport) \in Return
    BY <1>2, ResultsType
  <2> HIDE DEF intros
  <2> QED BY <1>4, <2>1 DEF Return
<1>6. ret.qid = m.qid /\ ret.for = m.type
  BY DEF Results
<1>7. Answer(f, <<ret>>)
  BY <1>1
<1>8. UNCHANGED <<joins, provisions>> /\ UNCHANGED <<questions, nextQid>>
  BY <1>1 DEF clientVars, handoffVars
<1> HIDE DEF ret, m
<1> QED BY <1>2, <1>5, <1>6, <1>7, <1>8, NoneKeptSame, RepliesHandles DEF m

\* handle_provide answers the question, and what it arranges is not under an embargo.
LEMMA ProvideHandles ==
  ASSUME NEW f \in Ends, TypeInv, RecvProvide(f)
  PROVE  Handles(f)
<1> DEFINE m    == Head(inbox[f])
           v    == VatOf[f]
           eid  == ResolveTarget(f, m.target)
           free == {i \in ProvisionSlots : provisions[v][i] = NoProvision}
<1>1. inbox[f] # <<>> /\ m.qid \in QuestionIds /\ m.type \in RequestTypes
  BY HandlerFacts DEF RecvProvide, RequestTypes
<1>2. UNCHANGED <<questions, nextQid>>
  BY DEF RecvProvide, clientVars
<1>3. CASE eid = NoExport \/ m.nonce = NoNonce \/ free = {}
  <2>1. Refuse(f, m) /\ UNCHANGED provisions
    BY <1>3 DEF RecvProvide, HandleProvide
  <2> QED BY <1>1, <1>2, <2>1, RefuseHandles
<1>4. CASE eid # NoExport /\ m.nonce # NoNonce /\ free # {}
  <2> DEFINE ret == Results(f, m, NoExport)
             new == [nonce |-> m.nonce, server |-> server[f][eid], eid |-> eid, qid |-> m.qid,
                     embargoed |-> FALSE, aqid |-> NoExport, from |-> f, by |-> NoEnd]
             i0  == First(free)
  <2>1. /\ provisions' = [provisions EXCEPT ![v][i0] = new]
        /\ Answer(f, <<ret>>) /\ UNCHANGED joins
    BY <1>4 DEF RecvProvide, HandleProvide, FlushAnswer
  <2>2. i0 \in ProvisionSlots /\ provisions[v][i0] = NoProvision
    BY <1>4, FirstInNat, Ranges
  <2>3. v \in Vats /\ ~new.embargoed
    BY HandoffAssumption DEF HandoffAssumption
  <2>4. ret \in Return
    BY <1>1, ResultsType
  <2>5. ret.qid = m.qid /\ ret.for = m.type
    BY DEF Results
  <2> HIDE DEF ret, new, i0, v
  <2>6. NoneKept
    BY <2>1, <2>2, <2>3, NoneKeptFree
  <2> QED BY <1>1, <1>2, <2>1, <2>4, <2>5, <2>6, RepliesHandles
<1> QED BY <1>3, <1>4

\* answer_drop, handle_release and send_unimplemented answer no question.
LEMMA NoticesHandle ==
  ASSUME NEW f \in Ends, TypeInv, RecvFinish(f) \/ RecvRelease(f) \/ RecvOther(f)
  PROVE  Handles(f)
<1>1. CASE RecvFinish(f) \/ RecvRelease(f)
  <2>1. /\ inbox[f] # <<>> /\ ~Given(f, "Return")
    BY <1>1, HandlerFacts DEF RecvFinish, RecvRelease
  <2>2. Absorb(f) /\ UNCHANGED <<joins, provisions>> /\ UNCHANGED <<questions, nextQid>>
    BY <1>1 DEF RecvFinish, RecvRelease, HandleFinish, HandleRelease, clientVars, handoffVars
  <2> QED BY <2>1, <2>2, NoneKeptSame, AbsorbHandles
<1>2. CASE RecvOther(f)
  <2>1. inbox[f] # <<>> /\ ~Given(f, "Return")
    BY <1>2, HandlerFacts DEF RecvOther
  <2>2. PICK msgs \in Seq(Message) :
          Answer(f, msgs) /\ \A k \in 1 .. Len(msgs) : msgs[k].type = "Unimplemented"
    BY <1>2, Echoes DEF TypeInv
  <2>3. UNCHANGED <<joins, provisions>> /\ UNCHANGED <<questions, nextQid>>
    BY <1>2 DEF RecvOther, HandleUnimplemented, serverVars, clientVars, handoffVars
  <2>4. \A k \in 1 .. Len(msgs) : msgs[k].type \notin RequestTypes /\ msgs[k].type # "Return"
    BY <2>2 DEF RequestTypes
  <2> QED BY <2>1, <2>2, <2>3, <2>4, NoneKeptSame, SilentHandles
<1> QED BY <1>1, <1>2

\* Any handler that accounts for every question.
LEMMA HandlesBySending ==
  ASSUME NEW f \in Ends, NEW msgs \in Seq(Message), Answer(f, msgs),
         \A k \in 1 .. Len(msgs) : msgs[k].type \notin RequestTypes,
         \A q \in QuestionIds : Handled(Peer[f], q, msgs),
         \A d \in Ends \ {Peer[f]}, q \in QuestionIds :
           Parts(d, q)' = Parts(d, q) /\ Embargoes(d, q)' = Embargoes(d, q),
         inbox[f] # <<>>, ~Given(f, "Return"), UNCHANGED <<questions, nextQid>>
  PROVE  Handles(f)
BY DEF Handles

\* What OnePlace says of a question that is somewhere.
LEMMA OnePlaceFacts ==
  ASSUME NEW e \in Ends, NEW q \in QuestionIds, OnePlace
  PROVE  /\ Asking(e, q) # {} => Returning(e, q) = {} /\ Parts(e, q) = {} /\ Embargoes(e, q) = {}
         /\ \A x, y \in Parts(e, q) : x = y
         /\ \A x, y \in Embargoes(e, q) : x = y
         /\ Embargoes(e, q) # {} => Returning(e, q) = {} /\ Answered(e, q) = {}
<1>1. Places(e, q) <= 1
  BY DEF OnePlace
<1>2. /\ Tally(Asking(e, q)) \in 0 .. 2 /\ Tally(Returning(e, q)) \in 0 .. 2
      /\ Tally(Parts(e, q)) \in 0 .. 2 /\ Tally(Embargoes(e, q)) \in 0 .. 2
      /\ Tally(Answered(e, q)) \in 0 .. 2
      /\ (Tally(Asking(e, q)) = 0 <=> Asking(e, q) = {})
      /\ (Tally(Returning(e, q)) = 0 <=> Returning(e, q) = {})
      /\ (Tally(Parts(e, q)) = 0 <=> Parts(e, q) = {})
      /\ (Tally(Embargoes(e, q)) = 0 <=> Embargoes(e, q) = {})
      /\ (Tally(Answered(e, q)) = 0 <=> Answered(e, q) = {})
  BY PlacesFacts
<1>3. /\ Asking(e, q) # {} => Returning(e, q) = {} /\ Parts(e, q) = {} /\ Embargoes(e, q) = {}
      /\ Tally(Parts(e, q)) <= 1 /\ Tally(Embargoes(e, q)) <= 1
      /\ Embargoes(e, q) # {} => Returning(e, q) = {} /\ Answered(e, q) = {}
  BY <1>1, <1>2 DEF Places
<1> QED BY <1>3, TallyFacts

\* The request that a handler at f was given is where its question is.
LEMMA ServedFacts ==
  ASSUME NEW f \in Ends, TypeInv, OnePlace, inbox[f] # <<>>, NEW q \in QuestionIds,
         Served(Peer[f], q)
  PROVE  Parts(Peer[f], q) = {} /\ Embargoes(Peer[f], q) = {}
<1>1. Peer[f] \in Ends /\ Peer[Peer[f]] = f
  BY PeerFacts
<1>2. inbox[f] \in Seq(Message)
  BY DEF TypeInv, TypeOK
<1>3. 1 \in DOMAIN inbox[f] /\ inbox[f][1] = Head(inbox[f])
  BY <1>2
<1>4. 1 \in Asking(Peer[f], q)
  BY <1>1, <1>3 DEF Asking, Served
<1> QED BY <1>1, <1>4, OnePlaceFacts

\* Provision i of vat v keeps the Accept with id qid that f was sent.
EmbargoTaken(f, qid, v, i) ==
  /\ \A d \in Ends, q \in QuestionIds :
       /\ Parts(d, q)' = Parts(d, q)
       /\ ~(d = Peer[f] /\ q = qid) => Embargoes(d, q)' = Embargoes(d, q)
  /\ Embargoes(Peer[f], qid)' = Embargoes(Peer[f], qid) \cup {<<v, i>>}

\* What handle_accept does to the embargoes when it keeps an Accept.
LEMMA EmbargoKeeps ==
  ASSUME NEW f \in Ends, TypeInv, UNCHANGED joins, NEW qid \in QuestionIds,
         NEW v \in Vats, NEW i \in ProvisionSlots, NEW p \in Provision,
         provisions[v][i] # NoProvision, ~provisions[v][i].embargoed,
         p.embargoed, p.aqid = qid, p.by = f,
         provisions' = [provisions EXCEPT ![v][i] = p]
  PROVE  EmbargoTaken(f, qid, v, i)
<1>1. provisions \in [Vats -> [ProvisionSlots -> Provision \cup {NoProvision}]]
  BY DEF TypeInv, TypeOK, HandoffTypeOK
<1>2. \A w \in Vats, k \in ProvisionSlots :
        provisions'[w][k] = IF w = v /\ k = i THEN p ELSE provisions[w][k]
  BY <1>1
<1>3. p # NoProvision
  BY UnusedAssumption
<1>4. ASSUME NEW d \in Ends, NEW q \in QuestionIds, ~(d = Peer[f] /\ q = qid)
      PROVE  Embargoes(d, q)' = Embargoes(d, q)
  <2>1. ~(p.by = Peer[d] /\ p.aqid = q)
    BY <1>4, PeerFacts
  <2> QED BY <1>2, <2>1 DEF Embargoes
<1>5. \A d \in Ends, q \in QuestionIds : Parts(d, q)' = Parts(d, q)
  BY DEF Parts
<1>6. Embargoes(Peer[f], qid)' = Embargoes(Peer[f], qid) \cup {<<v, i>>}
  <2>1. p.by = Peer[Peer[f]]
    BY PeerFacts
  <2>2. <<v, i>> \in Vats \X ProvisionSlots /\ <<v, i>>[1] = v /\ <<v, i>>[2] = i
    OBVIOUS
  <2>3. ASSUME NEW vi \in Vats \X ProvisionSlots
        PROVE  vi \in Embargoes(Peer[f], qid)' <=> vi \in Embargoes(Peer[f], qid) \/ vi = <<v, i>>
    <3>1. vi = <<vi[1], vi[2]>> /\ vi[1] \in Vats /\ vi[2] \in ProvisionSlots
      OBVIOUS
    <3>2. CASE vi[1] = v /\ vi[2] = i
      <4>1. provisions'[vi[1]][vi[2]] = p /\ vi = <<v, i>>
        BY <1>2, <3>1, <3>2
      <4> QED BY <1>3, <2>1, <4>1 DEF Embargoes
    <3>3. CASE ~(vi[1] = v /\ vi[2] = i)
      <4>1. provisions'[vi[1]][vi[2]] = provisions[vi[1]][vi[2]] /\ vi # <<v, i>>
        BY <1>2, <3>1, <3>3
      <4> QED BY <4>1 DEF Embargoes
    <3> QED BY <3>2, <3>3
  <2>4. Embargoes(Peer[f], qid)' \subseteq Vats \X ProvisionSlots
        /\ Embargoes(Peer[f], qid) \subseteq Vats \X ProvisionSlots
    BY DEF Embargoes
  <2> QED BY <2>2, <2>3, <2>4
<1> QED BY <1>4, <1>5, <1>6 DEF EmbargoTaken

\* handle_accept answers the question, or keeps it under an embargo.
LEMMA AcceptHandles ==
  ASSUME NEW f \in Ends, TypeInv, OnePlace, RecvAccept(f)
  PROVE  Handles(f)
<1> DEFINE m     == Head(inbox[f])
           v     == VatOf[f]
           match == Claimable(v, m.nonce)
           i0    == First(match)
           p     == provisions[v][i0]
           x     == ExportId(f, p.server)
<1>1. /\ inbox[f] # <<>> /\ m.qid \in QuestionIds /\ m.type \in RequestTypes
      /\ m \in Message /\ m.type = "Accept" /\ ~Given(f, "Return")
  BY HandlerFacts DEF RecvAccept, RequestTypes
<1>2. UNCHANGED <<questions, nextQid>>
  BY DEF RecvAccept, clientVars
<1>3. CASE match = {} \/ x = NoExport
  <2>1. Refuse(f, m) /\ UNCHANGED provisions
    BY <1>3 DEF RecvAccept, HandleAccept
  <2> QED BY <1>1, <1>2, <2>1, RefuseHandles
<1>4. CASE match # {} /\ x # NoExport
  <2>1. Grant(f, m, i0, x)
    BY <1>4 DEF RecvAccept, HandleAccept
  <2>2. v \in Vats
    BY HandoffAssumption DEF HandoffAssumption
  <2>3. i0 \in ProvisionSlots /\ p # NoProvision /\ ~p.embargoed
    BY <1>4, FirstInNat, Ranges DEF Claimable
  <2>4. p \in Provision
    <3> HIDE DEF v, i0
    <3> QED BY <2>2, <2>3 DEF TypeInv, TypeOK, HandoffTypeOK
  <2>5. p.server \in Servers
    <3> HIDE DEF p
    <3> QED BY <2>4 DEF Provision
  <2>6. x \in ExportIds
    <3> HIDE DEF p
    <3> QED BY <1>4, <2>5, ExportIdType DEF TypeInv, TypeOK
  <2>7. UNCHANGED joins
    BY <2>1 DEF Grant
  <2>8. CASE ~m.embargo
    <3> DEFINE ret == [Results(f, m, x) EXCEPT !.obj = p.server]
    <3>1. /\ provisions' = [provisions EXCEPT ![v][i0] = NoProvision]
          /\ Answer(f, <<ret>>)
      BY <2>1, <2>8 DEF Grant, FlushAnswer
    <3>2. ret \in Return
      <4> HIDE DEF x, p
      <4>1. Results(f, m, x) \in Return
        BY <1>1, <2>6, ResultsType
      <4> QED BY <2>5, <4>1 DEF Return
    <3>3. ret.qid = m.qid /\ ret.for = m.type
      BY DEF Results
    <3> HIDE DEF ret, v, i0
    <3>4. NoneKept
      BY <2>2, <2>3, <2>7, <3>1, NoneKeptFree
    <3> QED BY <1>1, <1>2, <3>1, <3>2, <3>3, <3>4, RepliesHandles
  <2>9. CASE m.embargo
    <3> DEFINE new == [p EXCEPT !.eid = x, !.embargoed = TRUE, !.aqid = m.qid, !.by = f]
    <3>1. provisions' = [provisions EXCEPT ![v][i0] = new] /\ Absorb(f)
      BY <2>1, <2>9 DEF Grant
    <3>2. new \in Provision /\ new.embargoed /\ new.aqid = m.qid /\ new.by = f
      <4> HIDE DEF p, x
      <4> QED BY <1>1, <2>4, <2>6 DEF Provision
    <3>3. Peer[f] \in Ends /\ Peer[Peer[f]] = f
      BY PeerFacts
    <3> HIDE DEF new, v, i0, m
    <3>4. PICK qid \in QuestionIds, w \in Vats, k \in ProvisionSlots, np \in Provision :
            qid = m.qid /\ w = v /\ k = i0 /\ np = new
      BY <1>1, <2>2, <2>3, <3>2
    <3>5. EmbargoTaken(f, qid, w, k)
      BY <2>3, <2>7, <3>1, <3>2, <3>4, EmbargoKeeps
    <3>6. << >> \in Seq(Message)
      OBVIOUS
    <3>7. PICK msgs \in Seq(Message) : msgs = << >>
      BY <3>6
    <3>8. \A q \in QuestionIds : Returns(msgs, q) = {}
      BY <3>7 DEF Returns
    <3>9. ASSUME NEW q \in QuestionIds
          PROVE  Handled(Peer[f], q, msgs)
      <4>1. Parts(Peer[f], q)' = Parts(Peer[f], q)
        BY <3>3, <3>5 DEF EmbargoTaken
      <4>2. CASE q = qid
        <5>1. Served(Peer[f], q)
          BY <1>1, <3>3, <3>4, <4>2 DEF Served, m
        <5>2. Embargoes(Peer[f], q) = {}
          BY <1>1, <5>1, ServedFacts
        <5>3. Embargoes(Peer[f], q)' = {<<w, k>>}
          BY <3>5, <4>2, <5>2 DEF EmbargoTaken
        <5>4. Tally(Embargoes(Peer[f], q)') = 1
          BY <5>3, TallyOne
        <5> QED BY <1>1, <3>3, <3>8, <4>1, <5>1, <5>4 DEF Handled, m
      <4>3. CASE q # qid
        <5>1. Embargoes(Peer[f], q)' = Embargoes(Peer[f], q)
          BY <3>3, <3>5, <4>3 DEF EmbargoTaken
        <5> QED BY <3>8, <4>1, <5>1 DEF Handled
      <4> QED BY <4>2, <4>3
    <3>10. \A d \in Ends \ {Peer[f]}, q \in QuestionIds :
             Parts(d, q)' = Parts(d, q) /\ Embargoes(d, q)' = Embargoes(d, q)
      BY <3>5 DEF EmbargoTaken
    <3>11. Answer(f, msgs) /\ \A h \in 1 .. Len(msgs) : msgs[h].type \notin RequestTypes
      BY <3>1, <3>7 DEF Absorb
    <3> QED BY <1>1, <1>2, <3>9, <3>10, <3>11, HandlesBySending
  <2> QED BY <2>8, <2>9
<1> QED BY <1>3, <1>4

\* The embargo on the Accept with id qid that f was sent is gone.
EmbargoLifted(f, qid) ==
  /\ \A d \in Ends, q \in QuestionIds :
       /\ Parts(d, q)' = Parts(d, q)
       /\ ~(d = Peer[f] /\ q = qid) => Embargoes(d, q)' = Embargoes(d, q)
  /\ Embargoes(Peer[f], qid) # {} /\ Embargoes(Peer[f], qid)' = {}

\* What release_provide_embargo does to the embargoes.
LEMMA EmbargoDrops ==
  ASSUME NEW f \in Ends, TypeInv, OnePlace, UNCHANGED joins, NEW qid \in QuestionIds,
         NEW v \in Vats, NEW i \in ProvisionSlots, provisions[v][i] # NoProvision,
         provisions[v][i].embargoed, provisions[v][i].aqid = qid, provisions[v][i].by = f,
         provisions' = [provisions EXCEPT ![v][i] = NoProvision]
  PROVE  EmbargoLifted(f, qid)
<1>1. provisions \in [Vats -> [ProvisionSlots -> Provision \cup {NoProvision}]]
  BY DEF TypeInv, TypeOK, HandoffTypeOK
<1>2. \A w \in Vats, k \in ProvisionSlots :
        provisions'[w][k] = IF w = v /\ k = i THEN NoProvision ELSE provisions[w][k]
  BY <1>1
<1>3. Peer[f] \in Ends /\ Peer[Peer[f]] = f
  BY PeerFacts
<1>4. ASSUME NEW d \in Ends, NEW q \in QuestionIds, ~(d = Peer[f] /\ q = qid)
      PROVE  Embargoes(d, q)' = Embargoes(d, q)
  <2>1. ~(provisions[v][i].by = Peer[d] /\ provisions[v][i].aqid = q)
    BY <1>4, PeerFacts
  <2> QED BY <1>2, <2>1 DEF Embargoes
<1>5. \A d \in Ends, q \in QuestionIds : Parts(d, q)' = Parts(d, q)
  BY DEF Parts
<1>6. <<v, i>> \in Vats \X ProvisionSlots /\ <<v, i>>[1] = v /\ <<v, i>>[2] = i
  OBVIOUS
<1>7. <<v, i>> \in Embargoes(Peer[f], qid)
  BY <1>3, <1>6 DEF Embargoes
<1>8. \A vi \in Embargoes(Peer[f], qid) : vi = <<v, i>>
  BY <1>3, <1>7, OnePlaceFacts
<1>9. ASSUME NEW vi \in Embargoes(Peer[f], qid)'
      PROVE  FALSE
  <2>1. vi \in Vats \X ProvisionSlots /\ provisions'[vi[1]][vi[2]] # NoProvision
    BY <1>9 DEF Embargoes
  <2>2. vi[1] \in Vats /\ vi[2] \in ProvisionSlots /\ vi = <<vi[1], vi[2]>>
    BY <2>1
  <2>3. provisions'[vi[1]][vi[2]] = provisions[vi[1]][vi[2]] /\ vi # <<v, i>>
    BY <1>2, <2>1, <2>2
  <2>4. vi \in Embargoes(Peer[f], qid)
    BY <1>9, <2>1, <2>3 DEF Embargoes
  <2> QED BY <1>8, <2>3, <2>4
<1>10. Embargoes(Peer[f], qid)' = {}
  BY <1>9
<1> QED BY <1>4, <1>5, <1>7, <1>10 DEF EmbargoLifted

\* The Return that a handler sends reaches the end that asked.
LEMMA SentIsDelivered ==
  ASSUME NEW f \in Ends, TypeInv, inbox[f] # <<>>, NEW ret \in Return, Answer(f, <<ret>>),
         EmbargoedAcceptsReachClaimant'
  PROVE  ret.to = Peer[f]
<1>1. Peer[f] \in Ends /\ Peer[f] # f
  BY PeerFacts
<1>2. inbox[Peer[f]] \in Seq(Message) /\ inbox \in [Ends -> Seq(Message)]
  BY <1>1 DEF TypeInv, TypeOK
<1>3. inbox'[Peer[f]] = inbox[Peer[f]] \o <<ret>>
  BY <1>1, <1>2 DEF Answer
<1>4. /\ Len(inbox[Peer[f]]) + 1 \in DOMAIN inbox'[Peer[f]]
      /\ inbox'[Peer[f]][Len(inbox[Peer[f]]) + 1] = ret
  BY <1>2, <1>3 DEF Message
<1>5. ret.type = "Return"
  BY DEF Return
<1> QED BY <1>1, <1>4, <1>5 DEF EmbargoedAcceptsReachClaimant

\* handle_disembargo answers no question, or the one whose embargo it lifts, if that
\* was asked on this connection.
LEMMA DisembargoHandles ==
  ASSUME NEW f \in Ends, TypeInv, OnePlace, RecvDisembargo(f), EmbargoedAcceptsReachClaimant'
  PROVE  Handles(f)
<1> DEFINE m    == Head(inbox[f])
           v    == VatOf[f]
           held == {i \in ProvisionSlots : /\ provisions[v][i] # NoProvision
                                           /\ provisions[v][i].embargoed
                                           /\ provisions[v][i].qid = m.id}
           i0   == First(held)
           p    == provisions[v][i0]
<1>1. inbox[f] # <<>> /\ m \in Message /\ m.type = "Disembargo" /\ ~Given(f, "Return")
  BY HandlerFacts DEF RecvDisembargo
<1>2. UNCHANGED <<questions, nextQid>>
  BY DEF RecvDisembargo, clientVars
<1>3. CASE HandleDisembargo(f, m) /\ UNCHANGED handoffVars
  <2> DEFINE echo == [m EXCEPT !.context = "receiverLoopback"]
             msgs == IF m.context = "senderLoopback" THEN <<echo>> ELSE <<>>
  <2>1. Answer(f, msgs) /\ UNCHANGED <<joins, provisions>>
    BY <1>3 DEF HandleDisembargo, serverVars, handoffVars
  <2>2. m \in [type : {"Disembargo"}, id : Nat,
               context : {"senderLoopback", "receiverLoopback", "accept", "provide"}]
    BY <1>1, MessageFields
  <2>3. echo \in Message /\ echo.type = "Disembargo"
    BY <2>2 DEF Message, Notice
  <2> HIDE DEF echo
  <2>4. /\ msgs \in Seq(Message)
        /\ \A k \in 1 .. Len(msgs) : msgs[k].type \notin RequestTypes /\ msgs[k].type # "Return"
    BY <2>3 DEF RequestTypes
  <2> HIDE DEF msgs
  <2> QED BY <1>1, <1>2, <2>1, <2>4, NoneKeptSame, SilentHandles
<1>4. CASE HandleDisembargoProvide(f, m)
  <2>1. v \in Vats
    BY HandoffAssumption DEF HandoffAssumption
  <2>2. CASE held = {}
    <3>1. Absorb(f) /\ UNCHANGED <<joins, provisions>>
      BY <1>4, <2>2 DEF HandleDisembargoProvide
    <3> QED BY <1>1, <1>2, <3>1, NoneKeptSame, AbsorbHandles
  <2>3. CASE held # {}
    <3> DEFINE ret == [Results(f, [qid |-> p.aqid, type |-> "Accept"], p.eid)
                         EXCEPT !.to = Peer[p.by], !.obj = p.server]
    <3>1. /\ provisions' = [provisions EXCEPT ![v][i0] = NoProvision]
          /\ Answer(f, <<ret>>) /\ UNCHANGED joins
      BY <1>4, <2>3 DEF HandleDisembargoProvide, FlushAnswer
    <3>2. i0 \in ProvisionSlots /\ p # NoProvision /\ p.embargoed
      BY <2>3, FirstInNat, Ranges
    <3>3. p \in Provision /\ p.aqid \in QuestionIds /\ p.by \in Ends
      <4> HIDE DEF v, i0
      <4> QED BY <2>1, <3>2 DEF TypeInv, TypeOK, HandoffTypeOK, EmbargoedAreClaimed
    <3>4. p.eid \in ExportIds /\ p.server \in Servers /\ Peer[p.by] \in Ends
      <4> HIDE DEF p
      <4> QED BY <3>3, PeerFacts DEF Provision
    <3>5. /\ ret \in Return /\ ret.to = Peer[p.by] /\ ret.qid = p.aqid /\ ret.for = "Accept"
          /\ ret.type = "Return"
      <4> HIDE DEF p
      <4>1. Results(f, [qid |-> p.aqid, type |-> "Accept"], p.eid) \in Return
        BY <3>3, <3>4, ResultsType DEF RequestTypes
      <4> QED BY <4>1, <3>4 DEF Return, Results
    <3> HIDE DEF ret, v, i0, m, held
    <3>6. p.by = f
      <4>1. ret.to = Peer[f]
        BY <1>1, <3>1, <3>5, SentIsDelivered DEF m
      <4> HIDE DEF p
      <4>2. Peer[Peer[p.by]] = p.by /\ Peer[Peer[f]] = f
        BY <3>3, PeerFacts
      <4> QED BY <3>5, <4>1, <4>2
    <3>7. PICK qid \in QuestionIds, w \in Vats, k \in ProvisionSlots :
            qid = p.aqid /\ w = v /\ k = i0
      BY <2>1, <3>2, <3>3
    <3>8. EmbargoLifted(f, qid)
      BY <3>1, <3>2, <3>6, <3>7, EmbargoDrops
    <3>9. <<ret>> \in Seq(Message)
      BY <3>5 DEF Message
    <3>10. PICK msgs \in Seq(Message) : msgs = <<ret>>
      BY <3>9
    <3>11. Peer[f] \in Ends /\ Peer[Peer[f]] = f
      BY PeerFacts
    <3>12. ASSUME NEW q \in QuestionIds
           PROVE  Handled(Peer[f], q, msgs)
      <4>1. Parts(Peer[f], q)' = Parts(Peer[f], q)
        BY <3>8, <3>11 DEF EmbargoLifted
      <4>2. CASE q = qid
        <5>1. Returns(msgs, q) = {1}
          BY <3>5, <3>7, <3>10, <4>2 DEF Returns
        <5>2. /\ Tally(Returns(msgs, q)) = 1
              /\ \A k1 \in Returns(msgs, q) : msgs[k1].for = "Accept"
          <6>1. Tally(Returns(msgs, q)) = 1
            BY <5>1, TallyOne
          <6>2. msgs[1].for = "Accept"
            BY <3>5, <3>10
          <6> QED BY <5>1, <6>1, <6>2
        <5>3. Embargoes(Peer[f], q) # {} /\ Embargoes(Peer[f], q)' = {}
          BY <3>8, <4>2 DEF EmbargoLifted
        <5> QED BY <4>1, <5>2, <5>3 DEF Handled
      <4>3. CASE q # qid
        <5>1. Returns(msgs, q) = {}
          BY <3>5, <3>7, <3>10, <4>3 DEF Returns
        <5>2. Embargoes(Peer[f], q)' = Embargoes(Peer[f], q)
          BY <3>8, <3>11, <4>3 DEF EmbargoLifted
        <5> QED BY <4>1, <5>1, <5>2 DEF Handled
      <4> QED BY <4>2, <4>3
    <3>13. \A d \in Ends \ {Peer[f]}, q \in QuestionIds :
             Parts(d, q)' = Parts(d, q) /\ Embargoes(d, q)' = Embargoes(d, q)
      BY <3>8 DEF EmbargoLifted
    <3>14. Answer(f, msgs) /\ \A h \in 1 .. Len(msgs) : msgs[h].type \notin RequestTypes
      BY <3>1, <3>5, <3>10 DEF RequestTypes
    <3> QED BY <1>1, <1>2, <3>12, <3>13, <3>14, HandlesBySending
  <2> QED BY <2>2, <2>3
<1> QED BY <1>3, <1>4 DEF RecvDisembargo

-----------------------------------------------------------------------------
(* Join *)

\* seen holds the parts that slot of f has recorded.
PartsSeen(f, slot, seen) ==
  seen = IF joins[f][slot] = NoJoin THEN NoParts ELSE joins[f][slot].parts

\* parts are those that slot of f has recorded, and part, which is new.
PartAdded(f, slot, pnum, seen, part, parts) ==
  PartsSeen(f, slot, seen) /\ seen[pnum] = NoPart /\ parts = [seen EXCEPT ![pnum] = part]

\* The questions whose parts are in this slot.
LEMMA PartsSeenFacts ==
  ASSUME NEW f \in Ends, NEW slot \in JoinSlots, NEW seen, PartsSeen(f, slot, seen),
         NEW p \in PartNums, NEW q
  PROVE  <<slot, p>> \in Parts(Peer[f], q) <=> seen[p] # NoPart /\ seen[p].qid = q
<1>1. Peer[Peer[f]] = f
  BY PeerFacts
<1>2. /\ <<slot, p>> \in JoinSlots \X PartNums
      /\ <<slot, p>>[1] = slot /\ <<slot, p>>[2] = p
  OBVIOUS
<1>3. <<slot, p>> \in Parts(Peer[f], q) <=>
        /\ joins[f][slot] # NoJoin /\ joins[f][slot].parts[p] # NoPart
        /\ joins[f][slot].parts[p].qid = q
  BY <1>1, <1>2 DEF Parts
<1>4. CASE joins[f][slot] = NoJoin
  BY <1>3, <1>4 DEF PartsSeen, NoParts
<1>5. CASE joins[f][slot] # NoJoin
  BY <1>3, <1>5 DEF PartsSeen
<1> QED BY <1>4, <1>5

\* A change of one Join slot of f: the parts in other slots and at other ends stay.
LEMMA OtherPartsUnmoved ==
  ASSUME NEW f \in Ends, TypeInv, NEW slot \in JoinSlots, NEW j,
         joins' = [joins EXCEPT ![f][slot] = j]
  PROVE  /\ \A d \in Ends \ {Peer[f]}, q \in QuestionIds : Parts(d, q)' = Parts(d, q)
         /\ \A q \in QuestionIds, jp \in JoinSlots \X PartNums :
              jp[1] # slot => (jp \in Parts(Peer[f], q)' <=> jp \in Parts(Peer[f], q))
         /\ joins'[f][slot] = j
<1>1. joins \in [Ends -> [JoinSlots -> JoinSet \cup {NoJoin}]]
  BY DEF TypeInv, TypeOK, ServerTypeOK
<1>2. ASSUME NEW d \in Ends \ {Peer[f]}, NEW q \in QuestionIds
      PROVE  Parts(d, q)' = Parts(d, q)
  <2>1. Peer[d] \in Ends /\ Peer[d] # f
    BY PeerFacts
  <2>2. joins'[Peer[d]] = joins[Peer[d]]
    BY <1>1, <2>1
  <2> QED BY <2>2 DEF Parts
<1>3. ASSUME NEW q \in QuestionIds, NEW jp \in JoinSlots \X PartNums, jp[1] # slot
      PROVE  jp \in Parts(Peer[f], q)' <=> jp \in Parts(Peer[f], q)
  <2>1. Peer[Peer[f]] = f
    BY PeerFacts
  <2>2. joins'[f][jp[1]] = joins[f][jp[1]]
    BY <1>1, <1>3
  <2> QED BY <2>1, <2>2 DEF Parts
<1>4. joins'[f][slot] = j
  BY <1>1
<1> QED BY <1>2, <1>3, <1>4

\* The embargoes depend on the provisions alone.
LEMMA EmbargoesUnmoved ==
  ASSUME UNCHANGED provisions
  PROVE  \A d \in Ends, q \in QuestionIds : Embargoes(d, q)' = Embargoes(d, q)
BY DEF Embargoes

\* Of question q, what the peer of the asker keeps has grown by this part or not at all.
PartKept(f, slot, pnum, part, q) ==
  Parts(Peer[f], q)' = Parts(Peer[f], q) \cup (IF part.qid = q THEN {<<slot, pnum>>} ELSE {})

\* handle_join keeps a part: it is the only one that is new.
LEMMA PartKeeps ==
  ASSUME NEW f \in Ends, TypeInv, NEW slot \in JoinSlots, NEW pnum \in PartNums,
         NEW seen \in [PartNums -> Part \cup {NoPart}], NEW part \in Part,
         NEW j \in JoinSet, PartAdded(f, slot, pnum, seen, part, j.parts),
         joins' = [joins EXCEPT ![f][slot] = j], NEW q \in QuestionIds
  PROVE  PartKept(f, slot, pnum, part, q)
<1>0. /\ PartsSeen(f, slot, seen) /\ seen[pnum] = NoPart
      /\ j.parts = [seen EXCEPT ![pnum] = part]
  BY DEF PartAdded
<1> DEFINE new == IF part.qid = q THEN {<<slot, pnum>>} ELSE {}
<1>1. joins'[f][slot] = j
  BY OtherPartsUnmoved
<1>2. j # NoJoin /\ part # NoPart
  BY UnusedSlotsAssumption
<1>3. Peer[Peer[f]] = f
  BY PeerFacts
<1>4. ASSUME NEW p \in PartNums
      PROVE  <<slot, p>> \in Parts(Peer[f], q)' <=> <<slot, p>> \in Parts(Peer[f], q) \cup new
  <2>1. /\ <<slot, p>> \in JoinSlots \X PartNums
        /\ <<slot, p>>[1] = slot /\ <<slot, p>>[2] = p
    OBVIOUS
  <2>2. <<slot, p>> \in Parts(Peer[f], q)' <=> j.parts[p] # NoPart /\ j.parts[p].qid = q
    BY <1>1, <1>2, <1>3, <2>1 DEF Parts
  <2>3. <<slot, p>> \in Parts(Peer[f], q) <=> seen[p] # NoPart /\ seen[p].qid = q
    BY <1>0, PartsSeenFacts
  <2>4. j.parts[p] = IF p = pnum THEN part ELSE seen[p]
    BY <1>0
  <2>5. CASE p = pnum
    BY <1>0, <1>2, <2>2, <2>3, <2>4, <2>5
  <2>6. CASE p # pnum
    <3>1. <<slot, p>> # <<slot, pnum>>
      BY <2>6
    <3> QED BY <2>2, <2>3, <2>4, <2>6, <3>1
  <2> QED BY <2>5, <2>6
<1>5. ASSUME NEW jp \in JoinSlots \X PartNums
      PROVE  jp \in Parts(Peer[f], q)' <=> jp \in Parts(Peer[f], q) \cup new
  <2>1. jp = <<jp[1], jp[2]>> /\ jp[1] \in JoinSlots /\ jp[2] \in PartNums
    OBVIOUS
  <2>2. CASE jp[1] = slot
    BY <1>4, <2>1, <2>2
  <2>3. CASE jp[1] # slot
    <3>1. jp \notin new
      BY <2>3
    <3>2. jp \in Parts(Peer[f], q)' <=> jp \in Parts(Peer[f], q)
      BY <2>3, OtherPartsUnmoved
    <3> QED BY <3>1, <3>2
  <2> QED BY <2>2, <2>3
<1>6. new \subseteq JoinSlots \X PartNums
  OBVIOUS
<1> HIDE DEF new
<1>7. Parts(Peer[f], q)' \subseteq JoinSlots \X PartNums
      /\ Parts(Peer[f], q) \subseteq JoinSlots \X PartNums
  BY DEF Parts
<1>8. Parts(Peer[f], q)' = Parts(Peer[f], q) \cup new
  BY <1>5, <1>6, <1>7
<1> QED BY <1>8 DEF new, PartKept

\* join_complete: the parts of the slot are gone, and no others.
LEMMA PartsDrop ==
  ASSUME NEW f \in Ends, TypeInv, NEW slot \in JoinSlots,
         joins' = [joins EXCEPT ![f][slot] = NoJoin], NEW q \in QuestionIds
  PROVE  Parts(Peer[f], q)' = {jp \in Parts(Peer[f], q) : jp[1] # slot}
<1>1. joins'[f][slot] = NoJoin
  BY OtherPartsUnmoved
<1>2. Peer[Peer[f]] = f
  BY PeerFacts
<1>3. \A jp \in Parts(Peer[f], q)' : jp[1] # slot
  BY <1>1, <1>2 DEF Parts
<1>4. Parts(Peer[f], q)' \subseteq JoinSlots \X PartNums
      /\ Parts(Peer[f], q) \subseteq JoinSlots \X PartNums
  BY DEF Parts
<1>5. \A jp \in JoinSlots \X PartNums :
        jp[1] # slot => (jp \in Parts(Peer[f], q)' <=> jp \in Parts(Peer[f], q))
  BY OtherPartsUnmoved
<1> QED BY <1>3, <1>4, <1>5

\* The frames msgs answer a full set of parts.
PartsAnswered(parts, pcount, msgs) ==
  /\ \A p \in 0 .. (pcount - 1) : parts[p] # NoPart
  /\ Len(msgs) = pcount
  /\ \A i \in 1 .. pcount : /\ msgs[i].type = "Return" /\ msgs[i].for = "Join"
                            /\ msgs[i].qid = parts[i - 1].qid

\* join_complete answers the question of every part once: the part that has just
\* come is not among those that were kept, and no two of those are of one question.
LEMMA CompleteHandled ==
  ASSUME NEW f \in Ends, TypeInv, OnePlace, inbox[f] # <<>>,
         NEW slot \in JoinSlots, NEW pnum \in PartNums, NEW pcount \in Nat,
         NEW seen \in [PartNums -> Part \cup {NoPart}], NEW part \in Part, NEW parts,
         PartAdded(f, slot, pnum, seen, part, parts),
         pnum < pcount, 0 .. (pcount - 1) \subseteq PartNums,
         NEW msgs \in Seq(Message), PartsAnswered(parts, pcount, msgs),
         joins' = [joins EXCEPT ![f][slot] = NoJoin], UNCHANGED provisions,
         NEW q \in QuestionIds, Head(inbox[f]).type = "Join", Head(inbox[f]).qid = part.qid
  PROVE  Handled(Peer[f], q, msgs)
<1>0. /\ PartsSeen(f, slot, seen) /\ seen[pnum] = NoPart /\ parts = [seen EXCEPT ![pnum] = part]
      /\ \A p \in 0 .. (pcount - 1) : parts[p] # NoPart
      /\ Len(msgs) = pcount
      /\ \A i \in 1 .. pcount : /\ msgs[i].type = "Return" /\ msgs[i].for = "Join"
                                /\ msgs[i].qid = parts[i - 1].qid
  BY DEF PartAdded, PartsAnswered
<1> DEFINE rets == Returns(msgs, q)
<1>1. Peer[f] \in Ends /\ Peer[Peer[f]] = f
  BY PeerFacts
<1>2. Embargoes(Peer[f], q)' = Embargoes(Peer[f], q)
  BY <1>1, EmbargoesUnmoved
<1>3. Parts(Peer[f], q)' = {jp \in Parts(Peer[f], q) : jp[1] # slot}
  BY PartsDrop
<1>4. \A jp, kp \in Parts(Peer[f], q) : jp = kp
  BY <1>1, OnePlaceFacts
<1>5. \A i \in 1 .. pcount : i - 1 \in 0 .. (pcount - 1) /\ i - 1 \in PartNums
  OBVIOUS
<1>6. \A i : i \in rets <=> i \in 1 .. pcount /\ parts[i - 1].qid = q
  BY <1>0 DEF Returns
<1>7. \A i \in 1 .. pcount : parts[i - 1] = IF i - 1 = pnum THEN part ELSE seen[i - 1]
  BY <1>0, <1>5
<1>8. \A k \in rets : msgs[k].for = "Join"
  BY <1>0, <1>6
<1>9. ASSUME NEW i \in rets, i - 1 # pnum
      PROVE  <<slot, i - 1>> \in Parts(Peer[f], q)
  <2>1. i \in 1 .. pcount /\ i - 1 \in PartNums /\ parts[i - 1] = seen[i - 1]
        /\ parts[i - 1].qid = q /\ i - 1 \in 0 .. (pcount - 1)
    BY <1>5, <1>6, <1>7, <1>9
  <2>2. seen[i - 1] # NoPart /\ seen[i - 1].qid = q
    BY <1>0, <2>1
  <2> QED BY <1>0, <2>1, <2>2, PartsSeenFacts
<1>10. pnum \in Nat /\ pnum + 1 \in 1 .. pcount /\ (pnum + 1) - 1 = pnum
  BY Ranges
<1> HIDE DEF rets
<1>11. CASE q = part.qid
  <2>1. Served(Peer[f], q)
    BY <1>1, <1>11 DEF Served, RequestTypes
  <2>2. Parts(Peer[f], q) = {}
    BY <2>1, ServedFacts
  <2>3. Parts(Peer[f], q)' = Parts(Peer[f], q)
    BY <1>3, <2>2
  <2>4. pnum + 1 \in rets
    BY <1>6, <1>7, <1>10, <1>11
  <2>5. \A i \in rets : i = pnum + 1
    BY <1>6, <1>9, <1>10, <2>2
  <2>6. rets = {pnum + 1}
    BY <2>4, <2>5
  <2>7. Tally(rets) = 1
    BY <2>6, TallyOne
  <2> QED BY <1>1, <1>2, <1>8, <2>1, <2>3, <2>7 DEF Handled, rets
<1>12. CASE q # part.qid
  <2>1. \A i \in rets : i - 1 # pnum /\ i \in Nat
    BY <1>6, <1>7, <1>12
  <2>2. CASE rets = {}
    <3>1. CASE \E jp \in Parts(Peer[f], q) : jp[1] = slot
      <4>1. Parts(Peer[f], q)' = {}
        BY <1>3, <1>4, <3>1
      <4> QED BY <1>2, <2>2, <4>1 DEF Handled, rets
    <3>2. CASE \A jp \in Parts(Peer[f], q) : jp[1] # slot
      <4>1. Parts(Peer[f], q)' = Parts(Peer[f], q)
        BY <1>3, <3>2
      <4> QED BY <1>2, <2>2, <4>1 DEF Handled, rets
    <3> QED BY <3>1, <3>2
  <2>3. CASE rets # {}
    <3>1. PICK i \in rets : TRUE
      BY <2>3
    <3>2. <<slot, i - 1>> \in Parts(Peer[f], q) /\ <<slot, i - 1>>[1] = slot
      BY <1>9, <2>1
    <3>3. Parts(Peer[f], q) # {} /\ Parts(Peer[f], q)' = {}
      BY <1>3, <1>4, <3>2
    <3>4. ASSUME NEW k \in rets
          PROVE  k = i
      <4>1. <<slot, k - 1>> = <<slot, i - 1>>
        BY <1>4, <1>9, <2>1, <3>2
      <4>2. k - 1 = i - 1
        BY <4>1
      <4> QED BY <2>1, <4>2
    <3>5. rets = {i}
      BY <3>4
    <3>6. Tally(rets) = 1
      BY <3>5, TallyOne
    <3> QED BY <1>2, <1>8, <3>3, <3>6 DEF Handled, rets
  <2> QED BY <2>2, <2>3
<1> QED BY <1>11, <1>12

\* handle_join answers the question, or keeps it, or answers every part of the set.
LEMMA JoinHandles ==
  ASSUME NEW f \in Ends, TypeInv, OnePlace, RecvJoin(f)
  PROVE  Handles(f)
<1> DEFINE m     == Head(inbox[f])
           keyOK == m.pcount \in 1 .. MaxJoinParts /\ m.pnum < m.pcount
           slot  == JoinSlot(f, m.jid, m.pcount)
           seen  == IF joins[f][slot] = NoJoin THEN NoParts ELSE joins[f][slot].parts
           eid   == ResolveTarget(f, m.target)
           part  == [qid |-> m.qid, eid |-> eid,
                     obj |-> IF eid = NoExport THEN NoServer ELSE server[f][eid]]
           j     == [jid |-> m.jid, pcount |-> m.pcount,
                     parts |-> [seen EXCEPT ![m.pnum] = part]]
           full  == \A p \in 0 .. (m.pcount - 1) : j.parts[p] # NoPart
<1>1. /\ inbox[f] # <<>> /\ m.qid \in QuestionIds /\ m.type \in RequestTypes
      /\ m.type = "Join" /\ m \in Message /\ ~Given(f, "Return")
  BY HandlerFacts DEF RecvJoin, RequestTypes
<1>2. m.jid \in JoinIds /\ m.pcount \in Nat /\ m.pnum \in Nat
  BY <1>1, MessageFields
<1>3. UNCHANGED <<questions, nextQid>> /\ UNCHANGED provisions
  BY DEF RecvJoin, clientVars, handoffVars
<1>4. Peer[f] \in Ends /\ Peer[Peer[f]] = f
  BY PeerFacts
<1>5. CASE ~keyOK \/ slot = -1 \/ seen[m.pnum] # NoPart
  <2> DEFINE ret == JoinResult(f, m.qid, FALSE, NoExport, NoServer)
  <2>1. Answer(f, <<ret>>) /\ UNCHANGED joins
    BY <1>5 DEF RecvJoin, HandleJoin
  <2>2. AnswersJoin(f, m.qid, ret)
    BY <1>1, JoinResultType
  <2> HIDE DEF ret
  <2>3. ret \in Return /\ ret.qid = m.qid /\ ret.for = m.type
    BY <1>1, <2>2 DEF AnswersJoin
  <2> QED BY <1>1, <1>3, <2>1, <2>3, NoneKeptSame, RepliesHandles
<1>6. CASE keyOK /\ slot # -1 /\ seen[m.pnum] = NoPart
  <2>1. /\ joins' = [joins EXCEPT ![f][slot] = IF full THEN NoJoin ELSE j]
        /\ IF full THEN JoinComplete(f, j) ELSE Absorb(f)
    BY <1>6 DEF RecvJoin, HandleJoin
  <2>2. slot \in JoinSlots
    BY <1>6, JoinSlotType
  <2>3. seen \in [PartNums -> Part \cup {NoPart}]
    <3>1. joins[f][slot] # NoJoin => joins[f][slot] \in JoinSet
      BY <2>2 DEF TypeInv, TypeOK, ServerTypeOK
    <3>2. NoParts \in [PartNums -> Part \cup {NoPart}]
      BY DEF NoParts
    <3> HIDE DEF slot
    <3> QED BY <3>1, <3>2 DEF JoinSet
  <2>4. part \in Part /\ part.qid = m.qid
    BY <1>1, ResolveTargetType DEF Part, TypeInv, TypeOK, ServerTypeOK
  <2>5. PartsSeen(f, slot, seen)
    BY DEF PartsSeen
  <2> HIDE DEF seen, part, slot, m
  <2>6. j \in JoinSet
    BY <1>2, <1>6, <2>3, <2>4 DEF JoinSet
  <2>7. /\ m.pcount - 1 \in Nat /\ 0 .. (m.pcount - 1) \subseteq PartNums
        /\ m.pnum \in PartNums /\ j.pcount = m.pcount
        /\ j.parts = [seen EXCEPT ![m.pnum] = part]
    BY <1>2, <1>6, WireAssumption DEF PartNums, WireAssumption
  <2>8. PICK s0 \in JoinSlots, n0 \in PartNums, c0 \in Nat,
             seen0 \in [PartNums -> Part \cup {NoPart}], part0 \in Part, j0 \in JoinSet :
          s0 = slot /\ n0 = m.pnum /\ c0 = m.pcount /\ seen0 = seen /\ part0 = part /\ j0 = j
    <3> HIDE DEF j
    <3> QED BY <1>2, <2>2, <2>3, <2>4, <2>6, <2>7
  <2>9. CASE full
    <3>1. \A p \in 0 .. (j0.pcount - 1) : j0.parts[p] \in Part
      BY <2>3, <2>4, <2>7, <2>8, <2>9
    <3>2. \A p \in 0 .. (c0 - 1) : j0.parts[p] # NoPart
      BY <2>8, <2>9
    <3> HIDE DEF j, full
    <3>3. AnswersParts(f, j0)
      BY <1>1, <2>1, <2>8, <2>9, <3>1, JoinCompleteTypes DEF TypeInv, m
    <3>4. PICK msgs \in Seq(Message) :
            /\ Answer(f, msgs)
            /\ Len(msgs) = j0.pcount
            /\ \A i \in 1 .. j0.pcount : /\ msgs[i].type = "Return" /\ msgs[i].for = "Join"
                                        /\ msgs[i].qid = j0.parts[i - 1].qid
      BY <3>3 DEF AnswersParts
    <3>5. joins' = [joins EXCEPT ![f][s0] = NoJoin]
      BY <2>1, <2>8, <2>9
    <3>6. /\ PartAdded(f, s0, n0, seen0, part0, j0.parts) /\ n0 < c0 /\ c0 = j0.pcount
          /\ 0 .. (c0 - 1) \subseteq PartNums
          /\ Head(inbox[f]).type = "Join" /\ Head(inbox[f]).qid = part0.qid
      BY <1>1, <1>6, <2>4, <2>5, <2>7, <2>8 DEF m, PartAdded
    <3>7. PartsAnswered(j0.parts, c0, msgs)
      BY <3>2, <3>4, <3>6 DEF PartsAnswered
    <3>8. \A q \in QuestionIds : Handled(Peer[f], q, msgs)
      BY <1>1, <1>3, <3>5, <3>6, <3>7, CompleteHandled
    <3>9. \A d \in Ends \ {Peer[f]}, q \in QuestionIds :
            Parts(d, q)' = Parts(d, q) /\ Embargoes(d, q)' = Embargoes(d, q)
      BY <1>3, <3>5, OtherPartsUnmoved, EmbargoesUnmoved
    <3>10. \A h \in 1 .. Len(msgs) : msgs[h].type \notin RequestTypes
      BY <3>4 DEF RequestTypes
    <3> QED BY <1>1, <1>3, <3>4, <3>8, <3>9, <3>10, HandlesBySending
  <2>10. CASE ~full
    <3> HIDE DEF j, full
    <3>1. joins' = [joins EXCEPT ![f][s0] = j0] /\ Absorb(f)
      BY <2>1, <2>8, <2>10
    <3>2. PartAdded(f, s0, n0, seen0, part0, j0.parts) /\ part0.qid = m.qid
      BY <1>6, <2>4, <2>5, <2>7, <2>8 DEF PartAdded
    <3>3. \A q \in QuestionIds : PartKept(f, s0, n0, part0, q)
      BY <3>1, <3>2, PartKeeps
    <3>4. << >> \in Seq(Message)
      OBVIOUS
    <3>5. PICK msgs \in Seq(Message) : msgs = << >>
      BY <3>4
    <3>6. \A q \in QuestionIds : Returns(msgs, q) = {}
      BY <3>5 DEF Returns
    <3>7. ASSUME NEW q \in QuestionIds
          PROVE  Handled(Peer[f], q, msgs)
      <4>1. Embargoes(Peer[f], q)' = Embargoes(Peer[f], q)
        BY <1>3, <1>4, EmbargoesUnmoved
      <4>2. CASE q = part0.qid
        <5>1. Served(Peer[f], q)
          BY <1>1, <1>4, <3>2, <4>2 DEF Served, m
        <5>2. Parts(Peer[f], q) = {}
          BY <1>1, <5>1, ServedFacts
        <5>3. Parts(Peer[f], q)' = {<<s0, n0>>}
          BY <3>3, <4>2, <5>2 DEF PartKept
        <5>4. Tally(Parts(Peer[f], q)') = 1
          BY <5>3, TallyOne
        <5> QED BY <1>1, <1>4, <3>6, <4>1, <5>1, <5>4 DEF Handled, m
      <4>3. CASE q # part0.qid
        <5>1. Parts(Peer[f], q)' = Parts(Peer[f], q)
          BY <3>3, <4>3 DEF PartKept
        <5> QED BY <3>6, <4>1, <5>1 DEF Handled
      <4> QED BY <4>2, <4>3
    <3>8. \A d \in Ends \ {Peer[f]}, q \in QuestionIds :
            Parts(d, q)' = Parts(d, q) /\ Embargoes(d, q)' = Embargoes(d, q)
      BY <1>3, <3>1, OtherPartsUnmoved, EmbargoesUnmoved
    <3>9. Answer(f, msgs) /\ \A h \in 1 .. Len(msgs) : msgs[h].type \notin RequestTypes
      BY <3>1, <3>5 DEF Absorb
    <3> QED BY <1>1, <1>3, <3>7, <3>8, <3>9, HandlesBySending
  <2> QED BY <2>9, <2>10
<1> QED BY <1>5, <1>6

-----------------------------------------------------------------------------
(* Returns *)

\* handle_return records the Return m in slot s of the question, or drops it.
Records(f, m, s) ==
  questions' = [questions EXCEPT ![f][s] =
                  [@ EXCEPT !.answered = TRUE, !.failed = ~m.results, !.reply = m]]

\* What recording a Return does to the tables.
LEMMA RecordsFacts ==
  ASSUME NEW f \in Ends, TypeInv, NEW m \in Return, NEW s \in SlotsOf(f, m.qid), Records(f, m, s)
  PROVE  /\ \A d \in Ends, q \in QuestionIds :
              /\ SlotsOf(d, q)' = SlotsOf(d, q)
              /\ Answered(d, q)' = IF d = f /\ q = m.qid THEN Answered(d, q) \cup {s}
                                   ELSE Answered(d, q)
         /\ \A d \in Ends, i \in QuestionSlots :
              ~(d = f /\ i = s) => questions'[d][i] = questions[d][i]
         /\ questions'[f][s].answered /\ questions'[f][s].reply = m
         /\ questions'[f][s].failed = ~m.results
         /\ questions'[f][s].req = questions[f][s].req
<1>1. questions \in [Ends -> [QuestionSlots -> Question \cup {NoQuestion}]]
  BY DEF TypeInv, TypeOK, ClientTypeOK
<1>2. s \in QuestionSlots /\ questions[f][s] # NoQuestion /\ questions[f][s].qid = m.qid
  BY DEF SlotsOf
<1> DEFINE r == questions[f][s]
           new == [r EXCEPT !.answered = TRUE, !.failed = ~m.results, !.reply = m]
<1>3. r \in Question
  BY <1>1, <1>2
<1>4. m.results \in BOOLEAN /\ m.qid \in QuestionIds
  BY DEF Return
<1> HIDE DEF r
<1>5. /\ new.answered = TRUE /\ new.reply = m /\ new.req = r.req /\ new.qid = r.qid
      /\ new.failed = ~m.results
  BY <1>3 DEF Question
<1>6. new \in Question
  BY <1>3, <1>4 DEF Question
<1>7. new # NoQuestion
  BY <1>6, UnusedQuestionAssumption
<1>8. questions' = [questions EXCEPT ![f][s] = new]
  BY DEF Records, r
<1> HIDE DEF new
<1>9. /\ \A d \in Ends, i \in QuestionSlots :
           ~(d = f /\ i = s) => questions'[d][i] = questions[d][i]
      /\ questions'[f][s] = new
  BY <1>1, <1>2, <1>8
<1>10. ASSUME NEW d \in Ends, NEW q \in QuestionIds
       PROVE  /\ SlotsOf(d, q)' = SlotsOf(d, q)
              /\ Answered(d, q)' = IF d = f /\ q = m.qid THEN Answered(d, q) \cup {s}
                                   ELSE Answered(d, q)
  <2>1. SlotsOf(d, q)' = SlotsOf(d, q)
    <3>1. \A i \in QuestionSlots : i \in SlotsOf(d, q)' <=> i \in SlotsOf(d, q)
      BY <1>2, <1>5, <1>7, <1>9 DEF SlotsOf, r
    <3> QED BY <3>1 DEF SlotsOf
  <2>2. ASSUME NEW i \in QuestionSlots
        PROVE  i \in Answered(d, q)' <=>
                 i \in Answered(d, q) \/ (d = f /\ q = m.qid /\ i = s)
    <3>1. CASE d = f /\ i = s
      BY <1>2, <1>5, <1>9, <2>1, <3>1 DEF Answered, SlotsOf
    <3>2. CASE ~(d = f /\ i = s)
      BY <1>9, <2>1, <3>2 DEF Answered
    <3> QED BY <3>1, <3>2
  <2>3. Answered(d, q)' \subseteq QuestionSlots /\ Answered(d, q) \subseteq QuestionSlots
    BY <2>1 DEF Answered, SlotsOf
  <2> QED BY <1>2, <2>1, <2>2, <2>3
<1> QED BY <1>5, <1>9, <1>10 DEF r

\* One Return has been taken off the queue of f, and e is at the other end.
ReturnTaken(e, f, q) ==
  /\ Tally(Asking(e, q)') = Tally(Asking(e, q)) /\ Returning(e, q)' = Returning(e, q)
  /\ \A i \in Asking(e, q)' : i + 1 \in Asking(e, q) /\ inbox'[f][i] = inbox[f][i + 1]
  /\ \A i \in Returning(e, q) : inbox'[e][i] = inbox[e][i]
  /\ Asking(f, q)' = Asking(f, q) /\ \A i \in Asking(f, q) : inbox'[e][i] = inbox[e][i]
  /\ \A i \in Returning(f, q)' : i + 1 \in Returning(f, q) /\ inbox'[f][i] = inbox[f][i + 1]
  /\ q # Head(inbox[f]).qid => Tally(Returning(f, q)') = Tally(Returning(f, q))
  /\ q = Head(inbox[f]).qid => /\ 1 \in Returning(f, q) /\ inbox[f][1] = Head(inbox[f])
                               /\ Tally(Returning(f, q)) = 1 /\ Tally(Returning(f, q)') = 0
  /\ \A d \in Ends : d # e /\ d # f =>
       /\ Asking(d, q)' = Asking(d, q) /\ Returning(d, q)' = Returning(d, q)
       /\ inbox'[d] = inbox[d] /\ inbox'[Peer[d]] = inbox[Peer[d]]

\* How handle_return moves the frames of its own connection: one Return is gone.
LEMMA ReturnMoves ==
  ASSUME NEW f \in Ends, NEW e \in Ends, e = Peer[f], TypeInv, OnePlace, Given(f, "Return"),
         Absorb(f), NEW q \in QuestionIds
  PROVE  ReturnTaken(e, f, q)
<1>1. f = Peer[e] /\ e # f
  BY PeerFacts
<1>2. inbox \in [Ends -> Seq(Message)] /\ inbox[f] # <<>> /\ Head(inbox[f]).type = "Return"
  BY DEF TypeInv, TypeOK, Given
<1>3. << >> \in Seq(Message)
  OBVIOUS
<1>4. PICK msgs \in Seq(Message) : msgs = << >>
  BY <1>3
<1>5. Answer(f, msgs) /\ (\A k \in 1 .. Len(msgs) : msgs[k].type \notin RequestTypes)
      /\ Returns(msgs, q) = {}
  BY <1>4 DEF Absorb, Returns
<1>6. FramesMoved(e, f, msgs, q)
  BY <1>1, <1>2, <1>5, AnswerMoves
<1>7. Tally(Asking(e, q)) <= 1 /\ Tally(Returning(f, q)) <= 1
  BY <1>1, PlacesFacts DEF OnePlace, Places
<1>8. /\ ~Served(e, q) => Tally(Asking(e, q)') = Tally(Asking(e, q))
      /\ Returns(msgs, q) = {} => Returning(e, q)' = Returning(e, q)
      /\ 1 \in Returning(f, q) => Tally(Returning(f, q)) = 1 /\ Tally(Returning(f, q)') = 0
      /\ 1 \notin Returning(f, q) => Tally(Returning(f, q)') = Tally(Returning(f, q))
  BY <1>1, <1>6, <1>7, HandledTallies
<1>9. ~Served(e, q)
  BY <1>1, <1>2 DEF Served, RequestTypes
<1>10. QueuesMoved(e, f, msgs)
  BY <1>1, <1>2, <1>5, AnswerQueues
<1>11. 1 \in Returning(f, q) <=> q = Head(inbox[f]).qid
  BY <1>2, <1>6 DEF FramesMoved
<1>12. inbox[f][1] = Head(inbox[f])
  BY <1>10 DEF QueuesMoved
<1>13. /\ \A i \in Asking(e, q)' : i + 1 \in Asking(e, q) /\ inbox'[f][i] = inbox[f][i + 1]
       /\ \A i \in Returning(f, q)' : i + 1 \in Returning(f, q) /\ inbox'[f][i] = inbox[f][i + 1]
       /\ \A i \in Returning(e, q) : inbox'[e][i] = inbox[e][i]
       /\ Asking(f, q)' = Asking(f, q) /\ \A i \in Asking(f, q) : inbox'[e][i] = inbox[e][i]
  BY <1>6 DEF FramesMoved
<1>14. \A d \in Ends : d # e /\ d # f =>
         /\ Asking(d, q)' = Asking(d, q) /\ Returning(d, q)' = Returning(d, q)
         /\ inbox'[d] = inbox[d] /\ inbox'[Peer[d]] = inbox[Peer[d]]
  BY <1>1, <1>10, OthersUnmoved
<1> QED BY <1>5, <1>8, <1>9, <1>11, <1>12, <1>13, <1>14 DEF ReturnTaken

\* A Return that is recorded moves its question to its last place, and one that is
\* dropped leaves it nowhere.
LEMMA ReturnKeepsFlow ==
  ASSUME NEW f \in Ends, TypeInv, FlowInv, EmbargoedAcceptsReachClaimant, RecvReturn(f)
  PROVE  FlowInv'
<1> DEFINE m == Head(inbox[f])
<1>1. PICK e \in Ends : e = Peer[f] /\ f = Peer[e] /\ e # f
  BY PeerFacts
<1>2. /\ inbox[f] # <<>> /\ m \in Message /\ m.type = "Return" /\ Given(f, "Return")
  BY HandlerFacts DEF RecvReturn
<1>3. m \in Return /\ m.qid \in QuestionIds
  BY <1>2, MessageFields DEF Return
<1>4. Absorb(f) /\ UNCHANGED nextQid /\ UNCHANGED <<joins, provisions>>
  BY DEF RecvReturn, HandleReturn, serverVars
<1>5. NoneKept
  BY <1>4, NoneKeptSame
<1>6. \A q \in QuestionIds : ReturnTaken(e, f, q)
  BY <1>1, <1>2, <1>4, ReturnMoves DEF FlowInv
<1>7. m.to = f
  <2>1. 1 \in DOMAIN inbox[f] /\ inbox[f][1] = m
    BY <1>2 DEF TypeInv, TypeOK
  <2> QED BY <1>2, <2>1 DEF EmbargoedAcceptsReachClaimant
<1>8. UNCHANGED questions \/ \E s \in SlotsOf(f, m.qid) : Records(f, m, s)
  <2>1. CASE Recorded(f, m)
    <3>1. Min(SlotsOf(f, m.qid)) \in SlotsOf(f, m.qid)
      BY <2>1, MinInNat, Ranges DEF Recorded, SlotsOf
    <3>2. Records(f, m, Min(SlotsOf(f, m.qid)))
      BY <2>1 DEF RecvReturn, HandleReturn, Records
    <3> QED BY <3>1, <3>2
  <2>2. CASE ~Recorded(f, m)
    BY <2>2 DEF RecvReturn, HandleReturn
  <2> QED BY <2>1, <2>2
<1>9. \A d \in Ends, q \in QuestionIds : SlotsOf(d, q)' = SlotsOf(d, q)
  BY <1>3, <1>8, SlotsUnmoved, RecordsFacts
<1>10. \A d \in Ends, q \in QuestionIds :
         ~(d = f /\ q = m.qid) => Answered(d, q)' = Answered(d, q)
  BY <1>3, <1>8, SlotsUnmoved, RecordsFacts
<1>11. \A q \in QuestionIds : q = m.qid /\ Answered(f, q) = {} => Tally(Answered(f, q)') <= 1
  <2>1. CASE UNCHANGED questions
    BY <2>1, SlotsUnmoved, TallyFacts
  <2>2. CASE \E s \in SlotsOf(f, m.qid) : Records(f, m, s)
    <3>1. PICK s \in SlotsOf(f, m.qid) : Records(f, m, s)
      BY <2>2
    <3>2. ASSUME NEW q \in QuestionIds, q = m.qid, Answered(f, q) = {}
          PROVE  Tally(Answered(f, q)') <= 1
      <4>1. Answered(f, q)' = {s}
        BY <1>3, <3>1, <3>2, RecordsFacts
      <4>2. Tally(Answered(f, q)') = 1
        BY <4>1, TallyOne
      <4> QED BY <4>2
    <3> QED BY <3>2
  <2> QED BY <1>8, <2>1, <2>2
<1> HIDE DEF m
<1>12. ASSUME NEW d \in Ends, NEW q \in QuestionIds
       PROVE  Places(d, q)' <= Places(d, q) /\ Places(d, q) \in Nat /\ Places(d, q)' \in Nat
  <2>1. /\ Tally(Asking(d, q)') \in 0 .. 2 /\ Tally(Returning(d, q)') \in 0 .. 2
        /\ Tally(Parts(d, q)') \in 0 .. 2 /\ Tally(Embargoes(d, q)') \in 0 .. 2
        /\ Tally(Answered(d, q)') \in 0 .. 2
    BY TallyFacts
  <2>2. /\ Tally(Asking(d, q)) \in 0 .. 2 /\ Tally(Returning(d, q)) \in 0 .. 2
        /\ Tally(Parts(d, q)) \in 0 .. 2 /\ Tally(Embargoes(d, q)) \in 0 .. 2
        /\ Tally(Answered(d, q)) \in 0 .. 2 /\ (Tally(Answered(d, q)) = 0 <=> Answered(d, q) = {})
    BY PlacesFacts
  <2>3. Places(d, q) = Tally(Asking(d, q)) + Tally(Returning(d, q)) + Tally(Parts(d, q))
                       + Tally(Embargoes(d, q)) + Tally(Answered(d, q))
    BY DEF Places
  <2>4. Places(d, q)' = Tally(Asking(d, q)') + Tally(Returning(d, q)') + Tally(Parts(d, q)')
                        + Tally(Embargoes(d, q)') + Tally(Answered(d, q)')
    BY DEF Places, Tally
  <2>5. Parts(d, q)' = Parts(d, q) /\ Embargoes(d, q)' = Embargoes(d, q)
    BY <1>5 DEF NoneKept
  <2>6. Tally(Asking(d, q)') = Tally(Asking(d, q))
    BY <1>1, <1>6 DEF ReturnTaken
  <2>7. ~(d = f /\ q = m.qid) => Tally(Returning(d, q)') = Tally(Returning(d, q))
    BY <1>1, <1>6 DEF ReturnTaken, m
  <2>8. (d = f /\ q = m.qid) => Tally(Returning(d, q)) = 1 /\ Tally(Returning(d, q)') = 0
    BY <1>1, <1>6 DEF ReturnTaken, m
  <2>9. Places(d, q) <= 1
    BY DEF FlowInv, OnePlace
  <2>10. CASE d = f /\ q = m.qid
    <3>1. Answered(d, q) = {}
      BY <2>2, <2>3, <2>8, <2>9, <2>10
    <3>2. Tally(Answered(d, q)') <= 1
      BY <1>11, <2>10, <3>1
    <3> QED BY <2>1, <2>2, <2>3, <2>4, <2>5, <2>6, <2>8, <2>10, <3>2
  <2>11. CASE ~(d = f /\ q = m.qid)
    <3>1. Answered(d, q)' = Answered(d, q)
      BY <1>10, <2>11
    <3> QED BY <2>2, <2>3, <2>4, <2>5, <2>6, <2>7, <2>11, <3>1
  <2> QED BY <2>10, <2>11
<1>13. OnePlace'
  <2>1. \A d \in Ends, q \in QuestionIds : Places(d, q)' <= 1
    BY <1>12 DEF FlowInv, OnePlace
  <2> QED BY <2>1 DEF OnePlace
<1>14. OneSlot'
  <2>1. \A d \in Ends, q \in QuestionIds : Tally(SlotsOf(d, q)') <= 1
    BY <1>9 DEF FlowInv, OneSlot
  <2> QED BY <2>1 DEF OneSlot, Tally
<1>15. IdsInTurn'
  <2>1. \A d \in Ends, q \in QuestionIds :
          q >= nextQid'[d] => Places(d, q)' = 0 /\ SlotsOf(d, q)' = {}
    BY <1>4, <1>9, <1>12 DEF FlowInv, IdsInTurn
  <2> QED BY <2>1 DEF IdsInTurn
<1>16. Matched'
  <2> SUFFICES ASSUME NEW d \in Ends, NEW q \in QuestionIds, NEW s \in SlotsOf(d, q)
               PROVE  LET r == questions'[d][s]
                          t == r.req.type
                      IN  /\ \A i \in Asking(d, q)' : inbox'[Peer[d]][i].type = t
                          /\ \A i \in Returning(d, q)' : inbox'[d][i].for = t
                          /\ Parts(d, q)' # {} => t = "Join"
                          /\ Embargoes(d, q)' # {} => t = "Accept"
                          /\ r.answered => r.reply.to = d /\ r.reply.for = t
    BY <1>9 DEF Matched
  <2> DEFINE t == questions[d][s].req.type
  <2>1. /\ \A i \in Asking(d, q) : inbox[Peer[d]][i].type = t
        /\ \A i \in Returning(d, q) : inbox[d][i].for = t
        /\ Parts(d, q) # {} => t = "Join"
        /\ Embargoes(d, q) # {} => t = "Accept"
        /\ questions[d][s].answered => /\ questions[d][s].reply.to = d
                                       /\ questions[d][s].reply.for = t
    BY DEF FlowInv, Matched
  <2>2. s \in QuestionSlots /\ questions[d][s].qid = q
    BY DEF SlotsOf
  <2>3. \/ questions'[d][s] = questions[d][s]
        \/ /\ d = f /\ q = m.qid /\ questions'[d][s].req = questions[d][s].req
           /\ questions'[d][s].reply = m
    <3>1. CASE UNCHANGED questions
      BY <3>1
    <3>2. CASE \E s1 \in SlotsOf(f, m.qid) : Records(f, m, s1)
      <4>1. PICK s1 \in SlotsOf(f, m.qid) : Records(f, m, s1)
        BY <3>2
      <4>2. CASE d = f /\ s = s1
        <5>1. q = m.qid
          BY <2>2, <4>2 DEF SlotsOf
        <5>2. questions'[f][s1].reply = m /\ questions'[f][s1].req = questions[f][s1].req
          BY <1>3, <4>1, RecordsFacts
        <5> QED BY <4>2, <5>1, <5>2
      <4>3. CASE ~(d = f /\ s = s1)
        BY <1>3, <2>2, <4>1, <4>3, RecordsFacts
      <4> QED BY <4>2, <4>3
    <3> QED BY <1>8, <3>1, <3>2
  <2>4. questions'[d][s].req.type = t
    BY <2>3
  <2>5. questions'[d][s].answered =>
          questions'[d][s].reply.to = d /\ questions'[d][s].reply.for = t
    <3>1. d = f /\ q = m.qid => m.for = t
      <4>1. d = f /\ q = m.qid => 1 \in Returning(d, q) /\ inbox[d][1] = m
        BY <1>6 DEF ReturnTaken, m
      <4> QED BY <2>1, <4>1
    <3> QED BY <1>7, <2>1, <2>3, <3>1
  <2> HIDE DEF t
  <2>6. \A i \in Asking(d, q)' : inbox'[Peer[d]][i].type = t
    <3>1. CASE d = e
      BY <1>1, <1>6, <2>1, <3>1, SMTT(30) DEF ReturnTaken
    <3>2. CASE d = f
      <4>1. /\ Asking(f, q)' = Asking(f, q)
            /\ \A i \in Asking(f, q) : inbox'[e][i] = inbox[e][i]
        BY <1>6, Zenon DEF ReturnTaken
      <4>2. Peer[f] = e
        BY <1>1
      <4>3. \A i \in Asking(f, q) : inbox[e][i].type = t
        BY ONLY <2>1, <3>2, <4>2
      <4> QED BY ONLY <3>2, <4>1, <4>2, <4>3
    <3>3. CASE d # e /\ d # f
      BY <1>6, <2>1, <3>3 DEF ReturnTaken
    <3> QED BY <3>1, <3>2, <3>3
  <2>7. \A i \in Returning(d, q)' : inbox'[d][i].for = t
    <3>1. CASE d = e
      BY <1>1, <1>6, <2>1, <3>1, SMTT(30) DEF ReturnTaken
    <3>2. CASE d = f
      <4>1. \A i \in Returning(f, q)' :
              i + 1 \in Returning(f, q) /\ inbox'[f][i] = inbox[f][i + 1]
        BY <1>6, Zenon DEF ReturnTaken
      <4>2. \A i \in Returning(f, q) : inbox[f][i].for = t
        BY ONLY <2>1, <3>2
      <4> QED BY ONLY <3>2, <4>1, <4>2
    <3>3. CASE d # e /\ d # f
      BY <1>6, <2>1, <3>3 DEF ReturnTaken
    <3> QED BY <3>1, <3>2, <3>3
  <2>8. /\ Parts(d, q)' # {} => t = "Join"
        /\ Embargoes(d, q)' # {} => t = "Accept"
    BY <1>5, <2>1 DEF NoneKept
  <2> QED BY <2>4, <2>5, <2>6, <2>7, <2>8 DEF t
<1> QED BY <1>13, <1>14, <1>15, <1>16 DEF FlowInv

-----------------------------------------------------------------------------
(* Applications *)

\* Apart from this request of e, no request and no Return has moved.
FramesKept(e, q, new) ==
  /\ Asking(e, q)' = Asking(e, q) \cup new
  /\ \A d \in Ends \ {e} : Asking(d, q)' = Asking(d, q)
  /\ \A d \in Ends : Returning(d, q)' = Returning(d, q)
  /\ \A d \in Ends : \A i \in Asking(d, q) : inbox'[Peer[d]][i] = inbox[Peer[d]][i]
  /\ \A d \in Ends : \A i \in Returning(d, q) : inbox'[d][i] = inbox[d][i]

\* An application sends a request, or a notice.
LEMMA PostMoves ==
  ASSUME NEW e \in Ends, TypeInv, NEW m \in Message, m.type # "Return", Post(e, m), NEW q
  PROVE  /\ FramesKept(e, q, IF m.type \in RequestTypes /\ m.qid = q
                             THEN {Len(inbox[Peer[e]]) + 1} ELSE {})
         /\ Len(inbox[Peer[e]]) + 1 \in DOMAIN inbox'[Peer[e]]
         /\ inbox'[Peer[e]][Len(inbox[Peer[e]]) + 1] = m
<1> DEFINE f == Peer[e]
           n == Len(inbox[f])
           new == IF m.type \in RequestTypes /\ m.qid = q THEN {n + 1} ELSE {}
<1>1. f \in Ends /\ f # e /\ Peer[f] = e
  BY PeerFacts
<1>2. inbox \in [Ends -> Seq(Message)] /\ inbox[f] \in Seq(Message)
  BY <1>1 DEF TypeInv, TypeOK
<1>3. inbox'[f] = Append(inbox[f], m) /\ \A d \in Ends : d # f => inbox'[d] = inbox[d]
  BY <1>1, <1>2 DEF Post
<1>4. /\ n \in Nat /\ DOMAIN inbox[f] = 1 .. n /\ DOMAIN inbox'[f] = 1 .. (n + 1)
      /\ \A i \in DOMAIN inbox[f] : inbox'[f][i] = inbox[f][i]
      /\ inbox'[f][n + 1] = m
  BY <1>2, <1>3
<1> HIDE DEF n
<1>5. DOMAIN inbox'[f] = DOMAIN inbox[f] \cup {n + 1} /\ n + 1 \notin DOMAIN inbox[f]
  BY <1>4
<1> HIDE DEF f
<1>6. Asking(e, q)' = Asking(e, q) \cup new
  BY <1>4, <1>5 DEF Asking, f
<1>7. \A d \in Ends : d # e => Peer[d] # f /\ Peer[d] \in Ends
  BY <1>1, PeerFacts
<1>8. \A d \in Ends \ {e} : Asking(d, q)' = Asking(d, q)
  BY <1>3, <1>7 DEF Asking
<1>9. \A d \in Ends : Returning(d, q)' = Returning(d, q)
  <2>1. Returning(f, q)' = Returning(f, q)
    BY <1>4, <1>5 DEF Returning
  <2>2. \A d \in Ends : d # f => Returning(d, q)' = Returning(d, q)
    BY <1>3 DEF Returning
  <2> QED BY <2>1, <2>2
<1>10. \A d \in Ends : \A i \in DOMAIN inbox[d] : inbox'[d][i] = inbox[d][i]
  BY <1>3, <1>4
<1>11. \A d \in Ends : \A i \in Asking(d, q) : inbox'[Peer[d]][i] = inbox[Peer[d]][i]
  BY <1>10, PeerFacts DEF Asking
<1>12. \A d \in Ends : \A i \in Returning(d, q) : inbox'[d][i] = inbox[d][i]
  BY <1>10 DEF Returning
<1> QED BY <1>4, <1>5, <1>6, <1>8, <1>9, <1>11, <1>12 DEF FramesKept, f, n

\* A step that sends no request and no Return, and at most forgets questions or spends ids.
Quiet ==
  /\ \A e \in Ends, q \in QuestionIds : FramesKept(e, q, {})
  /\ NoneKept
  /\ \A d \in Ends, q \in QuestionIds :
       /\ SlotsOf(d, q)' \subseteq SlotsOf(d, q)
       /\ \A s \in SlotsOf(d, q)' : questions'[d][s] = questions[d][s]
  /\ \A d \in Ends : nextQid'[d] \in {nextQid[d], nextQid[d] + 1}

\* A subset has no larger tally.
LEMMA TallySubset ==
  ASSUME NEW S, NEW T, T \subseteq S
  PROVE  Tally(T) <= Tally(S)
<1>1. /\ Tally(S) \in {0, 1, 2} /\ (Tally(S) = 0 <=> S = {})
      /\ Tally(S) <= 1 <=> \A x, y \in S : x = y
  BY TallyFacts
<1>2. /\ Tally(T) \in {0, 1, 2} /\ (Tally(T) = 0 <=> T = {})
      /\ Tally(T) <= 1 <=> \A x, y \in T : x = y
  BY TallyFacts
<1>3. (\A x, y \in S : x = y) => \A x, y \in T : x = y
  OBVIOUS
<1>4. S = {} => T = {}
  OBVIOUS
<1>5. Tally(S) <= 1 => Tally(T) <= 1
  BY <1>1, <1>2, <1>3
<1>6. Tally(S) = 0 => Tally(T) = 0
  BY <1>1, <1>2, <1>4
<1>7. Tally(S) \in {0, 1, 2} /\ Tally(T) \in {0, 1, 2}
  BY <1>1, <1>2
<1> QED BY <1>5, <1>6, <1>7

\* Such a step keeps the invariant.
LEMMA QuietKeepsFlow ==
  ASSUME TypeInv, FlowInv, Quiet
  PROVE  FlowInv'
<1>1. \A d \in Ends, q \in QuestionIds :
        Asking(d, q)' = Asking(d, q) /\ Returning(d, q)' = Returning(d, q)
  BY DEF Quiet, FramesKept
<1>2. \A d \in Ends, q \in QuestionIds :
        Parts(d, q)' = Parts(d, q) /\ Embargoes(d, q)' = Embargoes(d, q)
  BY DEF Quiet, NoneKept
<1>3. \A d \in Ends, q \in QuestionIds :
        /\ SlotsOf(d, q)' \subseteq SlotsOf(d, q)
        /\ \A s \in SlotsOf(d, q)' : questions'[d][s] = questions[d][s]
  BY DEF Quiet
<1>4. \A d \in Ends, q \in QuestionIds : Answered(d, q)' \subseteq Answered(d, q)
  BY <1>3 DEF Answered
<1>5. ASSUME NEW d \in Ends, NEW q \in QuestionIds
      PROVE  Places(d, q)' <= Places(d, q) /\ Places(d, q) \in Nat /\ Places(d, q)' \in Nat
  <2>1. /\ Tally(Asking(d, q)) \in 0 .. 2 /\ Tally(Returning(d, q)) \in 0 .. 2
        /\ Tally(Parts(d, q)) \in 0 .. 2 /\ Tally(Embargoes(d, q)) \in 0 .. 2
        /\ Tally(Answered(d, q)) \in 0 .. 2
    BY PlacesFacts
  <2>2. Tally(Answered(d, q)') \in 0 .. 2
    BY TallyFacts
  <2>3. Places(d, q)' = Tally(Asking(d, q)') + Tally(Returning(d, q)') + Tally(Parts(d, q)')
                        + Tally(Embargoes(d, q)') + Tally(Answered(d, q)')
    BY DEF Places, Tally
  <2>4. Tally(Answered(d, q)') <= Tally(Answered(d, q))
    BY <1>4, TallySubset
  <2>5. /\ Asking(d, q)' = Asking(d, q) /\ Returning(d, q)' = Returning(d, q)
        /\ Parts(d, q)' = Parts(d, q) /\ Embargoes(d, q)' = Embargoes(d, q)
    BY <1>1, <1>2
  <2> QED BY <2>1, <2>2, <2>3, <2>4, <2>5 DEF Places
<1>6. OnePlace'
  <2>1. \A d \in Ends, q \in QuestionIds : Places(d, q)' <= 1
    BY <1>5 DEF FlowInv, OnePlace
  <2> QED BY <2>1 DEF OnePlace
<1>7. OneSlot'
  <2>1. ASSUME NEW d \in Ends, NEW q \in QuestionIds
        PROVE  Tally(SlotsOf(d, q)') <= 1
    <3>1. Tally(SlotsOf(d, q)) <= 1
      BY DEF FlowInv, OneSlot
    <3>2. Tally(SlotsOf(d, q)') <= Tally(SlotsOf(d, q))
      BY <1>3, TallySubset
    <3>3. Tally(SlotsOf(d, q)) \in {0, 1, 2} /\ Tally(SlotsOf(d, q)') \in {0, 1, 2}
      BY TallyFacts
    <3> QED BY <3>1, <3>2, <3>3
  <2> QED BY <2>1 DEF OneSlot, Tally
<1>8. IdsInTurn'
  <2>1. ASSUME NEW d \in Ends, NEW q \in QuestionIds, q >= nextQid'[d]
        PROVE  Places(d, q)' = 0 /\ SlotsOf(d, q)' = {}
    <3>1. nextQid'[d] >= nextQid[d] /\ nextQid'[d] \in Nat /\ nextQid[d] \in Nat /\ q \in Nat
      BY Ranges, NextQidType DEF Quiet, TypeInv
    <3>2. Places(d, q) = 0 /\ SlotsOf(d, q) = {}
      BY <2>1, <3>1 DEF FlowInv, IdsInTurn
    <3> QED BY <1>3, <1>5, <3>2
  <2> QED BY <2>1 DEF IdsInTurn
<1>9. Matched'
  <2> SUFFICES ASSUME NEW d \in Ends, NEW q \in QuestionIds, NEW s \in SlotsOf(d, q)'
               PROVE  LET r == questions'[d][s]
                          t == r.req.type
                      IN  /\ \A i \in Asking(d, q)' : inbox'[Peer[d]][i].type = t
                          /\ \A i \in Returning(d, q)' : inbox'[d][i].for = t
                          /\ Parts(d, q)' # {} => t = "Join"
                          /\ Embargoes(d, q)' # {} => t = "Accept"
                          /\ r.answered => r.reply.to = d /\ r.reply.for = t
    BY DEF Matched
  <2>1. s \in SlotsOf(d, q) /\ questions'[d][s] = questions[d][s]
    BY <1>3
  <2> DEFINE r == questions[d][s]
             t == r.req.type
  <2>2. /\ \A i \in Asking(d, q) : inbox[Peer[d]][i].type = t
        /\ \A i \in Returning(d, q) : inbox[d][i].for = t
        /\ Parts(d, q) # {} => t = "Join"
        /\ Embargoes(d, q) # {} => t = "Accept"
        /\ r.answered => r.reply.to = d /\ r.reply.for = t
    BY <2>1 DEF FlowInv, Matched
  <2>3. /\ \A i \in Asking(d, q) : inbox'[Peer[d]][i] = inbox[Peer[d]][i]
        /\ \A i \in Returning(d, q) : inbox'[d][i] = inbox[d][i]
    BY DEF Quiet, FramesKept
  <2> HIDE DEF r, t
  <2>4. /\ \A i \in Asking(d, q)' : inbox'[Peer[d]][i].type = t
        /\ \A i \in Returning(d, q)' : inbox'[d][i].for = t
    BY <1>1, <2>2, <2>3
  <2> QED BY <1>2, <2>1, <2>2, <2>4 DEF r, t
<1> QED BY <1>6, <1>7, <1>8, <1>9 DEF FlowInv

\* A question in no place is in none of them.
LEMMA Nowhere ==
  ASSUME NEW e \in Ends, NEW q, Places(e, q) = 0
  PROVE  /\ Asking(e, q) = {} /\ Returning(e, q) = {} /\ Parts(e, q) = {}
         /\ Embargoes(e, q) = {} /\ Answered(e, q) = {}
<1>1. /\ Tally(Asking(e, q)) \in 0 .. 2 /\ Tally(Returning(e, q)) \in 0 .. 2
      /\ Tally(Parts(e, q)) \in 0 .. 2 /\ Tally(Embargoes(e, q)) \in 0 .. 2
      /\ Tally(Answered(e, q)) \in 0 .. 2
  BY PlacesFacts
<1>2. /\ Tally(Asking(e, q)) = 0 /\ Tally(Returning(e, q)) = 0 /\ Tally(Parts(e, q)) = 0
      /\ Tally(Embargoes(e, q)) = 0 /\ Tally(Answered(e, q)) = 0
  BY <1>1 DEF Places
<1> QED BY <1>2, PlacesFacts

\* question_claim puts the question in slot i of e.
Claims(e, i, req) == questions' = [questions EXCEPT ![e][i] = Asked(req)]

\* What question_claim does to the table.
LEMMA ClaimsFacts ==
  ASSUME NEW e \in Ends, TypeInv, NEW i \in FreeQuestions(e), NEW req \in Request,
         req.qid \in QuestionIds, Claims(e, i, req)
  PROVE  /\ \A d \in Ends, q \in QuestionIds :
              /\ SlotsOf(d, q)' = IF d = e /\ q = req.qid THEN SlotsOf(d, q) \cup {i}
                                  ELSE SlotsOf(d, q)
              /\ Answered(d, q)' = Answered(d, q)
         /\ \A d \in Ends, s \in QuestionSlots :
              ~(d = e /\ s = i) => questions'[d][s] = questions[d][s]
         /\ questions'[e][i] = Asked(req)
<1>1. questions \in [Ends -> [QuestionSlots -> Question \cup {NoQuestion}]]
  BY DEF TypeInv, TypeOK, ClientTypeOK
<1>2. i \in QuestionSlots /\ questions[e][i] = NoQuestion
  BY DEF FreeQuestions
<1> DEFINE new == Asked(req)
<1>3. new \in Question /\ ~new.answered /\ new.qid = req.qid
  BY DEF Asked, Question
<1>4. new # NoQuestion
  BY <1>3, UnusedQuestionAssumption
<1>5. questions' = [questions EXCEPT ![e][i] = new]
  BY DEF Claims
<1> HIDE DEF new
<1>6. /\ \A d \in Ends, s \in QuestionSlots :
           ~(d = e /\ s = i) => questions'[d][s] = questions[d][s]
      /\ questions'[e][i] = new
  BY <1>1, <1>2, <1>5
<1>7. ASSUME NEW d \in Ends, NEW q \in QuestionIds, NEW s \in QuestionSlots
      PROVE  /\ s \in SlotsOf(d, q)' <=> s \in SlotsOf(d, q) \/ (d = e /\ q = req.qid /\ s = i)
             /\ s \in Answered(d, q)' <=> s \in Answered(d, q)
  <2>1. CASE d = e /\ s = i
    BY <1>2, <1>3, <1>4, <1>6, <2>1 DEF SlotsOf, Answered
  <2>2. CASE ~(d = e /\ s = i)
    BY <1>6, <2>2 DEF SlotsOf, Answered
  <2> QED BY <2>1, <2>2
<1>8. ASSUME NEW d \in Ends, NEW q \in QuestionIds
      PROVE  /\ SlotsOf(d, q) \subseteq QuestionSlots /\ SlotsOf(d, q)' \subseteq QuestionSlots
             /\ Answered(d, q) \subseteq QuestionSlots /\ Answered(d, q)' \subseteq QuestionSlots
  BY DEF SlotsOf, Answered
<1>9. ASSUME NEW d \in Ends, NEW q \in QuestionIds
      PROVE  /\ SlotsOf(d, q)' = IF d = e /\ q = req.qid THEN SlotsOf(d, q) \cup {i}
                                 ELSE SlotsOf(d, q)
             /\ Answered(d, q)' = Answered(d, q)
  <2>1. Answered(d, q)' = Answered(d, q)
    BY <1>7, <1>8
  <2>2. CASE d = e /\ q = req.qid
    BY <1>2, <1>7, <1>8, <2>1, <2>2
  <2>3. CASE ~(d = e /\ q = req.qid)
    BY <1>7, <1>8, <2>1, <2>3
  <2> QED BY <2>2, <2>3
<1> QED BY <1>6, <1>9 DEF new

\* A request that is sent brings a new question to its first place.
LEMMA AskKeepsFlow ==
  ASSUME NEW e \in Ends, TypeInv, FlowInv, NEW req \in Request, req.qid = nextQid[e],
         req.qid \in QuestionIds, NEW i \in FreeQuestions(e), Claims(e, i, req), Post(e, req),
         nextQid' = [nextQid EXCEPT ![e] = @ + 1], NoneKept
  PROVE  FlowInv'
<1> DEFINE n == Len(inbox[Peer[e]]) + 1
           q0 == req.qid
<1>1. req \in Message /\ req.type \in RequestTypes /\ req.type # "Return"
  BY DEF Message, Request, RequestTypes
<1>2. ASSUME NEW q
      PROVE  FramesKept(e, q, IF q = q0 THEN {n} ELSE {})
  <2>1. FramesKept(e, q, IF req.type \in RequestTypes /\ req.qid = q THEN {n} ELSE {})
    BY <1>1, PostMoves
  <2> QED BY <1>1, <2>1
<1>3. inbox'[Peer[e]][n] = req
  BY <1>1, PostMoves
<1>4. /\ \A d \in Ends, q \in QuestionIds :
           /\ SlotsOf(d, q)' = IF d = e /\ q = q0 THEN SlotsOf(d, q) \cup {i} ELSE SlotsOf(d, q)
           /\ Answered(d, q)' = Answered(d, q)
      /\ \A d \in Ends, s \in QuestionSlots :
           ~(d = e /\ s = i) => questions'[d][s] = questions[d][s]
      /\ questions'[e][i] = Asked(req)
  BY ClaimsFacts
<1>5. nextQid[e] \in Nat /\ q0 = nextQid[e] /\ nextQid \in [Ends -> 0 .. MaxAsks]
  BY NextQidType DEF TypeInv, TypeOK, ClientTypeOK
<1>6. Places(e, q0) = 0 /\ SlotsOf(e, q0) = {}
  BY <1>5 DEF FlowInv, IdsInTurn
<1>7. /\ Asking(e, q0) = {} /\ Returning(e, q0) = {} /\ Parts(e, q0) = {}
      /\ Embargoes(e, q0) = {} /\ Answered(e, q0) = {}
  BY <1>6, Nowhere
<1>8. PICK n0 : n0 = n
  OBVIOUS
<1>9. PICK qid \in QuestionIds : qid = q0
  OBVIOUS
<1> HIDE DEF n
<1>10. ASSUME NEW d \in Ends, NEW q \in QuestionIds
       PROVE  /\ Asking(d, q)' = IF d = e /\ q = qid THEN {n0} ELSE Asking(d, q)
              /\ Returning(d, q)' = Returning(d, q)
              /\ Parts(d, q)' = Parts(d, q) /\ Embargoes(d, q)' = Embargoes(d, q)
              /\ Answered(d, q)' = Answered(d, q)
  <2>1. FramesKept(e, q, IF q = q0 THEN {n} ELSE {})
    BY <1>2
  <2>2. Asking(e, q)' = IF q = qid THEN {n0} ELSE Asking(e, q)
    <3>1. CASE q = qid
      BY <1>7, <1>8, <1>9, <2>1, <3>1 DEF FramesKept
    <3>2. CASE q # qid
      BY <1>9, <2>1, <3>2 DEF FramesKept
    <3> QED BY <3>1, <3>2
  <2>3. d # e => Asking(d, q)' = Asking(d, q)
    BY <2>1 DEF FramesKept
  <2>4. Returning(d, q)' = Returning(d, q)
    BY <2>1 DEF FramesKept
  <2> QED BY <1>4, <2>2, <2>3, <2>4 DEF NoneKept
<1>11. ASSUME NEW d \in Ends, NEW q \in QuestionIds
       PROVE  Places(d, q)' = IF d = e /\ q = qid THEN 1 ELSE Places(d, q)
  <2>1. Places(d, q)' = Tally(Asking(d, q)') + Tally(Returning(d, q)') + Tally(Parts(d, q)')
                        + Tally(Embargoes(d, q)') + Tally(Answered(d, q)')
    BY DEF Places, Tally
  <2>2. CASE d = e /\ q = qid
    <3>1. /\ Asking(d, q)' = {n0} /\ Returning(d, q)' = {} /\ Parts(d, q)' = {}
          /\ Embargoes(d, q)' = {} /\ Answered(d, q)' = {}
      BY <1>7, <1>9, <1>10, <2>2
    <3>2. Tally({n0}) = 1 /\ Tally({}) = 0
      BY TallyOne, TallyFacts
    <3> QED BY <2>1, <2>2, <3>1, <3>2
  <2>3. CASE ~(d = e /\ q = qid)
    <3>1. /\ Asking(d, q)' = Asking(d, q) /\ Returning(d, q)' = Returning(d, q)
          /\ Parts(d, q)' = Parts(d, q) /\ Embargoes(d, q)' = Embargoes(d, q)
          /\ Answered(d, q)' = Answered(d, q)
      BY <1>10, <2>3
    <3> QED BY <2>1, <2>3, <3>1 DEF Places
  <2> QED BY <2>2, <2>3
<1>12. OnePlace'
  <2>1. \A d \in Ends, q \in QuestionIds : Places(d, q)' <= 1
    BY <1>11 DEF FlowInv, OnePlace
  <2> QED BY <2>1 DEF OnePlace
<1>13. OneSlot'
  <2>1. ASSUME NEW d \in Ends, NEW q \in QuestionIds
        PROVE  Tally(SlotsOf(d, q)') <= 1
    <3>1. CASE d = e /\ q = qid
      <4>1. SlotsOf(d, q)' = {i}
        BY <1>4, <1>6, <1>9, <3>1
      <4>2. Tally(SlotsOf(d, q)') = 1
        BY <4>1, TallyOne
      <4> QED BY <4>2
    <3>2. CASE ~(d = e /\ q = qid)
      <4>1. SlotsOf(d, q)' = SlotsOf(d, q)
        BY <1>4, <1>9, <3>2
      <4> QED BY <4>1 DEF FlowInv, OneSlot
    <3> QED BY <3>1, <3>2
  <2> QED BY <2>1 DEF OneSlot, Tally
<1>14. IdsInTurn'
  <2>1. ASSUME NEW d \in Ends, NEW q \in QuestionIds, q >= nextQid'[d]
        PROVE  Places(d, q)' = 0 /\ SlotsOf(d, q)' = {}
    <3>1. q \in Nat /\ nextQid[d] \in Nat
      BY Ranges, NextQidType DEF TypeInv
    <3>2. nextQid'[d] = IF d = e THEN nextQid[d] + 1 ELSE nextQid[d]
      BY <1>5
    <3>3. q >= nextQid[d] /\ ~(d = e /\ q = qid)
      BY <1>5, <1>9, <2>1, <3>1, <3>2
    <3>4. Places(d, q) = 0 /\ SlotsOf(d, q) = {}
      BY <3>3 DEF FlowInv, IdsInTurn
    <3> QED BY <1>4, <1>9, <1>11, <3>3, <3>4
  <2> QED BY <2>1 DEF IdsInTurn
<1>15. Matched'
  <2> SUFFICES ASSUME NEW d \in Ends, NEW q \in QuestionIds, NEW s \in SlotsOf(d, q)'
               PROVE  LET r == questions'[d][s]
                          t == r.req.type
                      IN  /\ \A k \in Asking(d, q)' : inbox'[Peer[d]][k].type = t
                          /\ \A k \in Returning(d, q)' : inbox'[d][k].for = t
                          /\ Parts(d, q)' # {} => t = "Join"
                          /\ Embargoes(d, q)' # {} => t = "Accept"
                          /\ r.answered => r.reply.to = d /\ r.reply.for = t
    BY DEF Matched
  <2>1. CASE d = e /\ q = qid
    <3>1. s = i
      BY <1>4, <1>6, <1>9, <2>1
    <3>2. questions'[d][s].req = req /\ ~questions'[d][s].answered
      BY <1>4, <2>1, <3>1 DEF Asked
    <3>3. /\ Asking(d, q)' = {n0} /\ Returning(d, q)' = {} /\ Parts(d, q)' = {}
          /\ Embargoes(d, q)' = {}
      BY <1>7, <1>9, <1>10, <2>1
    <3> QED BY <1>3, <1>8, <2>1, <3>2, <3>3
  <2>2. CASE ~(d = e /\ q = qid)
    <3>1. s \in SlotsOf(d, q)
      BY <1>4, <1>9, <2>2
    <3>2. s \in QuestionSlots /\ questions[d][s] # NoQuestion
      BY <3>1 DEF SlotsOf
    <3>3. questions'[d][s] = questions[d][s]
      <4>1. questions[e][i] = NoQuestion
        BY DEF FreeQuestions
      <4> QED BY <1>4, <3>2, <4>1
    <3> DEFINE t == questions[d][s].req.type
    <3>4. /\ \A k \in Asking(d, q) : inbox[Peer[d]][k].type = t
          /\ \A k \in Returning(d, q) : inbox[d][k].for = t
          /\ Parts(d, q) # {} => t = "Join"
          /\ Embargoes(d, q) # {} => t = "Accept"
          /\ questions[d][s].answered => /\ questions[d][s].reply.to = d
                                         /\ questions[d][s].reply.for = t
      BY <3>1 DEF FlowInv, Matched
    <3>5. /\ Asking(d, q)' = Asking(d, q) /\ Returning(d, q)' = Returning(d, q)
          /\ Parts(d, q)' = Parts(d, q) /\ Embargoes(d, q)' = Embargoes(d, q)
      BY <1>10, <2>2
    <3>6. /\ \A k \in Asking(d, q) : inbox'[Peer[d]][k] = inbox[Peer[d]][k]
          /\ \A k \in Returning(d, q) : inbox'[d][k] = inbox[d][k]
      BY <1>2, ZenonT(40) DEF FramesKept
    <3> QED BY <3>3, <3>4, <3>5, <3>6
  <2> QED BY <2>1, <2>2
<1> QED BY <1>12, <1>13, <1>14, <1>15 DEF FlowInv

\* The application at e sends a request with the next id and claims a slot for it.
Sends(e) ==
  \E req \in Request, i \in FreeQuestions(e) :
    /\ req.qid = nextQid[e] /\ req.qid \in QuestionIds
    /\ Claims(e, i, req) /\ Post(e, req)
    /\ nextQid' = [nextQid EXCEPT ![e] = @ + 1]
    /\ NoneKept

\* A step that leaves the transport and the tables of questions alone, but for ids that
\* are spent, is quiet.
LEMMA QuietSame ==
  ASSUME UNCHANGED <<inbox, questions>>, NoneKept,
         \A d \in Ends : nextQid'[d] \in {nextQid[d], nextQid[d] + 1}
  PROVE  Quiet
<1>1. \A e \in Ends, q \in QuestionIds : FramesKept(e, q, {})
  BY DEF FramesKept, Asking, Returning
<1>2. \A d \in Ends, q \in QuestionIds : SlotsOf(d, q)' = SlotsOf(d, q)
  BY DEF SlotsOf
<1> QED BY <1>1, <1>2 DEF Quiet

\* Asking a question: the request is sent, or the send callback fails.
LEMMA RequestsSend ==
  ASSUME NEW e \in Ends, TypeInv, Requests(e), NoneKept
  PROVE  Sends(e) \/ Quiet
<1>1. PICK req \in Request : req.qid = nextQid[e] /\ Ask(e, req)
  BY DEF Requests
<1>2. req.qid \in QuestionIds
  BY <1>1, NextQidType DEF Ask, TypeInv
<1>3. nextQid' = [nextQid EXCEPT ![e] = @ + 1]
  BY <1>1 DEF Ask
<1>4. CASE Claim(e, req) /\ Post(e, req)
  <2>1. FreeQuestions(e) \subseteq Nat /\ FreeQuestions(e) # {}
    BY <1>1, Ranges DEF Ask, FreeQuestions
  <2>2. PICK i \in FreeQuestions(e) : i = Min(FreeQuestions(e))
    BY <2>1, MinInNat
  <2>3. Claims(e, i, req)
    BY <1>4, <2>2 DEF Claim, Claims
  <2> QED BY <1>1, <1>2, <1>3, <1>4, <2>3 DEF Sends
<1>5. CASE UNCHANGED <<questions, inbox>>
  <2>1. nextQid \in [Ends -> 0 .. MaxAsks]
    BY DEF TypeInv, TypeOK, ClientTypeOK
  <2>2. \A d \in Ends : nextQid'[d] \in {nextQid[d], nextQid[d] + 1}
    BY <1>3, <2>1
  <2> QED BY <1>5, <2>2, QuietSame
<1> QED BY <1>1, <1>4, <1>5 DEF Ask, SendFails

\* A notice is no request and no Return.
LEMMA NoticeIsQuiet ==
  ASSUME NEW e \in Ends, TypeInv, Notifies(e), NoneKept, UNCHANGED nextQid,
         \A d \in Ends, q \in QuestionIds :
           /\ SlotsOf(d, q)' \subseteq SlotsOf(d, q)
           /\ \A s \in SlotsOf(d, q)' : questions'[d][s] = questions[d][s]
  PROVE  Quiet
<1>1. PICK m \in Notice : Post(e, m) \/ UNCHANGED inbox
  BY DEF Notifies
<1>2. m \in Message /\ m.type # "Return" /\ m.type \notin RequestTypes
  BY DEF Message, Notice, RequestTypes
<1>3. \A q \in QuestionIds : FramesKept(e, q, {})
  <2> TAKE q \in QuestionIds
  <2>1. CASE Post(e, m)
    <3>1. FramesKept(e, q, IF m.type \in RequestTypes /\ m.qid = q
                           THEN {Len(inbox[Peer[e]]) + 1} ELSE {})
      BY <1>2, <2>1, PostMoves
    <3> QED BY <1>2, <3>1
  <2>2. CASE UNCHANGED inbox
    BY <2>2 DEF FramesKept, Asking, Returning
  <2> QED BY <1>1, <2>1, <2>2
<1>4. \A d \in Ends, q \in QuestionIds : FramesKept(d, q, {})
  <2> TAKE d \in Ends, q \in QuestionIds
  <2>1. FramesKept(e, q, {})
    BY <1>3
  <2> QED BY <2>1 DEF FramesKept
<1> QED BY <1>4 DEF Quiet

\* capnp_rpc_send_finish forgets at most the question it names.
LEMMA ForgetFacts ==
  ASSUME NEW e \in Ends, TypeInv, NEW qid, Forget(e, qid), NEW d \in Ends, NEW q \in QuestionIds
  PROVE  /\ SlotsOf(d, q)' \subseteq SlotsOf(d, q)
         /\ \A s \in SlotsOf(d, q)' : questions'[d][s] = questions[d][s]
<1>1. questions \in [Ends -> [QuestionSlots -> Question \cup {NoQuestion}]]
  BY DEF TypeInv, TypeOK, ClientTypeOK
<1> DEFINE i0 == Min(SlotsOf(e, qid))
<1>2. questions' = IF SlotsOf(e, qid) = {} THEN questions
                   ELSE [questions EXCEPT ![e][i0] = NoQuestion]
  BY DEF Forget
<1> HIDE DEF i0
<1>3. \A s \in QuestionSlots : questions'[d][s] \in {questions[d][s], NoQuestion}
  BY <1>1, <1>2
<1> QED BY <1>3 DEF SlotsOf

\* Every notice operation of an application is quiet.
LEMMA TellsIsQuiet ==
  ASSUME NEW e \in Ends, TypeInv, Tells(e)
  PROVE  Quiet
<1>1. Notifies(e) /\ UNCHANGED nextQid
  BY TellsNotify DEF TypeInv
<1>2. NoneKept
  BY NoneKeptSame DEF Tells, serverVars, handoffVars
<1>3. UNCHANGED questions \/ \E r \in OpenQuestions(e) : Forget(e, r.qid)
  BY DEF Tells, SendFinish, SendRelease, SendDisembargo, SendResolve, clientVars
<1>4. CASE UNCHANGED questions
  BY <1>1, <1>2, <1>4, NoticeIsQuiet, SlotsUnmoved
<1>5. CASE \E r \in OpenQuestions(e) : Forget(e, r.qid)
  BY <1>1, <1>2, <1>5, NoticeIsQuiet, ForgetFacts
<1> QED BY <1>3, <1>4, <1>5

\* Every step is a handler's, or sends a request, or moves no question but out of sight.
LEMMA StepKinds ==
  ASSUME TypeInv, OnePlace, EmbargoedAcceptsReachClaimant', [Next]_vars
  PROVE  \/ Quiet
         \/ \E f \in Ends : Handles(f) \/ RecvReturn(f) \/ Sends(f)
<1>1. CASE UNCHANGED vars
  <2>1. UNCHANGED <<inbox, questions>> /\ UNCHANGED <<joins, provisions>> /\ UNCHANGED nextQid
    BY <1>1 DEF vars
  <2> QED BY <2>1, QuietSame, NoneKeptSame
<1>2. ASSUME NEW f \in Ends, Receive(f)
      PROVE  Handles(f) \/ RecvReturn(f)
  BY <1>2, BootstrapHandles, CallHandles, NoticesHandle, JoinHandles, DisembargoHandles,
     ProvideHandles, AcceptHandles DEF Receive
<1>3. ASSUME NEW f \in Ends, Acts(f)
      PROVE  Quiet \/ Handles(f) \/ Sends(f)
  <2>1. CASE Asks(f)
    <3>1. Requests(f)
      BY <2>1, AsksRequest DEF TypeInv
    <3>2. NoneKept
      BY <2>1, NoneKeptSame DEF Asks, serverVars, handoffVars
    <3> QED BY <3>1, <3>2, RequestsSend
  <2>2. CASE Tells(f)
    BY <2>2, TellsIsQuiet
  <2>3. CASE Hosts(f)
    <3>1. UNCHANGED <<inbox, questions>> /\ UNCHANGED <<joins, provisions>> /\ UNCHANGED nextQid
      BY <2>3 DEF Hosts, SetBootstrap, clientVars, handoffVars
    <3> QED BY <3>1, QuietSame, NoneKeptSame
  <2>4. CASE Introduces(f)
    <3>1. Requests(f)
      BY <2>4, IntroducesTypes DEF TypeInv
    <3>2. NoneKept
      BY <2>4, NoneKeptSame DEF Introduces, handoffVars
    <3> QED BY <3>1, <3>2, RequestsSend
  <2>5. CASE ReturnsIntroduction(f)
    BY <2>5, ReturnsIntroductionHandles
  <2>6. CASE PicksUp(f)
    <3>1. Notifies(f)
      BY <2>6, PicksUpTypes DEF TypeInv
    <3>2. UNCHANGED <<joins, provisions>> /\ UNCHANGED nextQid /\ UNCHANGED questions
      BY <2>6 DEF PicksUp, IntroductionDone, serverVars, clientVars
    <3> QED BY <3>1, <3>2, NoneKeptSame, NoticeIsQuiet, SlotsUnmoved
  <2> QED BY <1>3, <2>1, <2>2, <2>3, <2>4, <2>5, <2>6 DEF Acts
<1> QED BY <1>1, <1>2, <1>3 DEF Next

-----------------------------------------------------------------------------
(* The invariant *)

\* Nothing has been asked.
LEMMA FlowInit == Init => FlowInv
<1> SUFFICES ASSUME Init
             PROVE  FlowInv
  OBVIOUS
<1>1. ASSUME NEW e \in Ends, NEW q \in QuestionIds
      PROVE  /\ Asking(e, q) = {} /\ Returning(e, q) = {} /\ Parts(e, q) = {}
             /\ Embargoes(e, q) = {} /\ Answered(e, q) = {} /\ SlotsOf(e, q) = {}
  <2>1. Peer[e] \in Ends
    BY PeerFacts
  <2>2. Asking(e, q) = {} /\ Returning(e, q) = {}
    BY <2>1 DEF Init, WireInit, Asking, Returning
  <2>3. Parts(e, q) = {}
    BY <2>1 DEF Init, ServerInit, Parts
  <2>4. Embargoes(e, q) = {}
    BY DEF Init, HandoffInit, Embargoes
  <2>5. SlotsOf(e, q) = {} /\ Answered(e, q) = {}
    BY DEF Init, ClientInit, SlotsOf, Answered
  <2> QED BY <2>2, <2>3, <2>4, <2>5
<1>2. Tally({}) = 0
  BY DEF Tally
<1>3. \A e \in Ends, q \in QuestionIds : Places(e, q) = 0
  BY <1>1, <1>2 DEF Places
<1>4. OnePlace /\ OneSlot /\ IdsInTurn
  <2>1. \A e \in Ends, q \in QuestionIds : SlotsOf(e, q) = {}
    BY <1>1
  <2>2. \A e \in Ends, q \in QuestionIds : Tally(SlotsOf(e, q)) = 0
    BY <1>2, <2>1
  <2> QED BY <1>3, <2>1, <2>2 DEF OnePlace, OneSlot, IdsInTurn
<1>5. Matched
  BY <1>1 DEF Matched
<1> QED BY <1>4, <1>5 DEF FlowInv

\* Every step keeps the invariant, as long as every Return is sent to who asked.
LEMMA FlowStep ==
  ASSUME TypeInv, FlowInv, EmbargoedAcceptsReachClaimant, EmbargoedAcceptsReachClaimant',
         [Next]_vars
  PROVE  FlowInv'
<1>1. OnePlace
  BY DEF FlowInv
<1>2. CASE Quiet
  BY <1>2, QuietKeepsFlow
<1>3. ASSUME NEW f \in Ends, Handles(f)
      PROVE  FlowInv'
  <2>1. PICK e \in Ends : f = Peer[e]
    BY PeerFacts
  <2> QED BY <1>3, <2>1, HandlesKeepsFlow
<1>4. ASSUME NEW f \in Ends, RecvReturn(f)
      PROVE  FlowInv'
  BY <1>4, ReturnKeepsFlow
<1>5. ASSUME NEW f \in Ends, Sends(f)
      PROVE  FlowInv'
  BY <1>5, AskKeepsFlow DEF Sends
<1> QED BY <1>1, <1>2, <1>3, <1>4, <1>5, StepKinds

\* A question that is open is in the slot its id finds.
LEMMA FlowImpliesReplies == TypeInv /\ FlowInv => RepliesMatchQuestions
<1> SUFFICES ASSUME TypeInv, FlowInv, NEW e \in Ends, NEW r \in OpenQuestions(e), r.answered
             PROVE  r.reply.to = e /\ r.reply.for = r.req.type
  BY DEF RepliesMatchQuestions
<1>1. PICK s \in QuestionSlots : questions[e][s] # NoQuestion /\ r = questions[e][s]
  BY DEF OpenQuestions, FreeQuestions
<1>2. r \in Question /\ r.qid \in QuestionIds
  BY <1>1 DEF TypeInv, TypeOK, ClientTypeOK, Question
<1>3. s \in SlotsOf(e, r.qid)
  BY <1>1 DEF SlotsOf
<1> QED BY <1>1, <1>2, <1>3 DEF FlowInv, Matched

\* A question under an embargo is nowhere else.
LEMMA FlowImpliesEmbargo == TypeInv /\ FlowInv => EmbargoHolds
<1> SUFFICES ASSUME TypeInv, FlowInv, NEW v \in Vats, NEW i \in ProvisionSlots, NEW p,
                    p = provisions[v][i], p # NoProvision, p.embargoed, NEW e, e = Peer[p.by]
             PROVE  /\ ~IsAnswered(e, p.aqid)
                    /\ \A k \in DOMAIN inbox[e] :
                         inbox[e][k].type = "Return" => inbox[e][k].qid # p.aqid
  BY DEF EmbargoHolds
<1>1. p.aqid \in QuestionIds /\ p.by \in Ends
  BY DEF TypeInv, TypeOK, HandoffTypeOK, EmbargoedAreClaimed
<1>2. e \in Ends /\ Peer[e] = p.by
  BY <1>1, PeerFacts
<1>3. <<v, i>> \in Embargoes(e, p.aqid)
  BY <1>2 DEF Embargoes
<1>4. Returning(e, p.aqid) = {} /\ Answered(e, p.aqid) = {}
  BY <1>1, <1>2, <1>3, OnePlaceFacts DEF FlowInv
<1>5. ~IsAnswered(e, p.aqid)
  <2>1. SlotsOf(e, p.aqid) # {} => Min(SlotsOf(e, p.aqid)) \in SlotsOf(e, p.aqid)
    <3>1. SlotsOf(e, p.aqid) \subseteq Nat
      BY Ranges DEF SlotsOf
    <3> QED BY <3>1, MinInNat
  <2> QED BY <1>4, <2>1 DEF IsAnswered, Answered
<1> QED BY <1>4, <1>5 DEF Returning

\* A question of a routed system is in one place.
THEOREM FlowInvariant ==
  ASSUME Routed
  PROVE  Spec => []FlowInv
<1>1. Init => FlowInv
  BY FlowInit
<1>2. /\ TypeInv /\ FlowInv /\ EmbargoedAcceptsReachClaimant /\ EmbargoedAcceptsReachClaimant'
      /\ [Next]_vars
      => FlowInv'
  BY FlowStep
<1>3. Spec => []EmbargoedAcceptsReachClaimant
  BY EmbargoedAcceptsRouted
<1> QED BY <1>1, <1>2, <1>3, TypeInvariant, PTL DEF Spec

\* handle_return finds the question by id alone, and yet what is recorded in a
\* question is the answer to what it asked (RepliesMatchQuestions): whatever crosses
\* on the wire, is finished early, answered late or never answered, ids are not spent
\* twice and a request is answered at most once.
THEOREM RepliesMatchCorrect ==
  ASSUME Routed
  PROVE  Spec => []RepliesMatchQuestions
<1>1. TypeInv /\ FlowInv => RepliesMatchQuestions
  BY FlowImpliesReplies
<1> QED BY <1>1, FlowInvariant, TypeInvariant, PTL

\* While handle_accept keeps an Accept under an embargo, its question has no answer,
\* neither recorded nor on the wire (EmbargoHolds), for every number of provisions,
\* questions and queued frames.
THEOREM EmbargoHoldsCorrect ==
  ASSUME Routed
  PROVE  Spec => []EmbargoHolds
<1>1. TypeInv /\ FlowInv => EmbargoHolds
  BY FlowImpliesEmbargo
<1> QED BY <1>1, FlowInvariant, TypeInvariant, PTL

-----------------------------------------------------------------------------
(* The life of a question, by its place: the connections of a routed system *)
(* implement RpcQuestions, by the mapping of RpcRefine.  FlowInv says that  *)
(* a question is in one place at most, so the proof reads off, for each     *)
(* kind of step, how that place may change.                                 *)

\* Nothing is on its way for question q of e and nobody keeps it.
NoFrame(e, q) == Asking(e, q) = {} /\ Returning(e, q) = {} /\ Answered(e, q) = {}
NotKept(e, q) == Parts(e, q) = {} /\ Embargoes(e, q) = {}

\* What the life of question q of e is, by the place that it is in.
LivesByPlace(e, q) ==
  /\ q >= nextQid[e] => Life(e, q) = At("unasked", FALSE)
  /\ q < nextQid[e] /\ SlotsOf(e, q) = {} => Life(e, q) = At("over", FALSE)
  /\ q < nextQid[e] /\ SlotsOf(e, q) # {} =>
       /\ Asking(e, q) # {} => Life(e, q) = At("asked", FALSE)
       /\ \A i \in Returning(e, q) : Life(e, q) = At("replied", inbox[e][i].results)
       /\ \A s \in Answered(e, q) : Life(e, q) = At("answered", ~questions[e][s].failed)
       /\ NoFrame(e, q) /\ ~NotKept(e, q) => Life(e, q) = At("held", FALSE)
       /\ NoFrame(e, q) /\ NotKept(e, q) => Life(e, q) = At("lost", FALSE)

\* A question is in one place, and so in no other.
AloneIn(e, q) ==
  /\ Asking(e, q) # {} => Returning(e, q) = {} /\ Answered(e, q) = {} /\ NotKept(e, q)
  /\ Returning(e, q) # {} => Asking(e, q) = {} /\ Answered(e, q) = {} /\ NotKept(e, q)
  /\ Answered(e, q) # {} => Asking(e, q) = {} /\ Returning(e, q) = {} /\ NotKept(e, q)
  /\ Parts(e, q) # {} => Embargoes(e, q) = {}
  /\ \A i, j \in Returning(e, q) : i = j
  /\ \A s, t \in SlotsOf(e, q) : s = t

\* Questions live by their places.
Lives == \A e \in Ends, q \in QuestionIds : LivesByPlace(e, q) /\ AloneIn(e, q)

\* FlowInv says so.
LEMMA FlowAlone ==
  ASSUME NEW e \in Ends, NEW q \in QuestionIds, FlowInv
  PROVE  AloneIn(e, q)
<1>1. Places(e, q) <= 1 /\ Tally(SlotsOf(e, q)) <= 1
  BY DEF FlowInv, OnePlace, OneSlot
<1>2. /\ Tally(Asking(e, q)) \in 0 .. 2 /\ Tally(Returning(e, q)) \in 0 .. 2
      /\ Tally(Parts(e, q)) \in 0 .. 2 /\ Tally(Embargoes(e, q)) \in 0 .. 2
      /\ Tally(Answered(e, q)) \in 0 .. 2
      /\ (Tally(Asking(e, q)) = 0 <=> Asking(e, q) = {})
      /\ (Tally(Returning(e, q)) = 0 <=> Returning(e, q) = {})
      /\ (Tally(Parts(e, q)) = 0 <=> Parts(e, q) = {})
      /\ (Tally(Embargoes(e, q)) = 0 <=> Embargoes(e, q) = {})
      /\ (Tally(Answered(e, q)) = 0 <=> Answered(e, q) = {})
  BY PlacesFacts
<1>3. /\ Asking(e, q) # {} => Returning(e, q) = {} /\ Answered(e, q) = {} /\ NotKept(e, q)
      /\ Returning(e, q) # {} => Asking(e, q) = {} /\ Answered(e, q) = {} /\ NotKept(e, q)
      /\ Answered(e, q) # {} => Asking(e, q) = {} /\ Returning(e, q) = {} /\ NotKept(e, q)
      /\ Parts(e, q) # {} => Embargoes(e, q) = {}
      /\ Tally(Returning(e, q)) <= 1
  BY <1>1, <1>2 DEF Places, NotKept
<1>4. /\ \A i, j \in Returning(e, q) : i = j
      /\ \A s, t \in SlotsOf(e, q) : s = t
  BY <1>1, <1>3, TallyFacts
<1> QED BY <1>3, <1>4 DEF AloneIn

\* The places are those that the refinement mapping looks at.
LEMMA PlacesSeen ==
  ASSUME NEW e \in Ends, NEW q \in QuestionIds, TypeInv, FlowInv
  PROVE  /\ Requested(e, q) <=> Asking(e, q) # {}
         /\ \A i \in Returning(e, q) : Min(Returning(e, q)) = i
         /\ IsAnswered(e, q) <=> Answered(e, q) # {}
         /\ \A s \in Answered(e, q) : IsFailed(e, q) <=> questions[e][s].failed
         /\ Kept(e, q) <=> ~NotKept(e, q)
<1>1. AloneIn(e, q)
  BY FlowAlone
<1>2. Requested(e, q) <=> Asking(e, q) # {}
  BY DEF Requested, Asking
<1>3. \A i \in Returning(e, q) : Min(Returning(e, q)) = i
  <2>1. Returning(e, q) \subseteq Nat
    BY DEF Returning, TypeInv, TypeOK
  <2> QED BY <1>1, <2>1, MinInNat DEF AloneIn
<1>4. \A s \in SlotsOf(e, q) : Min(SlotsOf(e, q)) = s
  <2>1. SlotsOf(e, q) \subseteq Nat
    BY Ranges DEF SlotsOf
  <2> QED BY <1>1, <2>1, MinInNat DEF AloneIn
<1>5. IsAnswered(e, q) <=> Answered(e, q) # {}
  BY <1>4 DEF IsAnswered, Answered
<1>6. \A s \in Answered(e, q) : IsFailed(e, q) <=> questions[e][s].failed
  <2> TAKE s \in Answered(e, q)
  <2>1. s \in SlotsOf(e, q) /\ IsAnswered(e, q)
    BY <1>5 DEF Answered
  <2> QED BY <1>4, <2>1 DEF IsFailed
<1>7. Kept(e, q) <=> ~NotKept(e, q)
  <2>1. (\E j \in JoinSlots : /\ joins[Peer[e]][j] # NoJoin
                              /\ \E p \in PartNums : /\ joins[Peer[e]][j].parts[p] # NoPart
                                                     /\ joins[Peer[e]][j].parts[p].qid = q)
        <=> Parts(e, q) # {}
    <3>1. ASSUME NEW j \in JoinSlots, NEW p \in PartNums, joins[Peer[e]][j] # NoJoin,
                 joins[Peer[e]][j].parts[p] # NoPart, joins[Peer[e]][j].parts[p].qid = q
          PROVE  Parts(e, q) # {}
      <4>1. <<j, p>> \in Parts(e, q)
        BY <3>1 DEF Parts
      <4> QED BY <4>1
    <3>2. ASSUME NEW jp \in Parts(e, q)
          PROVE  \E j \in JoinSlots : /\ joins[Peer[e]][j] # NoJoin
                                      /\ \E p \in PartNums :
                                           /\ joins[Peer[e]][j].parts[p] # NoPart
                                           /\ joins[Peer[e]][j].parts[p].qid = q
      <4>1. jp[1] \in JoinSlots /\ jp[2] \in PartNums
        BY DEF Parts
      <4>2. /\ joins[Peer[e]][jp[1]] # NoJoin /\ joins[Peer[e]][jp[1]].parts[jp[2]] # NoPart
            /\ joins[Peer[e]][jp[1]].parts[jp[2]].qid = q
        BY DEF Parts
      <4> QED BY <4>1, <4>2
    <3> QED BY <3>1, <3>2
  <2>2. (\E v \in Vats, i \in ProvisionSlots :
           LET p == provisions[v][i]
           IN  p # NoProvision /\ p.embargoed /\ p.by = Peer[e] /\ p.aqid = q)
        <=> Embargoes(e, q) # {}
    <3>1. ASSUME NEW v \in Vats, NEW i \in ProvisionSlots, provisions[v][i] # NoProvision,
                 provisions[v][i].embargoed, provisions[v][i].by = Peer[e],
                 provisions[v][i].aqid = q
          PROVE  Embargoes(e, q) # {}
      <4>1. <<v, i>> \in Embargoes(e, q)
        BY <3>1 DEF Embargoes
      <4> QED BY <4>1
    <3>2. ASSUME NEW vi \in Embargoes(e, q)
          PROVE  \E v \in Vats, i \in ProvisionSlots :
                   LET p == provisions[v][i]
                   IN  p # NoProvision /\ p.embargoed /\ p.by = Peer[e] /\ p.aqid = q
      <4>1. vi[1] \in Vats /\ vi[2] \in ProvisionSlots
        BY DEF Embargoes
      <4>2. LET p == provisions[vi[1]][vi[2]]
            IN  p # NoProvision /\ p.embargoed /\ p.by = Peer[e] /\ p.aqid = q
        BY DEF Embargoes
      <4> QED BY <4>1, <4>2
    <3> QED BY <3>1, <3>2
  <2> QED BY <2>1, <2>2 DEF Kept, NotKept
<1> QED BY <1>2, <1>3, <1>5, <1>6, <1>7

\* So the life that the mapping reads is the life by place.
LEMMA FlowLives == TypeInv /\ FlowInv => Lives
<1> SUFFICES ASSUME TypeInv, FlowInv, NEW e \in Ends, NEW q \in QuestionIds
             PROVE  LivesByPlace(e, q) /\ AloneIn(e, q)
  BY DEF Lives
<1>1. AloneIn(e, q)
  BY FlowAlone
<1>2. /\ Requested(e, q) <=> Asking(e, q) # {}
      /\ \A i \in Returning(e, q) : Min(Returning(e, q)) = i
      /\ IsAnswered(e, q) <=> Answered(e, q) # {}
      /\ \A s \in Answered(e, q) : IsFailed(e, q) <=> questions[e][s].failed
      /\ Kept(e, q) <=> ~NotKept(e, q)
  BY PlacesSeen
<1>3. q < nextQid[e] <=> ~(q >= nextQid[e])
  BY Ranges, NextQidType DEF TypeInv
<1>4. Life(e, q) =
        IF q >= nextQid[e] THEN At("unasked", FALSE)
        ELSE IF SlotsOf(e, q) = {} THEN At("over", FALSE)
        ELSE IF Asking(e, q) # {} THEN At("asked", FALSE)
        ELSE IF Returning(e, q) # {}
        THEN At("replied", inbox[e][Min(Returning(e, q))].results)
        ELSE IF Answered(e, q) # {} THEN At("answered", ~IsFailed(e, q))
        ELSE IF ~NotKept(e, q) THEN At("held", FALSE)
        ELSE At("lost", FALSE)
  BY <1>2, Zenon DEF Life
<1>5. \A s \in Answered(e, q) : At("answered", ~IsFailed(e, q)) = At("answered", ~questions[e][s].failed)
  <2> TAKE s \in Answered(e, q)
  <2>1. (~IsFailed(e, q)) = (~questions[e][s].failed)
    BY <1>2
  <2> QED BY <2>1
<1>6. /\ q >= nextQid[e] => Life(e, q) = At("unasked", FALSE)
      /\ q < nextQid[e] /\ SlotsOf(e, q) = {} => Life(e, q) = At("over", FALSE)
  BY <1>3, <1>4, Zenon
<1>7. ASSUME q < nextQid[e], SlotsOf(e, q) # {}
      PROVE  /\ Asking(e, q) # {} => Life(e, q) = At("asked", FALSE)
             /\ \A i \in Returning(e, q) : Life(e, q) = At("replied", inbox[e][i].results)
             /\ \A s \in Answered(e, q) : Life(e, q) = At("answered", ~questions[e][s].failed)
             /\ NoFrame(e, q) /\ ~NotKept(e, q) => Life(e, q) = At("held", FALSE)
             /\ NoFrame(e, q) /\ NotKept(e, q) => Life(e, q) = At("lost", FALSE)
  <2>1. Asking(e, q) # {} => Life(e, q) = At("asked", FALSE)
    BY <1>3, <1>4, <1>7, Zenon
  <2>2. \A i \in Returning(e, q) : Life(e, q) = At("replied", inbox[e][i].results)
    <3> TAKE i \in Returning(e, q)
    <3>1. Asking(e, q) = {} /\ Returning(e, q) # {} /\ Min(Returning(e, q)) = i
      BY <1>1, <1>2 DEF AloneIn
    <3>2. Life(e, q) = At("replied", inbox[e][Min(Returning(e, q))].results)
      BY <1>3, <1>4, <1>7, <3>1, Zenon
    <3> QED BY <3>1, <3>2, Zenon
  <2>3. \A s \in Answered(e, q) : Life(e, q) = At("answered", ~questions[e][s].failed)
    <3> TAKE s \in Answered(e, q)
    <3>1. Asking(e, q) = {} /\ Returning(e, q) = {} /\ Answered(e, q) # {}
      BY <1>1 DEF AloneIn
    <3>2. Life(e, q) = At("answered", ~IsFailed(e, q))
      BY <1>3, <1>4, <1>7, <3>1, Zenon
    <3> QED BY <1>5, <3>2, Zenon
  <2>4. /\ NoFrame(e, q) /\ ~NotKept(e, q) => Life(e, q) = At("held", FALSE)
        /\ NoFrame(e, q) /\ NotKept(e, q) => Life(e, q) = At("lost", FALSE)
    BY <1>3, <1>4, <1>7, Zenon DEF NoFrame
  <2> QED BY <2>1, <2>2, <2>3, <2>4
<1>8. LivesByPlace(e, q)
  BY <1>6, <1>7 DEF LivesByPlace
<1> QED BY <1>1, <1>8

-----------------------------------------------------------------------------
(* The steps of one question *)

\* What a step may do to the life of question q of e.
Moves(e, q) ==
  \/ Life(e, q)' = Life(e, q)
  \/ q = nextQid[e] /\ Life(e, q)' \in {At("asked", FALSE), At("over", FALSE)}
  \/ q < nextQid[e] /\ Life(e, q)' = At("over", FALSE)
  \/ \E ab \in Questions!Forward : \E r, s :
       /\ Life(e, q) = At(ab[1], r) /\ Life(e, q)' = At(ab[2], s)
       /\ ab[2] = "answered" => s = r

\* The question moves on.
LEMMA MovesOn ==
  ASSUME NEW e \in Ends, NEW q \in QuestionIds, NEW ab \in Questions!Forward, NEW r, NEW s,
         Life(e, q) = At(ab[1], r), Life(e, q)' = At(ab[2], s), ab[2] = "answered" => s = r
  PROVE  Moves(e, q)
BY DEF Moves

LEMMA MovesAlong ==
  ASSUME NEW e \in Ends, NEW q \in QuestionIds, NEW a, NEW b, <<a, b>> \in Questions!Forward,
         NEW r, NEW s, Life(e, q) = At(a, r), Life(e, q)' = At(b, s), b = "answered" => s = r
  PROVE  Moves(e, q)
<1>1. PICK ab \in Questions!Forward : ab = <<a, b>>
  OBVIOUS
<1>2. ab[1] = a /\ ab[2] = b
  BY <1>1
<1> QED BY <1>2, MovesOn

\* The ways that the peer and the transport have.
LEMMA MovesByPlace ==
  ASSUME NEW e \in Ends, NEW q \in QuestionIds, NEW r
  PROVE  /\ Life(e, q) = At("asked", FALSE) /\ Life(e, q)' = At("held", FALSE) => Moves(e, q)
         /\ Life(e, q) = At("asked", FALSE) /\ Life(e, q)' = At("lost", FALSE) => Moves(e, q)
         /\ Life(e, q) = At("asked", FALSE) /\ Life(e, q)' = At("replied", r) => Moves(e, q)
         /\ Life(e, q) = At("held", FALSE) /\ Life(e, q)' = At("lost", FALSE) => Moves(e, q)
         /\ Life(e, q) = At("held", FALSE) /\ Life(e, q)' = At("replied", r) => Moves(e, q)
         /\ Life(e, q) = At("replied", r) /\ Life(e, q)' = At("answered", r) => Moves(e, q)
         /\ Life(e, q) = At("replied", r) /\ Life(e, q)' = At("lost", FALSE) => Moves(e, q)
<1>1. ASSUME NEW a, NEW b, <<a, b>> \in Questions!Forward, b # "answered", NEW x, NEW y,
             Life(e, q) = At(a, x), Life(e, q)' = At(b, y)
      PROVE  Moves(e, q)
  BY <1>1, MovesAlong
<1>2. /\ <<"asked", "held">> \in Questions!Forward /\ <<"asked", "lost">> \in Questions!Forward
      /\ <<"asked", "replied">> \in Questions!Forward
      /\ <<"held", "lost">> \in Questions!Forward /\ <<"held", "replied">> \in Questions!Forward
      /\ <<"replied", "answered">> \in Questions!Forward
      /\ <<"replied", "lost">> \in Questions!Forward
  BY DEF Questions!Forward
<1>3. "held" # "answered" /\ "lost" # "answered" /\ "replied" # "answered"
  OBVIOUS
<1>4. Life(e, q) = At("asked", FALSE) /\ Life(e, q)' = At("held", FALSE) => Moves(e, q)
  BY <1>1, <1>2, <1>3, Zenon
<1>5. Life(e, q) = At("asked", FALSE) /\ Life(e, q)' = At("lost", FALSE) => Moves(e, q)
  BY <1>1, <1>2, <1>3, Zenon
<1>6. Life(e, q) = At("asked", FALSE) /\ Life(e, q)' = At("replied", r) => Moves(e, q)
  BY <1>1, <1>2, <1>3, Zenon
<1>7. Life(e, q) = At("held", FALSE) /\ Life(e, q)' = At("lost", FALSE) => Moves(e, q)
  BY <1>1, <1>2, <1>3, Zenon
<1>8. Life(e, q) = At("held", FALSE) /\ Life(e, q)' = At("replied", r) => Moves(e, q)
  BY <1>1, <1>2, <1>3, Zenon
<1>9. Life(e, q) = At("replied", r) /\ Life(e, q)' = At("answered", r) => Moves(e, q)
  BY <1>2, MovesAlong, Zenon
<1>10. Life(e, q) = At("replied", r) /\ Life(e, q)' = At("lost", FALSE) => Moves(e, q)
  BY <1>1, <1>2, <1>3, Zenon
<1> QED BY <1>4, <1>5, <1>6, <1>7, <1>8, <1>9, <1>10

\* Nothing that the mapping looks at has changed.
Still(e, q) ==
  /\ q >= nextQid'[e] <=> q >= nextQid[e]
  /\ SlotsOf(e, q)' = {} <=> SlotsOf(e, q) = {}
  /\ Asking(e, q)' = {} <=> Asking(e, q) = {}
  /\ Returning(e, q)' = {} <=> Returning(e, q) = {}
  /\ \A i \in Returning(e, q), j \in Returning(e, q)' :
       inbox'[e][j].results = inbox[e][i].results
  /\ Answered(e, q)' = Answered(e, q)
  /\ \A s \in Answered(e, q) : questions'[e][s] = questions[e][s]
  /\ NotKept(e, q)' <=> NotKept(e, q)

\* Then the life has not changed.
LEMMA StillLives ==
  ASSUME NEW e \in Ends, NEW q \in QuestionIds, TypeInv, TypeInv', Lives, Lives', Still(e, q)
  PROVE  Life(e, q)' = Life(e, q)
<1>1. LivesByPlace(e, q) /\ AloneIn(e, q) /\ LivesByPlace(e, q)'
  BY DEF Lives
<1>2. /\ q < nextQid[e] <=> ~(q >= nextQid[e])
      /\ q < nextQid'[e] <=> ~(q >= nextQid'[e])
  <2>1. q \in Nat
    BY Ranges
  <2>2. nextQid[e] \in Nat /\ nextQid'[e] \in Nat
    BY WireAssumption DEF TypeInv, TypeOK, ClientTypeOK, WireAssumption
  <2> QED BY <2>1, <2>2
<1>3. CASE q >= nextQid[e]
  BY <1>1, <1>3 DEF LivesByPlace, Still
<1>4. CASE q < nextQid[e] /\ SlotsOf(e, q) = {}
  BY <1>1, <1>2, <1>4 DEF LivesByPlace, Still
<1>5. CASE q < nextQid[e] /\ SlotsOf(e, q) # {}
  <2>1. q < nextQid'[e] /\ SlotsOf(e, q)' # {}
    BY <1>2, <1>5 DEF Still
  <2>2. CASE Asking(e, q) # {}
    BY <1>1, <1>5, <2>1, <2>2 DEF LivesByPlace, Still
  <2>3. CASE Returning(e, q) # {}
    <3>1. PICK i \in Returning(e, q), j \in Returning(e, q)' :
            inbox'[e][j].results = inbox[e][i].results
      BY <2>3 DEF Still
    <3>2. Life(e, q) = At("replied", inbox[e][i].results)
      BY <1>1, <1>5, <3>1 DEF LivesByPlace
    <3>3. Life(e, q)' = At("replied", inbox'[e][j].results)
      BY <1>1, <2>1, <3>1 DEF LivesByPlace, At
    <3> QED BY <3>1, <3>2, <3>3
  <2>4. CASE Answered(e, q) # {}
    <3>1. PICK s \in Answered(e, q) : s \in Answered(e, q)' /\ questions'[e][s] = questions[e][s]
      BY <2>4 DEF Still
    <3>2. Life(e, q) = At("answered", ~questions[e][s].failed)
      BY <1>1, <1>5, <3>1 DEF LivesByPlace
    <3>3. Life(e, q)' = At("answered", ~questions'[e][s].failed)
      BY <1>1, <2>1, <3>1 DEF LivesByPlace, At
    <3> QED BY <3>1, <3>2, <3>3
  <2>5. CASE NoFrame(e, q)
    <3>1. NoFrame(e, q)'
      BY <2>5 DEF Still, NoFrame
    <3> QED BY <1>1, <1>5, <2>1, <2>5, <3>1 DEF LivesByPlace, Still
  <2> QED BY <2>2, <2>3, <2>4, <2>5 DEF NoFrame
<1> QED BY <1>2, <1>3, <1>4, <1>5

\* A question that is not open does not change while neither its slots nor the next id do.
LEMMA ClosedStays ==
  ASSUME NEW e \in Ends, NEW q \in QuestionIds, TypeInv, Lives, Lives',
         nextQid'[e] = nextQid[e], SlotsOf(e, q)' = SlotsOf(e, q),
         ~(q < nextQid[e] /\ SlotsOf(e, q) # {})
  PROVE  Life(e, q)' = Life(e, q)
<1>1. LivesByPlace(e, q) /\ LivesByPlace(e, q)'
  BY DEF Lives
<1>2. q < nextQid[e] <=> ~(q >= nextQid[e])
  BY Ranges, NextQidType DEF TypeInv
<1>3. CASE q >= nextQid[e]
  BY <1>1, <1>3 DEF LivesByPlace
<1>4. CASE q < nextQid[e] /\ SlotsOf(e, q) = {}
  BY <1>1, <1>4 DEF LivesByPlace
<1> QED BY <1>2, <1>3, <1>4

\* The frames and the kept questions before and after a handler at the peer of e.
HandledFrames(e, q, msgs) ==
  /\ Served(e, q) => Asking(e, q) # {} /\ Asking(e, q)' = {}
  /\ ~Served(e, q) => (Asking(e, q)' = {} <=> Asking(e, q) = {})
  /\ Returns(msgs, q) = {} => Returning(e, q)' = Returning(e, q)
  /\ Returns(msgs, q) # {} /\ Returning(e, q) = {} => Returning(e, q)' # {}
  /\ \A i \in Returning(e, q) : inbox'[e][i] = inbox[e][i]

LEMMA HandledFramesFacts ==
  ASSUME NEW e \in Ends, NEW f \in Ends, f = Peer[e], NEW q \in QuestionIds, FlowInv,
         NEW msgs, FramesMoved(e, f, msgs, q)
  PROVE  HandledFrames(e, q, msgs)
<1>1. Tally(Returning(f, q)) <= 1 /\ Tally(Asking(e, q)) <= 1
  BY PlacesFacts DEF FlowInv, OnePlace, Places
<1>2. /\ Served(e, q) => Tally(Asking(e, q)) = 1 /\ Tally(Asking(e, q)') = 0
      /\ ~Served(e, q) => Tally(Asking(e, q)') = Tally(Asking(e, q))
      /\ Returns(msgs, q) = {} => Returning(e, q)' = Returning(e, q)
      /\ Returning(e, q) = {} => Tally(Returning(e, q)') = Tally(Returns(msgs, q))
  BY <1>1, HandledTallies
<1>3. /\ Tally(Asking(e, q)) = 0 <=> Asking(e, q) = {}
      /\ Tally(Asking(e, q)') = 0 <=> Asking(e, q)' = {}
      /\ Tally(Returning(e, q)') = 0 <=> Returning(e, q)' = {}
      /\ Tally(Returns(msgs, q)) = 0 <=> Returns(msgs, q) = {}
  BY TallyFacts
<1>4. \A i \in Returning(e, q) : inbox'[e][i] = inbox[e][i]
  BY DEF FramesMoved
<1> QED BY <1>2, <1>3, <1>4 DEF HandledFrames

\* A handler moves a question of the end that asked on, or leaves it alone.
LEMMA HandledMoves ==
  ASSUME NEW e \in Ends, NEW q \in QuestionIds, NEW msgs, TypeInv, TypeInv', Lives, Lives',
         HandledFrames(e, q, msgs), Handled(e, q, msgs), questions' = questions,
         nextQid' = nextQid
  PROVE  Moves(e, q)
<1>1. SlotsOf(e, q)' = SlotsOf(e, q) /\ Answered(e, q)' = Answered(e, q)
  BY SlotsUnmoved
<1>2. LivesByPlace(e, q) /\ LivesByPlace(e, q)' /\ AloneIn(e, q) /\ AloneIn(e, q)'
  BY DEF Lives
<1>3. CASE ~(q < nextQid[e] /\ SlotsOf(e, q) # {})
  BY <1>1, <1>3, ClosedStays DEF Moves
<1>4. CASE q < nextQid[e] /\ SlotsOf(e, q) # {}
  <2>1. q < nextQid'[e] /\ SlotsOf(e, q)' # {}
    BY <1>1, <1>4
  <2>2. ASSUME Returning(e, q)' # {}
        PROVE  \E r : Life(e, q)' = At("replied", r)
    <3>1. PICK i : i \in Returning(e, q)'
      BY <2>2
    <3>2. Life(e, q)' = At("replied", inbox'[e][i].results)
      BY <1>2, <2>1, <3>1 DEF LivesByPlace, At
    <3> QED BY <3>2
  <2>3. ASSUME NoFrame(e, q)'
        PROVE  \/ NotKept(e, q)' /\ Life(e, q)' = At("lost", FALSE)
               \/ ~NotKept(e, q)' /\ Life(e, q)' = At("held", FALSE)
    BY <1>2, <2>1, <2>3 DEF LivesByPlace, At
  <2>4. CASE Served(e, q)
    <3>1. Asking(e, q) # {} /\ Asking(e, q)' = {}
      BY <2>4 DEF HandledFrames
    <3>2. Life(e, q) = At("asked", FALSE)
      BY <1>2, <1>4, <3>1 DEF LivesByPlace
    <3>3. CASE Returning(e, q)' # {}
      <4>1. PICK r : Life(e, q)' = At("replied", r)
        BY <2>2, <3>3
      <4> QED BY <3>2, <4>1, MovesByPlace
    <3>4. CASE Returning(e, q)' = {}
      <4>1. NoFrame(e, q)'
        BY <1>1, <1>2, <3>1, <3>4 DEF AloneIn, NoFrame
      <4>2. CASE Life(e, q)' = At("lost", FALSE)
        BY <3>2, <4>2, MovesByPlace
      <4>3. CASE Life(e, q)' = At("held", FALSE)
        BY <3>2, <4>3, MovesByPlace
      <4> QED BY <2>3, <4>1, <4>2, <4>3
    <3> QED BY <3>3, <3>4
  <2>5. ASSUME ~NotKept(e, q)
        PROVE  NoFrame(e, q) /\ Life(e, q) = At("held", FALSE)
    <3>1. NoFrame(e, q)
      BY <1>2, <2>5 DEF AloneIn, NoFrame
    <3> QED BY <1>2, <1>4, <2>5, <3>1 DEF LivesByPlace
  <2>6. CASE ~Served(e, q) /\ Returns(msgs, q) = {}
    <3>1. /\ Asking(e, q)' = {} <=> Asking(e, q) = {}
          /\ Returning(e, q)' = Returning(e, q)
          /\ \A i \in Returning(e, q) : inbox'[e][i] = inbox[e][i]
      BY <2>6 DEF HandledFrames
    <3>2. Tally({}) = 0
      BY TallyFacts
    <3>3. /\ Parts(e, q)' = Parts(e, q) \/ Parts(e, q)' = {}
          /\ Embargoes(e, q)' = Embargoes(e, q)
      BY <2>6, <3>2 DEF Handled
    <3>4. CASE Parts(e, q)' = Parts(e, q)
      <4>1. \A i \in Returning(e, q), j \in Returning(e, q)' :
              inbox'[e][j].results = inbox[e][i].results
        BY <1>2, <3>1 DEF AloneIn
      <4>2. NotKept(e, q)' <=> NotKept(e, q)
        BY <3>3, <3>4 DEF NotKept
      <4>3. \A s \in Answered(e, q) : questions'[e][s] = questions[e][s]
        OBVIOUS
      <4>4. Still(e, q)
        BY <1>1, <3>1, <4>1, <4>2, <4>3 DEF Still
      <4> QED BY <4>4, StillLives DEF Moves
    <3>5. CASE Parts(e, q)' # Parts(e, q)
      <4>1. Parts(e, q) # {} /\ Parts(e, q)' = {}
        BY <3>3, <3>5
      <4>2. ~NotKept(e, q) /\ Embargoes(e, q) = {}
        BY <1>2, <4>1 DEF NotKept, AloneIn
      <4>3. NoFrame(e, q) /\ Life(e, q) = At("held", FALSE)
        BY <2>5, <4>2
      <4>4. NoFrame(e, q)' /\ NotKept(e, q)'
        BY <1>1, <3>1, <3>3, <4>1, <4>2, <4>3 DEF NoFrame, NotKept
      <4>5. Life(e, q)' = At("lost", FALSE)
        BY <2>3, <4>4
      <4> QED BY <4>3, <4>5, MovesByPlace
    <3> QED BY <3>4, <3>5
  <2>7. CASE ~Served(e, q) /\ Returns(msgs, q) # {}
    <3>1. Parts(e, q) # {} \/ Embargoes(e, q) # {}
      BY <2>7 DEF Handled
    <3>2. ~NotKept(e, q)
      BY <3>1 DEF NotKept
    <3>3. NoFrame(e, q) /\ Life(e, q) = At("held", FALSE)
      BY <2>5, <3>2
    <3>4. Returning(e, q)' # {}
      BY <2>7, <3>3 DEF HandledFrames, NoFrame
    <3>5. PICK r : Life(e, q)' = At("replied", r)
      BY <2>2, <3>4
    <3> QED BY <3>3, <3>5, MovesByPlace
  <2> QED BY <2>4, <2>6, <2>7
<1> QED BY <1>3, <1>4

\* Queues and tables that have changed in no way that the mapping looks at.
LEMMA StillSame ==
  ASSUME NEW e \in Ends, NEW q \in QuestionIds, TypeInv, TypeInv', Lives, Lives',
         nextQid'[e] = nextQid[e], SlotsOf(e, q)' = SlotsOf(e, q),
         Answered(e, q)' = Answered(e, q),
         \A s \in Answered(e, q) : questions'[e][s] = questions[e][s],
         Asking(e, q)' = {} <=> Asking(e, q) = {},
         Returning(e, q)' = {} <=> Returning(e, q) = {},
         \A i \in Returning(e, q), j \in Returning(e, q)' :
           inbox'[e][j].results = inbox[e][i].results,
         Parts(e, q)' = Parts(e, q), Embargoes(e, q)' = Embargoes(e, q)
  PROVE  Moves(e, q)
<1>1. NotKept(e, q)' <=> NotKept(e, q)
  BY DEF NotKept
<1>2. Still(e, q)
  BY <1>1 DEF Still
<1> QED BY <1>2, StillLives DEF Moves

\* A Return that stays in its queue says what it said.
LEMMA SameReturns ==
  ASSUME NEW e \in Ends, NEW q \in QuestionIds, Lives,
         \/ Returning(e, q)' = Returning(e, q)
            /\ \A i \in Returning(e, q) : inbox'[e][i] = inbox[e][i]
         \/ \A i \in Returning(e, q)' : i + 1 \in Returning(e, q) /\ inbox'[e][i] = inbox[e][i + 1]
  PROVE  \A i \in Returning(e, q), j \in Returning(e, q)' :
           inbox'[e][j].results = inbox[e][i].results
<1>1. \A i, j \in Returning(e, q) : i = j
  BY DEF Lives, AloneIn
<1> QED BY <1>1

\* A handler that was not given a Return.
LEMMA HandlesMove ==
  ASSUME NEW e \in Ends, NEW f \in Ends, f = Peer[e], TypeInv, TypeInv', FlowInv, Lives, Lives',
         Handles(f), NEW d \in Ends, NEW q \in QuestionIds
  PROVE  Moves(d, q)
<1>1. Peer[f] = e /\ e # f
  BY PeerFacts
<1>2. PICK msgs \in Seq(Message) :
        /\ Answer(f, msgs)
        /\ \A k \in 1 .. Len(msgs) : msgs[k].type \notin RequestTypes
        /\ Handled(e, q, msgs)
        /\ d # e => Parts(d, q)' = Parts(d, q) /\ Embargoes(d, q)' = Embargoes(d, q)
        /\ inbox[f] # <<>> /\ ~Given(f, "Return")
        /\ UNCHANGED <<questions, nextQid>>
  BY <1>1 DEF Handles
<1>3. inbox \in [Ends -> Seq(Message)]
  BY DEF TypeInv, TypeOK
<1>4. QueuesMoved(e, f, msgs) /\ FramesMoved(e, f, msgs, q)
  BY <1>2, <1>3, AnswerQueues, AnswerMoves
<1>5. SlotsOf(d, q)' = SlotsOf(d, q) /\ Answered(d, q)' = Answered(d, q)
  BY <1>2, SlotsUnmoved
<1>6. CASE d = e
  <2>1. HandledFrames(e, q, msgs)
    BY <1>4, HandledFramesFacts
  <2> QED BY <1>2, <1>6, <2>1, HandledMoves
<1>7. CASE d = f
  <2>1. Asking(f, q)' = Asking(f, q)
    BY <1>4 DEF FramesMoved
  <2>2. 1 \notin Returning(f, q)
    BY <1>2, <1>4 DEF FramesMoved, Given
  <2>3. /\ Returning(f, q) \subseteq Nat \ {0} /\ Returning(f, q)' \subseteq Nat \ {0}
        /\ \A i \in Nat \ {0} : i \in Returning(f, q)' <=> i + 1 \in Returning(f, q)
        /\ \A i \in Returning(f, q)' : inbox'[f][i] = inbox[f][i + 1]
    BY <1>4 DEF FramesMoved
  <2>4. Tally(Returning(f, q)') = Tally(Returning(f, q))
    BY <2>2, <2>3, TallyShift
  <2>5. Returning(f, q)' = {} <=> Returning(f, q) = {}
    BY <2>4, TallyFacts
  <2>6. \A i \in Returning(f, q)' : i + 1 \in Returning(f, q) /\ inbox'[f][i] = inbox[f][i + 1]
    BY <2>3
  <2>7. \A i \in Returning(f, q), j \in Returning(f, q)' :
          inbox'[f][j].results = inbox[f][i].results
    BY <2>6, SameReturns
  <2> QED BY <1>1, <1>2, <1>5, <1>7, <2>1, <2>5, <2>7, StillSame
<1>8. CASE d # e /\ d # f
  <2>1. /\ Asking(d, q)' = Asking(d, q) /\ Returning(d, q)' = Returning(d, q)
        /\ inbox'[d] = inbox[d]
    BY <1>4, <1>8, OthersUnmoved
  <2>2. \A i \in Returning(d, q), j \in Returning(d, q)' :
          inbox'[d][j].results = inbox[d][i].results
    BY <2>1, SameReturns
  <2> QED BY <1>2, <1>5, <1>8, <2>1, <2>2, StillSame
<1> QED BY <1>6, <1>7, <1>8

\* A quiet step spends an id or forgets a question at most.
LEMMA QuietMoves ==
  ASSUME TypeInv, TypeInv', FlowInv, Lives, Lives', Quiet, NEW e \in Ends, NEW q \in QuestionIds
  PROVE  Moves(e, q)
<1>1. /\ FramesKept(e, q, {})
      /\ Parts(e, q)' = Parts(e, q) /\ Embargoes(e, q)' = Embargoes(e, q)
      /\ SlotsOf(e, q)' \subseteq SlotsOf(e, q)
      /\ \A s \in SlotsOf(e, q)' : questions'[e][s] = questions[e][s]
      /\ nextQid'[e] \in {nextQid[e], nextQid[e] + 1}
  BY DEF Quiet, NoneKept
<1>2. q \in Nat /\ nextQid[e] \in Nat
  BY Ranges, NextQidType DEF TypeInv
<1>3. /\ Asking(e, q)' = Asking(e, q) /\ Returning(e, q)' = Returning(e, q)
      /\ \A i \in Returning(e, q) : inbox'[e][i] = inbox[e][i]
  BY <1>1 DEF FramesKept
<1>4. LivesByPlace(e, q) /\ LivesByPlace(e, q)' /\ AloneIn(e, q)
  BY DEF Lives
<1>5. CASE q >= nextQid[e]
  <2>1. SlotsOf(e, q) = {}
    BY <1>5 DEF FlowInv, IdsInTurn
  <2>2. Life(e, q) = At("unasked", FALSE)
    BY <1>4, <1>5 DEF LivesByPlace
  <2>3. CASE q >= nextQid'[e]
    <3>1. Life(e, q)' = At("unasked", FALSE)
      BY <1>4, <2>3 DEF LivesByPlace, At
    <3> QED BY <2>2, <3>1 DEF Moves
  <2>4. CASE ~(q >= nextQid'[e])
    <3>1. q = nextQid[e] /\ q < nextQid'[e] /\ SlotsOf(e, q)' = {}
      BY <1>1, <1>2, <1>5, <2>1, <2>4
    <3>2. Life(e, q)' = At("over", FALSE)
      BY <1>4, <3>1 DEF LivesByPlace, At
    <3> QED BY <3>1, <3>2 DEF Moves
  <2> QED BY <2>3, <2>4
<1>6. CASE q < nextQid[e]
  <2>1. q < nextQid'[e]
    BY <1>1, <1>2, <1>6
  <2>2. CASE SlotsOf(e, q)' = {}
    <3>1. Life(e, q)' = At("over", FALSE)
      BY <1>4, <2>1, <2>2 DEF LivesByPlace, At
    <3> QED BY <1>6, <3>1 DEF Moves
  <2>3. CASE SlotsOf(e, q)' # {}
    <3>1. SlotsOf(e, q)' = SlotsOf(e, q)
      BY <1>1, <1>4, <2>3 DEF AloneIn
    <3>2. Answered(e, q)' = Answered(e, q)
      BY <1>1, <3>1 DEF Answered
    <3>3. \A s \in Answered(e, q) : questions'[e][s] = questions[e][s]
      BY <1>1, <3>1 DEF Answered
    <3>4. NotKept(e, q)' <=> NotKept(e, q)
      BY <1>1 DEF NotKept
    <3>5. q >= nextQid'[e] <=> q >= nextQid[e]
      BY <1>1, <1>2, <1>6, <2>1
    <3>6. \A i \in Returning(e, q), j \in Returning(e, q)' :
            inbox'[e][j].results = inbox[e][i].results
      BY <1>3, SameReturns
    <3>7. Still(e, q)
      BY <1>3, <3>1, <3>2, <3>3, <3>4, <3>5, <3>6 DEF Still
    <3> QED BY <3>7, StillLives DEF Moves
  <2> QED BY <2>2, <2>3
<1> QED BY <1>2, <1>5, <1>6

\* Asking a question moves that question alone.
LEMMA SendsMoves ==
  ASSUME NEW f \in Ends, TypeInv, TypeInv', FlowInv, Lives, Lives', Sends(f),
         NEW e \in Ends, NEW q \in QuestionIds
  PROVE  Moves(e, q)
<1>1. PICK req \in Request, i \in FreeQuestions(f) :
        /\ req.qid = nextQid[f] /\ req.qid \in QuestionIds
        /\ Claims(f, i, req) /\ Post(f, req)
        /\ nextQid' = [nextQid EXCEPT ![f] = @ + 1]
        /\ NoneKept
  BY DEF Sends
<1>2. req \in Message /\ req.type \in RequestTypes /\ req.type # "Return"
  BY DEF Message, Request, RequestTypes
<1>3. FramesKept(f, q, IF req.qid = q THEN {Len(inbox[Peer[f]]) + 1} ELSE {})
  <2>1. FramesKept(f, q, IF req.type \in RequestTypes /\ req.qid = q
                         THEN {Len(inbox[Peer[f]]) + 1} ELSE {})
    BY <1>1, <1>2, PostMoves
  <2> QED BY <1>2, <2>1
<1>4. /\ SlotsOf(e, q)' = IF e = f /\ q = req.qid THEN SlotsOf(e, q) \cup {i} ELSE SlotsOf(e, q)
      /\ Answered(e, q)' = Answered(e, q)
      /\ \A s \in QuestionSlots : ~(e = f /\ s = i) => questions'[e][s] = questions[e][s]
  BY <1>1, ClaimsFacts
<1>5. Parts(e, q)' = Parts(e, q) /\ Embargoes(e, q)' = Embargoes(e, q)
  BY <1>1 DEF NoneKept
<1>6. nextQid \in [Ends -> 0 .. MaxAsks] /\ q \in Nat /\ nextQid[e] \in Nat /\ nextQid[f] \in Nat
  BY Ranges, NextQidType DEF TypeInv, TypeOK, ClientTypeOK
<1>7. LivesByPlace(e, q)'
  BY DEF Lives
<1>8. CASE e = f /\ q = req.qid
  <2>1. q = nextQid[e] /\ q < nextQid'[e] /\ SlotsOf(e, q)' # {}
    BY <1>1, <1>4, <1>6, <1>8
  <2>2. Asking(e, q)' # {}
    BY <1>3, <1>8 DEF FramesKept
  <2>3. Life(e, q)' = At("asked", FALSE)
    BY <1>7, <2>1, <2>2 DEF LivesByPlace, At
  <2> QED BY <2>1, <2>3 DEF Moves
<1>9. CASE ~(e = f /\ q = req.qid)
  <2>1. /\ Asking(e, q)' = Asking(e, q) /\ Returning(e, q)' = Returning(e, q)
        /\ \A k \in Returning(e, q) : inbox'[e][k] = inbox[e][k]
    <3>1. CASE e = f
      BY <1>3, <1>9, <3>1 DEF FramesKept
    <3>2. CASE e # f
      BY <1>3, <3>2 DEF FramesKept
    <3> QED BY <3>1, <3>2
  <2>2. q >= nextQid'[e] <=> q >= nextQid[e]
    <3>1. nextQid'[e] = IF e = f THEN nextQid[e] + 1 ELSE nextQid[e]
      BY <1>1, <1>6
    <3>2. e = f => q # nextQid[e]
      BY <1>1, <1>9
    <3> QED BY <1>6, <3>1, <3>2
  <2>3. \A s \in Answered(e, q) : questions'[e][s] = questions[e][s]
    <3>1. \A s \in Answered(e, q) : s \in QuestionSlots /\ questions[e][s] # NoQuestion
      BY DEF Answered, SlotsOf
    <3>2. questions[f][i] = NoQuestion
      BY DEF FreeQuestions
    <3> QED BY <1>4, <3>1, <3>2
  <2>4. \A k \in Returning(e, q), j \in Returning(e, q)' :
          inbox'[e][j].results = inbox[e][k].results
    BY <2>1, SameReturns
  <2>5. SlotsOf(e, q)' = SlotsOf(e, q)
    BY <1>4, <1>9
  <2>6. NotKept(e, q)' <=> NotKept(e, q)
    BY <1>5 DEF NotKept
  <2>7. Still(e, q)
    BY <1>4, <2>1, <2>2, <2>3, <2>4, <2>5, <2>6 DEF Still
  <2> QED BY <2>7, StillLives DEF Moves
<1> QED BY <1>8, <1>9

\* A Return is recorded in the question it names, or lost.
LEMMA ReturnMovesOn ==
  ASSUME NEW f \in Ends, TypeInv, TypeInv', FlowInv, Lives, Lives', RecvReturn(f),
         NEW d \in Ends, NEW q \in QuestionIds
  PROVE  Moves(d, q)
<1> DEFINE m == Head(inbox[f])
<1>1. PICK e \in Ends : e = Peer[f] /\ f = Peer[e] /\ e # f
  BY PeerFacts
<1>2. /\ inbox[f] # <<>> /\ m \in Message /\ m.type = "Return" /\ Given(f, "Return")
  BY HandlerFacts DEF RecvReturn
<1>3. m \in Return /\ m.qid \in QuestionIds /\ m.results \in BOOLEAN
  BY <1>2, MessageFields DEF Return
<1>4. Absorb(f) /\ UNCHANGED nextQid /\ UNCHANGED <<joins, provisions>>
  BY DEF RecvReturn, HandleReturn, serverVars
<1>5. Parts(d, q)' = Parts(d, q) /\ Embargoes(d, q)' = Embargoes(d, q)
  BY <1>4, NoneKeptSame DEF NoneKept
<1>6. ReturnTaken(e, f, q)
  BY <1>1, <1>2, <1>4, ReturnMoves DEF FlowInv
<1>7. UNCHANGED questions \/ \E s \in SlotsOf(f, m.qid) : Records(f, m, s)
  <2>1. CASE Recorded(f, m)
    <3>1. Min(SlotsOf(f, m.qid)) \in SlotsOf(f, m.qid)
      BY <2>1, MinInNat, Ranges DEF Recorded, SlotsOf
    <3>2. Records(f, m, Min(SlotsOf(f, m.qid)))
      BY <2>1 DEF RecvReturn, HandleReturn, Records
    <3> QED BY <3>1, <3>2
  <2>2. CASE ~Recorded(f, m)
    BY <2>2 DEF RecvReturn, HandleReturn
  <2> QED BY <2>1, <2>2
<1>8. SlotsOf(d, q)' = SlotsOf(d, q)
  BY <1>3, <1>7, SlotsUnmoved, RecordsFacts
<1>9. Tally(Asking(d, q)') = Tally(Asking(d, q))
  BY <1>1, <1>6 DEF ReturnTaken
<1>10. Asking(d, q)' = {} <=> Asking(d, q) = {}
  BY <1>9, TallyFacts
<1>11. LivesByPlace(d, q) /\ AloneIn(d, q) /\ LivesByPlace(d, q)'
  BY DEF Lives
<1> HIDE DEF m
<1>12. CASE d = f /\ q = m.qid
  <2>1. CASE ~(q < nextQid[d] /\ SlotsOf(d, q) # {})
    BY <1>4, <1>8, <2>1, ClosedStays DEF Moves
  <2>2. CASE q < nextQid[d] /\ SlotsOf(d, q) # {}
    <3>1. /\ 1 \in Returning(d, q) /\ inbox[d][1] = m /\ Tally(Returning(d, q)') = 0
      BY <1>6, <1>12 DEF ReturnTaken, m
    <3>2. Life(d, q) = At("replied", m.results)
      BY <1>11, <2>2, <3>1 DEF LivesByPlace
    <3>3. Asking(d, q)' = {} /\ Returning(d, q)' = {} /\ NotKept(d, q) /\ Answered(d, q) = {}
      BY <1>10, <1>11, <3>1, TallyFacts DEF AloneIn
    <3>4. NotKept(d, q)'
      BY <1>5, <3>3 DEF NotKept
    <3>5. q < nextQid'[d] /\ SlotsOf(d, q)' # {}
      BY <1>4, <1>8, <2>2
    <3>6. CASE UNCHANGED questions
      <4>1. Answered(d, q)' = {}
        BY <3>3, <3>6, SlotsUnmoved
      <4>2. NoFrame(d, q)'
        BY <3>3, <4>1 DEF NoFrame
      <4>3. Life(d, q)' = At("lost", FALSE)
        BY <1>11, <3>4, <3>5, <4>2 DEF LivesByPlace, At
      <4> QED BY <3>2, <4>3, MovesByPlace
    <3>7. CASE \E s \in SlotsOf(f, m.qid) : Records(f, m, s)
      <4>1. PICK s \in SlotsOf(f, m.qid) : Records(f, m, s)
        BY <3>7
      <4>2. s \in Answered(d, q)' /\ questions'[d][s].failed = ~m.results
        BY <1>3, <1>12, <4>1, RecordsFacts
      <4>3. Life(d, q)' = At("answered", ~questions'[d][s].failed)
        BY <1>11, <3>5, <4>2 DEF LivesByPlace, At
      <4>4. (~questions'[d][s].failed) = m.results
        BY <1>3, <4>2
      <4>5. Life(d, q)' = At("answered", m.results)
        BY <4>3, <4>4
      <4> QED BY <3>2, <4>5, MovesByPlace
    <3> QED BY <1>7, <3>6, <3>7
  <2> QED BY <2>1, <2>2
<1>13. CASE ~(d = f /\ q = m.qid)
  <2>1. /\ Answered(d, q)' = Answered(d, q)
        /\ \A s \in Answered(d, q) : questions'[d][s] = questions[d][s]
    <3>1. CASE UNCHANGED questions
      BY <3>1, SlotsUnmoved
    <3>2. CASE \E s \in SlotsOf(f, m.qid) : Records(f, m, s)
      <4>1. PICK s \in SlotsOf(f, m.qid) : Records(f, m, s)
        BY <3>2
      <4>2. Answered(d, q)' = Answered(d, q)
        BY <1>3, <1>13, <4>1, RecordsFacts
      <4>3. \A i \in Answered(d, q) : i \in QuestionSlots /\ ~(d = f /\ i = s)
        BY <1>13, <4>1 DEF Answered, SlotsOf
      <4> QED BY <1>3, <4>1, <4>2, <4>3, RecordsFacts
    <3> QED BY <1>7, <3>1, <3>2
  <2>2. /\ Returning(d, q)' = {} <=> Returning(d, q) = {}
        /\ \A i \in Returning(d, q), j \in Returning(d, q)' :
             inbox'[d][j].results = inbox[d][i].results
    <3>1. CASE d = f
      <4>1. /\ Tally(Returning(f, q)') = Tally(Returning(f, q))
            /\ \A i \in Returning(f, q)' :
                 i + 1 \in Returning(f, q) /\ inbox'[f][i] = inbox[f][i + 1]
        BY <1>6, <1>13, <3>1 DEF ReturnTaken, m
      <4> QED BY <3>1, <4>1, SameReturns, TallyFacts
    <3>2. CASE d # f
      <4>1. /\ Returning(d, q)' = Returning(d, q)
            /\ \A i \in Returning(d, q) : inbox'[d][i] = inbox[d][i]
        BY <1>6, <3>2 DEF ReturnTaken
      <4> QED BY <4>1, SameReturns
    <3> QED BY <3>1, <3>2
  <2> QED BY <1>4, <1>5, <1>8, <1>10, <2>1, <2>2, StillSame
<1> QED BY <1>12, <1>13

-----------------------------------------------------------------------------
(* The refinement *)

\* Every step of the connections moves every question as RpcQuestions allows.
LEMMA StepMoves ==
  ASSUME TypeInv, TypeInv', FlowInv, FlowInv', EmbargoedAcceptsReachClaimant', [Next]_vars,
         NEW e \in Ends, NEW q \in QuestionIds
  PROVE  Moves(e, q)
<1>1. Lives
  BY FlowLives
<1>3. Lives'
  BY FlowLives, PTL
<1>4. CASE Quiet
  BY <1>1, <1>3, <1>4, QuietMoves
<1>5. ASSUME NEW f \in Ends, Handles(f)
      PROVE  Moves(e, q)
  <2>1. PICK d \in Ends : f = Peer[d]
    BY PeerFacts
  <2> QED BY <1>1, <1>3, <1>5, <2>1, HandlesMove
<1>6. ASSUME NEW f \in Ends, RecvReturn(f)
      PROVE  Moves(e, q)
  BY <1>1, <1>3, <1>6, ReturnMovesOn
<1>7. ASSUME NEW f \in Ends, Sends(f)
      PROVE  Moves(e, q)
  BY <1>1, <1>3, <1>7, SendsMoves
<1>8. OnePlace
  BY DEF FlowInv
<1> QED BY <1>4, <1>5, <1>6, <1>7, <1>8, StepKinds

\* An id is unasked until it is spent.
LEMMA Spent ==
  ASSUME NEW e \in Ends, NEW q \in QuestionIds, TypeInv
  PROVE  /\ q >= nextQid[e] => Life(e, q).stage = "unasked"
         /\ q < nextQid[e] => Life(e, q).stage # "unasked"
<1>1. q < nextQid[e] => ~(q >= nextQid[e])
  BY Ranges, NextQidType DEF TypeInv
<1>2. \A s, r : At(s, r).stage = s
  BY DEF At
<1>3. q >= nextQid[e] => Life(e, q) = At("unasked", FALSE)
  BY Zenon DEF Life
<1>4. q < nextQid[e] => \E s, r : s # "unasked" /\ Life(e, q) = At(s, r)
  <2>1. /\ "over" # "unasked" /\ "asked" # "unasked" /\ "replied" # "unasked"
        /\ "answered" # "unasked" /\ "held" # "unasked" /\ "lost" # "unasked"
    OBVIOUS
  <2> QED BY <1>1, <2>1, Zenon DEF Life
<1> QED BY <1>2, <1>3, <1>4

\* The mapping of the variable.
life == [e \in Ends |-> [q \in QuestionIds |-> Life(e, q)]]

\* What the mapping says of a step.
LEMMA MovesImplement ==
  ASSUME TypeInv, \A e \in Ends, q \in QuestionIds : Moves(e, q)
  PROVE  Questions!Next
<1> SUFFICES ASSUME NEW e \in Ends, NEW q \in QuestionIds
             PROVE  \/ life'[e][q] = life[e][q]
                    \/ Questions!Ask(e, q) \/ Questions!Advance(e, q) \/ Questions!Finish(e, q)
  BY DEF Questions!Next, life
<1>1. \A p \in QuestionIds : life[e][p] = Life(e, p) /\ life'[e][p] = Life(e, p)'
  BY DEF life
<1>2. /\ \A s, r : At(s, r).stage = s /\ At(s, r).results = r
      /\ \A s, r : Questions!At(s, r) = At(s, r)
  BY DEF At, Questions!At
<1>3. /\ q >= nextQid[e] => Life(e, q).stage = "unasked"
      /\ \A p \in QuestionIds : p < nextQid[e] => Life(e, p).stage # "unasked"
  BY Spent
<1>4. CASE Life(e, q)' = Life(e, q)
  BY <1>1, <1>4
<1>5. CASE q = nextQid[e] /\ Life(e, q)' \in {At("asked", FALSE), At("over", FALSE)}
  <2>1. q >= nextQid[e]
    BY <1>5, Ranges
  <2>2. life[e][q].stage = "unasked"
    BY <1>1, <1>3, <2>1
  <2>3. Questions!InTurn(e, q)
    <3>1. \A p \in QuestionIds : p < q => life[e][p].stage # "unasked"
      BY <1>1, <1>3, <1>5
    <3> QED BY <3>1 DEF Questions!InTurn, life
  <2>4. life'[e][q] \in {Questions!At("asked", FALSE), Questions!At("over", FALSE)}
    BY <1>1, <1>2, <1>5
  <2>5. Questions!Ask(e, q)
    BY <2>2, <2>3, <2>4 DEF Questions!Ask, life
  <2> QED BY <2>5
<1>6. CASE q < nextQid[e] /\ Life(e, q)' = At("over", FALSE)
  <2>1. life[e][q].stage # "unasked" /\ life'[e][q] = Questions!At("over", FALSE)
    BY <1>1, <1>2, <1>3, <1>6
  <2>2. Questions!Finish(e, q)
    BY <2>1 DEF Questions!Finish, life
  <2> QED BY <2>2
<1>7. CASE \E ab \in Questions!Forward : \E r, s :
             /\ Life(e, q) = At(ab[1], r) /\ Life(e, q)' = At(ab[2], s)
             /\ ab[2] = "answered" => s = r
  <2>0. PICK ab \in Questions!Forward : \E r, s :
          /\ Life(e, q) = At(ab[1], r) /\ Life(e, q)' = At(ab[2], s)
          /\ ab[2] = "answered" => s = r
    BY <1>7
  <2>1. PICK r, s :
          /\ Life(e, q) = At(ab[1], r) /\ Life(e, q)' = At(ab[2], s)
          /\ ab[2] = "answered" => s = r
    BY <2>0
  <2>2. /\ life[e][q].stage = ab[1] /\ life[e][q].results = r
        /\ life'[e][q].stage = ab[2] /\ life'[e][q].results = s
    BY <1>1, <1>2, <2>1
  <2>3. <<ab[1], ab[2]>> = ab
    BY DEF Questions!Forward
  <2>4. /\ <<life[e][q].stage, life'[e][q].stage>> \in Questions!Forward
        /\ life'[e][q].stage = "answered" => life'[e][q].results = life[e][q].results
    BY <2>1, <2>2, <2>3
  <2>5. Questions!Advance(e, q)
    BY <2>4 DEF Questions!Advance, life
  <2> QED BY <2>5
<1>8. Moves(e, q)
  OBVIOUS
<1> QED BY <1>4, <1>5, <1>6, <1>7, <1>8 DEF Moves

\* Nothing has been asked.
LEMMA InitImplements == Init => Questions!Init
<1> SUFFICES ASSUME Init
             PROVE  life = [e \in Ends |-> [q \in QuestionIds |-> Questions!At("unasked", FALSE)]]
  BY DEF Questions!Init, life
<1>1. ASSUME NEW e \in Ends, NEW q \in QuestionIds
      PROVE  Life(e, q) = Questions!At("unasked", FALSE)
  <2>1. q >= nextQid[e]
    BY Ranges DEF Init, ClientInit
  <2>2. Life(e, q) = At("unasked", FALSE)
    BY <2>1, Zenon DEF Life
  <2> QED BY <2>2 DEF At, Questions!At
<1> QED BY <1>1 DEF life

\* The connections implement RpcQuestions (QuestionsImplemented): in every routed
\* system, whatever the number of connections, questions, Join sets and provisions,
\* handle_return records one verdict, the one that was sent for this question; a
\* request is answered once; and no late Return revives a question that is over.
THEOREM QuestionsCorrect ==
  ASSUME Routed
  PROVE  Spec => QuestionsImplemented
<1>1. Init => Questions!Init
  BY InitImplements
<1>2. /\ TypeInv /\ TypeInv' /\ FlowInv /\ FlowInv' /\ EmbargoedAcceptsReachClaimant'
      /\ [Next]_vars
      => Questions!Next
  BY StepMoves, MovesImplement
<1>3. Spec => []EmbargoedAcceptsReachClaimant
  BY EmbargoedAcceptsRouted
<1> QED BY <1>1, <1>2, <1>3, TypeInvariant, FlowInvariant, PTL
        DEF Spec, QuestionsImplemented, Questions!Spec
=============================================================================
