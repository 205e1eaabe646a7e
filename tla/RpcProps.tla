------------------------------- MODULE RpcProps -------------------------------
(***************************************************************************)
(* What makes the connections of RpcConn correct.                          *)
(***************************************************************************)
EXTENDS RpcConn

-----------------------------------------------------------------------------
(* Exports and the references to them *)

\* capnp_rpc_export reuses the id that already names a server, so at no time
\* do two ids of one connection name the same object: a peer that compares
\* ids, and Join, which compares export ids, see one id per object.
OneIdPerObject ==
  \A e \in Ends : \A x, y \in ExportIds :
    Used(e, x) /\ server[e][x] = server[e][y] => x = y

\* The sum of the naturals in a sequence: one token for each unit of each of them.
Total(w) == Cardinality(UNION {{i} \X (1 .. w[i]) : i \in DOMAIN w})

\* References to e's export x that a message to e's peer carries, and that a
\* message to e gives back.
Carries(m, x) ==
  (IF m.type = "Return" /\ m.cap = x THEN 1 ELSE 0)
  + (IF m.type \in {"Return", "Call"}
     THEN Cardinality({k \in DOMAIN m.intros : m.intros[k].vine = x}) ELSE 0)

GivesBack(m, x) == IF m.type = "Release" /\ m.id = x THEN m.count ELSE 0

\* The same for all the messages of a queue.
CarriedIn(q, x) == Total([i \in DOMAIN q |-> Carries(q[i], x)])

GivenBackIn(q, x) == Total([i \in DOMAIN q |-> GivesBack(q[i], x)])

\* The introductions of a table that hold vine x.
Vines(t, x) == {i \in IntroductionSlots : t[i] # NoIntroduction /\ t[i].vine = x}

\* References to e's export x that the peer holds, will be handed, or has
\* released without e having been told yet.
Outstanding(e, x) ==
  LET p == Peer[e]
  IN  imports[p][x].n + Cardinality(Vines(introductions[p], x))
      + CarriedIn(inbox[p], x) + GivenBackIn(inbox[e], x)

\* handle_release frees a slot when its count runs out.  The count never runs
\* below the references that are outstanding, whatever Returns and Releases
\* cross on the wire: no capability is freed under a peer that still holds it.
NoEarlyFree ==
  \A e \in Ends, x \in ExportIds : refcount[e][x] >= Outstanding(e, x)

\* An export id that a peer holds, or that is on its way to it in a Return,
\* still stands for the object it was handed over for: a slot that is freed
\* and used again is never still in somebody's hands.
ImportsNameTheirObject ==
  \A e \in Ends :
    /\ \A x \in Held(e) : server[Peer[e]][x] = imports[e][x].obj
    /\ \A i \in DOMAIN inbox[e] :
         LET m == inbox[e][i]
         IN  m.type = "Return" /\ m.cap # NoExport => server[Peer[e]][m.cap] = m.obj

-----------------------------------------------------------------------------
(* Questions and answers *)

\* handle_return matches a Return to a question by id alone.  A question that
\* has been answered has the answer to what it asked: no Return meant for
\* another question, another request or another connection is recorded in it.
RepliesMatchQuestions ==
  \A e \in Ends : \A q \in OpenQuestions(e) :
    q.answered => q.reply.to = e /\ q.reply.for = q.req.type

\* flush_answer keeps a Return until Finish so that a pipelined call finds the
\* capability it names: a kept answer that carries a capability names an export
\* that still stands for the object that was returned, until its question is
\* finished, be it in vain.
KeptAnswersNameTheirObject ==
  \A e \in Ends : \A i \in AnswerSlots :
    /\ answers[e][i] # NoAnswer
    /\ answers[e][i].cap # NoExport
    /\ answers[e][i].qid \notin vain[Peer[e]]
    => server[e][answers[e][i].cap] = answers[e][i].obj

\* Finish and Return cross on the wire, exceptions are never kept and large
\* Returns neither.  A slot of the answer table is lost for good, to a question
\* that nobody will finish, in two cases only: capnp_rpc_send_finish could not
\* send the Finish, or the Finish came while an embargo held the answer back.
\* Any other answer that is kept is one whose question the peer has not finished
\* or whose Finish is on its way.
KeptAnswersWillBeFinished ==
  \A e \in Ends : \A i \in AnswerSlots :
    answers[e][i] # NoAnswer =>
      \/ \E q \in OpenQuestions(Peer[e]) : q.qid = answers[e][i].qid
      \/ \E k \in DOMAIN inbox[e] : /\ inbox[e][k].type = "Finish"
                                    /\ inbox[e][k].qid = answers[e][i].qid
      \/ answers[e][i].qid \in vain[Peer[e]]

\* join_complete compares the export ids recorded when each part arrived.  A
\* JoinResult says succeeded exactly when every part named the same object.
JoinVerdictsTrue ==
  \A e \in Ends : \A i \in DOMAIN inbox[e] :
    LET m == inbox[e][i]
    IN  m.type = "Return" /\ m.for = "Join" => (m.joined <=> m.obj # NoServer)

\* A question asked and not answered, on which nothing but the peer's vat is
\* keeping the answer back: a part of a Join set waits for the other parts, an
\* embargoed Accept for the introducer.
Waiting(e, qid) ==
  \E q \in OpenQuestions(e) :
    /\ q.qid = qid
    /\ ~q.answered
    /\ q.req.type # "Join"
    /\ q.req.type = "Accept" => ~q.req.embargo

\* Such a question is answered, with results or with an exception, unless it
\* is finished first: nothing a handler does leaves the caller waiting forever.
QuestionsAnswered ==
  \A e \in Ends, qid \in QuestionIds : Waiting(e, qid) ~> ~Waiting(e, qid)

\* handle_disembargo reflects a senderLoopback so that its sender knows that
\* every call it sent before has arrived.  When the reflection is on its way
\* back, no call with an id below the embargo's waits at the peer, and no
\* Return of such a call comes after it.
LoopbackFollowsCalls ==
  \A e \in Ends : \A k \in DOMAIN inbox[e] :
    LET m == inbox[e][k]
        late(i) == inbox[e][i].type = "Return" /\ inbox[e][i].for = "Call"
    IN  m.type = "Disembargo" /\ m.context = "receiverLoopback" =>
          /\ \A i \in DOMAIN inbox[Peer[e]] :
               inbox[Peer[e]][i].type = "Call" => inbox[Peer[e]][i].qid >= m.id
          /\ \A i \in k .. Len(inbox[e]) : late(i) => inbox[e][i].qid >= m.id

-----------------------------------------------------------------------------
(* Handoff *)

\* A nonce is single-use: per nonce, the Accepts that were granted and the
\* provisions that can still be claimed add up to the Provides recorded, on
\* whatever connections of the vat they arrived.
NonceLedger ==
  \A v \in Vats, n \in Nonces :
    claims[v][n] + Cardinality(Claimable(v, n)) = provided[v][n]

\* An embargoed Accept is answered on the connection it arrived on, to the
\* recipient that claimed the capability.
EmbargoedAcceptsReachClaimant ==
  \A e \in Ends : \A i \in DOMAIN inbox[e] :
    inbox[e][i].type = "Return" => inbox[e][i].to = e

\* The introducer's Disembargo for the embargoed Accept that end e asked in
\* question qid has been sent.
EmbargoBeingLifted(e, qid) ==
  \E v \in Vats, i \in ProvisionSlots :
    LET p == provisions[v][i]
    IN  /\ p # NoProvision
        /\ p.embargoed /\ p.by = Peer[e] /\ p.aqid = qid
        /\ \E k \in DOMAIN inbox[p.from] :
             inbox[p.from][k] = [type |-> "Disembargo", context |-> "provide", id |-> p.qid]

\* Once the introducer has lifted the embargo, the recipient's Accept is
\* answered.
LiftedEmbargoesAnswer ==
  \A e \in Ends, qid \in QuestionIds :
    EmbargoBeingLifted(e, qid) ~> (SlotsOf(e, qid) = {} \/ IsAnswered(e, qid))

\* While an Accept is embargoed its question has no answer, neither recorded
\* nor on the wire: the recipient cannot overtake the calls it sent through
\* the introducer.
EmbargoHolds ==
  \A v \in Vats, i \in ProvisionSlots :
    LET p == provisions[v][i]
    IN  p # NoProvision /\ p.embargoed =>
          LET e == Peer[p.by]
          IN  /\ ~IsAnswered(e, p.aqid)
              /\ \A k \in DOMAIN inbox[e] :
                   inbox[e][k].type = "Return" => inbox[e][k].qid # p.aqid
=============================================================================
