------------------------------- MODULE RpcConn -------------------------------
(***************************************************************************)
(* Connections as a whole: every capnp_rpc_conn_t of a set of vats, both   *)
(* halves of each, and the applications that drive them.                   *)
(*                                                                         *)
(* Ops[e] is the set of operations the application at e uses; leaving one  *)
(* out narrows the peers that are considered, never what a handler does.   *)
(***************************************************************************)
EXTENDS RpcHandoff, RpcClient

CONSTANTS
  Ops,         \* Ops[e]: the operations the application at e uses
  JoinCounts   \* partCounts a peer puts in a JoinKeyPart

ASSUME ConnAssumption == JoinCounts \subseteq Nat

vars == <<inbox, server, refcount, bootstrap, answers, joins, questions, nextQid, imports,
          vain, provisions, introductions, provided, claims>>

Init == WireInit /\ ServerInit /\ ClientInit /\ HandoffInit

TypeOK ==
  /\ inbox \in [Ends -> Seq(Message)]
  /\ ServerTypeOK
  /\ ClientTypeOK
  /\ HandoffTypeOK

-----------------------------------------------------------------------------
(* capnp_rpc_handle: one action per message type *)

\* The frame capnp_rpc_handle is given next has this type.
Given(e, type) == inbox[e] # <<>> /\ Head(inbox[e]).type = type

RecvBootstrap(e) ==
  /\ Given(e, "Bootstrap")
  /\ HandleBootstrap(e, Head(inbox[e]))
  /\ UNCHANGED <<clientVars, handoffVars>>

RecvCall(e) ==
  /\ Given(e, "Call")
  /\ HandleCall(e, Head(inbox[e]))
  /\ NoteIntroductions(e, Head(inbox[e]).intros)
  /\ UNCHANGED <<clientVars, provisions, provided, claims>>

\* The questions of e's peer that an embargo holds back at e.
HeldBack(e) ==
  LET held == {i \in ProvisionSlots : /\ provisions[VatOf[e]][i] # NoProvision
                                      /\ provisions[VatOf[e]][i].embargoed
                                      /\ provisions[VatOf[e]][i].by = e}
  IN  {provisions[VatOf[e]][i].aqid : i \in held}

\* A Finish for a question that an embargo holds back finds no answer to drop,
\* and leaves the provision as it is.
RecvFinish(e) ==
  /\ Given(e, "Finish")
  /\ HandleFinish(e, Head(inbox[e]))
  /\ InVain(Peer[e], {Head(inbox[e]).qid} \cap HeldBack(e))
  /\ UNCHANGED <<questions, nextQid, imports, handoffVars>>

RecvRelease(e) ==
  /\ Given(e, "Release")
  /\ HandleRelease(e, Head(inbox[e]))
  /\ UNCHANGED <<clientVars, handoffVars>>

RecvJoin(e) ==
  /\ Given(e, "Join")
  /\ HandleJoin(e, Head(inbox[e]))
  /\ UNCHANGED <<clientVars, handoffVars>>

RecvDisembargo(e) ==
  /\ Given(e, "Disembargo")
  /\ \/ HandleDisembargo(e, Head(inbox[e])) /\ UNCHANGED handoffVars
     \/ /\ HandleDisembargoProvide(e, Head(inbox[e]))
        /\ UNCHANGED <<introductions, provided, claims>>
  /\ UNCHANGED clientVars

RecvReturn(e) ==
  LET m == Head(inbox[e])
  IN  /\ Given(e, "Return")
      /\ HandleReturn(e, m)
      /\ IF Recorded(e, m) /\ m.results
         THEN NoteIntroductions(e, m.intros) ELSE UNCHANGED introductions
      /\ UNCHANGED <<serverVars, provisions, provided, claims>>

RecvProvide(e) ==
  /\ Given(e, "Provide")
  /\ HandleProvide(e, Head(inbox[e]))
  /\ UNCHANGED <<clientVars, introductions, claims>>

RecvAccept(e) ==
  /\ Given(e, "Accept")
  /\ HandleAccept(e, Head(inbox[e]))
  /\ UNCHANGED <<clientVars, introductions, provided>>

RecvOther(e) ==
  /\ Given(e, "Resolve") \/ Given(e, "Unimplemented")
  /\ HandleUnimplemented(e, Head(inbox[e]))
  /\ UNCHANGED <<clientVars, handoffVars>>

Receive(e) ==
  \/ RecvBootstrap(e) \/ RecvCall(e) \/ RecvFinish(e) \/ RecvRelease(e) \/ RecvJoin(e)
  \/ RecvDisembargo(e) \/ RecvReturn(e) \/ RecvProvide(e) \/ RecvAccept(e) \/ RecvOther(e)

-----------------------------------------------------------------------------
(* What an application does *)

Held(e) == {x \in ExportIds : imports[e][x].n > 0}

\* A question that is not finished has addressed x, or has brought x.
InUse(e, x) ==
  \E q \in OpenQuestions(e) :
    \/ q.answered /\ q.reply.cap = x
    \/ q.req.type \in {"Call", "Join", "Provide"} /\ q.req.target = Import(x)

\* The vat of e has been handed the capability it was introduced to.
PickedUp(e, nonce) ==
  \E f \in Ends : /\ VatOf[f] = VatOf[e]
                  /\ \E q \in OpenQuestions(f) : /\ q.req.type = "Accept"
                                                 /\ q.req.nonce = nonce
                                                 /\ q.answered /\ ~q.failed

\* Requests and notices that only the asking half takes part in.
Asks(e) ==
  /\ \/ "bootstrap" \in Ops[e] /\ SendBootstrap(e)
     \/ "call" \in Ops[e] /\ \E x \in Held(e) : SendCall(e, x)
     \/ "strayCall" \in Ops[e] /\ \E x \in WireIds : SendCall(e, x)
     \/ "pipeline" \in Ops[e]
        /\ \E q \in OpenQuestions(e), ops \in BOOLEAN : SendPipelinedCall(e, q.qid, ops)
     \/ "join" \in Ops[e]
        /\ \E x \in Held(e), jid \in JoinIds, pcount \in JoinCounts, pnum \in PartNums :
             SendJoin(e, Import(x), jid, pcount, pnum)
     \/ "provide" \in Ops[e] /\ \E x \in Held(e), n \in Nonces : SendProvide(e, x, n)
     \/ "accept" \in Ops[e] /\ \E n \in Nonces : SendAccept(e, n, FALSE)
     \/ "embargo" \in Ops[e] /\ \E n \in Nonces : SendAccept(e, n, TRUE)
  /\ UNCHANGED <<serverVars, handoffVars>>

\* A frame the other vat answers with a frame of its own, and for Resolve and
\* Unimplemented so on until the message is nested too deeply.
Echoed == {"Disembargo", "Resolve", "Unimplemented"}

\* The bound on notices that are echoed, which nothing else limits: one at a
\* time on a connection.
RoomToEcho(e) ==
  /\ Len(inbox[e]) + Len(inbox[Peer[e]]) < MaxInFlight
  /\ \A f \in {e, Peer[e]} : \A i \in DOMAIN inbox[f] : inbox[f][i].type \notin Echoed

\* The embargo id is the application's to choose; it takes the id its next
\* question will have.
Tells(e) ==
  /\ \/ "finish" \in Ops[e]
        /\ \E q \in OpenQuestions(e) : q.answered /\ SendFinish(e, q.qid)
     \/ "earlyFinish" \in Ops[e]
        /\ \E q \in OpenQuestions(e) : ~q.answered /\ SendFinish(e, q.qid)
     \/ "release" \in Ops[e]
        /\ \E x \in ExportIds, count \in 1 .. MaxAsks : SendRelease(e, x, count)
     \/ "releaseLate" \in Ops[e]
        /\ \E x \in ExportIds : ~InUse(e, x) /\ SendRelease(e, x, 1)
     \/ "disembargo" \in Ops[e]
        /\ \E q \in OpenQuestions(e) : q.req.type = "Provide"
                                       /\ SendDisembargo(e, "provide", q.qid)
     \/ "loopback" \in Ops[e] /\ RoomToEcho(e) /\ SendDisembargo(e, "senderLoopback", nextQid[e])
     \/ "resolve" \in Ops[e] /\ RoomToEcho(e) /\ SendResolve(e)
  /\ UNCHANGED <<serverVars, handoffVars>>

\* capnp_rpc_set_bootstrap by the hosting application.
Hosts(e) ==
  /\ "host" \in Ops[e]
  /\ \E s \in Servers : bootstrap[e] # s /\ SetBootstrap(e, s)
  /\ UNCHANGED <<clientVars, handoffVars>>

\* An introducer exports a vine and writes a thirdPartyHosted descriptor for
\* it into the cap table of a call (capnp_rpc_write_third_party_cap; the call
\* frame is its own, external).
Introduces(e) ==
  \E s \in Servers, n \in Nonces, fits \in BOOLEAN :
    LET x == ExportId(e, s)
    IN  /\ "introduce" \in Ops[e]
        /\ x # NoExport
        /\ Export(e, s, x)
        /\ Ask(e, [type |-> "Call", qid |-> nextQid[e], target |-> Import(0),
                   intros |-> <<[nonce |-> n, vine |-> x, fits |-> fits]>>])
        /\ UNCHANGED <<bootstrap, answers, joins, handoffVars>>

\* A vat that is not this library answers a call with a thirdPartyHosted
\* descriptor in the Return's cap table (external).
ReturnsIntroduction(e) ==
  \E s \in Servers, n \in Nonces :
    LET x   == ExportId(e, s)
        ret == Results(e, Head(inbox[e]), NoExport)
    IN  /\ "introduceInReturn" \in Ops[e]
        /\ Given(e, "Call")
        /\ x # NoExport
        /\ Export(e, s, x)
        /\ Answer(e, <<[ret EXCEPT !.intros = <<[nonce |-> n, vine |-> x, fits |-> TRUE]>>]>>)
        /\ UNCHANGED <<bootstrap, answers, joins, clientVars, handoffVars>>

\* capnp_rpc_introduction_done, called once the capability has been picked up.
PicksUp(e) ==
  /\ "done" \in Ops[e]
  /\ \E n \in Nonces : PickedUp(e, n) /\ IntroductionDone(e, n)
  /\ UNCHANGED <<serverVars, clientVars>>

Acts(e) ==
  Asks(e) \/ Tells(e) \/ Hosts(e) \/ Introduces(e) \/ ReturnsIntroduction(e) \/ PicksUp(e)

Next == \E e \in Ends : Receive(e) \/ Acts(e)

Spec == Init /\ [][Next]_vars

\* The loop that pumps frames from the transport into capnp_rpc_handle keeps
\* running; no application is obliged to do anything.
FairSpec == Spec /\ \A e \in Ends : WF_vars(Receive(e))
=============================================================================
