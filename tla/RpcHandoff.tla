------------------------------ MODULE RpcHandoff ------------------------------
(***************************************************************************)
(* Level 3 (capnp_rpc.c, introductions and three-party handoff).  An       *)
(* introducer sends Provide to the vat that hosts a capability, and a      *)
(* thirdPartyHosted descriptor to the recipient; the recipient presents    *)
(* the nonce in an Accept on a connection of her own.  What is arranged    *)
(* belongs to the vat, which all its connections share; what a connection  *)
(* has been told to pick up is its own.                                    *)
(***************************************************************************)
EXTENDS RpcServer

CONSTANTS
  Vats, VatOf,         \* VatOf[e]: the vat connection e belongs to
  MaxProvisions,       \* CAPNP_RPC_MAX_PROVISIONS
  MaxIntroductions,    \* CAPNP_RPC_MAX_INTRODUCTIONS
  NoProvision, NoIntroduction,   \* unused slots
  NoEnd                \* ghost: nobody has claimed the provision

ASSUME HandoffAssumption ==
  /\ VatOf \in [Ends -> Vats]
  /\ MaxProvisions \in Nat
  /\ MaxIntroductions \in Nat
  /\ NoEnd \notin Ends

VARIABLES
  provisions,      \* provisions[v][i]: a capability held for a third vat
  introductions,   \* introductions[e][i]: an introduction not yet picked up
  provided,        \* ghost: provided[v][n], Provides recorded with nonce n
  claims           \* ghost: claims[v][n], Accepts that were granted nonce n

handoffVars == <<provisions, introductions, provided, claims>>

ProvisionSlots == 0 .. (MaxProvisions - 1)
IntroductionSlots == 0 .. (MaxIntroductions - 1)

\* from and by are ghosts: the connections of the Provide and of the Accept.
Provision ==
  [nonce : Nonces, server : Servers, eid : ExportIds, qid : QuestionIds,
   embargoed : BOOLEAN, aqid : QuestionIds \cup {NoExport},
   from : Ends, by : Ends \cup {NoEnd}]

ASSUME UnusedAssumption == NoProvision \notin Provision

Introduction == [nonce : Nonces, vine : ExportIds]

HandoffTypeOK ==
  /\ provisions \in [Vats -> [ProvisionSlots -> Provision \cup {NoProvision}]]
  /\ introductions \in [Ends -> [IntroductionSlots -> Introduction \cup {NoIntroduction}]]
  /\ provided \in [Vats -> [Nonces -> Nat]]
  /\ claims \in [Vats -> [Nonces -> Nat]]

HandoffInit ==
  /\ provisions = [v \in Vats |-> [i \in ProvisionSlots |-> NoProvision]]
  /\ introductions = [e \in Ends |-> [i \in IntroductionSlots |-> NoIntroduction]]
  /\ provided = [v \in Vats |-> [n \in Nonces |-> 0]]
  /\ claims = [v \in Vats |-> [n \in Nonces |-> 0]]

-----------------------------------------------------------------------------
(* Introductions *)

\* note_introductions: the descriptors whose host name fits take the free slots,
\* first to first, and those left without a slot are dropped.
NoteIntroductions(e, intros) ==
  LET fitting == {k \in DOMAIN intros : intros[k].fits}
      free    == {i \in IntroductionSlots : introductions[e][i] = NoIntroduction}
      taking(i) == {k \in fitting : Cardinality({h \in fitting : h < k})
                                    = Cardinality({j \in free : j < i})}
      noted(k) == [nonce |-> intros[k].nonce, vine |-> intros[k].vine]
  IN  introductions' = [introductions EXCEPT ![e] =
        [i \in IntroductionSlots |->
           IF i \in free /\ taking(i) # {} THEN noted(First(taking(i)))
           ELSE introductions[e][i]]]

\* Mutant: the introduction is not dropped with its vine.
IntroductionDoneKeeps(e, nonce) ==
  LET held == {i \in IntroductionSlots :
                 introductions[e][i] # NoIntroduction /\ introductions[e][i].nonce = nonce}
  IN  /\ held # {}
      /\ Post(e, [type |-> "Release", id |-> introductions[e][First(held)].vine, count |-> 1])
      /\ UNCHANGED <<introductions, provisions, provided, claims>>

\* capnp_rpc_introduction_done: release the vine and drop the first
\* introduction with this nonce, whether or not the Release could be sent.
IntroductionDone(e, nonce) ==
  LET held == {i \in IntroductionSlots :
                 introductions[e][i] # NoIntroduction /\ introductions[e][i].nonce = nonce}
  IN  /\ held # {}
      /\ \/ Post(e, [type |-> "Release", id |-> introductions[e][First(held)].vine, count |-> 1])
         \/ SendFails(e)
      /\ introductions' = [introductions EXCEPT ![e][First(held)] = NoIntroduction]
      /\ UNCHANGED <<provisions, provided, claims>>

-----------------------------------------------------------------------------
(* Provide and Accept *)

\* A provision an Accept with this nonce may take.
Claimable(v, nonce) ==
  {i \in ProvisionSlots : /\ provisions[v][i] # NoProvision
                          /\ ~provisions[v][i].embargoed
                          /\ provisions[v][i].nonce = nonce}

\* handle_provide: the arrangement takes a reference on the introducer's
\* export and is answered with empty results.
HandleProvide(e, m) ==
  LET v    == VatOf[e]
      eid  == ResolveTarget(e, m.target)
      free == {i \in ProvisionSlots : provisions[v][i] = NoProvision}
  IN  IF eid = NoExport \/ m.nonce = NoNonce \/ free = {}
      THEN Refuse(e, m) /\ UNCHANGED <<provisions, provided>>
      ELSE /\ provisions' = [provisions EXCEPT ![v][First(free)] =
                [nonce |-> m.nonce, server |-> server[e][eid], eid |-> eid, qid |-> m.qid,
                 embargoed |-> FALSE, aqid |-> NoExport, from |-> e, by |-> NoEnd]]
           /\ provided' = [provided EXCEPT ![v][m.nonce] = @ + 1]
           /\ refcount' = [refcount EXCEPT ![e][eid] = @ + 1]
           /\ FlushAnswer(e, Results(e, m, NoExport))
           /\ UNCHANGED <<server, bootstrap, joins>>

\* Mutants: the provision can be claimed again; an embargoed Accept is answered
\* at once; the capability goes by the id it has on the introducer's connection.
GrantKeeps(e, m, i, x) ==
  LET v == VatOf[e]
      p == provisions[v][i]
  IN  /\ Export(e, p.server, x)
      /\ claims' = [claims EXCEPT ![v][m.nonce] = @ + 1]
      /\ FlushAnswer(e, [Results(e, m, x) EXCEPT !.obj = p.server])
      /\ UNCHANGED <<bootstrap, joins, provisions>>

GrantAtOnce(e, m, i, x) ==
  LET v == VatOf[e]
      p == provisions[v][i]
  IN  /\ Export(e, p.server, x)
      /\ claims' = [claims EXCEPT ![v][m.nonce] = @ + 1]
      /\ provisions' = [provisions EXCEPT ![v][i] =
           IF m.embargo THEN [p EXCEPT !.eid = x, !.embargoed = TRUE, !.aqid = m.qid, !.by = e]
           ELSE NoProvision]
      /\ FlushAnswer(e, [Results(e, m, x) EXCEPT !.obj = p.server])
      /\ UNCHANGED <<bootstrap, joins>>

GrantByIntroducersId(e, m, i, x) ==
  LET v == VatOf[e]
      p == provisions[v][i]
  IN  /\ claims' = [claims EXCEPT ![v][m.nonce] = @ + 1]
      /\ provisions' = [provisions EXCEPT ![v][i] = NoProvision]
      /\ FlushAnswer(e, [Results(e, m, p.eid) EXCEPT !.obj = p.server])
      /\ UNCHANGED <<server, refcount, bootstrap, joins>>

\* handle_accept once provision i is found and x is its export here: an
\* embargoed Accept is claimed but not answered, any other takes the
\* provision and is answered with the capability.
Grant(e, m, i, x) ==
  LET v == VatOf[e]
      p == provisions[v][i]
  IN  /\ Export(e, p.server, x)
      /\ claims' = [claims EXCEPT ![v][m.nonce] = @ + 1]
      /\ IF m.embargo
         THEN /\ provisions' = [provisions EXCEPT ![v][i] =
                   [p EXCEPT !.eid = x, !.embargoed = TRUE, !.aqid = m.qid, !.by = e]]
              /\ Absorb(e)
              /\ UNCHANGED answers
         ELSE /\ provisions' = [provisions EXCEPT ![v][i] = NoProvision]
              /\ FlushAnswer(e, [Results(e, m, x) EXCEPT !.obj = p.server])
      /\ UNCHANGED <<bootstrap, joins>>

\* handle_accept
HandleAccept(e, m) ==
  LET v     == VatOf[e]
      match == Claimable(v, m.nonce)
      x     == ExportId(e, provisions[v][First(match)].server)
  IN  IF match = {} \/ x = NoExport
      THEN Refuse(e, m) /\ UNCHANGED <<provisions, claims>>
      ELSE Grant(e, m, First(match), x)

\* Mutant: the embargo is looked up by the question of the Accept.
HandleDisembargoByAccept(e, m) ==
  LET v    == VatOf[e]
      held == {i \in ProvisionSlots : /\ provisions[v][i] # NoProvision
                                      /\ provisions[v][i].embargoed
                                      /\ provisions[v][i].aqid = m.id}
      p    == provisions[v][First(held)]
  IN  /\ m.context = "provide"
      /\ IF held = {}
         THEN Absorb(e) /\ UNCHANGED <<answers, provisions>>
         ELSE /\ provisions' = [provisions EXCEPT ![v][First(held)] = NoProvision]
              /\ FlushAnswer(e, [Results(e, [qid |-> p.aqid, type |-> "Accept"], p.eid)
                                   EXCEPT !.to = Peer[p.by], !.obj = p.server])
      /\ UNCHANGED <<server, refcount, bootstrap, joins>>

\* release_provide_embargo: the first embargoed provision of the vat that was
\* made by this question id is dropped, and its Accept is answered on e, the
\* connection that the Disembargo arrived on.
HandleDisembargoProvide(e, m) ==
  LET v    == VatOf[e]
      held == {i \in ProvisionSlots : /\ provisions[v][i] # NoProvision
                                      /\ provisions[v][i].embargoed
                                      /\ provisions[v][i].qid = m.id}
      p    == provisions[v][First(held)]
  IN  /\ m.context = "provide"
      /\ IF held = {}
         THEN Absorb(e) /\ UNCHANGED <<answers, provisions>>
         ELSE /\ provisions' = [provisions EXCEPT ![v][First(held)] = NoProvision]
              /\ FlushAnswer(e, [Results(e, [qid |-> p.aqid, type |-> "Accept"], p.eid)
                                   EXCEPT !.to = Peer[p.by], !.obj = p.server])
      /\ UNCHANGED <<server, refcount, bootstrap, joins>>
=============================================================================
