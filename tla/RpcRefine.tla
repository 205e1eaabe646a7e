------------------------------ MODULE RpcRefine ------------------------------
(***************************************************************************)
(* The connections of RpcConn implement RpcQuestions: the life of a        *)
(* question is read off the asking end's table, the frames on the wire and *)
(* what the peer keeps.                                                    *)
(***************************************************************************)
EXTENDS RpcProps

\* The request of question q of e is on its way.
Requested(e, q) ==
  \E i \in DOMAIN inbox[Peer[e]] :
    inbox[Peer[e]][i].type \in RequestTypes /\ inbox[Peer[e]][i].qid = q

\* The Returns for question q on their way to e.
Returning(e, q) ==
  {i \in DOMAIN inbox[e] : inbox[e][i].type = "Return" /\ inbox[e][i].qid = q}

\* The peer keeps question q of e: a part of a Join set that is not complete, or
\* an Accept under an embargo.
Kept(e, q) ==
  \/ \E j \in JoinSlots : /\ joins[Peer[e]][j] # NoJoin
                          /\ \E p \in PartNums : /\ joins[Peer[e]][j].parts[p] # NoPart
                                                 /\ joins[Peer[e]][j].parts[p].qid = q
  \/ \E v \in Vats, i \in ProvisionSlots :
       LET p == provisions[v][i]
       IN  p # NoProvision /\ p.embargoed /\ p.by = Peer[e] /\ p.aqid = q

At(stage, results) == [stage |-> stage, results |-> results]

Life(e, q) ==
  IF q >= nextQid[e] THEN At("unasked", FALSE)
  ELSE IF SlotsOf(e, q) = {} THEN At("over", FALSE)
  ELSE IF Requested(e, q) THEN At("asked", FALSE)
  ELSE IF Returning(e, q) # {}
  THEN At("replied", inbox[e][Min(Returning(e, q))].results)
  ELSE IF IsAnswered(e, q) THEN At("answered", ~IsFailed(e, q))
  ELSE IF Kept(e, q) THEN At("held", FALSE)
  ELSE At("lost", FALSE)

Questions ==
  INSTANCE RpcQuestions WITH Askers <- Ends, Ids <- QuestionIds,
    life <- [e \in Ends |-> [q \in QuestionIds |-> Life(e, q)]]

\* Whatever frames cross, and whatever the applications do, every question of
\* every connection lives the life RpcQuestions allows: handle_return records
\* one verdict, the one that was sent for this question, a handler answers a
\* request once, and neither a late Return nor a slot used again revives a
\* question that is over.
QuestionsImplemented == Questions!Spec
=============================================================================
