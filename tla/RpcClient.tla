------------------------------ MODULE RpcClient ------------------------------
(***************************************************************************)
(* The asking half of a connection (capnp_rpc.c, client side): the table   *)
(* of questions and what the application does with the answers.            *)
(*                                                                         *)
(* `imports' is the application's own ledger, not state of the library: it *)
(* reads every capability a recorded Return hands over, see Imported,      *)
(* and releases only references it was given.                              *)
(***************************************************************************)
EXTENDS RpcWire

CONSTANTS
  MaxQuestions,          \* CAPNP_RPC_MAX_QUESTIONS
  NoQuestion, NoReply    \* an unused slot; a question without its Return

ASSUME ClientAssumption == MaxQuestions \in Nat

VARIABLES
  questions,   \* questions[e][i]: a question asked and not finished
  nextQid,     \* nextQid[e]: next_question_id
  imports,     \* imports[e][x]: references to the peer's export x, and the
               \* object the last of them was handed over for
  vain         \* ghost: vain[e], the questions e has finished in vain: the Finish
               \* could not be sent, or came before there was an answer to drop

clientVars == <<questions, nextQid, imports, vain>>

QuestionSlots == 0 .. (MaxQuestions - 1)

\* req is a ghost: what was asked.  reply holds the frame of the Return.
Question == [qid : QuestionIds, req : Request, answered : BOOLEAN, failed : BOOLEAN,
             reply : Return \cup {NoReply}]

ASSUME UnusedQuestionAssumption == NoQuestion \notin Question

ClientTypeOK ==
  /\ questions \in [Ends -> [QuestionSlots -> Question \cup {NoQuestion}]]
  /\ nextQid \in [Ends -> 0 .. MaxAsks]
  /\ imports \in [Ends -> [ExportIds -> [n : Nat, obj : Servers \cup {NoServer}]]]
  /\ vain \in [Ends -> SUBSET QuestionIds]

ClientInit ==
  /\ questions = [e \in Ends |-> [i \in QuestionSlots |-> NoQuestion]]
  /\ nextQid = [e \in Ends |-> 0]
  /\ imports = [e \in Ends |-> [x \in ExportIds |-> [n |-> 0, obj |-> NoServer]]]
  /\ vain = [e \in Ends |-> {}]

\* Mutant: any question in use is taken for the one that is looked for.
SlotsInUse(e, qid) == {i \in QuestionSlots : questions[e][i] # NoQuestion}

\* The slots question_find looks for; it takes the first.
SlotsOf(e, qid) ==
  {i \in QuestionSlots : questions[e][i] # NoQuestion /\ questions[e][i].qid = qid}

FreeQuestions(e) == {i \in QuestionSlots : questions[e][i] = NoQuestion}

OpenQuestions(e) == {questions[e][i] : i \in QuestionSlots \ FreeQuestions(e)}

\* capnp_rpc_is_answered, capnp_rpc_is_failed
IsAnswered(e, qid) ==
  SlotsOf(e, qid) # {} /\ questions[e][Min(SlotsOf(e, qid))].answered

IsFailed(e, qid) ==
  IsAnswered(e, qid) /\ questions[e][Min(SlotsOf(e, qid))].failed

-----------------------------------------------------------------------------
(* Requests *)

\* question_claim: the first free slot, and the next id, which is req.qid.
Asked(req) == [qid |-> req.qid, req |-> req, answered |-> FALSE, failed |-> FALSE,
               reply |-> NoReply]

Claim(e, req) ==
  questions' = [questions EXCEPT ![e][Min(FreeQuestions(e))] = Asked(req)]

\* The shape shared by capnp_rpc_send_bootstrap, _call, _provide and _accept:
\* claim a question and send the request.  When the send callback fails the
\* slot is given back but the id is spent.
Ask(e, req) ==
  /\ FreeQuestions(e) # {}
  /\ nextQid[e] < MaxAsks
  /\ nextQid' = [nextQid EXCEPT ![e] = @ + 1]
  /\ UNCHANGED <<imports, vain>>
  /\ \/ Claim(e, req) /\ Post(e, req)
     \/ UNCHANGED questions /\ SendFails(e)

\* capnp_rpc_send_bootstrap
SendBootstrap(e) ==
  Ask(e, [type |-> "Bootstrap", qid |-> nextQid[e]])

\* capnp_rpc_send_call
SendCall(e, id) ==
  Ask(e, [type |-> "Call", qid |-> nextQid[e], target |-> Import(id), intros |-> <<>>])

\* A call pipelined on an answer.  The library has no function that sends one;
\* the frame is built by the peer (external).
SendPipelinedCall(e, qid, ops) ==
  Ask(e, [type |-> "Call", qid |-> nextQid[e], intros |-> <<>>,
          target |-> [kind |-> "promisedAnswer", id |-> qid, ops |-> ops]])

\* One part of a Join set (external, as above).
SendJoin(e, target, jid, pcount, pnum) ==
  Ask(e, [type |-> "Join", qid |-> nextQid[e], target |-> target, jid |-> jid,
          pcount |-> pcount, pnum |-> pnum])

\* capnp_rpc_send_provide
SendProvide(e, id, nonce) ==
  Ask(e, [type |-> "Provide", qid |-> nextQid[e], target |-> Import(id), nonce |-> nonce])

\* capnp_rpc_send_accept
SendAccept(e, nonce, embargo) ==
  Ask(e, [type |-> "Accept", qid |-> nextQid[e], nonce |-> nonce, embargo |-> embargo])

-----------------------------------------------------------------------------
(* Notices *)

\* What capnp_rpc_send_finish does to the table: the question it finds is free.
Forget(e, qid) ==
  questions' = IF SlotsOf(e, qid) = {} THEN questions
               ELSE [questions EXCEPT ![e][Min(SlotsOf(e, qid))] = NoQuestion]

\* The questions in S were finished in vain.
InVain(e, S) == vain' = [vain EXCEPT ![e] = @ \cup S]

\* capnp_rpc_send_finish.  The question is forgotten before the Finish is sent,
\* and stays so when the send callback fails.
SendFinish(e, qid) ==
  /\ Forget(e, qid)
  /\ \/ Post(e, [type |-> "Finish", qid |-> qid]) /\ UNCHANGED vain
     \/ SendFails(e) /\ InVain(e, {qid})
  /\ UNCHANGED <<nextQid, imports>>

\* capnp_rpc_send_release.  One that could not be sent leaves the reference where
\* it was, and the application, which is told, still has it; it is the same with
\* the notices below.
SendRelease(e, id, count) ==
  /\ count \in 1 .. imports[e][id].n
  /\ imports' = [imports EXCEPT ![e][id].n = @ - count]
  /\ Post(e, [type |-> "Release", id |-> id, count |-> count])
  /\ UNCHANGED <<questions, nextQid, vain>>

\* capnp_rpc_send_disembargo_provide, and the contexts a peer may send.
SendDisembargo(e, context, id) ==
  /\ Post(e, [type |-> "Disembargo", context |-> context, id |-> id])
  /\ UNCHANGED clientVars

\* A promise resolution, which the library never sends (external).
SendResolve(e) ==
  /\ Post(e, [type |-> "Resolve"])
  /\ UNCHANGED clientVars

-----------------------------------------------------------------------------
(* Returns *)

\* handle_return drops a Return that names no question it asked, or whose
\* frame does not fit the question's reply buffer.
Recorded(e, m) == SlotsOf(e, m.qid) # {} /\ m.small

\* The ledger once the application has read what the Return hands over:
\* capnp_rpc_answer_cap_id, or capnp_rpc_answer_content for a JoinResult.  There is
\* nothing to read in a Return that was dropped or that failed.
Imported(e, m) ==
  IF Recorded(e, m) /\ m.results /\ m.cap # NoExport
  THEN [imports EXCEPT ![e][m.cap] = [n |-> @.n + 1, obj |-> m.obj]]
  ELSE imports

\* handle_return, without the introductions its cap table brings, followed by
\* the application reading the capability.
HandleReturn(e, m) ==
  /\ Absorb(e)
  /\ IF Recorded(e, m)
     THEN questions' = [questions EXCEPT ![e][Min(SlotsOf(e, m.qid))] =
                          [@ EXCEPT !.answered = TRUE, !.failed = ~m.results, !.reply = m]]
     ELSE UNCHANGED questions
  /\ imports' = Imported(e, m)
  /\ UNCHANGED <<nextQid, vain>>
=============================================================================
