------------------------------ MODULE RpcStream ------------------------------
(***************************************************************************)
(* Flow control for `-> stream' methods (capnp_rpc.c, the stream API):     *)
(* a window of calls whose Returns the application does not look at one by *)
(* one, on top of the connections of RpcConn.                              *)
(***************************************************************************)
EXTENDS RpcProps

CONSTANTS
  MaxWindow,   \* CAPNP_RPC_STREAM_MAX_WINDOW
  Windows      \* the windows applications ask for

ASSUME StreamAssumption ==
  /\ MaxWindow \in Nat \ {0}
  /\ Windows \subseteq Int

VARIABLES
  stream,   \* stream[e]: the stream of the application at e
  result,   \* result[e]: what capnp_rpc_stream_finish returned, "none" once the
            \* stream has been used again
  replied   \* ghost: replied[e][q], the Return recorded for question q

streamVars == <<stream, result, replied>>
allVars == <<vars, streamVars>>

\* No call of the stream has failed (have_failure is 0).
NoFailure == -1

\* window is 0 until capnp_rpc_stream_init; qids lists the outstanding calls,
\* oldest first; failed is set exactly when first_failure is, so one field
\* stands for failed, have_failure and first_failure; sent is a ghost, the
\* calls made on this stream.
NoStream == [window |-> 0, qids |-> <<>>, failure |-> NoFailure, sent |-> {}]

StreamInit ==
  /\ stream = [e \in Ends |-> NoStream]
  /\ result = [e \in Ends |-> "none"]
  /\ replied = [e \in Ends |-> [q \in QuestionIds |-> "none"]]

\* Mutant: the window is not clamped from above.
ClampBelow(w) == IF w < 1 THEN 1 ELSE w

\* capnp_rpc_stream_init clamps the window.
Clamp(w) == IF w < 1 THEN 1 ELSE IF w > MaxWindow THEN MaxWindow ELSE w

Open(e, w) ==
  /\ "stream" \in Ops[e]
  /\ stream[e] = NoStream
  /\ stream' = [stream EXCEPT ![e] = [NoStream EXCEPT !.window = Clamp(w)]]
  /\ UNCHANGED <<vars, result, replied>>

-----------------------------------------------------------------------------
(* stream_retire_oldest *)

\* Mutant: a call that never answered is no failure.
BadIfFailed(e, qid) == IsFailed(e, qid)

\* A call that never answered, or answered with an exception, is a failure.
Bad(e, qid) == ~IsAnswered(e, qid) \/ IsFailed(e, qid)

\* Mutant: the last failure is recorded.
FailureLast(e, s, qids) ==
  LET bad == {i \in DOMAIN qids : Bad(e, qids[i])}
  IN  IF bad = {} THEN s.failure ELSE qids[Max(bad)]

\* The first call of qids that is a failure, unless the stream has one.
FailureAfter(e, s, qids) ==
  LET bad == {i \in DOMAIN qids : Bad(e, qids[i])}
  IN  IF s.failure # NoFailure \/ bad = {} THEN s.failure ELSE qids[Min(bad)]

\* Mutant: the calls that were retired stay in the window.
RetiredStay(e, s, n) == [s EXCEPT !.failure = FailureAfter(e, s, SubSeq(s.qids, 1, n))]

\* Retire the n oldest calls.
Retired(e, s, n) ==
  [s EXCEPT !.qids = SubSeq(@, n + 1, Len(@)),
            !.failure = FailureAfter(e, s, SubSeq(s.qids, 1, n))]

\* The question table, and the Finishes, once these questions are finished.
TableWithout(e, qids) ==
  [i \in QuestionSlots |->
     IF questions[e][i] # NoQuestion /\ \E k \in DOMAIN qids : qids[k] = questions[e][i].qid
     THEN NoQuestion ELSE questions[e][i]]

Finishes(qids) == [k \in DOMAIN qids |-> [type |-> "Finish", qid |-> qids[k]]]

\* The elements of s at some of its places, in order.
Subsequences(s) ==
  LET places == {at \in UNION {[1 .. n -> DOMAIN s] : n \in 0 .. Len(s)} :
                   \A i, k \in DOMAIN at : i < k => at[i] < at[k]}
  IN  {[i \in DOMAIN at |-> s[at[i]]] : at \in places}

\* The questions of qids whose Finish e sends.  capnp_rpc_send_finish may fail for
\* any of them, and stream_retire_oldest does not look at what it returns.
Heard(e, qids) == IF e \in SendMayFail THEN Subsequences(qids) ELSE {qids}

\* Of qids, those that are not in told are finished in vain.
Unheard(qids, told) == {qids[k] : k \in DOMAIN qids} \ {told[k] : k \in DOMAIN told}

-----------------------------------------------------------------------------
(* Operations *)

\* capnp_rpc_stream_send on import x: nothing at all once the stream has
\* failed; a full window retires its oldest call first, and if that fails the
\* stream no call is made; when there is no question left, or the send callback
\* fails, the window stays one call short.
StreamSend(e, x) ==
  LET s     == stream[e]
      n     == IF Len(s.qids) >= s.window THEN 1 ELSE 0
      gone  == SubSeq(s.qids, 1, n)
      kept  == Retired(e, s, n)
      table == TableWithout(e, gone)
      free  == {i \in QuestionSlots : table[i] = NoQuestion}
      req   == [type |-> "Call", qid |-> nextQid[e], target |-> Import(x), intros |-> <<>>]
      tried == kept.failure = NoFailure /\ free # {}
  IN  /\ "stream" \in Ops[e]
      /\ s # NoStream
      /\ s.failure = NoFailure
      /\ nextQid[e] < MaxAsks
      /\ Len(inbox[Peer[e]]) < MaxInFlight
      /\ \E made \in {tried, tried /\ e \notin SendMayFail}, told \in Heard(e, gone) :
           /\ stream' = [stream EXCEPT ![e] =
                           IF made THEN [kept EXCEPT !.qids = Append(@, req.qid),
                                                     !.sent = @ \cup {req.qid}]
                           ELSE kept]
           /\ questions' = [questions EXCEPT ![e] =
                              IF made THEN [table EXCEPT ![Min(free)] = Asked(req)] ELSE table]
           /\ inbox' = [inbox EXCEPT ![Peer[e]] =
                          @ \o Finishes(told) \o (IF made THEN <<req>> ELSE <<>>)]
           /\ InVain(e, Unheard(gone, told))
      /\ nextQid' = [nextQid EXCEPT ![e] = IF tried THEN @ + 1 ELSE @]
      /\ result' = [result EXCEPT ![e] = "none"]
      /\ UNCHANGED <<imports, serverVars, handoffVars, replied>>

\* capnp_rpc_stream_finish retires every outstanding call, answered or not.
StreamFinish(e) ==
  LET s    == stream[e]
      done == Retired(e, s, Len(s.qids))
  IN  /\ "stream" \in Ops[e]
      /\ s # NoStream
      /\ Len(inbox[Peer[e]]) < MaxInFlight
      /\ stream' = [stream EXCEPT ![e] = done]
      /\ result' = [result EXCEPT ![e] = IF done.failure = NoFailure THEN "ok" ELSE "error"]
      /\ questions' = [questions EXCEPT ![e] = TableWithout(e, s.qids)]
      /\ \E told \in Heard(e, s.qids) :
           /\ inbox' = [inbox EXCEPT ![Peer[e]] = @ \o Finishes(told)]
           /\ InVain(e, Unheard(s.qids, told))
      /\ UNCHANGED <<nextQid, imports, serverVars, handoffVars, replied>>

\* Every other step of the connections; the ghost follows the question table.
Other ==
  /\ Next
  /\ replied' = [e \in Ends |-> [q \in QuestionIds |->
       CASE \E r \in OpenQuestions(e)' : r.qid = q /\ r.answered /\ ~r.failed -> "ok"
         [] \E r \in OpenQuestions(e)' : r.qid = q /\ r.answered /\ r.failed -> "failed"
         [] OTHER -> replied[e][q]]]
  /\ UNCHANGED <<stream, result>>

StreamNext ==
  \/ Other
  \/ \E e \in Ends : \/ \E w \in Windows : Open(e, w)
                     \/ \E x \in Held(e) : StreamSend(e, x)
                     \/ StreamFinish(e)

StreamSpec == Init /\ StreamInit /\ [][StreamNext]_allVars

-----------------------------------------------------------------------------
(* Properties *)

StreamTypeOK ==
  /\ TypeOK
  /\ stream \in [Ends -> [window : 0 .. MaxWindow, qids : Seq(QuestionIds),
                          failure : QuestionIds \cup {NoFailure}, sent : SUBSET QuestionIds]]
  /\ result \in [Ends -> {"none", "ok", "error"}]
  /\ replied \in [Ends -> [QuestionIds -> {"none", "ok", "failed"}]]

\* The outstanding calls of a stream are open questions, each listed once, in
\* the order they were sent, and never more than the window allows: retiring
\* and sending in one operation neither loses a question slot nor finishes a
\* question that is still listed.
StreamTracksOpenCalls ==
  \A e \in Ends :
    LET q == stream[e].qids
    IN  /\ Len(q) <= stream[e].window
        /\ \A i, k \in DOMAIN q : i < k => q[i] < q[k]
        /\ \A i \in DOMAIN q : SlotsOf(e, q[i]) # {}

\* The streaming error-propagation rule: when capnp_rpc_stream_finish returns
\* CAPNP_OK, every call made on the stream has been answered with results.
FinishOkMeansAllSucceeded ==
  \A e \in Ends :
    result[e] = "ok" => \A q \in stream[e].sent : replied[e][q] = "ok"

\* first_failure names the first call that failed: every call made before it
\* was answered with results, and it was not.
FirstFailureIsFirst ==
  \A e \in Ends :
    stream[e].failure # NoFailure =>
      /\ replied[e][stream[e].failure] # "ok"
      /\ \A q \in stream[e].sent : q < stream[e].failure => replied[e][q] = "ok"
=============================================================================
