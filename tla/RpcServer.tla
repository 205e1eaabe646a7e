------------------------------ MODULE RpcServer ------------------------------
(***************************************************************************)
(* The answering half of a connection (capnp_rpc.c, levels 1 and 4): the   *)
(* export table, the answers kept for promise pipelining and the Join sets *)
(* that are still incomplete.                                              *)
(*                                                                         *)
(* A handler Handle...(e, m) is what capnp_rpc_handle does when m is the   *)
(* first frame waiting at e.  It constrains the variables of this module   *)
(* and the transport; RpcConn says what the other variables do.            *)
(***************************************************************************)
EXTENDS RpcWire

CONSTANTS
  MaxAnswers,   \* CAPNP_RPC_MAX_ANSWERS
  MaxJoins,     \* CAPNP_RPC_MAX_JOINS
  MaxWraps,     \* how often capnp_builder_copy_ptr can wrap a message before it is
                \* nested too deeply to copy: 64 levels less those of the message
  Outcomes,     \* what dispatch functions do: see Dispatch
  NoAnswer, NoJoin, NoPart   \* unused slots

ASSUME ServerAssumption ==
  /\ MaxAnswers \in Nat
  /\ MaxJoins \in Nat
  /\ MaxWraps \in Nat
  /\ Outcomes \subseteq {"small", "large", "fails"}

VARIABLES
  server,     \* server[e][x]: the object export x stands for, NoServer when unused
  refcount,   \* refcount[e][x]: references handed out and not released
  bootstrap,  \* bootstrap[e]: the bootstrap object, NoServer when none is set
  answers,    \* answers[e][i]: a Return sent and kept until Finish
  joins       \* joins[e][i]: a Join set that is not complete

serverVars == <<server, refcount, bootstrap, answers, joins>>

AnswerSlots == 0 .. (MaxAnswers - 1)
JoinSlots == 0 .. (MaxJoins - 1)
PartNums == 0 .. (MaxJoinParts - 1)

\* obj is a ghost: the object the kept answer's capability stood for.
KeptAnswer == [qid : QuestionIds, cap : ExportIds \cup {NoExport},
               obj : Servers \cup {NoServer}]

\* obj is a ghost: the object the part's target resolved to.
Part == [qid : QuestionIds, eid : ExportIds \cup {NoExport}, obj : Servers \cup {NoServer}]

JoinSet == [jid : JoinIds, pcount : 1 .. MaxJoinParts, parts : [PartNums -> Part \cup {NoPart}]]

ASSUME UnusedSlotsAssumption ==
  NoAnswer \notin KeptAnswer /\ NoPart \notin Part /\ NoJoin \notin JoinSet

ServerTypeOK ==
  /\ server \in [Ends -> [ExportIds -> Servers \cup {NoServer}]]
  /\ refcount \in [Ends -> [ExportIds -> Int]]
  /\ bootstrap \in [Ends -> Servers \cup {NoServer}]
  /\ answers \in [Ends -> [AnswerSlots -> KeptAnswer \cup {NoAnswer}]]
  /\ joins \in [Ends -> [JoinSlots -> JoinSet \cup {NoJoin}]]

ServerInit ==
  /\ server = [e \in Ends |-> [x \in ExportIds |-> NoServer]]
  /\ refcount = [e \in Ends |-> [x \in ExportIds |-> 0]]
  /\ bootstrap = [e \in Ends |-> NoServer]
  /\ answers = [e \in Ends |-> [i \in AnswerSlots |-> NoAnswer]]
  /\ joins = [e \in Ends |-> [i \in JoinSlots |-> NoJoin]]

\* The loops over a table take the first slot that fits.
First(S) == Min(S)

-----------------------------------------------------------------------------
(* Exports *)

Used(e, x) == server[e][x] # NoServer

\* Mutant: a server that already has an id is given another.
ExportIdNoReuse(e, s) ==
  LET free == {x \in ExportIds : ~Used(e, x)}
  IN  IF free # {} THEN First(free) ELSE NoExport

\* capnp_rpc_export: the id already naming this server, else the first free
\* one, else -1.
ExportId(e, s) ==
  LET naming == {x \in ExportIds : server[e][x] = s}
      free   == {x \in ExportIds : ~Used(e, x)}
  IN  IF naming # {} THEN First(naming)
      ELSE IF free # {} THEN First(free) ELSE NoExport

\* Mutant: handing out an id again does not count a reference.
ExportNoCount(e, s, x) ==
  /\ server' = [server EXCEPT ![e][x] = s]
  /\ refcount' = [refcount EXCEPT ![e][x] = IF server[e][x] = s THEN @ ELSE 1]

\* What capnp_rpc_export does to the table when it returns x.
Export(e, s, x) ==
  /\ server' = [server EXCEPT ![e][x] = s]
  /\ refcount' = [refcount EXCEPT ![e][x] = IF server[e][x] = s THEN @ + 1 ELSE 1]

\* resolve_target and resolve_promised_answer: the export a target names.
ResolveTarget(e, t) ==
  LET kept == {i \in AnswerSlots : answers[e][i] # NoAnswer /\ answers[e][i].qid = t.id}
      eid  == CASE t.kind = "importedCap" -> t.id
                [] t.kind = "promisedAnswer" /\ ~t.ops /\ kept # {} -> answers[e][First(kept)].cap
                [] OTHER -> NoExport
  IN  IF eid \in ExportIds /\ Used(e, eid) THEN eid ELSE NoExport

-----------------------------------------------------------------------------
(* Returns *)

\* A Return with results, made by begin_return for the request m.
Results(e, m, cap) ==
  [type |-> "Return", qid |-> m.qid, results |-> TRUE, cap |-> cap, joined |-> FALSE,
   small |-> TRUE, intros |-> <<>>, for |-> m.type, to |-> Peer[e], obj |-> NoServer]

\* send_return_exception: sent, never kept.
Exception(e, m) == [Results(e, m, NoExport) EXCEPT !.results = FALSE]

\* flush_answer: keep the Return in the first free slot if it fits one, and
\* send it whether or not it was kept.
FlushAnswer(e, ret) ==
  LET free == {i \in AnswerSlots : answers[e][i] = NoAnswer}
  IN  /\ answers' = IF ret.small /\ free # {}
                    THEN [answers EXCEPT ![e][First(free)] =
                            [qid |-> ret.qid, cap |-> ret.cap, obj |-> ret.obj]]
                    ELSE answers
      /\ Answer(e, <<ret>>)

\* Mutant: a request that is refused is not answered.
RefuseSilently(e, m) ==
  /\ Absorb(e)
  /\ UNCHANGED serverVars

\* The handler answers with an exception and changes nothing else.
Refuse(e, m) ==
  /\ Answer(e, <<Exception(e, m)>>)
  /\ UNCHANGED serverVars

-----------------------------------------------------------------------------
(* Handlers *)

\* handle_bootstrap
HandleBootstrap(e, m) ==
  LET x == ExportId(e, bootstrap[e])
  IN  IF bootstrap[e] = NoServer \/ x = NoExport
      THEN Refuse(e, m)
      ELSE /\ Export(e, bootstrap[e], x)
           /\ FlushAnswer(e, [Results(e, m, x) EXCEPT !.obj = bootstrap[e]])
           /\ UNCHANGED <<bootstrap, joins>>

\* The rest of handle_call once the target has been resolved to x.  What the
\* dispatch function of the object does is the application's: it writes results
\* that fit an answer slot, or larger ones, or it fails, and then nothing is
\* sent at all.
Dispatch(e, m, x) ==
  \E outcome \in Outcomes :
    IF outcome = "fails"
    THEN Absorb(e) /\ UNCHANGED answers
    ELSE FlushAnswer(e, [Results(e, m, NoExport) EXCEPT !.small = (outcome = "small"),
                                                        !.obj = server[e][x]])

\* Mutant: a call the vat cannot route is dropped.
HandleCallSilently(e, m) ==
  LET x == ResolveTarget(e, m.target)
  IN  /\ IF x = NoExport THEN Absorb(e) /\ UNCHANGED answers ELSE Dispatch(e, m, x)
      /\ UNCHANGED <<server, refcount, bootstrap, joins>>

\* handle_call, without the introductions its cap table brings.
HandleCall(e, m) ==
  LET x == ResolveTarget(e, m.target)
  IN  IF x = NoExport
      THEN Refuse(e, m)
      ELSE /\ Dispatch(e, m, x)
           /\ UNCHANGED <<server, refcount, bootstrap, joins>>

\* Mutants: the answer is not dropped; its id is erased but its slot stays used.
HandleFinishKeeps(e, m) ==
  /\ Absorb(e)
  /\ UNCHANGED serverVars

HandleFinishErases(e, m) ==
  /\ answers' = [answers EXCEPT ![e] = [i \in AnswerSlots |->
                   IF @[i] # NoAnswer /\ @[i].qid = m.qid THEN [@[i] EXCEPT !.qid = -1]
                   ELSE @[i]]]
  /\ Absorb(e)
  /\ UNCHANGED <<server, refcount, bootstrap, joins>>

\* capnp_rpc_handle, Finish: answer_drop.
HandleFinish(e, m) ==
  LET kept == {i \in AnswerSlots : answers[e][i] # NoAnswer /\ answers[e][i].qid = m.qid}
  IN  /\ answers' = IF kept = {} THEN answers
                    ELSE [answers EXCEPT ![e][First(kept)] = NoAnswer]
      /\ Absorb(e)
      /\ UNCHANGED <<server, refcount, bootstrap, joins>>

\* Mutant: a Release frees the export whatever its count.
HandleReleaseFrees(e, m) ==
  /\ Absorb(e)
  /\ refcount' = [refcount EXCEPT ![e][m.id] = 0]
  /\ server' = [server EXCEPT ![e][m.id] = NoServer]
  /\ UNCHANGED <<bootstrap, answers, joins>>

\* handle_release
HandleRelease(e, m) ==
  LET left == refcount[e][m.id] - m.count
  IN  /\ Absorb(e)
      /\ IF m.id \in ExportIds /\ Used(e, m.id)
         THEN /\ refcount' = [refcount EXCEPT ![e][m.id] = IF left <= 0 THEN 0 ELSE left]
              /\ server' = [server EXCEPT ![e][m.id] = IF left <= 0 THEN NoServer ELSE @]
         ELSE UNCHANGED <<server, refcount>>
      /\ UNCHANGED <<bootstrap, answers, joins>>

\* Mutant: the reflection overtakes what was sent before it.
HandleDisembargoOvertakes(e, m) ==
  /\ m.context # "provide"
  /\ inbox' = [inbox EXCEPT ![e] = Tail(@),
                 ![Peer[e]] = IF m.context = "senderLoopback"
                              THEN <<[m EXCEPT !.context = "receiverLoopback"]>> \o @ ELSE @]
  /\ UNCHANGED serverVars

\* handle_disembargo, but for Disembargo.provide (see RpcHandoff): a
\* senderLoopback is reflected, every other context is absorbed.
HandleDisembargo(e, m) ==
  /\ m.context # "provide"
  /\ Answer(e, IF m.context = "senderLoopback"
               THEN <<[m EXCEPT !.context = "receiverLoopback"]>> ELSE <<>>)
  /\ UNCHANGED serverVars

\* The message send_unimplemented makes of m, unless m is nested so deeply that
\* the copy fails.
Wrapped(m) ==
  LET wraps == IF m.type = "Unimplemented" THEN m.wraps + 1 ELSE 1
  IN  IF wraps <= MaxWraps THEN <<[type |-> "Unimplemented", wraps |-> wraps]>> ELSE <<>>

\* send_unimplemented, for Resolve and for every type without a handler,
\* Unimplemented among them.
HandleUnimplemented(e, m) ==
  /\ Answer(e, Wrapped(m))
  /\ UNCHANGED serverVars

-----------------------------------------------------------------------------
(* Join *)

\* send_join_result for one question, never kept for pipelining.  The ghost obj
\* is the object that every part of the set resolved to, NoServer if there is
\* no such object.
JoinResult(e, qid, joined, cap, obj) ==
  [Results(e, [qid |-> qid, type |-> "Join"], cap) EXCEPT !.joined = joined, !.obj = obj]

\* join_slot_find: the set with this joinId if its partCount agrees, else a
\* free slot, else -1.
JoinSlot(e, jid, pcount) ==
  LET same == {i \in JoinSlots : joins[e][i] # NoJoin /\ joins[e][i].jid = jid}
      free == {i \in JoinSlots : joins[e][i] = NoJoin}
  IN  IF same # {}
      THEN IF joins[e][First(same)].pcount = pcount THEN First(same) ELSE -1
      ELSE IF free # {} THEN First(free) ELSE -1

NoParts == [p \in PartNums |-> NoPart]

\* Mutants: the last part is not compared; the capability in the first result
\* is not counted.
JoinCompleteShort(e, j) ==
  LET first == j.parts[0].eid
      same  == /\ first # NoExport
               /\ \A p \in 0 .. (j.pcount - 2) : j.parts[p].eid = first
      obj   == IF \A p \in 0 .. (j.pcount - 1) : j.parts[p].obj = j.parts[0].obj
               THEN j.parts[0].obj ELSE NoServer
  IN  /\ refcount' = IF same THEN [refcount EXCEPT ![e][first] = @ + 1] ELSE refcount
      /\ Answer(e, [i \in 1 .. j.pcount |->
                      JoinResult(e, j.parts[i - 1].qid, same,
                                 IF same /\ i = 1 THEN first ELSE NoExport, obj)])

JoinCompleteUncounted(e, j) ==
  LET first == j.parts[0].eid
      same  == /\ first # NoExport
               /\ \A p \in 0 .. (j.pcount - 1) : j.parts[p].eid = first
      obj   == IF same THEN j.parts[0].obj ELSE NoServer
  IN  /\ UNCHANGED refcount
      /\ Answer(e, [i \in 1 .. j.pcount |->
                      JoinResult(e, j.parts[i - 1].qid, same,
                                 IF same /\ i = 1 THEN first ELSE NoExport, obj)])

\* join_complete: compare the recorded export ids and answer every part; the
\* first result of a set that joined carries the capability, so the export
\* named by it gains a reference, even when its slot has been used again since.
JoinComplete(e, j) ==
  LET first == j.parts[0].eid
      same  == /\ first # NoExport
               /\ \A p \in 0 .. (j.pcount - 1) : j.parts[p].eid = first
      obj   == IF \A p \in 0 .. (j.pcount - 1) : j.parts[p].obj = j.parts[0].obj
               THEN j.parts[0].obj ELSE NoServer
  IN  /\ refcount' = IF same THEN [refcount EXCEPT ![e][first] = @ + 1] ELSE refcount
      /\ Answer(e, [i \in 1 .. j.pcount |->
                      JoinResult(e, j.parts[i - 1].qid, same,
                                 IF same /\ i = 1 THEN first ELSE NoExport, obj)])

\* handle_join.  A Join without a JoinKeyPart is one with partCount 0.
HandleJoin(e, m) ==
  LET keyOK == m.pcount \in 1 .. MaxJoinParts /\ m.pnum < m.pcount
      slot  == JoinSlot(e, m.jid, m.pcount)
      seen  == IF joins[e][slot] = NoJoin THEN NoParts ELSE joins[e][slot].parts
      eid   == ResolveTarget(e, m.target)
      part  == [qid |-> m.qid, eid |-> eid,
                obj |-> IF eid = NoExport THEN NoServer ELSE server[e][eid]]
      j     == [jid |-> m.jid, pcount |-> m.pcount, parts |-> [seen EXCEPT ![m.pnum] = part]]
      full  == \A p \in 0 .. (m.pcount - 1) : j.parts[p] # NoPart
  IN  /\ IF ~keyOK \/ slot = -1 \/ seen[m.pnum] # NoPart
         THEN /\ Answer(e, <<JoinResult(e, m.qid, FALSE, NoExport, NoServer)>>)
              /\ UNCHANGED <<refcount, joins>>
         ELSE /\ joins' = [joins EXCEPT ![e][slot] = IF full THEN NoJoin ELSE j]
              /\ IF full THEN JoinComplete(e, j) ELSE Absorb(e) /\ UNCHANGED refcount
      /\ UNCHANGED <<server, bootstrap, answers>>

-----------------------------------------------------------------------------
(* Operations of the hosting application *)

\* capnp_rpc_set_bootstrap
SetBootstrap(e, s) ==
  /\ bootstrap' = [bootstrap EXCEPT ![e] = s]
  /\ UNCHANGED <<server, refcount, answers, joins, inbox>>
=============================================================================
