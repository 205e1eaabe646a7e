------------------------------- MODULE RpcWire -------------------------------
(***************************************************************************)
(* The wire of the RPC layer: the messages of rpc.capnp that capnp_rpc.c   *)
(* reads and writes, and the transport between connections.                *)
(*                                                                         *)
(* An element of Ends is one capnp_rpc_conn_t; Peer[e] is the connection   *)
(* at the other end of its transport.  The library owns no transport: a    *)
(* send callback takes whole frames and the caller feeds whole frames to   *)
(* capnp_rpc_handle, so the transport is a FIFO of messages per end.       *)
(* A send callback that fails (SendMayFail) has sent nothing, and later    *)
(* sends may succeed; one that fails inside a handler is not modelled.     *)
(*                                                                         *)
(* Text, offsets and struct sizes are left out.  Two fields of a message   *)
(* are ghosts that no handler reads: Return.for is the request a Return    *)
(* was made for, and obj the object an export id stood for when sent.      *)
(***************************************************************************)
EXTENDS Integers, Sequences, FiniteSets, FiniteSetsExt

CONSTANTS
  Ends,          \* connections
  Peer,          \* Peer[e]: the other end of e's transport
  Servers,       \* objects an application hosts
  NoServer,      \* the NULL server pointer
  Nonces,        \* handoff nonces
  NoNonce,       \* a RecipientId or ProvisionId that is missing
  JoinIds,       \* joinIds of Join sets
  MaxExports,    \* CAPNP_RPC_MAX_EXPORTS
  MaxJoinParts,  \* CAPNP_RPC_MAX_JOIN_PARTS
  SendMayFail,   \* the connections whose send callback may fail an application
  MaxAsks,       \* bound: questions one end asks; at most 2^32, so ids never wrap
  MaxInFlight    \* bound: an application sends only below this queue length

ASSUME WireAssumption ==
  /\ Peer \in [Ends -> Ends]
  /\ \A e \in Ends : Peer[e] # e /\ Peer[Peer[e]] = e
  /\ NoServer \notin Servers
  /\ NoNonce \notin Nonces
  /\ MaxExports \in Nat \ {0}
  /\ MaxJoinParts \in Nat \ {0}
  /\ SendMayFail \subseteq Ends
  /\ MaxAsks \in Nat
  /\ MaxInFlight \in Nat

VARIABLE inbox   \* inbox[e]: frames sent to e that it has not handled

ExportIds == 0 .. (MaxExports - 1)
QuestionIds == 0 .. (MaxAsks - 1)

\* The -1 that resolve_target and capnp_rpc_export return, and the capTable
\* index of an answer that carries no capability.
NoExport == -1

\* A capability id on the wire is a uint32: MaxExports stands for every id
\* past the export table.
WireIds == 0 .. MaxExports

-----------------------------------------------------------------------------
(* Messages *)

\* MessageTarget: an import, or a capability inside an answer (ops says that
\* the transform steps into a pointer field), or a target that names neither.
Target == [kind : {"importedCap", "promisedAnswer", "none"}, id : Nat, ops : BOOLEAN]

Import(id) == [kind |-> "importedCap", id |-> id, ops |-> FALSE]

\* A thirdPartyHosted capability descriptor; fits says that the host name is
\* present and shorter than CAPNP_RPC_MAX_HOST.
Descriptor == [nonce : Nonces, vine : ExportIds, fits : BOOLEAN]

Request ==
  [type : {"Bootstrap"}, qid : QuestionIds]
  \cup [type : {"Call"}, qid : QuestionIds, target : Target, intros : Seq(Descriptor)]
  \cup [type : {"Join"}, qid : QuestionIds, target : Target, jid : JoinIds,
        pcount : Nat, pnum : Nat]
  \cup [type : {"Provide"}, qid : QuestionIds, target : Target, nonce : Nonces \cup {NoNonce}]
  \cup [type : {"Accept"}, qid : QuestionIds, nonce : Nonces \cup {NoNonce}, embargo : BOOLEAN]

RequestTypes == {"Bootstrap", "Call", "Join", "Provide", "Accept"}

\* small: the frame is at most CAPNP_RPC_MAX_ANSWER_BYTES long.
\* joined: JoinResult.succeeded.
Return ==
  [type : {"Return"}, qid : QuestionIds, results : BOOLEAN, cap : ExportIds \cup {NoExport},
   joined : BOOLEAN, small : BOOLEAN, intros : Seq(Descriptor), for : RequestTypes,
   to : Ends, obj : Servers \cup {NoServer}]

\* wraps counts the Unimplemented messages around the one nobody understood.
Notice ==
  [type : {"Finish"}, qid : QuestionIds]
  \cup [type : {"Release"}, id : WireIds, count : Nat]
  \cup [type : {"Disembargo"}, id : Nat,
        context : {"senderLoopback", "receiverLoopback", "accept", "provide"}]
  \cup [type : {"Resolve"}]
  \cup [type : {"Unimplemented"}, wraps : Nat]

Message == Request \cup Return \cup Notice

-----------------------------------------------------------------------------
(* Transport *)

\* The application at e sends one message; the guard is the bound.
Post(e, m) ==
  /\ Len(inbox[Peer[e]]) < MaxInFlight
  /\ inbox' = [inbox EXCEPT ![Peer[e]] = Append(@, m)]

\* The send callback of e fails, and nothing is sent.
SendFails(e) == e \in SendMayFail /\ UNCHANGED inbox

\* A handler at e takes the message it was given and sends msgs in order.
Answer(e, msgs) ==
  inbox' = [inbox EXCEPT ![e] = Tail(@), ![Peer[e]] = @ \o msgs]

Absorb(e) == Answer(e, <<>>)

WireInit == inbox = [e \in Ends |-> <<>>]
=============================================================================
