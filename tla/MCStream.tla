----------------------------- MODULE MCStream -----------------------------
(***************************************************************************)
(* Two vats, one connection: a streams calls, b hosts, and may introduce   *)
(* in its Returns.                                                         *)
(***************************************************************************)
EXTENDS RpcStream, RpcRefine, TLC

CONSTANTS a, b

MCPeer == (a :> b) @@ (b :> a)
MCVatOf == [e \in Ends |-> e]
MCOps == (a :> {"bootstrap", "stream", "call"}) @@ (b :> {"host", "introduceInReturn"})
=============================================================================
