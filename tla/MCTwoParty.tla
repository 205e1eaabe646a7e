----------------------------- MODULE MCTwoParty -----------------------------
(***************************************************************************)
(* Two vats, one connection: a asks, b hosts.                              *)
(***************************************************************************)
EXTENDS RpcProps, TLC

CONSTANTS a, b

MCPeer == (a :> b) @@ (b :> a)
MCVatOf == [e \in Ends |-> e]
ServerSymmetry == Permutations(Servers)
MCOps == (a :> {"bootstrap", "call", "pipeline", "finish", "earlyFinish", "release"}) @@ (b :> {"host"})
=============================================================================
