----------------------------- MODULE MCJoin -----------------------------
(***************************************************************************)
(* Two vats, one connection: a asks, b hosts.                              *)
(***************************************************************************)
EXTENDS RpcProps, TLC

CONSTANTS a, b

MCPeer == (a :> b) @@ (b :> a)
MCVatOf == [e \in Ends |-> e]
ServerSymmetry == Permutations(Servers)
MCOps == (a :> {"bootstrap", "join", "finish", "releaseLate"}) @@ (b :> {"host"})
\* As MCOps, but a releases a capability as soon as it has sent its requests.
ReleaseOps == (a :> {"bootstrap", "join", "finish", "release"}) @@ (b :> {"host"})
=============================================================================
