----------------------------- MODULE MCLevel3 -----------------------------
(***************************************************************************)
(* Two vats, one connection: a asks, also of ids it was never given,       *)
(* provides and accepts, raises embargoes and resolves promises; b hosts.  *)
(***************************************************************************)
EXTENDS RpcRefine, TLC

CONSTANTS a, b

MCPeer == (a :> b) @@ (b :> a)
MCVatOf == [e \in Ends |-> e]
MCOps ==
  (a :> {"bootstrap", "strayCall", "provide", "accept", "embargo", "disembargo", "finish",
         "loopback", "resolve"})
  @@ (b :> {"host"})
=============================================================================
