------------------------------ MODULE MCHandoff ------------------------------
(***************************************************************************)
(* Three vats and three connections: Alice introduces Carol to a           *)
(* capability that Bob hosts, and may be introduced in return.  ab is      *)
(* Alice's end of her connection to Bob, and so on.                        *)
(***************************************************************************)
EXTENDS RpcProps, TLC

CONSTANTS ab, ba, cb, bc, ac, ca, alice, bob, carol

MCPeer == (ab :> ba) @@ (ba :> ab) @@ (cb :> bc) @@ (bc :> cb) @@ (ac :> ca) @@ (ca :> ac)
MCVatOf == (ab :> alice) @@ (ba :> bob) @@ (cb :> carol) @@ (bc :> bob)
           @@ (ac :> alice) @@ (ca :> carol)
ServerSymmetry == Permutations(Servers)
MCOps ==
  (ab :> {"bootstrap", "provide", "releaseLate"}) @@ (ba :> {"host"})
  @@ (cb :> {"accept", "releaseLate"}) @@ (bc :> {})
  @@ (ac :> {"introduce"}) @@ (ca :> {"done", "introduceInReturn"})
\* Carol accepts under an embargo that Alice lifts.
EmbargoOps ==
  (ab :> {"bootstrap", "provide", "disembargo"}) @@ (ba :> {"host"})
  @@ (cb :> {"embargo"}) @@ (bc :> {}) @@ (ac :> {}) @@ (ca :> {})
=============================================================================
