-------------------------- MODULE MCConnectionPools --------------------------
(* Small pools, and more requests than they have connections. *)
EXTENDS ConnectionPools, TLC

CONSTANTS r1, r2, r3, r4

Mixture == (r1 :> "data") @@ (r2 :> "data") @@ (r3 :> "analytics") @@ (r4 :> "health")
=============================================================================
