------------------------------ MODULE MCGateway ------------------------------
(* Small instances of Gateway for TLC. *)
EXTENDS GatewayQuota, TLC

CONSTANTS c1, c2

\* Limits for the instances.
Tight == [allowed |-> 1, window |-> 2]
Wide  == [allowed |-> 2, window |-> 3]
Short == [allowed |-> 1, window |-> 1]
Long  == [allowed |-> 2, window |-> 2]

OneTight == [c \in {c1} |-> Tight]
TwoPlans == (c1 :> Tight) @@ (c2 :> Wide)

NoOverrides == [c \in Clients |-> [active |-> TRUE, config |-> None]]

\* An administrator moves the client between two limits whose keys coincide
\* in every other window.
ShortOrLong == {Short, Long}
ShortOverride == [c \in Clients |-> [active |-> TRUE, config |-> Short]]

\* Requests differ in nothing but their name.
RequestSymmetry == Permutations(Requests)
=============================================================================
