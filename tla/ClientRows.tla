----------------------------- MODULE ClientRows -----------------------------
(***************************************************************************)
(* What the request path may assume of administrators: a client appears    *)
(* enabled and with the limits of its plan, and a step afterwards changes  *)
(* one thing of one client, is_active or its limits.  No transactions, no  *)
(* loaded objects, no locks.  Gateway's SetActive and UpdateConfig are     *)
(* these steps of a client that is registered.                             *)
(***************************************************************************)
CONSTANTS
  Ids, Limits,
  None,           \* not registered; for limits: no override stored
  DefaultLimits,
  InitialRow

VARIABLE row      \* id -> is_active and config of the client, or None

Init == row = InitialRow

Register(i) ==
  /\ row[i] = None
  /\ row' = [row EXCEPT ![i] = [active |-> TRUE, config |-> DefaultLimits]]

SetActive(i, a) ==
  /\ row[i] # None
  /\ row' = [row EXCEPT ![i] = [active |-> a, config |-> row[i].config]]

\* To any limits; the new ones are read off the next state, Limits being infinite.
UpdateConfig(i) ==
  /\ row[i] # None
  /\ row'[i] # None /\ row'[i].config \in Limits
  /\ row' = [row EXCEPT ![i] = [active |-> row[i].active,
                                config |-> row'[i].config]]

Next ==
  \E i \in Ids :
    \/ Register(i)
    \/ \E a \in BOOLEAN : SetActive(i, a)
    \/ UpdateConfig(i)

Spec == Init /\ [][Next]_row
=============================================================================
