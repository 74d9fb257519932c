---------------------------- MODULE MCClientAdmin ----------------------------
(* Small administrations: one client with limits, one registered before      *)
(* limits existed, and two ids for registrations.                            *)
EXTENDS AdminRows

CONSTANTS e1, e2, e3   \* emails

Few  == [allowed |-> 1, window |-> 3]
More == [allowed |-> 2, window |-> 3]
Slow == [allowed |-> 1, window |-> 4]

Two   == <<[email |-> e1, active |-> TRUE], [email |-> e2, active |-> FALSE],
           None, None>>
Limited == <<Few, None, None, None>>

MixedJobs ==
  {Register(e3), SetTo(1, TRUE), SetTo(1, FALSE),
   PutLimits(1, More), PutLimits(1, Slow), PutLimits(2, More), PutLimits(3, Slow)}

RegisterJobs == {Register(e3)}
ActiveJobs   == {SetTo(2, a) : a \in BOOLEAN}
LimitJobs    == {PutLimits(1, l) : l \in {More, Slow}}
=============================================================================
