----------------------------- MODULE WindowQuota -----------------------------
(***************************************************************************)
(* What a fixed-window limiter promises, with no clock, no counter and no  *)
(* store: every window of a client has a number of places.  A request that *)
(* is granted takes one, a request is refused only when none is left, and  *)
(* a request whose answer is lost may have taken one.  No place is given   *)
(* back, and no outcome is revised.                                        *)
(***************************************************************************)
EXTENDS Integers

CONSTANTS Clients, Windows, Requests, Quota

VARIABLES
  taken,    \* <<client, window>> -> places taken
  outcome   \* request -> what became of it

Init ==
  /\ taken = [k \in Clients \X Windows |-> 0]
  /\ outcome = [r \in Requests |-> "none"]

Decide(r, verdict) ==
  /\ outcome[r] = "none"
  /\ outcome' = [outcome EXCEPT ![r] = verdict]

Take(k) == taken' = [taken EXCEPT ![k] = @ + 1]

Free(k) == taken[k] < Quota[k[1]]

Grant(r, k) == Free(k) /\ Take(k) /\ Decide(r, "admitted")

Refuse(r, k) == ~Free(k) /\ Decide(r, "blocked") /\ UNCHANGED taken

Lose(r, k) ==
  /\ Decide(r, "lost")
  /\ IF Free(k) THEN Take(k) ELSE UNCHANGED taken

Next ==
  \E r \in Requests, k \in Clients \X Windows :
    Grant(r, k) \/ Refuse(r, k) \/ Lose(r, k)

Spec == Init /\ [][Next]_<<taken, outcome>>
=============================================================================
