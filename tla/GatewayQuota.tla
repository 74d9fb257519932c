---------------------------- MODULE GatewayQuota ----------------------------
(***************************************************************************)
(* The request path implements WindowQuota, as long as no administrator    *)
(* changes limits, Redis keeps its keys and a pipeline reaches Redis       *)
(* within a tick: the Redis counters up to the limit are the places taken. *)
(***************************************************************************)
EXTENDS Gateway

PlacesTaken ==
  [k \in Clients \X Times |->
     IF counter[k].count <= QuotaOf(k[1]).allowed
       THEN counter[k].count ELSE QuotaOf(k[1]).allowed]

Promise == INSTANCE WindowQuota WITH
  Windows <- Times,
  Quota   <- [c \in Clients |-> QuotaOf(c).allowed],
  taken   <- PlacesTaken,
  outcome <- [r \in Requests |-> ticket[r].verdict]

\* check_and_increment keeps the promise of a fixed window: no window grants
\* more than its quota, and none refuses before its quota is used up.
KeepsPromise == Promise!Spec
=============================================================================
