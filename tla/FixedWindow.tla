---------------------------- MODULE FixedWindow ----------------------------
(***************************************************************************)
(* The arithmetic of the fixed-window limiter and the Redis counter it is  *)
(* kept in (app/services/rate_limit_service.py).                           *)
(*                                                                         *)
(* A tick is the clock unit of Redis (a millisecond).  `_window_key` cuts  *)
(* time into buckets; since a window is a whole number of seconds, taking  *)
(* the floor of the float clock first changes no bucket.                   *)
(*                                                                         *)
(* An operator named X_Bug is X with a mistake one could make in the code; *)
(* PROJECT.json pairs it with the property that rules the mistake out.     *)
(***************************************************************************)
EXTENDS Integers

\* As WindowBucket, the floor forgotten.
WindowBucket_Unfloored(t, w) == t

\* _window_key: the bucket that the clock reading t falls in.
WindowBucket(t, w) == (t \div w) * w

(***************************************************************************)
(* A Redis key holding a counter.  `life` numbers the incarnations of the  *)
(* key: Redis creates it again when it is incremented after expiring.  It  *)
(* is a history field, read by the properties and by no action.            *)
(***************************************************************************)
Counter == [life : Nat, count : Nat, expire : Nat]

NoCounter == [life |-> 0, count |-> 0, expire |-> 0]

\* Redis drops a key once its clock is past the key's expiry time.
Alive(ctr, t) == ctr.count > 0 /\ t <= ctr.expire

\* GET on the key, an absent key reading as zero (get_current_count).
CurrentCount(ctr, t) == IF Alive(ctr, t) THEN ctr.count ELSE 0

\* INCR: one more than the live value, in a new incarnation when there is none.
Incr(ctr, t) ==
  [life   |-> IF Alive(ctr, t) THEN ctr.life ELSE ctr.life + 1,
   count  |-> CurrentCount(ctr, t) + 1,
   expire |-> ctr.expire]

\* As IncrExpire, one tick short.
IncrExpire_Short(ctr, t, w) ==
  [life |-> Incr(ctr, t).life, count |-> Incr(ctr, t).count,
   expire |-> t + w - 1]

\* The MULTI/EXEC pipeline of check_and_increment: INCR, then EXPIRE, which
\* is sent on every request and so moves the expiry time of a live key too.
IncrExpire(ctr, t, w) ==
  [life |-> Incr(ctr, t).life, count |-> Incr(ctr, t).count, expire |-> t + w]
=============================================================================
