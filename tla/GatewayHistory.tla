--------------------------- MODULE GatewayHistory ---------------------------
(***************************************************************************)
(* Gateway with a history variable: the rows of its client that were       *)
(* committed at some time between the two SELECTs of a request.            *)
(***************************************************************************)
EXTENDS Gateway

VARIABLE seen

Remember ==
  seen' = [r \in Requests |->
    CASE pc'[r] = "config" -> seen[r] \union {row'[call'[r].client]}
      [] pc'[r] = "loaded" -> seen[r]
      [] OTHER             -> {}]

HistoryInit == Init /\ seen = [r \in Requests |-> {}]

HistorySpec == HistoryInit /\ [][Next /\ Remember]_<<vars, seen>>

\* get_by_api_key_with_config says it loads the client and its limits "in the
\* same query (one JOIN...)" (client_repository.py:42-43): what a request has
\* loaded is then a row that was in force at one instant while it loaded it.
LoadedAsOneQuery ==
  \A r \in Requests : pc[r] = "loaded" =>
    \E v \in seen[r] :
      /\ v.active = call[r].active
      /\ v.config = [allowed |-> quota[r].allowed, window |-> quota[r].window]
=============================================================================
