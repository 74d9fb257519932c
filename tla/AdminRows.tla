------------------------------ MODULE AdminRows ------------------------------
(***************************************************************************)
(* The administrative requests implement ClientRows: whatever they load,   *)
(* wait for and fail at, their commits are the three atomic changes that   *)
(* Gateway makes of administrators.                                        *)
(***************************************************************************)
EXTENDS ClientAdmin

\* A client and its config as get_by_api_key_with_config puts them together.
RowOf(cs, ls) ==
  [i \in Ids |-> IF cs[i] = None THEN None
                 ELSE [active |-> cs[i].active, config |-> ls[i]]]

ASSUME NoRowType ==
  None \notin [active : BOOLEAN, config : Limits \union {None}]

Rows == INSTANCE ClientRows WITH
  row        <- RowOf(clients, configs),
  InitialRow <- RowOf(InitialClients, InitialConfigs)

\* A commit never carries along a column it was not asked to change, and a new
\* client and its limits appear at once: what a request reads of a client
\* changes by registration, by is_active alone, or by limits alone.
CommitsChangeRows == Rows!Spec
=============================================================================
