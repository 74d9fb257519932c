-------------------------- MODULE MCGatewayHistory --------------------------
(* The instances of MCGateway, with the history of GatewayHistory. *)
EXTENDS MCGateway, GatewayHistory
=============================================================================
