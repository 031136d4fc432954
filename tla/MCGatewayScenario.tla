-------------------------- MODULE MCGatewayScenario --------------------------
(* Small suites for TLC; the constants are given by the cfg files. *)
EXTENDS GatewayScenario
===============================================================================
