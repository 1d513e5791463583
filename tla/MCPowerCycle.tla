---------------------------- MODULE MCPowerCycle ----------------------------
(* PowerCycle with two pictures and a few sequence numbers. *)
EXTENDS PowerCycle
=============================================================================
