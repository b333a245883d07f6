----------------------------- MODULE MCGateway -----------------------------
(* Gateway for TLC, with both agents of main.                               *)
EXTENDS Gateway

MCAgents == <<"analyzer", "healer">>
=============================================================================
