------------------------------- MODULE MCTurns -------------------------------
(* Turns on small instances.                                               *)
EXTENDS Turns

MCAgents == {"assist", "network"}
MCFallback == "assist"
=============================================================================
