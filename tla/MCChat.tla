------------------------------- MODULE MCChat -------------------------------
(* The chat page on small instances.                                       *)
EXTENDS Chat

MCAgents == {"assist"}
MCSymmetry == Permutations(Submits) \cup Permutations(Approvals)
=============================================================================
