---------------------------- MODULE MCOnboarding ----------------------------
(* The onboarding wizard on small instances.                               *)
EXTENDS Onboarding, TLC

MCRefs == {"token", "key"}
MCSymmetry == Permutations(Hosts) \cup Permutations(Ids) \cup Permutations(Bridges)
=============================================================================
