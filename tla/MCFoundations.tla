---------------------------- MODULE MCFoundations ----------------------------
(* Instances of Foundations for TLC. *)
EXTENDS Foundations, TLC

CONSTANTS r1, r2, r3

MCProbes == {"proxmox_api", "ntp_ok"}
\* Whole sections, and a token: what the agent can send and lose nothing.
MCAgentPatches == {{"tenant"}, {"bridge"}, {"host", "node", "ref"}}
\* Requests differ in nothing but their names.
MCSymmetry == Permutations({r1, r2, r3})
=============================================================================
