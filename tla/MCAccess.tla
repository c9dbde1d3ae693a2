------------------------------ MODULE MCAccess -------------------------------
(* Access on a small instance.                                             *)
EXTENDS Access, TLC
CONSTANTS r1, r2, r3, b1, b2, n1, n2, p1, p2
Symmetry == Permutations(Requests) \cup Permutations(Browsers)
            \cup Permutations(Names \ {Blank}) \cup Permutations(Passwords)
=============================================================================
