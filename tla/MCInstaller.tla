----------------------------- MODULE MCInstaller -----------------------------
EXTENDS Installer, TLC
CONSTANTS old, new
Symmetry == Permutations(Versions)
=============================================================================
