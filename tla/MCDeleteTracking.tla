-------------------------- MODULE MCDeleteTracking --------------------------
EXTENDS Records

ContentSymmetry == Permutations(Contents)
=============================================================================
