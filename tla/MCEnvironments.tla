-------------------------- MODULE MCEnvironments --------------------------
EXTENDS Environments, TLC

Symmetry == Permutations(Servers) \cup Permutations(EncryptionKeys)
=============================================================================
