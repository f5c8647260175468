-------------------------- MODULE MCSyncLifecycle --------------------------
EXTENDS SyncLifecycle, TLC

Symmetry == Permutations(Requests) \union Permutations(Connections)
                \union Permutations(Frequencies)
=============================================================================
