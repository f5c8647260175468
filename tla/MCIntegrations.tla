--------------------------- MODULE MCIntegrations ---------------------------
EXTENDS Integrations, TLC

Symmetry == Permutations(Requests)

=============================================================================
