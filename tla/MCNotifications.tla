-------------------------- MODULE MCNotifications --------------------------
EXTENDS Notifications, TLC

Symmetry == Permutations(Connections)
=============================================================================
