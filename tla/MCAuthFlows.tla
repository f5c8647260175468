---------------------------- MODULE MCAuthFlows ----------------------------
EXTENDS AuthFlows
=============================================================================
