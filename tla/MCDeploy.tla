------------------------------ MODULE MCDeploy ------------------------------
EXTENDS Deploy
=============================================================================
