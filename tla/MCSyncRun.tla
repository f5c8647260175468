----------------------------- MODULE MCSyncRun -----------------------------
EXTENDS SyncRun
=============================================================================
