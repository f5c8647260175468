------------------------ MODULE MCIntegrationFiles ------------------------
EXTENDS IntegrationFiles, TLC

CONSTANT s1

Config(t, m, returns, runs, unique) ==
    [flows |-> (s1 :> t), runs |-> (s1 :> runs), models |-> m, returns |-> returns,
     unique |-> unique]

\* What init writes; another script's, without models; a sync without runs that returns a
\* model without an id; an action named twice that returns a model which is not there; a
\* sync that returns a model, without models.
MCDefault == Config("sync", "model", TRUE, "fine", TRUE)
MCConfigs == {MCDefault, Config("none", "absent", TRUE, "missing", TRUE),
              Config("sync", "keyless", TRUE, "missing", TRUE),
              Config("action", "other", TRUE, "missing", FALSE),
              Config("sync", "absent", TRUE, "fine", TRUE)}
=============================================================================
