--------------------------- MODULE MCResourceLoad ----------------------------
EXTENDS ResourceLoad
MCPhases == <<Ucs, Folders, Archives>>
MCTasks == PhaseSet \X (0 .. MaxItems)
MCOutcomes == {"ok", "missing", "error"}
MCDefaultWrite == {1}
=============================================================================
