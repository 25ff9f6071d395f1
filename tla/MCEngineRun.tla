----------------------------- MODULE MCEngineRun -----------------------------
\* The constants of EngineRun are numbers; the configuration gives them.
EXTENDS EngineRun
=============================================================================
