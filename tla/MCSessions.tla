----------------------------- MODULE MCSessions -----------------------------
\* Two batches of two tasks; one session of the engine's own that may be bound.
EXTENDS Sessions

MCForeign == {100}
=============================================================================
