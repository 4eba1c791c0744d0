------------------------------- MODULE MCAio -------------------------------
\* Model values for Aio: two sends, so that one is on the list when the other
\* is finalized, a receive with a condition variable and one without.
EXTENDS Aio, TLC
=============================================================================
