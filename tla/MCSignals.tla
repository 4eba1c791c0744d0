----------------------------- MODULE MCSignals -----------------------------
\* Model values for Signals: the chain of R/sync.R, cva to cv1 to cv2.
EXTENDS Signals, TLC

CONSTANTS ca, c1, c2

Chain == {<<ca, c1>>, <<c1, c2>>}
=============================================================================
