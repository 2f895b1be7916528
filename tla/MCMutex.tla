------------------------------- MODULE MCMutex -------------------------------
EXTENDS Mutex
CONSTANTS t1, t2, t3
MCThread == {t1, t2, t3}
=============================================================================
