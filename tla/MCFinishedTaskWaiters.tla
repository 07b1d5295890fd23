----------------------- MODULE MCFinishedTaskWaiters -----------------------
EXTENDS FinishedTaskWaiters
=============================================================================
