----------------------------- MODULE MCWorker -------------------------------
EXTENDS Worker
=============================================================================
