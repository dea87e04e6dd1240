--------------------------- MODULE MCThreadPool -----------------------------
EXTENDS ThreadPool
=============================================================================
