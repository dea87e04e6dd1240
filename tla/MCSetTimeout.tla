--------------------------- MODULE MCSetTimeout -----------------------------
EXTENDS SetTimeout
=============================================================================
