--------------------------- MODULE MCEventTarget ----------------------------
EXTENDS EventTarget
=============================================================================
