---------------------------- MODULE MCEventLoop -----------------------------
EXTENDS EventLoop
CONSTANTS e1, e2, p1, p2, rHigh, rMid, rLow

ASSUME MCAssumption == LoopAssumption

MCPriority == (rHigh :> 5) @@ (rMid :> 50) @@ (rLow :> 50)
=============================================================================
