---------------------------- MODULE MCRtxThread ----------------------------
EXTENDS RtxThread, TLC

CONSTANTS a, b, c

MCThreads == {a, b, Idle}
MCThreads3 == {a, b, c, Idle}
AllCalls == {"Delay", "SetPriority", "Yield", "Suspend", "Resume", "Exit",
             "Terminate", "Detach", "Join", "Lock"}
SliceCalls == {"Delay", "Resume", "SetPriority", "Yield"}
AllAttrs == {"joinable", "detached"}
Detached == {"detached"}
MCPrios == {2, 3}
MCSymmetry == Permutations({a, b})
=============================================================================
