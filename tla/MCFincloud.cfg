\* Every fault of the server, the network and the callers; no symmetry, because
\* of the liveness property.
CONSTANTS
    Callers = {c1, c2, c3}
    FaultKinds = {"expire", "deny", "refuse", "timeout", "lost", "cancel", "reuse"}
    MaxFaults = 2
SPECIFICATION FairSpec
INVARIANTS SingleFlight RetrySuffices NoSessionForgotten CloseLogsEverythingOut
PROPERTIES OnlyDeadDropped EveryCallEnds
