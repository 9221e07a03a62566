\* Shutdown after a request was denied.
CONSTANTS
    Callers = {c1}
    FaultKinds = {"deny"}
    MaxFaults = 2
SPECIFICATION Spec
INVARIANTS ClosedMeansLoggedOut
