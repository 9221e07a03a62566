\* Every fault; no symmetry, because of the liveness properties.
CONSTANTS
    Schedulers = {s1}
    Requests = {m1}
    MaxDay = 2
    MaxVersion = 1
    FaultKinds = {"crash", "drop", "db", "ambiguous", "report", "cancel"}
    MaxFaults = 2
SPECIFICATION FairSpec
INVARIANTS DatasetIsOfItsDay TrailTellsTruth AnsweredFailurePreserves
PROPERTIES NoRegress EventuallyCurrent
