SPECIFICATION Spec
CONSTANTS
    Instances = {i1, i2}
    Jobs = {1}
    Accounts = {1, 2}
    BadAccounts = {}
    Concurrency = 1
    PageSize = 2
    FaultKinds = {"shutdown"}
    MaxFaults = 1
SYMMETRY InstanceSymmetry
INVARIANTS InterruptionNeverFails
