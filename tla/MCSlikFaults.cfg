\* One job under every fault.
CONSTANTS
    Instances = {i1, i2}
    Jobs = {1}
    Accounts = {1, 2}
    BadAccounts = {2}
    Concurrency = 2
    PageSize = 1
    FaultKinds = {"crash", "shutdown", "drop", "db", "ambiguous", "storage"}
    MaxFaults = 2
SPECIFICATION Spec
SYMMETRY InstanceSymmetry
INVARIANTS ProgressExact CompletedIsComplete AuditedOnce ProducerNeverStuck
    NoOrphanFiles CrashNeverFails NoWorkRepeated OneJobWhileLocked OfferedOutputExists
PROPERTIES ImplementsQueue
