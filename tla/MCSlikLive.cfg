SPECIFICATION FairSpec
CONSTANTS
    Instances = {i1, i2}
    Jobs = {1}
    Accounts = {1, 2}
    BadAccounts = {2}
    Concurrency = 2
    PageSize = 2
    FaultKinds = {"crash", "shutdown", "drop", "db", "ambiguous", "storage"}
    MaxFaults = 1
PROPERTIES EveryJobEnds EveryJobIsCleared
