\* One crash and the files it leaves.
SPECIFICATION FairSpec
CONSTANTS
    Instances = {i1}
    Jobs = {1}
    Accounts = {1}
    BadAccounts = {}
    Concurrency = 1
    PageSize = 1
    FaultKinds = {"crash"}
    MaxFaults = 1
PROPERTIES JobFilesExpire
