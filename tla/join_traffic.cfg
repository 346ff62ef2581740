CONSTANTS
    HASH_SIZE = 4
    Node = {n1, n2, n3}
    Client = client
    kl = kl
    kh = kh
    Key = {kh}
    Value = {v}
    hash_ssn <- MCHash
    NULL = NULL
    MaxConns = 2
    Faults = {}
    Leavers = {}
    Overlap = {"join", "value"}
    MaxOps = 2
SPECIFICATION FairSpec
INVARIANTS RangesPartition QuietRing NoErrorExit
PROPERTIES NoDataLoss JoinCompletes AcceptCompletes
CHECK_DEADLOCK FALSE
