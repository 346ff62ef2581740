CONSTANTS
    HASH_SIZE = 4
    Node = {n1, n2, n3}
    Client = client
    kl = kl
    kh = kh
    Key = {kl, kh}
    Value = {v, w}
    hash_ssn <- MCHash
    NULL = NULL
    MaxConns = 2
    Faults = {}
    Leavers = {n1, n2, n3}
    Overlap = {}
    MaxOps = 3
SPECIFICATION FairSpec
INVARIANTS RangesPartition QuietRing NoErrorExit
PROPERTIES ImplementsMap LeaveCompletes LookupAnswered
CHECK_DEADLOCK FALSE
