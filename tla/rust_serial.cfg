CONSTANTS
    HASH_SIZE = 4
    Node = {n1, n2, n3}
    Client = client
    Tracker = tracker
    kl = kl
    kh = kh
    Key = {kh, kl}
    Value = {v}
    hash_ssn <- MCHash
    NULL = NULL
    MaxConns = 2
    Faults = {"expiry"}
    Leavers = {n1, n2}
    Overlap = {}
    MaxOps = 2
SPECIFICATION FairSpec
INVARIANTS RangesPartition QuietRing NoPanic
PROPERTIES JoinCompletes AcceptCompletes LeaveCompletes EveryLookupAnswered
CHECK_DEADLOCK FALSE
