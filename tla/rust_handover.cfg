CONSTANTS
    HASH_SIZE = 4
    Node = {n1, n2}
    Client = client
    Tracker = tracker
    kl = kl
    kh = kh
    Key = {kh, kl}
    Value = {v}
    hash_ssn <- MCHash
    NULL = NULL
    MaxConns = 2
    Faults = {}
    Leavers = {}
    Overlap = {}
    MaxOps = 1
SPECIFICATION FairSpec
PROPERTY HandoverArrives
CHECK_DEADLOCK FALSE
