CONSTANTS
    HASH_SIZE = 4
    Node = {n1, n2, n3}
    Client = client
    Tracker = tracker
    kl = kl
    kh = kh
    Key = {kh, kl}
    Value = {v}
    hash_ssn <- MCHash
    NULL = NULL
    MaxConns = 2
    Faults = {"udp_loss"}
    Leavers = {}
    Overlap = {"join", "value"}
    MaxOps = 1
SPECIFICATION Spec
SYMMETRY Symmetry
INVARIANTS RangesPartition NoPanic
PROPERTY NoDataLoss
CHECK_DEADLOCK FALSE
