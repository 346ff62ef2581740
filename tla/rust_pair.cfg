CONSTANTS
    HASH_SIZE = 4
    Node = {n1, n2}
    Client = client
    Tracker = tracker
    kl = kl
    kh = kh
    Key = {kh, kl}
    Value = {v}
    hash_ssn <- MCHash
    NULL = NULL
    MaxConns = 2
    Faults = {}
    Leavers = {n1, n2}
    Overlap = {"pair"}
    MaxOps = 1
SPECIFICATION Spec
SYMMETRY Symmetry
PROPERTY NoDataLoss
CHECK_DEADLOCK FALSE
