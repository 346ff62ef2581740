CONSTANTS
    HASH_SIZE = 4
    Node = {n1, n2, n3}
    Client = client
    Tracker = tracker
    kl = kl
    kh = kh
    Key = {kh, kl}
    Value = {v, w}
    hash_ssn <- MCHash
    NULL = NULL
    MaxConns = 2
    Faults = {}
    Leavers = {n1, n2}
    Overlap = {}
    MaxOps = 3
SPECIFICATION Spec
SYMMETRY StoreSymmetry
PROPERTY ImplementsStore
CHECK_DEADLOCK FALSE
