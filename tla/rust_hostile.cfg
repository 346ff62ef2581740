CONSTANTS
    HASH_SIZE = 4
    Node = {n1, n2, n3}
    Client = client
    Tracker = tracker
    kl = kl
    kh = kh
    Key = {kh}
    Value = {v}
    hash_ssn <- MCHash
    NULL = NULL
    MaxConns = 2
    Faults = {"interrupt", "udp_loss"}
    Leavers = {n1}
    Overlap = {"first", "join", "leave", "pair", "value"}
    MaxOps = 1
SPECIFICATION Spec
SYMMETRY Symmetry
INVARIANTS TypeOK StoredInRange NoDuplicate
CHECK_DEADLOCK FALSE
