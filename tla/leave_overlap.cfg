CONSTANTS
    HASH_SIZE = 4
    Node = {n1, n2, n3}
    Client = client
    kl = kl
    kh = kh
    Key = {kl, kh}
    Value = {v}
    hash_ssn <- MCHash
    NULL = NULL
    MaxConns = 2
    Faults = {}
    Leavers = {n1, n2, n3}
    Overlap = {"leave"}
    MaxOps = 1
SPECIFICATION Spec
SYMMETRY Symmetry
PROPERTY NoDataLoss
CHECK_DEADLOCK FALSE
