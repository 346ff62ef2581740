CONSTANTS
    HASH_SIZE = 4
    Node = {n1, n2, n3}
    Client = client
    kl = kl
    kh = kh
    Key = {kh}
    Value = {v}
    hash_ssn <- MCHash
    NULL = NULL
    MaxConns = 2
    Faults = {"timeout", "interrupt", "udp_loss", "slow_connect", "reset", "expiry"}
    Leavers = {n1, n2, n3}
    Overlap = {"first", "join", "leave", "value"}
    MaxOps = 1
SPECIFICATION Spec
SYMMETRY Symmetry
INVARIANTS TypeOK StoredInRange LastWords JoinResponseFirst
CHECK_DEADLOCK FALSE
