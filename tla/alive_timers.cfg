CONSTANTS
    Node = {n1}
    NodePoll = 5
    AliveAfter = 10
    TrackerPoll = 5
    Timeout = 30
    Delay = 2
SPECIFICATION Spec
INVARIANTS EntryAgeBound ForgetsTheDead
PROPERTY StaysRegistered
CHECK_DEADLOCK FALSE
