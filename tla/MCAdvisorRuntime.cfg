SPECIFICATION Spec
CONSTANTS
    MaxMsgs = 6
    MaxResets = 2
    MaxRetries = 1
    Thresholds <- OneOrTwo
INVARIANTS TypeOK BacklogExact PendingServed OldNeverSent NothingSkipped
CHECK_DEADLOCK FALSE
