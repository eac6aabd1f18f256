CONSTANTS
    Msgs = {m1, m2, m3}
    Ops = {"post", "stream", "cancel", "delete"}
    Quota = 3
    MaxAttempts = 2
    MaxCancels = 1
    Grace = TRUE
SPECIFICATION Spec
SYMMETRY MsgSymmetry
CHECK_DEADLOCK FALSE
INVARIANTS TypeOK ReceivedOnce SingleRun
PROPERTIES KeepsService AbandonedOnlyByCancel
