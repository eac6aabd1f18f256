CONSTANTS
    Msgs = {m1, m2, m3}
    Ops = {"post", "cancel"}
    Quota = 9
    MaxAttempts = 2
    MaxCancels = 1
    Grace = TRUE
SPECIFICATION FairSpec
INVARIANTS QueueOnlyWhileInflight RunOwned
PROPERTIES FlightEnds AcceptedSettles
CHECK_DEADLOCK FALSE
