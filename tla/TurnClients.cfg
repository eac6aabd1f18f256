SPECIFICATION FairSpec
CONSTANTS
    Msgs = {m1, m2}
    Blocking = {m1}
    Shapes <- TurnShapes
    MaxTurnLines = 2
    a = a
    b = b
    Chats = {a, b}
    Traffic <- MCTraffic
    MaxFaults = 1
    Killed = TRUE
CHECK_DEADLOCK FALSE
INVARIANTS ChatInv ChainInv
PROPERTIES EphemeralReaped UpdatesSettle
