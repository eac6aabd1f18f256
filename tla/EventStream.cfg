CONSTANTS
    Shapes <- MCShapes
    MaxLines = 2
    MaxRuns = 1
    MaxClaims = 1
    Approvals = {1}
    MaxConnections = 2
    MaxWire = 1
    Deletes = TRUE
SPECIFICATION FairSpec
INVARIANTS StreamInv
PROPERTIES EndsComplete EventDelivered StreamSettles
CHECK_DEADLOCK FALSE
