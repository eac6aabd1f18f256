CONSTANTS
    Msgs = {m1, m2, m3}
    Tools = TRUE
    MaxRefusals = 1
    MaxCrashes = 2
    MaxDeaths = 1
    MaxCancels = 1
SPECIFICATION FairSpec
INVARIANTS DeliveryInv OneFinalizer FlightOwned IdleDrained
PROPERTIES ObservedSettles
CHECK_DEADLOCK FALSE
