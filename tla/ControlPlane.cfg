CONSTANTS
    c1 = c1
    c2 = c2
    Agents = {g1}
    Patches = {p1, p2}
    Envs = {e1}
    NoEnv = NoEnv
    MaxVersion = 3
    MaxDepth = 1
    MaxSessions = 3
    Sessions = {s1, s2}
    Creds = {c1, c2}
    Prefix <- MCPrefix
    OAuth = {c1}
    Rotating = {c1}
    MaxRuns = 3
    MaxLost = 1
    Callers = {u1}
    Rpm = 2
    Minute = 3
    GcAfter = 4
    Keys = {k1}
    Ttl = 3
    MaxNow = 8
    MaxRequests = 5
    MaxRestarts = 1
    StoreSessions = {s1, s2}
    StoreAgents = {g1, g2}
    StoreVaults = {v1, v2}
    StoreCreds = {c1, c2}
    StoreUsers = {u1, u2}
    Contents = {p1, p2}
    MaxStoreCalls = 5
    OldSessions = {s1, s2}
    OldCreds = {c1, c2}
    NewCreds = {c3}
    Columns = {1, 2, 3}
    InSchema = {1, 2}
    EnvKeys = {x1, x2}
    NoKey = NoKey
    Plain = Plain
    Absent = Absent
    Rotates = FALSE
    MaxBoots = 4
SPECIFICATION FairSpec
CHECK_DEADLOCK FALSE
INVARIANTS CatalogInv VaultInv LimiterInv AcceptedOnce StoresAgree OpenInv
PROPERTIES VaultRunsSettle
