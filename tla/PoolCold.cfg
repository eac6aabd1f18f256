SPECIFICATION FairSpec
CONSTANTS
    a1 = a1
    a2 = a2
    s2 = s2
    None = None
    Sessions = {s1, s2}
    Agents = {a1}
    Versions = {1}
    Containers = {1, 2, 3}
    Boots = {}
    Mounts = {}
    Calls = {1, 2, 3}
    MaxActive = 1
    MaxWarm = 0
    MaxPatches = 0
    PoolOps = {"cancel", "evict", "sweep"}
    Ephemeral = {s1, s2}
    Bypass = {}
    AgentOfSession <- OneAgent
INVARIANTS ActiveAlive
PROPERTY AcquireEnds
CONSTRAINT InOrder
CHECK_DEADLOCK FALSE
