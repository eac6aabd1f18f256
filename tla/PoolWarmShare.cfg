SPECIFICATION Spec
CONSTANTS
    a1 = a1
    a2 = a2
    s2 = s2
    None = None
    Sessions = {s1, s2}
    Agents = {a1}
    Versions = {1}
    Containers = {1, 2}
    Boots = {1, 2}
    Mounts = {1, 2}
    Calls = {1, 2}
    MaxActive = 2
    MaxWarm = 1
    MaxPatches = 0
    PoolOps = {"warm"}
    Ephemeral = {}
    Bypass = {}
    AgentOfSession <- OneAgent
INVARIANT SessionsApart
CONSTRAINT InOrder
CHECK_DEADLOCK FALSE
