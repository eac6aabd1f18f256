SPECIFICATION Spec
CONSTANTS
    a1 = a1
    a2 = a2
    s2 = s2
    None = None
    Sessions = {s1}
    Agents = {a1, a2}
    Versions = {1, 2}
    Containers = {1, 2, 3}
    Boots = {1, 2}
    Mounts = {1, 2}
    Calls = {1}
    MaxActive = 0
    MaxWarm = 1
    MaxPatches = 1
    PoolOps = {"warm", "patch", "drop", "reapwarm", "shutdown"}
    Ephemeral = {s1}
    Bypass = {}
    AgentOfSession <- AgentEach
CONSTRAINTS InOrder FirstVersions
CHECK_DEADLOCK FALSE
INVARIANTS WarmInv WarmAlive
