---------------------------- MODULE StoreParity ----------------------------
(***************************************************************************)
(* The two backends behind buildStore (src/store/index.ts) take the same    *)
(* calls of the interface (src/store/types.ts).  The tests of the router    *)
(* and of the server run over the one in memory, a deployment over SQLite:  *)
(* what the tests show of the program holds for it only where the two agree.*)
(* The tables of the groups are not related, so a behaviour stays in one.   *)
(***************************************************************************)
EXTENDS SqliteStore, MemoryStore

CONSTANTS
    StoreSessions, StoreAgents, StoreVaults, StoreCreds, StoreUsers,   \* ids
    Contents,      \* of agents
    MaxStoreCalls  \* bound: calls in a behaviour

ASSUME StoreAssumption == MaxStoreCalls \in Nat

VARIABLES
    group,    \* whose tables the calls of this behaviour use
    calls,    \* how many there were
    astray    \* sessions whose container row is only in memory

storeVars == <<group, calls, astray, db, sqlSaid, mem, memSaid>>

Groups == {"sessions", "agents", "vaults", "users", "audit"}

StoreInit == SqlInit /\ MemInit /\ group \in Groups /\ calls = 0 /\ astray = {}

NoParent == "none"
Found(answer) == answer # Undefined

----------------------------------------------------------------------------
(* Server and router look for a session of the given id, and create it      *)
(* before they wait for anything.                                           *)
CreateTheSession ==
    /\ \E s \in StoreSessions, parent \in StoreSessions \cup {NoParent} :
          /\ parent # s /\ ~Found(SqlSession(s))
          /\ SqlCreateSession(s, parent) /\ MemCreateSession(s, parent)
    /\ UNCHANGED astray

(* DELETE evicts first; the clean-up of a failed turn (server.ts,           *)
(* cleanupEphemeralOnError) deletes a session whose container may be on     *)
(* record still.  Only SQLite has a cascade.                                *)
DeleteTheSession ==
    \E s \in StoreSessions :
        /\ SqlDeleteSession(s) /\ MemDeleteSession(s)
        /\ astray' = IF Found(SqlBox(s)) THEN astray \cup {s} ELSE astray

(* The pool's callback (index.ts, onContainerClaimed) looks at nothing: the *)
(* session may have been deleted while its container started.  Only SQLite  *)
(* has a foreign key.                                                       *)
ClaimTheBox ==
    \E s \in StoreSessions, box \in {"cold", "warm"} :
        /\ SqlPutBox(s, box) /\ MemPutBox(s, box)
        /\ astray' = IF Found(SqlSession(s)) THEN astray \ {s} ELSE astray \cup {s}

ReleaseTheBox ==
    \E s \in StoreSessions :
        SqlDeleteBox(s) /\ MemDeleteBox(s) /\ astray' = astray \ {s}

(* The steps of runs: also for a session that is gone.                      *)
RunTheSession ==
    \E s \in StoreSessions :
        \/ SqlBeginRun(s) /\ MemBeginRun(s)
        \/ SqlMarkRunning(s) /\ MemMarkRunning(s)
        \/ SqlBumpTurns(s) /\ MemBumpTurns(s)
        \/ SqlAddUsage(s, 1) /\ MemAddUsage(s, 1)

EndTheRun ==
    \E s \in StoreSessions :
        \/ SqlEndRunSuccess(s, 1) /\ MemEndRunSuccess(s, 1)
        \/ SqlEndRunFailure(s) /\ MemEndRunFailure(s)
        \/ SqlEndRunCancelled(s) /\ MemEndRunCancelled(s)

FailTheRunning == SqlFailRunning /\ MemFailRunning

QueueAnEvent ==
    \E s \in StoreSessions :
        \/ SqlEnqueue(s, calls) /\ MemEnqueue(s, calls)
        \/ SqlShift(s) /\ MemShift(s)
        \/ SqlClear(s) /\ MemClear(s)

OnSessions ==
    \/ CreateTheSession \/ DeleteTheSession \/ ClaimTheBox \/ ReleaseTheBox
    \/ /\ RunTheSession \/ EndTheRun \/ FailTheRunning \/ QueueAnEvent
       /\ UNCHANGED astray

----------------------------------------------------------------------------
(* A PATCH may come to the store when the agent is archived or gone.        *)
OnAgents ==
    \E a \in StoreAgents :
        \/ \E p \in Contents : /\ ~Found(SqlAgent(a))       \* a fresh id
                               /\ SqlCreateAgent(a, p) /\ MemCreateAgent(a, p)
        \/ \E p \in Contents, v \in 1 .. 3 : SqlUpdateAgent(a, v, p) /\ MemUpdateAgent(a, v, p)
        \/ SqlArchiveAgent(a) /\ MemArchiveAgent(a)
        \/ SqlDeleteAgent(a) /\ MemDeleteAgent(a)
        \/ ~(\E r \in db.environments : r.of.id = a) /\ SqlCreateEnv(a) /\ MemCreateEnv(a)
        \/ SqlDeleteEnv(a) /\ MemDeleteEnv(a)

OnVaults ==
    \/ \E v \in StoreVaults, u \in StoreUsers :
          /\ ~\E r \in db.vaults : r.of.id = v                 \* a fresh id
          /\ SqlCreateVault(v, u) /\ MemCreateVault(v, u)
    \/ \E v \in StoreVaults : SqlDeleteVault(v) /\ MemDeleteVault(v)
    \/ \E c \in StoreCreds, v \in StoreVaults, type \in {"static_bearer", "mcp_oauth"} :
          /\ ~Found(SqlCredential(c))
          /\ SqlAddCredential(c, v, type) /\ MemAddCredential(c, v, type)
    \/ \E c \in StoreCreds, rotated \in BOOLEAN :
          SqlUpdateTokens(c, calls + 1, rotated) /\ MemUpdateTokens(c, calls + 1, rotated)
    \/ \E c \in StoreCreds : SqlDeleteCredential(c) /\ MemDeleteCredential(c)

(* The GitHub callback looks for the user of that account and creates one   *)
(* in the same step; nothing calls updateGithub yet, for any other account. *)
OnUsers ==
    \E u \in StoreUsers :
        \/ \E g \in {0, 1} :
              /\ ~Found(SqlUser(u))                         \* a fresh id
              /\ g # 0 => ~Found(SqlByGithub(g))
              /\ SqlCreateUser(u, g, IF g = 0 THEN 2 ELSE 0)
              /\ MemCreateUser(u, g, IF g = 0 THEN 2 ELSE 0)
        \/ /\ SqlByGithub(1) \in {Undefined, SqlUser(u)}
           /\ SqlUpdateGithub(u, 1) /\ MemUpdateGithub(u, 1)
        \/ \E now \in 2 .. 3 : SqlDeleteExpired(now) /\ MemDeleteExpired(now)

OnAudit ==
    \/ \E ts \in 1 .. 2, action \in {"create", "delete"} :
          SqlRecord(ts, action) /\ MemRecord(ts, action)
    \/ \E ts \in 1 .. 3 : SqlDeleteOlder(ts) /\ MemDeleteOlder(ts)

StoreNext ==
    /\ calls < MaxStoreCalls /\ calls' = calls + 1 /\ UNCHANGED group
    /\ \/ group = "sessions" /\ OnSessions
       \/ group = "agents" /\ OnAgents /\ UNCHANGED astray
       \/ group = "vaults" /\ OnVaults /\ UNCHANGED astray
       \/ group = "users" /\ OnUsers /\ UNCHANGED astray
       \/ group = "audit" /\ OnAudit /\ UNCHANGED astray

----------------------------------------------------------------------------
(* Memory is left with the row of a container, the deployment without it.   *)
SameSessions ==
    /\ SqlSessions = MemSessions
    /\ \A s \in StoreSessions :
          /\ SqlSession(s) = MemSession(s) /\ SqlChildren(s) = MemChildren(s)
          /\ SqlPeek(s) = MemPeek(s) /\ SqlSize(s) = MemSize(s)
          /\ SqlBox(s) = IF s \in astray THEN Undefined ELSE MemBox(s)
          /\ s \in astray => Found(MemBox(s))
    /\ SqlQueued = MemQueued /\ SqlBoxes = {b \in MemBoxes : b.id \notin astray}

(* A version written for an archived agent says so only in memory.          *)
Unarchived(versions) == [i \in DOMAIN versions |-> [versions[i] EXCEPT !.archived = FALSE]]

SameAgents ==
    /\ SqlAgents = MemAgents /\ SqlEnvs = MemEnvs
    /\ \A a \in StoreAgents :
          /\ SqlAgent(a) = MemAgent(a) /\ SqlVersions(a) = Unarchived(MemVersions(a))
          /\ SqlVersions(a) = MemVersions(a) \/ (Found(SqlAgent(a)) /\ SqlAgent(a)[2].archived)

SameVaults ==
    /\ SqlVaults = MemVaults
    /\ \A u \in StoreUsers : SqlVaultsOf(u) = MemVaultsOf(u)
    /\ \A v \in StoreVaults : SqlCreds(v) = MemCreds(v)
    /\ \A c \in StoreCreds : SqlCredential(c) = MemCredential(c)

SameUsers ==
    /\ \A u \in StoreUsers : SqlUser(u) = MemUser(u)
    /\ SqlByGithub(1) = MemByGithub(1)

SameAudit ==
    \A since, until \in 1 .. 2, actions \in {{"create"}, {"create", "delete"}}, limit \in 1 .. 3 :
        SqlAudit(since, until, actions, limit) = MemAudit(since, until, actions, limit)

(* Only a claim for a session that is gone is refused by SQLite alone.      *)
SameAnswer ==
    \/ sqlSaid = memSaid
    \/ /\ group = "sessions" /\ sqlSaid = Throws /\ memSaid = Nothing
       /\ \E s \in astray : ~Found(SqlSession(s))

(* What either backend returns, from the call or from any read after it, is *)
(* what the other returns: the order of lists, cascades, counts and the     *)
(* answers for what is not there.  They differ in three things only: the    *)
(* claim of a session that is gone, the container rows that the foreign key *)
(* refuses or takes with the session, and the mark of an archived agent on  *)
(* the versions written after.                                              *)
StoresAgree ==
    /\ SameAnswer
    /\ group = "sessions" => SameSessions
    /\ group = "agents" => SameAgents
    /\ group = "vaults" => SameVaults
    /\ group = "users" => SameUsers
    /\ group = "audit" => SameAudit

(* Without the three exceptions it does not hold.                           *)
Indistinguishable ==
    /\ StoresAgree /\ sqlSaid = memSaid /\ astray = {}
    /\ \A a \in StoreAgents : SqlVersions(a) = MemVersions(a)
=============================================================================
