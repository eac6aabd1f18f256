---------------------------- MODULE MemoryStore ----------------------------
(***************************************************************************)
(* The store in memory (src/store/memory.ts), for tests and for             *)
(* OPENCLAW_STORE=memory: a JavaScript Map as the sequence of its entries   *)
(* in the order of insertion, and memSaid, what the method returned.        *)
(***************************************************************************)
EXTENDS Integers, Sequences, FiniteSets, SequencesExt

VARIABLES mem, memSaid

memVars == <<mem, memSaid>>

NotThere      == <<"undefined">>
Gives(value)  == <<"ok", value>>
Number(n)     == <<"count", n>>
Had(there)    == <<"was", there>>
Nothing       == <<"done">>

Maps == {"agents", "versions", "environments", "sessions", "queue", "boxes",
         "vaults", "creds", "users", "audit"}

MemInit == mem = [m \in Maps |-> <<>>] /\ memSaid = Nothing

(* Array.filter: what is at the first, the second, ... of the places kept.  *)
Nth(places, k) == CHOOSE i \in places : Cardinality({j \in places : j <= i}) = k

Filter(entries, S) ==
    LET places == {i \in DOMAIN entries : entries[i] \in S}
    IN  [k \in 1 .. Cardinality(places) |-> entries[Nth(places, k)]]

(* Map.has, get, set (a known key keeps its place) and delete.              *)
MapHas(map, id) == \E i \in DOMAIN map : map[i].id = id
MapGet(map, id) ==
    IF MapHas(map, id) THEN Gives(map[CHOOSE i \in DOMAIN map : map[i].id = id]) ELSE NotThere
MapSet(map, entry) ==
    IF MapHas(map, entry.id)
    THEN [i \in DOMAIN map |-> IF map[i].id = entry.id THEN entry ELSE map[i]]
    ELSE Append(map, entry)
MapDelete(map, id) == Filter(map, {entry \in ToSet(map) : entry.id # id})

(* Array.sort, newest first: creation is in the order of insertion.         *)
Newest(entries) == Reverse(entries)

----------------------------------------------------------------------------
(* Sessions.                                                                *)

MemCreateSession(s, parent) ==
    LET row == [id |-> s, parent |-> parent, status |-> "idle", error |-> FALSE,
                turns |-> 0, tokens |-> 0] IN
    mem' = [mem EXCEPT !.sessions = MapSet(@, row)] /\ memSaid' = Gives(row)

ChangeSession(s, Set(_)) ==
    IF ~MapHas(mem.sessions, s) THEN memSaid' = NotThere /\ UNCHANGED mem
    ELSE LET row == Set(MapGet(mem.sessions, s)[2]) IN
         mem' = [mem EXCEPT !.sessions = MapSet(@, row)] /\ memSaid' = Gives(row)

MemBeginRun(s)    == ChangeSession(s, LAMBDA r : [r EXCEPT !.status = "starting", !.error = FALSE])
MemMarkRunning(s) == ChangeSession(s, LAMBDA r : [r EXCEPT !.status = "running", !.error = FALSE])
MemEndRunSuccess(s, tokens) ==
    ChangeSession(s, LAMBDA r : [r EXCEPT !.status = "idle", !.tokens = @ + tokens])
MemEndRunFailure(s)   == ChangeSession(s, LAMBDA r : [r EXCEPT !.status = "failed", !.error = TRUE])
MemEndRunCancelled(s) == ChangeSession(s, LAMBDA r : [r EXCEPT !.status = "idle", !.error = FALSE])
MemAddUsage(s, tokens) == ChangeSession(s, LAMBDA r : [r EXCEPT !.tokens = @ + tokens])
MemBumpTurns(s)       == ChangeSession(s, LAMBDA r : [r EXCEPT !.turns = @ + 1])

MemFailRunning ==
    LET busy == {i \in DOMAIN mem.sessions : mem.sessions[i].status \in {"starting", "running"}} IN
    /\ mem' = [mem EXCEPT !.sessions =
                  [i \in DOMAIN @ |-> IF i \in busy THEN [@[i] EXCEPT !.status = "failed", !.error = TRUE]
                                      ELSE @[i]]]
    /\ memSaid' = Number(Cardinality(busy))

MemDeleteSession(s) ==
    /\ mem' = [mem EXCEPT !.sessions = MapDelete(@, s)]
    /\ memSaid' = Had(MapHas(mem.sessions, s))

MemSession(s)  == MapGet(mem.sessions, s)
MemSessions    == mem.sessions
MemChildren(s) == Filter(mem.sessions, {r \in ToSet(mem.sessions) : r.parent = s})

----------------------------------------------------------------------------
(* The event queue: a list per session, dropped when it is empty.           *)

EventsOf(s) == IF MapHas(mem.queue, s) THEN MapGet(mem.queue, s)[2].events ELSE <<>>

MemEnqueue(s, event) ==
    /\ mem' = [mem EXCEPT !.queue = MapSet(@, [id |-> s, events |-> Append(EventsOf(s), event)])]
    /\ memSaid' = Nothing

MemPeek(s) == IF EventsOf(s) = <<>> THEN NotThere ELSE Gives(EventsOf(s)[1])

(* Mutant: the empty list of a session stays in the map.                    *)
MemShift_KeepEmpty(s) ==
    /\ memSaid' = MemPeek(s)
    /\ mem' = IF EventsOf(s) = <<>> THEN mem
              ELSE [mem EXCEPT !.queue = MapSet(@, [id |-> s, events |-> Tail(EventsOf(s))])]

MemShift(s) ==
    /\ memSaid' = MemPeek(s)
    /\ mem' = [mem EXCEPT !.queue =
                  IF Len(EventsOf(s)) > 1 THEN MapSet(@, [id |-> s, events |-> Tail(EventsOf(s))])
                  ELSE MapDelete(@, s)]

MemClear(s) == /\ memSaid' = Number(Len(EventsOf(s)))
               /\ mem' = [mem EXCEPT !.queue = MapDelete(@, s)]

MemSize(s) == Len(EventsOf(s))
MemQueued  == {mem.queue[i].id : i \in DOMAIN mem.queue}

----------------------------------------------------------------------------
(* The container of a session.                                              *)

MemPutBox(s, box) == /\ mem' = [mem EXCEPT !.boxes = MapSet(@, [id |-> s, box |-> box])]
                     /\ memSaid' = Nothing
MemDeleteBox(s) == mem' = [mem EXCEPT !.boxes = MapDelete(@, s)] /\ memSaid' = Nothing
MemBox(s) == MapGet(mem.boxes, s)
MemBoxes  == {mem.boxes[i] : i \in DOMAIN mem.boxes}

----------------------------------------------------------------------------
(* Agents with their versions, and environments.                            *)

History(a) == IF MapHas(mem.versions, a) THEN MapGet(mem.versions, a)[2].all ELSE <<>>

MemCreateAgent(a, patch) ==
    LET row == [id |-> a, version |-> 1, patch |-> patch, archived |-> FALSE] IN
    /\ mem' = [mem EXCEPT !.agents = MapSet(@, row),
                          !.versions = MapSet(@, [id |-> a, all |-> <<row>>])]
    /\ memSaid' = Gives(row)

MemUpdateAgent(a, version, patch) ==
    LET current == MapGet(mem.agents, a)[2]
        updated == [current EXCEPT !.version = @ + 1, !.patch = patch] IN
    IF ~MapHas(mem.agents, a) \/ current.version # version THEN memSaid' = NotThere /\ UNCHANGED mem
    ELSE IF current.patch = patch THEN memSaid' = Gives(current) /\ UNCHANGED mem
    ELSE /\ mem' = [mem EXCEPT !.agents = MapSet(@, updated),
                      !.versions = MapSet(@, [id |-> a, all |-> Append(History(a), updated)])]
         /\ memSaid' = Gives(updated)

MemArchiveAgent(a) ==
    IF ~MapHas(mem.agents, a) THEN memSaid' = NotThere /\ UNCHANGED mem
    ELSE LET row == [MapGet(mem.agents, a)[2] EXCEPT !.archived = TRUE] IN
         mem' = [mem EXCEPT !.agents = MapSet(@, row)] /\ memSaid' = Gives(row)

MemDeleteAgent(a) ==
    /\ mem' = [mem EXCEPT !.agents = MapDelete(@, a), !.versions = MapDelete(@, a)]
    /\ memSaid' = Had(MapHas(mem.agents, a))

MemAgent(a)    == MapGet(mem.agents, a)
MemAgents      == mem.agents
MemVersions(a) == History(a)

MemCreateEnv(e) == /\ mem' = [mem EXCEPT !.environments = MapSet(@, [id |-> e])]
                   /\ memSaid' = Gives([id |-> e])
MemDeleteEnv(e) == /\ mem' = [mem EXCEPT !.environments = MapDelete(@, e)]
                   /\ memSaid' = Had(MapHas(mem.environments, e))
MemEnvs == mem.environments

----------------------------------------------------------------------------
(* Vaults and their credentials.                                            *)

MemCreateVault(v, owner) ==
    LET row == [id |-> v, owner |-> owner, writes |-> 0] IN
    mem' = [mem EXCEPT !.vaults = MapSet(@, row)] /\ memSaid' = Gives(row)

MemDeleteVault(v) ==
    /\ mem' = [mem EXCEPT !.vaults = MapDelete(@, v),
                          !.creds = IF MapHas(mem.vaults, v)
                                    THEN Filter(@, {c \in ToSet(@) : c.vault # v}) ELSE @]
    /\ memSaid' = Had(MapHas(mem.vaults, v))

Touched(vault) == [vault EXCEPT !.writes = @ + 1]

MemAddCredential(c, v, type) ==
    LET row == [id |-> c, vault |-> v, type |-> type, access |-> 1, refresh |-> 1] IN
    IF ~MapHas(mem.vaults, v) THEN memSaid' = NotThere /\ UNCHANGED mem
    ELSE /\ mem' = [mem EXCEPT !.creds = MapSet(@, row),
                          !.vaults = MapSet(@, Touched(MapGet(@, v)[2]))]
         /\ memSaid' = Gives(row)

MemUpdateTokens(c, access, rotated) ==
    LET old == MapGet(mem.creds, c)[2]
        row == [old EXCEPT !.access = access, !.refresh = IF rotated THEN access ELSE @] IN
    IF ~MapHas(mem.creds, c) \/ old.type # "mcp_oauth" THEN memSaid' = NotThere /\ UNCHANGED mem
    ELSE mem' = [mem EXCEPT !.creds = MapSet(@, row)] /\ memSaid' = Gives(row)

MemDeleteCredential(c) ==
    /\ mem' = [mem EXCEPT !.creds = MapDelete(@, c)]
    /\ memSaid' = Had(MapHas(mem.creds, c))

MemVaults        == Newest(mem.vaults)
MemVaultsOf(u)   == Newest(Filter(mem.vaults, {v \in ToSet(mem.vaults) : v.owner = u}))
MemCredential(c) == MapGet(mem.creds, c)
MemCreds(v)      == Filter(mem.creds, {c \in ToSet(mem.creds) : c.vault = v})

----------------------------------------------------------------------------
(* Users and the audit log.                                                 *)

MemCreateUser(u, g, expires) ==
    LET row == [id |-> u, tier |-> IF g = 0 THEN "anonymous" ELSE "github", github |-> g,
                expires |-> expires] IN
    mem' = [mem EXCEPT !.users = MapSet(@, row)] /\ memSaid' = Gives(row)

MemUpdateGithub(u, g) ==
    IF ~MapHas(mem.users, u) THEN memSaid' = NotThere /\ UNCHANGED mem
    ELSE LET row == [MapGet(mem.users, u)[2] EXCEPT !.tier = "github", !.github = g, !.expires = 0]
         IN  mem' = [mem EXCEPT !.users = MapSet(@, row)] /\ memSaid' = Gives(row)

MemDeleteExpired(now) ==
    LET over == {u \in ToSet(mem.users) : /\ u.tier = "anonymous"
                                          /\ u.expires # 0 /\ u.expires < now} IN
    /\ mem' = [mem EXCEPT !.users = Filter(@, ToSet(@) \ over)]
    /\ memSaid' = Number(Len(Filter(mem.users, over)))

MemUser(u)     == MapGet(mem.users, u)
MemByGithub(g) ==
    LET found == Filter(mem.users, {u \in ToSet(mem.users) : u.github = g}) IN
    IF found = <<>> THEN NotThere ELSE Gives(found[1])

MemRecord(ts, action) == /\ mem' = [mem EXCEPT !.audit = Append(@, [ts |-> ts, action |-> action])]
                         /\ memSaid' = Nothing

MemDeleteOlder(ts) ==
    LET old == {e \in ToSet(mem.audit) : e.ts < ts} IN
    /\ mem' = [mem EXCEPT !.audit = Filter(@, ToSet(@) \ old)]
    /\ memSaid' = Number(Len(Filter(mem.audit, old)))

(* Newest first; of one millisecond, the one recorded last.                 *)
MemAudit(since, until, actions, limit) ==
    LET rows == Filter(mem.audit, {e \in ToSet(mem.audit) : /\ e.ts >= since /\ e.ts <= until
                                                           /\ e.action \in actions})
        upto(i) == {j \in DOMAIN rows : \/ rows[j].ts > rows[i].ts
                                        \/ rows[j].ts = rows[i].ts /\ j >= i}
        sorted == [k \in DOMAIN rows |-> rows[CHOOSE i \in DOMAIN rows : Cardinality(upto(i)) = k]]
    IN  SubSeq(sorted, 1, IF limit < Len(sorted) THEN limit ELSE Len(sorted))
=============================================================================
