---------------------------- MODULE SqliteStore ----------------------------
(***************************************************************************)
(* The store in SQLite (src/store/sqlite.ts): tables as sets of rows, a     *)
(* statement as the rows it inserts, changes or deletes, and sqlSaid, what  *)
(* the method returned.  A row is at its rowid and is of what a caller sees *)
(* of it; rows of one creation time come in that order, and created_at      *)
(* orders the others the same way (AUTOINCREMENT never uses an id again;    *)
(* only the order counts here).  A version is at its number.                *)
(* Columns that are written once and never compared are left out; the       *)
(* encryption of credentials is in StoreOpen.                               *)
(***************************************************************************)
EXTENDS Integers, Sequences, FiniteSets, SequencesExt

VARIABLES db, sqlSaid

sqlVars == <<db, sqlSaid>>

Undefined == <<"undefined">>
Ok(value) == <<"ok", value>>
Count(n)  == <<"count", n>>
Was(there) == <<"was", there>>
Throws    == <<"throws">>
Done      == <<"done">>

Tables == {"agents", "versions", "environments", "sessions", "queue", "boxes",
           "vaults", "creds", "users", "audit"}

SqlInit == db = [t \in Tables |-> {}] /\ sqlSaid = Done

NextAt(rows) == IF rows = {} THEN 1 ELSE 1 + CHOOSE n \in {r.at : r \in rows} :
                                                \A r \in rows : r.at <= n

Add(rows, entry) == rows \cup {[at |-> NextAt(rows), of |-> entry]}

(* ORDER BY: the k-th is the one with k rows up to it.                      *)
Sorted(rows, Upto(_, _)) ==
    [k \in 1 .. Cardinality(rows) |->
        (CHOOSE r \in rows : Cardinality({q \in rows : Upto(q, r)}) = k).of]
Ascending(rows)  == Sorted(rows, LAMBDA q, r : q.at <= r.at)
Descending(rows) == Sorted(rows, LAMBDA q, r : q.at >= r.at)

(* The get, also after a change: undefined when there is no such row.       *)
Returned(entries) == IF entries = {} THEN Undefined ELSE Ok(CHOOSE e \in entries : TRUE)

(* UPDATE table SET ... WHERE ...; info.changes counts the rows.            *)
Hit(rows, Where(_)) == {r \in rows : Where(r.of)}
Changed(rows, Where(_), Set(_)) ==
    {[r EXCEPT !.of = IF Where(r.of) THEN Set(r.of) ELSE r.of] : r \in rows}
Entries(rows, Where(_)) == {r.of : r \in Hit(rows, Where)}

----------------------------------------------------------------------------
(* Sessions.                                                                *)

SqlCreateSession(s, parent) ==
    IF \E r \in db.sessions : r.of.id = s
    THEN sqlSaid' = Throws /\ UNCHANGED db     \* PRIMARY KEY
    ELSE LET entry == [id |-> s, parent |-> parent, status |-> "idle", error |-> FALSE,
                       turns |-> 0, tokens |-> 0] IN
         db' = [db EXCEPT !.sessions = Add(@, entry)] /\ sqlSaid' = Ok(entry)

UpdateSession(s, Set(_)) ==
    LET ofS(e) == e.id = s IN
    /\ db' = [db EXCEPT !.sessions = Changed(@, ofS, Set)]
    /\ sqlSaid' = Returned({Set(e) : e \in Entries(db.sessions, ofS)})

SqlBeginRun(s)   == UpdateSession(s, LAMBDA r : [r EXCEPT !.status = "starting", !.error = FALSE])
SqlMarkRunning(s) == UpdateSession(s, LAMBDA r : [r EXCEPT !.status = "running", !.error = FALSE])

SqlEndRunSuccess(s, tokens) ==
    UpdateSession(s, LAMBDA r : [r EXCEPT !.status = "idle", !.tokens = @ + tokens])
SqlEndRunFailure(s)   == UpdateSession(s, LAMBDA r : [r EXCEPT !.status = "failed", !.error = TRUE])
SqlEndRunCancelled(s) == UpdateSession(s, LAMBDA r : [r EXCEPT !.status = "idle", !.error = FALSE])
SqlAddUsage(s, tokens) == UpdateSession(s, LAMBDA r : [r EXCEPT !.tokens = @ + tokens])
SqlBumpTurns(s)       == UpdateSession(s, LAMBDA r : [r EXCEPT !.turns = @ + 1])

SqlFailRunning ==
    LET busy(e) == e.status \in {"starting", "running"}
        fail(e) == [e EXCEPT !.status = "failed", !.error = TRUE] IN
    /\ db' = [db EXCEPT !.sessions = Changed(@, busy, fail)]
    /\ sqlSaid' = Count(Cardinality(Hit(db.sessions, busy)))

(* The container row goes with it (ON DELETE CASCADE); the queue does not.  *)
SqlDeleteSession(s) ==
    /\ db' = [db EXCEPT !.sessions = {r \in @ : r.of.id # s}, !.boxes = {b \in @ : b.id # s}]
    /\ sqlSaid' = Was(\E r \in db.sessions : r.of.id = s)

SqlSession(s)  == Returned(Entries(db.sessions, LAMBDA e : e.id = s))
SqlSessions    == Ascending(db.sessions)
SqlChildren(s) == Ascending(Hit(db.sessions, LAMBDA e : e.parent = s))

----------------------------------------------------------------------------
(* The event queue: one table for all sessions.                             *)

Events(s) == Hit(db.queue, LAMBDA e : e.session = s)

SqlEnqueue(s, event) ==
    /\ db' = [db EXCEPT !.queue = Add(@, [session |-> s, event |-> event])]
    /\ sqlSaid' = Done

First(s) == {r \in Events(s) : \A q \in Events(s) : r.at <= q.at}

SqlPeek(s) == IF First(s) = {} THEN Undefined
              ELSE Ok((CHOOSE r \in First(s) : TRUE).of.event)

SqlShift(s) == /\ sqlSaid' = SqlPeek(s)
               /\ db' = [db EXCEPT !.queue = @ \ First(s)]

SqlClear(s) == /\ sqlSaid' = Count(Cardinality(Events(s)))
               /\ db' = [db EXCEPT !.queue = @ \ Events(s)]

SqlSize(s) == Cardinality(Events(s))
SqlQueued  == {r.of.session : r \in db.queue}

----------------------------------------------------------------------------
(* The container of a session.                                              *)

(* INSERT ... ON CONFLICT DO UPDATE, under the foreign key.                 *)
SqlPutBox(s, box) ==
    IF \E r \in db.sessions : r.of.id = s
    THEN /\ db' = [db EXCEPT !.boxes = {b \in @ : b.id # s} \cup {[id |-> s, box |-> box]}]
         /\ sqlSaid' = Done
    ELSE sqlSaid' = Throws /\ UNCHANGED db

SqlDeleteBox(s) == db' = [db EXCEPT !.boxes = {b \in @ : b.id # s}] /\ sqlSaid' = Done

SqlBox(s) == Returned({b \in db.boxes : b.id = s})
SqlBoxes  == db.boxes

----------------------------------------------------------------------------
(* Agents with their versions, and environments.                            *)

(* archived_at of a version is NULL.                                        *)
Version(a, n, patch) ==
    [at |-> n, of |-> [id |-> a, version |-> n, patch |-> patch, archived |-> FALSE]]

SqlCreateAgent(a, patch) ==
    LET entry == [id |-> a, version |-> 1, patch |-> patch, archived |-> FALSE] IN
    /\ db' = [db EXCEPT !.agents = Add(@, entry), !.versions = @ \cup {Version(a, 1, patch)}]
    /\ sqlSaid' = Ok(entry)

(* A patch that changes nothing returns the row as it is.                   *)
SqlUpdateAgent(a, version, patch) ==
    LET current(e) == e.id = a /\ e.version = version
        update(e) == [e EXCEPT !.version = @ + 1, !.patch = patch]
        hit == Entries(db.agents, current) IN
    IF \E e \in hit : e.patch = patch
    THEN sqlSaid' = Returned(hit) /\ UNCHANGED db
    ELSE /\ db' = [db EXCEPT !.agents = Changed(@, current, update),
                    !.versions = @ \cup {Version(a, e.version + 1, patch) : e \in hit}]
         /\ sqlSaid' = Returned({update(e) : e \in hit})

SqlArchiveAgent(a) ==
    LET ofA(e) == e.id = a
        archive(e) == [e EXCEPT !.archived = TRUE] IN
    /\ db' = [db EXCEPT !.agents = Changed(@, ofA, archive)]
    /\ sqlSaid' = Returned({archive(e) : e \in Entries(db.agents, ofA)})

SqlDeleteAgent(a) ==
    /\ db' = [db EXCEPT !.agents = {r \in @ : r.of.id # a}, !.versions = {r \in @ : r.of.id # a}]
    /\ sqlSaid' = Was(\E r \in db.agents : r.of.id = a)

SqlAgent(a)    == Returned(Entries(db.agents, LAMBDA e : e.id = a))
SqlAgents      == Ascending(db.agents)
SqlVersions(a) == Ascending(Hit(db.versions, LAMBDA e : e.id = a))

SqlCreateEnv(e) == /\ db' = [db EXCEPT !.environments = Add(@, [id |-> e])]
                   /\ sqlSaid' = Ok([id |-> e])
SqlDeleteEnv(e) == /\ db' = [db EXCEPT !.environments = {r \in @ : r.of.id # e}]
                   /\ sqlSaid' = Was(\E r \in db.environments : r.of.id = e)
SqlEnvs == Ascending(db.environments)

----------------------------------------------------------------------------
(* Vaults and their credentials.                                            *)

SqlCreateVault(v, owner) ==
    LET entry == [id |-> v, owner |-> owner, writes |-> 0] IN
    db' = [db EXCEPT !.vaults = Add(@, entry)] /\ sqlSaid' = Ok(entry)

SqlDeleteVault(v) ==
    /\ db' = [db EXCEPT !.vaults = {r \in @ : r.of.id # v}, !.creds = {r \in @ : r.of.vault # v}]
    /\ sqlSaid' = Was(\E r \in db.vaults : r.of.id = v)

(* It touches its vault (writes is updated_at).                             *)
SqlAddCredential(c, v, type) ==
    LET ofV(e) == e.id = v
        touch(e) == [e EXCEPT !.writes = @ + 1]
        entry == [id |-> c, vault |-> v, type |-> type, access |-> 1, refresh |-> 1] IN
    IF Hit(db.vaults, ofV) = {} THEN sqlSaid' = Undefined /\ UNCHANGED db
    ELSE /\ db' = [db EXCEPT !.creds = Add(@, entry), !.vaults = Changed(@, ofV, touch)]
         /\ sqlSaid' = Ok(entry)

(* A provider that sends no refresh token leaves the stored one.            *)
SqlUpdateTokens(c, access, rotated) ==
    LET mine(e) == e.id = c /\ e.type = "mcp_oauth"
        renew(e) == [e EXCEPT !.access = access, !.refresh = IF rotated THEN access ELSE @] IN
    /\ db' = [db EXCEPT !.creds = Changed(@, mine, renew)]
    /\ sqlSaid' = Returned({renew(e) : e \in Entries(db.creds, mine)})

SqlDeleteCredential(c) ==
    /\ db' = [db EXCEPT !.creds = {r \in @ : r.of.id # c}]
    /\ sqlSaid' = Was(\E r \in db.creds : r.of.id = c)

SqlVaults        == Descending(db.vaults)
SqlVaultsOf(u)   == Descending(Hit(db.vaults, LAMBDA e : e.owner = u))
SqlCredential(c) == Returned(Entries(db.creds, LAMBDA e : e.id = c))
SqlCreds(v)      == Ascending(Hit(db.creds, LAMBDA e : e.vault = v))

----------------------------------------------------------------------------
(* Users and the audit log.                                                 *)

GithubTaken(g, u) == g # 0 /\ \E r \in db.users : r.of.github = g /\ r.of.id # u

SqlCreateUser(u, g, expires) ==
    LET entry == [id |-> u, tier |-> IF g = 0 THEN "anonymous" ELSE "github", github |-> g,
                  expires |-> expires] IN
    IF GithubTaken(g, u) THEN sqlSaid' = Throws /\ UNCHANGED db   \* UNIQUE
    ELSE db' = [db EXCEPT !.users = Add(@, entry)] /\ sqlSaid' = Ok(entry)

SqlUpdateGithub(u, g) ==
    LET ofU(e) == e.id = u
        sign(e) == [e EXCEPT !.tier = "github", !.github = g, !.expires = 0] IN
    IF GithubTaken(g, u) /\ Hit(db.users, ofU) # {} THEN sqlSaid' = Throws /\ UNCHANGED db
    ELSE /\ db' = [db EXCEPT !.users = Changed(@, ofU, sign)]
         /\ sqlSaid' = Returned({sign(e) : e \in Entries(db.users, ofU)})

SqlDeleteExpired(now) ==
    LET over(e) == e.tier = "anonymous" /\ e.expires # 0 /\ e.expires < now IN
    /\ db' = [db EXCEPT !.users = @ \ Hit(@, over)]
    /\ sqlSaid' = Count(Cardinality(Hit(db.users, over)))

SqlUser(u)     == Returned(Entries(db.users, LAMBDA e : e.id = u))
SqlByGithub(g) == Returned(Entries(db.users, LAMBDA e : e.github = g))

SqlRecord(ts, action) ==
    db' = [db EXCEPT !.audit = Add(@, [ts |-> ts, action |-> action])] /\ sqlSaid' = Done

SqlDeleteOlder(ts) ==
    LET old(e) == e.ts < ts IN
    /\ db' = [db EXCEPT !.audit = @ \ Hit(@, old)]
    /\ sqlSaid' = Count(Cardinality(Hit(db.audit, old)))

(* WHERE ts BETWEEN since AND until [AND action = ...]                      *)
(* ORDER BY ts DESC, id DESC LIMIT ...                                      *)
SqlAudit(since, until, actions, limit) ==
    LET wanted(e) == e.ts >= since /\ e.ts <= until /\ e.action \in actions
        newer(q, r) == q.of.ts > r.of.ts \/ (q.of.ts = r.of.ts /\ q.at >= r.at)
        rows == Sorted(Hit(db.audit, wanted), newer)
    IN  SubSeq(rows, 1, IF limit < Len(rows) THEN limit ELSE Len(rows))
=============================================================================
