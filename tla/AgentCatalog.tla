---------------------------- MODULE AgentCatalog ----------------------------
(***************************************************************************)
(* The metadata behind /v1/agents, /v1/environments and /v1/sessions: agent *)
(* templates with their versions, environments, sessions, and the signed    *)
(* tokens an agent's container uses to create sessions of other agents      *)
(* (src/orchestrator/server.ts over the stores of src/store).               *)
(*                                                                          *)
(* A store's operation is one synchronous step; a PATCH of an agent is two, *)
(* because the new model is validated against the provider in between.      *)
(* What a template says is its allowlist and its depth; a PATCH sets the    *)
(* depth, which stands for any of its fields.                               *)
(***************************************************************************)
EXTENDS Integers, Sequences, FiniteSets, SequencesExt

CONSTANTS
    Agents,       \* agent ids
    Patches,      \* PATCH requests
    Envs,         \* environment ids
    NoEnv,        \* the session is bound to no environment
    MaxVersion,   \* bound: versions of an agent
    MaxDepth,     \* bound: the largest maxSubagentDepth
    MaxSessions   \* bound: sessions created

ASSUME CatalogAssumption ==
    /\ IsFiniteSet(Agents) /\ NoEnv \notin Envs
    /\ MaxVersion \in Nat \ {0} /\ MaxDepth \in Nat /\ MaxSessions \in Nat

VARIABLES
    agent,     \* per agent id: the set of its row, {} if there is none
    history,   \* per agent id: its agent_versions, oldest first
    patch,     \* per PATCH request: what it is about and how far it got
    envs,      \* the environments there are
    session,   \* the sessions created, numbered; `live` until deleted
    token      \* the token in the session's container's environment, {} if none

catalogVars == <<agent, history, patch, envs, session, token>>

Templates == [allow : SUBSET Agents, depth : 0 .. MaxDepth]
AgentRows == [template : Templates, version : 1 .. MaxVersion, archived : BOOLEAN]
NoPatch   == [stage |-> "new", agent |-> {}, version |-> 1, depth |-> 0]
NothingWritten == [NoPatch EXCEPT !.stage = "done"]   \* refused, or no change
Tokens    == [allow : SUBSET Agents, depth : Int, parent : 1 .. MaxSessions]

CatalogTypeOK ==
    /\ \A a \in Agents : agent[a] \subseteq AgentRows /\ Cardinality(agent[a]) <= 1
    /\ \A a \in Agents : history[a] \in Seq(Templates)
    /\ \A p \in Patches : /\ patch[p].stage \in {"new", "validating", "ok", "done"}
                          /\ patch[p].agent \subseteq Agents
    /\ envs \subseteq Envs
    /\ Len(session) <= MaxSessions /\ Len(token) = Len(session)
    /\ \A i \in DOMAIN session :
          /\ session[i].agent \in Agents /\ session[i].depth \in 0 .. MaxDepth
          /\ session[i].env \in Envs \cup {NoEnv}
          /\ session[i].parent \in 0 .. i - 1
          /\ token[i] \subseteq Tokens

CatalogInit ==
    /\ agent = [a \in Agents |-> {}] /\ history = [a \in Agents |-> <<>>]
    /\ patch = [p \in Patches |-> NoPatch]
    /\ envs = {} /\ session = <<>> /\ token = <<>>

----------------------------------------------------------------------------
(* Agents.                                                                  *)

Exists(a) == agent[a] # {}
RowOf(a)  == CHOOSE row \in agent[a] : TRUE

CreateAgent ==
    /\ \E a \in Agents, allow \in SUBSET Agents, depth \in 0 .. MaxDepth :
          LET t == [allow |-> allow, depth |-> depth]
          IN  /\ ~Exists(a) /\ history[a] = <<>>   \* ids are never used twice
              /\ agent' = [agent EXCEPT
                             ![a] = {[template |-> t, version |-> 1, archived |-> FALSE]}]
              /\ history' = [history EXCEPT ![a] = <<t>>]
    /\ UNCHANGED <<patch, envs, session, token>>

(* PATCH, up to the await: the row is there, not archived, and at the       *)
(* version the client has seen.                                             *)
PatchAgent(p) ==
    /\ patch[p].stage = "new"
    /\ \E a \in Agents, depth \in 0 .. MaxDepth :
          /\ Exists(a) /\ ~RowOf(a).archived
          /\ patch' = [patch EXCEPT
                ![p] = [stage |-> "validating", agent |-> {a},
                        version |-> RowOf(a).version, depth |-> depth]]
    /\ UNCHANGED <<agent, history, envs, session, token>>

(* Mutant: the store's update trusts the version the handler has checked.   *)
Current_Unchecked(a, version) == Exists(a)

(* The store's compare-and-set on the version.                              *)
Current(a, version) == Exists(a) /\ RowOf(a).version = version

(* store.update: nothing to write if the update changes nothing; archived   *)
(* rows are updated like the others.                                        *)
PatchValidated(p) ==
    /\ patch[p].stage = "validating"
    /\ \E a \in patch[p].agent :
          IF ~Current(a, patch[p].version)
          THEN /\ patch' = [patch EXCEPT ![p] = NothingWritten]
               /\ UNCHANGED <<agent, history>>
          ELSE LET row == RowOf(a)
                   t   == [row.template EXCEPT !.depth = patch[p].depth]
               IN  /\ row.version < MaxVersion \/ t = row.template
                   /\ IF t = row.template
                      THEN /\ patch' = [patch EXCEPT ![p] = NothingWritten]
                           /\ UNCHANGED <<agent, history>>
                      ELSE /\ patch' = [patch EXCEPT ![p].stage = "ok"]
                           /\ agent' = [agent EXCEPT ![a] =
                                 {[row EXCEPT !.template = t, !.version = @ + 1]}]
                           /\ history' = [history EXCEPT ![a] = Append(@, t)]
    /\ UNCHANGED <<envs, session, token>>

(* The model is refused, or the provider cannot be asked.                   *)
PatchRefused(p) ==
    /\ patch[p].stage = "validating"
    /\ patch' = [patch EXCEPT ![p] = NothingWritten]
    /\ UNCHANGED <<agent, history, envs, session, token>>

ArchiveAgent ==
    /\ \E a \in Agents : /\ Exists(a)
                         /\ agent' = [agent EXCEPT ![a] = {[RowOf(a) EXCEPT !.archived = TRUE]}]
    /\ UNCHANGED <<history, patch, envs, session, token>>

(* The row goes with its versions, its sessions stay.  (history is kept: it *)
(* marks the id as used.)                                                   *)
DeleteAgent ==
    /\ \E a \in Agents : Exists(a) /\ agent' = [agent EXCEPT ![a] = {}]
    /\ UNCHANGED <<history, patch, envs, session, token>>

----------------------------------------------------------------------------
(* Environments.                                                            *)

CreateEnv ==
    /\ \E e \in Envs \ envs : envs' = envs \cup {e}
    /\ UNCHANGED <<agent, history, patch, session, token>>

(* Mutant: only running sessions hold on to their environment.              *)
EnvInUse_Running(e) ==
    \E i \in DOMAIN session : session[i].live /\ session[i].env = e /\ token[i] # {}

EnvInUse(e) == \E i \in DOMAIN session : session[i].live /\ session[i].env = e

DeleteEnv ==
    /\ \E e \in envs : ~EnvInUse(e) /\ envs' = envs \ {e}
    /\ UNCHANGED <<agent, history, patch, session, token>>

----------------------------------------------------------------------------
(* Sessions and delegation.                                                 *)

(* createSession: of an agent that is there and not archived.               *)
AddSession(a, depth, parent) ==
    /\ Exists(a) /\ ~RowOf(a).archived /\ Len(session) < MaxSessions
    /\ \E e \in envs \cup {NoEnv} :
          session' = Append(session,
              [agent |-> a, depth |-> depth, parent |-> parent, env |-> e, live |-> TRUE])
    /\ token' = Append(token, {})
    /\ UNCHANGED <<agent, history, patch, envs>>

CreateSession ==
    \E a \in Agents : Exists(a) /\ AddSession(a, RowOf(a).template.depth, 0)

(* Mutant: the child starts from its own template's depth.                  *)
ChildDepth_Own(t, a) == RowOf(a).template.depth

(* The child may delegate one level less than its parent.                   *)
ChildDepth(t, a) == t.depth - 1

(* Mutant: a token with nothing left is still good for one child.           *)
MaySpawn_Zero(t, a) == a \in t.allow /\ t.depth >= 0

MaySpawn(t, a) == a \in t.allow /\ t.depth > 0

(* POST /v1/sessions with a parent token, which the container may still     *)
(* hold when its session or its template has changed or gone.               *)
Delegate ==
    \E i \in DOMAIN session : \E t \in token[i] : \E a \in Agents :
        /\ MaySpawn(t, a) /\ Exists(a)
        /\ AddSession(a, ChildDepth(t, a), t.parent)

(* A run boots the session's container: buildSpawnOptions mints the token   *)
(* from the template as it is now and the session's remaining depth.        *)
BootSession ==
    /\ \E i \in DOMAIN session :
          /\ session[i].live /\ Exists(session[i].agent)
          /\ token' = [token EXCEPT ![i] =
                {[allow |-> RowOf(session[i].agent).template.allow,
                  depth |-> session[i].depth, parent |-> i]}]
    /\ UNCHANGED <<agent, history, patch, envs, session>>

DeleteSession ==
    /\ \E i \in DOMAIN session :
          /\ session[i].live
          /\ session' = [session EXCEPT ![i].live = FALSE]
          /\ token' = [token EXCEPT ![i] = {}]
    /\ UNCHANGED <<agent, history, patch, envs>>

CatalogNext ==
    \/ CreateAgent \/ ArchiveAgent \/ DeleteAgent
    \/ \E p \in Patches : PatchAgent(p) \/ PatchValidated(p) \/ PatchRefused(p)
    \/ CreateEnv \/ DeleteEnv
    \/ CreateSession \/ Delegate \/ BootSession \/ DeleteSession

----------------------------------------------------------------------------
(* Properties.                                                              *)

(* No acknowledged update is lost and none replaces a version its client    *)
(* has not seen: the row is the last of its versions, and no two PATCHes    *)
(* that wrote started from the same one.                                    *)
UpdatesLinear ==
    /\ \A a \in Agents : Exists(a) =>
          Len(history[a]) = RowOf(a).version /\ Last(history[a]) = RowOf(a).template
    /\ \A p, q \in Patches :
          p # q /\ patch[p].stage = "ok" /\ patch[q].stage = "ok"
          /\ patch[p].agent = patch[q].agent
          => patch[p].version # patch[q].version

Ancestors(i) == LET up[k \in 1 .. Len(session)] ==
                      IF session[k].parent = 0 THEN {}
                      ELSE {session[k].parent} \cup up[session[k].parent]
                IN  up[i]

(* A chain of delegations is never longer than the depth its first session  *)
(* was created with, whatever the templates on the way say, are changed to  *)
(* or how often a container is booted again.                                *)
DelegationBounded ==
    \A i \in DOMAIN session : \A r \in Ancestors(i) :
        session[r].parent = 0 =>
            Cardinality(Ancestors(i)) + session[i].depth <= session[r].depth

(* A session that can still run has the environment it was created in: its  *)
(* networking and packages do not silently fall back to the default.        *)
EnvKept == \A i \in DOMAIN session :
              session[i].live => session[i].env \in envs \cup {NoEnv}

(* What a session was created from keeps what it was: versions, the depth   *)
(* of its delegations, its environment.                                     *)
CatalogInv == CatalogTypeOK /\ UpdatesLinear /\ DelegationBounded /\ EnvKept

(* server.ts: "archived agents cannot be updated".                          *)
ArchivedFrozen ==
    [][\A a \in Agents : Exists(a) /\ RowOf(a).archived =>
          agent'[a] \in {agent[a], {}}]_catalogVars
=============================================================================
