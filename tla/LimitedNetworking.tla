------------------------- MODULE LimitedNetworking -------------------------
(***************************************************************************)
(* The topology of ONE `networking: limited` session: two Docker networks,  *)
(* an egress-proxy sidecar and the agent, built by doLimitedSpawn, torn     *)
(* down by its rollback and by evictSession (src/runtime/pool.ts), and      *)
(* found again after a crash of the orchestrator (src/index.ts).            *)
(*                                                                          *)
(* Networks and the sidecar have names derived from the session's id, so    *)
(* each life of the topology meets the remains of the one before; names of  *)
(* different sessions are different (ids are 12 characters of a-z0-9).      *)
(* Every Docker call is one step; Docker removes no network a running       *)
(* container is attached to.  After a crash the loops of main run before    *)
(* the HTTP server starts: one step per container.                          *)
(***************************************************************************)
EXTENDS Integers, FiniteSets

CONSTANTS
    MaxBoxes,     \* bound: containers created
    MaxExits,     \* bound: containers that exit by themselves
    MaxCrashes    \* bound: crashes of the orchestrator

ASSUME LimitedAssumption ==
    MaxBoxes \in Nat \ {0} /\ MaxExits \in Nat /\ MaxCrashes \in Nat

VARIABLES
    nets,      \* the session's Docker networks that exist
    box,       \* per container: what it is, whether it runs, where it is attached
    boot,      \* doLimitedSpawn: the await it is in, and `created`
    entry,     \* the pool's active entry, {} if none
    evicts,    \* the evictions under way
    row,       \* the session_containers row, {} if none
    wanted,    \* is there a session, not failed?
    startup,   \* the containers main has still to look at, by loop; the
               \* row as it was; the sidecars of adopted agents
    used, exits, crashes

orchestrator == <<boot, entry, evicts, startup>>
bounds       == <<used, exits, crashes>>
vars         == <<nets, box, orchestrator, row, wanted, bounds>>

Boxes == 1 .. MaxBoxes
Nets  == {"confined", "egress"}
None  == 0
NoBox == [kind |-> "none", up |-> FALSE, at |-> {}]
Building == {"net1", "net2", "sidecar", "sidecarReady", "agent", "agentReady", "ws"}
Undoing  == {"undoAgent", "undoSidecar", "undoNet1", "undoNet2"}
NoBoot   == [pc |-> "none", made |-> {}, sidecar |-> None, agent |-> None]
Steps    == {"agent", "sidecar", "net1", "net2"}
Owners   == [agent : Boxes, sidecar : Boxes \cup {None}]

TypeOK ==
    /\ nets \subseteq Nets
    /\ box \in [Boxes -> [kind : {"none", "agent", "sidecar"}, up : BOOLEAN, at : SUBSET Nets]]
    /\ \A b \in Boxes : box[b].at \subseteq nets
    /\ boot \in [pc : {"none"} \cup Building \cup Undoing, made : SUBSET Nets,
                 sidecar : 0 .. MaxBoxes, agent : 0 .. MaxBoxes]
    /\ entry \subseteq Owners /\ Cardinality(entry) <= 1
    /\ evicts \subseteq [of : Owners, step : Steps]
    /\ row \subseteq [agent : Boxes, source : {"limited", "adopt"}]
    /\ Cardinality(row) <= 1
    /\ wanted \in BOOLEAN
    /\ startup.agents \subseteq Boxes /\ startup.sidecars \subseteq Boxes
    /\ startup.kept \subseteq Boxes /\ startup.phase \in {"serving", "agents", "sidecars"}

Serving == [phase |-> "serving", agents |-> {}, sidecars |-> {}, kept |-> {},
            row |-> {}]

Init ==
    /\ nets = {} /\ box = [b \in Boxes |-> NoBox] /\ boot = NoBoot
    /\ entry = {} /\ evicts = {} /\ row = {} /\ wanted = TRUE
    /\ startup = Serving
    /\ used = 0 /\ exits = 0 /\ crashes = 0

----------------------------------------------------------------------------
(* The runtime.                                                             *)

Sidecars == {b \in Boxes : box[b].kind = "sidecar"}
Agents   == {b \in Boxes : box[b].kind = "agent"}
Running  == {b \in Agents : box[b].up}

(* Docker answers the stop of a container that does not run with 304,       *)
(* "container already stopped", which isNotRunningError does not know: stop *)
(* throws before it removes, and its callers swallow that.                  *)
Goes(b) == box[b].up

(* stop: stop and remove; nothing happens to what is not there.             *)
Stopped(ids) == [b \in Boxes |-> IF b \in ids /\ Goes(b) THEN NoBox ELSE box[b]]

(* removeNetwork, with the containers that are left: fails, and the failure *)
(* is swallowed, while one that runs is attached.                           *)
InUse(left, n) == \E b \in Boxes : left[b].up /\ n \in left[b].at
RemoveNetworks(left, ns) ==
    /\ nets' = nets \ {n \in ns : ~InUse(left, n)}
    /\ box' = [b \in Boxes |-> [left[b] EXCEPT !.at = @ \cap nets']]

Spawn(kind, at) ==
    /\ used < MaxBoxes /\ used' = used + 1
    /\ at \subseteq nets
    /\ kind = "sidecar" => Sidecars = {}
    /\ box' = [box EXCEPT ![used'] = [kind |-> kind, up |-> TRUE, at |-> at]]

(* Its clean-up goes by name, whoever has the name: nothing was created, or *)
(* what was started is gone again.  What was created and never ran stays:   *)
(* the start fails, or the create outlasts its timeout.                     *)
SpawnFails(kind) ==
    \/ /\ box' = IF kind = "sidecar" THEN Stopped(Sidecars) ELSE box
       /\ UNCHANGED used
    \/ /\ used < MaxBoxes /\ used' = used + 1
       /\ kind = "sidecar" => Sidecars = {}
       /\ box' = [box EXCEPT ![used'] =
                      [kind |-> kind, up |-> FALSE, at |-> nets \cap {"confined"}]]

(* A container exits: the restart policy is "no".                           *)
Exit ==
    /\ exits < MaxExits /\ exits' = exits + 1
    /\ \E b \in Boxes : box[b].up /\ box' = [box EXCEPT ![b].up = FALSE]
    /\ UNCHANGED <<nets, orchestrator, row, wanted, used, crashes>>

----------------------------------------------------------------------------
(* doLimitedSpawn.                                                          *)

Up == startup.phase = "serving"

(* A run acquires the session's container; acquisitions of one session      *)
(* share one promise.                                                       *)
StartBoot ==
    /\ Up /\ entry = {} /\ boot.pc = "none" /\ wanted
    /\ boot' = [NoBoot EXCEPT !.pc = "net1"]
    /\ UNCHANGED <<nets, box, entry, evicts, startup, row, wanted, bounds>>

EnsureNetwork(pc, net, next) ==
    /\ boot.pc = pc
    /\ nets' = nets \cup {net}
    /\ boot' = [boot EXCEPT !.pc = next, !.made = @ \cup {net}]
    /\ UNCHANGED <<box, entry, evicts, startup, row, wanted, bounds>>

BootSidecar ==
    /\ boot.pc = "sidecar" /\ Spawn("sidecar", Nets)
    /\ boot' = [boot EXCEPT !.pc = "sidecarReady", !.sidecar = used']
    /\ UNCHANGED <<nets, entry, evicts, startup, row, wanted, exits, crashes>>

SidecarReady ==
    /\ boot.pc = "sidecarReady" /\ box[boot.sidecar].up
    /\ boot' = [boot EXCEPT !.pc = "agent"]
    /\ UNCHANGED <<nets, box, entry, evicts, startup, row, wanted, bounds>>

BootAgent ==
    /\ boot.pc = "agent" /\ Spawn("agent", {"confined"})
    /\ boot' = [boot EXCEPT !.pc = "agentReady", !.agent = used']
    /\ UNCHANGED <<nets, entry, evicts, startup, row, wanted, exits, crashes>>

AgentReady ==
    /\ boot.pc = "agentReady" /\ box[boot.agent].up
    /\ boot' = [boot EXCEPT !.pc = "ws"]
    /\ UNCHANGED <<nets, box, entry, evicts, startup, row, wanted, bounds>>

(* The handshake succeeds: the entry owns the topology, and the claim is    *)
(* recorded in the same step.                                               *)
Claim ==
    /\ boot.pc = "ws" /\ box[boot.agent].up
    /\ entry' = {[agent |-> boot.agent, sidecar |-> boot.sidecar]}
    /\ row' = {[agent |-> boot.agent, source |-> "limited"]}
    /\ boot' = NoBoot
    /\ UNCHANGED <<nets, box, evicts, startup, wanted, bounds>>

(* Mutant: the readiness polls go on while the container does not answer.   *)
BootFails_NoDeadline == boot.pc \in {"sidecar", "agent", "ws"}

(* Any call may fail or time out; the network calls when Docker does.       *)
BootFails == boot.pc \in Building

Fail ==
    /\ BootFails
    /\ IF boot.pc \in {"sidecar", "agent"} THEN SpawnFails(boot.pc) ELSE UNCHANGED <<box, used>>
    /\ boot' = [boot EXCEPT !.pc = "undoAgent"]
    /\ UNCHANGED <<nets, entry, evicts, startup, row, wanted, exits, crashes>>

(* Mutant: the rollback forgets the egress network.                         *)
Undone_NoEgress == boot.made \ {"egress"}

(* rollback removes the networks that this boot has ensured.                *)
Undone == boot.made

Undo ==
    /\ \/ /\ boot.pc = "undoAgent"
          /\ box' = Stopped({boot.agent})
          /\ boot' = [boot EXCEPT !.pc = "undoSidecar"] /\ UNCHANGED nets
       \/ /\ boot.pc = "undoSidecar"
          /\ box' = Stopped({boot.sidecar})
          /\ boot' = [boot EXCEPT !.pc = "undoNet1"] /\ UNCHANGED nets
       \/ /\ boot.pc = "undoNet1"
          /\ RemoveNetworks(box, Undone \cap {"confined"})
          /\ boot' = [boot EXCEPT !.pc = "undoNet2"]
       \/ /\ boot.pc = "undoNet2"
          /\ RemoveNetworks(box, Undone \cap {"egress"})
          /\ boot' = NoBoot
    /\ UNCHANGED <<entry, evicts, startup, row, wanted, bounds>>

----------------------------------------------------------------------------
(* evictSession: by the sweeper, a failed run, new credentials or a DELETE; *)
(* the entry and the row go at once, the rest goes one call at a time while *)
(* the next boot may have begun.                                            *)

Evict ==
    /\ Up /\ entry # {}
    /\ evicts' = evicts \cup {[of |-> e, step |-> "agent"] : e \in entry}
    /\ entry' = {} /\ row' = {}
    /\ wanted' \in BOOLEAN
    /\ UNCHANGED <<nets, box, boot, startup, bounds>>

(* Mutant: the sidecar is stopped by its name.                              *)
SidecarOf_Name(e) == Sidecars

SidecarOf(e) == {e.sidecar} \cap Boxes

After(step) == CASE step = "agent" -> "sidecar" [] step = "sidecar" -> "net1"
                 [] step = "net1" -> "net2"

EvictStep ==
    /\ \E x \in evicts :
          /\ CASE x.step = "agent"   -> box' = Stopped({x.of.agent}) /\ UNCHANGED nets
               [] x.step = "sidecar" -> box' = Stopped(SidecarOf(x.of)) /\ UNCHANGED nets
               [] x.step = "net1"    -> RemoveNetworks(box, {"confined"})
               [] x.step = "net2"    -> RemoveNetworks(box, {"egress"})
          /\ evicts' = (evicts \ {x}) \cup
                IF x.step = "net2" \/ (x.step = "agent" /\ x.of.sidecar = None) THEN {}
                ELSE {[x EXCEPT !.step = After(x.step)]}
    /\ UNCHANGED <<boot, entry, startup, row, wanted, bounds>>

(* A new event for a session that had failed.                               *)
WantAgain ==
    /\ Up /\ ~wanted /\ wanted' = TRUE
    /\ UNCHANGED <<nets, box, orchestrator, row, bounds>>

----------------------------------------------------------------------------
(* A crash, and the startup after it.                                       *)

Crash ==
    /\ crashes < MaxCrashes /\ crashes' = crashes + 1
    /\ boot' = NoBoot /\ entry' = {} /\ evicts' = {}
    /\ startup' = [phase |-> "agents", agents |-> Agents, sidecars |-> Sidecars,
                   kept |-> {}, row |-> row]
    /\ UNCHANGED <<nets, box, row, wanted, used, exits>>

RowOf(b) == {r \in startup.row : r.agent = b}

(* A container without a row is known by its label.                         *)
Adoptable(b) == wanted /\ box[b].up

StopOrphan(b) ==
    /\ ~Adoptable(b)
    /\ box' = Stopped({b}) /\ row' = IF RowOf(b) = {} THEN row ELSE {}
    /\ UNCHANGED <<nets, entry>>

(* The row says "limited" and the sidecar is not there: all of it goes.     *)
Limited(b) == \E r \in RowOf(b) : r.source = "limited"
LiveSidecars == {s \in startup.sidecars : box[s].up}

StopBroken(b) ==
    /\ Adoptable(b) /\ Limited(b) /\ LiveSidecars = {}
    /\ RemoveNetworks(Stopped({b} \cup startup.sidecars), Nets)
    /\ row' = {} /\ UNCHANGED entry

(* pool.adopt, which rewrites the row.                                      *)
Adopt(b) ==
    /\ Adoptable(b) /\ (Limited(b) => LiveSidecars # {}) /\ entry = {}
    /\ entry' = {[agent |-> b,
                  sidecar |-> IF Limited(b) THEN CHOOSE s \in LiveSidecars : TRUE ELSE None]}
    /\ row' = {[agent |-> b, source |-> "adopt"]}
    /\ UNCHANGED <<nets, box>>

(* Mutant: a container that could not be adopted is left alone.             *)
AdoptFails_Keep(b) ==
    /\ Adoptable(b) /\ (Limited(b) => LiveSidecars # {})
    /\ row' = {} /\ UNCHANGED <<nets, box, entry>>

(* The agent does not answer, or the session has one already.               *)
AdoptFails(b) ==
    /\ Adoptable(b) /\ (Limited(b) => LiveSidecars # {})
    /\ box' = Stopped({b}) /\ row' = {}
    /\ UNCHANGED <<nets, entry>>

StartupAgent ==
    /\ startup.phase = "agents"
    /\ \E b \in startup.agents :
          /\ StopOrphan(b) \/ StopBroken(b) \/ Adopt(b) \/ AdoptFails(b)
          /\ startup' = [startup EXCEPT
                !.agents = @ \ {b},
                !.kept = IF Adoptable(b) /\ Limited(b) THEN @ \cup LiveSidecars ELSE @]
    /\ UNCHANGED <<boot, evicts, wanted, bounds>>

(* The second loop, over the sidecars that no adopted agent has claimed.    *)
StartupSidecars ==
    /\ startup.phase = "agents" /\ startup.agents = {}
    /\ startup' = [startup EXCEPT !.phase = "sidecars"]
    /\ UNCHANGED <<nets, box, boot, entry, evicts, row, wanted, bounds>>

StartupSidecar ==
    /\ startup.phase = "sidecars"
    /\ \E s \in startup.sidecars \ startup.kept :
          /\ RemoveNetworks(Stopped({s}), Nets)
          /\ startup' = [startup EXCEPT !.sidecars = @ \ {s}]
    /\ UNCHANGED <<boot, entry, evicts, row, wanted, bounds>>

(* A session that was running and was not adopted fails; the server starts. *)
StartServing ==
    /\ startup.phase = "sidecars" /\ startup.sidecars \subseteq startup.kept
    /\ startup' = Serving
    /\ wanted' \in {wanted, wanted /\ entry # {}}
    /\ UNCHANGED <<nets, box, boot, entry, evicts, row, bounds>>

System ==
    \/ EnsureNetwork("net1", "confined", "net2")
    \/ EnsureNetwork("net2", "egress", "sidecar")
    \/ BootSidecar \/ SidecarReady \/ BootAgent \/ AgentReady \/ Claim \/ Fail \/ Undo
    \/ EvictStep
    \/ StartupAgent \/ StartupSidecars \/ StartupSidecar \/ StartServing

Next == System \/ StartBoot \/ Evict \/ WantAgain \/ Exit \/ Crash

Spec == Init /\ [][Next]_vars

(* Docker answers, polls have deadlines, and main goes on.                  *)
Fairness == WF_vars(System) /\ WF_vars(EvictStep)

FairSpec == Spec /\ Fairness

----------------------------------------------------------------------------
(* Properties.                                                              *)

(* What an active entry owns is there: neither the eviction of an earlier   *)
(* life of the session, whose names it has taken over, nor a boot that      *)
(* failed has taken its proxy away, nor, while the proxy runs, a network.   *)
OwnedIntact ==
    Up => \A e \in entry : e.sidecar # None =>
        /\ box[e.sidecar].kind = "sidecar"
        /\ box[e.sidecar].up => Nets \subseteq nets

(* When nothing is under way and the session has no container, no container *)
(* of it runs and no network of it is left on the host, however its boots   *)
(* failed and its evictions interleaved with them.  (What has stopped by    *)
(* itself stays: StopRemoves.)                                              *)
Quiet == Up /\ entry = {} /\ boot.pc = "none" /\ evicts = {}

Reclaimed ==
    Quiet /\ crashes = 0 => nets = {} /\ \A b \in Boxes : ~box[b].up

(* An agent container that runs always has someone who will stop it: the    *)
(* entry, the boot or an eviction under way; also after a crash, whatever   *)
(* it interrupted.                                                          *)
AgentsOwned ==
    Up => \A b \in Running :
        \/ \E e \in entry : e.agent = b
        \/ boot.agent = b
        \/ \E x \in evicts : x.of.agent = b /\ x.step = "agent"

(* Nothing of a live session is taken, and nothing of a dead one runs on.   *)
TopologyInv == TypeOK /\ OwnedIntact /\ Reclaimed /\ AgentsOwned

(* Everything under way ends: boots, rollbacks, evictions, the startup.     *)
TopologySettles == []<>(Up /\ boot.pc = "none" /\ evicts = {})

(* docs/architecture.md:70, "adopt recoverable containers and stop only     *)
(* true orphans": the startup leaves an adopted container that has a row    *)
(* its proxy, however often the orchestrator has started before.            *)
OnlyOrphansStopped ==
    startup.phase = "sidecars" =>
        \A e \in entry : RowOf(e.agent) # {} => e.sidecar # None

(* src/runtime/docker.ts:189, "Already stopped - ignore": an eviction that  *)
(* has stopped the agent has removed it, also when it had exited by itself. *)
StopRemoves ==
    \A x \in evicts : x.step # "agent" => box[x.of.agent].kind = "none"

(* pool.ts, doLimitedSpawn: "The sidecar is the only route out": a session  *)
(* with an active container has one, also when the boot was interrupted.    *)
RouteOut == Up => \A e \in entry : e.sidecar # None

(* pool.ts, doLimitedSpawn and evictSession: a session that is done leaves  *)
(* nothing behind, also when the orchestrator has crashed.                  *)
ReclaimedAfterCrash ==
    Quiet => nets = {} /\ \A b \in Boxes : box[b].kind = "none"
=============================================================================
