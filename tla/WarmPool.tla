------------------------------ MODULE WarmPool ------------------------------
(***************************************************************************)
(* The warm half of SessionContainerPool (src/runtime/pool.ts): containers  *)
(* booted ahead of need, at most one per agent, waiting for a session of    *)
(* the agent to claim them.  A call of warmForAgent is a boot.  The bodies  *)
(* that run under the warm admission lock contain no await, so each is one  *)
(* step; pc names the await a boot is suspended in:                         *)
(*                                                                          *)
(*   reserve   the admission lock, to reserve a slot                        *)
(*   reap      the stop of the entries it replaces, then doWarmForAgent     *)
(*   refused   the stop of a stale entry, with no slot to go on with        *)
(*   boot      spawn, readiness and the gateway handshake                   *)
(*   insert    the admission lock, to enter the warm bucket                 *)
(*   discard   the stop of its own container                                *)
(*   release   the admission lock, to give its reservation back             *)
(***************************************************************************)
EXTENDS ContainerRuntime

CONSTANTS
    Boots,     \* bound: the warmForAgent calls that get past their checks
    MaxWarm    \* maxWarmContainers

(* A call from outside draws a fresh directory: it is named after the boot. *)
ASSUME WarmAssumption == MaxWarm \in Nat /\ Boots \subseteq Mounts

VARIABLES
    warm,       \* the warm bucket: per agent, a container or None
    slots,      \* warmReservations: per agent, a configuration or None
    desired,    \* desiredWarmSignature: per agent, a configuration or None
    inflight,   \* pendingByAgent: per agent, a boot or None
    boot,       \* per boot: its await and its locals
    dirs,       \* the warm directories on the host
    shutting    \* shuttingDown

warmVars == <<warm, slots, desired, inflight, boot, dirs, shutting>>

BootPcs == {"free", "reserve", "reap", "refused", "boot", "insert", "discard",
            "release", "done"}

WarmTypeOK ==
    /\ warm \in [Agents -> Containers \cup {None}]
    /\ slots \in [Agents -> Configs \cup {None}]
    /\ desired \in [Agents -> Configs \cup {None}]
    /\ inflight \in [Agents -> Boots \cup {None}]
    /\ boot \in [Boots -> [pc : BootPcs, cfg : Configs \cup {None},
                           dir : Mounts \cup {None},
                           own : Containers \cup {None},
                           evicted : Containers \cup {None}]]
    /\ dirs \subseteq Mounts
    /\ shutting \in BOOLEAN

WarmInit ==
    /\ warm = [a \in Agents |-> None]
    /\ slots = [a \in Agents |-> None]
    /\ desired = [a \in Agents |-> None]
    /\ inflight = [a \in Agents |-> None]
    /\ boot = [b \in Boots |-> [pc |-> "free", cfg |-> None, dir |-> None,
                                own |-> None, evicted |-> None]]
    /\ dirs = {}
    /\ shutting = FALSE

----------------------------------------------------------------------------

AgentOf(c) == config[c][1]

(* The agents with an entry in a map of the pool.                           *)
Keys(f) == {a \in DOMAIN f : f[a] # None}

WarmWith(w, cfg) == w[cfg[1]] # None /\ config[w[cfg[1]]] = cfg

(* warmForAgent up to its first await, with the bucket w: a no-op for a     *)
(* container that is there or, once the wish is recorded, is booting.  m is *)
(* the directory of the spawn options; None draws a fresh one.              *)
WarmForAgent(w, cfg, m) ==
    IF shutting \/ MaxWarm = 0 \/ WarmWith(w, cfg)
    THEN UNCHANGED <<desired, boot>>
    ELSE /\ desired' = [desired EXCEPT ![cfg[1]] = cfg]
         /\ LET i    == inflight[cfg[1]]
                free == {b \in Boots : boot[b].pc = "free"}
            IN IF free = {} \/ (i # None /\ boot[i].cfg = cfg)
               THEN UNCHANGED boot
               ELSE \E b \in free :
                      boot' = [boot EXCEPT ![b].pc = "reserve", ![b].cfg = cfg,
                                           ![b].dir = IF m = None THEN b ELSE m]

(* reserveWarmSlot has nothing to do.                                       *)
ReserveSkip(b) ==
    /\ boot[b].pc = "reserve"
    /\ \/ shutting
       \/ WarmWith(warm, boot[b].cfg)
       \/ slots[boot[b].cfg[1]] = boot[b].cfg
    /\ boot' = [boot EXCEPT ![b].pc = "done"]
    /\ UNCHANGED <<runtime, warm, slots, desired, inflight, dirs, shutting>>

(* Mutant: only the entries count, not the slots of the boots under way.    *)
SlotFree_EntriesOnly(w) == Cardinality(Keys(w)) < MaxWarm

SlotFree(w) == Cardinality(Keys(w)) + Cardinality(Keys(slots)) < MaxWarm

(* reserveWarmSlot: a stale entry leaves the bucket, and if that makes no   *)
(* room another agent's entry (the code takes the oldest) leaves it, or the *)
(* boot is refused.  Then the stale container is stopped.                   *)
ReserveSlot(b) ==
    LET cfg   == boot[b].cfg
        stale == warm[cfg[1]]
        w     == [warm EXCEPT ![cfg[1]] = None]
        Go(l, e) == boot' = [boot EXCEPT ![b].pc = l, ![b].own = stale, ![b].evicted = e]
    IN /\ boot[b].pc = "reserve"
       /\ ~shutting /\ ~WarmWith(warm, cfg) /\ slots[cfg[1]] # cfg
       /\ \/ /\ SlotFree(w)
             /\ warm' = w /\ Go("reap", None)
             /\ slots' = [slots EXCEPT ![cfg[1]] = cfg]
          \/ \E a \in Keys(w) :
                /\ ~SlotFree(w)
                /\ warm' = [w EXCEPT ![a] = None] /\ Go("reap", w[a])
                /\ slots' = [slots EXCEPT ![cfg[1]] = cfg]
          \/ /\ ~SlotFree(w) /\ Keys(w) = {}
             /\ warm' = w /\ Go("refused", None)
             /\ UNCHANGED slots
       /\ IF stale = None THEN UNCHANGED runtime ELSE Stop(stale)
       /\ UNCHANGED <<desired, inflight, dirs, shutting>>

(* Mutant: the entry stays in the bucket while its container is stopped.    *)
ReapWarmEntry_Keeps(c) == Stop(c) /\ UNCHANGED warm

(* reapWarmEntry: whatever the agent has in the bucket by now is forgotten, *)
(* the given container is stopped.                                          *)
ReapWarmEntry(c) ==
    /\ warm' = [warm EXCEPT ![AgentOf(c)] = None]
    /\ Stop(c)

ReapEvicted(b) ==
    /\ boot[b].pc = "reap" /\ Gone(boot[b].own) /\ boot[b].evicted # None
    /\ ReapWarmEntry(boot[b].evicted)
    /\ boot' = [boot EXCEPT ![b].own = boot[b].evicted, ![b].evicted = None]
    /\ UNCHANGED <<slots, desired, inflight, dirs, shutting>>

Refused(b) ==
    /\ boot[b].pc = "refused" /\ Gone(boot[b].own)
    /\ boot' = [boot EXCEPT ![b].pc = "done"]
    /\ UNCHANGED <<runtime, warm, slots, desired, inflight, dirs, shutting>>

(* doWarmForAgent: spawn, unless nobody wants this configuration any more;  *)
(* the spawn may fail.  Docker makes the directory if it is not there.      *)
BootStart(b) ==
    LET a == boot[b].cfg[1]
    IN /\ boot[b].pc = "reap" /\ Gone(boot[b].own) /\ boot[b].evicted = None
       /\ inflight' = [inflight EXCEPT ![a] = b]
       /\ \/ /\ ~shutting /\ desired[a] = boot[b].cfg
             /\ \E c \in Containers :
                   /\ Spawn(c, boot[b].cfg, boot[b].dir)
                   /\ boot' = [boot EXCEPT ![b].pc = "boot", ![b].own = c]
             /\ dirs' = dirs \cup {boot[b].dir}
          \/ /\ boot' = [boot EXCEPT ![b].pc = "release"]
             /\ UNCHANGED <<runtime, dirs>>
       /\ UNCHANGED <<warm, slots, desired, shutting>>

BootReady(b) ==
    /\ boot[b].pc = "boot"
    /\ boot' = [boot EXCEPT ![b].pc = "insert"]
    /\ UNCHANGED <<runtime, warm, slots, desired, inflight, dirs, shutting>>

Discard(b) ==
    /\ Stop(boot[b].own)
    /\ boot' = [boot EXCEPT ![b].pc = "discard"]
    /\ UNCHANGED <<warm, slots, desired, inflight, dirs, shutting>>

BootFail(b) == boot[b].pc = "boot" /\ Discard(b)

(* Mutant: the bucket is keyed by the configuration.                        *)
Insert_ByConfig(b) ==
    LET cfg    == boot[b].cfg
        wanted == ~shutting /\ desired[cfg[1]] = cfg /\ ~WarmWith(warm, cfg)
    IN /\ boot[b].pc = "insert"
       /\ \/ /\ wanted
             /\ warm' = [x \in Agents \cup {cfg} |-> IF x = cfg THEN boot[b].own ELSE warm[x]]
             /\ boot' = [boot EXCEPT ![b].pc = "release"]
             /\ UNCHANGED <<runtime, slots, desired, inflight, dirs, shutting>>
          \/ ~wanted /\ Discard(b)

(* The container enters the bucket if it is still wanted and no other one   *)
(* with its configuration is there.                                         *)
Insert(b) ==
    LET a      == boot[b].cfg[1]
        wanted == ~shutting /\ desired[a] = boot[b].cfg /\ ~WarmWith(warm, boot[b].cfg)
    IN /\ boot[b].pc = "insert"
       /\ \/ /\ wanted
             /\ warm' = [warm EXCEPT ![a] = boot[b].own]
             /\ boot' = [boot EXCEPT ![b].pc = "release"]
             /\ UNCHANGED <<runtime, slots, desired, inflight, dirs, shutting>>
          \/ ~wanted /\ Discard(b)

Discarded(b) ==
    /\ boot[b].pc = "discard" /\ Gone(boot[b].own)
    /\ boot' = [boot EXCEPT ![b].pc = "release"]
    /\ UNCHANGED <<runtime, warm, slots, desired, inflight, dirs, shutting>>

(* Mutant: the reservation of a boot that fails is kept.                    *)
Release_KeepsSlot(b) ==
    /\ boot[b].pc = "release"
    /\ boot' = [boot EXCEPT ![b].pc = "done"]
    /\ UNCHANGED <<runtime, warm, slots, inflight, desired, dirs, shutting>>

(* releaseWarmReservation, and the finally clause of warmForAgent.          *)
Release(b) ==
    LET cfg == boot[b].cfg
        a   == cfg[1]
    IN /\ boot[b].pc = "release"
       /\ slots' = [slots EXCEPT ![a] = IF slots[a] = cfg THEN None ELSE slots[a]]
       /\ inflight' = [inflight EXCEPT ![a] =
             IF inflight[a] # None /\ boot[inflight[a]].cfg = cfg THEN None ELSE inflight[a]]
       /\ boot' = [boot EXCEPT ![b].pc = "done"]
       /\ UNCHANGED <<runtime, warm, desired, dirs, shutting>>

(* dropWarmForAgent: on update, archive and delete of the agent.            *)
DropWarm(a) ==
    /\ desired' = [desired EXCEPT ![a] = None]
    /\ IF warm[a] = None THEN UNCHANGED <<warm, runtime>> ELSE ReapWarmEntry(warm[a])

BootStep(b) ==
    \/ ReserveSkip(b) \/ ReserveSlot(b) \/ ReapEvicted(b) \/ Refused(b)
    \/ BootStart(b) \/ BootReady(b) \/ BootFail(b) \/ Insert(b)
    \/ Discarded(b) \/ Release(b)
=============================================================================
