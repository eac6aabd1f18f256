---------------------------- MODULE ContainerPool ----------------------------
(***************************************************************************)
(* SessionContainerPool (src/runtime/pool.ts): the containers of sessions,  *)
(* over the warm bucket of WarmPool.  Everything between two awaits is one  *)
(* step.  pc names the await a call of acquireForSession is suspended in:   *)
(*                                                                          *)
(*   probe     the liveness probe of the session's container                *)
(*   evict     the stop of the container it found unfit                     *)
(*   joined    the acquisition of the same session that is under way        *)
(*   admit     the admission lock, which is first come first served         *)
(*   pressure  holding the lock, the stop of the victim                     *)
(*   claim     about to look at the warm bucket                             *)
(*   wprobe    the liveness probe of the warm container                     *)
(*   stale     the stop of a warm container of another configuration        *)
(*   spoilt    the stop of a warm container that it could not take over     *)
(*   spawn     runtime.spawn                                                *)
(*   boot      readiness and the gateway handshake                          *)
(*   bootfail  the stop of its own container                                *)
(*   settle    the finally clauses                                          *)
(*                                                                          *)
(* The callers are the router (a run of a session is busy from before its   *)
(* acquisition to its end), the agent routes, the sweeper's timer and the   *)
(* signal handler.                                                          *)
(***************************************************************************)
EXTENDS WarmPool, Sequences

CONSTANTS
    Sessions,
    Calls,       \* bound: the acquisitions
    AgentOfSession,
    Bypass,      \* sessions whose boot options are their own
    Ephemeral,   \* sessions the sweeper may reap (shouldReapSession)
    MaxActive,   \* maxActiveContainers, 0 for no limit
    MaxPatches,  \* bound: agent updates
    PoolOps      \* bound: what the environment does besides runs

ASSUME PoolAssumption ==
    /\ IsFiniteSet(Sessions)
    /\ MaxActive \in Nat /\ MaxPatches \in Nat
    /\ AgentOfSession \in [Sessions -> Agents]
    /\ Bypass \subseteq Sessions /\ Ephemeral \subseteq Sessions
    /\ None \notin Sessions \cup Calls \cup Agents \cup Boots
    /\ PoolOps \subseteq {"warm", "patch", "drop", "cancel", "evict", "sweep",
                          "reapwarm", "shutdown"}

VARIABLES
    active,     \* per session: its container or None
    pending,    \* per session: the call that acquires for it, or None
    reserved,   \* activeReservations
    lockq,      \* the calls that hold (the head) or await the admission lock
    pc,         \* per call: the await it is suspended in
    sess,       \* per call: its session
    call,       \* per call: its other locals
    busy,       \* the sessions with a run in flight (isBusy)
    housed,     \* the sessions with a directory of their own on the host
    rows,       \* the sessions of the store
    template,   \* per agent: the version of its boot options
    patches,
    sweep,      \* the sweeper: phase, snapshot entries left, container it stops
    closing     \* shutdown: its phase and the promises it waits for

sessionVars == <<active, pending, reserved, lockq, pc, sess, call, busy, housed>>
poolVars == <<runtime, warmVars, sessionVars, rows, template, patches, sweep, closing>>
(* What no step of a call of acquireForSession writes.                      *)
others == <<busy, rows, template, patches, closing>>

CallPcs == {"free", "probe", "probe2", "evict", "evict2", "joined", "admit", "pressure",
            "claim", "wprobe", "stale", "spoilt", "spawn", "boot", "bootfail",
            "settle", "ok", "failed"}

TypeOK ==
    /\ RuntimeTypeOK /\ WarmTypeOK
    /\ active \in [Sessions -> Containers \cup {None}]
    /\ pending \in [Sessions -> Calls \cup {None}]
    /\ reserved \subseteq Sessions
    /\ lockq \in Seq(Calls)
    /\ pc \in [Calls -> CallPcs]
    /\ sess \in [Calls -> Sessions \cup {None}]
    /\ call \in [Calls -> [cfg : Configs \cup {None}, own : Containers \cup {None},
                           on : Calls \cup {None}, won : BOOLEAN]]
    /\ busy \subseteq Sessions /\ housed \subseteq Sessions /\ rows \subseteq Sessions
    /\ template \in [Agents -> Versions]
    /\ patches \in 0..MaxPatches
    /\ sweep \in [phase : {"off", "active", "warm"},
                  todo : SUBSET ((Sessions \cup Agents) \X Containers),
                  own : Containers \cup {None}, of : Sessions \cup {None}]
    /\ closing \in [phase : {"off", "waiting", "stopping", "exit"}, calls : SUBSET Calls,
                    boots : SUBSET Boots]

Init ==
    /\ RuntimeInit /\ WarmInit
    /\ active = [s \in Sessions |-> None]
    /\ pending = [s \in Sessions |-> None]
    /\ reserved = {} /\ lockq = <<>>
    /\ pc = [k \in Calls |-> "free"]
    /\ sess = [k \in Calls |-> None]
    /\ call = [k \in Calls |-> [cfg |-> None, own |-> None, on |-> None, won |-> FALSE]]
    /\ busy = {} /\ housed = {} /\ rows = Sessions
    /\ template \in [Agents -> Versions]
    /\ patches = 0
    /\ sweep = [phase |-> "off", todo |-> {}, own |-> None, of |-> None]
    /\ closing = [phase |-> "off", calls |-> {}, boots |-> {}]

----------------------------------------------------------------------------

Underway(k) == pc[k] \notin {"free", "ok", "failed"}

(* Suspend call k at an await, with container c or the one it has.          *)
Await(k, l) == pc' = [pc EXCEPT ![k] = l] /\ UNCHANGED <<sess, call>>
AwaitWith(k, l, c) ==
    /\ pc' = [pc EXCEPT ![k] = l]
    /\ call' = [call EXCEPT ![k].own = c]
    /\ UNCHANGED sess

Won(k) ==
    /\ pc' = [pc EXCEPT ![k] = "settle"]
    /\ call' = [call EXCEPT ![k].won = TRUE]
    /\ UNCHANGED sess

(* Mutant: the entry stays in the map while its container is stopped.       *)
EvictSession_Keeps(s) == Stop(active[s]) /\ UNCHANGED active

(* evictSession up to its first await.                                      *)
EvictSession(s) ==
    /\ active' = [active EXCEPT ![s] = None]
    /\ Stop(active[s])

(* The tail of acquireForSession: join the acquisition under way for the    *)
(* session or, as its owner, ask for admission.  r are the locals of call k.*)
JoinOrAdmit(k, s, r) ==
    IF pending[s] # None
    THEN /\ pc' = [pc EXCEPT ![k] = "joined"]
         /\ call' = [call EXCEPT ![k] = [r EXCEPT !.on = pending[s]]]
         /\ UNCHANGED <<pending, lockq>>
    ELSE /\ pending' = [pending EXCEPT ![s] = k]
         /\ call' = [call EXCEPT ![k] = r]
         /\ pc' = [pc EXCEPT ![k] = IF MaxActive = 0 THEN "claim" ELSE "admit"]
         /\ lockq' = IF MaxActive = 0 THEN lockq ELSE Append(lockq, k)

(* acquireForSession, called for a run that has just become busy or tries   *)
(* again: look for the session's container.                                 *)
Acquire(k, s) ==
    LET a == AgentOfSession[s]
        r == [call[k] EXCEPT !.cfg = <<a, template[a]>>, !.own = active[s]]
    IN /\ pc[k] = "free" /\ ~shutting /\ s \in rows
       /\ s \in busy => \A j \in Calls : sess[j] = s => ~Underway(j)
       /\ busy' = busy \cup {s}
       /\ sess' = [sess EXCEPT ![k] = s]
       /\ \/ /\ active[s] = None
             /\ JoinOrAdmit(k, s, r)
             /\ UNCHANGED <<active, runtime>>
          \/ /\ active[s] # None /\ config[active[s]] # r.cfg
             /\ EvictSession(s)
             /\ pc' = [pc EXCEPT ![k] = "evict"] /\ call' = [call EXCEPT ![k] = r]
             /\ UNCHANGED <<pending, lockq>>
          \/ /\ active[s] # None /\ config[active[s]] = r.cfg
             /\ pc' = [pc EXCEPT ![k] = "probe"] /\ call' = [call EXCEPT ![k] = r]
             /\ UNCHANGED <<active, runtime, pending, lockq>>
       /\ UNCHANGED <<warmVars, reserved, housed, rows, template, patches, sweep, closing>>

(* The container answers: it is handed out, as used just now.               *)
ProbeOk(k) ==
    LET c == call[k].own IN
    /\ pc[k] \in {"probe", "probe2"} /\ ctr[c] # "gone"
    /\ Await(k, "ok")
    /\ sweep' = [sweep EXCEPT !.todo = @ \ {<<sess[k], c>>}]
    /\ UNCHANGED <<runtime, warmVars, active, pending, reserved, lockq, housed, others>>

(* It does not: whatever the session has by now is evicted.                 *)
ProbeFail(k) ==
    LET s == sess[k] IN
    /\ pc[k] \in {"probe", "probe2"}
    /\ AwaitWith(k, IF pc[k] = "probe" THEN "evict" ELSE "evict2", active[s])
    /\ IF active[s] = None THEN UNCHANGED <<active, runtime>> ELSE EvictSession(s)
    /\ UNCHANGED <<warmVars, pending, reserved, lockq, housed, sweep, others>>

(* A container that came up meanwhile is probed too, once.                  *)
Recheck(k) ==
    LET s == sess[k] IN
    /\ pc[k] \in {"evict", "evict2"} /\ Gone(call[k].own)
    /\ IF pc[k] = "evict" /\ active[s] # None
       THEN AwaitWith(k, "probe2", active[s]) /\ UNCHANGED <<pending, lockq>>
       ELSE JoinOrAdmit(k, s, [call[k] EXCEPT !.own = None]) /\ UNCHANGED sess
    /\ UNCHANGED <<runtime, warmVars, active, reserved, housed, sweep, others>>

(* A joined call ends the way the one it joined does.                       *)
Joined(k) ==
    /\ pc[k] = "joined" /\ ~Underway(call[k].on)
    /\ AwaitWith(k, pc[call[k].on], call[call[k].on].own)
    /\ UNCHANGED <<runtime, warmVars, active, pending, reserved, lockq, housed, sweep, others>>

----------------------------------------------------------------------------
(* reserveActiveSlot, under the admission lock.                             *)

Entries == {s \in Sessions : active[s] # None}

(* Mutant: reservations of boots under way do not count.                    *)
CountWithReservations_Entries(s) == Cardinality(Entries)

(* activeCountWithReservations                                              *)
CountWithReservations(s) == Cardinality(Entries) + Cardinality(reserved \ {s})

(* isBusy reads the status in the session's row, if there still is one.     *)
IsBusy(s) == s \in rows \cap busy

(* pickCapacityVictim; the code takes the least recently used of them.      *)
Victims(s) == {v \in Entries : v # s /\ ~IsBusy(v)}

HoldsLock(k) == lockq # <<>> /\ Head(lockq) = k

(* The loop looks again after a victim's stop.                              *)
MayPass(k) ==
    /\ HoldsLock(k) /\ pc[k] \in {"admit", "pressure"} /\ Gone(call[k].own)

AlreadyIn(k) == pc[k] = "admit" /\ sess[k] \in reserved \cup Entries

Admit(k) ==
    LET s == sess[k] IN
    /\ MayPass(k)
    /\ \/ AlreadyIn(k) /\ UNCHANGED reserved
       \/ /\ ~AlreadyIn(k) /\ CountWithReservations(s) < MaxActive
          /\ reserved' = reserved \cup {s}
    /\ lockq' = Tail(lockq)
    /\ AwaitWith(k, "claim", None)
    /\ UNCHANGED <<runtime, warmVars, active, pending, housed, sweep, others>>

AdmitEvict(k) ==
    LET s == sess[k] IN
    /\ MayPass(k) /\ ~AlreadyIn(k) /\ CountWithReservations(s) >= MaxActive
    /\ \E v \in Victims(s) :
         EvictSession(v) /\ AwaitWith(k, "pressure", active[v])
    /\ UNCHANGED <<warmVars, pending, reserved, lockq, housed, sweep, others>>

(* Mutant: the error leaves the admission lock taken.                       *)
AdmitRefuse_KeepsLock(k) ==
    LET s == sess[k] IN
    /\ MayPass(k) /\ ~AlreadyIn(k) /\ CountWithReservations(s) >= MaxActive
    /\ Victims(s) = {}
    /\ AwaitWith(k, "settle", None)
    /\ UNCHANGED <<runtime, warmVars, active, pending, reserved, lockq, housed, sweep, others>>

(* PoolCapacityError                                                        *)
AdmitRefuse(k) ==
    LET s == sess[k] IN
    /\ MayPass(k) /\ ~AlreadyIn(k) /\ CountWithReservations(s) >= MaxActive
    /\ Victims(s) = {}
    /\ lockq' = Tail(lockq)
    /\ AwaitWith(k, "settle", None)
    /\ UNCHANGED <<runtime, warmVars, active, pending, reserved, housed, sweep, others>>

----------------------------------------------------------------------------
(* acquireFresh: the warm bucket, else a container of its own.              *)

Claim(k) ==
    LET a == call[k].cfg[1]
        c == warm[a]
    IN /\ pc[k] = "claim"
       /\ \/ /\ sess[k] \in Bypass \/ c = None
             /\ Await(k, "spawn") /\ UNCHANGED <<warm, runtime>>
          \/ /\ sess[k] \notin Bypass /\ c # None /\ config[c] # call[k].cfg
             /\ warm' = [warm EXCEPT ![a] = None]
             /\ Stop(c) /\ AwaitWith(k, "stale", c)
          \/ /\ sess[k] \notin Bypass /\ c # None /\ config[c] = call[k].cfg
             /\ AwaitWith(k, "wprobe", c) /\ UNCHANGED <<warm, runtime>>
       /\ UNCHANGED <<slots, desired, inflight, boot, dirs, shutting,
                      active, pending, reserved, lockq, housed, sweep, others>>

WarmProbeFail(k) ==
    /\ pc[k] = "wprobe"
    /\ ReapWarmEntry(call[k].own)
    /\ Await(k, "spoilt")
    /\ UNCHANGED <<slots, desired, inflight, boot, dirs, shutting,
                   active, pending, reserved, lockq, housed, sweep, others>>

(* renameWorkspaceOnClaim: the warm directory must still be there, and the  *)
(* session must not have one of its own yet.  Nothing is renamed for a      *)
(* session whose row is gone.                                               *)
CanRename(c, s) == s \in rows => mount[c] \in dirs /\ s \notin housed

Rename(c, s) ==
    /\ dirs' = IF s \in rows THEN dirs \ {mount[c]} ELSE dirs
    /\ housed' = IF s \in rows THEN housed \cup {s} ELSE housed

(* The warm container becomes the session's and a new one is ordered, with  *)
(* the same spawn options.                                                  *)
WarmClaim(k) ==
    LET c == call[k].own
        s == sess[k]
        w == [warm EXCEPT ![call[k].cfg[1]] = None]
    IN /\ pc[k] = "wprobe" /\ ctr[c] # "gone" /\ CanRename(c, s)
       /\ warm' = w
       /\ Rename(c, s)
       /\ active' = [active EXCEPT ![s] = c]
       /\ WarmForAgent(w, config[c], mount[c])
       /\ Won(k)
       /\ UNCHANGED <<runtime, slots, inflight, shutting, pending, reserved, lockq,
                      sweep, others>>

WarmSpoilt(k) ==
    LET c == call[k].own IN
    /\ pc[k] = "wprobe" /\ ctr[c] # "gone" /\ ~CanRename(c, sess[k])
    /\ warm' = [warm EXCEPT ![call[k].cfg[1]] = None]
    /\ Stop(c) /\ Await(k, "spoilt")
    /\ UNCHANGED <<slots, desired, inflight, boot, dirs, shutting,
                   active, pending, reserved, lockq, housed, sweep, others>>

(* After the stop: order a new warm container, and spawn one.               *)
ClaimFailed(k) ==
    LET c == call[k].own IN
    /\ pc[k] \in {"stale", "spoilt"} /\ Gone(c)
    /\ IF pc[k] = "spoilt"
       THEN WarmForAgent(warm, config[c], mount[c])
       ELSE UNCHANGED <<desired, boot>>
    /\ AwaitWith(k, "spawn", None)
    /\ UNCHANGED <<runtime, warm, slots, inflight, dirs, shutting,
                   active, pending, reserved, lockq, housed, sweep, others>>

SpawnOk(k) ==
    /\ pc[k] = "spawn"
    /\ \E c \in Containers : Spawn(c, call[k].cfg, None) /\ AwaitWith(k, "boot", c)
    /\ housed' = housed \cup {sess[k]}
    /\ UNCHANGED <<warmVars, active, pending, reserved, lockq, sweep, others>>

SpawnFail(k) ==
    /\ pc[k] = "spawn"
    /\ AwaitWith(k, "settle", None)
    /\ UNCHANGED <<runtime, warmVars, active, pending, reserved, lockq, housed, sweep, others>>

BootOk(k) ==
    /\ pc[k] = "boot"
    /\ active' = [active EXCEPT ![sess[k]] = call[k].own]
    /\ Won(k)
    /\ UNCHANGED <<runtime, warmVars, pending, reserved, lockq, housed, sweep, others>>

(* Mutant: a container that does not become ready is not stopped.           *)
BootStop_NoStop(k) ==
    /\ pc[k] = "boot"
    /\ AwaitWith(k, "settle", None)
    /\ UNCHANGED <<runtime, warmVars, active, pending, reserved, lockq, housed, sweep, others>>

BootStop(k) ==
    /\ pc[k] = "boot"
    /\ Stop(call[k].own) /\ Await(k, "bootfail")
    /\ UNCHANGED <<warmVars, active, pending, reserved, lockq, housed, sweep, others>>

BootFailed(k) ==
    /\ pc[k] = "bootfail" /\ Gone(call[k].own)
    /\ AwaitWith(k, "settle", None)
    /\ UNCHANGED <<runtime, warmVars, active, pending, reserved, lockq, housed, sweep, others>>

(* The two finally clauses: the reservation and the promise are dropped.    *)
Settle(k) ==
    /\ pc[k] = "settle"
    /\ reserved' = reserved \ {sess[k]}
    /\ pending' = [pending EXCEPT ![sess[k]] = None]
    /\ Await(k, IF call[k].won THEN "ok" ELSE "failed")
    /\ UNCHANGED <<runtime, warmVars, active, lockq, housed, sweep, others>>

CallStep(k) ==
    \/ ProbeOk(k) \/ ProbeFail(k) \/ Recheck(k) \/ Joined(k)
    \/ Admit(k) \/ AdmitEvict(k) \/ AdmitRefuse(k)
    \/ Claim(k) \/ WarmProbeFail(k) \/ WarmClaim(k) \/ WarmSpoilt(k) \/ ClaimFailed(k)
    \/ SpawnOk(k) \/ SpawnFail(k) \/ BootOk(k) \/ BootStop(k) \/ BootFailed(k)
    \/ Settle(k)

----------------------------------------------------------------------------
(* The router.                                                              *)

RunEnds(s) ==
    /\ s \in busy
    /\ "cancel" \in PoolOps \/ \A k \in Calls : sess[k] = s => ~Underway(k)
    /\ busy' = busy \ {s}
    /\ UNCHANGED <<runtime, warmVars, active, pending, reserved, lockq, pc, sess, call, housed,
                   rows, template, patches, sweep, closing>>

(* After a failed run, for stale credentials, or for DELETE.                *)
Evict(s) ==
    /\ "evict" \in PoolOps /\ active[s] # None
    /\ EvictSession(s)
    /\ UNCHANGED <<warmVars, pending, reserved, lockq, pc, sess, call, housed, sweep, others>>

Warm(a) ==
    /\ "warm" \in PoolOps
    /\ WarmForAgent(warm, <<a, template[a]>>, None)
    /\ UNCHANGED <<runtime, warm, slots, inflight, dirs, shutting, sessionVars, sweep,
                   rows, template, patches, closing>>

(* PATCH of an agent: drop its warm container, order one of the new version.*)
Patch(a) ==
    /\ "patch" \in PoolOps /\ patches < MaxPatches
    /\ patches' = patches + 1
    /\ \E v \in Versions \ {template[a]} :
         /\ template' = [template EXCEPT ![a] = v]
         /\ WarmForAgent([warm EXCEPT ![a] = None], <<a, v>>, None)
    /\ IF warm[a] = None THEN UNCHANGED <<warm, runtime>> ELSE ReapWarmEntry(warm[a])
    /\ UNCHANGED <<slots, inflight, dirs, shutting, sessionVars, sweep, rows, closing>>

(* Archive or delete of an agent.                                           *)
Drop(a) ==
    /\ "drop" \in PoolOps
    /\ DropWarm(a)
    /\ UNCHANGED <<slots, inflight, boot, dirs, shutting, sessionVars, sweep, rows,
                   template, patches, closing>>

----------------------------------------------------------------------------
(* reapIdle.  It works through a snapshot of the entries idle for too long, *)
(* and what it looks up again is only whether the session is busy.  Between *)
(* two stops it runs alone (see Next).                                      *)

SweepRunning == sweep.phase # "off" /\ sweep.own = None

sweepOthers == <<slots, desired, inflight, boot, dirs, shutting,
                 pending, reserved, lockq, pc, sess, call, housed, others>>

SweepStart ==
    /\ sweep.phase = "off" /\ ~shutting /\ PoolOps \cap {"sweep", "reapwarm"} # {}
    /\ \E old \in SUBSET (IF "sweep" \in PoolOps THEN Entries \cap Ephemeral ELSE {}) :
         sweep' = [sweep EXCEPT !.phase = "active", !.todo = {<<s, active[s]>> : s \in old}]
    /\ UNCHANGED <<runtime, warm, active, rows, sweepOthers>>

SweepReap(s) ==
    /\ sweep.phase = "active" /\ sweep.own = None
    /\ \E e \in sweep.todo :
         /\ e[1] = s
         /\ IF s \in rows \ busy
            THEN /\ active' = [active EXCEPT ![s] = None]
                 /\ Stop(e[2])
                 /\ sweep' = [sweep EXCEPT !.todo = @ \ {e}, !.own = e[2], !.of = s]
            ELSE /\ sweep' = [sweep EXCEPT !.todo = @ \ {e}]
                 /\ UNCHANGED <<active, runtime>>
    /\ UNCHANGED <<warm, sweepOthers>>

(* The stop is over: cleanupOnReap deletes the ephemeral session.           *)
SweepStopped ==
    /\ sweep.own # None /\ Gone(sweep.own)
    /\ rows' = rows \ {sweep.of}
    /\ sweep' = [sweep EXCEPT !.own = None, !.of = None]
    /\ UNCHANGED <<runtime, warm, active, slots, desired, inflight, boot, dirs, shutting,
                   pending, reserved, lockq, pc, sess, call, busy, housed, template, patches, closing>>

SweepWarmStart ==
    /\ sweep.phase = "active" /\ sweep.todo = {} /\ sweep.own = None
    /\ \E old \in SUBSET (IF "reapwarm" \in PoolOps THEN Keys(warm) ELSE {}) :
         sweep' = [sweep EXCEPT !.phase = "warm", !.todo = {<<a, warm[a]>> : a \in old}]
    /\ UNCHANGED <<runtime, warm, active, sweepOthers>>

SweepReapWarm(a) ==
    /\ sweep.phase = "warm" /\ sweep.own = None
    /\ \E e \in sweep.todo :
         /\ e[1] = a
         /\ ReapWarmEntry(e[2])
         /\ sweep' = [sweep EXCEPT !.todo = @ \ {e}, !.own = e[2]]
    /\ UNCHANGED <<active, sweepOthers>>

SweepEnd ==
    /\ sweep.phase = "warm" /\ sweep.todo = {} /\ sweep.own = None
    /\ sweep' = [sweep EXCEPT !.phase = "off"]
    /\ UNCHANGED <<runtime, warm, active, sweepOthers>>

SweepStep ==
    \/ SweepStart \/ SweepStopped \/ SweepWarmStart \/ SweepEnd
    \/ \E s \in Sessions : SweepReap(s)
    \/ \E a \in Agents : SweepReapWarm(a)

----------------------------------------------------------------------------
(* shutdown: wait for the boots under way now, stop what the maps hold,     *)
(* exit.  The HTTP server goes on meanwhile.                                *)

ShutdownStart ==
    /\ "shutdown" \in PoolOps /\ closing.phase = "off"
    /\ shutting' = TRUE
    /\ desired' = [a \in Agents |-> None]
    /\ closing' = [phase |-> "waiting",
                   calls |-> {pending[s] : s \in {t \in Sessions : pending[t] # None}},
                   boots |-> {inflight[a] : a \in Keys(inflight)}]
    /\ UNCHANGED <<runtime, warm, slots, inflight, boot, dirs, sessionVars, rows,
                   template, patches, sweep>>

ShutdownStop ==
    /\ closing.phase = "waiting"
    /\ \A k \in closing.calls : ~Underway(k)
    /\ \A b \in closing.boots : boot[b].pc = "done"
    /\ LET held == {active[s] : s \in Entries} \cup {warm[a] : a \in Keys(warm)}
       IN ctr' = [c \in Containers |->
                    IF c \in held /\ ctr[c] = "up" THEN "stopping" ELSE ctr[c]]
    /\ active' = [s \in Sessions |-> None]
    /\ warm' = [a \in Agents |-> None]
    /\ closing' = [closing EXCEPT !.phase = "stopping"]
    /\ UNCHANGED <<config, mount, slots, desired, inflight, boot, dirs, shutting, pending,
                   reserved, lockq, pc, sess, call, busy, housed, rows, template, patches, sweep>>

Exit ==
    /\ closing.phase = "stopping"
    /\ \A c \in Containers : ctr[c] # "stopping"
    /\ closing' = [closing EXCEPT !.phase = "exit"]
    /\ UNCHANGED <<runtime, warmVars, sessionVars, rows, template, patches, sweep>>

----------------------------------------------------------------------------

Docker(c) ==
    /\ StopEnds(c)
    /\ UNCHANGED <<warmVars, sessionVars, rows, template, patches, sweep, closing>>

BootAlone(b) ==
    /\ BootStep(b)
    /\ UNCHANGED <<sessionVars, rows, template, patches, sweep, closing>>

CallSteps(k) == CallStep(k) \/ \E s \in Sessions : Acquire(k, s)

RouterStep ==
    \/ \E s \in Sessions : RunEnds(s) \/ Evict(s)
    \/ \E a \in Agents : Warm(a) \/ Patch(a) \/ Drop(a)

Next ==
    /\ closing.phase # "exit"
    /\ \/ SweepStep
       \/ /\ ~SweepRunning
          /\ \/ \E k \in Calls : CallSteps(k)
             \/ \E b \in Boots : BootAlone(b)
             \/ \E c \in Containers : Docker(c)
             \/ RouterStep \/ ShutdownStart \/ ShutdownStop \/ Exit

Spec == Init /\ [][Next]_poolVars

(* An await of Docker or of a gateway ends, well or not: each has a timeout *)
(* or an error path.                                                        *)
Fairness ==
    /\ \A k \in Calls : WF_poolVars(CallStep(k))
    /\ \A c \in Containers : WF_poolVars(Docker(c))
    /\ WF_poolVars(SweepStep)

FairSpec == Spec /\ Fairness

----------------------------------------------------------------------------
(* Properties.                                                              *)

(* The sessions that have a container, or are promised one by the admission *)
(* lock, are never more than maxActiveContainers, whatever runs, evictions  *)
(* and sweeps go on while an acquisition is suspended in a boot or a stop.  *)
CapacityRespected ==
    MaxActive > 0 => Cardinality(Entries \cup reserved) <= MaxActive

(* Nobody stops the container of a session that keeps it: of what the map   *)
(* active holds, nothing is stopping or gone.                               *)
ActiveAlive == \A s \in Entries : ctr[active[s]] = "up"

(* Two sessions never have one container: sessions of an agent have         *)
(* separate workspaces and run in parallel.                                 *)
SessionsApart == \A s, t \in Entries : active[s] = active[t] => s = t

(* A warm container the bucket offers is up: whoever stops one, a claim     *)
(* that fails, a boot that replaces it, the sweeper, took it out before.    *)
WarmAlive == \A a \in Keys(warm) : ctr[warm[a]] = "up"

(* A slot, and a promise to share, always belong to a boot that is still    *)
(* under way: no warm slot is lost, and no warmForAgent waits for a boot    *)
(* that is over, however boots of two versions overtake each other.         *)
SlotOwned ==
    /\ \A a \in Keys(slots) : \E b \in Boots :
         boot[b].cfg = slots[a] /\ boot[b].pc \notin {"free", "reserve", "refused", "done"}
    /\ \A a \in Keys(inflight) : boot[inflight[a]].pc \notin {"free", "done"}

(* Every container that is up is held by a session, by the warm bucket or   *)
(* by a step under way that will hand it on or stop it: none is forgotten.  *)
Held ==
    {active[s] : s \in Sessions} \cup {warm[a] : a \in Agents}
        \cup {call[k].own : k \in {j \in Calls : Underway(j)}}
        \cup {boot[b].own : b \in {j \in Boots : boot[j].pc \in {"boot", "insert", "discard"}}}
        \cup {boot[b].evicted : b \in Boots}
        \cup {e[2] : e \in sweep.todo}

NoLeak == \A c \in Containers : ctr[c] = "up" => c \in Held

(* As long as no agent has been updated, the warm bucket never holds more   *)
(* than maxWarmContainers, however many boots are between their reservation *)
(* and their entry.                                                         *)
WarmBounded == patches = 0 => Cardinality(Keys(warm)) <= MaxWarm

(* The comment on maxWarmContainers promises the cap without that proviso   *)
(* (pool.ts:56).  The code does not keep it: see PoolWarmCap.cfg.           *)
WarmCapKept == Cardinality(Keys(warm)) <= MaxWarm

(* The cap's account is true: entries stay within it, and what is reserved  *)
(* is being booted.                                                         *)
WarmInv == TypeOK /\ WarmBounded /\ SlotOwned

(* The sweeper does not delete a session whose run is in flight.            *)
RunKeepsRow == busy \subseteq rows

(* When the process exits after a shutdown, no container is left running.   *)
ShutdownStopsAll == closing.phase = "exit" => \A c \in Containers : ctr[c] # "up"

(* Every acquisition ends: with the session's lock queue, the joined calls  *)
(* and the victims' stops, nobody waits for ever.                           *)
AcquireEnds == \A k \in Calls : Underway(k) ~> ~Underway(k)
=============================================================================
