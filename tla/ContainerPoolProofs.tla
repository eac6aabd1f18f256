------------------------ MODULE ContainerPoolProofs ------------------------
(***************************************************************************)
(* ContainerPool, for any number of sessions, agents, versions, boots,     *)
(* calls and containers and any cap.  First the warm bucket, with all      *)
(* operations: types, slots that belong to boots under way, entries that   *)
(* are up, and the cap as long as no agent is updated.  Then the           *)
(* containers of sessions: the cap is kept as long as no run is cancelled  *)
(* during its acquisition, that is, as long as two acquisitions for one    *)
(* session never overlap.  In a deployment without warm containers         *)
(* (MaxWarm = 0) those of sessions are up and nobody shares one, with all  *)
(* operations; none is forgotten as long as no run is cancelled and the    *)
(* sweeper does not reap.                                                  *)
(***************************************************************************)
EXTENDS ContainerPool, FiniteSetTheorems, TLAPS

(* TypeOK by groups of variables that are written together.                 *)
MapTypes ==
    /\ active \in [Sessions -> Containers \cup {None}]
    /\ pending \in [Sessions -> Calls \cup {None}]
    /\ reserved \subseteq Sessions
    /\ lockq \in Seq(Calls)
    /\ housed \subseteq Sessions

CallTypes ==
    /\ pc \in [Calls -> CallPcs]
    /\ sess \in [Calls -> Sessions \cup {None}]
    /\ call \in [Calls -> [cfg : Configs \cup {None}, own : Containers \cup {None},
                           on : Calls \cup {None}, won : BOOLEAN]]

StoreTypes ==
    /\ busy \subseteq Sessions /\ rows \subseteq Sessions
    /\ template \in [Agents -> Versions] /\ patches \in 0..MaxPatches

SweepTypes ==
    sweep \in [phase : {"off", "active", "warm"},
               todo : SUBSET ((Sessions \cup Agents) \X Containers),
               own : Containers \cup {None}, of : Sessions \cup {None}]

ClosingTypes ==
    closing \in [phase : {"off", "waiting", "stopping", "exit"}, calls : SUBSET Calls,
                 boots : SUBSET Boots]

(* What a call knows from its start: its session and its configuration; the *)
(* call it has joined; the warm container it looks at, which was started    *)
(* with that configuration.                                                 *)
CallsMade ==
    \A k \in Calls : pc[k] # "free" => sess[k] \in Sessions /\ call[k].cfg \in Configs

JoinsOne == \A k \in Calls : pc[k] = "joined" => call[k].on \in Calls

Started(c) == c \in Containers /\ ctr[c] # "unused"

Looks == {"wprobe", "spoilt"}

ClaimFits ==
    \A k \in Calls : pc[k] \in Looks =>
        Started(call[k].own) /\ config[call[k].own] = call[k].cfg

BootsMade ==
    \A b \in Boots : boot[b].pc # "free" => boot[b].cfg \in Configs /\ boot[b].dir \in Mounts

(* A warm container has been started for the agent it is kept for.          *)
EntriesFit ==
    \A a \in Keys(warm) :
        /\ Started(warm[a])
        /\ config[warm[a]] \in Configs /\ AgentOf(warm[a]) = a

(* A boot raises a container of its configuration.                          *)
Raising == {b \in Boots : boot[b].pc \in {"boot", "insert"}}

RaisesOne ==
    \A b \in Raising : Started(boot[b].own) /\ config[boot[b].own] = boot[b].cfg

Typed ==
    /\ RuntimeTypeOK /\ WarmTypeOK /\ MapTypes /\ CallTypes /\ StoreTypes
    /\ SweepTypes /\ ClosingTypes

Made == CallsMade /\ JoinsOne /\ ClaimFits /\ BootsMade /\ EntriesFit /\ RaisesOne

TypeInv == Typed /\ Made

(* The groups are TypeOK.                                                   *)
LEMMA TypedIsTypeOK == Typed <=> TypeOK
  BY DEF Typed, TypeOK, MapTypes, CallTypes, StoreTypes, SweepTypes, ClosingTypes

----------------------------------------------------------------------------
(* What the runtime does to its containers.                                 *)

(* A container that has been started keeps its configuration and is never   *)
(* unused again.                                                            *)
Keeps == \A c \in Containers :
    ctr[c] # "unused" => ctr'[c] # "unused" /\ config'[c] = config[c] /\ mount'[c] = mount[c]

(* A stop, and the end of one.                                              *)
LEMMA StopKeeps ==
    ASSUME RuntimeTypeOK, NEW c, Stop(c)
    PROVE  RuntimeTypeOK' /\ Keeps /\ config' = config
  BY DEF RuntimeTypeOK, Stop, Keeps

LEMMA StopEndsKeeps ==
    ASSUME RuntimeTypeOK, NEW c, StopEnds(c)
    PROVE  RuntimeTypeOK' /\ Keeps /\ config' = config
  BY DEF RuntimeTypeOK, StopEnds, Keeps

(* Of a step that leaves the containers alone.                              *)
LEMMA IdleKeeps ==
    ASSUME RuntimeTypeOK, UNCHANGED runtime PROVE RuntimeTypeOK' /\ Keeps /\ config' = config
  BY DEF RuntimeTypeOK, runtime, Keeps

(* A start.                                                                 *)
LEMMA SpawnKeeps ==
    ASSUME RuntimeTypeOK, NEW c \in Containers, NEW cfg \in Configs \cup {None},
           NEW m \in Mounts \cup {None}, Spawn(c, cfg, m)
    PROVE  /\ RuntimeTypeOK' /\ Keeps
           /\ ctr[c] = "unused" /\ ctr'[c] = "up" /\ config'[c] = cfg
           /\ \A d \in Containers : d # c => ctr'[d] = ctr[d]
  BY DEF RuntimeTypeOK, Spawn, Keeps

(* None is nothing else.                                                    *)
LEMMA NoneApart ==
    /\ \A a \in Agents : a # None
    /\ \A c \in Containers : c # None
    /\ \A f \in Configs : f # None /\ f[1] \in Agents /\ f[2] \in Versions /\ f = <<f[1], f[2]>>
    /\ \A m \in Mounts : m # None
    /\ \A s \in Sessions : s # None
    /\ \A k \in Calls : k # None
    /\ \A b \in Boots : b # None /\ b \in Mounts
  BY NoneAssumption, PoolAssumption, WarmAssumption DEF Configs

----------------------------------------------------------------------------
(* Types of what the steps have in common.                                  *)

CallRecords ==
    [cfg : Configs \cup {None}, own : Containers \cup {None},
     on : Calls \cup {None}, won : BOOLEAN]

BootRecords ==
    [pc : BootPcs, cfg : Configs \cup {None}, dir : Mounts \cup {None},
     own : Containers \cup {None}, evicted : Containers \cup {None}]

(* Call k moves to the await l with the locals r.                           *)
Moves(k, l, r) ==
    /\ pc' = [pc EXCEPT ![k] = l] /\ sess' = sess
    /\ call' = [call EXCEPT ![k] = r]
    /\ l \in CallPcs /\ r \in CallRecords /\ r.cfg = call[k].cfg

(* A call that moves keeps what it knows.                                   *)
LEMMA MovesKeeps ==
    ASSUME TypeInv, Keeps, NEW k \in Calls, pc[k] # "free", NEW l, NEW r, Moves(k, l, r),
           l = "joined" => r.on \in Calls,
           l \in Looks => Started(r.own) /\ config[r.own] = r.cfg
    PROVE  CallTypes' /\ CallsMade' /\ JoinsOne' /\ ClaimFits'
  <1>1. CallTypes'
    BY DEF TypeInv, Typed, CallTypes, Moves, CallRecords
  <1>2. \A j \in Calls : j # k => pc'[j] = pc[j] /\ call'[j] = call[j] /\ sess'[j] = sess[j]
    BY DEF TypeInv, Typed, CallTypes, Moves
  <1>3. pc'[k] = l /\ call'[k] = r /\ sess'[k] = sess[k]
    BY DEF TypeInv, Typed, CallTypes, Moves
  <1>4. CallsMade' /\ JoinsOne'
    BY <1>2, <1>3 DEF TypeInv, Made, CallsMade, JoinsOne, Moves
  <1>5. \A c : Started(c) => Started(c)' /\ config'[c] = config[c]
    BY DEF Keeps, Started
  <1>6. ClaimFits'
    BY <1>2, <1>3, <1>5 DEF TypeInv, Made, ClaimFits
  <1> QED BY <1>1, <1>4, <1>6

(* A step that leaves the calls alone.                                      *)
LEMMA CallsRest ==
    ASSUME TypeInv, Keeps, UNCHANGED <<pc, sess, call>>
    PROVE  CallTypes' /\ CallsMade' /\ JoinsOne' /\ ClaimFits'
  <1>1. \A c : Started(c) => Started(c)' /\ config'[c] = config[c]
    BY DEF Keeps, Started
  <1> QED BY <1>1 DEF TypeInv, Typed, CallTypes, Made, CallsMade, JoinsOne, ClaimFits

(* A bucket that loses entries, or none.                                    *)
Thinned == warm' = [a \in Agents |-> warm'[a]] /\ \A a \in Agents : warm'[a] \in {warm[a], None}

LEMMA ThinnedFits ==
    ASSUME TypeInv, Keeps, Thinned
    PROVE  warm' \in [Agents -> Containers \cup {None}] /\ EntriesFit'
  <1>1. warm' \in [Agents -> Containers \cup {None}]
    BY DEF TypeInv, Typed, WarmTypeOK, Thinned
  <1>2. \A a \in Agents : warm'[a] # None => warm'[a] = warm[a] /\ a \in Keys(warm)
    BY DEF TypeInv, Typed, WarmTypeOK, Thinned, Keys
  <1>3. \A a \in Keys(warm)' : a \in Agents /\ warm'[a] # None
    BY <1>1 DEF Keys
  <1> QED BY <1>1, <1>2, <1>3 DEF TypeInv, Made, EntriesFit, Keeps, Started, AgentOf

(* An entry that is taken out, or none.                                     *)
LEMMA TakenThins ==
    ASSUME TypeInv, NEW a, warm' = [warm EXCEPT ![a] = None] \/ warm' = warm PROVE Thinned
  BY DEF TypeInv, Typed, WarmTypeOK, Thinned

(* Boots that rest, or that warmForAgent starts.                            *)
LEMMA BootsRest ==
    ASSUME TypeInv, Keeps, UNCHANGED boot
    PROVE  boot' \in [Boots -> BootRecords] /\ BootsMade' /\ RaisesOne'
  <1>1. boot' \in [Boots -> BootRecords]
    BY DEF TypeInv, Typed, WarmTypeOK, BootRecords
  <1> QED BY <1>1 DEF TypeInv, Made, BootsMade, RaisesOne, Raising, Keeps, Started

(* What warmForAgent does to the boots: nothing, or it begins one.          *)
Begins(cfg) ==
    \/ boot' = boot
    \/ \E b \in Boots, d \in Mounts :
         /\ boot[b].pc = "free"
         /\ boot' = [boot EXCEPT ![b].pc = "reserve", ![b].cfg = cfg, ![b].dir = d]

LEMMA OrderBegins ==
    ASSUME TypeInv, NEW w, NEW cfg \in Configs, NEW m \in Mounts \cup {None},
           WarmForAgent(w, cfg, m)
    PROVE  /\ Begins(cfg)
           /\ desired' = desired \/ desired' = [desired EXCEPT ![cfg[1]] = cfg]
           /\ desired' \in [Agents -> Configs \cup {None}]
  <1>1. desired' = desired \/ desired' = [desired EXCEPT ![cfg[1]] = cfg]
    BY DEF WarmForAgent
  <1>2. desired' \in [Agents -> Configs \cup {None}]
    BY <1>1 DEF TypeInv, Typed, WarmTypeOK
  <1>3. Begins(cfg)
    BY NoneApart DEF WarmForAgent, Begins
  <1> QED BY <1>1, <1>2, <1>3

LEMMA BeginsKeeps ==
    ASSUME TypeInv, Keeps, NEW cfg \in Configs, Begins(cfg)
    PROVE  boot' \in [Boots -> BootRecords] /\ BootsMade' /\ RaisesOne'
  <1>1. CASE boot' = boot
    BY <1>1, BootsRest
  <1>2. CASE boot' # boot
    <2>1. PICK b \in Boots, d \in Mounts :
            /\ boot[b].pc = "free"
            /\ boot' = [boot EXCEPT ![b].pc = "reserve", ![b].cfg = cfg, ![b].dir = d]
      BY <1>2 DEF Begins
    <2>2. boot \in [Boots -> BootRecords]
      BY DEF TypeInv, Typed, WarmTypeOK, BootRecords
    <2> DEFINE r == [boot[b] EXCEPT !.pc = "reserve", !.cfg = cfg, !.dir = d]
    <2>8. r \in BootRecords
      BY <2>2 DEF BootRecords, BootPcs
    <2>9. boot' = [boot EXCEPT ![b] = r]
      BY <2>1
    <2>3. boot' \in [Boots -> BootRecords]
      BY <2>2, <2>8, <2>9
    <2>4. /\ boot'[b].pc = "reserve" /\ boot'[b].cfg = cfg /\ boot'[b].dir = d
          /\ \A e \in Boots : e # b => boot'[e] = boot[e]
      BY <2>1, <2>2 DEF BootRecords
    <2>5. BootsMade'
      BY <2>4 DEF TypeInv, Made, BootsMade
    <2>6. \A e \in Raising' : e \in Raising /\ e # b
      BY <2>4 DEF Raising
    <2>7. RaisesOne'
      <3>1. \A e \in Raising' : boot'[e] = boot[e] /\ Started(boot[e].own) /\ config[boot[e].own] = boot[e].cfg
        BY <2>4, <2>6 DEF Raising, TypeInv, Made, RaisesOne
      <3>2. \A c : Started(c) => Started(c)' /\ config'[c] = config[c]
        BY DEF Keeps, Started
      <3> QED BY <3>1, <3>2 DEF RaisesOne
    <2> QED BY <2>3, <2>5, <2>7
  <1> QED BY <1>1, <1>2

----------------------------------------------------------------------------
(* Types, step by step.  First the steps of a call.                         *)

(* What all of them but a warm claim and its replenishing leave alone.      *)
LEMMA QuietCall ==
    ASSUME TypeInv, RuntimeTypeOK', Keeps, Thinned,
           UNCHANGED <<slots, desired, inflight, boot, dirs, shutting>>,
           StoreTypes', UNCHANGED closing, MapTypes', SweepTypes',
           CallTypes' /\ CallsMade' /\ JoinsOne' /\ ClaimFits'
    PROVE  TypeInv'
  <1>1. warm' \in [Agents -> Containers \cup {None}] /\ EntriesFit'
    BY ThinnedFits
  <1>2. WarmTypeOK' /\ ClosingTypes'
    BY <1>1 DEF TypeInv, Typed, WarmTypeOK, ClosingTypes
  <1>3. BootsMade' /\ RaisesOne'
    BY BootsRest
  <1> QED BY <1>1, <1>2, <1>3 DEF TypeInv, Typed, Made

(* The steps that write neither the bucket nor the containers.              *)
LEMMA PlainCall ==
    ASSUME TypeInv, NEW k \in Calls, pc[k] # "free", UNCHANGED <<runtime, warmVars, others>>,
           NEW l, NEW r, Moves(k, l, r), MapTypes', SweepTypes',
           l = "joined" => r.on \in Calls, l \notin Looks
    PROVE  TypeInv'
  <1>1. RuntimeTypeOK' /\ Keeps
    BY IdleKeeps DEF TypeInv, Typed
  <1>2. Thinned
    BY TakenThins DEF warmVars
  <1>3. CallTypes' /\ CallsMade' /\ JoinsOne' /\ ClaimFits'
    BY <1>1, MovesKeeps
  <1>4. StoreTypes' /\ UNCHANGED closing
    BY DEF TypeInv, Typed, StoreTypes, others
  <1>5. UNCHANGED <<slots, desired, inflight, boot, dirs, shutting>>
    BY DEF warmVars
  <1> QED BY <1>1, <1>2, <1>3, <1>4, <1>5, QuietCall

(* Locals that change in one field.                                         *)
LEMMA Locals ==
    ASSUME TypeInv, NEW k \in Calls
    PROVE  /\ call[k] \in CallRecords
           /\ call = [call EXCEPT ![k] = call[k]]
           /\ \A c \in Containers \cup {None} :
                /\ [call[k] EXCEPT !.own = c] \in CallRecords
                /\ [call[k] EXCEPT !.own = c].cfg = call[k].cfg
                /\ [call[k] EXCEPT !.own = c].own = c
           /\ [call[k] EXCEPT !.won = TRUE] \in CallRecords
           /\ [call[k] EXCEPT !.won = TRUE].cfg = call[k].cfg
  BY DEF TypeInv, Typed, CallTypes, CallRecords

(* The two ways of suspending a call.                                       *)
LEMMA AwaitMoves ==
    ASSUME TypeInv, NEW k \in Calls, NEW l \in CallPcs, Await(k, l)
    PROVE  Moves(k, l, call[k])
  BY Locals DEF Await, Moves

LEMMA AwaitWithMoves ==
    ASSUME TypeInv, NEW k \in Calls, NEW l \in CallPcs, NEW c \in Containers \cup {None},
           AwaitWith(k, l, c)
    PROVE  Moves(k, l, [call[k] EXCEPT !.own = c])
  <1>1. call' = [call EXCEPT ![k] = [call[k] EXCEPT !.own = c]]
    BY DEF AwaitWith, TypeInv, Typed, CallTypes
  <1> QED BY <1>1, Locals DEF AwaitWith, Moves

LEMMA WonMoves ==
    ASSUME TypeInv, NEW k \in Calls, Won(k)
    PROVE  Moves(k, "settle", [call[k] EXCEPT !.won = TRUE])
  <1>1. call' = [call EXCEPT ![k] = [call[k] EXCEPT !.won = TRUE]]
    BY DEF Won, TypeInv, Typed, CallTypes
  <1> QED BY <1>1, Locals DEF Won, Moves, CallPcs

(* A call under way has a session.                                          *)
LEMMA HasSession ==
    ASSUME TypeInv, NEW k \in Calls, pc[k] # "free"
    PROVE  sess[k] \in Sessions /\ call[k].cfg \in Configs /\ call[k].cfg[1] \in Agents
           /\ active[sess[k]] \in Containers \cup {None}
  BY NoneApart DEF TypeInv, Made, Typed, CallsMade, MapTypes

(* The awaits that change the call, the lock and the reservation only.      *)
LEMMA AdmissionTypes ==
    ASSUME TypeInv, NEW k \in Calls,
           ProbeOk(k) \/ Joined(k) \/ Admit(k) \/ AdmitRefuse(k) \/ SpawnFail(k)
             \/ BootOk(k) \/ BootFailed(k) \/ Settle(k)
    PROVE  TypeInv'
  <1> USE DEF CallPcs, Looks
  <1>1. CASE ProbeOk(k)
    <2>1. Moves(k, "ok", call[k]) /\ pc[k] # "free"
      BY <1>1, AwaitMoves DEF ProbeOk
    <2>2. MapTypes' /\ SweepTypes'
      BY <1>1 DEF ProbeOk, TypeInv, Typed, MapTypes, SweepTypes
    <2> QED BY <1>1, <2>1, <2>2, PlainCall DEF ProbeOk
  <1>2. CASE Joined(k)
    <2>1. call[k].on \in Calls
      BY <1>2 DEF Joined, TypeInv, Made, JoinsOne
    <2>2. pc[call[k].on] \in {"free", "ok", "failed"} /\ call[call[k].on].own \in Containers \cup {None}
      BY <1>2, <2>1 DEF Joined, Underway, TypeInv, Typed, CallTypes
    <2>3. Moves(k, pc[call[k].on], [call[k] EXCEPT !.own = call[call[k].on].own]) /\ pc[k] # "free"
      BY <1>2, <2>2, AwaitWithMoves DEF Joined
    <2>4. MapTypes' /\ SweepTypes'
      BY <1>2 DEF Joined, TypeInv, Typed, MapTypes, SweepTypes
    <2> QED BY <1>2, <2>2, <2>3, <2>4, PlainCall DEF Joined
  <1>3. CASE Admit(k)
    <2>1. Moves(k, "claim", [call[k] EXCEPT !.own = None]) /\ pc[k] # "free"
      BY <1>3, AwaitWithMoves DEF Admit, MayPass
    <2>2. reserved' \subseteq Sessions
      BY <1>3, <2>1, HasSession DEF Admit, TypeInv, Typed, MapTypes
    <2>3. lockq' \in Seq(Calls)
      BY <1>3 DEF Admit, MayPass, HoldsLock, TypeInv, Typed, MapTypes
    <2>4. MapTypes' /\ SweepTypes'
      BY <1>3, <2>2, <2>3 DEF Admit, TypeInv, Typed, MapTypes, SweepTypes
    <2> QED BY <1>3, <2>1, <2>4, PlainCall DEF Admit
  <1>4. CASE AdmitRefuse(k)
    <2>1. Moves(k, "settle", [call[k] EXCEPT !.own = None]) /\ pc[k] # "free"
      BY <1>4, AwaitWithMoves DEF AdmitRefuse, MayPass
    <2>2. lockq' \in Seq(Calls)
      BY <1>4 DEF AdmitRefuse, MayPass, HoldsLock, TypeInv, Typed, MapTypes
    <2>3. MapTypes' /\ SweepTypes'
      BY <1>4, <2>2 DEF AdmitRefuse, TypeInv, Typed, MapTypes, SweepTypes
    <2> QED BY <1>4, <2>1, <2>3, PlainCall DEF AdmitRefuse
  <1>5. CASE SpawnFail(k) \/ BootFailed(k)
    <2>1. Moves(k, "settle", [call[k] EXCEPT !.own = None]) /\ pc[k] # "free"
      BY <1>5, AwaitWithMoves DEF SpawnFail, BootFailed
    <2>2. MapTypes' /\ SweepTypes'
      BY <1>5 DEF SpawnFail, BootFailed, TypeInv, Typed, MapTypes, SweepTypes
    <2> QED BY <1>5, <2>1, <2>2, PlainCall DEF SpawnFail, BootFailed
  <1>6. CASE BootOk(k)
    <2>1. Moves(k, "settle", [call[k] EXCEPT !.won = TRUE]) /\ pc[k] # "free"
      BY <1>6, WonMoves DEF BootOk
    <2>2. call[k].own \in Containers \cup {None}
      BY DEF TypeInv, Typed, CallTypes
    <2>3. MapTypes' /\ SweepTypes'
      BY <1>6, <2>2 DEF BootOk, TypeInv, Typed, MapTypes, SweepTypes
    <2> QED BY <1>6, <2>1, <2>3, PlainCall DEF BootOk
  <1>7. CASE Settle(k)
    <2>1. \E l \in {"ok", "failed"} : Moves(k, l, call[k]) /\ pc[k] # "free"
      BY <1>7, AwaitMoves DEF Settle
    <2>2. MapTypes' /\ SweepTypes'
      BY <1>7 DEF Settle, TypeInv, Typed, MapTypes, SweepTypes
    <2> QED BY <1>7, <2>1, <2>2, PlainCall DEF Settle
  <1> QED BY <1>1, <1>2, <1>3, <1>4, <1>5, <1>6, <1>7

(* The awaits that stop or start a container, or take one out of the bucket.*)
LEMMA MovingCall ==
    ASSUME TypeInv, NEW k \in Calls, pc[k] # "free", RuntimeTypeOK', Keeps, Thinned,
           UNCHANGED <<slots, desired, inflight, boot, dirs, shutting, others>>,
           NEW l, NEW r, Moves(k, l, r), MapTypes', SweepTypes',
           l = "joined" => r.on \in Calls,
           l \in Looks => Started(r.own) /\ config[r.own] = r.cfg
    PROVE  TypeInv'
  <1>1. CallTypes' /\ CallsMade' /\ JoinsOne' /\ ClaimFits'
    BY MovesKeeps
  <1>2. StoreTypes' /\ UNCHANGED closing
    BY DEF TypeInv, Typed, StoreTypes, others
  <1> QED BY <1>1, <1>2, QuietCall

(* Taking a session out of the map.                                         *)
LEMMA EvictionTypes ==
    ASSUME TypeInv, NEW s, EvictSession(s)
    PROVE  /\ active' \in [Sessions -> Containers \cup {None}]
           /\ RuntimeTypeOK' /\ Keeps
  BY StopKeeps DEF EvictSession, TypeInv, Typed, MapTypes

(* Joining an acquisition, or asking for admission as its owner.            *)
LEMMA JoinOrAdmitTypes ==
    ASSUME TypeInv, NEW k \in Calls, NEW s \in Sessions, NEW r \in CallRecords,
           JoinOrAdmit(k, s, r)
    PROVE  /\ pending' \in [Sessions -> Calls \cup {None}] /\ lockq' \in Seq(Calls)
           /\ \E l \in {"joined", "claim", "admit"}, q \in CallRecords :
                /\ pc' = [pc EXCEPT ![k] = l] /\ call' = [call EXCEPT ![k] = q]
                /\ q.cfg = r.cfg /\ (l = "joined" => q.on \in Calls)
  <1>1. CASE pending[s] # None
    <2>1. pending[s] \in Calls
      BY <1>1 DEF TypeInv, Typed, MapTypes
    <2> DEFINE q == [r EXCEPT !.on = pending[s]]
    <2>2. q \in CallRecords /\ q.cfg = r.cfg /\ q.on = pending[s]
      BY <2>1 DEF CallRecords
    <2>3. /\ pc' = [pc EXCEPT ![k] = "joined"] /\ call' = [call EXCEPT ![k] = q]
          /\ UNCHANGED <<pending, lockq>>
      BY <1>1 DEF JoinOrAdmit
    <2>4. pending' \in [Sessions -> Calls \cup {None}] /\ lockq' \in Seq(Calls)
      BY <2>3 DEF TypeInv, Typed, MapTypes
    <2> QED BY <2>1, <2>2, <2>3, <2>4
  <1>2. CASE pending[s] = None
    <2>1. pending' = [pending EXCEPT ![s] = k] /\ call' = [call EXCEPT ![k] = r]
      BY <1>2 DEF JoinOrAdmit
    <2>2. \E l \in {"claim", "admit"} : pc' = [pc EXCEPT ![k] = l]
      BY <1>2 DEF JoinOrAdmit
    <2>3. lockq' \in Seq(Calls)
      BY <1>2 DEF JoinOrAdmit, TypeInv, Typed, MapTypes
    <2>4. pending' \in [Sessions -> Calls \cup {None}]
      BY <2>1 DEF TypeInv, Typed, MapTypes
    <2> QED BY <2>1, <2>2, <2>3, <2>4
  <1> QED BY <1>1, <1>2

LEMMA ProbeFailTypes == ASSUME TypeInv, NEW k \in Calls, ProbeFail(k) PROVE TypeInv'
  <1>1. pc[k] # "free"
    BY DEF ProbeFail
  <1>2. \E l \in {"evict", "evict2"} : Moves(k, l, [call[k] EXCEPT !.own = active[sess[k]]])
    BY <1>1, HasSession, AwaitWithMoves DEF ProbeFail, CallPcs
  <1>3. /\ active' \in [Sessions -> Containers \cup {None}]
        /\ RuntimeTypeOK' /\ Keeps
    BY EvictionTypes, IdleKeeps DEF ProbeFail, runtime, TypeInv, Typed, MapTypes
  <1>4. MapTypes' /\ SweepTypes'
    BY <1>3 DEF ProbeFail, TypeInv, Typed, MapTypes, SweepTypes
  <1>5. Thinned /\ UNCHANGED <<slots, desired, inflight, boot, dirs, shutting, others>>
    BY TakenThins DEF ProbeFail, warmVars
  <1> QED BY <1>1, <1>2, <1>3, <1>4, <1>5, MovingCall DEF Looks

LEMMA RecheckTypes == ASSUME TypeInv, NEW k \in Calls, Recheck(k) PROVE TypeInv'
  <1> DEFINE s == sess[k]
             r == [call[k] EXCEPT !.own = None]
  <1>1. pc[k] # "free" /\ s \in Sessions /\ r \in CallRecords /\ r.cfg = call[k].cfg
    BY HasSession, Locals DEF Recheck
  <1> HIDE DEF r
  <1>2. UNCHANGED <<runtime, warmVars, others, active, reserved, housed, sweep>>
    BY DEF Recheck
  <1>3. CASE pc[k] = "evict" /\ active[s] # None
    <2>1. AwaitWith(k, "probe2", active[s]) /\ UNCHANGED <<pending, lockq>>
      BY <1>3 DEF Recheck
    <2>2. Moves(k, "probe2", [call[k] EXCEPT !.own = active[s]])
      BY <2>1, <1>1, HasSession, AwaitWithMoves DEF CallPcs
    <2>3. MapTypes' /\ SweepTypes'
      BY <1>2, <2>1 DEF TypeInv, Typed, MapTypes, SweepTypes
    <2> QED BY <1>1, <1>2, <2>2, <2>3, PlainCall DEF Looks
  <1>4. CASE ~(pc[k] = "evict" /\ active[s] # None)
    <2>1. JoinOrAdmit(k, s, r) /\ sess' = sess
      BY <1>4 DEF Recheck, r
    <2>2. PICK l \in {"joined", "claim", "admit"}, q \in CallRecords :
            /\ pc' = [pc EXCEPT ![k] = l] /\ call' = [call EXCEPT ![k] = q]
            /\ q.cfg = r.cfg /\ (l = "joined" => q.on \in Calls)
      BY <2>1, <1>1, JoinOrAdmitTypes
    <2>3. Moves(k, l, q)
      BY <2>1, <2>2, <1>1 DEF Moves, CallPcs
    <2>4. pending' \in [Sessions -> Calls \cup {None}] /\ lockq' \in Seq(Calls)
      BY <2>1, <1>1, JoinOrAdmitTypes
    <2>5. MapTypes' /\ SweepTypes'
      BY <1>2, <2>4 DEF TypeInv, Typed, MapTypes, SweepTypes
    <2> QED BY <1>1, <1>2, <2>2, <2>3, <2>5, PlainCall DEF Looks
  <1> QED BY <1>3, <1>4

LEMMA AdmitEvictTypes == ASSUME TypeInv, NEW k \in Calls, AdmitEvict(k) PROVE TypeInv'
  <1>1. PICK v \in Victims(sess[k]) : EvictSession(v) /\ AwaitWith(k, "pressure", active[v])
    BY DEF AdmitEvict
  <1>2. v \in Sessions /\ active[v] \in Containers
    BY <1>1 DEF Victims, Entries, TypeInv, Typed, MapTypes
  <1>3. pc[k] # "free" /\ Moves(k, "pressure", [call[k] EXCEPT !.own = active[v]])
    BY <1>1, <1>2, AwaitWithMoves DEF AdmitEvict, MayPass, CallPcs
  <1>4. active' \in [Sessions -> Containers \cup {None}] /\ RuntimeTypeOK' /\ Keeps
    BY <1>1, EvictionTypes
  <1>5. MapTypes' /\ SweepTypes'
    BY <1>4 DEF AdmitEvict, TypeInv, Typed, MapTypes, SweepTypes
  <1>6. Thinned /\ UNCHANGED <<slots, desired, inflight, boot, dirs, shutting, others>>
    BY TakenThins DEF AdmitEvict, warmVars
  <1> QED BY <1>3, <1>4, <1>5, <1>6, MovingCall DEF Looks

(* The awaits of a claim, and the start and the stop of a container.        *)
LEMMA ClaimTypes == ASSUME TypeInv, NEW k \in Calls, Claim(k) PROVE TypeInv'
  <1> DEFINE a == call[k].cfg[1]
             c == warm[a]
  <1>1. /\ pc[k] # "free" /\ a \in Agents /\ c \in Containers \cup {None}
        /\ c # None => Started(c) /\ a \in Keys(warm)
    BY HasSession DEF Claim, TypeInv, Typed, WarmTypeOK, Made, EntriesFit, Keys
  <1>2. UNCHANGED <<slots, desired, inflight, boot, dirs, shutting, others>>
    BY DEF Claim
  <1>3. MapTypes' /\ SweepTypes'
    BY DEF Claim, TypeInv, Typed, MapTypes, SweepTypes
  <1>4. CASE Await(k, "spawn") /\ UNCHANGED <<warm, runtime>>
    <2>1. Moves(k, "spawn", call[k])
      BY <1>4, AwaitMoves DEF CallPcs
    <2> QED BY <1>1, <1>2, <1>3, <1>4, <2>1, PlainCall DEF Looks, warmVars
  <1>5. CASE warm' = [warm EXCEPT ![a] = None] /\ Stop(c) /\ AwaitWith(k, "stale", c)
    <2>1. Moves(k, "stale", [call[k] EXCEPT !.own = c])
      BY <1>1, <1>5, AwaitWithMoves DEF CallPcs
    <2>2. RuntimeTypeOK' /\ Keeps /\ Thinned
      BY <1>5, StopKeeps, TakenThins DEF TypeInv, Typed
    <2> QED BY <1>1, <1>2, <1>3, <2>1, <2>2, MovingCall DEF Looks
  <1>6. CASE c # None /\ config[c] = call[k].cfg /\ AwaitWith(k, "wprobe", c) /\ UNCHANGED <<warm, runtime>>
    <2> DEFINE r == [call[k] EXCEPT !.own = c]
    <2>1. Moves(k, "wprobe", r) /\ r.own = c /\ r.cfg = call[k].cfg
      BY <1>1, <1>6, AwaitWithMoves, Locals DEF CallPcs
    <2>2. RuntimeTypeOK' /\ Keeps /\ Thinned
      BY <1>6, IdleKeeps, TakenThins DEF TypeInv, Typed
    <2>3. Started(r.own) /\ config[r.own] = r.cfg
      BY <2>1, <1>1, <1>6
    <2> HIDE DEF r
    <2> QED BY <1>1, <1>2, <1>3, <2>1, <2>2, <2>3, MovingCall DEF CallPcs
  <1> QED BY <1>4, <1>5, <1>6 DEF Claim

LEMMA LoseWarmTypes ==
    ASSUME TypeInv, NEW k \in Calls, WarmProbeFail(k) \/ WarmSpoilt(k) PROVE TypeInv'
  <1>1. pc[k] = "wprobe" /\ Started(call[k].own) /\ config[call[k].own] = call[k].cfg
    BY DEF WarmProbeFail, WarmSpoilt, TypeInv, Made, ClaimFits, Looks
  <1>2. Moves(k, "spoilt", call[k])
    BY AwaitMoves DEF WarmProbeFail, WarmSpoilt, CallPcs
  <1>3. Stop(call[k].own) /\ \E a : warm' = [warm EXCEPT ![a] = None]
    BY DEF WarmProbeFail, WarmSpoilt, ReapWarmEntry
  <1>4. RuntimeTypeOK' /\ Keeps /\ Thinned
    BY <1>3, StopKeeps, TakenThins DEF TypeInv, Typed
  <1>5. MapTypes' /\ SweepTypes'
    BY DEF WarmProbeFail, WarmSpoilt, TypeInv, Typed, MapTypes, SweepTypes
  <1>6. UNCHANGED <<slots, desired, inflight, boot, dirs, shutting, others>>
    BY DEF WarmProbeFail, WarmSpoilt
  <1> QED BY <1>1, <1>2, <1>4, <1>5, <1>6, MovingCall

LEMMA SpawnOkTypes == ASSUME TypeInv, NEW k \in Calls, SpawnOk(k) PROVE TypeInv'
  <1>1. PICK c \in Containers : Spawn(c, call[k].cfg, None) /\ AwaitWith(k, "boot", c)
    BY DEF SpawnOk
  <1>2. pc[k] # "free" /\ sess[k] \in Sessions /\ call[k].cfg \in Configs
    BY HasSession DEF SpawnOk
  <1>3. Moves(k, "boot", [call[k] EXCEPT !.own = c])
    BY <1>1, AwaitWithMoves DEF CallPcs
  <1>4. RuntimeTypeOK' /\ Keeps
    BY <1>1, <1>2, SpawnKeeps DEF TypeInv, Typed
  <1>5. MapTypes' /\ SweepTypes'
    BY <1>2 DEF SpawnOk, TypeInv, Typed, MapTypes, SweepTypes
  <1>6. Thinned /\ UNCHANGED <<slots, desired, inflight, boot, dirs, shutting, others>>
    BY TakenThins DEF SpawnOk, warmVars
  <1> QED BY <1>2, <1>3, <1>4, <1>5, <1>6, MovingCall DEF Looks

LEMMA BootStopTypes == ASSUME TypeInv, NEW k \in Calls, BootStop(k) PROVE TypeInv'
  <1>1. pc[k] # "free" /\ Moves(k, "bootfail", call[k])
    BY AwaitMoves DEF BootStop, CallPcs
  <1>2. RuntimeTypeOK' /\ Keeps
    BY StopKeeps DEF BootStop, TypeInv, Typed
  <1>3. MapTypes' /\ SweepTypes'
    BY DEF BootStop, TypeInv, Typed, MapTypes, SweepTypes
  <1>4. Thinned /\ UNCHANGED <<slots, desired, inflight, boot, dirs, shutting, others>>
    BY TakenThins DEF BootStop, warmVars
  <1> QED BY <1>1, <1>2, <1>3, <1>4, MovingCall DEF Looks

(* The steps that order a warm container.                                   *)
LEMMA OrderingStep ==
    ASSUME TypeInv, RuntimeTypeOK', Keeps, Thinned,
           UNCHANGED <<slots, inflight, shutting, closing>>, dirs' \subseteq Mounts,
           NEW w, NEW cfg \in Configs, NEW m \in Mounts \cup {None}, WarmForAgent(w, cfg, m),
           StoreTypes', MapTypes', SweepTypes',
           CallTypes' /\ CallsMade' /\ JoinsOne' /\ ClaimFits'
    PROVE  TypeInv'
  <1>1. warm' \in [Agents -> Containers \cup {None}] /\ EntriesFit'
    BY ThinnedFits
  <1>2. Begins(cfg) /\ desired' \in [Agents -> Configs \cup {None}]
    BY OrderBegins
  <1>3. boot' \in [Boots -> BootRecords] /\ BootsMade' /\ RaisesOne'
    BY <1>2, BeginsKeeps
  <1>4. WarmTypeOK'
    BY <1>1, <1>2, <1>3 DEF TypeInv, Typed, WarmTypeOK, BootRecords
  <1>5. ClosingTypes'
    BY DEF TypeInv, Typed, ClosingTypes
  <1> QED BY <1>1, <1>3, <1>4, <1>5 DEF TypeInv, Typed, Made

LEMMA ClaimFailedTypes == ASSUME TypeInv, NEW k \in Calls, ClaimFailed(k) PROVE TypeInv'
  <1> DEFINE c == call[k].own
  <1>1. Moves(k, "spawn", [call[k] EXCEPT !.own = None]) /\ pc[k] # "free"
    BY AwaitWithMoves DEF ClaimFailed, CallPcs
  <1>2. RuntimeTypeOK' /\ Keeps /\ Thinned
    BY IdleKeeps, TakenThins DEF ClaimFailed, TypeInv, Typed
  <1>3. MapTypes' /\ SweepTypes' /\ StoreTypes' /\ UNCHANGED <<slots, inflight, shutting, dirs, closing, others>>
    BY DEF ClaimFailed, TypeInv, Typed, MapTypes, SweepTypes, StoreTypes, others
  <1>4. CASE pc[k] = "stale"
    BY <1>1, <1>2, <1>3, <1>4, MovingCall DEF ClaimFailed, Looks
  <1>5. CASE pc[k] = "spoilt"
    <2>1. Started(c) /\ config[c] = call[k].cfg /\ config[c] \in Configs /\ mount[c] \in Mounts \cup {None}
      BY <1>5, HasSession DEF TypeInv, Made, ClaimFits, Looks, Started, Typed, RuntimeTypeOK
    <2>2. CallTypes' /\ CallsMade' /\ JoinsOne' /\ ClaimFits'
      BY <1>1, <1>2, MovesKeeps DEF Looks
    <2>3. WarmForAgent(warm, config[c], mount[c])
      BY <1>5 DEF ClaimFailed
    <2>4. dirs' \subseteq Mounts
      BY <1>3 DEF TypeInv, Typed, WarmTypeOK
    <2> QED BY <1>2, <1>3, <2>1, <2>2, <2>3, <2>4, OrderingStep
  <1> QED BY <1>4, <1>5 DEF ClaimFailed

LEMMA WarmClaimTypes == ASSUME TypeInv, NEW k \in Calls, WarmClaim(k) PROVE TypeInv'
  <1> DEFINE c == call[k].own
  <1>1. /\ pc[k] = "wprobe" /\ Started(c) /\ config[c] = call[k].cfg /\ config[c] \in Configs
        /\ mount[c] \in Mounts \cup {None} /\ sess[k] \in Sessions
    BY HasSession DEF WarmClaim, TypeInv, Made, ClaimFits, Looks, Started, Typed, RuntimeTypeOK
  <1>2. Moves(k, "settle", [call[k] EXCEPT !.won = TRUE])
    BY WonMoves DEF WarmClaim
  <1>3. RuntimeTypeOK' /\ Keeps /\ Thinned
    BY IdleKeeps, TakenThins DEF WarmClaim, TypeInv, Typed
  <1>4. dirs' \subseteq Mounts /\ housed' \subseteq Sessions
    BY <1>1 DEF WarmClaim, Rename, TypeInv, Typed, WarmTypeOK, MapTypes
  <1>5. active' \in [Sessions -> Containers \cup {None}]
    BY <1>1 DEF WarmClaim, TypeInv, Typed, MapTypes, Started
  <1>6. MapTypes' /\ SweepTypes' /\ StoreTypes' /\ UNCHANGED <<slots, inflight, shutting, closing>>
    BY <1>4, <1>5 DEF WarmClaim, TypeInv, Typed, MapTypes, SweepTypes, StoreTypes, others
  <1>7. CallTypes' /\ CallsMade' /\ JoinsOne' /\ ClaimFits'
    BY <1>1, <1>2, <1>3, MovesKeeps DEF Looks
  <1>8. WarmForAgent([warm EXCEPT ![call[k].cfg[1]] = None], config[c], mount[c])
    BY DEF WarmClaim
  <1> QED BY <1>1, <1>3, <1>4, <1>6, <1>7, <1>8, OrderingStep

(* Every await of an acquisition.                                           *)
LEMMA CallStepTypes == ASSUME TypeInv, NEW k \in Calls, CallStep(k) PROVE TypeInv'
  BY AdmissionTypes, ProbeFailTypes, RecheckTypes, AdmitEvictTypes, ClaimTypes, LoseWarmTypes,
     SpawnOkTypes, BootStopTypes, ClaimFailedTypes, WarmClaimTypes DEF CallStep

(* An acquisition begins.                                                   *)
LEMMA AcquireTypes ==
    ASSUME TypeInv, NEW k \in Calls, NEW s \in Sessions, Acquire(k, s) PROVE TypeInv'
  <1> DEFINE a == AgentOfSession[s]
             r == [call[k] EXCEPT !.cfg = <<a, template[a]>>, !.own = active[s]]
  <1>1. r \in CallRecords /\ r.cfg \in Configs
    <2>1. <<a, template[a]>> \in Configs
      BY PoolAssumption DEF TypeInv, Typed, StoreTypes, Configs
    <2>2. call[k] \in CallRecords /\ active[s] \in Containers \cup {None}
      BY Locals DEF TypeInv, Typed, MapTypes
    <2>3. \A f \in Configs, c \in Containers \cup {None} :
            /\ [call[k] EXCEPT !.cfg = f, !.own = c] \in CallRecords
            /\ [call[k] EXCEPT !.cfg = f, !.own = c].cfg = f
      BY <2>2 DEF CallRecords
    <2> QED BY <2>1, <2>2, <2>3
  <1>2. pc[k] = "free" /\ sess' = [sess EXCEPT ![k] = s] /\ busy' = busy \cup {s}
    BY DEF Acquire
  <1> HIDE DEF r
  <1>3. /\ \E l \in {"joined", "claim", "admit", "evict", "probe"}, q \in CallRecords :
             /\ pc' = [pc EXCEPT ![k] = l] /\ call' = [call EXCEPT ![k] = q]
             /\ q.cfg = r.cfg /\ (l = "joined" => q.on \in Calls)
        /\ pending' \in [Sessions -> Calls \cup {None}] /\ lockq' \in Seq(Calls)
        /\ active' \in [Sessions -> Containers \cup {None}]
        /\ RuntimeTypeOK' /\ Keeps
    <2>0. /\ active \in [Sessions -> Containers \cup {None}]
          /\ pending \in [Sessions -> Calls \cup {None}] /\ lockq \in Seq(Calls)
          /\ RuntimeTypeOK
      BY DEF TypeInv, Typed, MapTypes
    <2>1. CASE JoinOrAdmit(k, s, r) /\ UNCHANGED <<active, runtime>>
      BY <1>1, <2>0, <2>1, JoinOrAdmitTypes, IdleKeeps
    <2>2. CASE /\ EvictSession(s) /\ pc' = [pc EXCEPT ![k] = "evict"] /\ call' = [call EXCEPT ![k] = r]
               /\ UNCHANGED <<pending, lockq>>
      BY <1>1, <2>0, <2>2, EvictionTypes
    <2>3. CASE /\ pc' = [pc EXCEPT ![k] = "probe"] /\ call' = [call EXCEPT ![k] = r]
               /\ UNCHANGED <<active, runtime, pending, lockq>>
      BY <1>1, <2>0, <2>3, IdleKeeps
    <2> QED BY <2>1, <2>2, <2>3 DEF Acquire, r
  <1>4. PICK l \in {"joined", "claim", "admit", "evict", "probe"}, q \in CallRecords :
             /\ pc' = [pc EXCEPT ![k] = l] /\ call' = [call EXCEPT ![k] = q]
             /\ q.cfg = r.cfg /\ (l = "joined" => q.on \in Calls)
    BY <1>3
  <1>5. CallTypes'
    BY <1>2, <1>4 DEF TypeInv, Typed, CallTypes, CallRecords, CallPcs
  <1>6. /\ \A j \in Calls : j # k => pc'[j] = pc[j] /\ call'[j] = call[j] /\ sess'[j] = sess[j]
        /\ pc'[k] = l /\ call'[k] = q /\ sess'[k] = s
    BY <1>2, <1>4 DEF TypeInv, Typed, CallTypes
  <1>7. CallsMade' /\ JoinsOne'
    BY <1>1, <1>4, <1>6 DEF TypeInv, Made, CallsMade, JoinsOne
  <1>8. ClaimFits'
    <2>1. \A c : Started(c) => Started(c)' /\ config'[c] = config[c]
      BY <1>3 DEF Keeps, Started
    <2>2. \A j \in Calls : pc'[j] \in Looks => pc'[j] = pc[j] /\ call'[j] = call[j]
      BY <1>6 DEF Looks
    <2> QED BY <2>1, <2>2 DEF TypeInv, Made, ClaimFits
  <1>9. MapTypes' /\ SweepTypes' /\ StoreTypes' /\ UNCHANGED closing
    BY <1>2, <1>3 DEF Acquire, TypeInv, Typed, MapTypes, SweepTypes, StoreTypes
  <1>10. Thinned /\ UNCHANGED <<slots, desired, inflight, boot, dirs, shutting>>
    BY TakenThins DEF Acquire, warmVars
  <1> QED BY <1>3, <1>5, <1>7, <1>8, <1>9, <1>10, QuietCall

----------------------------------------------------------------------------
(* Types of the boots, the router, the sweeper and the shutdown.            *)

(* The ways of writing the state of a boot.                                 *)
Writes(b, r) ==
    /\ r \in BootRecords /\ boot' = [boot EXCEPT ![b] = r]
    /\ r.cfg = boot[b].cfg /\ r.dir = boot[b].dir

At(b, l) == boot' = [boot EXCEPT ![b].pc = l]
With(b, l, c, e) == boot' = [boot EXCEPT ![b].pc = l, ![b].own = c, ![b].evicted = e]
Raises(b, c) == boot' = [boot EXCEPT ![b].pc = "boot", ![b].own = c]

LEMMA BootAt ==
    ASSUME TypeInv, NEW b \in Boots, NEW l \in BootPcs, At(b, l)
    PROVE  \E r : Writes(b, r) /\ r.pc = l /\ r.own = boot[b].own
  <1> DEFINE r == [boot[b] EXCEPT !.pc = l]
  <1>1. boot[b] \in BootRecords
    BY DEF TypeInv, Typed, WarmTypeOK, BootRecords
  <1>2. /\ r \in BootRecords /\ r.pc = l /\ r.own = boot[b].own
        /\ r.cfg = boot[b].cfg /\ r.dir = boot[b].dir
    BY <1>1 DEF BootRecords
  <1>3. boot' = [boot EXCEPT ![b] = r]
    BY DEF At
  <1> QED BY <1>2, <1>3 DEF Writes

LEMMA BootWith ==
    ASSUME TypeInv, NEW b \in Boots, NEW l \in BootPcs,
           NEW c \in Containers \cup {None}, NEW e \in Containers \cup {None},
           With(b, l, c, e)
    PROVE  \E r : Writes(b, r) /\ r.pc = l /\ r.own = c /\ r.evicted = e
  <1> DEFINE r == [boot[b] EXCEPT !.pc = l, !.own = c, !.evicted = e]
  <1>1. boot[b] \in BootRecords
    BY DEF TypeInv, Typed, WarmTypeOK, BootRecords
  <1>2. /\ r \in BootRecords /\ r.pc = l /\ r.own = c /\ r.evicted = e
        /\ r.cfg = boot[b].cfg /\ r.dir = boot[b].dir
    BY <1>1 DEF BootRecords
  <1>3. boot' = [boot EXCEPT ![b] = r]
    BY DEF With
  <1> QED BY <1>2, <1>3 DEF Writes

(* The step to the next of the containers a boot has to stop.               *)
LEMMA BootNext ==
    ASSUME TypeInv, NEW b \in Boots, ReapEvicted(b)
    PROVE  \E r : Writes(b, r) /\ r.pc = "reap" /\ r.own = boot[b].evicted /\ r.evicted = None
  <1> DEFINE r == [boot[b] EXCEPT !.own = boot[b].evicted, !.evicted = None]
  <1>1. boot[b] \in BootRecords /\ boot[b].pc = "reap"
    BY DEF ReapEvicted, TypeInv, Typed, WarmTypeOK, BootRecords
  <1>2. /\ r \in BootRecords /\ r.pc = "reap" /\ r.own = boot[b].evicted /\ r.evicted = None
        /\ r.cfg = boot[b].cfg /\ r.dir = boot[b].dir
    BY <1>1 DEF BootRecords
  <1>3. boot' = [boot EXCEPT ![b] = r]
    BY DEF ReapEvicted
  <1> QED BY <1>2, <1>3 DEF Writes

(* The start of a boot's container.                                         *)
LEMMA BootRaises ==
    ASSUME TypeInv, NEW b \in Boots, NEW c \in Containers,
           Raises(b, c)
    PROVE  \E r : Writes(b, r) /\ r.pc = "boot" /\ r.own = c
  <1> DEFINE r == [boot[b] EXCEPT !.pc = "boot", !.own = c]
  <1>1. boot[b] \in BootRecords
    BY DEF TypeInv, Typed, WarmTypeOK, BootRecords
  <1>2. /\ r \in BootRecords /\ r.pc = "boot" /\ r.own = c
        /\ r.cfg = boot[b].cfg /\ r.dir = boot[b].dir
    BY <1>1 DEF BootRecords, BootPcs
  <1>3. boot' = [boot EXCEPT ![b] = r]
    BY DEF Raises
  <1> QED BY <1>2, <1>3 DEF Writes

(* A boot that moves keeps what it knows.                                   *)
LEMMA BootMoves ==
    ASSUME TypeInv, Keeps, NEW b \in Boots, boot[b].pc # "free", NEW r, Writes(b, r),
           r.pc \in {"boot", "insert"} => Started(r.own)' /\ config'[r.own] = r.cfg
    PROVE  boot' \in [Boots -> BootRecords] /\ BootsMade' /\ RaisesOne'
  <1>1. boot \in [Boots -> BootRecords]
    BY DEF TypeInv, Typed, WarmTypeOK, BootRecords
  <1>2. boot' \in [Boots -> BootRecords]
    BY <1>1 DEF Writes
  <1>3. boot'[b] = r /\ \A d \in Boots : d # b => boot'[d] = boot[d]
    BY <1>1 DEF Writes
  <1>4. BootsMade'
    BY <1>3 DEF Writes, TypeInv, Made, BootsMade
  <1>5. \A c : Started(c) => Started(c)' /\ config'[c] = config[c]
    BY DEF Keeps, Started
  <1>6. RaisesOne'
    BY <1>3, <1>5 DEF TypeInv, Made, RaisesOne, Raising
  <1> QED BY <1>2, <1>4, <1>6

(* What a boot on its own leaves alone.                                     *)
LEMMA BootAloneFrame ==
    ASSUME TypeInv, NEW b \in Boots, BootAlone(b), RuntimeTypeOK', Keeps, EntriesFit',
           warm' \in [Agents -> Containers \cup {None}],
           slots' \in [Agents -> Configs \cup {None}],
           inflight' \in [Agents -> Boots \cup {None}],
           dirs' \subseteq Mounts, UNCHANGED <<desired, shutting>>,
           boot' \in [Boots -> BootRecords], BootsMade', RaisesOne'
    PROVE  TypeInv'
  <1>1. CallTypes' /\ CallsMade' /\ JoinsOne' /\ ClaimFits'
    BY CallsRest DEF BootAlone, sessionVars
  <1>2. MapTypes' /\ StoreTypes' /\ SweepTypes' /\ ClosingTypes'
    BY DEF BootAlone, sessionVars, TypeInv, Typed, MapTypes, StoreTypes, SweepTypes, ClosingTypes
  <1>3. WarmTypeOK'
    BY DEF TypeInv, Typed, WarmTypeOK, BootRecords
  <1> QED BY <1>1, <1>2, <1>3 DEF TypeInv, Typed, Made

(* The awaits of a boot that write nothing but its own state and the slots. *)
LEMMA PlainBootTypes ==
    ASSUME TypeInv, NEW b \in Boots, BootAlone(b),
           ReserveSkip(b) \/ Refused(b) \/ BootReady(b) \/ Discarded(b) \/ Release(b)
    PROVE  TypeInv'
  <1>1. PICK l \in {"done", "insert", "release"} :
          /\ boot[b].pc # "free" /\ At(b, l)
          /\ l = "insert" => boot[b].pc = "boot"
    BY DEF ReserveSkip, Refused, BootReady, Discarded, Release, At
  <1>2. PICK r : Writes(b, r) /\ r.pc = l /\ r.own = boot[b].own
    BY <1>1, BootAt DEF BootPcs
  <1>4. UNCHANGED <<runtime, warm, dirs, desired, shutting>>
    BY DEF ReserveSkip, Refused, BootReady, Discarded, Release
  <1>5. RuntimeTypeOK' /\ Keeps /\ config' = config
    BY <1>4, IdleKeeps DEF TypeInv, Typed
  <1>6. r.pc \in {"boot", "insert"} => Started(r.own)' /\ config'[r.own] = r.cfg
    BY <1>1, <1>2, <1>5 DEF TypeInv, Made, RaisesOne, Raising, Started, Keeps, Writes
  <1>7. boot' \in [Boots -> BootRecords] /\ BootsMade' /\ RaisesOne'
    BY <1>1, <1>2, <1>5, <1>6, BootMoves
  <1>8. EntriesFit' /\ warm' \in [Agents -> Containers \cup {None}]
    BY <1>4, <1>5, TakenThins, ThinnedFits
  <1>9. slots' \in [Agents -> Configs \cup {None}]
    BY DEF ReserveSkip, Refused, BootReady, Discarded, Release, TypeInv, Typed, WarmTypeOK
  <1>10. inflight' \in [Agents -> Boots \cup {None}]
    BY DEF ReserveSkip, Refused, BootReady, Discarded, Release, TypeInv, Typed, WarmTypeOK
  <1>11. dirs' \subseteq Mounts
    BY <1>4 DEF TypeInv, Typed, WarmTypeOK
  <1> QED BY <1>4, <1>5, <1>7, <1>8, <1>9, <1>10, <1>11, BootAloneFrame

LEMMA ReserveSlotTypes ==
    ASSUME TypeInv, NEW b \in Boots, BootAlone(b), ReserveSlot(b) PROVE TypeInv'
  <1> DEFINE cfg   == boot[b].cfg
             stale == warm[cfg[1]]
             w     == [warm EXCEPT ![cfg[1]] = None]
  <1>1. boot[b].pc = "reserve" /\ cfg \in Configs /\ cfg[1] \in Agents
    BY NoneApart DEF ReserveSlot, TypeInv, Made, BootsMade
  <1>2. stale \in Containers \cup {None} /\ \A a \in Keys(w) : w[a] \in Containers \cup {None}
    BY <1>1 DEF TypeInv, Typed, WarmTypeOK, Keys
  <1>3. \E l \in {"reap", "refused"}, e \in Containers \cup {None} :
          With(b, l, stale, e)
    BY <1>2 DEF ReserveSlot, With
  <1>4. PICK r : Writes(b, r) /\ r.pc \in {"reap", "refused"}
    BY <1>2, <1>3, BootWith DEF BootPcs
  <1>5. RuntimeTypeOK' /\ Keeps
    BY StopKeeps, IdleKeeps DEF ReserveSlot, TypeInv, Typed
  <1>6. boot' \in [Boots -> BootRecords] /\ BootsMade' /\ RaisesOne'
    BY <1>1, <1>4, <1>5, BootMoves
  <1>7. Thinned
    <2>1. warm' = w \/ \E a \in Keys(w) : warm' = [w EXCEPT ![a] = None]
      BY DEF ReserveSlot
    <2> QED BY <2>1 DEF TypeInv, Typed, WarmTypeOK, Thinned
  <1>8. EntriesFit' /\ warm' \in [Agents -> Containers \cup {None}]
    BY <1>5, <1>7, ThinnedFits
  <1>9. slots' \in [Agents -> Configs \cup {None}]
    <2>1. slots' = slots \/ slots' = [slots EXCEPT ![cfg[1]] = cfg]
      BY DEF ReserveSlot
    <2> QED BY <1>1, <2>1 DEF TypeInv, Typed, WarmTypeOK
  <1>10. /\ UNCHANGED <<desired, inflight, dirs, shutting>>
         /\ inflight \in [Agents -> Boots \cup {None}] /\ dirs \subseteq Mounts
    BY DEF ReserveSlot, TypeInv, Typed, WarmTypeOK
  <1> QED BY <1>5, <1>6, <1>8, <1>9, <1>10, BootAloneFrame

LEMMA StoppingBootTypes ==
    ASSUME TypeInv, NEW b \in Boots, BootAlone(b),
           ReapEvicted(b) \/ BootFail(b) \/ (Insert(b) /\ Discard(b))
    PROVE  TypeInv'
  <1>1. PICK r : Writes(b, r) /\ r.pc \in {"reap", "discard"}
    BY BootNext, BootAt DEF BootFail, Discard, BootPcs, At
  <1>2. boot[b].pc # "free"
    BY DEF ReapEvicted, BootFail, Insert
  <1>3. RuntimeTypeOK' /\ Keeps /\ Thinned
    BY StopKeeps, TakenThins DEF ReapEvicted, ReapWarmEntry, BootFail, Discard, TypeInv, Typed
  <1>4. boot' \in [Boots -> BootRecords] /\ BootsMade' /\ RaisesOne'
    BY <1>1, <1>2, <1>3, BootMoves
  <1>5. EntriesFit' /\ warm' \in [Agents -> Containers \cup {None}]
    BY <1>3, ThinnedFits
  <1>6. UNCHANGED <<slots, desired, inflight, dirs, shutting>>
    BY DEF ReapEvicted, BootFail, Discard
  <1>7. /\ slots' \in [Agents -> Configs \cup {None}] /\ inflight' \in [Agents -> Boots \cup {None}]
        /\ dirs' \subseteq Mounts
    BY <1>6 DEF TypeInv, Typed, WarmTypeOK
  <1> QED BY <1>3, <1>4, <1>5, <1>6, <1>7, BootAloneFrame

LEMMA BootStartTypes ==
    ASSUME TypeInv, NEW b \in Boots, BootAlone(b), BootStart(b) PROVE TypeInv'
  <1>1. boot[b].pc # "free" /\ boot[b].cfg \in Configs /\ boot[b].dir \in Mounts
    BY DEF BootStart, TypeInv, Made, BootsMade
  <1>2. \/ /\ \E c \in Containers :
               /\ Spawn(c, boot[b].cfg, boot[b].dir)
               /\ Raises(b, c)
           /\ dirs' = dirs \cup {boot[b].dir}
        \/ /\ At(b, "release")
           /\ UNCHANGED <<runtime, dirs>>
    BY DEF BootStart, At, Raises
  <1>3. dirs' \subseteq Mounts
    BY <1>1, <1>2 DEF TypeInv, Typed, WarmTypeOK
  <1>4. RuntimeTypeOK' /\ Keeps /\ boot' \in [Boots -> BootRecords] /\ BootsMade' /\ RaisesOne'
    <2>1. CASE At(b, "release") /\ UNCHANGED runtime
      <3>1. RuntimeTypeOK' /\ Keeps
        BY <2>1, IdleKeeps DEF TypeInv, Typed
      <3>2. PICK r : Writes(b, r) /\ r.pc = "release"
        BY <2>1, BootAt DEF BootPcs
      <3> QED BY <3>1, <3>2, <1>1, BootMoves
    <2>2. CASE \E c \in Containers :
                 /\ Spawn(c, boot[b].cfg, boot[b].dir)
                 /\ Raises(b, c)
      <3>1. PICK c \in Containers :
                 /\ Spawn(c, boot[b].cfg, boot[b].dir)
                 /\ Raises(b, c)
        BY <2>2
      <3>2. RuntimeTypeOK' /\ Keeps /\ ctr'[c] = "up" /\ config'[c] = boot[b].cfg
        BY <1>1, <3>1, SpawnKeeps DEF TypeInv, Typed
      <3>3. PICK r : Writes(b, r) /\ r.pc = "boot" /\ r.own = c
        BY <3>1, BootRaises
      <3>4. Started(r.own)' /\ config'[r.own] = r.cfg
        BY <3>2, <3>3 DEF Started, Writes
      <3> QED BY <3>2, <3>3, <3>4, <1>1, BootMoves
    <2> QED BY <2>1, <2>2, <1>2
  <1>5. EntriesFit' /\ warm' \in [Agents -> Containers \cup {None}]
    BY <1>4, TakenThins, ThinnedFits DEF BootStart
  <1>6. UNCHANGED <<slots, desired, shutting>> /\ inflight' = [inflight EXCEPT ![boot[b].cfg[1]] = b]
    BY DEF BootStart
  <1>7. slots' \in [Agents -> Configs \cup {None}] /\ inflight' \in [Agents -> Boots \cup {None}]
    BY <1>6 DEF TypeInv, Typed, WarmTypeOK
  <1> QED BY <1>3, <1>4, <1>5, <1>6, <1>7, BootAloneFrame

(* A container enters the bucket under its own agent.                       *)
LEMMA InsertTypes ==
    ASSUME TypeInv, NEW b \in Boots, BootAlone(b), Insert(b), ~Discard(b) PROVE TypeInv'
  <1> DEFINE a == boot[b].cfg[1]
  <1>1. /\ boot[b].pc = "insert" /\ warm' = [warm EXCEPT ![a] = boot[b].own]
        /\ At(b, "release")
        /\ UNCHANGED <<runtime, slots, desired, inflight, dirs, shutting>>
    BY DEF Insert, At
  <1>2. /\ boot[b].cfg \in Configs /\ a \in Agents
        /\ Started(boot[b].own) /\ config[boot[b].own] = boot[b].cfg
    BY <1>1, NoneApart DEF TypeInv, Made, BootsMade, RaisesOne, Raising
  <1>3. RuntimeTypeOK' /\ Keeps
    BY <1>1, IdleKeeps DEF TypeInv, Typed
  <1>4. boot' \in [Boots -> BootRecords] /\ BootsMade' /\ RaisesOne'
    <2>1. PICK r : Writes(b, r) /\ r.pc = "release"
      BY <1>1, BootAt DEF BootPcs
    <2> QED BY <2>1, <1>1, <1>3, BootMoves
  <1>5. warm' \in [Agents -> Containers \cup {None}]
    BY <1>1, <1>2 DEF Started, TypeInv, Typed, WarmTypeOK
  <1>6. EntriesFit'
    <2>1. \A d \in Agents : d # a => warm'[d] = warm[d]
      BY <1>1 DEF TypeInv, Typed, WarmTypeOK
    <2>2. warm'[a] = boot[b].own
      BY <1>1, <1>2 DEF TypeInv, Typed, WarmTypeOK
    <2>3. UNCHANGED <<ctr, config>>
      BY <1>1 DEF runtime
    <2>4. \A d \in Keys(warm)' : d \in Agents /\ (d # a => d \in Keys(warm))
      BY <1>5, <2>1 DEF Keys, TypeInv, Typed, WarmTypeOK
    <2> QED BY <1>2, <2>1, <2>2, <2>3, <2>4 DEF EntriesFit, AgentOf, Started, TypeInv, Made
  <1>7. /\ slots' \in [Agents -> Configs \cup {None}] /\ inflight' \in [Agents -> Boots \cup {None}]
        /\ dirs' \subseteq Mounts
    BY <1>1 DEF TypeInv, Typed, WarmTypeOK
  <1> QED BY <1>1, <1>3, <1>4, <1>5, <1>6, <1>7, BootAloneFrame

(* Every await of a boot.                                                   *)
LEMMA BootTypes == ASSUME TypeInv, NEW b \in Boots, BootAlone(b) PROVE TypeInv'
  BY PlainBootTypes, ReserveSlotTypes, StoppingBootTypes, BootStartTypes, InsertTypes
     DEF BootAlone, BootStep

(* The steps that leave the calls and the boots alone.                      *)
LEMMA OuterStep ==
    ASSUME TypeInv, RuntimeTypeOK', Keeps, Thinned, UNCHANGED <<pc, sess, call, boot>>,
           desired' \in [Agents -> Configs \cup {None}],
           UNCHANGED <<slots, inflight, dirs>>, shutting' \in BOOLEAN,
           MapTypes', StoreTypes', SweepTypes', ClosingTypes'
    PROVE  TypeInv'
  <1>1. CallTypes' /\ CallsMade' /\ JoinsOne' /\ ClaimFits'
    BY CallsRest
  <1>2. boot' \in [Boots -> BootRecords] /\ BootsMade' /\ RaisesOne'
    BY BootsRest
  <1>3. warm' \in [Agents -> Containers \cup {None}] /\ EntriesFit'
    BY ThinnedFits
  <1>4. WarmTypeOK'
    BY <1>2, <1>3 DEF TypeInv, Typed, WarmTypeOK, BootRecords
  <1> QED BY <1>1, <1>2, <1>3, <1>4 DEF TypeInv, Typed, Made

LEMMA RouterTypes ==
    ASSUME TypeInv, NEW s \in Sessions, RunEnds(s) \/ Evict(s) PROVE TypeInv'
  <1>1. RuntimeTypeOK' /\ Keeps /\ active' \in [Sessions -> Containers \cup {None}]
    BY EvictionTypes, IdleKeeps DEF RunEnds, Evict, TypeInv, Typed, MapTypes
  <1>2. MapTypes' /\ StoreTypes' /\ SweepTypes' /\ ClosingTypes'
    BY <1>1 DEF RunEnds, Evict, others, TypeInv, Typed, MapTypes, StoreTypes, SweepTypes, ClosingTypes
  <1>3. Thinned
    BY TakenThins DEF RunEnds, Evict, warmVars
  <1>4. UNCHANGED <<pc, sess, call, boot, desired, slots, inflight, dirs, shutting>>
    BY DEF RunEnds, Evict, warmVars
  <1>5. desired' \in [Agents -> Configs \cup {None}] /\ shutting' \in BOOLEAN
    BY <1>4 DEF TypeInv, Typed, WarmTypeOK
  <1> QED BY <1>1, <1>2, <1>3, <1>4, <1>5, OuterStep

LEMMA OrderTypes ==
    ASSUME TypeInv, NEW a \in Agents, Warm(a) \/ Patch(a) PROVE TypeInv'
  <1>1. \E w : \E v \in Versions : WarmForAgent(w, <<a, v>>, None) /\ template' \in [Agents -> Versions]
    <2>1. template \in [Agents -> Versions] /\ template[a] \in Versions
      BY DEF TypeInv, Typed, StoreTypes
    <2>2. CASE Warm(a)
      BY <2>1, <2>2 DEF Warm
    <2>3. CASE Patch(a)
      BY <2>1, <2>3 DEF Patch
    <2> QED BY <2>2, <2>3
  <1>2. RuntimeTypeOK' /\ Keeps
    BY StopKeeps, IdleKeeps DEF Warm, Patch, ReapWarmEntry, runtime, TypeInv, Typed
  <1>3. Thinned
    BY TakenThins DEF Warm, Patch, ReapWarmEntry
  <1>4. /\ UNCHANGED <<slots, inflight, dirs, shutting, closing, pc, sess, call, sweep, busy, rows>>
        /\ UNCHANGED <<active, pending, reserved, lockq, housed>>
        /\ patches' \in 0..MaxPatches
    BY PoolAssumption DEF Warm, Patch, sessionVars, TypeInv, Typed, StoreTypes
  <1>5. MapTypes' /\ StoreTypes' /\ SweepTypes' /\ dirs' \subseteq Mounts
    BY <1>1, <1>4 DEF TypeInv, Typed, MapTypes, StoreTypes, SweepTypes, WarmTypeOK
  <1>6. CallTypes' /\ CallsMade' /\ JoinsOne' /\ ClaimFits'
    BY <1>2, <1>4, CallsRest
  <1>9. PICK w : \E v \in Versions : WarmForAgent(w, <<a, v>>, None)
    BY <1>1
  <1>7. PICK v \in Versions : WarmForAgent(w, <<a, v>>, None)
    BY <1>9
  <1>8. <<a, v>> \in Configs
    BY DEF Configs
  <1> QED BY <1>2, <1>3, <1>4, <1>5, <1>6, <1>7, <1>8, OrderingStep

LEMMA DropTypes ==
    ASSUME TypeInv, NEW a \in Agents, Drop(a) PROVE TypeInv'
  <1>1. RuntimeTypeOK' /\ Keeps /\ Thinned
    BY StopKeeps, IdleKeeps, TakenThins DEF Drop, DropWarm, ReapWarmEntry, runtime, TypeInv, Typed
  <1>2. /\ UNCHANGED <<slots, inflight, boot, dirs, shutting, pc, sess, call, sweep, busy, rows, template>>
        /\ UNCHANGED <<active, pending, reserved, lockq, housed, patches, closing>>
        /\ desired' = [desired EXCEPT ![a] = None]
    BY DEF Drop, DropWarm, sessionVars
  <1>3. MapTypes' /\ StoreTypes' /\ SweepTypes' /\ ClosingTypes'
    BY <1>2 DEF TypeInv, Typed, MapTypes, StoreTypes, SweepTypes, ClosingTypes
  <1>4. desired' \in [Agents -> Configs \cup {None}] /\ shutting' \in BOOLEAN
    BY <1>2 DEF TypeInv, Typed, WarmTypeOK
  <1> QED BY <1>1, <1>2, <1>3, <1>4, OuterStep

(* The sweeper writes its own state, the maps and the rows.                 *)
LEMMA SweepFrame ==
    ASSUME TypeInv, RuntimeTypeOK', Keeps, Thinned,
           UNCHANGED <<slots, desired, inflight, boot, dirs, shutting, pending, reserved, lockq,
                       pc, sess, call, housed, busy, template, patches, closing>>,
           active' \in [Sessions -> Containers \cup {None}], rows' \subseteq Sessions, SweepTypes'
    PROVE  TypeInv'
  <1>1. MapTypes' /\ StoreTypes' /\ ClosingTypes'
    BY DEF TypeInv, Typed, MapTypes, StoreTypes, ClosingTypes
  <1>2. desired' \in [Agents -> Configs \cup {None}] /\ shutting' \in BOOLEAN
    BY DEF TypeInv, Typed, WarmTypeOK
  <1> QED BY <1>1, <1>2, OuterStep

LEMMA SweepStepTypes == ASSUME TypeInv, SweepStep PROVE TypeInv'
  <1>0. /\ sweep.todo \subseteq (Sessions \cup Agents) \X Containers
        /\ sweep.phase \in {"off", "active", "warm"}
        /\ sweep.own \in Containers \cup {None} /\ sweep.of \in Sessions \cup {None}
        /\ active \in [Sessions -> Containers \cup {None}] /\ rows \subseteq Sessions
        /\ warm \in [Agents -> Containers \cup {None}]
        /\ RuntimeTypeOK
    BY DEF TypeInv, Typed, SweepTypes, MapTypes, StoreTypes, WarmTypeOK
  <1>1. CASE SweepStart
    <2>1. PICK old \in SUBSET Entries :
            sweep' = [sweep EXCEPT !.phase = "active", !.todo = {<<s, active[s]>> : s \in old}]
      BY <1>1 DEF SweepStart
    <2>2. {<<s, active[s]>> : s \in old} \subseteq (Sessions \cup Agents) \X Containers
      BY <1>0, <2>1 DEF Entries
    <2>3. SweepTypes'
      BY <2>1, <2>2 DEF SweepTypes, TypeInv, Typed
    <2> QED BY <1>0, <1>1, <2>3, IdleKeeps, TakenThins, SweepFrame DEF SweepStart, sweepOthers, others
  <1>2. CASE SweepStopped
    <2>1. SweepTypes'
      BY <1>2 DEF SweepStopped, SweepTypes, TypeInv, Typed
    <2> QED BY <1>0, <1>2, <2>1, IdleKeeps, TakenThins, SweepFrame DEF SweepStopped
  <1>3. CASE SweepWarmStart
    <2>1. PICK old \in SUBSET Keys(warm) :
            sweep' = [sweep EXCEPT !.phase = "warm", !.todo = {<<a, warm[a]>> : a \in old}]
      BY <1>3 DEF SweepWarmStart
    <2>2. {<<a, warm[a]>> : a \in old} \subseteq (Sessions \cup Agents) \X Containers
      BY <1>0, <2>1 DEF Keys
    <2>3. SweepTypes'
      BY <2>1, <2>2 DEF SweepTypes, TypeInv, Typed
    <2> QED BY <1>0, <1>3, <2>3, IdleKeeps, TakenThins, SweepFrame DEF SweepWarmStart, sweepOthers, others
  <1>4. CASE SweepEnd
    <2>1. SweepTypes'
      BY <1>4 DEF SweepEnd, SweepTypes, TypeInv, Typed
    <2> QED BY <1>0, <1>4, <2>1, IdleKeeps, TakenThins, SweepFrame DEF SweepEnd, sweepOthers, others
  <1>5. ASSUME NEW s \in Sessions, SweepReap(s) PROVE TypeInv'
    <2>1. PICK e \in sweep.todo :
         \/ /\ active' = [active EXCEPT ![s] = None] /\ Stop(e[2])
            /\ sweep' = [sweep EXCEPT !.todo = @ \ {e}, !.own = e[2], !.of = s]
         \/ /\ sweep' = [sweep EXCEPT !.todo = @ \ {e}]
            /\ UNCHANGED <<active, runtime>>
      BY <1>5 DEF SweepReap
    <2>2. SweepTypes'
      <3>1. e[2] \in Containers /\ sweep.todo \ {e} \subseteq (Sessions \cup Agents) \X Containers
        BY <1>0
      <3>2. CASE sweep' = [sweep EXCEPT !.todo = @ \ {e}, !.own = e[2], !.of = s]
        BY <3>1, <3>2 DEF SweepTypes, TypeInv, Typed
      <3>3. CASE sweep' = [sweep EXCEPT !.todo = @ \ {e}]
        BY <3>1, <3>3 DEF SweepTypes, TypeInv, Typed
      <3> QED BY <2>1, <3>2, <3>3
    <2>3. active' \in [Sessions -> Containers \cup {None}]
      BY <1>0, <2>1
    <2>4. RuntimeTypeOK' /\ Keeps
      BY <1>0, <2>1, StopKeeps, IdleKeeps
    <2> QED BY <1>0, <1>5, <2>2, <2>3, <2>4, TakenThins, SweepFrame DEF SweepReap, sweepOthers, others
  <1>6. ASSUME NEW a \in Agents, SweepReapWarm(a) PROVE TypeInv'
    <2>1. PICK e \in sweep.todo :
            ReapWarmEntry(e[2]) /\ sweep' = [sweep EXCEPT !.todo = @ \ {e}, !.own = e[2]]
      BY <1>6 DEF SweepReapWarm
    <2>2. SweepTypes'
      BY <1>0, <2>1 DEF SweepTypes, TypeInv, Typed
    <2>3. RuntimeTypeOK' /\ Keeps /\ Thinned
      BY <1>0, <2>1, StopKeeps, TakenThins DEF ReapWarmEntry
    <2> QED BY <1>0, <1>6, <2>2, <2>3, SweepFrame DEF SweepReapWarm, sweepOthers, others
  <1> QED BY <1>1, <1>2, <1>3, <1>4, <1>5, <1>6 DEF SweepStep

LEMMA ShutdownTypes ==
    ASSUME TypeInv, ShutdownStart \/ ShutdownStop \/ Exit PROVE TypeInv'
  <1>1. RuntimeTypeOK' /\ Keeps
    <2>1. CASE ShutdownStop
      BY <2>1 DEF ShutdownStop, TypeInv, Typed, RuntimeTypeOK, Keeps
    <2>2. CASE ShutdownStart \/ Exit
      BY <2>2, IdleKeeps DEF ShutdownStart, Exit, TypeInv, Typed
    <2> QED BY <2>1, <2>2
  <1>2. Thinned
    <2>1. CASE ShutdownStop
      BY <2>1 DEF ShutdownStop, Thinned
    <2>2. CASE ShutdownStart \/ Exit
      BY <2>2, TakenThins DEF ShutdownStart, Exit, warmVars
    <2> QED BY <2>1, <2>2
  <1>3. UNCHANGED <<pc, sess, call, boot, slots, inflight, dirs, sweep, rows, template, patches, busy,
                    pending, reserved, lockq, housed>>
    BY DEF ShutdownStart, ShutdownStop, Exit, warmVars, sessionVars
  <1>4. desired' \in [Agents -> Configs \cup {None}] /\ shutting' \in BOOLEAN
    BY DEF ShutdownStart, ShutdownStop, Exit, warmVars, TypeInv, Typed, WarmTypeOK
  <1>5. active' \in [Sessions -> Containers \cup {None}]
    BY DEF ShutdownStart, ShutdownStop, Exit, sessionVars, TypeInv, Typed, MapTypes
  <1>6. MapTypes' /\ StoreTypes' /\ SweepTypes'
    BY <1>3, <1>5 DEF TypeInv, Typed, MapTypes, StoreTypes, SweepTypes
  <1>7. ClosingTypes'
    <2>1. CASE ShutdownStart
      <3>1. {pending[s] : s \in {t \in Sessions : pending[t] # None}} \subseteq Calls
        BY DEF TypeInv, Typed, MapTypes
      <3>2. {inflight[a] : a \in Keys(inflight)} \subseteq Boots
        BY DEF TypeInv, Typed, WarmTypeOK, Keys
      <3> QED BY <2>1, <3>1, <3>2 DEF ShutdownStart, ClosingTypes
    <2>2. CASE ShutdownStop \/ Exit
      BY <2>2 DEF ShutdownStop, Exit, TypeInv, Typed, ClosingTypes
    <2> QED BY <2>1, <2>2
  <1> QED BY <1>1, <1>2, <1>3, <1>4, <1>6, <1>7, OuterStep

LEMMA DockerTypes == ASSUME TypeInv, NEW c \in Containers, Docker(c) PROVE TypeInv'
  <1>1. RuntimeTypeOK' /\ Keeps /\ Thinned
    BY StopEndsKeeps, TakenThins DEF Docker, warmVars, TypeInv, Typed
  <1>2. MapTypes' /\ StoreTypes' /\ SweepTypes' /\ ClosingTypes'
    BY DEF Docker, sessionVars, TypeInv, Typed, MapTypes, StoreTypes, SweepTypes, ClosingTypes
  <1>3. UNCHANGED <<pc, sess, call, boot, desired, slots, inflight, dirs, shutting>>
    BY DEF Docker, sessionVars, warmVars
  <1>4. desired' \in [Agents -> Configs \cup {None}] /\ shutting' \in BOOLEAN
    BY <1>3 DEF TypeInv, Typed, WarmTypeOK
  <1> QED BY <1>1, <1>2, <1>3, <1>4, OuterStep

LEMMA StutterTypes == ASSUME TypeInv, UNCHANGED poolVars PROVE TypeInv'
  <1>1. RuntimeTypeOK' /\ Keeps /\ Thinned
    BY IdleKeeps, TakenThins DEF poolVars, warmVars, TypeInv, Typed
  <1>2. MapTypes' /\ StoreTypes' /\ SweepTypes' /\ ClosingTypes'
    BY DEF poolVars, sessionVars, TypeInv, Typed, MapTypes, StoreTypes, SweepTypes, ClosingTypes
  <1>3. UNCHANGED <<pc, sess, call, boot, desired, slots, inflight, dirs, shutting>>
    BY DEF poolVars, sessionVars, warmVars
  <1>4. desired' \in [Agents -> Configs \cup {None}] /\ shutting' \in BOOLEAN
    BY <1>3 DEF TypeInv, Typed, WarmTypeOK
  <1> QED BY <1>1, <1>2, <1>3, <1>4, OuterStep

(* The empty pool.                                                          *)
LEMMA TypeInit == Init => TypeInv
  <1> SUFFICES ASSUME Init PROVE TypeInv
    OBVIOUS
  <1>1. RuntimeTypeOK /\ WarmTypeOK
    BY DEF Init, RuntimeInit, WarmInit, RuntimeTypeOK, WarmTypeOK, BootPcs
  <1>2. MapTypes /\ CallTypes
    BY DEF Init, MapTypes, CallTypes, CallPcs
  <1>3. StoreTypes /\ SweepTypes /\ ClosingTypes
    BY PoolAssumption DEF Init, StoreTypes, SweepTypes, ClosingTypes
  <1>4. Made
    BY DEF Init, WarmInit, Made, CallsMade, JoinsOne, ClaimFits, Looks, BootsMade, EntriesFit, Keys,
           RaisesOne, Raising
  <1> QED BY <1>1, <1>2, <1>3, <1>4 DEF TypeInv, Typed

LEMMA TypeNext == ASSUME TypeInv, [Next]_poolVars PROVE TypeInv'
  BY CallStepTypes, AcquireTypes, BootTypes, RouterTypes, OrderTypes, DropTypes, SweepStepTypes,
     ShutdownTypes, DockerTypes, StutterTypes DEF Next, CallSteps, RouterStep

(* Types, for all operations and any number of sessions, agents, versions,  *)
(* calls, boots and containers.                                             *)
THEOREM Typing == Spec => []TypeOK
  <1>1. TypeInv => TypeOK
    BY TypedIsTypeOK DEF TypeInv
  <1> QED BY <1>1, TypeInit, TypeNext, PTL DEF Spec

----------------------------------------------------------------------------
(* What the bucket offers is up.  A container is offered by the bucket,     *)
(* being raised by a boot, lent (a session has it, is about to have it, or  *)
(* had it when the sweeper looked) or seen (somebody found it in the bucket *)
(* and may still claim or stop it).                                         *)

Offered(c) == \E a \in Agents : warm[a] = c
Raised(c) == \E b \in Raising : boot[b].own = c
Booting(c) == \E k \in Calls : pc[k] = "boot" /\ call[k].own = c
Probing(c) == \E k \in Calls : pc[k] = "wprobe" /\ call[k].own = c
Listed(c) == \E e \in sweep.todo : e[2] = c
Evicting(c) == \E b \in Boots : boot[b].pc = "reap" /\ boot[b].evicted = c

Lent(c) ==
    \/ \E s \in Sessions : active[s] = c
    \/ Booting(c)
    \/ sweep.phase = "active" /\ Listed(c)

Seen(c) == Probing(c) \/ Listed(c) \/ Evicting(c)

(* Nobody but its boot knows a container that is being raised; what is lent *)
(* is not offered; and so nobody stops what the bucket goes on offering.    *)
Custody(c) ==
    /\ Offered(c) \/ Raised(c) => ctr[c] = "up"
    /\ Lent(c) \/ Seen(c) => ctr[c] # "unused"
    /\ Lent(c) => ~Offered(c) /\ ~Raised(c)
    /\ Seen(c) \/ Offered(c) => ~Raised(c)

RaisedApart == \A b, d \in Raising : boot[b].own = boot[d].own => b = d

BucketInv == TypeInv /\ RaisedApart /\ \A c \in Containers : Custody(c)

(* Only containers that are no longer offered nor being raised are stopped. *)
StopsNone ==
    \A c \in Containers : ctr'[c] # ctr[c] =>
        \/ ctr[c] = "stopping" /\ ctr'[c] = "gone"
        \/ ctr[c] = "up" /\ ctr'[c] = "stopping" /\ ~Offered(c)' /\ ~Raised(c)

(* The steps that neither start nor finish a container.                     *)
LEMMA BucketStep ==
    ASSUME BucketInv, TypeInv', StopsNone,
           \A b \in Raising' : b \in Raising /\ boot'[b].own = boot[b].own,
           \A c \in Containers : Offered(c)' => Offered(c),
           \A c \in Containers : Lent(c)' => Lent(c) \/ (Probing(c) /\ ~Offered(c)'),
           \A c \in Containers : Seen(c)' => Seen(c) \/ Offered(c) \/ Lent(c)
    PROVE  BucketInv'
  <1>1. RaisedApart'
    BY DEF BucketInv, RaisedApart
  <1>2. \A c \in Containers : Raised(c)' => Raised(c)
    BY DEF Raised
  <1>3. ASSUME NEW c \in Containers PROVE Custody(c)'
    <2>1. Custody(c)
      BY DEF BucketInv
    <2>2. Offered(c)' \/ Raised(c)' => ctr'[c] = "up"
      BY <1>2, <2>1 DEF Custody, StopsNone
    <2>3. Lent(c)' \/ Seen(c)' => ctr'[c] # "unused"
      BY <2>1 DEF Custody, StopsNone, Seen
    <2>4. Lent(c)' => ~Offered(c)' /\ ~Raised(c)'
      BY <1>2, <2>1 DEF Custody, Seen
    <2>5. Seen(c)' \/ Offered(c)' => ~Raised(c)'
      BY <1>2, <2>1 DEF Custody
    <2> QED BY <2>2, <2>3, <2>4, <2>5 DEF Custody
  <1> QED BY <1>1, <1>3 DEF BucketInv

(* An entry is under the agent of its container: taking out the entry of    *)
(* that agent takes the container out of the bucket.                        *)
LEMMA TakenOut ==
    ASSUME TypeInv, NEW c \in Containers, warm' = [warm EXCEPT ![config[c][1]] = None]
    PROVE  ~Offered(c)'
  <1>1. warm \in [Agents -> Containers \cup {None}]
    BY DEF TypeInv, Typed, WarmTypeOK
  <1>2. \A a \in Agents : warm'[a] = c => warm[a] = c /\ a # config[c][1]
    BY <1>1, NoneApart
  <1>3. \A a \in Agents : warm[a] = c => config[c][1] = a
    BY <1>1, NoneApart DEF TypeInv, Made, EntriesFit, Keys, AgentOf
  <1> QED BY <1>2, <1>3 DEF Offered

(* Fewer entries, fewer offers.                                             *)
LEMMA ThinnedOffers ==
    ASSUME TypeInv, Thinned PROVE \A c \in Containers : Offered(c)' => Offered(c)
  BY NoneApart DEF Thinned, Offered

(* The stop of one container.                                               *)
LEMMA OneStop ==
    ASSUME TypeInv, NEW c, Stop(c), c \in Containers => ~Offered(c)' /\ ~Raised(c)
    PROVE  StopsNone
  BY DEF Stop, StopsNone, TypeInv, Typed, RuntimeTypeOK

(* The stop of one that is lent, or of one that leaves the bucket.          *)
LEMMA StopLent ==
    ASSUME BucketInv, Thinned, NEW c, Lent(c), Stop(c) PROVE StopsNone
  <1>1. TypeInv /\ (c \in Containers => Custody(c))
    BY DEF BucketInv
  <1>2. c \in Containers => ~Offered(c)' /\ ~Raised(c)
    BY <1>1, ThinnedOffers DEF Custody
  <1> QED BY <1>1, <1>2, OneStop

LEMMA StopTaken ==
    ASSUME BucketInv, NEW c, Seen(c) \/ Offered(c), Stop(c),
           warm' = [warm EXCEPT ![config[c][1]] = None]
    PROVE  StopsNone
  <1>1. TypeInv /\ (c \in Containers => Custody(c))
    BY DEF BucketInv
  <1>2. c \in Containers => ~Offered(c)' /\ ~Raised(c)
    BY <1>1, TakenOut DEF Custody
  <1> QED BY <1>1, <1>2, OneStop

LEMMA NoStop == ASSUME UNCHANGED runtime PROVE StopsNone
  BY DEF runtime, StopsNone

(* Raising and evicting go by the boots alone.                              *)
LEMMA SameBoots ==
    ASSUME UNCHANGED boot
    PROVE  /\ \A b \in Raising' : b \in Raising /\ boot'[b].own = boot[b].own
           /\ \A c : Evicting(c)' <=> Evicting(c)
  BY DEF Raising, Evicting

LEMMA BegunBoots ==
    ASSUME TypeInv, NEW cfg, Begins(cfg)
    PROVE  /\ \A b \in Raising' : b \in Raising /\ boot'[b].own = boot[b].own
           /\ \A c : Evicting(c)' => Evicting(c)
  <1>1. CASE boot' = boot
    BY <1>1, SameBoots
  <1>2. CASE boot' # boot
    <2>1. PICK b \in Boots, d \in Mounts :
            /\ boot[b].pc = "free"
            /\ boot' = [boot EXCEPT ![b].pc = "reserve", ![b].cfg = cfg, ![b].dir = d]
      BY <1>2 DEF Begins
    <2>2. boot \in [Boots -> BootRecords]
      BY DEF TypeInv, Typed, WarmTypeOK, BootRecords
    <2>3. boot'[b].pc = "reserve" /\ \A e \in Boots : e # b => boot'[e] = boot[e]
      BY <2>1, <2>2 DEF BootRecords
    <2> QED BY <2>3 DEF Raising, Evicting
  <1> QED BY <1>1, <1>2

(* What a step of a call does to what calls boot and probe.                 *)
LEMMA CallOwn ==
    ASSUME TypeInv, NEW k \in Calls, CallStep(k) \/ \E s \in Sessions : Acquire(k, s)
    PROVE  /\ \A j \in Calls : j # k => pc'[j] = pc[j] /\ call'[j] = call[j]
           /\ pc'[k] = "boot" => SpawnOk(k)
           /\ pc'[k] = "wprobe" => Claim(k) /\ call'[k].own = warm[call[k].cfg[1]]
  <1> USE DEF TypeInv, Typed, CallTypes, CallPcs
  <1>1. CASE ProbeOk(k) \/ ProbeFail(k) \/ Admit(k) \/ AdmitEvict(k) \/ AdmitRefuse(k)
    BY <1>1 DEF ProbeOk, ProbeFail, Admit, AdmitEvict, AdmitRefuse, Await, AwaitWith
  <1>2. CASE WarmProbeFail(k) \/ WarmClaim(k) \/ WarmSpoilt(k) \/ ClaimFailed(k)
    BY <1>2 DEF WarmProbeFail, WarmClaim, WarmSpoilt, ClaimFailed, Await, AwaitWith, Won
  <1>3. CASE SpawnFail(k) \/ BootOk(k) \/ BootStop(k) \/ BootFailed(k) \/ Settle(k)
    BY <1>3 DEF SpawnFail, BootOk, BootStop, BootFailed, Settle, Await, AwaitWith, Won
  <1>4. CASE SpawnOk(k)
    BY <1>4 DEF SpawnOk, AwaitWith
  <1>5. CASE Claim(k)
    BY <1>5 DEF Claim, Await, AwaitWith
  <1>6. CASE Joined(k)
    <2>1. call[k].on \in Calls
      BY <1>6 DEF Joined, Made, JoinsOne
    <2>2. pc[call[k].on] \in {"free", "ok", "failed"}
      BY <1>6, <2>1 DEF Joined, Underway
    <2> QED BY <1>6, <2>2 DEF Joined, AwaitWith
  <1>7. CASE Recheck(k)
    BY <1>7 DEF Recheck, AwaitWith, JoinOrAdmit
  <1>8. CASE \E s \in Sessions : Acquire(k, s)
    <2>1. PICK s \in Sessions : Acquire(k, s)
      BY <1>8
    <2>2. \E l \in {"joined", "claim", "admit", "evict", "probe"} : pc' = [pc EXCEPT ![k] = l]
      BY <2>1 DEF Acquire, JoinOrAdmit
    <2>3. \E r : call' = [call EXCEPT ![k] = r]
      BY <2>1 DEF Acquire, JoinOrAdmit
    <2>4. pc'[k] \notin {"boot", "wprobe"} /\ \A j \in Calls : j # k => pc'[j] = pc[j]
      BY <2>2
    <2> QED BY <2>3, <2>4
  <1> QED BY <1>1, <1>2, <1>3, <1>4, <1>5, <1>6, <1>7, <1>8 DEF CallStep

(* What it does to the map, the sweeper's list, the boots and the bucket.   *)
LEMMA CallActive ==
    ASSUME TypeInv, NEW k \in Calls, CallStep(k) \/ \E s \in Sessions : Acquire(k, s),
           NEW c \in Containers, NEW t \in Sessions, active'[t] = c
    PROVE  \/ active[t] = c
           \/ BootOk(k) /\ c = call[k].own
           \/ WarmClaim(k) /\ c = call[k].own
  <1> USE NoneApart DEF TypeInv, Typed, MapTypes
  <1>1. CASE ProbeFail(k) \/ AdmitEvict(k)
    BY <1>1 DEF ProbeFail, AdmitEvict, EvictSession
  <1>2. CASE BootOk(k) \/ WarmClaim(k)
    BY <1>2 DEF BootOk, WarmClaim
  <1>3. CASE \E s \in Sessions : Acquire(k, s)
    BY <1>3 DEF Acquire, EvictSession
  <1>4. CASE ~(ProbeFail(k) \/ AdmitEvict(k) \/ BootOk(k) \/ WarmClaim(k)) /\ CallStep(k)
    BY <1>4 DEF CallStep, ProbeOk, Recheck, Joined, Admit, AdmitRefuse, Claim, WarmProbeFail, WarmSpoilt,
       ClaimFailed, SpawnOk, SpawnFail, BootStop, BootFailed, Settle
  <1> QED BY <1>1, <1>2, <1>3, <1>4

LEMMA CallRest ==
    ASSUME TypeInv, NEW k \in Calls, CallStep(k) \/ \E s \in Sessions : Acquire(k, s)
    PROVE  /\ sweep'.phase = sweep.phase /\ \A c : Listed(c)' => Listed(c)
           /\ boot' = boot \/ \E cfg : Begins(cfg)
           /\ Thinned
  <1>1. sweep' = sweep \/ sweep' = [sweep EXCEPT !.todo = @ \ {<<sess[k], call[k].own>>}]
    BY DEF Acquire, CallStep, ProbeOk, ProbeFail, Recheck, Joined, Admit, AdmitEvict, AdmitRefuse, Claim,
       WarmProbeFail, WarmClaim, WarmSpoilt, ClaimFailed, SpawnOk, SpawnFail, BootOk, BootStop, BootFailed, Settle
  <1>2. sweep'.phase = sweep.phase /\ sweep'.todo \subseteq sweep.todo
    BY <1>1 DEF TypeInv, Typed, SweepTypes
  <1>3. CASE ClaimFailed(k) \/ WarmClaim(k)
    <2>1. /\ call[k].own \in Containers \cup {None}
          /\ pc[k] \in Looks => Started(call[k].own) /\ config[call[k].own] \in Configs
      BY HasSession DEF TypeInv, Typed, CallTypes, Made, ClaimFits, Looks
    <2>2. \A c \in Containers : mount[c] \in Mounts \cup {None}
      BY DEF TypeInv, Typed, RuntimeTypeOK
    <2>3. boot' = boot \/ \E cfg : Begins(cfg)
      <3>1. CASE ClaimFailed(k)
        BY <2>1, <2>2, <3>1, OrderBegins DEF ClaimFailed, Looks, Started
      <3>2. CASE WarmClaim(k)
        BY <2>1, <2>2, <3>2, OrderBegins DEF WarmClaim, Looks, Started
      <3> QED BY <1>3, <3>1, <3>2
    <2>4. Thinned
      BY <1>3, TakenThins DEF ClaimFailed, WarmClaim
    <2> QED BY <1>2, <2>3, <2>4 DEF Listed
  <1>4. CASE ~(ClaimFailed(k) \/ WarmClaim(k))
    <2>1. boot' = boot
      BY <1>4 DEF Acquire, CallStep, ProbeOk, ProbeFail, Recheck, Joined, Admit, AdmitEvict, AdmitRefuse, Claim,
         WarmProbeFail, WarmSpoilt, SpawnOk, SpawnFail, BootOk, BootStop, BootFailed, Settle, warmVars
    <2>2. warm' = warm \/ \E a : warm' = [warm EXCEPT ![a] = None]
      BY <1>4 DEF Acquire, CallStep, ProbeOk, ProbeFail, Recheck, Joined, Admit, AdmitEvict, AdmitRefuse, Claim,
         WarmProbeFail, WarmSpoilt, SpawnOk, SpawnFail, BootOk, BootStop, BootFailed, Settle, warmVars, ReapWarmEntry
    <2> QED BY <1>2, <2>1, <2>2, TakenThins DEF Listed
  <1> QED BY <1>3, <1>4

(* Whom it stops.                                                           *)
LEMMA CallStops ==
    ASSUME BucketInv, NEW k \in Calls, CallStep(k) \/ \E s \in Sessions : Acquire(k, s), ~SpawnOk(k)
    PROVE  StopsNone
  <1>0. TypeInv /\ \A c \in Containers : Custody(c)
    BY DEF BucketInv
  <1>1. ASSUME NEW s \in Sessions, EvictSession(s) PROVE StopsNone
    <2>1. active[s] \in Containers => Lent(active[s])
      BY DEF Lent
    <2>2. Stop(active[s])
      BY <1>1 DEF EvictSession
    <2>3. CASE active[s] \in Containers
      BY <1>0, <2>1, <2>2, <2>3, CallRest, StopLent
    <2>4. CASE active[s] \notin Containers
      BY <1>0, <2>2, <2>4, OneStop
    <2> QED BY <2>3, <2>4
  <1>2. CASE Claim(k)
    <2> DEFINE a == call[k].cfg[1]
               c == warm[a]
    <2>1. CASE UNCHANGED runtime
      BY <2>1, NoStop
    <2>2. CASE warm' = [warm EXCEPT ![a] = None] /\ Stop(c) /\ c # None
      <3>1. pc[k] # "free" /\ a \in Agents
        BY <1>0, <1>2, HasSession DEF Claim
      <3>2. c \in Containers /\ config[c][1] = a
        BY <1>0, <2>2, <3>1 DEF TypeInv, Typed, WarmTypeOK, Made, EntriesFit, Keys, AgentOf
      <3>3. Offered(c)
        BY <3>1 DEF Offered
      <3> QED BY <2>2, <3>2, <3>3, StopTaken
    <2> QED BY <1>2, <2>1, <2>2 DEF Claim
  <1>3. CASE WarmProbeFail(k) \/ WarmSpoilt(k)
    <2> DEFINE c == call[k].own
    <2>1. pc[k] = "wprobe" /\ Stop(c)
      BY <1>3 DEF WarmProbeFail, WarmSpoilt, ReapWarmEntry
    <2>2. c \in Containers /\ config[c] = call[k].cfg
      BY <1>0, <2>1 DEF TypeInv, Made, ClaimFits, Looks, Started
    <2>3. warm' = [warm EXCEPT ![config[c][1]] = None]
      BY <1>3, <2>2 DEF WarmProbeFail, WarmSpoilt, ReapWarmEntry, AgentOf
    <2>4. Seen(c)
      BY <2>1 DEF Seen, Probing
    <2> QED BY <2>1, <2>3, <2>4, StopTaken
  <1>4. CASE BootStop(k)
    <2>1. Stop(call[k].own) /\ Lent(call[k].own)
      BY <1>4 DEF BootStop, Lent, Booting
    <2> QED BY <1>0, <2>1, CallRest, StopLent
  <1>5. CASE ProbeFail(k)
    <2>1. sess[k] \in Sessions
      BY <1>0, <1>5, HasSession DEF ProbeFail
    <2> QED BY <1>1, <1>5, <2>1, NoStop DEF ProbeFail
  <1>6. CASE AdmitEvict(k)
    BY <1>1, <1>6 DEF AdmitEvict, Victims, Entries
  <1>7. CASE \E s \in Sessions : Acquire(k, s)
    BY <1>1, <1>7, NoStop DEF Acquire
  <1>8. CASE ProbeOk(k) \/ Recheck(k) \/ Joined(k) \/ Admit(k) \/ AdmitRefuse(k) \/ WarmClaim(k) \/ ClaimFailed(k)
             \/ SpawnFail(k) \/ BootOk(k) \/ BootFailed(k) \/ Settle(k)
    BY <1>8, NoStop DEF ProbeOk, Recheck, Joined, Admit, AdmitRefuse, WarmClaim, ClaimFailed, SpawnFail, BootOk,
       BootFailed, Settle
  <1> QED BY <1>2, <1>3, <1>4, <1>5, <1>6, <1>7, <1>8 DEF CallStep

(* The steps of a call, but for the start of a container.                   *)
LEMMA CallBucket ==
    ASSUME BucketInv, NEW k \in Calls, CallStep(k) \/ \E s \in Sessions : Acquire(k, s), ~SpawnOk(k)
    PROVE  BucketInv'
  <1>0. TypeInv /\ TypeInv'
    BY CallStepTypes, AcquireTypes DEF BucketInv
  <1>1. StopsNone
    BY CallStops
  <1>2. /\ sweep'.phase = sweep.phase /\ \A c : Listed(c)' => Listed(c)
        /\ boot' = boot \/ \E cfg : Begins(cfg)
        /\ Thinned
    BY <1>0, CallRest
  <1>3. /\ \A b \in Raising' : b \in Raising /\ boot'[b].own = boot[b].own
        /\ \A c : Evicting(c)' => Evicting(c)
    BY <1>0, <1>2, SameBoots, BegunBoots
  <1>4. \A c \in Containers : Offered(c)' => Offered(c)
    BY <1>0, <1>2, ThinnedOffers
  <1>5. \A c : Booting(c)' => Booting(c)
    BY <1>0, CallOwn DEF Booting
  <1>6. \A c \in Containers : Probing(c)' => Probing(c) \/ Offered(c)
    <2>1. Claim(k) => call[k].cfg[1] \in Agents
      BY <1>0, HasSession DEF Claim
    <2> QED BY <1>0, <2>1, CallOwn DEF Probing, Offered
  <1>7. ASSUME NEW c \in Containers, NEW t \in Sessions, active'[t] = c
        PROVE  Lent(c) \/ (Probing(c) /\ ~Offered(c)')
    <2>1. CASE active[t] = c
      BY <2>1 DEF Lent
    <2>2. CASE BootOk(k) /\ c = call[k].own
      BY <2>2 DEF BootOk, Lent, Booting
    <2>3. CASE WarmClaim(k) /\ c = call[k].own
      <3>1. pc[k] = "wprobe" /\ config[c] = call[k].cfg
        BY <1>0, <2>3 DEF WarmClaim, TypeInv, Made, ClaimFits, Looks
      <3>2. warm' = [warm EXCEPT ![config[c][1]] = None]
        BY <2>3, <3>1 DEF WarmClaim
      <3> QED BY <1>0, <2>3, <3>1, <3>2, TakenOut DEF Probing
    <2> QED BY <1>0, <1>7, <2>1, <2>2, <2>3, CallActive
  <1>8. \A c \in Containers : Lent(c)' => Lent(c) \/ (Probing(c) /\ ~Offered(c)')
    BY <1>2, <1>5, <1>7 DEF Lent
  <1>9. \A c \in Containers : Seen(c)' => Seen(c) \/ Offered(c) \/ Lent(c)
    BY <1>2, <1>3, <1>6 DEF Seen
  <1> QED BY <1>0, <1>1, <1>3, <1>4, <1>8, <1>9, BucketStep

(* The start of a container: nobody knew it before.                         *)
LEMMA SpawnBucket ==
    ASSUME BucketInv, TypeInv', NEW c \in Containers, ctr[c] = "unused", ctr'[c] = "up",
           \A d \in Containers : d # c => ctr'[d] = ctr[d],
           \A d \in Containers : Offered(d)' => Offered(d),
           \A d \in Containers : Seen(d)' => Seen(d),
           \A d \in Containers : Lent(d)' => Lent(d) \/ (d = c /\ ~Raised(d)'),
           \A d \in Containers : Raised(d)' => Raised(d) \/ d = c,
           RaisedApart'
    PROVE  BucketInv'
  <1>1. \A d \in Containers : Custody(d)
    BY DEF BucketInv
  <1>2. ~Offered(c) /\ ~Raised(c) /\ ~Lent(c) /\ ~Seen(c)
    BY <1>1 DEF Custody
  <1>3. ASSUME NEW d \in Containers PROVE Custody(d)'
    <2>1. CASE d = c
      BY <1>2, <2>1 DEF Custody
    <2>2. CASE d # c
      BY <1>1, <2>2 DEF Custody
    <2> QED BY <2>1, <2>2
  <1> QED BY <1>3 DEF BucketInv

LEMMA SpawnOkBucket == ASSUME BucketInv, NEW k \in Calls, SpawnOk(k) PROVE BucketInv'
  <1>0. TypeInv /\ TypeInv' /\ RuntimeTypeOK /\ pc[k] # "free"
    BY CallStepTypes DEF BucketInv, CallStep, SpawnOk, TypeInv, Typed
  <1>1. PICK c \in Containers : Spawn(c, call[k].cfg, None) /\ AwaitWith(k, "boot", c)
    BY DEF SpawnOk
  <1>2. ctr[c] = "unused" /\ ctr'[c] = "up" /\ \A d \in Containers : d # c => ctr'[d] = ctr[d]
    BY <1>0, <1>1, HasSession, SpawnKeeps
  <1>3. UNCHANGED <<boot, warm, active, sweep>>
    BY DEF SpawnOk, warmVars
  <1>4. \A j \in Calls : j # k => pc'[j] = pc[j] /\ call'[j] = call[j]
    BY <1>0, CallOwn DEF CallStep
  <1>5. pc'[k] = "boot" /\ call'[k].own = c
    BY <1>0, <1>1 DEF AwaitWith, TypeInv, Typed, CallTypes
  <1>6. \A d : Offered(d)' <=> Offered(d)
    BY <1>3 DEF Offered
  <1>7. /\ \A d : Raised(d)' <=> Raised(d)
        /\ RaisedApart'
    BY <1>3 DEF Raised, Raising, RaisedApart, BucketInv
  <1>8. \A d : Seen(d)' => Seen(d)
    BY <1>3, <1>4, <1>5 DEF Seen, Probing, Listed, Evicting
  <1>9. ~Raised(c)
    BY <1>2 DEF BucketInv, Custody
  <1>10. \A d \in Containers : Lent(d)' => Lent(d) \/ (d = c /\ ~Raised(d)')
    BY <1>3, <1>4, <1>5, <1>7, <1>9 DEF Lent, Booting, Listed
  <1> QED BY <1>0, <1>2, <1>6, <1>7, <1>8, <1>10, SpawnBucket

(* What the step of a boot does to what boots raise and evict.              *)
LEMMA BootWritten ==
    ASSUME TypeInv, NEW b \in Boots, NEW r, Writes(b, r)
    PROVE  /\ boot'[b] = r /\ \A d \in Boots : d # b => boot'[d] = boot[d]
           /\ \A d \in Raising' : d # b => d \in Raising /\ boot'[d].own = boot[d].own
           /\ r.pc \notin {"boot", "insert"} => b \notin Raising'
           /\ \A c : Evicting(c)' => Evicting(c) \/ (r.pc = "reap" /\ r.evicted = c)
  <1>1. boot \in [Boots -> BootRecords]
    BY DEF TypeInv, Typed, WarmTypeOK, BootRecords
  <1>2. boot'[b] = r /\ \A d \in Boots : d # b => boot'[d] = boot[d]
    BY <1>1 DEF Writes
  <1> QED BY <1>2 DEF Raising, Evicting

(* A boot on its own leaves the calls, the sessions and the sweeper alone.  *)
LEMMA BootFrame ==
    ASSUME NEW b \in Boots, BootAlone(b)
    PROVE  /\ \A c : Lent(c)' <=> Lent(c)
           /\ \A c : Probing(c)' <=> Probing(c)
           /\ \A c : Listed(c)' <=> Listed(c)
  BY DEF BootAlone, sessionVars, Lent, Booting, Probing, Listed

(* The awaits of a boot in which it neither starts nor gives up its own     *)
(* container.                                                               *)
LEMMA BootBucketStep ==
    ASSUME BucketInv, TypeInv', StopsNone, Thinned, NEW b \in Boots, BootAlone(b), NEW r, Writes(b, r),
           r.pc \in {"boot", "insert"} => b \in Raising /\ r.own = boot[b].own,
           r.pc = "reap" => \A c \in Containers : r.evicted = c => Offered(c)
    PROVE  BucketInv'
  <1>0. TypeInv
    BY DEF BucketInv
  <1>1. \A d \in Raising' : d \in Raising /\ boot'[d].own = boot[d].own
    BY <1>0, BootWritten
  <1>2. \A c \in Containers : Offered(c)' => Offered(c)
    BY <1>0, ThinnedOffers
  <1>3. \A c \in Containers : Evicting(c)' => Evicting(c) \/ Offered(c)
    BY <1>0, BootWritten
  <1>4. \A c \in Containers : Seen(c)' => Seen(c) \/ Offered(c)
    BY <1>3, BootFrame DEF Seen
  <1> QED BY <1>1, <1>2, <1>4, BootFrame, BucketStep

LEMMA PlainBootBucket ==
    ASSUME BucketInv, NEW b \in Boots, BootAlone(b),
           ReserveSkip(b) \/ Refused(b) \/ BootReady(b) \/ Discarded(b) \/ Release(b)
    PROVE  BucketInv'
  <1>0. TypeInv /\ TypeInv'
    BY BootTypes DEF BucketInv
  <1>1. PICK l \in {"done", "insert", "release"} :
          At(b, l) /\ (l = "insert" => boot[b].pc = "boot")
    BY DEF ReserveSkip, Refused, BootReady, Discarded, Release, At
  <1>2. PICK r : Writes(b, r) /\ r.pc = l /\ r.own = boot[b].own
    BY <1>0, <1>1, BootAt DEF BootPcs
  <1>3. UNCHANGED <<runtime, warm>>
    BY DEF ReserveSkip, Refused, BootReady, Discarded, Release
  <1>4. StopsNone /\ Thinned
    BY <1>0, <1>3, NoStop, TakenThins
  <1> QED BY <1>0, <1>1, <1>2, <1>4, BootBucketStep DEF Raising

LEMMA ReserveSlotBucket ==
    ASSUME BucketInv, NEW b \in Boots, BootAlone(b), ReserveSlot(b) PROVE BucketInv'
  <1> DEFINE cfg   == boot[b].cfg
             stale == warm[cfg[1]]
             w     == [warm EXCEPT ![cfg[1]] = None]
  <1>0. TypeInv /\ TypeInv' /\ warm \in [Agents -> Containers \cup {None}]
    BY BootTypes DEF BucketInv, TypeInv, Typed, WarmTypeOK
  <1>1. cfg[1] \in Agents /\ stale \in Containers \cup {None}
    BY <1>0, NoneApart DEF ReserveSlot, TypeInv, Made, BootsMade
  <1>2. Thinned /\ warm'[cfg[1]] = None
    <2>1. warm' = w \/ \E a \in Keys(w) : warm' = [w EXCEPT ![a] = None]
      BY DEF ReserveSlot
    <2> QED BY <1>0, <1>1, <2>1 DEF Thinned
  <1>3. StopsNone
    <2>1. CASE stale = None
      BY <2>1, NoStop DEF ReserveSlot
    <2>2. CASE stale # None
      <3>1. stale \in Containers /\ Offered(stale) /\ Stop(stale)
        BY <1>1, <2>2 DEF ReserveSlot, Offered
      <3>2. \A a \in Agents : warm[a] = stale => a = cfg[1]
        BY <1>0, <1>1, <2>2 DEF TypeInv, Made, EntriesFit, Keys, AgentOf
      <3>3. \A a \in Agents : warm'[a] # stale
        BY <1>2, <2>2, <3>2 DEF Thinned
      <3>4. PICK c \in Containers : c = stale
        BY <3>1
      <3>5. ~Offered(c)' /\ ~Raised(c)
        BY <3>1, <3>3, <3>4 DEF Offered, BucketInv, Custody
      <3> QED BY <1>0, <3>1, <3>4, <3>5, OneStop
    <2> QED BY <2>1, <2>2
  <1>4. \E l \in {"reap", "refused"}, e \in Containers \cup {None} :
          /\ With(b, l, stale, e)
          /\ e = None \/ \E a \in Agents : warm[a] = e
    <2>1. \A a \in Keys(w) : a \in Agents /\ w[a] = warm[a] /\ w[a] \in Containers \cup {None}
      BY <1>0, <1>1 DEF Keys
    <2>2. \/ With(b, "reap", stale, None)
          \/ \E a \in Keys(w) : With(b, "reap", stale, w[a])
          \/ With(b, "refused", stale, None)
      BY DEF ReserveSlot, With
    <2> HIDE DEF w, stale
    <2> QED BY <2>1, <2>2
  <1>5. PICK l \in {"reap", "refused"}, e \in Containers \cup {None} :
          /\ With(b, l, stale, e)
          /\ e = None \/ \E a \in Agents : warm[a] = e
    BY <1>4
  <1>6. PICK r : Writes(b, r) /\ r.pc \in {"reap", "refused"} /\ r.evicted = e
    <2>1. l \in BootPcs
      BY DEF BootPcs
    <2>2. With(b, l, stale, e)
      BY <1>5
    <2> HIDE DEF stale
    <2>3. \E r : Writes(b, r) /\ r.pc = l /\ r.own = stale /\ r.evicted = e
      BY <1>0, <1>1, <2>1, <2>2, BootWith
    <2> QED BY <2>3
  <1>7. \A c \in Containers : r.evicted = c => Offered(c)
    BY <1>5, <1>6, NoneApart DEF Offered
  <1> QED BY <1>0, <1>2, <1>3, <1>6, <1>7, BootBucketStep

LEMMA ReapEvictedBucket ==
    ASSUME BucketInv, NEW b \in Boots, BootAlone(b), ReapEvicted(b) PROVE BucketInv'
  <1>0. TypeInv /\ TypeInv'
    BY BootTypes DEF BucketInv
  <1> DEFINE c == boot[b].evicted
  <1>1. boot[b].pc = "reap" /\ Stop(c) /\ warm' = [warm EXCEPT ![config[c][1]] = None]
    BY DEF ReapEvicted, ReapWarmEntry, AgentOf
  <1>2. Seen(c)
    BY <1>1 DEF Seen, Evicting
  <1>3. StopsNone /\ Thinned
    BY <1>0, <1>1, <1>2, StopTaken, TakenThins
  <1>4. PICK r : Writes(b, r) /\ r.pc = "reap" /\ r.evicted = None
    BY <1>0, BootNext
  <1> QED BY <1>0, <1>3, <1>4, NoneApart, BootBucketStep

LEMMA BootStartBucket ==
    ASSUME BucketInv, NEW b \in Boots, BootAlone(b), BootStart(b) PROVE BucketInv'
  <1>0. TypeInv /\ TypeInv' /\ RuntimeTypeOK
    BY BootTypes DEF BucketInv, TypeInv, Typed
  <1>1. /\ boot[b].pc = "reap" /\ boot[b].cfg \in Configs /\ boot[b].dir \in Mounts
        /\ UNCHANGED warm /\ b \notin Raising
    BY <1>0 DEF BootStart, TypeInv, Made, BootsMade, Raising
  <1>2. CASE At(b, "release") /\ UNCHANGED runtime
    <2>1. PICK r : Writes(b, r) /\ r.pc = "release"
      BY <1>0, <1>2, BootAt DEF BootPcs
    <2>2. StopsNone /\ Thinned
      BY <1>0, <1>1, <1>2, NoStop, TakenThins
    <2> QED BY <1>0, <2>1, <2>2, BootBucketStep
  <1>3. ASSUME NEW c \in Containers, Spawn(c, boot[b].cfg, boot[b].dir), Raises(b, c) PROVE BucketInv'
    <2>1. ctr[c] = "unused" /\ ctr'[c] = "up" /\ \A d \in Containers : d # c => ctr'[d] = ctr[d]
      BY <1>0, <1>1, <1>3, SpawnKeeps
    <2>2. PICK r : Writes(b, r) /\ r.pc = "boot" /\ r.own = c
      BY <1>0, <1>3, BootRaises
    <2>3. /\ boot'[b].own = c
          /\ \A d \in Raising' : d # b => d \in Raising /\ boot'[d].own = boot[d].own
          /\ \A d : Evicting(d)' => Evicting(d)
      BY <1>0, <2>2, BootWritten
    <2>4. \A d \in Containers : Offered(d)' => Offered(d)
      BY <1>1 DEF Offered
    <2>5. \A d \in Containers : Seen(d)' => Seen(d)
      BY <2>3, BootFrame DEF Seen
    <2>6. \A d \in Containers : Raised(d)' => Raised(d) \/ d = c
      BY <2>3 DEF Raised
    <2>7. ~Raised(c)
      BY <2>1 DEF BucketInv, Custody
    <2>8. RaisedApart'
      BY <2>3, <2>7 DEF RaisedApart, Raised, BucketInv
    <2>9. \A d \in Containers : Lent(d)' => Lent(d)
      BY BootFrame
    <2> QED BY <1>0, <2>1, <2>4, <2>5, <2>6, <2>8, <2>9, SpawnBucket
  <1> QED BY <1>2, <1>3 DEF BootStart, At, Raises

(* A boot that gives up its container, to the bucket or for a stop.         *)
LEMMA GivesUp ==
    ASSUME BucketInv, NEW b \in Raising, BootAlone(b), NEW l \in {"release", "discard"}, At(b, l),
           NEW o, o = boot[b].own
    PROVE  /\ o \in Containers /\ ctr[o] = "up" /\ ~Offered(o) /\ ~Lent(o) /\ ~Seen(o)
           /\ RaisedApart'
           /\ \A c : Raised(c)' => Raised(c) /\ c # o
           /\ \A c : Seen(c)' => Seen(c)
           /\ \A c : Lent(c)' <=> Lent(c)
  <1>0. TypeInv /\ b \in Boots
    BY DEF BucketInv, Raising
  <1>1. o \in Containers /\ Raised(o)
    BY <1>0 DEF TypeInv, Made, RaisesOne, Started, Raised
  <1>2. ctr[o] = "up" /\ ~Offered(o) /\ ~Lent(o) /\ ~Seen(o)
    BY <1>1 DEF BucketInv, Custody
  <1>3. PICK r : Writes(b, r) /\ r.pc = l
    BY <1>0, BootAt DEF BootPcs
  <1>4. /\ \A d \in Raising' : d # b /\ d \in Raising /\ boot'[d].own = boot[d].own
        /\ \A c : Evicting(c)' => Evicting(c)
    BY <1>0, <1>3, BootWritten
  <1>5. RaisedApart' /\ \A c : Raised(c)' => Raised(c) /\ c # o
    BY <1>4 DEF BucketInv, RaisedApart, Raised
  <1>6. \A c : Seen(c)' => Seen(c)
    BY <1>0, <1>4, BootFrame DEF Seen
  <1> QED BY <1>0, <1>1, <1>2, <1>5, <1>6, BootFrame

LEMMA DiscardBucket ==
    ASSUME BucketInv, NEW b \in Raising, BootAlone(b), Discard(b) PROVE BucketInv'
  <1>0. b \in Boots /\ TypeInv /\ TypeInv'
    BY BootTypes DEF BucketInv, Raising
  <1>1. PICK o : o = boot[b].own
    OBVIOUS
  <1>2. Stop(o) /\ At(b, "discard") /\ UNCHANGED warm
    BY <1>1 DEF Discard, At
  <1>3. /\ o \in Containers /\ ctr[o] = "up" /\ ~Offered(o) /\ ~Lent(o) /\ ~Seen(o)
        /\ RaisedApart'
        /\ \A c : Raised(c)' => Raised(c) /\ c # o
        /\ \A c : Seen(c)' => Seen(c)
        /\ \A c : Lent(c)' <=> Lent(c)
    BY <1>1, <1>2, GivesUp
  <1>4. \A c : Offered(c)' <=> Offered(c)
    BY <1>2 DEF Offered
  <1>5. \A c \in Containers : c # o => ctr'[c] = ctr[c]
    BY <1>0, <1>2 DEF Stop, TypeInv, Typed, RuntimeTypeOK
  <1>6. ASSUME NEW c \in Containers PROVE Custody(c)'
    <2>1. Custody(c)
      BY DEF BucketInv
    <2> QED BY <1>3, <1>4, <1>5, <2>1 DEF Custody
  <1> QED BY <1>0, <1>3, <1>6 DEF BucketInv

LEMMA InsertBucket ==
    ASSUME BucketInv, NEW b \in Boots, BootAlone(b), Insert(b), ~Discard(b) PROVE BucketInv'
  <1>0. TypeInv /\ TypeInv' /\ b \in Raising
    BY BootTypes DEF BucketInv, Raising, Insert
  <1>1. PICK o : o = boot[b].own
    OBVIOUS
  <1>2. warm' = [warm EXCEPT ![boot[b].cfg[1]] = o] /\ At(b, "release") /\ UNCHANGED runtime
    BY <1>1 DEF Insert, At
  <1>3. /\ o \in Containers /\ ctr[o] = "up" /\ ~Offered(o) /\ ~Lent(o) /\ ~Seen(o)
        /\ RaisedApart'
        /\ \A c : Raised(c)' => Raised(c) /\ c # o
        /\ \A c : Seen(c)' => Seen(c)
        /\ \A c : Lent(c)' <=> Lent(c)
    BY <1>0, <1>1, <1>2, GivesUp
  <1>4. \A c : Offered(c)' => Offered(c) \/ c = o
    BY <1>0, <1>2 DEF Offered, TypeInv, Typed, WarmTypeOK
  <1>5. ctr' = ctr
    BY <1>2 DEF runtime
  <1>6. ASSUME NEW c \in Containers PROVE Custody(c)'
    <2>1. Custody(c)
      BY DEF BucketInv
    <2> QED BY <1>3, <1>4, <1>5, <2>1 DEF Custody
  <1> QED BY <1>0, <1>3, <1>6 DEF BucketInv

LEMMA BootBucket == ASSUME BucketInv, NEW b \in Boots, BootAlone(b) PROVE BucketInv'
  <1>1. BootFail(b) \/ Insert(b) => b \in Raising
    BY DEF BootFail, Insert, Raising
  <1>2. CASE BootFail(b) \/ (Insert(b) /\ Discard(b))
    BY <1>1, <1>2, DiscardBucket DEF BootFail
  <1>3. CASE Insert(b) /\ ~Discard(b)
    BY <1>3, InsertBucket
  <1> QED BY <1>2, <1>3, PlainBootBucket, ReserveSlotBucket, ReapEvictedBucket, BootStartBucket
          DEF BootAlone, BootStep

(* The router's steps on the bucket and on the sessions.                    *)
LEMMA RouterBucket ==
    ASSUME BucketInv, NEW s \in Sessions, RunEnds(s) \/ Evict(s) PROVE BucketInv'
  <1>0. TypeInv /\ TypeInv' /\ active \in [Sessions -> Containers \cup {None}]
    BY RouterTypes DEF BucketInv, TypeInv, Typed, MapTypes
  <1>1. UNCHANGED <<warm, boot, pc, call, sweep>>
    BY DEF RunEnds, Evict, warmVars
  <1>2. active' = active \/ active' = [active EXCEPT ![s] = None]
    BY DEF RunEnds, Evict, EvictSession
  <1>3. Thinned
    BY <1>0, <1>1, TakenThins
  <1>4. StopsNone
    <2>1. CASE RunEnds(s)
      BY <2>1, NoStop DEF RunEnds
    <2>2. CASE Evict(s)
      <3>1. Lent(active[s]) /\ Stop(active[s])
        BY <1>0, <2>2 DEF Evict, EvictSession, Lent
      <3> QED BY <1>3, <3>1, StopLent
    <2> QED BY <2>1, <2>2
  <1>5. \A c \in Containers : Lent(c)' => Lent(c)
    BY <1>0, <1>1, <1>2, NoneApart DEF Lent, Booting, Listed
  <1>6. \A c : Seen(c)' <=> Seen(c)
    BY <1>1 DEF Seen, Probing, Listed, Evicting
  <1> QED BY <1>0, <1>1, <1>3, <1>4, <1>5, <1>6, SameBoots, ThinnedOffers, BucketStep

(* The steps that leave the calls, the sessions and the sweeper alone.      *)
LEMMA QuietBucket ==
    ASSUME BucketInv, TypeInv', StopsNone, Thinned, UNCHANGED <<pc, call, active, sweep>>,
           boot' = boot \/ \E cfg : Begins(cfg)
    PROVE  BucketInv'
  <1>0. TypeInv
    BY DEF BucketInv
  <1>1. /\ \A b \in Raising' : b \in Raising /\ boot'[b].own = boot[b].own
        /\ \A c : Evicting(c)' => Evicting(c)
    BY <1>0, SameBoots, BegunBoots
  <1>2. \A c : Lent(c)' <=> Lent(c)
    BY DEF Lent, Booting, Listed
  <1>3. \A c : Seen(c)' => Seen(c)
    BY <1>1 DEF Seen, Probing, Listed
  <1> QED BY <1>0, <1>1, <1>2, <1>3, ThinnedOffers, BucketStep

LEMMA OrderBucket ==
    ASSUME BucketInv, NEW a \in Agents, Warm(a) \/ Patch(a) \/ Drop(a) PROVE BucketInv'
  <1>0. TypeInv /\ TypeInv'
    BY OrderTypes, DropTypes DEF BucketInv
  <1>1. UNCHANGED <<pc, call, active, sweep>>
    BY DEF Warm, Patch, Drop, sessionVars
  <1>2. \/ UNCHANGED <<warm, runtime>>
        \/ warm[a] # None /\ ReapWarmEntry(warm[a])
    BY DEF Warm, Patch, Drop, DropWarm
  <1>3. StopsNone
    <2>1. CASE UNCHANGED runtime
      BY <2>1, NoStop
    <2>2. CASE ReapWarmEntry(warm[a])
      <3>1. Offered(warm[a])
        BY DEF Offered
      <3> QED BY <2>2, <3>1, StopTaken DEF ReapWarmEntry, AgentOf
    <2> QED BY <1>2, <2>1, <2>2
  <1>4. Thinned
    BY <1>0, <1>2, TakenThins DEF ReapWarmEntry
  <1>5. boot' = boot \/ \E cfg : Begins(cfg)
    <2>1. CASE Drop(a)
      BY <2>1 DEF Drop
    <2>2. CASE Warm(a) \/ Patch(a)
      <3>1. template[a] \in Versions
        BY <1>0 DEF TypeInv, Typed, StoreTypes
      <3>2. PICK w : \E v \in Versions : WarmForAgent(w, <<a, v>>, None)
        BY <2>2, <3>1 DEF Warm, Patch
      <3>3. PICK v \in Versions : WarmForAgent(w, <<a, v>>, None)
        BY <3>2
      <3>4. PICK f \in Configs : f = <<a, v>>
        BY DEF Configs
      <3> QED BY <1>0, <3>3, <3>4, OrderBegins
    <2> QED BY <2>1, <2>2
  <1> QED BY <1>0, <1>1, <1>3, <1>4, <1>5, QuietBucket

(* The sweeper.                                                             *)
LEMMA SweepBucket == ASSUME BucketInv, SweepStep PROVE BucketInv'
  <1>0. /\ TypeInv /\ TypeInv'
        /\ active \in [Sessions -> Containers \cup {None}]
        /\ warm \in [Agents -> Containers \cup {None}]
        /\ SweepTypes
    BY SweepStepTypes DEF BucketInv, TypeInv, Typed, MapTypes, WarmTypeOK
  <1>1. UNCHANGED <<boot, pc, call>>
    BY DEF SweepStep, SweepStart, SweepStopped, SweepWarmStart, SweepEnd, SweepReap, SweepReapWarm, sweepOthers
  <1>2. /\ \A c : Booting(c)' <=> Booting(c)
        /\ \A c : Probing(c)' <=> Probing(c)
    BY <1>1 DEF Booting, Probing
  <1>3. CASE SweepStopped \/ SweepEnd
    <2>1. /\ UNCHANGED <<runtime, warm, active>> /\ sweep'.todo = sweep.todo
          /\ sweep'.phase = sweep.phase \/ sweep'.phase = "off"
      BY <1>0, <1>3 DEF SweepStopped, SweepEnd, SweepTypes
    <2>2. StopsNone /\ Thinned
      BY <1>0, <2>1, NoStop, TakenThins
    <2>3. \A c : Lent(c)' => Lent(c)
      BY <1>2, <2>1 DEF Lent, Listed
    <2>4. \A c : Seen(c)' <=> Seen(c)
      BY <1>1, <1>2, <2>1 DEF Seen, Listed, Evicting
    <2> QED BY <1>0, <1>1, <2>2, <2>3, <2>4, SameBoots, ThinnedOffers, BucketStep
  <1>4. CASE SweepStart
    <2>1. UNCHANGED <<runtime, warm, active>>
      BY <1>4 DEF SweepStart
    <2>2. StopsNone /\ Thinned
      BY <1>0, <2>1, NoStop, TakenThins
    <2>3. \A e \in sweep'.todo : \E s \in Sessions : e[2] = active[s]
      BY <1>0, <1>4 DEF SweepStart, SweepTypes, Entries
    <2>4. \A c : Listed(c)' => Lent(c)
      BY <2>3 DEF Listed, Lent
    <2>5. \A c : Lent(c)' => Lent(c)
      BY <1>2, <2>1, <2>4 DEF Lent
    <2>6. \A c : Seen(c)' => Seen(c) \/ Lent(c)
      BY <1>1, <1>2, <2>4 DEF Seen, Evicting
    <2> QED BY <1>0, <1>1, <2>2, <2>5, <2>6, SameBoots, ThinnedOffers, BucketStep
  <1>5. CASE SweepWarmStart
    <2>1. UNCHANGED <<runtime, warm, active>>
      BY <1>5 DEF SweepWarmStart
    <2>2. StopsNone /\ Thinned
      BY <1>0, <2>1, NoStop, TakenThins
    <2>3. /\ sweep'.phase = "warm"
          /\ \A e \in sweep'.todo : \E a \in Agents : e[2] = warm[a]
      BY <1>0, <1>5 DEF SweepWarmStart, SweepTypes, Keys
    <2>4. \A c : Listed(c)' => Offered(c)
      BY <2>3 DEF Listed, Offered
    <2>5. \A c : Lent(c)' => Lent(c)
      BY <1>2, <2>1, <2>3 DEF Lent
    <2>6. \A c : Seen(c)' => Seen(c) \/ Offered(c)
      BY <1>1, <1>2, <2>4 DEF Seen, Evicting
    <2> QED BY <1>0, <1>1, <2>2, <2>5, <2>6, SameBoots, ThinnedOffers, BucketStep
  <1>6. ASSUME NEW s \in Sessions, SweepReap(s) PROVE BucketInv'
    <2>1. /\ sweep.phase = "active" /\ sweep'.phase = "active" /\ UNCHANGED warm
          /\ sweep'.todo \subseteq sweep.todo
      <3>1. PICK e \in sweep.todo :
              \/ sweep' = [sweep EXCEPT !.todo = @ \ {e}, !.own = e[2], !.of = s]
              \/ sweep' = [sweep EXCEPT !.todo = @ \ {e}]
        BY <1>6 DEF SweepReap
      <3>2. sweep.phase = "active" /\ UNCHANGED warm
        BY <1>6 DEF SweepReap
      <3>3. sweep'.phase = sweep.phase /\ sweep'.todo = sweep.todo \ {e}
        BY <1>0, <3>1 DEF SweepTypes
      <3> QED BY <3>2, <3>3
    <2>2. active' = active \/ active' = [active EXCEPT ![s] = None]
      BY <1>6 DEF SweepReap
    <2>3. Thinned
      BY <1>0, <2>1, TakenThins
    <2>4. StopsNone
      <3>1. UNCHANGED runtime \/ \E e \in sweep.todo : Stop(e[2])
        BY <1>6 DEF SweepReap
      <3>2. ASSUME NEW e \in sweep.todo, Stop(e[2]) PROVE StopsNone
        <4>1. Lent(e[2])
          BY <2>1 DEF Lent, Listed
        <4> QED BY <2>3, <3>2, <4>1, StopLent
      <3> QED BY <3>1, <3>2, NoStop
    <2>5. \A c : Listed(c)' => Listed(c)
      BY <2>1 DEF Listed
    <2>6. \A c \in Containers : Lent(c)' => Lent(c)
      BY <1>0, <1>2, <2>1, <2>2, <2>5, NoneApart DEF Lent
    <2>7. \A c : Seen(c)' => Seen(c)
      BY <1>1, <1>2, <2>5 DEF Seen, Evicting
    <2> QED BY <1>0, <1>1, <2>3, <2>4, <2>6, <2>7, SameBoots, ThinnedOffers, BucketStep
  <1>7. ASSUME NEW a \in Agents, SweepReapWarm(a) PROVE BucketInv'
    <2>1. PICK e \in sweep.todo :
            /\ ReapWarmEntry(e[2])
            /\ sweep' = [sweep EXCEPT !.todo = @ \ {e}, !.own = e[2]]
      BY <1>7 DEF SweepReapWarm
    <2>2. sweep'.phase = sweep.phase /\ sweep'.todo \subseteq sweep.todo /\ UNCHANGED active
      BY <1>0, <1>7, <2>1 DEF SweepReapWarm, SweepTypes
    <2>3. Thinned
      BY <1>0, <2>1, TakenThins DEF ReapWarmEntry
    <2>4. Seen(e[2])
      BY DEF Seen, Listed
    <2>5. StopsNone
      BY <2>1, <2>4, StopTaken DEF ReapWarmEntry, AgentOf
    <2>6. \A c : Listed(c)' => Listed(c)
      BY <2>2 DEF Listed
    <2>7. \A c : Lent(c)' => Lent(c)
      BY <1>2, <2>2, <2>6 DEF Lent
    <2>8. \A c : Seen(c)' => Seen(c)
      BY <1>1, <1>2, <2>6 DEF Seen, Evicting
    <2> QED BY <1>0, <1>1, <2>3, <2>5, <2>7, <2>8, SameBoots, ThinnedOffers, BucketStep
  <1> QED BY <1>3, <1>4, <1>5, <1>6, <1>7 DEF SweepStep

(* The shutdown empties the bucket and stops what was in it.                *)
LEMMA ShutdownBucket ==
    ASSUME BucketInv, ShutdownStart \/ ShutdownStop \/ Exit PROVE BucketInv'
  <1>0. TypeInv /\ TypeInv' /\ RuntimeTypeOK
    BY ShutdownTypes DEF BucketInv, TypeInv, Typed
  <1>1. CASE ShutdownStart \/ Exit
    <2>1. UNCHANGED <<runtime, warm, boot, pc, call, active, sweep>>
      BY <1>1 DEF ShutdownStart, Exit, warmVars, sessionVars
    <2>2. StopsNone /\ Thinned
      BY <1>0, <2>1, NoStop, TakenThins
    <2> QED BY <1>0, <2>1, <2>2, QuietBucket
  <1>2. CASE ShutdownStop
    <2>1. /\ UNCHANGED <<boot, pc, call, sweep>>
          /\ active' = [s \in Sessions |-> None] /\ warm' = [a \in Agents |-> None]
      BY <1>2 DEF ShutdownStop
    <2>2. \A c \in Containers : ~Offered(c)'
      BY <2>1, NoneApart DEF Offered
    <2>3. StopsNone
      <3>1. ASSUME NEW c \in Containers, ctr'[c] # ctr[c]
            PROVE  ctr[c] = "up" /\ ctr'[c] = "stopping" /\ (Lent(c) \/ Offered(c))
        <4>1. ctr[c] = "up" /\ ctr'[c] = "stopping"
              /\ c \in {active[s] : s \in Entries} \cup {warm[a] : a \in Keys(warm)}
          BY <1>2, <3>1 DEF ShutdownStop
        <4>2. Keys(warm) \subseteq Agents
          BY <1>0 DEF Keys, TypeInv, Typed, WarmTypeOK
        <4> QED BY <4>1, <4>2 DEF Lent, Offered, Entries
      <3> QED BY <2>2, <3>1 DEF StopsNone, BucketInv, Custody
    <2>4. \A c \in Containers : Lent(c)' => Lent(c)
      BY <2>1, NoneApart DEF Lent, Booting, Listed
    <2>5. \A c : Seen(c)' <=> Seen(c)
      BY <2>1 DEF Seen, Probing, Listed, Evicting
    <2> QED BY <1>0, <2>1, <2>2, <2>3, <2>4, <2>5, SameBoots, BucketStep
  <1> QED BY <1>1, <1>2

LEMMA DockerBucket ==
    ASSUME BucketInv, (\E c \in Containers : Docker(c)) \/ UNCHANGED poolVars PROVE BucketInv'
  <1>0. TypeInv /\ TypeInv' /\ RuntimeTypeOK
    BY DockerTypes, StutterTypes DEF BucketInv, TypeInv, Typed
  <1>1. UNCHANGED <<warm, boot, pc, call, active, sweep>>
    BY DEF Docker, poolVars, warmVars, sessionVars
  <1>2. StopsNone
    BY <1>0, NoStop DEF Docker, StopEnds, StopsNone, poolVars, RuntimeTypeOK
  <1>3. Thinned
    BY <1>0, <1>1, TakenThins
  <1> QED BY <1>0, <1>1, <1>2, <1>3, QuietBucket

LEMMA BucketInit == Init => BucketInv
  <1> SUFFICES ASSUME Init PROVE BucketInv
    OBVIOUS
  <1>1. /\ \A a \in Agents : warm[a] = None
        /\ \A s \in Sessions : active[s] = None
        /\ \A k \in Calls : pc[k] = "free"
        /\ \A b \in Boots : boot[b].pc = "free"
        /\ sweep.todo = {}
    BY DEF Init, WarmInit
  <1>2. \A c \in Containers : ~Offered(c) /\ ~Lent(c) /\ ~Seen(c)
    BY <1>1, NoneApart DEF Offered, Lent, Seen, Booting, Probing, Listed, Evicting
  <1>3. Raising = {}
    BY <1>1 DEF Raising
  <1> QED BY <1>2, <1>3, TypeInit DEF BucketInv, RaisedApart, Custody, Raised

LEMMA BucketNext == ASSUME BucketInv, [Next]_poolVars PROVE BucketInv'
  BY SpawnOkBucket, CallBucket, BootBucket, RouterBucket, OrderBucket, SweepBucket, ShutdownBucket,
     DockerBucket DEF Next, CallSteps, RouterStep

(* Whatever claims, boots, evictions, updates, sweeps and the shutdown do,  *)
(* a container the bucket offers is up (pool.ts:447-482, 613-661).          *)
THEOREM OfferedIsUp == Spec => []WarmAlive
  <1>1. BucketInv => WarmAlive
    <2> SUFFICES ASSUME BucketInv, NEW a \in Keys(warm) PROVE ctr[warm[a]] = "up"
      BY DEF WarmAlive
    <2>1. a \in Agents /\ warm[a] \in Containers
      BY DEF BucketInv, TypeInv, Typed, WarmTypeOK, Keys
    <2> QED BY <2>1 DEF BucketInv, Custody, Offered
  <1> QED BY <1>1, BucketInit, BucketNext, PTL DEF Spec

----------------------------------------------------------------------------
(* The account of the slots.  A boot holds a slot from its reservation to   *)
(* its release; it is ahead of its entry until it has been inserted.        *)

AheadPcs == {"reap", "boot", "insert"}
HoldPcs == AheadPcs \cup {"discard", "release"}

Holding == {b \in Boots : boot[b].pc \in HoldPcs}
Ahead == {b \in Boots : boot[b].pc \in AheadPcs}

(* The agents with an entry or with a boot ahead of one.                    *)
Occupied == Keys(warm) \cup {boot[b].cfg[1] : b \in Ahead}

SlotsHeld ==
    \A a \in Keys(slots) : slots[a][1] = a /\ \E b \in Holding : boot[b].cfg = slots[a]

FlightsHeld ==
    \A a \in Keys(inflight) : inflight[a] \in Holding /\ boot[inflight[a]].cfg[1] = a

FewOccupied == IsFiniteSet(Keys(slots)) /\ IsFiniteSet(Occupied)

(* The rest holds as long as every agent has the version it began with.     *)
Current(cfg) == cfg[2] = template[cfg[1]]

CallsCurrent == \A k \in Calls : pc[k] # "free" => Current(call[k].cfg)
BootsCurrent == \A b \in Boots : boot[b].pc # "free" => Current(boot[b].cfg)
SlotsTrue == \A b \in Holding : slots[boot[b].cfg[1]] = boot[b].cfg
HoldApart == \A b, d \in Holding : boot[b].cfg = boot[d].cfg => b = d
AheadEmpty == \A b \in Ahead : warm[boot[b].cfg[1]] = None
WithinCap == Cardinality(Occupied) <= MaxWarm

Account == CallsCurrent /\ BootsCurrent /\ SlotsTrue /\ HoldApart /\ AheadEmpty /\ WithinCap

SlotInv == TypeInv /\ SlotsHeld /\ FlightsHeld /\ FewOccupied /\ (patches = 0 => Account)

(* Boots of one agent have one configuration.                               *)
LEMMA SameAgent ==
    ASSUME TypeInv, BootsCurrent, NEW b \in Boots, NEW d \in Boots,
           boot[b].pc # "free", boot[d].pc # "free", boot[b].cfg[1] = boot[d].cfg[1]
    PROVE  boot[b].cfg = boot[d].cfg
  <1>1. boot[b].cfg \in Configs /\ boot[d].cfg \in Configs
    BY DEF TypeInv, Made, BootsMade
  <1>2. boot[b].cfg[2] = boot[d].cfg[2]
    BY DEF BootsCurrent, Current
  <1> QED BY <1>1, <1>2, NoneApart

(* The steps that neither reserve nor release.                              *)
LEMMA HoldStep ==
    ASSUME SlotInv, TypeInv', UNCHANGED slots, FlightsHeld',
           Holding' = Holding, \A b \in Holding : boot'[b].cfg = boot[b].cfg,
           Occupied' \subseteq Occupied,
           patches' = 0 => patches = 0 /\ (Account => CallsCurrent' /\ BootsCurrent' /\ AheadEmpty')
    PROVE  SlotInv'
  <1>1. SlotsHeld'
    <2> SUFFICES ASSUME NEW a \in Keys(slots)
                 PROVE  slots[a][1] = a /\ \E b \in Holding' : boot'[b].cfg = slots[a]
      BY DEF SlotsHeld, Keys
    <2> QED BY DEF SlotInv, SlotsHeld
  <1>2. FewOccupied' /\ Cardinality(Occupied') <= Cardinality(Occupied)
        /\ Cardinality(Occupied) \in Nat /\ Cardinality(Occupied') \in Nat
    BY FS_Subset, FS_CardinalityType DEF SlotInv, FewOccupied, Keys
  <1>3. patches' = 0 => Account'
    <2> SUFFICES ASSUME patches' = 0 PROVE Account'
      OBVIOUS
    <2>1. Account
      BY DEF SlotInv
    <2>2. SlotsTrue' /\ HoldApart'
      BY <2>1 DEF Account, SlotsTrue, HoldApart
    <2>3. WithinCap'
      BY <1>2, <2>1, WarmAssumption DEF Account, WithinCap
    <2> QED BY <2>1, <2>2, <2>3 DEF Account
  <1> QED BY <1>1, <1>2, <1>3 DEF SlotInv

(* A bucket that loses entries occupies no more.                            *)
LEMMA ThinnedKeys ==
    ASSUME TypeInv, Thinned PROVE Keys(warm)' \subseteq Keys(warm)
  BY ThinnedFits DEF Thinned, Keys, TypeInv, Typed, WarmTypeOK

(* Of the other actors, calls and router, a step may begin a boot, of the   *)
(* version its agent has.                                                   *)
NotBoot ==
    /\ UNCHANGED <<slots, inflight>> /\ Thinned
    /\ boot' = boot \/ \E cfg \in Configs : Begins(cfg) /\ (patches' = 0 /\ Account => Current(cfg))
    /\ patches' = 0 => patches = 0 /\ template' = template /\ (Account => CallsCurrent')

LEMMA NotBootSlots == ASSUME SlotInv, TypeInv', NotBoot PROVE SlotInv'
  <1>0. TypeInv
    BY DEF SlotInv
  <1>1. /\ Holding' = Holding /\ Ahead' = Ahead
        /\ \A b \in Boots : boot[b].pc # "free" => boot'[b].pc # "free" /\ boot'[b].cfg = boot[b].cfg
        /\ patches' = 0 /\ Account => BootsCurrent'
    <2>1. CASE boot' = boot
      BY <2>1 DEF Holding, Ahead, NotBoot, Account, BootsCurrent, Current
    <2>2. CASE boot' # boot
      <3>1. PICK cfg \in Configs : Begins(cfg) /\ (patches' = 0 /\ Account => Current(cfg))
        BY <2>2 DEF NotBoot
      <3>2. PICK b \in Boots, d \in Mounts :
              /\ boot[b].pc = "free"
              /\ boot' = [boot EXCEPT ![b].pc = "reserve", ![b].cfg = cfg, ![b].dir = d]
        BY <2>2, <3>1 DEF Begins
      <3>3. boot \in [Boots -> BootRecords]
        BY <1>0 DEF TypeInv, Typed, WarmTypeOK, BootRecords
      <3>4. /\ boot'[b].pc = "reserve" /\ boot'[b].cfg = cfg
            /\ \A e \in Boots : e # b => boot'[e] = boot[e]
        BY <3>2, <3>3 DEF BootRecords
      <3>5. patches' = 0 /\ Account => BootsCurrent'
        BY <3>1, <3>4 DEF NotBoot, Account, BootsCurrent, Current
      <3> QED BY <3>2, <3>4, <3>5 DEF Holding, Ahead, HoldPcs, AheadPcs
    <2> QED BY <2>1, <2>2
  <1>2. \A b \in Holding : boot'[b].cfg = boot[b].cfg
    BY <1>1 DEF Holding, HoldPcs, AheadPcs
  <1>3. FlightsHeld'
    BY <1>1, <1>2 DEF NotBoot, SlotInv, FlightsHeld, Keys
  <1>4. Keys(warm)' \subseteq Keys(warm)
    BY <1>0, ThinnedKeys DEF NotBoot
  <1>5. \A b \in Ahead : boot'[b].cfg = boot[b].cfg /\ boot[b].cfg[1] \in Agents
    BY <1>0, <1>1, NoneApart DEF Ahead, AheadPcs, TypeInv, Made, BootsMade
  <1>6. Occupied' \subseteq Occupied
    BY <1>1, <1>4, <1>5 DEF Occupied
  <1>7. Account => AheadEmpty'
    BY <1>1, <1>5 DEF NotBoot, Thinned, Account, AheadEmpty
  <1> QED BY <1>1, <1>2, <1>3, <1>6, <1>7, HoldStep DEF NotBoot

(* The calls keep their configuration.                                      *)
LEMMA CallKeeps ==
    ASSUME TypeInv, NEW k \in Calls, CallStep(k)
    PROVE  /\ pc[k] # "free" /\ call'[k].cfg = call[k].cfg
           /\ \A j \in Calls : j # k => pc'[j] = pc[j] /\ call'[j] = call[j]
           /\ UNCHANGED <<slots, inflight, template, patches>>
  <1> USE DEF TypeInv, Typed, CallTypes, others
  <1>1. CASE ProbeOk(k) \/ ProbeFail(k) \/ Joined(k) \/ Admit(k) \/ AdmitEvict(k) \/ AdmitRefuse(k)
    BY <1>1, CallOwn DEF ProbeOk, ProbeFail, Joined, Admit, AdmitEvict, AdmitRefuse, MayPass, Await, AwaitWith,
       warmVars, CallStep
  <1>2. CASE WarmProbeFail(k) \/ WarmClaim(k) \/ WarmSpoilt(k) \/ ClaimFailed(k)
    BY <1>2, CallOwn DEF WarmProbeFail, WarmClaim, WarmSpoilt, ClaimFailed, Await, AwaitWith, Won, CallStep
  <1>5. CASE Claim(k)
    <2>1. Await(k, "spawn") \/ \E l, c : AwaitWith(k, l, c)
      BY <1>5 DEF Claim
    <2>2. call'[k].cfg = call[k].cfg
      BY <2>1 DEF Await, AwaitWith
    <2>3. pc[k] # "free" /\ UNCHANGED <<slots, inflight, template, patches>>
      BY <1>5 DEF Claim
    <2> QED BY <1>5, <2>2, <2>3, CallOwn DEF CallStep
  <1>3. CASE SpawnOk(k) \/ SpawnFail(k) \/ BootOk(k) \/ BootStop(k) \/ BootFailed(k) \/ Settle(k)
    BY <1>3, CallOwn DEF SpawnOk, SpawnFail, BootOk, BootStop, BootFailed, Settle, Await, AwaitWith, Won, warmVars,
       CallStep
  <1>4. CASE Recheck(k)
    <2>1. pc[k] # "free" /\ UNCHANGED <<slots, inflight, template, patches>>
      BY <1>4 DEF Recheck, warmVars
    <2>2. \/ \E c : AwaitWith(k, "probe2", c)
          \/ JoinOrAdmit(k, sess[k], [call[k] EXCEPT !.own = None])
      BY <1>4 DEF Recheck
    <2>3. \/ \E l, c : AwaitWith(k, l, c)
          \/ call' = [call EXCEPT ![k] = [call[k] EXCEPT !.own = None]]
          \/ call' = [call EXCEPT ![k] = [[call[k] EXCEPT !.own = None] EXCEPT !.on = pending[sess[k]]]]
      BY <2>2 DEF JoinOrAdmit
    <2>4. call'[k].cfg = call[k].cfg
      BY <2>3 DEF AwaitWith
    <2> QED BY <1>4, <2>1, <2>4, CallOwn DEF CallStep
  <1> QED BY <1>1, <1>2, <1>3, <1>4, <1>5 DEF CallStep

LEMMA CallSlots == ASSUME SlotInv, NEW k \in Calls, CallStep(k) PROVE SlotInv'
  <1>0. TypeInv /\ TypeInv'
    BY CallStepTypes DEF SlotInv
  <1>1. /\ pc[k] # "free" /\ call'[k].cfg = call[k].cfg
        /\ \A j \in Calls : j # k => pc'[j] = pc[j] /\ call'[j] = call[j]
        /\ UNCHANGED <<slots, inflight, template, patches>>
    BY <1>0, CallKeeps
  <1>2. Account => CallsCurrent'
    BY <1>1 DEF Account, CallsCurrent, Current
  <1>3. Thinned
    BY <1>0, CallRest
  <1>4. boot' = boot \/ \E cfg \in Configs : Begins(cfg) /\ (patches' = 0 /\ Account => Current(cfg))
    <2>1. CASE ClaimFailed(k) \/ WarmClaim(k)
      <3> DEFINE c == call[k].own
      <3>1. boot' = boot \/ (pc[k] \in Looks /\ \E w : WarmForAgent(w, config[c], mount[c]))
        BY <2>1 DEF ClaimFailed, WarmClaim, Looks
      <3>2. pc[k] \in Looks => /\ config[c] = call[k].cfg /\ config[c] \in Configs
                              /\ mount[c] \in Mounts \cup {None}
        BY <1>0, <1>1, HasSession DEF TypeInv, Made, ClaimFits, Started, Typed, RuntimeTypeOK
      <3>3. CASE pc[k] \in Looks /\ \E w : WarmForAgent(w, config[c], mount[c])
        <4>1. PICK w : WarmForAgent(w, config[c], mount[c])
          BY <3>3
        <4>2. Begins(config[c])
          BY <1>0, <3>2, <3>3, <4>1, OrderBegins
        <4>3. Account => Current(config[c])
          BY <1>1, <3>2, <3>3 DEF Account, CallsCurrent
        <4> QED BY <3>2, <3>3, <4>2, <4>3
      <3> QED BY <3>1, <3>3
    <2>2. CASE ~(ClaimFailed(k) \/ WarmClaim(k))
      BY <2>2 DEF CallStep, ProbeOk, ProbeFail, Recheck, Joined, Admit, AdmitEvict, AdmitRefuse, Claim,
         WarmProbeFail, WarmSpoilt, SpawnOk, SpawnFail, BootOk, BootStop, BootFailed, Settle, warmVars
    <2> QED BY <2>1, <2>2
  <1> QED BY <1>0, <1>1, <1>2, <1>3, <1>4, NotBootSlots DEF NotBoot

LEMMA AcquireSlots ==
    ASSUME SlotInv, NEW k \in Calls, NEW s \in Sessions, Acquire(k, s) PROVE SlotInv'
  <1>0. TypeInv /\ TypeInv' /\ call[k] \in CallRecords
    BY AcquireTypes, Locals DEF SlotInv
  <1>1. UNCHANGED <<slots, inflight, boot, template, patches>>
    BY DEF Acquire, warmVars
  <1>2. Thinned
    BY <1>0, TakenThins DEF Acquire, warmVars
  <1>3. \A j \in Calls : j # k => pc'[j] = pc[j] /\ call'[j] = call[j]
    BY <1>0, CallOwn
  <1>4. call'[k].cfg = <<AgentOfSession[s], template[AgentOfSession[s]]>>
    <2> DEFINE f == <<AgentOfSession[s], template[AgentOfSession[s]]>>
    <2>1. \/ call' = [call EXCEPT ![k] = [call[k] EXCEPT !.cfg = f, !.own = active[s]]]
          \/ call' = [call EXCEPT ![k] = [[call[k] EXCEPT !.cfg = f, !.own = active[s]] EXCEPT !.on = pending[s]]]
      BY DEF Acquire, JoinOrAdmit
    <2>2. call \in [Calls -> CallRecords]
      BY <1>0 DEF TypeInv, Typed, CallTypes, CallRecords
    <2> HIDE DEF f
    <2>3. call'[k].cfg = f
      BY <2>1, <2>2 DEF CallRecords
    <2> QED BY <2>3 DEF f
  <1>5. Account => CallsCurrent'
    BY <1>1, <1>3, <1>4 DEF Account, CallsCurrent, Current
  <1> QED BY <1>0, <1>1, <1>2, <1>5, NotBootSlots DEF NotBoot

(* The steps of the other actors.                                           *)
LEMMA OtherSlots ==
    ASSUME SlotInv,
           \/ SweepStep \/ ShutdownStart \/ ShutdownStop \/ Exit \/ UNCHANGED poolVars
           \/ \E c \in Containers : Docker(c)
           \/ \E s \in Sessions : RunEnds(s) \/ Evict(s)
           \/ \E a \in Agents : Drop(a)
    PROVE  SlotInv'
  <1>0. TypeInv /\ TypeInv'
    BY SweepStepTypes, ShutdownTypes, StutterTypes, DockerTypes, RouterTypes, DropTypes DEF SlotInv
  <1>1. UNCHANGED <<slots, inflight, boot, template, patches, pc, call>>
    BY DEF SweepStep, SweepStart, SweepStopped, SweepWarmStart, SweepEnd, SweepReap, SweepReapWarm, sweepOthers,
       others, ShutdownStart, ShutdownStop, Exit, Docker, RunEnds, Evict, Drop, poolVars, warmVars, sessionVars
  <1>2. Thinned
    <2>1. CASE ShutdownStop
      BY <2>1 DEF ShutdownStop, Thinned
    <2>2. CASE SweepStep
      BY <1>0, <2>2, TakenThins DEF SweepStep, SweepStart, SweepStopped, SweepWarmStart, SweepEnd, SweepReap,
         SweepReapWarm, ReapWarmEntry
    <2>3. CASE \/ ShutdownStart \/ Exit \/ UNCHANGED poolVars
               \/ \E c \in Containers : Docker(c)
               \/ \E s \in Sessions : RunEnds(s) \/ Evict(s)
      BY <1>0, <2>3, TakenThins DEF ShutdownStart, Exit, Docker, RunEnds, Evict, poolVars, warmVars
    <2>4. CASE \E a \in Agents : Drop(a)
      BY <1>0, <2>4, TakenThins DEF Drop, DropWarm, ReapWarmEntry
    <2> QED BY <2>1, <2>2, <2>3, <2>4
  <1>3. Account => CallsCurrent'
    BY <1>1 DEF Account, CallsCurrent, Current
  <1> QED BY <1>0, <1>1, <1>2, <1>3, NotBootSlots DEF NotBoot

LEMMA OrderSlots == ASSUME SlotInv, NEW a \in Agents, Warm(a) \/ Patch(a) PROVE SlotInv'
  <1>0. TypeInv /\ TypeInv' /\ patches \in Nat
    BY PoolAssumption, OrderTypes DEF SlotInv, TypeInv, Typed, StoreTypes
  <1>1. UNCHANGED <<slots, inflight, pc, call>>
    BY DEF Warm, Patch, sessionVars
  <1>2. Thinned
    BY <1>0, TakenThins DEF Warm, Patch, ReapWarmEntry
  <1>3. CASE Warm(a)
    <2>1. PICK f \in Configs : f = <<a, template[a]>>
      BY <1>0 DEF Configs, TypeInv, Typed, StoreTypes
    <2>2. WarmForAgent(warm, f, None) /\ UNCHANGED <<template, patches>>
      BY <1>3, <2>1 DEF Warm
    <2>3. Begins(f) /\ Current(f)
      BY <1>0, <2>1, <2>2, OrderBegins DEF Current
    <2>4. Account => CallsCurrent'
      BY <1>1, <2>2 DEF Account, CallsCurrent, Current
    <2> QED BY <1>0, <1>1, <1>2, <2>2, <2>3, <2>4, NotBootSlots DEF NotBoot
  <1>4. CASE Patch(a)
    <2>1. patches' # 0
      BY <1>0, <1>4 DEF Patch
    <2>2. PICK w : \E v \in Versions : WarmForAgent(w, <<a, v>>, None)
      BY <1>4 DEF Patch
    <2>3. PICK v \in Versions : WarmForAgent(w, <<a, v>>, None)
      BY <2>2
    <2>4. PICK f \in Configs : f = <<a, v>>
      BY DEF Configs
    <2>5. Begins(f)
      BY <1>0, <2>3, <2>4, OrderBegins
    <2> QED BY <1>0, <1>1, <1>2, <2>1, <2>5, NotBootSlots DEF NotBoot
  <1> QED BY <1>3, <1>4

(* A boot that moves leaves the versions as they are.                       *)
LEMMA BootKeeps ==
    ASSUME TypeInv, NEW b \in Boots, BootAlone(b), boot[b].pc # "free", NEW r, Writes(b, r)
    PROVE  /\ boot'[b] = r /\ \A d \in Boots : d # b => boot'[d] = boot[d]
           /\ \A d \in Boots : boot'[d].cfg = boot[d].cfg
           /\ patches' = patches /\ (Account => CallsCurrent' /\ BootsCurrent')
           /\ boot[b].cfg \in Configs /\ boot[b].cfg[1] \in Agents
  <1>1. boot'[b] = r /\ \A d \in Boots : d # b => boot'[d] = boot[d]
    BY BootWritten
  <1>2. r.cfg = boot[b].cfg
    BY DEF Writes
  <1>3. UNCHANGED <<pc, call, template, patches>>
    BY DEF BootAlone, sessionVars
  <1>4. Account => CallsCurrent' /\ BootsCurrent'
    BY <1>1, <1>2, <1>3 DEF Account, CallsCurrent, BootsCurrent, Current
  <1> QED BY <1>1, <1>2, <1>3, <1>4, NoneApart DEF TypeInv, Made, BootsMade

(* The awaits of a boot between its reservation and its release, and those  *)
(* before the one and after the other.                                      *)
LEMMA BootHolds ==
    ASSUME SlotInv, NEW b \in Boots, BootAlone(b), boot[b].pc # "free", NEW r, Writes(b, r),
           b \in Holding <=> r.pc \in HoldPcs, r.pc \in AheadPcs => b \in Ahead,
           UNCHANGED slots, Thinned,
           \/ UNCHANGED inflight
           \/ b \in Holding /\ inflight' = [inflight EXCEPT ![boot[b].cfg[1]] = b]
    PROVE  SlotInv'
  <1>0. TypeInv /\ TypeInv'
    BY BootTypes DEF SlotInv
  <1>1. /\ boot'[b] = r /\ \A d \in Boots : d # b => boot'[d] = boot[d]
        /\ \A d \in Boots : boot'[d].cfg = boot[d].cfg
        /\ patches' = patches /\ (Account => CallsCurrent' /\ BootsCurrent')
        /\ boot[b].cfg \in Configs /\ boot[b].cfg[1] \in Agents
    BY <1>0, BootKeeps
  <1>2. Holding' = Holding /\ Ahead' \subseteq Ahead
    BY <1>1 DEF Holding, Ahead
  <1>3. \A d \in Holding : boot'[d].cfg = boot[d].cfg
    BY <1>1 DEF Holding
  <1>4. FlightsHeld'
    <2>1. inflight \in [Agents -> Boots \cup {None}]
      BY <1>0 DEF TypeInv, Typed, WarmTypeOK
    <2> QED BY <1>1, <1>2, <1>3, <2>1 DEF SlotInv, FlightsHeld, Keys
  <1>5. \A d \in Ahead' : d \in Ahead /\ boot'[d].cfg = boot[d].cfg /\ boot[d].cfg[1] \in Agents
    BY <1>0, <1>1, <1>2, NoneApart DEF Ahead, AheadPcs, TypeInv, Made, BootsMade
  <1>6. Occupied' \subseteq Occupied
    BY <1>0, <1>5, ThinnedKeys DEF Occupied
  <1>7. Account => AheadEmpty'
    BY <1>5 DEF Thinned, Account, AheadEmpty
  <1> QED BY <1>0, <1>1, <1>2, <1>3, <1>4, <1>6, <1>7, HoldStep

LEMMA PlainBootSlots ==
    ASSUME SlotInv, NEW b \in Boots, BootAlone(b),
           ReserveSkip(b) \/ Refused(b) \/ BootReady(b) \/ Discarded(b)
    PROVE  SlotInv'
  <1>0. TypeInv
    BY DEF SlotInv
  <1>1. PICK l \in {"done", "insert", "release"} :
          /\ At(b, l) /\ boot[b].pc # "free"
          /\ boot[b].pc \in HoldPcs <=> l \in HoldPcs
          /\ l \in AheadPcs => boot[b].pc \in AheadPcs
    BY DEF ReserveSkip, Refused, BootReady, Discarded, At, HoldPcs, AheadPcs
  <1>2. PICK r : Writes(b, r) /\ r.pc = l
    BY <1>0, <1>1, BootAt DEF BootPcs
  <1>3. UNCHANGED <<slots, inflight>> /\ Thinned
    BY <1>0, TakenThins DEF ReserveSkip, Refused, BootReady, Discarded
  <1>4. (b \in Holding <=> r.pc \in HoldPcs) /\ (r.pc \in AheadPcs => b \in Ahead)
    BY <1>1, <1>2 DEF Holding, Ahead
  <1> QED BY <1>1, <1>2, <1>3, <1>4, BootHolds

LEMMA StopBootSlots ==
    ASSUME SlotInv, NEW b \in Boots, BootAlone(b), ReapEvicted(b) \/ (b \in Raising /\ Discard(b))
    PROVE  SlotInv'
  <1>0. TypeInv
    BY DEF SlotInv
  <1>1. boot[b].pc \in AheadPcs
    BY DEF ReapEvicted, Raising, AheadPcs
  <1>2. PICK r : Writes(b, r) /\ r.pc \in {"reap", "discard"}
    BY <1>0, BootNext, BootAt DEF Discard, BootPcs, At
  <1>3. UNCHANGED <<slots, inflight>> /\ Thinned
    BY <1>0, TakenThins DEF ReapEvicted, ReapWarmEntry, Discard
  <1>4. /\ boot[b].pc # "free" /\ b \in Holding /\ b \in Ahead
        /\ r.pc \in HoldPcs
    BY <1>1, <1>2 DEF Holding, Ahead, HoldPcs, AheadPcs
  <1> QED BY <1>2, <1>3, <1>4, BootHolds

LEMMA StartBootSlots ==
    ASSUME SlotInv, NEW b \in Boots, BootAlone(b), BootStart(b) PROVE SlotInv'
  <1>0. TypeInv
    BY DEF SlotInv
  <1>1. boot[b].pc \in AheadPcs
    BY DEF BootStart, AheadPcs
  <1>2. (\E c \in Containers : Raises(b, c)) \/ At(b, "release")
    BY DEF BootStart, Raises, At
  <1>3. PICK r : Writes(b, r) /\ r.pc \in {"boot", "release"}
    BY <1>0, <1>2, BootRaises, BootAt DEF BootPcs
  <1>4. /\ UNCHANGED slots /\ Thinned
        /\ inflight' = [inflight EXCEPT ![boot[b].cfg[1]] = b]
    BY <1>0, TakenThins DEF BootStart
  <1>5. /\ boot[b].pc # "free" /\ b \in Holding /\ b \in Ahead
        /\ r.pc \in HoldPcs
    BY <1>1, <1>3 DEF Holding, Ahead, HoldPcs, AheadPcs
  <1> QED BY <1>3, <1>4, <1>5, BootHolds

(* The entry takes the place its boot was ahead of.                         *)
LEMMA InsertSlots ==
    ASSUME SlotInv, NEW b \in Boots, BootAlone(b), Insert(b), ~Discard(b) PROVE SlotInv'
  <1> DEFINE a == boot[b].cfg[1]
  <1>0. TypeInv /\ TypeInv' /\ warm \in [Agents -> Containers \cup {None}]
    BY BootTypes DEF SlotInv, TypeInv, Typed, WarmTypeOK
  <1>1. /\ boot[b].pc = "insert" /\ warm' = [warm EXCEPT ![a] = boot[b].own] /\ At(b, "release")
        /\ UNCHANGED <<slots, inflight>>
    BY DEF Insert, At
  <1>2. PICK r : Writes(b, r) /\ r.pc = "release"
    BY <1>0, <1>1, BootAt DEF BootPcs
  <1>3. /\ boot'[b] = r /\ \A d \in Boots : d # b => boot'[d] = boot[d]
        /\ \A d \in Boots : boot'[d].cfg = boot[d].cfg
        /\ patches' = patches /\ (Account => CallsCurrent' /\ BootsCurrent')
        /\ boot[b].cfg \in Configs /\ a \in Agents
    BY <1>0, <1>1, <1>2, BootKeeps
  <1>4. /\ Holding' = Holding /\ b \in Holding /\ b \in Ahead
        /\ \A d \in Ahead' : d \in Ahead /\ d # b
    BY <1>1, <1>2, <1>3 DEF Holding, Ahead, HoldPcs, AheadPcs
  <1>5. \A d \in Holding : boot'[d].cfg = boot[d].cfg
    BY <1>3 DEF Holding
  <1>6. FlightsHeld'
    BY <1>1, <1>4, <1>5 DEF SlotInv, FlightsHeld, Keys
  <1>7. Occupied' \subseteq Occupied
    <2>1. Keys(warm)' \subseteq Keys(warm) \cup {a}
      BY <1>0, <1>1 DEF Keys
    <2>2. \A d \in Ahead' : boot'[d].cfg = boot[d].cfg
      BY <1>3, <1>4 DEF Ahead
    <2> QED BY <1>4, <2>1, <2>2 DEF Occupied
  <1>8. Account => AheadEmpty'
    <2> SUFFICES ASSUME Account, NEW d \in Ahead' PROVE warm'[boot'[d].cfg[1]] = None
      BY DEF AheadEmpty
    <2>1. d \in Ahead /\ d # b /\ d \in Boots /\ d \in Holding /\ boot[d].pc # "free"
      BY <1>4 DEF Ahead, Holding, HoldPcs, AheadPcs
    <2>2. boot[d].cfg[1] # a
      BY <1>0, <1>1, <1>4, <2>1, SameAgent DEF Account, HoldApart
    <2>3. boot'[d].cfg = boot[d].cfg /\ warm[boot[d].cfg[1]] = None
      BY <1>3, <2>1 DEF Account, AheadEmpty
    <2> QED BY <1>0, <1>1, <2>2, <2>3
  <1> QED BY <1>0, <1>1, <1>3, <1>4, <1>5, <1>6, <1>7, <1>8, HoldStep

(* The slot is given back.                                                  *)
LEMMA ReleaseSlots ==
    ASSUME SlotInv, NEW b \in Boots, BootAlone(b), Release(b) PROVE SlotInv'
  <1> DEFINE cfg == boot[b].cfg
             a   == cfg[1]
  <1>0. /\ TypeInv /\ TypeInv' /\ slots \in [Agents -> Configs \cup {None}]
        /\ inflight \in [Agents -> Boots \cup {None}]
    BY BootTypes DEF SlotInv, TypeInv, Typed, WarmTypeOK
  <1>1. /\ boot[b].pc = "release" /\ At(b, "done") /\ UNCHANGED warm
        /\ slots' = [slots EXCEPT ![a] = IF slots[a] = cfg THEN None ELSE slots[a]]
        /\ inflight' = [inflight EXCEPT ![a] =
              IF inflight[a] # None /\ boot[inflight[a]].cfg = cfg THEN None ELSE inflight[a]]
    BY DEF Release, At
  <1>2. PICK r : Writes(b, r) /\ r.pc = "done"
    BY <1>0, <1>1, BootAt DEF BootPcs
  <1>3. /\ boot'[b] = r /\ \A d \in Boots : d # b => boot'[d] = boot[d]
        /\ \A d \in Boots : boot'[d].cfg = boot[d].cfg
        /\ patches' = patches /\ (Account => CallsCurrent' /\ BootsCurrent')
        /\ cfg \in Configs /\ a \in Agents
    BY <1>0, <1>1, <1>2, BootKeeps
  <1>4. Holding' = Holding \ {b} /\ b \in Holding /\ Ahead' = Ahead /\ b \notin Ahead
    BY <1>1, <1>2, <1>3 DEF Holding, Ahead, HoldPcs, AheadPcs
  <1>5. \A x \in Keys(slots)' : x \in Keys(slots) /\ slots'[x] = slots[x] /\ (x = a => slots[x] # cfg)
    BY <1>0, <1>1, <1>3 DEF Keys
  <1>10. ASSUME NEW x \in Keys(inflight)'
         PROVE  x \in Keys(inflight) /\ inflight'[x] = inflight[x] /\ (x = a => boot[inflight[x]].cfg # cfg)
    BY <1>0, <1>1, <1>3 DEF Keys
  <1>6. SlotsHeld'
    <2> SUFFICES ASSUME NEW x \in Keys(slots)'
                 PROVE  slots'[x][1] = x /\ \E d \in Holding' : boot'[d].cfg = slots'[x]
      BY DEF SlotsHeld
    <2>1. PICK d \in Holding : slots[x][1] = x /\ boot[d].cfg = slots[x]
      BY <1>5 DEF SlotInv, SlotsHeld
    <2>2. d # b
      BY <1>5, <2>1
    <2>3. d \in Holding' /\ boot'[d].cfg = boot[d].cfg
      BY <1>3, <1>4, <2>2 DEF Holding
    <2> QED BY <1>5, <2>1, <2>3
  <1>7. FlightsHeld'
    <2> SUFFICES ASSUME NEW x \in Keys(inflight)'
                 PROVE  inflight'[x] \in Holding' /\ boot'[inflight'[x]].cfg[1] = x
      BY DEF FlightsHeld
    <2>4. x \in Keys(inflight) /\ inflight'[x] = inflight[x] /\ (x = a => boot[inflight[x]].cfg # cfg)
      BY <1>10
    <2>1. inflight'[x] = inflight[x] /\ inflight[x] \in Holding /\ boot[inflight[x]].cfg[1] = x
      BY <2>4 DEF SlotInv, FlightsHeld
    <2>2. inflight[x] # b
      BY <2>1, <2>4
    <2>3. inflight[x] \in Boots
      BY <2>1 DEF Holding
    <2> QED BY <1>3, <1>4, <2>1, <2>2, <2>3
  <1>8. FewOccupied' /\ (WithinCap => WithinCap')
    <2>1. Occupied' = Occupied
      <3>1. \A d \in Ahead : boot'[d].cfg = boot[d].cfg
        BY <1>3 DEF Ahead
      <3>2. Keys(warm)' = Keys(warm)
        BY <1>1 DEF Keys
      <3> QED BY <1>4, <3>1, <3>2 DEF Occupied
    <2>2. IsFiniteSet(Keys(slots)')
      BY <1>5, FS_Subset DEF SlotInv, FewOccupied
    <2> QED BY <2>1, <2>2 DEF SlotInv, FewOccupied, WithinCap
  <1>9. Account => Account'
    <2> SUFFICES ASSUME Account PROVE Account'
      OBVIOUS
    <2>1. ASSUME NEW d \in Holding' PROVE slots'[boot'[d].cfg[1]] = boot'[d].cfg
      <3>1. d \in Holding /\ d # b /\ d \in Boots /\ boot'[d].cfg = boot[d].cfg /\ boot[d].pc # "free"
        BY <1>3, <1>4, <2>1 DEF Holding, HoldPcs, AheadPcs
      <3>2. boot[d].cfg[1] # a
        BY <1>0, <1>1, <1>4, <3>1, SameAgent DEF Account, HoldApart
      <3> QED BY <1>0, <1>1, <3>1, <3>2 DEF Account, SlotsTrue
    <2>2. SlotsTrue'
      BY <2>1 DEF SlotsTrue
    <2>3. HoldApart'
      BY <1>3, <1>4 DEF Account, HoldApart, Holding
    <2>4. AheadEmpty'
      BY <1>1, <1>3, <1>4 DEF Account, AheadEmpty, Ahead
    <2> QED BY <1>3, <1>8, <2>2, <2>3, <2>4 DEF Account
  <1> QED BY <1>0, <1>3, <1>6, <1>7, <1>8, <1>9 DEF SlotInv

(* Room for one more agent, by the count of the entries and the slots, or   *)
(* by the eviction of an entry.                                             *)
LEMMA RoomBySlots ==
    ASSUME NEW K, NEW S, NEW T, NEW x, NEW m \in Nat, IsFiniteSet(K), IsFiniteSet(S),
           T \subseteq (K \cup S) \cup {x}, Cardinality(K) + Cardinality(S) < m
    PROVE  Cardinality(T) <= m
  <1>1. /\ IsFiniteSet(K \cup S) /\ Cardinality(K \cup S) \in Nat
        /\ Cardinality(K \cup S) <= Cardinality(K) + Cardinality(S)
    <2>1. /\ IsFiniteSet(K \cap S)
          /\ Cardinality(K \cup S) = Cardinality(K) + Cardinality(S) - Cardinality(K \cap S)
          /\ IsFiniteSet(K \cup S)
      BY FS_Union, FS_Subset
    <2>2. /\ Cardinality(K) \in Nat /\ Cardinality(S) \in Nat /\ Cardinality(K \cap S) \in Nat
          /\ Cardinality(K \cup S) \in Nat
      BY <2>1, FS_CardinalityType
    <2> QED BY <2>1, <2>2
  <1>2. /\ IsFiniteSet((K \cup S) \cup {x})
        /\ Cardinality((K \cup S) \cup {x}) <= Cardinality(K \cup S) + 1
    <2> DEFINE U == K \cup S
    <2>1. IsFiniteSet(U) /\ Cardinality(U) \in Nat
      BY <1>1
    <2> HIDE DEF U
    <2>2. /\ IsFiniteSet(U \cup {x})
          /\ Cardinality(U \cup {x}) = IF x \in U THEN Cardinality(U) ELSE Cardinality(U) + 1
      BY <2>1, FS_AddElement
    <2>3. IsFiniteSet(U \cup {x}) /\ Cardinality(U \cup {x}) <= Cardinality(U) + 1
      BY <2>1, <2>2
    <2> QED BY <2>3 DEF U
  <1>3. IsFiniteSet(T) /\ Cardinality(T) <= Cardinality((K \cup S) \cup {x})
    BY <1>2, FS_Subset
  <1>4. /\ Cardinality(T) \in Nat /\ Cardinality((K \cup S) \cup {x}) \in Nat
        /\ Cardinality(K) \in Nat /\ Cardinality(S) \in Nat
    BY <1>2, <1>3, FS_CardinalityType
  <1> QED BY <1>1, <1>2, <1>3, <1>4

LEMMA RoomByEviction ==
    ASSUME NEW O, NEW T, NEW x, NEW y \in O, IsFiniteSet(O), T \subseteq (O \ {y}) \cup {x}
    PROVE  Cardinality(T) <= Cardinality(O)
  <1>1. /\ IsFiniteSet(O \ {y}) /\ Cardinality(O \ {y}) = Cardinality(O) - 1
        /\ Cardinality(O) \in Nat
    BY FS_RemoveElement, FS_CardinalityType
  <1>2. /\ IsFiniteSet((O \ {y}) \cup {x})
        /\ Cardinality((O \ {y}) \cup {x}) <= Cardinality(O)
    <2> DEFINE U == O \ {y}
    <2>1. IsFiniteSet(U) /\ Cardinality(U) = Cardinality(O) - 1
      BY <1>1
    <2> HIDE DEF U
    <2>2. /\ IsFiniteSet(U \cup {x})
          /\ Cardinality(U \cup {x}) = IF x \in U THEN Cardinality(U) ELSE Cardinality(U) + 1
      BY <2>1, FS_AddElement
    <2>3. IsFiniteSet(U \cup {x}) /\ Cardinality(U \cup {x}) <= Cardinality(O)
      BY <1>1, <2>1, <2>2
    <2> QED BY <2>3 DEF U
  <1>3. IsFiniteSet(T) /\ Cardinality(T) <= Cardinality((O \ {y}) \cup {x})
    BY <1>2, FS_Subset
  <1>4. Cardinality(T) \in Nat /\ Cardinality((O \ {y}) \cup {x}) \in Nat
    BY <1>2, <1>3, FS_CardinalityType
  <1> QED BY <1>1, <1>2, <1>3, <1>4

LEMMA ReserveSlots ==
    ASSUME SlotInv, NEW b \in Boots, BootAlone(b), ReserveSlot(b) PROVE SlotInv'
  <1> DEFINE cfg   == boot[b].cfg
             agent == cfg[1]
             stale == warm[agent]
             w     == [warm EXCEPT ![agent] = None]
  <1>0. /\ TypeInv /\ TypeInv' /\ slots \in [Agents -> Configs \cup {None}]
        /\ inflight \in [Agents -> Boots \cup {None}]
        /\ warm \in [Agents -> Containers \cup {None}]
    BY BootTypes DEF SlotInv, TypeInv, Typed, WarmTypeOK
  <1>1. /\ boot[b].pc = "reserve" /\ slots[agent] # cfg /\ UNCHANGED inflight
        /\ cfg \in Configs /\ agent \in Agents /\ stale \in Containers \cup {None}
        /\ b \notin Holding /\ b \notin Ahead
    BY <1>0, NoneApart DEF ReserveSlot, TypeInv, Made, BootsMade, Holding, Ahead, HoldPcs, AheadPcs
  <1>2. Thinned /\ warm'[agent] = None
    <2>1. warm' = w \/ \E a \in Keys(w) : warm' = [w EXCEPT ![a] = None]
      BY DEF ReserveSlot
    <2> QED BY <1>0, <1>1, <2>1 DEF Thinned
  <1>3. CASE With(b, "refused", stale, None) /\ UNCHANGED slots
    <2>1. PICK r : Writes(b, r) /\ r.pc = "refused"
      BY <1>0, <1>1, <1>3, BootWith DEF BootPcs
    <2> QED BY <1>1, <1>2, <1>3, <2>1, BootHolds DEF HoldPcs, AheadPcs
  <1>4. ASSUME NEW e \in Containers \cup {None}, With(b, "reap", stale, e),
               slots' = [slots EXCEPT ![agent] = cfg],
               \/ SlotFree(w) /\ warm' = w
               \/ \E a \in Keys(w) : warm' = [w EXCEPT ![a] = None]
        PROVE  SlotInv'
    <2>1. PICK r : Writes(b, r) /\ r.pc = "reap"
      <3> HIDE DEF w, stale, agent, cfg
      <3>1. "reap" \in BootPcs
        BY DEF BootPcs
      <3>2. \E r : Writes(b, r) /\ r.pc = "reap" /\ r.own = stale /\ r.evicted = e
        BY <1>0, <1>1, <1>4, <3>1, BootWith
      <3> QED BY <3>2
    <2>2. /\ boot'[b] = r /\ \A d \in Boots : d # b => boot'[d] = boot[d]
          /\ \A d \in Boots : boot'[d].cfg = boot[d].cfg
          /\ patches' = patches /\ (Account => CallsCurrent' /\ BootsCurrent')
      BY <1>0, <1>1, <2>1, BootKeeps
    <2>3. Holding' = Holding \cup {b} /\ Ahead' = Ahead \cup {b}
      BY <1>1, <2>1, <2>2 DEF Holding, Ahead, HoldPcs, AheadPcs
    <2>4. /\ Keys(slots)' = Keys(slots) \cup {agent} /\ slots'[agent] = cfg
          /\ \A x \in Agents : x # agent => slots'[x] = slots[x]
      BY <1>0, <1>1, <1>4, NoneApart DEF Keys
    <2>5. SlotsHeld'
      <3> SUFFICES ASSUME NEW x \in Keys(slots)'
                   PROVE  slots'[x][1] = x /\ \E d \in Holding' : boot'[d].cfg = slots'[x]
        BY DEF SlotsHeld
      <3>1. CASE x = agent
        BY <2>2, <2>3, <2>4, <3>1
      <3>2. CASE x # agent
        <4>1. x \in Keys(slots) /\ slots'[x] = slots[x]
          BY <1>0, <2>4, <3>2 DEF Keys
        <4>2. PICK d \in Holding : slots[x][1] = x /\ boot[d].cfg = slots[x]
          BY <4>1 DEF SlotInv, SlotsHeld
        <4> QED BY <2>2, <2>3, <4>1, <4>2 DEF Holding
      <3> QED BY <3>1, <3>2
    <2>6. FlightsHeld'
      BY <1>1, <2>2, <2>3 DEF SlotInv, FlightsHeld, Keys, Holding
    <2>7. Keys(warm)' \subseteq Keys(warm) /\ agent \notin Keys(warm)'
      BY <1>0, <1>2, ThinnedKeys DEF Keys
    <2>8. Occupied' = (Keys(warm)' \cup {boot[d].cfg[1] : d \in Ahead}) \cup {agent}
      BY <2>2, <2>3 DEF Occupied, Ahead
    <2>9. FewOccupied'
      <3>1. IsFiniteSet(Keys(slots)')
        BY <2>4, FS_AddElement DEF SlotInv, FewOccupied
      <3>2. Occupied' \subseteq Occupied \cup {agent}
        BY <2>7, <2>8 DEF Occupied
      <3>3. IsFiniteSet(Occupied')
        BY <3>2, FS_AddElement, FS_Subset DEF SlotInv, FewOccupied
      <3> QED BY <3>1, <3>3 DEF FewOccupied
    <2>10. ASSUME Account PROVE Account'
      <3>1. \A d \in Holding : d \in Boots /\ d # b /\ boot[d].cfg[1] # agent /\ boot[d].cfg[1] \in Agents
        <4> SUFFICES ASSUME NEW d \in Holding
                     PROVE  d \in Boots /\ d # b /\ boot[d].cfg[1] # agent /\ boot[d].cfg[1] \in Agents
          OBVIOUS
        <4>1. d \in Boots /\ d # b /\ boot[d].pc # "free" /\ slots[boot[d].cfg[1]] = boot[d].cfg
          BY <1>1, <2>10 DEF Holding, HoldPcs, AheadPcs, Account, SlotsTrue
        <4>2. boot[d].cfg[1] # agent
          BY <1>0, <1>1, <2>10, <4>1, SameAgent DEF Account
        <4>3. boot[d].cfg[1] \in Agents
          BY <1>0, <4>1, NoneApart DEF TypeInv, Made, BootsMade
        <4> QED BY <4>1, <4>2, <4>3
      <3>2. SlotsTrue'
        BY <2>2, <2>3, <2>4, <2>10, <3>1 DEF Account, SlotsTrue
      <3>3. HoldApart'
        BY <2>2, <2>3, <2>10, <3>1 DEF Account, HoldApart
      <3>4. AheadEmpty'
        <4>1. \A d \in Ahead : d \in Holding /\ warm[boot[d].cfg[1]] = None
          BY <2>10 DEF Account, AheadEmpty, Ahead, Holding, HoldPcs
        <4> QED BY <1>2, <2>2, <2>3, <3>1, <4>1 DEF AheadEmpty, Thinned
      <3>5. WithinCap'
        <4> DEFINE H == {boot[d].cfg[1] : d \in Ahead}
        <4>1. CASE SlotFree(w) /\ warm' = w
          <5>1. H \subseteq Keys(slots)
            <6>1. \A d \in Ahead : d \in Holding /\ boot[d].cfg # None
              BY <1>0, NoneApart DEF Ahead, Holding, HoldPcs, AheadPcs, TypeInv, Made, BootsMade
            <6> QED BY <1>0, <2>10, <3>1, <6>1 DEF Account, SlotsTrue, Keys
          <5>2. Occupied' \subseteq (Keys(w) \cup Keys(slots)) \cup {agent}
            BY <2>8, <4>1, <5>1
          <5>3. Keys(w) \subseteq Occupied /\ IsFiniteSet(Keys(w)) /\ IsFiniteSet(Keys(slots))
            <6>1. Keys(w) \subseteq Keys(warm)
              BY <1>0, <1>1 DEF Keys
            <6>2. Keys(w) \subseteq Occupied
              BY <6>1 DEF Occupied
            <6> HIDE DEF w
            <6> QED BY <6>2, FS_Subset DEF SlotInv, FewOccupied
          <5>4. Cardinality(Keys(w)) + Cardinality(Keys(slots)) < MaxWarm
            BY <4>1 DEF SlotFree
          <5> HIDE DEF w, agent
          <5>5. Cardinality(Occupied') <= MaxWarm
            BY <5>2, <5>3, <5>4, WarmAssumption, RoomBySlots
          <5> QED BY <5>5, WarmAssumption DEF WithinCap
        <4>2. ASSUME NEW a \in Keys(w), warm' = [w EXCEPT ![a] = None] PROVE WithinCap'
          <5>1. a \in Agents /\ a \in Keys(warm) /\ a # agent /\ a \notin Keys(warm)'
            BY <1>0, <1>1, <4>2 DEF Keys
          <5>2. a \notin H
            BY <2>10, <5>1 DEF Account, AheadEmpty, Keys
          <5>3. Occupied' \subseteq (Occupied \ {a}) \cup {agent} /\ a \in Occupied
            BY <2>7, <2>8, <5>1, <5>2 DEF Occupied
          <5>4. IsFiniteSet(Occupied) /\ Cardinality(Occupied) \in Nat /\ Cardinality(Occupied) <= MaxWarm
            BY <2>10, FS_CardinalityType DEF SlotInv, FewOccupied, Account, WithinCap
          <5>5. Cardinality(Occupied') <= Cardinality(Occupied)
            BY <5>3, <5>4, RoomByEviction
          <5>6. Cardinality(Occupied') \in Nat
            BY <2>9, FS_CardinalityType DEF FewOccupied
          <5> QED BY <5>4, <5>5, <5>6, WarmAssumption DEF WithinCap
        <4> QED BY <1>4, <4>1, <4>2
      <3> QED BY <2>2, <2>10, <3>2, <3>3, <3>4, <3>5 DEF Account
    <2> QED BY <1>0, <2>2, <2>5, <2>6, <2>9, <2>10 DEF SlotInv
  <1>5. \/ With(b, "refused", stale, None) /\ UNCHANGED slots
        \/ \E e \in Containers \cup {None} :
             /\ With(b, "reap", stale, e) /\ slots' = [slots EXCEPT ![agent] = cfg]
             /\ \/ SlotFree(w) /\ warm' = w
                \/ \E a \in Keys(w) : warm' = [w EXCEPT ![a] = None]
    <2>1. \A a \in Keys(w) : w[a] \in Containers \cup {None}
      BY <1>0, <1>1 DEF Keys
    <2>2. \/ With(b, "refused", stale, None) /\ UNCHANGED slots
          \/ /\ With(b, "reap", stale, None) /\ slots' = [slots EXCEPT ![agent] = cfg]
             /\ SlotFree(w) /\ warm' = w
          \/ \E a \in Keys(w) : /\ With(b, "reap", stale, w[a]) /\ slots' = [slots EXCEPT ![agent] = cfg]
                                /\ warm' = [w EXCEPT ![a] = None]
      BY DEF ReserveSlot, With
    <2> HIDE DEF w, stale, agent
    <2> QED BY <2>1, <2>2
  <1> QED BY <1>3, <1>4, <1>5

LEMMA BootSlots == ASSUME SlotInv, NEW b \in Boots, BootAlone(b) PROVE SlotInv'
  <1>1. BootFail(b) \/ Insert(b) => b \in Raising
    BY DEF BootFail, Insert, Raising
  <1>2. CASE BootFail(b) \/ (Insert(b) /\ Discard(b))
    BY <1>1, <1>2, StopBootSlots DEF BootFail
  <1>3. CASE Insert(b) /\ ~Discard(b)
    BY <1>3, InsertSlots
  <1> QED BY <1>2, <1>3, PlainBootSlots, StopBootSlots, ReserveSlots, StartBootSlots, ReleaseSlots
          DEF BootAlone, BootStep

LEMMA SlotInit == Init => SlotInv
  <1> SUFFICES ASSUME Init PROVE SlotInv
    OBVIOUS
  <1>1. Keys(slots) = {} /\ Keys(inflight) = {} /\ Keys(warm) = {}
    BY DEF Init, WarmInit, Keys
  <1>2. /\ \A b \in Boots : boot[b].pc = "free"
        /\ \A k \in Calls : pc[k] = "free"
    BY DEF Init, WarmInit
  <1>3. Holding = {} /\ Ahead = {}
    BY <1>2 DEF Holding, Ahead, HoldPcs, AheadPcs
  <1>4. Occupied = {}
    BY <1>1, <1>3 DEF Occupied
  <1>5. FewOccupied /\ WithinCap
    BY <1>1, <1>4, FS_EmptySet, WarmAssumption DEF FewOccupied, WithinCap
  <1>6. Account
    BY <1>2, <1>3, <1>5 DEF Account, CallsCurrent, BootsCurrent, SlotsTrue, HoldApart, AheadEmpty
  <1> QED BY <1>1, <1>5, <1>6, TypeInit DEF SlotInv, SlotsHeld, FlightsHeld

LEMMA SlotNext == ASSUME SlotInv, [Next]_poolVars PROVE SlotInv'
  BY CallSlots, AcquireSlots, BootSlots, OtherSlots, OrderSlots DEF Next, CallSteps, RouterStep

(* Slots and promises belong to boots under way (pool.ts:438-445, 484-502), *)
(* and until the first update of an agent the entries keep to the cap.      *)
THEOREM AccountIsTrue == Spec => []WarmInv
  <1>1. SlotInv => WarmInv
    <2> SUFFICES ASSUME SlotInv PROVE WarmInv
      OBVIOUS
    <2>1. TypeOK
      BY TypedIsTypeOK DEF SlotInv, TypeInv
    <2>2. WarmBounded
      <3>1. /\ Cardinality(Keys(warm)) <= Cardinality(Occupied)
            /\ Cardinality(Keys(warm)) \in Nat /\ Cardinality(Occupied) \in Nat
        BY FS_Subset, FS_CardinalityType DEF SlotInv, FewOccupied, Occupied
      <3> QED BY <3>1, WarmAssumption DEF SlotInv, Account, WithinCap, WarmBounded
    <2>3. SlotOwned
      <3>1. \A a \in Keys(slots) : \E b \in Boots :
              boot[b].cfg = slots[a] /\ boot[b].pc \notin {"free", "reserve", "refused", "done"}
        BY DEF SlotInv, SlotsHeld, Holding, HoldPcs, AheadPcs
      <3>2. \A a \in Keys(inflight) : boot[inflight[a]].pc \notin {"free", "done"}
        BY DEF SlotInv, FlightsHeld, Holding, HoldPcs, AheadPcs
      <3> QED BY <3>1, <3>2 DEF SlotOwned
    <2> QED BY <2>1, <2>2, <2>3 DEF WarmInv
  <1> QED BY <1>1, SlotInit, SlotNext, PTL DEF Spec

----------------------------------------------------------------------------
(* The containers of sessions.                                              *)

(* The awaits of a call that was admitted, and has no entry yet.            *)
Admitted == {"claim", "wprobe", "stale", "spoilt", "spawn", "boot"}

(* The awaits of a call whose session has no container.                     *)
Bare == Admitted \cup {"evict", "evict2", "admit", "pressure"}

(* The awaits of a call whose promise is in the map pending.                *)
Owning == Admitted \cup {"admit", "pressure", "bootfail", "settle"}

Shape ==
    /\ pc \in [Calls -> CallPcs]
    /\ sess \in [Calls -> Sessions \cup {None}]
    /\ active = [s \in Sessions |-> active[s]]
    /\ pending = [s \in Sessions |-> pending[s]]
    /\ reserved \subseteq Sessions

(* At most one acquisition per session, and only while its run is in flight.*)
Lone ==
    /\ \A k \in Calls : Underway(k) => sess[k] \in Sessions \cap busy
    /\ \A j, k \in Calls : Underway(j) /\ Underway(k) /\ sess[j] = sess[k] => j = k

(* The map pending holds the calls that own a promise: nobody joins one.    *)
PendingOwns ==
    /\ \A s \in Sessions : pending[s] # None =>
          pending[s] \in Calls /\ pc[pending[s]] \in Owning /\ sess[pending[s]] = s
    /\ \A k \in Calls : pc[k] # "joined"

NoEntryYet == \A k \in Calls : pc[k] \in Bare => active[sess[k]] = None

HasSlot == MaxActive > 0 => \A k \in Calls : pc[k] \in Admitted => sess[k] \in reserved

PlaceInv == Shape /\ Lone /\ PendingOwns /\ NoEntryYet /\ HasSlot

CapInv == PlaceInv /\ CapacityRespected

(* What the invariant reads.                                                *)
capVars == <<active, pending, reserved, pc, sess, busy>>

----------------------------------------------------------------------------
(* Cardinalities.                                                           *)

(* Only finitely many sessions have or are promised a container.            *)
LEMMA PromisedFinite == ASSUME PlaceInv PROVE IsFiniteSet(Entries \cup reserved)
  <1>1. Entries \cup reserved \subseteq Sessions
    BY DEF PlaceInv, Shape, Entries
  <1> QED BY <1>1, PoolAssumption, FS_Subset

(* A step that promises no container keeps the cap.                         *)
LEMMA CapKept ==
    ASSUME CapInv, Entries' \cup reserved' \subseteq Entries \cup reserved
    PROVE  CapacityRespected'
  <1>1. IsFiniteSet(Entries \cup reserved)
    BY PromisedFinite DEF CapInv
  <1>2. Cardinality(Entries' \cup reserved') <= Cardinality(Entries \cup reserved)
    BY <1>1, FS_Subset
  <1>3. Cardinality(Entries \cup reserved) \in Nat /\ Cardinality(Entries' \cup reserved') \in Nat
    BY <1>1, FS_Subset, FS_CardinalityType
  <1> QED BY <1>2, <1>3, PoolAssumption DEF CapInv, CapacityRespected

(* The count under the lock leaves room for one more.                       *)
LEMMA RoomForOne ==
    ASSUME PlaceInv, NEW s \in Sessions, CountWithReservations(s) < MaxActive
    PROVE  Cardinality(Entries \cup reserved \cup {s}) <= MaxActive
  <1> DEFINE R == reserved \ {s}
  <1>1. IsFiniteSet(Entries) /\ IsFiniteSet(R)
    BY PoolAssumption, FS_Subset DEF PlaceInv, Shape, Entries
  <1>2. Cardinality(Entries) \in Nat /\ Cardinality(R) \in Nat
    BY <1>1, FS_CardinalityType
  <1>3. IsFiniteSet(Entries \cup R) /\ Cardinality(Entries \cup R) <= Cardinality(Entries) + Cardinality(R)
    <2>1. IsFiniteSet(Entries \cup R)
      BY <1>1, FS_Union
    <2>2. IsFiniteSet(Entries \cap R) /\ Cardinality(Entries \cap R) \in Nat
      BY <1>1, FS_Intersection, FS_CardinalityType
    <2>3. Cardinality(Entries \cup R) = Cardinality(Entries) + Cardinality(R) - Cardinality(Entries \cap R)
      BY <1>1, FS_Union
    <2> QED BY <2>1, <2>2, <2>3, <1>2
  <1>4. Entries \cup reserved \cup {s} = (Entries \cup R) \cup {s}
    OBVIOUS
  <1>5. \A U : IsFiniteSet(U) => /\ Cardinality(U) \in Nat
                                /\ Cardinality(U \cup {s}) \in Nat
                                /\ Cardinality(U \cup {s}) <= Cardinality(U) + 1
    <2> SUFFICES ASSUME NEW U, IsFiniteSet(U)
                 PROVE  /\ Cardinality(U) \in Nat
                        /\ Cardinality(U \cup {s}) \in Nat
                        /\ Cardinality(U \cup {s}) <= Cardinality(U) + 1
      OBVIOUS
    <2>1. Cardinality(U) \in Nat
      BY FS_CardinalityType
    <2>2. Cardinality(U \cup {s}) = IF s \in U THEN Cardinality(U) ELSE Cardinality(U) + 1
      BY FS_AddElement
    <2> QED BY <2>1, <2>2
  <1>6. /\ Cardinality(Entries \cup R) \in Nat
        /\ Cardinality((Entries \cup R) \cup {s}) \in Nat
        /\ Cardinality((Entries \cup R) \cup {s}) <= Cardinality(Entries \cup R) + 1
    BY <1>3, <1>5
  <1>7. Cardinality(Entries) + Cardinality(R) < MaxActive
    BY DEF CountWithReservations
  <1>8. \A m, n, u, v \in Nat :
           m + n < MaxActive /\ u <= m + n /\ v <= u + 1 => v <= MaxActive
    BY PoolAssumption
  <1> HIDE DEF R
  <1>9. Cardinality((Entries \cup R) \cup {s}) <= MaxActive
    BY <1>2, <1>3, <1>6, <1>7, <1>8
  <1> QED BY <1>4, <1>9

----------------------------------------------------------------------------
(* Every action keeps the invariant without the cap.                       *)

(* A container enters the map: its call is over but for the finally clauses. *)
LEMMA EntryPlace ==
    ASSUME PlaceInv, NEW k \in Calls, pc[k] \in Admitted, pc' = [pc EXCEPT ![k] = "settle"],
           active' = [active EXCEPT ![sess[k]] = call[k].own],
           UNCHANGED <<pending, reserved, sess, busy>>
    PROVE  PlaceInv'
  <1>1. Shape' /\ Lone'
    BY DEF PlaceInv, Shape, Lone, CallPcs, Underway, Admitted
  <1>2. PendingOwns'
    BY DEF PlaceInv, Shape, PendingOwns, Owning, Admitted
  <1>3. NoEntryYet'
    <2>1. \A j \in Calls : pc'[j] \in Bare => j # k /\ pc[j] \in Bare /\ sess[j] # sess[k]
      BY DEF PlaceInv, Shape, Lone, Underway, Bare, Admitted
    <2> QED BY <2>1 DEF PlaceInv, Shape, NoEntryYet
  <1>4. HasSlot'
    BY DEF PlaceInv, Shape, HasSlot, Admitted
  <1> QED BY <1>1, <1>2, <1>3, <1>4 DEF PlaceInv

(* A claimed warm container enters the map in the place of the reservation. *)
LEMMA WarmClaimPlace == ASSUME PlaceInv, NEW k \in Calls, WarmClaim(k) PROVE PlaceInv'
  <1>1. /\ pc[k] \in Admitted /\ active' = [active EXCEPT ![sess[k]] = call[k].own]
        /\ pc' = [pc EXCEPT ![k] = "settle"]
        /\ UNCHANGED <<pending, reserved, sess, busy>>
    BY DEF WarmClaim, Won, Admitted, others
  <1> QED BY <1>1, EntryPlace

(* A failed probe empties the session's place in the map.                   *)
LEMMA ProbeFailPlace == ASSUME PlaceInv, NEW k \in Calls, ProbeFail(k) PROVE PlaceInv'
  <1>1. /\ pc[k] \in {"probe", "probe2"}
        /\ \E l \in {"evict", "evict2"} : pc' = [pc EXCEPT ![k] = l]
        /\ active' = [active EXCEPT ![sess[k]] = None]
        /\ UNCHANGED <<pending, reserved, sess, busy>>
    BY DEF ProbeFail, AwaitWith, EvictSession, others, PlaceInv, Shape
  <1> QED BY <1>1 DEF PlaceInv, Shape, Lone, PendingOwns, NoEntryYet, HasSlot, Bare, Admitted, Owning,
                      CallPcs, Underway

(* A call that evicted its session's container becomes the owner of a new   *)
(* acquisition: with no overlap there is nothing to join or to probe again. *)
LEMMA RecheckPlace == ASSUME PlaceInv, NEW k \in Calls, Recheck(k) PROVE PlaceInv'
  <1> DEFINE s == sess[k]
  <1>1. pc[k] \in {"evict", "evict2"} /\ UNCHANGED <<active, reserved, sess, busy>>
    BY DEF Recheck, AwaitWith, others
  <1>2. s \in Sessions /\ active[s] = None /\ pending[s] = None
    BY <1>1 DEF PlaceInv, Shape, Lone, PendingOwns, NoEntryYet, Bare, Admitted, Owning, Underway
  <1>3. /\ pending' = [pending EXCEPT ![s] = k]
        /\ pc' = [pc EXCEPT ![k] = IF MaxActive = 0 THEN "claim" ELSE "admit"]
    BY <1>2 DEF Recheck, JoinOrAdmit
  <1> HIDE DEF s
  <1>4. Shape' /\ Lone'
    BY <1>1, <1>3 DEF PlaceInv, Shape, Lone, CallPcs, Underway
  <1>5. PendingOwns'
    BY <1>1, <1>2, <1>3 DEF s, PlaceInv, Shape, Lone, PendingOwns, Owning, Admitted, Underway
  <1>6. NoEntryYet' /\ HasSlot'
    BY <1>1, <1>2, <1>3 DEF s, PlaceInv, Shape, NoEntryYet, HasSlot, Bare, Admitted
  <1> QED BY <1>4, <1>5, <1>6 DEF PlaceInv

(* A new call is the only one for its session.                              *)
LEMMA AcquirePlace ==
    ASSUME PlaceInv, NEW k \in Calls, NEW s \in Sessions, Acquire(k, s) PROVE PlaceInv'
  <1>1. /\ pc[k] = "free" /\ busy' = busy \cup {s} /\ sess' = [sess EXCEPT ![k] = s]
        /\ UNCHANGED reserved
        /\ s \in busy => \A j \in Calls : sess[j] = s => ~Underway(j)
    BY DEF Acquire
  <1>2. \A j \in Calls : Underway(j) => sess[j] # s
    BY <1>1 DEF PlaceInv, Lone
  <1>3. pending[s] = None
    BY <1>2 DEF PlaceInv, PendingOwns, Owning, Admitted, Underway
  <1>4. \/ /\ active[s] = None /\ active' = active
           /\ pending' = [pending EXCEPT ![s] = k]
           /\ pc' = [pc EXCEPT ![k] = IF MaxActive = 0 THEN "claim" ELSE "admit"]
        \/ /\ active' = [active EXCEPT ![s] = None] /\ pending' = pending
           /\ pc' = [pc EXCEPT ![k] = "evict"]
        \/ /\ active' = active /\ pending' = pending
           /\ pc' = [pc EXCEPT ![k] = "probe"]
    BY <1>3 DEF Acquire, JoinOrAdmit, EvictSession
  <1>5. Shape'
    BY <1>1, <1>4 DEF PlaceInv, Shape, CallPcs
  <1>6. Lone'
    BY <1>1, <1>2, <1>4 DEF PlaceInv, Shape, Lone, CallPcs, Underway
  <1>7. PendingOwns'
    BY <1>1, <1>2, <1>3, <1>4 DEF PlaceInv, Shape, PendingOwns, Owning, Admitted, Underway
  <1>8. NoEntryYet'
    <2>1. \A j \in Calls : pc'[j] \in Bare => sess'[j] = s \/ active[sess'[j]] = None
      BY <1>1, <1>4 DEF PlaceInv, Shape, NoEntryYet
    <2>2. pc'[k] \in Bare => active'[s] = None
      BY <1>4 DEF PlaceInv, Shape, Bare, Admitted
    <2>3. \A j \in Calls : pc'[j] \in Bare /\ sess'[j] = s => j = k
      BY <1>1, <1>2, <1>4 DEF PlaceInv, Shape, Bare, Admitted, Underway
    <2>4. \A t : active[t] = None => active'[t] = None \/ t \notin Sessions
      BY <1>4 DEF PlaceInv, Shape
    <2>5. \A j \in Calls : pc'[j] \in Bare => sess'[j] \in Sessions
      BY <1>6 DEF Lone, Underway, Bare, Admitted
    <2> QED BY <2>1, <2>2, <2>3, <2>4, <2>5 DEF NoEntryYet
  <1>9. HasSlot'
    BY <1>1, <1>2, <1>4 DEF PlaceInv, Shape, HasSlot, Admitted, Underway
  <1> QED BY <1>5, <1>6, <1>7, <1>8, <1>9 DEF PlaceInv

(* Taking entries out of the map, and nothing else, is always safe.         *)
LEMMA FewerEntriesPlace ==
    ASSUME PlaceInv, UNCHANGED <<pending, reserved, pc, sess, busy>>,
           active' = [s \in Sessions |-> active'[s]],
           \A s \in Sessions : active'[s] \in {active[s], None}
    PROVE  PlaceInv'
  <1>1. Shape' /\ Lone' /\ PendingOwns' /\ HasSlot'
    BY DEF PlaceInv, Shape, Lone, PendingOwns, HasSlot, Underway
  <1>2. \A k \in Calls : pc[k] \in Bare => sess[k] \in Sessions
    BY DEF PlaceInv, Lone, Underway, Bare, Admitted
  <1>3. NoEntryYet'
    BY <1>2 DEF PlaceInv, NoEntryYet
  <1> QED BY <1>1, <1>3 DEF PlaceInv

(* Without cancels a run ends after its acquisition.                        *)
LEMMA RunEndsPlace ==
    ASSUME PlaceInv, "cancel" \notin PoolOps, NEW s \in Sessions, RunEnds(s) PROVE PlaceInv'
  BY DEF PlaceInv, Shape, Lone, PendingOwns, NoEntryYet, HasSlot, RunEnds, Underway

(* Each await of an acquisition.                                            *)
LEMMA CallPlace == ASSUME PlaceInv, NEW k \in Calls, CallStep(k) PROVE PlaceInv'
  <1>1. CASE ProbeOk(k)
    BY <1>1 DEF PlaceInv, Shape, Lone, PendingOwns, NoEntryYet, HasSlot, Bare, Admitted, Owning, CallPcs, Underway,
        ProbeOk, Await, others
  <1>2. CASE Joined(k)
    BY <1>2 DEF PlaceInv, Shape, Lone, PendingOwns, NoEntryYet, HasSlot, Bare, Admitted, Owning, CallPcs, Underway,
        Joined, AwaitWith, others
  <1>3. CASE Admit(k)
    <2>1. /\ pc[k] \in {"admit", "pressure"} /\ pc' = [pc EXCEPT ![k] = "claim"]
          /\ UNCHANGED <<active, pending, sess, busy>>
          /\ reserved' = reserved \cup {sess[k]}
      BY <1>3 DEF Admit, MayPass, AlreadyIn, AwaitWith, Entries, others, PlaceInv, NoEntryYet, Bare
    <2>2. sess[k] \in Sessions
      BY <2>1 DEF PlaceInv, Lone, Underway
    <2>3. Shape' /\ Lone'
      BY <2>1, <2>2 DEF PlaceInv, Shape, Lone, CallPcs, Underway
    <2>4. PendingOwns'
      BY <2>1 DEF PlaceInv, Shape, PendingOwns, Owning, Admitted
    <2>5. NoEntryYet' /\ HasSlot'
      BY <2>1 DEF PlaceInv, Shape, NoEntryYet, HasSlot, Bare, Admitted
    <2> QED BY <2>3, <2>4, <2>5 DEF PlaceInv
  <1>4. CASE AdmitEvict(k)
    <2>1. /\ pc[k] \in {"admit", "pressure"} /\ pc' = [pc EXCEPT ![k] = "pressure"]
          /\ UNCHANGED <<pending, reserved, sess, busy>>
          /\ \E v \in Sessions : active' = [active EXCEPT ![v] = None]
      BY <1>4 DEF AdmitEvict, MayPass, AwaitWith, EvictSession, Victims, Entries, others
    <2>2. Shape' /\ Lone'
      BY <2>1 DEF PlaceInv, Shape, Lone, CallPcs, Underway
    <2>3. PendingOwns' /\ HasSlot'
      BY <2>1 DEF PlaceInv, Shape, PendingOwns, HasSlot, Owning, Admitted
    <2>4. \A j \in Calls : pc'[j] \in Bare => sess'[j] \in Sessions /\ active[sess'[j]] = None
      BY <2>1 DEF PlaceInv, Shape, Lone, NoEntryYet, Underway, Bare, Admitted
    <2>5. NoEntryYet'
      BY <2>1, <2>4 DEF PlaceInv, Shape, NoEntryYet
    <2> QED BY <2>2, <2>3, <2>5 DEF PlaceInv
  <1>5. CASE AdmitRefuse(k)
    BY <1>5 DEF PlaceInv, Shape, Lone, PendingOwns, NoEntryYet, HasSlot, Bare, Admitted, Owning, CallPcs, Underway,
        AdmitRefuse, AwaitWith, MayPass, others
  <1>6. CASE Claim(k)
    <2>1. /\ pc[k] = "claim"
          /\ \E l \in {"spawn", "stale", "wprobe"} : pc' = [pc EXCEPT ![k] = l]
          /\ UNCHANGED <<active, pending, reserved, sess, busy>>
      BY <1>6 DEF Claim, Await, AwaitWith, others
    <2> QED BY <2>1 DEF PlaceInv, Shape, Lone, PendingOwns, NoEntryYet, HasSlot, Bare, Admitted,
                        Owning, CallPcs, Underway
  <1>7. CASE WarmProbeFail(k)
    BY <1>7 DEF PlaceInv, Shape, Lone, PendingOwns, NoEntryYet, HasSlot, Bare, Admitted, Owning, CallPcs, Underway,
        WarmProbeFail, Await, others
  <1>8. CASE WarmSpoilt(k)
    BY <1>8 DEF PlaceInv, Shape, Lone, PendingOwns, NoEntryYet, HasSlot, Bare, Admitted, Owning, CallPcs, Underway,
        WarmSpoilt, Await, others
  <1>9. CASE ClaimFailed(k)
    BY <1>9 DEF PlaceInv, Shape, Lone, PendingOwns, NoEntryYet, HasSlot, Bare, Admitted, Owning, CallPcs, Underway,
        ClaimFailed, AwaitWith, others
  <1>10. CASE SpawnOk(k)
    BY <1>10 DEF PlaceInv, Shape, Lone, PendingOwns, NoEntryYet, HasSlot, Bare, Admitted, Owning, CallPcs, Underway,
        SpawnOk, AwaitWith, others
  <1>11. CASE SpawnFail(k)
    BY <1>11 DEF PlaceInv, Shape, Lone, PendingOwns, NoEntryYet, HasSlot, Bare, Admitted, Owning, CallPcs, Underway,
        SpawnFail, AwaitWith, others
  <1>12. CASE BootOk(k)
    <2>1. /\ pc[k] \in Admitted /\ active' = [active EXCEPT ![sess[k]] = call[k].own]
          /\ pc' = [pc EXCEPT ![k] = "settle"]
          /\ UNCHANGED <<pending, reserved, sess, busy>>
      BY <1>12 DEF BootOk, Won, Admitted, others
    <2> QED BY <2>1, EntryPlace
  <1>13. CASE BootStop(k)
    BY <1>13 DEF PlaceInv, Shape, Lone, PendingOwns, NoEntryYet, HasSlot, Bare, Admitted, Owning, CallPcs, Underway,
        BootStop, Await, others
  <1>14. CASE BootFailed(k)
    BY <1>14 DEF PlaceInv, Shape, Lone, PendingOwns, NoEntryYet, HasSlot, Bare, Admitted, Owning, CallPcs, Underway,
        BootFailed, AwaitWith, others
  <1>15. CASE Settle(k)
    BY <1>15 DEF PlaceInv, Shape, Lone, PendingOwns, NoEntryYet, HasSlot, Bare, Admitted, Owning, CallPcs, Underway,
        Settle, Await, others
  <1>16. CASE ProbeFail(k)
    BY <1>16, ProbeFailPlace
  <1>17. CASE Recheck(k)
    BY <1>17, RecheckPlace
  <1>18. CASE WarmClaim(k)
    BY <1>18, WarmClaimPlace
  <1> QED BY <1>1, <1>2, <1>3, <1>4, <1>5, <1>6, <1>7, <1>8, <1>9, <1>10, <1>11, <1>12, <1>13, <1>14, <1>15, <1>16, <1>17, <1>18 DEF CallStep

----------------------------------------------------------------------------
(* The cap, step by step.                                                   *)

(* Admission under the lock keeps the cap.                                  *)
LEMMA AdmitKeepsCap ==
    ASSUME CapInv, MaxActive > 0, NEW k \in Calls, Admit(k) PROVE CapacityRespected'
  <1> DEFINE s == sess[k]
  <1>1. s \in Sessions /\ active[s] = None /\ active' = active /\ pc[k] \in {"admit", "pressure"}
    BY DEF CapInv, PlaceInv, Shape, Lone, NoEntryYet, Bare, Underway, Admit, MayPass
  <1>2. CASE AlreadyIn(k)
    <2>1. reserved' \subseteq reserved /\ Entries' = Entries
      BY <1>1, <1>2 DEF Admit, AlreadyIn, Entries
    <2> QED BY <2>1, CapKept
  <1>3. CASE ~AlreadyIn(k)
    <2>1. CountWithReservations(s) < MaxActive /\ reserved' = reserved \cup {s}
      BY <1>3 DEF Admit
    <2>2. Entries' \cup reserved' = Entries \cup reserved \cup {s}
      BY <1>1, <2>1 DEF Entries
    <2>3. Cardinality(Entries \cup reserved \cup {s}) <= MaxActive
      BY <1>1, <2>1, RoomForOne DEF CapInv
    <2> QED BY <2>2, <2>3 DEF CapacityRespected
  <1> QED BY <1>2, <1>3

(* A container enters the map in the place of its reservation.              *)
LEMMA EntryKeepsCap ==
    ASSUME CapInv, MaxActive > 0, NEW k \in Calls, pc[k] \in Admitted, UNCHANGED reserved,
           active' = [active EXCEPT ![sess[k]] = call[k].own]
    PROVE  CapacityRespected'
  <1>1. sess[k] \in reserved
    BY DEF CapInv, PlaceInv, HasSlot
  <1>2. Entries' \cup reserved' \subseteq Entries \cup reserved
    BY <1>1 DEF CapInv, PlaceInv, Shape, Entries
  <1> QED BY <1>2, CapKept

(* Every await of an acquisition keeps the cap.                             *)
LEMMA CallCap ==
    ASSUME CapInv, NEW k \in Calls, CallStep(k) PROVE CapacityRespected'
  <1> SUFFICES ASSUME MaxActive > 0 PROVE CapacityRespected'
    BY DEF CapacityRespected
  <1>1. CASE Admit(k)
    BY <1>1, AdmitKeepsCap
  <1>2. CASE WarmClaim(k) \/ BootOk(k)
    <2>1. /\ pc[k] \in Admitted /\ UNCHANGED reserved
          /\ active' = [active EXCEPT ![sess[k]] = call[k].own]
      BY <1>2 DEF WarmClaim, BootOk, Admitted
    <2> QED BY <2>1, EntryKeepsCap
  <1>3. CASE ~(Admit(k) \/ WarmClaim(k) \/ BootOk(k))
    <2>1. reserved' \subseteq reserved
      BY <1>3 DEF CallStep, ProbeOk, ProbeFail, Recheck, Joined, AdmitEvict, AdmitRefuse, Claim,
          WarmProbeFail, WarmSpoilt, ClaimFailed, SpawnOk, SpawnFail, BootStop, BootFailed, Settle
    <2>2. active' = active \/ \E v \in Sessions \cup {sess[k]} : active' = [active EXCEPT ![v] = None]
      BY <1>3 DEF CallStep, ProbeOk, ProbeFail, Recheck, Joined, AdmitEvict, AdmitRefuse, Claim,
          WarmProbeFail, WarmSpoilt, ClaimFailed, SpawnOk, SpawnFail, BootStop, BootFailed, Settle,
          EvictSession, Victims, Entries
    <2>3. Entries' \subseteq Entries
      BY <2>2 DEF CapInv, PlaceInv, Shape, Entries
    <2> QED BY <2>1, <2>3, CapKept
  <1> QED BY <1>1, <1>2, <1>3

----------------------------------------------------------------------------

(* An orchestrator that has just started holds no container.                *)
LEMMA CapInit == Init => CapInv
  <1> SUFFICES ASSUME Init PROVE CapInv
    OBVIOUS
  <1>1. PlaceInv
    BY DEF Init, PlaceInv, Shape, Lone, PendingOwns, NoEntryYet, HasSlot, Bare, Admitted, CallPcs, Underway
  <1>2. Entries \cup reserved = {}
    BY DEF Init, Entries
  <1>3. Cardinality({}) = 0
    BY FS_EmptySet
  <1> QED BY <1>1, <1>2, <1>3, PoolAssumption DEF CapInv, CapacityRespected

(* A step that takes entries out of the map, or leaves it alone.            *)
LEMMA FewerEntries ==
    ASSUME CapInv, UNCHANGED <<pending, reserved, pc, sess, busy>>,
           active' = [s \in Sessions |-> active'[s]],
           \A s \in Sessions : active'[s] \in {active[s], None}
    PROVE  CapInv'
  <1>1. Entries' \cup reserved' \subseteq Entries \cup reserved
    BY DEF Entries
  <1> QED BY <1>1, CapKept, FewerEntriesPlace DEF CapInv

(* A step that writes none of what the invariant reads.                     *)
LEMMA SameEntries == ASSUME CapInv, UNCHANGED capVars PROVE CapInv'
  <1>1. active' = [s \in Sessions |-> active'[s]]
    BY DEF CapInv, PlaceInv, Shape, capVars
  <1> QED BY <1>1, FewerEntries DEF capVars

(* Every step keeps the cap if runs are not cancelled.                      *)
LEMMA CapNext == ASSUME "cancel" \notin PoolOps, CapInv, [Next]_poolVars PROVE CapInv'
  <1>1. ASSUME NEW k \in Calls, CallStep(k) PROVE CapInv'
    BY <1>1, CallPlace, CallCap DEF CapInv
  <1>2. ASSUME NEW k \in Calls, NEW s \in Sessions, Acquire(k, s) PROVE CapInv'
    <2>1. active' = active \/ active' = [active EXCEPT ![s] = None]
      BY <1>2 DEF Acquire, EvictSession
    <2>2. Entries' \cup reserved' \subseteq Entries \cup reserved
      BY <1>2, <2>1 DEF Acquire, Entries, CapInv, PlaceInv, Shape
    <2> QED BY <1>2, <2>2, AcquirePlace, CapKept DEF CapInv
  <1>3. ASSUME NEW s \in Sessions, RunEnds(s) PROVE CapInv'
    <2>1. Entries' \cup reserved' \subseteq Entries \cup reserved
      BY <1>3 DEF RunEnds, Entries
    <2> QED BY <1>3, <2>1, RunEndsPlace, CapKept DEF CapInv
  <1>4. ASSUME NEW s \in Sessions, Evict(s) \/ SweepReap(s) PROVE CapInv'
    <2>1. active' = active \/ active' = [active EXCEPT ![s] = None]
      BY <1>4 DEF Evict, SweepReap, EvictSession
    <2>2. UNCHANGED <<pending, reserved, pc, sess, busy>>
      BY <1>4 DEF Evict, SweepReap, sweepOthers, others
    <2>3. active' = [t \in Sessions |-> active'[t]] /\ \A t \in Sessions : active'[t] \in {active[t], None}
      BY <2>1 DEF CapInv, PlaceInv, Shape
    <2> QED BY <2>2, <2>3, FewerEntries
  <1>5. ASSUME ShutdownStop PROVE CapInv'
    BY <1>5, FewerEntries DEF ShutdownStop
  <1>6. ASSUME NEW a \in Agents, Warm(a) \/ Patch(a) \/ Drop(a) \/ SweepReapWarm(a) PROVE CapInv'
    BY <1>6, SameEntries DEF Warm, Patch, Drop, SweepReapWarm, sweepOthers, others, sessionVars, capVars
  <1>7. ASSUME SweepStart \/ SweepStopped \/ SweepWarmStart \/ SweepEnd PROVE CapInv'
    BY <1>7, SameEntries DEF SweepStart, SweepStopped, SweepWarmStart, SweepEnd, sweepOthers, others, capVars
  <1>8. ASSUME ShutdownStart \/ Exit PROVE CapInv'
    BY <1>8, SameEntries DEF ShutdownStart, Exit, sessionVars, capVars
  <1>9. ASSUME NEW b \in Boots, BootAlone(b) PROVE CapInv'
    BY <1>9, SameEntries DEF BootAlone, sessionVars, capVars
  <1>10. ASSUME NEW c \in Containers, Docker(c) PROVE CapInv'
    BY <1>10, SameEntries DEF Docker, sessionVars, capVars
  <1>11. ASSUME UNCHANGED poolVars PROVE CapInv'
    BY <1>11, SameEntries DEF poolVars, sessionVars, capVars
  <1> QED BY <1>1, <1>2, <1>3, <1>4, <1>5, <1>6, <1>7, <1>8, <1>9, <1>10, <1>11
          DEF Next, SweepStep, RouterStep, CallSteps

(* The cap on active containers holds, for any cap, any number of sessions  *)
(* and whatever interleaving of acquisitions, evictions, reaps, warm boots  *)
(* and shutdown, when no run is cancelled.                                  *)
THEOREM Capacity == "cancel" \notin PoolOps /\ Spec => []CapacityRespected
  <1> SUFFICES ASSUME "cancel" \notin PoolOps PROVE Spec => []CapacityRespected
    OBVIOUS
  <1>1. Init => CapInv
    BY CapInit
  <1>2. CapInv /\ [Next]_poolVars => CapInv'
    BY CapNext
  <1>3. CapInv => CapacityRespected
    BY DEF CapInv
  <1> QED BY <1>1, <1>2, <1>3, PTL DEF Spec

----------------------------------------------------------------------------
(* Without warm containers.                                                 *)

WarmPcs == {"wprobe", "stale", "spoilt"}

(* The bucket stays empty: nobody boots for it and no call claims from it.  *)
Cold ==
    /\ \A a \in Agents : warm[a] = None
    /\ \A b \in Boots : boot[b].pc = "free"
    /\ \A k \in Calls : pc[k] \notin WarmPcs
    /\ sweep.phase = "warm" => sweep.todo = {}

Boarding == {k \in Calls : pc[k] = "boot"}

(* A container that boots is up and known to its call only.                 *)
BoardingApart ==
    /\ \A k \in Boarding : /\ call[k].own \in Containers /\ ctr[call[k].own] = "up"
                           /\ \A s \in Sessions : active[s] # call[k].own
    /\ \A j, k \in Boarding : call[j].own = call[k].own => j = k

(* What the sweeper is about to stop no other session has, nor gets: it has *)
(* been started, and none that boots.                                       *)
ListedApart ==
    sweep.phase = "active" => \A e \in sweep.todo :
        /\ ctr[e[2]] # "unused"
        /\ \A t \in Sessions : active[t] = e[2] => t = e[1]
        /\ \A k \in Boarding : call[k].own # e[2]

ColdInv == TypeInv /\ Cold /\ ActiveAlive /\ SessionsApart /\ BoardingApart /\ ListedApart

(* Only a container that no session has and no call boots is stopped.       *)
StopsApart ==
    \A c \in Containers : ctr'[c] # ctr[c] =>
        /\ ctr[c] # "unused" /\ ctr'[c] # "unused"
        /\ \A s \in Sessions : active'[s] # c
        /\ \A k \in Boarding' : call'[k].own # c

(* The steps that start no container and hand none over.                    *)
LEMMA ColdStep ==
    ASSUME ColdInv, TypeInv', Cold', StopsApart,
           \A s \in Sessions : active'[s] \in {active[s], None},
           \A k \in Boarding' : k \in Boarding /\ call'[k].own = call[k].own,
           sweep'.phase = "active" => \A e \in sweep'.todo :
               \/ sweep.phase = "active" /\ e \in sweep.todo
               \/ e[1] \in Entries /\ active[e[1]] = e[2]
    PROVE  ColdInv'
  <1>1. /\ active \in [Sessions -> Containers \cup {None}]
        /\ active' \in [Sessions -> Containers \cup {None}]
    BY DEF ColdInv, TypeInv, Typed, MapTypes
  <1>2. \A s \in Entries' : s \in Entries /\ active'[s] = active[s] /\ active[s] \in Containers
    BY <1>1 DEF Entries
  <1>3. ActiveAlive' /\ SessionsApart'
    BY <1>2 DEF ColdInv, ActiveAlive, SessionsApart, StopsApart, Entries
  <1>4. \A s \in Sessions, c \in Containers : active'[s] = c => active[s] = c
    BY NoneApart
  <1>5. BoardingApart'
    <2>1. \A k \in Boarding : /\ call[k].own \in Containers /\ ctr[call[k].own] = "up"
                              /\ \A s \in Sessions : active[s] # call[k].own
      BY DEF ColdInv, BoardingApart
    <2>2. \A j, k \in Boarding : call[j].own = call[k].own => j = k
      BY DEF ColdInv, BoardingApart
    <2>3. ASSUME NEW k \in Boarding'
          PROVE  /\ call'[k].own \in Containers /\ ctr'[call'[k].own] = "up"
                 /\ \A s \in Sessions : active'[s] # call'[k].own
      BY <1>4, <2>1, <2>3 DEF StopsApart
    <2>4. \A j, k \in Boarding' : call'[j].own = call'[k].own => j = k
      BY <2>2
    <2> QED BY <2>3, <2>4 DEF BoardingApart
  <1>6. ListedApart'
    <2> SUFFICES ASSUME sweep'.phase = "active", NEW e \in sweep'.todo
                 PROVE  /\ ctr'[e[2]] # "unused"
                        /\ \A t \in Sessions : active'[t] = e[2] => t = e[1]
                        /\ \A k \in Boarding' : call'[k].own # e[2]
      BY DEF ListedApart
    <2>1. e[2] \in Containers
      BY DEF TypeInv, Typed, SweepTypes
    <2>2. /\ ctr[e[2]] # "unused"
          /\ \A t \in Sessions : active[t] = e[2] => t = e[1]
          /\ \A k \in Boarding : call[k].own # e[2]
      <3>1. CASE sweep.phase = "active" /\ e \in sweep.todo
        BY <3>1 DEF ColdInv, ListedApart
      <3>2. CASE e[1] \in Entries /\ active[e[1]] = e[2]
        BY <1>1, <2>1, <3>2, NoneApart DEF ColdInv, ActiveAlive, SessionsApart, BoardingApart, Entries
      <3> QED BY <3>1, <3>2
    <2> QED BY <1>4, <2>1, <2>2 DEF StopsApart
  <1> QED BY <1>3, <1>5, <1>6 DEF ColdInv

(* A session's container is stopped and leaves the map.                     *)
LEMMA EvictedApart ==
    ASSUME ColdInv, NEW s \in Sessions, EvictSession(s),
           \A k \in Boarding' : k \in Boarding /\ call'[k].own = call[k].own
    PROVE  StopsApart /\ \A t \in Sessions : active'[t] \in {active[t], None}
  <1>1. /\ active \in [Sessions -> Containers \cup {None}]
        /\ ctr \in [Containers -> {"unused", "up", "stopping", "gone"}]
    BY DEF ColdInv, TypeInv, Typed, MapTypes, RuntimeTypeOK
  <1>2. /\ active' = [active EXCEPT ![s] = None]
        /\ ctr' = [ctr EXCEPT ![active[s]] = IF ctr[active[s]] = "up" THEN "stopping" ELSE ctr[active[s]]]
    BY DEF EvictSession, Stop
  <1>3. \A t \in Sessions : active'[t] \in {active[t], None} /\ active'[s] = None
    BY <1>1, <1>2
  <1>4. ASSUME NEW c \in Containers, ctr'[c] # ctr[c]
        PROVE  /\ ctr[c] # "unused" /\ ctr'[c] # "unused"
               /\ \A t \in Sessions : active'[t] # c
               /\ \A k \in Boarding' : call'[k].own # c
    <2>1. c = active[s] /\ ctr[c] = "up" /\ ctr'[c] = "stopping"
      BY <1>1, <1>2, <1>4
    <2>2. \A t \in Sessions : active[t] = c => t = s
      BY <2>1, NoneApart DEF ColdInv, SessionsApart, Entries
    <2>3. \A t \in Sessions : active'[t] # c
      BY <1>3, <2>2, NoneApart
    <2>4. \A k \in Boarding : call[k].own # c
      BY <2>1 DEF ColdInv, BoardingApart
    <2> QED BY <2>1, <2>3, <2>4
  <1> QED BY <1>3, <1>4 DEF StopsApart

LEMMA NoneStopped == ASSUME UNCHANGED runtime PROVE StopsApart
  BY DEF StopsApart, runtime

----------------------------------------------------------------------------
(* The calls.                                                               *)

(* An order for a warm container begins nothing.                            *)
LEMMA NoOrder ==
    ASSUME MaxWarm = 0, NEW w, NEW cfg, NEW m, WarmForAgent(w, cfg, m) PROVE UNCHANGED boot
  BY DEF WarmForAgent

(* The awaits that come with the warm bucket.                               *)
LEMMA CallWarm ==
    ASSUME TypeInv, NEW k \in Calls, CallStep(k) \/ \E s \in Sessions : Acquire(k, s), pc'[k] \in WarmPcs
    PROVE  Claim(k) \/ WarmProbeFail(k) \/ WarmSpoilt(k)
  <1> USE DEF TypeInv, Typed, CallTypes, CallPcs, WarmPcs
  <1>1. ~(ProbeOk(k) \/ ProbeFail(k) \/ Admit(k) \/ AdmitEvict(k) \/ AdmitRefuse(k))
    BY DEF ProbeOk, ProbeFail, Admit, AdmitEvict, AdmitRefuse, Await, AwaitWith
  <1>2. ~(WarmClaim(k) \/ ClaimFailed(k))
    BY DEF WarmClaim, ClaimFailed, Await, AwaitWith, Won
  <1>3. ~(SpawnOk(k) \/ SpawnFail(k) \/ BootOk(k) \/ BootStop(k) \/ BootFailed(k) \/ Settle(k))
    BY DEF SpawnOk, SpawnFail, BootOk, BootStop, BootFailed, Settle, Await, AwaitWith, Won
  <1>4. ~Joined(k)
    <2> SUFFICES ASSUME Joined(k) PROVE FALSE
      OBVIOUS
    <2>1. call[k].on \in Calls
      BY DEF Joined, Made, JoinsOne
    <2>2. pc[call[k].on] \in {"free", "ok", "failed"}
      BY <2>1 DEF Joined, Underway
    <2> QED BY <2>2 DEF Joined, AwaitWith
  <1>5. ~Recheck(k)
    BY DEF Recheck, AwaitWith, JoinOrAdmit
  <1>6. \A s \in Sessions : ~Acquire(k, s)
    <2> SUFFICES ASSUME NEW s \in Sessions, Acquire(k, s) PROVE FALSE
      OBVIOUS
    <2>1. \E l \in {"joined", "claim", "admit", "evict", "probe"} : pc' = [pc EXCEPT ![k] = l]
      BY DEF Acquire, JoinOrAdmit
    <2> QED BY <2>1
  <1> QED BY <1>1, <1>2, <1>3, <1>4, <1>5, <1>6 DEF CallStep

LEMMA CallCold ==
    ASSUME ColdInv, NEW k \in Calls, CallStep(k) \/ \E s \in Sessions : Acquire(k, s)
    PROVE  Cold'
  <1>0. TypeInv /\ Cold
    BY DEF ColdInv
  <1>1. ~(WarmProbeFail(k) \/ WarmSpoilt(k) \/ WarmClaim(k) \/ ClaimFailed(k))
    BY <1>0 DEF Cold, WarmPcs, WarmProbeFail, WarmSpoilt, WarmClaim, ClaimFailed
  <1>2. pc'[k] \notin WarmPcs
    <2>1. CASE Claim(k)
      <3>1. warm[call[k].cfg[1]] = None
        BY <1>0, <2>1, HasSession DEF Claim, Cold
      <3> QED BY <1>0, <2>1, <3>1 DEF Claim, Await, WarmPcs, TypeInv, Typed, CallTypes
    <2> QED BY <1>0, <1>1, <2>1, CallWarm
  <1>3. \A j \in Calls : pc'[j] \notin WarmPcs
    BY <1>0, <1>2, CallOwn DEF Cold
  <1>4. UNCHANGED boot
    BY <1>1 DEF Acquire, CallStep, ProbeOk, ProbeFail, Recheck, Joined, Admit, AdmitEvict, AdmitRefuse, Claim,
       SpawnOk, SpawnFail, BootOk, BootStop, BootFailed, Settle, warmVars
  <1>5. \A a \in Agents : warm'[a] = None
    BY <1>0, CallRest DEF Thinned, Cold
  <1>6. sweep'.phase = sweep.phase /\ sweep'.todo \subseteq sweep.todo
    <2>1. sweep' = sweep \/ sweep' = [sweep EXCEPT !.todo = @ \ {<<sess[k], call[k].own>>}]
      BY DEF Acquire, CallStep, ProbeOk, ProbeFail, Recheck, Joined, Admit, AdmitEvict, AdmitRefuse, Claim,
         WarmProbeFail, WarmClaim, WarmSpoilt, ClaimFailed, SpawnOk, SpawnFail, BootOk, BootStop, BootFailed, Settle
    <2> QED BY <1>0, <2>1 DEF TypeInv, Typed, SweepTypes
  <1> QED BY <1>0, <1>3, <1>4, <1>5, <1>6 DEF Cold

(* A call that starts a container boards it; nobody has it before.          *)
LEMMA SpawnCold == ASSUME ColdInv, TypeInv', Cold', NEW k \in Calls, SpawnOk(k) PROVE ColdInv'
  <1>0. /\ TypeInv /\ RuntimeTypeOK
        /\ pc \in [Calls -> CallPcs] /\ call \in [Calls -> CallRecords]
    BY DEF ColdInv, TypeInv, Typed, CallTypes, CallRecords
  <1>1. PICK c \in Containers : Spawn(c, call[k].cfg, None) /\ AwaitWith(k, "boot", c)
    BY DEF SpawnOk
  <1>2. /\ ctr[c] = "unused" /\ ctr'[c] = "up"
        /\ \A d \in Containers : d # c => ctr'[d] = ctr[d]
    BY <1>0, <1>1 DEF Spawn, RuntimeTypeOK
  <1>3. /\ pc' = [pc EXCEPT ![k] = "boot"] /\ call' = [call EXCEPT ![k].own = c]
        /\ UNCHANGED <<active, sweep>>
    BY <1>1 DEF SpawnOk, AwaitWith
  <1>4. /\ Boarding' = Boarding \cup {k} /\ call'[k].own = c
        /\ \A j \in Calls : j # k => call'[j] = call[j]
    BY <1>0, <1>3 DEF Boarding, CallRecords
  <1>5. k \notin Boarding
    BY DEF SpawnOk, Boarding
  <1>6. \A s \in Sessions : active[s] # c
    <2> SUFFICES ASSUME NEW s \in Sessions, active[s] = c PROVE FALSE
      OBVIOUS
    <2>1. s \in Entries
      BY NoneApart DEF Entries
    <2> QED BY <1>2, <2>1 DEF ColdInv, ActiveAlive
  <1>7. \A j \in Boarding : call[j].own \in Containers /\ call[j].own # c /\ ctr[call[j].own] = "up"
                            /\ \A s \in Sessions : active[s] # call[j].own
    BY <1>2 DEF ColdInv, BoardingApart
  <1>8. BoardingApart'
    <2>1. ASSUME NEW j \in Boarding'
          PROVE  /\ call'[j].own \in Containers /\ ctr'[call'[j].own] = "up"
                 /\ \A s \in Sessions : active'[s] # call'[j].own
      <3>1. CASE j = k
        BY <1>2, <1>3, <1>4, <1>6, <3>1
      <3>2. CASE j # k
        <4>1. j \in Boarding /\ call'[j] = call[j]
          BY <1>4, <2>1, <3>2 DEF Boarding
        <4> QED BY <1>2, <1>3, <1>7, <4>1
      <3> QED BY <3>1, <3>2
    <2>2. ASSUME NEW i \in Boarding', NEW j \in Boarding', call'[i].own = call'[j].own PROVE i = j
      <3>1. \A m \in Boarding' : m # k => m \in Boarding /\ call'[m] = call[m]
        BY <1>4 DEF Boarding
      <3> QED BY <1>4, <1>7, <2>2, <3>1 DEF ColdInv, BoardingApart
    <2> QED BY <2>1, <2>2 DEF BoardingApart
  <1>9. ActiveAlive' /\ SessionsApart'
    <2>1. Entries' = Entries /\ \A s \in Entries : active[s] \in Containers /\ active[s] # c
      BY <1>0, <1>3, <1>6 DEF Entries, TypeInv, Typed, MapTypes
    <2> QED BY <1>2, <1>3, <2>1 DEF ColdInv, ActiveAlive, SessionsApart
  <1>10. ListedApart'
    <2> SUFFICES ASSUME sweep.phase = "active", NEW e \in sweep.todo
                 PROVE  /\ ctr'[e[2]] # "unused"
                        /\ \A t \in Sessions : active[t] = e[2] => t = e[1]
                        /\ \A j \in Boarding' : call'[j].own # e[2]
      BY <1>3 DEF ListedApart
    <2>1. /\ e[2] \in Containers /\ ctr[e[2]] # "unused"
          /\ \A t \in Sessions : active[t] = e[2] => t = e[1]
          /\ \A j \in Boarding : call[j].own # e[2]
      BY DEF ColdInv, ListedApart, TypeInv, Typed, SweepTypes
    <2>2. \A j \in Boarding' : j = k \/ (j \in Boarding /\ call'[j] = call[j])
      BY <1>4 DEF Boarding
    <2> QED BY <1>2, <1>4, <2>1, <2>2
  <1> QED BY <1>8, <1>9, <1>10 DEF ColdInv

(* The container a call has booted becomes its session's.                   *)
LEMMA HandOver == ASSUME ColdInv, TypeInv', Cold', NEW k \in Calls, BootOk(k) PROVE ColdInv'
  <1>0. /\ TypeInv /\ pc \in [Calls -> CallPcs] /\ call \in [Calls -> CallRecords]
        /\ active \in [Sessions -> Containers \cup {None}] /\ sess[k] \in Sessions
    BY HasSession DEF ColdInv, TypeInv, Typed, CallTypes, CallRecords, MapTypes, BootOk
  <1>1. /\ pc' = [pc EXCEPT ![k] = "settle"] /\ call' = [call EXCEPT ![k].won = TRUE]
        /\ active' = [active EXCEPT ![sess[k]] = call[k].own]
        /\ UNCHANGED <<ctr, sweep>>
    BY DEF BootOk, Won, runtime
  <1>2. k \in Boarding
    BY DEF BootOk, Boarding
  <1>3. Boarding' \subseteq Boarding \ {k} /\ \A j \in Calls : call'[j].own = call[j].own
    BY <1>0, <1>1 DEF Boarding, CallRecords
  <1>4. /\ call[k].own \in Containers /\ ctr[call[k].own] = "up"
        /\ \A s \in Sessions : active[s] # call[k].own
        /\ \A j \in Boarding' : call[j].own # call[k].own
    BY <1>2, <1>3 DEF ColdInv, BoardingApart
  <1>5. /\ active'[sess[k]] = call[k].own
        /\ \A s \in Sessions : s # sess[k] => active'[s] = active[s]
    BY <1>0, <1>1
  <1>6. ActiveAlive' /\ SessionsApart'
    BY <1>1, <1>4, <1>5 DEF ColdInv, ActiveAlive, SessionsApart, Entries
  <1>7. BoardingApart'
    <2>1. \A j \in Boarding' : /\ call'[j].own \in Containers /\ ctr'[call'[j].own] = "up"
                               /\ \A s \in Sessions : active'[s] # call'[j].own
      BY <1>1, <1>3, <1>4, <1>5 DEF ColdInv, BoardingApart
    <2>2. \A i, j \in Boarding' : call'[i].own = call'[j].own => i = j
      <3>1. \A i, j \in Boarding : call[i].own = call[j].own => i = j
        BY DEF ColdInv, BoardingApart
      <3>2. \A i \in Boarding' : i \in Boarding /\ call'[i].own = call[i].own
        BY <1>3 DEF Boarding
      <3> QED BY <3>1, <3>2
    <2> QED BY <2>1, <2>2 DEF BoardingApart
  <1>8. ListedApart'
    <2> SUFFICES ASSUME sweep.phase = "active", NEW e \in sweep.todo
                 PROVE  /\ ctr[e[2]] # "unused"
                        /\ \A t \in Sessions : active'[t] = e[2] => t = e[1]
                        /\ \A j \in Boarding' : call'[j].own # e[2]
      BY <1>1 DEF ListedApart
    <2>1. /\ ctr[e[2]] # "unused"
          /\ \A t \in Sessions : active[t] = e[2] => t = e[1]
          /\ \A j \in Boarding : call[j].own # e[2]
      BY DEF ColdInv, ListedApart
    <2>2. \A i \in Boarding' : i \in Boarding /\ call'[i].own = call[i].own
      BY <1>3 DEF Boarding
    <2> QED BY <1>2, <1>5, <2>1, <2>2
  <1> QED BY <1>6, <1>7, <1>8 DEF ColdInv

(* The other steps of a call: at most its own container, or that of a       *)
(* session it evicts, is stopped.                                           *)
LEMMA CallApart ==
    ASSUME ColdInv, NEW k \in Calls, CallStep(k) \/ \E s \in Sessions : Acquire(k, s),
           ~SpawnOk(k), ~BootOk(k)
    PROVE  /\ StopsApart
           /\ \A s \in Sessions : active'[s] \in {active[s], None}
           /\ \A j \in Boarding' : j \in Boarding /\ call'[j].own = call[j].own
  <1>0. /\ TypeInv /\ active \in [Sessions -> Containers \cup {None}]
        /\ pc \in [Calls -> CallPcs] /\ RuntimeTypeOK
    BY DEF ColdInv, TypeInv, Typed, MapTypes, CallTypes
  <1>1. \A j \in Boarding' : j \in Boarding /\ j # k /\ call'[j].own = call[j].own
    BY <1>0, CallOwn DEF Boarding
  <1>2. ASSUME NEW s \in Sessions, EvictSession(s)
        PROVE  StopsApart /\ \A t \in Sessions : active'[t] \in {active[t], None}
    BY <1>1, <1>2, EvictedApart
  <1>3. CASE ProbeFail(k)
    BY <1>0, <1>1, <1>2, <1>3, HasSession, NoneStopped DEF ProbeFail
  <1>4. CASE AdmitEvict(k)
    <2>1. \E s \in Sessions : EvictSession(s)
      BY <1>4 DEF AdmitEvict, Victims, Entries
    <2> QED BY <1>1, <1>2, <2>1
  <1>5. CASE \E s \in Sessions : Acquire(k, s)
    <2>1. PICK s \in Sessions : Acquire(k, s)
      BY <1>5
    <2>2. EvictSession(s) \/ UNCHANGED <<active, runtime>>
      BY <2>1 DEF Acquire
    <2> QED BY <1>1, <1>2, <2>2, NoneStopped
  <1>6. CASE BootStop(k)
    <2>1. k \in Boarding /\ Stop(call[k].own) /\ UNCHANGED active
      BY <1>6 DEF BootStop, Boarding
    <2>2. ASSUME NEW c \in Containers, ctr'[c] # ctr[c]
          PROVE  c = call[k].own /\ ctr[c] # "unused" /\ ctr'[c] # "unused"
      BY <1>0, <2>1, <2>2 DEF Stop, RuntimeTypeOK
    <2>3. /\ \A s \in Sessions : active[s] # call[k].own
          /\ \A j \in Boarding : j # k => call[j].own # call[k].own
      BY <2>1 DEF ColdInv, BoardingApart
    <2>4. StopsApart
      BY <1>1, <2>1, <2>2, <2>3 DEF StopsApart
    <2> QED BY <1>1, <2>1, <2>4
  <1>7. CASE CallStep(k) /\ ~(ProbeFail(k) \/ AdmitEvict(k) \/ BootStop(k))
    <2>1. UNCHANGED <<active, runtime>>
      <3>1. ~(WarmProbeFail(k) \/ WarmSpoilt(k) \/ WarmClaim(k) \/ ClaimFailed(k))
        BY DEF ColdInv, Cold, WarmPcs, WarmProbeFail, WarmSpoilt, WarmClaim, ClaimFailed
      <3>2. CASE Claim(k)
        <4>1. warm[call[k].cfg[1]] = None
          BY <1>0, <3>2, HasSession DEF Claim, ColdInv, Cold
        <4> QED BY <3>2, <4>1 DEF Claim
      <3> QED BY <1>7, <3>1, <3>2 DEF CallStep, ProbeOk, Recheck, Joined, Admit, AdmitRefuse,
             SpawnFail, BootFailed, Settle
    <2> QED BY <1>1, <2>1, NoneStopped
  <1> QED BY <1>3, <1>4, <1>5, <1>6, <1>7

LEMMA CallKeepsCold ==
    ASSUME ColdInv, NEW k \in Calls, CallStep(k) \/ \E s \in Sessions : Acquire(k, s)
    PROVE  ColdInv'
  <1>0. TypeInv
    BY DEF ColdInv
  <1>1. TypeInv' /\ Cold'
    BY <1>0, CallCold, CallStepTypes, AcquireTypes
  <1>2. CASE SpawnOk(k) \/ BootOk(k)
    BY <1>1, <1>2, SpawnCold, HandOver
  <1>3. CASE ~SpawnOk(k) /\ ~BootOk(k)
    <2>1. sweep'.phase = sweep.phase /\ sweep'.todo \subseteq sweep.todo
      <3>1. sweep' = sweep \/ sweep' = [sweep EXCEPT !.todo = @ \ {<<sess[k], call[k].own>>}]
        BY DEF Acquire, CallStep, ProbeOk, ProbeFail, Recheck, Joined, Admit, AdmitEvict, AdmitRefuse, Claim,
           WarmProbeFail, WarmClaim, WarmSpoilt, ClaimFailed, SpawnOk, SpawnFail, BootOk, BootStop, BootFailed, Settle
      <3> QED BY <1>0, <3>1 DEF TypeInv, Typed, SweepTypes
    <2> QED BY <1>1, <1>3, <2>1, CallApart, ColdStep
  <1> QED BY <1>2, <1>3

----------------------------------------------------------------------------
(* The router, the sweeper, the shutdown and Docker.                        *)

(* No boot takes a step: none has begun.                                    *)
LEMMA NoBoots == ASSUME Cold, NEW b \in Boots PROVE ~BootAlone(b)
  <1>1. boot[b].pc = "free"
    BY DEF Cold
  <1> QED BY <1>1 DEF BootAlone, BootStep, ReserveSkip, ReserveSlot, ReapEvicted, Refused, BootStart,
         BootReady, BootFail, Insert, Discarded, Release

(* What leaves the bucket, the boots, the calls and the sweeper alone.      *)
LEMMA OuterCold ==
    ASSUME ColdInv, TypeInv', StopsApart, UNCHANGED <<warm, boot, pc, call, sweep>>,
           \A s \in Sessions : active'[s] \in {active[s], None}
    PROVE  ColdInv'
  <1>1. Cold'
    BY DEF ColdInv, Cold
  <1>2. \A j \in Boarding' : j \in Boarding /\ call'[j].own = call[j].own
    BY DEF Boarding
  <1> QED BY <1>1, <1>2, ColdStep

LEMMA RouterCold ==
    ASSUME MaxWarm = 0, ColdInv, RouterStep PROVE ColdInv'
  <1>0. TypeInv
    BY DEF ColdInv
  <1>1. ASSUME NEW s \in Sessions, RunEnds(s) \/ Evict(s) PROVE ColdInv'
    <2>1. TypeInv' /\ UNCHANGED <<warm, boot, pc, call, sweep>>
      BY <1>0, <1>1, RouterTypes DEF RunEnds, Evict, warmVars
    <2>2. CASE RunEnds(s)
      BY <2>1, <2>2, NoneStopped, OuterCold DEF RunEnds
    <2>3. CASE Evict(s)
      <3>1. \A j \in Boarding' : j \in Boarding /\ call'[j].own = call[j].own
        BY <2>1 DEF Boarding
      <3> QED BY <2>1, <2>3, <3>1, EvictedApart, OuterCold DEF Evict
    <2> QED BY <1>1, <2>2, <2>3
  <1>2. ASSUME NEW a \in Agents, Warm(a) \/ Patch(a) \/ Drop(a) PROVE ColdInv'
    <2>1. TypeInv'
      BY <1>0, <1>2, OrderTypes, DropTypes
    <2>2. warm[a] = None
      BY DEF ColdInv, Cold
    <2>3. UNCHANGED <<runtime, warm, boot, active, pc, call, sweep>>
      BY <1>2, <2>2, NoOrder DEF Warm, Patch, Drop, DropWarm, sessionVars
    <2> QED BY <2>1, <2>3, NoneStopped, OuterCold
  <1> QED BY <1>1, <1>2 DEF RouterStep

LEMMA SweepCold == ASSUME ColdInv, SweepStep PROVE ColdInv'
  <1>0. /\ TypeInv /\ TypeInv' /\ SweepTypes
        /\ active \in [Sessions -> Containers \cup {None}] /\ RuntimeTypeOK
    BY SweepStepTypes DEF ColdInv, TypeInv, Typed, MapTypes
  <1>1. UNCHANGED <<boot, pc, call>>
    BY DEF SweepStep, SweepStart, SweepStopped, SweepWarmStart, SweepEnd, SweepReap, SweepReapWarm, sweepOthers
  <1>2. \A j \in Boarding' : j \in Boarding /\ call'[j].own = call[j].own
    BY <1>1 DEF Boarding
  <1>3. Keys(warm) = {}
    BY <1>0 DEF ColdInv, Cold, Keys, TypeInv, Typed, WarmTypeOK
  <1>4. ASSUME UNCHANGED <<runtime, warm, active>>, sweep'.phase = "warm" => sweep'.todo = {},
               sweep'.phase = "active" => \A e \in sweep'.todo :
                  \/ sweep.phase = "active" /\ e \in sweep.todo
                  \/ e[1] \in Entries /\ active[e[1]] = e[2]
        PROVE  ColdInv'
    <2>1. Cold'
      BY <1>1, <1>4 DEF ColdInv, Cold
    <2> QED BY <1>0, <1>2, <1>4, <2>1, NoneStopped, ColdStep
  <1>5. CASE SweepStart
    <2>1. sweep'.phase = "active" /\ \A e \in sweep'.todo : e[1] \in Entries /\ active[e[1]] = e[2]
      BY <1>0, <1>5 DEF SweepStart, SweepTypes
    <2> QED BY <1>4, <1>5, <2>1 DEF SweepStart
  <1>6. CASE SweepStopped
    BY <1>0, <1>4, <1>6 DEF SweepStopped, SweepTypes, ColdInv, Cold
  <1>7. CASE SweepWarmStart
    <2>1. sweep'.phase = "warm" /\ sweep'.todo = {}
      BY <1>0, <1>3, <1>7 DEF SweepWarmStart, SweepTypes
    <2> QED BY <1>4, <1>7, <2>1 DEF SweepWarmStart
  <1>8. CASE SweepEnd
    BY <1>0, <1>4, <1>8 DEF SweepEnd, SweepTypes
  <1>9. ASSUME NEW a \in Agents PROVE ~SweepReapWarm(a)
    BY DEF SweepReapWarm, ColdInv, Cold
  <1>10. ASSUME NEW s \in Sessions, SweepReap(s) PROVE ColdInv'
    <2>1. PICK e \in sweep.todo :
            /\ e[1] = s
            /\ \/ /\ active' = [active EXCEPT ![s] = None] /\ Stop(e[2])
                  /\ sweep' = [sweep EXCEPT !.todo = @ \ {e}, !.own = e[2], !.of = s]
               \/ /\ UNCHANGED <<active, runtime>>
                  /\ sweep' = [sweep EXCEPT !.todo = @ \ {e}]
      BY <1>10 DEF SweepReap
    <2>2. sweep.phase = "active" /\ UNCHANGED warm
      BY <1>10 DEF SweepReap
    <2>3. sweep'.phase = "active" /\ sweep'.todo \subseteq sweep.todo
      BY <1>0, <2>1, <2>2 DEF SweepTypes
    <2>4. \A t \in Sessions : active'[t] \in {active[t], None}
      BY <1>0, <2>1
    <2>5. StopsApart
      <3>1. CASE UNCHANGED runtime
        BY <3>1, NoneStopped
      <3>2. CASE Stop(e[2]) /\ active' = [active EXCEPT ![s] = None]
        <4>1. /\ ctr[e[2]] # "unused"
              /\ \A t \in Sessions : active[t] = e[2] => t = s
              /\ \A k \in Boarding : call[k].own # e[2]
          BY <2>1, <2>2 DEF ColdInv, ListedApart
        <4>2. ASSUME NEW c \in Containers, ctr'[c] # ctr[c]
              PROVE  c = e[2] /\ ctr'[c] # "unused"
          BY <1>0, <3>2, <4>2 DEF Stop, RuntimeTypeOK
        <4>3. \A t \in Sessions, c \in Containers : c = e[2] => active'[t] # c
          BY <1>0, <3>2, <4>1, NoneApart
        <4> QED BY <1>2, <4>1, <4>2, <4>3 DEF StopsApart
      <3> QED BY <2>1, <3>1, <3>2
    <2>6. Cold'
      BY <1>1, <2>2, <2>3 DEF ColdInv, Cold
    <2> QED BY <1>0, <1>2, <2>2, <2>3, <2>4, <2>5, <2>6, ColdStep
  <1> QED BY <1>5, <1>6, <1>7, <1>8, <1>9, <1>10 DEF SweepStep

LEMMA ShutdownCold == ASSUME ColdInv, ShutdownStart \/ ShutdownStop \/ Exit PROVE ColdInv'
  <1>0. /\ TypeInv /\ TypeInv' /\ RuntimeTypeOK
        /\ active \in [Sessions -> Containers \cup {None}]
    BY ShutdownTypes DEF ColdInv, TypeInv, Typed, MapTypes
  <1>1. CASE ShutdownStart \/ Exit
    <2>1. UNCHANGED <<runtime, warm, boot, pc, call, active, sweep>>
      BY <1>1 DEF ShutdownStart, Exit, warmVars, sessionVars
    <2> QED BY <1>0, <2>1, NoneStopped, OuterCold
  <1>2. CASE ShutdownStop
    <2>1. /\ UNCHANGED <<boot, pc, call, sweep>>
          /\ active' = [s \in Sessions |-> None] /\ warm' = [a \in Agents |-> None]
      BY <1>2 DEF ShutdownStop
    <2>2. Cold'
      BY <2>1 DEF ColdInv, Cold
    <2>3. \A j \in Boarding' : j \in Boarding /\ call'[j].own = call[j].own
      BY <2>1 DEF Boarding
    <2>4. Keys(warm) = {}
      BY <1>0 DEF ColdInv, Cold, Keys, TypeInv, Typed, WarmTypeOK
    <2>5. ASSUME NEW c \in Containers, ctr'[c] # ctr[c]
          PROVE  /\ ctr[c] # "unused" /\ ctr'[c] # "unused"
                 /\ \E s \in Sessions : active[s] = c
      BY <1>2, <2>4, <2>5 DEF ShutdownStop, Entries
    <2>6. StopsApart
      BY <2>1, <2>3, <2>5, NoneApart DEF StopsApart, ColdInv, BoardingApart
    <2> QED BY <1>0, <2>1, <2>2, <2>3, <2>6, ColdStep
  <1> QED BY <1>1, <1>2

LEMMA DockerCold ==
    ASSUME ColdInv, (\E c \in Containers : Docker(c)) \/ UNCHANGED poolVars PROVE ColdInv'
  <1>0. TypeInv /\ TypeInv' /\ RuntimeTypeOK
    BY DockerTypes, StutterTypes DEF ColdInv, TypeInv, Typed
  <1>1. UNCHANGED <<warm, boot, pc, call, active, sweep>>
    BY DEF Docker, poolVars, warmVars, sessionVars
  <1>2. Boarding' = Boarding
    BY <1>1 DEF Boarding
  <1>3. ASSUME NEW c \in Containers, ctr'[c] # ctr[c] PROVE ctr[c] = "stopping" /\ ctr'[c] = "gone"
    BY <1>0, <1>3 DEF Docker, StopEnds, RuntimeTypeOK, poolVars, runtime
  <1>4. \A s \in Sessions, c \in Containers : active[s] = c => ctr[c] = "up"
    BY NoneApart DEF ColdInv, ActiveAlive, Entries
  <1>5. StopsApart
    BY <1>1, <1>2, <1>3, <1>4 DEF StopsApart, ColdInv, BoardingApart
  <1> QED BY <1>0, <1>1, <1>5, OuterCold

LEMMA ColdInit == Init => ColdInv
  <1> SUFFICES ASSUME Init PROVE ColdInv
    OBVIOUS
  <1>1. TypeInv
    BY TypeInit
  <1>2. Cold
    BY DEF Init, WarmInit, Cold, WarmPcs
  <1>3. Boarding = {} /\ Entries = {}
    BY DEF Init, Boarding, Entries
  <1>4. sweep.phase = "off"
    BY DEF Init
  <1> QED BY <1>1, <1>2, <1>3, <1>4 DEF ColdInv, ActiveAlive, SessionsApart, BoardingApart, ListedApart

LEMMA ColdNext == ASSUME MaxWarm = 0, ColdInv, [Next]_poolVars PROVE ColdInv'
  <1>1. ASSUME NEW b \in Boots PROVE ~BootAlone(b)
    BY NoBoots DEF ColdInv
  <1> QED BY <1>1, CallKeepsCold, RouterCold, SweepCold, ShutdownCold, DockerCold DEF Next, CallSteps

(* Without warm containers nobody stops the container of a session that     *)
(* keeps it, neither a capacity eviction, nor the sweeper, nor a boot that  *)
(* fails, whatever overlaps (pool.ts:543-564, 634-656, 841-856, 1334-1358). *)
THEOREM NobodyStopsIt == MaxWarm = 0 /\ Spec => []ActiveAlive
  <1> SUFFICES ASSUME MaxWarm = 0 PROVE Spec => []ActiveAlive
    OBVIOUS
  <1>1. ColdInv /\ [Next]_poolVars => ColdInv'
    BY ColdNext
  <1>2. ColdInv => ActiveAlive
    BY DEF ColdInv
  <1> QED BY <1>1, <1>2, ColdInit, PTL DEF Spec

(* Without warm containers two sessions never have one container: each      *)
(* entry of the map is a container its own acquisition started.             *)
THEOREM NobodyShares == MaxWarm = 0 /\ Spec => []SessionsApart
  <1> SUFFICES ASSUME MaxWarm = 0 PROVE Spec => []SessionsApart
    OBVIOUS
  <1>1. ColdInv /\ [Next]_poolVars => ColdInv'
    BY ColdNext
  <1>2. ColdInv => SessionsApart
    BY DEF ColdInv
  <1> QED BY <1>1, <1>2, ColdInit, PTL DEF Spec

----------------------------------------------------------------------------
(* Leaks.                                                                   *)

(* What is up is some session's, or boots for one.                          *)
Kept ==
    \A c \in Containers : ctr[c] = "up" =>
        \/ \E s \in Sessions : active[s] = c
        \/ \E k \in Boarding : call[k].own = c

(* The sweeper finds nothing to reap.                                       *)
Idle == sweep.phase = "active" => sweep.todo = {}

LeakInv == ColdInv /\ CapInv /\ Idle /\ Kept

(* A session loses a container only by its stop, a call only by its stop or *)
(* by handing it over, and nothing starts.                                  *)
LEMMA KeptStep ==
    ASSUME Kept,
           \A c \in Containers : ctr'[c] = "up" => ctr[c] = "up",
           \A s \in Sessions, c \in Containers :
               active[s] = c /\ ctr'[c] = "up" => active'[s] = c,
           \A k \in Boarding : \/ k \in Boarding' /\ call'[k].own = call[k].own
                               \/ ctr'[call[k].own] # "up"
                               \/ \E s \in Sessions : active'[s] = call[k].own
    PROVE  Kept'
  <1> SUFFICES ASSUME NEW c \in Containers, ctr'[c] = "up"
               PROVE  \/ \E s \in Sessions : active'[s] = c
                      \/ \E k \in Boarding' : call'[k].own = c
    BY DEF Kept
  <1>1. CASE \E s \in Sessions : active[s] = c
    BY <1>1
  <1>2. CASE \E k \in Boarding : call[k].own = c
    BY <1>2
  <1> QED BY <1>1, <1>2 DEF Kept

(* A session's container leaves the map and is stopped.                     *)
LEMMA EvictedKept ==
    ASSUME LeakInv, NEW s \in Sessions, EvictSession(s),
           \A k \in Boarding : k \in Boarding' /\ call'[k].own = call[k].own
    PROVE  Kept'
  <1>1. /\ active \in [Sessions -> Containers \cup {None}] /\ RuntimeTypeOK
        /\ active' = [active EXCEPT ![s] = None] /\ Stop(active[s])
    BY DEF LeakInv, ColdInv, TypeInv, Typed, MapTypes, EvictSession
  <1>2. \A c \in Containers : ctr'[c] = "up" => ctr[c] = "up" /\ c # active[s]
    BY <1>1 DEF Stop, RuntimeTypeOK
  <1>3. \A t \in Sessions, c \in Containers : active[t] = c /\ ctr'[c] = "up" => active'[t] = c
    BY <1>1, <1>2
  <1> QED BY <1>2, <1>3, KeptStep DEF LeakInv

(* A container that comes up boards.                                        *)
LEMMA SpawnKept == ASSUME LeakInv, NEW k \in Calls, SpawnOk(k) PROVE Kept'
  <1>0. /\ RuntimeTypeOK /\ pc \in [Calls -> CallPcs] /\ call \in [Calls -> CallRecords]
    BY DEF LeakInv, ColdInv, TypeInv, Typed, CallTypes, CallRecords
  <1>1. PICK c \in Containers : Spawn(c, call[k].cfg, None) /\ AwaitWith(k, "boot", c)
    BY DEF SpawnOk
  <1>2. \A d \in Containers : d # c => ctr'[d] = ctr[d]
    BY <1>0, <1>1 DEF Spawn, RuntimeTypeOK
  <1>3. UNCHANGED active
    BY DEF SpawnOk
  <1>4. /\ k \in Boarding' /\ call'[k].own = c
        /\ \A j \in Boarding : j # k /\ j \in Boarding' /\ call'[j] = call[j]
    BY <1>0, <1>1 DEF AwaitWith, Boarding, CallRecords, SpawnOk
  <1> QED BY <1>2, <1>3, <1>4 DEF LeakInv, Kept

(* A container that is ready enters the map: its session has none.          *)
LEMMA HandOverKept == ASSUME LeakInv, NEW k \in Calls, BootOk(k) PROVE Kept'
  <1>0. /\ TypeInv /\ pc \in [Calls -> CallPcs] /\ call \in [Calls -> CallRecords]
        /\ active \in [Sessions -> Containers \cup {None}] /\ sess[k] \in Sessions
    BY HasSession DEF LeakInv, ColdInv, TypeInv, Typed, CallTypes, CallRecords, MapTypes, BootOk
  <1>1. active[sess[k]] = None
    BY DEF LeakInv, CapInv, PlaceInv, NoEntryYet, Bare, Admitted, BootOk
  <1>2. /\ active' = [active EXCEPT ![sess[k]] = call[k].own] /\ UNCHANGED ctr
        /\ pc' = [pc EXCEPT ![k] = "settle"] /\ call' = [call EXCEPT ![k].won = TRUE]
    BY DEF BootOk, Won, runtime
  <1>3. \A t \in Sessions, c \in Containers : active[t] = c => active'[t] = c
    BY <1>0, <1>1, <1>2, NoneApart
  <1>4. \A j \in Boarding : j # k => j \in Boarding' /\ call'[j].own = call[j].own
    BY <1>0, <1>2 DEF Boarding
  <1>5. active'[sess[k]] = call[k].own
    BY <1>0, <1>2
  <1> QED BY <1>0, <1>2, <1>3, <1>4, <1>5, KeptStep DEF LeakInv

LEMMA CallKept ==
    ASSUME LeakInv, NEW k \in Calls, CallStep(k) \/ \E s \in Sessions : Acquire(k, s)
    PROVE  Kept'
  <1>0. /\ TypeInv /\ RuntimeTypeOK /\ pc \in [Calls -> CallPcs]
        /\ call \in [Calls -> CallRecords] /\ ColdInv
    BY DEF LeakInv, ColdInv, TypeInv, Typed, CallTypes, CallRecords
  <1>1. CASE SpawnOk(k) \/ BootOk(k)
    BY <1>1, SpawnKept, HandOverKept
  <1>2. ASSUME ~SpawnOk(k), ~BootOk(k), ~BootStop(k)
        PROVE  \A j \in Boarding : j \in Boarding' /\ call'[j].own = call[j].own
    <2>1. k \notin Boarding
      <3>1. CASE \E s \in Sessions : Acquire(k, s)
        BY <3>1 DEF Acquire, Boarding
      <3>2. CASE CallStep(k)
        <4>1. ~(pc[k] = "boot")
          <5>1. CASE ProbeOk(k) \/ ProbeFail(k) \/ Recheck(k) \/ Joined(k)
            BY <5>1 DEF ProbeOk, ProbeFail, Recheck, Joined
          <5>2. CASE Admit(k) \/ AdmitEvict(k) \/ AdmitRefuse(k)
            BY <5>2 DEF Admit, AdmitEvict, AdmitRefuse, MayPass
          <5>3. CASE Claim(k) \/ WarmProbeFail(k) \/ WarmClaim(k) \/ WarmSpoilt(k) \/ ClaimFailed(k)
            BY <5>3 DEF Claim, WarmProbeFail, WarmClaim, WarmSpoilt, ClaimFailed
          <5>4. CASE SpawnFail(k) \/ BootFailed(k) \/ Settle(k)
            BY <5>4 DEF SpawnFail, BootFailed, Settle
          <5> QED BY <1>2, <3>2, <5>1, <5>2, <5>3, <5>4 DEF CallStep
        <4> QED BY <4>1 DEF Boarding
      <3> QED BY <3>1, <3>2
    <2> QED BY <1>0, <2>1, CallOwn DEF Boarding
  <1>3. CASE BootStop(k)
    <2>1. /\ Stop(call[k].own) /\ UNCHANGED <<active, call>>
          /\ pc' = [pc EXCEPT ![k] = "bootfail"]
      BY <1>3 DEF BootStop, Await
    <2>2. k \in Boarding /\ call[k].own \in Containers
      BY <1>0, <1>3 DEF BootStop, Boarding, ColdInv, BoardingApart
    <2>3. \A c \in Containers : ctr'[c] = "up" => ctr[c] = "up" /\ c # call[k].own
      BY <1>0, <2>1, <2>2 DEF Stop, RuntimeTypeOK
    <2>4. \A j \in Boarding : j # k => j \in Boarding'
      BY <1>0, <2>1 DEF Boarding
    <2> QED BY <2>1, <2>2, <2>3, <2>4, KeptStep DEF LeakInv
  <1>4. CASE ~SpawnOk(k) /\ ~BootOk(k) /\ ~BootStop(k)
    <2>1. \A j \in Boarding : j \in Boarding' /\ call'[j].own = call[j].own
      BY <1>2, <1>4
    <2>2. (\E s \in Sessions : EvictSession(s)) \/ UNCHANGED <<active, runtime>>
      <3>1. ~(WarmProbeFail(k) \/ WarmSpoilt(k) \/ WarmClaim(k) \/ ClaimFailed(k))
        BY <1>0 DEF ColdInv, Cold, WarmPcs, WarmProbeFail, WarmSpoilt, WarmClaim, ClaimFailed
      <3>2. CASE \E s \in Sessions : Acquire(k, s)
        BY <3>2 DEF Acquire
      <3>3. CASE ProbeFail(k)
        BY <1>0, <3>3, HasSession DEF ProbeFail
      <3>4. CASE AdmitEvict(k)
        BY <3>4 DEF AdmitEvict, Victims, Entries
      <3>5. CASE Claim(k)
        <4>1. warm[call[k].cfg[1]] = None
          BY <1>0, <3>5, HasSession DEF Claim, ColdInv, Cold
        <4> QED BY <3>5, <4>1 DEF Claim
      <3>6. CASE CallStep(k) /\ ~(ProbeFail(k) \/ AdmitEvict(k) \/ Claim(k))
        BY <1>4, <3>1, <3>6 DEF CallStep, ProbeOk, Recheck, Joined, Admit, AdmitRefuse, SpawnFail,
           BootFailed, Settle
      <3> QED BY <3>2, <3>3, <3>4, <3>5, <3>6
    <2>3. CASE \E s \in Sessions : EvictSession(s)
      BY <2>1, <2>3, EvictedKept
    <2>4. CASE UNCHANGED <<active, runtime>>
      <3>1. UNCHANGED <<active, ctr>>
        BY <2>4 DEF runtime
      <3> QED BY <2>1, <3>1, KeptStep DEF LeakInv
    <2> QED BY <2>2, <2>3, <2>4
  <1> QED BY <1>1, <1>3, <1>4

(* What leaves the calls alone and stops a container only with its entry.   *)
LEMMA OuterKept ==
    ASSUME LeakInv, UNCHANGED <<pc, call>>,
           \/ UNCHANGED <<active, ctr>>
           \/ /\ \A s \in Sessions : active'[s] = None
              /\ \A c \in Containers : ctr'[c] = "up" => /\ ctr[c] = "up"
                                                         /\ \A s \in Sessions : active[s] # c
    PROVE  Kept'
  <1>1. \A k \in Boarding : k \in Boarding' /\ call'[k].own = call[k].own
    BY DEF Boarding
  <1>2. CASE UNCHANGED <<active, ctr>>
    BY <1>1, <1>2, KeptStep DEF LeakInv
  <1>3. CASE /\ \A s \in Sessions : active'[s] = None
             /\ \A c \in Containers : ctr'[c] = "up" => /\ ctr[c] = "up"
                                                        /\ \A s \in Sessions : active[s] # c
    BY <1>1, <1>3, KeptStep DEF LeakInv
  <1> QED BY <1>2, <1>3

LEMMA EnvironmentKept ==
    ASSUME MaxWarm = 0, LeakInv, PoolOps \cap {"cancel", "sweep"} = {},
           \/ RouterStep \/ SweepStep \/ ShutdownStart \/ ShutdownStop \/ Exit
           \/ \E c \in Containers : Docker(c)
           \/ UNCHANGED poolVars
    PROVE  Kept'
  <1>0. /\ TypeInv /\ RuntimeTypeOK /\ SweepTypes
        /\ active \in [Sessions -> Containers \cup {None}]
        /\ \A a \in Agents : warm[a] = None
    BY DEF LeakInv, ColdInv, Cold, TypeInv, Typed, MapTypes
  <1>1. CASE RouterStep
    <2>1. ASSUME NEW s \in Sessions, Evict(s) PROVE Kept'
      <3>1. \A k \in Boarding : k \in Boarding' /\ call'[k].own = call[k].own
        BY <2>1 DEF Evict, Boarding
      <3> QED BY <2>1, <3>1, EvictedKept DEF Evict
    <2>2. ASSUME NEW s \in Sessions, RunEnds(s) PROVE Kept'
      BY <2>2, OuterKept DEF RunEnds, runtime
    <2>3. ASSUME NEW a \in Agents, Warm(a) \/ Patch(a) \/ Drop(a) PROVE Kept'
      BY <1>0, <2>3, OuterKept DEF Warm, Patch, Drop, DropWarm, sessionVars, runtime
    <2> QED BY <1>1, <2>1, <2>2, <2>3 DEF RouterStep
  <1>2. CASE SweepStep
    <2>1. (\A s \in Sessions : ~SweepReap(s)) /\ (\A a \in Agents : ~SweepReapWarm(a))
      BY DEF SweepReap, SweepReapWarm, LeakInv, Idle, ColdInv, Cold
    <2> QED BY <1>2, <2>1, OuterKept DEF SweepStep, SweepStart, SweepStopped, SweepWarmStart, SweepEnd,
           sweepOthers, runtime
  <1>3. CASE ShutdownStart \/ Exit \/ UNCHANGED poolVars
    BY <1>3, OuterKept DEF ShutdownStart, Exit, poolVars, sessionVars, runtime
  <1>4. CASE ShutdownStop
    <2>1. /\ UNCHANGED <<pc, call>>
          /\ active' = [s \in Sessions |-> None]
          /\ ctr' = [c \in Containers |->
                       IF c \in {active[s] : s \in Entries} \cup {warm[a] : a \in Keys(warm)} /\ ctr[c] = "up"
                       THEN "stopping" ELSE ctr[c]]
      BY <1>4 DEF ShutdownStop
    <2>2. ASSUME NEW c \in Containers, ctr'[c] = "up"
          PROVE  ctr[c] = "up" /\ \A s \in Sessions : active[s] # c
      BY <2>1, <2>2, NoneApart DEF Entries
    <2> QED BY <2>1, <2>2, OuterKept
  <1>5. ASSUME NEW d \in Containers, Docker(d) PROVE Kept'
    <2>1. UNCHANGED <<pc, call, active>> /\ StopEnds(d)
      BY <1>5 DEF Docker, sessionVars
    <2>2. \A c \in Containers : ctr'[c] = "up" => ctr[c] = "up"
      BY <1>0, <2>1 DEF StopEnds, RuntimeTypeOK
    <2>3. \A k \in Boarding : k \in Boarding' /\ call'[k].own = call[k].own
      BY <2>1 DEF Boarding
    <2> QED BY <2>1, <2>2, <2>3, KeptStep DEF LeakInv
  <1> QED BY <1>1, <1>2, <1>3, <1>4, <1>5

LEMMA IdleNext ==
    ASSUME LeakInv, PoolOps \cap {"cancel", "sweep"} = {}, [Next]_poolVars PROVE Idle'
  <1>0. TypeInv /\ SweepTypes
    BY DEF LeakInv, ColdInv, TypeInv, Typed
  <1>1. CASE SweepStep
    <2>1. CASE SweepStart
      <3>1. "sweep" \notin PoolOps
        OBVIOUS
      <3>2. PICK old \in SUBSET {} :
              sweep' = [sweep EXCEPT !.phase = "active", !.todo = {<<s, active[s]>> : s \in old}]
        BY <2>1, <3>1 DEF SweepStart
      <3>3. {<<s, active[s]>> : s \in old} = {}
        OBVIOUS
      <3> QED BY <1>0, <3>2, <3>3 DEF Idle, SweepTypes
    <2>2. CASE SweepStopped
      BY <1>0, <2>2 DEF SweepStopped, Idle, SweepTypes, LeakInv
    <2>3. CASE SweepWarmStart \/ SweepEnd
      <3>1. sweep'.phase # "active"
        BY <1>0, <2>3 DEF SweepWarmStart, SweepEnd, SweepTypes
      <3> QED BY <3>1 DEF Idle
    <2>4. (\A s \in Sessions : ~SweepReap(s)) /\ (\A a \in Agents : ~SweepReapWarm(a))
      BY DEF SweepReap, SweepReapWarm, LeakInv, Idle, ColdInv, Cold
    <2> QED BY <1>1, <2>1, <2>2, <2>3, <2>4 DEF SweepStep
  <1>2. ASSUME NEW k \in Calls, CallSteps(k) PROVE Idle'
    <2>1. sweep' = sweep \/ sweep' = [sweep EXCEPT !.todo = @ \ {<<sess[k], call[k].own>>}]
      BY <1>2 DEF CallSteps, Acquire, CallStep, ProbeOk, ProbeFail, Recheck, Joined, Admit, AdmitEvict,
         AdmitRefuse, Claim, WarmProbeFail, WarmClaim, WarmSpoilt, ClaimFailed, SpawnOk, SpawnFail, BootOk,
         BootStop, BootFailed, Settle
    <2>2. sweep'.phase = sweep.phase /\ sweep'.todo \subseteq sweep.todo
      BY <1>0, <2>1 DEF SweepTypes
    <2> QED BY <2>2 DEF Idle, LeakInv
  <1>3. CASE \/ \E s \in Sessions : RunEnds(s) \/ Evict(s)
             \/ \E a \in Agents : Warm(a) \/ Patch(a) \/ Drop(a)
             \/ ShutdownStart \/ ShutdownStop \/ Exit
             \/ \E c \in Containers : Docker(c)
             \/ \E b \in Boots : BootAlone(b)
             \/ UNCHANGED poolVars
    <2>1. UNCHANGED sweep
      BY <1>3 DEF RunEnds, Evict, Warm, Patch, Drop, ShutdownStart, ShutdownStop, Exit, Docker, BootAlone,
         poolVars
    <2> QED BY <2>1 DEF Idle, LeakInv
  <1> QED BY <1>1, <1>2, <1>3 DEF Next, RouterStep

LEMMA LeakInit == Init => LeakInv
  <1> SUFFICES ASSUME Init PROVE LeakInv
    OBVIOUS
  <1>1. Idle /\ Kept
    BY DEF Init, RuntimeInit, Idle, Kept
  <1> QED BY <1>1, ColdInit, CapInit DEF LeakInv

LEMMA LeakNext ==
    ASSUME MaxWarm = 0, LeakInv, PoolOps \cap {"cancel", "sweep"} = {}, [Next]_poolVars
    PROVE  LeakInv'
  <1>1. "cancel" \notin PoolOps
    OBVIOUS
  <1>2. ColdInv' /\ CapInv' /\ Idle'
    BY <1>1, ColdNext, CapNext, IdleNext DEF LeakInv
  <1>3. ASSUME NEW b \in Boots PROVE ~BootAlone(b)
    BY NoBoots DEF LeakInv, ColdInv
  <1>4. Kept'
    BY <1>3, CallKept, EnvironmentKept DEF Next, CallSteps
  <1> QED BY <1>2, <1>4 DEF LeakInv

(* Without warm containers, as long as no run is cancelled and no container *)
(* is reaped for being idle, a container that is up is held by a session or *)
(* by the acquisition that boots it (pool.ts:819-899, 1184-1195).           *)
THEOREM NoneForgotten ==
    MaxWarm = 0 /\ PoolOps \cap {"cancel", "sweep"} = {} /\ Spec => []NoLeak
  <1> SUFFICES ASSUME MaxWarm = 0, PoolOps \cap {"cancel", "sweep"} = {} PROVE Spec => []NoLeak
    OBVIOUS
  <1>1. LeakInv /\ [Next]_poolVars => LeakInv'
    BY LeakNext
  <1>2. LeakInv => NoLeak
    <2> SUFFICES ASSUME LeakInv, NEW c \in Containers, ctr[c] = "up" PROVE c \in Held
      BY DEF NoLeak
    <2>1. CASE \E s \in Sessions : active[s] = c
      BY <2>1 DEF Held
    <2>2. CASE \E k \in Boarding : call[k].own = c
      BY <2>2 DEF Held, Boarding, Underway
    <2> QED BY <2>1, <2>2 DEF LeakInv, Kept
  <1> QED BY <1>1, <1>2, LeakInit, PTL DEF Spec
=============================================================================
