-------------------------- MODULE RestartRecovery --------------------------
(***************************************************************************)
(* One session across crashes of the orchestrator: what survives in SQLite  *)
(* and in the container, and what the startup pass of src/index.ts makes of *)
(* it.  SessionRouter has the same session under one process, with every    *)
(* await of a task; here a task is as coarse as recovery can tell apart,    *)
(* and the process may die anywhere, between two SQLite writes of one       *)
(* synchronous section included: such a section is given as the sequence    *)
(* of the stores its writes leave, one after the other.                     *)
(*                                                                          *)
(* Startup: adopt (one labelled container), recover (fail the in-flight     *)
(* session whose container was not adopted), observe (the observer of an    *)
(* adopted in-flight session), drain (the queue of an idle session), up.    *)
(***************************************************************************)
EXTENDS Integers, Sequences, FiniteSets

CONSTANTS
    Msgs,        \* messages clients may post, each at most once
    Tools,       \* do turns use tools (agent.tool_result before the end)?
    MaxRefusals, \* bound: queued messages runEvent refuses (quota, no agent)
    MaxCrashes,  \* bound: crashes of the orchestrator
    MaxDeaths,   \* bound: containers that die by themselves
    MaxCancels   \* bound: cancel requests

ASSUME MsgsAssumption == IsFiniteSet(Msgs)
ASSUME ToolsAssumption == Tools \in BOOLEAN
ASSUME BoundsAssumption ==
    /\ MaxRefusals \in Nat /\ MaxCrashes \in Nat
    /\ MaxDeaths \in Nat /\ MaxCancels \in Nat

VARIABLES
    db,          \* the session in SQLite: status, queue, and fresh: is the
                 \* latest outcome in Pi's JSONL newer than last_event_at?
    box,         \* is the session's container running?
    working,     \* the messages Pi is working on in it
    received,    \* the user messages Pi has received, in order
    boot,        \* where startup is; "up" once HTTP is served
    active,      \* the pool holds the container, with a gateway connection
    observer,    \* observeAdoptedSession: none, watching, settling, evicting
    event,       \* the terminal chat event on its way to that observer
    pc,          \* per message: where its task is, if it has one
    cancelFlag,  \* the session is in cancelledDuringAcquire
    aborting,    \* a cancel request awaits wsClient.abort
    spent        \* how often each bounded event has happened

pi   == <<box, working, received>>
ctl  == <<cancelFlag, aborting, spent>>
vars == <<db, pi, boot, active, observer, event, pc, ctl>>

Statuses == {"idle", "starting", "running", "failed"}
Phases   == {"down", "adopt", "recover", "observe", "drain", "up"}
Live     == {"acquire", "post", "turn", "settle", "broken"}
Pcs      == {"new", "queued", "gone"} \cup Live

TypeOK ==
    /\ db \in [status : Statuses, queue : Seq(Msgs), fresh : BOOLEAN]
    /\ box \in BOOLEAN /\ working \subseteq Msgs /\ received \in Seq(Msgs)
    /\ boot \in Phases /\ active \in BOOLEAN
    /\ observer \in {"none", "watching", "settling", "evicting"}
    /\ event \in {"none", "final", "error"}
    /\ event # "none" => observer = "watching"
    /\ pc \in [Msgs -> Pcs]
    /\ cancelFlag \in BOOLEAN /\ aborting \in BOOLEAN
    /\ spent \in [refusals : 0 .. MaxRefusals, crashes : 0 .. MaxCrashes,
                  deaths : 0 .. MaxDeaths, cancels : 0 .. MaxCancels]

Init ==
    /\ db = [status |-> "idle", queue |-> <<>>, fresh |-> FALSE]
    /\ box = FALSE /\ working = {} /\ received = <<>>
    /\ boot = "up" /\ active = FALSE /\ observer = "none" /\ event = "none"
    /\ pc = [m \in Msgs |-> "new"]
    /\ cancelFlag = FALSE /\ aborting = FALSE
    /\ spent = [refusals |-> 0, crashes |-> 0, deaths |-> 0, cancels |-> 0]

----------------------------------------------------------------------------
(* The SQLite statements.  Every UPDATE of the row sets last_event_at.      *)

SetStatus(d, s) == [d EXCEPT !.status = s, !.fresh = FALSE]
BumpTurns(d)    == [d EXCEPT !.fresh = FALSE]
Enqueue(d, m)   == [d EXCEPT !.queue = Append(@, m)]
Shift(d)        == [d EXCEPT !.queue = Tail(@)]
Clear(d)        == [d EXCEPT !.queue = <<>>]

Tasks == {m \in Msgs : pc[m] \in Live}

Inflight == db.status \in {"starting", "running"}
Queued(d) == {d.queue[i] : i \in 1 .. Len(d.queue)}

(* The writes of each synchronous section, as the stores they leave.        *)

RunEventWrites(m) ==
    IF Inflight THEN <<Enqueue(db, m), BumpTurns(Enqueue(db, m))>>
                ELSE <<BumpTurns(SetStatus(db, "starting"))>>

SettleWrites ==
    IF db.queue # <<>> THEN <<Shift(db), BumpTurns(Shift(db))>>
                       ELSE <<SetStatus(db, "idle")>>

FailureWrites == <<Clear(db), SetStatus(Clear(db), "failed")>>

CancelWrites == <<Clear(db), SetStatus(Clear(db), "idle")>>

OrphanWrites == <<SetStatus(db, "failed"), Clear(SetStatus(db, "failed"))>>

(* runEvent(peek) on the session found idle, then shift.                    *)
DrainWrites == <<SetStatus(db, "starting"), Shift(SetStatus(db, "starting"))>>

(* Mutant: the head is run and stays in the queue.                          *)
FinalizeWrites_NoShift ==
    LET idle == SetStatus(db, "idle") IN
    IF db.queue = <<>> THEN <<idle>> ELSE <<idle, SetStatus(idle, "starting")>>

(* endRunSuccess, then runEvent(peek) and shift.                            *)
FinalizeWrites ==
    LET idle == SetStatus(db, "idle") IN
    IF db.queue = <<>> THEN <<idle>>
    ELSE <<idle, SetStatus(idle, "starting"), Shift(SetStatus(idle, "starting"))>>

Commit(writes) == db' = writes[Len(writes)]

(* A message that left the queue without a task will never be run.          *)
Forget(p) == [m \in Msgs |->
    IF p[m] = "queued" /\ m \notin Queued(db') THEN "gone" ELSE p[m]]

(* The container stops: a POST to it will be rejected, Pi is gone.          *)
Break(p) == [m \in Msgs |->
    IF p[m] \in {"post", "turn"} THEN "broken" ELSE p[m]]

Stopped == box' = FALSE /\ working' = {} /\ UNCHANGED received

(* An observer listens on the connection of the container it was attached   *)
(* to: without it no event will ever reach it.                              *)
Deaf == IF observer = "watching" /\ event = "none" THEN "none" ELSE observer

----------------------------------------------------------------------------
(* A running orchestrator.                                                  *)

(* POST /v1/sessions/:id/events: runEvent starts a task or enqueues.        *)
RunEvent(m) ==
    /\ boot = "up" /\ pc[m] = "new"
    /\ Commit(RunEventWrites(m))
    /\ pc' = [pc EXCEPT ![m] = IF Inflight THEN "queued" ELSE "acquire"]
    /\ UNCHANGED <<pi, boot, active, observer, event, ctl>>

(* The pool starts a container for the task; the pool's entry comes later.  *)
ContainerStarts(m) ==
    /\ pc[m] = "acquire" /\ ~box
    /\ box' = TRUE
    /\ UNCHANGED <<db, working, received, boot, active, observer, event, pc, ctl>>

(* acquireWithRetry returns; a cancel may have come in the meantime.        *)
Acquired(m) ==
    /\ pc[m] = "acquire" /\ box
    /\ active' = TRUE
    /\ cancelFlag' = FALSE
    /\ IF cancelFlag
       THEN pc' = [pc EXCEPT ![m] = "gone"] /\ UNCHANGED db
       ELSE /\ pc' = [pc EXCEPT ![m] = "post"]
            /\ Commit(<<SetStatus(db, "running")>>)
    /\ UNCHANGED <<pi, boot, observer, event, aborting, spent>>

(* The POST returned: the head of the queue is next, or the session idles.  *)
TurnSettles(m) ==
    /\ pc[m] = "settle"
    /\ Commit(SettleWrites)
    /\ pc' = [x \in Msgs |->
                IF x = m THEN "gone"
                ELSE IF db.queue # <<>> /\ x = Head(db.queue) THEN "acquire"
                ELSE pc[x]]
    /\ UNCHANGED <<pi, boot, active, observer, event, ctl>>

(* acquireWithRetry, the POST or what follows it throws:                    *)
(* handleBackgroundFailure, which leaves a session alone that is no longer  *)
(* in flight.                                                               *)
TaskFails(m) ==
    /\ pc[m] \in Live
    /\ cancelFlag' = FALSE
    /\ IF Inflight THEN Commit(FailureWrites) ELSE UNCHANGED db
    /\ IF Inflight \/ pc[m] = "acquire"
       THEN /\ Stopped /\ active' = FALSE /\ observer' = Deaf
            /\ pc' = Forget(Break([pc EXCEPT ![m] = "gone"]))
       ELSE /\ pc' = [pc EXCEPT ![m] = "gone"]
            /\ UNCHANGED <<pi, active, observer>>
    /\ UNCHANGED <<boot, event, aborting, spent>>

(* POST /v1/sessions/:id/cancel, with no connection to the container yet.   *)
CancelDuringAcquire ==
    /\ boot = "up" /\ Inflight /\ ~active /\ spent.cancels < MaxCancels
    /\ spent' = [spent EXCEPT !.cancels = @ + 1]
    /\ cancelFlag' = TRUE
    /\ Commit(CancelWrites)
    /\ pc' = Forget(pc)
    /\ UNCHANGED <<pi, boot, active, observer, event, aborting>>

(* The same with a connection: it awaits the abort,                         *)
CancelAborts ==
    /\ boot = "up" /\ Inflight /\ active /\ ~aborting
    /\ spent.cancels < MaxCancels
    /\ spent' = [spent EXCEPT !.cancels = @ + 1]
    /\ aborting' = TRUE
    /\ UNCHANGED <<db, pi, boot, active, observer, event, pc, cancelFlag>>

(* which stops Pi's turns (their POSTs return) without a terminal event,    *)
(* and idles the session.  The reply shares its socket with the events.     *)
CancelAcked ==
    /\ aborting /\ active /\ box /\ event = "none"
    /\ aborting' = FALSE
    /\ working' = {}
    /\ Commit(CancelWrites)
    /\ pc' = Forget([m \in Msgs |-> IF pc[m] = "turn" THEN "settle" ELSE pc[m]])
    /\ UNCHANGED <<box, received, boot, active, observer, event, cancelFlag, spent>>

CancelRejected ==
    /\ aborting /\ ~(active /\ box)
    /\ aborting' = FALSE
    /\ UNCHANGED <<db, pi, boot, active, observer, event, pc, cancelFlag, spent>>

----------------------------------------------------------------------------
(* The container: Pi outlives the orchestrator.                             *)

PiReceives(m) ==
    /\ pc[m] = "post" /\ box
    /\ pc' = [pc EXCEPT ![m] = "turn"]
    /\ working' = working \cup {m}
    /\ received' = Append(received, m)
    /\ UNCHANGED <<db, box, boot, active, observer, event, ctl>>

(* agent.tool_result in the JSONL, in the middle of a turn.                 *)
PiUsesTool ==
    /\ Tools /\ working # {} /\ ~db.fresh
    /\ db' = [db EXCEPT !.fresh = TRUE]
    /\ UNCHANGED <<pi, boot, active, observer, event, pc, ctl>>

(* The end of a turn answers the POST, if someone still waits for it, and   *)
(* is broadcast to the observer, if one listens.                            *)
PiEnds(m, outcome, p) ==
    /\ m \in working
    /\ working' = working \ {m}
    /\ pc' = IF pc[m] = "turn" THEN [pc EXCEPT ![m] = p] ELSE pc
    /\ event' = IF observer = "watching" /\ event = "none" THEN outcome ELSE event
    /\ UNCHANGED <<box, received, boot, active, observer, ctl>>

PiFinishes(m) == PiEnds(m, "final", "settle") /\ db' = [db EXCEPT !.fresh = TRUE]
PiErrors(m)   == PiEnds(m, "error", "broken") /\ UNCHANGED db

ContainerDies ==
    /\ box /\ spent.deaths < MaxDeaths
    /\ spent' = [spent EXCEPT !.deaths = @ + 1]
    /\ Stopped
    /\ pc' = Break(pc)
    /\ observer' = Deaf
    /\ UNCHANGED <<db, boot, active, event, cancelFlag, aborting>>

----------------------------------------------------------------------------
(* The crash, and the startup pass.                                         *)

When(condition, writes) == IF condition THEN {writes} ELSE {}

(* The sections the process may be in the middle of.                        *)
Sections ==
    {RunEventWrites(m) : m \in {x \in Msgs : boot = "up" /\ pc[x] = "new"}}
    \cup When(\E m \in Msgs : pc[m] = "settle", SettleWrites)
    \cup When(Inflight /\ Tasks # {}, FailureWrites)
    \cup When(aborting, CancelWrites)
    \cup When(observer = "settling", FinalizeWrites)
    \cup When(boot = "recover" /\ Inflight /\ ~active, OrphanWrites)
    \cup When(boot = "drain" /\ db.status = "idle" /\ db.queue # <<>>, DrainWrites)

(* Memory is lost; a message in the queue, or in Pi, is not.                *)
Crash ==
    /\ boot # "down" /\ spent.crashes < MaxCrashes
    /\ spent' = [spent EXCEPT !.crashes = @ + 1]
    /\ \/ UNCHANGED db
       \/ \E writes \in Sections : \E i \in DOMAIN writes : db' = writes[i]
    /\ boot' = "down" /\ active' = FALSE
    /\ observer' = "none" /\ event' = "none"
    /\ cancelFlag' = FALSE /\ aborting' = FALSE
    /\ pc' = [m \in Msgs |->
                IF m \in Queued(db') THEN "queued"
                ELSE IF pc[m] = "new" THEN "new" ELSE "gone"]
    /\ UNCHANGED pi

Restart ==
    /\ boot = "down"
    /\ boot' = "adopt"
    /\ UNCHANGED <<db, pi, active, observer, event, pc, ctl>>

(* The container of a failed session is stopped; another one is adopted if  *)
(* it answers, and stopped if it does not.                                  *)
Adopt ==
    /\ boot = "adopt"
    /\ boot' = "recover"
    /\ \/ box /\ db.status # "failed" /\ active' = TRUE /\ UNCHANGED pi
       \/ Stopped /\ UNCHANGED active
    /\ UNCHANGED <<db, observer, event, pc, ctl>>

(* Mutant: only sessions that are running, not those that are starting.     *)
FailOrphan_RunningOnly ==
    /\ boot = "recover"
    /\ boot' = "observe"
    /\ IF db.status = "running" /\ ~active THEN Commit(OrphanWrites) ELSE UNCHANGED db
    /\ pc' = Forget(pc)
    /\ UNCHANGED <<pi, active, observer, event, ctl>>

FailOrphan ==
    /\ boot = "recover"
    /\ boot' = "observe"
    /\ IF Inflight /\ ~active THEN Commit(OrphanWrites) ELSE UNCHANGED db
    /\ pc' = Forget(pc)
    /\ UNCHANGED <<pi, active, observer, event, ctl>>

(* Mutant: whatever the status of the session is.                           *)
ObserveAdopted_Any ==
    /\ boot = "observe"
    /\ boot' = "drain"
    /\ observer' = IF ~active THEN "none"
                   ELSE IF db.fresh THEN "settling"
                   ELSE IF box THEN "watching" ELSE "none"
    /\ UNCHANGED <<db, pi, active, event, pc, ctl>>

(* observeAdoptedSession: it subscribes, or takes the JSONL's word for it   *)
(* that the turn is over.                                                   *)
ObserveAdopted ==
    /\ boot = "observe"
    /\ boot' = "drain"
    /\ observer' = IF ~(Inflight /\ active) THEN "none"
                   ELSE IF db.fresh THEN "settling"
                   ELSE IF box THEN "watching" ELSE "none"
    /\ UNCHANGED <<db, pi, active, event, pc, ctl>>

(* runEvent throws on the queued head, which stays where it is.             *)
Refuse ==
    /\ db.queue # <<>> /\ spent.refusals < MaxRefusals
    /\ spent' = [spent EXCEPT !.refusals = @ + 1]
    /\ UNCHANGED pc

(* Mutant: nothing is drained.                                              *)
DrainQueue_Skipped ==
    /\ boot = "drain"
    /\ boot' = "up"
    /\ UNCHANGED <<db, pi, active, observer, event, pc, ctl>>

(* runEvent(head), then shift; a refused head stays for the next boot.      *)
DrainQueue ==
    /\ boot = "drain"
    /\ boot' = "up"
    /\ IF db.status = "idle" /\ db.queue # <<>>
       THEN \/ /\ Commit(DrainWrites)
               /\ pc' = [pc EXCEPT ![Head(db.queue)] = "acquire"]
               /\ UNCHANGED spent
            \/ Refuse /\ UNCHANGED db
       ELSE UNCHANGED <<db, pc, spent>>
    /\ UNCHANGED <<pi, active, observer, event, cancelFlag, aborting>>

(* Mutant: the event is not marked as handled (no finalized guard).         *)
ObserverEvent_Again ==
    /\ boot \in {"drain", "up"} /\ observer = "watching" /\ event # "none"
    /\ UNCHANGED event
    /\ \/ /\ ~Inflight
          /\ observer' = "none"
          /\ UNCHANGED <<db, pi, active, pc>>
       \/ /\ Inflight /\ event = "final"
          /\ observer' = "settling"
          /\ UNCHANGED <<db, pi, active, pc>>
       \/ /\ Inflight /\ event = "error"
          /\ observer' = "evicting"
          /\ Commit(<<Clear(db)>>)
          /\ Stopped /\ active' = FALSE
          /\ pc' = Forget(Break(pc))
    /\ UNCHANGED <<boot, ctl>>

(* Mutant: only state "final" is looked at.                                 *)
ObserverEvent_FinalOnly ==
    /\ boot \in {"drain", "up"} /\ observer = "watching" /\ event = "final"
    /\ event' = "none"
    /\ \/ /\ ~Inflight
          /\ observer' = "none"
          /\ UNCHANGED <<db, pi, active, pc>>
       \/ /\ Inflight /\ event = "final"
          /\ observer' = "settling"
          /\ UNCHANGED <<db, pi, active, pc>>
    /\ UNCHANGED <<boot, ctl>>

(* The terminal chat event: finalizeFromJsonl, up to its await.             *)
ObserverEvent ==
    /\ boot \in {"drain", "up"} /\ observer = "watching" /\ event # "none"
    /\ event' = "none"
    /\ \/ /\ ~Inflight
          /\ observer' = "none"
          /\ UNCHANGED <<db, pi, active, pc>>
       \/ /\ Inflight /\ event = "final"
          /\ observer' = "settling"
          /\ UNCHANGED <<db, pi, active, pc>>
       \/ /\ Inflight /\ event = "error"
          /\ observer' = "evicting"
          /\ Commit(<<Clear(db)>>)
          /\ Stopped /\ active' = FALSE
          /\ pc' = Forget(Break(pc))
    /\ UNCHANGED <<boot, ctl>>

(* endRunSuccess, and the head of the queue is run.                         *)
ObserverSettles ==
    /\ boot \in {"drain", "up"} /\ observer = "settling"
    /\ observer' = "none"
    /\ \/ /\ Commit(FinalizeWrites)
          /\ pc' = IF db.queue = <<>> THEN pc
                   ELSE [pc EXCEPT ![Head(db.queue)] = "acquire"]
          /\ UNCHANGED spent
       \/ Refuse /\ Commit(<<SetStatus(db, "idle")>>)
    /\ UNCHANGED <<pi, boot, active, event, cancelFlag, aborting>>

ObserverFails ==
    /\ boot \in {"drain", "up"} /\ observer = "evicting"
    /\ observer' = "none"
    /\ Commit(<<SetStatus(db, "failed")>>)
    /\ UNCHANGED <<pi, boot, active, event, pc, ctl>>

----------------------------------------------------------------------------

Startup  == Restart \/ Adopt \/ FailOrphan \/ ObserveAdopted \/ DrainQueue
Observer == ObserverEvent \/ ObserverSettles \/ ObserverFails
Cancel   == CancelDuringAcquire \/ CancelAborts \/ CancelAcked \/ CancelRejected
Task(m)  == ContainerStarts(m) \/ Acquired(m) \/ TurnSettles(m) \/ TaskFails(m)
Pi(m)    == PiReceives(m) \/ PiFinishes(m) \/ PiErrors(m)

Next ==
    \/ \E m \in Msgs : RunEvent(m) \/ Task(m) \/ Pi(m)
    \/ Cancel \/ PiUsesTool \/ ContainerDies
    \/ Crash \/ Startup \/ Observer

Spec == Init /\ [][Next]_vars

(* The process supervisor restarts the orchestrator, promises settle, and   *)
(* Pi ends its turns.  Clients, crashes and tools owe nothing.              *)
Fairness ==
    /\ WF_vars(Startup) /\ WF_vars(Observer)
    /\ WF_vars(CancelAcked \/ CancelRejected)
    /\ \A m \in Msgs : WF_vars(Task(m)) /\ WF_vars(Pi(m))

FairSpec == Spec /\ Fairness

----------------------------------------------------------------------------

(* Whatever crashes happen, Pi never receives a message twice: the startup  *)
(* drain and finalizeFromJsonl run the head before they shift it, and a     *)
(* crash in between must not run it again.                                  *)
ReceivedOnce ==
    \A i, j \in 1 .. Len(received) : received[i] = received[j] => i = j

(* However a crash cuts the writes of a section short, what is left is a    *)
(* state the next start knows how to go on from: types (no queue is shifted *)
(* empty, a terminal event goes only to an observer that watches), and no   *)
(* message that Pi received is posted again.                                *)
DeliveryInv == TypeOK /\ ReceivedOnce

(* As long as nothing is cancelled, a session is finalised by one party     *)
(* only: by its task, or by the observer of an adopted turn, never by both  *)
(* (nor by two tasks), however often the orchestrator dies.                 *)
OneFinalizer ==
    spent.cancels = 0 =>
        /\ \A m, n \in Tasks : m = n
        /\ observer # "none" => Tasks = {}

(* Once startup is over an in-flight session has somebody to end it: a task *)
(* or an observer.  Only the death of a container that is being observed,   *)
(* or a cancel, leaves it to nobody.                                        *)
FlightOwned ==
    boot = "up" /\ Inflight /\ spent.deaths = 0 /\ spent.cancels = 0 =>
        Tasks # {} \/ observer # "none"

(* Once startup is over an idle session has no queued message: a crash      *)
(* between endRunSuccess and shift is made good by the startup drain.       *)
IdleDrained ==
    boot = "up" /\ db.status = "idle" /\ spent.refusals = 0 => db.queue = <<>>

(* A turn that Pi is still working on when it is adopted gets finalised,    *)
(* unless the orchestrator or the container dies again (the observer is     *)
(* gone then) or a cancel request aborts the turn.                          *)
ObservedSettles ==
    observer = "watching" /\ working # {} ~>
        observer # "watching" \/ spent.cancels # 0

(* Pi works on one message at a time, restarts included.                    *)
OneTurn == \A m, n \in working : m = n

(* The observer acts on the turn it was attached for: a run started since   *)
(* has its own finalisation in executeInBackground.                         *)
OwnFinalization == observer = "watching" /\ event # "none" => Tasks = {}

(* A crash leaves the queue as it found it.                                 *)
CrashKeepsQueue ==
    [][boot # "down" /\ boot' = "down" => Queued(db) \subseteq Queued(db')]_vars

(* A failed session has no queued messages.                                 *)
FailedDropped == boot = "up" /\ db.status = "failed" => db.queue = <<>>

(* An in-flight session does not stay in flight for ever.                   *)
FlightEnds == Inflight ~> ~Inflight
=============================================================================
