---------------------------- MODULE EventStream ----------------------------
(***************************************************************************)
(* GET /v1/sessions/:id/events?stream=true: one client of a session's event *)
(* stream, its connections one after the other, the handler that serves     *)
(* them (src/orchestrator/server.ts), and the follow generator it iterates  *)
(* (src/store/pi-jsonl.ts), against Pi appending to the log, the session's  *)
(* runs, the pool claiming and dropping its container, approvals arriving   *)
(* and the session being deleted.                                           *)
(*                                                                          *)
(* The handler is suspended (pc) in                                         *)
(*   greet   the write of the initial status                                *)
(*   catchup the writes of the first synthetic frames                       *)
(*   pass    the write of an event; todo is what the pass has left          *)
(*   check   the write of the pass's last event                             *)
(*   sleep   follow's poll interval                                         *)
(* and is "off" before the first connection and after a drop, "ended" after *)
(* it closed the stream itself.  A connection that dropped takes the frames *)
(* on the wire with it.  (A handler whose client is gone without notice     *)
(* shares nothing with the next one's and is left out.)                     *)
(***************************************************************************)
EXTENDS PiLog, FiniteSets

CONSTANTS
    Shapes,          \* the lines Pi may append
    MaxLines,        \* bound: lines of the log
    MaxRuns,         \* bound: runs of the session
    MaxClaims,       \* bound: containers claimed for the session
    Approvals,       \* approval requests that may arrive
    MaxConnections,  \* bound: connections of the client
    MaxWire,         \* bound: frames in flight that make a write wait
    Deletes          \* may the session be deleted?

ASSUME StreamAssumption ==
    /\ Shapes \subseteq Lines
    /\ {MaxLines, MaxRuns, MaxClaims, MaxConnections} \subseteq Nat /\ MaxWire \in Nat \ {0}
    /\ IsFiniteSet(Approvals) /\ Approvals \subseteq Nat
    /\ Deletes \in BOOLEAN

VARIABLES
    log,        \* the complete lines of the session's JSONL
    tail,       \* is Pi in the middle of appending a line?
    status,     \* the session row's status; "gone" once deleted
    runs,       \* runs so far (bounded by MaxRuns)
    box,        \* the container claimed for the session, 0 if none
    claims,     \* containers claimed so far
    asked,      \* approvals that have arrived
    pending,    \* the router's pending approvals of the session
    pc,         \* where the handler is suspended
    todo,       \* events of follow's current pass not yet yielded
    seen,       \* follow's `seen`
    idle,       \* has nothing been yielded for idleTimeoutMs?
    lastStatus, \* lastEmittedStatus
    lastBox,    \* lastContainerSig
    told,       \* emittedApprovalIds
    wire,       \* frames sent and not yet received
    cursor,     \* the client's last event id, sent when it reconnects
    received,   \* the ids of the log's events the client has received
    shown,      \* the status the client was told last
    opened,     \* connections so far
    foreign     \* has a connection been opened with a cursor of no event?

session == <<status, runs, box, claims, asked, pending>>
file    == <<log, tail>>
handler == <<pc, todo, seen, idle, lastStatus, lastBox, told>>
client  == <<wire, cursor, received, shown, opened, foreign>>
vars    == <<session, file, handler, client>>

NoId     == <<"none", 0, 0>>
Statuses == {"idle", "starting", "running", "failed", "gone"}
Serving  == {"greet", "catchup", "pass", "check", "sleep"}

Frame(event, id) == [event |-> event, id |-> id]

TypeOK ==
    /\ Len(log) <= MaxLines /\ tail \in BOOLEAN
    /\ status \in Statuses /\ runs \in 0 .. MaxRuns
    /\ claims \in 0 .. MaxClaims /\ box \in {0, claims}
    /\ pending \subseteq asked /\ asked \subseteq Approvals
    /\ pc \in Serving \cup {"off", "ended"}
    /\ idle \in BOOLEAN /\ lastStatus \in Statuses /\ lastBox \in 0 .. claims
    /\ told \subseteq asked
    /\ shown \in Statuses \cup {"unknown"}
    /\ opened \in 0 .. MaxConnections /\ foreign \in BOOLEAN
    /\ status = "gone" => box = 0 /\ pending = {} /\ ~tail

Init ==
    /\ log = <<>> /\ tail = FALSE
    /\ status = "idle" /\ runs = 0 /\ box = 0 /\ claims = 0
    /\ asked = {} /\ pending = {}
    /\ pc = "off" /\ todo = <<>> /\ seen = {} /\ idle = FALSE
    /\ lastStatus = "idle" /\ lastBox = 0 /\ told = {}
    /\ wire = <<>> /\ cursor = NoId /\ received = <<>> /\ shown = "unknown"
    /\ opened = 0 /\ foreign = FALSE

----------------------------------------------------------------------------
(* The session's side.                                                      *)

Running == status \in {"starting", "running"}

(* Mutant: a read that meets a partial line fails as a whole.               *)
OnDisk_Partial == IF status = "gone" \/ tail THEN <<>> ELSE ListBySession(log)

(* What listBySession returns: nothing once the file has been deleted; the  *)
(* line being appended is not there yet.                                    *)
OnDisk == IF status = "gone" THEN <<>> ELSE ListBySession(log)

BeginLine ==
    /\ status # "gone" /\ Len(log) < MaxLines
    /\ ~tail /\ tail' = TRUE
    /\ UNCHANGED <<log, session, handler, client>>

AppendLine ==
    /\ status # "gone" /\ Len(log) < MaxLines
    /\ \E line \in Shapes : log' = Append(log, line)
    /\ tail' = FALSE
    /\ UNCHANGED <<session, handler, client>>

BeginRun ==
    /\ status \in {"idle", "failed"} /\ runs < MaxRuns
    /\ status' = "starting" /\ runs' = runs + 1
    /\ UNCHANGED <<box, claims, asked, pending, file, handler, client>>

(* The acquire of a run claims a container, unless the session has one.     *)
ClaimContainer ==
    /\ status = "starting"
    /\ \/ box # 0 /\ UNCHANGED <<box, claims>>
       \/ box = 0 /\ claims < MaxClaims /\ claims' = claims + 1 /\ box' = claims'
    /\ status' = "running"
    /\ UNCHANGED <<runs, asked, pending, file, handler, client>>

EndRun ==
    /\ Running
    /\ \E s \in {"idle", "failed"} : status' = s
    /\ UNCHANGED <<runs, box, claims, asked, pending, file, handler, client>>

(* reapIdle, or the eviction of a failed run.                               *)
ReleaseContainer ==
    /\ box # 0 /\ box' = 0
    /\ UNCHANGED <<status, runs, claims, asked, pending, file, handler, client>>

ApprovalArrives ==
    /\ status = "running"
    /\ \E a \in Approvals \ asked :
          asked' = asked \cup {a} /\ pending' = pending \cup {a}
    /\ UNCHANGED <<status, runs, box, claims, file, handler, client>>

ApprovalResolved ==
    /\ \E a \in pending : pending' = pending \ {a}
    /\ UNCHANGED <<status, runs, box, claims, asked, file, handler, client>>

(* Mutant: the router's approvals of the session outlive it.                *)
DeleteSession_Keep ==
    /\ Deletes /\ status # "gone"
    /\ status' = "gone" /\ box' = 0 /\ tail' = FALSE
    /\ UNCHANGED <<pending, runs, claims, asked, log, handler, client>>

(* DELETE /v1/sessions/:id: the container, the approvals, the file, the row.*)
DeleteSession ==
    /\ Deletes /\ status # "gone"
    /\ status' = "gone" /\ box' = 0 /\ pending' = {} /\ tail' = FALSE
    /\ UNCHANGED <<runs, claims, asked, log, handler, client>>

----------------------------------------------------------------------------
(* The synthetic frames.                                                    *)

StatusFrames ==
    IF status \in {"gone", lastStatus} THEN <<>>
    ELSE <<Frame(status, NoId)>>

ContainerFrames ==
    IF box = lastBox THEN <<>>
    ELSE IF box = 0 THEN <<Frame("container_detached", NoId)>>
    ELSE <<Frame("container_attached", <<"container", box, 0>>)>>

ApprovalFrames ==
    LET new == SetToSeq(pending \ told)
    IN  [i \in DOMAIN new |->
            Frame("tool_confirmation_request", <<"approval", new[i], 0>>)]

(* writeSSE waits while the client does not read.                           *)
Writable == Len(wire) < MaxWire

(* pollSyntheticEvents, followed by the frames of `rest`.                   *)
PollSynthetic(rest) ==
    /\ Writable
    /\ lastStatus' = IF status = "gone" THEN lastStatus ELSE status
    /\ lastBox' = box
    /\ told' = told \cup pending
    /\ wire' = wire \o StatusFrames \o ContainerFrames \o ApprovalFrames \o rest

----------------------------------------------------------------------------
(* The handler.                                                             *)

(* The handler starts: the row is there, its status is the first frame.     *)
(* The client sends the cursor it has, if it has one.                       *)
Open ==
    /\ pc = "off" \/ (pc = "ended" /\ wire = <<>>)
    /\ opened < MaxConnections /\ opened' = opened + 1
    /\ status # "gone"
    /\ lastStatus' = status /\ lastBox' = 0 /\ told' = {}
    /\ wire' = <<Frame(status, NoId)>>
    /\ pc' = "greet" /\ todo' = <<>> /\ seen' = {} /\ idle' = FALSE
    /\ UNCHANGED <<session, file, cursor, received, shown, foreign>>

Greet ==
    /\ pc = "greet" /\ pc' = "catchup"
    /\ PollSynthetic(<<>>)
    /\ UNCHANGED <<session, file, todo, seen, idle, cursor, received, shown,
                   opened, foreign>>

(* Mutant: the event after the cursor's is skipped too.                     *)
Skipped_Next(events) ==
    LET at == {i \in DOMAIN events : events[i].id = cursor}
    IN  IF at = {} THEN {} ELSE DOMAIN events \cap (1 .. 1 + (CHOOSE i \in at : TRUE))

(* What phase 1 skips: the events up to and including the cursor's, nothing *)
(* if there is no cursor or it is not one of the log's events.              *)
Skipped(events) ==
    LET at == {i \in DOMAIN events : events[i].id = cursor}
    IN  IF at = {} THEN {} ELSE 1 .. (CHOOSE i \in at : TRUE)

(* Mutant: the skipped events are not marked as seen.                       *)
CatchUp_Unseen ==
    /\ pc = "catchup"
    /\ LET n == Cardinality(Skipped(OnDisk))
       IN  /\ todo' = SubSeq(OnDisk, n + 1, Len(OnDisk))
           /\ seen' = ToSet(Ids(SubSeq(OnDisk, n + 1, Len(OnDisk))))
           /\ foreign' = (foreign \/ (cursor # NoId /\ n = 0 /\ status # "gone"))
    /\ pc' = IF todo' = <<>> THEN "sleep" ELSE "pass"
    /\ UNCHANGED <<session, file, idle, lastStatus, lastBox, told, wire, cursor,
                   received, shown, opened>>

(* Phase 1 of follow reads the log and starts its pass.                     *)
CatchUp ==
    /\ pc = "catchup"
    /\ LET n == Cardinality(Skipped(OnDisk))
       IN  /\ todo' = SubSeq(OnDisk, n + 1, Len(OnDisk))
           /\ seen' = ToSet(Ids(OnDisk))
           /\ foreign' = (foreign \/ (cursor # NoId /\ n = 0 /\ status # "gone"))
    /\ pc' = IF todo' = <<>> THEN "sleep" ELSE "pass"
    /\ UNCHANGED <<session, file, idle, lastStatus, lastBox, told, wire, cursor,
                   received, shown, opened>>

(* The loop's body: what changed since the last frame, then the event.      *)
Yield ==
    /\ pc = "pass"
    /\ LET e == Head(todo) IN PollSynthetic(<<Frame("event", e.id)>>)
    /\ todo' = Tail(todo)
    /\ pc' = IF todo' = <<>> THEN "check" ELSE "pass"
    /\ UNCHANGED <<session, file, seen, idle, cursor, received, shown, opened,
                   foreign>>

(* follow returns: the last status, and the container if it changed.        *)
End ==
    /\ Writable /\ pc' = "ended"
    /\ lastBox' = box
    /\ wire' = wire \o StatusFrames \o ContainerFrames
    /\ UNCHANGED <<todo, seen, lastStatus, told>>

(* Mutant: only an idle session is done, not a failed or a deleted one.     *)
GraceOver_Idle == status = "idle" /\ idle

(* The grace period's check at the end of a pass.                           *)
GraceOver == ~Running /\ idle

(* The check after a pass that yielded something: lastYieldAt is recent,    *)
(* so the loop goes on (a client that takes longer than the grace period to *)
(* read a pass is left out).                                                *)
Check ==
    /\ pc = "check" /\ pc' = "sleep"
    /\ idle' = FALSE
    /\ UNCHANGED <<session, file, todo, seen, lastStatus, lastBox, told, client>>

(* The events of the log whose id follow has not seen, in its order.        *)
Unseen(events) ==
    FlattenSeq([i \in 1 .. Len(events) |->
                   IF events[i].id \in seen THEN <<>> ELSE <<events[i]>>])

NewEvents == Unseen(OnDisk)

(* Mutant: the grace period is checked before the log is read.              *)
Poll_CheckFirst ==
    /\ pc = "sleep"
    /\ \/ /\ GraceOver
          /\ End /\ idle' = idle
       \/ /\ ~GraceOver
          /\ todo' = NewEvents
          /\ seen' = seen \cup ToSet(Ids(NewEvents))
          /\ pc' = IF todo' = <<>> THEN "sleep" ELSE "pass"
          /\ UNCHANGED <<idle, lastStatus, lastBox, told, wire>>
    /\ UNCHANGED <<session, file, cursor, received, shown, opened, foreign>>

(* A round of phase 2.  When nothing is new, the read and the check of the  *)
(* grace period are one step.                                               *)
Poll ==
    /\ pc = "sleep"
    /\ \E new \in {NewEvents} :
          \/ /\ new = <<>> /\ GraceOver
             /\ End /\ idle' = idle
          \/ /\ new # <<>>
             /\ pc' = "pass" /\ todo' = new
             /\ seen' = seen \cup ToSet(Ids(new))
             /\ UNCHANGED <<idle, lastStatus, lastBox, told, wire>>
    /\ UNCHANGED <<session, file, cursor, received, shown, opened, foreign>>

(* The grace period goes by while nothing is yielded.                       *)
TimePasses ==
    /\ pc = "sleep" /\ ~idle /\ idle' = TRUE
    /\ UNCHANGED <<session, file, pc, todo, seen, lastStatus, lastBox, told,
                   client>>

(* Mutant: the interval only looks at the container and the approvals.      *)
SyntheticTick_NoStatus ==
    /\ pc \in Serving \ {"greet"} /\ Writable
    /\ ContainerFrames \o ApprovalFrames # <<>>
    /\ lastBox' = box /\ told' = told \cup pending
    /\ wire' = wire \o ContainerFrames \o ApprovalFrames
    /\ UNCHANGED <<session, file, pc, todo, seen, idle, lastStatus, cursor,
                   received, shown, opened, foreign>>

(* The handler's interval, which has something to say.                      *)
SyntheticTick ==
    /\ pc \in Serving \ {"greet"}
    /\ StatusFrames \o ContainerFrames \o ApprovalFrames # <<>>
    /\ PollSynthetic(<<>>)
    /\ UNCHANGED <<session, file, pc, todo, seen, idle, cursor, received, shown,
                   opened, foreign>>

----------------------------------------------------------------------------
(* The client.                                                              *)

(* A frame is dispatched: its id, if it has one, becomes the cursor.        *)
Receive ==
    /\ wire # <<>> /\ wire' = Tail(wire)
    /\ LET f == Head(wire)
       IN  /\ cursor' = IF f.id = NoId THEN cursor ELSE f.id
           /\ received' = IF f.event = "event" THEN Append(received, f.id) ELSE received
           /\ shown' = IF f.event \in Statuses THEN f.event ELSE shown
    /\ UNCHANGED <<session, file, handler, opened, foreign>>

(* The connection drops, or the client closes it: the abort signal ends     *)
(* follow and the handler, and what is on the wire is lost.                 *)
Disconnect ==
    /\ pc \in Serving
    /\ pc' = "off" /\ todo' = <<>> /\ seen' = {} /\ wire' = <<>> /\ shown' = "unknown"
    /\ UNCHANGED <<session, file, idle, lastStatus, lastBox, told, cursor,
                   received, opened, foreign>>

SessionStep ==
    \/ BeginLine \/ AppendLine \/ BeginRun \/ ClaimContainer \/ EndRun
    \/ ReleaseContainer \/ ApprovalArrives \/ ApprovalResolved \/ DeleteSession

Next ==
    \/ SessionStep
    \/ Open \/ Greet \/ CatchUp \/ Yield \/ Check \/ Poll \/ TimePasses
    \/ SyntheticTick \/ Receive \/ Disconnect

(* The handler and the client's reader run, the poll timer and the interval *)
(* fire, time passes.  Nothing makes Pi write, a run end or a client come   *)
(* back.                                                                    *)
Fairness ==
    /\ WF_vars(Greet) /\ WF_vars(CatchUp) /\ WF_vars(Yield) /\ WF_vars(Check)
    /\ WF_vars(Poll) /\ WF_vars(TimePasses) /\ WF_vars(SyntheticTick)
    /\ WF_vars(Receive)

Spec     == Init /\ [][Next]_vars
FairSpec == Spec /\ Fairness

----------------------------------------------------------------------------
(* Properties.                                                              *)

(* No event of the log is skipped or comes before an earlier one, whatever  *)
(* the drops and the cursors the client reconnects with (follow's resume):  *)
(* by the time an event is received, over all the connections, every        *)
(* earlier one has been.                                                    *)
NothingMissed ==
    LET ids == Ids(ListBySession(log))
    IN  \A i \in DOMAIN received : \E n \in DOMAIN ids :
            /\ received[i] = ids[n]
            /\ \A k \in 1 .. n - 1 : \E j \in 1 .. i - 1 : received[j] = ids[k]

(* A reconnecting client does not get again what it has, as long as its     *)
(* cursor is the id of an event of the log.                                 *)
NothingTwice == ~foreign => \A i, j \in DOMAIN received :
                               i # j => received[i] # received[j]

(* Over all its connections a client receives the log: in order, with no    *)
(* gap, and nothing twice.                                                  *)
StreamInv == TypeOK /\ NothingMissed /\ NothingTwice

(* The same without the proviso, as follow's comment has it.                *)
ResumeNeverRepeats ==
    status # "gone" => \A i, j \in DOMAIN received :
                               i # j => received[i] # received[j]

(* When the handler closes the stream, it has sent everything that is on    *)
(* disk, and the client that reads to the end knows the session's status.   *)
EndsComplete ==
    [][pc # "ended" /\ pc' = "ended" /\ status # "gone" =>
          /\ ToSet(Ids(OnDisk)) \subseteq
                {f.id : f \in ToSet(wire)} \cup ToSet(received)
          /\ LET said == {i \in DOMAIN wire' : wire'[i].event \in Statuses}
             IN  IF said = {} THEN shown = status
                 ELSE \E i \in said : wire'[i].event = status /\ \A j \in said : j <= i
      ]_vars

Connected == pc \in Serving

(* A client that stays connected gets every event on disk (the log being    *)
(* bounded, Pi stops writing; so with the two below).                       *)
EventDelivered ==
    []<>(\/ ~Connected \/ status = "gone"
         \/ ToSet(Ids(ListBySession(log))) \subseteq ToSet(received))

(* The status shown to a connected client catches up with the session's:    *)
(* follow only wakes for events, the interval tells of the rest.            *)
StatusShown == []<>(~Connected \/ status = "gone" \/ shown = status)

(* The stream of a session that is not running ends, be it idle, failed or  *)
(* deleted.                                                                 *)
StreamEnds == []<>(Running \/ ~Connected)

(* What a client that only listens sees settles: the status is the          *)
(* session's, and once that is at rest the stream closes.                   *)
StreamSettles == StatusShown /\ StreamEnds
=============================================================================
