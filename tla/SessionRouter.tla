--------------------------- MODULE SessionRouter ---------------------------
(***************************************************************************)
(* The life of ONE managed session inside the orchestrator: what            *)
(* AgentRouter (src/orchestrator/router.ts) does with the messages a client *)
(* posts, streams, cancels and deletes.  Every map of the router is keyed   *)
(* by session id, so sessions meet only in the container pool, which        *)
(* appears here as one bit (does the pool hold a live entry for the         *)
(* session?) and is modelled by ContainerPool.                              *)
(*                                                                          *)
(* The orchestrator is one JavaScript thread: the code between two awaits   *)
(* is atomic.  A task (the promise of executeInBackground or of             *)
(* streamEvent) is identified with the message it runs, and its pc is the   *)
(* await it is suspended in:                                                *)
(*                                                                          *)
(*   refresh   refreshExpiringOAuthCredentials                              *)
(*   acquire   pool.acquireForSession, or the backoff before a retry        *)
(*   probe     in there, the liveness probe of the session's own container  *)
(*   prepare   approval subscription and sessions.patch over the gateway    *)
(*   post      POST /v1/chat/completions, not yet received by Pi            *)
(*   turn      the same POST, once Pi has the message                       *)
(*   relay     (streams) the HTTP handler is piping chunks to the client    *)
(*   settle    waitForTurnAdvanced and resolveRunCostUsd                    *)
(*   fail      the awaited evictSession of a failure path                   *)
(***************************************************************************)
EXTENDS Integers, Sequences, FiniteSets

CONSTANTS
    Msgs,         \* messages clients may post; each is posted at most once
    Ops,          \* the client operations in use, a subset of AllOps
    Quota,        \* quota.maxTokensPerSession, counted in turns of cost 1
    MaxAttempts,  \* MAX_INFRA_RETRIES of acquireWithRetry
    MaxCancels,   \* bound: how many cancel requests clients send
    Grace         \* may a container that is being stopped still take a POST?

AllOps == {"post", "stream", "cancel", "delete"}

ASSUME MsgsAssumption == IsFiniteSet(Msgs)
ASSUME OpsAssumption == Ops \subseteq AllOps
ASSUME BoundsAssumption ==
    Quota \in Nat /\ MaxAttempts \in Nat \ {0} /\ MaxCancels \in Nat
ASSUME GraceAssumption == Grace \in BOOLEAN

VARIABLES
    status,      \* the session row's status; "none" once the row is deleted
    turns,       \* the row's turn counter (bumpTurns)
    spent,       \* the row's rolling usage
    queue,       \* the session's rows of the queue table, oldest first
    cancelFlag,  \* sessionId \in cancelledDuringAcquire
    active,      \* the pool holds an entry (and gateway client) for it
    holders,     \* the tasks whose container is that entry's, not an evicted one
    pc,          \* per message: where its task is suspended, or its fate
    mode,        \* per message: "run" (runEvent) or "stream" (streamEvent)
    turn,        \* per message: the turn number it was accepted as
    attempts,    \* per message: failed acquire attempts
    received,    \* the user messages Pi has received, in order
    aborting,    \* cancel requests suspended in wsClient.abort
    cancels,     \* cancel requests sent so far (bounded by MaxCancels)
    deleting     \* a DELETE is suspended in disposeSessionRuntime

row  == <<status, turns, spent>>
task == <<mode, turn, attempts>>
pool == <<active, holders>>
ctl  == <<aborting, cancels, deleting>>
vars == <<row, queue, cancelFlag, pool, pc, task, received, ctl>>

Statuses == {"none", "idle", "starting", "running", "failed"}
Awaits   == {"refresh", "acquire", "probe", "prepare", "post", "turn",
             "relay", "settle", "fail"}
Fates    == {"done", "failed", "aborted", "dropped"}
Pcs      == {"new", "queued"} \cup Awaits \cup Fates

TypeOK ==
    /\ status \in Statuses
    /\ turns \in Nat /\ spent \in Nat
    /\ queue \in Seq(Msgs)
    /\ cancelFlag \in BOOLEAN /\ active \in BOOLEAN
    /\ holders \subseteq Msgs
    /\ pc \in [Msgs -> Pcs]
    /\ mode \in [Msgs -> {"run", "stream"}]
    /\ turn \in [Msgs -> Nat]
    /\ attempts \in [Msgs -> 0 .. MaxAttempts]
    /\ received \in Seq(Msgs)
    /\ aborting \in Nat /\ cancels \in Nat
    /\ deleting \in BOOLEAN

(* createSession: pure metadata, no container, no task.                     *)
Init ==
    /\ status = "idle" /\ turns = 0 /\ spent = 0
    /\ queue = <<>> /\ cancelFlag = FALSE /\ active = FALSE /\ holders = {}
    /\ pc = [m \in Msgs |-> "new"]
    /\ mode = [m \in Msgs |-> "run"]
    /\ turn = [m \in Msgs |-> 0]
    /\ attempts = [m \in Msgs |-> 0]
    /\ received = <<>>
    /\ aborting = 0 /\ cancels = 0 /\ deleting = FALSE

----------------------------------------------------------------------------
(* The session row and the queue table.                                     *)

Inflight == status \in {"starting", "running"}

Live(m) == pc[m] \in Awaits

(* assertQuota: a session whose usage meets its quota takes no new event.   *)
AssertQuota == spent < Quota

(* Mutant: an upsert instead of an UPDATE.                                  *)
UpdateStatus_Upsert(s) == status' = s

(* The store's UPDATE ... WHERE session_id = ?: nothing if the row is gone. *)
UpdateStatus(s) == status' = IF status = "none" THEN "none" ELSE s

UpdateUsage == spent' = IF status = "none" THEN spent ELSE spent + 1

(* queue.clear: the queued messages will never be run.                      *)
ClearQueue(p) ==
    /\ queue' = <<>>
    /\ pc' = [m \in Msgs |-> IF p[m] = "queued" THEN "dropped" ELSE p[m]]

(* pool.evictSession: the entry leaves the map at once, its container is    *)
(* stopped.                                                                 *)
EvictSession == active' = FALSE /\ holders' = {}

Goto(m, l) == pc' = [pc EXCEPT ![m] = l]

(* A message is accepted as the session's next turn.                        *)
Accept(m, how) ==
    /\ turns' = turns + 1
    /\ turn' = [turn EXCEPT ![m] = turns + 1]
    /\ mode' = [mode EXCEPT ![m] = how]
    /\ UNCHANGED <<spent, cancelFlag, pool, attempts, received, ctl>>

----------------------------------------------------------------------------
(* POST /v1/sessions/:id/events and streaming /v1/chat/completions.         *)

(* runEvent on an idle or failed session: beginRun, bumpTurns, and the      *)
(* background task runs up to its first await.                              *)
RunEventStart(m) ==
    /\ "post" \in Ops /\ pc[m] = "new"
    /\ status \in {"idle", "failed"} /\ AssertQuota
    /\ status' = "starting"
    /\ Goto(m, "refresh")
    /\ Accept(m, "run")
    /\ UNCHANGED queue

(* Mutant: the queue is read newest first.                                  *)
RunEventEnqueue_Front(m) ==
    /\ "post" \in Ops /\ pc[m] = "new"
    /\ Inflight /\ AssertQuota
    /\ queue' = <<m>> \o queue
    /\ Goto(m, "queued")
    /\ Accept(m, "run")
    /\ UNCHANGED status

(* runEvent on a session in flight: the event goes to the session's queue.  *)
RunEventEnqueue(m) ==
    /\ "post" \in Ops /\ pc[m] = "new"
    /\ Inflight /\ AssertQuota
    /\ queue' = Append(queue, m)
    /\ Goto(m, "queued")
    /\ Accept(m, "run")
    /\ UNCHANGED status

RunEvent(m) == RunEventStart(m) \/ RunEventEnqueue(m)

(* Mutant: the busy check only knows the starting status.                   *)
StreamEvent_RunningNotBusy(m) ==
    /\ "stream" \in Ops /\ pc[m] = "new"
    /\ status \in {"idle", "failed", "running"} /\ AssertQuota
    /\ status' = "starting"
    /\ Goto(m, "refresh")
    /\ Accept(m, "stream")
    /\ UNCHANGED queue

(* streamEvent: refused with session_busy while a run is in flight.         *)
StreamEvent(m) ==
    /\ "stream" \in Ops /\ pc[m] = "new"
    /\ status \in {"idle", "failed"} /\ AssertQuota
    /\ status' = "starting"
    /\ Goto(m, "refresh")
    /\ Accept(m, "stream")
    /\ UNCHANGED queue

----------------------------------------------------------------------------
(* Failure paths.                                                           *)

(* Mutant: a failed run leaves the events queued behind it in the queue.    *)
HandleBackgroundFailure_KeepsQueue(m) ==
    /\ cancelFlag' = FALSE
    /\ Goto(m, "failed")
    /\ \/ Inflight /\ EvictSession /\ status' = "failed"
       \/ ~Inflight /\ UNCHANGED <<pool, status>>
    /\ UNCHANGED <<turns, spent, queue, task, received, ctl>>

(* Mutant: the cancel flag survives the failure of the task it was set for. *)
HandleBackgroundFailure_KeepsFlag(m) ==
    /\ \/ /\ Inflight
          /\ ClearQueue([pc EXCEPT ![m] = "failed"])
          /\ EvictSession
          /\ status' = "failed"
       \/ /\ ~Inflight
          /\ Goto(m, "failed")
          /\ UNCHANGED <<queue, pool, status>>
    /\ UNCHANGED <<turns, spent, cancelFlag, task, received, ctl>>

(* handleBackgroundFailure: the catch of every background task.  A session  *)
(* that is no longer in flight was cancelled: only the flag is dropped.     *)
HandleBackgroundFailure(m) ==
    /\ cancelFlag' = FALSE
    /\ \/ /\ Inflight
          /\ ClearQueue([pc EXCEPT ![m] = "failed"])
          /\ EvictSession
          /\ status' = "failed"
       \/ /\ ~Inflight
          /\ Goto(m, "failed")
          /\ UNCHANGED <<queue, pool, status>>
    /\ UNCHANGED <<turns, spent, task, received, ctl>>

(* acquireWithRetry, the catch of streamEvent and the error branch of its   *)
(* finalize evict the container first and go on when that returned.         *)
EvictThenFail(m) ==
    /\ EvictSession
    /\ Goto(m, "fail")
    /\ UNCHANGED <<row, queue, cancelFlag, task, received, ctl>>

(* finalize({ok: false}) does nothing if the session left the flight.       *)
FinalizeError(m) ==
    \/ Inflight /\ EvictThenFail(m)
    \/ /\ ~Inflight
       /\ Goto(m, "failed")
       /\ UNCHANGED <<row, queue, cancelFlag, pool, task, received, ctl>>

(* What an error thrown at this await leads to.                             *)
Throw(m) ==
    \/ mode[m] = "run" /\ HandleBackgroundFailure(m)
    \/ mode[m] = "stream" /\ pc[m] \in {"refresh", "post", "turn"} /\ EvictThenFail(m)
    \/ mode[m] = "stream" /\ pc[m] \in {"relay", "settle"} /\ FinalizeError(m)

(* The eviction of a failure path returned.  A background task now reaches  *)
(* its handler; a stream records the failure without looking at the status. *)
FailureHandled(m) ==
    /\ pc[m] = "fail"
    /\ \/ mode[m] = "run" /\ HandleBackgroundFailure(m)
       \/ /\ mode[m] = "stream"
          /\ UpdateStatus("failed")
          /\ Goto(m, "failed")
          /\ UNCHANGED <<turns, spent, queue, cancelFlag, pool, task, received, ctl>>

----------------------------------------------------------------------------
(* The steps of a run.                                                      *)

(* The OAuth refresh returned.  A background task of a vault session also   *)
(* evicts a container whose credentials were rotated under it.              *)
RefreshOk(m) ==
    /\ pc[m] = "refresh"
    /\ \/ UNCHANGED pool
       \/ mode[m] = "run" /\ EvictSession
    /\ Goto(m, "acquire")
    /\ UNCHANGED <<row, queue, cancelFlag, task, received, ctl>>

RefreshFail(m) == pc[m] = "refresh" /\ Throw(m)

(* acquireForSession finds an entry of the session: is its container fine?  *)
AcquireReuse(m) ==
    /\ pc[m] = "acquire" /\ active
    /\ holders' = holders \cup {m}
    /\ Goto(m, "probe")
    /\ UNCHANGED <<row, queue, cancelFlag, active, task, received, ctl>>

(* It finds an entry with other boot options, and evicts it.                *)
AcquireEvict(m) ==
    /\ pc[m] = "acquire" /\ active
    /\ EvictSession
    /\ UNCHANGED <<row, queue, cancelFlag, pc, task, received, ctl>>

(* It starts a container, claims a warm one, or joins the session's pending *)
(* acquire.                                                                 *)
AcquireFresh(m) ==
    /\ pc[m] = "acquire"
    /\ active' = TRUE
    /\ holders' = holders \cup {m}
    /\ Goto(m, "prepare")
    /\ UNCHANGED <<row, queue, cancelFlag, task, received, ctl>>

(* The probed container is returned with no second look at the pool, which  *)
(* may have evicted it meanwhile.                                           *)
ProbeOk(m) ==
    /\ pc[m] = "probe"
    /\ Goto(m, "prepare")
    /\ UNCHANGED <<row, queue, cancelFlag, pool, task, received, ctl>>

(* The probe failed: evict what the session has by now, then start over.    *)
ProbeFail(m) ==
    /\ pc[m] = "probe"
    /\ EvictSession
    /\ Goto(m, "acquire")
    /\ UNCHANGED <<row, queue, cancelFlag, task, received, ctl>>

(* Mutant: an off-by-one in the retry bound.                                *)
AttemptFailed_OneMore(m) ==
    /\ mode[m] = "run"
    /\ attempts' = [attempts EXCEPT ![m] = attempts[m] + 1]
    /\ EvictSession
    /\ Goto(m, IF attempts[m] + 1 <= MaxAttempts THEN "acquire" ELSE "fail")
    /\ UNCHANGED <<row, queue, cancelFlag, mode, turn, received, ctl>>

(* acquireWithRetry: evict, then back off and try again, or give up.        *)
AttemptFailed(m) ==
    /\ mode[m] = "run"
    /\ attempts' = [attempts EXCEPT ![m] = attempts[m] + 1]
    /\ EvictSession
    /\ Goto(m, IF attempts[m] + 1 < MaxAttempts THEN "acquire" ELSE "fail")
    /\ UNCHANGED <<row, queue, cancelFlag, mode, turn, received, ctl>>

AcquireFail(m) == pc[m] = "acquire" /\ AttemptFailed(m)

(* PoolCapacityError is not retried, and a stream retries nothing.          *)
AcquireThrow(m) == pc[m] = "acquire" /\ EvictThenFail(m)

(* sessions.patch needs the gateway client on every turn but the first; it  *)
(* may be gone by the time an awaited subscription returns.                 *)
PrepareFail(m) ==
    /\ pc[m] = "prepare" /\ ~active /\ turn[m] > 1
    /\ AttemptFailed(m) \/ (mode[m] = "stream" /\ EvictThenFail(m))

(* The container is ready: markRunning and POST the message, unless a       *)
(* background task finds that its session was cancelled meanwhile.          *)
Dispatch(m) ==
    /\ pc[m] = "prepare"
    /\ \/ /\ mode[m] = "run" /\ cancelFlag
          /\ cancelFlag' = FALSE
          /\ Goto(m, "aborted")
          /\ UNCHANGED status
       \/ /\ mode[m] = "stream" \/ ~cancelFlag
          /\ UpdateStatus("running")
          /\ Goto(m, "post")
          /\ UNCHANGED cancelFlag
    /\ UNCHANGED <<turns, spent, queue, pool, task, received, ctl>>

(* Pi writes user.message to its JSONL on receipt of the request.  runtime.stop *)
(* gives a container five seconds (Grace), after which it receives nothing.     *)
PiReceive(m) ==
    /\ pc[m] = "post"
    /\ m \in holders \/ Grace
    /\ received' = Append(received, m)
    /\ Goto(m, "turn")
    /\ UNCHANGED <<row, queue, cancelFlag, pool, task, ctl>>

(* The POST returned: a full completion for a run, headers for a stream.    *)
TurnOk(m) ==
    /\ pc[m] = "turn"
    /\ Goto(m, IF mode[m] = "run" THEN "settle" ELSE "relay")
    /\ UNCHANGED <<row, queue, cancelFlag, pool, task, received, ctl>>

(* Mutant: a failed POST is retried like a failed acquire.                  *)
TurnFail_Retries(m) == pc[m] \in {"post", "turn"} /\ AttemptFailed(m)

(* A timeout, a broken connection or an upstream error; not retried, since  *)
(* Pi may or may not have the message.                                      *)
TurnFail(m) == pc[m] \in {"post", "turn"} /\ Throw(m)

(* The last chunk was relayed: finalize({ok: true}).                        *)
RelayEnd(m) ==
    /\ pc[m] = "relay"
    /\ Goto(m, IF Inflight THEN "settle" ELSE "done")
    /\ UNCHANGED <<row, queue, cancelFlag, pool, task, received, ctl>>

(* The client disconnected or the upstream stream broke.                    *)
RelayFail(m) == pc[m] = "relay" /\ Throw(m)

(* The turn's outcome never showed up in the JSONL.                         *)
SettleFail(m) == pc[m] = "settle" /\ Throw(m)

(* A background task is done: run the next queued message, whatever the     *)
(* session's status and usage are now, or leave the flight.                 *)
SettleRun(m) ==
    /\ pc[m] = "settle" /\ mode[m] = "run"
    /\ \/ /\ queue # <<>>
          /\ queue' = Tail(queue)
          /\ pc' = [pc EXCEPT ![m] = "done", ![Head(queue)] = "refresh"]
          /\ UNCHANGED status
       \/ /\ queue = <<>>
          /\ UpdateStatus("idle")
          /\ Goto(m, "done")
          /\ UNCHANGED queue
    /\ UpdateUsage
    /\ UNCHANGED <<turns, cancelFlag, pool, task, received, ctl>>

(* Mutant: a stream leaves the flight to the events queued behind it.       *)
SettleStream_KeepsFlight(m) ==
    /\ pc[m] = "settle" /\ mode[m] = "stream"
    /\ IF queue = <<>> THEN UpdateStatus("idle") ELSE UNCHANGED status
    /\ UpdateUsage
    /\ Goto(m, "done")
    /\ UNCHANGED <<turns, queue, cancelFlag, pool, task, received, ctl>>

(* A stream is done: leave the flight.                                      *)
SettleStream(m) ==
    /\ pc[m] = "settle" /\ mode[m] = "stream"
    /\ UpdateStatus("idle")
    /\ UpdateUsage
    /\ Goto(m, "done")
    /\ UNCHANGED <<turns, queue, cancelFlag, pool, task, received, ctl>>

----------------------------------------------------------------------------
(* POST /v1/sessions/:id/cancel.                                            *)

(* Mutant: cancel forgets the queue.                                        *)
CancelEffect_KeepsQueue == UpdateStatus("idle") /\ UNCHANGED <<queue, pc>>

(* endRunCancelled and what both branches of cancel do with it.             *)
CancelEffect ==
    /\ ClearQueue(pc)
    /\ UpdateStatus("idle")

(* Mutant: the flag is set and the status left to the flagged task.         *)
CancelDuringAcquire_NoStatus ==
    /\ "cancel" \in Ops /\ cancels < MaxCancels
    /\ Inflight /\ ~active
    /\ cancels' = cancels + 1
    /\ cancelFlag' = TRUE
    /\ ClearQueue(pc)
    /\ UNCHANGED <<row, pool, task, received, aborting, deleting>>

(* No gateway client: the session is taken to be in its acquire phase.      *)
CancelDuringAcquire ==
    /\ "cancel" \in Ops /\ cancels < MaxCancels
    /\ Inflight /\ ~active
    /\ cancels' = cancels + 1
    /\ cancelFlag' = TRUE
    /\ CancelEffect
    /\ UNCHANGED <<turns, spent, pool, task, received, aborting, deleting>>

(* Ask the container to abort the session's run.                            *)
CancelAbort ==
    /\ "cancel" \in Ops /\ cancels < MaxCancels
    /\ Inflight /\ active
    /\ cancels' = cancels + 1
    /\ aborting' = aborting + 1
    /\ UNCHANGED <<row, queue, cancelFlag, pool, pc, task, received, deleting>>

(* The abort was acknowledged: its effect comes with no second look at the  *)
(* status, which may belong to another run by now.                          *)
CancelAcked ==
    /\ aborting > 0
    /\ aborting' = aborting - 1
    /\ CancelEffect
    /\ UNCHANGED <<turns, spent, cancelFlag, pool, task, received, cancels, deleting>>

(* cancel_failed: the caller gets an error, the run goes on.                *)
CancelFailed ==
    /\ aborting > 0
    /\ aborting' = aborting - 1
    /\ UNCHANGED <<row, queue, cancelFlag, pool, pc, task, received, cancels, deleting>>

----------------------------------------------------------------------------
(* DELETE /v1/sessions/:id.                                                 *)

(* disposeSessionRuntime up to its await.                                   *)
DeleteStart ==
    /\ "delete" \in Ops /\ status # "none" /\ ~deleting
    /\ deleting' = TRUE
    /\ cancelFlag' = FALSE
    /\ ClearQueue(pc)
    /\ EvictSession
    /\ UNCHANGED <<row, task, received, aborting, cancels>>

(* The container is stopped: delete the row.                                *)
DeleteRow ==
    /\ deleting
    /\ deleting' = FALSE
    /\ status' = "none"
    /\ UNCHANGED <<turns, spent, queue, cancelFlag, pool, pc, task, received, aborting, cancels>>

----------------------------------------------------------------------------
(* The pool takes the container of a session that is not in flight: idle    *)
(* reaping, or eviction in favour of another session.                       *)
PoolEvict ==
    /\ active /\ ~Inflight
    /\ EvictSession
    /\ UNCHANGED <<row, queue, cancelFlag, pc, task, received, ctl>>

TaskStep(m) ==
    \/ RefreshOk(m) \/ RefreshFail(m)
    \/ AcquireReuse(m) \/ AcquireEvict(m) \/ AcquireFresh(m)
    \/ ProbeOk(m) \/ ProbeFail(m) \/ AcquireFail(m) \/ AcquireThrow(m)
    \/ PrepareFail(m) \/ Dispatch(m)
    \/ PiReceive(m) \/ TurnOk(m) \/ TurnFail(m)
    \/ RelayEnd(m) \/ RelayFail(m)
    \/ SettleRun(m) \/ SettleStream(m) \/ SettleFail(m)
    \/ FailureHandled(m)

(* The steps after which a client knows its cancel succeeded ...            *)
CancelReturn == CancelDuringAcquire \/ CancelAcked

(* ... and all the others.                                                  *)
OtherStep ==
    \/ \E m \in Msgs : RunEvent(m) \/ StreamEvent(m) \/ TaskStep(m)
    \/ CancelAbort \/ CancelFailed
    \/ DeleteStart \/ DeleteRow
    \/ PoolEvict

Next == CancelReturn \/ OtherStep

Spec == Init /\ [][Next]_vars

(* Every await ends: the POST and the stream carry AbortSignal.timeout, the *)
(* pool its readiness timeout, gateway requests their own; JavaScript runs  *)
(* a ready continuation.  Nothing is assumed of clients or of the pool's    *)
(* reaper.                                                                  *)
Fairness ==
    /\ \A m \in Msgs : WF_vars(TaskStep(m))
    /\ WF_vars(CancelAcked \/ CancelFailed)
    /\ WF_vars(DeleteRow)

FairSpec == Spec /\ Fairness

----------------------------------------------------------------------------
(* Properties.                                                              *)

(* Unless a run was cancelled, no two runs of a session are live at once:   *)
(* the beginRun/endRun transitions of the row serialise the tasks, although *)
(* none holds a lock, even while the session is being deleted.              *)
SingleRun == cancels = 0 => \A a, b \in Msgs : Live(a) /\ Live(b) => a = b

(* A session in flight has a task that will take it out of the flight: no   *)
(* error path or early return abandons it in starting or running.           *)
RunOwned == Inflight => \E m \in Msgs : Live(m)

(* Whatever requests come, fail and overlap, a session is left in flight    *)
(* with nobody to end the flight in one place only: where its last task     *)
(* finds the cancel flag, consumes it and returns (dispatchInBackground).   *)
(* Every other error path and early return ends the flight or leaves it to  *)
(* a task that is still there.                                              *)
AbandonedOnlyByCancel ==
    [][Inflight' /\ (\A m \in Msgs : ~Live(m)') /\ (Inflight => \E m \in Msgs : Live(m)) =>
          cancelFlag /\ ~cancelFlag' /\ \E m \in Msgs : pc[m] = "prepare" /\ pc'[m] = "aborted"]_vars

(* Queued events belong to a session in flight: whichever of several        *)
(* interleaved tasks and cancels takes the session out of the flight finds  *)
(* the queue empty or empties it, so no accepted event is stranded.         *)
QueueOnlyWhileInflight == queue # <<>> => Inflight

(* A message reaches Pi at most once, whatever is retried, and one that is  *)
(* still queued, or was dropped from the queue by a cancel, a failure or a  *)
(* delete, or aborted before its POST, never does.                          *)
ReceivedOnce ==
    /\ \A i, j \in DOMAIN received : received[i] = received[j] => i = j
    /\ \A i \in DOMAIN received :
          pc[received[i]] \notin {"new", "queued", "dropped", "aborted"}

(* A turn is only prepared while the session can afford it (assertQuota).   *)
TurnsWithinQuota == \A m \in Msgs : pc[m] = "refresh" => AssertQuota

(* Once a session is deleted and its tasks have ended, the pool holds no    *)
(* container for it.                                                        *)
DeletedHasNoContainer ==
    status = "none" /\ (\A m \in Msgs : ~Live(m)) => ~active

(* Every accepted message meets its fate.                                   *)
AcceptedSettles ==
    \A m \in Msgs : pc[m] \notin {"new"} \cup Fates ~> pc[m] \in Fates

(* A session in flight leaves the flight.                                   *)
FlightEnds == Inflight ~> ~Inflight
=============================================================================
