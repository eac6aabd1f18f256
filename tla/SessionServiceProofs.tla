----------------------- MODULE SessionServiceProofs ------------------------
(***************************************************************************)
(* Theorems about SessionRouter, for any set of messages, any quota, any   *)
(* retry bound and any number of cancels, and that it implements           *)
(* RunService: the initial state maps to the initial state, and every step *)
(* to a step or a stutter.                                                 *)
(***************************************************************************)
EXTENDS SessionService, TLAPS

----------------------------------------------------------------------------
(* The basic inductive invariant, for every set of client operations.       *)

(* A task that may still try to acquire a container has an attempt left.    *)
AttemptLeft ==
    \A m \in Msgs :
        pc[m] \in {"new", "queued", "refresh", "acquire", "probe", "prepare"}
            => attempts[m] < MaxAttempts

(* The queue holds distinct messages, all of them marked queued.            *)
QueueIsQueued ==
    /\ \A i \in 1 .. Len(queue) : pc[queue[i]] = "queued" /\ mode[queue[i]] = "run"
    /\ \A i, j \in 1 .. Len(queue) : queue[i] = queue[j] => i = j

(* Only a message whose POST reached Pi has been received, and only once.   *)
Unposted == {"new", "queued", "refresh", "acquire", "probe", "prepare", "post",
             "dropped", "aborted"}

ReceivedPosted ==
    /\ \A i \in 1 .. Len(received) : pc[received[i]] \notin Unposted
    /\ \A i, j \in 1 .. Len(received) : received[i] = received[j] => i = j

BaseInv == TypeOK /\ AttemptLeft /\ QueueIsQueued /\ ReceivedPosted

(* A session is created in a state of the base invariant.                   *)
LEMMA BaseInit == Init => BaseInv
  <1> SUFFICES ASSUME Init PROVE BaseInv
    OBVIOUS
  <1> USE DEF Init
  <1>1. TypeOK
    <2>1. pc \in [Msgs -> Pcs] /\ mode \in [Msgs -> {"run", "stream"}]
      BY DEF Pcs
    <2>2. attempts \in [Msgs -> 0 .. MaxAttempts] /\ turn \in [Msgs -> Nat]
      BY BoundsAssumption
    <2>3. queue \in Seq(Msgs) /\ received \in Seq(Msgs)
      OBVIOUS
    <2>4. status \in Statuses
      BY DEF Statuses
    <2>5. turns \in Nat /\ spent \in Nat /\ aborting \in Nat /\ cancels \in Nat
      OBVIOUS
    <2>6. cancelFlag \in BOOLEAN /\ active \in BOOLEAN /\ deleting \in BOOLEAN
      OBVIOUS
    <2>7. holders \subseteq Msgs
      OBVIOUS
    <2> QED BY <2>1, <2>2, <2>3, <2>4, <2>5, <2>6, <2>7 DEF TypeOK
  <1>2. AttemptLeft
    BY BoundsAssumption DEF AttemptLeft
  <1>3. QueueIsQueued /\ ReceivedPosted
    BY DEF QueueIsQueued, ReceivedPosted
  <1> QED BY <1>1, <1>2, <1>3 DEF BaseInv

(* A step that changes nothing keeps it.                                    *)
LEMMA BaseStutter == BaseInv /\ UNCHANGED vars => BaseInv'
  BY DEF BaseInv, TypeOK, AttemptLeft, QueueIsQueued, ReceivedPosted, vars, row,
     pool, task, ctl

(* What most steps do: a live task goes on to l, the others stay where they *)
(* are or, if the queue is cleared, are dropped from it.                    *)
LEMMA Moves ==
    ASSUME BaseInv, NEW m \in Msgs, Live(m), NEW l \in Awaits \cup Fates,
           l \in Unposted => pc[m] \in Unposted,
           (Goto(m, l) /\ UNCHANGED queue) \/ ClearQueue([pc EXCEPT ![m] = l]),
           attempts' \in [Msgs -> Nat],
           \A x \in Msgs : x # m => attempts'[x] = attempts[x],
           l \in {"refresh", "acquire", "probe", "prepare"} => attempts'[m] < MaxAttempts,
           UNCHANGED <<mode, received>>
    PROVE  /\ pc' \in [Msgs -> Pcs]
           /\ queue' \in Seq(Msgs)
           /\ AttemptLeft' /\ QueueIsQueued' /\ ReceivedPosted'
  <1>1. /\ pc \in [Msgs -> Pcs] /\ received \in Seq(Msgs) /\ queue \in Seq(Msgs)
        /\ AttemptLeft /\ QueueIsQueued /\ ReceivedPosted
    BY DEF BaseInv, TypeOK
  <1>2. /\ pc[m] \notin {"queued", "dropped"}
        /\ l \notin {"new", "queued"}
    BY DEF Live, Awaits, Fates
  <1>3. /\ pc' \in [Msgs -> Pcs]
        /\ pc'[m] = l
        /\ \A x \in Msgs : x # m =>
              pc'[x] = pc[x] \/ (pc[x] = "queued" /\ pc'[x] = "dropped")
        /\ \/ queue' = <<>>
           \/ queue' = queue /\ \A x \in Msgs : x # m => pc'[x] = pc[x]
    <2>1. CASE Goto(m, l) /\ UNCHANGED queue
      BY <1>1, <1>2, <2>1 DEF Goto, Pcs
    <2>2. CASE ClearQueue([pc EXCEPT ![m] = l])
      BY <1>1, <1>2, <2>2 DEF ClearQueue, Pcs, Fates
    <2> QED BY <2>1, <2>2
  <1>4. AttemptLeft'
    BY <1>1, <1>2, <1>3 DEF AttemptLeft, Fates, Awaits
  <1>5. QueueIsQueued'
    BY <1>1, <1>2, <1>3 DEF QueueIsQueued
  <1>6. ReceivedPosted'
    <2>1. \A x \in Msgs : pc'[x] \in Unposted => pc[x] \in Unposted
      BY <1>3 DEF Unposted
    <2> QED BY <1>1, <2>1 DEF ReceivedPosted
  <1>7. queue' \in Seq(Msgs)
    <2>1. CASE queue' = <<>>
      BY <2>1
    <2>2. CASE queue' = queue
      BY <1>1, <2>2
    <2> QED BY <1>3, <2>1, <2>2
  <1> QED BY <1>3, <1>4, <1>5, <1>6, <1>7

(* handleBackgroundFailure of a live task.                                  *)
LEMMA BaseHandler ==
    ASSUME BaseInv, NEW m \in Msgs, Live(m), HandleBackgroundFailure(m)
    PROVE  BaseInv'
  <1>1. UNCHANGED <<turns, spent, mode, turn, attempts, received, aborting, cancels, deleting>>
    BY DEF HandleBackgroundFailure, task, ctl
  <1>2. /\ cancelFlag' \in BOOLEAN /\ active' \in BOOLEAN
        /\ holders' \subseteq Msgs /\ status' \in Statuses
        /\ (Goto(m, "failed") /\ UNCHANGED queue) \/ ClearQueue([pc EXCEPT ![m] = "failed"])
    BY DEF HandleBackgroundFailure, EvictSession, BaseInv, TypeOK, pool, Statuses
  <1>3. attempts \in [Msgs -> Nat]
    BY BoundsAssumption DEF BaseInv, TypeOK
  <1>4. /\ pc' \in [Msgs -> Pcs]
        /\ queue' \in Seq(Msgs)
        /\ AttemptLeft' /\ QueueIsQueued' /\ ReceivedPosted'
    BY <1>1, <1>2, <1>3, Moves DEF Unposted, Fates
  <1>5. TypeOK'
    BY <1>1, <1>2, <1>4 DEF BaseInv, TypeOK
  <1> QED BY <1>4, <1>5 DEF BaseInv

(* Evicting the container and suspending in that: two more failure paths.   *)
LEMMA BaseEvict ==
    ASSUME BaseInv, NEW m \in Msgs, Live(m), EvictThenFail(m)
    PROVE  BaseInv'
  <1>1. UNCHANGED <<row, queue, cancelFlag, mode, turn, attempts, received, ctl>>
    BY DEF EvictThenFail, task
  <1>2. Goto(m, "fail") /\ active' \in BOOLEAN /\ holders' \subseteq Msgs
    BY DEF EvictThenFail, EvictSession
  <1>3. attempts \in [Msgs -> Nat]
    BY BoundsAssumption DEF BaseInv, TypeOK
  <1>4. /\ pc' \in [Msgs -> Pcs]
        /\ queue' \in Seq(Msgs)
        /\ AttemptLeft' /\ QueueIsQueued' /\ ReceivedPosted'
    BY <1>1, <1>2, <1>3, Moves DEF Unposted, Awaits
  <1>5. TypeOK'
    BY <1>1, <1>2, <1>4 DEF BaseInv, TypeOK, row, ctl
  <1> QED BY <1>4, <1>5 DEF BaseInv

(* An error thrown at any await, in a background task or in a stream.       *)
LEMMA BaseThrow ==
    ASSUME BaseInv, NEW m \in Msgs, Live(m), Throw(m)
    PROVE  BaseInv'
  <1>1. CASE HandleBackgroundFailure(m)
    BY <1>1, BaseHandler
  <1>2. CASE EvictThenFail(m)
    BY <1>2, BaseEvict
  <1>3. CASE Goto(m, "failed") /\ UNCHANGED <<row, queue, cancelFlag, pool, task, received, ctl>>
    <2>1. attempts \in [Msgs -> Nat]
      BY BoundsAssumption DEF BaseInv, TypeOK
    <2>2. /\ pc' \in [Msgs -> Pcs]
          /\ queue' \in Seq(Msgs)
          /\ AttemptLeft' /\ QueueIsQueued' /\ ReceivedPosted'
      BY <1>3, <2>1, Moves DEF Unposted, Fates, task
    <2>3. TypeOK'
      BY <1>3, <2>2 DEF BaseInv, TypeOK, row, ctl, task, pool
    <2> QED BY <2>2, <2>3 DEF BaseInv
  <1> QED BY <1>1, <1>2, <1>3 DEF Throw, FinalizeError

(* The retry of a failed acquire.                                           *)
LEMMA BaseAttempt ==
    ASSUME BaseInv, NEW m \in Msgs, pc[m] \in {"acquire", "prepare"}, AttemptFailed(m)
    PROVE  BaseInv'
  <1> DEFINE l == IF attempts[m] + 1 < MaxAttempts THEN "acquire" ELSE "fail"
  <1>1. /\ Live(m) /\ pc[m] \in Unposted
        /\ attempts \in [Msgs -> 0 .. MaxAttempts]
        /\ attempts[m] < MaxAttempts
    BY DEF Live, Awaits, Unposted, BaseInv, TypeOK, AttemptLeft, AttemptFailed
  <1>2. /\ attempts' \in [Msgs -> 0 .. MaxAttempts]
        /\ \A x \in Msgs : x # m => attempts'[x] = attempts[x]
        /\ attempts'[m] = attempts[m] + 1
    BY <1>1, BoundsAssumption DEF AttemptFailed
  <1>3. UNCHANGED <<row, queue, cancelFlag, mode, turn, received, ctl>>
    BY DEF AttemptFailed
  <1>4. Goto(m, l) /\ active' \in BOOLEAN /\ holders' \subseteq Msgs
    BY DEF AttemptFailed, EvictSession
  <1>5. attempts' \in [Msgs -> Nat] /\ l \in Awaits
    BY <1>2, BoundsAssumption DEF Awaits
  <1>6. l \in {"refresh", "acquire", "probe", "prepare"} => attempts'[m] < MaxAttempts
    BY <1>2
  <1>7. /\ pc' \in [Msgs -> Pcs]
        /\ queue' \in Seq(Msgs)
        /\ AttemptLeft' /\ QueueIsQueued' /\ ReceivedPosted'
    <2> HIDE DEF l
    <2> QED BY <1>1, <1>2, <1>3, <1>4, <1>5, <1>6, Moves
  <1>8. TypeOK'
    BY <1>2, <1>3, <1>4, <1>7 DEF BaseInv, TypeOK, row, ctl
  <1> QED BY <1>7, <1>8 DEF BaseInv

(* A client's message is accepted.                                          *)
LEMMA BaseAccept ==
    ASSUME BaseInv, NEW m \in Msgs, RunEvent(m) \/ StreamEvent(m)
    PROVE  BaseInv'
  <1>1. /\ pc \in [Msgs -> Pcs] /\ mode \in [Msgs -> {"run", "stream"}]
        /\ queue \in Seq(Msgs) /\ received \in Seq(Msgs)
        /\ turn \in [Msgs -> Nat] /\ turns \in Nat
        /\ TypeOK /\ AttemptLeft /\ QueueIsQueued /\ ReceivedPosted
    BY DEF BaseInv, TypeOK
  <1>2. /\ pc[m] = "new"
        /\ turns' = turns + 1
        /\ turn' = [turn EXCEPT ![m] = turns + 1]
        /\ UNCHANGED <<spent, cancelFlag, active, holders, attempts, received,
                       aborting, cancels, deleting>>
    BY DEF RunEvent, RunEventStart, RunEventEnqueue, StreamEvent, Accept, pool, ctl
  <1>3. PICK how \in {"run", "stream"} : mode' = [mode EXCEPT ![m] = how]
    BY DEF RunEvent, RunEventStart, RunEventEnqueue, StreamEvent, Accept
  <1>4. /\ turns' \in Nat /\ turn' \in [Msgs -> Nat]
        /\ mode' \in [Msgs -> {"run", "stream"}]
    BY <1>1, <1>2, <1>3
  <1>5. \A i \in 1 .. Len(queue) : queue[i] # m
    BY <1>1, <1>2 DEF QueueIsQueued
  <1>6. \A i \in 1 .. Len(received) : received[i] # m
    BY <1>1, <1>2 DEF ReceivedPosted, Unposted
  <1>7. CASE pc' = [pc EXCEPT ![m] = "refresh"] /\ queue' = queue /\ status' = "starting"
    <2>1. TypeOK'
      BY <1>1, <1>2, <1>4, <1>7 DEF TypeOK, Pcs, Awaits, Statuses
    <2>2. AttemptLeft'
      BY <1>1, <1>2, <1>7 DEF AttemptLeft
    <2>3. QueueIsQueued'
      BY <1>1, <1>3, <1>5, <1>7 DEF QueueIsQueued
    <2>4. ReceivedPosted'
      BY <1>1, <1>2, <1>6, <1>7 DEF ReceivedPosted
    <2> QED BY <2>1, <2>2, <2>3, <2>4 DEF BaseInv
  <1>8. CASE RunEventEnqueue(m)
    <2>1. /\ pc' = [pc EXCEPT ![m] = "queued"] /\ queue' = Append(queue, m)
          /\ status' = status /\ mode' = [mode EXCEPT ![m] = "run"]
      BY <1>8 DEF RunEventEnqueue, Goto, Accept
    <2>2. TypeOK'
      BY <1>1, <1>2, <1>4, <2>1 DEF TypeOK, Pcs
    <2>3. AttemptLeft'
      BY <1>1, <1>2, <2>1 DEF AttemptLeft
    <2>4. QueueIsQueued'
      <3>1. /\ Len(queue') = Len(queue) + 1 /\ Len(queue) \in Nat
            /\ queue'[Len(queue) + 1] = m
            /\ \A i \in 1 .. Len(queue) : queue'[i] = queue[i] /\ queue[i] \in Msgs
        BY <1>1, <2>1
      <3>2. pc'[m] = "queued" /\ mode'[m] = "run"
        BY <1>1, <2>1
      <3>3. \A i \in 1 .. Len(queue) :
               /\ queue'[i] # m
               /\ pc'[queue'[i]] = "queued" /\ mode'[queue'[i]] = "run"
        BY <1>1, <1>5, <2>1, <3>1 DEF QueueIsQueued
      <3>4. \A i \in 1 .. Len(queue') : i \in 1 .. Len(queue) \/ i = Len(queue) + 1
        BY <3>1
      <3>5. \A i \in 1 .. Len(queue') : pc'[queue'[i]] = "queued" /\ mode'[queue'[i]] = "run"
        BY <3>1, <3>2, <3>3, <3>4
      <3>6. \A i, j \in 1 .. Len(queue) : queue'[i] = queue'[j] => i = j
        BY <1>1, <3>1 DEF QueueIsQueued
      <3>7. \A i, j \in 1 .. Len(queue') : queue'[i] = queue'[j] => i = j
        BY <3>1, <3>3, <3>4, <3>6
      <3> QED BY <3>5, <3>7 DEF QueueIsQueued
    <2>5. ReceivedPosted'
      BY <1>1, <1>2, <1>6, <2>1 DEF ReceivedPosted
    <2> QED BY <2>2, <2>3, <2>4, <2>5 DEF BaseInv
  <1> QED BY <1>7, <1>8 DEF RunEvent, RunEventStart, StreamEvent, Goto

(* A background task takes the next message from the queue.                 *)
LEMMA BaseShift ==
    ASSUME BaseInv, NEW m \in Msgs, SettleRun(m), queue # <<>>
    PROVE  BaseInv'
  <1> DEFINE h == Head(queue)
  <1>1. /\ pc \in [Msgs -> Pcs] /\ queue \in Seq(Msgs) /\ received \in Seq(Msgs)
        /\ TypeOK /\ AttemptLeft /\ QueueIsQueued /\ ReceivedPosted
    BY DEF BaseInv, TypeOK
  <1>2. /\ pc[m] = "settle" /\ queue' = Tail(queue)
        /\ pc' = [pc EXCEPT ![m] = "done", ![h] = "refresh"]
        /\ spent' \in {spent, spent + 1}
        /\ UNCHANGED <<status, turns, cancelFlag, active, holders, mode, turn,
                       attempts, received, aborting, cancels, deleting>>
    BY DEF SettleRun, UpdateUsage, Goto, pool, task, ctl
  <1>3. h \in Msgs /\ pc[h] = "queued" /\ h # m /\ h = queue[1] /\ Len(queue) \in Nat \ {0}
    BY <1>1, <1>2 DEF QueueIsQueued
  <1>4. /\ pc' \in [Msgs -> Pcs] /\ pc'[m] = "done" /\ pc'[h] = "refresh"
        /\ \A x \in Msgs \ {m, h} : pc'[x] = pc[x]
    BY <1>1, <1>2, <1>3 DEF Pcs, Awaits, Fates
  <1>5. TypeOK'
    <2>1. spent' \in Nat
      BY <1>1, <1>2 DEF TypeOK
    <2>2. queue' \in Seq(Msgs)
      BY <1>1, <1>2, <1>3
    <2> QED BY <1>1, <1>2, <1>4, <2>1, <2>2 DEF TypeOK
  <1>6. AttemptLeft'
    BY <1>1, <1>2, <1>3, <1>4 DEF AttemptLeft
  <1>7. QueueIsQueued'
    <2>1. /\ Len(queue') = Len(queue) - 1
          /\ \A i \in 1 .. Len(queue') : queue'[i] = queue[i + 1] /\ i + 1 \in 1 .. Len(queue)
      BY <1>1, <1>2, <1>3
    <2>2. \A i \in 1 .. Len(queue') : queue'[i] \in Msgs \ {m, h}
      BY <1>1, <1>2, <1>3, <2>1 DEF QueueIsQueued
    <2> QED BY <1>1, <1>2, <1>4, <2>1, <2>2 DEF QueueIsQueued
  <1>8. ReceivedPosted'
    BY <1>1, <1>2, <1>3, <1>4 DEF ReceivedPosted, Unposted
  <1> QED BY <1>5, <1>6, <1>7, <1>8 DEF BaseInv

(* Pi receives a message for the first time.                                *)
LEMMA BaseReceive ==
    ASSUME BaseInv, NEW m \in Msgs, PiReceive(m)
    PROVE  BaseInv'
  <1>1. /\ pc \in [Msgs -> Pcs] /\ queue \in Seq(Msgs) /\ received \in Seq(Msgs)
        /\ TypeOK /\ AttemptLeft /\ QueueIsQueued /\ ReceivedPosted
    BY DEF BaseInv, TypeOK
  <1>2. /\ pc[m] = "post" /\ received' = Append(received, m)
        /\ pc' = [pc EXCEPT ![m] = "turn"]
        /\ UNCHANGED <<status, turns, spent, queue, cancelFlag, active, holders, mode,
                       turn, attempts, aborting, cancels, deleting>>
    BY DEF PiReceive, Goto, row, pool, task, ctl
  <1>3. \A i \in 1 .. Len(received) : received[i] # m
    BY <1>1, <1>2 DEF ReceivedPosted, Unposted
  <1>4. TypeOK'
    BY <1>1, <1>2 DEF TypeOK, Pcs, Awaits
  <1>5. AttemptLeft'
    BY <1>1, <1>2 DEF AttemptLeft
  <1>6. QueueIsQueued'
    BY <1>1, <1>2 DEF QueueIsQueued
  <1>7. ReceivedPosted'
    BY <1>1, <1>2, <1>3 DEF ReceivedPosted, Unposted
  <1> QED BY <1>4, <1>5, <1>6, <1>7 DEF BaseInv

(* The other steps of a run move a live task forward.                       *)
LEMMA BaseForward ==
    ASSUME BaseInv, NEW m \in Msgs,
           \/ RefreshOk(m) \/ AcquireReuse(m) \/ AcquireFresh(m) \/ ProbeOk(m)
           \/ ProbeFail(m) \/ Dispatch(m) \/ TurnOk(m) \/ RelayEnd(m)
           \/ SettleStream(m) \/ (SettleRun(m) /\ queue = <<>>)
           \/ (FailureHandled(m) /\ mode[m] = "stream")
    PROVE  BaseInv'
  <1> USE DEF RefreshOk, AcquireReuse, AcquireFresh, ProbeOk, ProbeFail, Dispatch, TurnOk, RelayEnd, SettleStream, SettleRun,
              FailureHandled
  <1>1. Live(m)
    BY DEF Live, Awaits
  <1>2. PICK l \in Awaits \cup Fates :
             /\ Goto(m, l)
             /\ l \in Unposted => pc[m] \in Unposted
             /\ l \in {"refresh", "acquire", "probe", "prepare"} => pc[m] \in {"refresh", "acquire", "probe"}
    BY DEF Awaits, Fates, Unposted
  <1>3. UNCHANGED <<turns, queue, mode, turn, attempts, received, aborting, cancels, deleting>>
    BY DEF row, task, ctl, TurnOk
  <1>4. /\ TypeOK /\ AttemptLeft /\ attempts \in [Msgs -> Nat]
        /\ status \in Statuses /\ spent \in Nat
    BY BoundsAssumption DEF BaseInv, TypeOK
  <1>5. /\ status' \in Statuses /\ spent' \in Nat
        /\ cancelFlag' \in BOOLEAN /\ active' \in BOOLEAN /\ holders' \subseteq Msgs
    <2>1. status' \in {status, "none", "idle", "running", "failed"}
      BY DEF row, UpdateStatus
    <2>2. spent' \in {spent, spent + 1}
      BY DEF row, UpdateUsage
    <2>3. cancelFlag' \in {cancelFlag, FALSE} /\ active' \in {active, TRUE, FALSE}
      BY DEF pool, EvictSession
    <2>4. holders' \in {holders, {}, holders \cup {m}}
      BY DEF pool, EvictSession
    <2>5. cancelFlag \in BOOLEAN /\ active \in BOOLEAN /\ holders \subseteq Msgs
      BY <1>4 DEF TypeOK
    <2>6. cancelFlag' \in BOOLEAN /\ active' \in BOOLEAN
      BY <2>3, <2>5, Zenon
    <2>7. status' \in Statuses /\ spent' \in Nat /\ holders' \subseteq Msgs
      BY <1>4, <2>1, <2>2, <2>4, <2>5 DEF Statuses
    <2> QED BY <2>6, <2>7
  <1>6. /\ pc' \in [Msgs -> Pcs]
        /\ queue' \in Seq(Msgs)
        /\ AttemptLeft' /\ QueueIsQueued' /\ ReceivedPosted'
    <2>1. l \in {"refresh", "acquire", "probe", "prepare"} => attempts'[m] < MaxAttempts
      BY <1>2, <1>3, <1>4 DEF AttemptLeft
    <2> QED BY <1>1, <1>2, <1>3, <1>4, <2>1, Moves
  <1>7. TypeOK'
    BY <1>3, <1>4, <1>5, <1>6 DEF TypeOK
  <1> QED BY <1>6, <1>7 DEF BaseInv

(* Cancels, deletes and the pool's evictions.                               *)
LEMMA BaseControl ==
    ASSUME BaseInv,
           \/ CancelDuringAcquire \/ CancelAbort \/ CancelAcked \/ CancelFailed
           \/ DeleteStart \/ DeleteRow \/ PoolEvict
           \/ (\E m \in Msgs : AcquireEvict(m))
    PROVE  BaseInv'
  <1> USE DEF CancelDuringAcquire, CancelAbort, CancelAcked, CancelFailed,
              DeleteStart, DeleteRow, PoolEvict, AcquireEvict, CancelEffect
  <1>1. /\ pc \in [Msgs -> Pcs] /\ queue \in Seq(Msgs) /\ received \in Seq(Msgs)
        /\ TypeOK /\ AttemptLeft /\ QueueIsQueued /\ ReceivedPosted
    BY DEF BaseInv, TypeOK
  <1>2. UNCHANGED <<turns, spent, mode, turn, attempts, received>>
    BY DEF row, task
  <1>3. ClearQueue(pc) \/ UNCHANGED <<pc, queue>>
    OBVIOUS
  <1>4. /\ pc' \in [Msgs -> Pcs]
        /\ \A x \in Msgs : pc'[x] = pc[x] \/ (pc[x] = "queued" /\ pc'[x] = "dropped")
        /\ queue' = <<>> \/ (queue' = queue /\ pc' = pc)
    BY <1>1, <1>3 DEF ClearQueue, Pcs, Fates
  <1>5. TypeOK'
    <2>1. status' \in Statuses
      BY <1>1 DEF TypeOK, row, UpdateStatus, Statuses
    <2>2. cancelFlag' \in BOOLEAN /\ active' \in BOOLEAN /\ holders' \subseteq Msgs
      BY <1>1 DEF TypeOK, pool, EvictSession
    <2>3. aborting' \in Nat
      BY <1>1 DEF TypeOK, ctl
    <2>4. cancels' \in {cancels, cancels + 1} /\ deleting' \in {deleting, TRUE, FALSE}
      BY DEF ctl
    <2>5. cancels' \in Nat
      BY <1>1, <2>4 DEF TypeOK
    <2>6. deleting' \in BOOLEAN
      BY <1>1, <2>4, Zenon DEF TypeOK
    <2>7. queue' \in Seq(Msgs)
      <3>1. CASE queue' = <<>>
        BY <3>1
      <3>2. CASE queue' = queue
        BY <1>1, <3>2
      <3> QED BY <1>4, <3>1, <3>2
    <2> QED BY <1>1, <1>2, <1>4, <2>1, <2>2, <2>3, <2>5, <2>6, <2>7 DEF TypeOK
  <1>6. AttemptLeft'
    BY <1>1, <1>2, <1>4 DEF AttemptLeft
  <1>7. QueueIsQueued'
    BY <1>1, <1>2, <1>4 DEF QueueIsQueued
  <1>8. ReceivedPosted'
    BY <1>1, <1>2, <1>4 DEF ReceivedPosted, Unposted
  <1> QED BY <1>5, <1>6, <1>7, <1>8 DEF BaseInv

(* Every step of a task keeps the base invariant.                           *)
LEMMA BaseTask ==
    ASSUME BaseInv, NEW m \in Msgs, TaskStep(m)
    PROVE  BaseInv'
  <1>1. CASE RefreshFail(m) \/ TurnFail(m) \/ RelayFail(m) \/ SettleFail(m)
    <2>1. Live(m) /\ Throw(m)
      BY <1>1 DEF RefreshFail, TurnFail, RelayFail, SettleFail, Live, Awaits
    <2> QED BY <2>1, BaseThrow
  <1>2. CASE AcquireFail(m) \/ PrepareFail(m) \/ AcquireThrow(m)
    <2>1. Live(m) /\ pc[m] \in {"acquire", "prepare"}
      BY <1>2 DEF AcquireFail, PrepareFail, AcquireThrow, Live, Awaits
    <2>2. AttemptFailed(m) \/ EvictThenFail(m)
      BY <1>2 DEF AcquireFail, PrepareFail, AcquireThrow
    <2> QED BY <2>1, <2>2, BaseAttempt, BaseEvict
  <1>3. CASE FailureHandled(m)
    <2>1. Live(m)
      BY <1>3 DEF FailureHandled, Live, Awaits
    <2>2. HandleBackgroundFailure(m) \/ mode[m] = "stream"
      BY <1>3 DEF FailureHandled
    <2> QED BY <1>3, <2>1, <2>2, BaseHandler, BaseForward
  <1>4. CASE SettleRun(m)
    BY <1>4, BaseShift, BaseForward
  <1>5. CASE PiReceive(m)
    BY <1>5, BaseReceive
  <1>6. CASE AcquireEvict(m)
    BY <1>6, BaseControl
  <1>7. CASE \/ RefreshOk(m) \/ AcquireReuse(m) \/ AcquireFresh(m) \/ ProbeOk(m)
             \/ ProbeFail(m) \/ Dispatch(m) \/ TurnOk(m) \/ RelayEnd(m)
             \/ SettleStream(m)
    BY <1>7, BaseForward
  <1> QED BY <1>1, <1>2, <1>3, <1>4, <1>5, <1>6, <1>7 DEF TaskStep

(* Every step keeps it: the tasks', the clients' and the pool's.            *)
LEMMA BaseStep == BaseInv /\ [Next]_vars => BaseInv'
  <1> SUFFICES ASSUME BaseInv, [Next]_vars PROVE BaseInv'
    OBVIOUS
  <1>1. CASE UNCHANGED vars
    BY <1>1, BaseStutter
  <1>2. CASE \E m \in Msgs : RunEvent(m) \/ StreamEvent(m)
    BY <1>2, BaseAccept
  <1>3. CASE \E m \in Msgs : TaskStep(m)
    BY <1>3, BaseTask
  <1>4. CASE CancelReturn \/ CancelAbort \/ CancelFailed
             \/ DeleteStart \/ DeleteRow \/ PoolEvict
    BY <1>4, BaseControl DEF CancelReturn
  <1> QED BY <1>1, <1>2, <1>3, <1>4 DEF Next, OtherStep

(* The base invariant: types, attempts left to every acquiring task, a      *)
(* queue of queued messages, and a record of receptions that the tasks'     *)
(* awaits agree with (executeInBackground, acquireWithRetry).               *)
THEOREM BaseInvariant == Spec => []BaseInv
  BY BaseInit, BaseStep, PTL DEF Spec

(* Every variable keeps its type; no task exceeds MAX_INFRA_RETRIES         *)
(* acquire attempts (acquireWithRetry).                                     *)
THEOREM Typing == Spec => []TypeOK
  <1>1. BaseInv => TypeOK
    BY DEF BaseInv
  <1> QED BY <1>1, BaseInvariant, PTL

(* At-most-once delivery: whatever is retried, cancelled or deleted, Pi     *)
(* receives a message at most once, and never one that is still queued or   *)
(* that the router dropped.                                                 *)
THEOREM AtMostOnce == Spec => []ReceivedOnce
  <1>1. ASSUME BaseInv PROVE ReceivedOnce
    <2>1. received \in Seq(Msgs) /\ ReceivedPosted
      BY <1>1 DEF BaseInv, TypeOK
    <2>2. DOMAIN received = 1 .. Len(received)
      BY <2>1
    <2> QED BY <2>1, <2>2 DEF ReceivedPosted, ReceivedOnce, Unposted
  <1> QED BY <1>1, BaseInvariant, PTL

----------------------------------------------------------------------------
(* What the absence of a client operation rules out.                        *)

OpsInv ==
    /\ "stream" \notin Ops => \A m \in Msgs : mode[m] = "run"
    /\ "delete" \notin Ops => ~deleting /\ status # "none"
    /\ "cancel" \notin Ops => aborting = 0 /\ ~cancelFlag

(* What holds for want of an operation holds initially.                     *)
LEMMA OpsInit == Init => OpsInv
  BY DEF Init, OpsInv

(* A step of a task is no client operation.                                 *)
LEMMA TaskFrame ==
    ASSUME NEW m \in Msgs, TaskStep(m)
    PROVE  /\ UNCHANGED <<mode, deleting, aborting, cancels>>
           /\ cancelFlag' = cancelFlag \/ cancelFlag' = FALSE
           /\ status # "none" => status' # "none"
  <1> USE DEF row, task, ctl
  <1>1. CASE Throw(m) \/ FailureHandled(m)
    <2>1. CASE HandleBackgroundFailure(m)
      BY <2>1 DEF HandleBackgroundFailure
    <2>2. CASE EvictThenFail(m)
      BY <2>2 DEF EvictThenFail
    <2>3. CASE FinalizeError(m)
      BY <2>2, <2>3 DEF FinalizeError
    <2> QED BY <1>1, <2>1, <2>2, <2>3 DEF Throw, FailureHandled, UpdateStatus
  <1>2. CASE RefreshOk(m) \/ AcquireReuse(m) \/ AcquireEvict(m) \/ AcquireFresh(m)
               \/ ProbeOk(m) \/ ProbeFail(m) \/ PiReceive(m) \/ TurnOk(m) \/ RelayEnd(m)
    BY <1>2 DEF RefreshOk, AcquireReuse, AcquireEvict, AcquireFresh, ProbeOk, ProbeFail,
                PiReceive, TurnOk, RelayEnd
  <1>3. CASE AcquireFail(m) \/ AcquireThrow(m) \/ PrepareFail(m)
    BY <1>3 DEF AcquireFail, AcquireThrow, PrepareFail, AttemptFailed, EvictThenFail
  <1>4. CASE Dispatch(m)
    BY <1>4 DEF Dispatch, UpdateStatus
  <1>5. CASE SettleRun(m) \/ SettleStream(m)
    BY <1>5 DEF SettleRun, SettleStream, UpdateStatus
  <1> QED BY <1>1, <1>2, <1>3, <1>4, <1>5
          DEF TaskStep, RefreshFail, TurnFail, RelayFail, SettleFail

(* It holds after every step.                                               *)
LEMMA OpsStep == BaseInv /\ OpsInv /\ [Next]_vars => OpsInv'
  <1> SUFFICES ASSUME BaseInv, OpsInv, [Next]_vars PROVE OpsInv'
    OBVIOUS
  <1>1. mode \in [Msgs -> {"run", "stream"}]
    BY DEF BaseInv, TypeOK
  <1>2. CASE \E m \in Msgs : TaskStep(m)
    BY <1>2, TaskFrame DEF OpsInv
  <1>3. ASSUME NEW m \in Msgs, RunEvent(m) \/ StreamEvent(m) PROVE OpsInv'
    <2>1. UNCHANGED <<deleting, aborting, cancelFlag>> /\ status' \in {status, "starting"}
      BY <1>3 DEF RunEvent, RunEventStart, RunEventEnqueue, StreamEvent, Accept, ctl
    <2>2. mode' = [mode EXCEPT ![m] = "run"] \/ "stream" \in Ops
      BY <1>3 DEF RunEvent, RunEventStart, RunEventEnqueue, StreamEvent, Accept
    <2> QED BY <1>1, <2>1, <2>2 DEF OpsInv
  <1>4. CASE CancelDuringAcquire \/ CancelAcked
    <2>1. UNCHANGED <<mode, deleting>> /\ (status # "none" => status' # "none")
      BY <1>4 DEF CancelDuringAcquire, CancelAcked, CancelEffect, UpdateStatus, task
    <2>2. CancelDuringAcquire => "cancel" \in Ops
      BY DEF CancelDuringAcquire
    <2>3. CancelAcked => aborting # 0
      BY DEF CancelAcked
    <2> QED BY <1>4, <2>1, <2>2, <2>3 DEF OpsInv
  <1>5. CASE CancelAbort \/ CancelFailed
    <2>1. UNCHANGED <<mode, deleting, cancelFlag, status>>
      BY <1>5 DEF CancelAbort, CancelFailed, task, row
    <2>2. "cancel" \in Ops \/ aborting # 0
      BY <1>5 DEF CancelAbort, CancelFailed
    <2> QED BY <2>1, <2>2 DEF OpsInv
  <1>6. CASE DeleteStart \/ DeleteRow
    <2>1. UNCHANGED <<mode, aborting>> /\ (cancelFlag' = cancelFlag \/ cancelFlag' = FALSE)
      BY <1>6 DEF DeleteStart, DeleteRow, task
    <2>2. "delete" \in Ops \/ deleting
      BY <1>6 DEF DeleteStart, DeleteRow
    <2> QED BY <2>1, <2>2 DEF OpsInv
  <1>7. CASE PoolEvict \/ UNCHANGED vars
    BY <1>7 DEF PoolEvict, vars, row, task, ctl, OpsInv
  <1> QED BY <1>2, <1>3, <1>4, <1>5, <1>6, <1>7 DEF Next, CancelReturn, OtherStep

(* Both invariants hold in every reachable state.                           *)
LEMMA OpsInvariant == Spec => [](BaseInv /\ OpsInv)
  BY BaseInit, BaseStep, OpsInit, OpsStep, PTL DEF Spec

----------------------------------------------------------------------------
(* No queued event is stranded.                                             *)

(* No step of a post or a cancel leaves a message queued on a session that  *)
(* is not in flight.                                                        *)
LEMMA QueueStep ==
    ASSUME Ops \subseteq {"post", "cancel"}, BaseInv, OpsInv,
           QueueOnlyWhileInflight, [Next]_vars
    PROVE  QueueOnlyWhileInflight'
  <1>1. /\ \A m \in Msgs : mode[m] = "run"
        /\ ~deleting /\ status # "none"
        /\ queue \in Seq(Msgs)
    BY DEF OpsInv, BaseInv, TypeOK
  <1> USE DEF QueueOnlyWhileInflight, Inflight
  <1>2. CASE UNCHANGED vars
    BY <1>2 DEF vars, row
  <1>3. ASSUME NEW m \in Msgs, RunEvent(m) \/ StreamEvent(m)
        PROVE  QueueOnlyWhileInflight'
    BY <1>3 DEF RunEvent, RunEventStart, RunEventEnqueue, StreamEvent
  <1>4. ASSUME NEW m \in Msgs, TaskStep(m)
        PROVE  QueueOnlyWhileInflight'
    <2>1. CASE HandleBackgroundFailure(m)
      BY <2>1 DEF HandleBackgroundFailure, ClearQueue
    <2>2. CASE SettleRun(m)
      BY <1>1, <2>2 DEF SettleRun
    <2>3. CASE Dispatch(m)
      BY <1>1, <2>3 DEF Dispatch, UpdateStatus
    <2>4. CASE UNCHANGED <<row, queue>>
      BY <2>4 DEF row
    <2>5. mode[m] = "run"
      BY <1>1
    <2>6. \/ HandleBackgroundFailure(m) \/ SettleRun(m) \/ Dispatch(m)
          \/ UNCHANGED <<row, queue>>
      BY <1>4, <2>5 DEF TaskStep, RefreshOk, RefreshFail, Throw, EvictThenFail,
         FinalizeError, AcquireReuse, AcquireFresh, ProbeOk, ProbeFail, AcquireEvict, AcquireFail, AttemptFailed,
         AcquireThrow, PrepareFail, PiReceive, TurnOk, TurnFail, RelayEnd, RelayFail,
         SettleStream, SettleFail, FailureHandled
    <2> QED BY <2>1, <2>2, <2>3, <2>4, <2>6
  <1>5. CASE CancelReturn
    BY <1>5 DEF CancelReturn, CancelDuringAcquire, CancelAcked, CancelEffect, ClearQueue
  <1>6. CASE CancelAbort \/ CancelFailed \/ PoolEvict
    BY <1>6 DEF CancelAbort, CancelFailed, PoolEvict, row
  <1>7. ~DeleteStart /\ ~DeleteRow
    BY <1>1 DEF DeleteStart, DeleteRow
  <1> QED BY <1>2, <1>3, <1>4, <1>5, <1>6, <1>7 DEF Next, OtherStep

(* With native posts and cancels, however many runs a cancel leaves behind, *)
(* a session that is not in flight has an empty queue: the invariant that   *)
(* index.ts relies on for the startup drain.                                *)
THEOREM QueueNeverStranded ==
    ASSUME Ops \subseteq {"post", "cancel"}
    PROVE  Spec => []QueueOnlyWhileInflight
  <1>1. Init => QueueOnlyWhileInflight
    BY DEF Init, QueueOnlyWhileInflight
  <1>2. BaseInv /\ OpsInv /\ QueueOnlyWhileInflight /\ [Next]_vars
            => QueueOnlyWhileInflight'
    BY QueueStep
  <1> QED BY <1>1, <1>2, OpsInvariant, PTL DEF Spec

----------------------------------------------------------------------------
(* No error path abandons a session in flight.                              *)

Staffed == \E m \in Msgs : Live(m)

(* The one step that leaves a session in flight with nobody to end it.      *)
Abandons ==
    cancelFlag /\ ~cancelFlag' /\ \E m \in Msgs : pc[m] = "prepare" /\ pc'[m] = "aborted"

(* A step that leaves a live task live, or makes one live.                  *)
LEMMA StaffedGoes ==
    ASSUME BaseInv, NEW m \in Msgs, NEW l \in Awaits, Goto(m, l)
    PROVE  Staffed'
  <1>1. pc'[m] = l
    BY DEF BaseInv, TypeOK, Goto
  <1> QED BY <1>1 DEF Staffed, Live

LEMMA StaffedStays ==
    ASSUME Inflight => Staffed, status' = status,
           \A x \in Msgs : Live(x) => pc'[x] = pc[x]
    PROVE  ~Inflight' \/ Staffed'
  BY DEF Inflight, Staffed, Live

(* endRun, whatever the new status is, and the failures.                    *)
LEMMA FlightLeft ==
    ASSUME \/ UpdateStatus("idle") \/ UpdateStatus("failed") \/ status' = "failed"
           \/ status' = "none" \/ (~Inflight /\ status' = status)
    PROVE  ~Inflight'
  BY DEF UpdateStatus, Inflight

(* A new message: a new task, or a place in the queue of one.               *)
LEMMA StaffedAccept ==
    ASSUME BaseInv, Inflight => Staffed, NEW m \in Msgs, RunEvent(m) \/ StreamEvent(m)
    PROVE  ~Inflight' \/ Staffed'
  <1>1. CASE RunEventStart(m) \/ StreamEvent(m)
    <2>1. Goto(m, "refresh") /\ "refresh" \in Awaits
      BY <1>1 DEF RunEventStart, StreamEvent, Awaits
    <2> QED BY <2>1, StaffedGoes
  <1>2. CASE RunEventEnqueue(m)
    <2>1. pc[m] = "new" /\ pc' = [pc EXCEPT ![m] = "queued"] /\ status' = status
      BY <1>2 DEF RunEventEnqueue, Goto
    <2>2. \A x \in Msgs : Live(x) => pc'[x] = pc[x]
      BY <2>1 DEF Live, Awaits, BaseInv, TypeOK
    <2> QED BY <2>1, <2>2, StaffedStays
  <1> QED BY <1>1, <1>2 DEF RunEvent

(* The handler of a background task, and the end of its eviction: the       *)
(* flight is over whether or not it was this task's.                        *)
LEMMA HandlerLeaves == ASSUME NEW m \in Msgs, HandleBackgroundFailure(m) PROVE ~Inflight'
  BY FlightLeft DEF HandleBackgroundFailure

LEMMA EvictGoes == ASSUME BaseInv, NEW m \in Msgs, EvictThenFail(m) PROVE Staffed'
  <1>1. Goto(m, "fail") /\ "fail" \in Awaits
    BY DEF EvictThenFail, Awaits
  <1> QED BY <1>1, StaffedGoes

LEMMA AttemptGoes == ASSUME BaseInv, NEW m \in Msgs, AttemptFailed(m) PROVE Staffed'
  <1>1. PICK l \in {"acquire", "fail"} : Goto(m, l)
    BY DEF AttemptFailed
  <1> QED BY <1>1, StaffedGoes DEF Awaits

LEMMA ThrowStaffs == ASSUME BaseInv, NEW m \in Msgs, Throw(m) PROVE ~Inflight' \/ Staffed'
  <1>1. ASSUME FinalizeError(m), ~EvictThenFail(m) PROVE ~Inflight'
    <2>1. ~Inflight /\ status' = status
      BY <1>1 DEF FinalizeError, row
    <2> QED BY <2>1, FlightLeft
  <1> QED BY <1>1, HandlerLeaves, EvictGoes DEF Throw

LEMMA FailureStaffs ==
    ASSUME BaseInv, NEW m \in Msgs, FailureHandled(m)
    PROVE  ~Inflight'
  BY HandlerLeaves, FlightLeft DEF FailureHandled

(* The end of a run: the next message in the queue is run, or the flight is *)
(* over.                                                                    *)
LEMMA SettleStaffs ==
    ASSUME BaseInv, NEW m \in Msgs, RelayEnd(m) \/ SettleRun(m) \/ SettleStream(m)
    PROVE  ~Inflight' \/ Staffed'
  <1>1. CASE RelayEnd(m) /\ Inflight
    <2>1. Goto(m, "settle") /\ "settle" \in Awaits
      BY <1>1 DEF RelayEnd, Awaits
    <2> QED BY <2>1, StaffedGoes
  <1>2. CASE RelayEnd(m) /\ ~Inflight
    <2>1. status' = status
      BY <1>2 DEF RelayEnd, row
    <2> QED BY <1>2, <2>1, FlightLeft
  <1>3. CASE SettleRun(m) /\ queue # <<>>
    <2>1. PICK h \in Msgs : h = Head(queue)
      BY <1>3 DEF BaseInv, TypeOK
    <2>2. pc' = [pc EXCEPT ![m] = "done", ![h] = "refresh"]
      BY <1>3, <2>1 DEF SettleRun
    <2>3. pc'[h] = "refresh"
      BY <2>2 DEF BaseInv, TypeOK
    <2> QED BY <2>3 DEF Staffed, Live, Awaits
  <1>4. CASE (SettleRun(m) /\ queue = <<>>) \/ SettleStream(m)
    <2>1. UpdateStatus("idle")
      BY <1>4 DEF SettleRun, SettleStream
    <2> QED BY <2>1, FlightLeft
  <1> QED BY <1>1, <1>2, <1>3, <1>4

(* The steps of a task.                                                     *)
LEMMA StaffedTask ==
    ASSUME BaseInv, Inflight => Staffed, NEW m \in Msgs, TaskStep(m)
    PROVE  ~Inflight' \/ Staffed' \/ Abandons
  <1>1. CASE RefreshOk(m) \/ AcquireReuse(m) \/ AcquireFresh(m) \/ ProbeOk(m) \/ ProbeFail(m)
             \/ PiReceive(m) \/ TurnOk(m)
    <2>1. PICK l \in Awaits : Goto(m, l)
      BY <1>1 DEF RefreshOk, AcquireReuse, AcquireFresh, ProbeOk, ProbeFail, PiReceive, TurnOk,
                  Awaits
    <2> QED BY <2>1, StaffedGoes
  <1>2. CASE AcquireEvict(m)
    BY <1>2, StaffedStays DEF AcquireEvict, row
  <1>3. CASE AcquireFail(m) \/ AcquireThrow(m) \/ PrepareFail(m)
    BY <1>3, AttemptGoes, EvictGoes DEF AcquireFail, AcquireThrow, PrepareFail
  <1>4. CASE Dispatch(m)
    <2>1. CASE mode[m] = "run" /\ cancelFlag
      <3>1. pc[m] = "prepare" /\ Goto(m, "aborted") /\ cancelFlag' = FALSE
        BY <1>4, <2>1 DEF Dispatch
      <3>2. pc'[m] = "aborted"
        BY <3>1 DEF BaseInv, TypeOK, Goto
      <3> QED BY <2>1, <3>1, <3>2 DEF Abandons
    <2>2. CASE ~(mode[m] = "run" /\ cancelFlag)
      <3>1. Goto(m, "post") /\ "post" \in Awaits
        BY <1>4, <2>2 DEF Dispatch, Awaits
      <3> QED BY <3>1, StaffedGoes
    <2> QED BY <2>1, <2>2
  <1>5. CASE RefreshFail(m) \/ TurnFail(m) \/ RelayFail(m) \/ SettleFail(m)
    BY <1>5, ThrowStaffs DEF RefreshFail, TurnFail, RelayFail, SettleFail
  <1>6. CASE FailureHandled(m)
    BY <1>6, FailureStaffs
  <1> QED BY <1>1, <1>2, <1>3, <1>4, <1>5, <1>6, SettleStaffs DEF TaskStep

(* Cancels, deletes and the pool.                                           *)
LEMMA StaffedControl ==
    ASSUME BaseInv, Inflight => Staffed,
           \/ CancelReturn \/ CancelAbort \/ CancelFailed \/ DeleteStart \/ DeleteRow
           \/ PoolEvict \/ UNCHANGED vars
    PROVE  ~Inflight' \/ Staffed'
  <1>1. CASE CancelReturn
    BY <1>1, FlightLeft DEF CancelReturn, CancelDuringAcquire, CancelAcked, CancelEffect
  <1>2. CASE DeleteRow
    BY <1>2, FlightLeft DEF DeleteRow
  <1>3. CASE DeleteStart
    <2>1. \A x \in Msgs : Live(x) => pc'[x] = pc[x]
      BY <1>3 DEF DeleteStart, ClearQueue, Live, Awaits
    <2> QED BY <1>3, <2>1, StaffedStays DEF DeleteStart, row
  <1>4. CASE CancelAbort \/ CancelFailed \/ PoolEvict \/ UNCHANGED vars
    <2>1. status' = status /\ pc' = pc
      BY <1>4 DEF CancelAbort, CancelFailed, PoolEvict, vars, row
    <2> QED BY <2>1, StaffedStays
  <1> QED BY <1>1, <1>2, <1>3, <1>4

(* For any messages, operations, cancels and retries, and however a stopped *)
(* container's grace falls: a session is left in flight with nobody to end  *)
(* the flight only where its last task consumes the cancel flag.            *)
THEOREM NeverAbandoned == Spec => AbandonedOnlyByCancel
  <1>1. BaseInv /\ [Next]_vars =>
            [Inflight' /\ (\A m \in Msgs : ~Live(m)') /\ (Inflight => \E m \in Msgs : Live(m)) =>
                 cancelFlag /\ ~cancelFlag'
                 /\ \E m \in Msgs : pc[m] = "prepare" /\ pc'[m] = "aborted"]_vars
    <2> SUFFICES ASSUME BaseInv, [Next]_vars, Inflight => Staffed
                 PROVE  ~Inflight' \/ Staffed' \/ Abandons
      BY DEF Staffed, Abandons
    <2>1. ASSUME NEW m \in Msgs, RunEvent(m) \/ StreamEvent(m)
          PROVE  ~Inflight' \/ Staffed'
      BY <2>1, StaffedAccept
    <2>2. ASSUME NEW m \in Msgs, TaskStep(m) PROVE ~Inflight' \/ Staffed' \/ Abandons
      BY <2>2, StaffedTask
    <2> QED BY <2>1, <2>2, StaffedControl DEF Next, OtherStep
  <1>2. Spec => []BaseInv
    BY OpsInvariant, PTL
  <1> QED BY <1>1, <1>2, PTL DEF Spec, AbandonedOnlyByCancel

----------------------------------------------------------------------------
(* Without cancels the row serialises the runs.                             *)

(* A live task means the session is in flight, or was deleted; there is at  *)
(* most one.                                                                *)
Alone ==
    /\ aborting = 0 /\ ~cancelFlag
    /\ \A m \in Msgs : Live(m) => Inflight \/ status = "none"
    /\ \A a, b \in Msgs : Live(a) /\ Live(b) => a = b

SerialInv == cancels = 0 => Alone

(* A post or a stream starts a task only when there is none.                *)
LEMMA AloneAccept ==
    ASSUME BaseInv, Alone, NEW m \in Msgs, RunEvent(m) \/ StreamEvent(m)
    PROVE  Alone'
  <1>1. pc \in [Msgs -> Pcs] /\ UNCHANGED <<aborting, cancelFlag>>
    BY DEF BaseInv, TypeOK, RunEvent, RunEventStart, RunEventEnqueue, StreamEvent, Accept, ctl
  <1>2. CASE RunEventStart(m) \/ StreamEvent(m)
    <2>1. ~Inflight /\ status # "none" /\ Inflight' /\ pc' = [pc EXCEPT ![m] = "refresh"]
      BY <1>2 DEF RunEventStart, StreamEvent, Inflight, Goto
    <2>2. \A x \in Msgs : Live(x)' => x = m
      BY <1>1, <2>1 DEF Live, Alone
    <2> QED BY <1>1, <2>1, <2>2 DEF Alone
  <1>3. CASE RunEventEnqueue(m)
    <2>1. Inflight' /\ pc' = [pc EXCEPT ![m] = "queued"]
      BY <1>3 DEF RunEventEnqueue, Inflight, Goto
    <2>2. \A x \in Msgs : Live(x)' => Live(x)
      BY <1>1, <2>1 DEF Live, Awaits
    <2> QED BY <1>1, <2>1, <2>2 DEF Alone
  <1> QED BY <1>2, <1>3 DEF RunEvent

(* The lone task goes on, ends with the flight, or starts the next one.     *)
LEMMA AloneTask ==
    ASSUME BaseInv, Alone, NEW m \in Msgs, TaskStep(m)
    PROVE  Alone'
  <1> USE DEF RefreshOk, RefreshFail, AcquireReuse, AcquireFresh, ProbeOk, ProbeFail,
              AcquireEvict, AcquireFail, AcquireThrow, PrepareFail, Dispatch, PiReceive,
              TurnOk, TurnFail, RelayEnd, RelayFail, SettleRun, SettleStream, SettleFail,
              FailureHandled, Throw, FinalizeError, EvictThenFail, AttemptFailed
  <1>1. /\ pc \in [Msgs -> Pcs] /\ queue \in Seq(Msgs) /\ QueueIsQueued
        /\ aborting = 0 /\ ~cancelFlag
    BY DEF Alone, BaseInv, TypeOK
  <1>2. aborting' = 0 /\ ~cancelFlag'
    BY <1>1, TaskFrame
  <1>3. Live(m)
    BY DEF TaskStep, Live, Awaits
  <1>4. (Inflight \/ status = "none") /\ \A x \in Msgs : x # m => ~Live(x)
    BY <1>3 DEF Alone
  <1>5. CASE SettleRun(m) /\ queue # <<>>
    <2>1. PICK h \in Msgs : pc[h] = "queued" /\ h = Head(queue)
      BY <1>1, <1>5 DEF QueueIsQueued
    <2>2. status' = status /\ pc' = [pc EXCEPT ![m] = "done", ![h] = "refresh"]
      BY <1>5, <2>1
    <2>3. m # h
      BY <1>3, <2>1 DEF Live, Awaits
    <2>4. \A x \in Msgs : Live(x)' => x = h
      BY <1>1, <1>4, <2>2, <2>3 DEF Live, Awaits, Fates
    <2> QED BY <1>2, <1>4, <2>2, <2>4 DEF Alone, Inflight
  <1>6. CASE ~(SettleRun(m) /\ queue # <<>>)
    <2>1. \A x \in Msgs : x # m => pc'[x] = pc[x] \/ pc'[x] = "dropped"
      BY <1>1, <1>6 DEF TaskStep, HandleBackgroundFailure, Goto, ClearQueue
    <2>2. \A x \in Msgs : Live(x)' => x = m
      BY <1>4, <2>1 DEF Live, Awaits
    <2>3. status' = status \/ status' = "running" \/ pc'[m] \in Fates
      BY <1>1, <1>6
         DEF TaskStep, HandleBackgroundFailure, Goto, ClearQueue, UpdateStatus, row, Fates
    <2>4. pc'[m] \in Fates => ~Live(m)'
      BY DEF Live, Awaits, Fates
    <2>5. Live(m)' => Inflight' \/ status' = "none"
      BY <1>4, <2>3, <2>4 DEF Inflight
    <2> QED BY <1>2, <2>2, <2>5 DEF Alone
  <1> QED BY <1>5, <1>6

(* A delete and the pool start no task.                                     *)
LEMMA AloneControl ==
    ASSUME BaseInv, Alone, DeleteStart \/ DeleteRow \/ PoolEvict \/ UNCHANGED vars
    PROVE  Alone'
  <1> USE DEF Live, Inflight
  <1>1. CASE DeleteStart
    <2>1. \A x \in Msgs : Live(x)' => Live(x)
      BY <1>1 DEF DeleteStart, ClearQueue, Awaits
    <2> QED BY <1>1, <2>1 DEF Alone, DeleteStart, row
  <1>2. CASE DeleteRow
    BY <1>2 DEF Alone, DeleteRow
  <1>3. CASE PoolEvict \/ UNCHANGED vars
    BY <1>3 DEF Alone, PoolEvict, vars, row, ctl
  <1> QED BY <1>1, <1>2, <1>3

(* Only a cancel request can make the tasks of a session overlap.           *)
LEMMA SerialStep ==
    ASSUME BaseInv, SerialInv, [Next]_vars
    PROVE  SerialInv'
  <1> SUFFICES ASSUME cancels' = 0 PROVE Alone'
    BY DEF SerialInv
  <1>1. cancels \in Nat
    BY DEF BaseInv, TypeOK
  <1>2. cancels = 0 => Alone
    BY DEF SerialInv
  <1>3. ASSUME NEW m \in Msgs, RunEvent(m) \/ StreamEvent(m) PROVE Alone'
    <2>1. cancels' = cancels
      BY <1>3 DEF RunEvent, RunEventStart, RunEventEnqueue, StreamEvent, Accept, ctl
    <2> QED BY <1>2, <1>3, <2>1, AloneAccept
  <1>4. ASSUME NEW m \in Msgs, TaskStep(m) PROVE Alone'
    <2>1. cancels' = cancels
      BY <1>4, TaskFrame
    <2> QED BY <1>2, <1>4, <2>1, AloneTask
  <1>5. ~CancelDuringAcquire /\ ~CancelAbort
    BY <1>1 DEF CancelDuringAcquire, CancelAbort
  <1>6. CASE CancelAcked \/ CancelFailed
    BY <1>2, <1>6 DEF CancelAcked, CancelFailed, Alone
  <1>7. CASE DeleteStart \/ DeleteRow \/ PoolEvict \/ UNCHANGED vars
    <2>1. cancels' = cancels
      BY <1>7 DEF DeleteStart, DeleteRow, PoolEvict, vars, ctl
    <2> QED BY <1>2, <1>7, <2>1, AloneControl
  <1> QED BY <1>3, <1>4, <1>5, <1>6, <1>7 DEF Next, OtherStep, CancelReturn

(* Until a run is cancelled, a session never has two live runs: the status  *)
(* column is a lock that runEvent and streamEvent take and every path of a  *)
(* run releases exactly when its task ends, or a delete removes for good.   *)
THEOREM Serialised == Spec => []SingleRun
  <1>1. Init => SerialInv
    BY DEF Init, SerialInv, Alone, Live, Awaits
  <1>2. BaseInv /\ SerialInv /\ [Next]_vars => SerialInv'
    BY SerialStep
  <1>3. SerialInv => SingleRun
    BY DEF SerialInv, SingleRun, Alone
  <1> QED BY <1>1, <1>2, <1>3, BaseInvariant, PTL DEF Spec

----------------------------------------------------------------------------
(* The refinement.                                                          *)

(* The tasks that have reached Pi, their reply being awaited or handled.    *)
Posted == {"turn", "relay", "settle", "done"}

(* What the mapping relies on: the queue is all that waits, Pi has what is  *)
(* beyond its POST, only streams are relayed, and a message nobody has      *)
(* posted yet is no stream.                                                 *)
Waits(m) == \E i \in 1 .. Len(queue) : queue[i] = m
Given(m) == \E i \in 1 .. Len(received) : received[i] = m

ServiceInv ==
    \A m \in Msgs :
        /\ pc[m] = "queued" => Waits(m)
        /\ pc[m] \in Posted => Given(m)
        /\ pc[m] = "relay" => mode[m] = "stream"
        /\ pc[m] = "new" => mode[m] = "run"

----------------------------------------------------------------------------
(* What a step of a task comes to, as far as the service can tell: it goes  *)
(* on from one await to the next, a stream ends, or one of the four steps   *)
(* below that the service knows by name.                                    *)

GoesOn(m) ==
    \E l \in Awaits :
        /\ Goto(m, l)
        /\ l \in Posted => pc[m] \in Posted
        /\ l = "relay" => mode[m] = "stream"
        /\ UNCHANGED <<status, queue, received, mode, cancels>>

StreamEnds(m) ==
    /\ mode[m] = "stream"
    /\ \E l \in {"done", "failed"} :
        /\ Goto(m, l)
        /\ l = "done" => pc[m] \in Posted
        /\ UNCHANGED <<queue, received, mode, cancels>>
        /\ status = "none" => status' = "none"

(* Every step of a task is one of those.                                    *)
LEMMA TaskEffect ==
    ASSUME BaseInv, ServiceInv, NEW m \in Msgs, TaskStep(m)
    PROVE  /\ Live(m)
           /\ UNCHANGED <<mode, cancels>>
           /\ \/ HandleBackgroundFailure(m)
              \/ SettleRun(m)
              \/ Dispatch(m)
              \/ PiReceive(m)
              \/ GoesOn(m)
              \/ StreamEnds(m)
  <1>1. pc \in [Msgs -> Pcs] /\ UNCHANGED <<mode, cancels>>
    BY TaskFrame DEF BaseInv, TypeOK
  <1>2. Live(m)
    BY DEF TaskStep, Live, Awaits, RefreshOk, RefreshFail, AcquireReuse, AcquireFresh,
           ProbeOk, ProbeFail, AcquireEvict, AcquireFail, AcquireThrow, PrepareFail, Dispatch,
           PiReceive, TurnOk, TurnFail, RelayEnd, RelayFail, SettleRun, SettleStream,
           SettleFail, FailureHandled
  <1>3. CASE \/ RefreshOk(m) \/ AcquireReuse(m) \/ AcquireFresh(m) \/ ProbeOk(m)
             \/ ProbeFail(m)
    <2>1. /\ Goto(m, "acquire") \/ Goto(m, "probe") \/ Goto(m, "prepare")
          /\ UNCHANGED <<status, queue, received>>
      BY <1>3 DEF RefreshOk, AcquireReuse, AcquireFresh, ProbeOk, ProbeFail, row
    <2> QED BY <1>1, <1>2, <2>1 DEF GoesOn, Awaits, Posted
  <1>4. CASE AcquireEvict(m)
    <2>1. Goto(m, "acquire") /\ UNCHANGED <<status, queue, received>>
      BY <1>1, <1>4 DEF AcquireEvict, Goto, row
    <2> QED BY <1>1, <1>2, <2>1 DEF GoesOn, Awaits, Posted
  <1>5. CASE EvictThenFail(m) \/ AttemptFailed(m)
    <2>1. /\ Goto(m, "acquire") \/ Goto(m, "fail")
          /\ UNCHANGED <<status, queue, received>>
      BY <1>5 DEF EvictThenFail, AttemptFailed, row
    <2> QED BY <1>1, <1>2, <2>1 DEF GoesOn, Awaits, Posted
  <1>6. CASE TurnOk(m)
    <2>1. /\ pc[m] = "turn" /\ UNCHANGED <<status, queue, received>>
          /\ Goto(m, IF mode[m] = "run" THEN "settle" ELSE "relay")
      BY <1>6 DEF TurnOk, row
    <2>2. CASE mode[m] = "run"
      BY <1>1, <1>2, <2>1, <2>2 DEF GoesOn, Awaits, Posted
    <2>3. CASE mode[m] = "stream"
      BY <1>1, <1>2, <2>1, <2>3 DEF GoesOn, Awaits, Posted
    <2> QED BY <2>2, <2>3 DEF BaseInv, TypeOK
  <1>7. CASE RelayEnd(m)
    <2>1. /\ pc[m] = "relay" /\ mode[m] = "stream" /\ UNCHANGED <<status, queue, received>>
          /\ Goto(m, IF Inflight THEN "settle" ELSE "done")
      BY <1>7 DEF RelayEnd, row, ServiceInv
    <2>2. CASE Inflight
      BY <1>1, <1>2, <2>1, <2>2 DEF GoesOn, Awaits, Posted
    <2>3. CASE ~Inflight
      BY <1>1, <1>2, <2>1, <2>3 DEF StreamEnds, Posted
    <2> QED BY <2>2, <2>3
  <1>8. CASE SettleStream(m) \/ (FailureHandled(m) /\ mode[m] = "stream")
    <2>1. /\ mode[m] = "stream" /\ UNCHANGED <<queue, received>>
          /\ status = "none" => status' = "none"
          /\ (Goto(m, "done") /\ pc[m] = "settle") \/ Goto(m, "failed")
      BY <1>8 DEF SettleStream, FailureHandled, UpdateStatus, HandleBackgroundFailure
    <2> QED BY <1>1, <1>2, <2>1 DEF StreamEnds, Posted
  <1>9. CASE Throw(m)
    <2>1. CASE mode[m] = "stream" /\ ~EvictThenFail(m)
      <3>1. Goto(m, "failed") /\ UNCHANGED <<status, queue, received>>
        BY <1>9, <2>1 DEF Throw, FinalizeError, row
      <3> QED BY <1>1, <1>2, <2>1, <3>1 DEF StreamEnds
    <2> QED BY <1>1, <1>2, <1>5, <1>9, <2>1 DEF Throw
  <1> QED BY <1>1, <1>2, <1>3, <1>4, <1>5, <1>6, <1>7, <1>8, <1>9
          DEF TaskStep, RefreshFail, AcquireFail, AcquireThrow, PrepareFail, TurnFail,
              RelayFail, SettleFail, FailureHandled

----------------------------------------------------------------------------
(* The invariant behind the mapping.                                        *)

(* A step that moves one message on and clears the queue or leaves it.      *)
LEMMA ServiceMoves ==
    ASSUME BaseInv, ServiceInv, NEW m \in Msgs, NEW l \in Pcs \ {"new", "queued"},
           (Goto(m, l) /\ UNCHANGED queue) \/ ClearQueue([pc EXCEPT ![m] = l]),
           l \in Posted => pc[m] \in Posted,
           l = "relay" => mode[m] = "stream",
           UNCHANGED <<received, mode>>
    PROVE  ServiceInv'
  <1>1. pc \in [Msgs -> Pcs]
    BY DEF BaseInv, TypeOK
  <1>2. /\ \A x \in Msgs : pc'[x] = "queued" => x # m /\ pc[x] = "queued" /\ queue' = queue
        /\ \A x \in Msgs : pc'[x] \in Posted => pc[x] \in Posted
        /\ \A x \in Msgs : pc'[x] = "relay" => mode[x] = "stream"
        /\ \A x \in Msgs : pc'[x] = "new" => pc[x] = "new"
    <2>1. CASE Goto(m, l) /\ UNCHANGED queue
      BY <1>1, <2>1 DEF Goto, ServiceInv
    <2>2. CASE ClearQueue([pc EXCEPT ![m] = l])
      BY <1>1, <2>2 DEF ClearQueue, ServiceInv, Posted
    <2> QED BY <2>1, <2>2
  <1> QED BY <1>2 DEF ServiceInv, Waits, Given

(* A message is accepted: it waits in the queue, or nowhere.                *)
LEMMA ServiceAccept ==
    ASSUME BaseInv, ServiceInv, NEW m \in Msgs, RunEvent(m) \/ StreamEvent(m)
    PROVE  ServiceInv'
  <1>1. /\ pc \in [Msgs -> Pcs] /\ mode \in [Msgs -> {"run", "stream"}]
        /\ queue \in Seq(Msgs) /\ pc[m] = "new" /\ UNCHANGED received
    BY DEF BaseInv, TypeOK, RunEvent, RunEventStart, RunEventEnqueue, StreamEvent, Accept
  <1>2. PICK l \in {"refresh", "queued"} :
            /\ pc' = [pc EXCEPT ![m] = l]
            /\ l = "queued" => queue' = Append(queue, m)
            /\ l = "refresh" => queue' = queue
    BY DEF RunEvent, RunEventStart, RunEventEnqueue, StreamEvent, Goto
  <1>3. PICK how \in {"run", "stream"} : mode' = [mode EXCEPT ![m] = how]
    BY DEF RunEvent, RunEventStart, RunEventEnqueue, StreamEvent, Accept
  <1>4. ASSUME NEW x \in Msgs, pc'[x] = "queued" PROVE Waits(x)'
    <2>1. CASE x = m
      <3>1. queue' = Append(queue, m)
        BY <1>1, <1>2, <1>4, <2>1
      <3>2. Len(queue) + 1 \in 1 .. Len(queue') /\ queue'[Len(queue) + 1] = m
        BY <1>1, <3>1
      <3> QED BY <2>1, <3>2 DEF Waits
    <2>2. CASE x # m
      <3>1. PICK i \in 1 .. Len(queue) : queue[i] = x
        BY <1>1, <1>2, <1>4, <2>2 DEF ServiceInv, Waits
      <3>2. queue' = queue \/ queue' = Append(queue, m)
        BY <1>2
      <3>3. i \in 1 .. Len(queue') /\ queue'[i] = x
        BY <1>1, <3>1, <3>2
      <3> QED BY <3>3 DEF Waits
    <2> QED BY <2>1, <2>2
  <1>5. \A x \in Msgs : pc'[x] \in Posted => pc[x] \in Posted
    BY <1>1, <1>2 DEF Posted
  <1>6. \A x \in Msgs : pc'[x] \in {"relay", "new"} => x # m /\ pc'[x] = pc[x]
    BY <1>1, <1>2
  <1>7. \A x \in Msgs \ {m} : mode'[x] = mode[x]
    BY <1>1, <1>3
  <1> QED BY <1>1, <1>4, <1>5, <1>6, <1>7 DEF ServiceInv, Given

(* The head of the queue is next: the others still wait.                    *)
LEMMA ServiceShift ==
    ASSUME BaseInv, ServiceInv, NEW m \in Msgs, SettleRun(m), queue # <<>>
    PROVE  ServiceInv'
  <1> DEFINE h == Head(queue)
  <1>1. /\ pc \in [Msgs -> Pcs] /\ queue \in Seq(Msgs) /\ Len(queue) \in Nat \ {0}
        /\ h = queue[1] /\ h \in Msgs /\ pc[h] = "queued" /\ mode[h] = "run"
    BY DEF BaseInv, TypeOK, QueueIsQueued
  <1>2. /\ pc[m] = "settle" /\ mode[m] = "run" /\ queue' = Tail(queue)
        /\ pc' = [pc EXCEPT ![m] = "done", ![h] = "refresh"]
        /\ UNCHANGED <<mode, received>>
    BY DEF SettleRun, task, Goto
  <1>3. /\ pc'[m] = "done" /\ pc'[h] = "refresh" /\ m # h
        /\ \A x \in Msgs \ {m, h} : pc'[x] = pc[x]
    BY <1>1, <1>2
  <1>4. ASSUME NEW x \in Msgs, pc'[x] = "queued" PROVE Waits(x)'
    <2>1. x # m /\ x # h /\ pc[x] = "queued"
      BY <1>3, <1>4
    <2>2. PICK i \in 1 .. Len(queue) : queue[i] = x
      BY <2>1 DEF ServiceInv, Waits
    <2>3. i # 1
      BY <1>1, <2>1, <2>2
    <2>4. i - 1 \in 1 .. Len(queue') /\ queue'[i - 1] = x
      BY <1>1, <1>2, <2>2, <2>3
    <2> QED BY <2>4 DEF Waits
  <1>5. \A x \in Msgs : pc'[x] \in Posted => pc[x] \in Posted
    BY <1>2, <1>3 DEF Posted
  <1>6. \A x \in Msgs : pc'[x] \in {"relay", "new"} => pc'[x] = pc[x]
    BY <1>3
  <1> QED BY <1>2, <1>4, <1>5, <1>6 DEF ServiceInv, Given

(* Pi has the message from now on.                                          *)
LEMMA ServiceReceive ==
    ASSUME BaseInv, ServiceInv, NEW m \in Msgs, PiReceive(m)
    PROVE  ServiceInv'
  <1>1. /\ pc \in [Msgs -> Pcs] /\ received \in Seq(Msgs)
        /\ received' = Append(received, m) /\ pc' = [pc EXCEPT ![m] = "turn"]
        /\ UNCHANGED <<queue, mode>>
    BY DEF BaseInv, TypeOK, PiReceive, Goto, task
  <1>2. Given(m)'
    <2>1. Len(received) + 1 \in 1 .. Len(received') /\ received'[Len(received) + 1] = m
      BY <1>1
    <2> QED BY <2>1 DEF Given
  <1>3. ASSUME NEW x \in Msgs, Given(x) PROVE Given(x)'
    <2>1. PICK i \in 1 .. Len(received) : received[i] = x
      BY <1>3 DEF Given
    <2>2. i \in 1 .. Len(received') /\ received'[i] = x
      BY <1>1, <2>1
    <2> QED BY <2>2 DEF Given
  <1>4. \A x \in Msgs : pc'[x] = pc[x] \/ (x = m /\ pc'[x] = "turn")
    BY <1>1
  <1> QED BY <1>1, <1>2, <1>3, <1>4 DEF ServiceInv, Waits

(* The invariant is kept by every step ...                                  *)
LEMMA ServiceStep ==
    ASSUME BaseInv, ServiceInv, [Next]_vars
    PROVE  ServiceInv'
  <1>1. CASE \E m \in Msgs : RunEvent(m) \/ StreamEvent(m)
    BY <1>1, ServiceAccept
  <1>2. ASSUME NEW m \in Msgs, TaskStep(m) PROVE ServiceInv'
    <2>1. CASE HandleBackgroundFailure(m)
      <3>1. UNCHANGED <<received, mode>>
        BY <2>1 DEF HandleBackgroundFailure, task
      <3>2. (Goto(m, "failed") /\ UNCHANGED queue) \/ ClearQueue([pc EXCEPT ![m] = "failed"])
        BY <2>1 DEF HandleBackgroundFailure
      <3> QED BY <3>1, <3>2, ServiceMoves DEF Pcs, Fates, Posted
    <2>2. CASE SettleRun(m) /\ queue # <<>>
      BY <2>2, ServiceShift
    <2>3. CASE SettleRun(m) /\ queue = <<>>
      <3>1. Goto(m, "done") /\ UNCHANGED <<queue, received, mode>> /\ pc[m] \in Posted
        BY <2>3 DEF SettleRun, task, Posted
      <3>2. "done" \in Pcs \ {"new", "queued"} /\ "done" # "relay"
        BY DEF Pcs, Fates
      <3> QED BY <3>1, <3>2, ServiceMoves
    <2>4. CASE Dispatch(m)
      <3>1. PICK l \in {"aborted", "post"} : Goto(m, l) /\ UNCHANGED <<queue, received, mode>>
        BY <2>4 DEF Dispatch, task
      <3>2. l \in Pcs \ {"new", "queued"} /\ l # "relay" /\ l \notin Posted
        BY DEF Pcs, Fates, Awaits, Posted
      <3> QED BY <3>1, <3>2, ServiceMoves
    <2>5. CASE PiReceive(m)
      BY <2>5, ServiceReceive
    <2>6. CASE GoesOn(m)
      <3>1. PICK l \in Awaits :
                /\ Goto(m, l)
                /\ l \in Posted => pc[m] \in Posted
                /\ l = "relay" => mode[m] = "stream"
                /\ UNCHANGED <<queue, received, mode>>
        BY <2>6 DEF GoesOn
      <3>2. l \in Pcs \ {"new", "queued"}
        BY DEF Pcs, Awaits
      <3> QED BY <3>1, <3>2, ServiceMoves
    <2>7. CASE StreamEnds(m)
      <3>1. PICK l \in {"done", "failed"} :
                /\ Goto(m, l)
                /\ l = "done" => pc[m] \in Posted
                /\ UNCHANGED <<queue, received, mode>>
        BY <2>7 DEF StreamEnds
      <3>2. l \in Pcs \ {"new", "queued"} /\ l # "relay" /\ (l \in Posted => l = "done")
        BY DEF Pcs, Fates, Posted
      <3> QED BY <3>1, <3>2, ServiceMoves
    <2> QED BY <1>2, <2>1, <2>2, <2>3, <2>4, <2>5, <2>6, <2>7, TaskEffect
  <1>3. CASE \/ CancelDuringAcquire \/ CancelAbort \/ CancelAcked \/ CancelFailed
             \/ DeleteStart \/ DeleteRow \/ PoolEvict \/ UNCHANGED vars
    <2>1. /\ UNCHANGED <<received, mode>>
          /\ ClearQueue(pc) \/ UNCHANGED <<pc, queue>>
      BY <1>3 DEF CancelDuringAcquire, CancelAbort, CancelAcked, CancelFailed, DeleteStart,
                  DeleteRow, PoolEvict, CancelEffect, vars, task
    <2>2. CASE UNCHANGED <<pc, queue>>
      BY <2>1, <2>2 DEF ServiceInv, Waits, Given
    <2>3. CASE ClearQueue(pc)
      <3>1. \A x \in Msgs : pc'[x] # "queued" /\ (pc'[x] = pc[x] \/ pc'[x] = "dropped")
        BY <2>3 DEF ClearQueue
      <3> QED BY <2>1, <3>1 DEF ServiceInv, Given, Posted
    <2> QED BY <2>1, <2>2, <2>3
  <1> QED BY <1>1, <1>2, <1>3 DEF Next, CancelReturn, OtherStep

(* ... and holds initially.                                                 *)
LEMMA ServiceInit == Init => ServiceInv
  BY DEF Init, ServiceInv, Posted

----------------------------------------------------------------------------
(* A message only moves forward, whoever takes the step.                    *)

Moved(x) ==
    \/ pc'[x] = pc[x]
    \/ pc[x] = "new" /\ pc'[x] = "refresh" /\ status \in {"idle", "failed"}
    \/ pc[x] = "new" /\ pc'[x] = "queued" /\ Inflight
    \/ pc[x] = "queued" /\ pc'[x] \in {"refresh", "dropped"}
    \/ pc[x] \in Awaits /\ pc'[x] \in Awaits \cup {"failed", "aborted"}
    \/ pc[x] \in Awaits /\ pc'[x] = "done" /\ Given(x)

Forth ==
    /\ \A x \in Msgs : Moved(x)
    /\ \/ received' = received
       \/ \E m \in Msgs : pc[m] = "post" /\ received' = Append(received, m)
    /\ status = "none" => status' = "none"

(* Clients start a run of a session at rest, or queue behind one.           *)
LEMMA ForthClient ==
    ASSUME BaseInv, NEW m \in Msgs, RunEvent(m) \/ StreamEvent(m)
    PROVE  Forth
  <1>1. pc \in [Msgs -> Pcs] /\ UNCHANGED received
    BY DEF BaseInv, TypeOK, RunEvent, RunEventStart, RunEventEnqueue, StreamEvent, Accept
  <1>2. CASE RunEventStart(m) \/ StreamEvent(m)
    <2>1. /\ pc[m] = "new" /\ pc' = [pc EXCEPT ![m] = "refresh"]
          /\ status \in {"idle", "failed"}
      BY <1>2 DEF RunEventStart, StreamEvent, Goto
    <2> QED BY <1>1, <2>1 DEF Forth, Moved
  <1>3. CASE RunEventEnqueue(m)
    <2>1. /\ pc[m] = "new" /\ pc' = [pc EXCEPT ![m] = "queued"]
          /\ Inflight /\ status' = status
      BY <1>3 DEF RunEventEnqueue, Goto
    <2> QED BY <1>1, <2>1 DEF Forth, Moved
  <1> QED BY <1>2, <1>3 DEF RunEvent

(* A task goes on or ends, and drops or takes what waits behind it.         *)
LEMMA ForthTask ==
    ASSUME BaseInv, ServiceInv, NEW m \in Msgs, TaskStep(m)
    PROVE  Forth
  <1>1. /\ pc \in [Msgs -> Pcs] /\ queue \in Seq(Msgs) /\ QueueIsQueued
        /\ pc[m] \in Awaits
        /\ pc[m] \in Posted => Given(m)
        /\ status = "none" => status' = "none"
    <2>1. status = "none" => status' = "none"
      BY DEF TaskStep, RefreshOk, RefreshFail, AcquireReuse, AcquireFresh, ProbeOk,
             ProbeFail, AcquireEvict, AcquireFail, AcquireThrow, PrepareFail, Dispatch,
             PiReceive, TurnOk, TurnFail, RelayEnd, RelayFail, SettleRun, SettleStream,
             SettleFail, FailureHandled, Throw, FinalizeError, EvictThenFail,
             AttemptFailed, HandleBackgroundFailure, UpdateStatus, Inflight, row
    <2> QED BY <2>1, TaskEffect DEF BaseInv, TypeOK, Live, ServiceInv
  <1>2. ASSUME NEW l \in Awaits \cup Fates, l \in Awaits \cup {"failed", "aborted"} \/ Given(m),
               l # "dropped",
               (Goto(m, l) /\ UNCHANGED queue) \/ ClearQueue([pc EXCEPT ![m] = l]),
               UNCHANGED received
        PROVE  Forth
    <2>1. l \in Awaits \cup {"failed", "aborted", "done"}
      BY <1>2 DEF Fates
    <2>2. /\ pc'[m] = l
          /\ \A x \in Msgs : x # m =>
                pc'[x] = pc[x] \/ (pc[x] = "queued" /\ pc'[x] = "dropped")
      <3>1. CASE Goto(m, l)
        BY <1>1, <3>1 DEF Goto
      <3>2. CASE ClearQueue([pc EXCEPT ![m] = l])
        BY <1>1, <1>2, <3>2 DEF ClearQueue, Awaits, Fates
      <3> QED BY <1>2, <3>1, <3>2
    <2> QED BY <1>1, <1>2, <2>1, <2>2 DEF Forth, Moved
  <1>3. CASE HandleBackgroundFailure(m)
    <2>1. /\ (Goto(m, "failed") /\ UNCHANGED queue) \/ ClearQueue([pc EXCEPT ![m] = "failed"])
          /\ UNCHANGED received
      BY <1>3 DEF HandleBackgroundFailure
    <2> QED BY <1>2, <2>1 DEF Fates
  <1>4. CASE SettleRun(m) /\ queue # <<>>
    <2>1. PICK h \in Msgs : pc[h] = "queued" /\ h = Head(queue)
      BY <1>1, <1>4 DEF QueueIsQueued
    <2>2. /\ pc' = [pc EXCEPT ![m] = "done", ![h] = "refresh"]
          /\ UNCHANGED received /\ pc[m] \in Posted
      BY <1>4, <2>1 DEF SettleRun, Posted
    <2>3. m # h
      BY <1>1, <2>1 DEF Awaits
    <2> QED BY <1>1, <2>1, <2>2, <2>3 DEF Forth, Moved
  <1>5. CASE SettleRun(m) /\ queue = <<>>
    <2>1. Goto(m, "done") /\ UNCHANGED <<queue, received>> /\ pc[m] \in Posted
      BY <1>5 DEF SettleRun, Posted
    <2>2. "done" \in Awaits \cup Fates /\ "done" # "dropped"
      BY DEF Fates
    <2> QED BY <1>1, <1>2, <2>1, <2>2
  <1>6. CASE Dispatch(m)
    <2>1. PICK l \in {"aborted", "post"} : Goto(m, l) /\ UNCHANGED <<queue, received>>
      BY <1>6 DEF Dispatch
    <2>2. l \in Awaits \cup {"failed", "aborted"} /\ l \in Awaits \cup Fates /\ l # "dropped"
      BY DEF Awaits, Fates
    <2> QED BY <1>2, <2>1, <2>2
  <1>7. CASE PiReceive(m)
    <2>1. pc[m] = "post" /\ pc' = [pc EXCEPT ![m] = "turn"] /\ received' = Append(received, m)
      BY <1>7 DEF PiReceive, Goto
    <2> QED BY <1>1, <2>1 DEF Forth, Moved, Awaits
  <1>8. CASE GoesOn(m)
    <2>1. PICK l \in Awaits : Goto(m, l) /\ UNCHANGED <<queue, received>>
      BY <1>8 DEF GoesOn
    <2>2. l # "dropped"
      BY DEF Awaits
    <2> QED BY <1>2, <2>1, <2>2
  <1>9. CASE StreamEnds(m)
    <2>1. PICK l \in {"done", "failed"} :
              Goto(m, l) /\ (l = "done" => pc[m] \in Posted) /\ UNCHANGED <<queue, received>>
      BY <1>9 DEF StreamEnds
    <2>2. l \in Awaits \cup Fates /\ l # "dropped"
      BY DEF Fates
    <2> QED BY <1>1, <1>2, <2>1, <2>2
  <1> QED BY <1>3, <1>4, <1>5, <1>6, <1>7, <1>8, <1>9, TaskEffect

(* Nor does a cancel, a delete, the pool or a stutter move one back.        *)
LEMMA ForthControl ==
    ASSUME \/ CancelDuringAcquire \/ CancelAbort \/ CancelAcked \/ CancelFailed
           \/ DeleteStart \/ DeleteRow \/ PoolEvict \/ UNCHANGED vars
    PROVE  Forth
  <1>1. /\ UNCHANGED received
        /\ ClearQueue(pc) \/ UNCHANGED pc
        /\ status = "none" => status' = "none"
    BY DEF CancelDuringAcquire, CancelAbort, CancelAcked, CancelFailed, DeleteStart,
           DeleteRow, PoolEvict, CancelEffect, UpdateStatus, vars, row
  <1>2. \A x \in Msgs : pc'[x] = pc[x] \/ (pc[x] = "queued" /\ pc'[x] = "dropped")
    BY <1>1 DEF ClearQueue
  <1> QED BY <1>1, <1>2 DEF Forth, Moved

(* Together: every step goes forth.                                         *)
LEMMA Forthright ==
    ASSUME BaseInv, ServiceInv, [Next]_vars
    PROVE  Forth
  BY ForthClient, ForthTask, ForthControl DEF Next, CancelReturn, OtherStep

----------------------------------------------------------------------------
(* The mapping.                                                             *)

(* Nobody has cancelled or streamed.                                        *)
Calm == cancels = 0 /\ \A m \in Msgs : mode[m] = "run"

(* What a phase stands for.                                                 *)
LEMMA Phases ==
    ASSUME NEW p \in Pcs, NEW m \in Msgs
    PROVE  /\ pc[m] = p => /\ PhaseOf(m) = "new" <=> p = "new"
                           /\ PhaseOf(m) = "waiting" <=> p = "queued"
                           /\ PhaseOf(m) = "running" <=> p \in Awaits
                           /\ PhaseOf(m) = "answered" <=> p = "done"
                           /\ PhaseOf(m) = "lost" <=> p \in {"failed", "aborted", "dropped"}
           /\ pc'[m] = p => /\ PhaseOf(m)' = "new" <=> p = "new"
                            /\ PhaseOf(m)' = "waiting" <=> p = "queued"
                            /\ PhaseOf(m)' = "running" <=> p \in Awaits
                            /\ PhaseOf(m)' = "answered" <=> p = "done"
                            /\ PhaseOf(m)' = "lost" <=> p \in {"failed", "aborted", "dropped"}
  BY DEF PhaseOf, Pcs, Awaits, Fates

(* The elements of a sequence of messages.                                  *)
LEMMA Elements ==
    ASSUME NEW q \in Seq(Msgs)
    PROVE  Service!ToSet(q) = {m \in Msgs : \E i \in 1 .. Len(q) : q[i] = m}
  <1>1. DOMAIN q = 1 .. Len(q) /\ \A i \in 1 .. Len(q) : q[i] \in Msgs
    OBVIOUS
  <1> QED BY <1>1 DEF Service!ToSet

(* Once a client has cancelled or streamed, a step that goes forth is one   *)
(* of the disturbed service.                                                *)
LEMMA DisturbedStep ==
    ASSUME BaseInv, ServiceInv, BaseInv', ServiceInv', Forth, ~Calm'
    PROVE  Service!Disturbed
  <1>1. /\ pc \in [Msgs -> Pcs] /\ pc' \in [Msgs -> Pcs]
        /\ Service!ToSet(received) = {m \in Msgs : Given(m)}
    BY Elements DEF BaseInv, TypeOK, Given
  <1>2. cancels' > 0 \/ \E m \in Msgs : mode'[m] = "stream"
    BY DEF Calm, BaseInv, TypeOK
  <1>3. ASSUME NEW m \in Msgs PROVE Service!Forward(m)
    <2>1. Moved(m)
      BY DEF Forth
    <2>3. m \in Service!ToSet(received) <=> Given(m)
      BY <1>1
    <2>4. pc[m] \in Pcs /\ pc'[m] \in Pcs
      BY <1>1
    <2>5. CASE pc'[m] = pc[m]
      BY <2>5 DEF Service!Forward, PhaseOf
    <2>6. CASE pc[m] = "new" /\ pc'[m] = "refresh" /\ status \in {"idle", "failed"}
      BY <2>6, <2>4, Phases DEF Service!Forward, Awaits
    <2>7. CASE pc[m] = "new" /\ pc'[m] = "queued" /\ Inflight
      BY <2>7, <2>4, Phases DEF Service!Forward, Service!InFlight, Inflight
    <2>8. CASE pc[m] = "queued" /\ pc'[m] \in {"refresh", "dropped"}
      BY <2>8, <2>4, Phases DEF Service!Forward, Awaits
    <2>9. CASE pc[m] \in Awaits /\ pc'[m] \in Awaits \cup {"failed", "aborted"}
      BY <2>9, <2>4, Phases DEF Service!Forward
    <2>10. CASE pc[m] \in Awaits /\ pc'[m] = "done" /\ Given(m)
      BY <2>10, <2>3, <2>4, Phases DEF Service!Forward
    <2> QED BY <2>1, <2>5, <2>6, <2>7, <2>8, <2>9, <2>10 DEF Moved
  <1>4. \/ received' = received
        \/ \E m \in Msgs : /\ PhaseOf(m) = "running"
                           /\ m \notin Service!ToSet(received)
                           /\ received' = Append(received, m)
    <2> SUFFICES ASSUME NEW m \in Msgs, pc[m] = "post", received' = Append(received, m)
                 PROVE  PhaseOf(m) = "running" /\ m \notin Service!ToSet(received)
      BY DEF Forth
    <2>1. ~Given(m)
      BY DEF BaseInv, ReceivedPosted, Given, Unposted
    <2> QED BY <1>1, <2>1, Phases DEF Awaits
  <1>5. Service!ToSet(queue') = {m \in Msgs : PhaseOf(m)' = "waiting"}
    <2>1. queue' \in Seq(Msgs)
      BY DEF BaseInv, TypeOK
    <2>2. \A m \in Msgs : pc'[m] = "queued" <=> \E i \in 1 .. Len(queue') : queue'[i] = m
      BY DEF BaseInv, QueueIsQueued, ServiceInv, Waits
    <2> QED BY <1>1, <2>1, <2>2, Elements, Phases
  <1>6. status = "none" => status' = "none"
    BY DEF Forth
  <1> QED BY <1>2, <1>3, <1>4, <1>5, <1>6 DEF Service!Disturbed, Service!Waiting

----------------------------------------------------------------------------
(* Before that, every step is an orderly one of the service, or a stutter.  *)

(* The phases after a step that changed the phase of m only ...             *)
LEMMA OnePhase ==
    ASSUME NEW m \in Msgs, NEW v, PhaseOf(m)' = v,
           \A x \in Msgs \ {m} : pc'[x] = pc[x]
    PROVE  [x \in Msgs |-> PhaseOf(x)]' = [[x \in Msgs |-> PhaseOf(x)] EXCEPT ![m] = v]
  <1>1. \A x \in Msgs \ {m} : PhaseOf(x)' = PhaseOf(x)
    BY DEF PhaseOf
  <1> QED BY <1>1

(* ... or of none.                                                          *)
LEMMA NoPhase ==
    ASSUME \A x \in Msgs : PhaseOf(x)' = PhaseOf(x)
    PROVE  [x \in Msgs |-> PhaseOf(x)]' = [x \in Msgs |-> PhaseOf(x)]
  OBVIOUS

(* The phases when what waits is dropped.                                   *)
LEMMA DroppedPhases ==
    ASSUME BaseInv, BaseInv', NEW M \in SUBSET Msgs,
           \A x \in M : pc'[x] \in {"failed", "dropped"},
           \A x \in Msgs \ M : pc'[x] = IF pc[x] = "queued" THEN "dropped" ELSE pc[x]
    PROVE  [x \in Msgs |-> PhaseOf(x)]'
               = [x \in Msgs |-> IF x \in M \/ PhaseOf(x) = "waiting" THEN "lost"
                                 ELSE PhaseOf(x)]
  <1>1. \A x \in Msgs : pc[x] \in Pcs /\ pc'[x] \in Pcs
    BY DEF BaseInv, TypeOK
  <1>2. ASSUME NEW x \in Msgs
        PROVE  PhaseOf(x)' = IF x \in M \/ PhaseOf(x) = "waiting" THEN "lost" ELSE PhaseOf(x)
    <2>1. CASE x \in M \/ pc[x] = "queued"
      <3>1. pc'[x] \in {"failed", "dropped"}
        BY <2>1
      <3> QED BY <1>1, <2>1, <3>1, Phases
    <2>2. CASE x \notin M /\ pc[x] # "queued"
      <3>1. pc'[x] = pc[x]
        BY <2>2
      <3>2. PhaseOf(x)' = PhaseOf(x)
        BY <3>1 DEF PhaseOf
      <3> QED BY <1>1, <2>2, <3>2, Phases
    <2> QED BY <2>1, <2>2
  <1> QED BY <1>2

(* Starting and enqueueing.                                                 *)
LEMMA CalmAccept ==
    ASSUME BaseInv, BaseInv', NEW m \in Msgs, RunEvent(m)
    PROVE  Service!Start(m) \/ Service!Enqueue(m)
  <1>1. pc \in [Msgs -> Pcs] /\ pc' \in [Msgs -> Pcs] /\ pc[m] = "new" /\ UNCHANGED received
    BY DEF BaseInv, TypeOK, RunEvent, RunEventStart, RunEventEnqueue, Accept
  <1>2. PhaseOf(m) = "new"
    BY <1>1, Phases
  <1>3. CASE RunEventStart(m)
    <2>1. /\ pc' = [pc EXCEPT ![m] = "refresh"] /\ status \in {"idle", "failed"}
          /\ status' = "starting" /\ UNCHANGED queue
      BY <1>3 DEF RunEventStart, Goto
    <2>2. PhaseOf(m)' = "running" /\ \A x \in Msgs \ {m} : pc'[x] = pc[x]
      BY <1>1, <2>1, Phases DEF Awaits
    <2>3. [x \in Msgs |-> PhaseOf(x)]' = [[x \in Msgs |-> PhaseOf(x)] EXCEPT ![m] = "running"]
      BY <2>2, OnePhase
    <2> QED BY <1>1, <1>2, <2>1, <2>3 DEF Service!Start
  <1>4. CASE RunEventEnqueue(m)
    <2>1. /\ pc' = [pc EXCEPT ![m] = "queued"] /\ status \in {"starting", "running"}
          /\ queue' = Append(queue, m) /\ UNCHANGED status
      BY <1>4 DEF RunEventEnqueue, Goto, Inflight
    <2>2. PhaseOf(m)' = "waiting" /\ \A x \in Msgs \ {m} : pc'[x] = pc[x]
      BY <1>1, <2>1, Phases
    <2>3. [x \in Msgs |-> PhaseOf(x)]' = [[x \in Msgs |-> PhaseOf(x)] EXCEPT ![m] = "waiting"]
      BY <2>2, OnePhase
    <2> QED BY <1>1, <1>2, <2>1, <2>3 DEF Service!Enqueue, Service!InFlight
  <1> QED BY <1>3, <1>4 DEF RunEvent

(* A failure loses what waits.                                              *)
LEMMA CalmFailure ==
    ASSUME BaseInv, BaseInv', NEW m \in Msgs, Live(m), HandleBackgroundFailure(m)
    PROVE  Service!Fail(m)
  <1>1. /\ pc \in [Msgs -> Pcs] /\ pc' \in [Msgs -> Pcs] /\ pc[m] \in Awaits
        /\ UNCHANGED received
    BY DEF BaseInv, TypeOK, HandleBackgroundFailure, Live
  <1>2. PhaseOf(m) = "running"
    BY <1>1, Phases
  <1>3. CASE Inflight /\ ClearQueue([pc EXCEPT ![m] = "failed"]) /\ status' = "failed"
    <2>1. /\ \A x \in {m} : pc'[x] \in {"failed", "dropped"}
          /\ \A x \in Msgs \ {m} : pc'[x] = IF pc[x] = "queued" THEN "dropped" ELSE pc[x]
      BY <1>1, <1>3 DEF ClearQueue
    <2>2. [x \in Msgs |-> PhaseOf(x)]'
             = [x \in Msgs |-> IF x \in {m} \/ PhaseOf(x) = "waiting" THEN "lost"
                               ELSE PhaseOf(x)]
      BY <2>1, DroppedPhases
    <2>3. [x \in Msgs |-> PhaseOf(x)]'
             = [x \in Msgs |-> IF x = m \/ PhaseOf(x) = "waiting" THEN "lost"
                               ELSE PhaseOf(x)]
      BY <2>2
    <2> QED BY <1>1, <1>2, <1>3, <2>3 DEF Service!Fail, Service!InFlight, Inflight, ClearQueue
  <1>4. CASE ~Inflight /\ Goto(m, "failed") /\ UNCHANGED <<queue, status>>
    <2>1. PhaseOf(m)' = "lost" /\ \A x \in Msgs \ {m} : pc'[x] = pc[x]
      BY <1>1, <1>4, Phases DEF Goto
    <2>2. [x \in Msgs |-> PhaseOf(x)]' = [[x \in Msgs |-> PhaseOf(x)] EXCEPT ![m] = "lost"]
      BY <2>1, OnePhase
    <2> QED BY <1>1, <1>2, <1>4, <2>2 DEF Service!Fail, Service!InFlight, Inflight
  <1> QED BY <1>3, <1>4 DEF HandleBackgroundFailure

(* The end of a run gives its place to the oldest waiting message.          *)
LEMMA CalmSettle ==
    ASSUME BaseInv, BaseInv', ServiceInv, NEW m \in Msgs, SettleRun(m)
    PROVE  Service!Finish(m)
  <1>1. /\ pc \in [Msgs -> Pcs] /\ pc' \in [Msgs -> Pcs] /\ pc[m] = "settle"
        /\ queue \in Seq(Msgs) /\ received \in Seq(Msgs) /\ UNCHANGED received
    BY DEF BaseInv, TypeOK, SettleRun
  <1>2. PhaseOf(m) = "running" /\ m \in Service!ToSet(received)
    <2>1. Given(m)
      BY <1>1 DEF ServiceInv, Posted
    <2> QED BY <1>1, <2>1, Phases, Elements DEF Given, Awaits
  <1>3. CASE queue # <<>>
    <2>1. PICK h \in Msgs : h = Head(queue) /\ pc[h] = "queued"
      BY <1>1, <1>3 DEF BaseInv, QueueIsQueued
    <2>2. /\ queue' = Tail(queue) /\ UNCHANGED status
          /\ pc' = [pc EXCEPT ![m] = "done", ![h] = "refresh"]
      BY <1>3, <2>1 DEF SettleRun
    <2>3. /\ m # h /\ pc'[m] = "done" /\ pc'[h] = "refresh"
          /\ \A x \in Msgs \ {m, h} : pc'[x] = pc[x]
      BY <1>1, <2>1, <2>2
    <2>4. PhaseOf(m)' = "answered" /\ PhaseOf(h)' = "running"
      BY <1>1, <2>3, Phases DEF Awaits
    <2>5. \A x \in Msgs \ {m, h} : PhaseOf(x)' = PhaseOf(x)
      BY <2>3 DEF PhaseOf
    <2>6. [x \in Msgs |-> PhaseOf(x)]'
             = [[x \in Msgs |-> PhaseOf(x)] EXCEPT ![m] = "answered", ![h] = "running"]
      BY <2>3, <2>4, <2>5
    <2> QED BY <1>1, <1>2, <1>3, <2>1, <2>2, <2>6 DEF Service!Finish
  <1>4. CASE queue = <<>>
    <2>1. /\ UNCHANGED queue /\ pc' = [pc EXCEPT ![m] = "done"]
          /\ status' = IF status = "none" THEN "none" ELSE "idle"
      BY <1>4 DEF SettleRun, UpdateStatus, Goto
    <2>2. PhaseOf(m)' = "answered" /\ \A x \in Msgs \ {m} : pc'[x] = pc[x]
      BY <1>1, <2>1, Phases
    <2>3. [x \in Msgs |-> PhaseOf(x)]' = [[x \in Msgs |-> PhaseOf(x)] EXCEPT ![m] = "answered"]
      BY <2>2, OnePhase
    <2> QED BY <1>1, <1>2, <1>4, <2>1, <2>3 DEF Service!Finish
  <1> QED BY <1>3, <1>4

(* The container of the lone run is ready.                                  *)
LEMMA CalmDispatch ==
    ASSUME BaseInv, BaseInv', Alone, NEW m \in Msgs, Dispatch(m)
    PROVE  /\ UNCHANGED <<queue, received>>
           /\ [x \in Msgs |-> PhaseOf(x)]' = [x \in Msgs |-> PhaseOf(x)]
           /\ Service!MarkRunning \/ UNCHANGED status
  <1>1. /\ pc \in [Msgs -> Pcs] /\ pc' \in [Msgs -> Pcs] /\ pc[m] = "prepare"
        /\ ~cancelFlag /\ pc' = [pc EXCEPT ![m] = "post"]
        /\ status' = IF status = "none" THEN "none" ELSE "running"
        /\ UNCHANGED <<queue, received>>
    BY DEF BaseInv, TypeOK, Alone, Dispatch, UpdateStatus, Goto
  <1>2. PhaseOf(m) = "running" /\ PhaseOf(m)' = "running"
    BY <1>1, Phases DEF Awaits
  <1>3. \A x \in Msgs : PhaseOf(x)' = PhaseOf(x)
    <2>1. \A x \in Msgs \ {m} : PhaseOf(x)' = PhaseOf(x)
      BY <1>1 DEF PhaseOf
    <2> QED BY <1>2, <2>1
  <1>4. [x \in Msgs |-> PhaseOf(x)]' = [x \in Msgs |-> PhaseOf(x)]
    BY <1>3, NoPhase
  <1>5. status \in {"starting", "running", "none"}
    BY <1>1 DEF Alone, Live, Awaits, Inflight
  <1> QED BY <1>1, <1>2, <1>4, <1>5 DEF Service!MarkRunning

(* Pi is given what is being run.                                           *)
LEMMA CalmReceive ==
    ASSUME BaseInv, BaseInv', NEW m \in Msgs, PiReceive(m)
    PROVE  Service!Give(m)
  <1>1. /\ pc \in [Msgs -> Pcs] /\ pc' \in [Msgs -> Pcs] /\ pc[m] = "post"
        /\ pc' = [pc EXCEPT ![m] = "turn"] /\ received' = Append(received, m)
        /\ received \in Seq(Msgs) /\ UNCHANGED <<status, queue>>
    BY DEF BaseInv, TypeOK, PiReceive, Goto, row
  <1>2. PhaseOf(m) = "running" /\ PhaseOf(m)' = "running"
    BY <1>1, Phases DEF Awaits
  <1>3. \A x \in Msgs : PhaseOf(x)' = PhaseOf(x)
    <2>1. \A x \in Msgs \ {m} : PhaseOf(x)' = PhaseOf(x)
      BY <1>1 DEF PhaseOf
    <2> QED BY <1>2, <2>1
  <1>4. [x \in Msgs |-> PhaseOf(x)]' = [x \in Msgs |-> PhaseOf(x)]
    BY <1>3, NoPhase
  <1>5. m \notin Service!ToSet(received)
    BY <1>1, Elements DEF BaseInv, ReceivedPosted, Unposted
  <1> QED BY <1>1, <1>2, <1>4, <1>5 DEF Service!Give

(* From one await to the next: the service sees nothing.                    *)
LEMMA CalmGoesOn ==
    ASSUME BaseInv, BaseInv', NEW m \in Msgs, Live(m), GoesOn(m)
    PROVE  /\ UNCHANGED <<status, queue, received>>
           /\ [x \in Msgs |-> PhaseOf(x)]' = [x \in Msgs |-> PhaseOf(x)]
  <1>1. PICK l \in Awaits : pc' = [pc EXCEPT ![m] = l] /\ UNCHANGED <<status, queue, received>>
    BY DEF GoesOn, Goto
  <1>2. pc \in [Msgs -> Pcs] /\ pc' \in [Msgs -> Pcs] /\ pc[m] \in Awaits
    BY DEF BaseInv, TypeOK, Live
  <1>3. PhaseOf(m) = "running" /\ PhaseOf(m)' = "running"
    BY <1>1, <1>2, Phases
  <1>4. \A x \in Msgs : PhaseOf(x)' = PhaseOf(x)
    <2>1. \A x \in Msgs \ {m} : PhaseOf(x)' = PhaseOf(x)
      BY <1>1, <1>2 DEF PhaseOf
    <2> QED BY <1>3, <2>1
  <1> QED BY <1>1, <1>4, NoPhase

(* The two halves of a delete.                                              *)
LEMMA CalmDelete ==
    ASSUME BaseInv, BaseInv', DeleteStart \/ DeleteRow
    PROVE  Service!Forget \/ Service!Delete
  <1>1. pc \in [Msgs -> Pcs] /\ pc' \in [Msgs -> Pcs]
    BY DEF BaseInv, TypeOK
  <1>2. CASE DeleteStart
    <2>1. /\ \A x \in Msgs : pc'[x] = IF pc[x] = "queued" THEN "dropped" ELSE pc[x]
          /\ status # "none" /\ queue' = <<>> /\ UNCHANGED <<status, received>>
      BY <1>2 DEF DeleteStart, ClearQueue, row
    <2>2. [x \in Msgs |-> PhaseOf(x)]'
             = [x \in Msgs |-> IF x \in {} \/ PhaseOf(x) = "waiting" THEN "lost"
                               ELSE PhaseOf(x)]
      BY <2>1, DroppedPhases
    <2>3. [x \in Msgs |-> PhaseOf(x)]'
             = [x \in Msgs |-> IF PhaseOf(x) = "waiting" THEN "lost" ELSE PhaseOf(x)]
      BY <2>2
    <2> QED BY <2>1, <2>3 DEF Service!Forget
  <1>3. CASE DeleteRow
    <2>1. status' = "none" /\ UNCHANGED <<queue, pc, received>>
      BY <1>3 DEF DeleteRow
    <2>2. \A x \in Msgs : PhaseOf(x)' = PhaseOf(x)
      BY <2>1 DEF PhaseOf
    <2>3. [x \in Msgs |-> PhaseOf(x)]' = [x \in Msgs |-> PhaseOf(x)]
      BY <2>2, NoPhase
    <2> QED BY <2>1, <2>3 DEF Service!Delete
  <1> QED BY <1>2, <1>3

(* A step of the calm session.                                              *)
LEMMA CalmStep ==
    ASSUME BaseInv, BaseInv', ServiceInv, SerialInv, Calm', [Next]_vars
    PROVE  Service!Orderly \/ UNCHANGED Service!serviceVars
  <1>1. /\ cancels \in Nat /\ cancels' \in Nat
        /\ mode \in [Msgs -> {"run", "stream"}] /\ mode' \in [Msgs -> {"run", "stream"}]
    BY DEF BaseInv, TypeOK
  <1>2. Calm
    <2>1. cancels' = cancels \/ cancels' = cancels + 1
      <3>1. CASE \E m \in Msgs : TaskStep(m)
        BY <3>1, TaskFrame
      <3>2. CASE ~ \E m \in Msgs : TaskStep(m)
        BY <3>2 DEF Next, CancelReturn, OtherStep, RunEvent, RunEventStart, RunEventEnqueue,
                    StreamEvent, Accept, CancelDuringAcquire, CancelAcked, CancelAbort,
                    CancelFailed, DeleteStart, DeleteRow, PoolEvict, vars, ctl
      <3> QED BY <3>1, <3>2
    <2>2. ASSUME NEW x \in Msgs, mode'[x] # mode[x] PROVE mode[x] = "run"
      <3>1. CASE \E m \in Msgs : RunEvent(m) \/ StreamEvent(m)
        <4>1. PICK m \in Msgs : /\ pc[m] = "new"
                                /\ \/ mode' = [mode EXCEPT ![m] = "run"]
                                   \/ mode' = [mode EXCEPT ![m] = "stream"]
          BY <3>1 DEF RunEvent, RunEventStart, RunEventEnqueue, StreamEvent, Accept
        <4>2. x = m
          BY <1>1, <2>2, <4>1
        <4> QED BY <4>1, <4>2 DEF ServiceInv
      <3>2. CASE \E m \in Msgs : TaskStep(m)
        BY <2>2, <3>2, TaskFrame
      <3>3. CASE ~ \E m \in Msgs : RunEvent(m) \/ StreamEvent(m) \/ TaskStep(m)
        BY <2>2, <3>3 DEF Next, CancelReturn, OtherStep, CancelDuringAcquire, CancelAcked,
                    CancelAbort, CancelFailed, DeleteStart, DeleteRow, PoolEvict, vars, task
      <3> QED BY <3>1, <3>2, <3>3
    <2> QED BY <1>1, <2>1, <2>2 DEF Calm
  <1>3. Alone
    BY <1>2 DEF SerialInv, Calm
  <1>4. /\ ~(cancels > 0 \/ \E m \in Msgs : mode[m] = "stream")
        /\ ~(cancels' > 0 \/ \E m \in Msgs : mode'[m] = "stream")
    BY <1>2 DEF Calm
  <1>5. UNCHANGED (cancels > 0 \/ \E m \in Msgs : mode[m] = "stream")
    BY <1>4
  <1>6. ASSUME UNCHANGED <<status, queue, received>>,
               [x \in Msgs |-> PhaseOf(x)]' = [x \in Msgs |-> PhaseOf(x)]
        PROVE  UNCHANGED Service!serviceVars
    BY <1>5, <1>6 DEF Service!serviceVars
  <1>7. ASSUME NEW m \in Msgs, RunEvent(m) PROVE Service!Orderly
    BY <1>4, <1>5, <1>7, CalmAccept DEF Service!Orderly
  <1>8. ASSUME NEW m \in Msgs, StreamEvent(m) PROVE FALSE
    <2>1. mode' = [mode EXCEPT ![m] = "stream"]
      BY <1>8 DEF StreamEvent, Accept
    <2> QED BY <1>1, <2>1 DEF Calm
  <1>9. ASSUME NEW m \in Msgs, TaskStep(m)
        PROVE  Service!Orderly \/ UNCHANGED Service!serviceVars
    <2>1. Live(m) /\ mode[m] = "run"
      BY <1>2, <1>9, TaskEffect DEF Calm
    <2>2. CASE HandleBackgroundFailure(m)
      BY <1>4, <1>5, <2>1, <2>2, CalmFailure DEF Service!Orderly
    <2>3. CASE SettleRun(m)
      BY <1>4, <1>5, <2>3, CalmSettle DEF Service!Orderly
    <2>4. CASE Dispatch(m)
      BY <1>3, <1>4, <1>5, <1>6, <2>4, CalmDispatch DEF Service!Orderly
    <2>5. CASE PiReceive(m)
      BY <1>4, <1>5, <2>5, CalmReceive DEF Service!Orderly
    <2>6. CASE GoesOn(m)
      BY <1>6, <2>1, <2>6, CalmGoesOn
    <2>7. ~StreamEnds(m)
      BY <2>1 DEF StreamEnds
    <2> QED BY <1>9, <2>2, <2>3, <2>4, <2>5, <2>6, <2>7, TaskEffect
  <1>10. ~CancelDuringAcquire /\ ~CancelAbort /\ ~CancelAcked /\ ~CancelFailed
    BY <1>1, <1>2, <1>3 DEF Calm, Alone, CancelDuringAcquire, CancelAbort, CancelAcked,
                            CancelFailed
  <1>11. CASE DeleteStart \/ DeleteRow
    BY <1>4, <1>5, <1>11, CalmDelete DEF Service!Orderly
  <1>12. CASE PoolEvict \/ UNCHANGED vars
    <2>1. UNCHANGED <<status, queue, received, pc>>
      BY <1>12 DEF PoolEvict, vars, row
    <2>2. \A x \in Msgs : PhaseOf(x)' = PhaseOf(x)
      BY <2>1 DEF PhaseOf
    <2> QED BY <1>6, <2>1, <2>2, NoPhase
  <1> QED BY <1>7, <1>8, <1>9, <1>10, <1>11, <1>12 DEF Next, CancelReturn, OtherStep

----------------------------------------------------------------------------

(* The session is created in the initial state of the service.              *)
LEMMA ServiceStarts == Init => Service!Init
  <1> SUFFICES ASSUME Init PROVE Service!Init
    OBVIOUS
  <1>1. \A m \in Msgs : PhaseOf(m) = "new"
    BY DEF Init, PhaseOf
  <1>2. ~(cancels > 0 \/ \E m \in Msgs : mode[m] = "stream")
    BY DEF Init
  <1> QED BY <1>1, <1>2 DEF Init, Service!Init

(* AgentRouter keeps the promise of RunService, for any number of messages, *)
(* retries, failures, deletes, cancels and streams: the refinement that the *)
(* runs check on three messages and one cancel.                             *)
THEOREM Refinement == Spec => KeepsService
  <1> DEFINE Inv == BaseInv /\ SerialInv /\ ServiceInv
  <1>1. Init => Inv
    BY BaseInit, ServiceInit DEF Init, SerialInv, Alone, Live, Awaits
  <1>2. Inv /\ [Next]_vars => Inv'
    BY BaseStep, SerialStep, ServiceStep
  <1>3. Inv /\ Inv' /\ [Next]_vars => [Service!Next]_(Service!serviceVars)
    <2> SUFFICES ASSUME Inv, Inv', [Next]_vars PROVE [Service!Next]_(Service!serviceVars)
      OBVIOUS
    <2>1. CASE Calm'
      BY <2>1, CalmStep DEF Service!Next
    <2>2. CASE ~Calm'
      BY <2>2, Forthright, DisturbedStep DEF Service!Next
    <2> QED BY <2>1, <2>2
  <1> QED BY <1>1, <1>2, <1>3, ServiceStarts, PTL DEF Spec, KeepsService, Service!Spec
=============================================================================
