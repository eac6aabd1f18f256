----------------------- MODULE RestartRecoveryProofs -----------------------
(***************************************************************************)
(* Theorems about RestartRecovery, for any set of messages and any number   *)
(* of crashes, container deaths, refusals and cancels.                      *)
(***************************************************************************)
EXTENDS RestartRecovery, TLAPS

Store == [status : Statuses, queue : Seq(Msgs), fresh : BOOLEAN]

(* The queue holds distinct messages, all of them marked queued.            *)
QueueIsQueued ==
    /\ \A i \in 1 .. Len(db.queue) : pc[db.queue[i]] = "queued"
    /\ \A i, j \in 1 .. Len(db.queue) : db.queue[i] = db.queue[j] => i = j

(* Only a message whose POST reached Pi has been received, and only once.   *)
Early == {"new", "queued", "acquire", "post"}

ReceivedPosted ==
    /\ \A i \in 1 .. Len(received) : pc[received[i]] \notin Early
    /\ ReceivedOnce

OnceInv == TypeOK /\ QueueIsQueued /\ ReceivedPosted

----------------------------------------------------------------------------
(* What the writes make of the queue: it stays, loses its head or its       *)
(* contents, or grows by a new message.                                     *)

Shrunk(q, r) == r = q \/ r = <<>> \/ (q # <<>> /\ r = Tail(q))

Distinct(q) == \A i, j \in 1 .. Len(q) : q[i] = q[j] => i = j

(* A queue that shrinks holds some of what it held; a head that was taken   *)
(* is gone for good.                                                        *)
LEMMA ShrunkQueue ==
    ASSUME NEW q \in Seq(Msgs), NEW r, Shrunk(q, r), Distinct(q)
    PROVE  /\ r \in Seq(Msgs) /\ Distinct(r)
           /\ \A j \in 1 .. Len(r) : \E i \in 1 .. Len(q) : r[j] = q[i]
           /\ q # <<>> /\ r = Tail(q) => \A j \in 1 .. Len(r) : r[j] # Head(q)
  <1>1. CASE r = q
    <2>1. q # <<>> /\ r = Tail(q) => FALSE
      BY <1>1
    <2> QED BY <1>1, <2>1
  <1>2. CASE r = <<>>
    BY <1>2 DEF Distinct
  <1>3. CASE q # <<>> /\ r = Tail(q)
    <2>1. /\ r \in Seq(Msgs) /\ Len(q) \in Nat \ {0} /\ Len(r) = Len(q) - 1
          /\ Head(q) = q[1]
          /\ \A j \in 1 .. Len(r) : r[j] = q[j + 1] /\ j + 1 \in 1 .. Len(q)
      BY <1>3
    <2>2. Distinct(r)
      BY <2>1 DEF Distinct
    <2>3. \A j \in 1 .. Len(r) : r[j] # Head(q)
      BY <2>1 DEF Distinct
    <2> QED BY <2>1, <2>2, <2>3
  <1> QED BY <1>1, <1>2, <1>3 DEF Shrunk

(* The same for the queue of the session.                                   *)
LEMMA ShrunkDb ==
    ASSUME db.queue \in Seq(Msgs), Shrunk(db.queue, db'.queue), Distinct(db.queue)
    PROVE  /\ db'.queue \in Seq(Msgs) /\ Distinct(db'.queue)
           /\ \A j \in 1 .. Len(db'.queue) :
                \E i \in 1 .. Len(db.queue) : db'.queue[j] = db.queue[i]
           /\ db.queue # <<>> /\ db'.queue = Tail(db.queue) =>
                \A j \in 1 .. Len(db'.queue) : db'.queue[j] # Head(db.queue)
  <1> DEFINE q == db.queue
             r == db'.queue
  <1>1. q \in Seq(Msgs) /\ Shrunk(q, r) /\ Distinct(q)
    OBVIOUS
  <1> HIDE DEF q, r
  <1>2. /\ r \in Seq(Msgs) /\ Distinct(r)
        /\ \A j \in 1 .. Len(r) : \E i \in 1 .. Len(q) : r[j] = q[i]
        /\ q # <<>> /\ r = Tail(q) => \A j \in 1 .. Len(r) : r[j] # Head(q)
    BY <1>1, ShrunkQueue
  <1> QED BY <1>2 DEF q, r

(* A queue grows by a message it does not hold.                             *)
LEMMA GrownQueue ==
    ASSUME NEW q \in Seq(Msgs), Distinct(q), NEW m \in Msgs,
           \A i \in 1 .. Len(q) : q[i] # m
    PROVE  /\ Append(q, m) \in Seq(Msgs) /\ Distinct(Append(q, m))
           /\ \A j \in 1 .. Len(Append(q, m)) :
                Append(q, m)[j] = m \/ \E i \in 1 .. Len(q) : Append(q, m)[j] = q[i]
  <1> DEFINE r == Append(q, m)
  <1>1. /\ r \in Seq(Msgs) /\ Len(q) \in Nat /\ Len(r) = Len(q) + 1
        /\ r[Len(q) + 1] = m
        /\ \A j \in 1 .. Len(q) : r[j] = q[j]
    OBVIOUS
  <1>2. \A j \in 1 .. Len(r) : j \in 1 .. Len(q) \/ j = Len(q) + 1
    BY <1>1
  <1> HIDE DEF r
  <1>3. Distinct(r)
    <2> SUFFICES ASSUME NEW i \in 1 .. Len(r), NEW j \in 1 .. Len(r), r[i] = r[j]
                 PROVE  i = j
      BY DEF Distinct
    <2>1. CASE i \in 1 .. Len(q) /\ j \in 1 .. Len(q)
      BY <1>1, <2>1 DEF Distinct
    <2>2. CASE i = Len(q) + 1 /\ j = Len(q) + 1
      BY <2>2
    <2>3. CASE i \in 1 .. Len(q) /\ j = Len(q) + 1
      BY <1>1, <2>3
    <2>4. CASE i = Len(q) + 1 /\ j \in 1 .. Len(q)
      BY <1>1, <2>4
    <2> QED BY <1>2, <2>1, <2>2, <2>3, <2>4
  <1>4. \A j \in 1 .. Len(r) : r[j] = m \/ \E i \in 1 .. Len(q) : r[j] = q[i]
    BY <1>1, <1>2
  <1> QED BY <1>1, <1>3, <1>4 DEF r

(* Every statement leaves a store.                                          *)
LEMMA Statements ==
    ASSUME NEW d \in Store, NEW s \in Statuses
    PROVE  /\ SetStatus(d, s) \in Store
           /\ SetStatus(d, s).status = s /\ SetStatus(d, s).queue = d.queue
           /\ BumpTurns(d) \in Store
           /\ BumpTurns(d).status = d.status /\ BumpTurns(d).queue = d.queue
           /\ Clear(d) \in Store
           /\ Clear(d).status = d.status /\ Clear(d).queue = <<>>
           /\ d.queue # <<>> =>
                /\ Shift(d) \in Store
                /\ Shift(d).status = d.status /\ Shift(d).queue = Tail(d.queue)
  <1>1. d.queue \in Seq(Msgs) /\ d.status \in Statuses /\ d.fresh \in BOOLEAN
    BY DEF Store
  <1>2. <<>> \in Seq(Msgs)
    OBVIOUS
  <1>3. d.queue # <<>> => Tail(d.queue) \in Seq(Msgs)
    BY <1>1
  <1>4. /\ SetStatus(d, s) \in Store
        /\ SetStatus(d, s).status = s /\ SetStatus(d, s).queue = d.queue
    BY DEF SetStatus, Store
  <1>5. /\ BumpTurns(d) \in Store
        /\ BumpTurns(d).status = d.status /\ BumpTurns(d).queue = d.queue
    BY DEF BumpTurns, Store
  <1>6. /\ Clear(d) \in Store
        /\ Clear(d).status = d.status /\ Clear(d).queue = <<>>
    BY <1>2 DEF Clear, Store
  <1>8. d.queue # <<>> =>
           /\ Shift(d) \in Store
           /\ Shift(d).status = d.status /\ Shift(d).queue = Tail(d.queue)
    BY <1>3 DEF Shift, Store
  <1> QED BY <1>4, <1>5, <1>6, <1>8

LEMMA Enqueued ==
    ASSUME NEW d \in Store, NEW m \in Msgs
    PROVE  /\ Enqueue(d, m) \in Store
           /\ Enqueue(d, m).status = d.status
           /\ Enqueue(d, m).queue = Append(d.queue, m)
           /\ BumpTurns(Enqueue(d, m)) \in Store
           /\ BumpTurns(Enqueue(d, m)).status = d.status
           /\ BumpTurns(Enqueue(d, m)).queue = Append(d.queue, m)
  <1>1. d.queue \in Seq(Msgs) /\ Append(d.queue, m) \in Seq(Msgs)
    BY DEF Store
  <1>2. /\ Enqueue(d, m) \in Store
        /\ Enqueue(d, m).status = d.status
        /\ Enqueue(d, m).queue = Append(d.queue, m)
    BY <1>1 DEF Enqueue, Store
  <1> DEFINE e == Enqueue(d, m)
  <1>3. e \in Store => /\ BumpTurns(e) \in Store
                       /\ BumpTurns(e).status = e.status /\ BumpTurns(e).queue = e.queue
    <2> HIDE DEF e
    <2> QED BY DEF BumpTurns, Store
  <1> QED BY <1>2, <1>3

(* The sections that take messages from the queue or give it up: whichever  *)
(* of their writes is the last one, the queue has shrunk.                   *)
LEMMA ShrinkingWrites ==
    ASSUME db \in Store,
           NEW w \in {SettleWrites, FailureWrites, CancelWrites, OrphanWrites,
                      FinalizeWrites} \cup (IF db.queue = <<>> THEN {} ELSE {DrainWrites}),
           NEW i \in DOMAIN w
    PROVE  w[i] \in Store /\ Shrunk(db.queue, w[i].queue)
  <1> DEFINE Good(d) == d \in Store /\ Shrunk(db.queue, d.queue)
  <1>1. {"idle", "starting", "running", "failed"} = Statuses
    BY DEF Statuses
  <1>2. ASSUME NEW d \in Store, NEW s \in Statuses, Shrunk(db.queue, d.queue)
        PROVE  Good(SetStatus(d, s)) /\ Good(BumpTurns(d)) /\ Good(Clear(d))
    BY <1>2, Statements DEF Shrunk
  <1>3. ASSUME NEW d \in Store, d.queue = db.queue, db.queue # <<>>
        PROVE  Good(Shift(d))
    <2>1. Shift(d) \in Store /\ Shift(d).queue = Tail(db.queue)
      BY <1>1, <1>3, Statements
    <2> QED BY <1>3, <2>1 DEF Shrunk
  <1>4. Good(db)
    BY DEF Shrunk
  <1> DEFINE idle == SetStatus(db, "idle")
  <1>5. \A s \in Statuses : Good(SetStatus(db, s)) /\ SetStatus(db, s).queue = db.queue
    BY <1>2, <1>4, Statements
  <1>6. Good(SetStatus(idle, "starting")) /\ SetStatus(idle, "starting").queue = db.queue
    BY <1>1, <1>2, <1>5, Statements
  <1> HIDE DEF Good, idle
  <1>7. CASE w = SettleWrites
    <2>1. CASE db.queue # <<>>
      <3>1. Good(Shift(db)) /\ Good(BumpTurns(Shift(db)))
        BY <1>1, <1>2, <1>3, <2>1 DEF Good
      <3>2. w = <<Shift(db), BumpTurns(Shift(db))>>
        BY <1>7, <2>1 DEF SettleWrites
      <3> QED BY <3>1, <3>2 DEF Good
    <2>2. CASE db.queue = <<>>
      BY <1>1, <1>5, <1>7, <2>2 DEF SettleWrites, Good
    <2> QED BY <2>1, <2>2
  <1>8. Good(Clear(db)) /\ \A s \in Statuses : Good(SetStatus(Clear(db), s))
    BY <1>1, <1>2, <1>4 DEF Good
  <1>9. CASE w = FailureWrites
    BY <1>1, <1>8, <1>9 DEF FailureWrites, Good
  <1>10. CASE w = CancelWrites
    BY <1>1, <1>8, <1>10 DEF CancelWrites, Good
  <1>11. CASE w = OrphanWrites
    <2>1. Good(SetStatus(db, "failed")) /\ Good(Clear(SetStatus(db, "failed")))
      BY <1>1, <1>2, <1>5 DEF Good
    <2> QED BY <1>11, <2>1 DEF OrphanWrites, Good
  <1>12. CASE w = FinalizeWrites
    <2>1. CASE db.queue = <<>>
      <3>1. w = <<idle>>
        BY <1>12, <2>1 DEF FinalizeWrites, idle
      <3> QED BY <1>1, <1>5, <3>1 DEF Good, idle
    <2>2. CASE db.queue # <<>>
      <3>1. w = <<idle, SetStatus(idle, "starting"), Shift(SetStatus(idle, "starting"))>>
        BY <1>12, <2>2 DEF FinalizeWrites, idle
      <3>2. Good(Shift(SetStatus(idle, "starting")))
        BY <1>3, <1>6, <2>2 DEF Good
      <3>3. Good(idle)
        BY <1>1, <1>5 DEF idle
      <3> QED BY <1>6, <3>1, <3>2, <3>3 DEF Good
    <2> QED BY <2>1, <2>2
  <1>13. CASE db.queue # <<>> /\ w = DrainWrites
    <2>1. Good(SetStatus(db, "starting")) /\ Good(Shift(SetStatus(db, "starting")))
      BY <1>1, <1>3, <1>5, <1>13 DEF Good
    <2> QED BY <1>13, <2>1 DEF DrainWrites, Good
  <1> QED BY <1>7, <1>9, <1>10, <1>11, <1>12, <1>13

(* What each section has made of the session when all is written.           *)
LEMMA Commits ==
    ASSUME db \in Store
    PROVE  /\ Commit(SettleWrites) =>
                IF db.queue # <<>>
                THEN db'.status = db.status /\ db'.queue = Tail(db.queue)
                ELSE db'.status = "idle" /\ db'.queue = db.queue
           /\ Commit(FailureWrites) => db'.status = "failed" /\ db'.queue = <<>>
           /\ Commit(CancelWrites) => db'.status = "idle" /\ db'.queue = <<>>
           /\ Commit(OrphanWrites) => db'.status = "failed" /\ db'.queue = <<>>
           /\ Commit(FinalizeWrites) =>
                IF db.queue # <<>>
                THEN db'.status = "starting" /\ db'.queue = Tail(db.queue)
                ELSE db'.status = "idle" /\ db'.queue = db.queue
           /\ db.queue # <<>> /\ Commit(DrainWrites) =>
                db'.status = "starting" /\ db'.queue = Tail(db.queue)
  <1>1. {"idle", "starting", "running", "failed"} = Statuses
    BY DEF Statuses
  <1>2. ASSUME NEW d \in Store, NEW s \in Statuses
        PROVE  /\ SetStatus(d, s) \in Store
               /\ SetStatus(d, s).status = s /\ SetStatus(d, s).queue = d.queue
    BY <1>2, Statements
  <1>3. ASSUME NEW d \in Store
        PROVE  /\ BumpTurns(d).status = d.status /\ BumpTurns(d).queue = d.queue
               /\ Clear(d) \in Store
               /\ Clear(d).status = d.status /\ Clear(d).queue = <<>>
    BY <1>1, <1>3, Statements
  <1>4. ASSUME NEW d \in Store, d.queue # <<>>
        PROVE  /\ Shift(d) \in Store
               /\ Shift(d).status = d.status /\ Shift(d).queue = Tail(d.queue)
    BY <1>1, <1>4, Statements
  <1>5. Commit(SettleWrites) =>
          IF db.queue # <<>>
          THEN db'.status = db.status /\ db'.queue = Tail(db.queue)
          ELSE db'.status = "idle" /\ db'.queue = db.queue
    BY <1>1, <1>2, <1>3, <1>4 DEF Commit, SettleWrites
  <1>6. Commit(FailureWrites) => db'.status = "failed" /\ db'.queue = <<>>
    BY <1>1, <1>2, <1>3 DEF Commit, FailureWrites
  <1>7. Commit(CancelWrites) => db'.status = "idle" /\ db'.queue = <<>>
    BY <1>1, <1>2, <1>3 DEF Commit, CancelWrites
  <1>8. Commit(OrphanWrites) => db'.status = "failed" /\ db'.queue = <<>>
    BY <1>1, <1>2, <1>3 DEF Commit, OrphanWrites
  <1>9. Commit(FinalizeWrites) =>
          IF db.queue # <<>>
          THEN db'.status = "starting" /\ db'.queue = Tail(db.queue)
          ELSE db'.status = "idle" /\ db'.queue = db.queue
    BY <1>1, <1>2, <1>4 DEF Commit, FinalizeWrites
  <1>10. db.queue # <<>> /\ Commit(DrainWrites) =>
          db'.status = "starting" /\ db'.queue = Tail(db.queue)
    BY <1>1, <1>2, <1>4 DEF Commit, DrainWrites
  <1> QED BY <1>5, <1>6, <1>7, <1>8, <1>9, <1>10

----------------------------------------------------------------------------
(* The steps, as far as ReceivedOnce is concerned.                          *)

(* Whatever else happens, this much keeps the invariant.                    *)
LEMMA OnceFrame ==
    ASSUME OnceInv, TypeOK',
           \/ Shrunk(db.queue, db'.queue)
           \/ \E m \in Msgs : pc[m] = "new" /\ db'.queue = Append(db.queue, m),
           \A x \in Queued(db') : pc'[x] = "queued",
           \A x \in Msgs : pc'[x] \in Early =>
                pc[x] \in Early \/ x \in Queued(db'),
           UNCHANGED received
    PROVE  OnceInv'
  <1>1. /\ db.queue \in Seq(Msgs) /\ Distinct(db.queue)
        /\ received \in Seq(Msgs) /\ ReceivedPosted
        /\ \A i \in 1 .. Len(db.queue) : pc[db.queue[i]] = "queued"
    BY DEF OnceInv, TypeOK, QueueIsQueued, Distinct
  <1>2. /\ db'.queue \in Seq(Msgs) /\ Distinct(db'.queue)
        /\ \A x \in Queued(db') : pc[x] \in Early
    <2>1. CASE Shrunk(db.queue, db'.queue)
      <3>1. /\ db'.queue \in Seq(Msgs) /\ Distinct(db'.queue)
            /\ \A j \in 1 .. Len(db'.queue) :
                  \E i \in 1 .. Len(db.queue) : db'.queue[j] = db.queue[i]
        BY <1>1, <2>1, ShrunkDb
      <3>2. \A j \in 1 .. Len(db'.queue) : pc[db'.queue[j]] = "queued"
        BY <1>1, <3>1
      <3>3. ASSUME NEW x \in Queued(db') PROVE pc[x] = "queued"
        BY <3>2 DEF Queued
      <3> QED BY <3>1, <3>3 DEF Early
    <2>2. ASSUME NEW m \in Msgs, pc[m] = "new", db'.queue = Append(db.queue, m)
          PROVE  /\ db'.queue \in Seq(Msgs) /\ Distinct(db'.queue)
                 /\ \A x \in Queued(db') : pc[x] \in Early
      <3>1. \A i \in 1 .. Len(db.queue) : db.queue[i] # m
        BY <1>1, <2>2
      <3>2. /\ db'.queue \in Seq(Msgs) /\ Distinct(db'.queue)
            /\ \A j \in 1 .. Len(db'.queue) :
                  db'.queue[j] = m \/ \E i \in 1 .. Len(db.queue) : db'.queue[j] = db.queue[i]
        BY <1>1, <2>2, <3>1, GrownQueue
      <3>3. \A j \in 1 .. Len(db'.queue) : pc[db'.queue[j]] \in {"new", "queued"}
        BY <1>1, <2>2, <3>2
      <3>4. ASSUME NEW x \in Queued(db') PROVE pc[x] \in {"new", "queued"}
        BY <3>3 DEF Queued
      <3> QED BY <3>2, <3>4 DEF Early
    <2> QED BY <2>1, <2>2
  <1>3. QueueIsQueued'
    BY <1>2 DEF QueueIsQueued, Distinct, Queued
  <1>4. \A x \in Msgs : pc'[x] \in Early => pc[x] \in Early
    BY <1>2
  <1>5. ReceivedPosted'
    BY <1>1, <1>4 DEF ReceivedPosted, ReceivedOnce
  <1> QED BY <1>3, <1>5 DEF OnceInv

(* The session is created idle and empty.                                   *)
LEMMA OnceInit == Init => OnceInv
  <1> SUFFICES ASSUME Init PROVE OnceInv
    OBVIOUS
  <1> USE DEF Init
  <1>1. <<>> \in Seq(Msgs)
    OBVIOUS
  <1>2. db \in [status : Statuses, queue : Seq(Msgs), fresh : BOOLEAN]
    BY <1>1 DEF Statuses
  <1>3. pc \in [Msgs -> Pcs]
    BY DEF Pcs
  <1>4. spent \in [refusals : 0 .. MaxRefusals, crashes : 0 .. MaxCrashes,
                   deaths : 0 .. MaxDeaths, cancels : 0 .. MaxCancels]
    BY BoundsAssumption
  <1>5. TypeOK
    BY <1>1, <1>2, <1>3, <1>4 DEF TypeOK, Phases
  <1>6. QueueIsQueued /\ ReceivedPosted
    BY DEF QueueIsQueued, ReceivedPosted, ReceivedOnce
  <1> QED BY <1>5, <1>6 DEF OnceInv

(* What a step may rely on.                                                 *)
LEMMA OnceFacts ==
    ASSUME OnceInv
    PROVE  /\ db \in Store /\ db.queue \in Seq(Msgs) /\ Distinct(db.queue)
           /\ pc \in [Msgs -> Pcs] /\ received \in Seq(Msgs)
           /\ \A x \in Queued(db) : x \in Msgs /\ pc[x] = "queued"
           /\ db.queue # <<>> =>
                Head(db.queue) \in Queued(db) /\ Head(db.queue) \in Msgs
  <1>1. db \in Store /\ db.queue \in Seq(Msgs) /\ Distinct(db.queue)
    BY DEF OnceInv, TypeOK, QueueIsQueued, Distinct, Store
  <1>2. \A x \in Queued(db) : x \in Msgs /\ pc[x] = "queued"
    BY <1>1 DEF OnceInv, QueueIsQueued, Queued
  <1>3. ASSUME db.queue # <<>> PROVE Head(db.queue) \in Queued(db)
    <2>1. Len(db.queue) \in Nat \ {0} /\ Head(db.queue) = db.queue[1]
      BY <1>1, <1>3
    <2> QED BY <2>1 DEF Queued
  <1> QED BY <1>1, <1>2, <1>3 DEF OnceInv, TypeOK

(* What is left of a queue was in it, and its head is not left.             *)
LEMMA Remains ==
    ASSUME OnceInv, Shrunk(db.queue, db'.queue)
    PROVE  /\ db'.queue \in Seq(Msgs)
           /\ Queued(db') \subseteq Queued(db)
           /\ db.queue # <<>> /\ db'.queue = Tail(db.queue) =>
                Head(db.queue) \notin Queued(db')
  <1>1. db.queue \in Seq(Msgs) /\ Distinct(db.queue)
    BY OnceFacts
  <1>2. /\ db'.queue \in Seq(Msgs)
        /\ \A j \in 1 .. Len(db'.queue) :
              \E i \in 1 .. Len(db.queue) : db'.queue[j] = db.queue[i]
        /\ db.queue # <<>> /\ db'.queue = Tail(db.queue) =>
              \A j \in 1 .. Len(db'.queue) : db'.queue[j] # Head(db.queue)
    BY <1>1, ShrunkDb
  <1> QED BY <1>2 DEF Queued

(* A section that is carried out to its end, taking messages out.           *)
LEMMA Committed ==
    ASSUME OnceInv,
           NEW w \in {SettleWrites, FailureWrites, CancelWrites, OrphanWrites,
                      FinalizeWrites} \cup (IF db.queue = <<>> THEN {} ELSE {DrainWrites}),
           Commit(w)
    PROVE  db' \in Store /\ Shrunk(db.queue, db'.queue)
  <1>1. db \in Store
    BY OnceFacts
  <1>2. Len(w) \in DOMAIN w
    BY DEF SettleWrites, FailureWrites, CancelWrites, OrphanWrites, FinalizeWrites,
           DrainWrites
  <1> QED BY <1>1, <1>2, ShrinkingWrites DEF Commit

(* A bounded event happens once more.                                       *)
LEMMA Counted ==
    ASSUME TypeOK,
           \/ spent' = [spent EXCEPT !.refusals = @ + 1] /\ spent.refusals < MaxRefusals
           \/ spent' = [spent EXCEPT !.crashes = @ + 1] /\ spent.crashes < MaxCrashes
           \/ spent' = [spent EXCEPT !.deaths = @ + 1] /\ spent.deaths < MaxDeaths
           \/ spent' = [spent EXCEPT !.cancels = @ + 1] /\ spent.cancels < MaxCancels
    PROVE  spent' \in [refusals : 0 .. MaxRefusals, crashes : 0 .. MaxCrashes,
                       deaths : 0 .. MaxDeaths, cancels : 0 .. MaxCancels]
  <1>1. spent \in [refusals : 0 .. MaxRefusals, crashes : 0 .. MaxCrashes,
                   deaths : 0 .. MaxDeaths, cancels : 0 .. MaxCancels]
    BY DEF TypeOK
  <1>2. /\ spent.refusals < MaxRefusals => spent.refusals + 1 \in 0 .. MaxRefusals
        /\ spent.crashes < MaxCrashes => spent.crashes + 1 \in 0 .. MaxCrashes
        /\ spent.deaths < MaxDeaths => spent.deaths + 1 \in 0 .. MaxDeaths
        /\ spent.cancels < MaxCancels => spent.cancels + 1 \in 0 .. MaxCancels
    BY <1>1, BoundsAssumption
  <1> QED BY <1>1, <1>2

(* A client's message is run or enqueued.                                   *)
LEMMA OnceRunEvent ==
    ASSUME OnceInv, NEW m \in Msgs, RunEvent(m)
    PROVE  OnceInv'
  <1>1. /\ db \in Store /\ pc \in [Msgs -> Pcs] /\ pc[m] = "new" /\ TypeOK
        /\ \A x \in Queued(db) : x \in Msgs /\ pc[x] = "queued"
    BY OnceFacts DEF RunEvent, OnceInv
  <1>2. UNCHANGED <<box, working, received, boot, active, observer, event,
                    cancelFlag, aborting, spent>>
    BY DEF RunEvent, pi, ctl
  <1>3. CASE Inflight
    <2>1. db' = BumpTurns(Enqueue(db, m)) /\ pc' = [pc EXCEPT ![m] = "queued"]
      BY <1>3 DEF RunEvent, Commit, RunEventWrites
    <2>2. db' \in Store /\ db'.queue = Append(db.queue, m)
      BY <1>1, <2>1, Enqueued
    <2>3. \A x \in Queued(db') : x = m \/ x \in Queued(db)
      <3> DEFINE q == db.queue
      <3>1. q \in Seq(Msgs) /\ db'.queue = Append(q, m)
        BY <1>1, <2>2 DEF Store
      <3> HIDE DEF q
      <3>2. \A j \in 1 .. Len(Append(q, m)) :
               Append(q, m)[j] = m \/ (j \in 1 .. Len(q) /\ Append(q, m)[j] = q[j])
        BY <3>1
      <3>3. \A j \in 1 .. Len(db'.queue) :
               db'.queue[j] = m \/ (j \in 1 .. Len(q) /\ db'.queue[j] = q[j])
        BY <3>1, <3>2
      <3> QED BY <3>3 DEF Queued, q
    <2>4. TypeOK'
      BY <1>1, <1>2, <2>1, <2>2 DEF TypeOK, Store, Pcs
    <2> QED BY <1>1, <1>2, <2>1, <2>2, <2>3, <2>4, OnceFrame DEF Early
  <1>4. CASE ~Inflight
    <2>1. db' = BumpTurns(SetStatus(db, "starting")) /\ pc' = [pc EXCEPT ![m] = "acquire"]
      BY <1>4 DEF RunEvent, Commit, RunEventWrites
    <2>2. db' \in Store /\ db'.queue = db.queue
      <3>1. "starting" \in Statuses
        BY DEF Statuses
      <3> QED BY <1>1, <2>1, <3>1, Statements
    <2>3. TypeOK'
      BY <1>1, <1>2, <2>1, <2>2 DEF TypeOK, Store, Pcs, Live
    <2>4. Queued(db') = Queued(db) /\ m \notin Queued(db)
      BY <1>1, <2>2 DEF Queued
    <2> QED BY <1>1, <1>2, <2>1, <2>2, <2>3, <2>4, OnceFrame DEF Early, Shrunk
  <1> QED BY <1>3, <1>4

(* A task goes on to its POST or is stopped by a cancel.                    *)
LEMMA OnceAcquire ==
    ASSUME OnceInv, NEW m \in Msgs, ContainerStarts(m) \/ Acquired(m)
    PROVE  OnceInv'
  <1>1. /\ db \in Store /\ pc \in [Msgs -> Pcs] /\ pc[m] = "acquire" /\ TypeOK
        /\ \A x \in Queued(db) : x \in Msgs /\ pc[x] = "queued"
    BY OnceFacts DEF ContainerStarts, Acquired, OnceInv
  <1>2. /\ box' \in BOOLEAN /\ active' \in BOOLEAN /\ cancelFlag' \in BOOLEAN
        /\ UNCHANGED <<working, received, boot, observer, event, aborting, spent>>
    BY <1>1 DEF ContainerStarts, Acquired, TypeOK, pi, ctl
  <1>3. db' = db \/ db' = SetStatus(db, "running")
    BY DEF ContainerStarts, Acquired, Commit
  <1>4. db' \in Store /\ db'.queue = db.queue
    <2>1. "running" \in Statuses
      BY DEF Statuses
    <2> QED BY <1>1, <1>3, <2>1, Statements
  <1>5. pc' = pc \/ pc' = [pc EXCEPT ![m] = "gone"] \/ pc' = [pc EXCEPT ![m] = "post"]
    BY DEF ContainerStarts, Acquired
  <1>6. TypeOK'
    BY <1>1, <1>2, <1>4, <1>5 DEF TypeOK, Store, Pcs, Live
  <1>7. Queued(db') = Queued(db) /\ m \notin Queued(db)
    BY <1>1, <1>4 DEF Queued
  <1> QED BY <1>1, <1>2, <1>4, <1>5, <1>6, <1>7, OnceFrame DEF Early, Shrunk

(* A task settles: the head of the queue, if there is one, is next.         *)
LEMMA OnceSettle ==
    ASSUME OnceInv, NEW m \in Msgs, TurnSettles(m)
    PROVE  OnceInv'
  <1>1. /\ db \in Store /\ pc \in [Msgs -> Pcs] /\ pc[m] = "settle" /\ TypeOK
        /\ \A x \in Queued(db) : x \in Msgs /\ pc[x] = "queued"
        /\ db.queue # <<>> => Head(db.queue) \in Queued(db)
    BY OnceFacts DEF TurnSettles, OnceInv
  <1>2. UNCHANGED <<box, working, received, boot, active, observer, event,
                    cancelFlag, aborting, spent>>
    BY DEF TurnSettles, pi, ctl
  <1>3. Commit(SettleWrites)
    BY DEF TurnSettles
  <1>4. db' \in Store /\ Shrunk(db.queue, db'.queue)
    BY <1>3, Committed
  <1>5. /\ pc'[m] = "gone"
        /\ pc' \in [Msgs -> Pcs]
        /\ \A x \in Msgs \ {m} :
              pc'[x] = IF db.queue # <<>> /\ x = Head(db.queue) THEN "acquire" ELSE pc[x]
    BY <1>1 DEF TurnSettles, Pcs, Live
  <1>6. TypeOK'
    BY <1>1, <1>2, <1>4, <1>5 DEF TypeOK, Store
  <1>7. /\ Queued(db') \subseteq Queued(db) \ {m}
        /\ db.queue # <<>> => Head(db.queue) \notin Queued(db')
    BY <1>1, <1>3, <1>4, Remains, Commits
  <1>8. \A x \in Queued(db') : pc'[x] = "queued"
    BY <1>1, <1>5, <1>7
  <1>9. \A x \in Msgs : pc'[x] \in Early => pc[x] \in Early
    BY <1>1, <1>5 DEF Early
  <1> QED BY <1>2, <1>4, <1>6, <1>8, <1>9, OnceFrame

(* A task fails, and takes the queue and the container with it.             *)
LEMMA OnceFail ==
    ASSUME OnceInv, NEW m \in Msgs, TaskFails(m)
    PROVE  OnceInv'
  <1>1. /\ db \in Store /\ pc \in [Msgs -> Pcs] /\ pc[m] \in Live /\ TypeOK
        /\ \A x \in Queued(db) : x \in Msgs /\ pc[x] = "queued"
    BY OnceFacts DEF TaskFails, OnceInv
  <1>2. /\ box' \in BOOLEAN /\ active' \in BOOLEAN /\ cancelFlag' \in BOOLEAN
        /\ working' \subseteq Msgs
        /\ observer' \in {observer, "none"} /\ (event # "none" => observer' = observer)
        /\ UNCHANGED <<received, boot, event, aborting, spent>>
    BY <1>1 DEF TaskFails, Stopped, Deaf, pi, TypeOK
  <1>3. db' \in Store /\ Shrunk(db.queue, db'.queue)
    <2>1. CASE Inflight
      BY <2>1, Committed DEF TaskFails
    <2>2. CASE ~Inflight
      BY <1>1, <2>2 DEF TaskFails, Shrunk
    <2> QED BY <2>1, <2>2
  <1>4. m \notin Queued(db)
    BY <1>1 DEF Live
  <1>5. Queued(db') \subseteq Queued(db)
    BY <1>3, Remains
  <1>6. /\ pc' \in [Msgs -> Pcs] /\ pc'[m] = "gone"
        /\ \A x \in Msgs \ {m} :
              \/ pc'[x] = pc[x]
              \/ pc[x] = "queued" /\ x \notin Queued(db') /\ pc'[x] = "gone"
              \/ pc[x] \in {"post", "turn"} /\ pc'[x] = "broken"
    <2>1. CASE pc' = Forget(Break([pc EXCEPT ![m] = "gone"]))
      BY <1>1, <2>1 DEF Forget, Break, Pcs, Live
    <2>2. CASE pc' = [pc EXCEPT ![m] = "gone"]
      BY <1>1, <2>2 DEF Pcs
    <2> QED BY <2>1, <2>2 DEF TaskFails
  <1>7. TypeOK'
    BY <1>1, <1>2, <1>3, <1>6 DEF TypeOK, Store
  <1>8. \A x \in Queued(db') : pc'[x] = "queued"
    BY <1>1, <1>4, <1>5, <1>6
  <1>9. \A x \in Msgs : pc'[x] \in Early => pc[x] \in Early
    BY <1>1, <1>6 DEF Early
  <1> QED BY <1>2, <1>3, <1>7, <1>8, <1>9, OnceFrame

(* Cancel requests.                                                         *)
LEMMA OnceCancel ==
    ASSUME OnceInv, Cancel
    PROVE  OnceInv'
  <1>1. /\ db \in Store /\ pc \in [Msgs -> Pcs] /\ TypeOK
        /\ \A x \in Queued(db) : x \in Msgs /\ pc[x] = "queued"
    BY OnceFacts DEF OnceInv
  <1>2. /\ spent' \in [refusals : 0 .. MaxRefusals, crashes : 0 .. MaxCrashes,
                       deaths : 0 .. MaxDeaths, cancels : 0 .. MaxCancels]
        /\ cancelFlag' \in BOOLEAN /\ aborting' \in BOOLEAN
        /\ working' \subseteq Msgs
        /\ UNCHANGED <<box, received, boot, active, observer, event>>
    <2>1. CASE CancelDuringAcquire \/ CancelAborts
      <3>1. spent' = [spent EXCEPT !.cancels = @ + 1] /\ spent.cancels < MaxCancels
        BY <2>1 DEF CancelDuringAcquire, CancelAborts
      <3>2. spent' \in [refusals : 0 .. MaxRefusals, crashes : 0 .. MaxCrashes,
                       deaths : 0 .. MaxDeaths, cancels : 0 .. MaxCancels]
        BY <1>1, <3>1, Counted
      <3> QED BY <1>1, <2>1, <3>2 DEF CancelDuringAcquire, CancelAborts, TypeOK, pi
    <2>2. CASE CancelAcked \/ CancelRejected
      BY <1>1, <2>2 DEF CancelAcked, CancelRejected, TypeOK, pi
    <2> QED BY <2>1, <2>2 DEF Cancel
  <1>3. db' \in Store /\ Shrunk(db.queue, db'.queue)
    <2>1. CASE CancelDuringAcquire \/ CancelAcked
      BY <2>1, Committed DEF CancelDuringAcquire, CancelAcked
    <2>2. CASE CancelAborts \/ CancelRejected
      BY <1>1, <2>2 DEF CancelAborts, CancelRejected, Shrunk
    <2> QED BY <2>1, <2>2 DEF Cancel
  <1>4. /\ pc' \in [Msgs -> Pcs]
        /\ \A x \in Msgs :
              \/ pc'[x] = pc[x]
              \/ pc[x] = "queued" /\ x \notin Queued(db') /\ pc'[x] = "gone"
              \/ pc[x] = "turn" /\ pc'[x] = "settle"
    BY <1>1 DEF Cancel, CancelDuringAcquire, CancelAborts, CancelAcked, CancelRejected,
                Forget, Pcs, Live
  <1>5. TypeOK'
    BY <1>1, <1>2, <1>3, <1>4 DEF TypeOK, Store
  <1>6. \A x \in Queued(db') : x \in Msgs /\ pc'[x] = "queued"
    BY <1>1, <1>3, <1>4, Remains
  <1>7. \A x \in Msgs : pc'[x] \in Early => pc[x] \in Early
    BY <1>4 DEF Early
  <1> QED BY <1>2, <1>3, <1>5, <1>6, <1>7, OnceFrame

(* Pi receives a message for the first time.                                *)
LEMMA OnceReceive ==
    ASSUME OnceInv, NEW m \in Msgs, PiReceives(m)
    PROVE  OnceInv'
  <1>1. /\ pc \in [Msgs -> Pcs] /\ pc[m] = "post" /\ TypeOK
        /\ received \in Seq(Msgs) /\ ReceivedPosted /\ QueueIsQueued
        /\ db.queue \in Seq(Msgs)
    BY OnceFacts DEF PiReceives, OnceInv
  <1>2. /\ pc' = [pc EXCEPT ![m] = "turn"] /\ working' = working \cup {m}
        /\ received' = Append(received, m)
        /\ UNCHANGED <<db, box, boot, active, observer, event, cancelFlag, aborting, spent>>
    BY DEF PiReceives, ctl
  <1>3. TypeOK'
    BY <1>1, <1>2 DEF TypeOK, Pcs, Live
  <1>4. QueueIsQueued'
    BY <1>1, <1>2 DEF QueueIsQueued
  <1>5. \A i \in 1 .. Len(received) : received[i] # m
    BY <1>1 DEF ReceivedPosted, Early
  <1>6. ReceivedPosted'
    BY <1>1, <1>2, <1>5 DEF ReceivedPosted, ReceivedOnce, Early
  <1> QED BY <1>3, <1>4, <1>6 DEF OnceInv

(* The other steps of the container.                                        *)
LEMMA OncePi ==
    ASSUME OnceInv,
           \/ \E m \in Msgs : PiFinishes(m) \/ PiErrors(m)
           \/ PiUsesTool \/ ContainerDies
    PROVE  OnceInv'
  <1>1. /\ db \in Store /\ pc \in [Msgs -> Pcs] /\ TypeOK
        /\ \A x \in Queued(db) : x \in Msgs /\ pc[x] = "queued"
    BY OnceFacts DEF OnceInv
  <1>2. db' = db \/ db' = [db EXCEPT !.fresh = TRUE]
    BY DEF PiFinishes, PiErrors, PiUsesTool, ContainerDies
  <1>3. db' \in Store /\ db'.queue = db.queue
    <2>1. [db EXCEPT !.fresh = TRUE] \in Store
      BY <1>1 DEF Store
    <2>2. [db EXCEPT !.fresh = TRUE].queue = db.queue
      BY <1>1 DEF Store
    <2> QED BY <1>1, <1>2, <2>1, <2>2
  <1>4. /\ pc' \in [Msgs -> Pcs]
        /\ \A x \in Msgs :
              \/ pc'[x] = pc[x]
              \/ pc[x] \in {"post", "turn"} /\ pc'[x] \in {"settle", "broken"}
    BY <1>1 DEF PiFinishes, PiErrors, PiEnds, PiUsesTool, ContainerDies, Break, Pcs, Live
  <1>5. spent' \in [refusals : 0 .. MaxRefusals, crashes : 0 .. MaxCrashes,
                    deaths : 0 .. MaxDeaths, cancels : 0 .. MaxCancels]
    <2>1. CASE ContainerDies
      <3>1. spent' = [spent EXCEPT !.deaths = @ + 1] /\ spent.deaths < MaxDeaths
        BY <2>1 DEF ContainerDies
      <3> QED BY <1>1, <3>1, Counted
    <2>2. CASE ~ContainerDies
      BY <1>1, <2>2 DEF PiFinishes, PiErrors, PiEnds, PiUsesTool, ctl, TypeOK
    <2> QED BY <2>1, <2>2
  <1>6. /\ box' \in BOOLEAN /\ working' \subseteq Msgs
        /\ observer' \in {observer, "none"} /\ (event' # "none" => observer' = "watching")
        /\ event' \in {"none", "final", "error"}
        /\ UNCHANGED <<received, boot, active, cancelFlag, aborting>>
    BY <1>1 DEF PiFinishes, PiErrors, PiEnds, PiUsesTool, ContainerDies, Stopped, Deaf,
                pi, ctl, TypeOK
  <1>7. TypeOK'
    BY <1>1, <1>3, <1>4, <1>5, <1>6 DEF TypeOK, Store
  <1>8. Queued(db') = Queued(db)
    BY <1>3 DEF Queued
  <1> QED BY <1>1, <1>3, <1>4, <1>6, <1>7, <1>8, OnceFrame DEF Early, Shrunk

(* The store a crash leaves: the old one, or that of some write.            *)
LEMMA Torn ==
    ASSUME OnceInv, Crash
    PROVE  /\ db' \in Store
           /\ \/ Shrunk(db.queue, db'.queue)
              \/ \E m \in Msgs : pc[m] = "new" /\ db'.queue = Append(db.queue, m)
  <1>1. db \in Store
    BY OnceFacts
  <1>2. CASE db' = db
    BY <1>1, <1>2 DEF Shrunk
  <1>3. ASSUME NEW writes \in Sections, NEW i \in DOMAIN writes, db' = writes[i]
        PROVE  /\ db' \in Store
               /\ \/ Shrunk(db.queue, db'.queue)
                  \/ \E m \in Msgs : pc[m] = "new" /\ db'.queue = Append(db.queue, m)
    <2>1. \/ \E m \in Msgs : pc[m] = "new" /\ writes = RunEventWrites(m)
          \/ writes \in {SettleWrites, FailureWrites, CancelWrites, OrphanWrites,
                         FinalizeWrites}
          \/ db.queue # <<>> /\ writes = DrainWrites
      BY DEF Sections, When
    <2>2. CASE \/ writes \in {SettleWrites, FailureWrites, CancelWrites, OrphanWrites,
                              FinalizeWrites}
               \/ db.queue # <<>> /\ writes = DrainWrites
      <3>1. writes \in {SettleWrites, FailureWrites, CancelWrites, OrphanWrites,
                        FinalizeWrites} \cup (IF db.queue = <<>> THEN {} ELSE {DrainWrites})
        BY <2>2
      <3>2. writes[i] \in Store /\ Shrunk(db.queue, writes[i].queue)
        BY <1>1, <3>1, ShrinkingWrites
      <3> QED BY <1>3, <3>2
    <2>3. ASSUME NEW m \in Msgs, pc[m] = "new", writes = RunEventWrites(m)
          PROVE  /\ db' \in Store
                 /\ Shrunk(db.queue, db'.queue) \/ db'.queue = Append(db.queue, m)
      <3>1. CASE Inflight
        <4>1. i \in {1, 2} /\ writes = <<Enqueue(db, m), BumpTurns(Enqueue(db, m))>>
          BY <2>3, <3>1 DEF RunEventWrites
        <4>2. db' = Enqueue(db, m) \/ db' = BumpTurns(Enqueue(db, m))
          BY <1>3, <4>1
        <4> QED BY <1>1, <4>2, Enqueued
      <3>2. CASE ~Inflight
        <4>1. db' = BumpTurns(SetStatus(db, "starting"))
          BY <1>3, <2>3, <3>2 DEF RunEventWrites
        <4>2. "starting" \in Statuses
          BY DEF Statuses
        <4> QED BY <1>1, <4>1, <4>2, Statements DEF Shrunk
      <3> QED BY <3>1, <3>2
    <2> QED BY <2>1, <2>2, <2>3
  <1> QED BY <1>2, <1>3 DEF Crash

(* The process dies.                                                        *)
LEMMA OnceCrash ==
    ASSUME OnceInv, Crash
    PROVE  OnceInv'
  <1>1. TypeOK /\ pc \in [Msgs -> Pcs]
    BY OnceFacts DEF OnceInv
  <1>2. /\ db' \in Store
        /\ \/ Shrunk(db.queue, db'.queue)
           \/ \E m \in Msgs : pc[m] = "new" /\ db'.queue = Append(db.queue, m)
    BY Torn
  <1>3. /\ pc' = [m \in Msgs |-> IF m \in Queued(db') THEN "queued"
                                 ELSE IF pc[m] = "new" THEN "new" ELSE "gone"]
        /\ UNCHANGED <<box, working, received>>
        /\ boot' = "down" /\ active' = FALSE /\ observer' = "none" /\ event' = "none"
        /\ cancelFlag' = FALSE /\ aborting' = FALSE
    BY DEF Crash, pi
  <1>4. spent' \in [refusals : 0 .. MaxRefusals, crashes : 0 .. MaxCrashes,
                    deaths : 0 .. MaxDeaths, cancels : 0 .. MaxCancels]
    <2>1. spent' = [spent EXCEPT !.crashes = @ + 1] /\ spent.crashes < MaxCrashes
      BY DEF Crash
    <2> QED BY <1>1, <2>1, Counted
  <1>5. pc' \in [Msgs -> Pcs]
    BY <1>3 DEF Pcs
  <1>6. TypeOK'
    BY <1>1, <1>2, <1>3, <1>4, <1>5 DEF TypeOK, Store, Phases
  <1>7. \A x \in Queued(db') : x \in Msgs
    <2>1. db'.queue \in Seq(Msgs)
      BY <1>2 DEF Store
    <2> DEFINE q == db'.queue
    <2>2. \A j \in 1 .. Len(q) : q[j] \in Msgs
      <3>1. q \in Seq(Msgs)
        BY <2>1
      <3> HIDE DEF q
      <3> QED BY <3>1
    <2> QED BY <2>2 DEF Queued
  <1>8. \A x \in Queued(db') : pc'[x] = "queued"
    BY <1>3, <1>7
  <1>9. \A x \in Msgs : pc'[x] \in Early => pc[x] \in Early \/ x \in Queued(db')
    BY <1>3 DEF Early
  <1> QED BY <1>2, <1>3, <1>6, <1>8, <1>9, OnceFrame

(* Before the drain of the startup pass nobody observes.                    *)
Unobserved == boot \in {"down", "adopt", "recover", "observe"} => observer = "none"

(* An observer comes with the drain, and goes with the process.             *)
LEMMA UnobservedStep ==
    ASSUME Unobserved, [Next]_vars
    PROVE  Unobserved'
  <1> USE DEF Unobserved
  <1>1. CASE UNCHANGED vars
    BY <1>1 DEF vars
  <1>2. CASE \E m \in Msgs : RunEvent(m) \/ Task(m) \/ Pi(m)
    BY <1>2 DEF RunEvent, Task, ContainerStarts, Acquired, TurnSettles, TaskFails, Deaf,
                Pi, PiReceives, PiFinishes, PiErrors, PiEnds
  <1>3. CASE Cancel \/ PiUsesTool \/ ContainerDies
    BY <1>3 DEF Cancel, CancelDuringAcquire, CancelAborts, CancelAcked, CancelRejected,
                PiUsesTool, ContainerDies, Deaf
  <1>4. CASE Crash
    BY <1>4 DEF Crash
  <1>5. CASE Startup
    BY <1>5 DEF Startup, Restart, Adopt, FailOrphan, ObserveAdopted, DrainQueue
  <1>6. CASE Observer
    BY <1>6 DEF Observer, ObserverEvent, ObserverSettles, ObserverFails
  <1> QED BY <1>1, <1>2, <1>3, <1>4, <1>5, <1>6 DEF Next

(* The startup pass up to the drain, which runs no message.                 *)
LEMMA OnceStartup ==
    ASSUME OnceInv, Unobserved, Restart \/ Adopt \/ FailOrphan \/ ObserveAdopted
    PROVE  OnceInv'
  <1>1. /\ db \in Store /\ pc \in [Msgs -> Pcs] /\ TypeOK
        /\ \A x \in Queued(db) : x \in Msgs /\ pc[x] = "queued"
    BY OnceFacts DEF OnceInv
  <1>2. /\ boot' \in Phases /\ active' \in BOOLEAN /\ box' \in BOOLEAN
        /\ working' \subseteq Msgs
        /\ observer' \in {"none", "watching", "settling"}
        /\ event' = "none"
        /\ UNCHANGED <<received, cancelFlag, aborting, spent>>
    BY <1>1 DEF Restart, Adopt, FailOrphan, ObserveAdopted, Stopped, pi, ctl, Phases,
                TypeOK, Unobserved
  <1>3. db' \in Store /\ Shrunk(db.queue, db'.queue)
    <2>1. CASE FailOrphan /\ Inflight /\ ~active
      BY <2>1, Committed DEF FailOrphan
    <2>2. CASE ~(FailOrphan /\ Inflight /\ ~active)
      <3>1. db' = db
        BY <2>2 DEF Restart, Adopt, FailOrphan, ObserveAdopted
      <3> QED BY <1>1, <3>1 DEF Shrunk
    <2> QED BY <2>1, <2>2
  <1>4. /\ pc' \in [Msgs -> Pcs]
        /\ \A x \in Msgs :
              \/ pc'[x] = pc[x]
              \/ pc[x] = "queued" /\ x \notin Queued(db') /\ pc'[x] = "gone"
    BY <1>1 DEF Restart, Adopt, FailOrphan, ObserveAdopted, Forget, Pcs
  <1>5. TypeOK'
    BY <1>1, <1>2, <1>3, <1>4 DEF TypeOK, Store
  <1>6. \A x \in Queued(db') : x \in Msgs /\ pc'[x] = "queued"
    BY <1>1, <1>3, <1>4, Remains
  <1>7. \A x \in Msgs : pc'[x] \in Early => pc[x] \in Early
    BY <1>4 DEF Early
  <1> QED BY <1>2, <1>3, <1>5, <1>6, <1>7, OnceFrame

(* The startup drain, and the observer that has read the outcome of an      *)
(* adopted turn: both run the head of the queue, unless it is refused.      *)
LEMMA OnceDrain ==
    ASSUME OnceInv, DrainQueue \/ ObserverSettles
    PROVE  OnceInv'
  <1>1. /\ db \in Store /\ pc \in [Msgs -> Pcs] /\ TypeOK
        /\ \A x \in Queued(db) : x \in Msgs /\ pc[x] = "queued"
        /\ db.queue # <<>> => Head(db.queue) \in Queued(db)
    BY OnceFacts DEF OnceInv
  <1>2. /\ boot' \in Phases /\ observer' \in {observer, "none"}
        /\ event' # "none" => observer' = "watching"
        /\ UNCHANGED <<box, working, received, active, event, cancelFlag, aborting>>
    BY <1>1 DEF DrainQueue, ObserverSettles, pi, Phases, TypeOK
  <1>3. spent' \in [refusals : 0 .. MaxRefusals, crashes : 0 .. MaxCrashes,
                    deaths : 0 .. MaxDeaths, cancels : 0 .. MaxCancels]
    <2>1. CASE Refuse
      BY <1>1, <2>1, Counted DEF Refuse
    <2>2. CASE ~Refuse
      <3>1. UNCHANGED spent
        BY <2>2 DEF DrainQueue, ObserverSettles
      <3> QED BY <1>1, <3>1 DEF TypeOK
    <2> QED BY <2>1, <2>2
  <1>4. \/ /\ db.queue # <<>>
           /\ Commit(DrainWrites) \/ Commit(FinalizeWrites)
           /\ pc' = [pc EXCEPT ![Head(db.queue)] = "acquire"]
        \/ /\ db.queue = <<>> /\ Commit(FinalizeWrites)
           /\ pc' = pc
        \/ /\ db' = db \/ Commit(<<SetStatus(db, "idle")>>)
           /\ pc' = pc
    BY DEF DrainQueue, ObserverSettles, Refuse
  <1>5. CASE db.queue # <<>> /\ (Commit(DrainWrites) \/ Commit(FinalizeWrites))
             /\ pc' = [pc EXCEPT ![Head(db.queue)] = "acquire"]
    <2>1. db' \in Store /\ db'.queue = Tail(db.queue)
      BY <1>1, <1>5, Committed, Commits
    <2>2. /\ Shrunk(db.queue, db'.queue)
          /\ Queued(db') \subseteq Queued(db) \ {Head(db.queue)}
      BY <1>5, <2>1, Remains DEF Shrunk
    <2>3. pc' \in [Msgs -> Pcs]
      BY <1>1, <1>5 DEF Pcs, Live
    <2>4. TypeOK'
      BY <1>1, <1>2, <1>3, <2>1, <2>3 DEF TypeOK, Store
    <2>5. \A x \in Queued(db') : pc'[x] = "queued"
      BY <1>1, <1>5, <2>2
    <2>6. \A x \in Msgs : pc'[x] \in Early => pc[x] \in Early
      BY <1>1, <1>5 DEF Early
    <2> QED BY <1>2, <2>2, <2>4, <2>5, <2>6, OnceFrame
  <1>6. CASE pc' = pc /\ db' \in Store /\ db'.queue = db.queue
    <2>1. TypeOK'
      BY <1>1, <1>2, <1>3, <1>6 DEF TypeOK, Store
    <2>2. Queued(db') = Queued(db)
      BY <1>6 DEF Queued
    <2> QED BY <1>1, <1>2, <1>6, <2>1, <2>2, OnceFrame DEF Shrunk
  <1>7. ASSUME db' = db \/ Commit(<<SetStatus(db, "idle")>>)
        PROVE  db' \in Store /\ db'.queue = db.queue
    <2>1. "idle" \in Statuses
      BY DEF Statuses
    <2>2. db' = db \/ db' = SetStatus(db, "idle")
      BY <1>7 DEF Commit
    <2> QED BY <1>1, <2>1, <2>2, Statements
  <1>8. ASSUME db.queue = <<>>, Commit(FinalizeWrites)
        PROVE  db' \in Store /\ db'.queue = db.queue
    BY <1>1, <1>8, Committed, Commits
  <1> QED BY <1>4, <1>5, <1>6, <1>7, <1>8

(* The observer is told of the end of its turn, or has evicted it.          *)
LEMMA OnceObserver ==
    ASSUME OnceInv, ObserverEvent \/ ObserverFails
    PROVE  OnceInv'
  <1>1. /\ db \in Store /\ pc \in [Msgs -> Pcs] /\ TypeOK
        /\ \A x \in Queued(db) : x \in Msgs /\ pc[x] = "queued"
    BY OnceFacts DEF OnceInv
  <1>2. /\ active' \in BOOLEAN /\ box' \in BOOLEAN
        /\ working' \subseteq Msgs
        /\ observer' \in {"none", "settling", "evicting"}
        /\ event' = "none"
        /\ UNCHANGED <<received, boot, cancelFlag, aborting, spent>>
    BY <1>1 DEF ObserverEvent, ObserverFails, Stopped, pi, ctl, TypeOK
  <1>3. db' \in Store /\ Shrunk(db.queue, db'.queue)
    <2>1. "failed" \in Statuses
      BY DEF Statuses
    <2>2. db' = db \/ db' = Clear(db) \/ db' = SetStatus(db, "failed")
      BY DEF ObserverEvent, ObserverFails, Commit
    <2> QED BY <1>1, <2>1, <2>2, Statements DEF Shrunk
  <1>4. /\ pc' \in [Msgs -> Pcs]
        /\ \A x \in Msgs :
              \/ pc'[x] = pc[x]
              \/ pc[x] = "queued" /\ x \notin Queued(db') /\ pc'[x] = "gone"
              \/ pc[x] \in {"post", "turn"} /\ pc'[x] = "broken"
    <2>1. pc' = pc \/ pc' = Forget(Break(pc))
      BY DEF ObserverEvent, ObserverFails
    <2> QED BY <1>1, <2>1 DEF Forget, Break, Pcs, Live
  <1>5. TypeOK'
    BY <1>1, <1>2, <1>3, <1>4 DEF TypeOK, Store
  <1>6. \A x \in Queued(db') : x \in Msgs /\ pc'[x] = "queued"
    BY <1>1, <1>3, <1>4, Remains
  <1>7. \A x \in Msgs : pc'[x] \in Early => pc[x] \in Early
    BY <1>4 DEF Early
  <1> QED BY <1>2, <1>3, <1>5, <1>6, <1>7, OnceFrame

(* A step that changes nothing.                                             *)
LEMMA OnceStutter ==
    ASSUME OnceInv, UNCHANGED vars
    PROVE  OnceInv'
  BY DEF vars, pi, ctl, OnceInv, TypeOK, QueueIsQueued, ReceivedPosted, ReceivedOnce

----------------------------------------------------------------------------

(* Every step keeps what makes deliveries unique.                           *)
LEMMA OnceStep ==
    ASSUME OnceInv, Unobserved, [Next]_vars
    PROVE  OnceInv'
  <1>1. CASE UNCHANGED vars
    BY <1>1, OnceStutter
  <1>2. CASE \E m \in Msgs : RunEvent(m) \/ Task(m) \/ Pi(m)
    <2> SUFFICES ASSUME NEW m \in Msgs, RunEvent(m) \/ Task(m) \/ Pi(m)
                 PROVE  OnceInv'
      BY <1>2
    <2>1. CASE RunEvent(m)
      BY <2>1, OnceRunEvent
    <2>2. CASE Task(m)
      <3>1. CASE ContainerStarts(m) \/ Acquired(m)
        BY <3>1, OnceAcquire
      <3>2. CASE TurnSettles(m)
        BY <3>2, OnceSettle
      <3>3. CASE TaskFails(m)
        BY <3>3, OnceFail
      <3> QED BY <2>2, <3>1, <3>2, <3>3 DEF Task
    <2>3. CASE Pi(m)
      <3>1. CASE PiReceives(m)
        BY <3>1, OnceReceive
      <3>2. CASE PiFinishes(m) \/ PiErrors(m)
        BY <3>2, OncePi
      <3> QED BY <2>3, <3>1, <3>2 DEF Pi
    <2> QED BY <2>1, <2>2, <2>3
  <1>3. CASE Cancel
    BY <1>3, OnceCancel
  <1>4. CASE PiUsesTool \/ ContainerDies
    BY <1>4, OncePi
  <1>5. CASE Crash
    BY <1>5, OnceCrash
  <1>6. CASE Startup
    BY <1>6, OnceStartup, OnceDrain DEF Startup
  <1>7. CASE Observer
    BY <1>7, OnceObserver, OnceDrain DEF Observer
  <1> QED BY <1>1, <1>2, <1>3, <1>4, <1>5, <1>6, <1>7 DEF Next

(* Hence it holds of every reachable state.                                 *)
LEMMA Once == Spec => [](OnceInv /\ Unobserved)
  <1>1. Init => OnceInv /\ Unobserved
    BY OnceInit DEF Init, Unobserved
  <1>2. OnceInv /\ Unobserved /\ [Next]_vars => (OnceInv /\ Unobserved)'
    BY OnceStep, UnobservedStep
  <1> QED BY <1>1, <1>2, PTL DEF Spec

(* Every reachable state is well typed, those a crash between two writes    *)
(* leaves behind included: no queue is ever shifted empty, and a terminal   *)
(* event is only ever on its way to an observer that watches.  And Pi never *)
(* receives the same message twice, for any number of messages, crashes,    *)
(* container deaths, refusals and cancels: neither the startup drain nor    *)
(* finalizeFromJsonl runs a message another task has posted.                *)
THEOREM NeverTwice == Spec => []DeliveryInv
  <1>1. OnceInv => DeliveryInv
    BY DEF OnceInv, ReceivedPosted, DeliveryInv
  <1> QED BY <1>1, Once, PTL

----------------------------------------------------------------------------
(* Who finalises the session.  As long as nothing is cancelled, there is at *)
(* most one task, none beside an observer, none for a session that is not   *)
(* in flight, and none before the drain of the startup pass.                *)

Quiet ==
    /\ ~cancelFlag /\ ~aborting
    /\ \A m, n \in Tasks : m = n
    /\ observer # "none" => Tasks = {}
    /\ ~Inflight => Tasks = {} /\ observer = "none"
    /\ boot \notin {"drain", "up"} => Tasks = {}

OneInv == spent.cancels = 0 => Quiet

(* A step that adds no task and no observer, and leaves the session in      *)
(* flight if it leaves it a task or an observer.                            *)
LEMMA QuietFrame ==
    ASSUME Quiet, Tasks' \subseteq Tasks,
           ~cancelFlag', ~aborting',
           observer' # "none" => observer # "none" \/ Tasks' = {},
           ~Inflight' => Tasks' = {} /\ observer' = "none",
           boot' = boot \/ Tasks' = {} \/ boot' \in {"drain", "up"}
    PROVE  Quiet'
  BY DEF Quiet

(* The head of the queue is run on a session without a task.                *)
LEMMA QuietRun ==
    ASSUME Quiet, NEW m \in Msgs, Tasks = {}, pc' = [pc EXCEPT ![m] = "acquire"],
           pc \in [Msgs -> Pcs],
           observer' = "none", boot' \in {"drain", "up"}, db'.status = "starting",
           ~cancelFlag', ~aborting'
    PROVE  Quiet'
  <1>1. Tasks' \subseteq {m}
    BY DEF Tasks
  <1>2. Inflight'
    BY DEF Inflight
  <1> QED BY <1>1, <1>2 DEF Quiet

(* A message is enqueued behind a run, or starts the only one.              *)
LEMMA QuietRunEvent ==
    ASSUME OnceInv, Unobserved, Quiet, NEW m \in Msgs, RunEvent(m)
    PROVE  Quiet'
  <1>1. db \in Store /\ pc \in [Msgs -> Pcs] /\ boot = "up" /\ pc[m] = "new"
    BY OnceFacts DEF RunEvent
  <1>2. boot' = "up" /\ UNCHANGED <<observer, cancelFlag, aborting>>
    BY DEF RunEvent, ctl
  <1>3. CASE Inflight
    <2>1. db' = BumpTurns(Enqueue(db, m)) /\ pc' = [pc EXCEPT ![m] = "queued"]
      BY <1>3 DEF RunEvent, Commit, RunEventWrites
    <2>2. Tasks' \subseteq Tasks
      <3>1. \A x \in Msgs : pc'[x] \in Live => pc[x] \in Live
        BY <1>1, <2>1 DEF Live
      <3> QED BY <3>1 DEF Tasks
    <2>3. db'.status = db.status
      BY <1>1, <2>1, Enqueued
    <2>4. Inflight'
      BY <1>3, <2>3 DEF Inflight
    <2> QED BY <1>1, <1>2, <2>2, <2>4, QuietFrame DEF Quiet
  <1>4. CASE ~Inflight
    <2>1. db' = BumpTurns(SetStatus(db, "starting")) /\ pc' = [pc EXCEPT ![m] = "acquire"]
      BY <1>4 DEF RunEvent, Commit, RunEventWrites
    <2>2. db'.status = "starting"
      <3>1. "starting" \in Statuses
        BY DEF Statuses
      <3>2. /\ SetStatus(db, "starting") \in Store
            /\ SetStatus(db, "starting").status = "starting"
        BY <1>1, <3>1, Statements
      <3>3. \A d \in Store : BumpTurns(d).status = d.status
        BY <3>1, Statements
      <3> QED BY <2>1, <3>2, <3>3
    <2> QED BY <1>1, <1>2, <1>4, <2>1, <2>2, QuietRun DEF Quiet
  <1> QED BY <1>3, <1>4

(* A task is the only one, and hands over to at most one successor.         *)
LEMMA QuietTask ==
    ASSUME OnceInv, Unobserved, Quiet, NEW m \in Msgs, Task(m)
    PROVE  Quiet'
  <1>1. /\ db \in Store /\ pc \in [Msgs -> Pcs] /\ pc[m] \in Live
        /\ \A x \in Queued(db) : x \in Msgs /\ pc[x] = "queued"
        /\ db.queue # <<>> => Head(db.queue) \in Queued(db)
    BY OnceFacts DEF Task, ContainerStarts, Acquired, TurnSettles, TaskFails, Live
  <1>2. /\ Tasks = {m} /\ Inflight /\ observer = "none" /\ boot \in {"drain", "up"}
    BY <1>1 DEF Quiet, Tasks
  <1>3. CASE ContainerStarts(m)
    <2>1. UNCHANGED <<db, pc, observer, boot, cancelFlag, aborting>>
      BY <1>3 DEF ContainerStarts, ctl
    <2> QED BY <2>1 DEF Quiet, Tasks, Inflight
  <1>4. CASE Acquired(m)
    <2>1. /\ pc' = [pc EXCEPT ![m] = "post"] /\ db' = SetStatus(db, "running")
          /\ UNCHANGED <<observer, boot, aborting>> /\ cancelFlag' = FALSE
      BY <1>4 DEF Acquired, Commit, Quiet
    <2>2. Inflight'
      <3>1. "running" \in Statuses
        BY DEF Statuses
      <3> QED BY <1>1, <2>1, <3>1, Statements DEF Inflight
    <2>3. Tasks' \subseteq Tasks
      BY <1>1, <2>1 DEF Tasks
    <2> QED BY <2>1, <2>2, <2>3, QuietFrame DEF Quiet
  <1>5. CASE TurnSettles(m)
    <2>1. /\ UNCHANGED <<observer, boot, cancelFlag, aborting>>
          /\ Commit(SettleWrites)
          /\ pc' = [x \in Msgs |->
                      IF x = m THEN "gone"
                      ELSE IF db.queue # <<>> /\ x = Head(db.queue) THEN "acquire"
                      ELSE pc[x]]
      BY <1>5 DEF TurnSettles, ctl
    <2>2. CASE db.queue # <<>>
      <3>1. db'.status = db.status
        BY <1>1, <2>1, <2>2, Commits
      <3>2. Inflight'
        BY <1>2, <3>1 DEF Inflight
      <3>3. \A x \in Msgs : pc'[x] \in Live => x = Head(db.queue)
        <4> SUFFICES ASSUME NEW x \in Msgs, pc'[x] \in Live PROVE x = Head(db.queue)
          OBVIOUS
        <4>1. x # m
          BY <2>1 DEF Live
        <4>2. x # Head(db.queue) => pc[x] \in Live
          BY <2>1, <4>1
        <4> QED BY <1>2, <4>1, <4>2 DEF Tasks
      <3>4. \A x, y \in Tasks' : x = y
        BY <3>3 DEF Tasks
      <3> QED BY <1>2, <2>1, <3>2, <3>4 DEF Quiet
    <2>3. CASE db.queue = <<>>
      <3>1. \A x \in Msgs : pc'[x] \in Live => x # m /\ pc[x] \in Live
        BY <2>1, <2>3 DEF Live
      <3>2. Tasks' = {}
        BY <1>2, <3>1 DEF Tasks
      <3> QED BY <1>2, <2>1, <3>2 DEF Quiet
    <2> QED BY <2>2, <2>3
  <1>6. CASE TaskFails(m)
    <2>1. /\ UNCHANGED <<boot, aborting>> /\ cancelFlag' = FALSE
          /\ observer' = "none"
          /\ pc' = Forget(Break([pc EXCEPT ![m] = "gone"]))
      BY <1>2, <1>6 DEF TaskFails, Deaf
    <2>2. \A x \in Msgs : pc'[x] \in Live => x # m /\ pc[x] \in Live
      BY <1>1, <2>1 DEF Forget, Break, Live
    <2>3. Tasks' = {}
      BY <1>2, <2>2 DEF Tasks
    <2> QED BY <2>1, <2>3 DEF Quiet
  <1> QED BY <1>3, <1>4, <1>5, <1>6 DEF Task

(* What happens in the container adds no task and no observer.              *)
LEMMA QuietPi ==
    ASSUME OnceInv, Quiet,
           (\E m \in Msgs : Pi(m)) \/ PiUsesTool \/ ContainerDies
    PROVE  Quiet'
  <1>1. db \in Store /\ pc \in [Msgs -> Pcs]
    BY OnceFacts
  <1>2. db' = db \/ db' = [db EXCEPT !.fresh = TRUE]
    BY DEF Pi, PiReceives, PiFinishes, PiErrors, PiUsesTool, ContainerDies
  <1>3. db'.status = db.status
    BY <1>1, <1>2 DEF Store
  <1>4. \A x \in Msgs : pc'[x] \in Live => pc[x] \in Live
    BY <1>1 DEF Pi, PiReceives, PiFinishes, PiErrors, PiEnds, PiUsesTool, ContainerDies,
                Break, Live
  <1>5. observer' \in {observer, "none"} /\ UNCHANGED <<boot, cancelFlag, aborting>>
    BY DEF Pi, PiReceives, PiFinishes, PiErrors, PiEnds, PiUsesTool, ContainerDies,
           Deaf, ctl
  <1>6. Tasks' \subseteq Tasks /\ (Inflight' <=> Inflight)
    BY <1>3, <1>4 DEF Tasks, Inflight
  <1>7. ~Inflight' => Tasks' = {} /\ observer' = "none"
    BY <1>5, <1>6 DEF Quiet
  <1> QED BY <1>5, <1>6, <1>7, QuietFrame DEF Quiet

(* A crash leaves neither.                                                  *)
LEMMA QuietCrash ==
    ASSUME OnceInv, Crash
    PROVE  Quiet'
  <1>1. Tasks' = {}
    BY DEF Crash, Tasks, Live
  <1> QED BY <1>1 DEF Crash, Quiet

(* Startup attaches an observer or runs the head, never both.               *)
LEMMA QuietStartup ==
    ASSUME OnceInv, Unobserved, Quiet, Startup
    PROVE  Quiet'
  <1>1. db \in Store /\ pc \in [Msgs -> Pcs]
        /\ (db.queue # <<>> => Head(db.queue) \in Msgs)
    BY OnceFacts
  <1>2. UNCHANGED <<cancelFlag, aborting>>
    BY DEF Startup, Restart, Adopt, FailOrphan, ObserveAdopted, DrainQueue, ctl
  <1>3. CASE Restart \/ Adopt \/ FailOrphan \/ ObserveAdopted
    <2>1. Tasks = {} /\ observer = "none"
      BY <1>3 DEF Quiet, Unobserved, Restart, Adopt, FailOrphan, ObserveAdopted
    <2>2. \A x \in Msgs : pc'[x] \in Live => pc[x] \in Live
      BY <1>1, <1>3 DEF Restart, Adopt, FailOrphan, ObserveAdopted, Forget, Live
    <2>3. Tasks' = {}
      BY <2>1, <2>2 DEF Tasks
    <2>4. observer' # "none" => Inflight'
      BY <1>3, <2>1 DEF Restart, Adopt, FailOrphan, ObserveAdopted, Inflight
    <2> QED BY <1>2, <2>3, <2>4 DEF Quiet
  <1>4. CASE DrainQueue
    <2>1. boot' = "up" /\ boot = "drain" /\ UNCHANGED observer
      BY <1>4 DEF DrainQueue
    <2>2. CASE UNCHANGED <<db, pc>>
      <3>1. Tasks' = Tasks /\ (Inflight' <=> Inflight)
        BY <2>2 DEF Tasks, Inflight
      <3> QED BY <1>2, <2>1, <3>1, QuietFrame DEF Quiet
    <2>3. CASE db.status = "idle" /\ db.queue # <<>> /\ Commit(DrainWrites)
               /\ pc' = [pc EXCEPT ![Head(db.queue)] = "acquire"]
      <3>1. Tasks = {} /\ observer = "none"
        BY <2>3 DEF Quiet, Inflight
      <3>2. db'.status = "starting"
        BY <1>1, <2>3, Commits
      <3> QED BY <1>1, <1>2, <2>1, <2>3, <3>1, <3>2, QuietRun DEF Quiet
    <2> QED BY <1>4, <2>2, <2>3 DEF DrainQueue, Refuse
  <1> QED BY <1>3, <1>4 DEF Startup

(* An observer is alone until it hands over to the head of the queue.       *)
LEMMA QuietObserver ==
    ASSUME OnceInv, Quiet, Observer
    PROVE  Quiet'
  <1>1. db \in Store /\ pc \in [Msgs -> Pcs]
        /\ (db.queue # <<>> => Head(db.queue) \in Msgs)
    BY OnceFacts
  <1>2. /\ Tasks = {} /\ boot \in {"drain", "up"}
        /\ UNCHANGED <<boot, cancelFlag, aborting>>
    BY DEF Observer, ObserverEvent, ObserverSettles, ObserverFails, Quiet, ctl
  <1>3. CASE ObserverEvent
    <2>1. \A x \in Msgs : pc'[x] \in Live => pc[x] \in Live
      BY <1>1, <1>3 DEF ObserverEvent, Forget, Break, Live
    <2>2. Tasks' = {}
      BY <1>2, <2>1 DEF Tasks
    <2>3. observer' # "none" => Inflight /\ (db' = db \/ db' = Clear(db))
      BY <1>3 DEF ObserverEvent, Commit
    <2>4. observer' # "none" => db'.status = db.status
      <3>1. "idle" \in Statuses
        BY DEF Statuses
      <3> QED BY <1>1, <2>3, <3>1, Statements
    <2>5. observer' # "none" => Inflight'
      BY <2>3, <2>4 DEF Inflight
    <2> QED BY <1>2, <2>2, <2>5 DEF Quiet
  <1>4. CASE ObserverSettles /\ pc' = pc
    <2>1. Tasks' = {}
      BY <1>2, <1>4 DEF Tasks
    <2> QED BY <1>2, <1>4, <2>1 DEF Quiet, ObserverSettles
  <1>5. CASE ObserverSettles /\ pc' # pc
    <2>1. /\ db.queue # <<>> /\ Commit(FinalizeWrites) /\ observer' = "none"
          /\ pc' = [pc EXCEPT ![Head(db.queue)] = "acquire"]
      BY <1>5 DEF ObserverSettles, Refuse
    <2>2. db'.status = "starting"
      BY <1>1, <2>1, Commits
    <2> QED BY <1>1, <1>2, <2>1, <2>2, QuietRun DEF Quiet
  <1>6. CASE ObserverFails
    <2>1. Tasks' = {}
      BY <1>2, <1>6 DEF Tasks, ObserverFails
    <2> QED BY <1>2, <1>6, <2>1 DEF Quiet, ObserverFails
  <1> QED BY <1>3, <1>4, <1>5, <1>6 DEF Observer

(* All of it, while nothing has been cancelled.                             *)
LEMMA OneStep ==
    ASSUME OnceInv, Unobserved, OneInv, [Next]_vars
    PROVE  OneInv'
  <1>1. CASE UNCHANGED vars
    BY <1>1 DEF vars, ctl, OneInv, Quiet, Tasks, Inflight
  <1>2. CASE Cancel
    <2>1. CASE CancelDuringAcquire \/ CancelAborts
      <3>1. spent \in [refusals : 0 .. MaxRefusals, crashes : 0 .. MaxCrashes,
                       deaths : 0 .. MaxDeaths, cancels : 0 .. MaxCancels]
        BY DEF OnceInv, TypeOK
      <3>2. spent' = [spent EXCEPT !.cancels = @ + 1]
        BY <2>1 DEF CancelDuringAcquire, CancelAborts
      <3>3. spent'.cancels # 0
        BY <3>1, <3>2, BoundsAssumption
      <3> QED BY <3>3 DEF OneInv
    <2>2. CASE CancelAcked \/ CancelRejected
      <3>1. aborting /\ UNCHANGED spent
        BY <2>2 DEF CancelAcked, CancelRejected
      <3> QED BY <3>1 DEF OneInv, Quiet
    <2> QED BY <1>2, <2>1, <2>2 DEF Cancel
  <1>3. CASE Crash
    BY <1>3, QuietCrash DEF OneInv
  <1>4. ASSUME Quiet,
               \/ \E m \in Msgs : RunEvent(m) \/ Task(m) \/ Pi(m)
               \/ PiUsesTool \/ ContainerDies \/ Startup \/ Observer
        PROVE  Quiet'
    BY <1>4, QuietRunEvent, QuietTask, QuietPi, QuietStartup, QuietObserver
  <1>5. ASSUME \/ \E m \in Msgs : RunEvent(m) \/ Task(m) \/ Pi(m)
               \/ PiUsesTool \/ ContainerDies \/ Startup \/ Observer
        PROVE  spent'.cancels = 0 => spent.cancels = 0
    <2>1. spent \in [refusals : 0 .. MaxRefusals, crashes : 0 .. MaxCrashes,
                     deaths : 0 .. MaxDeaths, cancels : 0 .. MaxCancels]
      BY DEF OnceInv, TypeOK
    <2>2. \/ UNCHANGED spent
          \/ spent' = [spent EXCEPT !.deaths = @ + 1]
          \/ spent' = [spent EXCEPT !.refusals = @ + 1]
      BY <1>5 DEF RunEvent, Task, ContainerStarts, Acquired, TurnSettles, TaskFails,
                  Pi, PiReceives, PiFinishes, PiErrors, PiEnds, PiUsesTool, ContainerDies,
                  Startup, Restart, Adopt, FailOrphan, ObserveAdopted, DrainQueue,
                  Observer, ObserverEvent, ObserverSettles, ObserverFails, Refuse, ctl
    <2> QED BY <2>1, <2>2
  <1> QED BY <1>1, <1>2, <1>3, <1>4, <1>5 DEF Next, OneInv

(* Without a cancel, a session is finalised by its task or by the observer  *)
(* of its adopted turn, never by both and never by two tasks, for any       *)
(* number of messages, crashes, container deaths and refusals.              *)
THEOREM OneParty == Spec => []OneFinalizer
  <1>1. Init => OneInv
    BY DEF Init, OneInv, Quiet, Tasks, Live
  <1>2. OnceInv /\ Unobserved /\ OneInv /\ [Next]_vars => OneInv'
    BY OneStep
  <1>3. OneInv => OneFinalizer
    BY DEF OneInv, Quiet, OneFinalizer
  <1> QED BY <1>1, <1>2, <1>3, Once, PTL DEF Spec

----------------------------------------------------------------------------
(* What is left over for nobody: the queue of an idle session, and an       *)
(* in-flight session without a task or an observer.                         *)

(* Nothing that was counted is forgotten.                                   *)
LEMMA Remembered ==
    ASSUME OnceInv, [Next]_vars
    PROVE  /\ spent'.refusals = 0 => spent.refusals = 0 /\ ~Refuse
           /\ spent'.deaths = 0 => spent.deaths = 0 /\ ~ContainerDies
           /\ spent'.cancels = 0 => spent.cancels = 0
  <1>1. /\ spent \in [refusals : 0 .. MaxRefusals, crashes : 0 .. MaxCrashes,
                      deaths : 0 .. MaxDeaths, cancels : 0 .. MaxCancels]
        /\ spent.refusals \in Nat /\ spent.deaths \in Nat /\ spent.cancels \in Nat
    BY DEF OnceInv, TypeOK
  <1>2. \/ UNCHANGED spent
        \/ spent' = [spent EXCEPT !.refusals = @ + 1]
        \/ spent' = [spent EXCEPT !.crashes = @ + 1]
        \/ spent' = [spent EXCEPT !.deaths = @ + 1]
        \/ spent' = [spent EXCEPT !.cancels = @ + 1]
    <2>1. CASE UNCHANGED vars
      BY <2>1 DEF vars, ctl
    <2>2. CASE \E m \in Msgs : RunEvent(m) \/ Task(m) \/ Pi(m)
      BY <2>2 DEF RunEvent, Task, ContainerStarts, Acquired, TurnSettles, TaskFails,
                  Pi, PiReceives, PiFinishes, PiErrors, PiEnds, ctl
    <2>3. CASE Cancel \/ PiUsesTool \/ ContainerDies \/ Crash
      BY <2>3 DEF Cancel, CancelDuringAcquire, CancelAborts, CancelAcked, CancelRejected,
                  PiUsesTool, ContainerDies, Crash, ctl
    <2>4. CASE Startup \/ Observer
      BY <2>4 DEF Startup, Restart, Adopt, FailOrphan, ObserveAdopted, DrainQueue, Observer,
                  ObserverEvent, ObserverSettles, ObserverFails, Refuse, ctl
    <2> QED BY <2>1, <2>2, <2>3, <2>4 DEF Next
  <1>3. Refuse => spent'.refusals # 0
    BY <1>1 DEF Refuse
  <1>4. ContainerDies => spent'.deaths # 0
    BY <1>1 DEF ContainerDies
  <1> QED BY <1>1, <1>2, <1>3, <1>4

(* A step that leaves the status and the queue alone, or the session no     *)
(* longer idle, or its queue empty.                                         *)
LEMMA DrainedFrame ==
    ASSUME IdleDrained, spent'.refusals = 0 => spent.refusals = 0,
           boot' = "up" => boot = "up",
           \/ db'.status = db.status /\ db'.queue = db.queue
           \/ db'.status # "idle"
           \/ db'.queue = <<>>
    PROVE  IdleDrained'
  BY DEF IdleDrained

(* An idle session gets a queue from nowhere, and the startup pass does not *)
(* end before it has run the head of the queue it found.                    *)
LEMMA DrainedStep ==
    ASSUME OnceInv, IdleDrained, [Next]_vars
    PROVE  IdleDrained'
  <1>1. db \in Store /\ {"idle", "starting", "running", "failed"} = Statuses
    BY OnceFacts DEF Statuses
  <1>2. spent'.refusals = 0 => spent.refusals = 0 /\ ~Refuse
    BY Remembered
  <1>3. CASE UNCHANGED vars
    BY <1>2, <1>3, DrainedFrame DEF vars
  <1>4. ASSUME NEW m \in Msgs, RunEvent(m) PROVE IdleDrained'
    <2>1. boot' = boot
      BY <1>4 DEF RunEvent
    <2>2. CASE Inflight
      <3>1. db' = BumpTurns(Enqueue(db, m))
        BY <1>4, <2>2 DEF RunEvent, Commit, RunEventWrites
      <3>2. db'.status = db.status
        BY <1>1, <3>1, Enqueued
      <3> QED BY <1>2, <2>1, <2>2, <3>2, DrainedFrame DEF Inflight
    <2>3. CASE ~Inflight
      <3>1. db' = BumpTurns(SetStatus(db, "starting"))
        BY <1>4, <2>3 DEF RunEvent, Commit, RunEventWrites
      <3>2. SetStatus(db, "starting") \in Store /\ SetStatus(db, "starting").status = "starting"
        BY <1>1, Statements
      <3>3. db'.status = "starting"
        BY <1>1, <3>1, <3>2, Statements
      <3> QED BY <1>2, <2>1, <3>3, DrainedFrame
    <2> QED BY <2>2, <2>3
  <1>5. ASSUME NEW m \in Msgs, Task(m) PROVE IdleDrained'
    <2>1. boot' = boot
      BY <1>5 DEF Task, ContainerStarts, Acquired, TurnSettles, TaskFails
    <2>2. CASE ContainerStarts(m) \/ Acquired(m)
      <3>1. db' = db \/ db' = SetStatus(db, "running")
        BY <2>2 DEF ContainerStarts, Acquired, Commit
      <3>2. db' = db \/ db'.status = "running"
        BY <1>1, <3>1, Statements
      <3> QED BY <1>2, <2>1, <3>2, DrainedFrame
    <2>3. CASE TurnSettles(m)
      <3>1. IF db.queue # <<>> THEN db'.status = db.status
            ELSE db'.status = "idle" /\ db'.queue = db.queue
        BY <1>1, <2>3, Commits DEF TurnSettles
      <3> QED BY <1>2, <2>1, <3>1 DEF IdleDrained
    <2>4. CASE TaskFails(m)
      <3>1. db' = db \/ db'.status = "failed"
        BY <1>1, <2>4, Commits DEF TaskFails
      <3> QED BY <1>2, <2>1, <3>1, DrainedFrame
    <2> QED BY <1>5, <2>2, <2>3, <2>4 DEF Task
  <1>6. ASSUME Cancel PROVE IdleDrained'
    <2>1. boot' = boot /\ (db' = db \/ Commit(CancelWrites))
      BY <1>6 DEF Cancel, CancelDuringAcquire, CancelAborts, CancelAcked, CancelRejected
    <2>2. db' = db \/ db'.queue = <<>>
      BY <1>1, <2>1, Commits
    <2> QED BY <1>2, <2>1, <2>2, DrainedFrame
  <1>7. ASSUME (\E m \in Msgs : Pi(m)) \/ PiUsesTool \/ ContainerDies PROVE IdleDrained'
    <2>1. boot' = boot /\ (db' = db \/ db' = [db EXCEPT !.fresh = TRUE])
      BY <1>7 DEF Pi, PiReceives, PiFinishes, PiErrors, PiEnds, PiUsesTool, ContainerDies
    <2>2. db'.status = db.status /\ db'.queue = db.queue
      BY <1>1, <2>1 DEF Store
    <2> QED BY <1>2, <2>1, <2>2, DrainedFrame
  <1>8. ASSUME Crash \/ Restart \/ Adopt \/ FailOrphan \/ ObserveAdopted PROVE IdleDrained'
    BY <1>8 DEF Crash, Restart, Adopt, FailOrphan, ObserveAdopted, IdleDrained
  <1>9. ASSUME DrainQueue PROVE IdleDrained'
    <2>1. CASE db.status = "idle" /\ db.queue # <<>> /\ Commit(DrainWrites)
      <3>1. db'.status = "starting"
        BY <1>1, <2>1, Commits
      <3> QED BY <3>1 DEF IdleDrained
    <2>2. CASE Refuse
      BY <1>2, <2>2 DEF IdleDrained
    <2>3. CASE ~(db.status = "idle" /\ db.queue # <<>>) /\ db' = db
      BY <2>3 DEF IdleDrained
    <2> QED BY <1>9, <2>1, <2>2, <2>3 DEF DrainQueue
  <1>10. ASSUME Observer PROVE IdleDrained'
    <2>1. boot' = boot
      BY <1>10 DEF Observer, ObserverEvent, ObserverSettles, ObserverFails
    <2>2. CASE ObserverEvent
      <3>1. db' = db \/ db' = Clear(db)
        BY <2>2 DEF ObserverEvent, Commit
      <3>2. db' = db \/ db'.queue = <<>>
        BY <1>1, <3>1, Statements
      <3> QED BY <1>2, <2>1, <3>2, DrainedFrame
    <2>3. CASE ObserverSettles
      <3>1. CASE Refuse
        BY <1>2, <3>1 DEF IdleDrained
      <3>2. CASE Commit(FinalizeWrites)
        <4>1. db'.status # "idle" \/ db'.queue = <<>>
          BY <1>1, <3>2, Commits
        <4> QED BY <4>1 DEF IdleDrained
      <3> QED BY <2>3, <3>1, <3>2 DEF ObserverSettles
    <2>4. CASE ObserverFails
      <3>1. db'.status = "failed"
        BY <1>1, <2>4, Statements DEF ObserverFails, Commit
      <3> QED BY <1>2, <2>1, <3>1, DrainedFrame
    <2> QED BY <1>10, <2>2, <2>3, <2>4 DEF Observer
  <1> QED BY <1>3, <1>4, <1>5, <1>6, <1>7, <1>8, <1>9, <1>10 DEF Next, Startup

(* Once the startup pass is over, an idle session has no queued message,    *)
(* wherever a crash had cut a section short, unless a queued message was    *)
(* refused: for any number of messages, crashes, deaths and cancels.        *)
THEOREM Drained == Spec => []IdleDrained
  <1>1. Init => IdleDrained
    BY DEF Init, IdleDrained
  <1>2. OnceInv /\ IdleDrained /\ [Next]_vars => IdleDrained'
    BY DrainedStep
  <1> QED BY <1>1, <1>2, Once, PTL DEF Spec


(* Why an in-flight session has somebody to end it: up to the observe pass  *)
(* it is the container the pool adopted (recover has failed the session     *)
(* without one), which is still running if none has died; from then on it   *)
(* is the task or the observer.                                             *)
Owned ==
    /\ boot \in {"down", "adopt"} => ~active
    /\ boot \in {"recover", "observe"} /\ active => box
    /\ boot = "observe" /\ Inflight => active
    /\ boot \in {"drain", "up"} /\ Inflight => Tasks # {} \/ observer # "none"

OwnedInv == spent.deaths = 0 /\ spent.cancels = 0 => Owned

(* Once the drain has begun, only the last part is left.                    *)
LEMMA OwnedLate ==
    ASSUME boot' \in {"drain", "up"},
           ~Inflight' \/ observer' # "none" \/ \E m \in Msgs : pc'[m] \in Live
    PROVE  Owned'
  BY DEF Owned, Tasks

(* A message is run, or is enqueued behind the one that is run.             *)
LEMMA OwnedRunEvent ==
    ASSUME OnceInv, Owned, NEW m \in Msgs, RunEvent(m)
    PROVE  Owned'
  <1>1. /\ db \in Store /\ pc \in [Msgs -> Pcs] /\ boot = "up" /\ boot' = "up"
        /\ pc[m] = "new" /\ observer' = observer
    BY OnceFacts DEF RunEvent
  <1>2. CASE Inflight
    <2>1. pc' = [pc EXCEPT ![m] = "queued"]
      BY <1>2 DEF RunEvent
    <2>2. \A x \in Msgs : pc[x] \in Live => pc'[x] \in Live
      BY <1>1, <2>1 DEF Live
    <2> QED BY <1>1, <1>2, <2>2, OwnedLate DEF Owned, Tasks
  <1>3. CASE ~Inflight
    <2>1. pc'[m] \in Live
      BY <1>1, <1>3 DEF RunEvent, Live
    <2> QED BY <1>1, <2>1, OwnedLate
  <1> QED BY <1>2, <1>3

(* A task leaves itself, its successor, or a session out of flight.         *)
LEMMA OwnedTask ==
    ASSUME OnceInv, Quiet, NEW m \in Msgs, Task(m)
    PROVE  Owned'
  <1>1. /\ db \in Store /\ pc \in [Msgs -> Pcs] /\ pc[m] \in Live
        /\ \A x \in Queued(db) : x \in Msgs /\ pc[x] = "queued"
        /\ db.queue # <<>> => Head(db.queue) \in Queued(db)
    BY OnceFacts DEF Task, ContainerStarts, Acquired, TurnSettles, TaskFails, Live
  <1>2. boot' = boot /\ boot \in {"drain", "up"}
    <2>1. boot \in {"drain", "up"}
      BY <1>1 DEF Quiet, Tasks
    <2> QED BY <2>1 DEF Task, ContainerStarts, Acquired, TurnSettles, TaskFails
  <1>3. CASE ContainerStarts(m) \/ Acquired(m)
    <2>1. pc' = pc \/ pc' = [pc EXCEPT ![m] = "post"]
      BY <1>3 DEF ContainerStarts, Acquired, Quiet
    <2>2. pc'[m] \in Live
      BY <1>1, <2>1 DEF Live
    <2> QED BY <1>2, <2>2, OwnedLate
  <1>4. CASE TurnSettles(m)
    <2>1. CASE db.queue = <<>>
      <3>1. db'.status = "idle"
        BY <1>1, <1>4, <2>1, Commits DEF TurnSettles
      <3> QED BY <1>2, <3>1, OwnedLate DEF Inflight
    <2>2. CASE db.queue # <<>>
      <3>1. Head(db.queue) \in Msgs /\ Head(db.queue) # m
        BY <1>1, <2>2 DEF Live
      <3>2. pc'[Head(db.queue)] \in Live
        BY <1>4, <2>2, <3>1 DEF TurnSettles, Live
      <3> QED BY <1>2, <3>1, <3>2, OwnedLate
    <2> QED BY <2>1, <2>2
  <1>5. CASE TaskFails(m)
    <2>1. ~Inflight'
      <3>1. CASE Inflight
        BY <1>1, <1>5, <3>1, Commits DEF TaskFails, Inflight
      <3>2. CASE ~Inflight
        BY <1>5, <3>2 DEF TaskFails, Inflight
      <3> QED BY <3>1, <3>2
    <2> QED BY <1>2, <2>1, OwnedLate
  <1> QED BY <1>3, <1>4, <1>5 DEF Task

(* Pi ends its turns in tasks that are still there.                         *)
LEMMA OwnedPi ==
    ASSUME OnceInv, Owned, (\E m \in Msgs : Pi(m)) \/ PiUsesTool
    PROVE  Owned'
  <1>1. db \in Store /\ pc \in [Msgs -> Pcs]
    BY OnceFacts
  <1>2. db' = db \/ db' = [db EXCEPT !.fresh = TRUE]
    BY DEF Pi, PiReceives, PiFinishes, PiErrors, PiUsesTool
  <1>3. Inflight' <=> Inflight
    BY <1>1, <1>2 DEF Store, Inflight
  <1>4. \A x \in Msgs : pc[x] \in Live => pc'[x] \in Live
    BY <1>1 DEF Pi, PiReceives, PiFinishes, PiErrors, PiEnds, PiUsesTool, Live
  <1>5. UNCHANGED <<boot, observer, active, box>>
    BY DEF Pi, PiReceives, PiFinishes, PiErrors, PiEnds, PiUsesTool, pi
  <1> QED BY <1>3, <1>4, <1>5 DEF Owned, Tasks

(* The passes of startup hand the session on to the next one.               *)
LEMMA OwnedStartup ==
    ASSUME OnceInv, Quiet, Owned, Startup
    PROVE  Owned'
  <1>1. /\ db \in Store /\ pc \in [Msgs -> Pcs]
        /\ db.queue # <<>> => Head(db.queue) \in Msgs
    BY OnceFacts
  <1>2. CASE Restart \/ Adopt
    BY <1>2 DEF Restart, Adopt, Owned, pi
  <1>3. CASE FailOrphan
    <2>1. boot = "recover" /\ boot' = "observe" /\ UNCHANGED <<active, box>>
      BY <1>3 DEF FailOrphan, pi
    <2>2. Inflight' => active
      <3>1. CASE Inflight /\ ~active
        <4>1. db'.status = "failed"
          BY <1>1, <1>3, <3>1, Commits DEF FailOrphan
        <4> QED BY <4>1 DEF Inflight
      <3>2. CASE ~(Inflight /\ ~active)
        BY <1>3, <3>2 DEF FailOrphan, Inflight
      <3> QED BY <3>1, <3>2
    <2> QED BY <2>1, <2>2 DEF Owned
  <1>4. CASE ObserveAdopted
    <2>1. boot' = "drain" /\ (Inflight' <=> Inflight)
      BY <1>4 DEF ObserveAdopted, Inflight
    <2>2. Inflight => observer' # "none"
      BY <1>4 DEF ObserveAdopted, Owned
    <2> QED BY <2>1, <2>2, OwnedLate
  <1>5. CASE DrainQueue
    <2>1. boot = "drain" /\ boot' = "up" /\ observer' = observer
      BY <1>5 DEF DrainQueue
    <2>2. CASE db' = db /\ pc' = pc
      BY <2>1, <2>2 DEF Owned, Tasks, Inflight
    <2>3. CASE db.queue # <<>> /\ pc' = [pc EXCEPT ![Head(db.queue)] = "acquire"]
      <3>1. pc'[Head(db.queue)] \in Live
        BY <1>1, <2>3 DEF Live
      <3> QED BY <1>1, <2>1, <2>3, <3>1, OwnedLate
    <2> QED BY <1>5, <2>2, <2>3 DEF DrainQueue, Refuse
  <1> QED BY <1>2, <1>3, <1>4, <1>5 DEF Startup

(* An observer leaves itself, a task, or a session out of flight.           *)
LEMMA OwnedObserver ==
    ASSUME OnceInv, Observer
    PROVE  Owned'
  <1>1. /\ db \in Store /\ pc \in [Msgs -> Pcs] /\ {"idle", "failed"} \subseteq Statuses
        /\ db.queue # <<>> => Head(db.queue) \in Msgs
    BY OnceFacts DEF Statuses
  <1>2. boot' \in {"drain", "up"}
    BY DEF Observer, ObserverEvent, ObserverSettles, ObserverFails
  <1>3. CASE ObserverEvent
    <2>1. observer' # "none" \/ ~Inflight'
      BY <1>3 DEF ObserverEvent, Inflight
    <2> QED BY <1>2, <2>1, OwnedLate
  <1>4. CASE ObserverSettles
    <2>1. CASE db.queue # <<>> /\ pc' = [pc EXCEPT ![Head(db.queue)] = "acquire"]
      <3>1. pc'[Head(db.queue)] \in Live
        BY <1>1, <2>1 DEF Live
      <3> QED BY <1>1, <1>2, <2>1, <3>1, OwnedLate
    <2>2. CASE db.queue = <<>> /\ Commit(FinalizeWrites)
      <3>1. db'.status = "idle"
        BY <1>1, <2>2, Commits
      <3> QED BY <1>2, <3>1, OwnedLate DEF Inflight
    <2>3. CASE Commit(<<SetStatus(db, "idle")>>)
      <3>1. db'.status = "idle"
        BY <1>1, <2>3, Statements DEF Commit
      <3> QED BY <1>2, <3>1, OwnedLate DEF Inflight
    <2> QED BY <1>4, <2>1, <2>2, <2>3 DEF ObserverSettles
  <1>5. CASE ObserverFails
    <2>1. db'.status = "failed"
      BY <1>1, <1>5, Statements DEF ObserverFails, Commit
    <2> QED BY <1>2, <2>1, OwnedLate DEF Inflight
  <1> QED BY <1>3, <1>4, <1>5 DEF Observer

(* All of it, while no container dies and nothing is cancelled.             *)
LEMMA OwnedStep ==
    ASSUME OnceInv, OneInv, OwnedInv, [Next]_vars
    PROVE  OwnedInv'
  <1> USE DEF OwnedInv
  <1> SUFFICES ASSUME spent'.deaths = 0, spent'.cancels = 0
               PROVE  Owned'
    OBVIOUS
  <1>1. Quiet /\ Owned /\ ~ContainerDies
    BY Remembered DEF OneInv
  <1>2. CASE UNCHANGED vars
    BY <1>1, <1>2 DEF vars, pi, Owned, Tasks, Inflight
  <1>3. CASE Cancel
    <2>1. CASE CancelDuringAcquire \/ CancelAborts
      <3>1. /\ spent.cancels \in Nat
            /\ spent \in [refusals : 0 .. MaxRefusals, crashes : 0 .. MaxCrashes,
                          deaths : 0 .. MaxDeaths, cancels : 0 .. MaxCancels]
        BY DEF OnceInv, TypeOK
      <3>2. spent' = [spent EXCEPT !.cancels = @ + 1]
        BY <2>1 DEF CancelDuringAcquire, CancelAborts
      <3> QED BY <3>1, <3>2
    <2>2. CASE CancelAcked \/ CancelRejected
      BY <1>1, <2>2 DEF CancelAcked, CancelRejected, Quiet
    <2> QED BY <1>3, <2>1, <2>2 DEF Cancel
  <1>4. CASE Crash
    BY <1>4 DEF Crash, Owned
  <1> QED BY <1>1, <1>2, <1>3, <1>4, OwnedRunEvent, OwnedTask, OwnedPi, OwnedStartup,
             OwnedObserver DEF Next

(* Once startup is over, an in-flight session has a task or an observer to  *)
(* end it, whatever section a crash had cut short, unless a container died  *)
(* by itself or a client cancelled.                                         *)
THEOREM SomebodyOwns == Spec => []FlightOwned
  <1>1. Init => OneInv /\ OwnedInv
    BY DEF Init, OneInv, Quiet, OwnedInv, Owned, Tasks, Live, Inflight
  <1>2. OnceInv /\ Unobserved /\ OneInv /\ OwnedInv /\ [Next]_vars => (OneInv /\ OwnedInv)'
    BY OneStep, OwnedStep
  <1>3. OwnedInv => FlightOwned
    BY DEF OwnedInv, Owned, FlightOwned
  <1> QED BY <1>1, <1>2, <1>3, Once, PTL DEF Spec
=============================================================================
