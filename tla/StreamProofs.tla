-------------------------- MODULE StreamProofs --------------------------
(***************************************************************************)
(* The event stream, for any log, any number of connections and any         *)
(* interleaving: what a client receives is the log, and a stream that ends  *)
(* has said everything.                                                     *)
(*                                                                          *)
(* The proof goes from the log (its events have ids of their own, and it    *)
(* only grows at its end) over the flow of frames (what is received and     *)
(* what is on the wire, as they are sent, received and lost) to the passes  *)
(* of follow.                                                               *)
(***************************************************************************)
EXTENDS EventStream, PiLogProofs

----------------------------------------------------------------------------
(* The ids of what is not an event of the log, and the log as events.       *)
OtherIds == {"none", "container", "approval"} \X Nat \X Nat

All == ListBySession(log)

(* Every event has an id of its own, which tells its line.                  *)
LogInv ==
    /\ log \in Seq(Lines) /\ All \in Seq(Events)
    /\ \A i \in 1 .. Len(All) : All[i].id[2] \in 1 .. Len(log)
    /\ \A i, j \in 1 .. Len(All) : All[i].id = All[j].id => i = j

(* A frame has the id of an event, or one that no event has.                *)
FrameEvents == Statuses \cup {"event", "container_attached", "container_detached",
                              "tool_confirmation_request"}
Frames == [event : FrameEvents, id : LogIds \cup OtherIds]

Proper(w) == \A j \in 1 .. Len(w) : w[j].event = "event" <=> w[j].id \in LogIds

(* x has been received, or is on the wire before the j-th frame.            *)
Passed(x, r, w, j) == (\E i \in 1 .. Len(r) : r[i] = x) \/ (\E h \in 1 .. j - 1 : w[h].id = x)

(* What is received and what is on the wire comes with all that is before   *)
(* it in the log.                                                           *)
Covered(d, r, w) ==
    /\ \A i \in 1 .. Len(r) : \E n \in 1 .. Len(d) :
          r[i] = d[n].id /\ \A k \in 1 .. n - 1 : \E j \in 1 .. i - 1 : r[j] = d[k].id
    /\ \A j \in 1 .. Len(w) : w[j].event = "event" => \E n \in 1 .. Len(d) :
          w[j].id = d[n].id /\ \A k \in 1 .. n - 1 : Passed(d[k].id, r, w, j)

(* And in the log's order.                                                  *)
Earlier(d, x, y) == \A a, b \in 1 .. Len(d) : d[a].id = x /\ d[b].id = y => a < b

Ordered(d, r, w) ==
    /\ \A i, j \in 1 .. Len(r) : i < j => Earlier(d, r[i], r[j])
    /\ \A i \in 1 .. Len(r), j \in 1 .. Len(w) : Earlier(d, r[i], w[j].id)
    /\ \A i, j \in 1 .. Len(w) : i < j => Earlier(d, w[i].id, w[j].id)

Through(d, k, r, w) == Passed(d[k].id, r, w, Len(w) + 1)

(* A pass has yielded the log up to its n-th event and read up to the last  *)
(* of t, what is left of it; what has passed is what it has yielded.        *)
Reading(d, n, s, t, r, w, current) ==
    /\ n + Len(t) <= Len(d)
    /\ s = {d[k].id : k \in 1 .. n + Len(t)}
    /\ \A q \in 1 .. Len(t) : t[q].id = d[n + q].id
    /\ \A k \in 1 .. n : Through(d, k, r, w)
    /\ current => \A k \in 1 .. Len(d) : Through(d, k, r, w) => k <= n

(* Not so once a cursor was foreign, or the log is read as deleted.         *)
Current == ~foreign /\ (status = "gone" => todo # <<>>)

(* The client's cursor is its last event's id, or that of another frame.    *)
CursorInv ==
    /\ cursor \in LogIds \cup OtherIds
    /\ cursor \in LogIds => \E i \in 1 .. Len(received) : received[i] = cursor
    /\ cursor = NoId => received = <<>>
    /\ ~foreign => \A i \in 1 .. Len(received), a, b \in 1 .. Len(All) :
                       received[i] = All[a].id /\ cursor = All[b].id => a <= b

HandlerInv ==
    /\ todo \in Seq(Events) /\ (todo # <<>> <=> pc = "pass")
    /\ pc \in {"off", "greet", "catchup"} => \A j \in 1 .. Len(wire) : wire[j].event # "event"
    /\ pc \in {"pass", "check", "sleep"} => \E n \in 0 .. Len(All) :
          Reading(All, n, seen, todo, received, wire, Current)

(* The status told last, on the wire or received, is lastStatus.            *)
Said(w, told_, last) ==
    /\ (\A j \in 1 .. Len(w) : w[j].event \notin Statuses) => told_ = last
    /\ \A j \in 1 .. Len(w) :
          w[j].event \in Statuses /\ (\A h \in j + 1 .. Len(w) : w[h].event \notin Statuses)
              => w[j].event = last

StatusInv == pc \in Serving => Said(wire, shown, lastStatus)

FlowInv ==
    /\ received \in Seq(LogIds) /\ wire \in Seq(Frames) /\ Proper(wire)
    /\ Covered(All, received, wire)
    /\ ~foreign => Ordered(All, received, wire)

StrInv == TypeOK /\ LogInv /\ FlowInv /\ CursorInv /\ HandlerInv /\ StatusInv
----------------------------------------------------------------------------
(* What was in the log stays where it is.                                   *)
LEMMA LogGrows ==
    ASSUME LogInv, NEW line \in Lines, log' = Append(log, line)
    PROVE  /\ LogInv' /\ Len(All) <= Len(All')
           /\ \A i \in 1 .. Len(All) : All'[i] = All[i]
  <1>1. PICK l, k : l = log /\ k = log'
    OBVIOUS
  <1>2. ListBySession(l) = All /\ ListBySession(k) = All'
    BY <1>1 DEF All
  <1>3. OneMore(k, l, line)
    BY <1>1, <1>2 DEF LogInv, Logged, OneMore
  <1>4. LogExtends(All', k, All)
    BY <1>2, <1>3, ListExtends
  <1> QED BY <1>1, <1>4 DEF LogInv, Logged, LogExtends

LEMMA LogStays == ASSUME LogInv, UNCHANGED log PROVE LogInv' /\ All' = All
  BY DEF LogInv, All

(* What follow has not seen is what has been appended since it read.        *)
LEMMA NewsIs ==
    ASSUME LogInv, NEW m \in 0 .. Len(All), seen = {All[k].id : k \in 1 .. m}, status # "gone"
    PROVE  NewEvents = SubSeq(All, m + 1, Len(All))
  <1>1. PICK d \in Seq(Events), a \in Nat : d = All /\ a = Len(All)
    BY DEF LogInv
  <1>2. PICK t : t = [i \in 1 .. a |-> IF d[i].id \in seen THEN <<>> ELSE <<d[i]>>]
    OBVIOUS
  <1>3. NewEvents = FlattenSeq(t)
    BY <1>1, <1>2 DEF NewEvents, Unseen, OnDisk, All
  <1>4. \A i \in 1 .. a : d[i].id \in seen <=> i <= m
    BY <1>1 DEF LogInv
  <1>5. \A i \in 1 .. a : t[i] = IF i <= m THEN <<>> ELSE <<d[i]>>
    BY <1>2, <1>4
  <1>6. Len(t) = a /\ (a = 0 => t = <<>>)
    <2>1. t \in Seq(Seq(Events)) /\ DOMAIN t = 1 .. a
      BY <1>1, <1>2
    <2>2. Len(t) = a
      BY <1>2
    <2> QED BY <2>1, <2>2, EmptySeq
  <1> QED BY <1>1, <1>3, <1>5, <1>6, FlattenRest

LEMMA NoNews == ASSUME status = "gone" PROVE NewEvents = <<>>
  <1>1. PICK t : t = [i \in 1 .. 0 |-> IF OnDisk[i].id \in seen THEN <<>> ELSE <<OnDisk[i]>>]
    OBVIOUS
  <1>2. OnDisk = <<>> /\ Len(OnDisk) = 0
    BY DEF OnDisk
  <1>3. NewEvents = FlattenSeq(t)
    BY <1>1, <1>2 DEF NewEvents, Unseen
  <1>4. t = <<>>
    <2>1. t \in Seq({}) /\ Len(t) = 0
      BY <1>1
    <2> QED BY <2>1, EmptySeq
  <1> QED BY <1>3, <1>4, FlattenEmpty

----------------------------------------------------------------------------
(* Frames that are sent, received and lost.                                 *)

Extends(v, w, q) ==
    /\ v \in Seq(Frames) /\ w \in Seq(Frames) /\ q \in Seq(Frames)
    /\ Len(v) = Len(w) + Len(q)
    /\ \A j \in 1 .. Len(w) : v[j] = w[j]
    /\ \A j \in 1 .. Len(q) : v[Len(w) + j] = q[j]
    /\ \A j \in 1 .. Len(v) : j \in 1 .. Len(w) \/ (j - Len(w) \in 1 .. Len(q) /\ v[j] = q[j - Len(w)])

LEMMA ConcatExtends ==
    ASSUME NEW w \in Seq(Frames), NEW q \in Seq(Frames) PROVE Extends(w \o q, w, q)
  <1>1. PICK m \in Nat, n \in Nat : m = Len(w) /\ n = Len(q)
    OBVIOUS
  <1>2. PICK v : v = w \o q
    OBVIOUS
  <1>3. /\ v \in Seq(Frames) /\ Len(v) = m + n
        /\ \A j \in 1 .. m + n : v[j] = IF j <= m THEN w[j] ELSE q[j - m]
    BY <1>1, <1>2, ConcatProperties
  <1>4. \A j \in 1 .. m : v[j] = w[j]
    BY <1>3
  <1>5. \A j \in 1 .. m + n : j \in 1 .. m \/ (j - m \in 1 .. n /\ v[j] = q[j - m])
    BY <1>3
  <1>6. \A j \in 1 .. n : v[m + j] = q[j]
    <2> SUFFICES ASSUME NEW j \in 1 .. n PROVE v[m + j] = q[j]
      OBVIOUS
    <2>1. m + j \in 1 .. m + n /\ ~(m + j <= m) /\ (m + j) - m = j
      OBVIOUS
    <2> QED BY <1>3, <2>1
  <1> QED BY <1>1, <1>2, <1>3, <1>4, <1>5, <1>6 DEF Extends

(* Frames that are of no event of the log.                                  *)
Synthetic(q) == q \in Seq(Frames) /\ \A j \in 1 .. Len(q) : q[j].event # "event" /\ q[j].id \in OtherIds

Distinct(d) == d \in Seq(Events) /\ \A i, j \in 1 .. Len(d) : d[i].id = d[j].id => i = j

Flow(d, r, w) ==
    /\ Distinct(d) /\ r \in Seq(LogIds) /\ w \in Seq(Frames) /\ Proper(w)
    /\ Covered(d, r, w)

(* v flows as w did, to whoever has r of d.                                 *)
SameFlow(d, r, w, v) ==
    /\ Flow(d, r, v) /\ (Ordered(d, r, w) => Ordered(d, r, v))
    /\ \A k \in 1 .. Len(d) : Through(d, k, r, v) <=> Through(d, k, r, w)

LEMMA IdsApart == LogIds \cap OtherIds = {}
  BY DEF LogIds, OtherIds

LEMMA FlowSynthetic ==
    ASSUME NEW d, NEW r, NEW w, NEW q, NEW v, Extends(v, w, q), Synthetic(q), Flow(d, r, w)
    PROVE  SameFlow(d, r, w, v)
  <1>1. PICK m \in Nat, n \in Nat, l \in Nat : m = Len(w) /\ n = Len(q) /\ l = Len(v) /\ l = m + n
    <2>1. Len(w) \in Nat /\ Len(q) \in Nat /\ Len(v) \in Nat /\ Len(v) = Len(w) + Len(q)
      BY DEF Extends
    <2> QED BY <2>1
  <1>2. PICK c \in Nat, p \in Nat : c = Len(d) /\ p = Len(r)
    BY DEF Flow, Distinct
  <1>3. \A j \in 1 .. l : (j \in 1 .. m /\ v[j] = w[j]) \/ (j \notin 1 .. m /\ v[j].event # "event" /\ v[j].id \in OtherIds)
    <2>1. \A j \in 1 .. l : j \in 1 .. m \/ (j - m \in 1 .. n /\ v[j] = q[j - m])
      BY <1>1 DEF Extends
    <2>2. \A j \in 1 .. m : v[j] = w[j]
      BY <1>1 DEF Extends
    <2>3. \A j \in 1 .. n : q[j].event # "event" /\ q[j].id \in OtherIds
      BY <1>1 DEF Synthetic
    <2> QED BY <2>1, <2>2, <2>3
  <1>4. \A k \in 1 .. c : d[k].id \in LogIds
    <2>1. \A k \in 1 .. c : d[k] \in Events
      BY <1>2 DEF Flow, Distinct
    <2> QED BY <2>1 DEF Events
  <1>5. ASSUME NEW k \in 1 .. c, NEW j \in 1 .. m + 1
        PROVE  Passed(d[k].id, r, v, j) <=> Passed(d[k].id, r, w, j)
    <2>1. \A h \in 1 .. j - 1 : h \in 1 .. m /\ h \in 1 .. l /\ v[h] = w[h]
      BY <1>1, <1>3
    <2> QED BY <2>1 DEF Passed
  <1>6. ASSUME NEW k \in 1 .. c PROVE Through(d, k, r, v) <=> Through(d, k, r, w)
    <2>1. \A h \in 1 .. l : v[h].id = d[k].id => h \in 1 .. m /\ w[h].id = d[k].id
      BY <1>3, <1>4, IdsApart
    <2>2. \A h \in 1 .. m : h \in 1 .. l /\ v[h] = w[h]
      BY <1>1, <1>3
    <2>3. Through(d, k, r, v) <=> (\E i \in 1 .. p : r[i] = d[k].id) \/ \E h \in 1 .. l : v[h].id = d[k].id
      BY <1>1, <1>2 DEF Through, Passed
    <2>4. Through(d, k, r, w) <=> (\E i \in 1 .. p : r[i] = d[k].id) \/ \E h \in 1 .. m : w[h].id = d[k].id
      BY <1>1, <1>2 DEF Through, Passed
    <2> QED BY <2>1, <2>2, <2>3, <2>4
  <1>7. Proper(v)
    <2>1. \A j \in 1 .. m : w[j].event = "event" <=> w[j].id \in LogIds
      BY <1>1 DEF Flow, Proper
    <2> QED BY <1>1, <1>3, <2>1, IdsApart DEF Proper
  <1>8. Covered(d, r, v)
    <2>1. ASSUME NEW j \in 1 .. l, v[j].event = "event"
          PROVE  \E a \in 1 .. c : v[j].id = d[a].id /\ \A k \in 1 .. a - 1 : Passed(d[k].id, r, v, j)
      <3>1. j \in 1 .. m /\ v[j] = w[j]
        BY <1>3, <2>1
      <3>2. PICK a \in 1 .. c : w[j].id = d[a].id /\ \A k \in 1 .. a - 1 : Passed(d[k].id, r, w, j)
        BY <1>1, <1>2, <2>1, <3>1 DEF Flow, Covered
      <3>3. \A k \in 1 .. a - 1 : k \in 1 .. c
        OBVIOUS
      <3>4. j \in 1 .. m + 1
        BY <3>1
      <3> QED BY <1>5, <3>1, <3>2, <3>3, <3>4
    <2> QED BY <1>1, <1>2, <2>1 DEF Flow, Covered
  <1>9. ASSUME Ordered(d, r, w) PROVE Ordered(d, r, v)
    <2>1. \A x, y : y \in OtherIds \/ x \in OtherIds => Earlier(d, x, y)
      BY <1>2, <1>4, IdsApart DEF Earlier
    <2>2. \A i, j \in 1 .. p : i < j => Earlier(d, r[i], r[j])
      BY <1>2, <1>9 DEF Ordered
    <2>3. \A i \in 1 .. p, j \in 1 .. m : Earlier(d, r[i], w[j].id)
      BY <1>1, <1>2, <1>9 DEF Ordered
    <2>4. \A i, j \in 1 .. m : i < j => Earlier(d, w[i].id, w[j].id)
      BY <1>1, <1>9 DEF Ordered
    <2>5. \A i \in 1 .. p, j \in 1 .. l : Earlier(d, r[i], v[j].id)
      BY <1>3, <2>1, <2>3
    <2>6. \A i, j \in 1 .. l : i < j => Earlier(d, v[i].id, v[j].id)
      BY <1>3, <2>1, <2>4
    <2> QED BY <1>1, <1>2, <2>2, <2>5, <2>6 DEF Ordered
  <1> QED BY <1>1, <1>2, <1>6, <1>7, <1>8, <1>9 DEF SameFlow, Flow, Extends

LEMMA EventIds == ASSUME NEW d, Distinct(d) PROVE \A k \in 1 .. Len(d) : d[k].id \in LogIds
  <1>1. \A k \in 1 .. Len(d) : d[k] \in Events
    BY DEF Distinct
  <1> QED BY <1>1 DEF Events

(* The event after those that have passed is sent.                          *)
LEMMA FlowEvent ==
    ASSUME NEW d, NEW r, NEW w, NEW q, NEW v, Extends(v, w, q), Flow(d, r, w),
           NEW n \in Nat, n + 1 \in 1 .. Len(d), \A k \in 1 .. n : Through(d, k, r, w),
           Len(q) = 1, q[1].event = "event", q[1].id = d[n + 1].id
    PROVE  /\ Flow(d, r, v)
           /\ \A k \in 1 .. Len(d) : Through(d, k, r, v) <=> Through(d, k, r, w) \/ k = n + 1
           /\ Ordered(d, r, w) /\ (\A k \in 1 .. Len(d) : Through(d, k, r, w) => k <= n)
                => Ordered(d, r, v)
  <1>1. PICK m \in Nat : m = Len(w) /\ Len(v) = m + 1
    <2>1. Len(w) \in Nat /\ Len(v) = Len(w) + Len(q)
      BY DEF Extends
    <2> QED BY <2>1
  <1>2. PICK c \in Nat, p \in Nat : c = Len(d) /\ p = Len(r)
    BY DEF Flow, Distinct
  <1>3. \A j \in 1 .. m : j \in 1 .. m + 1 /\ v[j] = w[j]
    BY <1>1 DEF Extends
  <1>4. v[m + 1].event = "event" /\ v[m + 1].id = d[n + 1].id
    BY <1>1 DEF Extends
  <1>5. \A k \in 1 .. c : d[k].id \in LogIds
    BY <1>2, EventIds DEF Flow
  <1>6. \A a, b \in 1 .. c : d[a].id = d[b].id => a = b
    BY <1>2 DEF Flow, Distinct
  <1>7. ASSUME NEW x, NEW j \in 1 .. m + 1 PROVE Passed(x, r, v, j) <=> Passed(x, r, w, j)
    <2>1. \A h \in 1 .. j - 1 : v[h] = w[h]
      BY <1>3
    <2> QED BY <2>1 DEF Passed
  <1>8. ASSUME NEW k \in 1 .. c PROVE Through(d, k, r, v) <=> Through(d, k, r, w) \/ k = n + 1
    <2>1. Through(d, k, r, v) <=> (\E i \in 1 .. p : r[i] = d[k].id) \/ \E h \in 1 .. m + 1 : v[h].id = d[k].id
      BY <1>1, <1>2 DEF Through, Passed
    <2>2. Through(d, k, r, w) <=> (\E i \in 1 .. p : r[i] = d[k].id) \/ \E h \in 1 .. m : w[h].id = d[k].id
      BY <1>1, <1>2 DEF Through, Passed
    <2>3. \A h \in 1 .. m + 1 : h \in 1 .. m \/ h = m + 1
      OBVIOUS
    <2>4. v[m + 1].id = d[k].id <=> k = n + 1
      BY <1>2, <1>4, <1>6
    <2>5. m + 1 \in 1 .. m + 1
      OBVIOUS
    <2> QED BY <1>3, <2>1, <2>2, <2>3, <2>4, <2>5
  <1>9. Proper(v)
    <2>1. \A j \in 1 .. m : w[j].event = "event" <=> w[j].id \in LogIds
      BY <1>1 DEF Flow, Proper
    <2>2. \A j \in 1 .. m + 1 : j \in 1 .. m \/ j = m + 1
      OBVIOUS
    <2> QED BY <1>1, <1>2, <1>3, <1>4, <1>5, <2>1, <2>2 DEF Proper
  <1>10. Covered(d, r, v)
    <2>1. ASSUME NEW j \in 1 .. m + 1, v[j].event = "event"
          PROVE  \E a \in 1 .. c : v[j].id = d[a].id /\ \A k \in 1 .. a - 1 : Passed(d[k].id, r, v, j)
      <3>1. CASE j = m + 1
        <4>1. \A k \in 1 .. n : Passed(d[k].id, r, w, m + 1)
          BY <1>1 DEF Through
        <4>2. \A k \in 1 .. (n + 1) - 1 : Passed(d[k].id, r, v, j)
          BY <1>7, <3>1, <4>1
        <4> QED BY <1>2, <1>4, <3>1, <4>2
      <3>2. CASE j \in 1 .. m
        <4>1. PICK a \in 1 .. c : w[j].id = d[a].id /\ \A k \in 1 .. a - 1 : Passed(d[k].id, r, w, j)
          BY <1>1, <1>2, <1>3, <2>1, <3>2 DEF Flow, Covered
        <4> QED BY <1>3, <1>7, <3>2, <4>1
      <3> QED BY <3>1, <3>2
    <2> QED BY <1>1, <1>2, <2>1 DEF Flow, Covered
  <1>11. ASSUME Ordered(d, r, w), \A k \in 1 .. c : Through(d, k, r, w) => k <= n PROVE Ordered(d, r, v)
    <2>1. \A i, j \in 1 .. p : i < j => Earlier(d, r[i], r[j])
      BY <1>2, <1>11 DEF Ordered
    <2>2. \A i \in 1 .. p, j \in 1 .. m : Earlier(d, r[i], w[j].id)
      BY <1>1, <1>2, <1>11 DEF Ordered
    <2>3. \A i, j \in 1 .. m : i < j => Earlier(d, w[i].id, w[j].id)
      BY <1>1, <1>11 DEF Ordered
    <2>4. ASSUME NEW i \in 1 .. p PROVE Earlier(d, r[i], v[m + 1].id)
      <3>1. SUFFICES ASSUME NEW a \in 1 .. c, NEW b \in 1 .. c, d[a].id = r[i], d[b].id = v[m + 1].id
                     PROVE  a < b
        BY <1>2 DEF Earlier
      <3>2. b = n + 1
        BY <1>2, <1>4, <1>6, <3>1
      <3>3. Through(d, a, r, w)
        BY <1>2, <3>1 DEF Through, Passed
      <3> QED BY <1>11, <3>2, <3>3
    <2>5. ASSUME NEW i \in 1 .. m PROVE Earlier(d, w[i].id, v[m + 1].id)
      <3>1. SUFFICES ASSUME NEW a \in 1 .. c, NEW b \in 1 .. c, d[a].id = w[i].id, d[b].id = v[m + 1].id
                     PROVE  a < b
        BY <1>2 DEF Earlier
      <3>2. b = n + 1
        BY <1>2, <1>4, <1>6, <3>1
      <3>3. Through(d, a, r, w)
        <4>1. i \in 1 .. (m + 1) - 1
          OBVIOUS
        <4> QED BY <1>1, <3>1, <4>1 DEF Through, Passed
      <3> QED BY <1>11, <3>2, <3>3
    <2>6. \A j \in 1 .. m + 1 : j \in 1 .. m \/ j = m + 1
      OBVIOUS
    <2>7. \A i \in 1 .. p, j \in 1 .. m + 1 : Earlier(d, r[i], v[j].id)
      BY <1>3, <2>2, <2>4, <2>6
    <2>8. \A i, j \in 1 .. m + 1 : i < j => Earlier(d, v[i].id, v[j].id)
      <3> SUFFICES ASSUME NEW i \in 1 .. m + 1, NEW j \in 1 .. m + 1, i < j
                   PROVE  Earlier(d, v[i].id, v[j].id)
        OBVIOUS
      <3>1. i \in 1 .. m
        OBVIOUS
      <3> QED BY <1>3, <2>3, <2>5, <2>6, <3>1
    <2> QED BY <1>1, <1>2, <2>1, <2>7, <2>8 DEF Ordered
  <1> QED BY <1>1, <1>2, <1>8, <1>9, <1>10, <1>11 DEF Flow, Extends

(* The client receives the first frame of the wire.                         *)
Taken(r, f) == IF f.event = "event" THEN Append(r, f.id) ELSE r

LEMMA FlowReceive ==
    ASSUME NEW d, NEW r, NEW w, Flow(d, r, w), w # <<>>
    PROVE  /\ Flow(d, Taken(r, Head(w)), Tail(w))
           /\ Ordered(d, r, w) => Ordered(d, Taken(r, Head(w)), Tail(w))
           /\ \A k \in 1 .. Len(d) : Through(d, k, Taken(r, Head(w)), Tail(w)) <=> Through(d, k, r, w)
  <1>1. PICK m \in Nat : Len(w) = m + 1
    <2>1. w \in Seq(Frames) /\ Len(w) \in Nat /\ Len(w) # 0
      BY EmptySeq DEF Flow
    <2>2. Len(w) - 1 \in Nat /\ Len(w) = (Len(w) - 1) + 1
      BY <2>1
    <2> QED BY <2>2
  <1>2. PICK c \in Nat, p \in Nat : c = Len(d) /\ p = Len(r)
    BY DEF Flow, Distinct
  <1>3. PICK u, f, s : u = Tail(w) /\ f = Head(w) /\ s = Taken(r, f)
    OBVIOUS
  <1>4. /\ u \in Seq(Frames) /\ Len(u) = m /\ f = w[1] /\ f \in Frames
        /\ \A j \in 1 .. m : j + 1 \in 1 .. m + 1 /\ u[j] = w[j + 1]
    <2>1. w \in Seq(Frames)
      BY DEF Flow
    <2> QED BY <1>1, <1>3, <2>1, HeadTailProperties
  <1>5. \A k \in 1 .. c : d[k].id \in LogIds
    BY <1>2, EventIds DEF Flow
  <1>6. \A j \in 1 .. m + 1 : w[j].event = "event" <=> w[j].id \in LogIds
    BY <1>1 DEF Flow, Proper
  <1>7. \E l \in Nat : /\ l = Len(s) /\ p <= l /\ s \in Seq(LogIds) /\ \A i \in 1 .. p : s[i] = r[i]
                       /\ \A i \in 1 .. l : i \in 1 .. p \/ (i = p + 1 /\ s[i] = f.id)
                       /\ f.event = "event" => l = p + 1 /\ s[p + 1] = f.id
                       /\ f.event # "event" => l = p
    <2>1. CASE f.event = "event"
      <3>1. f.id \in LogIds
        BY <1>4, <1>6, <2>1
      <3>2. s = Append(r, f.id) /\ r \in Seq(LogIds)
        BY <1>3, <2>1 DEF Taken, Flow
      <3>3. /\ s \in Seq(LogIds) /\ Len(s) = p + 1 /\ s[p + 1] = f.id
            /\ \A i \in 1 .. p : s[i] = r[i]
        BY <1>2, <3>1, <3>2, AppendProperties
      <3> QED BY <2>1, <3>3
    <2>2. CASE f.event # "event"
      BY <1>2, <1>3, <2>2 DEF Taken, Flow
    <2> QED BY <2>1, <2>2
  <1>8. PICK l \in Nat :
           /\ l = Len(s) /\ p <= l /\ s \in Seq(LogIds) /\ \A i \in 1 .. p : s[i] = r[i]
           /\ \A i \in 1 .. l : i \in 1 .. p \/ (i = p + 1 /\ s[i] = f.id)
           /\ f.event = "event" => l = p + 1 /\ s[p + 1] = f.id
           /\ f.event # "event" => l = p
    BY <1>7
  <1>9. \A j \in 1 .. m + 1 : j = 1 \/ (j - 1 \in 1 .. m /\ w[j] = u[j - 1])
    BY <1>4
  <1>10. ASSUME NEW k \in 1 .. c, NEW j \in 1 .. m + 1
         PROVE  Passed(d[k].id, s, u, j) <=> Passed(d[k].id, r, w, j + 1)
    <2>1. Passed(d[k].id, s, u, j) <=> (\E i \in 1 .. l : s[i] = d[k].id) \/ \E h \in 1 .. j - 1 : u[h].id = d[k].id
      BY <1>8 DEF Passed
    <2>2. Passed(d[k].id, r, w, j + 1) <=> (\E i \in 1 .. p : r[i] = d[k].id) \/ \E h \in 1 .. j : w[h].id = d[k].id
      BY <1>2 DEF Passed
    <2>3. (\E i \in 1 .. l : s[i] = d[k].id) <=> (\E i \in 1 .. p : r[i] = d[k].id) \/ f.id = d[k].id
      <3>1. f.id = d[k].id => f.event = "event"
        BY <1>4, <1>5, <1>6
      <3>2. \A i \in 1 .. p : i \in 1 .. l
        BY <1>8
      <3>3. f.event = "event" => p + 1 \in 1 .. l
        BY <1>8
      <3> QED BY <1>8, <3>1, <3>2, <3>3
    <2>4. (\E h \in 1 .. j : w[h].id = d[k].id) <=> f.id = d[k].id \/ \E h \in 1 .. j - 1 : u[h].id = d[k].id
      <3>1. \A h \in 1 .. j : h = 1 \/ (h - 1 \in 1 .. j - 1 /\ w[h] = u[h - 1])
        BY <1>9
      <3>2. \A h \in 1 .. j - 1 : h + 1 \in 1 .. j /\ u[h] = w[h + 1]
        BY <1>4
      <3>3. 1 \in 1 .. j
        OBVIOUS
      <3> QED BY <1>4, <3>1, <3>2, <3>3
    <2> QED BY <2>1, <2>2, <2>3, <2>4
  <1>11. Proper(u)
    <2>1. \A j \in 1 .. m : u[j].event = "event" <=> u[j].id \in LogIds
      BY <1>4, <1>6
    <2> QED BY <1>4, <2>1 DEF Proper
  <1>12. \A i \in 1 .. p : \E a \in 1 .. c : r[i] = d[a].id /\ \A k \in 1 .. a - 1 : \E j \in 1 .. i - 1 : r[j] = d[k].id
    BY <1>2 DEF Flow, Covered
  <1>13. \A j \in 1 .. m + 1 : w[j].event = "event" =>
            \E a \in 1 .. c : w[j].id = d[a].id /\ \A k \in 1 .. a - 1 : Passed(d[k].id, r, w, j)
    BY <1>1, <1>2 DEF Flow, Covered
  <1>14. ASSUME NEW i \in 1 .. l
         PROVE  \E a \in 1 .. c : s[i] = d[a].id /\ \A k \in 1 .. a - 1 : \E j \in 1 .. i - 1 : s[j] = d[k].id
    <2>1. CASE i \in 1 .. p
      <3>1. PICK a \in 1 .. c : r[i] = d[a].id /\ \A k \in 1 .. a - 1 : \E j \in 1 .. i - 1 : r[j] = d[k].id
        BY <1>12, <2>1
      <3>2. \A j \in 1 .. i - 1 : s[j] = r[j]
        BY <1>8, <2>1
      <3> QED BY <1>8, <2>1, <3>1, <3>2
    <2>2. CASE i \notin 1 .. p
      <3>1. i = p + 1 /\ s[i] = f.id
        BY <1>8, <2>2
      <3>2. f.event = "event" /\ f = w[1] /\ 1 \in 1 .. m + 1
        BY <1>4, <1>8, <3>1
      <3>3. PICK a \in 1 .. c : f.id = d[a].id /\ \A k \in 1 .. a - 1 : Passed(d[k].id, r, w, 1)
        BY <1>13, <3>2
      <3>4. \A k \in 1 .. a - 1 : \E j \in 1 .. p : r[j] = d[k].id
        BY <1>2, <3>3 DEF Passed
      <3>5. \A j \in 1 .. p : j \in 1 .. i - 1 /\ s[j] = r[j]
        BY <1>8, <3>1
      <3> QED BY <3>1, <3>3, <3>4, <3>5
    <2> QED BY <2>1, <2>2
  <1>15. ASSUME NEW j \in 1 .. m, u[j].event = "event"
         PROVE  \E a \in 1 .. c : u[j].id = d[a].id /\ \A k \in 1 .. a - 1 : Passed(d[k].id, s, u, j)
    <2>1. j + 1 \in 1 .. m + 1 /\ u[j] = w[j + 1] /\ j \in 1 .. m + 1
      BY <1>4
    <2>2. PICK a \in 1 .. c : w[j + 1].id = d[a].id /\ \A k \in 1 .. a - 1 : Passed(d[k].id, r, w, j + 1)
      BY <1>13, <1>15, <2>1
    <2>3. \A k \in 1 .. a - 1 : k \in 1 .. c
      OBVIOUS
    <2> QED BY <1>10, <2>1, <2>2, <2>3
  <1>16. Covered(d, s, u)
    BY <1>2, <1>4, <1>8, <1>14, <1>15 DEF Covered
  <1>17. ASSUME Ordered(d, r, w) PROVE Ordered(d, s, u)
    <2>1. \A i, j \in 1 .. p : i < j => Earlier(d, r[i], r[j])
      BY <1>2, <1>17 DEF Ordered
    <2>2. \A i \in 1 .. p, j \in 1 .. m + 1 : Earlier(d, r[i], w[j].id)
      BY <1>1, <1>2, <1>17 DEF Ordered
    <2>3. \A i, j \in 1 .. m + 1 : i < j => Earlier(d, w[i].id, w[j].id)
      BY <1>1, <1>17 DEF Ordered
    <2>4. \A i \in 1 .. p : Earlier(d, r[i], f.id) /\ s[i] = r[i]
      BY <1>4, <1>8, <2>2
    <2>5. \A j \in 1 .. m : Earlier(d, f.id, u[j].id)
      BY <1>4, <2>3
    <2>6. \A i, j \in 1 .. l : i < j => Earlier(d, s[i], s[j])
      <3> SUFFICES ASSUME NEW i \in 1 .. l, NEW j \in 1 .. l, i < j PROVE Earlier(d, s[i], s[j])
        OBVIOUS
      <3>1. i \in 1 .. p /\ (j \in 1 .. p \/ s[j] = f.id)
        BY <1>8
      <3> QED BY <2>1, <2>4, <3>1
    <2>7. \A i \in 1 .. l, j \in 1 .. m : Earlier(d, s[i], u[j].id)
      <3> SUFFICES ASSUME NEW i \in 1 .. l, NEW j \in 1 .. m PROVE Earlier(d, s[i], u[j].id)
        OBVIOUS
      <3>1. (i \in 1 .. p /\ s[i] = r[i]) \/ s[i] = f.id
        BY <1>8
      <3>2. j + 1 \in 1 .. m + 1 /\ u[j] = w[j + 1]
        BY <1>4
      <3> QED BY <2>2, <2>5, <3>1, <3>2
    <2>8. \A i, j \in 1 .. m : i < j => Earlier(d, u[i].id, u[j].id)
      <3> SUFFICES ASSUME NEW i \in 1 .. m, NEW j \in 1 .. m, i < j PROVE Earlier(d, u[i].id, u[j].id)
        OBVIOUS
      <3>1. i + 1 \in 1 .. m + 1 /\ j + 1 \in 1 .. m + 1 /\ i + 1 < j + 1
        BY <1>4
      <3> QED BY <1>4, <2>3, <3>1
    <2> QED BY <1>4, <1>8, <2>6, <2>7, <2>8 DEF Ordered
  <1>18. ASSUME NEW k \in 1 .. c PROVE Through(d, k, s, u) <=> Through(d, k, r, w)
    <2>1. m + 1 \in 1 .. m + 1
      OBVIOUS
    <2> QED BY <1>1, <1>4, <1>10, <2>1 DEF Through
  <1>19. Flow(d, s, u)
    BY <1>4, <1>8, <1>11, <1>16 DEF Flow
  <1> QED BY <1>2, <1>3, <1>17, <1>18, <1>19

(* What is on the wire is lost.                                             *)
LEMMA FlowLost ==
    ASSUME NEW d, NEW r, NEW w, Flow(d, r, w)
    PROVE  Flow(d, r, <<>>) /\ (Ordered(d, r, w) => Ordered(d, r, <<>>))
  <1>1. Len(<<>>) = 0 /\ <<>> \in Seq(Frames) /\ 1 .. 0 = {}
    OBVIOUS
  <1>2. Flow(d, r, <<>>)
    BY <1>1 DEF Flow, Covered, Proper
  <1>3. Ordered(d, r, w) => Ordered(d, r, <<>>)
    BY <1>1 DEF Ordered
  <1> QED BY <1>2, <1>3

Prefix(d, e) == Distinct(e) /\ Len(d) <= Len(e) /\ \A k \in 1 .. Len(d) : e[k] = d[k]

(* Pi appends events.                                                       *)
LEMMA FlowGrows ==
    ASSUME NEW d, NEW e, NEW r, NEW w, Flow(d, r, w), Prefix(d, e)
    PROVE  /\ Flow(e, r, w) /\ (Ordered(d, r, w) => Ordered(e, r, w))
           /\ \A k \in 1 .. Len(e) : Through(e, k, r, w) <=> k <= Len(d) /\ Through(d, k, r, w)
  <1>1. PICK c \in Nat, g \in Nat, p \in Nat, m \in Nat :
           c = Len(d) /\ g = Len(e) /\ p = Len(r) /\ m = Len(w) /\ c <= g
    BY DEF Flow, Distinct, Prefix
  <1>2. /\ \A k \in 1 .. c : k \in 1 .. g /\ e[k] = d[k]
        /\ \A a, b \in 1 .. g : e[a].id = e[b].id => a = b
    BY <1>1 DEF Prefix, Distinct
  <1>3. \A k \in 1 .. g : e[k].id \in LogIds
    BY <1>1, EventIds DEF Prefix
  <1>4. \A i \in 1 .. p : \E a \in 1 .. c : r[i] = d[a].id /\ \A k \in 1 .. a - 1 : \E j \in 1 .. i - 1 : r[j] = d[k].id
    BY <1>1 DEF Flow, Covered
  <1>5. \A j \in 1 .. m : w[j].event = "event" =>
            \E a \in 1 .. c : w[j].id = d[a].id /\ \A k \in 1 .. a - 1 : Passed(d[k].id, r, w, j)
    BY <1>1 DEF Flow, Covered
  <1>6. \A j \in 1 .. m : w[j].event = "event" <=> w[j].id \in LogIds
    BY <1>1 DEF Flow, Proper
  <1>7. \A i \in 1 .. p, k \in 1 .. g : r[i] = e[k].id => k \in 1 .. c
    BY <1>2, <1>4
  <1>8. \A j \in 1 .. m, k \in 1 .. g : w[j].id = e[k].id => k \in 1 .. c
    BY <1>2, <1>3, <1>5, <1>6
  <1>9. ASSUME NEW i \in 1 .. p
        PROVE  \E a \in 1 .. g : r[i] = e[a].id /\ \A k \in 1 .. a - 1 : \E j \in 1 .. i - 1 : r[j] = e[k].id
    <2>1. PICK a \in 1 .. c : r[i] = d[a].id /\ \A k \in 1 .. a - 1 : \E j \in 1 .. i - 1 : r[j] = d[k].id
      BY <1>4
    <2>2. \A k \in 1 .. a - 1 : e[k] = d[k]
      BY <1>2
    <2> QED BY <1>2, <2>1, <2>2
  <1>10. ASSUME NEW j \in 1 .. m, w[j].event = "event"
         PROVE  \E a \in 1 .. g : w[j].id = e[a].id /\ \A k \in 1 .. a - 1 : Passed(e[k].id, r, w, j)
    <2>1. PICK a \in 1 .. c : w[j].id = d[a].id /\ \A k \in 1 .. a - 1 : Passed(d[k].id, r, w, j)
      BY <1>5, <1>10
    <2>2. \A k \in 1 .. a - 1 : e[k] = d[k]
      BY <1>2
    <2> QED BY <1>2, <2>1, <2>2
  <1>11. Flow(e, r, w)
    BY <1>1, <1>9, <1>10 DEF Flow, Covered, Prefix
  <1>12. ASSUME Ordered(d, r, w) PROVE Ordered(e, r, w)
    <2>1. \A i, j \in 1 .. p : i < j => Earlier(d, r[i], r[j])
      BY <1>1, <1>12 DEF Ordered
    <2>2. \A i \in 1 .. p, j \in 1 .. m : Earlier(d, r[i], w[j].id)
      BY <1>1, <1>12 DEF Ordered
    <2>3. \A i, j \in 1 .. m : i < j => Earlier(d, w[i].id, w[j].id)
      BY <1>1, <1>12 DEF Ordered
    <2>4. ASSUME NEW x, NEW y, Earlier(d, x, y),
                 \A a \in 1 .. g : e[a].id = x => a \in 1 .. c,
                 \A a \in 1 .. g : e[a].id = y => a \in 1 .. c
          PROVE  Earlier(e, x, y)
      BY <1>1, <1>2, <2>4 DEF Earlier
    <2>5. \A i, j \in 1 .. p : i < j => Earlier(e, r[i], r[j])
      BY <1>7, <2>1, <2>4
    <2>6. \A i \in 1 .. p, j \in 1 .. m : Earlier(e, r[i], w[j].id)
      BY <1>7, <1>8, <2>2, <2>4
    <2>7. \A i, j \in 1 .. m : i < j => Earlier(e, w[i].id, w[j].id)
      BY <1>8, <2>3, <2>4
    <2> QED BY <1>1, <2>5, <2>6, <2>7 DEF Ordered
  <1>13. ASSUME NEW k \in 1 .. g PROVE Through(e, k, r, w) <=> k <= c /\ Through(d, k, r, w)
    <2>1. \A x : Passed(x, r, w, m + 1) <=> (\E i \in 1 .. p : r[i] = x) \/ \E h \in 1 .. m : w[h].id = x
      BY <1>1 DEF Passed
    <2>2. Passed(e[k].id, r, w, m + 1) => k \in 1 .. c
      BY <1>7, <1>8, <2>1
    <2>3. k \in 1 .. c => e[k] = d[k]
      BY <1>2
    <2> QED BY <1>1, <2>2, <2>3 DEF Through
  <1> QED BY <1>1, <1>11, <1>12, <1>13

----------------------------------------------------------------------------
(* The synthetic frames.                                                    *)

LEMMA Enumerates ==
    ASSUME NEW S, IsFiniteSet(S) PROVE SetToSeq(S) \in [1 .. Cardinality(S) -> S]
  <1>1. Cardinality(S) \in Nat /\ \E f \in [1 .. Cardinality(S) -> S] : IsInjective(f)
    <2>1. PICK n \in Nat : n = Cardinality(S) /\ ExistsBijection(1 .. n, S)
      BY FS_CardinalityType
    <2>2. PICK f : f \in Bijection(1 .. n, S)
      BY <2>1 DEF ExistsBijection
    <2>3. f \in [1 .. n -> S] /\ \A a, b \in 1 .. n : f[a] = f[b] => a = b
      BY <2>2 DEF Bijection, Injection, IsInjective
    <2>4. IsInjective(f)
      BY <2>3 DEF IsInjective
    <2> QED BY <2>1, <2>3, <2>4
  <1> QED BY <1>1 DEF SetToSeq

(* u is w and frames that are of no event.                                  *)
Carries(u, w) ==
    /\ u \in Seq(Frames)
    /\ \A d, r : Flow(d, r, w) => SameFlow(d, r, w, u)
    /\ (\A j \in 1 .. Len(w) : w[j].event # "event") => \A j \in 1 .. Len(u) : u[j].event # "event"

LEMMA CarriesMore ==
    ASSUME NEW w, NEW q, NEW v, Extends(v, w, q), Synthetic(q) PROVE Carries(v, w)
  <1>1. \A d, r : Flow(d, r, w) => SameFlow(d, r, w, v)
    BY FlowSynthetic
  <1>2. ASSUME \A j \in 1 .. Len(w) : w[j].event # "event", NEW j \in 1 .. Len(v) PROVE v[j].event # "event"
    <2>1. \/ j \in 1 .. Len(w) /\ v[j] = w[j]
          \/ j - Len(w) \in 1 .. Len(q) /\ v[j] = q[j - Len(w)]
      BY <1>2 DEF Extends
    <2> QED BY <1>2, <2>1 DEF Synthetic
  <1> QED BY <1>1, <1>2 DEF Carries, Extends

LEMMA CarriesOn ==
    ASSUME NEW w, NEW u, NEW v, Carries(u, w), Carries(v, u) PROVE Carries(v, w)
  <1>1. ASSUME NEW d, NEW r, Flow(d, r, w) PROVE SameFlow(d, r, w, v)
    <2>1. SameFlow(d, r, w, u)
      BY <1>1 DEF Carries
    <2>2. SameFlow(d, r, u, v)
      BY <2>1 DEF Carries, SameFlow
    <2> QED BY <2>1, <2>2 DEF SameFlow
  <1> QED BY <1>1 DEF Carries

(* What q says of the status, when a was said last before it.               *)
Quiet(q) == \A j \in 1 .. Len(q) : q[j].event \notin Statuses

Says(q, a, b) == (Quiet(q) /\ a = b) \/ (Len(q) = 1 /\ q[1].event = b /\ b \in Statuses)

LEMMA SaidMore ==
    ASSUME NEW w, NEW q, NEW v, NEW t, NEW a, NEW b, Extends(v, w, q), Said(w, t, a), Says(q, a, b)
    PROVE  Said(v, t, b)
  <1>1. PICK m \in Nat, n \in Nat : m = Len(w) /\ n = Len(q) /\ Len(v) = m + n
    BY DEF Extends
  <1>2. \A j \in 1 .. m + n : (j \in 1 .. m /\ v[j] = w[j]) \/ (j - m \in 1 .. n /\ v[j] = q[j - m])
    BY <1>1 DEF Extends
  <1>3. \A j \in 1 .. n : m + j \in 1 .. m + n /\ v[m + j] = q[j]
    BY <1>1 DEF Extends
  <1>4. \A j \in 1 .. m : j \in 1 .. m + n /\ v[j] = w[j]
    BY <1>1 DEF Extends
  <1>5. CASE Quiet(q) /\ a = b
    <2>1. \A j \in 1 .. n : q[j].event \notin Statuses
      BY <1>1, <1>5 DEF Quiet
    <2>2. \A j \in 1 .. m + n : v[j].event \in Statuses => j \in 1 .. m /\ v[j] = w[j]
      BY <1>2, <2>1
    <2>3. (\A j \in 1 .. m + n : v[j].event \notin Statuses) => t = b
      <3>1. (\A j \in 1 .. m : w[j].event \notin Statuses) => t = a
        BY <1>1 DEF Said
      <3> QED BY <1>4, <1>5, <3>1
    <2>4. ASSUME NEW j \in 1 .. m + n, v[j].event \in Statuses,
                 \A h \in j + 1 .. m + n : v[h].event \notin Statuses
          PROVE  v[j].event = b
      <3>1. j \in 1 .. m /\ v[j] = w[j]
        BY <2>2, <2>4
      <3>2. \A h \in j + 1 .. m : h \in j + 1 .. m + n /\ v[h] = w[h]
        BY <1>4
      <3>3. \A h \in j + 1 .. m : w[h].event \notin Statuses
        BY <2>4, <3>2
      <3> QED BY <1>1, <1>5, <2>4, <3>1, <3>3 DEF Said
    <2> QED BY <1>1, <2>3, <2>4 DEF Said
  <1>6. CASE n = 1 /\ q[1].event = b /\ b \in Statuses
    <2>1. m + 1 \in 1 .. m + n /\ v[m + 1].event = b
      BY <1>3, <1>6
    <2>2. ASSUME NEW j \in 1 .. m + n, v[j].event \in Statuses,
                 \A h \in j + 1 .. m + n : v[h].event \notin Statuses
          PROVE  v[j].event = b
      <3>1. m + 1 \notin j + 1 .. m + n
        BY <1>6, <2>1, <2>2
      <3>2. j = m + 1
        BY <1>6, <3>1
      <3> QED BY <2>1, <3>2
    <2> QED BY <1>1, <1>6, <2>1, <2>2 DEF Said
  <1> QED BY <1>1, <1>5, <1>6 DEF Says

LEMMA StatusFramesSay ==
    ASSUME TypeOK
    PROVE  /\ Synthetic(StatusFrames)
           /\ Says(StatusFrames, lastStatus, IF status = "gone" THEN lastStatus ELSE status)
  <1>0. status \in Statuses /\ lastStatus \in Statuses
    BY DEF TypeOK
  <1>1. CASE status \in {"gone", lastStatus}
    <2>1. StatusFrames = <<>> /\ Len(<<>>) = 0 /\ <<>> \in Seq(Frames)
      BY <1>1 DEF StatusFrames
    <2> QED BY <1>1, <2>1 DEF Synthetic, Says, Quiet
  <1>2. CASE status \notin {"gone", lastStatus}
    <2>1. PICK f : f = Frame(status, NoId)
      OBVIOUS
    <2>2. f.event = status /\ f.id \in OtherIds /\ f \in Frames /\ status # "event"
      BY <1>0, <2>1 DEF Frame, NoId, OtherIds, Frames, FrameEvents, Statuses
    <2>3. StatusFrames = <<f>>
      BY <1>2, <2>1 DEF StatusFrames
    <2>4. <<f>> \in Seq(Frames) /\ Len(<<f>>) = 1 /\ <<f>>[1] = f
      BY <2>2
    <2>5. \A j \in 1 .. 1 : j = 1
      OBVIOUS
    <2> QED BY <1>0, <1>2, <2>2, <2>3, <2>4, <2>5 DEF Synthetic, Says
  <1> QED BY <1>1, <1>2

LEMMA ContainerFramesSay ==
    ASSUME TypeOK PROVE Synthetic(ContainerFrames) /\ Quiet(ContainerFrames)
  <1>0. box \in Nat
    BY StreamAssumption DEF TypeOK
  <1>1. PICK f, g : f = Frame("container_detached", NoId) /\ g = Frame("container_attached", <<"container", box, 0>>)
    OBVIOUS
  <1>2. /\ f.event = "container_detached" /\ f.id \in OtherIds /\ f \in Frames
        /\ g.event = "container_attached" /\ g.id \in OtherIds /\ g \in Frames
    BY <1>0, <1>1 DEF Frame, NoId, OtherIds, Frames, FrameEvents
  <1>3. f.event \notin Statuses \cup {"event"} /\ g.event \notin Statuses \cup {"event"}
    BY <1>2 DEF Statuses
  <1>4. ContainerFrames = <<>> \/ ContainerFrames = <<f>> \/ ContainerFrames = <<g>>
    BY <1>1 DEF ContainerFrames
  <1>5. \A h \in {f, g} : Synthetic(<<h>>) /\ Quiet(<<h>>)
    BY <1>2, <1>3 DEF Synthetic, Quiet
  <1>6. Synthetic(<<>>) /\ Quiet(<<>>)
    BY DEF Synthetic, Quiet
  <1> QED BY <1>4, <1>5, <1>6

LEMMA ApprovalFramesSay ==
    ASSUME TypeOK PROVE Synthetic(ApprovalFrames) /\ Quiet(ApprovalFrames)
  <1>1. PICK S : S = pending \ told
    OBVIOUS
  <1>2. IsFiniteSet(S) /\ S \subseteq Nat
    <2>1. S \subseteq Approvals
      BY <1>1 DEF TypeOK
    <2> QED BY <2>1, StreamAssumption, FS_Subset
  <1>2a. PICK n \in Nat : n = Cardinality(S)
    BY <1>2, FS_CardinalityType
  <1>3. PICK new : new = SetToSeq(S) /\ new \in [1 .. n -> S]
    BY <1>2, <1>2a, Enumerates
  <1>4. PICK q : q = [i \in 1 .. n |-> Frame("tool_confirmation_request", <<"approval", new[i], 0>>)]
    OBVIOUS
  <1>5. ApprovalFrames = q
    <2>1. DOMAIN new = 1 .. n
      BY <1>3
    <2> QED BY <1>1, <1>2a, <1>3, <1>4, <2>1 DEF ApprovalFrames
  <1>6. ASSUME NEW i \in 1 .. n
        PROVE  q[i] \in Frames /\ q[i].event = "tool_confirmation_request" /\ q[i].id \in OtherIds
    <2>1. new[i] \in Nat
      BY <1>2, <1>3
    <2>2. q[i] = Frame("tool_confirmation_request", <<"approval", new[i], 0>>)
      BY <1>4
    <2> QED BY <2>1, <2>2 DEF Frame, OtherIds, Frames, FrameEvents
  <1>7. q \in Seq(Frames) /\ Len(q) = n
    BY <1>4, <1>6
  <1>8. \A i \in 1 .. n : q[i].event # "event" /\ q[i].event \notin Statuses
    BY <1>6 DEF Statuses
  <1> QED BY <1>5, <1>6, <1>7, <1>8 DEF Synthetic, Quiet

(* pollSyntheticEvents: frames that carry no event, and say the status.     *)
LEMMA Polled ==
    ASSUME TypeOK, wire \in Seq(Frames), NEW rest \in Seq(Frames), PollSynthetic(rest)
    PROVE  \E u : /\ Carries(u, wire) /\ Extends(wire', u, rest)
                  /\ Said(wire, shown, lastStatus) => Said(u, shown, lastStatus')
  <1>1. PICK S, C, A : S = StatusFrames /\ C = ContainerFrames /\ A = ApprovalFrames
    OBVIOUS
  <1>2. /\ Synthetic(S) /\ Synthetic(C) /\ Synthetic(A) /\ Quiet(C) /\ Quiet(A)
        /\ Says(S, lastStatus, lastStatus')
    BY <1>1, StatusFramesSay, ContainerFramesSay, ApprovalFramesSay DEF PollSynthetic
  <1>3. PICK w, x, y, z : w = wire /\ x = w \o S /\ y = x \o C /\ z = y \o A
    OBVIOUS
  <1>4. Carries(x, w) /\ Extends(x, w, S)
    <2>1. Extends(x, w, S)
      BY <1>2, <1>3, ConcatExtends DEF Synthetic, Carries
    <2> QED BY <1>2, <2>1, CarriesMore
  <1>5. Carries(y, x) /\ Extends(y, x, C)
    <2>1. Extends(y, x, C)
      BY <1>2, <1>3, <1>4, ConcatExtends DEF Synthetic, Carries
    <2> QED BY <1>2, <2>1, CarriesMore
  <1>6. Carries(z, y) /\ Extends(z, y, A)
    <2>1. Extends(z, y, A)
      BY <1>2, <1>3, <1>5, ConcatExtends DEF Synthetic, Carries
    <2> QED BY <1>2, <2>1, CarriesMore
  <1>7. Carries(z, w)
    BY <1>4, <1>5, <1>6, CarriesOn
  <1>8. wire' = z \o rest
    BY <1>1, <1>3 DEF PollSynthetic
  <1>9. Extends(wire', z, rest)
    BY <1>6, <1>8, ConcatExtends DEF Carries
  <1>10. PICK a, b, t : a = lastStatus /\ b = lastStatus' /\ t = shown
    OBVIOUS
  <1>11. ASSUME Said(w, t, a) PROVE Said(z, t, b)
    <2>1. Said(x, t, b)
      BY <1>2, <1>4, <1>10, <1>11, SaidMore
    <2>2. Says(C, b, b) /\ Says(A, b, b)
      BY <1>2 DEF Says
    <2>3. Said(y, t, b)
      BY <1>5, <2>1, <2>2, SaidMore
    <2> QED BY <1>6, <2>2, <2>3, SaidMore
  <1> QED BY <1>3, <1>7, <1>9, <1>10, <1>11

LEMMA PolledOnly ==
    ASSUME TypeOK, wire \in Seq(Frames), PollSynthetic(<<>>)
    PROVE  Carries(wire', wire) /\ (Said(wire, shown, lastStatus) => Said(wire', shown, lastStatus'))
  <1>1. <<>> \in Seq(Frames) /\ Len(<<>>) = 0
    OBVIOUS
  <1>2. PICK u : /\ Carries(u, wire) /\ Extends(wire', u, <<>>)
                 /\ Said(wire, shown, lastStatus) => Said(u, shown, lastStatus')
    BY <1>1, Polled
  <1>3. Synthetic(<<>>) /\ \A a : Says(<<>>, a, a)
    BY <1>1 DEF Synthetic, Says, Quiet
  <1>4. PICK v, w, t, b : v = wire' /\ w = wire /\ t = shown /\ b = lastStatus'
    OBVIOUS
  <1>5. Carries(v, w)
    BY <1>2, <1>3, <1>4, CarriesMore, CarriesOn
  <1>6. Said(u, t, b) => Said(v, t, b)
    BY <1>2, <1>3, <1>4, SaidMore
  <1> QED BY <1>2, <1>4, <1>5, <1>6

----------------------------------------------------------------------------
(* The types.                                                               *)

LEMMA Typed == ASSUME TypeOK, LogInv, [Next]_vars PROVE TypeOK'
  <1>0. MaxLines \in Nat /\ MaxRuns \in Nat /\ MaxClaims \in Nat /\ MaxConnections \in Nat
    BY StreamAssumption
  <1> USE DEF TypeOK, session, file, handler, client
  <1>1. ASSUME BeginLine \/ BeginRun \/ EndRun \/ ReleaseContainer \/ ApprovalResolved \/ DeleteSession
        PROVE  TypeOK'
    <2>1. CASE BeginLine
      BY <2>1 DEF BeginLine
    <2>2. CASE BeginRun
      BY <1>0, <2>2 DEF BeginRun, Statuses
    <2>3. CASE EndRun
      BY <2>3 DEF EndRun, Running, Statuses
    <2>4. CASE ReleaseContainer
      BY <2>4 DEF ReleaseContainer
    <2>5. CASE ApprovalResolved
      BY <2>5 DEF ApprovalResolved
    <2>6. CASE DeleteSession
      BY <2>6 DEF DeleteSession, Statuses
    <2> QED BY <1>1, <2>1, <2>2, <2>3, <2>4, <2>5, <2>6
  <1>2. ASSUME AppendLine PROVE TypeOK'
    <2>1. log \in Seq(Lines) /\ \E line \in Lines : log' = Append(log, line)
      BY <1>2, StreamAssumption DEF AppendLine, LogInv
    <2>2. Len(log') = Len(log) + 1 /\ Len(log) \in Nat
      BY <2>1, AppendProperties
    <2>3. Len(log') <= MaxLines
      BY <1>0, <1>2, <2>2 DEF AppendLine
    <2> QED BY <1>2, <2>3 DEF AppendLine
  <1>3. ASSUME ClaimContainer PROVE TypeOK'
    BY <1>0, <1>3 DEF ClaimContainer, Statuses
  <1>4. ASSUME ApprovalArrives PROVE TypeOK'
    BY <1>4 DEF ApprovalArrives
  <1>5. ASSUME Open PROVE TypeOK'
    <2>1. /\ pc' = "greet" /\ idle' = FALSE /\ lastStatus' = status /\ lastBox' = 0 /\ told' = {}
          /\ opened < MaxConnections /\ opened' = opened + 1 /\ UNCHANGED <<session, file, shown, foreign>>
      BY <1>5 DEF Open
    <2>2. opened' \in 0 .. MaxConnections /\ 0 \in 0 .. claims
      BY <1>0, <2>1
    <2> QED BY <2>1, <2>2 DEF Serving
  <1>6. ASSUME NEW rest, PollSynthetic(rest)
        PROVE  lastStatus' \in Statuses /\ (box \in {0, claims} => lastBox' \in 0 .. claims)
               /\ told' \subseteq asked
    BY <1>0, <1>6 DEF PollSynthetic
  <1>7. ASSUME Greet \/ SyntheticTick PROVE TypeOK'
    BY <1>6, <1>7 DEF Greet, SyntheticTick, Serving
  <1>8. ASSUME Yield PROVE TypeOK'
    <2>1. \E rest : PollSynthetic(rest)
      BY <1>8 DEF Yield
    <2> QED BY <1>6, <1>8, <2>1 DEF Yield, Serving
  <1>9. ASSUME CatchUp \/ Check \/ TimePasses \/ Disconnect PROVE TypeOK'
    <2>1. CASE CatchUp
      <3>1. /\ pc' \in {"sleep", "pass"} /\ foreign' \in BOOLEAN
            /\ UNCHANGED <<session, file, idle, lastStatus, lastBox, told, shown, opened>>
        BY <2>1 DEF CatchUp
      <3> QED BY <3>1 DEF Serving
    <2>2. CASE Check
      BY <2>2 DEF Check, Serving
    <2>3. CASE TimePasses
      BY <2>3 DEF TimePasses
    <2>4. CASE Disconnect
      <3>1. /\ pc' = "off" /\ shown' = "unknown"
            /\ UNCHANGED <<session, file, idle, lastStatus, lastBox, told, opened, foreign>>
        BY <2>4 DEF Disconnect
      <3> QED BY <3>1
    <2> QED BY <1>9, <2>1, <2>2, <2>3, <2>4
  <1>10. ASSUME Poll PROVE TypeOK'
    BY <1>0, <1>10 DEF Poll, End, Serving
  <1>11. ASSUME Receive PROVE TypeOK'
    <2>1. shown' \in Statuses \cup {"unknown"}
      BY <1>11 DEF Receive
    <2> QED BY <1>11, <2>1 DEF Receive
  <1>12. ASSUME UNCHANGED vars PROVE TypeOK'
    BY <1>12 DEF vars
  <1> QED BY <1>1, <1>2, <1>3, <1>4, <1>5, <1>7, <1>8, <1>9, <1>10, <1>11, <1>12 DEF Next, SessionStep

----------------------------------------------------------------------------
(* The steps keep the invariant.                                            *)

Kept == LogInv /\ FlowInv /\ CursorInv /\ HandlerInv /\ StatusInv

LEMMA LogIsDistinct == LogInv => Distinct(All)
  BY DEF LogInv, Distinct

LEMMA FlowIs ==
    LogInv => (FlowInv <=> Flow(All, received, wire) /\ (~foreign => Ordered(All, received, wire)))
  BY LogIsDistinct DEF FlowInv, Flow

LEMMA FlowIsNext ==
    ASSUME LogInv'
    PROVE  FlowInv' <=> Flow(All', received', wire') /\ (~foreign' => Ordered(All', received', wire'))
  <1>1. Distinct(All')
    BY DEF LogInv, Distinct
  <1> QED BY <1>1 DEF FlowInv, Flow

LEMMA CursorStays ==
    ASSUME LogInv, CursorInv, UNCHANGED <<log, cursor, received>>, foreign => foreign' PROVE CursorInv'
  <1>1. All' = All
    BY LogStays
  <1>2. PICK d, x, r : d = All /\ x = cursor /\ r = received
    OBVIOUS
  <1>3. All' = d /\ cursor' = x /\ received' = r
    BY <1>1, <1>2
  <1>4. ~foreign' => ~foreign
    OBVIOUS
  <1> QED BY <1>2, <1>3, <1>4 DEF CursorInv

(* Frames of no event leave what has passed as it is.                       *)
LEMMA KeepsFlow ==
    ASSUME LogInv, FlowInv, Carries(wire', wire), UNCHANGED <<log, received, foreign>>
    PROVE  /\ LogInv' /\ FlowInv' /\ All' = All
           /\ \A k \in 1 .. Len(All) : Through(All, k, received', wire') <=> Through(All, k, received, wire)
  <1>1. LogInv' /\ All' = All
    BY LogStays
  <1>2. PICK d, r, w, v : d = All /\ r = received /\ w = wire /\ v = wire'
    OBVIOUS
  <1>3. Flow(d, r, w) /\ (~foreign => Ordered(d, r, w))
    BY <1>2, FlowIs
  <1>4. SameFlow(d, r, w, v)
    BY <1>2, <1>3 DEF Carries
  <1>5. received' = r /\ All' = d
    BY <1>1, <1>2
  <1>6. FlowInv'
    BY <1>1, <1>2, <1>3, <1>4, <1>5, FlowIsNext DEF SameFlow
  <1> QED BY <1>1, <1>2, <1>4, <1>5, <1>6 DEF SameFlow

LEMMA SessionKeeps ==
    ASSUME Kept, UNCHANGED <<log, handler, client>>, status = "gone" => status' = "gone" PROVE Kept'
  <1>1. /\ UNCHANGED <<pc, todo, seen, lastStatus, wire, cursor, received, shown, foreign>>
        /\ LogInv /\ FlowInv /\ CursorInv /\ HandlerInv /\ StatusInv
    BY DEF Kept, handler, client
  <1>2. LogInv' /\ All' = All
    BY <1>1, LogStays
  <1>3. FlowInv'
    BY <1>1, <1>2 DEF FlowInv
  <1>4. CursorInv'
    BY <1>1, CursorStays
  <1>5. HandlerInv'
    <2>1. ASSUME pc \in {"pass", "check", "sleep"}
          PROVE  \E n \in 0 .. Len(All) : Reading(All, n, seen, todo, received, wire, Current')
      <3>1. PICK n \in 0 .. Len(All) : Reading(All, n, seen, todo, received, wire, Current)
        BY <1>1, <2>1 DEF HandlerInv
      <3>2. Current' => Current
        BY <1>1 DEF Current
      <3> QED BY <3>1, <3>2 DEF Reading
    <2> QED BY <1>1, <1>2, <2>1 DEF HandlerInv
  <1>6. StatusInv'
    BY <1>1 DEF StatusInv
  <1> QED BY <1>2, <1>3, <1>4, <1>5, <1>6 DEF Kept

LEMMA AppendKeeps == ASSUME Kept, AppendLine PROVE Kept'
  <1>1. /\ UNCHANGED <<pc, todo, seen, lastStatus, wire, cursor, received, shown, foreign, status>>
        /\ LogInv /\ FlowInv /\ CursorInv /\ HandlerInv /\ StatusInv /\ status # "gone"
    BY DEF Kept, AppendLine, session, handler, client
  <1>2. PICK line \in Lines : log' = Append(log, line)
    BY StreamAssumption DEF AppendLine
  <1>3. LogInv' /\ Len(All) <= Len(All') /\ \A i \in 1 .. Len(All) : All'[i] = All[i]
    BY <1>1, <1>2, LogGrows
  <1>4. PICK d, e, r, w : d = All /\ e = All' /\ r = received /\ w = wire
    OBVIOUS
  <1>5. Prefix(d, e)
    <2>1. Distinct(e)
      BY <1>3, <1>4 DEF LogInv, Distinct
    <2> QED BY <1>3, <1>4, <2>1 DEF Prefix
  <1>6. Flow(d, r, w) /\ (~foreign => Ordered(d, r, w))
    BY <1>1, <1>4, FlowIs
  <1>7. /\ Flow(e, r, w) /\ (Ordered(d, r, w) => Ordered(e, r, w))
        /\ \A k \in 1 .. Len(e) : Through(e, k, r, w) <=> k <= Len(d) /\ Through(d, k, r, w)
    BY <1>5, <1>6, FlowGrows
  <1>8. FlowInv'
    BY <1>1, <1>3, <1>4, <1>6, <1>7, FlowIsNext
  <1>9. PICK c \in Nat, g \in Nat, p \in Nat : c = Len(d) /\ g = Len(e) /\ p = Len(r) /\ c <= g
    BY <1>5, <1>6 DEF Prefix, Flow, Distinct
  <1>10. CursorInv'
    <2>1. PICK x : x = cursor
      OBVIOUS
    <2>2. /\ x \in LogIds \cup OtherIds /\ (x \in LogIds => \E i \in 1 .. p : r[i] = x)
          /\ (x = NoId => r = <<>>)
          /\ ~foreign => \A i \in 1 .. p, a, b \in 1 .. c : r[i] = d[a].id /\ x = d[b].id => a <= b
      BY <1>1, <1>4, <1>9, <2>1 DEF CursorInv
    <2>3. \A i \in 1 .. p, a \in 1 .. g : r[i] = e[a].id => a \in 1 .. c /\ e[a] = d[a]
      <3>1. \A i \in 1 .. p : \E b \in 1 .. c : r[i] = d[b].id
        BY <1>6, <1>9 DEF Flow, Covered
      <3>2. /\ \A b \in 1 .. c : b \in 1 .. g /\ e[b] = d[b]
            /\ \A a, b \in 1 .. g : e[a].id = e[b].id => a = b
        BY <1>5, <1>9 DEF Prefix, Distinct
      <3> QED BY <3>1, <3>2
    <2>4. \A b \in 1 .. g : e[b].id \in LogIds
      BY <1>5, <1>9, EventIds DEF Prefix
    <2>5. ASSUME ~foreign, NEW i \in 1 .. p, NEW a \in 1 .. g, NEW b \in 1 .. g,
                 r[i] = e[a].id, x = e[b].id
          PROVE  a <= b
      <3>1. a \in 1 .. c /\ e[a] = d[a]
        BY <2>3, <2>5
      <3>2. b \in 1 .. c /\ e[b] = d[b]
        BY <2>2, <2>3, <2>4, <2>5
      <3> QED BY <2>2, <2>5, <3>1, <3>2
    <2> QED BY <1>1, <1>4, <1>9, <2>1, <2>2, <2>5 DEF CursorInv
  <1>11. HandlerInv'
    <2>1. ASSUME pc \in {"pass", "check", "sleep"}
          PROVE  \E n \in 0 .. g : Reading(e, n, seen, todo, r, w, Current')
      <3>1. PICK n \in 0 .. c : Reading(d, n, seen, todo, r, w, Current)
        BY <1>1, <1>4, <1>9, <2>1 DEF HandlerInv
      <3>2. Current' => Current
        BY <1>1 DEF Current
      <3>3. PICK s, t : s = seen /\ t = todo
        OBVIOUS
      <3>4. PICK l \in Nat : l = Len(t)
        BY <1>1, <3>3 DEF HandlerInv
      <3>5. /\ n + l <= c /\ s = {d[k].id : k \in 1 .. n + l} /\ \A q \in 1 .. l : t[q].id = d[n + q].id
            /\ \A k \in 1 .. n : Through(d, k, r, w)
            /\ Current => \A k \in 1 .. c : Through(d, k, r, w) => k <= n
        BY <1>9, <3>1, <3>3, <3>4 DEF Reading
      <3>6. \A k \in 1 .. n + l : k \in 1 .. c /\ e[k] = d[k]
        BY <1>5, <1>9, <3>5 DEF Prefix
      <3>7. s = {e[k].id : k \in 1 .. n + l}
        BY <3>5, <3>6
      <3>8. \A q \in 1 .. l : t[q].id = e[n + q].id
        <4>1. \A q \in 1 .. l : n + q \in 1 .. n + l
          OBVIOUS
        <4> QED BY <3>5, <3>6, <4>1
      <3>9. \A k \in 1 .. n : Through(e, k, r, w)
        <4>1. \A k \in 1 .. n : k \in 1 .. g /\ k <= c
          BY <1>9
        <4> QED BY <1>7, <1>9, <3>5, <4>1
      <3>10. Current' => \A k \in 1 .. g : Through(e, k, r, w) => k <= n
        <4>1. \A k \in 1 .. g : k <= c => k \in 1 .. c
          OBVIOUS
        <4> QED BY <1>7, <1>9, <3>2, <3>5, <4>1
      <3>11. n \in 0 .. g /\ n + l <= g
        BY <1>9, <3>5
      <3> QED BY <1>9, <3>3, <3>4, <3>7, <3>8, <3>9, <3>10, <3>11 DEF Reading
    <2> QED BY <1>1, <1>4, <1>9, <2>1 DEF HandlerInv
  <1>12. StatusInv'
    BY <1>1 DEF StatusInv
  <1> QED BY <1>3, <1>8, <1>10, <1>11, <1>12 DEF Kept

(* The first synthetic frames, and those of the interval.                   *)
LEMMA SyntheticKeeps ==
    ASSUME TypeOK, Kept, PollSynthetic(<<>>),
           UNCHANGED <<log, status, received, foreign, cursor, todo, seen, shown>>,
           \/ pc \in Serving \ {"greet"} /\ pc' = pc
           \/ pc = "greet" /\ pc' = "catchup"
    PROVE  Kept'
  <1>1. LogInv /\ FlowInv /\ CursorInv /\ HandlerInv /\ StatusInv
    BY DEF Kept
  <1>2. Carries(wire', wire) /\ (Said(wire, shown, lastStatus) => Said(wire', shown, lastStatus'))
    BY <1>1, PolledOnly DEF FlowInv
  <1>3. /\ LogInv' /\ FlowInv' /\ All' = All
        /\ \A k \in 1 .. Len(All) : Through(All, k, received', wire') <=> Through(All, k, received, wire)
    BY <1>1, <1>2, KeepsFlow
  <1>4. CursorInv'
    BY <1>1, CursorStays
  <1>5. todo' \in Seq(Events) /\ (todo' # <<>> <=> pc' = "pass")
    BY <1>1 DEF HandlerInv
  <1>6. pc' \in {"off", "greet", "catchup"} => \A j \in 1 .. Len(wire') : wire'[j].event # "event"
    <2>1. pc' \in {"off", "greet", "catchup"} => pc \in {"off", "greet", "catchup"}
      OBVIOUS
    <2> QED BY <1>1, <1>2, <2>1 DEF HandlerInv, Carries
  <1>7. ASSUME pc' \in {"pass", "check", "sleep"}
        PROVE  \E n \in 0 .. Len(All) : Reading(All, n, seen, todo, received, wire', Current)
    <2>1. pc \in {"pass", "check", "sleep"}
      BY <1>7
    <2>2. PICK n \in 0 .. Len(All) : Reading(All, n, seen, todo, received, wire, Current)
      BY <1>1, <2>1 DEF HandlerInv
    <2>3. \A k \in 1 .. n : k \in 1 .. Len(All)
      BY <1>1 DEF LogInv
    <2> QED BY <1>3, <2>2, <2>3 DEF Reading
  <1>8. Current' = Current
    BY DEF Current
  <1>9. HandlerInv'
    BY <1>3, <1>5, <1>6, <1>7, <1>8 DEF HandlerInv
  <1>10. StatusInv'
    BY <1>1, <1>2 DEF StatusInv, Serving
  <1> QED BY <1>3, <1>4, <1>9, <1>10 DEF Kept

LEMMA OpenKeeps == ASSUME TypeOK, Kept, Open PROVE Kept'
  <1>1. /\ LogInv /\ FlowInv /\ CursorInv
        /\ UNCHANGED <<log, received, foreign, cursor>> /\ status \in Statuses
        /\ pc' = "greet" /\ todo' = <<>> /\ lastStatus' = status /\ wire' = <<Frame(status, NoId)>>
    BY DEF Kept, Open, session, file, TypeOK
  <1>2. PICK f, v, d, r, w : f = Frame(status, NoId) /\ v = wire' /\ d = All /\ r = received /\ w = wire
    OBVIOUS
  <1>3. f \in Frames /\ f.event = status /\ f.event # "event" /\ f.event \in Statuses /\ f.id \in OtherIds
    BY <1>1, <1>2 DEF Frame, NoId, OtherIds, Frames, FrameEvents, Statuses
  <1>4. /\ v = <<f>> /\ v \in Seq(Frames) /\ Len(v) = 1 /\ v[1] = f /\ \A j \in 1 .. 1 : j = 1
        /\ <<>> \in Seq(Frames) /\ Len(<<>>) = 0
    BY <1>1, <1>2, <1>3
  <1>5. LogInv' /\ All' = All
    BY <1>1, LogStays
  <1>6. Flow(d, r, <<>>) /\ (~foreign => Ordered(d, r, <<>>))
    <2>1. Flow(d, r, w) /\ (~foreign => Ordered(d, r, w))
      BY <1>1, <1>2, FlowIs
    <2> QED BY <2>1, FlowLost
  <1>7. SameFlow(d, r, <<>>, v)
    <2>1. Synthetic(v)
      BY <1>3, <1>4 DEF Synthetic
    <2>2. Extends(v, <<>>, v)
      BY <1>4 DEF Extends
    <2> QED BY <1>6, <2>1, <2>2, FlowSynthetic
  <1>8. FlowInv'
    <2>1. received' = r /\ All' = d /\ wire' = v
      BY <1>1, <1>2, <1>5
    <2> QED BY <1>1, <1>5, <1>6, <1>7, <2>1, FlowIsNext DEF SameFlow
  <1>9. CursorInv'
    BY <1>1, CursorStays
  <1>10. HandlerInv'
    <2>1. \A j \in 1 .. Len(v) : v[j].event # "event"
      BY <1>3, <1>4
    <2> QED BY <1>1, <1>2, <2>1 DEF HandlerInv
  <1>11. StatusInv'
    <2>1. lastStatus' = f.event
      BY <1>1, <1>3
    <2> QED BY <1>2, <1>3, <1>4, <2>1 DEF StatusInv, Said
  <1> QED BY <1>5, <1>8, <1>9, <1>10, <1>11 DEF Kept

(* The cursor's event is the last that passed, and all before it have.      *)
LEMMA SkippedIs ==
    ASSUME LogInv, status # "gone"
    PROVE  \/ Cardinality(Skipped(OnDisk)) = 0 /\ \A k \in 1 .. Len(All) : All[k].id # cursor
           \/ Cardinality(Skipped(OnDisk)) \in 1 .. Len(All) /\ All[Cardinality(Skipped(OnDisk))].id = cursor
  <1>1. PICK d, x : d = All /\ x = cursor
    OBVIOUS
  <1>2. PICK c \in Nat : c = Len(d)
    BY <1>1 DEF LogInv
  <1>3. DOMAIN d = 1 .. c /\ \A a, b \in 1 .. c : d[a].id = d[b].id => a = b
    BY <1>1, <1>2 DEF LogInv
  <1>4. OnDisk = d
    BY <1>1 DEF OnDisk, All
  <1>5. PICK at : at = {i \in 1 .. c : d[i].id = x}
    OBVIOUS
  <1>6. Skipped(d) = IF at = {} THEN {} ELSE 1 .. (CHOOSE i \in at : TRUE)
    BY <1>1, <1>3, <1>5 DEF Skipped
  <1>7. CASE at = {}
    <2>1. Cardinality(Skipped(OnDisk)) = 0
      BY <1>4, <1>6, <1>7, FS_EmptySet
    <2> QED BY <1>1, <1>2, <1>5, <1>7, <2>1
  <1>8. CASE at # {}
    <2>1. PICK i \in at : i = CHOOSE j \in at : TRUE
      BY <1>8
    <2>2. i \in 1 .. c /\ d[i].id = x
      BY <1>5, <2>1
    <2>3. Cardinality(1 .. i) = i
      BY <2>2, FS_Interval
    <2>4. Cardinality(Skipped(OnDisk)) = i
      BY <1>4, <1>6, <1>8, <2>1, <2>3
    <2> QED BY <1>1, <1>2, <2>2, <2>4
  <1> QED BY <1>7, <1>8

(* What a read of the log leaves to a pass, and marks as seen.              *)
LEMMA RestIs ==
    ASSUME NEW d \in Seq(Events), NEW n \in 0 .. Len(d), NEW t, t = SubSeq(d, n + 1, Len(d))
    PROVE  /\ t \in Seq(Events) /\ Len(t) = Len(d) - n
           /\ \A q \in 1 .. Len(t) : t[q] = d[n + q]
           /\ ToSet(Ids(t)) = {d[k].id : k \in n + 1 .. Len(d)}
  <1>1. PICK c \in Nat : c = Len(d)
    OBVIOUS
  <1>2. t \in Seq(Events) /\ Len(t) = c - n /\ \A q \in 1 .. c - n : t[q] = d[n + q]
    BY <1>1, SubSeqProperties
  <1>3. ToSet(Ids(t)) = {t[q].id : q \in 1 .. c - n}
    <2>1. DOMAIN t = 1 .. c - n
      BY <1>1, <1>2
    <2> QED BY <2>1 DEF ToSet, Ids
  <1>4. \A q \in 1 .. c - n : n + q \in n + 1 .. c
    OBVIOUS
  <1>5. \A k \in n + 1 .. c : k - n \in 1 .. c - n /\ n + (k - n) = k
    OBVIOUS
  <1>6. {t[q].id : q \in 1 .. c - n} = {d[k].id : k \in n + 1 .. c}
    <2>1. \A q \in 1 .. c - n : \E k \in n + 1 .. c : t[q] = d[k]
      BY <1>2, <1>4
    <2>2. \A k \in n + 1 .. c : \E q \in 1 .. c - n : t[q] = d[k]
      BY <1>2, <1>5
    <2>3. ASSUME NEW z PROVE (\E q \in 1 .. c - n : z = t[q].id) <=> \E k \in n + 1 .. c : z = d[k].id
      BY <2>1, <2>2
    <2> QED BY <2>3
  <1> QED BY <1>1, <1>2, <1>3, <1>6

LEMMA CatchUpKeeps == ASSUME TypeOK, Kept, CatchUp PROVE Kept'
  <1>1. /\ LogInv /\ FlowInv /\ CursorInv /\ HandlerInv /\ StatusInv
        /\ UNCHANGED <<log, received, cursor, wire, status, lastStatus, shown>>
        /\ pc = "catchup" /\ pc' = IF todo' = <<>> THEN "sleep" ELSE "pass"
        /\ foreign => foreign'
    BY DEF Kept, CatchUp, session, file
  <1>2. LogInv' /\ All' = All
    BY <1>1, LogStays
  <1>3. PICK d, r, w, x, n : /\ d = All /\ r = received /\ w = wire /\ x = cursor
                             /\ n = Cardinality(Skipped(OnDisk))
    OBVIOUS
  <1>4. /\ todo' = SubSeq(OnDisk, n + 1, Len(OnDisk)) /\ seen' = ToSet(Ids(OnDisk))
        /\ foreign' = (foreign \/ (x # NoId /\ n = 0 /\ status # "gone"))
    BY <1>3 DEF CatchUp
  <1>5. Flow(d, r, w) /\ (~foreign => Ordered(d, r, w))
    BY <1>1, <1>3, FlowIs
  <1>6. FlowInv'
    BY <1>1, <1>2, <1>3, <1>5, FlowIsNext
  <1>7. CursorInv'
    BY <1>1, CursorStays
  <1>8. StatusInv'
    BY <1>1 DEF StatusInv, Serving
  <1>9. PICK c \in Nat, p \in Nat, m \in Nat : c = Len(d) /\ p = Len(r) /\ m = Len(w)
    BY <1>5 DEF Flow, Distinct
  <1>10. d \in Seq(Events) /\ \A k \in 1 .. c : d[k].id \in LogIds
    BY <1>5, <1>9, EventIds DEF Flow, Distinct
  (* Nothing of the log is on the wire.                                     *)
  <1>11. \A k \in 1 .. c : Through(d, k, r, w) <=> \E i \in 1 .. p : r[i] = d[k].id
    <2>1. \A j \in 1 .. m : w[j].id \notin LogIds
      BY <1>1, <1>3, <1>5, <1>9 DEF HandlerInv, Flow, Proper
    <2>2. ASSUME NEW k \in 1 .. c
          PROVE  Through(d, k, r, w) <=> (\E i \in 1 .. p : r[i] = d[k].id) \/ \E h \in 1 .. m : w[h].id = d[k].id
      BY <1>9 DEF Through, Passed
    <2> QED BY <1>10, <2>1, <2>2
  <1>12. CASE status = "gone"
    <2>1. OnDisk = <<>>
      BY <1>12 DEF OnDisk
    <2>2. <<>> \in Seq(Events) /\ Len(<<>>) = 0 /\ DOMAIN <<>> = {}
      OBVIOUS
    <2>3. ToSet(Ids(<<>>)) = {}
      BY <2>2 DEF ToSet, Ids
    <2>4. n = 0
      <3>1. Skipped(<<>>) = {}
        BY <2>2 DEF Skipped
      <3> QED BY <1>3, <2>1, <3>1, FS_EmptySet
    <2>5. todo' = <<>> /\ seen' = {}
      <3>1. SubSeq(<<>>, 1, 0) = <<>>
        BY <2>2, SubSeqEmpty
      <3> QED BY <1>4, <2>1, <2>2, <2>3, <2>4, <3>1
    <2>6. ~Current'
      BY <1>1, <1>12, <2>5 DEF Current
    <2>7. Reading(d, 0, {}, <<>>, r, w, Current')
      BY <1>9, <2>2, <2>6 DEF Reading
    <2>8. HandlerInv'
      BY <1>1, <1>2, <1>3, <1>9, <2>2, <2>5, <2>7 DEF HandlerInv
    <2> QED BY <1>2, <1>6, <1>7, <1>8, <2>8 DEF Kept
  <1>13. CASE status # "gone"
    <2>1. OnDisk = d
      BY <1>3, <1>13 DEF OnDisk, All
    <2>2. n \in 0 .. c /\ ((n = 0 /\ \A k \in 1 .. c : d[k].id # x) \/ (n \in 1 .. c /\ d[n].id = x))
      BY <1>1, <1>3, <1>9, <1>13, SkippedIs
    <2>3. PICK t : t = SubSeq(d, n + 1, c)
      OBVIOUS
    <2>4. t \in Seq(Events) /\ Len(t) = c - n /\ \A q \in 1 .. c - n : t[q] = d[n + q]
      BY <1>9, <1>10, <2>2, <2>3, RestIs
    <2>5. todo' = t
      BY <1>4, <1>9, <2>1, <2>3
    <2>6. seen' = {d[k].id : k \in 1 .. c}
      <3>1. PICK z \in 0 .. c, t0 \in Seq(Events) : z = 0 /\ t0 = d
        BY <1>10
      <3>2. t0 = SubSeq(d, z + 1, Len(d))
        <4>1. SubSeq(d, 1, Len(d)) = d
          BY <1>10, SubSeqFull
        <4> QED BY <3>1, <4>1
      <3>3. ToSet(Ids(t0)) = {d[k].id : k \in z + 1 .. Len(d)}
        BY <1>9, <1>10, <3>2, RestIs
      <3>4. z + 1 = 1
        BY <3>1
      <3> QED BY <1>4, <1>9, <2>1, <3>1, <3>3, <3>4
    <2>7. \A k \in 1 .. n : Through(d, k, r, w)
      <3>1. CASE n = 0
        BY <3>1
      <3>2. CASE n # 0
        <4>1. n \in 1 .. c /\ d[n].id = x /\ x \in LogIds
          BY <1>10, <2>2, <3>2
        <4>2. PICK i \in 1 .. p : r[i] = x
          BY <1>1, <1>3, <1>9, <4>1 DEF CursorInv
        <4>3. PICK a \in 1 .. c : r[i] = d[a].id /\ \A k \in 1 .. a - 1 : \E j \in 1 .. i - 1 : r[j] = d[k].id
          BY <1>5, <1>9 DEF Flow, Covered
        <4>4. a = n
          BY <1>5, <1>9, <4>1, <4>2, <4>3 DEF Flow, Distinct
        <4>5. \A k \in 1 .. n : k \in 1 .. a - 1 \/ k = n
          BY <4>1, <4>4
        <4>6. \A k \in 1 .. n : \E j \in 1 .. p : r[j] = d[k].id
          BY <4>1, <4>2, <4>3, <4>5
        <4> QED BY <1>11, <4>1, <4>6
      <3> QED BY <3>1, <3>2
    <2>8. ASSUME Current' PROVE \A k \in 1 .. c : Through(d, k, r, w) => k <= n
      <3>1. ~foreign /\ (x = NoId \/ n # 0)
        BY <1>4, <1>13, <2>8 DEF Current
      <3>2. CASE n = 0
        <4>1. r = <<>>
          BY <1>1, <1>3, <3>1, <3>2 DEF CursorInv
        <4>2. p = 0
          BY <1>9, <4>1
        <4> QED BY <1>11, <4>2
      <3>3. CASE n # 0
        <4>1. n \in 1 .. c /\ x = d[n].id
          BY <2>2, <3>3
        <4>2. \A i \in 1 .. p, a, b \in 1 .. c : r[i] = d[a].id /\ x = d[b].id => a <= b
          BY <1>1, <1>3, <1>9, <3>1 DEF CursorInv
        <4> QED BY <1>11, <4>1, <4>2
      <3> QED BY <3>2, <3>3
    <2>9. Reading(d, n, seen', t, r, w, Current')
      <3>1. n + Len(t) = c
        BY <2>2, <2>4
      <3> QED BY <1>9, <2>4, <2>6, <2>7, <2>8, <3>1 DEF Reading
    <2>10. HandlerInv'
      <3>1. pc' \in {"pass", "check", "sleep"} /\ pc' \notin {"off", "greet", "catchup"}
        BY <1>1
      <3>2. All' = d /\ received' = r /\ wire' = w
        BY <1>1, <1>2, <1>3
      <3>3. todo' \in Seq(Events) /\ (todo' # <<>> <=> pc' = "pass")
        BY <1>1, <2>4, <2>5
      <3>4. \E k \in 0 .. Len(d) : Reading(d, k, seen', todo', r, w, Current')
        BY <1>9, <2>2, <2>5, <2>9
      <3> QED BY <3>1, <3>2, <3>3, <3>4 DEF HandlerInv
    <2> QED BY <1>2, <1>6, <1>7, <1>8, <2>10 DEF Kept
  <1> QED BY <1>12, <1>13

LEMMA YieldKeeps == ASSUME TypeOK, Kept, Yield PROVE Kept'
  <1>1. /\ LogInv /\ FlowInv /\ CursorInv /\ HandlerInv /\ StatusInv
        /\ UNCHANGED <<log, received, cursor, seen, status, shown, foreign>>
        /\ pc = "pass" /\ todo' = Tail(todo) /\ pc' = IF todo' = <<>> THEN "check" ELSE "pass"
    BY DEF Kept, Yield, session, file
  <1>2. LogInv' /\ All' = All
    BY <1>1, LogStays
  <1>3. PICK d, r, w, v, s, t : d = All /\ r = received /\ w = wire /\ v = wire' /\ s = seen /\ t = todo
    OBVIOUS
  <1>4. Flow(d, r, w) /\ (~foreign => Ordered(d, r, w))
    BY <1>1, <1>3, FlowIs
  <1>5. PICK c \in Nat : c = Len(d)
    BY <1>4 DEF Flow, Distinct
  <1>6. PICK l \in Nat : Len(t) = l + 1
    <2>1. t \in Seq(Events) /\ t # <<>>
      BY <1>1, <1>3 DEF HandlerInv
    <2>2. Len(t) \in Nat /\ Len(t) # 0
      BY <2>1, EmptySeq
    <2>3. Len(t) - 1 \in Nat /\ (Len(t) - 1) + 1 = Len(t)
      BY <2>2
    <2> QED BY <2>3
  <1>7. PICK t2 : t2 = Tail(t)
    OBVIOUS
  <1>8. /\ t2 \in Seq(Events) /\ Len(t2) = l /\ Head(t) = t[1]
        /\ \A q \in 1 .. l : q + 1 \in 1 .. l + 1 /\ t2[q] = t[q + 1]
    <2>1. t \in Seq(Events) /\ t # <<>>
      BY <1>1, <1>3 DEF HandlerInv
    <2> QED BY <1>6, <1>7, <2>1, HeadTailProperties
  <1>9. PICK n \in 0 .. c : Reading(d, n, s, t, r, w, Current)
    BY <1>1, <1>3, <1>5 DEF HandlerInv
  <1>10. /\ n + (l + 1) <= c /\ s = {d[k].id : k \in 1 .. n + (l + 1)}
         /\ \A q \in 1 .. l + 1 : t[q].id = d[n + q].id
         /\ \A k \in 1 .. n : Through(d, k, r, w)
         /\ Current => \A k \in 1 .. c : Through(d, k, r, w) => k <= n
    BY <1>5, <1>6, <1>9 DEF Reading
  <1>11. PICK f : f = Frame("event", t[1].id)
    OBVIOUS
  <1>12. f.event = "event" /\ f.id = d[n + 1].id /\ f \in Frames /\ n + 1 \in 1 .. c
    <2>1. n + 1 \in 1 .. c /\ t[1].id = d[n + 1].id
      BY <1>10
    <2>2. d[n + 1].id \in LogIds
      BY <1>4, <1>5, <2>1, EventIds DEF Flow
    <2> QED BY <1>11, <2>1, <2>2 DEF Frame, Frames, FrameEvents
  <1>13. PICK q : q = <<f>>
    OBVIOUS
  <1>14. q \in Seq(Frames) /\ Len(q) = 1 /\ q[1] = f
    BY <1>12, <1>13
  <1>15. PollSynthetic(q)
    BY <1>3, <1>8, <1>11, <1>13 DEF Yield
  <1>16. PICK u : /\ Carries(u, wire) /\ Extends(wire', u, q)
                  /\ Said(wire, shown, lastStatus) => Said(u, shown, lastStatus')
    BY <1>1, <1>14, <1>15, Polled DEF FlowInv
  <1>17. SameFlow(d, r, w, u)
    BY <1>3, <1>4, <1>16 DEF Carries
  <1>18. \A k \in 1 .. n : Through(d, k, r, u)
    BY <1>5, <1>10, <1>17 DEF SameFlow
  <1>19. /\ Flow(d, r, v)
         /\ \A k \in 1 .. c : Through(d, k, r, v) <=> Through(d, k, r, u) \/ k = n + 1
         /\ Ordered(d, r, u) /\ (\A k \in 1 .. c : Through(d, k, r, u) => k <= n) => Ordered(d, r, v)
    <2>1. Extends(v, u, q) /\ Flow(d, r, u) /\ n \in Nat /\ n + 1 \in 1 .. Len(d)
      BY <1>3, <1>5, <1>12, <1>16, <1>17 DEF SameFlow
    <2>2. q[1].event = "event" /\ q[1].id = d[n + 1].id
      BY <1>12, <1>14
    <2> QED BY <1>5, <1>14, <1>18, <2>1, <2>2, FlowEvent
  <1>20. ~foreign <=> Current
    BY <1>1 DEF Current, HandlerInv
  <1>21. \A k \in 1 .. c : Through(d, k, r, v) <=> Through(d, k, r, w) \/ k = n + 1
    BY <1>5, <1>17, <1>19 DEF SameFlow
  <1>22. FlowInv'
    <2>1. ~foreign => Ordered(d, r, v)
      BY <1>4, <1>5, <1>10, <1>17, <1>19, <1>20 DEF SameFlow
    <2>2. received' = r /\ All' = d /\ wire' = v
      BY <1>1, <1>2, <1>3
    <2> QED BY <1>1, <1>2, <1>19, <2>1, <2>2, FlowIsNext
  <1>23. CursorInv'
    BY <1>1, CursorStays
  <1>24. Reading(d, n + 1, s, t2, r, v, Current')
    <2>1. Current' => Current
      BY <1>1, <1>20 DEF Current
    <2>2. (n + 1) + l = n + (l + 1)
      OBVIOUS
    <2>3. \A j \in 1 .. l : t2[j].id = d[(n + 1) + j].id
      <3>1. \A j \in 1 .. l : (n + 1) + j = n + (j + 1)
        OBVIOUS
      <3> QED BY <1>8, <1>10, <3>1
    <2>4. \A k \in 1 .. n + 1 : Through(d, k, r, v)
      <3>1. \A k \in 1 .. n + 1 : k \in 1 .. c /\ (k \in 1 .. n \/ k = n + 1)
        BY <1>12
      <3> QED BY <1>10, <1>21, <3>1
    <2>5. Current' => \A k \in 1 .. c : Through(d, k, r, v) => k <= n + 1
      BY <1>10, <1>21, <2>1
    <2> QED BY <1>5, <1>8, <1>10, <2>2, <2>3, <2>4, <2>5 DEF Reading
  <1>25. HandlerInv'
    <2>1. pc' \in {"pass", "check", "sleep"} /\ pc' \notin {"off", "greet", "catchup"}
      BY <1>1
    <2>2. All' = d /\ received' = r /\ wire' = v /\ seen' = s /\ todo' = t2
      BY <1>1, <1>2, <1>3, <1>7
    <2>3. todo' \in Seq(Events) /\ (todo' # <<>> <=> pc' = "pass")
      BY <1>1, <1>8, <2>2
    <2>4. n + 1 \in 0 .. c
      BY <1>12
    <2>5. \E k \in 0 .. Len(d) : Reading(d, k, s, t2, r, v, Current')
      BY <1>5, <1>24, <2>4
    <2> QED BY <2>1, <2>2, <2>3, <2>5 DEF HandlerInv
  <1>26. StatusInv'
    <2>1. PICK x, b : x = shown /\ b = lastStatus'
      OBVIOUS
    <2>2. Said(u, x, b)
      BY <1>1, <1>16, <2>1 DEF StatusInv, Serving
    <2>3. Says(q, b, b)
      <3>1. \A j \in 1 .. 1 : q[j] = f
        BY <1>14
      <3> QED BY <1>12, <1>14, <3>1 DEF Says, Quiet, Statuses
    <2>4. Said(v, x, b)
      BY <1>3, <1>16, <2>2, <2>3, SaidMore
    <2> QED BY <1>1, <1>3, <2>1, <2>4 DEF StatusInv
  <1> QED BY <1>2, <1>22, <1>23, <1>25, <1>26 DEF Kept

(* The check and the passing of time change nothing of it.                  *)
LEMMA WaitKeeps == ASSUME Kept, Check \/ TimePasses PROVE Kept'
  <1>1. /\ LogInv /\ FlowInv /\ CursorInv /\ HandlerInv /\ StatusInv
        /\ UNCHANGED <<log, status, todo, seen, lastStatus, wire, cursor, received, shown, foreign>>
        /\ pc \in {"check", "sleep"} /\ pc' = "sleep"
    BY DEF Kept, Check, TimePasses, session, file, client
  <1>2. LogInv' /\ All' = All
    BY <1>1, LogStays
  <1>3. FlowInv'
    BY <1>1, <1>2 DEF FlowInv
  <1>4. CursorInv'
    BY <1>1, CursorStays
  <1>5. Current' = Current
    BY <1>1 DEF Current
  <1>6. HandlerInv'
    BY <1>1, <1>2, <1>5 DEF HandlerInv
  <1>7. StatusInv'
    BY <1>1 DEF StatusInv, Serving
  <1> QED BY <1>2, <1>3, <1>4, <1>6, <1>7 DEF Kept

LEMMA Parting ==
    ASSUME TypeOK, wire \in Seq(Frames), wire' = wire \o StatusFrames \o ContainerFrames
    PROVE  /\ Carries(wire', wire)
           /\ status # "gone" /\ Said(wire, shown, lastStatus) => Said(wire', shown, status)
  <1>1. PICK S, C, a, b, x : /\ S = StatusFrames /\ C = ContainerFrames /\ a = lastStatus /\ x = shown
                             /\ b = IF status = "gone" THEN lastStatus ELSE status
    OBVIOUS
  <1>2. Synthetic(S) /\ Synthetic(C) /\ Quiet(C) /\ Says(S, a, b)
    BY <1>1, StatusFramesSay, ContainerFramesSay
  <1>3. PICK w, y, z : w = wire /\ y = w \o S /\ z = y \o C
    OBVIOUS
  <1>4. Extends(y, w, S)
    BY <1>2, <1>3, ConcatExtends DEF Synthetic
  <1>5. Carries(y, w)
    BY <1>2, <1>4, CarriesMore
  <1>6. Extends(z, y, C)
    BY <1>2, <1>3, <1>5, ConcatExtends DEF Synthetic, Carries
  <1>7. Carries(z, y)
    BY <1>2, <1>6, CarriesMore
  <1>8. Carries(z, w)
    BY <1>5, <1>7, CarriesOn
  <1>9. Said(w, x, a) => Said(z, x, b)
    <2>1. Said(w, x, a) => Said(y, x, b)
      BY <1>2, <1>4, SaidMore
    <2>2. Says(C, b, b)
      BY <1>2 DEF Says
    <2> QED BY <1>6, <2>1, <2>2, SaidMore
  <1> QED BY <1>1, <1>3, <1>8, <1>9

LEMMA PollKeeps == ASSUME TypeOK, Kept, Poll PROVE Kept'
  <1>1. /\ LogInv /\ FlowInv /\ CursorInv /\ HandlerInv /\ StatusInv
        /\ UNCHANGED <<log, status, cursor, received, shown, foreign>> /\ pc = "sleep"
    BY DEF Kept, Poll, session, file
  <1>2. LogInv' /\ All' = All
    BY <1>1, LogStays
  <1>3. CursorInv'
    BY <1>1, CursorStays
  <1>4. todo = <<>>
    BY <1>1 DEF HandlerInv
  <1>5. PICK new : /\ new = NewEvents
                   /\ \/ End
                      \/ /\ new # <<>> /\ pc' = "pass" /\ todo' = new /\ seen' = seen \cup ToSet(Ids(new))
                         /\ UNCHANGED <<lastStatus, wire>>
    BY DEF Poll
  <1>6. CASE End
    <2>1. pc' = "ended" /\ todo' = todo /\ wire' = wire \o StatusFrames \o ContainerFrames
      BY <1>6 DEF End
    <2>2. Carries(wire', wire)
      BY <1>1, <2>1, Parting DEF FlowInv
    <2>3. FlowInv'
      BY <1>1, <2>2, KeepsFlow
    <2>4. HandlerInv'
      BY <1>4, <2>1 DEF HandlerInv
    <2>5. StatusInv'
      BY <2>1 DEF StatusInv, Serving
    <2> QED BY <1>2, <1>3, <2>3, <2>4, <2>5 DEF Kept
  <1>7. CASE /\ new # <<>> /\ pc' = "pass" /\ todo' = new /\ seen' = seen \cup ToSet(Ids(new))
             /\ UNCHANGED <<lastStatus, wire>>
    <2>1. FlowInv'
      BY <1>1, <1>2, <1>7 DEF FlowInv
    <2>2. StatusInv'
      BY <1>1, <1>7 DEF StatusInv, Serving
    <2>3. status # "gone"
      BY <1>5, <1>7, NoNews
    <2>4. PICK d, r, w : d = All /\ r = received /\ w = wire
      OBVIOUS
    <2>5. PICK c \in Nat : c = Len(d) /\ d \in Seq(Events)
      BY <1>1, <2>4 DEF LogInv
    <2>6. PICK n \in 0 .. c : Reading(d, n, seen, <<>>, r, w, Current)
      BY <1>1, <1>4, <2>4, <2>5 DEF HandlerInv
    <2>7. /\ seen = {d[k].id : k \in 1 .. n}
          /\ \A k \in 1 .. n : Through(d, k, r, w)
          /\ Current => \A k \in 1 .. c : Through(d, k, r, w) => k <= n
      <3>1. Len(<<>>) = 0 /\ n + 0 = n
        OBVIOUS
      <3> QED BY <2>5, <2>6, <3>1 DEF Reading
    <2>8. new = SubSeq(d, n + 1, c)
      BY <1>1, <1>5, <2>3, <2>4, <2>5, <2>7, NewsIs
    <2>9. /\ new \in Seq(Events) /\ Len(new) = c - n /\ \A q \in 1 .. c - n : new[q] = d[n + q]
          /\ ToSet(Ids(new)) = {d[k].id : k \in n + 1 .. c}
      <3>1. d \in Seq(Events) /\ n \in 0 .. Len(d) /\ new = SubSeq(d, n + 1, Len(d))
        BY <2>5, <2>8
      <3>2. /\ new \in Seq(Events) /\ Len(new) = Len(d) - n
            /\ \A q \in 1 .. Len(new) : new[q] = d[n + q]
            /\ ToSet(Ids(new)) = {d[k].id : k \in n + 1 .. Len(d)}
        BY <3>1, RestIs
      <3> QED BY <2>5, <3>2
    <2>10. seen' = {d[k].id : k \in 1 .. c}
      <3>1. \A k \in 1 .. c : k \in 1 .. n \/ k \in n + 1 .. c
        OBVIOUS
      <3>2. \A k \in 1 .. n : k \in 1 .. c
        OBVIOUS
      <3>3. \A k \in n + 1 .. c : k \in 1 .. c
        OBVIOUS
      <3>4. ASSUME NEW z
            PROVE  (\E k \in 1 .. c : z = d[k].id) <=>
                   (\E k \in 1 .. n : z = d[k].id) \/ \E k \in n + 1 .. c : z = d[k].id
        BY <3>1, <3>2, <3>3
      <3> QED BY <1>7, <2>7, <2>9, <3>4
    <2>11. Current' => Current
      BY <1>1, <1>7, <2>3 DEF Current
    <2>12. Reading(d, n, seen', new, r, w, Current')
      <3>1. n + Len(new) = c
        BY <2>9
      <3> QED BY <2>5, <2>7, <2>9, <2>10, <2>11, <3>1 DEF Reading
    <2>13. HandlerInv'
      <3>1. All' = d /\ received' = r /\ wire' = w
        BY <1>1, <1>2, <1>7, <2>4
      <3>2. \E k \in 0 .. Len(d) : Reading(d, k, seen', todo', r, w, Current')
        BY <1>7, <2>5, <2>12
      <3> QED BY <1>7, <2>9, <3>1, <3>2 DEF HandlerInv
    <2> QED BY <1>2, <1>3, <2>1, <2>2, <2>13 DEF Kept
  <1> QED BY <1>5, <1>6, <1>7

LEMMA ReceiveKeeps == ASSUME TypeOK, Kept, Receive PROVE Kept'
  <1>1. /\ LogInv /\ FlowInv /\ CursorInv /\ HandlerInv /\ StatusInv
        /\ UNCHANGED <<log, status, foreign, pc, todo, seen, lastStatus>> /\ wire # <<>>
    BY DEF Kept, Receive, session, file, handler
  <1>2. LogInv' /\ All' = All
    BY <1>1, LogStays
  <1>3. PICK d, r, w, f, v, s, x, y :
           d = All /\ r = received /\ w = wire /\ f = Head(w) /\ v = Tail(w) /\ s = Taken(r, f)
           /\ x = cursor /\ y = cursor'
    OBVIOUS
  <1>4. /\ wire' = v /\ received' = s /\ y = IF f.id = NoId THEN x ELSE f.id
        /\ shown' = IF f.event \in Statuses THEN f.event ELSE shown
    BY <1>3 DEF Receive, Taken
  <1>5. Flow(d, r, w) /\ (~foreign => Ordered(d, r, w))
    BY <1>1, <1>3, FlowIs
  <1>6. /\ Flow(d, s, v) /\ (Ordered(d, r, w) => Ordered(d, s, v))
        /\ \A k \in 1 .. Len(d) : Through(d, k, s, v) <=> Through(d, k, r, w)
    BY <1>1, <1>3, <1>5, FlowReceive
  <1>7. FlowInv'
    <2>1. All' = d
      BY <1>2, <1>3
    <2> QED BY <1>1, <1>2, <1>4, <1>5, <1>6, <2>1, FlowIsNext
  <1>8. PICK m \in Nat : Len(w) = m + 1
    <2>1. w \in Seq(Frames) /\ Len(w) \in Nat /\ Len(w) # 0
      BY <1>1, <1>3, <1>5, EmptySeq DEF Flow
    <2>2. Len(w) - 1 \in Nat /\ Len(w) = (Len(w) - 1) + 1
      BY <2>1
    <2> QED BY <2>2
  <1>9. PICK c \in Nat, p \in Nat : c = Len(d) /\ p = Len(r)
    BY <1>5 DEF Flow, Distinct
  <1>10. /\ Len(v) = m /\ f = w[1] /\ f \in Frames /\ (f.event = "event" <=> f.id \in LogIds)
         /\ \A j \in 1 .. m : j + 1 \in 1 .. m + 1 /\ v[j] = w[j + 1]
    <2>1. w \in Seq(Frames)
      BY <1>5 DEF Flow
    <2>2. Len(v) = m /\ f = w[1] /\ f \in Frames /\ \A j \in 1 .. m : j + 1 \in 1 .. m + 1 /\ v[j] = w[j + 1]
      BY <1>1, <1>3, <1>8, <2>1, HeadTailProperties
    <2>3. 1 \in 1 .. m + 1
      OBVIOUS
    <2> QED BY <1>5, <1>8, <2>2, <2>3 DEF Flow, Proper
  <1>11. r \in Seq(LogIds) /\ s = IF f.event = "event" THEN Append(r, f.id) ELSE r
    BY <1>3, <1>5 DEF Flow, Taken
  <1>12. /\ x \in LogIds \cup OtherIds /\ (x \in LogIds => \E i \in 1 .. p : r[i] = x)
         /\ (x = NoId => r = <<>>)
         /\ ~foreign => \A i \in 1 .. p, a, b \in 1 .. c : r[i] = d[a].id /\ x = d[b].id => a <= b
    BY <1>1, <1>3, <1>9 DEF CursorInv
  <1>13. NoId \notin LogIds
    BY DEF NoId, LogIds
  <1>14. /\ y \in LogIds \cup OtherIds /\ (y \in LogIds => \E i \in 1 .. Len(s) : s[i] = y)
         /\ (y = NoId => s = <<>>)
         /\ ~foreign => \A i \in 1 .. Len(s), a, b \in 1 .. c : s[i] = d[a].id /\ y = d[b].id => a <= b
    <2>1. CASE f.event # "event"
      <3>1. s = r /\ f.id \in OtherIds /\ f.id \notin LogIds
        BY <1>10, <1>11, <2>1 DEF Frames
      <3>2. \A b \in 1 .. c : d[b].id \in LogIds
        BY <1>5, <1>9, EventIds DEF Flow
      <3>3. y = x \/ (y \in OtherIds /\ y \notin LogIds /\ y # NoId)
        BY <1>4, <3>1
      <3> QED BY <1>9, <1>12, <3>1, <3>2, <3>3
    <2>2. CASE f.event = "event"
      <3>1. y = f.id /\ f.id \in LogIds /\ y # NoId
        BY <1>4, <1>10, <1>13, <2>2
      <3>2. s = Append(r, f.id)
        BY <1>11, <2>2
      <3>3. Len(s) = p + 1 /\ s[p + 1] = f.id /\ \A i \in 1 .. p : s[i] = r[i]
        BY <1>9, <1>11, <3>1, <3>2, AppendProperties
      <3>4. p + 1 \in 1 .. p + 1 /\ \A i \in 1 .. p + 1 : i \in 1 .. p \/ i = p + 1
        OBVIOUS
      <3>5. ASSUME ~foreign, NEW i \in 1 .. p + 1, NEW a \in 1 .. c, NEW b \in 1 .. c,
                   s[i] = d[a].id, y = d[b].id
            PROVE  a <= b
        <4>1. CASE i \in 1 .. p
          <5>1. 1 \in 1 .. m + 1
            OBVIOUS
          <5>2. Earlier(d, r[i], w[1].id)
            BY <1>5, <1>8, <1>9, <3>5, <4>1, <5>1 DEF Ordered
          <5>3. d[a].id = r[i] /\ d[b].id = w[1].id
            BY <1>10, <3>1, <3>3, <3>5, <4>1
          <5>4. a < b
            BY <1>9, <5>2, <5>3 DEF Earlier
          <5> QED BY <5>4
        <4>2. CASE i = p + 1
          <5>1. d[a].id = d[b].id
            BY <3>1, <3>3, <3>5, <4>2
          <5>2. a = b
            BY <1>5, <1>9, <5>1 DEF Flow, Distinct
          <5> QED BY <5>2
        <4> QED BY <3>4, <4>1, <4>2
      <3> QED BY <3>1, <3>3, <3>4, <3>5
    <2> QED BY <2>1, <2>2
  <1>15. CursorInv'
    <2>1. All' = d /\ cursor' = y /\ received' = s
      BY <1>2, <1>3, <1>4
    <2> QED BY <1>1, <1>9, <1>14, <2>1 DEF CursorInv
  <1>16. HandlerInv'
    <2>1. ASSUME \A j \in 1 .. m + 1 : w[j].event # "event" PROVE \A j \in 1 .. m : v[j].event # "event"
      BY <1>10, <2>1
    <2>2. pc \in {"off", "greet", "catchup"} => \A j \in 1 .. Len(v) : v[j].event # "event"
      BY <1>1, <1>3, <1>8, <1>10, <2>1 DEF HandlerInv
    <2>3. Current' = Current
      BY <1>1 DEF Current
    <2>4. ASSUME pc \in {"pass", "check", "sleep"}
          PROVE  \E n \in 0 .. c : Reading(d, n, seen, todo, s, v, Current)
      <3>1. PICK n \in 0 .. c : Reading(d, n, seen, todo, r, w, Current)
        BY <1>1, <1>3, <1>9, <2>4 DEF HandlerInv
      <3>2. \A k \in 1 .. n : k \in 1 .. c
        OBVIOUS
      <3> QED BY <1>6, <1>9, <3>1, <3>2 DEF Reading
    <2>5. All' = d /\ received' = s /\ wire' = v
      BY <1>2, <1>3, <1>4
    <2> QED BY <1>1, <1>9, <2>2, <2>3, <2>4, <2>5 DEF HandlerInv
  <1>17. StatusInv'
    <2>1. PICK t, b, g : t = shown /\ b = lastStatus /\ g = shown'
      OBVIOUS
    <2>2. ASSUME Said(w, t, b) PROVE Said(v, g, b)
      <3>1. /\ (\A j \in 1 .. m + 1 : w[j].event \notin Statuses) => t = b
            /\ \A j \in 1 .. m + 1 :
                  w[j].event \in Statuses /\ (\A h \in j + 1 .. m + 1 : w[h].event \notin Statuses)
                     => w[j].event = b
        BY <1>8, <2>2 DEF Said
      <3>2. \A j \in 1 .. m + 1 : j = 1 \/ (j - 1 \in 1 .. m /\ w[j] = v[j - 1])
        BY <1>10
      <3>3. ASSUME \A j \in 1 .. m : v[j].event \notin Statuses PROVE g = b
        <4>1. \A j \in 2 .. m + 1 : w[j].event \notin Statuses
          BY <3>2, <3>3
        <4>2. CASE f.event \in Statuses
          <5>1. 1 \in 1 .. m + 1 /\ 1 + 1 = 2
            OBVIOUS
          <5>2. w[1].event = b
            BY <1>10, <3>1, <4>1, <4>2, <5>1
          <5> QED BY <1>4, <1>10, <2>1, <4>2, <5>2
        <4>3. CASE f.event \notin Statuses
          <5>1. \A j \in 1 .. m + 1 : w[j].event \notin Statuses
            BY <1>10, <3>2, <3>3, <4>3
          <5> QED BY <1>4, <2>1, <3>1, <4>3, <5>1
        <4> QED BY <4>2, <4>3
      <3>4. ASSUME NEW j \in 1 .. m, v[j].event \in Statuses, \A h \in j + 1 .. m : v[h].event \notin Statuses
            PROVE  v[j].event = b
        <4>1. j + 1 \in 1 .. m + 1 /\ w[j + 1] = v[j]
          BY <1>10
        <4>2. ASSUME NEW h \in (j + 1) + 1 .. m + 1 PROVE w[h].event \notin Statuses
          <5>1. h - 1 \in j + 1 .. m /\ h \in 1 .. m + 1 /\ h # 1
            OBVIOUS
          <5> QED BY <3>2, <3>4, <5>1
        <4> QED BY <3>1, <3>4, <4>1, <4>2
      <3> QED BY <1>10, <3>3, <3>4 DEF Said
    <2> QED BY <1>1, <1>3, <1>4, <2>1, <2>2 DEF StatusInv
  <1> QED BY <1>2, <1>7, <1>15, <1>16, <1>17 DEF Kept

LEMMA DisconnectKeeps == ASSUME Kept, Disconnect PROVE Kept'
  <1>1. /\ LogInv /\ FlowInv /\ CursorInv
        /\ UNCHANGED <<log, received, foreign, cursor>>
        /\ pc' = "off" /\ todo' = <<>> /\ wire' = <<>>
    BY DEF Kept, Disconnect, file
  <1>2. LogInv' /\ All' = All
    BY <1>1, LogStays
  <1>3. FlowInv'
    <2>1. PICK d, r, w : d = All /\ r = received /\ w = wire
      OBVIOUS
    <2>2. Flow(d, r, w) /\ (~foreign => Ordered(d, r, w))
      BY <1>1, <2>1, FlowIs
    <2>3. Flow(d, r, <<>>) /\ (Ordered(d, r, w) => Ordered(d, r, <<>>))
      BY <2>2, FlowLost
    <2> QED BY <1>1, <1>2, <2>1, <2>2, <2>3, FlowIsNext
  <1>4. CursorInv'
    BY <1>1, CursorStays
  <1>5. <<>> \in Seq(Events) /\ Len(<<>>) = 0
    OBVIOUS
  <1>6. HandlerInv'
    BY <1>1, <1>5 DEF HandlerInv
  <1>7. StatusInv'
    BY <1>1 DEF StatusInv, Serving
  <1> QED BY <1>2, <1>3, <1>4, <1>6, <1>7 DEF Kept

LEMMA Steps == StrInv /\ [Next]_vars => StrInv'
  <1> SUFFICES ASSUME StrInv, [Next]_vars PROVE StrInv'
    OBVIOUS
  <1>1. TypeOK /\ Kept
    BY DEF StrInv, Kept
  <1>2. TypeOK'
    BY <1>1, Typed DEF Kept
  <1>3. Kept'
    <2>1. CASE BeginLine \/ BeginRun \/ ClaimContainer \/ EndRun \/ ReleaseContainer
               \/ ApprovalArrives \/ ApprovalResolved \/ DeleteSession
      <3>1. UNCHANGED <<log, handler, client>>
        BY <2>1 DEF BeginLine, BeginRun, ClaimContainer, EndRun, ReleaseContainer, ApprovalArrives,
           ApprovalResolved, DeleteSession, file
      <3>2. status = "gone" => status' = "gone"
        BY <2>1 DEF BeginLine, BeginRun, ClaimContainer, EndRun, ReleaseContainer, ApprovalArrives,
           ApprovalResolved, DeleteSession, session, Running
      <3> QED BY <1>1, <3>1, <3>2, SessionKeeps
    <2>2. CASE AppendLine
      BY <1>1, <2>2, AppendKeeps
    <2>3. CASE Open
      BY <1>1, <2>3, OpenKeeps
    <2>4. CASE Greet \/ SyntheticTick
      <3>1. /\ PollSynthetic(<<>>)
            /\ UNCHANGED <<log, status, received, foreign, cursor, todo, seen, shown>>
            /\ \/ pc \in Serving \ {"greet"} /\ pc' = pc
               \/ pc = "greet" /\ pc' = "catchup"
        BY <2>4 DEF Greet, SyntheticTick, session, file
      <3> QED BY <1>1, <3>1, SyntheticKeeps
    <2>5. CASE CatchUp
      BY <1>1, <2>5, CatchUpKeeps
    <2>6. CASE Yield
      BY <1>1, <2>6, YieldKeeps
    <2>7. CASE Check \/ TimePasses
      BY <1>1, <2>7, WaitKeeps
    <2>8. CASE Poll
      BY <1>1, <2>8, PollKeeps
    <2>9. CASE Receive
      BY <1>1, <2>9, ReceiveKeeps
    <2>10. CASE Disconnect
      BY <1>1, <2>10, DisconnectKeeps
    <2>11. CASE UNCHANGED vars
      <3>1. UNCHANGED <<log, handler, client>> /\ status' = status
        BY <2>11 DEF vars, session, file
      <3> QED BY <1>1, <3>1, SessionKeeps
    <2> QED BY <2>1, <2>2, <2>3, <2>4, <2>5, <2>6, <2>7, <2>8, <2>9, <2>10, <2>11 DEF Next, SessionStep
  <1> QED BY <1>2, <1>3 DEF StrInv, Kept

LEMMA Starts == Init => StrInv
  <1> SUFFICES ASSUME Init PROVE StrInv
    OBVIOUS
  <1>1. Len(<<>>) = 0 /\ \A S : <<>> \in Seq(S)
    OBVIOUS
  <1>2. All = <<>>
    <2>1. PICK s : s = [n \in 1 .. 0 |-> MapLineToEvents(log[n], n)]
      OBVIOUS
    <2>2. s = <<>>
      <3>1. s \in Seq({}) /\ Len(s) = 0
        BY <2>1
      <3> QED BY <3>1, EmptySeq
    <2>3. All = FlattenSeq(s)
      BY <1>1, <2>1 DEF All, ListBySession, Init
    <2> QED BY <2>2, <2>3, FlattenEmpty
  <1>3. TypeOK
    <2>1. MaxLines \in Nat /\ MaxRuns \in Nat /\ MaxClaims \in Nat /\ MaxConnections \in Nat
      BY StreamAssumption
    <2>2. Len(log) <= MaxLines /\ status \in Statuses /\ lastStatus \in Statuses /\ status # "gone"
      BY <1>1, <2>1 DEF Init, Statuses
    <2>3. runs \in 0 .. MaxRuns /\ claims \in 0 .. MaxClaims /\ opened \in 0 .. MaxConnections
      BY <2>1 DEF Init
    <2>4. lastBox \in 0 .. claims /\ box \in {0, claims}
      BY DEF Init
    <2> QED BY <2>2, <2>3, <2>4 DEF Init, TypeOK
  <1>4. LogInv
    BY <1>1, <1>2 DEF Init, LogInv
  <1>5. FlowInv
    BY <1>1, <1>2 DEF Init, FlowInv, Proper, Covered, Ordered
  <1>6. CursorInv
    <2>1. NoId \in OtherIds /\ NoId \notin LogIds
      BY DEF NoId, OtherIds, LogIds
    <2> QED BY <1>1, <1>2, <2>1 DEF Init, CursorInv
  <1>7. HandlerInv /\ StatusInv
    BY <1>1 DEF Init, HandlerInv, StatusInv, Serving
  <1> QED BY <1>3, <1>4, <1>5, <1>6, <1>7 DEF StrInv

(* What the invariant says of what a client has received.                   *)
LEMMA Delivers == StrInv => StreamInv
  <1> SUFFICES ASSUME StrInv PROVE StreamInv
    OBVIOUS
  <1>1. PICK d, r : d = All /\ r = received
    OBVIOUS
  <1>2. TypeOK /\ LogInv /\ FlowInv
    BY DEF StrInv
  <1>3. Flow(d, r, wire) /\ (~foreign => Ordered(d, r, wire))
    BY <1>1, <1>2, FlowIs
  <1>4. PICK c \in Nat, p \in Nat : c = Len(d) /\ p = Len(r) /\ DOMAIN d = 1 .. c /\ DOMAIN r = 1 .. p
    BY <1>3 DEF Flow, Distinct
  <1>5. \A i \in 1 .. p : \E n \in 1 .. c :
           r[i] = d[n].id /\ \A k \in 1 .. n - 1 : \E j \in 1 .. i - 1 : r[j] = d[k].id
    BY <1>3, <1>4 DEF Flow, Covered
  <1>6. NothingMissed
    <2>1. PICK ids : ids = Ids(d)
      OBVIOUS
    <2>2. DOMAIN ids = 1 .. c /\ \A n \in 1 .. c : ids[n] = d[n].id
      BY <1>4, <2>1 DEF Ids
    <2>3. ASSUME NEW i \in 1 .. p
          PROVE  \E n \in 1 .. c : r[i] = ids[n] /\ \A k \in 1 .. n - 1 : \E j \in 1 .. i - 1 : r[j] = ids[k]
      <3>1. PICK n \in 1 .. c : r[i] = d[n].id /\ \A k \in 1 .. n - 1 : \E j \in 1 .. i - 1 : r[j] = d[k].id
        BY <1>5
      <3>2. \A k \in 1 .. n - 1 : k \in 1 .. c
        OBVIOUS
      <3> QED BY <2>2, <3>1, <3>2
    <2>4. \A i \in DOMAIN r : \E n \in DOMAIN ids :
             r[i] = ids[n] /\ \A k \in 1 .. n - 1 : \E j \in 1 .. i - 1 : r[j] = ids[k]
      BY <1>4, <2>2, <2>3
    <2>5. ids = Ids(ListBySession(log)) /\ r = received
      BY <1>1, <2>1 DEF All
    <2> QED BY <2>4, <2>5, Zenon DEF NothingMissed
  <1>7. NothingTwice
    <2>1. ASSUME ~foreign, NEW i \in 1 .. p, NEW j \in 1 .. p, i < j, r[i] = r[j] PROVE FALSE
      <3>1. Earlier(d, r[i], r[j])
        BY <1>3, <1>4, <2>1 DEF Ordered
      <3>2. PICK n \in 1 .. c : r[i] = d[n].id
        BY <1>5
      <3>3. n < n
        BY <1>4, <2>1, <3>1, <3>2 DEF Earlier
      <3> QED BY <3>3
    <2>2. \A i, j \in 1 .. p : i # j => i < j \/ j < i
      OBVIOUS
    <2> QED BY <1>1, <1>4, <2>1, <2>2 DEF NothingTwice
  <1> QED BY <1>2, <1>6, <1>7 DEF StreamInv

(* Over all its connections a client receives the log's events in order,    *)
(* with no gap, and, unless it came with a cursor of no event, nothing      *)
(* twice: follow's resume, whatever drops when, for any log.                *)
THEOREM StreamHolds == Spec => []StreamInv
  <1>1. Spec => []StrInv
    BY Starts, Steps, PTL DEF Spec
  <1> QED BY <1>1, Delivers, PTL

----------------------------------------------------------------------------
(* The end of the stream.                                                   *)

(* The last of some positions.                                              *)
LEMMA LastOne ==
    ASSUME NEW m \in Nat, NEW T \in SUBSET (1 .. m), T # {}
    PROVE  \E i \in T : \A j \in T : j <= i
  <1>1. PICK U : U = {n \in 0 .. m : m - n \in T}
    OBVIOUS
  <1>2. \A i \in T : m - i \in U
    <2>1. \A i \in T : i \in 1 .. m /\ m - i \in 0 .. m /\ m - (m - i) = i
      OBVIOUS
    <2> QED BY <1>1, <2>1
  <1>3. U \in SUBSET Nat /\ U # {}
    <2>1. U \subseteq Nat
      BY <1>1
    <2>2. PICK i \in T : TRUE
      OBVIOUS
    <2> QED BY <1>2, <2>1, <2>2
  <1>4. PICK n \in U : \A k \in U : n <= k
    BY <1>3, LeastOne
  <1>5. m - n \in T /\ n \in Nat
    BY <1>1, <1>3
  <1>6. \A j \in T : j <= m - n
    BY <1>2, <1>4, <1>5
  <1> QED BY <1>5, <1>6

(* Only the round of the poll that finds nothing new ends the stream.       *)
LEMMA OnlyPollEnds ==
    ASSUME TypeOK, Next, pc # "ended", pc' = "ended"
    PROVE  pc = "sleep" /\ NewEvents = <<>> /\ wire' = wire \o StatusFrames \o ContainerFrames
  <1>1. ~SessionStep
    BY DEF SessionStep, BeginLine, AppendLine, BeginRun, ClaimContainer, EndRun, ReleaseContainer,
       ApprovalArrives, ApprovalResolved, DeleteSession, handler
  <1>2. ~(Open \/ Greet \/ CatchUp \/ Yield \/ Check)
    BY DEF Open, Greet, CatchUp, Yield, Check
  <1>3. ~(TimePasses \/ SyntheticTick \/ Receive \/ Disconnect)
    BY DEF TimePasses, SyntheticTick, Receive, Disconnect, handler
  <1>4. Poll
    BY <1>1, <1>2, <1>3 DEF Next
  <1> QED BY <1>4 DEF Poll, End

LEMMA EndIsComplete ==
    ASSUME StrInv, Next, pc # "ended", pc' = "ended", status # "gone"
    PROVE  /\ ToSet(Ids(OnDisk)) \subseteq {f.id : f \in ToSet(wire)} \cup ToSet(received)
           /\ LET said == {i \in DOMAIN wire' : wire'[i].event \in Statuses}
              IN  IF said = {} THEN shown = status
                  ELSE \E i \in said : wire'[i].event = status /\ \A j \in said : j <= i
  <1>1. TypeOK /\ LogInv /\ FlowInv /\ HandlerInv /\ StatusInv
    BY DEF StrInv
  <1>2. pc = "sleep" /\ NewEvents = <<>> /\ wire' = wire \o StatusFrames \o ContainerFrames
    BY <1>1, OnlyPollEnds
  <1>3. PICK d, r, w, v, x, b : d = All /\ r = received /\ w = wire /\ v = wire' /\ x = shown /\ b = status
    OBVIOUS
  <1>4. Flow(d, r, w)
    BY <1>1, <1>3, FlowIs
  <1>5. PICK c \in Nat, p \in Nat, m \in Nat : c = Len(d) /\ p = Len(r) /\ m = Len(w)
    BY <1>4 DEF Flow, Distinct
  <1>6. DOMAIN d = 1 .. c /\ DOMAIN r = 1 .. p /\ DOMAIN w = 1 .. m
    BY <1>4, <1>5 DEF Flow, Distinct
  <1>7. \A k \in 1 .. c : Through(d, k, r, w)
    <2>1. todo = <<>> /\ Len(<<>>) = 0
      BY <1>1, <1>2 DEF HandlerInv
    <2>2. PICK n \in 0 .. c : Reading(d, n, seen, <<>>, r, w, Current)
      BY <1>1, <1>2, <1>3, <1>5, <2>1 DEF HandlerInv
    <2>3. seen = {d[k].id : k \in 1 .. n} /\ \A k \in 1 .. n : Through(d, k, r, w)
      <3>1. n + 0 = n
        OBVIOUS
      <3> QED BY <2>1, <2>2, <3>1 DEF Reading
    <2>4. NewEvents = SubSeq(d, n + 1, c)
      BY <1>1, <1>3, <1>5, <2>3, NewsIs
    <2>5. Len(SubSeq(d, n + 1, c)) = c - n
      <3>1. d \in Seq(Events) /\ n \in 0 .. Len(d)
        BY <1>4, <1>5 DEF Flow, Distinct
      <3>2. Len(SubSeq(d, n + 1, Len(d))) = Len(d) - n
        BY <3>1, RestIs
      <3> QED BY <1>5, <3>2
    <2>6. n = c
      <3>1. Len(SubSeq(d, n + 1, c)) = 0
        BY <1>2, <2>1, <2>4
      <3>2. c - n = 0
        BY <2>5, <3>1
      <3> QED BY <3>2
    <2> QED BY <2>3, <2>6
  <1>8. ToSet(Ids(OnDisk)) \subseteq {f.id : f \in ToSet(wire)} \cup ToSet(received)
    <2>1. OnDisk = d
      BY <1>3 DEF OnDisk, All
    <2>2. ToSet(Ids(d)) = {d[k].id : k \in 1 .. c}
      BY <1>6 DEF ToSet, Ids
    <2>3. ToSet(r) = {r[i] : i \in 1 .. p} /\ ToSet(w) = {w[j] : j \in 1 .. m}
      BY <1>6 DEF ToSet
    <2>4. \A k \in 1 .. c : (\E i \in 1 .. p : r[i] = d[k].id) \/ \E h \in 1 .. m : w[h].id = d[k].id
      BY <1>5, <1>7 DEF Through, Passed
    <2>5. \A k \in 1 .. c : d[k].id \in {f.id : f \in ToSet(w)} \cup ToSet(r)
      BY <2>3, <2>4
    <2> QED BY <1>3, <2>1, <2>2, <2>5
  <1>9. Said(v, x, b) /\ v \in Seq(Frames)
    <2>1. Carries(wire', wire)
      BY <1>1, <1>2, Parting DEF FlowInv
    <2>2. Said(wire, shown, lastStatus)
      BY <1>1, <1>2 DEF StatusInv, Serving
    <2>3. Said(wire', shown, status)
      BY <1>1, <1>2, <2>2, Parting DEF FlowInv
    <2> QED BY <1>3, <2>1, <2>3 DEF Carries
  <1>10. PICK l \in Nat : l = Len(v) /\ DOMAIN v = 1 .. l
    BY <1>9
  <1>11. PICK said : said = {i \in 1 .. l : v[i].event \in Statuses}
    OBVIOUS
  <1>12. IF said = {} THEN x = b ELSE \E i \in said : v[i].event = b /\ \A j \in said : j <= i
    <2>1. CASE said = {}
      BY <1>9, <1>10, <1>11, <2>1 DEF Said
    <2>2. CASE said # {}
      <3>1. said \in SUBSET (1 .. l)
        BY <1>11
      <3>2. PICK i \in said : \A j \in said : j <= i
        BY <2>2, <3>1, LastOne
      <3>3. \A h \in i + 1 .. l : v[h].event \notin Statuses
        BY <1>11, <3>2
      <3>4. v[i].event = b
        BY <1>9, <1>10, <1>11, <3>2, <3>3 DEF Said
      <3> QED BY <2>2, <3>2, <3>4
    <2> QED BY <2>1, <2>2
  <1>13. /\ said = {i \in DOMAIN wire' : wire'[i].event \in Statuses}
         /\ v = wire' /\ x = shown /\ b = status
    BY <1>3, <1>10, <1>11
  <1> QED BY <1>8, <1>12, <1>13, Zenon

(* When the handler closes the stream, every event on disk has been sent,   *)
(* and the last status a client reads is the session's: the end of a stream *)
(* is the end of what there is to say, for any log and any interleaving.    *)
THEOREM EndsHold == Spec => EndsComplete
  <1>1. Spec => []StrInv
    BY Starts, Steps, PTL DEF Spec
  <1>2. StrInv /\ [Next]_vars =>
           [pc # "ended" /\ pc' = "ended" /\ status # "gone" =>
              /\ ToSet(Ids(OnDisk)) \subseteq
                    {f.id : f \in ToSet(wire)} \cup ToSet(received)
              /\ LET said == {i \in DOMAIN wire' : wire'[i].event \in Statuses}
                 IN  IF said = {} THEN shown = status
                     ELSE \E i \in said : wire'[i].event = status /\ \A j \in said : j <= i
           ]_vars
    BY EndIsComplete, Zenon
  <1> QED BY <1>1, <1>2, PTL DEF Spec, EndsComplete
=============================================================================

