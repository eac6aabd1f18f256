---------------------------- MODULE PiLogProofs ----------------------------
(***************************************************************************)
(* What the operators of a session's log compute, for any log: FlattenSeq   *)
(* of a sequence with one element more, the events of a line, those of a    *)
(* log with one line more, and the latest of a type among them.  FlattenSeq *)
(* is a function's last value: its facts are proved of the least number     *)
(* that would break them.                                                   *)
(***************************************************************************)
EXTENDS PiLog, FiniteSetTheorems, SequenceTheorems, NaturalsInduction,
        WellFoundedInduction, TLAPS

----------------------------------------------------------------------------
(* The log as events, and the ids Pi's lines give them.                     *)
LogIds == {"line", "thinking", "tool"} \X Nat \X Nat
Types  == {"session.meta", "session.runtime_notice", "user.message", "agent.thinking",
           "agent.tool_use", "agent.message", "agent.tool_result"}
Events == [type : Types, id : LogIds]

(* A set of natural numbers that is not empty has a least element.          *)
LEMMA LeastOne ==
    ASSUME NEW T \in SUBSET Nat, T # {}
    PROVE  \E m \in T : \A n \in T : m <= n
  <1>1. PICK m \in T : \A n \in T : ~(<<n, m>> \in OpToRel(<, Nat))
    BY WFMin, NatLessThanWellFounded
  <1>2. \A n \in T : ~(n < m)
    BY <1>1 DEF OpToRel
  <1>3. m \in Nat /\ \A n \in T : n \in Nat
    OBVIOUS
  <1>4. \A n \in T : m <= n
    BY <1>2, <1>3
  <1> QED BY <1>4

(* f is what FlattenSeq computes of s, up to the n-th of its sequences.     *)
Flattens(f, s, n) ==
    f = [i \in 1 .. n |-> IF i = 1 THEN s[i] ELSE f[i - 1] \o s[i]]

LEMMA FlattensExists == ASSUME NEW s, NEW m \in Nat PROVE \E f : Flattens(f, s, m)
  <1> DEFINE Bad == {n \in Nat : ~\E f : Flattens(f, s, n)}
  <1> SUFFICES ASSUME Bad # {} PROVE FALSE
    OBVIOUS
  <1>1. PICK n \in Bad : \A k \in Bad : n <= k
    <2>1. Bad \in SUBSET Nat
      OBVIOUS
    <2> HIDE DEF Bad
    <2> QED BY <2>1, LeastOne
  <1>2. n \in Nat /\ ~\E f : Flattens(f, s, n)
    OBVIOUS
  <1>3. CASE n = 0
    <2>1. Flattens([i \in {} |-> {}], s, 0)
      BY DEF Flattens
    <2> QED BY <1>2, <1>3, <2>1
  <1>4. CASE n # 0
    <2>1. n - 1 \in Nat /\ ~(n <= n - 1)
      BY <1>2, <1>4
    <2>2. PICK f : Flattens(f, s, n - 1)
      BY <1>1, <2>1
    <2> DEFINE g == [i \in 1 .. n |-> IF i < n THEN f[i] ELSE IF n = 1 THEN s[n] ELSE f[n - 1] \o s[n]]
    <2>3. ASSUME NEW i \in 1 .. n
          PROVE  g[i] = IF i = 1 THEN s[i] ELSE g[i - 1] \o s[i]
      <3>1. CASE i < n
        <4>1. i \in 1 .. n - 1
          BY <1>2, <3>1
        <4>2. f[i] = IF i = 1 THEN s[i] ELSE f[i - 1] \o s[i]
          BY <2>2, <4>1 DEF Flattens
        <4>3. i # 1 => g[i - 1] = f[i - 1]
          BY <1>2, <4>1
        <4> QED BY <3>1, <4>2, <4>3
      <3>2. CASE i = n
        <4>1. i # 1 => g[i - 1] = f[i - 1]
          BY <1>2, <3>2
        <4> QED BY <1>2, <3>2, <4>1
      <3> QED BY <1>2, <3>1, <3>2
    <2>4. Flattens(g, s, n)
      <3>1. g = [i \in 1 .. n |-> g[i]]
        OBVIOUS
      <3> HIDE DEF g
      <3> QED BY <2>3, <3>1 DEF Flattens
    <2> QED BY <1>2, <2>4
  <1> QED BY <1>3, <1>4

(* What it computes of the first n depends on those alone.                  *)
LEMMA FlattensSame ==
    ASSUME NEW f, NEW g, NEW s, NEW t, NEW n \in Nat, NEW m \in Nat, n <= m,
           Flattens(f, s, n), Flattens(g, t, m), \A i \in 1 .. n : s[i] = t[i]
    PROVE  \A i \in 1 .. n : f[i] = g[i]
  <1> DEFINE Bad == {i \in 1 .. n : f[i] # g[i]}
  <1> SUFFICES ASSUME Bad # {} PROVE FALSE
    OBVIOUS
  <1>1. PICK i \in Bad : \A k \in Bad : i <= k
    <2>1. Bad \in SUBSET Nat
      OBVIOUS
    <2> HIDE DEF Bad
    <2> QED BY <2>1, LeastOne
  <1>2. i \in 1 .. n /\ i \in 1 .. m /\ f[i] # g[i]
    OBVIOUS
  <1>3. i # 1 => f[i - 1] = g[i - 1]
    <2> SUFFICES ASSUME i # 1, f[i - 1] # g[i - 1] PROVE FALSE
      OBVIOUS
    <2>1. i - 1 \in Bad /\ ~(i <= i - 1)
      BY <1>2
    <2> QED BY <1>1, <2>1
  <1>4. f[i] = IF i = 1 THEN s[i] ELSE f[i - 1] \o s[i]
    BY <1>2 DEF Flattens
  <1>5. g[i] = IF i = 1 THEN t[i] ELSE g[i - 1] \o t[i]
    BY <1>2 DEF Flattens
  <1> QED BY <1>2, <1>3, <1>4, <1>5

LEMMA FlattenIs ==
    ASSUME NEW s, Len(s) \in Nat \ {0}, NEW f, Flattens(f, s, Len(s))
    PROVE  FlattenSeq(s) = f[Len(s)]
  <1> DEFINE g == CHOOSE h : h = [i \in 1 .. Len(s) |-> IF i = 1 THEN s[i] ELSE h[i - 1] \o s[i]]
  <1>1. FlattenSeq(s) = g[Len(s)]
    BY DEF FlattenSeq
  <1>2. Flattens(g, s, Len(s))
    BY DEF Flattens
  <1> HIDE DEF g
  <1>3. \A i \in 1 .. Len(s) : g[i] = f[i]
    BY <1>2, FlattensSame
  <1> QED BY <1>1, <1>3

LEMMA FlattenEmpty == ASSUME NEW s, s = <<>> PROVE FlattenSeq(s) = <<>>
  BY DEF FlattenSeq

(* One sequence more: its elements come last.                               *)
LEMMA FlattenMore ==
    ASSUME NEW s, NEW t, NEW n \in Nat, Len(s) = n, Len(t) = n + 1,
           \A i \in 1 .. n : s[i] = t[i], n = 0 => s = <<>>,
           <<>> \o t[n + 1] = t[n + 1]
    PROVE  FlattenSeq(t) = FlattenSeq(s) \o t[n + 1]
  <1>0. n + 1 \in Nat \ {0} /\ n + 1 \in 1 .. n + 1 /\ (n + 1 = 1 <=> n = 0) /\ (n + 1) - 1 = n
    OBVIOUS
  <1>1. PICK g : Flattens(g, t, n + 1)
    BY <1>0, FlattensExists
  <1>2. FlattenSeq(t) = g[n + 1]
    BY <1>1, FlattenIs
  <1>3. g[n + 1] = IF n = 0 THEN t[n + 1] ELSE g[n] \o t[n + 1]
    <2>1. PICK m \in 1 .. n + 1 : m = n + 1
      BY <1>0
    <2>2. g[m] = IF m = 1 THEN t[m] ELSE g[m - 1] \o t[m]
      BY <1>1 DEF Flattens
    <2> QED BY <1>0, <2>1, <2>2
  <1>4. CASE n = 0
    <2>1. FlattenSeq(s) = <<>>
      BY <1>4, FlattenEmpty
    <2> QED BY <1>2, <1>3, <1>4, <2>1
  <1>5. CASE n # 0
    <2>1. PICK f : Flattens(f, s, n)
      BY FlattensExists
    <2>2. FlattenSeq(s) = f[n]
      BY <1>5, <2>1, FlattenIs
    <2>3. n <= n + 1 /\ n \in 1 .. n /\ n + 1 \in Nat
      BY <1>5
    <2>4. f[n] = g[n]
      BY <1>1, <2>1, <2>3, FlattensSame
    <2> QED BY <1>2, <1>3, <1>5, <2>2, <2>4
  <1> QED BY <1>4, <1>5

(* The k-th sequence is empty up to n, and one element of d from there.     *)
LEMMA FlattenRest ==
    ASSUME NEW S, NEW d \in Seq(S), NEW t, NEW n \in 0 .. Len(d), Len(t) = Len(d),
           Len(t) = 0 => t = <<>>,
           \A k \in 1 .. Len(d) : t[k] = IF k <= n THEN <<>> ELSE <<d[k]>>
    PROVE  FlattenSeq(t) = SubSeq(d, n + 1, Len(d))
  <1>1. PICK m \in Nat : m = Len(d)
    OBVIOUS
  <1>2. CASE m = 0
    <2>1. FlattenSeq(t) = <<>>
      BY <1>1, <1>2, FlattenEmpty
    <2>2. SubSeq(d, n + 1, Len(d)) = <<>>
      BY <1>1, <1>2, SubSeqEmpty
    <2> QED BY <2>1, <2>2
  <1>3. CASE m # 0
    <2>1. PICK f : Flattens(f, t, m)
      BY FlattensExists
    <2>2. FlattenSeq(t) = f[m]
      BY <1>1, <1>3, <2>1, FlattenIs
    <2> DEFINE Bad == {k \in 1 .. m : f[k] # SubSeq(d, n + 1, k)}
    <2>3. Bad = {}
      <3> SUFFICES ASSUME Bad # {} PROVE FALSE
        OBVIOUS
      <3>1. PICK k \in Bad : \A j \in Bad : k <= j
        <4>1. Bad \in SUBSET Nat
          OBVIOUS
        <4> HIDE DEF Bad
        <4> QED BY <4>1, LeastOne
      <3>2. k \in 1 .. m /\ f[k] # SubSeq(d, n + 1, k)
        OBVIOUS
      <3>3. f[k] = IF k = 1 THEN t[k] ELSE f[k - 1] \o t[k]
        BY <2>1, <3>2 DEF Flattens
      <3>4. k # 1 => f[k - 1] = SubSeq(d, n + 1, k - 1)
        <4> SUFFICES ASSUME k # 1, f[k - 1] # SubSeq(d, n + 1, k - 1) PROVE FALSE
          OBVIOUS
        <4>1. k - 1 \in Bad /\ ~(k <= k - 1)
          BY <3>2
        <4> QED BY <3>1, <4>1
      <3>5. k \in 1 .. Len(d) /\ t[k] = IF k <= n THEN <<>> ELSE <<d[k]>>
        BY <1>1, <3>2
      <3> HIDE DEF Bad
      <3>6. CASE k <= n
        <4>1. SubSeq(d, n + 1, k) = <<>> /\ (k # 1 => SubSeq(d, n + 1, k - 1) = <<>>)
          BY <3>5, <3>6, SubSeqEmpty
        <4>2. <<>> \o <<>> = <<>>
          BY ConcatEmptySeq, EmptySeq
        <4> QED BY <3>2, <3>3, <3>4, <3>5, <3>6, <4>1, <4>2
      <3>7. CASE k > n
        <4>1. SubSeq(d, n + 1, k) = SubSeq(d, n + 1, k - 1) \o <<d[k]>>
          <5>1. n + 1 \in 1 .. Len(d) /\ k \in n + 1 .. Len(d)
            BY <1>1, <3>2, <3>7
          <5> QED BY <5>1, SubSeqRecursiveSecond
        <4>2. t[k] = <<d[k]>>
          BY <3>5, <3>7
        <4>3. CASE k = 1
          <5>1. SubSeq(d, n + 1, k - 1) = <<>>
            BY <3>7, <4>3, SubSeqEmpty
          <5>2. <<d[k]>> \in Seq(S)
            BY <3>5
          <5>3. <<>> \o <<d[k]>> = <<d[k]>>
            BY <5>2, ConcatEmptySeq
          <5> QED BY <3>2, <3>3, <4>1, <4>2, <4>3, <5>1, <5>3
        <4>4. CASE k # 1
          BY <3>2, <3>3, <3>4, <4>1, <4>2, <4>4
        <4> QED BY <4>3, <4>4
      <3> QED BY <3>5, <3>6, <3>7
    <2>4. f[m] = SubSeq(d, n + 1, m)
      <3>1. m \in 1 .. m
        BY <1>3
      <3> QED BY <2>3, <3>1
    <2> QED BY <1>1, <2>2, <2>4
  <1> QED BY <1>2, <1>3

----------------------------------------------------------------------------
(* The events of one line: each has an id of its own, which tells the line. *)

OfLine(es, n) ==
    /\ es \in Seq(Events)
    /\ \A i \in 1 .. Len(es) : es[i].id[2] = n
    /\ \A i, j \in 1 .. Len(es) : es[i].id = es[j].id => i = j

LEMMA Single ==
    ASSUME NEW type \in Types, NEW n \in Nat
    PROVE  OfLine(<<Event(type, n, "line", 0)>>, n)
  <1>1. Event(type, n, "line", 0) \in Events /\ Event(type, n, "line", 0).id[2] = n
    BY DEF Event, Events, LogIds
  <1>2. PICK e \in Events : e = Event(type, n, "line", 0) /\ e.id[2] = n
    BY <1>1
  <1>3. <<e>> \in Seq(Events) /\ Len(<<e>>) = 1 /\ <<e>>[1] = e
    OBVIOUS
  <1> QED BY <1>2, <1>3 DEF OfLine

AreBlocks(es, n, part, c) ==
    es \in Seq(Events) /\ Len(es) = c /\ \A i \in 1 .. c : es[i].id = <<part, n, i>>

LEMMA Blocks ==
    ASSUME NEW type \in Types, NEW n \in Nat, NEW part \in {"thinking", "tool"}, NEW c \in Nat
    PROVE  AreBlocks(MapBlocks(type, n, part, c), n, part, c)
  <1>1. \A i \in 1 .. c : Event(type, n, part, i) \in Events /\ Event(type, n, part, i).id = <<part, n, i>>
    BY DEF Event, Events, LogIds
  <1>2. PICK f : f = [i \in 1 .. c |-> Event(type, n, part, i)]
    OBVIOUS
  <1>3. f \in Seq(Events) /\ Len(f) = c /\ \A i \in 1 .. c : f[i].id = <<part, n, i>>
    BY <1>1, <1>2
  <1> QED BY <1>2, <1>3 DEF MapBlocks, AreBlocks

LEMMA Joined ==
    ASSUME NEW n \in Nat, NEW s, NEW t, OfLine(s, n), OfLine(t, n),
           \A i \in 1 .. Len(s), j \in 1 .. Len(t) : s[i].id # t[j].id
    PROVE  OfLine(s \o t, n)
  <1>1. PICK a \in Nat, b \in Nat : a = Len(s) /\ b = Len(t)
    BY DEF OfLine
  <1>2. /\ s \o t \in Seq(Events) /\ Len(s \o t) = a + b
        /\ \A i \in 1 .. a + b : (s \o t)[i] = IF i <= a THEN s[i] ELSE t[i - a]
    BY <1>1, ConcatProperties DEF OfLine
  <1>3. PICK u : u = s \o t
    OBVIOUS
  <1>4. ASSUME NEW i \in 1 .. a + b
        PROVE  (i \in 1 .. a /\ u[i] = s[i]) \/ (i - a \in 1 .. b /\ u[i] = t[i - a])
    <2>1. u[i] = IF i <= a THEN s[i] ELSE t[i - a]
      BY <1>2, <1>3
    <2>2. IF i <= a THEN i \in 1 .. a ELSE i - a \in 1 .. b
      OBVIOUS
    <2> QED BY <2>1, <2>2
  <1>5. \A i \in 1 .. a + b : u[i].id[2] = n
    BY <1>1, <1>4 DEF OfLine
  <1>6. ASSUME NEW i \in 1 .. a + b, NEW j \in 1 .. a + b, u[i].id = u[j].id PROVE i = j
    <2>1. CASE i \in 1 .. a /\ j \in 1 .. a
      <3>1. u[i] = s[i] /\ u[j] = s[j]
        BY <1>2, <1>3, <2>1
      <3> QED BY <1>1, <1>6, <2>1, <3>1 DEF OfLine
    <2>2. CASE i \notin 1 .. a /\ j \notin 1 .. a
      <3>1. i - a \in 1 .. b /\ u[i] = t[i - a] /\ j - a \in 1 .. b /\ u[j] = t[j - a]
        BY <1>4, <2>2
      <3>2. i - a = j - a
        BY <1>1, <1>6, <3>1 DEF OfLine
      <3> QED BY <3>2
    <2>3. CASE i \in 1 .. a /\ j \notin 1 .. a
      <3>1. u[i] = s[i] /\ j - a \in 1 .. b /\ u[j] = t[j - a]
        BY <1>2, <1>3, <1>4, <2>3
      <3> QED BY <1>1, <1>6, <2>3, <3>1
    <2>4. CASE i \notin 1 .. a /\ j \in 1 .. a
      <3>1. u[j] = s[j] /\ i - a \in 1 .. b /\ u[i] = t[i - a]
        BY <1>2, <1>3, <1>4, <2>4
      <3> QED BY <1>1, <1>6, <2>4, <3>1
    <2> QED BY <2>1, <2>2, <2>3, <2>4
  <1> QED BY <1>2, <1>3, <1>5, <1>6 DEF OfLine

LEMMA NoEvents == ASSUME NEW n PROVE OfLine(<<>>, n)
  BY EmptySeq DEF OfLine, AreBlocks

LEMMA LineEvents ==
    ASSUME NEW line \in Lines, NEW n \in Nat
    PROVE  OfLine(MapLineToEvents(line, n), n)
  <1>0. \A type \in Types : OfLine(<<Event(type, n, "line", 0)>>, n)
    BY Single
  <1>1. CASE line.role = "meta"
    <2>1. MapLineToEvents(line, n) = <<Event("session.meta", n, "line", 0)>>
      BY <1>1 DEF MapLineToEvents
    <2> QED BY <1>0, <2>1 DEF Types
  <1>4. CASE line.role = "toolResult"
    <2>1. MapLineToEvents(line, n) = <<Event("agent.tool_result", n, "line", 0)>>
      BY <1>4 DEF MapLineToEvents
    <2> QED BY <1>0, <2>1 DEF Types
  <1>2. CASE line.role = "user"
    <2>1. MapLineToEvents(line, n) = MapUser(line, n)
      BY <1>2 DEF MapLineToEvents
    <2> QED BY <1>0, <2>1, NoEvents DEF MapUser, Types
  <1>3. CASE line.role = "assistant"
    <2>1. MapLineToEvents(line, n) = MapAssistant(line, n)
      BY <1>3 DEF MapLineToEvents
    <2>2. line.thinking \in Nat /\ line.tools \in Nat
      BY DEF Lines
    <2>3. PICK a : a = MapBlocks("agent.thinking", n, "thinking", line.thinking) /\ AreBlocks(a, n, "thinking", line.thinking)
      <3>1. "agent.thinking" \in Types /\ "thinking" \in {"thinking", "tool"}
        BY DEF Types
      <3> QED BY <2>2, <3>1, Blocks
    <2>4. PICK b : b = MapBlocks("agent.tool_use", n, "tool", line.tools) /\ AreBlocks(b, n, "tool", line.tools)
      <3>1. "agent.tool_use" \in Types /\ "tool" \in {"thinking", "tool"}
        BY DEF Types
      <3> QED BY <2>2, <3>1, Blocks
    <2>5. PICK c : /\ c = IF line.text THEN <<Event("agent.message", n, "line", 0)>> ELSE <<>>
                   /\ OfLine(c, n) /\ \A i \in 1 .. Len(c) : c[i].id = <<"line", n, 0>>
      <3>1. Len(<<Event("agent.message", n, "line", 0)>>) = 1
            /\ <<Event("agent.message", n, "line", 0)>>[1].id = <<"line", n, 0>>
        BY DEF Event
      <3>2. Len(<<>>) = 0
        OBVIOUS
      <3>3. OfLine(<<Event("agent.message", n, "line", 0)>>, n)
        BY <1>0 DEF Types
      <3>4. CASE line.text
        BY <3>1, <3>3, <3>4
      <3>5. CASE ~line.text
        BY <3>2, <3>5, NoEvents
      <3> QED BY <3>4, <3>5
    <2>6. OfLine(a, n)
      BY <2>2, <2>3 DEF OfLine, AreBlocks
    <2>7. OfLine(b, n)
      BY <2>2, <2>4 DEF OfLine, AreBlocks
    <2>8. OfLine(b \o c, n)
      <3>1. \A i \in 1 .. Len(b), j \in 1 .. Len(c) : b[i].id # c[j].id
        BY <2>4, <2>5 DEF AreBlocks
      <3> QED BY <2>5, <2>7, <3>1, Joined
    <2>9. \A j \in 1 .. Len(b \o c) : (b \o c)[j].id[1] # "thinking"
      <3>1. PICK p \in Nat, q \in Nat : p = Len(b) /\ q = Len(c)
        BY <2>4, <2>5 DEF OfLine, AreBlocks
      <3>2. /\ Len(b \o c) = p + q
            /\ \A i \in 1 .. p + q : (b \o c)[i] = IF i <= p THEN b[i] ELSE c[i - p]
        BY <3>1, <2>4, <2>5, ConcatProperties DEF OfLine, AreBlocks
      <3>3. ASSUME NEW i \in 1 .. p + q PROVE (b \o c)[i].id[1] # "thinking"
        <4>1. CASE i <= p
          BY <2>4, <3>1, <3>2, <4>1 DEF AreBlocks
        <4>2. CASE ~(i <= p)
          <5>1. i - p \in 1 .. q /\ (b \o c)[i] = c[i - p]
            BY <3>2, <4>2
          <5> QED BY <2>5, <3>1, <5>1
        <4> QED BY <4>1, <4>2
      <3> QED BY <3>2, <3>3
    <2>10. OfLine(a \o (b \o c), n)
      <3>1. \A i \in 1 .. Len(a), j \in 1 .. Len(b \o c) : a[i].id # (b \o c)[j].id
        BY <2>3, <2>9 DEF AreBlocks
      <3> QED BY <2>6, <2>8, <3>1, Joined
    <2>11. MapAssistant(line, n) = a \o (b \o c)
      <3>1. MapAssistant(line, n) = (a \o b) \o c
        BY <2>3, <2>4, <2>5 DEF MapAssistant
      <3>2. a \in Seq(Events) /\ b \in Seq(Events) /\ c \in Seq(Events)
        BY <2>3, <2>4, <2>5 DEF OfLine, AreBlocks
      <3>3. (a \o b) \o c = a \o (b \o c)
        BY <3>2, ConcatAssociative
      <3> QED BY <3>1, <3>3
    <2> QED BY <2>1, <2>10, <2>11
  <1> QED BY <1>1, <1>2, <1>3, <1>4 DEF Lines

----------------------------------------------------------------------------
(* The log grows at its end, by events of its own.                          *)

(* Every event has an id of its own, which tells its line.                  *)
Logged(d, l) ==
    /\ d \in Seq(Events)
    /\ \A i \in 1 .. Len(d) : d[i].id[2] \in 1 .. Len(l)
    /\ \A i, j \in 1 .. Len(d) : d[i].id = d[j].id => i = j

(* k is l and one line more.                                                *)
OneMore(k, l, line) ==
    l \in Seq(Lines) /\ Logged(ListBySession(l), l) /\ line \in Lines /\ k = Append(l, line)

(* d is the beginning of e, the events of k.                                *)
LogExtends(e, k, d) ==
    /\ k \in Seq(Lines) /\ Logged(e, k) /\ Len(d) <= Len(e)
    /\ \A i \in 1 .. Len(d) : e[i] = d[i]

LEMMA ListEmpty == Logged(ListBySession(<<>>), <<>>) /\ ListBySession(<<>>) = <<>>
  <1>1. PICK s : s = [n \in 1 .. 0 |-> MapLineToEvents(<<>>[n], n)]
    OBVIOUS
  <1>2. s \in Seq({}) /\ Len(s) = 0 /\ Len(<<>>) = 0
    BY <1>1
  <1>3. s = <<>>
    BY <1>2, EmptySeq
  <1>4. ListBySession(<<>>) = <<>>
    BY <1>1, <1>2, <1>3, FlattenEmpty DEF ListBySession
  <1>5. PICK d : d = <<>> /\ d \in Seq(Events) /\ Len(d) = 0
    <2>1. <<>> \in Seq(Events) /\ Len(<<>>) = 0
      BY EmptySeq
    <2> QED BY <2>1
  <1>6. Logged(d, <<>>)
    BY <1>5 DEF Logged
  <1> QED BY <1>4, <1>5, <1>6

LEMMA ListGrows ==
    ASSUME NEW l \in Seq(Lines), NEW line \in Lines, NEW k, k = Append(l, line)
    PROVE  /\ OfLine(MapLineToEvents(line, Len(l) + 1), Len(l) + 1)
           /\ ListBySession(k) = ListBySession(l) \o MapLineToEvents(line, Len(l) + 1)
  <1>1. PICK m \in Nat : m = Len(l)
    OBVIOUS
  <1>2. /\ Len(k) = m + 1 /\ k[m + 1] = line
        /\ \A n \in 1 .. m : k[n] = l[n]
    BY <1>1, AppendProperties
  <1>3. \A n \in 1 .. m : l[n] \in Lines
    BY <1>1
  <1>4. \A n \in 1 .. m + 1 : MapLineToEvents(k[n], n) \in Seq(Events)
    <2> SUFFICES ASSUME NEW n \in 1 .. m + 1 PROVE MapLineToEvents(k[n], n) \in Seq(Events)
      OBVIOUS
    <2>1. n \in Nat /\ k[n] \in Lines
      BY <1>2, <1>3
    <2> QED BY <2>1, LineEvents DEF OfLine
  <1>5. PICK s : s = [n \in 1 .. m |-> MapLineToEvents(l[n], n)]
    OBVIOUS
  <1>6. PICK t : t = [n \in 1 .. m + 1 |-> MapLineToEvents(k[n], n)]
    OBVIOUS
  <1>7. PICK es : es = MapLineToEvents(line, m + 1)
    OBVIOUS
  <1>8. t[m + 1] = es /\ OfLine(es, m + 1)
    BY <1>2, <1>6, <1>7, LineEvents
  <1>9. \A n \in 1 .. m : s[n] = t[n]
    BY <1>2, <1>5, <1>6
  <1>10. Len(s) = m /\ Len(t) = m + 1 /\ (m = 0 => s = <<>>)
    <2>1. s \in Seq(Seq(Events)) /\ t \in Seq(Seq(Events)) /\ DOMAIN s = 1 .. m /\ DOMAIN t = 1 .. m + 1
      BY <1>2, <1>4, <1>5, <1>6
    <2>2. Len(s) = m /\ Len(t) = m + 1
      BY <1>5, <1>6
    <2> QED BY <2>1, <2>2, EmptySeq
  <1>11. FlattenSeq(t) = FlattenSeq(s) \o es
    <2>1. <<>> \o t[m + 1] = t[m + 1]
      BY <1>8, ConcatEmptySeq DEF OfLine
    <2>2. FlattenSeq(t) = FlattenSeq(s) \o t[m + 1]
      BY <1>9, <1>10, <2>1, FlattenMore
    <2> QED BY <1>8, <2>2
  <1>12. ListBySession(l) = FlattenSeq(s)
    BY <1>1, <1>5 DEF ListBySession
  <1>13. ListBySession(k) = FlattenSeq(t)
    BY <1>2, <1>6 DEF ListBySession
  <1> QED BY <1>1, <1>7, <1>8, <1>11, <1>12, <1>13

(* What was in the log stays where it is.                                   *)
LEMMA ListExtends ==
    ASSUME NEW l, NEW line, NEW k, OneMore(k, l, line)
    PROVE  LogExtends(ListBySession(k), k, ListBySession(l))
  <1> USE DEF OneMore
  <1>0. PICK d, e : d = ListBySession(l) /\ e = ListBySession(k) /\ Logged(d, l)
    OBVIOUS
  <1>1. PICK es : /\ es = MapLineToEvents(line, Len(l) + 1)
                  /\ OfLine(es, Len(l) + 1) /\ e = d \o es
    BY <1>0, ListGrows
  <1>2. PICK m \in Nat, a \in Nat, b \in Nat : m = Len(l) /\ a = Len(d) /\ b = Len(es)
    <2>1. Len(l) \in Nat /\ Len(d) \in Nat
      BY <1>0 DEF Logged
    <2>2. Len(es) \in Nat
      BY <1>1 DEF OfLine
    <2> QED BY <2>1, <2>2
  <1>4. /\ e \in Seq(Events) /\ Len(e) = a + b
        /\ \A i \in 1 .. a + b : e[i] = IF i <= a THEN d[i] ELSE es[i - a]
    BY <1>0, <1>1, <1>2, ConcatProperties DEF Logged, OfLine
  <1>5. /\ d \in Seq(Events) /\ \A i \in 1 .. a : d[i].id[2] \in 1 .. m
        /\ \A i, j \in 1 .. a : d[i].id = d[j].id => i = j
    BY <1>0, <1>2 DEF Logged
  <1>6. /\ \A i \in 1 .. b : es[i].id[2] = m + 1
        /\ \A i, j \in 1 .. b : es[i].id = es[j].id => i = j
    BY <1>1, <1>2 DEF OfLine
  <1>7. \A i \in 1 .. a : e[i] = d[i]
    BY <1>4
  <1>8. \A i \in 1 .. a + b : i \in 1 .. a \/ (i - a \in 1 .. b /\ e[i] = es[i - a])
    BY <1>4
  <1>9. k \in Seq(Lines) /\ Len(k) = m + 1
    BY <1>2
  <1> HIDE DEF OneMore
  <1>10. ASSUME NEW i \in 1 .. a + b PROVE e[i].id[2] \in 1 .. m + 1
    <2>1. CASE i \in 1 .. a
      <3>1. e[i].id[2] \in 1 .. m
        BY <1>5, <1>7, <2>1
      <3> QED BY <3>1
    <2>2. CASE i \notin 1 .. a
      BY <1>6, <1>8, <2>2
    <2> QED BY <2>1, <2>2
  <1>11. ASSUME NEW i \in 1 .. a + b, NEW j \in 1 .. a + b, e[i].id = e[j].id PROVE i = j
    <2>1. CASE i \in 1 .. a /\ j \in 1 .. a
      BY <1>5, <1>7, <1>11, <2>1
    <2>2. CASE i \notin 1 .. a /\ j \notin 1 .. a
      <3>1. i - a = j - a
        BY <1>6, <1>8, <1>11, <2>2
      <3> QED BY <3>1
    <2>3. \A h \in 1 .. a : e[h].id[2] # m + 1
      BY <1>5, <1>7
    <2>4. \A h \in 1 .. a + b : h \notin 1 .. a => e[h].id[2] = m + 1
      BY <1>6, <1>8
    <2>5. i \in 1 .. a <=> j \in 1 .. a
      BY <1>11, <2>3, <2>4
    <2> QED BY <2>1, <2>2, <2>5
  <1> QED BY <1>0, <1>2, <1>4, <1>7, <1>9, <1>10, <1>11 DEF Logged, LogExtends

----------------------------------------------------------------------------
(* The latest event of some types.                                          *)

LEMMA MaxIs ==
    ASSUME NEW n \in Nat, NEW S \in SUBSET (1 .. n), S # {}
    PROVE  Max(S) \in S /\ \A x \in S : x <= Max(S)
  <1> DEFINE T == {m \in Nat : \A x \in S : x <= m}
  <1>1. PICK m \in T : \A k \in T : m <= k
    <2>1. n \in T /\ T \in SUBSET Nat
      OBVIOUS
    <2> HIDE DEF T
    <2> QED BY <2>1, LeastOne
  <1>2. m \in Nat /\ \A x \in S : x <= m
    OBVIOUS
  <1>3. m \in S
    <2> SUFFICES ASSUME m \notin S PROVE FALSE
      OBVIOUS
    <2>1. \A x \in S : x \in Nat /\ 1 <= x /\ x < m
      BY <1>2
    <2>2. m - 1 \in Nat /\ \A x \in S : x <= m - 1
      <3>1. PICK y \in S : y \in Nat /\ 1 <= y /\ y < m
        BY <2>1
      <3>2. m - 1 \in Nat
        BY <1>2, <3>1
      <3>3. ASSUME NEW x \in S PROVE x <= m - 1
        <4>1. x \in Nat /\ x < m
          BY <2>1
        <4> QED BY <1>2, <4>1
      <3> QED BY <3>2, <3>3
    <2>3. m - 1 \in T
      BY <2>2
    <2> QED BY <1>1, <1>2, <2>3
  <1>4. \E x \in S : \A y \in S : x >= y
    BY <1>2, <1>3
  <1>5. Max(S) \in S /\ \A y \in S : Max(S) >= y
    BY <1>4 DEF Max
  <1> QED BY <1>5

(* The k-th event of d is the last one of the types.                        *)
IsLast(d, types, k) ==
    /\ k \in 1 .. Len(d) /\ d[k].type \in types
    /\ \A j \in 1 .. Len(d) : d[j].type \in types => j <= k

Latest(d, l, types) ==
    \/ LatestOf(l, types) = {} /\ \A k \in 1 .. Len(d) : d[k].type \notin types
    \/ \E k \in Nat : IsLast(d, types, k) /\ LatestOf(l, types) = {d[k]}

LEMMA LatestIs ==
    ASSUME NEW l, NEW types, NEW d, d = ListBySession(l), d \in Seq(Events)
    PROVE  Latest(d, l, types)
  <1> DEFINE places == {k \in DOMAIN d : d[k].type \in types}
  <1>1. LatestOf(l, types) = IF places = {} THEN {} ELSE {d[Max(places)]}
    BY DEF LatestOf
  <1>2. PICK n \in Nat : n = Len(d) /\ DOMAIN d = 1 .. n
    OBVIOUS
  <1>3. CASE places = {}
    BY <1>1, <1>2, <1>3 DEF Latest
  <1>4. CASE places # {}
    <2>1. places \in SUBSET (1 .. n)
      BY <1>2
    <2>2. PICK k : k = Max(places)
      OBVIOUS
    <2>3. k \in places /\ \A x \in places : x <= k
      <3> HIDE DEF places
      <3> QED BY <1>4, <2>1, <2>2, MaxIs
    <2>4. k \in Nat /\ IsLast(d, types, k)
      BY <1>2, <2>3 DEF IsLast
    <2> QED BY <1>1, <1>4, <2>2, <2>4 DEF Latest
  <1> QED BY <1>3, <1>4

(* It is of a line of the log.                                              *)
LEMMA LatestInLog ==
    ASSUME NEW l, NEW types, Logged(ListBySession(l), l)
    PROVE  \/ LatestOf(l, types) = {}
           \/ \E e \in Events : LatestOf(l, types) = {e} /\ e.id[2] \in 1 .. Len(l)
  <1>1. PICK d : d = ListBySession(l) /\ Logged(d, l) /\ d \in Seq(Events)
    BY DEF Logged
  <1>2. CASE \E k \in Nat : IsLast(d, types, k) /\ LatestOf(l, types) = {d[k]}
    BY <1>1, <1>2 DEF Logged, IsLast
  <1>3. Latest(d, l, types)
    BY <1>1, LatestIs
  <1> QED BY <1>1, <1>2, <1>3 DEF Latest

(* A line more leaves it, or has it.                                        *)
StaysOrOf(k, l, types, n) ==
    \/ LatestOf(k, types) = LatestOf(l, types)
    \/ \E e \in Events : LatestOf(k, types) = {e} /\ e.id[2] = n

LEMMA LatestGrows ==
    ASSUME NEW l, NEW types, NEW line, NEW k, OneMore(k, l, line)
    PROVE  StaysOrOf(k, l, types, Len(l) + 1)
  <1> USE DEF OneMore
  <1>1. PICK d : d = ListBySession(l) /\ Logged(d, l) /\ d \in Seq(Events)
    BY DEF Logged
  <1>2. PICK es : es = MapLineToEvents(line, Len(l) + 1) /\ OfLine(es, Len(l) + 1)
    BY ListGrows
  <1>3. PICK e : e = ListBySession(k) /\ e = d \o es
    BY <1>1, <1>2, ListGrows
  <1>4. PICK m \in Nat, a \in Nat, b \in Nat : m = Len(l) /\ a = Len(d) /\ b = Len(es)
    <2>1. Len(l) \in Nat /\ Len(d) \in Nat
      BY <1>1
    <2>2. Len(es) \in Nat
      BY <1>2 DEF OfLine
    <2> QED BY <2>1, <2>2
  <1>5. /\ e \in Seq(Events) /\ Len(e) = a + b
        /\ \A i \in 1 .. a + b : e[i] = IF i <= a THEN d[i] ELSE es[i - a]
    BY <1>1, <1>2, <1>3, <1>4, ConcatProperties DEF OfLine
  <1>6. \A i \in 1 .. b : es[i].id[2] = m + 1
    BY <1>2, <1>4 DEF OfLine
  <1>7. \A i \in 1 .. a : i \in 1 .. a + b /\ e[i] = d[i]
    BY <1>4, <1>5
  <1>8. \A i \in 1 .. a + b : i \in 1 .. a \/ (i > a /\ i - a \in 1 .. b /\ e[i] = es[i - a])
    BY <1>4, <1>5
  <1>9. CASE LatestOf(k, types) = {} /\ \A i \in 1 .. Len(e) : e[i].type \notin types
    <2>1. \A i \in 1 .. a : d[i].type \notin types
      BY <1>5, <1>7, <1>9
    <2>2. Latest(d, l, types)
      BY <1>1, LatestIs
    <2>3. LatestOf(l, types) = {}
      BY <1>4, <2>1, <2>2 DEF IsLast, Latest
    <2> QED BY <1>9, <2>3 DEF StaysOrOf
  <1>10. ASSUME NEW i \in Nat, IsLast(e, types, i), LatestOf(k, types) = {e[i]}
         PROVE  StaysOrOf(k, l, types, Len(l) + 1)
    <2>1. i \in 1 .. a + b /\ e[i].type \in types /\ e[i] \in Events
      BY <1>5, <1>10 DEF IsLast
    <2>2. \A j \in 1 .. a : d[j].type \in types => j <= i
      BY <1>5, <1>7, <1>10 DEF IsLast
    <2>3. CASE i \in 1 .. a
      <3>1. d[i].type \in types /\ e[i] = d[i]
        BY <1>7, <2>1, <2>3
      <3>0. Latest(d, l, types)
        BY <1>1, LatestIs
      <3>2. PICK j \in Nat : IsLast(d, types, j) /\ LatestOf(l, types) = {d[j]}
        BY <1>4, <2>3, <3>0, <3>1 DEF Latest
      <3>3. j \in 1 .. a /\ d[j].type \in types /\ i <= j
        BY <1>4, <2>3, <3>1, <3>2 DEF IsLast
      <3>4. j <= i
        BY <2>2, <3>3
      <3>5. i = j
        BY <3>3, <3>4
      <3> QED BY <1>10, <3>1, <3>2, <3>5 DEF StaysOrOf
    <2>4. CASE i \notin 1 .. a
      BY <1>4, <1>6, <1>8, <1>10, <2>1, <2>4 DEF StaysOrOf
    <2> QED BY <2>3, <2>4
  <1>11. Latest(e, k, types)
    BY <1>3, <1>5, LatestIs
  <1> QED BY <1>9, <1>10, <1>11 DEF Latest

(* A line without such an event leaves it.                                  *)
Silent(line, types) ==
    \A n \in Nat : \A i \in 1 .. Len(MapLineToEvents(line, n)) :
        MapLineToEvents(line, n)[i].type \notin types

LEMMA LatestSame ==
    ASSUME NEW l, NEW types, NEW line, NEW k, OneMore(k, l, line), Silent(line, types)
    PROVE  LatestOf(k, types) = LatestOf(l, types)
  <1> USE DEF OneMore
  <1>0. StaysOrOf(k, l, types, Len(l) + 1)
    BY LatestGrows
  <1> SUFFICES ASSUME \E e \in Events : LatestOf(k, types) = {e} /\ e.id[2] = Len(l) + 1
               PROVE  FALSE
    BY <1>0 DEF StaysOrOf
  <1>1. PICK e \in Events : LatestOf(k, types) = {e} /\ e.id[2] = Len(l) + 1
    OBVIOUS
  <1>2. PICK d : d = ListBySession(k)
    OBVIOUS
  <1>5. PICK c : c = ListBySession(l) /\ Logged(c, l) /\ c \in Seq(Events)
    BY DEF Logged
  <1>6. PICK es : es = MapLineToEvents(line, Len(l) + 1) /\ OfLine(es, Len(l) + 1) /\ d = c \o es
    BY <1>2, <1>5, ListGrows
  <1>7. PICK m \in Nat, a \in Nat, b \in Nat : m = Len(l) /\ a = Len(c) /\ b = Len(es)
    <2>1. Len(l) \in Nat /\ Len(c) \in Nat
      BY <1>5
    <2>2. Len(es) \in Nat
      BY <1>6 DEF OfLine
    <2> QED BY <2>1, <2>2
  <1>8. /\ d \in Seq(Events) /\ Len(d) = a + b
        /\ \A j \in 1 .. a + b : d[j] = IF j <= a THEN c[j] ELSE es[j - a]
    BY <1>5, <1>6, <1>7, ConcatProperties DEF OfLine
  <1>3. PICK i \in Nat : IsLast(d, types, i) /\ LatestOf(k, types) = {d[i]}
    <2>1. Latest(d, k, types)
      BY <1>2, <1>8, LatestIs
    <2>2. LatestOf(k, types) # {}
      BY <1>1
    <2> QED BY <2>1, <2>2 DEF Latest
  <1>4. d[i] = e /\ i \in 1 .. Len(d) /\ d[i].type \in types
    BY <1>1, <1>3 DEF IsLast
  <1>9. \A j \in 1 .. b : es[j].type \notin types
    BY <1>6, <1>7 DEF Silent
  <1>10. \A j \in 1 .. a : c[j].id[2] \in 1 .. m
    BY <1>5, <1>7 DEF Logged
  <1>11. CASE i <= a
    <2>1. i \in 1 .. a /\ c[i] = e
      BY <1>4, <1>8, <1>11
    <2>2. m + 1 \in 1 .. m
      BY <1>1, <1>7, <1>10, <2>1
    <2> QED BY <2>2
  <1>12. CASE ~(i <= a)
    <2>1. i - a \in 1 .. b /\ d[i] = es[i - a]
      BY <1>4, <1>8, <1>12
    <2> QED BY <1>4, <1>9, <2>1
  <1> QED BY <1>11, <1>12

LEMMA LatestEmpty == ASSUME NEW types PROVE LatestOf(<<>>, types) = {}
  <1>1. PICK d : d = ListBySession(<<>>) /\ d \in Seq(Events) /\ Len(d) = 0
    <2>1. <<>> \in Seq(Events) /\ Len(<<>>) = 0
      BY EmptySeq
    <2> QED BY <2>1, ListEmpty
  <1>2. Latest(d, <<>>, types)
    BY <1>1, LatestIs
  <1> QED BY <1>1, <1>2 DEF IsLast, Latest

=============================================================================
