-------------------------- MODULE ControlPlaneProofs --------------------------
(***************************************************************************)
(* What the HTTP API and the store behind it promise, for any number of     *)
(* agents, sessions, credentials, callers, keys, calls and restarts: the    *)
(* two stores that answer alike, the catalog and the lines of delegation,   *)
(* the vaults, the rate limiter with the idempotency keys, and the upgrade  *)
(* of the database.  Each of the five has an inductive invariant of its     *)
(* own; the last section puts them together.                                *)
(***************************************************************************)
EXTENDS MCControlPlane, FiniteSetTheorems, NaturalsInduction, WellFoundedInduction, TLAPS

AtMostOne(S) == \A x, y \in S : x = y

(* A set of natural numbers that is not empty has a least element.          *)
LEMMA LeastOne ==
    ASSUME NEW T \in SUBSET Nat, T # {}
    PROVE  \E m \in T : \A n \in T : m <= n
  <1>1. PICK m \in T : \A n \in T : ~(<<n, m>> \in OpToRel(<, Nat))
    BY WFMin, NatLessThanWellFounded
  <1>2. \A n \in T : ~(n < m)
    BY <1>1 DEF OpToRel
  <1>3. m \in Nat /\ \A n \in T : n \in Nat
    OBVIOUS
  <1>4. \A n \in T : m <= n
    BY <1>2, <1>3
  <1> QED BY <1>4

----------------------------------------------------------------------------
(* The two stores (StoreParity).  First what ORDER BY and Array.filter      *)
(* compute: a sequence that goes up through the elements of S, as upto has  *)
(* them, has at k the element with k elements up to it.                     *)
GoesUp(s, S, upto) ==
    /\ s \in Seq(S) /\ \A x \in S : \E i \in 1 .. Len(s) : s[i] = x
    /\ \A i, j \in 1 .. Len(s) : <<s[i], s[j]>> \in upto <=> i <= j

LEMMA Rank ==
    ASSUME NEW S, NEW upto, NEW s, GoesUp(s, S, upto)
    PROVE  /\ Cardinality(S) = Len(s) /\ IsFiniteSet(S)
           /\ \A x \in S : \A k \in 1 .. Len(s) :
                 Cardinality({y \in S : <<y, x>> \in upto}) = k <=> x = s[k]
  <1>0. PICK n \in Nat : n = Len(s)
    BY DEF GoesUp
  <1>1. /\ \A i \in 1 .. n : s[i] \in S
        /\ \A x \in S : \E i \in 1 .. n : s[i] = x
        /\ \A i, j \in 1 .. n : <<s[i], s[j]>> \in upto <=> i <= j
    BY <1>0 DEF GoesUp
  <1>2. \A i, j \in 1 .. n : s[i] = s[j] => i = j
    <2> SUFFICES ASSUME NEW i \in 1 .. n, NEW j \in 1 .. n, s[i] = s[j] PROVE i = j
      OBVIOUS
    <2>1. <<s[i], s[i]>> \in upto /\ <<s[j], s[i]>> \in upto /\ <<s[i], s[j]>> \in upto
      BY <1>1
    <2>2. i <= j /\ j <= i
      BY <1>1, <2>1
    <2> QED BY <2>2
  <1>3. ASSUME NEW j \in 0 .. n
        PROVE  Cardinality({s[i] : i \in 1 .. j}) = j /\ IsFiniteSet({s[i] : i \in 1 .. j})
    <2>1. PICK T : T = {s[i] : i \in 1 .. j}
      OBVIOUS
    <2>2. PICK f : f = [i \in 1 .. j |-> s[i]]
      OBVIOUS
    <2>3. \A i \in 1 .. j : i \in 1 .. n
      BY <1>3
    <2>4. f \in Bijection(1 .. j, T)
      BY <1>2, <2>1, <2>2, <2>3 DEF Bijection, Injection, Surjection, IsInjective
    <2>5. ExistsBijection(1 .. j, T)
      BY <2>4 DEF ExistsBijection
    <2>6. IsFiniteSet(1 .. j) /\ Cardinality(1 .. j) = j
      <3>1. 1 \in Int /\ j \in Int /\ ((1 > j) => j = 0) /\ j - 1 + 1 = j
        BY <1>3
      <3> QED BY <3>1, FS_Interval
    <2> QED BY <2>1, <2>5, <2>6, FS_Bijection
  <1>4. S = {s[i] : i \in 1 .. n}
    BY <1>1
  <1>5. Cardinality(S) = n /\ IsFiniteSet(S)
    <2>1. n \in 0 .. n
      OBVIOUS
    <2> QED BY <1>3, <1>4, <2>1
  <1>6. ASSUME NEW j \in 1 .. n
        PROVE  Cardinality({y \in S : <<y, s[j]>> \in upto}) = j
    <2>1. {y \in S : <<y, s[j]>> \in upto} = {s[i] : i \in 1 .. j}
      <3>1. ASSUME NEW y \in S, <<y, s[j]>> \in upto PROVE \E i \in 1 .. j : y = s[i]
        <4>1. PICK i \in 1 .. n : s[i] = y
          BY <1>1
        <4>2. i <= j
          BY <1>1, <3>1, <4>1
        <4> QED BY <4>1, <4>2
      <3>2. ASSUME NEW i \in 1 .. j PROVE s[i] \in S /\ <<s[i], s[j]>> \in upto
        <4>1. i \in 1 .. n /\ i <= j
          BY <1>6
        <4> QED BY <1>1, <4>1
      <3> QED BY <3>1, <3>2
    <2>2. j \in 0 .. n
      OBVIOUS
    <2> QED BY <1>3, <2>1, <2>2
  <1>7. ASSUME NEW x \in S, NEW k \in 1 .. n
        PROVE  Cardinality({y \in S : <<y, x>> \in upto}) = k <=> x = s[k]
    <2>1. PICK j \in 1 .. n : s[j] = x
      BY <1>1
    <2>2. Cardinality({y \in S : <<y, x>> \in upto}) = j
      BY <1>6, <2>1
    <2> QED BY <1>2, <2>1, <2>2
  <1> QED BY <1>0, <1>5, <1>7

(* A set of places has a sequence that goes up through it.                  *)
LEMMA Places ==
    ASSUME NEW n \in Nat, NEW P \in SUBSET (1 .. n)
    PROVE  \E t \in Seq(P) : /\ \A x \in P : \E i \in 1 .. Len(t) : t[i] = x
                             /\ \A i, j \in 1 .. Len(t) : i < j => t[i] < t[j]
  <1> DEFINE Through(t, Q) == /\ \A x \in Q : \E i \in 1 .. Len(t) : t[i] = x
                              /\ \A i, j \in 1 .. Len(t) : i < j => t[i] < t[j]
             Good(m) == \A Q \in SUBSET (1 .. m) : \E t \in Seq(Q) : Through(t, Q)
             Bad == {m \in Nat : ~Good(m)}
  <1>1. Good(0)
    <2> SUFFICES ASSUME NEW Q \in SUBSET (1 .. 0) PROVE \E t \in Seq(Q) : Through(t, Q)
      OBVIOUS
    <2>1. Q = {} /\ <<>> \in Seq(Q) /\ Len(<<>>) = 0 /\ \A i \in 1 .. 0 : FALSE
      OBVIOUS
    <2>2. Through(<<>>, Q)
      BY <2>1
    <2> QED BY <2>1, <2>2
  <1>2. ASSUME NEW m \in Nat, Good(m) PROVE Good(m + 1)
    <2> SUFFICES ASSUME NEW Q \in SUBSET (1 .. m + 1) PROVE \E t \in Seq(Q) : Through(t, Q)
      OBVIOUS
    <2>0. Q \ {m + 1} \in SUBSET (1 .. m)
      <3>1. \A x \in Q : x # m + 1 => x \in 1 .. m
        OBVIOUS
      <3> QED BY <3>1
    <2>1. PICK R : R = Q \ {m + 1} /\ R \in SUBSET (1 .. m)
      BY <2>0
    <2>2. PICK t \in Seq(R) : Through(t, R)
      BY <1>2, <2>1
    <2>3. CASE m + 1 \notin Q
      <3>1. R = Q
        BY <2>1, <2>3
      <3> QED BY <2>2, <3>1
    <2>4. CASE m + 1 \in Q
      <3>1. PICK l \in Nat, x \in Q : l = Len(t) /\ x = m + 1
        BY <2>4
      <3>2. PICK u : u = Append(t, x)
        OBVIOUS
      <3>3. /\ u \in Seq(Q) /\ Len(u) = l + 1 /\ u[l + 1] = x
            /\ \A i \in 1 .. l : u[i] = t[i] /\ t[i] \in R
        <4>1. t \in Seq(Q)
          BY <2>1
        <4> QED BY <3>1, <3>2, <4>1
      <3>4. \A y \in Q : \E i \in 1 .. l + 1 : u[i] = y
        <4> SUFFICES ASSUME NEW y \in Q PROVE \E i \in 1 .. l + 1 : u[i] = y
          OBVIOUS
        <4>1. CASE y = x
          <5>1. l + 1 \in 1 .. l + 1
            OBVIOUS
          <5> QED BY <3>3, <4>1, <5>1
        <4>2. CASE y # x
          <5>1. PICK i \in 1 .. l : t[i] = y
            BY <2>1, <2>2, <3>1, <4>2
          <5>2. i \in 1 .. l + 1
            OBVIOUS
          <5> QED BY <3>3, <5>1, <5>2
        <4> QED BY <4>1, <4>2
      <3>5. \A i, j \in 1 .. l + 1 : i < j => u[i] < u[j]
        <4> SUFFICES ASSUME NEW i \in 1 .. l + 1, NEW j \in 1 .. l + 1, i < j PROVE u[i] < u[j]
          OBVIOUS
        <4>1. i \in 1 .. l
          OBVIOUS
        <4>2. CASE j = l + 1
          <5>1. u[i] \in 1 .. m
            BY <2>1, <3>3, <4>1
          <5> QED BY <3>1, <3>3, <4>2, <5>1
        <4>3. CASE j # l + 1
          <5>1. j \in 1 .. l
            BY <4>3
          <5> QED BY <2>2, <3>1, <3>3, <4>1, <5>1
        <4> QED BY <4>2, <4>3
      <3> QED BY <3>3, <3>4, <3>5
    <2> QED BY <2>3, <2>4
  <1>3. Good(n)
    <2> HIDE DEF Good
    <2>1. SUFFICES ASSUME ~Good(n) PROVE FALSE
      OBVIOUS
    <2>2. Bad \in SUBSET Nat /\ Bad # {}
      BY <2>1
    <2>3. PICK m \in Bad : \A k \in Bad : m <= k
      <3> HIDE DEF Bad
      <3> QED BY <2>2, LeastOne
    <2>4. m \in Nat /\ ~Good(m) /\ m # 0
      BY <1>1, <2>3
    <2>5. PICK k \in Nat : m = k + 1
      <3>1. m - 1 \in Nat /\ m = (m - 1) + 1
        BY <2>4
      <3> QED BY <3>1
    <2>6. Good(k)
      BY <2>3, <2>5
    <2> QED BY <1>2, <2>4, <2>5, <2>6
  <1> QED BY <1>3

----------------------------------------------------------------------------
(* A table and the map or list that has the same in memory.                 *)
Through(s, rows, E) ==
    /\ rows \in SUBSET [at : Nat, of : E]
    /\ s \in Seq(rows) /\ \A r \in rows : \E i \in 1 .. Len(s) : s[i] = r
    /\ \A i, j \in 1 .. Len(s) : i < j => s[i].at < s[j].at

OfAll(s) == [i \in 1 .. Len(s) |-> s[i].of]

Tallies(rows, M, E) == \E s : Through(s, rows, E) /\ M = OfAll(s)

LEMMA Upwards ==
    ASSUME NEW rows, NEW E, NEW s, Through(s, rows, E)
    PROVE  GoesUp(s, rows, {p \in rows \X rows : p[1].at <= p[2].at})
  <1>0. PICK n \in Nat : n = Len(s)
    BY DEF Through
  <1>1. /\ \A i \in 1 .. n : s[i] \in rows /\ s[i].at \in Nat
        /\ \A i, j \in 1 .. n : i < j => s[i].at < s[j].at
    BY <1>0 DEF Through
  <1>2. \A i, j \in 1 .. n : s[i].at <= s[j].at <=> i <= j
    <2> SUFFICES ASSUME NEW i \in 1 .. n, NEW j \in 1 .. n PROVE s[i].at <= s[j].at <=> i <= j
      OBVIOUS
    <2>1. i < j \/ i = j \/ j < i
      OBVIOUS
    <2>2. s[i].at \in Nat /\ s[j].at \in Nat
      BY <1>1
    <2>3. (i < j => s[i].at < s[j].at) /\ (j < i => s[j].at < s[i].at)
      BY <1>1
    <2> QED BY <2>1, <2>2, <2>3
  <1>3. \A i, j \in 1 .. n : <<s[i], s[j]>> \in rows \X rows
    BY <1>1
  <1> QED BY <1>0, <1>2, <1>3 DEF GoesUp, Through

LEMMA Downwards ==
    ASSUME NEW rows, NEW E, NEW s, Through(s, rows, E), NEW t,
           t = [i \in 1 .. Len(s) |-> s[Len(s) - i + 1]]
    PROVE  GoesUp(t, rows, {p \in rows \X rows : p[1].at >= p[2].at}) /\ Len(t) = Len(s)
  <1>0. PICK n \in Nat : n = Len(s)
    BY DEF Through
  <1>1. /\ \A i \in 1 .. n : s[i] \in rows /\ s[i].at \in Nat
        /\ \A i, j \in 1 .. n : i < j => s[i].at < s[j].at
        /\ \A r \in rows : \E i \in 1 .. n : s[i] = r
    BY <1>0 DEF Through
  <1>2. \A i \in 1 .. n : n - i + 1 \in 1 .. n /\ n - (n - i + 1) + 1 = i
    OBVIOUS
  <1>3. \A i \in 1 .. n : t[i] = s[n - i + 1] /\ t[i] \in rows
    BY <1>0, <1>1, <1>2
  <1>4. t \in Seq(rows) /\ Len(t) = n
    <2>1. t = [i \in 1 .. n |-> s[n - i + 1]] /\ \A i \in 1 .. n : s[n - i + 1] \in rows
      BY <1>0, <1>1, <1>2
    <2> QED BY <2>1
  <1>5. \A r \in rows : \E i \in 1 .. n : t[i] = r
    <2> SUFFICES ASSUME NEW r \in rows PROVE \E i \in 1 .. n : t[i] = r
      OBVIOUS
    <2>1. PICK i \in 1 .. n : s[i] = r
      BY <1>1
    <2>2. n - i + 1 \in 1 .. n /\ t[n - i + 1] = s[n - (n - i + 1) + 1]
      BY <1>2, <1>3
    <2> QED BY <1>2, <2>1, <2>2
  <1>6. \A i, j \in 1 .. n : t[i].at >= t[j].at <=> i <= j
    <2> SUFFICES ASSUME NEW i \in 1 .. n, NEW j \in 1 .. n PROVE t[i].at >= t[j].at <=> i <= j
      OBVIOUS
    <2>0. PICK k \in 1 .. n, l \in 1 .. n :
             k = n - i + 1 /\ l = n - j + 1 /\ t[i] = s[k] /\ t[j] = s[l]
      BY <1>2, <1>3
    <2>1. (k < l \/ k = l \/ l < k) /\ (i <= j <=> l <= k)
      BY <2>0
    <2>2. PICK x \in Nat, y \in Nat : x = s[k].at /\ y = s[l].at
      BY <1>1
    <2>3. (k < l => x < y) /\ (l < k => y < x) /\ (k = l => x = y)
      BY <1>1, <2>2
    <2>4. x >= y <=> l <= k
      BY <2>1, <2>3
    <2> QED BY <2>0, <2>1, <2>2, <2>4
  <1>7. \A i, j \in 1 .. n : <<t[i], t[j]>> \in rows \X rows
    <2> SUFFICES ASSUME NEW i \in 1 .. n, NEW j \in 1 .. n PROVE <<t[i], t[j]>> \in rows \X rows
      OBVIOUS
    <2>1. PICK x \in rows, y \in rows : x = t[i] /\ y = t[j]
      BY <1>3
    <2>2. <<x, y>> \in rows \X rows
      OBVIOUS
    <2> QED BY <2>1, <2>2
  <1>8. \A i, j \in 1 .. n :
           <<t[i], t[j]>> \in {p \in rows \X rows : p[1].at >= p[2].at} <=> i <= j
    <2> SUFFICES ASSUME NEW i \in 1 .. n, NEW j \in 1 .. n
                 PROVE  <<t[i], t[j]>> \in {p \in rows \X rows : p[1].at >= p[2].at} <=> i <= j
      OBVIOUS
    <2>1. PICK p \in rows \X rows : p = <<t[i], t[j]>>
      BY <1>7
    <2>2. p[1] = t[i] /\ p[2] = t[j]
      BY <2>1
    <2>3. p[1].at >= p[2].at <=> i <= j
      <3>1. t[i].at >= t[j].at <=> i <= j
        BY <1>6
      <3> QED BY <2>2, <3>1
    <2> QED BY <2>1, <2>3
  <1> QED BY <1>0, <1>4, <1>5, <1>8 DEF GoesUp


LEMMA Listed ==
    ASSUME NEW rows, NEW E, NEW s, Through(s, rows, E)
    PROVE  /\ Ascending(rows) = OfAll(s)
           /\ Descending(rows) = Reverse(OfAll(s))
           /\ Cardinality(rows) = Len(s) /\ IsFiniteSet(rows)
  <1>0. PICK n \in Nat : n = Len(s)
    BY DEF Through
  <1>1. PICK up : up = {p \in rows \X rows : p[1].at <= p[2].at}
    OBVIOUS
  <1>2. PICK down : down = {p \in rows \X rows : p[1].at >= p[2].at}
    OBVIOUS
  <1>3. PICK t : t = [i \in 1 .. Len(s) |-> s[Len(s) - i + 1]]
    OBVIOUS
  <1>4. GoesUp(s, rows, up) /\ GoesUp(t, rows, down) /\ Len(t) = n
    BY <1>0, <1>1, <1>2, <1>3, Upwards, Downwards
  <1>5. Cardinality(rows) = n /\ IsFiniteSet(rows)
    BY <1>0, <1>4, Rank
  <1>6. \A r \in rows : {q \in rows : q.at <= r.at} = {q \in rows : <<q, r>> \in up}
    BY <1>1
  <1>7. \A r \in rows : {q \in rows : q.at >= r.at} = {q \in rows : <<q, r>> \in down}
    BY <1>2
  <1>8. ASSUME NEW k \in 1 .. n
        PROVE  (CHOOSE r \in rows : Cardinality({q \in rows : q.at <= r.at}) = k) = s[k]
    <2>1. \A r \in rows : Cardinality({q \in rows : q.at <= r.at}) = k <=> r = s[k]
      BY <1>0, <1>4, <1>6, Rank
    <2>2. s[k] \in rows
      BY <1>0 DEF Through
    <2> QED BY <2>1, <2>2
  <1>9. ASSUME NEW k \in 1 .. n
        PROVE  (CHOOSE r \in rows : Cardinality({q \in rows : q.at >= r.at}) = k) = t[k]
    <2>1. \A r \in rows : Cardinality({q \in rows : q.at >= r.at}) = k <=> r = t[k]
      BY <1>0, <1>4, <1>7, Rank
    <2>2. t[k] \in rows
      BY <1>4 DEF GoesUp
    <2> QED BY <2>1, <2>2
  <1>10. Ascending(rows) = OfAll(s)
    <2>1. PICK F : F = [k \in 1 .. n |-> CHOOSE r \in rows : Cardinality({q \in rows : q.at <= r.at}) = k]
      OBVIOUS
    <2>2. Ascending(rows) = [k \in 1 .. n |-> F[k].of]
      BY <1>5, <2>1 DEF Ascending, Sorted
    <2>3. \A k \in 1 .. n : F[k] = s[k]
      BY <1>8, <2>1
    <2> QED BY <1>0, <2>2, <2>3 DEF OfAll
  <1>11. Descending(rows) = [k \in 1 .. n |-> t[k].of]
    <2>1. PICK F : F = [k \in 1 .. n |-> CHOOSE r \in rows : Cardinality({q \in rows : q.at >= r.at}) = k]
      OBVIOUS
    <2>2. Descending(rows) = [k \in 1 .. n |-> F[k].of]
      BY <1>5, <2>1 DEF Descending, Sorted
    <2>3. \A k \in 1 .. n : F[k] = t[k]
      BY <1>9, <2>1
    <2> QED BY <2>2, <2>3
  <1>12. Reverse(OfAll(s)) = [k \in 1 .. n |-> t[k].of]
    <2>1. Len(OfAll(s)) = n
      BY <1>0 DEF OfAll
    <2>2. \A k \in 1 .. n : n - k + 1 \in 1 .. n
      OBVIOUS
    <2>3. \A k \in 1 .. n : OfAll(s)[n - k + 1] = t[k].of
      BY <1>0, <1>3, <2>2 DEF OfAll
    <2> QED BY <2>1, <2>3 DEF Reverse
  <1> QED BY <1>0, <1>5, <1>10, <1>11, <1>12

(* The id of the next row is above all there are.                           *)
LEMMA NextUp ==
    ASSUME NEW E, NEW rows \in SUBSET [at : Nat, of : E], NEW m \in Nat, \A r \in rows : r.at <= m
    PROVE  NextAt(rows) \in Nat /\ \A r \in rows : r.at < NextAt(rows)
  <1>0. \A r \in rows : r.at \in Nat
    OBVIOUS
  <1>1. CASE rows = {}
    BY <1>1 DEF NextAt
  <1>2. CASE rows # {}
    <2>1. PICK T : T = {b \in Nat : \A r \in rows : r.at <= b}
      OBVIOUS
    <2>2. PICK b \in T : \A c \in T : b <= c
      BY <2>1, LeastOne
    <2>3. \E r \in rows : r.at = b
      <3> SUFFICES ASSUME \A r \in rows : r.at # b PROVE FALSE
        OBVIOUS
      <3>1. b \in Nat /\ \A r \in rows : r.at < b
        BY <1>0, <2>1
      <3>2. b - 1 \in Nat /\ \A r \in rows : r.at <= b - 1
        BY <1>0, <1>2, <3>1
      <3> QED BY <2>1, <2>2, <3>1, <3>2
    <2>4. PICK n : n = CHOOSE a \in {r.at : r \in rows} : \A r \in rows : r.at <= a
      OBVIOUS
    <2>5. n \in {r.at : r \in rows} /\ \A r \in rows : r.at <= n
      <3>1. b \in {r.at : r \in rows} /\ \A r \in rows : r.at <= b
        BY <2>1, <2>3
      <3> QED BY <2>4, <3>1
    <2>6. NextAt(rows) = 1 + n
      BY <1>2, <2>4 DEF NextAt
    <2> QED BY <1>0, <2>5, <2>6
  <1> QED BY <1>1, <1>2

LEMMA PlacesBounded ==
    ASSUME NEW rows, NEW E, NEW s, Through(s, rows, E)
    PROVE  \E m \in Nat : \A r \in rows : r.at <= m
  <1>0. PICK n \in Nat : n = Len(s)
    BY DEF Through
  <1>1. /\ \A i \in 1 .. n : s[i] \in rows /\ s[i].at \in Nat
        /\ \A i, j \in 1 .. n : i < j => s[i].at < s[j].at
        /\ \A r \in rows : \E i \in 1 .. n : s[i] = r
    BY <1>0 DEF Through
  <1>2. CASE n = 0
    BY <1>1, <1>2
  <1>3. CASE n # 0
    <2>1. n \in 1 .. n /\ s[n].at \in Nat
      BY <1>1, <1>3
    <2>2. ASSUME NEW r \in rows PROVE r.at <= s[n].at
      <3>1. PICK i \in 1 .. n : s[i] = r
        BY <1>1
      <3>2. (i < n \/ i = n) /\ s[i].at \in Nat
        BY <1>1
      <3>3. s[i].at <= s[n].at
        BY <1>1, <2>1, <3>2
      <3> QED BY <3>1, <3>3
    <2> QED BY <2>1, <2>2
  <1> QED BY <1>2, <1>3

(* A row above all others comes last.                                       *)
LEMMA AddThrough ==
    ASSUME NEW rows, NEW E, NEW s, Through(s, rows, E), NEW r \in [at : Nat, of : E],
           \A q \in rows : q.at < r.at
    PROVE  /\ Through(Append(s, r), rows \cup {r}, E)
           /\ OfAll(Append(s, r)) = Append(OfAll(s), r.of)
  <1>0. PICK n \in Nat : n = Len(s)
    BY DEF Through
  <1>1. PICK u : u = Append(s, r)
    OBVIOUS
  <1>2. /\ \A i \in 1 .. n : s[i] \in rows /\ s[i].at \in Nat
        /\ \A i, j \in 1 .. n : i < j => s[i].at < s[j].at
        /\ \A q \in rows : \E i \in 1 .. n : s[i] = q
    BY <1>0 DEF Through
  <1>3. s \in Seq(rows \cup {r})
    BY DEF Through
  <1>4. /\ u \in Seq(rows \cup {r}) /\ Len(u) = n + 1 /\ u[n + 1] = r
        /\ \A i \in 1 .. n : u[i] = s[i]
    BY <1>0, <1>1, <1>3
  <1>5. \A q \in rows \cup {r} : \E i \in 1 .. n + 1 : u[i] = q
    <2> SUFFICES ASSUME NEW q \in rows \cup {r} PROVE \E i \in 1 .. n + 1 : u[i] = q
      OBVIOUS
    <2>1. CASE q = r
      <3>1. n + 1 \in 1 .. n + 1
        OBVIOUS
      <3> QED BY <1>4, <2>1, <3>1
    <2>2. CASE q \in rows
      <3>1. PICK i \in 1 .. n : s[i] = q
        BY <1>2, <2>2
      <3>2. i \in 1 .. n + 1
        OBVIOUS
      <3> QED BY <1>4, <3>1, <3>2
    <2> QED BY <2>1, <2>2
  <1>6. \A i, j \in 1 .. n + 1 : i < j => u[i].at < u[j].at
    <2> SUFFICES ASSUME NEW i \in 1 .. n + 1, NEW j \in 1 .. n + 1, i < j PROVE u[i].at < u[j].at
      OBVIOUS
    <2>1. i \in 1 .. n /\ u[i] = s[i] /\ s[i] \in rows
      BY <1>2, <1>4
    <2>2. CASE j = n + 1
      BY <1>4, <2>1, <2>2
    <2>3. CASE j # n + 1
      <3>1. j \in 1 .. n
        BY <2>3
      <3> QED BY <1>2, <1>4, <2>1, <3>1
    <2> QED BY <2>2, <2>3
  <1>7. rows \cup {r} \in SUBSET [at : Nat, of : E]
    BY DEF Through
  <1>8. OfAll(u) = Append(OfAll(s), r.of)
    <2>1. PICK v : v = OfAll(s)
      OBVIOUS
    <2>2. v = [i \in 1 .. n |-> s[i].of] /\ \A i \in 1 .. n : s[i].of \in E
      BY <1>0, <2>1 DEF OfAll, Through
    <2>3. v \in Seq(E) /\ Len(v) = n
      BY <2>2
    <2>4. PICK w : w = Append(v, r.of)
      OBVIOUS
    <2>5. /\ w \in Seq(E) /\ Len(w) = n + 1 /\ w[n + 1] = r.of
          /\ \A i \in 1 .. n : w[i] = v[i]
      BY <2>3, <2>4
    <2>6. w = [i \in 1 .. n + 1 |-> w[i]]
      BY <2>5
    <2>7. \A i \in 1 .. n + 1 : w[i] = u[i].of
      <3> SUFFICES ASSUME NEW i \in 1 .. n + 1 PROVE w[i] = u[i].of
        OBVIOUS
      <3>1. CASE i = n + 1
        BY <1>4, <2>5, <3>1
      <3>2. CASE i \in 1 .. n
        BY <1>4, <2>2, <2>5, <3>2
      <3> QED BY <3>1, <3>2
    <2>8. OfAll(u) = [i \in 1 .. n + 1 |-> u[i].of]
      BY <1>4 DEF OfAll
    <2> QED BY <2>1, <2>4, <2>6, <2>7, <2>8
  <1> QED BY <1>1, <1>4, <1>5, <1>6, <1>7, <1>8 DEF Through

(* An entry that is added, and an empty table.                              *)
LEMMA AddTallies ==
    ASSUME NEW rows, NEW M, NEW E, Tallies(rows, M, E), NEW e \in E
    PROVE  Tallies(Add(rows, e), Append(M, e), E)
  <1>1. PICK s : Through(s, rows, E) /\ M = OfAll(s)
    BY DEF Tallies
  <1>2. PICK m \in Nat : \A r \in rows : r.at <= m
    BY <1>1, PlacesBounded
  <1>3. NextAt(rows) \in Nat /\ \A r \in rows : r.at < NextAt(rows)
    BY <1>1, <1>2, NextUp DEF Through
  <1>4. PICK r \in [at : Nat, of : E] : r = [at |-> NextAt(rows), of |-> e]
    BY <1>3
  <1>5. \A q \in rows : q.at < r.at
    BY <1>3, <1>4
  <1>6. Through(Append(s, r), rows \cup {r}, E) /\ OfAll(Append(s, r)) = Append(OfAll(s), r.of)
    <2>1. Through(s, rows, E)
      BY <1>1
    <2>2. r \in [at : Nat, of : E]
      OBVIOUS
    <2>3. PICK S : S = [at : Nat, of : E] /\ r \in S
      BY <2>2
    <2>4. ASSUME NEW q \in S, \A p \in rows : p.at < q.at
          PROVE  /\ Through(Append(s, q), rows \cup {q}, E)
                 /\ OfAll(Append(s, q)) = Append(OfAll(s), q.of)
      BY <2>1, <2>3, <2>4, AddThrough
    <2> QED BY <1>5, <2>3, <2>4
  <1>7. r.of = e
    BY <1>4
  <1> QED BY <1>1, <1>4, <1>6, <1>7 DEF Tallies, Add

LEMMA EmptyTallies == ASSUME NEW E PROVE Tallies({}, <<>>, E)
  <1>1. Through(<<>>, {}, E)
    BY DEF Through
  <1>2. OfAll(<<>>) = <<>>
    BY DEF OfAll
  <1> QED BY <1>1, <1>2 DEF Tallies

(* What the rows are of is what the map has.                                *)
LEMMA TalliesGive ==
    ASSUME NEW rows, NEW M, NEW E, Tallies(rows, M, E)
    PROVE  /\ M \in Seq(E) /\ rows \in SUBSET [at : Nat, of : E]
           /\ \A r \in rows : \E i \in DOMAIN M : M[i] = r.of
           /\ \A i \in DOMAIN M : \E r \in rows : M[i] = r.of
           /\ Ascending(rows) = M /\ Descending(rows) = Reverse(M)
           /\ Cardinality(rows) = Len(M) /\ IsFiniteSet(rows)
  <1>1. PICK s : Through(s, rows, E) /\ M = OfAll(s)
    BY DEF Tallies
  <1>2. PICK n \in Nat : n = Len(s)
    BY <1>1 DEF Through
  <1>3. /\ \A i \in 1 .. n : s[i] \in rows /\ s[i].of \in E
        /\ \A r \in rows : \E i \in 1 .. n : s[i] = r
    BY <1>1, <1>2 DEF Through
  <1>4. M = [i \in 1 .. n |-> s[i].of]
    BY <1>1, <1>2 DEF OfAll
  <1>5. M \in Seq(E) /\ Len(M) = n /\ DOMAIN M = 1 .. n
    BY <1>3, <1>4
  <1>6. \A r \in rows : \E i \in DOMAIN M : M[i] = r.of
    BY <1>3, <1>4, <1>5
  <1>7. \A i \in DOMAIN M : \E r \in rows : M[i] = r.of
    BY <1>3, <1>4, <1>5
  <1>8. rows \in SUBSET [at : Nat, of : E]
    BY <1>1 DEF Through
  <1> QED BY <1>1, <1>2, <1>5, <1>6, <1>7, <1>8, Listed

(* Array.filter and DELETE: those of one condition, in the same order.      *)
LEMMA FilterTallies ==
    ASSUME NEW rows, NEW M, NEW E, Tallies(rows, M, E), NEW W
    PROVE  Tallies({r \in rows : r.of \in W}, Filter(M, W), E)
  <1>1. PICK s : Through(s, rows, E) /\ M = OfAll(s)
    BY DEF Tallies
  <1>2. PICK n \in Nat : n = Len(s)
    BY <1>1 DEF Through
  <1>3. /\ \A i \in 1 .. n : s[i] \in rows /\ s[i].of \in E
        /\ \A i, j \in 1 .. n : i < j => s[i].at < s[j].at
        /\ \A r \in rows : \E i \in 1 .. n : s[i] = r
    <2>1. /\ rows \in SUBSET [at : Nat, of : E] /\ s \in Seq(rows)
          /\ \A r \in rows : \E i \in 1 .. n : s[i] = r
          /\ \A i, j \in 1 .. n : i < j => s[i].at < s[j].at
      BY <1>1, <1>2 DEF Through
    <2>2. \A i \in 1 .. n : s[i] \in rows
      BY <1>2, <2>1
    <2> QED BY <2>1, <2>2
  <1>4. M = [i \in 1 .. n |-> s[i].of] /\ DOMAIN M = 1 .. n
    BY <1>1, <1>2 DEF OfAll
  <1>5. PICK P \in SUBSET (1 .. n) : P = {i \in DOMAIN M : M[i] \in W}
    BY <1>4
  <1>6. PICK t \in Seq(P) : /\ \A x \in P : \E i \in 1 .. Len(t) : t[i] = x
                            /\ \A i, j \in 1 .. Len(t) : i < j => t[i] < t[j]
    BY Places
  <1>7. PICK l \in Nat : l = Len(t)
    OBVIOUS
  <1>8. \A i \in 1 .. l : t[i] \in P /\ t[i] \in 1 .. n
    <2>1. \A i \in 1 .. Len(t) : t[i] \in P
      OBVIOUS
    <2>2. \A x \in P : x \in 1 .. n
      OBVIOUS
    <2> QED BY <1>7, <2>1, <2>2
  <1>9. PICK upto : upto = {p \in P \X P : p[1] <= p[2]}
    OBVIOUS
  <1>10. GoesUp(t, P, upto)
    <2>1. \A i, j \in 1 .. l : t[i] <= t[j] <=> i <= j
      <3> SUFFICES ASSUME NEW i \in 1 .. l, NEW j \in 1 .. l PROVE t[i] <= t[j] <=> i <= j
        OBVIOUS
      <3>1. PICK x \in Nat, y \in Nat : x = t[i] /\ y = t[j]
        BY <1>8
      <3>2. (i < j => x < y) /\ (j < i => y < x) /\ (i = j => x = y)
        BY <1>6, <1>7, <3>1
      <3> QED BY <3>1, <3>2
    <2>2. \A i, j \in 1 .. l : <<t[i], t[j]>> \in P \X P
      <3> SUFFICES ASSUME NEW i \in 1 .. l, NEW j \in 1 .. l PROVE <<t[i], t[j]>> \in P \X P
        OBVIOUS
      <3> QED BY <1>8
    <2>3. \A i, j \in 1 .. l : <<t[i], t[j]>> \in upto <=> i <= j
      BY <1>9, <2>1, <2>2
    <2> QED BY <1>6, <1>7, <2>3 DEF GoesUp
  <1>11. Cardinality(P) = l
    BY <1>7, <1>10, Rank
  <1>12. ASSUME NEW k \in 1 .. l PROVE Nth(P, k) = t[k]
    <2>1. \A x \in P : {y \in P : y <= x} = {y \in P : <<y, x>> \in upto}
      BY <1>9
    <2>2. \A x \in P : Cardinality({y \in P : y <= x}) = k <=> x = t[k]
      BY <1>7, <1>10, <2>1, Rank
    <2>3. t[k] \in P
      BY <1>8
    <2> QED BY <2>2, <2>3 DEF Nth
  <1>13. PICK u : u = [k \in 1 .. l |-> s[t[k]]]
    OBVIOUS
  <1>14. PICK hits : hits = {r \in rows : r.of \in W}
    OBVIOUS
  <1>15. u \in Seq(hits) /\ Len(u) = l
    <2>1. \A k \in 1 .. l : s[t[k]] \in hits
      <3> SUFFICES ASSUME NEW k \in 1 .. l PROVE s[t[k]] \in hits
        OBVIOUS
      <3>1. PICK i \in 1 .. n : i = t[k] /\ i \in P
        BY <1>8
      <3> QED BY <1>3, <1>4, <1>5, <1>14, <3>1
    <2> QED BY <1>13, <2>1
  <1>16. \A r \in hits : \E k \in 1 .. l : u[k] = r
    <2> SUFFICES ASSUME NEW r \in hits PROVE \E k \in 1 .. l : u[k] = r
      OBVIOUS
    <2>1. r \in rows /\ r.of \in W
      BY <1>14
    <2>2. PICK i \in 1 .. n : s[i] = r
      BY <1>3, <2>1
    <2>3. i \in P
      BY <1>4, <1>5, <2>1, <2>2
    <2>4. PICK k \in 1 .. l : t[k] = i
      BY <1>6, <1>7, <2>3
    <2> QED BY <1>13, <2>2, <2>4
  <1>17. \A i, j \in 1 .. l : i < j => u[i].at < u[j].at
    <2> SUFFICES ASSUME NEW i \in 1 .. l, NEW j \in 1 .. l, i < j PROVE u[i].at < u[j].at
      OBVIOUS
    <2>1. t[i] \in 1 .. n /\ t[j] \in 1 .. n /\ t[i] < t[j]
      BY <1>6, <1>7, <1>8
    <2>2. s[t[i]].at < s[t[j]].at
      BY <1>3, <2>1
    <2> QED BY <1>13, <2>2
  <1>18. hits \in SUBSET [at : Nat, of : E]
    BY <1>1, <1>14 DEF Through
  <1>19. Filter(M, W) = OfAll(u)
    <2>1. Filter(M, W) = [k \in 1 .. l |-> M[Nth(P, k)]]
      BY <1>5, <1>11 DEF Filter
    <2>2. \A k \in 1 .. l : M[Nth(P, k)] = u[k].of
      <3> SUFFICES ASSUME NEW k \in 1 .. l PROVE M[Nth(P, k)] = u[k].of
        OBVIOUS
      <3>1. PICK i \in 1 .. n : i = t[k]
        BY <1>8
      <3> QED BY <1>4, <1>12, <1>13, <3>1
    <2>3. OfAll(u) = [k \in 1 .. l |-> u[k].of]
      BY <1>15 DEF OfAll
    <2> QED BY <2>1, <2>2, <2>3
  <1> QED BY <1>14, <1>15, <1>16, <1>17, <1>18, <1>19 DEF Through, Tallies

(* UPDATE: the entries change, each in its place.                           *)
LEMMA ChangeTallies ==
    ASSUME NEW rows, NEW M, NEW E, Tallies(rows, M, E), NEW g \in [E -> E]
    PROVE  Tallies({[r EXCEPT !.of = g[r.of]] : r \in rows}, [i \in DOMAIN M |-> g[M[i]]], E)
  <1>1. PICK s : Through(s, rows, E) /\ M = OfAll(s)
    BY DEF Tallies
  <1>2. PICK n \in Nat : n = Len(s)
    BY <1>1 DEF Through
  <1>3. /\ \A i \in 1 .. n : s[i] \in rows
        /\ \A i, j \in 1 .. n : i < j => s[i].at < s[j].at
        /\ \A r \in rows : r \in [at : Nat, of : E]
        /\ \A r \in rows : \E i \in 1 .. n : s[i] = r
    BY <1>1, <1>2 DEF Through
  <1>4. M = [i \in 1 .. n |-> s[i].of] /\ DOMAIN M = 1 .. n
    BY <1>1, <1>2 DEF OfAll
  <1>5. PICK new : new = {[r EXCEPT !.of = g[r.of]] : r \in rows}
    OBVIOUS
  <1>6. PICK u : u = [i \in 1 .. n |-> [s[i] EXCEPT !.of = g[s[i].of]]]
    OBVIOUS
  <1>7. \A r \in rows : /\ [r EXCEPT !.of = g[r.of]] \in [at : Nat, of : E]
                        /\ [r EXCEPT !.of = g[r.of]].at = r.at
                        /\ [r EXCEPT !.of = g[r.of]].of = g[r.of]
    BY <1>3
  <1>8. u \in Seq(new) /\ Len(u) = n
    BY <1>3, <1>5, <1>6
  <1>9. \A r \in new : \E i \in 1 .. n : u[i] = r
    BY <1>3, <1>5, <1>6
  <1>10. \A i \in 1 .. n : u[i].at = s[i].at /\ u[i].of = g[s[i].of]
    BY <1>3, <1>6, <1>7
  <1>11. \A i, j \in 1 .. n : i < j => u[i].at < u[j].at
    BY <1>3, <1>10
  <1>12. new \in SUBSET [at : Nat, of : E]
    BY <1>5, <1>7
  <1>13. [i \in DOMAIN M |-> g[M[i]]] = OfAll(u)
    BY <1>4, <1>8, <1>10 DEF OfAll
  <1> QED BY <1>5, <1>8, <1>9, <1>11, <1>12, <1>13 DEF Through, Tallies

LEMMA UnchangedRows ==
    ASSUME NEW E, NEW rows \in SUBSET [at : Nat, of : E], NEW g, \A r \in rows : g[r.of] = r.of
    PROVE  {[r EXCEPT !.of = g[r.of]] : r \in rows} = rows
  <1>1. \A r \in rows : [r EXCEPT !.of = g[r.of]] = r
    OBVIOUS
  <1> QED BY <1>1

----------------------------------------------------------------------------
(* A table whose key is id, and the map that has the same.                  *)
Keyed(rows) == \A q, r \in rows : q.of.id = r.of.id => q = r

Table(rows, M, E) == Tallies(rows, M, E) /\ Keyed(rows)

ById(rows, k) == {r.of : r \in {q \in rows : q.of.id = k}}

(* A map has one entry of a key.                                            *)
LEMMA KeysOnce ==
    ASSUME NEW rows, NEW M, NEW E, Table(rows, M, E)
    PROVE  \A i, j \in DOMAIN M : M[i].id = M[j].id => i = j
  <1>1. PICK s : Through(s, rows, E) /\ M = OfAll(s)
    BY DEF Tallies, Table
  <1>2. PICK n \in Nat : n = Len(s)
    BY <1>1 DEF Through
  <1>3. /\ \A i \in 1 .. n : s[i] \in rows /\ s[i].at \in Nat
        /\ \A i, j \in 1 .. n : i < j => s[i].at < s[j].at
    BY <1>1, <1>2 DEF Through
  <1>4. M = [i \in 1 .. n |-> s[i].of] /\ DOMAIN M = 1 .. n
    BY <1>1, <1>2 DEF OfAll
  <1> SUFFICES ASSUME NEW i \in 1 .. n, NEW j \in 1 .. n, M[i].id = M[j].id PROVE i = j
    BY <1>4
  <1>5. s[i] = s[j]
    BY <1>3, <1>4 DEF Table, Keyed
  <1>6. PICK x \in Nat : x = s[i].at /\ x = s[j].at
    BY <1>3, <1>5
  <1>7. (i < j => x < x) /\ (j < i => x < x)
    BY <1>3, <1>6
  <1> QED BY <1>7

LEMMA NotFound ==
    ASSUME NEW rows, NEW M, NEW E, Table(rows, M, E), NEW k, ~MapHas(M, k)
    PROVE  /\ MapGet(M, k) = NotThere /\ ById(rows, k) = {}
           /\ \A r \in rows : r.of.id # k
  <1>1. \A r \in rows : \E i \in DOMAIN M : M[i] = r.of
    BY TalliesGive DEF Table
  <1>2. \A r \in rows : r.of.id # k
    BY <1>1 DEF MapHas
  <1> QED BY <1>2 DEF MapGet, ById

LEMMA OneFound ==
    ASSUME NEW rows, NEW M, NEW E, Table(rows, M, E), NEW k, MapHas(M, k)
    PROVE  \E e \in E : /\ e.id = k /\ MapGet(M, k) = Gives(e) /\ MapGet(M, k)[2] = e
                        /\ ById(rows, k) = {e}
                        /\ \A r \in rows : r.of.id = k => r.of = e
                        /\ \A i \in DOMAIN M : M[i].id = k => M[i] = e
                        /\ \E r \in rows : r.of = e
  <1>1. /\ M \in Seq(E)
        /\ \A r \in rows : \E i \in DOMAIN M : M[i] = r.of
        /\ \A i \in DOMAIN M : \E r \in rows : M[i] = r.of
    BY TalliesGive DEF Table
  <1>2. PICK i \in DOMAIN M : M[i].id = k
    BY DEF MapHas
  <1>3. PICK e \in E : e = M[i]
    BY <1>1, <1>2
  <1>4. \A j \in DOMAIN M : M[j].id = k => j = i
    BY <1>2, KeysOnce
  <1>5. (CHOOSE j \in DOMAIN M : M[j].id = k) = i
    BY <1>2, <1>4
  <1>6. MapGet(M, k) = Gives(e) /\ Gives(e)[2] = e
    BY <1>3, <1>5 DEF MapGet, Gives
  <1>7. \A r \in rows : r.of.id = k => r.of = e
    BY <1>1, <1>3, <1>4
  <1>8. \E r \in rows : r.of = e
    BY <1>1, <1>2, <1>3
  <1>9. ById(rows, k) = {e}
    BY <1>2, <1>3, <1>7, <1>8 DEF ById
  <1> QED BY <1>2, <1>3, <1>4, <1>6, <1>7, <1>8, <1>9

(* What the two get, and whether there is one.                              *)
LEMMA Looked ==
    ASSUME NEW rows, NEW M, NEW E, Table(rows, M, E), NEW k
    PROVE  Returned(ById(rows, k)) = MapGet(M, k) /\ (MapHas(M, k) <=> \E r \in rows : r.of.id = k)
  <1>1. CASE MapHas(M, k)
    <2>1. PICK e \in E : /\ e.id = k /\ MapGet(M, k) = Gives(e) /\ ById(rows, k) = {e}
                         /\ \E r \in rows : r.of = e
      BY <1>1, OneFound
    <2>2. Returned({e}) = Ok(e)
      BY DEF Returned
    <2> QED BY <1>1, <2>1, <2>2 DEF Ok, Gives
  <1>2. CASE ~MapHas(M, k)
    BY <1>2, NotFound DEF Returned, Undefined, NotThere
  <1> QED BY <1>1, <1>2

LEMMA Inserts ==
    ASSUME NEW rows, NEW M, NEW E, Table(rows, M, E), NEW e \in E, ~MapHas(M, e.id)
    PROVE  Table(Add(rows, e), MapSet(M, e), E)
  <1>1. MapSet(M, e) = Append(M, e)
    BY DEF MapSet
  <1>2. Tallies(Add(rows, e), MapSet(M, e), E)
    BY <1>1, AddTallies DEF Table
  <1>3. \A r \in rows : r.of.id # e.id
    BY NotFound
  <1>4. Keyed(Add(rows, e))
    <2>1. PICK new : new = [at |-> NextAt(rows), of |-> e]
      OBVIOUS
    <2>2. new.of = e
      BY <2>1
    <2>3. \A q, r \in rows \cup {new} : q.of.id = r.of.id => q = r
      BY <1>3, <2>2 DEF Table, Keyed
    <2> QED BY <2>1, <2>3 DEF Keyed, Add
  <1> QED BY <1>2, <1>4 DEF Table

(* A change that keeps the ids.                                             *)
LEMMA Changes ==
    ASSUME NEW rows, NEW M, NEW E, Table(rows, M, E), NEW g \in [E -> E],
           \A e \in E : g[e].id = e.id
    PROVE  Table({[r EXCEPT !.of = g[r.of]] : r \in rows}, [i \in DOMAIN M |-> g[M[i]]], E)
  <1>1. PICK new : new = {[r EXCEPT !.of = g[r.of]] : r \in rows}
    OBVIOUS
  <1>2. rows \in SUBSET [at : Nat, of : E]
    BY TalliesGive DEF Table
  <1>3. \A r \in rows : [r EXCEPT !.of = g[r.of]].of.id = r.of.id
    BY <1>2
  <1>4. Keyed(new)
    <2> SUFFICES ASSUME NEW a \in new, NEW b \in new, a.of.id = b.of.id PROVE a = b
      BY DEF Keyed
    <2>1. PICK q \in rows, r \in rows :
             a = [q EXCEPT !.of = g[q.of]] /\ b = [r EXCEPT !.of = g[r.of]]
      BY <1>1
    <2>2. q.of.id = r.of.id
      BY <1>3, <2>1
    <2> QED BY <2>1, <2>2 DEF Table, Keyed
  <1> QED BY <1>1, <1>4, ChangeTallies DEF Table

(* An update of the entry of a key, if there is one.                        *)
LEMMA Alters ==
    ASSUME NEW rows, NEW M, NEW E, Table(rows, M, E), NEW k, MapHas(M, k), NEW g \in [E -> E],
           \A e \in E : g[e].id = e.id, \A e \in E : e.id # k => g[e] = e
    PROVE  Table({[r EXCEPT !.of = g[r.of]] : r \in rows}, MapSet(M, g[MapGet(M, k)[2]]), E)
  <1>1. M \in Seq(E)
    BY TalliesGive DEF Table
  <1>2. PICK e \in E : /\ e.id = k /\ MapGet(M, k)[2] = e
                       /\ \A i \in DOMAIN M : M[i].id = k => M[i] = e
    BY OneFound
  <1>3. g[e] \in E /\ g[e].id = k
    BY <1>2
  <1>4. MapSet(M, g[e]) = [i \in DOMAIN M |-> IF M[i].id = k THEN g[e] ELSE M[i]]
    BY <1>3 DEF MapSet
  <1>5. \A i \in DOMAIN M : M[i] \in E /\ g[M[i]] = IF M[i].id = k THEN g[e] ELSE M[i]
    BY <1>1, <1>2
  <1>6. MapSet(M, g[e]) = [i \in DOMAIN M |-> g[M[i]]]
    BY <1>4, <1>5
  <1>7. Table({[r EXCEPT !.of = g[r.of]] : r \in rows}, [i \in DOMAIN M |-> g[M[i]]], E)
    BY Changes
  <1> QED BY <1>2, <1>6, <1>7

LEMMA Leaves ==
    ASSUME NEW rows, NEW M, NEW E, Table(rows, M, E), NEW W
    PROVE  Table({r \in rows : r.of \in W}, Filter(M, W), E)
  <1>1. Keyed({r \in rows : r.of \in W})
    BY DEF Table, Keyed
  <1> QED BY <1>1, FilterTallies DEF Table

LEMMA Deletes ==
    ASSUME NEW rows, NEW M, NEW E, Table(rows, M, E), NEW k
    PROVE  Table({r \in rows : r.of.id # k}, MapDelete(M, k), E)
  <1>1. PICK W : W = {e \in ToSet(M) : e.id # k}
    OBVIOUS
  <1>2. \A r \in rows : r.of \in ToSet(M)
    BY TalliesGive DEF Table, ToSet
  <1>3. {r \in rows : r.of.id # k} = {r \in rows : r.of \in W}
    BY <1>1, <1>2
  <1> QED BY <1>1, <1>3, Leaves DEF MapDelete

(* As many rows as entries of one condition.                                *)
RowsOf(rows, W) == {r \in rows : r.of \in W}
PlacesOf(M, W)  == {i \in DOMAIN M : M[i] \in W}

LEMMA AsMany ==
    ASSUME NEW rows, NEW M, NEW E, Tallies(rows, M, E), NEW W
    PROVE  /\ Cardinality(RowsOf(rows, W)) = Len(Filter(M, W))
           /\ Cardinality(RowsOf(rows, W)) = Cardinality(PlacesOf(M, W))
  <1>1. Cardinality(RowsOf(rows, W)) = Len(Filter(M, W))
    BY FilterTallies, TalliesGive DEF RowsOf
  <1>2. M \in Seq(E)
    BY TalliesGive
  <1>3. PICK n \in Nat : DOMAIN M = 1 .. n
    BY <1>2
  <1>4. PICK P : P = PlacesOf(M, W)
    OBVIOUS
  <1>5. IsFiniteSet(1 .. n)
    BY FS_Interval
  <1>6. Cardinality(P) \in Nat
    BY <1>3, <1>4, <1>5, FS_Subset, FS_CardinalityType DEF PlacesOf
  <1>7. Filter(M, W) = [k \in 1 .. Cardinality(P) |-> M[Nth(P, k)]]
    BY <1>4 DEF Filter, PlacesOf
  <1>8. Len(Filter(M, W)) = Cardinality(P)
    BY <1>6, <1>7
  <1> QED BY <1>1, <1>4, <1>8

LEMMA EmptyTable == ASSUME NEW E PROVE Table({}, <<>>, E)
  BY EmptyTallies DEF Table, Keyed

(* What a map has after a set and after a delete.                           *)
LEMMA MapSets ==
    ASSUME NEW rows, NEW M, NEW E, Table(rows, M, E), NEW e \in E
    PROVE  /\ \E R : Table(R, MapSet(M, e), E)
           /\ \A k : MapHas(MapSet(M, e), k) <=> k = e.id \/ MapHas(M, k)
           /\ \A k : MapGet(MapSet(M, e), k) = IF k = e.id THEN Gives(e) ELSE MapGet(M, k)
  <1>0. rows \in SUBSET [at : Nat, of : E]
    BY TalliesGive DEF Table
  <1>1. \E R : /\ Table(R, MapSet(M, e), E)
               /\ \A k : ById(R, k) = IF k = e.id THEN {e} ELSE ById(rows, k)
    <2>1. CASE MapHas(M, e.id)
      <3>1. PICK g \in [E -> E] : g = [d \in E |-> IF d.id = e.id THEN e ELSE d]
        OBVIOUS
      <3>2. PICK o \in E : /\ o.id = e.id /\ MapGet(M, e.id)[2] = o /\ \E r \in rows : r.of = o
                           /\ \A r \in rows : r.of.id = e.id => r.of = o
        BY <2>1, OneFound
      <3>3. PICK R : R = {[r EXCEPT !.of = g[r.of]] : r \in rows}
        OBVIOUS
      <3>4. Table(R, MapSet(M, e), E)
        <4>1. \A d \in E : g[d].id = d.id
          BY <3>1
        <4>2. \A d \in E : d.id # e.id => g[d] = d
          BY <3>1
        <4>3. Table(R, MapSet(M, g[MapGet(M, e.id)[2]]), E)
          BY <2>1, <3>3, <4>1, <4>2, Alters
        <4> QED BY <3>1, <3>2, <4>3
      <3>5. /\ \A r \in rows : /\ [r EXCEPT !.of = g[r.of]] \in R
                               /\ [r EXCEPT !.of = g[r.of]].of = IF r.of.id = e.id THEN e ELSE r.of
            /\ \A q \in R : \E r \in rows : q.of = IF r.of.id = e.id THEN e ELSE r.of
        BY <1>0, <3>1, <3>3
      <3>6. ASSUME NEW k PROVE ById(R, k) = IF k = e.id THEN {e} ELSE ById(rows, k)
        <4>1. \A x : x \in ById(R, k) => x \in IF k = e.id THEN {e} ELSE ById(rows, k)
          BY <3>5 DEF ById
        <4>2. \A r \in rows : \E q \in R : q.of = IF r.of.id = e.id THEN e ELSE r.of
          BY <3>5
        <4>3. \A x : (x \in IF k = e.id THEN {e} ELSE ById(rows, k)) => x \in ById(R, k)
          BY <3>2, <4>2 DEF ById
        <4> QED BY <4>1, <4>3
      <3> QED BY <3>4, <3>6
    <2>2. CASE ~MapHas(M, e.id)
      <3>1. PICK R : R = Add(rows, e) /\ Table(R, MapSet(M, e), E)
        BY <2>2, Inserts
      <3>2. PICK n : n = [at |-> NextAt(rows), of |-> e]
        OBVIOUS
      <3>3. R = rows \cup {n} /\ n.of = e
        BY <3>1, <3>2 DEF Add
      <3>4. \A r \in rows : r.of.id # e.id
        BY <2>2, NotFound
      <3>5. \A k : ById(R, k) = IF k = e.id THEN {e} ELSE ById(rows, k)
        BY <3>3, <3>4 DEF ById
      <3> QED BY <3>1, <3>5
    <2> QED BY <2>1, <2>2
  <1>2. PICK R : /\ Table(R, MapSet(M, e), E)
                 /\ \A k : ById(R, k) = IF k = e.id THEN {e} ELSE ById(rows, k)
    BY <1>1
  <1>3. ASSUME NEW k
        PROVE  /\ MapHas(MapSet(M, e), k) <=> k = e.id \/ MapHas(M, k)
               /\ MapGet(MapSet(M, e), k) = IF k = e.id THEN Gives(e) ELSE MapGet(M, k)
    <2>1. /\ Returned(ById(R, k)) = MapGet(MapSet(M, e), k)
          /\ MapHas(MapSet(M, e), k) <=> \E r \in R : r.of.id = k
      BY <1>2, Looked
    <2>2. /\ Returned(ById(rows, k)) = MapGet(M, k)
          /\ MapHas(M, k) <=> \E r \in rows : r.of.id = k
      BY Looked
    <2>3. /\ (\E r \in R : r.of.id = k) <=> ById(R, k) # {}
          /\ (\E r \in rows : r.of.id = k) <=> ById(rows, k) # {}
      BY DEF ById
    <2>4. Returned({e}) = Gives(e)
      BY DEF Returned, Ok, Gives
    <2> QED BY <1>2, <2>1, <2>2, <2>3, <2>4
  <1> QED BY <1>2, <1>3

LEMMA MapDeletes ==
    ASSUME NEW rows, NEW M, NEW E, Table(rows, M, E), NEW d
    PROVE  /\ \E R : Table(R, MapDelete(M, d), E)
           /\ \A k : MapHas(MapDelete(M, d), k) <=> k # d /\ MapHas(M, k)
           /\ \A k : MapGet(MapDelete(M, d), k) = IF k = d THEN NotThere ELSE MapGet(M, k)
  <1>1. PICK R : R = {r \in rows : r.of.id # d} /\ Table(R, MapDelete(M, d), E)
    BY Deletes
  <1>2. \A k : ById(R, k) = IF k = d THEN {} ELSE ById(rows, k)
    BY <1>1 DEF ById
  <1>3. ASSUME NEW k
        PROVE  /\ MapHas(MapDelete(M, d), k) <=> k # d /\ MapHas(M, k)
               /\ MapGet(MapDelete(M, d), k) = IF k = d THEN NotThere ELSE MapGet(M, k)
    <2>1. /\ Returned(ById(R, k)) = MapGet(MapDelete(M, d), k)
          /\ MapHas(MapDelete(M, d), k) <=> \E r \in R : r.of.id = k
      BY <1>1, Looked
    <2>2. /\ Returned(ById(rows, k)) = MapGet(M, k)
          /\ MapHas(M, k) <=> \E r \in rows : r.of.id = k
      BY Looked
    <2>3. Returned({}) = NotThere
      BY DEF Returned, Undefined, NotThere
    <2>4. (\E r \in R : r.of.id = k) <=> k # d /\ \E r \in rows : r.of.id = k
      BY <1>1
    <2> QED BY <1>2, <2>1, <2>2, <2>3, <2>4
  <1> QED BY <1>1, <1>3

----------------------------------------------------------------------------
(* The tables of sessions.                                                  *)
SessionEntries == [id : StoreSessions, parent : StoreSessions \cup {NoParent},
                   status : {"idle", "starting", "running", "failed"}, error : BOOLEAN,
                   turns : Nat, tokens : Nat]
EventEntries == [session : StoreSessions, event : Nat]
BoxEntries == [id : StoreSessions, box : {"cold", "warm"}]

(* No row or entry lives outside a table of either.                         *)
Shapes == db = [x \in Tables |-> db[x]] /\ mem = [x \in Maps |-> mem[x]]

Kept(T) == \A x \in T : db'[x] = db[x] /\ mem'[x] = mem[x]

InSession(id) == \E r \in db.sessions : r.of.id = id

SessionInv == Table(db.sessions, mem.sessions, SessionEntries)

(* SQLite has the containers that memory has but for those astray, and each *)
(* is of a session there is.                                                *)
BoxInv ==
    /\ \E R : Table(R, mem.boxes, BoxEntries)
    /\ db.boxes = {b \in BoxEntries : MapGet(mem.boxes, b.id) = Gives(b) /\ b.id \notin astray}
    /\ astray \in SUBSET StoreSessions /\ \A s \in astray : MapHas(mem.boxes, s)
    /\ \A b \in db.boxes : InSession(b.id)

(* A session's list in memory has the events of its rows in their order,    *)
(* and there is no empty list.                                              *)
Waiting(s) == \E t : /\ Through(t, Events(s), EventEntries)
                     /\ EventsOf(s) = [i \in 1 .. Len(t) |-> t[i].of.event]

ListEntries == [id : StoreSessions, events : Seq(Nat) \ {<<>>}]

QueueLists == \E R : Table(R, mem.queue, ListEntries)

QueueInv ==
    /\ db.queue \in SUBSET [at : Nat, of : EventEntries]
    /\ \E m \in Nat : \A r \in db.queue : r.at <= m
    /\ \A s \in StoreSessions : Waiting(s)
    /\ QueueLists

OfSessions == {"sessions", "queue", "boxes"}

LEMMA CreateSessionAlike ==
    ASSUME Shapes, SessionInv, BoxInv, NEW s \in StoreSessions,
           NEW parent \in StoreSessions \cup {NoParent}, ~Found(SqlSession(s)),
           SqlCreateSession(s, parent), MemCreateSession(s, parent), UNCHANGED astray
    PROVE  /\ Shapes' /\ SessionInv' /\ BoxInv' /\ sqlSaid' = memSaid'
           /\ Kept(Tables \ {"sessions"})
  <1>1. Entries(db.sessions, LAMBDA e : e.id = s) = ById(db.sessions, s)
    BY DEF Entries, Hit, ById
  <1>2. Returned(ById(db.sessions, s)) = Undefined
    BY <1>1 DEF Found, SqlSession
  <1>3. ~MapHas(mem.sessions, s) /\ ~InSession(s)
    <2>1. SUFFICES ASSUME MapHas(mem.sessions, s) PROVE FALSE
      BY Looked DEF SessionInv, InSession
    <2>2. PICK e \in SessionEntries : ById(db.sessions, s) = {e}
      BY <2>1, OneFound DEF SessionInv
    <2> QED BY <1>2, <2>2 DEF Returned, Ok, Undefined
  <1>4. PICK e \in SessionEntries :
           e = [id |-> s, parent |-> parent, status |-> "idle", error |-> FALSE,
                turns |-> 0, tokens |-> 0]
    BY DEF SessionEntries
  <1>5. e.id = s
    BY <1>4
  <1>6. db' = [db EXCEPT !.sessions = Add(@, e)] /\ sqlSaid' = Ok(e)
    BY <1>3, <1>4 DEF SqlCreateSession, InSession
  <1>7. mem' = [mem EXCEPT !.sessions = MapSet(@, e)] /\ memSaid' = Gives(e)
    BY <1>4 DEF MemCreateSession
  <1>8. /\ db'.sessions = Add(db.sessions, e) /\ mem'.sessions = MapSet(mem.sessions, e)
        /\ Shapes' /\ Kept(Tables \ {"sessions"})
    BY <1>6, <1>7 DEF Shapes, Kept, Tables, Maps
  <1>9. SessionInv'
    BY <1>3, <1>5, <1>8, Inserts DEF SessionInv
  <1>10. BoxInv'
    <2>1. db'.boxes = db.boxes /\ mem'.boxes = mem.boxes
      BY <1>8 DEF Kept, Tables
    <2>2. \A b \in db.boxes : InSession(b.id)'
      BY <1>8 DEF BoxInv, InSession, Add
    <2> QED BY <2>1, <2>2 DEF BoxInv, BoxEntries
  <1> QED BY <1>6, <1>7, <1>8, <1>9, <1>10 DEF Ok, Gives

(* What either finds of a container.                                        *)
LEMMA BoxLooked ==
    ASSUME BoxInv, NEW s \in StoreSessions
    PROVE  /\ SqlBox(s) = IF s \in astray THEN Undefined ELSE MapGet(mem.boxes, s)
           /\ Found(SqlBox(s)) <=> s \notin astray /\ MapHas(mem.boxes, s)
  <1>1. PICK R : Table(R, mem.boxes, BoxEntries)
    BY DEF BoxInv
  <1>2. PICK own : own = {b \in db.boxes : b.id = s}
    OBVIOUS
  <1>3. CASE s \in astray \/ ~MapHas(mem.boxes, s)
    <2>1. ~MapHas(mem.boxes, s) => MapGet(mem.boxes, s) = NotThere
      BY <1>1, NotFound
    <2>2. own = {}
      BY <1>2, <1>3, <2>1 DEF BoxInv, NotThere, Gives
    <2> QED BY <1>2, <1>3, <2>1, <2>2 DEF SqlBox, Returned, Found, Undefined, NotThere
  <1>4. CASE s \notin astray /\ MapHas(mem.boxes, s)
    <2>1. PICK e \in BoxEntries : e.id = s /\ MapGet(mem.boxes, s) = Gives(e)
      BY <1>1, <1>4, OneFound
    <2>2. own = {e}
      BY <1>2, <1>4, <2>1 DEF BoxInv, Gives
    <2>3. Returned({e}) = Gives(e)
      BY DEF Returned, Ok, Gives
    <2>4. SqlBox(s) = Gives(e)
      BY <1>2, <2>2, <2>3, Zenon DEF SqlBox
    <2>5. Found(Gives(e))
      BY DEF Found, Undefined, Gives
    <2> QED BY <1>4, <2>1, <2>4, <2>5
  <1> QED BY <1>3, <1>4

(* A session that SQLite has not.                                           *)
LEMMA SessionLooked ==
    ASSUME NEW s PROVE Found(SqlSession(s)) <=> InSession(s)
  <1>1. Entries(db.sessions, LAMBDA e : e.id = s) = ById(db.sessions, s)
    BY DEF Entries, Hit, ById
  <1>2. Returned(ById(db.sessions, s)) # Undefined <=> ById(db.sessions, s) # {}
    BY DEF Returned, Ok, Undefined
  <1>3. ById(db.sessions, s) # {} <=> InSession(s)
    BY DEF ById, InSession
  <1> QED BY <1>1, <1>2, <1>3 DEF Found, SqlSession

LEMMA DeleteSessionAlike ==
    ASSUME Shapes, SessionInv, BoxInv, NEW s \in StoreSessions,
           SqlDeleteSession(s), MemDeleteSession(s),
           astray' = IF Found(SqlBox(s)) THEN astray \cup {s} ELSE astray
    PROVE  /\ Shapes' /\ SessionInv' /\ BoxInv' /\ sqlSaid' = memSaid'
           /\ Kept(Tables \ {"sessions", "boxes"})
  <1>1. /\ db'.sessions = {r \in db.sessions : r.of.id # s}
        /\ db'.boxes = {b \in db.boxes : b.id # s}
        /\ mem'.sessions = MapDelete(mem.sessions, s)
        /\ Shapes' /\ Kept(Tables \ {"sessions", "boxes"}) /\ mem'.boxes = mem.boxes
    BY DEF SqlDeleteSession, MemDeleteSession, Shapes, Kept, Tables, Maps
  <1>2. SessionInv'
    BY <1>1, Deletes DEF SessionInv
  <1>3. BoxInv'
    <2>1. \A b \in db'.boxes : InSession(b.id)'
      BY <1>1 DEF BoxInv, InSession
    <2>2. /\ Found(SqlBox(s)) <=> s \notin astray /\ MapHas(mem.boxes, s)
          /\ ~Found(SqlBox(s)) => \A b \in db.boxes : b.id # s
      BY BoxLooked DEF Found, SqlBox, Returned, Ok, Undefined
    <2>3. db'.boxes = {b \in BoxEntries : MapGet(mem.boxes, b.id) = Gives(b) /\ b.id \notin astray'}
      BY <1>1, <2>2 DEF BoxInv
    <2>4. astray' \in SUBSET StoreSessions /\ \A k \in astray' : MapHas(mem.boxes, k)
      BY <2>2 DEF BoxInv
    <2> QED BY <1>1, <2>1, <2>3, <2>4 DEF BoxInv, BoxEntries
  <1>4. sqlSaid' = memSaid'
    <2>1. MapHas(mem.sessions, s) <=> \E r \in db.sessions : r.of.id = s
      BY Looked DEF SessionInv
    <2>2. (\E r \in db.sessions : r.of.id = s) = MapHas(mem.sessions, s)
      BY <2>1 DEF MapHas
    <2> QED BY <2>2 DEF SqlDeleteSession, MemDeleteSession, Was, Had
  <1> QED BY <1>1, <1>2, <1>3, <1>4

(* The updates of one session, by what they make of its row.                *)
Updates(s, g) ==
    /\ db' = [db EXCEPT !.sessions = {[r EXCEPT !.of = IF r.of.id = s THEN g[r.of] ELSE r.of] : r \in @}]
    /\ sqlSaid' = Returned({g[e] : e \in ById(db.sessions, s)})
    /\ IF ~MapHas(mem.sessions, s) THEN memSaid' = NotThere /\ UNCHANGED mem
       ELSE /\ mem' = [mem EXCEPT !.sessions = MapSet(@, g[MapGet(mem.sessions, s)[2]])]
            /\ memSaid' = Gives(g[MapGet(mem.sessions, s)[2]])

LEMMA UpdatesAlike ==
    ASSUME Shapes, SessionInv, BoxInv, NEW s \in StoreSessions,
           NEW g \in [SessionEntries -> SessionEntries], \A e \in SessionEntries : g[e].id = e.id,
           Updates(s, g), UNCHANGED astray
    PROVE  /\ Shapes' /\ SessionInv' /\ BoxInv' /\ sqlSaid' = memSaid'
           /\ Kept(Tables \ {"sessions"})
  <1>1. PICK h \in [SessionEntries -> SessionEntries] :
           h = [e \in SessionEntries |-> IF e.id = s THEN g[e] ELSE e]
    OBVIOUS
  <1>2. db.sessions \in SUBSET [at : Nat, of : SessionEntries]
    BY TalliesGive DEF SessionInv, Table
  <1>3. \A r \in db.sessions : h[r.of] = IF r.of.id = s THEN g[r.of] ELSE r.of
    BY <1>1, <1>2
  <1>4. {[r EXCEPT !.of = IF r.of.id = s THEN g[r.of] ELSE r.of] : r \in db.sessions}
        = {[r EXCEPT !.of = h[r.of]] : r \in db.sessions}
    BY <1>3
  <1>5. /\ db'.sessions = {[r EXCEPT !.of = h[r.of]] : r \in db.sessions}
        /\ \A x \in Tables : x # "sessions" => db'[x] = db[x]
        /\ db' = [x \in Tables |-> db'[x]]
    BY <1>4 DEF Updates, Shapes, Tables
  <1>6. \A e \in SessionEntries : h[e].id = e.id /\ (e.id # s => h[e] = e)
    BY <1>1
  <1>7. \A id : InSession(id) => InSession(id)'
    <2> SUFFICES ASSUME NEW r \in db.sessions PROVE InSession(r.of.id)'
      BY DEF InSession
    <2>1. PICK q \in db'.sessions : q = [r EXCEPT !.of = h[r.of]]
      BY <1>5
    <2>2. q.of.id = r.of.id
      BY <1>2, <1>6, <2>1
    <2> QED BY <2>1, <2>2 DEF InSession
  <1>8. CASE ~MapHas(mem.sessions, s)
    <2>1. /\ mem' = mem /\ memSaid' = NotThere
      BY <1>8 DEF Updates
    <2>2. ById(db.sessions, s) = {} /\ \A r \in db.sessions : r.of.id # s
      BY <1>8, NotFound DEF SessionInv
    <2>3. \A r \in db.sessions : h[r.of] = r.of
      BY <1>3, <2>2
    <2>4. db'.sessions = db.sessions
      BY <1>2, <1>5, <2>3, UnchangedRows
    <2>5. sqlSaid' = Undefined
      BY <2>2 DEF Updates, Returned
    <2>6. \A x \in Tables : db'[x] = db[x]
      BY <1>5, <2>4
    <2>7. Kept(Tables \ {"sessions"}) /\ SessionInv'
      BY <2>1, <2>4, <2>6 DEF Kept, SessionInv
    <2>8. db'.boxes = db.boxes
      BY <2>6 DEF Tables
    <2>9. BoxInv'
      BY <1>7, <2>1, <2>8 DEF BoxInv, BoxEntries
    <2> QED BY <1>5, <2>1, <2>5, <2>7, <2>9 DEF Shapes, Undefined, NotThere
  <1>9. CASE MapHas(mem.sessions, s)
    <2>1. PICK e \in SessionEntries : /\ e.id = s /\ MapGet(mem.sessions, s)[2] = e
                                      /\ ById(db.sessions, s) = {e}
      BY <1>9, OneFound DEF SessionInv
    <2>2. /\ mem' = [mem EXCEPT !.sessions = MapSet(@, g[e])] /\ memSaid' = Gives(g[e])
          /\ sqlSaid' = Returned({g[e]})
      <3>1. /\ mem' = [mem EXCEPT !.sessions = MapSet(@, g[MapGet(mem.sessions, s)[2]])]
            /\ memSaid' = Gives(g[MapGet(mem.sessions, s)[2]])
            /\ sqlSaid' = Returned({g[d] : d \in ById(db.sessions, s)})
        BY <1>9 DEF Updates
      <3>2. {g[d] : d \in ById(db.sessions, s)} = {g[e]}
        BY <2>1
      <3> QED BY <2>1, <3>1, <3>2
    <2>3. Returned({g[e]}) = Ok(g[e])
      BY DEF Returned
    <2>4. /\ mem'.sessions = MapSet(mem.sessions, g[e]) /\ mem' = [x \in Maps |-> mem'[x]]
          /\ \A x \in Maps : x # "sessions" => mem'[x] = mem[x]
      BY <2>2 DEF Shapes, Maps
    <2>5. h[e] = g[e]
      BY <1>1, <2>1
    <2>6. Table({[r EXCEPT !.of = h[r.of]] : r \in db.sessions},
                MapSet(mem.sessions, h[MapGet(mem.sessions, s)[2]]), SessionEntries)
      <3>1. \A d \in SessionEntries : h[d].id = d.id
        BY <1>6
      <3>2. \A d \in SessionEntries : d.id # s => h[d] = d
        BY <1>6
      <3>3. Table(db.sessions, mem.sessions, SessionEntries)
        BY DEF SessionInv
      <3> QED BY <1>9, <3>1, <3>2, <3>3, Alters
    <2>7. SessionInv'
      BY <1>5, <2>1, <2>4, <2>5, <2>6 DEF SessionInv
    <2>8. Kept(Tables \ {"sessions"}) /\ db'.boxes = db.boxes /\ mem'.boxes = mem.boxes
      BY <1>5, <2>4 DEF Kept, Tables, Maps
    <2>9. BoxInv'
      BY <1>7, <2>8 DEF BoxInv, BoxEntries
    <2> QED BY <1>5, <2>2, <2>3, <2>4, <2>7, <2>8, <2>9 DEF Shapes, Ok, Gives
  <1> QED BY <1>8, <1>9

(* The disjuncts of RunTheSession and EndTheRun, of one session.            *)
RunTheSessionOf(s) ==
    \/ SqlBeginRun(s) /\ MemBeginRun(s)
    \/ SqlMarkRunning(s) /\ MemMarkRunning(s)
    \/ SqlBumpTurns(s) /\ MemBumpTurns(s)
    \/ SqlAddUsage(s, 1) /\ MemAddUsage(s, 1)

EndTheRunOf(s) ==
    \/ SqlEndRunSuccess(s, 1) /\ MemEndRunSuccess(s, 1)
    \/ SqlEndRunFailure(s) /\ MemEndRunFailure(s)
    \/ SqlEndRunCancelled(s) /\ MemEndRunCancelled(s)

(* Each update of a run is one of these.                                    *)
LEMMA RunUpdates ==
    ASSUME SessionInv, NEW s \in StoreSessions, RunTheSessionOf(s) \/ EndTheRunOf(s)
    PROVE  \E g \in [SessionEntries -> SessionEntries] :
              Updates(s, g) /\ \A e \in SessionEntries : g[e].id = e.id
  <1>1. \A r \in db.sessions : r.of \in SessionEntries
    BY TalliesGive DEF SessionInv, Table
  <1>2. \A r \in db.sessions : r.of.id = s => r.of \in ById(db.sessions, s)
    BY DEF ById
  <1>3. \A e \in ById(db.sessions, s) : e \in SessionEntries
    BY <1>1 DEF ById
  <1>4. MapHas(mem.sessions, s) => MapGet(mem.sessions, s)[2] \in SessionEntries
    BY OneFound DEF SessionInv
  <1>5. CASE SqlBeginRun(s) /\ MemBeginRun(s)
    <2>1. PICK g : g = [e \in SessionEntries |-> [e EXCEPT !.status = "starting", !.error = FALSE]]
      OBVIOUS
    <2>2. \A e \in SessionEntries : g[e] = [e EXCEPT !.status = "starting", !.error = FALSE]
      BY <2>1
    <2>3. \A e \in SessionEntries : g[e] \in SessionEntries /\ g[e].id = e.id
      <3> SUFFICES ASSUME NEW e \in SessionEntries
                   PROVE  [e EXCEPT !.status = "starting", !.error = FALSE] \in SessionEntries
                          /\ [e EXCEPT !.status = "starting", !.error = FALSE].id = e.id
        BY <2>2
      <3> QED BY DEF SessionEntries
    <2>4. g \in [SessionEntries -> SessionEntries]
      BY <2>1, <2>2, <2>3
    <2>5. /\ db' = [db EXCEPT !.sessions =
                     {[r EXCEPT !.of = IF r.of.id = s THEN [r.of EXCEPT !.status = "starting", !.error = FALSE] ELSE r.of]
                         : r \in db.sessions}]
          /\ sqlSaid' = Returned({[e EXCEPT !.status = "starting", !.error = FALSE] : e \in ById(db.sessions, s)})
      BY <1>5 DEF SqlBeginRun, UpdateSession, Changed, Entries, Hit, ById
    <2>6. {[r EXCEPT !.of = IF r.of.id = s THEN [r.of EXCEPT !.status = "starting", !.error = FALSE] ELSE r.of]
              : r \in db.sessions}
          = {[r EXCEPT !.of = IF r.of.id = s THEN g[r.of] ELSE r.of] : r \in db.sessions}
      <3>1. \A r \in db.sessions : [r.of EXCEPT !.status = "starting", !.error = FALSE] = g[r.of]
        BY <1>1, <2>2
      <3> QED BY <3>1
    <2>7. {[e EXCEPT !.status = "starting", !.error = FALSE] : e \in ById(db.sessions, s)}
          = {g[e] : e \in ById(db.sessions, s)}
      <3>1. \A e \in ById(db.sessions, s) : [e EXCEPT !.status = "starting", !.error = FALSE] = g[e]
        BY <1>3, <2>2
      <3> QED BY <3>1, Zenon
    <2>8. IF ~MapHas(mem.sessions, s) THEN memSaid' = NotThere /\ UNCHANGED mem
          ELSE /\ mem' = [mem EXCEPT !.sessions = MapSet(@, g[MapGet(mem.sessions, s)[2]])]
               /\ memSaid' = Gives(g[MapGet(mem.sessions, s)[2]])
      BY <1>4, <1>5, <2>2 DEF MemBeginRun, ChangeSession
    <2> QED BY <2>3, <2>4, <2>5, <2>6, <2>7, <2>8 DEF Updates
  <1>6. CASE SqlMarkRunning(s) /\ MemMarkRunning(s)
    <2>1. PICK g : g = [e \in SessionEntries |-> [e EXCEPT !.status = "running", !.error = FALSE]]
      OBVIOUS
    <2>2. \A e \in SessionEntries : g[e] = [e EXCEPT !.status = "running", !.error = FALSE]
      BY <2>1
    <2>3. \A e \in SessionEntries : g[e] \in SessionEntries /\ g[e].id = e.id
      <3> SUFFICES ASSUME NEW e \in SessionEntries
                   PROVE  [e EXCEPT !.status = "running", !.error = FALSE] \in SessionEntries
                          /\ [e EXCEPT !.status = "running", !.error = FALSE].id = e.id
        BY <2>2
      <3> QED BY DEF SessionEntries
    <2>4. g \in [SessionEntries -> SessionEntries]
      BY <2>1, <2>2, <2>3
    <2>5. /\ db' = [db EXCEPT !.sessions =
                     {[r EXCEPT !.of = IF r.of.id = s THEN [r.of EXCEPT !.status = "running", !.error = FALSE] ELSE r.of]
                         : r \in db.sessions}]
          /\ sqlSaid' = Returned({[e EXCEPT !.status = "running", !.error = FALSE] : e \in ById(db.sessions, s)})
      BY <1>6 DEF SqlMarkRunning, UpdateSession, Changed, Entries, Hit, ById
    <2>6. {[r EXCEPT !.of = IF r.of.id = s THEN [r.of EXCEPT !.status = "running", !.error = FALSE] ELSE r.of]
              : r \in db.sessions}
          = {[r EXCEPT !.of = IF r.of.id = s THEN g[r.of] ELSE r.of] : r \in db.sessions}
      <3>1. \A r \in db.sessions : [r.of EXCEPT !.status = "running", !.error = FALSE] = g[r.of]
        BY <1>1, <2>2
      <3> QED BY <3>1
    <2>7. {[e EXCEPT !.status = "running", !.error = FALSE] : e \in ById(db.sessions, s)}
          = {g[e] : e \in ById(db.sessions, s)}
      <3>1. \A e \in ById(db.sessions, s) : [e EXCEPT !.status = "running", !.error = FALSE] = g[e]
        BY <1>3, <2>2
      <3> QED BY <3>1, Zenon
    <2>8. IF ~MapHas(mem.sessions, s) THEN memSaid' = NotThere /\ UNCHANGED mem
          ELSE /\ mem' = [mem EXCEPT !.sessions = MapSet(@, g[MapGet(mem.sessions, s)[2]])]
               /\ memSaid' = Gives(g[MapGet(mem.sessions, s)[2]])
      BY <1>4, <1>6, <2>2 DEF MemMarkRunning, ChangeSession
    <2> QED BY <2>3, <2>4, <2>5, <2>6, <2>7, <2>8 DEF Updates
  <1>7. CASE SqlBumpTurns(s) /\ MemBumpTurns(s)
    <2>1. PICK g : g = [e \in SessionEntries |-> [e EXCEPT !.turns = @ + 1]]
      OBVIOUS
    <2>2. \A e \in SessionEntries : g[e] = [e EXCEPT !.turns = @ + 1]
      BY <2>1
    <2>3. \A e \in SessionEntries : g[e] \in SessionEntries /\ g[e].id = e.id
      <3> SUFFICES ASSUME NEW e \in SessionEntries
                   PROVE  [e EXCEPT !.turns = @ + 1] \in SessionEntries
                          /\ [e EXCEPT !.turns = @ + 1].id = e.id
        BY <2>2
      <3> QED BY DEF SessionEntries
    <2>4. g \in [SessionEntries -> SessionEntries]
      BY <2>1, <2>2, <2>3
    <2>5. /\ db' = [db EXCEPT !.sessions =
                     {[r EXCEPT !.of = IF r.of.id = s THEN [r.of EXCEPT !.turns = @ + 1] ELSE r.of]
                         : r \in db.sessions}]
          /\ sqlSaid' = Returned({[e EXCEPT !.turns = @ + 1] : e \in ById(db.sessions, s)})
      BY <1>7 DEF SqlBumpTurns, UpdateSession, Changed, Entries, Hit, ById
    <2>6. {[r EXCEPT !.of = IF r.of.id = s THEN [r.of EXCEPT !.turns = @ + 1] ELSE r.of]
              : r \in db.sessions}
          = {[r EXCEPT !.of = IF r.of.id = s THEN g[r.of] ELSE r.of] : r \in db.sessions}
      <3>1. \A r \in db.sessions : [r.of EXCEPT !.turns = @ + 1] = g[r.of]
        BY <1>1, <2>2
      <3> QED BY <3>1
    <2>7. {[e EXCEPT !.turns = @ + 1] : e \in ById(db.sessions, s)}
          = {g[e] : e \in ById(db.sessions, s)}
      <3>1. \A e \in ById(db.sessions, s) : [e EXCEPT !.turns = @ + 1] = g[e]
        BY <1>3, <2>2
      <3> QED BY <3>1, Zenon
    <2>8. IF ~MapHas(mem.sessions, s) THEN memSaid' = NotThere /\ UNCHANGED mem
          ELSE /\ mem' = [mem EXCEPT !.sessions = MapSet(@, g[MapGet(mem.sessions, s)[2]])]
               /\ memSaid' = Gives(g[MapGet(mem.sessions, s)[2]])
      BY <1>4, <1>7, <2>2 DEF MemBumpTurns, ChangeSession
    <2> QED BY <2>3, <2>4, <2>5, <2>6, <2>7, <2>8 DEF Updates
  <1>8. CASE SqlAddUsage(s, 1) /\ MemAddUsage(s, 1)
    <2>1. PICK g : g = [e \in SessionEntries |-> [e EXCEPT !.tokens = @ + 1]]
      OBVIOUS
    <2>2. \A e \in SessionEntries : g[e] = [e EXCEPT !.tokens = @ + 1]
      BY <2>1
    <2>3. \A e \in SessionEntries : g[e] \in SessionEntries /\ g[e].id = e.id
      <3> SUFFICES ASSUME NEW e \in SessionEntries
                   PROVE  [e EXCEPT !.tokens = @ + 1] \in SessionEntries
                          /\ [e EXCEPT !.tokens = @ + 1].id = e.id
        BY <2>2
      <3> QED BY DEF SessionEntries
    <2>4. g \in [SessionEntries -> SessionEntries]
      BY <2>1, <2>2, <2>3
    <2>5. /\ db' = [db EXCEPT !.sessions =
                     {[r EXCEPT !.of = IF r.of.id = s THEN [r.of EXCEPT !.tokens = @ + 1] ELSE r.of]
                         : r \in db.sessions}]
          /\ sqlSaid' = Returned({[e EXCEPT !.tokens = @ + 1] : e \in ById(db.sessions, s)})
      BY <1>8 DEF SqlAddUsage, UpdateSession, Changed, Entries, Hit, ById
    <2>6. {[r EXCEPT !.of = IF r.of.id = s THEN [r.of EXCEPT !.tokens = @ + 1] ELSE r.of]
              : r \in db.sessions}
          = {[r EXCEPT !.of = IF r.of.id = s THEN g[r.of] ELSE r.of] : r \in db.sessions}
      <3>1. \A r \in db.sessions : [r.of EXCEPT !.tokens = @ + 1] = g[r.of]
        BY <1>1, <2>2
      <3> QED BY <3>1
    <2>7. {[e EXCEPT !.tokens = @ + 1] : e \in ById(db.sessions, s)}
          = {g[e] : e \in ById(db.sessions, s)}
      <3>1. \A e \in ById(db.sessions, s) : [e EXCEPT !.tokens = @ + 1] = g[e]
        BY <1>3, <2>2
      <3> QED BY <3>1, Zenon
    <2>8. IF ~MapHas(mem.sessions, s) THEN memSaid' = NotThere /\ UNCHANGED mem
          ELSE /\ mem' = [mem EXCEPT !.sessions = MapSet(@, g[MapGet(mem.sessions, s)[2]])]
               /\ memSaid' = Gives(g[MapGet(mem.sessions, s)[2]])
      BY <1>4, <1>8, <2>2 DEF MemAddUsage, ChangeSession
    <2> QED BY <2>3, <2>4, <2>5, <2>6, <2>7, <2>8 DEF Updates
  <1>9. CASE SqlEndRunSuccess(s, 1) /\ MemEndRunSuccess(s, 1)
    <2>1. PICK g : g = [e \in SessionEntries |-> [e EXCEPT !.status = "idle", !.tokens = @ + 1]]
      OBVIOUS
    <2>2. \A e \in SessionEntries : g[e] = [e EXCEPT !.status = "idle", !.tokens = @ + 1]
      BY <2>1
    <2>3. \A e \in SessionEntries : g[e] \in SessionEntries /\ g[e].id = e.id
      <3> SUFFICES ASSUME NEW e \in SessionEntries
                   PROVE  [e EXCEPT !.status = "idle", !.tokens = @ + 1] \in SessionEntries
                          /\ [e EXCEPT !.status = "idle", !.tokens = @ + 1].id = e.id
        BY <2>2
      <3>1. PICK n \in Nat : n = e.tokens + 1
        BY DEF SessionEntries
      <3>2. [e EXCEPT !.status = "idle", !.tokens = n] \in SessionEntries
            /\ [e EXCEPT !.status = "idle", !.tokens = n].id = e.id
        BY DEF SessionEntries
      <3> QED BY <3>1, <3>2
    <2>4. g \in [SessionEntries -> SessionEntries]
      BY <2>1, <2>2, <2>3
    <2>5. /\ db' = [db EXCEPT !.sessions =
                     {[r EXCEPT !.of = IF r.of.id = s THEN [r.of EXCEPT !.status = "idle", !.tokens = @ + 1] ELSE r.of]
                         : r \in db.sessions}]
          /\ sqlSaid' = Returned({[e EXCEPT !.status = "idle", !.tokens = @ + 1] : e \in ById(db.sessions, s)})
      BY <1>9 DEF SqlEndRunSuccess, UpdateSession, Changed, Entries, Hit, ById
    <2>6. {[r EXCEPT !.of = IF r.of.id = s THEN [r.of EXCEPT !.status = "idle", !.tokens = @ + 1] ELSE r.of]
              : r \in db.sessions}
          = {[r EXCEPT !.of = IF r.of.id = s THEN g[r.of] ELSE r.of] : r \in db.sessions}
      <3>1. \A r \in db.sessions : [r.of EXCEPT !.status = "idle", !.tokens = @ + 1] = g[r.of]
        BY <1>1, <2>2
      <3> QED BY <3>1
    <2>7. {[e EXCEPT !.status = "idle", !.tokens = @ + 1] : e \in ById(db.sessions, s)}
          = {g[e] : e \in ById(db.sessions, s)}
      <3>1. \A e \in ById(db.sessions, s) : [e EXCEPT !.status = "idle", !.tokens = @ + 1] = g[e]
        BY <1>3, <2>2
      <3> QED BY <3>1
    <2>8. IF ~MapHas(mem.sessions, s) THEN memSaid' = NotThere /\ UNCHANGED mem
          ELSE /\ mem' = [mem EXCEPT !.sessions = MapSet(@, g[MapGet(mem.sessions, s)[2]])]
               /\ memSaid' = Gives(g[MapGet(mem.sessions, s)[2]])
      BY <1>4, <1>9, <2>2 DEF MemEndRunSuccess, ChangeSession
    <2> QED BY <2>3, <2>4, <2>5, <2>6, <2>7, <2>8 DEF Updates
  <1>10. CASE SqlEndRunFailure(s) /\ MemEndRunFailure(s)
    <2>1. PICK g : g = [e \in SessionEntries |-> [e EXCEPT !.status = "failed", !.error = TRUE]]
      OBVIOUS
    <2>2. \A e \in SessionEntries : g[e] = [e EXCEPT !.status = "failed", !.error = TRUE]
      BY <2>1
    <2>3. \A e \in SessionEntries : g[e] \in SessionEntries /\ g[e].id = e.id
      <3> SUFFICES ASSUME NEW e \in SessionEntries
                   PROVE  [e EXCEPT !.status = "failed", !.error = TRUE] \in SessionEntries
                          /\ [e EXCEPT !.status = "failed", !.error = TRUE].id = e.id
        BY <2>2
      <3> QED BY DEF SessionEntries
    <2>4. g \in [SessionEntries -> SessionEntries]
      BY <2>1, <2>2, <2>3
    <2>5. /\ db' = [db EXCEPT !.sessions =
                     {[r EXCEPT !.of = IF r.of.id = s THEN [r.of EXCEPT !.status = "failed", !.error = TRUE] ELSE r.of]
                         : r \in db.sessions}]
          /\ sqlSaid' = Returned({[e EXCEPT !.status = "failed", !.error = TRUE] : e \in ById(db.sessions, s)})
      BY <1>10 DEF SqlEndRunFailure, UpdateSession, Changed, Entries, Hit, ById
    <2>6. {[r EXCEPT !.of = IF r.of.id = s THEN [r.of EXCEPT !.status = "failed", !.error = TRUE] ELSE r.of]
              : r \in db.sessions}
          = {[r EXCEPT !.of = IF r.of.id = s THEN g[r.of] ELSE r.of] : r \in db.sessions}
      <3>1. \A r \in db.sessions : [r.of EXCEPT !.status = "failed", !.error = TRUE] = g[r.of]
        BY <1>1, <2>2
      <3> QED BY <3>1
    <2>7. {[e EXCEPT !.status = "failed", !.error = TRUE] : e \in ById(db.sessions, s)}
          = {g[e] : e \in ById(db.sessions, s)}
      <3>1. \A e \in ById(db.sessions, s) : [e EXCEPT !.status = "failed", !.error = TRUE] = g[e]
        BY <1>3, <2>2
      <3> QED BY <3>1, Zenon
    <2>8. IF ~MapHas(mem.sessions, s) THEN memSaid' = NotThere /\ UNCHANGED mem
          ELSE /\ mem' = [mem EXCEPT !.sessions = MapSet(@, g[MapGet(mem.sessions, s)[2]])]
               /\ memSaid' = Gives(g[MapGet(mem.sessions, s)[2]])
      BY <1>4, <1>10, <2>2 DEF MemEndRunFailure, ChangeSession
    <2> QED BY <2>3, <2>4, <2>5, <2>6, <2>7, <2>8 DEF Updates
  <1>11. CASE SqlEndRunCancelled(s) /\ MemEndRunCancelled(s)
    <2>1. PICK g : g = [e \in SessionEntries |-> [e EXCEPT !.status = "idle", !.error = FALSE]]
      OBVIOUS
    <2>2. \A e \in SessionEntries : g[e] = [e EXCEPT !.status = "idle", !.error = FALSE]
      BY <2>1
    <2>3. \A e \in SessionEntries : g[e] \in SessionEntries /\ g[e].id = e.id
      <3> SUFFICES ASSUME NEW e \in SessionEntries
                   PROVE  [e EXCEPT !.status = "idle", !.error = FALSE] \in SessionEntries
                          /\ [e EXCEPT !.status = "idle", !.error = FALSE].id = e.id
        BY <2>2
      <3> QED BY DEF SessionEntries
    <2>4. g \in [SessionEntries -> SessionEntries]
      BY <2>1, <2>2, <2>3
    <2>5. /\ db' = [db EXCEPT !.sessions =
                     {[r EXCEPT !.of = IF r.of.id = s THEN [r.of EXCEPT !.status = "idle", !.error = FALSE] ELSE r.of]
                         : r \in db.sessions}]
          /\ sqlSaid' = Returned({[e EXCEPT !.status = "idle", !.error = FALSE] : e \in ById(db.sessions, s)})
      BY <1>11 DEF SqlEndRunCancelled, UpdateSession, Changed, Entries, Hit, ById
    <2>6. {[r EXCEPT !.of = IF r.of.id = s THEN [r.of EXCEPT !.status = "idle", !.error = FALSE] ELSE r.of]
              : r \in db.sessions}
          = {[r EXCEPT !.of = IF r.of.id = s THEN g[r.of] ELSE r.of] : r \in db.sessions}
      <3>1. \A r \in db.sessions : [r.of EXCEPT !.status = "idle", !.error = FALSE] = g[r.of]
        BY <1>1, <2>2
      <3> QED BY <3>1
    <2>7. {[e EXCEPT !.status = "idle", !.error = FALSE] : e \in ById(db.sessions, s)}
          = {g[e] : e \in ById(db.sessions, s)}
      <3>1. \A e \in ById(db.sessions, s) : [e EXCEPT !.status = "idle", !.error = FALSE] = g[e]
        BY <1>3, <2>2
      <3> QED BY <3>1, Zenon
    <2>8. IF ~MapHas(mem.sessions, s) THEN memSaid' = NotThere /\ UNCHANGED mem
          ELSE /\ mem' = [mem EXCEPT !.sessions = MapSet(@, g[MapGet(mem.sessions, s)[2]])]
               /\ memSaid' = Gives(g[MapGet(mem.sessions, s)[2]])
      BY <1>4, <1>11, <2>2 DEF MemEndRunCancelled, ChangeSession
    <2> QED BY <2>3, <2>4, <2>5, <2>6, <2>7, <2>8 DEF Updates
  <1> QED BY <1>5, <1>6, <1>7, <1>8, <1>9, <1>10, <1>11 DEF RunTheSessionOf, EndTheRunOf

LEMMA FailRunningAlike ==
    ASSUME Shapes, SessionInv, BoxInv, FailTheRunning, UNCHANGED astray
    PROVE  /\ Shapes' /\ SessionInv' /\ BoxInv' /\ sqlSaid' = memSaid'
           /\ Kept(Tables \ {"sessions"})
  <1>1. PICK W : W = {e \in SessionEntries : e.status \in {"starting", "running"}}
    OBVIOUS
  <1>2. PICK g \in [SessionEntries -> SessionEntries] :
           g = [e \in SessionEntries |->
                   IF e \in W THEN [e EXCEPT !.status = "failed", !.error = TRUE] ELSE e]
    <2>1. \A e \in SessionEntries : [e EXCEPT !.status = "failed", !.error = TRUE] \in SessionEntries
      BY DEF SessionEntries
    <2> QED BY <2>1
  <1>3. \A e \in SessionEntries : g[e].id = e.id
    BY <1>2 DEF SessionEntries
  <1>4. /\ mem.sessions \in Seq(SessionEntries) /\ Tallies(db.sessions, mem.sessions, SessionEntries)
        /\ db.sessions \in SUBSET [at : Nat, of : SessionEntries]
    BY TalliesGive DEF SessionInv, Table
  <1>5. PICK M : M = mem.sessions
    OBVIOUS
  <1>6. \A i \in DOMAIN M : M[i] \in SessionEntries
    BY <1>4, <1>5
  <1>7. /\ db' = [db EXCEPT !.sessions = {[r EXCEPT !.of = g[r.of]] : r \in db.sessions}]
        /\ sqlSaid' = Count(Cardinality({r \in db.sessions : r.of \in W}))
    <2>1. /\ db' = [db EXCEPT !.sessions =
                     {[r EXCEPT !.of = IF r.of.status \in {"starting", "running"}
                                       THEN [r.of EXCEPT !.status = "failed", !.error = TRUE]
                                       ELSE r.of] : r \in db.sessions}]
          /\ sqlSaid' = Count(Cardinality({r \in db.sessions : r.of.status \in {"starting", "running"}}))
      BY DEF FailTheRunning, SqlFailRunning, Changed, Hit
    <2>2. \A r \in db.sessions :
             /\ r.of \in W <=> r.of.status \in {"starting", "running"}
             /\ g[r.of] = IF r.of.status \in {"starting", "running"}
                          THEN [r.of EXCEPT !.status = "failed", !.error = TRUE] ELSE r.of
      BY <1>1, <1>2, <1>4
    <2>3. {[r EXCEPT !.of = IF r.of.status \in {"starting", "running"}
                            THEN [r.of EXCEPT !.status = "failed", !.error = TRUE]
                            ELSE r.of] : r \in db.sessions}
          = {[r EXCEPT !.of = g[r.of]] : r \in db.sessions}
      <3>1. \A r \in db.sessions : (IF r.of.status \in {"starting", "running"}
                                    THEN [r.of EXCEPT !.status = "failed", !.error = TRUE]
                                    ELSE r.of) = g[r.of]
        BY <2>2
      <3> QED BY <3>1
    <2>4. {r \in db.sessions : r.of.status \in {"starting", "running"}}
          = {r \in db.sessions : r.of \in W}
      BY <2>2
    <2> QED BY <2>1, <2>3, <2>4
  <1>8. /\ mem' = [mem EXCEPT !.sessions = [i \in DOMAIN M |-> g[M[i]]]]
        /\ memSaid' = Number(Cardinality({i \in DOMAIN M : M[i] \in W}))
    <2>1. PICK busy : busy = {i \in DOMAIN M : M[i].status \in {"starting", "running"}}
      OBVIOUS
    <2>2. busy = {i \in DOMAIN M : M[i] \in W}
      BY <1>1, <1>6, <2>1
    <2>3. \A i \in DOMAIN M : (IF i \in busy THEN [M[i] EXCEPT !.status = "failed", !.error = TRUE]
                               ELSE M[i]) = g[M[i]]
      BY <1>2, <1>6, <2>2
    <2>4. /\ mem' = [mem EXCEPT !.sessions =
                      [i \in DOMAIN M |-> IF i \in busy
                                          THEN [M[i] EXCEPT !.status = "failed", !.error = TRUE]
                                          ELSE M[i]]]
          /\ memSaid' = Number(Cardinality(busy))
      BY <1>5, <2>1 DEF FailTheRunning, MemFailRunning
    <2>5. [i \in DOMAIN M |-> IF i \in busy THEN [M[i] EXCEPT !.status = "failed", !.error = TRUE]
                              ELSE M[i]]
          = [i \in DOMAIN M |-> g[M[i]]]
      BY <2>3
    <2> QED BY <2>2, <2>4, <2>5
  <1>9. sqlSaid' = memSaid'
    <2>1. Tallies(db.sessions, M, SessionEntries)
      BY <1>4, <1>5
    <2>2. Cardinality(RowsOf(db.sessions, W)) = Cardinality(PlacesOf(M, W))
      BY <2>1, AsMany
    <2> QED BY <1>7, <1>8, <2>2 DEF Count, Number, RowsOf, PlacesOf
  <1>10. /\ db'.sessions = {[r EXCEPT !.of = g[r.of]] : r \in db.sessions}
         /\ mem'.sessions = [i \in DOMAIN M |-> g[M[i]]]
         /\ Shapes' /\ Kept(Tables \ {"sessions"})
         /\ db'.boxes = db.boxes /\ mem'.boxes = mem.boxes
    BY <1>7, <1>8 DEF Shapes, Kept, Tables, Maps
  <1>11. SessionInv'
    <2>1. Table(db.sessions, M, SessionEntries)
      BY <1>5 DEF SessionInv
    <2>2. Table({[r EXCEPT !.of = g[r.of]] : r \in db.sessions}, [i \in DOMAIN M |-> g[M[i]]],
                SessionEntries)
      BY <1>3, <2>1, Changes
    <2> QED BY <1>10, <2>2 DEF SessionInv
  <1>12. \A id : InSession(id) => InSession(id)'
    <2> SUFFICES ASSUME NEW r \in db.sessions PROVE InSession(r.of.id)'
      BY DEF InSession
    <2>1. PICK q \in db'.sessions : q = [r EXCEPT !.of = g[r.of]]
      BY <1>10
    <2>2. q.of.id = r.of.id
      BY <1>3, <1>4, <2>1
    <2> QED BY <2>1, <2>2 DEF InSession
  <1>13. BoxInv'
    BY <1>10, <1>12 DEF BoxInv, BoxEntries
  <1> QED BY <1>9, <1>10, <1>11, <1>13

(* The containers.                                                          *)
LEMMA ClaimBoxAlike ==
    ASSUME Shapes, SessionInv, BoxInv, NEW s \in StoreSessions, NEW kind \in {"cold", "warm"},
           SqlPutBox(s, kind), MemPutBox(s, kind),
           astray' = IF Found(SqlSession(s)) THEN astray \ {s} ELSE astray \cup {s}
    PROVE  /\ Shapes' /\ BoxInv' /\ Kept(Tables \ {"boxes"})
           /\ \/ sqlSaid' = memSaid'
              \/ /\ sqlSaid' = Throws /\ memSaid' = Nothing
                 /\ s \in astray' /\ ~Found(SqlSession(s))'
  <1>1. PICK R : Table(R, mem.boxes, BoxEntries)
    BY DEF BoxInv
  <1>a. [id |-> s, box |-> kind] \in BoxEntries
    BY DEF BoxEntries
  <1>2. PICK new \in BoxEntries : new = [id |-> s, box |-> kind] /\ new.id = s
    BY <1>a
  <1>3. PICK N : N = MapSet(mem.boxes, new)
    OBVIOUS
  <1>4. /\ \E Q : Table(Q, N, BoxEntries)
        /\ \A k : MapHas(N, k) <=> k = s \/ MapHas(mem.boxes, k)
        /\ \A k : MapGet(N, k) = IF k = s THEN Gives(new) ELSE MapGet(mem.boxes, k)
    BY <1>1, <1>2, <1>3, MapSets
  <1>5. mem'.boxes = N /\ memSaid' = Nothing /\ \A x \in Maps : x # "boxes" => mem'[x] = mem[x]
    BY <1>2, <1>3 DEF MemPutBox, Shapes, Maps
  <1>6. mem' = [x \in Maps |-> mem'[x]]
    BY DEF MemPutBox, Shapes, Maps
  <1>7. CASE InSession(s)
    <2>1. db' = [db EXCEPT !.boxes = {b \in @ : b.id # s} \cup {new}] /\ sqlSaid' = Done
      BY <1>2, <1>7 DEF SqlPutBox, InSession
    <2>2. /\ db'.boxes = {b \in db.boxes : b.id # s} \cup {new}
          /\ Shapes' /\ Kept(Tables \ {"boxes"}) /\ db'.sessions = db.sessions
      BY <1>5, <1>6, <2>1 DEF Shapes, Kept, Tables, Maps
    <2>3. astray' = astray \ {s}
      BY <1>7, SessionLooked
    <2>4. \A b \in BoxEntries : Gives(new) = Gives(b) <=> b = new
      BY DEF Gives
    <2>5. db'.boxes = {b \in BoxEntries : MapGet(N, b.id) = Gives(b) /\ b.id \notin astray'}
      BY <1>2, <1>4, <2>2, <2>3, <2>4 DEF BoxInv
    <2>6. \A b \in db'.boxes : InSession(b.id)'
      BY <1>2, <1>7, <2>2 DEF BoxInv, InSession
    <2>7. BoxInv'
      BY <1>4, <1>5, <2>3, <2>5, <2>6 DEF BoxInv, BoxEntries
    <2> QED BY <1>5, <2>1, <2>2, <2>7 DEF Done, Nothing
  <1>8. CASE ~InSession(s)
    <2>1. db' = db /\ sqlSaid' = Throws
      BY <1>8 DEF SqlPutBox, InSession
    <2>2. Shapes' /\ Kept(Tables \ {"boxes"})
      BY <1>5, <1>6, <2>1 DEF Shapes, Kept, Tables, Maps
    <2>3. astray' = astray \cup {s}
      BY <1>8, SessionLooked
    <2>4. \A b \in db.boxes : b.id # s
      BY <1>8 DEF BoxInv
    <2>5. db.boxes = {b \in BoxEntries : MapGet(N, b.id) = Gives(b) /\ b.id \notin astray'}
      BY <1>4, <2>3, <2>4 DEF BoxInv
    <2>6. \A b \in db'.boxes : InSession(b.id)'
      BY <2>1 DEF BoxInv, InSession
    <2>7. BoxInv'
      BY <1>4, <1>5, <2>1, <2>3, <2>5, <2>6 DEF BoxInv, BoxEntries
    <2>8. ~Found(SqlSession(s))'
      BY <1>8, <2>1, SessionLooked DEF Found, SqlSession, Entries, Hit
    <2> QED BY <1>5, <2>1, <2>2, <2>3, <2>7, <2>8
  <1> QED BY <1>7, <1>8

LEMMA ReleaseBoxAlike ==
    ASSUME Shapes, BoxInv, NEW s \in StoreSessions, SqlDeleteBox(s), MemDeleteBox(s),
           astray' = astray \ {s}
    PROVE  Shapes' /\ BoxInv' /\ sqlSaid' = memSaid' /\ Kept(Tables \ {"boxes"})
  <1>1. /\ db'.boxes = {b \in db.boxes : b.id # s} /\ sqlSaid' = Done
        /\ mem'.boxes = MapDelete(mem.boxes, s) /\ memSaid' = Nothing
        /\ Shapes' /\ Kept(Tables \ {"boxes"}) /\ db'.sessions = db.sessions
    BY DEF SqlDeleteBox, MemDeleteBox, Shapes, Kept, Tables, Maps
  <1>2. PICK R : Table(R, mem.boxes, BoxEntries)
    BY DEF BoxInv
  <1>3. PICK N : N = MapDelete(mem.boxes, s)
    OBVIOUS
  <1>4. /\ \E Q : Table(Q, N, BoxEntries)
        /\ \A k : MapHas(N, k) <=> k # s /\ MapHas(mem.boxes, k)
        /\ \A k : MapGet(N, k) = IF k = s THEN NotThere ELSE MapGet(mem.boxes, k)
    BY <1>2, <1>3, MapDeletes
  <1>5. db'.boxes = {b \in BoxEntries : MapGet(N, b.id) = Gives(b) /\ b.id \notin astray'}
    BY <1>1, <1>4 DEF BoxInv, NotThere, Gives
  <1>6. \A b \in db'.boxes : InSession(b.id)'
    BY <1>1 DEF BoxInv, InSession
  <1>7. BoxInv'
    BY <1>1, <1>3, <1>4, <1>5, <1>6 DEF BoxInv, BoxEntries
  <1> QED BY <1>1, <1>7 DEF Done, Nothing

LEMMA BoxesUntouched ==
    ASSUME BoxInv, Kept({"sessions", "boxes"}), UNCHANGED astray PROVE BoxInv'
  BY DEF BoxInv, InSession, Kept, BoxEntries

----------------------------------------------------------------------------
(* The queue.                                                               *)
LEMMA ListSet ==
    ASSUME QueueLists, NEW s \in StoreSessions, NEW L \in Seq(Nat) \ {<<>>},
           mem'.queue = MapSet(mem.queue, [id |-> s, events |-> L])
    PROVE  /\ QueueLists' /\ EventsOf(s)' = L
           /\ \A k \in StoreSessions : k # s => EventsOf(k)' = EventsOf(k)
  <1>1. PICK R : Table(R, mem.queue, ListEntries)
    BY DEF QueueLists
  <1>2. PICK e \in ListEntries : e = [id |-> s, events |-> L]
    BY DEF ListEntries
  <1>3. e.id = s /\ e.events = L /\ Gives(e)[2] = e
    BY <1>2 DEF Gives
  <1>4. PICK N : N = MapSet(mem.queue, e)
    OBVIOUS
  <1>5. /\ \E Q : Table(Q, N, ListEntries)
        /\ \A k : MapHas(N, k) <=> k = s \/ MapHas(mem.queue, k)
        /\ \A k : MapGet(N, k) = IF k = s THEN Gives(e) ELSE MapGet(mem.queue, k)
    BY <1>1, <1>3, <1>4, MapSets
  <1>6. mem'.queue = N
    BY <1>2, <1>4
  <1> QED BY <1>3, <1>5, <1>6 DEF QueueLists, EventsOf

LEMMA ListDropped ==
    ASSUME QueueLists, NEW s \in StoreSessions, mem'.queue = MapDelete(mem.queue, s)
    PROVE  /\ QueueLists' /\ EventsOf(s)' = <<>>
           /\ \A k \in StoreSessions : k # s => EventsOf(k)' = EventsOf(k)
  <1>1. PICK R : Table(R, mem.queue, ListEntries)
    BY DEF QueueLists
  <1>2. PICK N : N = MapDelete(mem.queue, s)
    OBVIOUS
  <1>3. /\ \E Q : Table(Q, N, ListEntries)
        /\ \A k : MapHas(N, k) <=> k # s /\ MapHas(mem.queue, k)
        /\ \A k : MapGet(N, k) = IF k = s THEN NotThere ELSE MapGet(mem.queue, k)
    BY <1>1, <1>2, MapDeletes
  <1> QED BY <1>2, <1>3 DEF QueueLists, EventsOf

(* The rows of no other session are touched.                                *)
LEMMA WaitingKept ==
    ASSUME NEW s, Waiting(s), Events(s)' = Events(s), EventsOf(s)' = EventsOf(s) PROVE Waiting(s)'
  <1>1. PICK t : /\ Through(t, Events(s), EventEntries)
                 /\ EventsOf(s) = [i \in 1 .. Len(t) |-> t[i].of.event]
    BY DEF Waiting
  <1>2. Through(t, Events(s)', EventEntries) /\ EventsOf(s)' = [i \in 1 .. Len(t) |-> t[i].of.event]
    BY <1>1
  <1> QED BY <1>2 DEF Waiting, EventEntries

LEMMA EnqueueAlike ==
    ASSUME Shapes, QueueInv, NEW s \in StoreSessions, NEW event \in Nat,
           SqlEnqueue(s, event), MemEnqueue(s, event)
    PROVE  Shapes' /\ QueueInv' /\ sqlSaid' = memSaid' /\ Kept(Tables \ {"queue"})
  <1>1. PICK e \in EventEntries : e = [session |-> s, event |-> event]
    BY DEF EventEntries
  <1>2. PICK r : r = [at |-> NextAt(db.queue), of |-> e]
    OBVIOUS
  <1>3. PICK m \in Nat : \A q \in db.queue : q.at <= m
    BY DEF QueueInv
  <1>4. NextAt(db.queue) \in Nat /\ \A q \in db.queue : q.at < NextAt(db.queue)
    BY <1>3, NextUp DEF QueueInv
  <1>5. /\ r \in [at : Nat, of : EventEntries] /\ r.of = e /\ \A q \in db.queue : q.at < r.at
        /\ e.session = s /\ e.event = event
    BY <1>1, <1>2, <1>4
  <1>6. /\ db'.queue = db.queue \cup {r} /\ sqlSaid' = Done /\ memSaid' = Nothing
        /\ mem'.queue = MapSet(mem.queue, [id |-> s, events |-> Append(EventsOf(s), event)])
        /\ Shapes' /\ Kept(Tables \ {"queue"})
    BY <1>1, <1>2 DEF SqlEnqueue, MemEnqueue, Add, Shapes, Kept, Tables, Maps
  <1>7. PICK t : /\ Through(t, Events(s), EventEntries)
                 /\ EventsOf(s) = [i \in 1 .. Len(t) |-> t[i].of.event]
    BY DEF QueueInv, Waiting
  <1>8. PICK n \in Nat : n = Len(t)
    BY <1>7 DEF Through
  <1>9. \A i \in 1 .. n : t[i] \in db.queue /\ t[i].of.event \in Nat
    <2>1. \A i \in 1 .. n : t[i] \in Events(s)
      BY <1>7, <1>8 DEF Through
    <2>2. Events(s) \subseteq db.queue
      BY DEF Events, Hit
    <2>3. \A q \in db.queue : q.of \in EventEntries
      BY DEF QueueInv
    <2>4. \A d \in EventEntries : d.event \in Nat
      BY DEF EventEntries
    <2> QED BY <2>1, <2>2, <2>3, <2>4
  <1>10. PICK L : L = Append(EventsOf(s), event)
    OBVIOUS
  <1>11. L \in Seq(Nat) \ {<<>>} /\ L = [i \in 1 .. n + 1 |-> IF i = n + 1 THEN event ELSE t[i].of.event]
    <2>1. PICK K : K = EventsOf(s)
      OBVIOUS
    <2>2. K \in Seq(Nat) /\ Len(K) = n /\ \A i \in 1 .. n : K[i] = t[i].of.event
      BY <1>7, <1>8, <1>9, <2>1
    <2>3. /\ L \in Seq(Nat) /\ Len(L) = n + 1 /\ L[n + 1] = event
          /\ \A i \in 1 .. n : L[i] = K[i]
      BY <1>10, <2>1, <2>2
    <2>4. \A i \in 1 .. n + 1 : L[i] = IF i = n + 1 THEN event ELSE t[i].of.event
      <3> SUFFICES ASSUME NEW i \in 1 .. n + 1
                   PROVE  L[i] = IF i = n + 1 THEN event ELSE t[i].of.event
        OBVIOUS
      <3>1. i = n + 1 \/ i \in 1 .. n
        OBVIOUS
      <3> QED BY <2>2, <2>3, <3>1
    <2> QED BY <2>3, <2>4
  <1>12. /\ QueueLists' /\ EventsOf(s)' = L
         /\ \A k \in StoreSessions : k # s => EventsOf(k)' = EventsOf(k)
    BY <1>6, <1>10, <1>11, ListSet DEF QueueInv
  <1>13. Events(s)' = Events(s) \cup {r} /\ \A k \in StoreSessions : k # s => Events(k)' = Events(k)
    BY <1>5, <1>6 DEF Events, Hit
  <1>14. Waiting(s)'
    <2>1. \A q \in Events(s) : q.at < r.at
      BY <1>5 DEF Events, Hit
    <2>2. PICK u : u = Append(t, r)
      OBVIOUS
    <2>3. Through(u, Events(s)', EventEntries)
      BY <1>5, <1>7, <1>13, <2>1, <2>2, AddThrough
    <2>4. \A i \in 1 .. n : t[i] \in Events(s)
      BY <1>7, <1>8 DEF Through
    <2>5. Len(u) = n + 1 /\ u[n + 1] = r /\ \A i \in 1 .. n : u[i] = t[i]
      BY <1>7, <1>8, <2>2 DEF Through
    <2>6. \A i \in 1 .. n + 1 : u[i].of.event = IF i = n + 1 THEN event ELSE t[i].of.event
      <3> SUFFICES ASSUME NEW i \in 1 .. n + 1
                   PROVE  u[i].of.event = IF i = n + 1 THEN event ELSE t[i].of.event
        OBVIOUS
      <3>1. i = n + 1 \/ i \in 1 .. n
        OBVIOUS
      <3> QED BY <1>5, <2>5, <3>1
    <2>7. EventsOf(s)' = [i \in 1 .. Len(u) |-> u[i].of.event]
      BY <1>11, <1>12, <2>5, <2>6
    <2> QED BY <2>3, <2>7 DEF Waiting, EventEntries
  <1>15. \A k \in StoreSessions : Waiting(k)'
    BY <1>12, <1>13, <1>14, WaitingKept DEF QueueInv
  <1>16. db'.queue \in SUBSET [at : Nat, of : EventEntries] /\ \A q \in db'.queue : q.at <= r.at
    <2>1. \A q \in db.queue : q.at <= r.at
      BY <1>5 DEF QueueInv
    <2> QED BY <1>5, <1>6, <2>1 DEF QueueInv
  <1>17. r.at \in Nat
    BY <1>5
  <1> QED BY <1>6, <1>12, <1>15, <1>16, <1>17 DEF QueueInv, Done, Nothing, EventEntries

(* The head of a session's events is the first in its list.                 *)
LEMMA HeadIs ==
    ASSUME NEW s, NEW t, Through(t, Events(s), EventEntries)
    PROVE  /\ First(s) = IF Len(t) = 0 THEN {} ELSE {t[1]}
           /\ Len(t) = 0 <=> Events(s) = {}
           /\ Len(t) # 0 => Through(Tail(t), Events(s) \ First(s), EventEntries)
  <1>0. PICK n \in Nat : n = Len(t)
    BY DEF Through
  <1>1. PICK T : T = Events(s)
    OBVIOUS
  <1>2. /\ t \in Seq(T) /\ \A i \in 1 .. n : t[i] \in T /\ t[i].at \in Nat
        /\ \A i, j \in 1 .. n : i < j => t[i].at < t[j].at
        /\ \A r \in T : \E i \in 1 .. n : t[i] = r
        /\ T \in SUBSET [at : Nat, of : EventEntries]
    BY <1>0, <1>1 DEF Through
  <1>3. n = 0 <=> T = {}
    <2>1. n # 0 => t[1] \in T
      BY <1>2
    <2> QED BY <1>2, <2>1
  <1>4. CASE n = 0
    BY <1>0, <1>1, <1>3, <1>4 DEF First
  <1>5. CASE n # 0
    <2>1. 1 \in 1 .. n /\ t[1] \in T
      BY <1>2, <1>5
    <2>2. \A i \in 1 .. n : i # 1 => t[1].at < t[i].at
      BY <1>2, <2>1
    <2>3. \A q \in T : t[1].at <= q.at
      <3> SUFFICES ASSUME NEW q \in T PROVE t[1].at <= q.at
        OBVIOUS
      <3>1. PICK i \in 1 .. n : t[i] = q
        BY <1>2
      <3>2. t[1].at \in Nat /\ t[i].at \in Nat
        BY <1>2, <2>1
      <3> QED BY <2>2, <3>1, <3>2
    <2>4. \A r \in T : (\A q \in T : r.at <= q.at) => r = t[1]
      <3> SUFFICES ASSUME NEW r \in T, \A q \in T : r.at <= q.at, r # t[1] PROVE FALSE
        OBVIOUS
      <3>1. PICK i \in 1 .. n : t[i] = r
        BY <1>2
      <3>2. i # 1 /\ t[1].at < r.at /\ r.at <= t[1].at
        BY <2>1, <2>2, <3>1
      <3>3. t[1].at \in Nat /\ r.at \in Nat
        BY <1>2, <2>1
      <3> QED BY <3>2, <3>3
    <2>5. First(s) = {t[1]}
      BY <1>1, <2>1, <2>3, <2>4 DEF First
    <2>6. PICK u : u = Tail(t)
      OBVIOUS
    <2>7. PICK m \in Nat : m + 1 = n
      <3>1. n - 1 \in Nat /\ (n - 1) + 1 = n
        BY <1>5
      <3> QED BY <3>1
    <2>8. t # <<>>
      BY <1>0, <1>5
    <2>9. u \in Seq(T) /\ Len(u) = m /\ \A i \in 1 .. m : u[i] = t[i + 1] /\ i + 1 \in 1 .. n
      BY <1>0, <1>2, <2>6, <2>7, <2>8
    <2>10. PICK Q : Q = T \ {t[1]}
      OBVIOUS
    <2>11. \A i \in 1 .. m : u[i] \in Q
      <3> SUFFICES ASSUME NEW i \in 1 .. m PROVE u[i] \in Q
        OBVIOUS
      <3>1. PICK j \in 1 .. n : j = i + 1 /\ j # 1 /\ u[i] = t[j]
        BY <2>9
      <3>2. t[1].at < t[j].at /\ t[1].at \in Nat
        BY <1>2, <2>1, <2>2, <3>1
      <3>3. t[j] # t[1]
        BY <3>2
      <3> QED BY <1>2, <2>10, <3>1, <3>3
    <2>12. u \in Seq(Q)
      BY <2>9, <2>11
    <2>13. \A r \in Q : \E i \in 1 .. m : u[i] = r
      <3> SUFFICES ASSUME NEW r \in Q PROVE \E i \in 1 .. m : u[i] = r
        OBVIOUS
      <3>1. PICK j \in 1 .. n : t[j] = r
        BY <1>2, <2>10
      <3>2. j # 1
        BY <2>10, <3>1
      <3>3. PICK i \in 1 .. m : i + 1 = j
        <4>1. j - 1 \in 1 .. m /\ (j - 1) + 1 = j
          BY <2>7, <3>2
        <4> QED BY <4>1
      <3> QED BY <2>9, <3>1, <3>3
    <2>14. \A i, j \in 1 .. m : i < j => u[i].at < u[j].at
      <3> SUFFICES ASSUME NEW i \in 1 .. m, NEW j \in 1 .. m, i < j PROVE u[i].at < u[j].at
        OBVIOUS
      <3>1. PICK k \in 1 .. n, l \in 1 .. n : k = i + 1 /\ l = j + 1 /\ u[i] = t[k] /\ u[j] = t[l]
        BY <2>9
      <3>2. k < l
        BY <3>1
      <3> QED BY <1>2, <3>1, <3>2
    <2>15. Through(u, Q, EventEntries)
      BY <1>2, <2>9, <2>10, <2>12, <2>13, <2>14 DEF Through
    <2> QED BY <1>0, <1>1, <1>3, <1>5, <2>5, <2>6, <2>10, <2>15
  <1> QED BY <1>4, <1>5

(* What the list of a session is to its rows.                               *)
LEMMA WaitingGives ==
    ASSUME QueueInv, NEW s \in StoreSessions
    PROVE  /\ SqlPeek(s) = MemPeek(s) /\ SqlSize(s) = MemSize(s)
           /\ (Events(s) = {} <=> EventsOf(s) = <<>>) /\ EventsOf(s) \in Seq(Nat)
           /\ (MapHas(mem.queue, s) <=> EventsOf(s) # <<>>)
  <1>1. PICK t : /\ Through(t, Events(s), EventEntries)
                 /\ EventsOf(s) = [i \in 1 .. Len(t) |-> t[i].of.event]
    BY DEF QueueInv, Waiting
  <1>2. PICK n \in Nat : n = Len(t)
    BY <1>1 DEF Through
  <1>3. \A i \in 1 .. n : t[i].of.event \in Nat
    BY <1>1, <1>2 DEF Through, EventEntries
  <1>4. EventsOf(s) \in Seq(Nat) /\ Len(EventsOf(s)) = n
    BY <1>1, <1>2, <1>3
  <1>5. Cardinality(Events(s)) = n
    BY <1>1, <1>2, Listed
  <1>6. First(s) = IF n = 0 THEN {} ELSE {t[1]}
    BY <1>1, <1>2, HeadIs
  <1>7. n = 0 <=> Events(s) = {}
    <2>1. Len(t) = 0 <=> Events(s) = {}
      BY <1>1, HeadIs
    <2> QED BY <1>2, <2>1
  <1>8. n = 0 <=> EventsOf(s) = <<>>
    BY <1>4
  <1>9. n # 0 => EventsOf(s)[1] = t[1].of.event
    BY <1>1, <1>2
  <1>10. SqlPeek(s) = MemPeek(s)
    BY <1>6, <1>8, <1>9 DEF SqlPeek, MemPeek, Undefined, NotThere, Ok, Gives
  <1>11. MapHas(mem.queue, s) <=> EventsOf(s) # <<>>
    <2>1. PICK R : Table(R, mem.queue, ListEntries)
      BY DEF QueueInv, QueueLists
    <2>2. CASE MapHas(mem.queue, s)
      <3>1. PICK e \in ListEntries : MapGet(mem.queue, s)[2] = e
        BY <2>1, <2>2, OneFound
      <3> QED BY <2>2, <3>1 DEF EventsOf, ListEntries
    <2>3. CASE ~MapHas(mem.queue, s)
      BY <2>3 DEF EventsOf
    <2> QED BY <2>2, <2>3
  <1> QED BY <1>4, <1>5, <1>7, <1>8, <1>10, <1>11 DEF SqlSize, MemSize

LEMMA ShiftAlike ==
    ASSUME Shapes, QueueInv, NEW s \in StoreSessions, SqlShift(s), MemShift(s)
    PROVE  Shapes' /\ QueueInv' /\ sqlSaid' = memSaid' /\ Kept(Tables \ {"queue"})
  <1>1. /\ db'.queue = db.queue \ First(s)
        /\ mem'.queue = IF Len(EventsOf(s)) > 1
                        THEN MapSet(mem.queue, [id |-> s, events |-> Tail(EventsOf(s))])
                        ELSE MapDelete(mem.queue, s)
        /\ Shapes' /\ Kept(Tables \ {"queue"})
    BY DEF SqlShift, MemShift, Shapes, Kept, Tables, Maps
  <1>2. sqlSaid' = memSaid'
    BY WaitingGives DEF SqlShift, MemShift
  <1>3. PICK t : /\ Through(t, Events(s), EventEntries)
                 /\ EventsOf(s) = [i \in 1 .. Len(t) |-> t[i].of.event]
    BY DEF QueueInv, Waiting
  <1>4. PICK n \in Nat : n = Len(t)
    BY <1>3 DEF Through
  <1>5. PICK L : L = EventsOf(s)
    OBVIOUS
  <1>6. L \in Seq(Nat) /\ Len(L) = n /\ \A i \in 1 .. n : L[i] = t[i].of.event
    <2>1. L \in Seq(Nat)
      BY <1>5, WaitingGives
    <2> QED BY <1>3, <1>4, <1>5, <2>1
  <1>7. \A q \in First(s) : q.of.session = s
    BY DEF First, Events, Hit
  <1>8. /\ Events(s)' = Events(s) \ First(s)
        /\ \A k \in StoreSessions : k # s => Events(k)' = Events(k)
    BY <1>1, <1>7 DEF Events, Hit
  <1>9. /\ QueueLists' /\ EventsOf(s)' = IF n > 1 THEN Tail(L) ELSE <<>>
        /\ \A k \in StoreSessions : k # s => EventsOf(k)' = EventsOf(k)
    <2>1. CASE n > 1
      <3>1. PICK K : K = Tail(L)
        OBVIOUS
      <3>2. L # <<>>
        BY <1>6, <2>1
      <3>3. K \in Seq(Nat) /\ Len(K) = n - 1
        BY <1>6, <3>1, <3>2
      <3>4. K # <<>>
        BY <2>1, <3>3
      <3>5. mem'.queue = MapSet(mem.queue, [id |-> s, events |-> K])
        BY <1>1, <1>5, <1>6, <2>1, <3>1
      <3>6. QueueLists /\ K \in Seq(Nat) \ {<<>>}
        BY <3>3, <3>4 DEF QueueInv
      <3> QED BY <2>1, <3>1, <3>5, <3>6, ListSet
    <2>2. CASE ~(n > 1)
      <3>1. mem'.queue = MapDelete(mem.queue, s) /\ QueueLists
        BY <1>1, <1>5, <1>6, <2>2 DEF QueueInv
      <3> QED BY <2>2, <3>1, ListDropped
    <2> QED BY <2>1, <2>2
  <1>10. Waiting(s)'
    <2>1. CASE n = 0
      <3>1. First(s) = {}
        BY <1>3, <1>4, <2>1, HeadIs
      <3>2. L = <<>> /\ ~(n > 1)
        BY <1>6, <2>1
      <3>3. Events(s)' = Events(s) /\ EventsOf(s)' = EventsOf(s)
        BY <1>5, <1>8, <1>9, <3>1, <3>2
      <3> QED BY <3>3, WaitingKept DEF QueueInv
    <2>2. CASE n # 0
      <3>1. PICK u : u = Tail(t)
        OBVIOUS
      <3>2. Through(u, Events(s)', EventEntries)
        <4>1. Through(Tail(t), Events(s) \ First(s), EventEntries)
          BY <1>3, <1>4, <2>2, HeadIs
        <4> QED BY <1>8, <3>1, <4>1
      <3>3. t \in Seq(Events(s)) /\ t # <<>> /\ L # <<>>
        BY <1>3, <1>4, <1>6, <2>2 DEF Through
      <3>4. Len(u) = n - 1 /\ \A i \in 1 .. n - 1 : u[i] = t[i + 1]
        BY <1>4, <2>2, <3>1, <3>3
      <3>5. \A i \in 1 .. n - 1 : i + 1 \in 1 .. n
        OBVIOUS
      <3>6. Tail(L) = [i \in 1 .. n - 1 |-> u[i].of.event]
        <4>1. PICK K : K = Tail(L)
          OBVIOUS
        <4>2. K \in Seq(Nat) /\ Len(K) = n - 1 /\ \A i \in 1 .. n - 1 : K[i] = L[i + 1]
          BY <1>6, <2>2, <3>3, <4>1
        <4>3. \A i \in 1 .. n - 1 : K[i] = u[i].of.event
          BY <1>6, <3>4, <3>5, <4>2
        <4>4. K = [i \in 1 .. n - 1 |-> K[i]]
          BY <4>2
        <4> QED BY <4>1, <4>3, <4>4
      <3>7. ~(n > 1) => n - 1 = 0
        BY <2>2
      <3>8. EventsOf(s)' = [i \in 1 .. n - 1 |-> u[i].of.event]
        <4>1. CASE n > 1
          BY <1>9, <3>6, <4>1
        <4>2. CASE ~(n > 1)
          <5>1. EventsOf(s)' = <<>> /\ 1 .. n - 1 = {}
            BY <1>9, <3>7, <4>2
          <5> QED BY <5>1
        <4> QED BY <4>1, <4>2
      <3> QED BY <3>2, <3>4, <3>8 DEF Waiting, EventEntries
    <2> QED BY <2>1, <2>2
  <1>11. \A k \in StoreSessions : Waiting(k)'
    BY <1>8, <1>9, <1>10, WaitingKept DEF QueueInv
  <1>12. /\ db'.queue \in SUBSET [at : Nat, of : EventEntries]
         /\ \E m \in Nat : \A q \in db'.queue : q.at <= m
    BY <1>1 DEF QueueInv
  <1> QED BY <1>1, <1>2, <1>9, <1>11, <1>12 DEF QueueInv, EventEntries

LEMMA ClearAlike ==
    ASSUME Shapes, QueueInv, NEW s \in StoreSessions, SqlClear(s), MemClear(s)
    PROVE  Shapes' /\ QueueInv' /\ sqlSaid' = memSaid' /\ Kept(Tables \ {"queue"})
  <1>1. /\ db'.queue = db.queue \ Events(s)
        /\ mem'.queue = MapDelete(mem.queue, s)
        /\ Shapes' /\ Kept(Tables \ {"queue"})
    BY DEF SqlClear, MemClear, Shapes, Kept, Tables, Maps
  <1>2. sqlSaid' = memSaid'
    BY WaitingGives DEF SqlClear, MemClear, SqlSize, MemSize, Count, Number
  <1>3. Events(s)' = {} /\ \A k \in StoreSessions : k # s => Events(k)' = Events(k)
    BY <1>1 DEF Events, Hit
  <1>4. /\ QueueLists' /\ EventsOf(s)' = <<>>
        /\ \A k \in StoreSessions : k # s => EventsOf(k)' = EventsOf(k)
    BY <1>1, ListDropped DEF QueueInv
  <1>5. Waiting(s)'
    <2>1. Through(<<>>, {}, EventEntries) /\ <<>> = [i \in 1 .. Len(<<>>) |-> <<>>[i].of.event]
      BY DEF Through
    <2> QED BY <1>3, <1>4, <2>1 DEF Waiting, EventEntries
  <1>6. \A k \in StoreSessions : Waiting(k)'
    BY <1>3, <1>4, <1>5, WaitingKept DEF QueueInv
  <1>7. /\ db'.queue \in SUBSET [at : Nat, of : EventEntries]
        /\ \E m \in Nat : \A q \in db'.queue : q.at <= m
    BY <1>1 DEF QueueInv
  <1> QED BY <1>1, <1>2, <1>4, <1>6, <1>7 DEF QueueInv, EventEntries

(* Those of one condition, in either order.                                 *)
LEMMA FilterListed ==
    ASSUME NEW rows, NEW M, NEW E, Tallies(rows, M, E), NEW W
    PROVE  /\ Ascending(RowsOf(rows, W)) = Filter(M, W)
           /\ Descending(RowsOf(rows, W)) = Reverse(Filter(M, W))
           /\ Tallies(RowsOf(rows, W), Filter(M, W), E)
  BY FilterTallies, TalliesGive DEF RowsOf

----------------------------------------------------------------------------
(* The sessions together.                                                   *)
SessionTables == SessionInv /\ BoxInv /\ QueueInv

LEMMA QueueKept == ASSUME QueueInv, Kept({"queue"}) PROVE QueueInv'
  <1>1. db'.queue = db.queue /\ mem'.queue = mem.queue
    BY DEF Kept
  <1>2. \A s : Events(s)' = Events(s) /\ EventsOf(s)' = EventsOf(s)
    BY <1>1 DEF Events, Hit, EventsOf
  <1>3. \A s \in StoreSessions : Waiting(s)'
    BY <1>2, WaitingKept DEF QueueInv
  <1> QED BY <1>1, <1>3 DEF QueueInv, QueueLists, EventEntries, ListEntries

LEMMA SessionsKept ==
    ASSUME SessionTables, Kept(OfSessions), UNCHANGED astray PROVE SessionTables'
  <1>1. Kept({"queue"}) /\ Kept({"sessions", "boxes"})
    BY DEF Kept, OfSessions
  <1>2. SessionInv'
    BY <1>1 DEF SessionTables, SessionInv, Kept
  <1> QED BY <1>1, <1>2, QueueKept, BoxesUntouched DEF SessionTables

LEMMA OnSessionsAlike ==
    ASSUME calls \in Nat, Shapes, SessionTables, OnSessions
    PROVE  /\ Shapes' /\ SessionTables' /\ Kept(Tables \ OfSessions)
           /\ \/ sqlSaid' = memSaid'
              \/ /\ sqlSaid' = Throws /\ memSaid' = Nothing
                 /\ \E s \in astray' : ~Found(SqlSession(s))'
  <1> USE DEF SessionTables
  <1>0. ASSUME Kept(Tables \ {"sessions", "boxes"}) PROVE QueueInv' /\ Kept(Tables \ OfSessions)
    <2>1. Kept({"queue"}) /\ Kept(Tables \ OfSessions)
      BY <1>0 DEF Kept, Tables, OfSessions
    <2> QED BY <2>1, QueueKept
  <1>1. ASSUME Kept(Tables \ {"sessions"}) PROVE QueueInv' /\ Kept(Tables \ OfSessions)
    <2>1. Kept(Tables \ {"sessions", "boxes"})
      BY <1>1 DEF Kept
    <2> QED BY <1>0, <2>1
  <1>2. ASSUME Kept(Tables \ {"boxes"}) PROVE SessionInv' /\ QueueInv' /\ Kept(Tables \ OfSessions)
    <2>1. Kept({"queue"}) /\ Kept(Tables \ OfSessions) /\ Kept({"sessions"})
      BY <1>2 DEF Kept, Tables, OfSessions
    <2> QED BY <2>1, QueueKept DEF SessionInv, Kept
  <1>3. ASSUME Kept(Tables \ {"queue"}), UNCHANGED astray PROVE SessionInv' /\ BoxInv' /\ Kept(Tables \ OfSessions)
    <2>1. Kept({"sessions", "boxes"}) /\ Kept(Tables \ OfSessions)
      BY <1>3 DEF Kept, Tables, OfSessions
    <2> QED BY <1>3, <2>1, BoxesUntouched DEF SessionInv, Kept
  <1>4. CASE CreateTheSession
    <2>1. PICK s \in StoreSessions, parent \in StoreSessions \cup {NoParent} :
             /\ ~Found(SqlSession(s)) /\ UNCHANGED astray
             /\ SqlCreateSession(s, parent) /\ MemCreateSession(s, parent)
      BY <1>4 DEF CreateTheSession
    <2> QED BY <1>1, <2>1, CreateSessionAlike
  <1>5. CASE DeleteTheSession
    BY <1>0, <1>5, DeleteSessionAlike DEF DeleteTheSession
  <1>6. CASE ClaimTheBox
    <2>1. PICK s \in StoreSessions, kind \in {"cold", "warm"} :
             /\ SqlPutBox(s, kind) /\ MemPutBox(s, kind)
             /\ astray' = IF Found(SqlSession(s)) THEN astray \ {s} ELSE astray \cup {s}
      BY <1>6 DEF ClaimTheBox
    <2> QED BY <1>2, <2>1, ClaimBoxAlike
  <1>7. CASE ReleaseTheBox
    BY <1>2, <1>7, ReleaseBoxAlike DEF ReleaseTheBox
  <1>8. CASE (RunTheSession \/ EndTheRun) /\ UNCHANGED astray
    <2>1. PICK s \in StoreSessions : RunTheSessionOf(s) \/ EndTheRunOf(s)
      BY <1>8 DEF RunTheSession, EndTheRun, RunTheSessionOf, EndTheRunOf
    <2>2. PICK g \in [SessionEntries -> SessionEntries] :
             Updates(s, g) /\ \A e \in SessionEntries : g[e].id = e.id
      BY <2>1, RunUpdates
    <2> QED BY <1>1, <1>8, <2>2, UpdatesAlike
  <1>9. CASE FailTheRunning /\ UNCHANGED astray
    BY <1>1, <1>9, FailRunningAlike
  <1>10. CASE QueueAnEvent /\ UNCHANGED astray
    <2>1. PICK s \in StoreSessions :
             \/ SqlEnqueue(s, calls) /\ MemEnqueue(s, calls)
             \/ SqlShift(s) /\ MemShift(s)
             \/ SqlClear(s) /\ MemClear(s)
      BY <1>10 DEF QueueAnEvent
    <2> QED BY <1>3, <1>10, <2>1, EnqueueAlike, ShiftAlike, ClearAlike
  <1> QED BY <1>4, <1>5, <1>6, <1>7, <1>8, <1>9, <1>10 DEF OnSessions

LEMMA SessionsSame == ASSUME SessionTables PROVE SameSessions
  <1>1. Tallies(db.sessions, mem.sessions, SessionEntries)
    BY DEF SessionTables, SessionInv, Table
  <1>2. SqlSessions = MemSessions
    BY <1>1, TalliesGive DEF SqlSessions, MemSessions
  <1>3. PICK R : Table(R, mem.boxes, BoxEntries)
    BY DEF SessionTables, BoxInv
  <1>4. ASSUME NEW s \in StoreSessions PROVE SqlSession(s) = MemSession(s)
    <2>1. Entries(db.sessions, LAMBDA e : e.id = s) = ById(db.sessions, s)
      BY DEF Entries, Hit, ById
    <2>2. Returned(ById(db.sessions, s)) = MapGet(mem.sessions, s)
      BY Looked DEF SessionTables, SessionInv
    <2> QED BY <2>1, <2>2 DEF SqlSession, MemSession
  <1>5. ASSUME NEW s \in StoreSessions PROVE SqlChildren(s) = MemChildren(s)
    <2>1. PICK W : W = {r \in ToSet(mem.sessions) : r.parent = s}
      OBVIOUS
    <2>2. \A r \in db.sessions : r.of \in ToSet(mem.sessions)
      BY <1>1, TalliesGive DEF ToSet
    <2>3. Hit(db.sessions, LAMBDA e : e.parent = s) = RowsOf(db.sessions, W)
      BY <2>1, <2>2 DEF Hit, RowsOf
    <2>4. Ascending(RowsOf(db.sessions, W)) = Filter(mem.sessions, W)
      BY <1>1, FilterListed
    <2> QED BY <2>1, <2>3, <2>4 DEF SqlChildren, MemChildren
  <1>6. ASSUME NEW s \in StoreSessions
        PROVE  /\ SqlBox(s) = IF s \in astray THEN Undefined ELSE MemBox(s)
               /\ s \in astray => Found(MemBox(s))
    <2>1. MapHas(mem.boxes, s) => MapGet(mem.boxes, s) # Undefined
      BY DEF MapGet, Gives, Undefined
    <2> QED BY <2>1, BoxLooked DEF SessionTables, BoxInv, MemBox, Found
  <1>7. SqlBoxes = {b \in MemBoxes : b.id \notin astray}
    <2>1. ASSUME NEW b PROVE b \in MemBoxes <=> b \in BoxEntries /\ MapGet(mem.boxes, b.id) = Gives(b)
      <3>1. mem.boxes \in Seq(BoxEntries)
        BY <1>3, TalliesGive DEF Table
      <3>2. MapHas(mem.boxes, b.id) =>
               \E e \in BoxEntries : /\ MapGet(mem.boxes, b.id) = Gives(e)
                                     /\ \A i \in DOMAIN mem.boxes : mem.boxes[i].id = b.id => mem.boxes[i] = e
        BY <1>3, OneFound
      <3>3. MapGet(mem.boxes, b.id) = Gives(b) => MapHas(mem.boxes, b.id)
        BY DEF MapGet, NotThere, Gives
      <3>4. \A e : Gives(e) = Gives(b) <=> e = b
        BY DEF Gives
      <3>5. b \in MemBoxes => MapHas(mem.boxes, b.id)
        BY DEF MemBoxes, MapHas
      <3>6. b \in MemBoxes => b \in BoxEntries /\ MapGet(mem.boxes, b.id) = Gives(b)
        BY <3>1, <3>2, <3>5 DEF MemBoxes
      <3>7. MapHas(mem.boxes, b.id) /\ MapGet(mem.boxes, b.id) = Gives(b) => b \in MemBoxes
        BY <3>2, <3>4 DEF MapHas, MemBoxes
      <3> QED BY <3>3, <3>6, <3>7
    <2> QED BY <2>1 DEF SqlBoxes, SessionTables, BoxInv
  <1>8. SqlQueued = MemQueued
    <2>1. \A x \in SqlQueued : x \in StoreSessions /\ Events(x) # {}
      BY DEF SessionTables, QueueInv, SqlQueued, Events, Hit, EventEntries
    <2>2. \A x \in StoreSessions : Events(x) # {} => x \in SqlQueued
      BY DEF Events, Hit, SqlQueued
    <2>3. \A x \in StoreSessions : Events(x) # {} <=> MapHas(mem.queue, x)
      BY WaitingGives DEF SessionTables
    <2>4. \A x : x \in MemQueued <=> MapHas(mem.queue, x)
      BY DEF MemQueued, MapHas
    <2>5. \A x \in MemQueued : x \in StoreSessions
      <3>1. PICK Q : Table(Q, mem.queue, ListEntries)
        BY DEF SessionTables, QueueInv, QueueLists
      <3>2. mem.queue \in Seq(ListEntries)
        BY <3>1, TalliesGive DEF Table
      <3>3. \A i \in DOMAIN mem.queue : mem.queue[i] \in ListEntries
        BY <3>2
      <3> QED BY <3>3 DEF MemQueued, ListEntries
    <2> QED BY <2>1, <2>2, <2>3, <2>4, <2>5
  <1> QED BY <1>2, <1>4, <1>5, <1>6, <1>7, <1>8, WaitingGives DEF SameSessions, SessionTables

----------------------------------------------------------------------------
(* The tables of agents.                                                    *)
AgentEntries == [id : StoreAgents, version : Nat, patch : Contents, archived : BOOLEAN]
EnvEntries   == [id : StoreAgents]
HistoryEntries == [id : StoreAgents, all : Seq(AgentEntries)]

AgentInv == Table(db.agents, mem.agents, AgentEntries)
EnvInv   == Table(db.environments, mem.environments, EnvEntries)

Written(a) == Hit(db.versions, LAMBDA e : e.id = a)

(* The rows of an agent's versions are its history in memory, as long as    *)
(* its version says, and of no agent that is gone; memory marks versions of *)
(* an archived agent, and of no other.                                      *)
Unmarked(e) == [e EXCEPT !.archived = FALSE]

Recorded(a) ==
    /\ History(a) \in Seq(AgentEntries)
    /\ Written(a) = {[at |-> i, of |-> Unmarked(History(a)[i])] : i \in 1 .. Len(History(a))}
    /\ IF MapHas(mem.agents, a) THEN MapGet(mem.agents, a)[2].version = Len(History(a))
       ELSE History(a) = <<>>
    /\ \/ \A i \in 1 .. Len(History(a)) : History(a)[i].archived = FALSE
       \/ MapHas(mem.agents, a) /\ MapGet(mem.agents, a)[2].archived = TRUE

Histories == \E R : Table(R, mem.versions, HistoryEntries)

VersionInv == Histories /\ \A a \in StoreAgents : Recorded(a)

AgentTables == AgentInv /\ EnvInv /\ VersionInv

OfAgents == {"agents", "versions", "environments"}

(* An update of one key, there or not.                                      *)
Renewed(rows, g) == {[r EXCEPT !.of = g[r.of]] : r \in rows}

LEMMA Altered ==
    ASSUME NEW rows, NEW M, NEW E, Table(rows, M, E), NEW k, NEW g \in [E -> E],
           \A e \in E : g[e].id = e.id, \A e \in E : e.id # k => g[e] = e
    PROVE  \/ /\ ~MapHas(M, k) /\ MapGet(M, k) = NotThere /\ ById(rows, k) = {}
              /\ Renewed(rows, g) = rows
           \/ /\ MapHas(M, k)
              /\ \E e \in E : /\ e.id = k /\ MapGet(M, k) = Gives(e) /\ MapGet(M, k)[2] = e
                              /\ ById(rows, k) = {e}
                              /\ Table(Renewed(rows, g), MapSet(M, g[e]), E)
  <1>1. CASE ~MapHas(M, k)
    <2>1. MapGet(M, k) = NotThere /\ ById(rows, k) = {} /\ \A r \in rows : r.of.id # k
      BY <1>1, NotFound
    <2>2. rows \in SUBSET [at : Nat, of : E]
      BY TalliesGive DEF Table
    <2>3. \A r \in rows : g[r.of] = r.of
      BY <2>1, <2>2
    <2> QED BY <1>1, <2>1, <2>2, <2>3, UnchangedRows DEF Renewed
  <1>2. CASE MapHas(M, k)
    <2>1. PICK e \in E : /\ e.id = k /\ MapGet(M, k) = Gives(e) /\ MapGet(M, k)[2] = e
                         /\ ById(rows, k) = {e}
      BY <1>2, OneFound
    <2>2. Table(Renewed(rows, g), MapSet(M, g[MapGet(M, k)[2]]), E)
      BY <1>2, Alters DEF Renewed
    <2> QED BY <1>2, <2>1, <2>2
  <1> QED BY <1>1, <1>2

LEMMA HistorySet ==
    ASSUME Histories, NEW a \in StoreAgents, NEW H \in Seq(AgentEntries),
           mem'.versions = MapSet(mem.versions, [id |-> a, all |-> H])
    PROVE  /\ Histories' /\ History(a)' = H
           /\ \A k \in StoreAgents : k # a => History(k)' = History(k)
  <1>1. PICK R : Table(R, mem.versions, HistoryEntries)
    BY DEF Histories
  <1>2. PICK e \in HistoryEntries : e = [id |-> a, all |-> H]
    BY DEF HistoryEntries
  <1>3. e.id = a /\ e.all = H /\ Gives(e)[2] = e
    BY <1>2 DEF Gives
  <1>4. PICK N : N = MapSet(mem.versions, e)
    OBVIOUS
  <1>5. /\ \E Q : Table(Q, N, HistoryEntries)
        /\ \A k : MapHas(N, k) <=> k = a \/ MapHas(mem.versions, k)
        /\ \A k : MapGet(N, k) = IF k = a THEN Gives(e) ELSE MapGet(mem.versions, k)
    BY <1>1, <1>3, <1>4, MapSets
  <1>6. mem'.versions = N
    BY <1>2, <1>4
  <1> QED BY <1>3, <1>5, <1>6 DEF Histories, History

LEMMA HistoryDropped ==
    ASSUME Histories, NEW a \in StoreAgents, mem'.versions = MapDelete(mem.versions, a)
    PROVE  /\ Histories' /\ History(a)' = <<>>
           /\ \A k \in StoreAgents : k # a => History(k)' = History(k)
  <1>1. PICK R : Table(R, mem.versions, HistoryEntries)
    BY DEF Histories
  <1>2. PICK N : N = MapDelete(mem.versions, a)
    OBVIOUS
  <1>3. /\ \E Q : Table(Q, N, HistoryEntries)
        /\ \A k : MapHas(N, k) <=> k # a /\ MapHas(mem.versions, k)
        /\ \A k : MapGet(N, k) = IF k = a THEN NotThere ELSE MapGet(mem.versions, k)
    BY <1>1, <1>2, MapDeletes
  <1> QED BY <1>2, <1>3 DEF Histories, History

(* One more version.                                                        *)
LEMMA OneMore ==
    ASSUME NEW a, Recorded(a), NEW e \in AgentEntries,
           Written(a)' = Written(a) \cup {[at |-> Len(History(a)) + 1, of |-> Unmarked(e)]},
           History(a)' = Append(History(a), e)
    PROVE  /\ History(a)' \in Seq(AgentEntries) /\ Len(History(a)') = Len(History(a)) + 1
           /\ Written(a)' = {[at |-> i, of |-> Unmarked(History(a)'[i])] : i \in 1 .. Len(History(a)')}
           /\ (/\ e.archived = FALSE
               /\ \A i \in 1 .. Len(History(a)) : History(a)[i].archived = FALSE)
              => \A i \in 1 .. Len(History(a)') : History(a)'[i].archived = FALSE
  <1>1. PICK H \in Seq(AgentEntries) : H = History(a)
    BY DEF Recorded
  <1>2. PICK n \in Nat : n = Len(H)
    OBVIOUS
  <1>3. PICK K : K = Append(H, e)
    OBVIOUS
  <1>4. /\ K \in Seq(AgentEntries) /\ Len(K) = n + 1 /\ K[n + 1] = e
        /\ \A i \in 1 .. n : K[i] = H[i]
    BY <1>1, <1>2, <1>3
  <1>5. \A i \in 1 .. n + 1 : i \in 1 .. n \/ i = n + 1
    OBVIOUS
  <1>6. {[at |-> i, of |-> Unmarked(K[i])] : i \in 1 .. n + 1}
        = {[at |-> i, of |-> Unmarked(H[i])] : i \in 1 .. n} \cup {[at |-> n + 1, of |-> Unmarked(e)]}
    <2>1. \A i \in 1 .. n : i \in 1 .. n + 1
      OBVIOUS
    <2>2. n + 1 \in 1 .. n + 1
      OBVIOUS
    <2> QED BY <1>4, <1>5, <2>1, <2>2
  <1>7. Written(a) = {[at |-> i, of |-> Unmarked(H[i])] : i \in 1 .. n}
    BY <1>1, <1>2 DEF Recorded
  <1>8. History(a)' = K
    BY <1>1, <1>3
  <1>9. e.archived = FALSE /\ (\A i \in 1 .. n : H[i].archived = FALSE)
        => \A i \in 1 .. n + 1 : K[i].archived = FALSE
    BY <1>4, <1>5
  <1> QED BY <1>1, <1>2, <1>4, <1>6, <1>7, <1>8, <1>9

LEMMA UnmarkedIs ==
    ASSUME NEW e \in AgentEntries
    PROVE  /\ Unmarked(e) \in AgentEntries
           /\ Unmarked(e) = [id |-> e.id, version |-> e.version, patch |-> e.patch,
                             archived |-> FALSE]
           /\ e.archived = FALSE => Unmarked(e) = e
  <1>1. PICK i \in StoreAgents, v \in Nat, q \in Contents, x \in BOOLEAN :
           e = [id |-> i, version |-> v, patch |-> q, archived |-> x]
    BY DEF AgentEntries
  <1>2. e.id = i /\ e.version = v /\ e.patch = q /\ e.archived = x
    BY <1>1
  <1>3. Unmarked(e) = [id |-> i, version |-> v, patch |-> q, archived |-> FALSE]
    <2>1. PICK no : no = FALSE
      OBVIOUS
    <2>2. [e EXCEPT !.archived = no] = [id |-> i, version |-> v, patch |-> q, archived |-> no]
      BY <1>1
    <2> QED BY <2>1, <2>2, Zenon DEF Unmarked
  <1>4. Unmarked(e) \in AgentEntries
    BY <1>3 DEF AgentEntries
  <1> QED BY <1>1, <1>2, <1>3, <1>4

LEMMA RecordedKept ==
    ASSUME NEW a, Recorded(a), Written(a)' = Written(a), History(a)' = History(a),
           MapHas(mem'.agents, a) <=> MapHas(mem.agents, a),
           MapHas(mem.agents, a) =>
              /\ MapGet(mem'.agents, a)[2].version = MapGet(mem.agents, a)[2].version
              /\ MapGet(mem.agents, a)[2].archived = TRUE => MapGet(mem'.agents, a)[2].archived = TRUE
    PROVE  Recorded(a)'
  <1>1. PICK H : H = History(a)
    OBVIOUS
  <1>2. History(a)' = H /\ Written(a)' = {[at |-> i, of |-> Unmarked(H[i])] : i \in 1 .. Len(H)}
    BY <1>1 DEF Recorded
  <1>3. H \in Seq(AgentEntries)
    BY <1>1 DEF Recorded
  <1>4. IF MapHas(mem'.agents, a) THEN MapGet(mem'.agents, a)[2].version = Len(H) ELSE H = <<>>
    BY <1>1 DEF Recorded
  <1>5. \/ \A i \in 1 .. Len(H) : H[i].archived = FALSE
        \/ MapHas(mem'.agents, a) /\ MapGet(mem'.agents, a)[2].archived = TRUE
    BY <1>1 DEF Recorded
  <1> QED BY <1>2, <1>3, <1>4, <1>5 DEF Recorded, AgentEntries, Unmarked

(* The list of an agent's versions is its history without the marks.        *)
LEMMA VersionsListed ==
    ASSUME NEW a, Recorded(a)
    PROVE  /\ Ascending(Written(a)) = Unarchived(History(a))
           /\ \/ Ascending(Written(a)) = History(a)
              \/ MapHas(mem.agents, a) /\ MapGet(mem.agents, a)[2].archived = TRUE
  <1>1. PICK H \in Seq(AgentEntries) : H = History(a)
    BY DEF Recorded
  <1>2. PICK n \in Nat : n = Len(H) /\ DOMAIN H = 1 .. n
    OBVIOUS
  <1>3. PICK K \in Seq(AgentEntries) :
           K = Unarchived(H) /\ Len(K) = n /\ \A i \in 1 .. n : K[i] = Unmarked(H[i])
    <2>1. PICK L : L = [i \in 1 .. n |-> Unmarked(H[i])]
      OBVIOUS
    <2>2. \A i \in 1 .. n : Unmarked(H[i]) \in AgentEntries
      <3>1. \A i \in 1 .. n : H[i] \in AgentEntries
        BY <1>2
      <3> QED BY <3>1, UnmarkedIs
    <2>3. L \in Seq(AgentEntries) /\ Len(L) = n
      BY <2>1, <2>2
    <2>4. L = Unarchived(H)
      BY <1>2, <2>1 DEF Unarchived, Unmarked
    <2> QED BY <2>1, <2>3, <2>4
  <1>4. PICK W : W = Written(a) /\ W = {[at |-> i, of |-> K[i]] : i \in 1 .. n}
    BY <1>1, <1>2, <1>3 DEF Recorded
  <1>5. PICK t : t = [i \in 1 .. n |-> [at |-> i, of |-> K[i]]]
    OBVIOUS
  <1>6. t \in Seq(W) /\ Len(t) = n
    BY <1>4, <1>5
  <1>7. W \in SUBSET [at : Nat, of : AgentEntries]
    <2>1. \A i \in 1 .. n : K[i] \in AgentEntries /\ i \in Nat
      BY <1>3
    <2> QED BY <1>4, <2>1
  <1>8. Through(t, W, AgentEntries)
    BY <1>4, <1>5, <1>6, <1>7 DEF Through
  <1>9. OfAll(t) = [i \in 1 .. n |-> K[i]]
    BY <1>5, <1>6 DEF OfAll
  <1>10. K = [i \in 1 .. n |-> K[i]]
    BY <1>3
  <1>11. Ascending(W) = OfAll(t)
    BY <1>8, Listed
  <1>12. (\A i \in 1 .. n : H[i].archived = FALSE) => K = H
    <2> SUFFICES ASSUME \A i \in 1 .. n : H[i].archived = FALSE PROVE K = H
      OBVIOUS
    <2>1. \A i \in 1 .. n : H[i] \in AgentEntries
      BY <1>2
    <2>2. \A i \in 1 .. n : Unmarked(H[i]) = H[i]
      BY <2>1 DEF Unmarked, AgentEntries
    <2> QED BY <1>2, <1>3, <2>2
  <1>13. \/ \A i \in 1 .. n : H[i].archived = FALSE
         \/ MapHas(mem.agents, a) /\ MapGet(mem.agents, a)[2].archived = TRUE
    BY <1>1, <1>2 DEF Recorded
  <1> QED BY <1>1, <1>3, <1>4, <1>9, <1>10, <1>11, <1>12, <1>13

(* An answer that is there.                                                 *)
LEMMA FoundIs ==
    ASSUME NEW rows, NEW M, NEW E, Table(rows, M, E), NEW k
    PROVE  /\ Found(Returned(ById(rows, k))) <=> MapHas(M, k)
           /\ Returned(ById(rows, k)) = MapGet(M, k)
  <1>1. Returned(ById(rows, k)) = MapGet(M, k)
    BY Looked
  <1>2. MapGet(M, k) # Undefined <=> MapHas(M, k)
    BY DEF MapGet, NotThere, Gives, Undefined
  <1> QED BY <1>1, <1>2 DEF Found

LEMMA AgentLooked ==
    ASSUME AgentInv, NEW a
    PROVE  /\ SqlAgent(a) = MapGet(mem.agents, a) /\ SqlAgent(a) = Returned(ById(db.agents, a))
           /\ Found(SqlAgent(a)) <=> MapHas(mem.agents, a)
  <1>1. Entries(db.agents, LAMBDA e : e.id = a) = ById(db.agents, a)
    BY DEF Entries, Hit, ById
  <1>2. SqlAgent(a) = Returned(ById(db.agents, a))
    BY <1>1 DEF SqlAgent
  <1> QED BY <1>2, FoundIs DEF AgentInv

LEMMA CreateAgentAlike ==
    ASSUME Shapes, AgentTables, NEW a \in StoreAgents, NEW p \in Contents, ~Found(SqlAgent(a)),
           SqlCreateAgent(a, p), MemCreateAgent(a, p)
    PROVE  Shapes' /\ AgentTables' /\ sqlSaid' = memSaid' /\ Kept(Tables \ OfAgents)
  <1> USE DEF AgentTables
  <1>1. ~MapHas(mem.agents, a)
    BY AgentLooked
  <1>2. PICK e \in AgentEntries : e = [id |-> a, version |-> 1, patch |-> p, archived |-> FALSE]
    BY DEF AgentEntries
  <1>3. e.id = a /\ e.version = 1 /\ e.archived = FALSE /\ Unmarked(e) = e
    <2>1. e.id = a /\ e.version = 1 /\ e.archived = FALSE
      BY <1>2
    <2> QED BY <2>1, UnmarkedIs
  <1>4. /\ db'.agents = Add(db.agents, e) /\ sqlSaid' = Ok(e) /\ memSaid' = Gives(e)
        /\ db'.versions = db.versions \cup {[at |-> 1, of |-> e]}
        /\ mem'.agents = MapSet(mem.agents, e)
        /\ mem'.versions = MapSet(mem.versions, [id |-> a, all |-> <<e>>])
        /\ Shapes' /\ Kept(Tables \ {"agents", "versions"})
    BY <1>2 DEF SqlCreateAgent, MemCreateAgent, Version, Shapes, Kept, Tables, Maps
  <1>5. AgentInv'
    BY <1>1, <1>3, <1>4, Inserts DEF AgentInv
  <1>6. /\ \A k : MapHas(mem'.agents, k) <=> k = a \/ MapHas(mem.agents, k)
        /\ \A k : MapGet(mem'.agents, k) = IF k = a THEN Gives(e) ELSE MapGet(mem.agents, k)
    <2>1. PICK N : N = MapSet(mem.agents, e)
      OBVIOUS
    <2>2. /\ \A k : MapHas(N, k) <=> k = a \/ MapHas(mem.agents, k)
          /\ \A k : MapGet(N, k) = IF k = a THEN Gives(e) ELSE MapGet(mem.agents, k)
      BY <1>3, <2>1, MapSets DEF AgentInv
    <2> QED BY <1>4, <2>1, <2>2
  <1>7. PICK H \in Seq(AgentEntries) : H = <<e>> /\ H = Append(<<>>, e) /\ Len(H) = 1
    <2>1. <<e>> \in Seq(AgentEntries) /\ Len(<<e>>) = 1
      OBVIOUS
    <2>2. Append(<<>>, e) = <<e>>
      OBVIOUS
    <2> QED BY <2>1, <2>2
  <1>8. /\ Histories' /\ History(a)' = H
        /\ \A k \in StoreAgents : k # a => History(k)' = History(k)
    BY <1>4, <1>7, HistorySet DEF VersionInv
  <1>9. /\ Written(a)' = Written(a) \cup {[at |-> 1, of |-> e]}
        /\ \A k \in StoreAgents : k # a => Written(k)' = Written(k)
    <2>1. [at |-> 1, of |-> e].of.id = a
      BY <1>3
    <2> QED BY <1>4, <2>1 DEF Written, Hit
  <1>10. Recorded(a)'
    <2>1. Recorded(a) /\ History(a) = <<>> /\ Len(History(a)) + 1 = 1
      BY <1>1 DEF VersionInv, Recorded
    <2>2. Written(a)' = Written(a) \cup {[at |-> Len(History(a)) + 1, of |-> Unmarked(e)]}
      BY <1>3, <1>9, <2>1
    <2>3. History(a)' = Append(History(a), e)
      BY <1>7, <1>8, <2>1
    <2>4. /\ History(a)' \in Seq(AgentEntries) /\ Len(History(a)') = Len(History(a)) + 1
          /\ Written(a)' = {[at |-> i, of |-> Unmarked(History(a)'[i])] : i \in 1 .. Len(History(a)')}
          /\ (/\ e.archived = FALSE
              /\ \A i \in 1 .. Len(History(a)) : History(a)[i].archived = FALSE)
             => \A i \in 1 .. Len(History(a)') : History(a)'[i].archived = FALSE
      BY <2>1, <2>2, <2>3, OneMore
    <2>5. \A i \in 1 .. Len(History(a)') : History(a)'[i].archived = FALSE
      BY <1>1, <1>3, <2>1, <2>4 DEF Recorded
    <2>6. MapHas(mem'.agents, a) /\ MapGet(mem'.agents, a)[2] = e
      BY <1>6 DEF Gives
    <2> QED BY <1>3, <2>1, <2>4, <2>5, <2>6 DEF Recorded, AgentEntries, Unmarked
  <1>11. \A k \in StoreAgents : Recorded(k)'
    <2> SUFFICES ASSUME NEW k \in StoreAgents, k # a PROVE Recorded(k)'
      BY <1>10
    <2>1. Recorded(k) /\ Written(k)' = Written(k) /\ History(k)' = History(k)
      BY <1>8, <1>9 DEF VersionInv
    <2>2. /\ MapHas(mem'.agents, k) <=> MapHas(mem.agents, k)
          /\ MapGet(mem'.agents, k) = MapGet(mem.agents, k)
      BY <1>6
    <2> QED BY <2>1, <2>2, RecordedKept
  <1>12. EnvInv' /\ Kept(Tables \ OfAgents)
    BY <1>4 DEF EnvInv, Kept, Tables, OfAgents, EnvEntries
  <1> QED BY <1>4, <1>5, <1>8, <1>11, <1>12 DEF VersionInv, Ok, Gives

LEMMA DeleteAgentAlike ==
    ASSUME Shapes, AgentTables, NEW a \in StoreAgents, SqlDeleteAgent(a), MemDeleteAgent(a)
    PROVE  Shapes' /\ AgentTables' /\ sqlSaid' = memSaid' /\ Kept(Tables \ OfAgents)
  <1> USE DEF AgentTables
  <1>1. /\ db'.agents = {r \in db.agents : r.of.id # a}
        /\ db'.versions = {r \in db.versions : r.of.id # a}
        /\ mem'.agents = MapDelete(mem.agents, a) /\ mem'.versions = MapDelete(mem.versions, a)
        /\ Shapes' /\ Kept(Tables \ {"agents", "versions"})
    BY DEF SqlDeleteAgent, MemDeleteAgent, Shapes, Kept, Tables, Maps
  <1>2. sqlSaid' = memSaid'
    <2>1. MapHas(mem.agents, a) <=> \E r \in db.agents : r.of.id = a
      BY Looked DEF AgentInv
    <2>2. (\E r \in db.agents : r.of.id = a) = MapHas(mem.agents, a)
      BY <2>1 DEF MapHas
    <2> QED BY <2>2 DEF SqlDeleteAgent, MemDeleteAgent, Was, Had
  <1>3. AgentInv'
    BY <1>1, Deletes DEF AgentInv
  <1>4. /\ \A k : MapHas(mem'.agents, k) <=> k # a /\ MapHas(mem.agents, k)
        /\ \A k : MapGet(mem'.agents, k) = IF k = a THEN NotThere ELSE MapGet(mem.agents, k)
    <2>1. PICK N : N = MapDelete(mem.agents, a)
      OBVIOUS
    <2>2. /\ \A k : MapHas(N, k) <=> k # a /\ MapHas(mem.agents, k)
          /\ \A k : MapGet(N, k) = IF k = a THEN NotThere ELSE MapGet(mem.agents, k)
      BY <2>1, MapDeletes DEF AgentInv
    <2> QED BY <1>1, <2>1, <2>2
  <1>5. /\ Histories' /\ History(a)' = <<>>
        /\ \A k \in StoreAgents : k # a => History(k)' = History(k)
    BY <1>1, HistoryDropped DEF VersionInv
  <1>6. Written(a)' = {} /\ \A k \in StoreAgents : k # a => Written(k)' = Written(k)
    BY <1>1 DEF Written, Hit
  <1>7. Recorded(a)'
    BY <1>4, <1>5, <1>6 DEF Recorded, AgentEntries
  <1>8. \A k \in StoreAgents : Recorded(k)'
    <2> SUFFICES ASSUME NEW k \in StoreAgents, k # a PROVE Recorded(k)'
      BY <1>7
    <2>1. Recorded(k) /\ Written(k)' = Written(k) /\ History(k)' = History(k)
      BY <1>5, <1>6 DEF VersionInv
    <2>2. /\ MapHas(mem'.agents, k) <=> MapHas(mem.agents, k)
          /\ MapGet(mem'.agents, k) = MapGet(mem.agents, k)
      BY <1>4
    <2> QED BY <2>1, <2>2, RecordedKept
  <1>9. EnvInv' /\ Kept(Tables \ OfAgents)
    BY <1>1 DEF EnvInv, Kept, Tables, OfAgents, EnvEntries
  <1> QED BY <1>1, <1>2, <1>3, <1>5, <1>8, <1>9 DEF VersionInv

(* Neither the row nor its history changes.                                 *)
LEMMA AgentsKept == ASSUME AgentTables, Kept(OfAgents) PROVE AgentTables'
  <1>1. /\ db'.agents = db.agents /\ mem'.agents = mem.agents
        /\ db'.versions = db.versions /\ mem'.versions = mem.versions
        /\ db'.environments = db.environments /\ mem'.environments = mem.environments
    BY DEF Kept, OfAgents
  <1>2. AgentInv' /\ EnvInv' /\ Histories'
    BY <1>1 DEF AgentTables, AgentInv, EnvInv, VersionInv, Histories,
                AgentEntries, EnvEntries, HistoryEntries
  <1>3. \A a \in StoreAgents : Written(a)' = Written(a) /\ History(a)' = History(a)
    BY <1>1 DEF Written, Hit, History
  <1>4. \A a \in StoreAgents : Recorded(a)'
    BY <1>1, <1>3, RecordedKept DEF AgentTables, VersionInv
  <1> QED BY <1>2, <1>4 DEF AgentTables, VersionInv

(* What an archive does to the row, and the history that stays.             *)
LEMMA ArchiveAgentAlike ==
    ASSUME Shapes, AgentTables, NEW a \in StoreAgents, SqlArchiveAgent(a), MemArchiveAgent(a)
    PROVE  Shapes' /\ AgentTables' /\ sqlSaid' = memSaid' /\ Kept(Tables \ OfAgents)
  <1> USE DEF AgentTables
  <1>1. PICK g \in [AgentEntries -> AgentEntries] :
           g = [e \in AgentEntries |-> IF e.id = a THEN [e EXCEPT !.archived = TRUE] ELSE e]
    <2>1. \A e \in AgentEntries : [e EXCEPT !.archived = TRUE] \in AgentEntries
      BY DEF AgentEntries
    <2> QED BY <2>1
  <1>2. \A e \in AgentEntries : /\ g[e].id = e.id /\ (e.id # a => g[e] = e)
                                /\ g[e].version = e.version
                                /\ e.id = a => g[e].archived = TRUE
    BY <1>1 DEF AgentEntries
  <1>3. db.agents \in SUBSET [at : Nat, of : AgentEntries]
    BY TalliesGive DEF AgentInv, Table
  <1>4. /\ db' = [db EXCEPT !.agents = Renewed(db.agents, g)]
        /\ sqlSaid' = Returned({g[e] : e \in ById(db.agents, a)})
    <2>1. /\ db' = [db EXCEPT !.agents =
                     {[r EXCEPT !.of = IF r.of.id = a THEN [r.of EXCEPT !.archived = TRUE] ELSE r.of]
                         : r \in db.agents}]
          /\ sqlSaid' = Returned({[e EXCEPT !.archived = TRUE] : e \in ById(db.agents, a)})
      BY DEF SqlArchiveAgent, Changed, Entries, Hit, ById
    <2>2. {[r EXCEPT !.of = IF r.of.id = a THEN [r.of EXCEPT !.archived = TRUE] ELSE r.of]
              : r \in db.agents}
          = Renewed(db.agents, g)
      <3>1. \A r \in db.agents :
               (IF r.of.id = a THEN [r.of EXCEPT !.archived = TRUE] ELSE r.of) = g[r.of]
        BY <1>1, <1>3
      <3> QED BY <3>1 DEF Renewed
    <2>3. {[e EXCEPT !.archived = TRUE] : e \in ById(db.agents, a)} = {g[e] : e \in ById(db.agents, a)}
      <3>1. \A e \in ById(db.agents, a) : [e EXCEPT !.archived = TRUE] = g[e]
        BY <1>1, <1>3 DEF ById
      <3> QED BY <3>1
    <2> QED BY <2>1, <2>2, <2>3
  <1>5. /\ db'.agents = Renewed(db.agents, g)
        /\ \A x \in Tables : x # "agents" => db'[x] = db[x]
        /\ db' = [x \in Tables |-> db'[x]]
    BY <1>4 DEF Shapes, Tables
  <1>6. CASE ~MapHas(mem.agents, a)
    <2>1. mem' = mem /\ memSaid' = NotThere
      BY <1>6 DEF MemArchiveAgent
    <2>2. ById(db.agents, a) = {} /\ db'.agents = db.agents
      BY <1>2, <1>5, <1>6, Altered DEF AgentInv
    <2>3. sqlSaid' = Undefined
      BY <1>4, <2>2 DEF Returned
    <2>4. \A x \in Tables : db'[x] = db[x] /\ mem'[x] = mem[x]
      BY <1>5, <2>1, <2>2
    <2>5. Kept(OfAgents) /\ Kept(Tables \ OfAgents)
      BY <2>4 DEF Kept, OfAgents, Tables
    <2> QED BY <1>5, <2>1, <2>3, <2>5, AgentsKept DEF Shapes, Undefined, NotThere
  <1>7. CASE MapHas(mem.agents, a)
    <2>1. PICK e \in AgentEntries :
             /\ e.id = a /\ MapGet(mem.agents, a)[2] = e /\ ById(db.agents, a) = {e}
             /\ Table(Renewed(db.agents, g), MapSet(mem.agents, g[e]), AgentEntries)
      <3>1. \A e \in AgentEntries : g[e].id = e.id
        BY <1>2
      <3>2. \A e \in AgentEntries : e.id # a => g[e] = e
        BY <1>2
      <3>3. Table(db.agents, mem.agents, AgentEntries)
        BY DEF AgentInv
      <3> QED BY <1>7, <3>1, <3>2, <3>3, Altered
    <2>2. g[e] = [e EXCEPT !.archived = TRUE] /\ g[e] \in AgentEntries /\ g[e].id = a
          /\ g[e].version = e.version /\ g[e].archived = TRUE
      BY <1>1, <1>2, <2>1
    <2>3. mem' = [mem EXCEPT !.agents = MapSet(@, g[e])] /\ memSaid' = Gives(g[e])
      BY <1>7, <2>1, <2>2 DEF MemArchiveAgent
    <2>4. /\ mem'.agents = MapSet(mem.agents, g[e]) /\ mem' = [x \in Maps |-> mem'[x]]
          /\ \A x \in Tables : x # "agents" => mem'[x] = mem[x]
      BY <2>3 DEF Shapes, Maps, Tables
    <2>5. sqlSaid' = memSaid'
      <3>1. {g[d] : d \in {e}} = {g[e]} /\ Returned({g[e]}) = Ok(g[e])
        BY DEF Returned
      <3> QED BY <1>4, <2>1, <2>3, <3>1 DEF Ok, Gives
    <2>6. AgentInv'
      BY <1>5, <2>1, <2>4 DEF AgentInv, AgentEntries
    <2>7. Kept(Tables \ {"agents"})
      BY <1>5, <2>4 DEF Kept
    <2>8. EnvInv' /\ Histories' /\ Kept(Tables \ OfAgents)
      BY <2>7 DEF EnvInv, VersionInv, Histories, Kept, OfAgents, Tables, EnvEntries,
                  HistoryEntries, AgentEntries
    <2>9. \A k \in StoreAgents : Written(k)' = Written(k) /\ History(k)' = History(k)
      BY <2>7 DEF Kept, Tables, Written, Hit, History
    <2>10. PICK N : N = MapSet(mem.agents, g[e])
      OBVIOUS
    <2>11. /\ \A k : MapHas(N, k) <=> k = a \/ MapHas(mem.agents, k)
           /\ \A k : MapGet(N, k) = IF k = a THEN Gives(g[e]) ELSE MapGet(mem.agents, k)
      <3>1. PICK o \in AgentEntries : o = g[e] /\ o.id = a /\ N = MapSet(mem.agents, o)
        BY <2>2, <2>10
      <3>2. /\ \A k : MapHas(N, k) <=> k = a \/ MapHas(mem.agents, k)
            /\ \A k : MapGet(N, k) = IF k = a THEN Gives(o) ELSE MapGet(mem.agents, k)
        BY <3>1, MapSets DEF AgentInv
      <3> QED BY <3>1, <3>2
    <2>12. ASSUME NEW k
           PROVE  /\ MapHas(N, k) <=> MapHas(mem.agents, k)
                  /\ MapGet(N, k)[2].version = MapGet(mem.agents, k)[2].version
                  /\ MapGet(mem.agents, k)[2].archived = TRUE => MapGet(N, k)[2].archived = TRUE
      <3>1. CASE k = a
        <4>1. MapGet(N, k) = Gives(g[e]) /\ Gives(g[e])[2] = g[e]
          BY <2>11, <3>1 DEF Gives
        <4> QED BY <1>7, <2>1, <2>2, <2>11, <3>1, <4>1
      <3>2. CASE k # a
        BY <2>11, <3>2
      <3> QED BY <3>1, <3>2
    <2>13. \A k \in StoreAgents : Recorded(k)'
      BY <2>4, <2>9, <2>10, <2>12, RecordedKept DEF VersionInv
    <2> QED BY <1>5, <2>4, <2>5, <2>6, <2>8, <2>13 DEF VersionInv, Shapes
  <1> QED BY <1>6, <1>7

LEMMA Appended == ASSUME NEW E, NEW H \in Seq(E), NEW e \in E PROVE Append(H, e) \in Seq(E)
  OBVIOUS

LEMMA Patched ==
    ASSUME NEW o \in AgentEntries, NEW p, NEW n \in Nat, o.version = n
    PROVE  [o EXCEPT !.version = @ + 1, !.patch = p]
           = [id |-> o.id, version |-> n + 1, patch |-> p, archived |-> o.archived]
  <1>1. PICK m : m = n + 1
    OBVIOUS
  <1>2. o = [id |-> o.id, version |-> o.version, patch |-> o.patch, archived |-> o.archived]
    BY DEF AgentEntries
  <1>3. PICK q : q = [o EXCEPT !.version = m]
    OBVIOUS
  <1>4. [o EXCEPT !.version = m, !.patch = p] = [q EXCEPT !.patch = p]
    BY <1>3
  <1>5. q = [id |-> o.id, version |-> m, patch |-> o.patch, archived |-> o.archived]
    BY <1>2, <1>3
  <1>6. [q EXCEPT !.patch = p]
        = [id |-> o.id, version |-> m, patch |-> p, archived |-> o.archived]
    BY <1>5
  <1> QED BY <1>1, <1>4, <1>6

(* A PATCH finds no agent, another version, its own contents or an agent    *)
(* that gets one version more.                                              *)
LEMMA UpdateNoAgent ==
    ASSUME Shapes, AgentTables, NEW a \in StoreAgents, NEW v \in Nat, NEW p \in Contents,
           ~MapHas(mem.agents, a), SqlUpdateAgent(a, v, p), MemUpdateAgent(a, v, p)
    PROVE  Shapes' /\ AgentTables' /\ sqlSaid' = memSaid' /\ Kept(Tables \ OfAgents)
  <1>1. mem' = mem /\ memSaid' = NotThere
    BY DEF MemUpdateAgent
  <1>2. \A r \in db.agents : r.of.id # a
    BY NotFound DEF AgentTables, AgentInv
  <1>3. db.agents \in SUBSET [at : Nat, of : AgentEntries]
    BY TalliesGive DEF AgentTables, AgentInv, Table
  <1>4. PICK hit : hit = Entries(db.agents, LAMBDA d : d.id = a /\ d.version = v) /\ hit = {}
    BY <1>2 DEF Entries, Hit
  <1>5. /\ db' = [db EXCEPT !.agents =
                    {[r EXCEPT !.of = IF r.of.id = a /\ r.of.version = v
                                      THEN [r.of EXCEPT !.version = @ + 1, !.patch = p]
                                      ELSE r.of] : r \in db.agents},
                  !.versions = @ \cup {Version(a, d.version + 1, p) : d \in hit}]
        /\ sqlSaid' = Returned({[d EXCEPT !.version = @ + 1, !.patch = p] : d \in hit})
    BY <1>4 DEF SqlUpdateAgent, Changed
  <1>6. {[r EXCEPT !.of = IF r.of.id = a /\ r.of.version = v
                          THEN [r.of EXCEPT !.version = @ + 1, !.patch = p] ELSE r.of] : r \in db.agents}
        = db.agents
    <2>1. \A r \in db.agents : [r EXCEPT !.of = r.of] = r
      BY <1>3
    <2> QED BY <1>2, <2>1
  <1>7. db' = [db EXCEPT !.agents = db.agents, !.versions = @ \cup {}] /\ sqlSaid' = Undefined
    BY <1>4, <1>5, <1>6 DEF Returned
  <1>8. db' = db
    BY <1>7 DEF Shapes
  <1>9. Kept(OfAgents) /\ Kept(Tables \ OfAgents) /\ Shapes'
    BY <1>1, <1>8 DEF Kept, Shapes
  <1> QED BY <1>1, <1>7, <1>9, AgentsKept DEF Undefined, NotThere

LEMMA UpdateAgentAlike ==
    ASSUME Shapes, AgentTables, NEW a \in StoreAgents, NEW v \in Nat, NEW p \in Contents,
           MapHas(mem.agents, a), SqlUpdateAgent(a, v, p), MemUpdateAgent(a, v, p)
    PROVE  Shapes' /\ AgentTables' /\ sqlSaid' = memSaid' /\ Kept(Tables \ OfAgents)
  <1> USE DEF AgentTables
  <1>1. MapHas(mem.agents, a)
    OBVIOUS
  <1>2. PICK o \in AgentEntries :
           /\ o.id = a /\ MapGet(mem.agents, a) = Gives(o) /\ MapGet(mem.agents, a)[2] = o
           /\ ById(db.agents, a) = {o} /\ \A r \in db.agents : r.of.id = a => r.of = o
           /\ \E r \in db.agents : r.of = o
    BY <1>1, OneFound DEF AgentInv
  <1>3. o.archived \in BOOLEAN /\ o.version \in Nat
    BY <1>2 DEF AgentEntries
  <1>4. PICK n \in Nat : n = o.version /\ n + 1 \in Nat
    BY <1>3
  <1>5. PICK e \in AgentEntries :
           e = [id |-> a, version |-> n + 1, patch |-> p, archived |-> o.archived]
    BY <1>3, <1>4 DEF AgentEntries
  <1>6. [o EXCEPT !.version = @ + 1, !.patch = p] = e
    <2>1. [o EXCEPT !.version = o.version + 1, !.patch = p]
          = [id |-> o.id, version |-> n + 1, patch |-> p, archived |-> o.archived]
      BY <1>4, Patched
    <2>2. e = [id |-> o.id, version |-> n + 1, patch |-> p, archived |-> o.archived]
      BY <1>2, <1>3, <1>5
    <2> QED BY <2>1, <2>2
  <1>7. PICK hit : hit = Entries(db.agents, LAMBDA d : d.id = a /\ d.version = v)
    OBVIOUS
  <1>8. hit = IF n = v THEN {o} ELSE {}
    BY <1>2, <1>4, <1>7 DEF Entries, Hit
  <1>9. db.agents \in SUBSET [at : Nat, of : AgentEntries]
    BY TalliesGive DEF AgentInv, Table
  <1>10. /\ (\E d \in hit : d.patch = p) => sqlSaid' = Returned(hit) /\ UNCHANGED db
         /\ ~(\E d \in hit : d.patch = p) =>
               /\ db' = [db EXCEPT !.agents =
                           {[r EXCEPT !.of = IF r.of.id = a /\ r.of.version = v
                                             THEN [r.of EXCEPT !.version = @ + 1, !.patch = p]
                                             ELSE r.of] : r \in db.agents},
                         !.versions = @ \cup {Version(a, d.version + 1, p) : d \in hit}]
               /\ sqlSaid' = Returned({[d EXCEPT !.version = @ + 1, !.patch = p] : d \in hit})
    BY <1>7 DEF SqlUpdateAgent, Changed
  <1>11. /\ n # v => memSaid' = NotThere /\ UNCHANGED mem
         /\ n = v /\ o.patch = p => memSaid' = Gives(o) /\ UNCHANGED mem
         /\ n = v /\ o.patch # p =>
               /\ mem' = [mem EXCEPT !.agents = MapSet(@, e),
                            !.versions = MapSet(@, [id |-> a, all |-> Append(History(a), e)])]
               /\ memSaid' = Gives(e)
    BY <1>1, <1>2, <1>4, <1>6 DEF MemUpdateAgent
  <1>12. ASSUME UNCHANGED <<db, mem>>
         PROVE  Shapes' /\ AgentTables' /\ Kept(Tables \ OfAgents)
    <2>1. Kept(OfAgents) /\ Kept(Tables \ OfAgents) /\ Shapes'
      BY <1>12 DEF Kept, Shapes
    <2> QED BY <2>1, AgentsKept
  <1>13. CASE n # v
    <2>1. hit = {}
      BY <1>8, <1>13
    <2>2. {[r EXCEPT !.of = IF r.of.id = a /\ r.of.version = v
                            THEN [r.of EXCEPT !.version = @ + 1, !.patch = p] ELSE r.of] : r \in db.agents}
          = db.agents
      <3>1. \A r \in db.agents : ~(r.of.id = a /\ r.of.version = v)
        BY <1>2, <1>4, <1>13
      <3>2. \A r \in db.agents : [r EXCEPT !.of = r.of] = r
        BY <1>9
      <3> QED BY <3>1, <3>2
    <2>3. db' = [db EXCEPT !.agents = db.agents, !.versions = @ \cup {}] /\ sqlSaid' = Undefined
      BY <1>10, <2>1, <2>2 DEF Returned
    <2>4. db' = db
      BY <2>3 DEF Shapes
    <2> QED BY <1>11, <1>12, <1>13, <2>3, <2>4 DEF Undefined, NotThere
  <1>14. CASE n = v /\ o.patch = p
    <2>1. sqlSaid' = Returned({o}) /\ db' = db
      BY <1>8, <1>10, <1>14
    <2>2. Returned({o}) = Ok(o)
      BY DEF Returned
    <2> QED BY <1>11, <1>12, <1>14, <2>1, <2>2 DEF Ok, Gives
  <1>15. CASE n = v /\ o.patch # p
    <2>1. PICK g \in [AgentEntries -> AgentEntries] :
             g = [d \in AgentEntries |-> IF d = o THEN e ELSE d]
      OBVIOUS
    <2>2. \A r \in db.agents :
             (IF r.of.id = a /\ r.of.version = v
              THEN [r.of EXCEPT !.version = @ + 1, !.patch = p] ELSE r.of)
             = IF r.of = o THEN e ELSE r.of
      BY <1>2, <1>4, <1>6, <1>15
    <2>3. {[r EXCEPT !.of = IF r.of.id = a /\ r.of.version = v
                            THEN [r.of EXCEPT !.version = @ + 1, !.patch = p] ELSE r.of] : r \in db.agents}
          = Renewed(db.agents, g)
      <3>1. \A r \in db.agents : g[r.of] = IF r.of = o THEN e ELSE r.of
        BY <1>9, <2>1
      <3>2. {[r EXCEPT !.of = IF r.of.id = a /\ r.of.version = v
                              THEN [r.of EXCEPT !.version = @ + 1, !.patch = p]
                              ELSE r.of] : r \in db.agents}
            = {[r EXCEPT !.of = IF r.of = o THEN e ELSE r.of] : r \in db.agents}
        BY <2>2
      <3>3. {[r EXCEPT !.of = IF r.of = o THEN e ELSE r.of] : r \in db.agents} = Renewed(db.agents, g)
        BY <3>1 DEF Renewed
      <3> QED BY <3>2, <3>3
    <2>4. hit = {o} /\ ~\E d \in hit : d.patch = p
      BY <1>8, <1>15
    <2>5. {Version(a, d.version + 1, p) : d \in hit} = {[at |-> n + 1, of |-> Unmarked(e)]}
      <3>1. Unmarked(e) = [id |-> a, version |-> n + 1, patch |-> p, archived |-> FALSE]
        <4>1. e.id = a /\ e.version = n + 1 /\ e.patch = p
          BY <1>5
        <4> QED BY <4>1, UnmarkedIs
      <3> QED BY <1>4, <2>4, <3>1 DEF Version
    <2>6. Returned({[d EXCEPT !.version = @ + 1, !.patch = p] : d \in hit}) = Ok(e)
      <3>1. {[d EXCEPT !.version = @ + 1, !.patch = p] : d \in hit} = {e}
        BY <1>6, <2>4
      <3>2. Returned({e}) = Ok(e)
        BY DEF Returned
      <3> QED BY <3>1, <3>2
    <2>7. /\ db' = [db EXCEPT !.agents = Renewed(db.agents, g),
                             !.versions = @ \cup {[at |-> n + 1, of |-> Unmarked(e)]}]
          /\ sqlSaid' = Ok(e)
      BY <1>10, <2>3, <2>4, <2>5, <2>6
    <2>8. /\ db'.agents = Renewed(db.agents, g) /\ mem'.agents = MapSet(mem.agents, e)
          /\ db'.versions = db.versions \cup {[at |-> n + 1, of |-> Unmarked(e)]}
          /\ mem'.versions = MapSet(mem.versions, [id |-> a, all |-> Append(History(a), e)])
          /\ Shapes' /\ Kept(Tables \ {"agents", "versions"})
      BY <1>11, <1>15, <2>7 DEF Shapes, Kept, Tables, Maps
    <2>9. e.id = a /\ e.version = n + 1 /\ e.archived = o.archived /\ Unmarked(e).id = a
      BY <1>5 DEF Unmarked
    <2>10. AgentInv'
      <3>1. \A d \in AgentEntries : g[d].id = d.id
        BY <1>2, <2>1, <2>9
      <3>2. \A d \in AgentEntries : d.id # a => g[d] = d
        BY <1>2, <2>1
      <3>3. Table(db.agents, mem.agents, AgentEntries)
        BY DEF AgentInv
      <3>4. PICK d \in AgentEntries :
               /\ MapGet(mem.agents, a)[2] = d
               /\ Table(Renewed(db.agents, g), MapSet(mem.agents, g[d]), AgentEntries)
        BY <1>1, <3>1, <3>2, <3>3, Altered
      <3>5. g[d] = e
        BY <1>2, <2>1, <3>4
      <3> QED BY <2>8, <3>4, <3>5 DEF AgentInv, AgentEntries
    <2>11. PICK N : N = MapSet(mem.agents, e)
      OBVIOUS
    <2>12. /\ \A k : MapHas(N, k) <=> k = a \/ MapHas(mem.agents, k)
           /\ \A k : MapGet(N, k) = IF k = a THEN Gives(e) ELSE MapGet(mem.agents, k)
      BY <2>9, <2>11, MapSets DEF AgentInv
    <2>13. PICK H \in Seq(AgentEntries) : H = History(a) /\ Len(H) = n
      BY <1>1, <1>2, <1>4 DEF VersionInv, Recorded
    <2>14. PICK K \in Seq(AgentEntries) : K = Append(H, e)
      BY Appended
    <2>15. /\ Histories' /\ History(a)' = K
           /\ \A k \in StoreAgents : k # a => History(k)' = History(k)
      BY <2>8, <2>13, <2>14, HistorySet DEF VersionInv
    <2>16. /\ Written(a)' = Written(a) \cup {[at |-> n + 1, of |-> Unmarked(e)]}
           /\ \A k \in StoreAgents : k # a => Written(k)' = Written(k)
      <3>1. [at |-> n + 1, of |-> Unmarked(e)].of.id = a
        BY <2>9
      <3> QED BY <2>8, <3>1 DEF Written, Hit
    <2>17. Recorded(a)'
      <3>1. Recorded(a)
        BY DEF VersionInv
      <3>2. Written(a)' = Written(a) \cup {[at |-> Len(History(a)) + 1, of |-> Unmarked(e)]}
        BY <2>13, <2>16
      <3>3. History(a)' = Append(History(a), e)
        BY <2>13, <2>14, <2>15
      <3>4. /\ History(a)' \in Seq(AgentEntries) /\ Len(History(a)') = Len(History(a)) + 1
            /\ Written(a)' = {[at |-> i, of |-> Unmarked(History(a)'[i])] : i \in 1 .. Len(History(a)')}
            /\ (/\ e.archived = FALSE
                /\ \A i \in 1 .. Len(History(a)) : History(a)[i].archived = FALSE)
               => \A i \in 1 .. Len(History(a)') : History(a)'[i].archived = FALSE
        BY <3>1, <3>2, <3>3, OneMore
      <3>5. MapHas(mem'.agents, a) /\ MapGet(mem'.agents, a)[2] = e
        BY <2>8, <2>11, <2>12 DEF Gives
      <3>6. e.version = Len(History(a)')
        BY <2>9, <2>13, <3>4
      <3>7. \/ \A i \in 1 .. Len(History(a)') : History(a)'[i].archived = FALSE
            \/ e.archived = TRUE
        BY <1>2, <1>3, <2>9, <3>1, <3>4 DEF Recorded
      <3> QED BY <3>4, <3>5, <3>6, <3>7 DEF Recorded, AgentEntries, Unmarked
    <2>18. \A k \in StoreAgents : Recorded(k)'
      <3> SUFFICES ASSUME NEW k \in StoreAgents, k # a PROVE Recorded(k)'
        BY <2>17
      <3>1. /\ MapHas(mem'.agents, k) <=> MapHas(mem.agents, k)
            /\ MapGet(mem'.agents, k) = MapGet(mem.agents, k)
        BY <2>8, <2>11, <2>12
      <3> QED BY <2>15, <2>16, <3>1, RecordedKept DEF VersionInv
    <2>19. EnvInv' /\ Kept(Tables \ OfAgents)
      BY <2>8 DEF EnvInv, Kept, Tables, OfAgents, EnvEntries
    <2>20. sqlSaid' = memSaid'
      BY <1>11, <1>15, <2>7 DEF Ok, Gives
    <2> QED BY <2>8, <2>10, <2>15, <2>18, <2>19, <2>20 DEF VersionInv
  <1> QED BY <1>13, <1>14, <1>15

LEMMA EnvAlike ==
    ASSUME Shapes, AgentTables, NEW a \in StoreAgents,
           \/ ~(\E r \in db.environments : r.of.id = a) /\ SqlCreateEnv(a) /\ MemCreateEnv(a)
           \/ SqlDeleteEnv(a) /\ MemDeleteEnv(a)
    PROVE  Shapes' /\ AgentTables' /\ sqlSaid' = memSaid' /\ Kept(Tables \ OfAgents)
  <1>1. MapHas(mem.environments, a) <=> \E r \in db.environments : r.of.id = a
    BY Looked DEF AgentTables, EnvInv
  <1>2. ASSUME Kept(Tables \ {"environments"}), EnvInv'
        PROVE  AgentTables' /\ Kept(Tables \ OfAgents)
    <2>1. /\ db'.agents = db.agents /\ mem'.agents = mem.agents
          /\ db'.versions = db.versions /\ mem'.versions = mem.versions
          /\ Kept(Tables \ OfAgents)
      BY <1>2 DEF Kept, OfAgents, Tables
    <2>2. AgentInv' /\ Histories'
      BY <2>1 DEF AgentTables, AgentInv, VersionInv, Histories, AgentEntries, HistoryEntries
    <2>3. \A k \in StoreAgents : Written(k)' = Written(k) /\ History(k)' = History(k)
      BY <2>1 DEF Written, Hit, History
    <2>4. \A k \in StoreAgents : Recorded(k)'
      BY <2>1, <2>3, RecordedKept DEF AgentTables, VersionInv
    <2> QED BY <1>2, <2>1, <2>2, <2>4 DEF AgentTables, VersionInv
  <1>3. CASE ~(\E r \in db.environments : r.of.id = a) /\ SqlCreateEnv(a) /\ MemCreateEnv(a)
    <2>1. PICK e \in EnvEntries : e = [id |-> a] /\ e.id = a
      <3>1. [id |-> a] \in [id : StoreAgents] /\ [id |-> a].id = a
        OBVIOUS
      <3> QED BY <3>1 DEF EnvEntries
    <2>2. /\ db'.environments = Add(db.environments, e) /\ sqlSaid' = Ok(e)
          /\ mem'.environments = MapSet(mem.environments, e) /\ memSaid' = Gives(e)
          /\ Shapes' /\ Kept(Tables \ {"environments"})
      BY <1>3, <2>1 DEF SqlCreateEnv, MemCreateEnv, Shapes, Kept, Tables, Maps
    <2>3. EnvInv'
      <3>1. Table(db.environments, mem.environments, EnvEntries)
        BY DEF AgentTables, EnvInv
      <3>2. ~MapHas(mem.environments, e.id)
        BY <1>1, <1>3, <2>1
      <3>3. Table(Add(db.environments, e), MapSet(mem.environments, e), EnvEntries)
        BY <3>1, <3>2, Inserts
      <3> QED BY <2>2, <3>3 DEF EnvInv, EnvEntries
    <2> QED BY <1>2, <2>2, <2>3 DEF Ok, Gives
  <1>4. CASE SqlDeleteEnv(a) /\ MemDeleteEnv(a)
    <2>1. /\ db'.environments = {r \in db.environments : r.of.id # a}
          /\ mem'.environments = MapDelete(mem.environments, a)
          /\ Shapes' /\ Kept(Tables \ {"environments"})
      BY <1>4 DEF SqlDeleteEnv, MemDeleteEnv, Shapes, Kept, Tables, Maps
    <2>2. EnvInv'
      BY <2>1, Deletes DEF AgentTables, EnvInv, EnvEntries
    <2>3. (\E r \in db.environments : r.of.id = a) = MapHas(mem.environments, a)
      BY <1>1 DEF MapHas
    <2> QED BY <1>2, <1>4, <2>1, <2>2, <2>3 DEF SqlDeleteEnv, MemDeleteEnv, Was, Had
  <1> QED BY <1>3, <1>4

LEMMA OnAgentsAlike ==
    ASSUME Shapes, AgentTables, OnAgents
    PROVE  Shapes' /\ AgentTables' /\ sqlSaid' = memSaid' /\ Kept(Tables \ OfAgents)
  <1>1. PICK a \in StoreAgents :
           \/ \E p \in Contents : ~Found(SqlAgent(a)) /\ SqlCreateAgent(a, p) /\ MemCreateAgent(a, p)
           \/ \E p \in Contents, v \in 1 .. 3 : SqlUpdateAgent(a, v, p) /\ MemUpdateAgent(a, v, p)
           \/ SqlArchiveAgent(a) /\ MemArchiveAgent(a)
           \/ SqlDeleteAgent(a) /\ MemDeleteAgent(a)
           \/ ~(\E r \in db.environments : r.of.id = a) /\ SqlCreateEnv(a) /\ MemCreateEnv(a)
           \/ SqlDeleteEnv(a) /\ MemDeleteEnv(a)
    BY DEF OnAgents
  <1>2. CASE \E p \in Contents : ~Found(SqlAgent(a)) /\ SqlCreateAgent(a, p) /\ MemCreateAgent(a, p)
    BY <1>2, CreateAgentAlike
  <1>3. CASE \E p \in Contents, v \in 1 .. 3 : SqlUpdateAgent(a, v, p) /\ MemUpdateAgent(a, v, p)
    <2>1. PICK p \in Contents, v \in Nat : SqlUpdateAgent(a, v, p) /\ MemUpdateAgent(a, v, p)
      BY <1>3
    <2> QED BY <2>1, UpdateNoAgent, UpdateAgentAlike
  <1>4. CASE SqlArchiveAgent(a) /\ MemArchiveAgent(a)
    BY <1>4, ArchiveAgentAlike
  <1>5. CASE SqlDeleteAgent(a) /\ MemDeleteAgent(a)
    BY <1>5, DeleteAgentAlike
  <1>6. CASE \/ ~(\E r \in db.environments : r.of.id = a) /\ SqlCreateEnv(a) /\ MemCreateEnv(a)
             \/ SqlDeleteEnv(a) /\ MemDeleteEnv(a)
    BY <1>6, EnvAlike
  <1> QED BY <1>1, <1>2, <1>3, <1>4, <1>5, <1>6

LEMMA AgentsSame == ASSUME AgentTables PROVE SameAgents
  <1>1. SqlAgents = MemAgents
    BY TalliesGive DEF AgentTables, AgentInv, Table, SqlAgents, MemAgents
  <1>2. SqlEnvs = MemEnvs
    BY TalliesGive DEF AgentTables, EnvInv, Table, SqlEnvs, MemEnvs
  <1>3. ASSUME NEW a \in StoreAgents PROVE SqlAgent(a) = MemAgent(a)
    BY AgentLooked DEF AgentTables, MemAgent
  <1>4. ASSUME NEW a \in StoreAgents
        PROVE  /\ SqlVersions(a) = Unarchived(MemVersions(a))
               /\ SqlVersions(a) = MemVersions(a) \/ (Found(SqlAgent(a)) /\ SqlAgent(a)[2].archived)
    <2>1. SqlVersions(a) = Ascending(Written(a)) /\ MemVersions(a) = History(a)
      BY DEF SqlVersions, MemVersions, Written
    <2>2. /\ SqlVersions(a) = Unarchived(MemVersions(a))
          /\ \/ SqlVersions(a) = MemVersions(a)
             \/ MapHas(mem.agents, a) /\ MapGet(mem.agents, a)[2].archived = TRUE
      BY <2>1, VersionsListed DEF AgentTables, VersionInv
    <2> QED BY <2>2, AgentLooked DEF AgentTables
  <1> QED BY <1>1, <1>2, <1>3, <1>4 DEF SameAgents

----------------------------------------------------------------------------
(* The tables of vaults: a credential is of a vault there is.               *)
VaultEntries == [id : StoreVaults, owner : StoreUsers, writes : Nat]
CredEntries  == [id : StoreCreds, vault : StoreVaults, type : {"static_bearer", "mcp_oauth"},
                 access : Nat, refresh : Nat]

VaultsInv == Table(db.vaults, mem.vaults, VaultEntries)
CredsInv  == Table(db.creds, mem.creds, CredEntries)
InVaults  == \A r \in db.creds : \E q \in db.vaults : q.of.id = r.of.vault

VaultTables == VaultsInv /\ CredsInv /\ InVaults

OfVaults == {"vaults", "creds"}

LEMMA VaultMade ==
    ASSUME NEW v \in StoreVaults, NEW u \in StoreUsers
    PROVE  \E e \in VaultEntries : e = [id |-> v, owner |-> u, writes |-> 0] /\ e.id = v
  <1>1. [id |-> v, owner |-> u, writes |-> 0] \in VaultEntries
    BY DEF VaultEntries
  <1>2. [id |-> v, owner |-> u, writes |-> 0].id = v
    OBVIOUS
  <1> QED BY <1>1, <1>2

LEMMA CreateVaultAlike ==
    ASSUME Shapes, VaultTables, NEW v \in StoreVaults, NEW u \in StoreUsers,
           ~\E r \in db.vaults : r.of.id = v, SqlCreateVault(v, u), MemCreateVault(v, u)
    PROVE  Shapes' /\ VaultTables' /\ sqlSaid' = memSaid' /\ Kept(Tables \ OfVaults)
  <1>1. PICK e \in VaultEntries : e = [id |-> v, owner |-> u, writes |-> 0] /\ e.id = v
    BY VaultMade
  <1>2. /\ db'.vaults = Add(db.vaults, e) /\ sqlSaid' = Ok(e)
        /\ mem'.vaults = MapSet(mem.vaults, e) /\ memSaid' = Gives(e)
        /\ Shapes' /\ Kept(Tables \ {"vaults"})
    BY <1>1 DEF SqlCreateVault, MemCreateVault, Shapes, Kept, Tables, Maps
  <1>3. VaultsInv'
    <2>1. Table(db.vaults, mem.vaults, VaultEntries)
      BY DEF VaultTables, VaultsInv
    <2>2. ~MapHas(mem.vaults, e.id)
      BY <1>1, <2>1, Looked
    <2>3. Table(Add(db.vaults, e), MapSet(mem.vaults, e), VaultEntries)
      BY <2>1, <2>2, Inserts
    <2> QED BY <1>2, <2>3 DEF VaultsInv, VaultEntries
  <1>4. db'.creds = db.creds /\ mem'.creds = mem.creds /\ Kept(Tables \ OfVaults)
    BY <1>2 DEF Kept, Tables, OfVaults
  <1>5. CredsInv' /\ InVaults'
    <2>1. \A q \in db.vaults : q \in db'.vaults
      BY <1>2 DEF Add
    <2> QED BY <1>4, <2>1 DEF VaultTables, CredsInv, InVaults, CredEntries
  <1> QED BY <1>2, <1>3, <1>4, <1>5 DEF VaultTables, Ok, Gives

(* Of no vault, no credentials.                                             *)
LEMMA DeleteVaultAlike ==
    ASSUME Shapes, VaultTables, NEW v \in StoreVaults, SqlDeleteVault(v), MemDeleteVault(v)
    PROVE  Shapes' /\ VaultTables' /\ sqlSaid' = memSaid' /\ Kept(Tables \ OfVaults)
  <1>1. Table(db.vaults, mem.vaults, VaultEntries) /\ Table(db.creds, mem.creds, CredEntries)
    BY DEF VaultTables, VaultsInv, CredsInv
  <1>2. PICK W : W = {c \in ToSet(mem.creds) : c.vault # v}
    OBVIOUS
  <1>3. /\ db'.vaults = {r \in db.vaults : r.of.id # v}
        /\ db'.creds = {r \in db.creds : r.of.vault # v}
        /\ mem'.vaults = MapDelete(mem.vaults, v)
        /\ mem'.creds = IF MapHas(mem.vaults, v) THEN Filter(mem.creds, W) ELSE mem.creds
        /\ Shapes' /\ Kept(Tables \ {"vaults", "creds"})
    BY <1>2 DEF SqlDeleteVault, MemDeleteVault, Shapes, Kept, Tables, Maps
  <1>4. MapHas(mem.vaults, v) <=> \E r \in db.vaults : r.of.id = v
    BY <1>1, Looked
  <1>5. VaultsInv'
    <2>1. Table({r \in db.vaults : r.of.id # v}, MapDelete(mem.vaults, v), VaultEntries)
      BY <1>1, Deletes
    <2> QED BY <1>3, <2>1 DEF VaultsInv, VaultEntries
  <1>6. CredsInv'
    <2>1. CASE MapHas(mem.vaults, v)
      <3>1. \A r \in db.creds : r.of \in ToSet(mem.creds)
        BY <1>1, TalliesGive DEF Table, ToSet
      <3>2. db'.creds = {r \in db.creds : r.of \in W}
        BY <1>2, <1>3, <3>1
      <3>3. Table({r \in db.creds : r.of \in W}, Filter(mem.creds, W), CredEntries)
        BY <1>1, Leaves
      <3> QED BY <1>3, <2>1, <3>2, <3>3 DEF CredsInv, CredEntries
    <2>2. CASE ~MapHas(mem.vaults, v)
      <3>1. db'.creds = db.creds
        BY <1>3, <1>4, <2>2 DEF VaultTables, InVaults
      <3> QED BY <1>1, <1>3, <2>2, <3>1 DEF CredsInv, CredEntries
    <2> QED BY <2>1, <2>2
  <1>7. InVaults'
    BY <1>3 DEF VaultTables, InVaults
  <1>8. sqlSaid' = memSaid'
    <2>1. (\E r \in db.vaults : r.of.id = v) = MapHas(mem.vaults, v)
      BY <1>4 DEF MapHas
    <2> QED BY <2>1 DEF SqlDeleteVault, MemDeleteVault, Was, Had
  <1> QED BY <1>3, <1>5, <1>6, <1>7, <1>8 DEF VaultTables, OfVaults

LEMMA CredentialLooked ==
    ASSUME CredsInv, NEW c
    PROVE  /\ SqlCredential(c) = MapGet(mem.creds, c)
           /\ Found(SqlCredential(c)) <=> MapHas(mem.creds, c)
  <1>1. Entries(db.creds, LAMBDA e : e.id = c) = ById(db.creds, c)
    BY DEF Entries, Hit, ById
  <1>2. SqlCredential(c) = Returned(ById(db.creds, c))
    BY <1>1 DEF SqlCredential
  <1> QED BY <1>2, FoundIs DEF CredsInv

(* The vault is touched, in its place.                                      *)
TouchedRows(rows, v) == {[r EXCEPT !.of = IF r.of.id = v THEN [r.of EXCEPT !.writes = @ + 1]
                                      ELSE r.of] : r \in rows}
WithWrite(M, v) == MapSet(M, Touched(MapGet(M, v)[2]))

LEMMA TouchesAlike ==
    ASSUME VaultsInv, NEW v, MapHas(mem.vaults, v)
    PROVE  /\ Table(TouchedRows(db.vaults, v), WithWrite(mem.vaults, v), VaultEntries)
           /\ \A q \in db.vaults : \E r \in TouchedRows(db.vaults, v) : r.of.id = q.of.id
  <1>1. Table(db.vaults, mem.vaults, VaultEntries)
    BY DEF VaultsInv
  <1>2. \A e \in VaultEntries : [e EXCEPT !.writes = @ + 1] \in VaultEntries
    BY DEF VaultEntries
  <1>3. PICK g \in [VaultEntries -> VaultEntries] :
           g = [e \in VaultEntries |-> IF e.id = v THEN [e EXCEPT !.writes = @ + 1] ELSE e]
    BY <1>2
  <1>4. \A e \in VaultEntries : g[e].id = e.id
    BY <1>3 DEF VaultEntries
  <1>5. \A e \in VaultEntries : e.id # v => g[e] = e
    BY <1>3
  <1>6. db.vaults \in SUBSET [at : Nat, of : VaultEntries]
    BY <1>1, TalliesGive DEF Table
  <1>7. PICK rows : rows = TouchedRows(db.vaults, v)
    OBVIOUS
  <1>8. rows = Renewed(db.vaults, g)
    <2>1. \A r \in db.vaults :
             (IF r.of.id = v THEN [r.of EXCEPT !.writes = @ + 1] ELSE r.of) = g[r.of]
      BY <1>3, <1>6
    <2> QED BY <1>7, <2>1 DEF Renewed, TouchedRows
  <1>9. PICK e \in VaultEntries :
           /\ e.id = v /\ MapGet(mem.vaults, v)[2] = e
           /\ Table(Renewed(db.vaults, g), MapSet(mem.vaults, g[e]), VaultEntries)
    BY <1>1, <1>4, <1>5, Altered
  <1>10. g[e] = [e EXCEPT !.writes = @ + 1]
    BY <1>3, <1>9
  <1>11. \A q \in db.vaults : \E r \in rows : r.of.id = q.of.id
    <2> SUFFICES ASSUME NEW q \in db.vaults PROVE \E r \in rows : r.of.id = q.of.id
      OBVIOUS
    <2>1. [q EXCEPT !.of = g[q.of]] \in rows
      BY <1>8 DEF Renewed
    <2>2. [q EXCEPT !.of = g[q.of]].of.id = q.of.id
      BY <1>4, <1>6
    <2> QED BY <2>1, <2>2
  <1> QED BY <1>7, <1>8, <1>9, <1>10, <1>11 DEF WithWrite, Touched

LEMMA CredentialMade ==
    ASSUME NEW c \in StoreCreds, NEW v \in StoreVaults, NEW type \in {"static_bearer", "mcp_oauth"}
    PROVE  \E e \in CredEntries :
              /\ e = [id |-> c, vault |-> v, type |-> type, access |-> 1, refresh |-> 1]
              /\ e.id = c /\ e.vault = v
  <1>1. PICK e : e = [id |-> c, vault |-> v, type |-> type, access |-> 1, refresh |-> 1]
    OBVIOUS
  <1>2. e \in CredEntries
    BY <1>1 DEF CredEntries
  <1>3. e.id = c /\ e.vault = v
    BY <1>1
  <1> QED BY <1>1, <1>2, <1>3

LEMMA AddCredentialAlike ==
    ASSUME Shapes, VaultTables, NEW c \in StoreCreds, NEW v \in StoreVaults,
           NEW type \in {"static_bearer", "mcp_oauth"}, ~Found(SqlCredential(c)),
           SqlAddCredential(c, v, type), MemAddCredential(c, v, type)
    PROVE  Shapes' /\ VaultTables' /\ sqlSaid' = memSaid' /\ Kept(Tables \ OfVaults)
  <1>1. Table(db.vaults, mem.vaults, VaultEntries) /\ Table(db.creds, mem.creds, CredEntries)
    BY DEF VaultTables, VaultsInv, CredsInv
  <1>2. MapHas(mem.vaults, v) <=> \E r \in db.vaults : r.of.id = v
    BY <1>1, Looked
  <1>3. Hit(db.vaults, LAMBDA e : e.id = v) = {} <=> ~MapHas(mem.vaults, v)
    BY <1>2 DEF Hit
  <1>4. ~MapHas(mem.creds, c)
    BY CredentialLooked DEF VaultTables
  <1>5. CASE ~MapHas(mem.vaults, v)
    <2>1. db' = db /\ mem' = mem /\ sqlSaid' = Undefined /\ memSaid' = NotThere
      BY <1>3, <1>5 DEF SqlAddCredential, MemAddCredential
    <2> QED BY <2>1 DEF Shapes, VaultTables, VaultsInv, CredsInv, InVaults, VaultEntries,
                        CredEntries, Kept, Undefined, NotThere
  <1>6. CASE MapHas(mem.vaults, v)
    <2>1. PICK e \in CredEntries :
             /\ e = [id |-> c, vault |-> v, type |-> type, access |-> 1, refresh |-> 1]
             /\ e.id = c /\ e.vault = v
      BY CredentialMade
    <2>2. PICK rows, M : rows = TouchedRows(db.vaults, v) /\ M = WithWrite(mem.vaults, v)
      OBVIOUS
    <2>3. /\ db' = [db EXCEPT !.creds = Add(@, e), !.vaults = TouchedRows(@, v)] /\ sqlSaid' = Ok(e)
      BY <1>3, <1>6, <2>1 DEF SqlAddCredential, Changed, TouchedRows
    <2>4. /\ mem' = [mem EXCEPT !.creds = MapSet(@, e), !.vaults = WithWrite(@, v)]
          /\ memSaid' = Gives(e)
      BY <1>6, <2>1 DEF MemAddCredential, WithWrite
    <2>5. /\ db'.creds = Add(db.creds, e) /\ db'.vaults = rows
          /\ mem'.creds = MapSet(mem.creds, e) /\ mem'.vaults = M
          /\ Shapes' /\ Kept(Tables \ OfVaults)
      BY <2>2, <2>3, <2>4 DEF Shapes, Kept, Tables, Maps, OfVaults
    <2>6. Table(rows, M, VaultEntries) /\ \A q \in db.vaults : \E r \in rows : r.of.id = q.of.id
      BY <1>6, <2>2, TouchesAlike DEF VaultTables
    <2>7. Table(Add(db.creds, e), MapSet(mem.creds, e), CredEntries)
      BY <1>1, <1>4, <2>1, Inserts
    <2>8. InVaults'
      <3> SUFFICES ASSUME NEW r \in db'.creds PROVE \E q \in rows : q.of.id = r.of.vault
        BY <2>5 DEF InVaults
      <3>1. r \in db.creds \/ r.of = e
        BY <2>5 DEF Add
      <3>2. \E q \in db.vaults : q.of.id = r.of.vault
        BY <1>2, <1>6, <2>1, <3>1 DEF VaultTables, InVaults
      <3> QED BY <2>6, <3>2
    <2> QED BY <2>3, <2>4, <2>5, <2>6, <2>7, <2>8 DEF VaultTables, VaultsInv, CredsInv, VaultEntries,
                                                CredEntries, Ok, Gives
  <1> QED BY <1>5, <1>6

(* An entry renewed in its place, or none to renew.                         *)
Rotate(e, n, rotated) == [e EXCEPT !.access = n, !.refresh = IF rotated THEN n ELSE @]

LEMMA UpdateTokensAlike ==
    ASSUME Shapes, VaultTables, NEW c \in StoreCreds, NEW n \in Nat, NEW rotated \in BOOLEAN,
           SqlUpdateTokens(c, n, rotated), MemUpdateTokens(c, n, rotated)
    PROVE  Shapes' /\ VaultTables' /\ sqlSaid' = memSaid' /\ Kept(Tables \ OfVaults)
  <1>1. Table(db.creds, mem.creds, CredEntries)
    BY DEF VaultTables, CredsInv
  <1>2. db.creds \in SUBSET [at : Nat, of : CredEntries]
    BY <1>1, TalliesGive DEF Table
  <1>3. PICK renew :
           renew = [e \in CredEntries |-> Rotate(e, n, rotated)]
    OBVIOUS
  <1>4. \A e \in CredEntries : renew[e] \in CredEntries /\ renew[e].id = e.id
                               /\ renew[e].vault = e.vault
    BY <1>3 DEF CredEntries, Rotate
  <1>5. PICK g \in [CredEntries -> CredEntries] :
           g = [e \in CredEntries |-> IF e.id = c /\ e.type = "mcp_oauth" THEN renew[e] ELSE e]
    BY <1>4
  <1>6. \A e \in CredEntries : g[e].id = e.id /\ g[e].vault = e.vault
    BY <1>4, <1>5
  <1>7. PICK hit : hit = {e \in ById(db.creds, c) : e.type = "mcp_oauth"}
    OBVIOUS
  <1>8. /\ db' = [db EXCEPT !.creds = Renewed(db.creds, g)]
        /\ sqlSaid' = Returned({renew[e] : e \in hit})
    <2>1. PICK h : h = Entries(db.creds, LAMBDA e : e.id = c /\ e.type = "mcp_oauth")
      OBVIOUS
    <2>2. h = hit
      BY <1>7, <2>1 DEF Entries, Hit, ById
    <2>3. /\ db' = [db EXCEPT !.creds =
                     {[r EXCEPT !.of = IF r.of.id = c /\ r.of.type = "mcp_oauth"
                                       THEN Rotate(r.of, n, rotated)
                                       ELSE r.of] : r \in db.creds}]
          /\ sqlSaid' = Returned({Rotate(e, n, rotated) : e \in h})
      BY <2>1 DEF SqlUpdateTokens, Changed, Rotate
    <2>4. {[r EXCEPT !.of = IF r.of.id = c /\ r.of.type = "mcp_oauth"
                            THEN Rotate(r.of, n, rotated)
                            ELSE r.of] : r \in db.creds}
          = Renewed(db.creds, g)
      <3>1. \A r \in db.creds :
               (IF r.of.id = c /\ r.of.type = "mcp_oauth"
                THEN Rotate(r.of, n, rotated)
                ELSE r.of) = g[r.of]
        BY <1>2, <1>3, <1>5
      <3> QED BY <3>1 DEF Renewed
    <2>5. {Rotate(e, n, rotated) : e \in h}
          = {renew[e] : e \in h}
      <3>1. \A e \in h : Rotate(e, n, rotated) = renew[e]
        BY <1>2, <1>3, <1>7, <2>2 DEF ById
      <3> QED BY <3>1
    <2> QED BY <2>2, <2>3, <2>4, <2>5
  <1>9. /\ db'.creds = Renewed(db.creds, g) /\ db'.vaults = db.vaults
        /\ \A x \in Tables : x # "creds" => db'[x] = db[x]
        /\ db' = [x \in Tables |-> db'[x]]
    BY <1>8 DEF Shapes, Tables
  <1>10. InVaults'
    <2> SUFFICES ASSUME NEW q \in db'.creds PROVE \E w \in db.vaults : w.of.id = q.of.vault
      BY <1>9 DEF InVaults
    <2>1. PICK r \in db.creds : q = [r EXCEPT !.of = g[r.of]]
      BY <1>9 DEF Renewed
    <2>2. q.of.vault = r.of.vault
      BY <1>2, <1>6, <2>1
    <2> QED BY <2>2 DEF VaultTables, InVaults
  <1>11. ASSUME hit = {}, memSaid' = NotThere, mem' = mem
         PROVE  Shapes' /\ CredsInv' /\ sqlSaid' = memSaid' /\ Kept(Tables \ {"creds"})
    <2>1. \A r \in db.creds : g[r.of] = r.of
      BY <1>2, <1>5, <1>7, <1>11 DEF ById
    <2>2. Renewed(db.creds, g) = db.creds
      BY <1>2, <2>1, UnchangedRows DEF Renewed
    <2>3. sqlSaid' = Undefined
      BY <1>8, <1>11 DEF Returned
    <2> QED BY <1>1, <1>9, <1>11, <2>2, <2>3 DEF Shapes, CredsInv, Kept, CredEntries,
                                                 Undefined, NotThere
  <1>12. Shapes' /\ CredsInv' /\ sqlSaid' = memSaid' /\ Kept(Tables \ {"creds"})
    <2>1. CASE ~MapHas(mem.creds, c)
      <3>1. hit = {}
        BY <1>1, <1>7, <2>1, NotFound
      <3>2. memSaid' = NotThere /\ mem' = mem
        BY <2>1 DEF MemUpdateTokens
      <3> QED BY <1>11, <3>1, <3>2
    <2>2. CASE MapHas(mem.creds, c)
      <3>1. PICK o \in CredEntries :
               /\ MapGet(mem.creds, c)[2] = o /\ o.id = c /\ ById(db.creds, c) = {o}
               /\ Table(Renewed(db.creds, g), MapSet(mem.creds, g[o]), CredEntries)
        <4>1. \A e \in CredEntries : g[e].id = e.id
          BY <1>6
        <4>2. \A e \in CredEntries : e.id # c => g[e] = e
          BY <1>5
        <4> QED BY <1>1, <2>2, <4>1, <4>2, Altered
      <3>2. CASE o.type # "mcp_oauth"
        <4>1. hit = {}
          BY <1>7, <3>1, <3>2
        <4>2. memSaid' = NotThere /\ mem' = mem
          BY <3>1, <3>2 DEF MemUpdateTokens
        <4> QED BY <1>11, <4>1, <4>2
      <3>3. CASE o.type = "mcp_oauth"
        <4>1. hit = {o} /\ g[o] = renew[o]
          BY <1>5, <1>7, <3>1, <3>3
        <4>2. mem' = [mem EXCEPT !.creds = MapSet(@, renew[o])] /\ memSaid' = Gives(renew[o])
          <5>1. Rotate(o, n, rotated) = renew[o]
            BY <1>3
          <5>2. /\ mem' = [mem EXCEPT !.creds = MapSet(@, Rotate(o, n, rotated))]
                /\ memSaid' = Gives(Rotate(o, n, rotated))
            BY <2>2, <3>1, <3>3 DEF MemUpdateTokens, Rotate
          <5> QED BY <5>1, <5>2
        <4>3. mem'.creds = MapSet(mem.creds, g[o]) /\ mem' = [x \in Maps |-> mem'[x]]
              /\ \A x \in Tables : x # "creds" => mem'[x] = mem[x]
          BY <4>1, <4>2 DEF Shapes, Maps, Tables
        <4>4. sqlSaid' = memSaid'
          <5>1. {renew[e] : e \in {o}} = {renew[o]} /\ Returned({renew[o]}) = Ok(renew[o])
            BY DEF Returned
          <5> QED BY <1>8, <4>1, <4>2, <5>1 DEF Ok, Gives
        <4> QED BY <1>9, <3>1, <4>3, <4>4 DEF Shapes, CredsInv, CredEntries, Kept
      <3> QED BY <3>2, <3>3
    <2> QED BY <2>1, <2>2
  <1>13. VaultsInv' /\ Kept(Tables \ OfVaults)
    BY <1>12 DEF VaultTables, VaultsInv, VaultEntries, Kept, Tables, OfVaults
  <1> QED BY <1>10, <1>12, <1>13 DEF VaultTables

LEMMA DeleteCredentialAlike ==
    ASSUME Shapes, VaultTables, NEW c \in StoreCreds,
           SqlDeleteCredential(c), MemDeleteCredential(c)
    PROVE  Shapes' /\ VaultTables' /\ sqlSaid' = memSaid' /\ Kept(Tables \ OfVaults)
  <1>1. Table(db.creds, mem.creds, CredEntries)
    BY DEF VaultTables, CredsInv
  <1>2. /\ db'.creds = {r \in db.creds : r.of.id # c} /\ db'.vaults = db.vaults
        /\ mem'.creds = MapDelete(mem.creds, c) /\ mem'.vaults = mem.vaults
        /\ Shapes' /\ Kept(Tables \ OfVaults)
    BY DEF SqlDeleteCredential, MemDeleteCredential, Shapes, Kept, Tables, Maps, OfVaults
  <1>3. Table({r \in db.creds : r.of.id # c}, MapDelete(mem.creds, c), CredEntries)
    BY <1>1, Deletes
  <1>4. (\E r \in db.creds : r.of.id = c) = MapHas(mem.creds, c)
    <2>1. MapHas(mem.creds, c) <=> \E r \in db.creds : r.of.id = c
      BY <1>1, Looked
    <2> QED BY <2>1 DEF MapHas
  <1>5. sqlSaid' = memSaid'
    BY <1>4 DEF SqlDeleteCredential, MemDeleteCredential, Was, Had
  <1> QED BY <1>2, <1>3, <1>5 DEF VaultTables, VaultsInv, CredsInv, InVaults, VaultEntries,
                                  CredEntries

LEMMA OnVaultsAlike ==
    ASSUME calls \in Nat, Shapes, VaultTables, OnVaults
    PROVE  Shapes' /\ VaultTables' /\ sqlSaid' = memSaid' /\ Kept(Tables \ OfVaults)
  <1>1. CASE \E v \in StoreVaults, u \in StoreUsers :
                /\ ~\E r \in db.vaults : r.of.id = v
                /\ SqlCreateVault(v, u) /\ MemCreateVault(v, u)
    BY <1>1, CreateVaultAlike
  <1>2. CASE \E v \in StoreVaults : SqlDeleteVault(v) /\ MemDeleteVault(v)
    BY <1>2, DeleteVaultAlike
  <1>3. CASE \E c \in StoreCreds, v \in StoreVaults, type \in {"static_bearer", "mcp_oauth"} :
                /\ ~Found(SqlCredential(c))
                /\ SqlAddCredential(c, v, type) /\ MemAddCredential(c, v, type)
    BY <1>3, AddCredentialAlike
  <1>4. CASE \E c \in StoreCreds, rotated \in BOOLEAN :
                SqlUpdateTokens(c, calls + 1, rotated) /\ MemUpdateTokens(c, calls + 1, rotated)
    <2>1. PICK n \in Nat : n = calls + 1
      OBVIOUS
    <2>2. PICK c \in StoreCreds, rotated \in BOOLEAN :
             SqlUpdateTokens(c, n, rotated) /\ MemUpdateTokens(c, n, rotated)
      BY <1>4, <2>1
    <2> QED BY <2>2, UpdateTokensAlike
  <1>5. CASE \E c \in StoreCreds : SqlDeleteCredential(c) /\ MemDeleteCredential(c)
    BY <1>5, DeleteCredentialAlike
  <1> QED BY <1>1, <1>2, <1>3, <1>4, <1>5 DEF OnVaults

LEMMA VaultsKept == ASSUME VaultTables, Kept(OfVaults) PROVE VaultTables'
  <1>1. /\ db'.vaults = db.vaults /\ mem'.vaults = mem.vaults
        /\ db'.creds = db.creds /\ mem'.creds = mem.creds
    BY DEF Kept, OfVaults
  <1> QED BY <1>1 DEF VaultTables, VaultsInv, CredsInv, InVaults, VaultEntries, CredEntries

LEMMA VaultsSame == ASSUME VaultTables PROVE SameVaults
  <1>1. /\ Tallies(db.vaults, mem.vaults, VaultEntries)
        /\ Tallies(db.creds, mem.creds, CredEntries)
    BY DEF VaultTables, VaultsInv, CredsInv, Table
  <1>2. SqlVaults = MemVaults
    BY <1>1, TalliesGive DEF SqlVaults, MemVaults, Newest
  <1>3. ASSUME NEW u \in StoreUsers PROVE SqlVaultsOf(u) = MemVaultsOf(u)
    <2>1. PICK W : W = {v \in ToSet(mem.vaults) : v.owner = u}
      OBVIOUS
    <2>2. \A r \in db.vaults : r.of \in ToSet(mem.vaults)
      BY <1>1, TalliesGive DEF ToSet
    <2>3. Hit(db.vaults, LAMBDA e : e.owner = u) = RowsOf(db.vaults, W)
      BY <2>1, <2>2 DEF Hit, RowsOf
    <2>4. Descending(RowsOf(db.vaults, W)) = Reverse(Filter(mem.vaults, W))
      BY <1>1, FilterListed
    <2> QED BY <2>1, <2>3, <2>4 DEF SqlVaultsOf, MemVaultsOf, Newest
  <1>4. ASSUME NEW v \in StoreVaults PROVE SqlCreds(v) = MemCreds(v)
    <2>1. PICK W : W = {c \in ToSet(mem.creds) : c.vault = v}
      OBVIOUS
    <2>2. \A r \in db.creds : r.of \in ToSet(mem.creds)
      BY <1>1, TalliesGive DEF ToSet
    <2>3. Hit(db.creds, LAMBDA e : e.vault = v) = RowsOf(db.creds, W)
      BY <2>1, <2>2 DEF Hit, RowsOf
    <2>4. Ascending(RowsOf(db.creds, W)) = Filter(mem.creds, W)
      BY <1>1, FilterListed
    <2> QED BY <2>1, <2>3, <2>4 DEF SqlCreds, MemCreds
  <1>5. ASSUME NEW c \in StoreCreds PROVE SqlCredential(c) = MemCredential(c)
    BY CredentialLooked DEF VaultTables, MemCredential
  <1> QED BY <1>2, <1>3, <1>4, <1>5 DEF SameVaults

----------------------------------------------------------------------------
(* The table of users: no two of one GitHub account.                        *)
UserEntries == [id : StoreUsers, tier : {"anonymous", "github"}, github : {0, 1}, expires : {0, 2}]

UsersInv  == Table(db.users, mem.users, UserEntries)
OneGithub == \A q, r \in db.users : q.of.github = 1 /\ r.of.github = 1 => q = r

UserTables == UsersInv /\ OneGithub

OfUsers == {"users"}

LEMMA UserLooked ==
    ASSUME UsersInv, NEW u
    PROVE  SqlUser(u) = MapGet(mem.users, u) /\ (Found(SqlUser(u)) <=> MapHas(mem.users, u))
  <1>1. Entries(db.users, LAMBDA e : e.id = u) = ById(db.users, u)
    BY DEF Entries, Hit, ById
  <1>2. SqlUser(u) = Returned(ById(db.users, u))
    BY <1>1 DEF SqlUser
  <1> QED BY <1>2, FoundIs DEF UsersInv

(* The user of the account, or none.                                        *)
LEMMA GithubLooked ==
    ASSUME UserTables
    PROVE  /\ SqlByGithub(1) = MemByGithub(1)
           /\ \A r \in db.users : r.of.github = 1 => SqlByGithub(1) = Ok(r.of)
           /\ SqlByGithub(1) = Undefined => \A r \in db.users : r.of.github # 1
  <1>1. Tallies(db.users, mem.users, UserEntries)
    BY DEF UserTables, UsersInv, Table
  <1>2. PICK W : W = {u \in ToSet(mem.users) : u.github = 1}
    OBVIOUS
  <1>3. PICK F, R : F = Filter(mem.users, W) /\ R = RowsOf(db.users, W)
    OBVIOUS
  <1>4. \A r \in db.users : r \in R <=> r.of.github = 1
    <2>1. \A r \in db.users : r.of \in ToSet(mem.users)
      BY <1>1, TalliesGive DEF ToSet
    <2> QED BY <1>2, <1>3, <2>1 DEF RowsOf
  <1>5. R \in SUBSET db.users
    BY <1>3 DEF RowsOf
  <1>6. PICK E : E = Entries(db.users, LAMBDA e : e.github = 1)
    OBVIOUS
  <1>7. E = {r.of : r \in R} /\ SqlByGithub(1) = Returned(E)
    BY <1>4, <1>5, <1>6 DEF Entries, Hit, SqlByGithub
  <1>8. /\ F \in Seq(UserEntries)
        /\ \A r \in R : \E i \in DOMAIN F : F[i] = r.of
        /\ \A i \in DOMAIN F : \E r \in R : F[i] = r.of
    <2>1. Tallies(R, F, UserEntries)
      BY <1>1, <1>3, FilterListed
    <2> QED BY <2>1, TalliesGive
  <1>9. MemByGithub(1) = IF F = <<>> THEN NotThere ELSE Gives(F[1])
    BY <1>2, <1>3 DEF MemByGithub
  <1>10. CASE R = {}
    <2>1. E = {} /\ SqlByGithub(1) = Undefined
      BY <1>7, <1>10 DEF Returned
    <2>2. F = <<>>
      <3>1. PICK n \in Nat : n = Len(F) /\ DOMAIN F = 1 .. n
        BY <1>8
      <3>2. 1 \notin 1 .. n
        BY <1>8, <1>10, <3>1
      <3>3. n = 0
        BY <3>2
      <3> QED BY <1>8, <3>1, <3>3
    <2> QED BY <1>4, <1>9, <1>10, <2>1, <2>2 DEF Undefined, NotThere
  <1>11. CASE R # {}
    <2>1. PICK r \in R : TRUE
      BY <1>11
    <2>2. \A q \in R : q = r
      BY <1>4, <1>5 DEF UserTables, OneGithub
    <2>3. E = {r.of}
      BY <1>7, <2>1, <2>2
    <2>4. Returned({r.of}) = Ok(r.of)
      BY DEF Returned
    <2>5. F # <<>> /\ 1 \in DOMAIN F
      BY <1>8, <2>1
    <2>6. F[1] = r.of
      BY <1>8, <2>2, <2>5
    <2>7. SqlByGithub(1) = Ok(r.of) /\ MemByGithub(1) = Gives(r.of)
      BY <1>7, <1>9, <2>3, <2>4, <2>5, <2>6
    <2>8. SqlByGithub(1) # Undefined
      BY <2>7 DEF Ok, Undefined
    <2> QED BY <1>4, <2>2, <2>7, <2>8 DEF Ok, Gives
  <1> QED BY <1>10, <1>11

LEMMA UserMade ==
    ASSUME NEW u \in StoreUsers, NEW g \in {0, 1}
    PROVE  \E e \in UserEntries :
              /\ e = [id |-> u, tier |-> IF g = 0 THEN "anonymous" ELSE "github", github |-> g,
                      expires |-> IF g = 0 THEN 2 ELSE 0]
              /\ e.id = u /\ e.github = g
  <1>1. PICK e : e = [id |-> u, tier |-> IF g = 0 THEN "anonymous" ELSE "github", github |-> g,
                      expires |-> IF g = 0 THEN 2 ELSE 0]
    OBVIOUS
  <1>2. e \in UserEntries
    BY <1>1 DEF UserEntries
  <1>3. e.id = u /\ e.github = g
    BY <1>1
  <1> QED BY <1>1, <1>2, <1>3

LEMMA CreateUserAlike ==
    ASSUME Shapes, UserTables, NEW u \in StoreUsers, NEW g \in {0, 1}, ~Found(SqlUser(u)),
           g # 0 => ~Found(SqlByGithub(g)),
           SqlCreateUser(u, g, IF g = 0 THEN 2 ELSE 0), MemCreateUser(u, g, IF g = 0 THEN 2 ELSE 0)
    PROVE  Shapes' /\ UserTables' /\ sqlSaid' = memSaid' /\ Kept(Tables \ OfUsers)
  <1>1. Table(db.users, mem.users, UserEntries) /\ ~MapHas(mem.users, u)
    BY UserLooked DEF UserTables, UsersInv
  <1>2. g = 1 => \A r \in db.users : r.of.github # 1
    BY GithubLooked DEF Found
  <1>3. ~GithubTaken(g, u)
    BY <1>2 DEF GithubTaken
  <1>4. PICK e \in UserEntries :
           /\ e = [id |-> u, tier |-> IF g = 0 THEN "anonymous" ELSE "github", github |-> g,
                   expires |-> IF g = 0 THEN 2 ELSE 0]
           /\ e.id = u /\ e.github = g
    BY UserMade
  <1>5. db' = [db EXCEPT !.users = Add(@, e)] /\ sqlSaid' = Ok(e)
    BY <1>3, <1>4 DEF SqlCreateUser
  <1>6. mem' = [mem EXCEPT !.users = MapSet(@, e)] /\ memSaid' = Gives(e)
    BY <1>4 DEF MemCreateUser
  <1>7. /\ db'.users = Add(db.users, e) /\ mem'.users = MapSet(mem.users, e)
        /\ Shapes' /\ Kept(Tables \ OfUsers)
    BY <1>5, <1>6 DEF Shapes, Kept, Tables, Maps, OfUsers
  <1>8. Table(Add(db.users, e), MapSet(mem.users, e), UserEntries)
    BY <1>1, <1>4, Inserts
  <1>9. OneGithub'
    <2>1. PICK at : db'.users = db.users \cup {[at |-> at, of |-> e]}
      BY <1>7 DEF Add
    <2>2. \A q \in db'.users : q \in db.users \/ q = [at |-> at, of |-> e]
      BY <2>1
    <2>3. [at |-> at, of |-> e].of.github = g
      BY <1>4
    <2>4. SUFFICES ASSUME NEW q \in db'.users, NEW r \in db'.users,
                          q.of.github = 1, r.of.github = 1 PROVE q = r
      BY DEF OneGithub
    <2> QED BY <1>2, <2>2, <2>3, <2>4 DEF UserTables, OneGithub
  <1> QED BY <1>5, <1>6, <1>7, <1>8, <1>9 DEF UserTables, UsersInv, UserEntries, Ok, Gives

LEMMA UpdateGithubAlike ==
    ASSUME Shapes, UserTables, NEW u \in StoreUsers, SqlByGithub(1) \in {Undefined, SqlUser(u)},
           SqlUpdateGithub(u, 1), MemUpdateGithub(u, 1)
    PROVE  Shapes' /\ UserTables' /\ sqlSaid' = memSaid' /\ Kept(Tables \ OfUsers)
  <1>1. Table(db.users, mem.users, UserEntries)
    BY DEF UserTables, UsersInv
  <1>2. db.users \in SUBSET [at : Nat, of : UserEntries]
    BY <1>1, TalliesGive DEF Table
  <1>3. \A r \in db.users : r.of.github = 1 => r.of.id = u
    <2> SUFFICES ASSUME NEW r \in db.users, r.of.github = 1 PROVE r.of.id = u
      OBVIOUS
    <2>1. SqlByGithub(1) = Ok(r.of) /\ Ok(r.of) # Undefined
      BY GithubLooked DEF Ok, Undefined
    <2>2. MapGet(mem.users, u) = Ok(r.of)
      BY <2>1, UserLooked DEF UserTables
    <2>3. MapHas(mem.users, u)
      BY <2>2 DEF MapGet, NotThere, Ok
    <2>4. PICK e \in UserEntries : e.id = u /\ MapGet(mem.users, u) = Gives(e)
      BY <1>1, <2>3, OneFound
    <2>5. e = r.of
      BY <2>2, <2>4 DEF Ok, Gives
    <2> QED BY <2>4, <2>5
  <1>4. ~GithubTaken(1, u)
    BY <1>3 DEF GithubTaken
  <1>5. \A e \in UserEntries :
           [e EXCEPT !.tier = "github", !.github = 1, !.expires = 0] \in UserEntries
    BY DEF UserEntries
  <1>6. PICK g \in [UserEntries -> UserEntries] :
           g = [e \in UserEntries |->
                  IF e.id = u THEN [e EXCEPT !.tier = "github", !.github = 1, !.expires = 0] ELSE e]
    BY <1>5
  <1>7. \A e \in UserEntries : g[e].id = e.id
    BY <1>6 DEF UserEntries
  <1>8. \A e \in UserEntries : e.id # u => g[e] = e
    BY <1>6
  <1>9. /\ db' = [db EXCEPT !.users = Renewed(db.users, g)]
        /\ sqlSaid' = Returned({g[e] : e \in ById(db.users, u)})
    <2>1. /\ db' = [db EXCEPT !.users =
                     {[r EXCEPT !.of =
                         IF r.of.id = u
                         THEN [r.of EXCEPT !.tier = "github", !.github = 1, !.expires = 0]
                         ELSE r.of] : r \in db.users}]
          /\ sqlSaid' = Returned({[e EXCEPT !.tier = "github", !.github = 1, !.expires = 0]
                                     : e \in ById(db.users, u)})
      BY <1>4 DEF SqlUpdateGithub, Changed, Entries, Hit, ById
    <2>2. {[r EXCEPT !.of = IF r.of.id = u
                            THEN [r.of EXCEPT !.tier = "github", !.github = 1, !.expires = 0]
                            ELSE r.of] : r \in db.users}
          = Renewed(db.users, g)
      <3>1. \A r \in db.users :
               (IF r.of.id = u THEN [r.of EXCEPT !.tier = "github", !.github = 1, !.expires = 0]
                ELSE r.of) = g[r.of]
        BY <1>2, <1>6
      <3> QED BY <3>1 DEF Renewed
    <2>3. {[e EXCEPT !.tier = "github", !.github = 1, !.expires = 0] : e \in ById(db.users, u)}
          = {g[e] : e \in ById(db.users, u)}
      <3>1. \A e \in ById(db.users, u) :
               [e EXCEPT !.tier = "github", !.github = 1, !.expires = 0] = g[e]
        BY <1>2, <1>6 DEF ById
      <3>2. ASSUME NEW e \in ById(db.users, u)
            PROVE  [e EXCEPT !.tier = "github", !.github = 1, !.expires = 0]
                       \in {g[d] : d \in ById(db.users, u)}
        BY <3>1, Zenon
      <3>3. ASSUME NEW e \in ById(db.users, u)
            PROVE  g[e] \in {[d EXCEPT !.tier = "github", !.github = 1, !.expires = 0] :
                                 d \in ById(db.users, u)}
        BY <3>1, Zenon
      <3> QED BY <3>2, <3>3, Zenon
    <2> QED BY <2>1, <2>2, <2>3
  <1>10. /\ db'.users = Renewed(db.users, g) /\ db' = [x \in Tables |-> db'[x]]
         /\ \A x \in Tables : x # "users" => db'[x] = db[x]
    BY <1>9 DEF Shapes, Tables
  <1>11. OneGithub'
    <2>1. \A r \in db.users : g[r.of].github = 1 => r.of.id = u
      BY <1>2, <1>3, <1>8
    <2>2. \A q, r \in db.users : q.of.id = u /\ r.of.id = u => q = r
      BY <1>1 DEF Table, Keyed
    <2>3. \A r \in db.users : [r EXCEPT !.of = g[r.of]].of = g[r.of]
      BY <1>2
    <2>4. SUFFICES ASSUME NEW q \in db'.users, NEW r \in db'.users,
                          q.of.github = 1, r.of.github = 1 PROVE q = r
      BY DEF OneGithub
    <2>5. PICK p, s \in db.users :
             q = [p EXCEPT !.of = g[p.of]] /\ r = [s EXCEPT !.of = g[s.of]]
      BY <1>10 DEF Renewed
    <2>6. g[p.of].github = 1 /\ g[s.of].github = 1
      BY <2>3, <2>4, <2>5
    <2>7. p = s
      BY <2>1, <2>2, <2>6
    <2> QED BY <2>5, <2>7
  <1>12. CASE ~MapHas(mem.users, u)
    <2>1. mem' = mem /\ memSaid' = NotThere
      BY <1>12 DEF MemUpdateGithub
    <2>2. ById(db.users, u) = {} /\ db'.users = db.users
      BY <1>1, <1>7, <1>8, <1>10, <1>12, Altered
    <2>3. sqlSaid' = Undefined
      BY <1>9, <2>2 DEF Returned
    <2> QED BY <1>1, <1>10, <1>11, <2>1, <2>2, <2>3
            DEF UserTables, UsersInv, UserEntries, Shapes, Kept, OfUsers, Undefined, NotThere
  <1>13. CASE MapHas(mem.users, u)
    <2>1. PICK e \in UserEntries :
             /\ e.id = u /\ MapGet(mem.users, u)[2] = e /\ ById(db.users, u) = {e}
             /\ Table(Renewed(db.users, g), MapSet(mem.users, g[e]), UserEntries)
      BY <1>1, <1>7, <1>8, <1>13, Altered
    <2>2. g[e] = [e EXCEPT !.tier = "github", !.github = 1, !.expires = 0]
      BY <1>6, <2>1
    <2>3. mem' = [mem EXCEPT !.users = MapSet(@, g[e])] /\ memSaid' = Gives(g[e])
      BY <1>13, <2>1, <2>2 DEF MemUpdateGithub
    <2>4. /\ mem'.users = MapSet(mem.users, g[e]) /\ mem' = [x \in Maps |-> mem'[x]]
          /\ \A x \in Tables : x # "users" => mem'[x] = mem[x]
      BY <2>3 DEF Shapes, Maps, Tables
    <2>5. sqlSaid' = memSaid'
      <3>1. {g[d] : d \in {e}} = {g[e]} /\ Returned({g[e]}) = Ok(g[e])
        BY DEF Returned
      <3> QED BY <1>9, <2>1, <2>3, <3>1 DEF Ok, Gives
    <2> QED BY <1>10, <1>11, <2>1, <2>4, <2>5 DEF UserTables, UsersInv, UserEntries, Shapes,
                                                 Kept, OfUsers
  <1> QED BY <1>12, <1>13

LEMMA DeleteExpiredAlike ==
    ASSUME Shapes, UserTables, NEW t \in Nat, SqlDeleteExpired(t), MemDeleteExpired(t)
    PROVE  Shapes' /\ UserTables' /\ sqlSaid' = memSaid' /\ Kept(Tables \ OfUsers)
  <1>1. Table(db.users, mem.users, UserEntries) /\ Tallies(db.users, mem.users, UserEntries)
    BY DEF UserTables, UsersInv, Table
  <1>2. \A r \in db.users : r.of \in ToSet(mem.users)
    BY <1>1, TalliesGive DEF ToSet
  <1>3. PICK over : over = {u \in ToSet(mem.users) : /\ u.tier = "anonymous"
                                                    /\ u.expires # 0 /\ u.expires < t}
    OBVIOUS
  <1>4. PICK W : W = ToSet(mem.users) \ over
    OBVIOUS
  <1>5. PICK hit : hit = Hit(db.users, LAMBDA e : /\ e.tier = "anonymous"
                                                 /\ e.expires # 0 /\ e.expires < t)
    OBVIOUS
  <1>6. hit = RowsOf(db.users, over) /\ db.users \ hit = RowsOf(db.users, W)
    BY <1>2, <1>3, <1>4, <1>5 DEF Hit, RowsOf
  <1>7. db' = [db EXCEPT !.users = @ \ hit] /\ sqlSaid' = Count(Cardinality(hit))
    BY <1>5 DEF SqlDeleteExpired
  <1>8. mem' = [mem EXCEPT !.users = Filter(@, W)] /\ memSaid' = Number(Len(Filter(mem.users, over)))
    BY <1>3, <1>4 DEF MemDeleteExpired
  <1>9. /\ db'.users = RowsOf(db.users, W) /\ mem'.users = Filter(mem.users, W)
        /\ Shapes' /\ Kept(Tables \ OfUsers)
    BY <1>6, <1>7, <1>8 DEF Shapes, Kept, Tables, Maps, OfUsers
  <1>10. Table(RowsOf(db.users, W), Filter(mem.users, W), UserEntries)
    BY <1>1, Leaves DEF RowsOf
  <1>11. OneGithub'
    BY <1>9 DEF UserTables, OneGithub, RowsOf
  <1>12. Cardinality(RowsOf(db.users, over)) = Len(Filter(mem.users, over))
    BY <1>1, AsMany
  <1>13. sqlSaid' = memSaid'
    BY <1>6, <1>7, <1>8, <1>12 DEF Count, Number
  <1> QED BY <1>9, <1>10, <1>11, <1>13 DEF UserTables, UsersInv, UserEntries

LEMMA OnUsersAlike ==
    ASSUME Shapes, UserTables, OnUsers
    PROVE  Shapes' /\ UserTables' /\ sqlSaid' = memSaid' /\ Kept(Tables \ OfUsers)
  <1>1. PICK u \in StoreUsers :
           \/ \E g \in {0, 1} :
                 /\ ~Found(SqlUser(u))
                 /\ g # 0 => ~Found(SqlByGithub(g))
                 /\ SqlCreateUser(u, g, IF g = 0 THEN 2 ELSE 0)
                 /\ MemCreateUser(u, g, IF g = 0 THEN 2 ELSE 0)
           \/ /\ SqlByGithub(1) \in {Undefined, SqlUser(u)}
              /\ SqlUpdateGithub(u, 1) /\ MemUpdateGithub(u, 1)
           \/ \E t \in 2 .. 3 : SqlDeleteExpired(t) /\ MemDeleteExpired(t)
    BY DEF OnUsers
  <1>2. CASE \E g \in {0, 1} :
                /\ ~Found(SqlUser(u))
                /\ g # 0 => ~Found(SqlByGithub(g))
                /\ SqlCreateUser(u, g, IF g = 0 THEN 2 ELSE 0)
                /\ MemCreateUser(u, g, IF g = 0 THEN 2 ELSE 0)
    BY <1>2, CreateUserAlike
  <1>3. CASE /\ SqlByGithub(1) \in {Undefined, SqlUser(u)}
             /\ SqlUpdateGithub(u, 1) /\ MemUpdateGithub(u, 1)
    BY <1>3, UpdateGithubAlike
  <1>4. CASE \E t \in 2 .. 3 : SqlDeleteExpired(t) /\ MemDeleteExpired(t)
    <2>1. PICK t \in Nat : SqlDeleteExpired(t) /\ MemDeleteExpired(t)
      BY <1>4
    <2> QED BY <2>1, DeleteExpiredAlike
  <1> QED BY <1>1, <1>2, <1>3, <1>4

LEMMA UsersKept == ASSUME UserTables, Kept(OfUsers) PROVE UserTables'
  <1>1. db'.users = db.users /\ mem'.users = mem.users
    BY DEF Kept, OfUsers
  <1> QED BY <1>1 DEF UserTables, UsersInv, OneGithub, UserEntries

LEMMA UsersSame == ASSUME UserTables PROVE SameUsers
  BY UserLooked, GithubLooked DEF UserTables, SameUsers, MemUser

----------------------------------------------------------------------------
(* The audit log.                                                           *)
AuditEntries == [ts : Nat, action : {"create", "delete"}]

AuditTables == Tallies(db.audit, mem.audit, AuditEntries)

OfAudit == {"audit"}

LEMMA RecordAlike ==
    ASSUME Shapes, AuditTables, NEW ts \in Nat, NEW action \in {"create", "delete"},
           SqlRecord(ts, action), MemRecord(ts, action)
    PROVE  Shapes' /\ AuditTables' /\ sqlSaid' = memSaid' /\ Kept(Tables \ OfAudit)
  <1>1. PICK e \in AuditEntries : e = [ts |-> ts, action |-> action]
    BY DEF AuditEntries
  <1>2. db' = [db EXCEPT !.audit = Add(@, e)] /\ sqlSaid' = Done
    BY <1>1 DEF SqlRecord
  <1>3. mem' = [mem EXCEPT !.audit = Append(@, e)] /\ memSaid' = Nothing
    BY <1>1 DEF MemRecord
  <1>4. /\ db'.audit = Add(db.audit, e) /\ mem'.audit = Append(mem.audit, e)
        /\ Shapes' /\ Kept(Tables \ OfAudit)
    BY <1>2, <1>3 DEF Shapes, Kept, Tables, Maps, OfAudit
  <1>5. Tallies(Add(db.audit, e), Append(mem.audit, e), AuditEntries)
    BY AddTallies DEF AuditTables
  <1> QED BY <1>2, <1>3, <1>4, <1>5 DEF AuditTables, AuditEntries, Done, Nothing

LEMMA DeleteOlderAlike ==
    ASSUME Shapes, AuditTables, NEW ts \in Nat, SqlDeleteOlder(ts), MemDeleteOlder(ts)
    PROVE  Shapes' /\ AuditTables' /\ sqlSaid' = memSaid' /\ Kept(Tables \ OfAudit)
  <1>1. Tallies(db.audit, mem.audit, AuditEntries)
    BY DEF AuditTables
  <1>2. \A r \in db.audit : r.of \in ToSet(mem.audit)
    BY <1>1, TalliesGive DEF ToSet
  <1>3. PICK old : old = {e \in ToSet(mem.audit) : e.ts < ts}
    OBVIOUS
  <1>4. PICK W : W = ToSet(mem.audit) \ old
    OBVIOUS
  <1>5. PICK hit : hit = Hit(db.audit, LAMBDA e : e.ts < ts)
    OBVIOUS
  <1>6. hit = RowsOf(db.audit, old) /\ db.audit \ hit = RowsOf(db.audit, W)
    BY <1>2, <1>3, <1>4, <1>5 DEF Hit, RowsOf
  <1>7. db' = [db EXCEPT !.audit = @ \ hit] /\ sqlSaid' = Count(Cardinality(hit))
    BY <1>5 DEF SqlDeleteOlder
  <1>8. mem' = [mem EXCEPT !.audit = Filter(@, W)] /\ memSaid' = Number(Len(Filter(mem.audit, old)))
    BY <1>3, <1>4 DEF MemDeleteOlder
  <1>9. /\ db'.audit = RowsOf(db.audit, W) /\ mem'.audit = Filter(mem.audit, W)
        /\ Shapes' /\ Kept(Tables \ OfAudit)
    BY <1>6, <1>7, <1>8 DEF Shapes, Kept, Tables, Maps, OfAudit
  <1>10. Tallies(RowsOf(db.audit, W), Filter(mem.audit, W), AuditEntries)
    BY <1>1, FilterListed
  <1>11. Cardinality(RowsOf(db.audit, old)) = Len(Filter(mem.audit, old))
    BY <1>1, AsMany
  <1>12. sqlSaid' = memSaid'
    BY <1>6, <1>7, <1>8, <1>11 DEF Count, Number
  <1> QED BY <1>9, <1>10, <1>12 DEF AuditTables, AuditEntries

LEMMA OnAuditAlike ==
    ASSUME Shapes, AuditTables, OnAudit
    PROVE  Shapes' /\ AuditTables' /\ sqlSaid' = memSaid' /\ Kept(Tables \ OfAudit)
  <1>1. CASE \E ts \in 1 .. 2, action \in {"create", "delete"} :
                SqlRecord(ts, action) /\ MemRecord(ts, action)
    <2>1. PICK ts \in Nat, action \in {"create", "delete"} :
             SqlRecord(ts, action) /\ MemRecord(ts, action)
      BY <1>1
    <2> QED BY <2>1, RecordAlike
  <1>2. CASE \E ts \in 1 .. 3 : SqlDeleteOlder(ts) /\ MemDeleteOlder(ts)
    <2>1. PICK ts \in Nat : SqlDeleteOlder(ts) /\ MemDeleteOlder(ts)
      BY <1>2
    <2> QED BY <2>1, DeleteOlderAlike
  <1> QED BY <1>1, <1>2 DEF OnAudit

LEMMA AuditKept == ASSUME AuditTables, Kept(OfAudit) PROVE AuditTables'
  <1>1. db'.audit = db.audit /\ mem'.audit = mem.audit
    BY DEF Kept, OfAudit
  <1> QED BY <1>1 DEF AuditTables, AuditEntries

(* An order in which of two one is before the other puts exactly one at     *)
(* each place: the numbers of those up to each of 1 .. n are 1 .. n.        *)
Linear(n, upto) ==
    /\ \A i \in 1 .. n : <<i, i>> \in upto
    /\ \A i, j \in 1 .. n : <<i, j>> \in upto \/ <<j, i>> \in upto
    /\ \A i, j \in 1 .. n : <<i, j>> \in upto /\ <<j, i>> \in upto => i = j
    /\ \A i, j, k \in 1 .. n : <<i, j>> \in upto /\ <<j, k>> \in upto => <<i, k>> \in upto

LEMMA EachPlace ==
    ASSUME NEW n \in Nat, NEW upto, Linear(n, upto)
    PROVE  \E c \in Bijection(1 .. n, 1 .. n) :
              \A i \in 1 .. n : c[i] = Cardinality({j \in 1 .. n : <<j, i>> \in upto})
  <1> USE DEF Linear
  <1> DEFINE B(i) == {j \in 1 .. n : <<j, i>> \in upto}
  <1>1. IsFiniteSet(1 .. n) /\ Cardinality(1 .. n) = n
    <2>1. 1 \in Int /\ n \in Int /\ ((1 > n) => n = 0) /\ n - 1 + 1 = n
      OBVIOUS
    <2> QED BY <2>1, FS_Interval
  <1>2. ASSUME NEW i \in 1 .. n PROVE IsFiniteSet(B(i)) /\ Cardinality(B(i)) \in 1 .. n
    <2>1. PICK T : T = B(i) /\ i \in T /\ T \in SUBSET (1 .. n)
      <3>1. i \in B(i) /\ B(i) \in SUBSET (1 .. n)
        OBVIOUS
      <3> QED BY <3>1
    <2>2. IsFiniteSet(T) /\ Cardinality(T) <= n
      <3>1. PICK D : D = 1 .. n /\ IsFiniteSet(D) /\ Cardinality(D) = n /\ T \in SUBSET D
        BY <1>1, <2>1
      <3>2. IsFiniteSet(T) /\ Cardinality(T) <= Cardinality(D)
        BY <3>1, FS_Subset
      <3> QED BY <3>1, <3>2
    <2>3. Cardinality(T) \in Nat
      BY <2>2, FS_CardinalityType
    <2>4. Cardinality(T) # 0
      BY <2>1, <2>2, FS_EmptySet
    <2> QED BY <2>1, <2>2, <2>3, <2>4
  <1>3. ASSUME NEW i \in 1 .. n, NEW j \in 1 .. n, Cardinality(B(i)) = Cardinality(B(j)),
               <<i, j>> \in upto
        PROVE  i = j
    <2>1. PICK S, T : S = B(i) /\ T = B(j)
      OBVIOUS
    <2>2. S \in SUBSET T
      BY <1>3, <2>1
    <2>3. IsFiniteSet(T) /\ Cardinality(S) = Cardinality(T)
      BY <1>2, <1>3, <2>1
    <2>4. S = T
      BY <2>2, <2>3, FS_Subset
    <2>5. j \in B(i)
      BY <2>1, <2>4
    <2> QED BY <1>3, <2>5
  <1>4. PICK c : c = [i \in 1 .. n |-> Cardinality(B(i))]
    OBVIOUS
  <1>5. c \in [1 .. n -> 1 .. n] /\ \A i \in 1 .. n : c[i] = Cardinality(B(i))
    BY <1>2, <1>4
  <1>6. \A i, j \in 1 .. n : c[i] = c[j] => i = j
    BY <1>3, <1>5
  <1>7. c \in Injection(1 .. n, 1 .. n)
    BY <1>5, <1>6 DEF Injection, IsInjective
  <1>8. c \in Surjection(1 .. n, 1 .. n)
    BY <1>1, <1>7, FS_Injection
  <1>9. c \in Bijection(1 .. n, 1 .. n)
    BY <1>7, <1>8 DEF Bijection
  <1> QED BY <1>5, <1>9

(* The newest first: rows by their time and place, entries by their time    *)
(* and index.                                                               *)
NewestRows(rows) == Sorted(rows, LAMBDA q, r : \/ q.of.ts > r.of.ts
                                               \/ (q.of.ts = r.of.ts /\ q.at >= r.at))
UpTo(M, i) == {j \in DOMAIN M : M[j].ts > M[i].ts \/ (M[j].ts = M[i].ts /\ j >= i)}
NewestOf(M) ==
    [k \in DOMAIN M |-> M[CHOOSE i \in DOMAIN M : Cardinality(UpTo(M, i)) = k]]

LEMMA NewestAlike ==
    ASSUME NEW rows, NEW M, Tallies(rows, M, AuditEntries)
    PROVE  NewestRows(rows) = NewestOf(M)
  <1>1. PICK s : Through(s, rows, AuditEntries) /\ M = OfAll(s)
    BY DEF Tallies
  <1>2. PICK n \in Nat : n = Len(s)
    BY <1>1 DEF Through
  <1>3. /\ \A i \in 1 .. n : s[i] \in rows
        /\ \A r \in rows : \E i \in 1 .. n : s[i] = r
        /\ \A i, j \in 1 .. n : i < j => s[i].at < s[j].at
        /\ \A r \in rows : r.at \in Nat /\ r.of.ts \in Nat
    BY <1>1, <1>2 DEF Through, AuditEntries
  <1>4. DOMAIN M = 1 .. n /\ \A i \in 1 .. n : M[i] = s[i].of
    BY <1>1, <1>2 DEF OfAll
  <1>5. Cardinality(rows) = n
    BY <1>1, <1>2, Listed
  <1>6. \A i, j \in 1 .. n : s[j].at >= s[i].at <=> j >= i
    <2> SUFFICES ASSUME NEW i \in 1 .. n, NEW j \in 1 .. n PROVE s[j].at >= s[i].at <=> j >= i
      OBVIOUS
    <2>1. s[i].at \in Nat /\ s[j].at \in Nat
      BY <1>3
    <2>2. i < j \/ i = j \/ j < i
      OBVIOUS
    <2> QED BY <1>3, <2>1, <2>2
  <1>7. \A i, j \in 1 .. n : s[i] = s[j] => i = j
    <2> SUFFICES ASSUME NEW i \in 1 .. n, NEW j \in 1 .. n, s[i] = s[j] PROVE i = j
      OBVIOUS
    <2>1. s[i].at \in Nat /\ s[i].at >= s[j].at /\ s[j].at >= s[i].at
      BY <1>3
    <2>2. i >= j /\ j >= i
      BY <1>6, <2>1
    <2> QED BY <2>2
  <1>8. PICK t : t = [i \in 1 .. n |-> s[i].of.ts]
    OBVIOUS
  <1>9. \A i \in 1 .. n : t[i] \in Nat /\ M[i].ts = t[i]
    BY <1>3, <1>4, <1>8
  <1>10. PICK upto : upto = {p \in (1 .. n) \X (1 .. n) :
                                t[p[1]] > t[p[2]] \/ (t[p[1]] = t[p[2]] /\ p[1] >= p[2])}
    OBVIOUS
  <1>11. \A i, j \in 1 .. n : <<j, i>> \in upto <=> t[j] > t[i] \/ (t[j] = t[i] /\ j >= i)
    BY <1>10
  <1>12. PICK c \in Bijection(1 .. n, 1 .. n) :
            \A i \in 1 .. n : c[i] = Cardinality({j \in 1 .. n : <<j, i>> \in upto})
    <2>1. \A i \in 1 .. n : <<i, i>> \in upto
      BY <1>11
    <2>2. \A i, j \in 1 .. n : <<i, j>> \in upto \/ <<j, i>> \in upto
      <3> SUFFICES ASSUME NEW i \in 1 .. n, NEW j \in 1 .. n
                   PROVE  <<i, j>> \in upto \/ <<j, i>> \in upto
        OBVIOUS
      <3>1. t[i] \in Nat /\ t[j] \in Nat
        BY <1>9
      <3>2. t[i] > t[j] \/ t[j] > t[i] \/ (t[i] = t[j] /\ (i >= j \/ j >= i))
        BY <3>1
      <3> QED BY <1>11, <3>2
    <2>3. \A i, j \in 1 .. n : <<i, j>> \in upto /\ <<j, i>> \in upto => i = j
      BY <1>9, <1>11
    <2>4. \A i, j, k \in 1 .. n : <<i, j>> \in upto /\ <<j, k>> \in upto => <<i, k>> \in upto
      BY <1>9, <1>11
    <2>5. Linear(n, upto)
      BY <2>1, <2>2, <2>3, <2>4 DEF Linear
    <2> QED BY <2>5, EachPlace
  <1>13. \A i \in 1 .. n : Cardinality(UpTo(M, i)) = c[i]
    <2> SUFFICES ASSUME NEW i \in 1 .. n PROVE UpTo(M, i) = {j \in 1 .. n : <<j, i>> \in upto}
      BY <1>12
    <2> QED BY <1>4, <1>9, <1>11 DEF UpTo
  <1> DEFINE A(r) == {q \in rows : q.of.ts > r.of.ts \/ (q.of.ts = r.of.ts /\ q.at >= r.at)}
  <1>14. ASSUME NEW i \in 1 .. n PROVE Cardinality(A(s[i])) = c[i]
    <2>1. PICK B : B = {j \in 1 .. n : <<j, i>> \in upto}
      OBVIOUS
    <2>2. B \in SUBSET (1 .. n) /\ Cardinality(B) = c[i]
      BY <1>12, <2>1
    <2>3. IsFiniteSet(B)
      <3>1. 1 \in Int /\ n \in Int
        OBVIOUS
      <3> QED BY <2>2, <3>1, FS_Interval, FS_Subset
    <2>4. PICK f : f = [j \in B |-> s[j]]
      OBVIOUS
    <2>5. \A j \in 1 .. n : s[j] \in A(s[i]) <=> j \in B
      <3> SUFFICES ASSUME NEW j \in 1 .. n PROVE s[j] \in A(s[i]) <=> j \in B
        OBVIOUS
      <3>1. s[j].at >= s[i].at <=> j >= i
        BY <1>6
      <3>2. t[i] = s[i].of.ts /\ t[j] = s[j].of.ts /\ s[j] \in rows
        BY <1>3, <1>8
      <3>3. s[j] \in A(s[i]) <=> t[j] > t[i] \/ (t[j] = t[i] /\ s[j].at >= s[i].at)
        BY <3>2
      <3>4. j \in B <=> t[j] > t[i] \/ (t[j] = t[i] /\ j >= i)
        BY <1>11, <2>1
      <3> QED BY <3>1, <3>3, <3>4
    <2>6. \A r \in A(s[i]) : \E j \in B : s[j] = r
      BY <1>3, <2>5
    <2>7. f \in Bijection(B, A(s[i]))
      <3>1. PICK T : T = A(s[i])
        OBVIOUS
      <3>2. /\ \A j \in B : s[j] \in T
            /\ \A r \in T : \E j \in B : s[j] = r
            /\ \A j, k \in B : s[j] = s[k] => j = k
        BY <1>7, <2>2, <2>5, <2>6, <3>1
      <3>3. f \in Bijection(B, T)
        <4>1. f \in [B -> T] /\ \A j \in B : f[j] = s[j]
          BY <2>4, <3>2
        <4>2. \A j, k \in B : f[j] = f[k] => j = k
          BY <3>2, <4>1
        <4>3. \A r \in T : \E j \in B : f[j] = r
          BY <3>2, <4>1
        <4>4. f \in Injection(B, T)
          BY <4>1, <4>2 DEF Injection, IsInjective
        <4>5. f \in Surjection(B, T)
          BY <4>1, <4>3 DEF Surjection
        <4> QED BY <4>4, <4>5 DEF Bijection
      <3> QED BY <3>1, <3>3
    <2>8. ExistsBijection(B, A(s[i]))
      BY <2>7 DEF ExistsBijection
    <2> QED BY <2>2, <2>3, <2>8, FS_Bijection
  <1>15. ASSUME NEW k \in 1 .. n
         PROVE  (CHOOSE r \in rows : Cardinality(A(r)) = k).of
                = M[CHOOSE i \in DOMAIN M : Cardinality(UpTo(M, i)) = k]
    <2>1. PICK i \in 1 .. n : c[i] = k
      BY <1>12 DEF Bijection, Surjection
    <2>2. \A j \in 1 .. n : c[j] = k => j = i
      BY <1>12, <2>1 DEF Bijection, Injection, IsInjective
    <2>3. (CHOOSE j \in DOMAIN M : Cardinality(UpTo(M, j)) = k) = i
      <3>1. \A j \in DOMAIN M : Cardinality(UpTo(M, j)) = k <=> j = i
        BY <1>4, <1>13, <2>1, <2>2
      <3> QED BY <1>4, <3>1
    <2>4. (CHOOSE r \in rows : Cardinality(A(r)) = k) = s[i]
      <3>1. \A r \in rows : Cardinality(A(r)) = k <=> r = s[i]
        <4> SUFFICES ASSUME NEW r \in rows PROVE Cardinality(A(r)) = k <=> r = s[i]
          OBVIOUS
        <4>1. PICK j \in 1 .. n : s[j] = r
          BY <1>3
        <4>2. Cardinality(A(r)) = c[j]
          BY <1>14, <4>1
        <4> QED BY <1>7, <2>1, <2>2, <4>1, <4>2
      <3>2. s[i] \in rows
        BY <1>3
      <3> QED BY <3>1, <3>2
    <2> QED BY <1>4, <2>3, <2>4
  <1>16. NewestRows(rows) = [k \in 1 .. n |-> (CHOOSE r \in rows : Cardinality(A(r)) = k).of]
    BY <1>5 DEF NewestRows, Sorted
  <1>17. NewestOf(M) = [k \in 1 .. n |-> M[CHOOSE i \in DOMAIN M : Cardinality(UpTo(M, i)) = k]]
    BY <1>4 DEF NewestOf
  <1> HIDE DEF A
  <1> QED BY <1>15, <1>16, <1>17

LEMMA AuditSame == ASSUME AuditTables PROVE SameAudit
  <1> SUFFICES ASSUME NEW since \in Nat, NEW until \in Nat, NEW actions, NEW limit
               PROVE  SqlAudit(since, until, actions, limit) = MemAudit(since, until, actions, limit)
    BY DEF SameAudit
  <1>1. PICK W : W = {e \in ToSet(mem.audit) : /\ e.ts >= since /\ e.ts <= until
                                              /\ e.action \in actions}
    OBVIOUS
  <1>2. PICK R, M : R = RowsOf(db.audit, W) /\ M = Filter(mem.audit, W)
    OBVIOUS
  <1>3. \A r \in db.audit : r.of \in ToSet(mem.audit)
    BY TalliesGive DEF AuditTables, ToSet
  <1>4. Hit(db.audit, LAMBDA e : e.ts >= since /\ e.ts <= until /\ e.action \in actions) = R
    BY <1>1, <1>2, <1>3 DEF Hit, RowsOf
  <1>5. Tallies(R, M, AuditEntries)
    BY <1>2, FilterListed DEF AuditTables
  <1>6. NewestRows(R) = NewestOf(M)
    BY <1>5, NewestAlike
  <1>7. PICK N, Q : N = NewestRows(R) /\ Q = NewestOf(M)
    OBVIOUS
  <1>8. SqlAudit(since, until, actions, limit)
        = SubSeq(N, 1, IF limit < Len(N) THEN limit ELSE Len(N))
    BY <1>4, <1>7 DEF SqlAudit, NewestRows
  <1>9. MemAudit(since, until, actions, limit)
        = SubSeq(Q, 1, IF limit < Len(Q) THEN limit ELSE Len(Q))
    <2>1. M = Filter(mem.audit, {e \in ToSet(mem.audit) : /\ e.ts >= since /\ e.ts <= until
                                                          /\ e.action \in actions})
      BY <1>1, <1>2
    <2> QED BY <1>7, <2>1 DEF MemAudit, NewestOf, UpTo
  <1> QED BY <1>6, <1>7, <1>8, <1>9

----------------------------------------------------------------------------
(* The stores together: each group's tables stay as they are while another  *)
(* group is called.                                                         *)
StoInv == /\ Shapes /\ calls \in Nat /\ group \in Groups /\ SameAnswer
          /\ SessionTables /\ AgentTables /\ VaultTables /\ UserTables /\ AuditTables

LEMMA EmptyList == ASSUME NEW E PROVE \E t : t = <<>> /\ t \in Seq(E) /\ Len(t) = 0
  <1>1. <<>> \in Seq(E)
    OBVIOUS
  <1>2. Len(<<>>) = 0
    OBVIOUS
  <1> QED BY <1>1, <1>2

LEMMA StoresStart == ASSUME StoreInit PROVE StoInv
  <1>1. /\ \A x \in Tables : db[x] = {}
        /\ \A x \in Maps : mem[x] = <<>>
        /\ Shapes
    BY DEF StoreInit, SqlInit, MemInit, Shapes
  <1>2. /\ db.sessions = {} /\ db.queue = {} /\ db.boxes = {} /\ db.agents = {} /\ db.versions = {}
        /\ db.environments = {} /\ db.vaults = {} /\ db.creds = {} /\ db.users = {}
        /\ db.audit = {}
    BY <1>1 DEF Tables
  <1>3. /\ mem.sessions = <<>> /\ mem.queue = <<>> /\ mem.boxes = <<>> /\ mem.agents = <<>>
        /\ mem.versions = <<>> /\ mem.environments = <<>> /\ mem.vaults = <<>>
        /\ mem.creds = <<>> /\ mem.users = <<>> /\ mem.audit = <<>>
    BY <1>1 DEF Maps
  <1>4. \A k : ~MapHas(<<>>, k)
    BY DEF MapHas
  <1>5. SessionInv /\ AgentInv /\ EnvInv /\ VaultsInv /\ CredsInv /\ UsersInv
    BY <1>2, <1>3, EmptyTable DEF SessionInv, AgentInv, EnvInv, VaultsInv, CredsInv, UsersInv
  <1>6. BoxInv
    <2>1. Table({}, mem.boxes, BoxEntries)
      BY <1>3, EmptyTable
    <2>2. \A k : MapGet(mem.boxes, k) = NotThere
      BY <1>3, <1>4 DEF MapGet
    <2>3. {b \in BoxEntries : MapGet(mem.boxes, b.id) = Gives(b) /\ b.id \notin astray} = {}
      BY <2>2 DEF NotThere, Gives
    <2>4. astray = {}
      BY DEF StoreInit
    <2> QED BY <1>2, <2>1, <2>3, <2>4 DEF BoxInv
  <1>7. QueueInv
    <2>1. QueueLists
      BY <1>3, EmptyTable DEF QueueLists
    <2>2. ASSUME NEW s \in StoreSessions PROVE Waiting(s)
      <3>1. Events(s) = {} /\ EventsOf(s) = <<>>
        BY <1>2, <1>3, <1>4 DEF Events, Hit, EventsOf
      <3>2. Through(<<>>, {}, EventEntries)
        BY DEF Through
      <3>3. PICK t : t = <<>> /\ Through(t, {}, EventEntries) /\ Len(t) = 0
        BY <3>2
      <3>4. [i \in 1 .. Len(t) |-> t[i].of.event] = <<>>
        BY <3>3
      <3> QED BY <3>1, <3>3, <3>4 DEF Waiting
    <2> QED BY <1>2, <2>1, <2>2 DEF QueueInv
  <1>8. VersionInv
    <2>1. Histories
      BY <1>3, EmptyTable DEF Histories
    <2>2. ASSUME NEW a \in StoreAgents PROVE Recorded(a)
      <3>1. Written(a) = {} /\ History(a) = <<>> /\ ~MapHas(mem.agents, a)
        BY <1>2, <1>3, <1>4 DEF Written, Hit, History
      <3>2. PICK t : t = <<>> /\ t \in Seq(AgentEntries) /\ Len(t) = 0
        BY EmptyList
      <3>3. {[at |-> i, of |-> t[i]] : i \in 1 .. Len(t)} = {}
        BY <3>2
      <3> QED BY <3>1, <3>2, <3>3 DEF Recorded
    <2> QED BY <2>1, <2>2 DEF VersionInv
  <1>9. AuditTables
    BY <1>2, <1>3, EmptyTallies DEF AuditTables
  <1>10. SameAnswer /\ calls \in Nat /\ group \in Groups
    BY DEF StoreInit, SqlInit, MemInit, Done, Nothing, SameAnswer
  <1> QED BY <1>1, <1>2, <1>5, <1>6, <1>7, <1>8, <1>9, <1>10
          DEF StoInv, SessionTables, AgentTables, VaultTables, InVaults, UserTables, OneGithub

LEMMA StoresStep == ASSUME StoInv, StoreNext PROVE StoInv'
  <1>1. calls' \in Nat /\ group' \in Groups
    BY DEF StoInv, StoreNext
  <1>2. ASSUME NEW G, Kept(Tables \ G)
        PROVE  /\ G \cap OfSessions = {} /\ UNCHANGED astray => SessionTables'
               /\ G \cap OfAgents = {} => AgentTables'
               /\ G \cap OfVaults = {} => VaultTables'
               /\ G \cap OfUsers = {} => UserTables'
               /\ G \cap OfAudit = {} => AuditTables'
    <2>1. ASSUME NEW T \in SUBSET Tables, G \cap T = {} PROVE Kept(T)
      BY <1>2, <2>1 DEF Kept
    <2>2. /\ OfSessions \in SUBSET Tables /\ OfAgents \in SUBSET Tables
          /\ OfVaults \in SUBSET Tables /\ OfUsers \in SUBSET Tables /\ OfAudit \in SUBSET Tables
      BY DEF OfSessions, OfAgents, OfVaults, OfUsers, OfAudit, Tables
    <2>3. G \cap OfSessions = {} /\ UNCHANGED astray => SessionTables'
      BY <2>1, <2>2, SessionsKept DEF StoInv
    <2>4. G \cap OfAgents = {} => AgentTables'
      BY <2>1, <2>2, AgentsKept DEF StoInv
    <2>5. G \cap OfVaults = {} => VaultTables'
      BY <2>1, <2>2, VaultsKept DEF StoInv
    <2>6. G \cap OfUsers = {} => UserTables'
      BY <2>1, <2>2, UsersKept DEF StoInv
    <2>7. G \cap OfAudit = {} => AuditTables'
      BY <2>1, <2>2, AuditKept DEF StoInv
    <2> QED BY <2>3, <2>4, <2>5, <2>6, <2>7
  <1>3. /\ OfSessions \cap OfAgents = {} /\ OfSessions \cap OfVaults = {}
        /\ OfSessions \cap OfUsers = {} /\ OfSessions \cap OfAudit = {}
        /\ OfAgents \cap OfVaults = {} /\ OfAgents \cap OfUsers = {} /\ OfAgents \cap OfAudit = {}
        /\ OfVaults \cap OfUsers = {} /\ OfVaults \cap OfAudit = {} /\ OfUsers \cap OfAudit = {}
    BY DEF OfSessions, OfAgents, OfVaults, OfUsers, OfAudit
  <1>4. CASE group = "sessions" /\ OnSessions
    <2>1. /\ Shapes' /\ SessionTables' /\ Kept(Tables \ OfSessions)
          /\ \/ sqlSaid' = memSaid'
             \/ /\ sqlSaid' = Throws /\ memSaid' = Nothing
                /\ \E s \in astray' : ~Found(SqlSession(s))'
      BY <1>4, OnSessionsAlike DEF StoInv
    <2>2. SameAnswer'
      BY <1>4, <2>1 DEF StoreNext, SameAnswer
    <2> QED BY <1>1, <1>2, <1>3, <2>1, <2>2 DEF StoInv
  <1>5. CASE OnAgents /\ UNCHANGED astray
    <2>1. Shapes' /\ AgentTables' /\ sqlSaid' = memSaid' /\ Kept(Tables \ OfAgents)
      BY <1>5, OnAgentsAlike DEF StoInv
    <2> QED BY <1>1, <1>2, <1>3, <1>5, <2>1 DEF StoInv, SameAnswer
  <1>6. CASE OnVaults /\ UNCHANGED astray
    <2>1. Shapes' /\ VaultTables' /\ sqlSaid' = memSaid' /\ Kept(Tables \ OfVaults)
      BY <1>6, OnVaultsAlike DEF StoInv
    <2> QED BY <1>1, <1>2, <1>3, <1>6, <2>1 DEF StoInv, SameAnswer
  <1>7. CASE OnUsers /\ UNCHANGED astray
    <2>1. Shapes' /\ UserTables' /\ sqlSaid' = memSaid' /\ Kept(Tables \ OfUsers)
      BY <1>7, OnUsersAlike DEF StoInv
    <2> QED BY <1>1, <1>2, <1>3, <1>7, <2>1 DEF StoInv, SameAnswer
  <1>8. CASE OnAudit /\ UNCHANGED astray
    <2>1. Shapes' /\ AuditTables' /\ sqlSaid' = memSaid' /\ Kept(Tables \ OfAudit)
      BY <1>8, OnAuditAlike DEF StoInv
    <2> QED BY <1>1, <1>2, <1>3, <1>8, <2>1 DEF StoInv, SameAnswer
  <1> QED BY <1>4, <1>5, <1>6, <1>7, <1>8 DEF StoreNext

LEMMA StoresIdle == ASSUME StoInv, UNCHANGED storeVars PROVE StoInv'
  <1>1. Kept(OfSessions) /\ Kept(OfAgents) /\ Kept(OfVaults) /\ Kept(OfUsers) /\ Kept(OfAudit)
    BY DEF storeVars, Kept
  <1>2. SessionTables' /\ AgentTables' /\ VaultTables' /\ UserTables' /\ AuditTables'
    BY <1>1, SessionsKept, AgentsKept, VaultsKept, UsersKept, AuditKept DEF StoInv, storeVars
  <1>3. \A s : SqlSession(s)' = SqlSession(s)
    BY DEF storeVars, SqlSession, Entries, Hit
  <1>4. SameAnswer'
    BY <1>3 DEF StoInv, storeVars, SameAnswer, Found
  <1> QED BY <1>2, <1>4 DEF StoInv, storeVars, Shapes

LEMMA StoresSame == ASSUME StoInv PROVE StoresAgree
  BY SessionsSame, AgentsSame, VaultsSame, UsersSame, AuditSame DEF StoInv, StoresAgree

----------------------------------------------------------------------------
(* The catalog (AgentCatalog).                                              *)

USE CatalogAssumption

(* What the catalog needs to know: a row is one, at the version of its      *)
(* history's end; a PATCH names an agent there has been, one that has       *)
(* written a version that is gone; a delegated session has one level less   *)
(* than its parent, and a token says what its session is.                   *)
Fits(rows, past) ==
    /\ past \in Seq(Templates)
    /\ rows = {} \/ \E row \in AgentRows :
          rows = {row} /\ Len(past) = row.version /\ row.template = past[Len(past)]

RowsInv == \A a \in Agents : Fits(agent[a], history[a])

PatchesInv ==
    \A p \in Patches :
        /\ patch[p].stage \in {"new", "validating", "ok", "done"}
        /\ patch[p].stage \in {"validating", "ok"} =>
              \E a \in Agents :
                  /\ patch[p].agent = {a} /\ history[a] # <<>>
                  /\ patch[p].version \in Nat /\ patch[p].depth \in 0 .. MaxDepth
                  /\ patch[p].stage = "ok" => patch[p].version < Len(history[a])
        /\ patch[p].stage \in {"new", "done"} => patch[p].agent = {}

PatchesApart ==
    \A p, q \in Patches :
        p # q /\ patch[p].stage = "ok" /\ patch[q].stage = "ok"
        /\ patch[p].agent = patch[q].agent => patch[p].version # patch[q].version

LineInv ==
    \A i \in DOMAIN session :
        session[i].parent # 0 => session[i].depth + 1 = session[session[i].parent].depth

SessionRows == [agent : Agents, depth : 0 .. MaxDepth, parent : Nat, env : Envs \cup {NoEnv},
                live : BOOLEAN]

SessionsInv ==
    /\ session \in Seq(SessionRows) /\ Len(session) <= MaxSessions
    /\ \A i \in DOMAIN session : session[i].parent \in 0 .. i - 1
    /\ token \in Seq(SUBSET Tokens) /\ Len(token) = Len(session)
    /\ \A i \in DOMAIN session : \A t \in token[i] :
          t.depth = session[i].depth /\ t.parent = i

CatInv ==
    /\ agent \in [Agents -> SUBSET AgentRows] /\ history \in [Agents -> Seq(Templates)]
    /\ patch \in [Patches -> [stage : {"new", "validating", "ok", "done"}, agent : SUBSET Agents,
                              version : Nat, depth : 0 .. MaxDepth]]
    /\ envs \subseteq Envs
    /\ RowsInv /\ PatchesInv /\ PatchesApart
    /\ SessionsInv /\ LineInv /\ EnvKept

(* It holds of the empty catalog.                                           *)
LEMMA CatInit == CatalogInit => CatInv
  <1> SUFFICES ASSUME CatalogInit PROVE CatInv
    OBVIOUS
  <1> USE DEF CatalogInit
  <1>1. RowsInv /\ PatchesInv /\ PatchesApart
    BY DEF RowsInv, Fits, PatchesInv, PatchesApart, NoPatch
  <1>2. SessionsInv /\ LineInv /\ EnvKept
    BY DEF SessionsInv, LineInv, EnvKept
  <1>3. patch \in [Patches -> [stage : {"new", "validating", "ok", "done"}, agent : SUBSET Agents,
                              version : Nat, depth : 0 .. MaxDepth]]
    BY DEF NoPatch
  <1> QED BY <1>1, <1>2, <1>3 DEF CatInv

(* The row of an agent that is there.                                       *)
LEMMA RowIs ==
    ASSUME CatInv, NEW a \in Agents, Exists(a)
    PROVE  /\ RowOf(a) \in AgentRows /\ agent[a] = {RowOf(a)}
           /\ Len(history[a]) = RowOf(a).version
           /\ RowOf(a).template = history[a][Len(history[a])]
           /\ history[a] # <<>>
  <1>1. PICK row \in AgentRows : /\ agent[a] = {row} /\ Len(history[a]) = row.version
                                 /\ row.template = history[a][Len(history[a])]
    BY DEF CatInv, RowsInv, Fits, Exists
  <1>2. RowOf(a) = row
    BY <1>1 DEF RowOf
  <1>3. row.version >= 1
    BY DEF AgentRows
  <1> QED BY <1>1, <1>2, <1>3

SessionSide == SessionsInv /\ LineInv /\ EnvKept

(* Version 1, or the version after an archived row.                         *)
LEMMA CreateAgentStep == ASSUME CatInv, CreateAgent PROVE CatInv'
  <1>0. SessionSide' /\ envs' \subseteq Envs
    BY DEF CatInv, CreateAgent, SessionSide, SessionsInv, LineInv, EnvKept
  <1>1. PICK a \in Agents, allow \in SUBSET Agents, depth \in 0 .. MaxDepth :
            LET t == [allow |-> allow, depth |-> depth]
            IN  /\ ~Exists(a) /\ history[a] = <<>>
                /\ agent' = [agent EXCEPT ![a] =
                                {[template |-> t, version |-> 1, archived |-> FALSE]}]
                /\ history' = [history EXCEPT ![a] = <<t>>]
    BY DEF CreateAgent
  <1> DEFINE t == [allow |-> allow, depth |-> depth]
             row == [template |-> t, version |-> 1, archived |-> FALSE]
  <1>2. t \in Templates /\ row \in AgentRows
    BY DEF Templates, AgentRows
  <1>3. /\ row.version = 1 /\ row.template = t
    OBVIOUS
  <1> HIDE DEF t, row
  <1>4. /\ agent' = [agent EXCEPT ![a] = {row}] /\ history' = [history EXCEPT ![a] = <<t>>]
        /\ history[a] = <<>> /\ UNCHANGED patch
    BY <1>1 DEF t, row, CreateAgent
  <1>5. /\ agent' \in [Agents -> SUBSET AgentRows] /\ history' \in [Agents -> Seq(Templates)]
    BY <1>2, <1>4 DEF CatInv
  <1>6. RowsInv'
    <2>1. <<t>> \in Seq(Templates) /\ Len(<<t>>) = 1 /\ <<t>>[1] = t
      BY <1>2
    <2>2. Fits({row}, <<t>>)
      BY <1>2, <1>3, <2>1 DEF Fits
    <2> QED BY <1>4, <2>2 DEF CatInv, RowsInv
  <1>7. PatchesInv'
    BY <1>4, <1>2 DEF CatInv, PatchesInv
  <1>8. PatchesApart'
    BY <1>4 DEF CatInv, PatchesApart
  <1> QED BY <1>0, <1>4, <1>5, <1>6, <1>7, <1>8 DEF CatInv, SessionSide

(* Archiving is one version more.                                           *)
LEMMA ArchiveStep == ASSUME CatInv, ArchiveAgent PROVE CatInv'
  <1>0. SessionSide' /\ envs' \subseteq Envs /\ PatchesInv' /\ PatchesApart'
    BY DEF CatInv, ArchiveAgent, SessionSide, SessionsInv, LineInv, EnvKept, PatchesInv, PatchesApart
  <1>1. PICK a \in Agents : /\ Exists(a)
                            /\ agent' = [agent EXCEPT ![a] = {[RowOf(a) EXCEPT !.archived = TRUE]}]
    BY DEF ArchiveAgent
  <1> DEFINE row == [RowOf(a) EXCEPT !.archived = TRUE]
  <1>2. row \in AgentRows /\ row.version = RowOf(a).version /\ row.template = RowOf(a).template
    BY <1>1, RowIs DEF AgentRows
  <1> HIDE DEF row
  <1>3. agent' = [agent EXCEPT ![a] = {row}] /\ UNCHANGED <<history, patch>>
    BY <1>1 DEF row, ArchiveAgent
  <1>4. agent' \in [Agents -> SUBSET AgentRows]
    BY <1>2, <1>3 DEF CatInv
  <1>5. RowsInv'
    <2>1. Fits({row}, history[a])
      BY <1>1, <1>2, RowIs DEF CatInv, Fits
    <2> QED BY <1>3, <2>1 DEF CatInv, RowsInv
  <1> QED BY <1>0, <1>3, <1>4, <1>5 DEF CatInv, SessionSide

(* A deleted agent keeps its history.                                       *)
LEMMA DeleteAgentStep == ASSUME CatInv, DeleteAgent PROVE CatInv'
  <1>0. SessionSide' /\ envs' \subseteq Envs /\ PatchesInv' /\ PatchesApart'
    BY DEF CatInv, DeleteAgent, SessionSide, SessionsInv, LineInv, EnvKept, PatchesInv, PatchesApart
  <1>1. PICK a \in Agents : agent' = [agent EXCEPT ![a] = {}]
    BY DEF DeleteAgent
  <1>2. agent' \in [Agents -> SUBSET AgentRows] /\ UNCHANGED <<history, patch>>
    BY <1>1 DEF CatInv, DeleteAgent
  <1>3. RowsInv'
    BY <1>1, <1>2 DEF CatInv, RowsInv, Fits
  <1> QED BY <1>0, <1>2, <1>3 DEF CatInv, SessionSide

PatchShape == [stage : {"new", "validating", "ok", "done"}, agent : SUBSET Agents,
               version : Nat, depth : 0 .. MaxDepth]

(* A PATCH reads the version that it will say it expects.                   *)
LEMMA PatchAgentStep == ASSUME CatInv, NEW p \in Patches, PatchAgent(p) PROVE CatInv'
  <1>0. SessionSide' /\ envs' \subseteq Envs /\ RowsInv' /\ UNCHANGED <<agent, history>>
    BY DEF CatInv, PatchAgent, SessionSide, SessionsInv, LineInv, EnvKept, RowsInv
  <1>1. PICK a \in Agents, depth \in 0 .. MaxDepth :
          /\ Exists(a)
          /\ patch' = [patch EXCEPT
                ![p] = [stage |-> "validating", agent |-> {a},
                        version |-> RowOf(a).version, depth |-> depth]]
    BY DEF PatchAgent
  <1>2. RowOf(a).version \in Nat /\ history[a] # <<>>
    BY <1>1, RowIs DEF AgentRows
  <1>3. patch' \in [Patches -> PatchShape]
    BY <1>1, <1>2 DEF CatInv, PatchShape
  <1>4. PatchesInv'
    BY <1>0, <1>1, <1>2 DEF CatInv, PatchesInv
  <1>5. PatchesApart'
    BY <1>1 DEF CatInv, PatchesApart
  <1> QED BY <1>0, <1>3, <1>4, <1>5 DEF CatInv, SessionSide, PatchShape

(* A PATCH that writes nothing.                                             *)
LEMMA WritesNothing ==
    ASSUME CatInv, NEW p \in Patches, patch' = [patch EXCEPT ![p] = NothingWritten],
           UNCHANGED <<agent, history, envs, session, token>>
    PROVE  CatInv'
  <1>1. NothingWritten = [stage |-> "done", agent |-> {}, version |-> 1, depth |-> 0]
    BY DEF NothingWritten, NoPatch
  <1>2. patch' \in [Patches -> PatchShape]
    BY <1>1 DEF CatInv, PatchShape
  <1>3. PatchesInv'
    BY <1>1 DEF CatInv, PatchesInv
  <1>4. PatchesApart'
    BY <1>1 DEF CatInv, PatchesApart
  <1> QED BY <1>2, <1>3, <1>4 DEF CatInv, PatchShape, SessionsInv, LineInv, EnvKept, RowsInv

(* Of the PATCHes of one agent at one version, one writes.                  *)
LEMMA PatchValidatedStep == ASSUME CatInv, NEW p \in Patches, PatchValidated(p) PROVE CatInv'
  <1>1. PICK a \in Agents : patch[p].agent = {a} /\ patch[p].version \in Nat
                            /\ patch[p].depth \in 0 .. MaxDepth
    BY DEF CatInv, PatchesInv, PatchValidated
  <1>2. CASE patch' = [patch EXCEPT ![p] = NothingWritten] /\ UNCHANGED <<agent, history>>
    BY <1>2, WritesNothing DEF PatchValidated
  <1>3. CASE ~(patch' = [patch EXCEPT ![p] = NothingWritten] /\ UNCHANGED <<agent, history>>)
    <2> DEFINE t == [RowOf(a).template EXCEPT !.depth = patch[p].depth]
               row == [RowOf(a) EXCEPT !.template = t, !.version = @ + 1]
    <2>1. /\ Exists(a) /\ RowOf(a).version = patch[p].version
          /\ RowOf(a).version < MaxVersion \/ t = RowOf(a).template
          /\ t # RowOf(a).template
          /\ patch' = [patch EXCEPT ![p].stage = "ok"]
          /\ agent' = [agent EXCEPT ![a] = {row}]
          /\ history' = [history EXCEPT ![a] = Append(@, t)]
      BY <1>1, <1>3 DEF PatchValidated, Current
    <2>2. /\ t \in Templates /\ row \in AgentRows
          /\ row.version = RowOf(a).version + 1 /\ row.template = t
      <3>1. RowOf(a) \in AgentRows
        BY <2>1, RowIs
      <3>2. t \in Templates
        BY <1>1, <3>1 DEF Templates, AgentRows
      <3>3. RowOf(a).version + 1 \in 1 .. MaxVersion
        BY <2>1, <3>1 DEF AgentRows
      <3> HIDE DEF t
      <3> QED BY <3>1, <3>2, <3>3 DEF AgentRows
    <2> HIDE DEF t, row
    <2>3. agent' \in [Agents -> SUBSET AgentRows] /\ history' \in [Agents -> Seq(Templates)]
      BY <2>1, <2>2 DEF CatInv
    <2>4. history'[a] = Append(history[a], t) /\ Len(history'[a]) = row.version
          /\ history'[a][row.version] = t
      BY <2>1, <2>2, RowIs DEF CatInv
    <2>5. RowsInv'
      <3>1. Fits({row}, history'[a])
        BY <2>2, <2>3, <2>4 DEF Fits
      <3> QED BY <2>1, <3>1 DEF CatInv, RowsInv
    <2>6. patch' \in [Patches -> PatchShape]
      BY <2>1 DEF CatInv, PatchShape
    <2>7. \A b \in Agents : history[b] # <<>> =>
              history'[b] # <<>> /\ Len(history'[b]) \in Nat /\ Len(history'[b]) >= Len(history[b])
      BY <2>1, <2>2, <2>4, RowIs DEF CatInv, AgentRows
    <2>8. PatchesInv'
      <3> SUFFICES ASSUME NEW q \in Patches
                   PROVE  /\ patch'[q].stage \in {"new", "validating", "ok", "done"}
                          /\ patch'[q].stage \in {"validating", "ok"} =>
                                \E b \in Agents :
                                    /\ patch'[q].agent = {b} /\ history'[b] # <<>>
                                    /\ patch'[q].version \in Nat /\ patch'[q].depth \in 0 .. MaxDepth
                                    /\ patch'[q].stage = "ok" => patch'[q].version < Len(history'[b])
                          /\ patch'[q].stage \in {"new", "done"} => patch'[q].agent = {}
        BY DEF PatchesInv
      <3>1. CASE q = p
        <4>1. /\ patch'[q].stage = "ok" /\ patch'[q].agent = {a} /\ history'[a] # <<>>
              /\ patch'[q].version = patch[p].version /\ patch'[q].depth = patch[p].depth
              /\ Len(history'[a]) = patch[p].version + 1
          BY <1>1, <2>1, <2>2, <2>4, <2>7, <3>1, RowIs DEF CatInv
        <4> QED BY <4>1, <1>1
      <3>2. CASE q # p
        <4>1. patch'[q] = patch[q]
          BY <2>1, <3>2 DEF CatInv
        <4> QED BY <4>1, <2>7 DEF CatInv, PatchesInv
      <3> QED BY <3>1, <3>2
    <2>9. PatchesApart'
      <3>1. Len(history[a]) = patch[p].version
        BY <2>1, RowIs
      <3>2. ASSUME NEW q \in Patches, q # p, patch[q].stage = "ok", patch[q].agent = {a}
            PROVE  patch[q].version # patch[p].version
        <4>1. PICK b \in Agents : patch[q].agent = {b} /\ patch[q].version < Len(history[b])
                                  /\ patch[q].version \in Nat
          BY <3>2 DEF CatInv, PatchesInv
        <4>2. b = a
          BY <3>2, <4>1
        <4> QED BY <1>1, <3>1, <4>1, <4>2
      <3>3. \A q \in Patches : q # p => patch'[q] = patch[q]
        BY <2>1 DEF CatInv
      <3>4. patch'[p].agent = {a} /\ patch'[p].version = patch[p].version
        BY <1>1, <2>1 DEF CatInv
      <3> SUFFICES ASSUME NEW q \in Patches, NEW r \in Patches, q # r,
                          patch'[q].stage = "ok", patch'[r].stage = "ok",
                          patch'[q].agent = patch'[r].agent
                   PROVE  patch'[q].version # patch'[r].version
        BY DEF PatchesApart
      <3>5. CASE q # p /\ r # p
        BY <3>3, <3>5 DEF CatInv, PatchesApart
      <3>6. CASE q = p
        BY <3>2, <3>3, <3>4, <3>6
      <3>7. CASE r = p
        BY <3>2, <3>3, <3>4, <3>7
      <3> QED BY <3>5, <3>6, <3>7
    <2>10. UNCHANGED <<envs, session, token>>
      BY DEF PatchValidated
    <2>11. SessionsInv' /\ LineInv' /\ EnvKept'
      BY <2>10 DEF CatInv, SessionsInv, LineInv, EnvKept
    <2> QED BY <2>3, <2>5, <2>6, <2>8, <2>9, <2>10, <2>11 DEF CatInv, PatchShape
  <1> QED BY <1>2, <1>3

(* A PATCH that is refused writes nothing.                                  *)
LEMMA PatchRefusedStep == ASSUME CatInv, NEW p \in Patches, PatchRefused(p) PROVE CatInv'
  BY WritesNothing DEF PatchRefused

(* Environments come, and go when no session is bound to one.               *)
LEMMA EnvStep == ASSUME CatInv, CreateEnv \/ DeleteEnv PROVE CatInv'
  <1>1. envs' \subseteq Envs /\ UNCHANGED <<agent, history, patch, session, token>>
    BY DEF CatInv, CreateEnv, DeleteEnv
  <1>2. EnvKept'
    <2>1. CASE CreateEnv
      BY <2>1 DEF CatInv, CreateEnv, EnvKept
    <2>2. CASE DeleteEnv
      BY <2>2 DEF CatInv, DeleteEnv, EnvInUse, EnvKept
    <2> QED BY <2>1, <2>2
  <1> QED BY <1>1, <1>2 DEF CatInv, RowsInv, PatchesInv, PatchesApart, SessionsInv, LineInv

(* A new session has the depth given and the parent given.                  *)
LEMMA AddSessionStep ==
    ASSUME CatInv, NEW a \in Agents, NEW depth \in 0 .. MaxDepth, NEW parent \in 0 .. Len(session),
           parent # 0 => depth + 1 = session[parent].depth,
           AddSession(a, depth, parent)
    PROVE  CatInv'
  <1>1. PICK e \in envs \cup {NoEnv} :
            session' = Append(session,
                [agent |-> a, depth |-> depth, parent |-> parent, env |-> e, live |-> TRUE])
    BY DEF AddSession
  <1> DEFINE new == [agent |-> a, depth |-> depth, parent |-> parent, env |-> e, live |-> TRUE]
             n == Len(session)
  <1>2. /\ new \in SessionRows /\ new.depth = depth /\ new.parent = parent /\ new.env = e
    BY DEF SessionRows, CatInv
  <1> HIDE DEF new
  <1>3. /\ session' = Append(session, new) /\ token' = Append(token, {})
        /\ n < MaxSessions /\ UNCHANGED <<agent, history, patch, envs>>
    BY <1>1 DEF AddSession, new
  <1>4. /\ session \in Seq(SessionRows) /\ token \in Seq(SUBSET Tokens) /\ Len(token) = n
    BY DEF CatInv, SessionsInv
  <1>5. /\ session' \in Seq(SessionRows) /\ token' \in Seq(SUBSET Tokens)
        /\ Len(session') = n + 1 /\ Len(token') = n + 1
        /\ DOMAIN session' = 1 .. n + 1 /\ DOMAIN session = 1 .. n
        /\ session'[n + 1] = new /\ token'[n + 1] = {}
        /\ \A i \in 1 .. n : session'[i] = session[i] /\ token'[i] = token[i]
    BY <1>2, <1>3, <1>4
  <1>6. \A i \in 1 .. n :
            /\ session[i].parent \in 0 .. i - 1
            /\ session[i].parent # 0 => session[i].depth + 1 = session[session[i].parent].depth
            /\ session[i].live => session[i].env \in envs \cup {NoEnv}
            /\ \A t \in token[i] : t.depth = session[i].depth /\ t.parent = i
    BY <1>5 DEF CatInv, SessionsInv, LineInv, EnvKept
  <1>7. n \in Nat /\ \A i \in 1 .. n + 1 : i \in 1 .. n \/ i = n + 1
    BY <1>4
  <1> HIDE DEF n
  <1>8. ASSUME NEW i \in 1 .. n + 1
        PROVE  /\ session'[i].parent \in 0 .. i - 1
               /\ session'[i].parent # 0 => session'[i].depth + 1 = session'[session'[i].parent].depth
               /\ session'[i].live => session'[i].env \in envs \cup {NoEnv}
               /\ \A t \in token'[i] : t.depth = session'[i].depth /\ t.parent = i
    <2>1. CASE i \in 1 .. n
      <3>1. /\ session'[i] = session[i] /\ token'[i] = token[i]
            /\ session[i].parent # 0 => session[i].parent \in 1 .. n
        <4>1. session'[i] = session[i] /\ token'[i] = token[i]
          BY <1>5, <2>1
        <4>2. session[i].parent \in 0 .. i - 1
          BY <1>6, <2>1
        <4> QED BY <1>7, <2>1, <4>1, <4>2
      <3>2. session[i].parent # 0 => session'[session[i].parent] = session[session[i].parent]
        BY <1>5, <3>1
      <3> QED BY <1>6, <2>1, <3>1, <3>2
    <2>2. CASE i = n + 1
      <3>1. parent \in 0 .. n /\ (parent # 0 => session'[parent] = session[parent])
        BY <1>5, <1>7 DEF n
      <3> QED BY <1>2, <1>5, <1>7, <2>2, <3>1
    <2> QED BY <1>7, <2>1, <2>2
  <1>9. SessionsInv' /\ LineInv' /\ EnvKept'
    <2>1. Len(session') <= MaxSessions /\ Len(session') = Len(token') /\ DOMAIN session' = 1 .. n + 1
      BY <1>3, <1>5, <1>7
    <2> QED BY <1>3, <1>5, <1>8, <2>1 DEF SessionsInv, LineInv, EnvKept
  <1> QED BY <1>3, <1>9 DEF CatInv, RowsInv, PatchesInv, PatchesApart

(* A session that a client creates starts a line of delegation.             *)
LEMMA CreateSessionStep == ASSUME CatInv, CreateSession PROVE CatInv'
  <1>1. PICK a \in Agents : Exists(a) /\ AddSession(a, RowOf(a).template.depth, 0)
    BY DEF CreateSession
  <1>2. RowOf(a).template.depth \in 0 .. MaxDepth
    BY <1>1, RowIs DEF AgentRows, Templates
  <1> QED BY <1>1, <1>2, AddSessionStep DEF CatInv, SessionsInv

(* A delegated session is one level below the one whose token was used.     *)
LEMMA DelegateStep == ASSUME CatInv, Delegate PROVE CatInv'
  <1>0. PICK i \in DOMAIN session : \E t \in token[i] : \E a \in Agents :
            t.depth > 0 /\ AddSession(a, t.depth - 1, t.parent)
    BY DEF Delegate, MaySpawn, ChildDepth
  <1>1. PICK t \in token[i], a \in Agents :
            t.depth > 0 /\ AddSession(a, t.depth - 1, t.parent)
    BY <1>0
  <1>2. /\ t.depth = session[i].depth /\ t.parent = i /\ i \in 1 .. Len(session)
        /\ session[i].depth \in 0 .. MaxDepth
    <2>1. i \in 1 .. Len(session) /\ session[i] \in SessionRows
      BY <1>0 DEF CatInv, SessionsInv
    <2>2. t.depth = session[i].depth /\ t.parent = i
      BY <1>0, <1>1 DEF CatInv, SessionsInv
    <2> QED BY <2>1, <2>2 DEF SessionRows
  <1>3. /\ t.depth - 1 \in 0 .. MaxDepth /\ t.parent \in 0 .. Len(session)
        /\ (t.depth - 1) + 1 = session[t.parent].depth
    BY <1>1, <1>2
  <1>4. PICK d \in 0 .. MaxDepth, p \in 0 .. Len(session) : d = t.depth - 1 /\ p = t.parent
    BY <1>3
  <1> QED BY <1>1, <1>3, <1>4, AddSessionStep

(* A container start mints the token of its session.                        *)
LEMMA BootSessionStep == ASSUME CatInv, BootSession PROVE CatInv'
  <1>1. PICK i \in DOMAIN session :
          /\ Exists(session[i].agent)
          /\ token' = [token EXCEPT ![i] =
                {[allow |-> RowOf(session[i].agent).template.allow,
                  depth |-> session[i].depth, parent |-> i]}]
    BY DEF BootSession
  <1>2. session[i] \in SessionRows /\ i \in 1 .. Len(session) /\ Len(session) <= MaxSessions
    BY <1>1 DEF CatInv, SessionsInv
  <1> DEFINE t == [allow |-> RowOf(session[i].agent).template.allow,
                  depth |-> session[i].depth, parent |-> i]
  <1>3. t \in Tokens
    <2>1. RowOf(session[i].agent) \in AgentRows
      BY <1>1, <1>2, RowIs DEF SessionRows
    <2> QED BY <1>2, <2>1 DEF AgentRows, Templates, SessionRows, Tokens
  <1>4. t.depth = session[i].depth /\ t.parent = i
    OBVIOUS
  <1> HIDE DEF t
  <1>5. token' = [token EXCEPT ![i] = {t}] /\ UNCHANGED <<agent, history, patch, envs, session>>
    BY <1>1 DEF t, BootSession
  <1>6. SessionsInv'
    <2>1. i \in 1 .. Len(session) /\ \A j \in 1 .. Len(session) : token'[j] = IF j = i THEN {t} ELSE token[j]
      BY <1>2, <1>5 DEF CatInv, SessionsInv
    <2>2. token' \in Seq(SUBSET Tokens) /\ Len(token') = Len(session)
      BY <1>2, <1>3, <1>5 DEF CatInv, SessionsInv
    <2> QED BY <1>4, <1>5, <2>1, <2>2 DEF CatInv, SessionsInv
  <1> QED BY <1>5, <1>6 DEF CatInv, RowsInv, PatchesInv, PatchesApart, LineInv, EnvKept

(* A session goes with its tokens; its children stay.                       *)
LEMMA DeleteSessionStep == ASSUME CatInv, DeleteSession PROVE CatInv'
  <1>1. PICK i \in DOMAIN session :
          /\ session' = [session EXCEPT ![i].live = FALSE]
          /\ token' = [token EXCEPT ![i] = {}]
    BY DEF DeleteSession
  <1>2. /\ session \in Seq(SessionRows) /\ token \in Seq(SUBSET Tokens) /\ Len(token) = Len(session)
    BY DEF CatInv, SessionsInv
  <1> DEFINE row == [session[i] EXCEPT !.live = FALSE]
  <1>0. /\ row \in SessionRows /\ row.depth = session[i].depth /\ row.parent = session[i].parent
        /\ row.env = session[i].env /\ row.live = FALSE /\ session' = [session EXCEPT ![i] = row]
    <2>1. session[i] \in SessionRows
      BY <1>1, <1>2
    <2>2. session' = [session EXCEPT ![i] = row]
      BY <1>1
    <2> QED BY <2>1, <2>2 DEF SessionRows
  <1> HIDE DEF row
  <1>3. /\ session' \in Seq(SessionRows) /\ token' \in Seq(SUBSET Tokens)
        /\ Len(token') = Len(session') /\ Len(session') = Len(session)
        /\ DOMAIN session' = 1 .. Len(session) /\ DOMAIN session = 1 .. Len(session)
    BY <1>0, <1>1, <1>2
  <1>4. \A j \in 1 .. Len(session) :
            /\ session'[j].depth = session[j].depth /\ session'[j].parent = session[j].parent
            /\ session'[j].env = session[j].env
            /\ session'[j].live => session[j].live
            /\ token'[j] \subseteq token[j]
    BY <1>0, <1>1, <1>2
  <1>5. UNCHANGED <<agent, history, patch, envs>>
    BY DEF DeleteSession
  <1>6. SessionsInv'
    BY <1>3, <1>4 DEF CatInv, SessionsInv
  <1>7. LineInv'
    <2>1. \A j \in 1 .. Len(session) :
              session[j].parent # 0 => /\ session[j].parent \in 1 .. Len(session)
                                       /\ session[j].depth + 1 = session[session[j].parent].depth
      BY <1>2, <1>3 DEF CatInv, LineInv, SessionsInv
    <2> QED BY <1>3, <1>4, <2>1 DEF LineInv
  <1>8. EnvKept'
    <2>1. \A j \in 1 .. Len(session) : session[j].live => session[j].env \in envs \cup {NoEnv}
      BY <1>3 DEF CatInv, EnvKept
    <2> QED BY <1>3, <1>4, <1>5, <2>1 DEF EnvKept
  <1> QED BY <1>5, <1>6, <1>7, <1>8 DEF CatInv, RowsInv, PatchesInv, PatchesApart

(* Each step keeps it.                                                      *)
LEMMA CatNext == ASSUME CatInv, [CatalogNext]_catalogVars PROVE CatInv'
  <1>1. CASE UNCHANGED catalogVars
    BY <1>1 DEF catalogVars, CatInv, RowsInv, PatchesInv, PatchesApart, SessionsInv, LineInv, EnvKept
  <1>2. CASE CatalogNext
    BY <1>2, CreateAgentStep, ArchiveStep, DeleteAgentStep, PatchAgentStep, PatchValidatedStep,
       PatchRefusedStep, EnvStep, CreateSessionStep, DelegateStep, BootSessionStep, DeleteSessionStep
       DEF CatalogNext
  <1> QED BY <1>1, <1>2

IsUp(up, n) == up = [k \in 1 .. n |-> IF session[k].parent = 0 THEN {}
                                      ELSE {session[k].parent} \cup up[session[k].parent]]

(* A nonempty set of numbers has a least one.                               *)
(* The recursion of Ancestors is one: parents come before their children.   *)
LEMMA UpExists ==
    ASSUME Len(session) \in Nat, \A i \in 1 .. Len(session) : session[i].parent \in 0 .. i - 1
    PROVE  \E up : IsUp(up, Len(session))
  <1> DEFINE Bad == {n \in 0 .. Len(session) : ~\E up : IsUp(up, n)}
  <1> SUFFICES ASSUME Bad # {} PROVE FALSE
    BY DEF Bad
  <1>1. PICK m \in Bad : \A n \in Bad : m <= n
    <2>1. Bad \in SUBSET Nat
      OBVIOUS
    <2> HIDE DEF Bad
    <2> QED BY <2>1, LeastOne
  <1>2. CASE m = 0
    <2>1. IsUp([k \in {} |-> {}], 0)
      BY DEF IsUp
    <2> QED BY <1>2, <2>1
  <1>3. CASE m # 0
    <2>1. m - 1 \in 0 .. Len(session) /\ ~(m - 1 \in Bad)
      BY <1>1, <1>3
    <2>2. PICK f : IsUp(f, m - 1)
      BY <2>1
    <2> DEFINE g == [k \in 1 .. m |-> IF k < m THEN f[k]
                                      ELSE IF session[m].parent = 0 THEN {}
                                      ELSE {session[m].parent} \cup f[session[m].parent]]
    <2>3. ASSUME NEW k \in 1 .. m
          PROVE  g[k] = IF session[k].parent = 0 THEN {}
                        ELSE {session[k].parent} \cup g[session[k].parent]
      <3>1. k \in 1 .. Len(session) /\ session[k].parent \in 0 .. k - 1
        BY <1>1
      <3>2. session[k].parent # 0 => g[session[k].parent] = f[session[k].parent]
        BY <3>1
      <3>3. CASE k = m
        <4>1. ~(k < m)
          BY <1>1, <3>3
        <4>2. g[k] = IF session[m].parent = 0 THEN {} ELSE {session[m].parent} \cup f[session[m].parent]
          BY <4>1
        <4> QED BY <3>2, <3>3, <4>2
      <3>4. CASE k < m
        <4>1. k \in 1 .. m - 1
          BY <1>1, <3>4
        <4>2. f[k] = IF session[k].parent = 0 THEN {}
                     ELSE {session[k].parent} \cup f[session[k].parent]
          BY <2>2, <4>1 DEF IsUp
        <4> QED BY <3>1, <3>2, <3>4, <4>2
      <3> QED BY <1>1, <3>3, <3>4
    <2>4. IsUp(g, m)
      <3>1. g = [k \in 1 .. m |-> g[k]]
        OBVIOUS
      <3> HIDE DEF g
      <3> QED BY <2>3, <3>1 DEF IsUp
    <2> QED BY <2>4
  <1> QED BY <1>2, <1>3

(* The ancestors of a session: its parent, and the ancestors of that.       *)
LEMMA AncestorsStep ==
    ASSUME Len(session) \in Nat, \A i \in 1 .. Len(session) : session[i].parent \in 0 .. i - 1,
           NEW i \in 1 .. Len(session)
    PROVE  Ancestors(i) = IF session[i].parent = 0 THEN {}
                          ELSE {session[i].parent} \cup Ancestors(session[i].parent)
  <1> DEFINE up == CHOOSE f : IsUp(f, Len(session))
  <1>1. IsUp(up, Len(session))
    BY UpExists
  <1>2. \A k \in 1 .. Len(session) : Ancestors(k) = up[k]
    BY DEF Ancestors, IsUp
  <1>3. up[i] = IF session[i].parent = 0 THEN {} ELSE {session[i].parent} \cup up[session[i].parent]
    BY <1>1 DEF IsUp
  <1>4. session[i].parent # 0 => session[i].parent \in 1 .. Len(session)
    OBVIOUS
  <1> HIDE DEF up
  <1> QED BY <1>2, <1>3, <1>4

(* A session's ancestors are so many numbers before its own, and a chain    *)
(* that starts with r has as many as the levels its depth is below r's.     *)
Levels(i) ==
    /\ Ancestors(i) \subseteq 1 .. i - 1
    /\ \A r \in Ancestors(i) : session[r].parent = 0 =>
          Cardinality(Ancestors(i)) + session[i].depth = session[r].depth

(* As a level is used up by each step, a line of delegation ends.           *)
LEMMA Bounded == ASSUME CatInv PROVE DelegationBounded
  <1>0. /\ Len(session) \in Nat /\ DOMAIN session = 1 .. Len(session)
        /\ \A i \in 1 .. Len(session) :
              /\ session[i].parent \in 0 .. i - 1 /\ session[i].depth \in Int
              /\ session[i].parent # 0 =>
                    session[i].depth + 1 = session[session[i].parent].depth
    <2>1. \A i \in 1 .. Len(session) : session[i] \in SessionRows
      BY DEF CatInv, SessionsInv
    <2>2. \A i \in 1 .. Len(session) : session[i].depth \in Int
      BY <2>1 DEF SessionRows
    <2> QED BY <2>2 DEF CatInv, SessionsInv, LineInv
  <1> DEFINE Bad == {i \in 1 .. Len(session) : ~Levels(i)}
  <1>1. Bad = {}
    <2> SUFFICES ASSUME Bad # {} PROVE FALSE
      OBVIOUS
    <2>1. PICK i \in Bad : \A j \in Bad : i <= j
      <3>1. Bad \in SUBSET Nat
        OBVIOUS
      <3> HIDE DEF Bad
      <3> QED BY <3>1, LeastOne
    <2>2. i \in 1 .. Len(session) /\ ~Levels(i)
      OBVIOUS
    <2>3. Ancestors(i) = IF session[i].parent = 0 THEN {}
                         ELSE {session[i].parent} \cup Ancestors(session[i].parent)
      BY <1>0, <2>2, AncestorsStep
    <2>4. CASE session[i].parent = 0
      BY <2>2, <2>3, <2>4 DEF Levels
    <2>5. CASE session[i].parent # 0
      <3>1. PICK p \in 1 .. i - 1 : p = session[i].parent
        BY <1>0, <2>2, <2>5
      <3>2. p \in 1 .. Len(session) /\ p < i /\ i \in Nat /\ p \in Nat
        BY <1>0, <2>2
      <3>3. Levels(p)
        BY <2>1, <3>2
      <3>4. /\ Ancestors(p) \subseteq 1 .. p - 1 /\ p \notin Ancestors(p)
            /\ Ancestors(i) = Ancestors(p) \cup {p}
        BY <2>3, <2>5, <3>1, <3>2, <3>3 DEF Levels
      <3>5. IsFiniteSet(Ancestors(p)) /\ Cardinality(Ancestors(p)) \in Nat
        <4>1. IsFiniteSet(1 .. p - 1)
          BY <3>2, FS_Interval
        <4>2. IsFiniteSet(Ancestors(p))
          BY <3>4, <4>1, FS_Subset
        <4> QED BY <4>2, FS_CardinalityType
      <3>6. Cardinality(Ancestors(i)) = Cardinality(Ancestors(p)) + 1
        BY <3>4, <3>5, FS_AddElement
      <3>7. Ancestors(i) \subseteq 1 .. i - 1
        BY <3>2, <3>4
      <3>8. session[i].depth + 1 = session[p].depth /\ session[i].depth \in Int
            /\ session[p].depth \in Int
        BY <1>0, <2>2, <2>5, <3>1, <3>2
      <3>9. ASSUME NEW r \in Ancestors(i), session[r].parent = 0
            PROVE  Cardinality(Ancestors(i)) + session[i].depth = session[r].depth
        <4>1. CASE r \in Ancestors(p)
          <5>1. Cardinality(Ancestors(p)) + session[p].depth = session[r].depth
            BY <3>3, <3>9, <4>1 DEF Levels
          <5>2. PICK x \in Int, y \in Int, z \in Nat :
                    x = session[i].depth /\ y = session[p].depth /\ z = Cardinality(Ancestors(p))
            BY <3>5, <3>8
          <5>3. x + 1 = y
            BY <3>8, <5>2, Zenon
          <5>4. z + 1 + x = z + y
            BY <5>3
          <5> QED BY <3>6, <5>1, <5>2, <5>4
        <4>2. CASE r = p
          <5>1. Ancestors(p) = {}
            BY <1>0, <3>2, <3>9, <4>2, AncestorsStep
          <5>2. Cardinality(Ancestors(p)) = 0
            BY <5>1, FS_EmptySet
          <5> QED BY <3>6, <3>8, <4>2, <5>2
        <4> QED BY <3>4, <3>9, <4>1, <4>2
      <3> QED BY <2>2, <3>7, <3>9 DEF Levels
    <2> QED BY <2>4, <2>5
  <1>2. ASSUME NEW i \in DOMAIN session, NEW r \in Ancestors(i), session[r].parent = 0
        PROVE  Cardinality(Ancestors(i)) + session[i].depth <= session[r].depth
    <2>1. Levels(i) /\ i \in 1 .. Len(session)
      BY <1>0, <1>1
    <2>2. r \in 1 .. Len(session)
      BY <1>0, <2>1 DEF Levels
    <2>3. Cardinality(Ancestors(i)) + session[i].depth = session[r].depth
      BY <1>2, <2>1 DEF Levels
    <2> QED BY <1>0, <2>2, <2>3
  <1> QED BY <1>2 DEF DelegationBounded

(* It implies what the run checks.                                          *)
LEMMA CatImplies == ASSUME CatInv PROVE CatalogInv
  <1>1. ASSUME NEW a \in Agents
        PROVE  /\ agent[a] \subseteq AgentRows /\ Cardinality(agent[a]) <= 1
               /\ Exists(a) => /\ Len(history[a]) = RowOf(a).version
                               /\ Last(history[a]) = RowOf(a).template
    <2>1. CASE agent[a] = {}
      BY <2>1, FS_EmptySet DEF Exists
    <2>2. CASE Exists(a)
      <3>1. Cardinality({RowOf(a)}) = 1
        BY FS_Singleton
      <3>2. /\ RowOf(a) \in AgentRows /\ agent[a] = {RowOf(a)}
            /\ Len(history[a]) = RowOf(a).version
            /\ RowOf(a).template = Last(history[a])
        BY <2>2, RowIs DEF Last
      <3>3. Cardinality(agent[a]) <= 1
        BY <3>1, <3>2
      <3> QED BY <3>2, <3>3
    <2> QED BY <2>1, <2>2 DEF Exists
  <1>2. UpdatesLinear
    BY <1>1 DEF UpdatesLinear, CatInv, PatchesApart
  <1>3. CatalogTypeOK
    <2>1. \A i \in DOMAIN session :
              /\ session[i].agent \in Agents /\ session[i].depth \in 0 .. MaxDepth
              /\ session[i].env \in Envs \cup {NoEnv}
              /\ session[i].parent \in 0 .. i - 1 /\ token[i] \subseteq Tokens
      <3>1. \A i \in DOMAIN session : session[i] \in SessionRows /\ token[i] \in SUBSET Tokens
        BY DEF CatInv, SessionsInv
      <3> QED BY <3>1 DEF CatInv, SessionsInv, SessionRows
    <2>2. \A p \in Patches : /\ patch[p].stage \in {"new", "validating", "ok", "done"}
                              /\ patch[p].agent \subseteq Agents
      BY DEF CatInv
    <2> QED BY <1>1, <2>1, <2>2 DEF CatalogTypeOK, CatInv, RowsInv, Fits, SessionsInv
  <1> QED BY <1>2, <1>3, Bounded DEF CatalogInv, CatInv

HIDE CatalogAssumption

----------------------------------------------------------------------------
(* The vaults (VaultCredentials).                                           *)

USE VaultAssumption

(* The shape of the state, with numbers that are not bounded yet.           *)
RowShape  == [rev : Nat, refresh : Nat, fresh : BOOLEAN]
ItemShape == [cred : Creds, refresh : Nat]
AskShape  == [stage : {"asked", "granted", "refused"}, item : ItemShape, new : Nat]
RunShape  == [pc : {"idle", "refresh", "acquire", "turn"}, todo : SUBSET ItemShape,
              ask : SUBSET AskShape, env : SUBSET Bearers, floor : [Creds -> Nat]]
BoxShape  == [env : SUBSET Bearers, newer : SUBSET Creds]

VaultShapes ==
    /\ vault \in BOOLEAN
    /\ cred \in [Creds -> SUBSET RowShape]
    /\ provider \in [Creds -> Nat]
    /\ run \in [Sessions -> RunShape]
    /\ box \in [Sessions -> SUBSET BoxShape]
    /\ lost \subseteq Creds /\ runs \in 0 .. MaxRuns

RowsOnce == \A c \in Creds : AtMostOne(cred[c]) /\ (cred[c] # {} => vault)

RunsOnce ==
    \A s \in Sessions :
        /\ AtMostOne(run[s].ask)
        /\ \A i, j \in run[s].todo : i.cred = j.cred => i = j
        /\ \A x \in run[s].ask : \A i \in run[s].todo : i.cred # x.item.cred
        /\ run[s].pc # "refresh" => run[s].todo = {} /\ run[s].ask = {}

BoxesOnce == \A s \in Sessions : AtMostOne(box[s]) /\ (run[s].pc = "turn" => box[s] # {})

(* Every refresh token there is was issued; a provider that does not rotate *)
(* has issued one; what it granted last is what it takes.                   *)
Issued ==
    /\ \A c \in Creds : \A row \in cred[c] : 1 <= row.refresh /\ row.refresh <= provider[c]
    /\ \A c \in Creds \ Rotating : provider[c] <= 1
    /\ \A s \in Sessions : \A i \in run[s].todo : 1 <= i.refresh /\ i.refresh <= provider[i.cred]
    /\ \A s \in Sessions : \A x \in run[s].ask :
          /\ 1 <= x.item.refresh /\ x.item.refresh <= provider[x.item.cred]
          /\ x.new <= provider[x.item.cred]
          /\ x.stage = "granted" => x.new = provider[x.item.cred]

(* While a rotating provider's grant is on its way, nobody else has one and *)
(* whatever else is known of its refresh tokens is of the past.             *)
OneGrant ==
    \A s \in Sessions : \A x \in run[s].ask :
        x.stage = "granted" /\ x.item.cred \in Rotating =>
            /\ \A row \in cred[x.item.cred] : row.refresh < provider[x.item.cred]
            /\ \A t \in Sessions : \A i \in run[t].todo :
                  i.cred = x.item.cred => i.refresh < provider[i.cred]
            /\ \A t \in Sessions : \A y \in run[t].ask :
                  y.item.cred = x.item.cred /\ t # s =>
                      y.stage # "granted" /\ (y.stage = "asked" => y.item.refresh < provider[y.item.cred])

(* A stored token that the provider does not take is about to be replaced.  *)
Replaced ==
    \A c \in Creds \ lost : \A row \in cred[c] :
        \/ row.refresh = provider[c]
        \/ \E s \in Sessions : \E x \in run[s].ask : x.stage = "granted" /\ x.item.cred = c

(* Nothing that is stored is older than what a run may use.                 *)
Floors ==
    /\ \A c \in Creds : provider[c] = 0 => cred[c] = {} /\ \A s \in Sessions : run[s].floor[c] = 0
    /\ \A s \in Sessions : \A c \in Creds : \A row \in cred[c] : run[s].floor[c] <= row.rev

Environments ==
    \A s \in Sessions :
        /\ run[s].pc \in {"acquire", "turn"} =>
              \A e \in run[s].env : run[s].floor[e.cred] <= e.rev
        /\ run[s].pc = "turn" => \A b \in box[s] : b.env = run[s].env

(* The sessions that may still write a new revision of c, and those that    *)
(* may still make its provider issue a token: no more than runs began since *)
(* what there is was made.                                                  *)
Writers(c) ==
    {s \in Sessions : \/ \E i \in run[s].todo : i.cred = c
                      \/ \E x \in run[s].ask : x.item.cred = c}
Askers(c) ==
    {s \in Sessions : \/ \E i \in run[s].todo : i.cred = c
                      \/ \E x \in run[s].ask : x.item.cred = c /\ x.stage = "asked"}

Counted ==
    \A c \in Creds :
        /\ \A row \in cred[c] : row.rev + Cardinality(Writers(c)) <= 1 + runs
        /\ provider[c] + Cardinality(Askers(c)) <= 1 + runs

VauInv ==
    /\ VaultShapes /\ RowsOnce /\ RunsOnce /\ BoxesOnce
    /\ Issued /\ OneGrant /\ Replaced /\ Floors /\ Environments /\ Counted

(* What one session more or less makes of a number of sessions.             *)
LEMMA Counting ==
    ASSUME NEW U \in SUBSET Sessions, NEW V \in SUBSET Sessions
    PROVE  /\ Cardinality(U) \in Nat /\ Cardinality(V) \in Nat
           /\ V \subseteq U => Cardinality(V) <= Cardinality(U)
           /\ \A s \in Sessions : V \subseteq U \cup {s} => Cardinality(V) <= Cardinality(U) + 1
           /\ \A s \in U : V \subseteq U \ {s} => Cardinality(V) + 1 <= Cardinality(U)
  <1>1. IsFiniteSet(U) /\ IsFiniteSet(V)
    BY FS_Subset
  <1>2. Cardinality(U) \in Nat /\ Cardinality(V) \in Nat
    BY <1>1, FS_CardinalityType
  <1>3. V \subseteq U => Cardinality(V) <= Cardinality(U)
    BY <1>1, FS_Subset
  <1>4. ASSUME NEW s \in Sessions, V \subseteq U \cup {s} PROVE Cardinality(V) <= Cardinality(U) + 1
    <2>1. /\ IsFiniteSet(U \cup {s})
          /\ Cardinality(U \cup {s}) = IF s \in U THEN Cardinality(U) ELSE Cardinality(U) + 1
      BY <1>1, FS_AddElement
    <2>2. Cardinality(V) <= Cardinality(U \cup {s})
      BY <1>4, <2>1, FS_Subset
    <2> QED BY <1>2, <2>1, <2>2
  <1>5. ASSUME NEW s \in U, V \subseteq U \ {s} PROVE Cardinality(V) + 1 <= Cardinality(U)
    <2>1. IsFiniteSet(U \ {s}) /\ Cardinality(U \ {s}) = Cardinality(U) - 1
      BY <1>1, FS_RemoveElement
    <2>2. Cardinality(V) <= Cardinality(U \ {s})
      BY <1>5, <2>1, FS_Subset
    <2> QED BY <1>2, <2>1, <2>2
  <1> QED BY <1>2, <1>3, <1>4, <1>5

(* It holds before the first run.                                           *)
LEMMA VauInit == VaultInit => VauInv
  <1> SUFFICES ASSUME VaultInit PROVE VauInv
    OBVIOUS
  <1> USE DEF VaultInit
  <1>1. \A s \in Sessions : /\ run[s].todo = {} /\ run[s].ask = {} /\ run[s].pc = "idle"
                            /\ run[s].floor = [c \in Creds |-> 0] /\ box[s] = {}
    BY DEF NoRun
  <1>2. VaultShapes
    BY DEF VaultShapes, NoRun, RunShape
  <1>3. RowsOnce /\ RunsOnce /\ BoxesOnce /\ Issued /\ OneGrant /\ Replaced
    BY <1>1 DEF RowsOnce, RunsOnce, BoxesOnce, Issued, OneGrant, Replaced, AtMostOne
  <1>4. Floors /\ Environments
    BY <1>1 DEF Floors, Environments
  <1>5. Counted
    <2>1. \A c \in Creds : Askers(c) = {} /\ provider[c] = 0 /\ cred[c] = {}
      BY <1>1 DEF Askers
    <2> QED BY <2>1, FS_EmptySet DEF Counted
  <1> QED BY <1>2, <1>3, <1>4, <1>5 DEF VauInv

(* An exchange y that follows from what session s had: a list's item that   *)
(* is asked for, or an exchange that was not granted meanwhile.             *)
Follows(y, s) ==
    \/ y \in run[s].ask
    \/ y.stage # "granted" /\ y.new = 0 /\ y.item \in run[s].todo
    \/ /\ y.stage = "refused"
       /\ \E x \in run[s].ask : y.item = x.item /\ y.new = x.new

(* A step of a session in which nothing is granted, stored or read leaves   *)
(* what is known of tokens as it was; an answer it throws away is lost.     *)
LEMMA Quiet ==
    ASSUME VauInv, NEW s \in Sessions, UNCHANGED <<cred, provider, runs>>,
           \A t \in Sessions \ {s} : run'[t] = run[t],
           run'[s].todo \subseteq run[s].todo, \A y \in run'[s].ask : Follows(y, s),
           lost \subseteq lost',
           \A x \in run[s].ask : x.stage = "granted" /\ x \notin run'[s].ask => x.item.cred \in lost'
    PROVE  Issued' /\ OneGrant' /\ Replaced' /\ Counted'
  <1>1. \A y \in run'[s].ask :
            /\ 1 <= y.item.refresh /\ y.item.refresh <= provider[y.item.cred]
            /\ y.new <= provider[y.item.cred]
            /\ y.stage = "granted" => y \in run[s].ask
            /\ y.stage = "asked" => y \in run[s].ask \/ y.item \in run[s].todo
            /\ y.item \in run[s].todo \/ \E x \in run[s].ask : y.item = x.item
    <2> SUFFICES ASSUME NEW y \in run'[s].ask
                 PROVE  /\ 1 <= y.item.refresh /\ y.item.refresh <= provider[y.item.cred]
                        /\ y.new <= provider[y.item.cred]
                        /\ y.stage = "granted" => y \in run[s].ask
                        /\ y.stage = "asked" => y \in run[s].ask \/ y.item \in run[s].todo
                        /\ y.item \in run[s].todo \/ \E x \in run[s].ask : y.item = x.item
      OBVIOUS
    <2>0. /\ \A i \in run[s].todo : i.cred \in Creds /\ i.refresh \in Nat
          /\ \A x \in run[s].ask : x.item.cred \in Creds /\ x.item.refresh \in Nat
          /\ \A c \in Creds : provider[c] \in Nat
      BY DEF VauInv, VaultShapes, RunShape, ItemShape, AskShape
    <2>1. CASE y \in run[s].ask
      BY <2>1 DEF VauInv, Issued
    <2>2. CASE y.stage # "granted" /\ y.new = 0 /\ y.item \in run[s].todo
      BY <2>0, <2>2 DEF VauInv, Issued
    <2>3. CASE y.stage = "refused" /\ \E x \in run[s].ask : y.item = x.item /\ y.new = x.new
      BY <2>0, <2>3 DEF VauInv, Issued
    <2> QED BY <2>1, <2>2, <2>3 DEF Follows
  <1>2. Issued'
    BY <1>1 DEF VauInv, Issued
  <1>3. OneGrant'
    BY <1>1 DEF VauInv, OneGrant
  <1>4. Replaced'
    BY DEF VauInv, Replaced
  <1>5. Counted'
    <2>1. \A c \in Creds : Writers(c)' \subseteq Writers(c) /\ Askers(c)' \subseteq Askers(c)
      BY <1>1 DEF Writers, Askers
    <2>2. ASSUME NEW c \in Creds
          PROVE  /\ \A row \in cred[c] : row.rev + Cardinality(Writers(c)') <= 1 + runs
                 /\ provider[c] + Cardinality(Askers(c)') <= 1 + runs
      <3>1. /\ Writers(c) \in SUBSET Sessions /\ Writers(c)' \in SUBSET Sessions
            /\ Askers(c) \in SUBSET Sessions /\ Askers(c)' \in SUBSET Sessions
        BY DEF Writers, Askers
      <3>2. /\ Cardinality(Writers(c)') \in Nat /\ Cardinality(Writers(c)) \in Nat
            /\ Cardinality(Writers(c)') <= Cardinality(Writers(c))
            /\ Cardinality(Askers(c)') \in Nat /\ Cardinality(Askers(c)) \in Nat
            /\ Cardinality(Askers(c)') <= Cardinality(Askers(c))
        BY <2>1, <3>1, Counting
      <3>3. provider[c] \in Nat /\ runs \in Nat /\ \A row \in cred[c] : row.rev \in Nat
        BY DEF VauInv, VaultShapes, RowShape
      <3> QED BY <3>2, <3>3 DEF VauInv, Counted
    <2> QED BY <2>2 DEF Counted
  <1> QED BY <1>2, <1>3, <1>4, <1>5

(* What a session's record is, and that of the others as it was.            *)
LEMMA RunIs ==
    ASSUME VauInv, NEW s \in Sessions
    PROVE  /\ run[s] \in RunShape /\ AtMostOne(run[s].ask)
           /\ DOMAIN run = Sessions /\ DOMAIN box = Sessions
  BY DEF VauInv, VaultShapes, RunsOnce

(* A step that gives session s the record r and leaves the rest alone.      *)
LEMMA SetRun ==
    ASSUME VauInv, NEW s \in Sessions, NEW r \in RunShape, run' = [run EXCEPT ![s] = r]
    PROVE  /\ run' \in [Sessions -> RunShape] /\ run'[s] = r
           /\ \A t \in Sessions \ {s} : run'[t] = run[t]
  BY DEF VauInv, VaultShapes

(* A run asks the provider for the first credential left to refresh.        *)
LEMMA AskStep == ASSUME VauInv, NEW s \in Sessions, Ask(s) PROVE VauInv'
  <1>1. PICK item \in run[s].todo :
          run' = [run EXCEPT ![s].todo = @ \ {item},
                             ![s].ask  = {[stage |-> "asked", item |-> item, new |-> 0]}]
    BY DEF Ask
  <1> DEFINE y == [stage |-> "asked", item |-> item, new |-> 0]
             r == [run[s] EXCEPT !.todo = @ \ {item}, !.ask = {y}]
  <1>2. run[s] \in RunShape /\ run[s].pc = "refresh" /\ run[s].ask = {}
    BY RunIs DEF Ask
  <1>3. y \in AskShape /\ y.stage = "asked" /\ y.item = item /\ y.new = 0
    BY <1>1, <1>2 DEF RunShape, AskShape
  <1> HIDE DEF y
  <1>4. /\ r \in RunShape /\ r.todo = run[s].todo \ {item} /\ r.ask = {y}
        /\ r.pc = "refresh" /\ r.floor = run[s].floor
    BY <1>2, <1>3 DEF RunShape
  <1>5. run' = [run EXCEPT ![s] = r]
    BY <1>1, <1>2 DEF y, VauInv, VaultShapes, RunShape
  <1> HIDE DEF r
  <1>6. /\ run' \in [Sessions -> RunShape] /\ run'[s] = r
        /\ \A t \in Sessions \ {s} : run'[t] = run[t]
        /\ UNCHANGED <<vault, cred, provider, box, lost, runs>>
    BY <1>4, <1>5, SetRun DEF Ask
  <1>7. Issued' /\ OneGrant' /\ Replaced' /\ Counted'
    BY <1>1, <1>2, <1>3, <1>4, <1>6, Quiet DEF Follows
  <1>8. VaultShapes' /\ RowsOnce'
    BY <1>6 DEF VauInv, VaultShapes, RowsOnce
  <1>9. RunsOnce'
    <2>1. \A i \in r.todo : i.cred # y.item.cred
      BY <1>1, <1>3, <1>4 DEF VauInv, RunsOnce
    <2> QED BY <1>2, <1>4, <1>6, <2>1 DEF VauInv, RunsOnce, AtMostOne
  <1>10. BoxesOnce' /\ Floors' /\ Environments'
    BY <1>2, <1>4, <1>6 DEF VauInv, BoxesOnce, Floors, Environments
  <1> QED BY <1>7, <1>8, <1>9, <1>10 DEF VauInv

(* The provider refuses a refresh token that it has replaced.               *)
LEMMA RefusesStep == ASSUME VauInv, NEW s \in Sessions, ProviderRefuses(s) PROVE VauInv'
  <1>1. PICK x \in run[s].ask :
          /\ x.stage = "asked"
          /\ run' = [run EXCEPT ![s].ask = {[x EXCEPT !.stage = "refused"]}]
    BY DEF ProviderRefuses
  <1> DEFINE y == [x EXCEPT !.stage = "refused"]
             r == [run[s] EXCEPT !.ask = {y}]
  <1>2. run[s] \in RunShape /\ run[s].ask = {x}
    BY <1>1, RunIs DEF AtMostOne
  <1>3. x \in AskShape
    BY <1>1, <1>2 DEF RunShape
  <1>4. y \in AskShape /\ y.stage = "refused" /\ y.item = x.item /\ y.new = x.new
    BY <1>3 DEF AskShape
  <1> HIDE DEF y
  <1>5. /\ r \in RunShape /\ r.todo = run[s].todo /\ r.ask = {y} /\ r.env = run[s].env
        /\ r.pc = run[s].pc /\ r.floor = run[s].floor
    BY <1>2, <1>4 DEF RunShape
  <1>6. run' = [run EXCEPT ![s] = r]
    BY <1>1, <1>2 DEF y, VauInv, VaultShapes, RunShape
  <1> HIDE DEF r
  <1>7. /\ run' \in [Sessions -> RunShape] /\ run'[s] = r
        /\ \A t \in Sessions \ {s} : run'[t] = run[t]
        /\ UNCHANGED <<vault, cred, provider, box, lost, runs>>
    BY <1>5, <1>6, SetRun DEF ProviderRefuses
  <1>9. Issued' /\ OneGrant' /\ Replaced' /\ Counted'
    <2>1. \A z \in run'[s].ask : Follows(z, s)
      BY <1>2, <1>4, <1>5, <1>7 DEF Follows
    <2>2. \A z \in run[s].ask : z.stage # "granted"
      BY <1>1, <1>2
    <2> QED BY <1>5, <1>7, <2>1, <2>2, Quiet
  <1>10. VaultShapes' /\ RowsOnce'
    BY <1>7 DEF VauInv, VaultShapes, RowsOnce
  <1>11. RunsOnce'
    BY <1>2, <1>4, <1>5, <1>7 DEF VauInv, RunsOnce, AtMostOne
  <1>12. BoxesOnce' /\ Floors' /\ Environments'
    BY <1>5, <1>7 DEF VauInv, BoxesOnce, Floors, Environments
  <1> QED BY <1>9, <1>10, <1>11, <1>12 DEF VauInv

(* A run is over, and an answer that was on its way to it is lost.          *)
LEMMA RestStep ==
    ASSUME VauInv, NEW s \in Sessions, run' = [run EXCEPT ![s] = NoRun],
           UNCHANGED <<vault, cred, provider, box, runs>>,
           lost \subseteq lost', lost' \subseteq Creds,
           \A x \in run[s].ask : x.stage = "granted" => x.item.cred \in lost'
    PROVE  VauInv'
  <1>1. /\ NoRun \in RunShape /\ NoRun.todo = {} /\ NoRun.ask = {} /\ NoRun.pc = "idle"
        /\ \A c \in Creds : NoRun.floor[c] = 0
    BY DEF NoRun, RunShape
  <1>2. /\ run' \in [Sessions -> RunShape] /\ run'[s] = NoRun
        /\ \A t \in Sessions \ {s} : run'[t] = run[t]
    BY <1>1, SetRun
  <1>3. Issued' /\ OneGrant' /\ Replaced' /\ Counted'
    BY <1>1, <1>2, Quiet
  <1>4. VaultShapes' /\ RowsOnce'
    BY <1>2 DEF VauInv, VaultShapes, RowsOnce
  <1>5. RunsOnce' /\ BoxesOnce' /\ Environments'
    BY <1>1, <1>2 DEF VauInv, RunsOnce, BoxesOnce, Environments, AtMostOne
  <1>6. Floors'
    <2>1. \A c \in Creds : \A row \in cred[c] : row.rev \in Nat
      BY DEF VauInv, VaultShapes, RowShape
    <2> QED BY <1>1, <1>2, <2>1 DEF VauInv, Floors
  <1> QED BY <1>3, <1>4, <1>5, <1>6 DEF VauInv

(* A run that ends, however it does, leaves nothing.                        *)
LEMMA RunOver ==
    ASSUME VauInv, NEW s \in Sessions, RefreshFails(s) \/ AnswerLost(s) \/ EndRun(s)
    PROVE  VauInv'
  <1>1. AtMostOne(run[s].ask) /\ run[s] \in RunShape
    BY RunIs
  <1>2. CASE RefreshFails(s)
    BY <1>1, <1>2, RestStep DEF RefreshFails, Expired, AtMostOne, VauInv, VaultShapes
  <1>3. CASE AnswerLost(s)
    <2>1. PICK x \in run[s].ask : Expired(s) /\ lost' = lost \cup {x.item.cred}
      BY <1>3 DEF AnswerLost
    <2>2. x.item.cred \in Creds
      BY <1>1, <2>1 DEF RunShape, AskShape, ItemShape
    <2> QED BY <1>1, <1>3, <2>1, <2>2, RestStep DEF AnswerLost, Expired, AtMostOne, VauInv, VaultShapes
  <1>4. CASE EndRun(s)
    <2>1. run[s].ask = {}
      BY <1>4 DEF EndRun, VauInv, RunsOnce
    <2> QED BY <1>4, <2>1, RestStep DEF EndRun, VauInv, VaultShapes
  <1> QED BY <1>2, <1>3, <1>4

(* The header's token is of a row that is there.                            *)
LEMMA BearerIs ==
    ASSUME VauInv, NEW e \in Bearer
    PROVE  /\ e \in Bearers
           /\ \E row \in cred[e.cred] : row.rev = e.rev
  <1>1. PICK c \in Present : e = [cred |-> c, rev |-> Row(c).rev]
    BY DEF Bearer
  <1>2. c \in Creds /\ Row(c) \in cred[c]
    BY <1>1 DEF Present, Row
  <1>3. Row(c).rev \in Numbers
    <2>1. Writers(c) \in SUBSET Sessions
      BY DEF Writers
    <2>2. Cardinality(Writers(c)) \in Nat
      BY <2>1, Counting
    <2>3. Row(c).rev + Cardinality(Writers(c)) <= 1 + runs
      BY <1>2 DEF VauInv, Counted
    <2>4. Row(c).rev \in Nat /\ runs \in 0 .. MaxRuns
      BY <1>2 DEF VauInv, VaultShapes, RowShape
    <2> QED BY <2>2, <2>3, <2>4 DEF Numbers, MaxRev
  <1> QED BY <1>1, <1>2, <1>3 DEF Bearers

(* The environment is built from the credentials as they are then.          *)
LEMMA BuildStep == ASSUME VauInv, NEW s \in Sessions, Build(s) PROVE VauInv'
  <1> DEFINE r == [run[s] EXCEPT !.pc = "acquire", !.env = Bearer]
  <1>1. run[s] \in RunShape /\ run[s].todo = {} /\ run[s].ask = {} /\ run[s].pc = "refresh"
    BY RunIs DEF Build
  <1>2. /\ r \in RunShape /\ r.todo = {} /\ r.ask = {} /\ r.env = Bearer /\ r.pc = "acquire"
        /\ r.floor = run[s].floor
    <2>1. Bearer \subseteq Bearers
      BY BearerIs
    <2> QED BY <1>1, <2>1 DEF RunShape
  <1>3. run' = [run EXCEPT ![s] = r] /\ UNCHANGED <<vault, cred, provider, lost, runs>>
    BY <1>1 DEF Build, VauInv, VaultShapes, RunShape
  <1> HIDE DEF r
  <1>4. /\ run' \in [Sessions -> RunShape] /\ run'[s] = r
        /\ \A t \in Sessions \ {s} : run'[t] = run[t]
    BY <1>2, <1>3, SetRun
  <1>5. /\ box' \in [Sessions -> SUBSET BoxShape] /\ box'[s] \subseteq box[s]
        /\ \A t \in Sessions \ {s} : box'[t] = box[t]
    BY DEF Build, VauInv, VaultShapes
  <1>6. Issued' /\ OneGrant' /\ Replaced' /\ Counted'
    BY <1>1, <1>2, <1>3, <1>4, Quiet
  <1>7. VaultShapes' /\ RowsOnce'
    BY <1>3, <1>4, <1>5 DEF VauInv, VaultShapes, RowsOnce
  <1>8. RunsOnce' /\ BoxesOnce'
    BY <1>2, <1>4, <1>5 DEF VauInv, RunsOnce, BoxesOnce, AtMostOne
  <1>9. Floors'
    BY <1>2, <1>3, <1>4 DEF VauInv, Floors
  <1>10. Environments'
    <2>1. \A e \in Bearer : run[s].floor[e.cred] <= e.rev
      BY BearerIs DEF VauInv, Floors, Bearers
    <2> QED BY <1>2, <1>4, <1>5, <2>1 DEF VauInv, Environments
  <1> QED BY <1>6, <1>7, <1>8, <1>9, <1>10 DEF VauInv

(* A container that carries what the run wants begins its turn.             *)
LEMMA TurnStep ==
    ASSUME VauInv, NEW s \in Sessions, run[s].pc = "acquire",
           run' = [run EXCEPT ![s].pc = "turn"],
           UNCHANGED <<vault, cred, provider, lost, runs>>,
           NEW b \in BoxShape, b.env = run[s].env,
           box' \in [Sessions -> SUBSET BoxShape], box'[s] = {b},
           \A t \in Sessions \ {s} : box'[t] = box[t]
    PROVE  VauInv'
  <1> DEFINE r == [run[s] EXCEPT !.pc = "turn"]
  <1>1. run[s] \in RunShape /\ run[s].todo = {} /\ run[s].ask = {}
    BY RunIs DEF VauInv, RunsOnce
  <1>2. /\ r \in RunShape /\ r.todo = {} /\ r.ask = {} /\ r.env = run[s].env /\ r.pc = "turn"
        /\ r.floor = run[s].floor
    BY <1>1 DEF RunShape
  <1>3. run' = [run EXCEPT ![s] = r]
    BY <1>1 DEF VauInv, VaultShapes, RunShape
  <1> HIDE DEF r
  <1>4. /\ run' \in [Sessions -> RunShape] /\ run'[s] = r
        /\ \A t \in Sessions \ {s} : run'[t] = run[t]
    <2>1. r \in RunShape
      BY <1>2
    <2> QED BY <1>3, <2>1, SetRun
  <1>6. Issued' /\ OneGrant' /\ Replaced' /\ Counted'
    BY <1>1, <1>2, <1>4, Quiet
  <1>7. VaultShapes' /\ RowsOnce'
    BY <1>4 DEF VauInv, VaultShapes, RowsOnce
  <1>8. RunsOnce' /\ BoxesOnce'
    <2>1. RunsOnce'
      BY <1>2, <1>4 DEF VauInv, RunsOnce, AtMostOne
    <2>2. BoxesOnce'
      BY <1>4 DEF VauInv, BoxesOnce, AtMostOne
    <2> QED BY <2>1, <2>2
  <1>9. Floors' /\ Environments'
    BY <1>2, <1>4 DEF VauInv, Floors, Environments
  <1> QED BY <1>6, <1>7, <1>8, <1>9 DEF VauInv

(* A container is reused, or started with that environment.                 *)
LEMMA AcquireSteps == ASSUME VauInv, NEW s \in Sessions, Reuse(s) \/ Boot(s) PROVE VauInv'
  <1>1. CASE Reuse(s)
    <2>1. PICK b \in box[s] : b.env = run[s].env
      BY <1>1 DEF Reuse, SameConfig
    <2>2. b \in BoxShape /\ box[s] = {b}
      BY <2>1 DEF VauInv, VaultShapes, BoxesOnce, AtMostOne
    <2> QED BY <1>1, <2>1, <2>2, TurnStep DEF Reuse, VauInv, VaultShapes
  <1>2. CASE Boot(s)
    <2> DEFINE b == [env |-> run[s].env, newer |-> {}]
    <2>1. b \in BoxShape /\ b.env = run[s].env
      BY RunIs DEF RunShape, BoxShape
    <2>2. box' = [box EXCEPT ![s] = {b}]
      BY <1>2 DEF Boot
    <2> HIDE DEF b
    <2>3. /\ box' \in [Sessions -> SUBSET BoxShape] /\ box'[s] = {b}
          /\ \A t \in Sessions \ {s} : box'[t] = box[t]
      BY <2>1, <2>2 DEF VauInv, VaultShapes
    <2> QED BY <1>2, <2>1, <2>3, TurnStep DEF Boot
  <1> QED BY <1>1, <1>2

(* A container is reaped between two runs.                                  *)
LEMMA ReapStep == ASSUME VauInv, NEW s \in Sessions, Reap(s) PROVE VauInv'
  <1>1. /\ box' \in [Sessions -> SUBSET BoxShape] /\ box'[s] = {}
        /\ \A t \in Sessions \ {s} : box'[t] = box[t]
        /\ run[s].pc = "idle" /\ UNCHANGED <<vault, cred, provider, run, lost, runs>>
    BY DEF Reap, VauInv, VaultShapes
  <1>2. Issued' /\ OneGrant' /\ Replaced' /\ Counted' /\ RunsOnce' /\ Floors' /\ RowsOnce'
    <2>1. Issued' /\ OneGrant' /\ Replaced' /\ Counted'
      <3>1. Issued'
        BY <1>1 DEF VauInv, Issued
      <3>2. OneGrant'
        BY <1>1 DEF VauInv, OneGrant
      <3>3. Replaced'
        BY <1>1 DEF VauInv, Replaced
      <3>4. \A c : Writers(c)' = Writers(c) /\ Askers(c)' = Askers(c)
        BY <1>1 DEF Writers, Askers
      <3>5. Counted'
        BY <1>1, <3>4 DEF VauInv, Counted
      <3> QED BY <3>1, <3>2, <3>3, <3>5
    <2>2. RunsOnce' /\ Floors' /\ RowsOnce'
      BY <1>1 DEF VauInv, RunsOnce, Floors, RowsOnce
    <2> QED BY <2>1, <2>2
  <1>3. VaultShapes' /\ BoxesOnce' /\ Environments'
    BY <1>1 DEF VauInv, VaultShapes, BoxesOnce, Environments, AtMostOne
  <1> QED BY <1>2, <1>3 DEF VauInv

(* The one row of a credential.                                             *)
LEMMA RowIsOne ==
    ASSUME VauInv, NEW c \in Present
    PROVE  c \in Creds /\ Row(c) \in RowShape /\ cred[c] = {Row(c)}
  <1>1. c \in Creds /\ Row(c) \in cred[c]
    BY DEF Present, Row
  <1> QED BY <1>1 DEF VauInv, VaultShapes, RowsOnce, AtMostOne

(* A run begins with what is to be refreshed.                               *)
LEMMA StartStep == ASSUME VauInv, NEW s \in Sessions, StartRun(s) PROVE VauInv'
  <1> DEFINE r == [NoRun EXCEPT !.pc = "refresh", !.todo = Expiring, !.floor = Floor]
  <1>1. /\ run' = [run EXCEPT ![s] = r] /\ runs' = runs + 1 /\ runs < MaxRuns
        /\ run[s].pc = "idle" /\ UNCHANGED <<vault, cred, provider, box, lost>>
    BY DEF StartRun
  <1>2. \A i \in Expiring : /\ i \in ItemShape /\ i.cred \in Present
                            /\ i.refresh = Row(i.cred).refresh
    BY RowIsOne DEF Expiring, ItemShape, RowShape
  <1>3. \A i, j \in Expiring : i.cred = j.cred => i = j
    BY <1>2 DEF ItemShape
  <1>4. /\ Floor \in [Creds -> Nat]
        /\ \A c \in Creds : \A row \in cred[c] : Floor[c] <= row.rev
        /\ \A c \in Creds : provider[c] = 0 => Floor[c] = 0
    <2>1. ASSUME NEW c \in Creds
          PROVE  /\ Floor[c] \in Nat
                 /\ provider[c] = 0 => Floor[c] = 0
                 /\ \A row \in cred[c] : Floor[c] <= row.rev
      <3>1. CASE c \in Present
        <4>1. provider[c] # 0
          BY <3>1 DEF Present, VauInv, Floors
        <4>2. Row(c).rev \in Nat /\ cred[c] = {Row(c)}
          BY <3>1, RowIsOne DEF RowShape
        <4>3. Floor[c] = Row(c).rev
          BY <3>1, <4>1 DEF Floor
        <4> QED BY <4>1, <4>2, <4>3
      <3>2. CASE c \notin Present
        <4>1. cred[c] = {}
          BY <3>2 DEF Present
        <4>2. Floor[c] = IF provider[c] = 0 THEN 0 ELSE MaxRev + 1
          BY <3>2 DEF Floor
        <4> QED BY <4>1, <4>2 DEF MaxRev
      <3> QED BY <3>1, <3>2
    <2> QED BY <2>1 DEF Floor
  <1>5. /\ r \in RunShape /\ r.pc = "refresh" /\ r.todo = Expiring /\ r.ask = {} /\ r.floor = Floor
    <2>1. Expiring \subseteq ItemShape
      BY <1>2
    <2> HIDE DEF Expiring, Floor
    <2> QED BY <1>4, <2>1 DEF NoRun, RunShape
  <1> HIDE DEF r
  <1>6. /\ run' \in [Sessions -> RunShape] /\ run'[s] = r
        /\ \A t \in Sessions \ {s} : run'[t] = run[t]
    BY <1>1, <1>5, SetRun
  <1>7. VaultShapes' /\ RowsOnce'
    BY <1>1, <1>6 DEF VauInv, VaultShapes, RowsOnce
  <1>8. RunsOnce' /\ BoxesOnce'
    BY <1>1, <1>3, <1>5, <1>6 DEF VauInv, RunsOnce, BoxesOnce, AtMostOne
  <1>9. Floors' /\ Environments'
    BY <1>1, <1>4, <1>5, <1>6 DEF VauInv, Floors, Environments
  <1>10. \A i \in Expiring : /\ 1 <= i.refresh /\ i.refresh <= provider[i.cred]
                             /\ \E row \in cred[i.cred] : i.refresh = row.refresh
    BY <1>2, RowIsOne DEF VauInv, Issued
  <1>11. Issued'
    BY <1>1, <1>5, <1>6, <1>10 DEF VauInv, Issued
  <1>12. OneGrant'
    BY <1>1, <1>5, <1>6, <1>10 DEF VauInv, OneGrant
  <1>13. Replaced'
    <2>1. run[s].ask = {}
      BY <1>1 DEF VauInv, RunsOnce
    <2> QED BY <1>1, <1>5, <1>6, <2>1 DEF VauInv, Replaced
  <1>14. Counted'
    <2>1. \A c \in Creds : Writers(c)' \subseteq Writers(c) \cup {s} /\ Askers(c)' \subseteq Askers(c) \cup {s}
      BY <1>6 DEF Writers, Askers
    <2>2. ASSUME NEW c \in Creds
          PROVE  /\ \A row \in cred[c] : row.rev + Cardinality(Writers(c)') <= 1 + runs'
                 /\ provider[c] + Cardinality(Askers(c)') <= 1 + runs'
      <3>1. /\ Writers(c) \in SUBSET Sessions /\ Writers(c)' \in SUBSET Sessions
            /\ Askers(c) \in SUBSET Sessions /\ Askers(c)' \in SUBSET Sessions
        BY DEF Writers, Askers
      <3>2. /\ Cardinality(Writers(c)') \in Nat /\ Cardinality(Writers(c)) \in Nat
            /\ Cardinality(Writers(c)') <= Cardinality(Writers(c)) + 1
            /\ Cardinality(Askers(c)') \in Nat /\ Cardinality(Askers(c)) \in Nat
            /\ Cardinality(Askers(c)') <= Cardinality(Askers(c)) + 1
        BY <2>1, <3>1, Counting
      <3>3. provider[c] \in Nat /\ runs \in Nat /\ \A row \in cred[c] : row.rev \in Nat
        BY DEF VauInv, VaultShapes, RowShape
      <3> QED BY <1>1, <3>2, <3>3 DEF VauInv, Counted
    <2> QED BY <1>1, <2>2 DEF Counted
  <1> QED BY <1>7, <1>8, <1>9, <1>11, <1>12, <1>13, <1>14 DEF VauInv

(* The provider grants a new refresh token and, if it rotates, forgets the old. *)
LEMMA GrantsStep == ASSUME VauInv, NEW s \in Sessions, ProviderGrants(s) PROVE VauInv'
  <1>1. PICK x \in run[s].ask :
          LET c == x.item.cred
              n == IF c \in Rotating THEN provider[c] + 1 ELSE provider[c]
          IN  /\ x.stage = "asked" /\ Takes(x.item)
              /\ provider' = [provider EXCEPT ![c] = n]
              /\ run' = [run EXCEPT ![s].ask = {[x EXCEPT !.stage = "granted", !.new = n]}]
    BY DEF ProviderGrants
  <1>2. run[s] \in RunShape /\ run[s].ask = {x} /\ run[s].pc = "refresh"
    BY <1>1, RunIs DEF AtMostOne, VauInv, RunsOnce
  <1>3. x \in AskShape /\ x.item \in ItemShape /\ x.item.cred \in Creds
    BY <1>2 DEF RunShape, AskShape, ItemShape
  <1>4. PICK c \in Creds : c = x.item.cred
    BY <1>3
  <1>5. PICK n \in Nat : n = IF c \in Rotating THEN provider[c] + 1 ELSE provider[c]
    BY DEF VauInv, VaultShapes
  <1> DEFINE y == [x EXCEPT !.stage = "granted", !.new = n]
             r == [run[s] EXCEPT !.ask = {y}]
  <1>6. y \in AskShape /\ y.stage = "granted" /\ y.item = x.item /\ y.new = n
    BY <1>3 DEF AskShape
  <1>7. run' = [run EXCEPT ![s].ask = {y}] /\ provider' = [provider EXCEPT ![c] = n]
    BY <1>1, <1>4, <1>5
  <1> HIDE DEF y
  <1>8. /\ r \in RunShape /\ r.todo = run[s].todo /\ r.ask = {y} /\ r.env = run[s].env
        /\ r.pc = run[s].pc /\ r.floor = run[s].floor
    BY <1>2, <1>6 DEF RunShape
  <1>9. run' = [run EXCEPT ![s] = r]
    BY <1>2, <1>7 DEF VauInv, VaultShapes, RunShape
  <1> HIDE DEF r
  <1>10. /\ run' \in [Sessions -> RunShape] /\ run'[s] = r
         /\ \A t \in Sessions \ {s} : run'[t] = run[t]
         /\ UNCHANGED <<vault, cred, box, lost, runs>>
    BY <1>8, <1>9, SetRun DEF ProviderGrants
  <1>11. /\ provider \in [Creds -> Nat] /\ provider' \in [Creds -> Nat] /\ provider'[c] = n
         /\ \A d \in Creds : d # c => provider'[d] = provider[d]
         /\ n >= provider[c] /\ x.item.refresh = provider[c] /\ x.stage = "asked"
         /\ c \notin Rotating => n = provider[c]
         /\ c \in Rotating => n = provider[c] + 1
    BY <1>1, <1>4, <1>5, <1>7 DEF VauInv, VaultShapes, Takes
  <1>12. /\ \A t \in Sessions : \A i \in run[t].todo : i.cred \in Creds /\ i.refresh \in Nat
         /\ \A t \in Sessions : \A z \in run[t].ask :
               z.item.cred \in Creds /\ z.item.refresh \in Nat /\ z.new \in Nat
         /\ \A d \in Creds : \A row \in cred[d] : row.refresh \in Nat /\ row.rev \in Nat
    BY DEF VauInv, VaultShapes, RunShape, AskShape, ItemShape, RowShape
  <1>13. VaultShapes' /\ RowsOnce'
    BY <1>10, <1>11 DEF VauInv, VaultShapes, RowsOnce
  <1>14. RunsOnce' /\ BoxesOnce'
    BY <1>2, <1>6, <1>8, <1>10 DEF VauInv, RunsOnce, BoxesOnce, AtMostOne
  <1>15. Floors' /\ Environments'
    BY <1>8, <1>10, <1>11 DEF VauInv, Floors, Environments
  (* Nobody else has a grant of this provider, which has just taken a token. *)
  <1>16. c \in Rotating => \A t \in Sessions : \A z \in run[t].ask :
            z.item.cred = c => z.stage # "granted"
    <2> SUFFICES ASSUME c \in Rotating, NEW t \in Sessions, NEW z \in run[t].ask,
                        z.item.cred = c, z.stage = "granted"
                 PROVE  FALSE
      OBVIOUS
    <2>1. CASE t = s
      BY <1>2, <1>11, <2>1
    <2>2. CASE t # s
      <3>1. x.item.refresh < provider[x.item.cred]
        BY <1>2, <1>4, <1>11, <2>2 DEF VauInv, OneGrant
      <3> QED BY <1>4, <1>11, <3>1
    <2> QED BY <2>1, <2>2
  <1>17. Issued'
    <2>1. /\ \A d \in Creds : provider[d] <= provider'[d]
          /\ \A d \in Creds \ Rotating : provider'[d] = provider[d]
      BY <1>11
    <2>2. \A t \in Sessions : \A z \in run'[t].ask :
              /\ 1 <= z.item.refresh /\ z.item.refresh <= provider'[z.item.cred]
              /\ z.new <= provider'[z.item.cred]
              /\ z.stage = "granted" => z.new = provider'[z.item.cred]
      <3> SUFFICES ASSUME NEW t \in Sessions, NEW z \in run'[t].ask
                   PROVE  /\ 1 <= z.item.refresh /\ z.item.refresh <= provider'[z.item.cred]
                          /\ z.new <= provider'[z.item.cred]
                          /\ z.stage = "granted" => z.new = provider'[z.item.cred]
        OBVIOUS
      <3>1. CASE t = s
        <4>1. z = y /\ 1 <= x.item.refresh
          BY <1>2, <1>8, <1>10, <3>1 DEF VauInv, Issued
        <4> QED BY <1>4, <1>6, <1>11, <4>1
      <3>2. CASE t # s
        <4>1. z \in run[t].ask
          BY <1>10, <3>2
        <4>2. z.item.cred \in Creds /\ z.item.refresh \in Nat /\ z.new \in Nat
          BY <1>12, <4>1
        <4>3. /\ 1 <= z.item.refresh /\ z.item.refresh <= provider[z.item.cred]
              /\ z.new <= provider[z.item.cred]
              /\ z.stage = "granted" => z.new = provider[z.item.cred]
          BY <4>1 DEF VauInv, Issued
        <4>4. z.stage = "granted" => provider'[z.item.cred] = provider[z.item.cred]
          BY <1>11, <1>16, <4>1, <4>2
        <4> QED BY <1>11, <2>1, <4>2, <4>3, <4>4
      <3> QED BY <3>1, <3>2
    <2>3. \A d \in Creds : \A row \in cred'[d] : 1 <= row.refresh /\ row.refresh <= provider'[d]
      <3>1. \A d \in Creds : \A row \in cred[d] : 1 <= row.refresh /\ row.refresh <= provider[d]
        BY DEF VauInv, Issued
      <3> QED BY <1>10, <1>11, <1>12, <2>1, <3>1
    <2>4. \A t \in Sessions : \A i \in run'[t].todo : 1 <= i.refresh /\ i.refresh <= provider'[i.cred]
      <3>1. \A t \in Sessions : \A i \in run[t].todo : 1 <= i.refresh /\ i.refresh <= provider[i.cred]
        BY DEF VauInv, Issued
      <3>2. \A t \in Sessions : run'[t].todo = run[t].todo
        BY <1>8, <1>10
      <3> QED BY <1>11, <1>12, <2>1, <3>1, <3>2
    <2>5. \A d \in Creds \ Rotating : provider'[d] <= 1
      BY <2>1 DEF VauInv, Issued
    <2> QED BY <2>2, <2>3, <2>4, <2>5 DEF Issued
  <1>18. OneGrant'
    <2> SUFFICES ASSUME NEW t \in Sessions, NEW z \in run'[t].ask, z.stage = "granted",
                        z.item.cred \in Rotating
                 PROVE  /\ \A row \in cred[z.item.cred] : row.refresh < provider'[z.item.cred]
                        /\ \A u \in Sessions : \A i \in run'[u].todo :
                              i.cred = z.item.cred => i.refresh < provider'[i.cred]
                        /\ \A u \in Sessions : \A w \in run'[u].ask :
                              w.item.cred = z.item.cred /\ u # t =>
                                 /\ w.stage # "granted"
                                 /\ w.stage = "asked" => w.item.refresh < provider'[w.item.cred]
      BY <1>10 DEF OneGrant
    <2>0. \A u \in Sessions : run'[u].todo = run[u].todo
      BY <1>8, <1>10
    <2>1. CASE t = s
      <3>1. z.item.cred = c /\ provider'[c] = provider[c] + 1 /\ provider[c] \in Nat
        BY <1>4, <1>6, <1>8, <1>10, <1>11, <2>1
      <3>2. \A row \in cred[c] : row.refresh < provider'[c]
        BY <1>12, <3>1 DEF VauInv, Issued
      <3>3. \A u \in Sessions : \A i \in run[u].todo : i.cred = c => i.refresh < provider'[c]
        BY <1>12, <3>1 DEF VauInv, Issued
      <3>4. \A u \in Sessions : \A w \in run[u].ask : w.item.cred = c =>
                 w.stage # "granted" /\ w.item.refresh < provider'[c]
        BY <1>12, <1>16, <3>1 DEF VauInv, Issued
      <3> QED BY <1>10, <2>0, <2>1, <3>1, <3>2, <3>3, <3>4
    <2>2. CASE t # s
      <3>1. z \in run[t].ask
        BY <1>10, <2>2
      <3>2. z.item.cred # c /\ provider'[z.item.cred] = provider[z.item.cred]
        BY <1>11, <1>12, <1>16, <3>1
      <3>3. /\ \A row \in cred[z.item.cred] : row.refresh < provider[z.item.cred]
            /\ \A u \in Sessions : \A i \in run[u].todo :
                  i.cred = z.item.cred => i.refresh < provider[i.cred]
            /\ \A u \in Sessions : \A w \in run[u].ask :
                  w.item.cred = z.item.cred /\ u # t =>
                      /\ w.stage # "granted"
                      /\ w.stage = "asked" => w.item.refresh < provider[w.item.cred]
        BY <3>1 DEF VauInv, OneGrant
      <3>4. \A w \in run'[s].ask : w.item.cred = c
        BY <1>4, <1>6, <1>8, <1>10
      <3>5. \A u \in Sessions : \A w \in run'[u].ask :
                  w.item.cred = z.item.cred => w \in run[u].ask
        BY <1>10, <3>2, <3>4
      <3> QED BY <2>0, <3>2, <3>3, <3>5
    <2> QED BY <2>1, <2>2
  <1>19. Replaced'
    <2> SUFFICES ASSUME NEW d \in Creds \ lost, NEW row \in cred[d]
                 PROVE  \/ row.refresh = provider'[d]
                        \/ \E t \in Sessions : \E z \in run'[t].ask :
                              z.stage = "granted" /\ z.item.cred = d
      BY <1>10 DEF Replaced
    <2>1. CASE d = c
      BY <1>4, <1>6, <1>8, <1>10, <2>1
    <2>2. CASE d # c
      <3>1. \/ row.refresh = provider[d]
            \/ \E t \in Sessions : \E z \in run[t].ask : z.stage = "granted" /\ z.item.cred = d
        BY DEF VauInv, Replaced
      <3>2. \A t \in Sessions : \A z \in run[t].ask : z.stage = "granted" => z \in run'[t].ask
        BY <1>2, <1>10, <1>11
      <3> QED BY <1>11, <2>2, <3>1, <3>2
    <2> QED BY <2>1, <2>2
  <1>20. Counted'
    <2>1. \A d \in Creds : Writers(d)' \subseteq Writers(d) /\ Askers(d)' \subseteq Askers(d)
      BY <1>2, <1>6, <1>8, <1>10 DEF Writers, Askers
    <2>2. s \in Askers(c) /\ Askers(c)' \subseteq Askers(c) \ {s}
      <3>1. \A i \in run[s].todo : i.cred # c
        BY <1>2, <1>4 DEF VauInv, RunsOnce
      <3>2. s \notin Askers(c)'
        BY <1>6, <1>8, <1>10, <3>1 DEF Askers
      <3> QED BY <1>2, <1>4, <1>11, <2>1, <3>2 DEF Askers
    <2>3. ASSUME NEW d \in Creds
          PROVE  /\ \A row \in cred[d] : row.rev + Cardinality(Writers(d)') <= 1 + runs
                 /\ provider'[d] + Cardinality(Askers(d)') <= 1 + runs
      <3>1. /\ Writers(d) \in SUBSET Sessions /\ Writers(d)' \in SUBSET Sessions
            /\ Askers(d) \in SUBSET Sessions /\ Askers(d)' \in SUBSET Sessions
        BY DEF Writers, Askers
      <3>2. /\ Cardinality(Writers(d)') \in Nat /\ Cardinality(Writers(d)) \in Nat
            /\ Cardinality(Writers(d)') <= Cardinality(Writers(d))
            /\ Cardinality(Askers(d)') \in Nat /\ Cardinality(Askers(d)) \in Nat
            /\ Cardinality(Askers(d)') <= Cardinality(Askers(d))
            /\ d = c => Cardinality(Askers(d)') + 1 <= Cardinality(Askers(d))
        BY <2>1, <2>2, <3>1, Counting
      <3>3. provider[d] \in Nat /\ runs \in Nat
        BY DEF VauInv, VaultShapes
      <3>4. /\ \A row \in cred[d] : row.rev + Cardinality(Writers(d)) <= 1 + runs
            /\ provider[d] + Cardinality(Askers(d)) <= 1 + runs
        BY DEF VauInv, Counted
      <3>5. provider'[d] + Cardinality(Askers(d)') <= provider[d] + Cardinality(Askers(d))
        BY <1>11, <3>2, <3>3
      <3>6. \A row \in cred[d] : row.rev + Cardinality(Writers(d)') <= row.rev + Cardinality(Writers(d))
        BY <1>12, <3>2
      <3>7. \A row \in cred[d] : row.rev \in Nat
        BY <1>12
      <3>8. provider'[d] \in Nat
        BY <1>11
      <3> QED BY <3>2, <3>3, <3>4, <3>5, <3>6, <3>7, <3>8
    <2> QED BY <1>10, <2>3 DEF Counted
  <1> QED BY <1>13, <1>14, <1>15, <1>17, <1>18, <1>19, <1>20 DEF VauInv

(* Containers whose environment nobody touches.                             *)
SameBoxes ==
    /\ box' \in [Sessions -> SUBSET BoxShape]
    /\ \A s \in Sessions : \A b \in box'[s] : \E o \in box[s] : b.env = o.env
    /\ \A s \in Sessions : box[s] # {} => box'[s] # {}
    /\ \A s \in Sessions : AtMostOne(box'[s])

(* Marking the containers that a change made out of date changes nothing else. *)
LEMMA Marked ==
    ASSUME VauInv, \/ \E c \in Creds : Touch(c)
                  \/ \E gone \in SUBSET Creds : Forget(gone)
                  \/ UNCHANGED box
    PROVE  SameBoxes
  <1>1. box \in [Sessions -> SUBSET BoxShape] /\ \A s \in Sessions : AtMostOne(box[s])
    BY DEF VauInv, VaultShapes, BoxesOnce
  <1>2. ASSUME NEW c \in Creds, Touch(c) PROVE SameBoxes
    <2> DEFINE mark(b) == [b EXCEPT !.newer = @ \cup {c}]
    <2>1. \A b \in BoxShape : mark(b) \in BoxShape /\ mark(b).env = b.env
      BY DEF BoxShape
    <2>2. box' = [s \in Sessions |-> {mark(b) : b \in box[s]}]
      BY <1>2 DEF Touch
    <2> HIDE DEF mark
    <2> QED BY <1>1, <2>1, <2>2 DEF SameBoxes, AtMostOne
  <1>3. ASSUME NEW gone \in SUBSET Creds, Forget(gone) PROVE SameBoxes
    <2> DEFINE mark(b) == [b EXCEPT !.newer = @ \ gone]
    <2>1. \A b \in BoxShape : mark(b) \in BoxShape /\ mark(b).env = b.env
      BY DEF BoxShape
    <2>2. box' = [s \in Sessions |-> {mark(b) : b \in box[s]}]
      BY <1>3 DEF Forget
    <2> HIDE DEF mark
    <2> QED BY <1>1, <2>1, <2>2 DEF SameBoxes, AtMostOne
  <1>4. CASE UNCHANGED box
    BY <1>1, <1>4 DEF SameBoxes
  <1> QED BY <1>2, <1>3, <1>4

(* What the runs and the containers know does not depend on the rows.       *)
LEMMA BoxesKept ==
    ASSUME VauInv, SameBoxes, UNCHANGED run
    PROVE  BoxesOnce' /\ Environments' /\ RunsOnce'
  BY DEF VauInv, SameBoxes, BoxesOnce, Environments, RunsOnce

(* A credential is added, or replaced by one that is current.               *)
LEMMA AddStep == ASSUME VauInv, AddCredential PROVE VauInv'
  <1>1. PICK c \in Creds :
          /\ cred[c] = {} /\ provider[c] = 0
          /\ provider' = [provider EXCEPT ![c] = 1]
          /\ cred' = [cred EXCEPT ![c] = {[rev |-> 1, refresh |-> 1, fresh |-> TRUE]}]
          /\ Touch(c)
    BY DEF AddCredential
  <1> DEFINE new == [rev |-> 1, refresh |-> 1, fresh |-> TRUE]
  <1>2. new \in RowShape /\ new.rev = 1 /\ new.refresh = 1 /\ cred' = [cred EXCEPT ![c] = {new}]
    BY <1>1 DEF RowShape
  <1> HIDE DEF new
  <1>3. vault /\ UNCHANGED <<vault, run, lost, runs>> /\ SameBoxes
    BY <1>1, Marked DEF AddCredential
  <1>4. /\ cred' \in [Creds -> SUBSET RowShape] /\ cred'[c] = {new}
        /\ provider' \in [Creds -> Nat] /\ provider'[c] = 1
        /\ \A d \in Creds : d # c => cred'[d] = cred[d] /\ provider'[d] = provider[d]
    BY <1>1, <1>2 DEF VauInv, VaultShapes
  (* Nobody has read a refresh token of a credential that was not there.    *)
  <1>5. /\ \A s \in Sessions : \A i \in run[s].todo : i.cred \in Creds \ {c}
        /\ \A s \in Sessions : \A x \in run[s].ask : x.item.cred \in Creds \ {c}
    <2>1. /\ \A s \in Sessions : \A i \in run[s].todo : i \in ItemShape
          /\ \A s \in Sessions : \A x \in run[s].ask : x.item \in ItemShape
      BY DEF VauInv, VaultShapes, RunShape, AskShape
    <2>2. /\ \A s \in Sessions : \A i \in run[s].todo : i.refresh \in Nat /\ i.cred \in Creds
          /\ \A s \in Sessions : \A x \in run[s].ask : x.item.refresh \in Nat /\ x.item.cred \in Creds
      BY <2>1 DEF ItemShape
    <2> QED BY <1>1, <2>2 DEF VauInv, Issued
  <1>6. VaultShapes' /\ RowsOnce'
    BY <1>3, <1>4 DEF VauInv, VaultShapes, RowsOnce, AtMostOne, SameBoxes
  <1>7. BoxesOnce' /\ Environments' /\ RunsOnce'
    BY <1>3, BoxesKept
  <1>8. Issued'
    BY <1>2, <1>3, <1>4, <1>5 DEF VauInv, Issued
  <1>9. OneGrant'
    BY <1>3, <1>4, <1>5 DEF VauInv, OneGrant
  <1>10. Replaced'
    BY <1>2, <1>3, <1>4 DEF VauInv, Replaced
  <1>11. Floors'
    BY <1>1, <1>2, <1>3, <1>4 DEF VauInv, Floors
  <1>12. Counted'
    <2>1. \A d \in Creds : Writers(d)' = Writers(d) /\ Askers(d)' = Askers(d)
      BY <1>3 DEF Writers, Askers
    <2>2. Writers(c) = {} /\ Askers(c) = {}
      BY <1>5 DEF Writers, Askers
    <2>3. Cardinality(Writers(c)) = 0 /\ Cardinality(Askers(c)) = 0 /\ runs \in Nat
      BY <2>2, FS_EmptySet DEF VauInv, VaultShapes
    <2> QED BY <1>2, <1>3, <1>4, <2>1, <2>3 DEF VauInv, Counted
  <1> QED BY <1>6, <1>7, <1>8, <1>9, <1>10, <1>11, <1>12 DEF VauInv

(* A row goes, or stays with its numbers.                                   *)
SameNumbers ==
    \A c \in Creds : \A row \in cred'[c] : \E o \in cred[c] :
        row.rev = o.rev /\ row.refresh = o.refresh

(* A credential that is gone, or a vault, only takes from what there is.    *)
LEMMA Fewer ==
    ASSUME VauInv, SameBoxes, UNCHANGED <<provider, run, lost, runs>>, vault' \in BOOLEAN,
           cred' \in [Creds -> SUBSET RowShape], SameNumbers, RowsOnce'
    PROVE  VauInv'
  <1>1. VaultShapes'
    BY DEF VauInv, VaultShapes, SameBoxes
  <1>2. BoxesOnce' /\ Environments' /\ RunsOnce'
    BY BoxesKept
  <1>3. Issued'
    BY DEF VauInv, Issued, SameNumbers
  <1>4. OneGrant'
    <2>1. \A s \in Sessions : \A x \in run[s].ask : x.item.cred \in Creds
      BY DEF VauInv, VaultShapes, RunShape, AskShape, ItemShape
    <2>2. \A s \in Sessions : \A x \in run[s].ask :
              x.stage = "granted" /\ x.item.cred \in Rotating =>
                  \A row \in cred'[x.item.cred] : row.refresh < provider[x.item.cred]
      BY <2>1 DEF VauInv, OneGrant, SameNumbers
    <2> QED BY <2>2 DEF VauInv, OneGrant
  <1>5. Replaced'
    BY DEF VauInv, Replaced, SameNumbers
  <1>6. Floors'
    <2>1. \A s \in Sessions : \A c \in Creds : \A row \in cred'[c] : run[s].floor[c] <= row.rev
      BY DEF VauInv, Floors, SameNumbers
    <2>2. \A c \in Creds : cred[c] = {} => cred'[c] = {}
      BY DEF SameNumbers
    <2> QED BY <2>1, <2>2 DEF VauInv, Floors
  <1>7. Counted'
    <2>1. \A d \in Creds : Writers(d)' = Writers(d) /\ Askers(d)' = Askers(d)
      BY DEF Writers, Askers
    <2>2. \A c \in Creds : \A row \in cred'[c] : row.rev + Cardinality(Writers(c)) <= 1 + runs
      BY DEF VauInv, Counted, SameNumbers
    <2> QED BY <2>1, <2>2 DEF VauInv, Counted
  <1> QED BY <1>1, <1>2, <1>3, <1>4, <1>5, <1>6, <1>7 DEF VauInv

(* Vaults and credentials are created and deleted.                          *)
LEMMA StoreSteps ==
    ASSUME VauInv, Expire \/ DeleteCredential \/ DeleteVault
    PROVE  VauInv'
  <1>1. CASE Expire
    <2>1. PICK c \in Present : cred' = [cred EXCEPT ![c] = {[Row(c) EXCEPT !.fresh = FALSE]}]
      BY <1>1 DEF Expire
    <2> DEFINE row == [Row(c) EXCEPT !.fresh = FALSE]
    <2>2. c \in Creds /\ Row(c) \in cred[c] /\ Row(c) \in RowShape /\ cred[c] # {}
      BY RowIsOne DEF Present
    <2>3. row \in RowShape /\ row.rev = Row(c).rev /\ row.refresh = Row(c).refresh
      BY <2>2 DEF RowShape
    <2>4. cred' = [cred EXCEPT ![c] = {row}]
      BY <2>1
    <2> HIDE DEF row
    <2>5. SameBoxes /\ UNCHANGED <<vault, provider, run, lost, runs>>
      BY <1>1, Marked DEF Expire
    <2>6. /\ cred' \in [Creds -> SUBSET RowShape] /\ cred'[c] = {row}
          /\ \A d \in Creds : d # c => cred'[d] = cred[d]
      BY <2>2, <2>3, <2>4 DEF VauInv, VaultShapes
    <2>7. SameNumbers
      BY <2>2, <2>3, <2>6 DEF SameNumbers
    <2>8. RowsOnce' /\ vault' \in BOOLEAN
      BY <2>2, <2>5, <2>6 DEF VauInv, VaultShapes, RowsOnce, AtMostOne
    <2> QED BY <2>5, <2>6, <2>7, <2>8, Fewer
  <1>2. CASE DeleteCredential
    <2>1. PICK c \in Creds : cred' = [cred EXCEPT ![c] = {}] /\ Forget({c})
      BY <1>2 DEF DeleteCredential, Present
    <2>2. {c} \in SUBSET Creds
      OBVIOUS
    <2>3. SameBoxes /\ UNCHANGED <<vault, provider, run, lost, runs>>
      BY <1>2, <2>1, <2>2, Marked DEF DeleteCredential
    <2>4. /\ cred' \in [Creds -> SUBSET RowShape] /\ cred'[c] = {}
          /\ \A d \in Creds : d # c => cred'[d] = cred[d]
      BY <2>1 DEF VauInv, VaultShapes
    <2>5. SameNumbers /\ RowsOnce' /\ vault' \in BOOLEAN
      BY <2>3, <2>4 DEF VauInv, VaultShapes, RowsOnce, AtMostOne, SameNumbers
    <2> QED BY <2>3, <2>4, <2>5, Fewer
  <1>3. CASE DeleteVault
    <2>1. Creds \in SUBSET Creds
      OBVIOUS
    <2>2. SameBoxes /\ UNCHANGED <<provider, run, lost, runs>>
      BY <1>3, <2>1, Marked DEF DeleteVault
    <2>3. cred' \in [Creds -> SUBSET RowShape] /\ \A c \in Creds : cred'[c] = {}
      BY <1>3 DEF DeleteVault
    <2>4. SameNumbers /\ RowsOnce' /\ vault' \in BOOLEAN
      BY <1>3, <2>3 DEF DeleteVault, SameNumbers, RowsOnce, AtMostOne
    <2> QED BY <2>2, <2>3, <2>4, Fewer
  <1> QED BY <1>1, <1>2, <1>3

(* The answer of the provider is written over the row that is there.        *)
LEMMA RefreshedStep == ASSUME VauInv, NEW s \in Sessions, Refreshed(s) PROVE VauInv'
  <1>1. PICK x \in run[s].ask :
          /\ x.stage = "granted"
          /\ UpdateOAuthTokens(x.item.cred, x.new)
          /\ IF x.item.cred \in Present THEN Touch(x.item.cred) ELSE UNCHANGED box
    BY DEF Refreshed
  <1>2. run[s] \in RunShape /\ run[s].ask = {x} /\ run[s].pc = "refresh"
    BY RunIs DEF AtMostOne, VauInv, RunsOnce
  <1>3. x \in AskShape /\ x.item.cred \in Creds /\ x.new \in Nat
    BY <1>2 DEF RunShape, AskShape, ItemShape
  <1>4. PICK c \in Creds, n \in Nat : c = x.item.cred /\ n = x.new
    BY <1>3
  <1>5. SameBoxes
    BY <1>1, <1>3, Marked
  <1> DEFINE r == [run[s] EXCEPT !.ask = {}]
  <1>6. /\ r \in RunShape /\ r.todo = run[s].todo /\ r.ask = {} /\ r.env = run[s].env
        /\ r.pc = run[s].pc /\ r.floor = run[s].floor
    BY <1>2 DEF RunShape
  <1>7. run' = [run EXCEPT ![s] = r]
    BY <1>2 DEF Refreshed, VauInv, VaultShapes, RunShape
  <1> HIDE DEF r
  <1>8. /\ run' \in [Sessions -> RunShape] /\ run'[s] = r
        /\ \A t \in Sessions \ {s} : run'[t] = run[t]
        /\ UNCHANGED <<vault, provider, lost, runs>>
    BY <1>6, <1>7, SetRun DEF Refreshed
  <1> DEFINE new(row) == [rev |-> row.rev + 1, refresh |-> n, fresh |-> TRUE]
  <1>9. \A row \in RowShape : new(row) \in RowShape /\ new(row).rev = row.rev + 1 /\ new(row).refresh = n
    BY <1>4 DEF RowShape
  <1>10. cred' = [cred EXCEPT ![c] = {new(row) : row \in @}]
    BY <1>1, <1>4 DEF UpdateOAuthTokens
  <1> HIDE DEF new
  <1>11. /\ cred' \in [Creds -> SUBSET RowShape] /\ cred'[c] = {new(row) : row \in cred[c]}
         /\ \A d \in Creds : d # c => cred'[d] = cred[d]
    BY <1>9, <1>10 DEF VauInv, VaultShapes
  <1>12. provider[c] = n /\ 1 <= n
    <2>1. x.item.refresh \in Nat /\ provider[c] \in Nat
      BY <1>2, <1>3 DEF RunShape, AskShape, ItemShape, VauInv, VaultShapes
    <2> QED BY <1>1, <1>4, <2>1 DEF VauInv, Issued
  <1>13. \A row \in cred'[c] : \E o \in cred[c] : row.rev = o.rev + 1 /\ o.rev \in Nat /\ row.refresh = n
    BY <1>9, <1>11 DEF VauInv, VaultShapes, RowShape
  <1>14. VaultShapes'
    BY <1>5, <1>8, <1>11 DEF VauInv, VaultShapes, SameBoxes
  <1>15. RowsOnce'
    <2>1. AtMostOne(cred'[c]) /\ (cred'[c] # {} => cred[c] # {})
      BY <1>11 DEF VauInv, RowsOnce, AtMostOne
    <2> QED BY <1>8, <1>11, <2>1 DEF VauInv, RowsOnce
  <1>16. RunsOnce' /\ BoxesOnce' /\ Environments'
    BY <1>2, <1>5, <1>6, <1>8 DEF VauInv, RunsOnce, BoxesOnce, Environments, SameBoxes, AtMostOne
  <1>17. Issued'
    <2>1. \A d \in Creds : \A row \in cred'[d] : 1 <= row.refresh /\ row.refresh <= provider[d]
      BY <1>11, <1>12, <1>13 DEF VauInv, Issued
    <2> QED BY <1>6, <1>8, <2>1 DEF VauInv, Issued
  <1>18. OneGrant'
    <2>1. ASSUME NEW t \in Sessions, NEW z \in run'[t].ask, z.stage = "granted",
                 z.item.cred \in Rotating
          PROVE  \A row \in cred'[z.item.cred] : row.refresh < provider[z.item.cred]
      <3>1. t # s /\ z \in run[t].ask
        BY <1>6, <1>8
      <3>2. z.item.cred # c
        BY <1>1, <1>4, <2>1, <3>1 DEF VauInv, OneGrant
      <3>3. z.item.cred \in Creds
        BY <3>1 DEF VauInv, VaultShapes, RunShape, AskShape, ItemShape
      <3> QED BY <1>11, <2>1, <3>1, <3>2, <3>3 DEF VauInv, OneGrant
    <2> QED BY <1>6, <1>8, <2>1 DEF VauInv, OneGrant
  <1>19. Replaced'
    <2> SUFFICES ASSUME NEW d \in Creds \ lost, NEW row \in cred'[d]
                 PROVE  \/ row.refresh = provider[d]
                        \/ \E t \in Sessions : \E z \in run'[t].ask :
                              z.stage = "granted" /\ z.item.cred = d
      BY <1>8 DEF Replaced
    <2>1. CASE d = c
      BY <1>12, <1>13, <2>1
    <2>2. CASE d # c
      BY <1>2, <1>4, <1>8, <1>11, <2>2 DEF VauInv, Replaced
    <2> QED BY <2>1, <2>2
  <1>20. Floors'
    <2>1. ASSUME NEW t \in Sessions, NEW d \in Creds, NEW row \in cred'[d]
          PROVE  run[t].floor[d] <= row.rev
      <3>1. CASE d = c
        <4>1. PICK o \in cred[c] : row.rev = o.rev + 1 /\ o.rev \in Nat
          BY <1>13, <3>1
        <4>2. run[t].floor[c] <= o.rev /\ run[t].floor[c] \in Nat
          BY DEF VauInv, Floors, VaultShapes, RunShape
        <4> QED BY <3>1, <4>1, <4>2
      <3>2. CASE d # c
        BY <1>11, <3>2 DEF VauInv, Floors
      <3> QED BY <3>1, <3>2
    <2>2. \A t \in Sessions : run'[t].floor = run[t].floor
      BY <1>6, <1>8
    <2>3. \A d \in Creds : cred[d] = {} => cred'[d] = {}
      BY <1>11
    <2> QED BY <1>8, <2>1, <2>2, <2>3 DEF VauInv, Floors
  <1>21. Counted'
    <2>1. \A d \in Creds : Writers(d)' \subseteq Writers(d) /\ Askers(d)' \subseteq Askers(d)
      BY <1>6, <1>8 DEF Writers, Askers
    <2>2. s \in Writers(c) /\ Writers(c)' \subseteq Writers(c) \ {s}
      <3>1. \A i \in run[s].todo : i.cred # c
        BY <1>2, <1>4 DEF VauInv, RunsOnce
      <3>2. s \notin Writers(c)'
        BY <1>6, <1>8, <3>1 DEF Writers
      <3> QED BY <1>2, <1>4, <2>1, <3>2 DEF Writers
    <2>3. ASSUME NEW d \in Creds
          PROVE  /\ \A row \in cred'[d] : row.rev + Cardinality(Writers(d)') <= 1 + runs
                 /\ provider[d] + Cardinality(Askers(d)') <= 1 + runs
      <3>1. /\ Writers(d) \in SUBSET Sessions /\ Writers(d)' \in SUBSET Sessions
            /\ Askers(d) \in SUBSET Sessions /\ Askers(d)' \in SUBSET Sessions
        BY DEF Writers, Askers
      <3>2. /\ Cardinality(Writers(d)') \in Nat /\ Cardinality(Writers(d)) \in Nat
            /\ Cardinality(Writers(d)') <= Cardinality(Writers(d))
            /\ Cardinality(Askers(d)') \in Nat /\ Cardinality(Askers(d)) \in Nat
            /\ Cardinality(Askers(d)') <= Cardinality(Askers(d))
            /\ d = c => Cardinality(Writers(d)') + 1 <= Cardinality(Writers(d))
        BY <2>1, <2>2, <3>1, Counting
      <3>3. /\ provider[d] \in Nat /\ runs \in Nat
            /\ \A row \in cred[d] : row.rev \in Nat
            /\ \A row \in cred[d] : row.rev + Cardinality(Writers(d)) <= 1 + runs
            /\ provider[d] + Cardinality(Askers(d)) <= 1 + runs
        BY DEF VauInv, VaultShapes, RowShape, Counted
      <3>4. provider[d] + Cardinality(Askers(d)') <= 1 + runs
        BY <3>2, <3>3
      <3>5. ASSUME NEW row \in cred'[d] PROVE row.rev + Cardinality(Writers(d)') <= 1 + runs
        <4>1. CASE d = c
          <5>1. PICK o \in cred[c] : row.rev = o.rev + 1 /\ o.rev \in Nat
            BY <1>13, <4>1
          <5> QED BY <3>2, <3>3, <4>1, <5>1
        <4>2. CASE d # c
          BY <1>11, <3>2, <3>3, <4>2
        <4> QED BY <4>1, <4>2
      <3> QED BY <3>4, <3>5
    <2> QED BY <1>8, <2>3 DEF Counted
  <1> QED BY <1>14, <1>15, <1>16, <1>17, <1>18, <1>19, <1>20, <1>21 DEF VauInv

(* Each step keeps it.                                                      *)
LEMMA VauNext == ASSUME VauInv, [VaultNext]_vaultVars PROVE VauInv'
  <1>1. CASE UNCHANGED vaultVars
    <2>1. SameBoxes /\ SameNumbers /\ RowsOnce' /\ UNCHANGED vaultVars
      BY <1>1, Marked DEF vaultVars, SameNumbers, VauInv, RowsOnce
    <2> QED BY <2>1, Fewer DEF vaultVars, VauInv, VaultShapes
  <1>2. CASE VaultNext
    BY <1>2, AddStep, StoreSteps, StartStep, AskStep, RefreshedStep, RunOver, GrantsStep, RefusesStep,
       BuildStep, AcquireSteps, ReapStep DEF VaultNext
  <1> QED BY <1>1, <1>2

(* It implies what the run checks.                                          *)
LEMMA VauImplies == ASSUME VauInv PROVE VaultInv
  <1>1. \A S, x : AtMostOne(S) /\ x \in S => S = {x}
    BY DEF AtMostOne
  <1>2. \A S : AtMostOne(S) => IsFiniteSet(S) /\ Cardinality(S) <= 1 /\ (S # {} => Cardinality(S) = 1)
    <2> SUFFICES ASSUME NEW S, AtMostOne(S)
                 PROVE  IsFiniteSet(S) /\ Cardinality(S) <= 1 /\ (S # {} => Cardinality(S) = 1)
      OBVIOUS
    <2>1. CASE S = {}
      BY <2>1, FS_EmptySet
    <2>2. ASSUME NEW x \in S PROVE IsFiniteSet(S) /\ Cardinality(S) = 1
      <3>1. S = {x}
        BY <1>1
      <3> QED BY <3>1, FS_Singleton
    <2> QED BY <2>1, <2>2
  (* The bounds on the numbers.                                             *)
  <1>3. \A c \in Creds : provider[c] \in Numbers /\ \A row \in cred[c] : row.rev \in Numbers
    <2> SUFFICES ASSUME NEW c \in Creds
                 PROVE  provider[c] \in Numbers /\ \A row \in cred[c] : row.rev \in Numbers
      OBVIOUS
    <2>1. Writers(c) \in SUBSET Sessions /\ Askers(c) \in SUBSET Sessions
      BY DEF Writers, Askers
    <2>2. Cardinality(Writers(c)) \in Nat /\ Cardinality(Askers(c)) \in Nat
      BY <2>1, Counting
    <2>3. /\ provider[c] \in Nat /\ runs \in 0 .. MaxRuns /\ \A row \in cred[c] : row.rev \in Nat
          /\ \A row \in cred[c] : row.rev + Cardinality(Writers(c)) <= 1 + runs
          /\ provider[c] + Cardinality(Askers(c)) <= 1 + runs
      BY DEF VauInv, VaultShapes, RowShape, Counted
    <2> QED BY <2>2, <2>3 DEF Numbers, MaxRev
  <1>4. \A c \in Creds : \A m \in Nat : m <= provider[c] => m \in Numbers
    BY <1>3 DEF Numbers, MaxRev
  <1>5. VaultTypeOK
    <2>1. \A c \in Creds : /\ cred[c] \subseteq Rows /\ Cardinality(cred[c]) <= 1
                           /\ cred[c] # {} => vault
                           /\ provider[c] \in Numbers
      <3>1. \A c \in Creds : cred[c] \subseteq Rows
        <4> SUFFICES ASSUME NEW c \in Creds, NEW row \in cred[c] PROVE row \in Rows
          OBVIOUS
        <4>1. row \in RowShape /\ row.refresh <= provider[c]
          BY DEF VauInv, VaultShapes, Issued
        <4>2. row.refresh \in Numbers /\ row.rev \in Numbers
          BY <1>3, <1>4, <4>1 DEF RowShape
        <4> QED BY <4>1, <4>2 DEF RowShape, Rows
      <3>2. \A c \in Creds : Cardinality(cred[c]) <= 1
        BY <1>2 DEF VauInv, RowsOnce
      <3> QED BY <1>3, <3>1, <3>2 DEF VauInv, RowsOnce
    <2>2. ASSUME NEW s \in Sessions
          PROVE  /\ run[s].pc \in {"idle", "refresh", "acquire", "turn"}
                 /\ run[s].todo \subseteq Items /\ run[s].ask \subseteq Exchange
                 /\ run[s].env \subseteq Bearers
                 /\ box[s] \subseteq [env : SUBSET Bearers, newer : SUBSET Creds]
      <3>1. run[s] \in RunShape /\ box[s] \subseteq BoxShape
        BY DEF VauInv, VaultShapes
      <3>2. \A i \in run[s].todo : i \in ItemShape /\ i.refresh <= provider[i.cred]
        BY <3>1 DEF RunShape, VauInv, Issued
      <3>3. \A x \in run[s].ask : /\ x \in AskShape /\ x.item \in ItemShape
                                  /\ x.item.refresh <= provider[x.item.cred]
                                  /\ x.new <= provider[x.item.cred]
        BY <3>1 DEF RunShape, AskShape, VauInv, Issued
      <3>4. \A i \in ItemShape : i.refresh <= provider[i.cred] => i \in Items
        BY <1>4 DEF ItemShape, Items
      <3>5. ASSUME NEW x \in run[s].ask PROVE x \in Exchange
        <4>1. x.item \in Items /\ x.item.cred \in Creds /\ x.new \in Nat
          BY <3>3, <3>4 DEF AskShape, ItemShape
        <4>2. x.new \in Numbers
          BY <1>4, <3>3, <4>1
        <4> QED BY <3>3, <4>1, <4>2 DEF AskShape, Exchange
      <3> QED BY <3>1, <3>2, <3>4, <3>5 DEF RunShape, BoxShape
    <2>3. \A s \in Sessions : /\ Cardinality(run[s].ask) <= 1
                              /\ run[s].pc # "refresh" => run[s].todo = {} /\ run[s].ask = {}
                              /\ run[s].pc = "turn" => Cardinality(box[s]) = 1
      BY <1>2 DEF VauInv, RunsOnce, BoxesOnce
    <2>4. vault \in BOOLEAN /\ lost \subseteq Creds /\ runs \in 0 .. MaxRuns
      BY DEF VauInv, VaultShapes
    <2> QED BY <2>1, <2>2, <2>3, <2>4 DEF VaultTypeOK
  <1>6. DispatchFresh
    <2> SUFFICES ASSUME NEW s \in Sessions, run[s].pc = "turn", NEW b \in box[s], NEW e \in b.env
                 PROVE  e.rev >= run[s].floor[e.cred]
      BY DEF DispatchFresh
    <2>1. e \in run[s].env /\ run[s].floor[e.cred] <= e.rev
      BY DEF VauInv, Environments
    <2>2. run[s] \in RunShape
      BY RunIs
    <2>3. e.cred \in Creds /\ e.rev \in Nat /\ run[s].floor[e.cred] \in Nat
      BY <2>1, <2>2 DEF RunShape, Bearers, Numbers
    <2> QED BY <2>1, <2>3
  <1>7. StoredUsable
    <2> SUFFICES ASSUME NEW c \in Present \ lost, ~Asking(c) PROVE Row(c).refresh = provider[c]
      BY DEF StoredUsable
    <2>1. c \in Creds \ lost /\ Row(c) \in cred[c]
      BY RowIsOne
    <2> QED BY <2>1 DEF VauInv, Replaced, Asking
  <1> QED BY <1>5, <1>6, <1>7 DEF VaultInv

HIDE VaultAssumption

----------------------------------------------------------------------------
(* The limiter and the idempotency keys (HttpFront).                        *)

USE FrontAssumption

(* Sequences never shrink: times in them are not after now; a bucket is one *)
(* and was last filled before now.                                          *)
BucketShape == [tokens : 0 .. Capacity, last : Nat]

FrontShapes ==
    /\ now \in 0 .. MaxNow /\ restarts \in 0 .. MaxRestarts
    /\ bucket \in [Callers -> SUBSET BucketShape]
    /\ passed \in [Callers -> Seq(Nat)]
    /\ promised \in [Callers -> SUBSET Nat]
    /\ inflight \in [Keys -> Outcomes \cup {"none"}]
    /\ cached \in [Keys -> SUBSET Nat]
    /\ accepted \in [Keys -> Seq(Nat)]

Buckets ==
    \A c \in Callers :
        /\ AtMostOne(bucket[c]) /\ (bucket[c] = {} => promised[c] = {})
        /\ \A b \in bucket[c] : b.last <= now

(* What is in the bucket and what was taken since a request is no more than *)
(* a full bucket and what was refilled since that request.                  *)
Allowance ==
    \A c \in Callers : \A i \in DOMAIN passed[c] :
        /\ passed[c][i] <= now
        /\ (Len(passed[c]) - i + 1) * Minute + Level(c) <= Capacity + Rpm * (now - passed[c][i])

Fill(b, t) == b.tokens + Rpm * (t - b.last)

(* A promise is kept by the bucket as it is, if nobody takes from it.       *)
Promises == \A c \in Callers : \A b \in bucket[c] : \A t \in promised[c] : Minute <= Fill(b, t)

LimitInv == FrontShapes /\ Buckets /\ Allowance /\ RateBounded /\ Promises

(* While a message may be accepted again under its key, it was accepted a   *)
(* Ttl ago, is executing, or has its reply cached for long enough.          *)
KeysInv ==
    \A k \in Keys :
        /\ AtMostOne(cached[k])
        /\ inflight[k] # "none" => \A t \in cached[k] : t <= now
        /\ \A i \in DOMAIN accepted[k] :
              /\ accepted[k][i] <= now
              /\ \/ now - accepted[k][i] >= Ttl
                 \/ inflight[k] = "accepted"
                 \/ \E t \in cached[k] : t >= accepted[k][i] + Ttl

FroInv == LimitInv /\ KeysInv /\ AcceptedOnce

(* What the products of the model obey.                                     *)
LEMMA Products ==
    ASSUME NEW k \in Nat, NEW a \in Int, NEW b \in Int
    PROVE  /\ k * a \in Int /\ a * k \in Int
           /\ k * (a + 1) = k * a + k /\ (a + 1) * k = a * k + k
           /\ k * (a + b) = k * a + k * b
           /\ a <= b => k * a <= k * b
           /\ 0 <= a => 0 <= k * a
  OBVIOUS

(* A division that rounds up.                                               *)
LEMMA RoundedUp ==
    ASSUME NEW r \in Nat \ {0}, NEW a \in Nat \ {0}
    PROVE  /\ (a + r - 1) \div r \in Nat /\ (a + r - 1) \div r >= 1
           /\ r * ((a + r - 1) \div r) >= a
  OBVIOUS

(* What the constants of the limiter are.                                   *)
LEMMA Constants ==
    /\ Rpm \in Nat \ {0} /\ Minute \in Nat \ {0} /\ Ttl \in Nat \ {0}
    /\ Capacity \in Nat /\ Minute <= Capacity /\ GcAfter \in Nat /\ GcAfter >= Minute
  <1>1. Rpm >= 1 /\ Minute >= 1 /\ Rpm \in Nat /\ Minute \in Nat
    OBVIOUS
  <1>2. Minute * 1 <= Minute * Rpm
    BY <1>1, Products
  <1> QED BY <1>1, <1>2 DEF Capacity

(* The level of a bucket.                                                   *)
LEMMA LevelIs ==
    ASSUME LimitInv, NEW c \in Callers
    PROVE  /\ Level(c) \in 0 .. Capacity
           /\ bucket[c] = {} => Level(c) = Capacity
           /\ \A b \in bucket[c] : /\ bucket[c] = {b} /\ b \in BucketShape
                                   /\ b.last <= now /\ Fill(b, now) \in Int
                                   /\ Level(c) = IF Fill(b, now) > Capacity THEN Capacity
                                                 ELSE Fill(b, now)
  <1>1. CASE bucket[c] = {}
    BY <1>1, Constants DEF Level
  <1>2. ASSUME NEW b \in bucket[c]
        PROVE  /\ bucket[c] = {b} /\ b \in BucketShape /\ b.last <= now /\ Fill(b, now) \in Int
               /\ Level(c) = IF Fill(b, now) > Capacity THEN Capacity ELSE Fill(b, now)
               /\ Level(c) \in 0 .. Capacity
    <2>1. bucket[c] = {b} /\ b \in BucketShape /\ b.last <= now /\ now \in Nat
      BY DEF LimitInv, FrontShapes, Buckets, AtMostOne
    <2>2. Level(c) = Refilled(b)
      BY <2>1 DEF Level
    <2>3. b.tokens \in 0 .. Capacity /\ b.last \in Nat /\ now - b.last \in Nat
      BY <2>1 DEF BucketShape
    <2>4. Rpm * (now - b.last) \in Nat
      BY <2>3, Constants, Products
    <2> QED BY <2>1, <2>2, <2>3, <2>4, Constants DEF Refilled, Fill
  <1> QED BY <1>1, <1>2

(* The level right after a bucket was put.                                  *)
LEMMA LevelPut ==
    ASSUME NEW c \in Callers, NEW n \in 0 .. Capacity, now \in Nat, UNCHANGED now,
           bucket'[c] = {[tokens |-> n, last |-> now]}
    PROVE  Level(c)' = n
  <1> DEFINE b == [tokens |-> n, last |-> now]
             some == CHOOSE x \in bucket'[c] : TRUE
  <1>1. some = b
    OBVIOUS
  <1>2. b.tokens = n /\ b.last = now /\ bucket'[c] # {}
    OBVIOUS
  <1>3. Level(c)' = IF bucket'[c] = {} THEN Capacity
                    ELSE IF some.tokens + Rpm * (now' - some.last) > Capacity THEN Capacity
                    ELSE some.tokens + Rpm * (now' - some.last)
    BY DEF Level, Refilled, Capacity
  <1> HIDE DEF b, some
  <1>4. Rpm * (now' - some.last) = 0
    BY <1>1, <1>2, Constants
  <1>5. some.tokens = n /\ bucket'[c] # {}
    BY <1>1, <1>2
  <1>6. Level(c)' = IF n + 0 > Capacity THEN Capacity ELSE n + 0
    BY <1>3, <1>4, <1>5, Zenon
  <1>7. Capacity \in Nat
    BY Constants
  <1> QED BY <1>6, <1>7

(* The level of a bucket that stays as it is, at the same time.             *)
LEMMA LevelSame ==
    ASSUME NEW c \in Callers, UNCHANGED now, bucket'[c] = bucket[c]
    PROVE  Level(c)' = Level(c)
  BY DEF Level, Refilled

(* It holds when the server has started.                                    *)
LEMMA FroInit == FrontInit => FroInv
  <1> SUFFICES ASSUME FrontInit PROVE FroInv
    OBVIOUS
  <1> USE DEF FrontInit
  <1>1. FrontShapes
    BY DEF FrontShapes
  <1>2. Buckets /\ Allowance /\ RateBounded /\ Promises
    BY DEF Buckets, Allowance, RateBounded, Promises, AtMostOne
  <1>3. KeysInv /\ AcceptedOnce
    BY DEF KeysInv, AcceptedOnce, AtMostOne
  <1> QED BY <1>1, <1>2, <1>3 DEF FroInv, LimitInv

(* What the limiter's state promises of the requests let through does not   *)
(* change with what happens behind it.                                      *)
limits == <<now, bucket, passed, promised, restarts>>
keys   == <<inflight, cached, accepted>>

(* A step behind the limiter leaves it as it is.                            *)
LEMMA LimitsKept ==
    ASSUME LimitInv, UNCHANGED limits, FrontShapes'
    PROVE  LimitInv'
  <1>1. \A c \in Callers : Level(c)' = Level(c)
    BY LevelSame DEF limits
  <1>2. Allowance'
    BY <1>1 DEF LimitInv, Allowance, limits
  <1> QED BY <1>2 DEF LimitInv, Buckets, RateBounded, Promises, Fill, limits

(* A request that is let through pays a token.                              *)
LEMMA LetThroughKeeps ==
    ASSUME LimitInv, NEW c \in Callers, LetThrough(c), UNCHANGED <<now, restarts>>, FrontShapes'
    PROVE  LimitInv'
  <1> DEFINE n == Len(passed[c])
             b == [tokens |-> Level(c) - Minute, last |-> now]
  <1>0. PICK l \in 0 .. Capacity : l = Level(c)
    BY LevelIs
  <1>1. /\ now \in Nat /\ passed[c] \in Seq(Nat) /\ n \in Nat
        /\ DOMAIN bucket = Callers /\ DOMAIN passed = Callers /\ DOMAIN promised = Callers
    BY DEF LimitInv, FrontShapes
  <1>2. /\ l >= Minute /\ l - Minute \in 0 .. Capacity
        /\ bucket'[c] = {b} /\ b.last = now
        /\ passed'[c] = Append(passed[c], now) /\ promised'[c] = {}
        /\ \A d \in Callers \ {c} : /\ bucket'[d] = bucket[d] /\ passed'[d] = passed[d]
                                     /\ promised'[d] = promised[d]
    BY <1>0, <1>1, Constants DEF LetThrough, Put
  <1>3. \A d \in Callers : d = c => Level(d)' = l - Minute
    <2> SUFFICES ASSUME NEW d \in Callers, d = c PROVE Level(d)' = l - Minute
      OBVIOUS
    <2>1. bucket'[d] = {[tokens |-> l - Minute, last |-> now]}
      BY <1>0, <1>2
    <2> QED BY <1>1, <1>2, <2>1, LevelPut
  <1>4. \A d \in Callers \ {c} : Level(d)' = Level(d)
    BY <1>2, LevelSame
  <1>5. /\ Len(passed'[c]) = n + 1 /\ DOMAIN passed'[c] = 1 .. n + 1 /\ DOMAIN passed[c] = 1 .. n
        /\ passed'[c][n + 1] = now /\ \A i \in 1 .. n : passed'[c][i] = passed[c][i]
        /\ \A i \in 1 .. n : passed[c][i] \in Nat
    <2>1. passed'[c] = Append(passed[c], now)
      BY <1>2
    <2>2. PICK q \in Seq(Nat), t \in Nat : q = passed[c] /\ t = now
      BY <1>1
    <2>3. /\ Len(Append(q, t)) = Len(q) + 1 /\ Append(q, t)[Len(q) + 1] = t
          /\ \A i \in 1 .. Len(q) : Append(q, t)[i] = q[i] /\ q[i] \in Nat
          /\ DOMAIN Append(q, t) = 1 .. Len(q) + 1 /\ DOMAIN q = 1 .. Len(q)
      OBVIOUS
    <2> QED BY <2>1, <2>2, <2>3
  <1>a. now' = now /\ Minute \in Nat /\ Capacity \in Nat /\ Minute <= Capacity
    BY Constants
  <1>6. Buckets'
    <2>1. \A d \in Callers \ {c} :
            /\ AtMostOne(bucket'[d]) /\ (bucket'[d] = {} => promised'[d] = {})
            /\ \A a \in bucket'[d] : a.last <= now
      <3> SUFFICES ASSUME NEW d \in Callers \ {c}
                   PROVE  /\ AtMostOne(bucket'[d]) /\ (bucket'[d] = {} => promised'[d] = {})
                          /\ \A a \in bucket'[d] : a.last <= now
        OBVIOUS
      <3>1. bucket'[d] = bucket[d] /\ promised'[d] = promised[d]
        BY <1>2
      <3>2. AtMostOne(bucket[d]) /\ (bucket[d] = {} => promised[d] = {})
            /\ \A a \in bucket[d] : a.last <= now
        BY DEF LimitInv, Buckets
      <3> QED BY <3>1, <3>2
    <2>2. AtMostOne(bucket'[c]) /\ promised'[c] = {} /\ \A a \in bucket'[c] : a.last <= now
      BY <1>1, <1>2 DEF AtMostOne
    <2> HIDE DEF n, b
    <2> QED BY <1>a, <2>1, <2>2 DEF Buckets, AtMostOne
  <1>7. Promises'
    BY <1>2 DEF LimitInv, Promises, Fill
  <1> HIDE DEF n, b
  <1>8. \A i \in 1 .. n : /\ passed[c][i] <= now
                           /\ (n - i + 1) * Minute + l <= Capacity + Rpm * (now - passed[c][i])
    BY <1>0, <1>5 DEF LimitInv, Allowance, n
  <1>9. \A i \in 1 .. n : (n + 1 - i + 1) * Minute = (n - i + 1) * Minute + Minute
    <2> SUFFICES ASSUME NEW i \in 1 .. n PROVE (n + 1 - i + 1) * Minute = (n - i + 1) * Minute + Minute
      OBVIOUS
    <2>1. PICK m \in Int : m = n - i + 1 /\ m + 1 = n + 1 - i + 1
      BY <1>1
    <2> QED BY <2>1, Constants, Products
  <1>10. \A i \in 1 .. n : (n - i + 1) * Minute \in Int /\ Rpm * (now - passed[c][i]) \in Int
    <2> SUFFICES ASSUME NEW i \in 1 .. n
                 PROVE  (n - i + 1) * Minute \in Int /\ Rpm * (now - passed[c][i]) \in Int
      OBVIOUS
    <2>1. n - i + 1 \in Int
      BY <1>1
    <2>2. PICK x \in Nat, t \in Nat : x = passed[c][i] /\ t = now
      BY <1>1, <1>5
    <2>3. now - passed[c][i] \in Int
      BY <2>2
    <2> QED BY <2>1, <2>3, Constants, Products
  <1>11. Allowance'
    <2>1. ASSUME NEW i \in 1 .. n + 1
          PROVE  /\ passed'[c][i] <= now
                 /\ (n + 1 - i + 1) * Minute + (l - Minute) <= Capacity + Rpm * (now - passed'[c][i])
      <3>1. CASE i \in 1 .. n
        <4>1. PICK x \in Int, y \in Int : x = (n - i + 1) * Minute /\ y = Rpm * (now - passed[c][i])
          BY <1>10, <3>1
        <4>2. (n + 1 - i + 1) * Minute = x + Minute /\ passed'[c][i] = passed[c][i]
          BY <1>5, <1>9, <3>1, <4>1
        <4>3. passed[c][i] <= now /\ x + l <= Capacity + y
          BY <1>8, <3>1, <4>1
        <4>4. x + Minute + (l - Minute) <= Capacity + y
          BY <1>a, <4>3
        <4> QED BY <1>3, <4>1, <4>2, <4>3, <4>4
      <3>2. CASE i = n + 1
        <4>1. (n + 1 - i + 1) * Minute = Minute /\ Rpm * (now - passed'[c][i]) = 0
          <5>1. n + 1 - i + 1 = 1 /\ now - passed'[c][i] = 0
            BY <1>1, <1>5, <3>2
          <5> QED BY <5>1, Constants
        <4>2. Minute + (l - Minute) <= Capacity + 0
          BY <1>a
        <4> QED BY <1>1, <1>3, <1>5, <3>2, <4>1, <4>2
      <3> QED BY <1>1, <3>1, <3>2
    <2>2. ASSUME NEW d \in Callers \ {c}, NEW i \in DOMAIN passed[d]
          PROVE  /\ passed[d][i] <= now
                 /\ (Len(passed[d]) - i + 1) * Minute + Level(d)' <= Capacity + Rpm * (now - passed[d][i])
      BY <1>4 DEF LimitInv, Allowance
    <2>3. \A d \in Callers \ {c} : passed'[d] = passed[d]
      BY <1>2
    <2> SUFFICES ASSUME NEW d \in Callers, NEW i \in DOMAIN passed'[d]
                 PROVE  /\ passed'[d][i] <= now
                        /\ (Len(passed'[d]) - i + 1) * Minute + Level(d)'
                               <= Capacity + Rpm * (now - passed'[d][i])
      BY <1>a DEF Allowance
    <2>4. CASE d = c
      <3>1. i \in 1 .. n + 1 /\ Len(passed'[d]) = n + 1 /\ passed'[d] = passed'[c]
        BY <1>5, <2>4
      <3>2. /\ passed'[c][i] <= now
            /\ (n + 1 - i + 1) * Minute + (l - Minute) <= Capacity + Rpm * (now - passed'[c][i])
        BY <2>1, <3>1
      <3>3. Level(d)' = l - Minute
        BY <1>3, <2>4
      <3>4. PICK m \in Int, x \in Int, y \in Int :
                m = n + 1 - i + 1 /\ x = m * Minute /\ y = Rpm * (now - passed'[c][i])
        <4>1. n + 1 - i + 1 \in Int /\ now - passed'[c][i] \in Int
          <5>1. n + 1 - i + 1 \in Int
            BY <1>1, <3>1
          <5>2. CASE i = n + 1
            BY <1>1, <1>5, <5>1, <5>2
          <5>3. CASE i \in 1 .. n
            <6>1. passed'[c][i] = passed[c][i] /\ passed[c][i] \in Nat
              BY <1>5, <5>3
            <6> QED BY <1>1, <5>1, <6>1
          <5> QED BY <1>1, <3>1, <5>2, <5>3
        <4> QED BY <4>1, Constants, Products
      <3>5. x + (l - Minute) <= Capacity + y
        BY <3>2, <3>4
      <3>6. Len(passed'[d]) - i + 1 = m /\ passed'[d][i] = passed'[c][i]
        BY <1>1, <3>1, <3>4
      <3> QED BY <3>2, <3>3, <3>4, <3>5, <3>6
    <2>5. CASE d # c
      BY <2>2, <2>3, <2>5
    <2> QED BY <2>4, <2>5
  <1>12. RateBounded'
    <2> SUFFICES ASSUME NEW d \in Callers, NEW i \in DOMAIN passed'[d], NEW j \in DOMAIN passed'[d], i <= j
                 PROVE  (j - i + 1) * Minute <= Capacity + Rpm * (passed'[d][j] - passed'[d][i])
      BY DEF RateBounded
    <2>1. CASE d # c
      BY <1>2, <2>1 DEF LimitInv, RateBounded
    <2>2. CASE d = c
      <3>1. i \in 1 .. n + 1 /\ j \in 1 .. n + 1
        BY <1>5, <2>2
      <3>2. CASE j \in 1 .. n
        <4>1. i \in 1 .. n
          BY <1>1, <3>1, <3>2
        <4> QED BY <1>5, <2>2, <3>2, <4>1 DEF LimitInv, RateBounded
      <3>3. CASE j = n + 1 /\ i \in 1 .. n
        <4>1. PICK x \in Int, y \in Int : x = (n - i + 1) * Minute /\ y = Rpm * (now - passed[c][i])
          BY <1>10, <3>3
        <4>2. /\ (j - i + 1) * Minute = x + Minute
              /\ Rpm * (passed'[d][j] - passed'[d][i]) = y
          <5>1. (n + 1 - i + 1) * Minute = x + Minute
            BY <1>9, <3>3, <4>1
          <5>2. passed'[d][j] = now /\ passed'[d][i] = passed[c][i]
            BY <1>5, <2>2, <3>3
          <5>3. j - i + 1 = n + 1 - i + 1
            BY <1>1, <3>3
          <5>4. (j - i + 1) * Minute = x + Minute
            BY <5>1, <5>3
          <5> QED BY <4>1, <5>2, <5>4
        <4>3. x + l <= Capacity + y /\ l >= Minute
          BY <1>2, <1>8, <3>3, <4>1
        <4>4. x + Minute <= Capacity + y
          BY <1>a, <4>3
        <4> QED BY <4>2, <4>4
      <3>4. CASE j = n + 1 /\ i = n + 1
        <4>1. (j - i + 1) * Minute = Minute /\ Rpm * (passed'[d][j] - passed'[d][i]) = 0
          BY <1>1, <1>5, <2>2, <3>4, Constants
        <4>2. Minute <= Capacity + 0
          BY <1>a
        <4> QED BY <4>1, <4>2
      <3>5. j \in 1 .. n \/ (j = n + 1 /\ (i \in 1 .. n \/ i = n + 1))
        BY <1>1, <3>1
      <3> QED BY <3>2, <3>3, <3>4, <3>5, Zenon
    <2> QED BY <2>1, <2>2
  <1> QED BY <1>6, <1>7, <1>11, <1>12 DEF LimitInv


(* One that is not is promised the time by which a token is there.          *)
LEMMA LimitedKeeps ==
    ASSUME LimitInv, NEW c \in Callers, Limited(c)
    PROVE  LimitInv'
  <1>0. PICK l \in 0 .. Capacity : l = Level(c)
    BY LevelIs
  <1>1. PICK w \in Nat : w = RetryAfter(l) /\ Rpm * w >= Minute - l /\ l < Minute
    <2>1. l < Minute /\ l \in Nat /\ Minute - l \in Nat \ {0}
      BY <1>0, Constants DEF Limited
    <2>2. /\ (Minute - l + Rpm - 1) \div Rpm \in Nat /\ (Minute - l + Rpm - 1) \div Rpm >= 1
          /\ Rpm * ((Minute - l + Rpm - 1) \div Rpm) >= Minute - l
      BY <2>1, Constants, RoundedUp
    <2>3. RetryAfter(l) = (Minute - l + Rpm - 1) \div Rpm
      BY <2>2 DEF RetryAfter
    <2> QED BY <2>1, <2>2, <2>3
  <1> DEFINE b == [tokens |-> l, last |-> now]
  <1>2. /\ now \in Nat /\ now' = now /\ restarts' = restarts
        /\ b \in BucketShape /\ b.last = now /\ b.tokens = l
        /\ DOMAIN bucket = Callers /\ DOMAIN promised = Callers
        /\ bucket' = [bucket EXCEPT ![c] = {b}]
        /\ promised' = [promised EXCEPT ![c] = @ \cup {now + w}]
        /\ UNCHANGED <<passed, inflight, cached, accepted>>
    BY <1>0, <1>1 DEF LimitInv, FrontShapes, Limited, Put, BucketShape
  <1>3. bucket'[c] = {[tokens |-> l, last |-> now]}
    BY <1>2
  <1> HIDE DEF b
  <1>4. \A d \in Callers : Level(d)' = Level(d)
    <2> SUFFICES ASSUME NEW d \in Callers PROVE Level(d)' = Level(d)
      OBVIOUS
    <2>1. CASE d = c
      <3>1. Level(c)' = l
        BY <1>2, <1>3, LevelPut
      <3>2. Level(d)' = l
        <4>1. bucket'[d] = {[tokens |-> l, last |-> now]}
          BY <1>3, <2>1
        <4> QED BY <1>2, <4>1, LevelPut
      <3> QED BY <1>0, <2>1, <3>2
    <2>2. CASE d # c
      BY <1>2, <2>2, LevelSame
    <2> QED BY <2>1, <2>2
  <1>5. FrontShapes'
    <2>1. FrontShapes
      BY DEF LimitInv
    <2>2. bucket' \in [Callers -> SUBSET BucketShape]
      BY <1>2, <2>1 DEF FrontShapes
    <2>3. promised' \in [Callers -> SUBSET Nat]
      BY <1>1, <1>2, <2>1 DEF FrontShapes
    <2>4. UNCHANGED <<now, restarts, passed, inflight, cached, accepted>>
      BY <1>2
    <2> QED BY <2>1, <2>2, <2>3, <2>4 DEF FrontShapes
  <1>6. Buckets'
    BY <1>2 DEF LimitInv, Buckets, AtMostOne
  <1>7. Allowance' /\ RateBounded'
    BY <1>2, <1>4 DEF LimitInv, Allowance, RateBounded
  <1>8. Promises'
    <2> SUFFICES ASSUME NEW d \in Callers, NEW a \in bucket'[d], NEW t \in promised'[d]
                 PROVE  Minute <= Fill(a, t)
      BY DEF Promises, Fill
    <2>1. CASE d # c
      BY <1>2, <2>1 DEF LimitInv, Promises
    <2>2. CASE d = c
      <3>1. a = b /\ (t \in promised[c] \/ t = now + w) /\ t \in Nat
        BY <1>1, <1>2, <2>2 DEF LimitInv, FrontShapes
      <3>2. Fill(a, t) = l + Rpm * (t - now)
        BY <1>2, <3>1 DEF Fill
      <3>3. CASE t = now + w
        <4>1. t - now = w
          BY <1>2, <3>3
        <4> QED BY <1>0, <1>1, <3>2, <4>1, Constants, Products
      <3>4. CASE t \in promised[c]
        <4>1. PICK old \in bucket[c] : TRUE
          BY <3>4 DEF LimitInv, Buckets
        <4>2. /\ old \in BucketShape /\ Fill(old, now) \in Int
              /\ l = IF Fill(old, now) > Capacity THEN Capacity ELSE Fill(old, now)
          BY <1>0, LevelIs
        <4>3. l = Fill(old, now)
          BY <1>1, <4>2, Constants
        <4>4. old.tokens \in Nat /\ old.last \in Nat
          BY <4>2, Constants DEF BucketShape
        <4>5. PICK x \in Int, y \in Int : x = now - old.last /\ y = t - now /\ x + y = t - old.last
          BY <1>2, <3>1, <4>4
        <4>6. Rpm * (x + y) = Rpm * x + Rpm * y /\ Rpm * x \in Int /\ Rpm * y \in Int
          BY Constants, Products
        <4>7. PICK p \in Int, q \in Int : p = Rpm * x /\ q = Rpm * y /\ Rpm * (x + y) = p + q
          BY <4>6
        <4>8. Minute <= Fill(old, t)
          BY <3>4 DEF LimitInv, Promises
        <4>9. Fill(old, t) = old.tokens + (p + q) /\ Fill(old, now) = old.tokens + p
          BY <4>5, <4>7 DEF Fill
        <4>10. Fill(a, t) = l + q
          BY <3>2, <4>5, <4>7
        <4> QED BY <4>3, <4>4, <4>8, <4>9, <4>10
      <3> QED BY <3>1, <3>3, <3>4
    <2> QED BY <2>1, <2>2
  <1> QED BY <1>5, <1>6, <1>7, <1>8 DEF LimitInv

(* A bucket that is dropped was full.                                       *)
LEMMA GcKeeps == ASSUME LimitInv, Gc PROVE LimitInv'
  <1>1. /\ now \in Nat /\ now' = now /\ restarts' = restarts
        /\ DOMAIN bucket = Callers /\ DOMAIN promised = Callers
        /\ UNCHANGED <<passed, inflight, cached, accepted>>
        /\ bucket' = [c \in Callers |-> {b \in bucket[c] : ~Idle(b)}]
        /\ promised' = [c \in Callers |-> IF bucket'[c] = {} THEN {} ELSE promised[c]]
    BY DEF LimitInv, FrontShapes, Gc
  <1>2. \A c \in Callers : bucket'[c] \subseteq bucket[c] /\ promised'[c] \subseteq promised[c]
    BY <1>1
  <1>3. \A c \in Callers : bucket'[c] # {} => bucket'[c] = bucket[c]
    <2> SUFFICES ASSUME NEW c \in Callers, NEW b \in bucket'[c] PROVE bucket'[c] = bucket[c]
      OBVIOUS
    <2>1. bucket[c] = {b}
      BY <1>2, LevelIs
    <2> QED BY <1>2, <2>1
  <1>4. \A c \in Callers : Level(c)' = Level(c)
    <2> SUFFICES ASSUME NEW c \in Callers PROVE Level(c)' = Level(c)
      OBVIOUS
    <2>1. CASE bucket'[c] = bucket[c]
      BY <1>1, <2>1, LevelSame
    <2>2. ASSUME bucket'[c] = {}, NEW b \in bucket[c]
          PROVE  Level(c)' = Level(c)
      <3>1. Level(c)' = Capacity
        BY <2>2 DEF Level, Capacity
      <3>2. Idle(b)
        BY <1>1, <2>2
      <3>3. b \in BucketShape /\ b.last <= now /\ Fill(b, now) \in Int
            /\ Level(c) = IF Fill(b, now) > Capacity THEN Capacity ELSE Fill(b, now)
        BY LevelIs
      <3>4. b.tokens \in Nat /\ b.last \in Nat
        BY <3>3, Constants DEF BucketShape
      <3>5. now - b.last \in Int /\ Minute <= now - b.last
        BY <1>1, <3>2, <3>4, Constants DEF Idle
      <3>6. Rpm * Minute <= Rpm * (now - b.last) /\ Rpm * (now - b.last) \in Int
        BY <3>5, Constants, Products
      <3>7. Fill(b, now) >= Capacity
        BY <3>4, <3>6, Constants DEF Fill, Capacity
      <3> QED BY <3>1, <3>3, <3>7, Constants
    <2> QED BY <1>3, <2>1, <2>2
  <1>5. FrontShapes'
    <2>1. bucket' \in [Callers -> SUBSET BucketShape] /\ promised' \in [Callers -> SUBSET Nat]
      BY <1>1 DEF LimitInv, FrontShapes
    <2> QED BY <1>1, <2>1 DEF LimitInv, FrontShapes
  <1>6. Buckets'
    BY <1>1, <1>2 DEF LimitInv, Buckets, AtMostOne
  <1>7. Allowance' /\ RateBounded'
    BY <1>1, <1>4 DEF LimitInv, Allowance, RateBounded
  <1>8. Promises'
    BY <1>2 DEF LimitInv, Promises, Fill
  <1> QED BY <1>5, <1>6, <1>7, <1>8 DEF LimitInv

(* A second refills at most Rpm shares.                                     *)
LEMMA TickKeeps == ASSUME LimitInv, Tick PROVE LimitInv'
  <1>1. /\ now \in Nat /\ now' = now + 1 /\ now' \in 0 .. MaxNow
        /\ UNCHANGED <<bucket, passed, promised, inflight, cached, accepted, restarts>>
        /\ passed \in [Callers -> Seq(Nat)]
    BY DEF LimitInv, FrontShapes, Tick
  <1>0. now \in Nat /\ now' = now + 1
    BY <1>1
  <1>2. ASSUME NEW c \in Callers
        PROVE  Level(c)' \in Int /\ Level(c)' <= Level(c) + Rpm
    <2>1. CASE bucket[c] = {}
      BY <1>1, <2>1, Constants DEF Level, Capacity
    <2>2. ASSUME NEW b \in bucket[c]
          PROVE  Level(c)' \in Int /\ Level(c)' <= Level(c) + Rpm
      <3>1. /\ bucket[c] = {b} /\ b \in BucketShape /\ b.last <= now /\ Fill(b, now) \in Int
            /\ Level(c) = IF Fill(b, now) > Capacity THEN Capacity ELSE Fill(b, now)
        BY LevelIs
      <3>2. (CHOOSE x \in bucket'[c] : TRUE) = b /\ bucket'[c] # {}
        BY <1>1, <3>1
      <3>3. Level(c)' = IF b.tokens + Rpm * (now' - b.last) > Capacity THEN Capacity
                        ELSE b.tokens + Rpm * (now' - b.last)
        BY <3>2 DEF Level, Refilled, Capacity
      <3>4. b.tokens \in Nat /\ b.last \in Nat
        BY <3>1, Constants DEF BucketShape
      <3>5. PICK x \in Int : x = now - b.last /\ x + 1 = now' - b.last
        <4>1. PICK u \in Nat, v \in Nat : u = now /\ v = b.last /\ now' = u + 1
          BY <1>0, <3>4
        <4>2. u - v \in Int /\ (u - v) + 1 = u + 1 - v
          BY <4>1
        <4> QED BY <4>1, <4>2
      <3>6. Rpm * (x + 1) = Rpm * x + Rpm /\ Rpm * x \in Int
        BY Constants, Products
      <3>7. PICK y \in Int : y = Rpm * x /\ Rpm * (x + 1) = y + Rpm
        BY <3>6
      <3>8. Fill(b, now) = b.tokens + y /\ Rpm * (now' - b.last) = y + Rpm
        BY <3>5, <3>7 DEF Fill
      <3> QED BY <3>1, <3>3, <3>4, <3>8, Constants
    <2> QED BY <2>1, <2>2
  <1>3. Allowance'
    <2> SUFFICES ASSUME NEW c \in Callers, NEW i \in DOMAIN passed[c]
                 PROVE  /\ passed[c][i] <= now'
                        /\ (Len(passed[c]) - i + 1) * Minute + Level(c)'
                               <= Capacity + Rpm * (now' - passed[c][i])
      BY <1>1 DEF Allowance
    <2>1. passed[c][i] \in Nat /\ Len(passed[c]) \in Nat /\ i \in Int
      BY <1>1
    <2>2. /\ passed[c][i] <= now
          /\ (Len(passed[c]) - i + 1) * Minute + Level(c) <= Capacity + Rpm * (now - passed[c][i])
      BY DEF LimitInv, Allowance
    <2>3. PICK m \in Int, x \in Int : /\ m = Len(passed[c]) - i + 1
                                      /\ x = now - passed[c][i] /\ x + 1 = now' - passed[c][i]
      <3>1. PICK u \in Nat, v \in Nat : u = now /\ v = passed[c][i] /\ now' = u + 1
        BY <1>0, <2>1
      <3>2. u - v \in Int /\ (u - v) + 1 = u + 1 - v
        BY <3>1
      <3>3. Len(passed[c]) - i + 1 \in Int
        BY <2>1
      <3>4. now - passed[c][i] \in Int /\ now' - passed[c][i] = (now - passed[c][i]) + 1
        BY <3>1, <3>2
      <3> QED BY <3>3, <3>4
    <2>4. m * Minute \in Int /\ Rpm * x \in Int /\ Rpm * (x + 1) = Rpm * x + Rpm
      BY Constants, Products
    <2>5. PICK p \in Int, y \in Int : p = m * Minute /\ y = Rpm * x /\ Rpm * (x + 1) = y + Rpm
      BY <2>4
    <2>6. p + Level(c) <= Capacity + y
      BY <2>2, <2>3, <2>5
    <2>7. p + Level(c)' <= Capacity + (y + Rpm)
      <3>1. Level(c) \in Int
        BY LevelIs, Constants
      <3> QED BY <1>2, <2>6, <3>1, Constants
    <2>8. passed[c][i] <= now'
      BY <1>1, <2>1, <2>2
    <2>9. (Len(passed[c]) - i + 1) * Minute = p /\ Rpm * (now' - passed[c][i]) = y + Rpm
      BY <2>3, <2>5
    <2> QED BY <2>7, <2>8, <2>9
  <1>4. FrontShapes' /\ RateBounded' /\ Promises'
    BY <1>1 DEF LimitInv, FrontShapes, RateBounded, Promises, Fill
  <1>5. Buckets'
    <2>1. ASSUME NEW c \in Callers, NEW b \in bucket[c] PROVE b.last <= now'
      <3>1. b.last \in Nat /\ b.last <= now
        BY DEF LimitInv, FrontShapes, Buckets, BucketShape
      <3> QED BY <1>1, <3>1
    <2> QED BY <1>1, <2>1 DEF LimitInv, Buckets
  <1> QED BY <1>3, <1>4, <1>5 DEF LimitInv

(* A restart forgets everything.                                            *)
LEMMA FrontRestartsKeeps == ASSUME FroInv, FrontRestarts PROVE FroInv'
  <1> USE DEF FrontRestarts
  <1>1. FrontShapes'
    BY DEF FroInv, LimitInv, FrontShapes
  <1>2. Buckets' /\ Allowance' /\ RateBounded' /\ Promises'
    BY DEF Buckets, Allowance, RateBounded, Promises, AtMostOne
  <1>3. KeysInv' /\ AcceptedOnce'
    BY DEF KeysInv, AcceptedOnce, AtMostOne
  <1> QED BY <1>1, <1>2, <1>3 DEF FroInv, LimitInv


(* The idempotency keys.                                                    *)
LEMMA KeysPruned ==
    ASSUME FrontShapes, FrontShapes', KeysInv, NEW k \in Keys, UNCHANGED now,
           inflight'[k] = inflight[k], accepted'[k] = accepted[k], cached'[k] = Unexpired(k)
    PROVE  /\ AtMostOne(cached[k])'
           /\ inflight'[k] # "none" => \A t \in cached'[k] : t <= now'
           /\ \A i \in DOMAIN accepted'[k] :
                 /\ accepted'[k][i] <= now'
                 /\ \/ now' - accepted'[k][i] >= Ttl
                    \/ inflight'[k] = "accepted"
                    \/ \E t \in cached'[k] : t >= accepted'[k][i] + Ttl
  <1>1. AtMostOne(cached[k])' /\ (inflight'[k] # "none" => \A t \in cached'[k] : t <= now')
    BY DEF KeysInv, Unexpired, AtMostOne
  <1>2. ASSUME NEW i \in DOMAIN accepted[k], NEW t \in cached[k], t >= accepted[k][i] + Ttl
        PROVE  t \in cached'[k] \/ now - accepted[k][i] >= Ttl
    <2>1. t \in Nat /\ now \in Nat /\ accepted[k][i] \in Nat
      <3>1. t \in Nat /\ now \in Nat
        BY DEF FrontShapes
      <3>2. accepted[k] \in Seq(Nat)
        BY DEF FrontShapes
      <3> QED BY <3>1, <3>2
    <2> QED BY <1>2, <2>1, Constants DEF Unexpired
  <1> QED BY <1>1, <1>2 DEF KeysInv

(* The keys do not change.                                                  *)
LEMMA KeysKept == ASSUME KeysInv, AcceptedOnce, UNCHANGED <<now, keys>> PROVE KeysInv' /\ AcceptedOnce'
  BY DEF KeysInv, AcceptedOnce, keys, AtMostOne

(* A reply that expires was cached for Ttl.                                 *)
LEMMA KeysTick ==
    ASSUME FrontShapes, KeysInv, AcceptedOnce, Tick PROVE KeysInv' /\ AcceptedOnce'
  <1>1. now' = now + 1 /\ UNCHANGED keys /\ now \in Nat
    BY DEF Tick, keys, FrontShapes
  <1>2. ASSUME NEW k \in Keys, NEW t \in cached[k], t <= now PROVE t <= now'
    BY <1>1, <1>2 DEF FrontShapes
  <1>3. ASSUME NEW k \in Keys, NEW i \in DOMAIN accepted[k]
        PROVE  /\ accepted[k][i] <= now'
               /\ now - accepted[k][i] >= Ttl => now' - accepted[k][i] >= Ttl
    <2>1. accepted[k][i] \in Nat /\ accepted[k][i] <= now
      BY DEF FrontShapes, KeysInv
    <2> QED BY <1>1, <2>1, Constants
  <1> QED BY <1>1, <1>2, <1>3 DEF KeysInv, AcceptedOnce, keys, AtMostOne

(* A retry is answered without a second execution.                          *)
LEMMA RetryKeeps ==
    ASSUME FroInv, NEW c \in Callers, NEW k \in Keys, Retry(c, k), FrontShapes'
    PROVE  FroInv'
  <1>1. LimitInv'
    BY LetThroughKeeps DEF FroInv, Retry
  <1>2. UNCHANGED <<now, inflight, accepted>> /\ \A j \in Keys : cached'[j] = Unexpired(j)
    BY DEF Retry
  <1>3. KeysInv'
    BY <1>2, KeysPruned DEF FroInv, LimitInv, KeysInv
  <1> QED BY <1>1, <1>2, <1>3 DEF FroInv, AcceptedOnce

(* An execution begins when whatever was accepted before was so a Ttl ago.  *)
LEMMA ExecuteKeeps ==
    ASSUME FroInv, NEW c \in Callers, NEW k \in Keys, Execute(c, k), FrontShapes'
    PROVE  FroInv'
  <1>1. LimitInv'
    BY LetThroughKeeps DEF FroInv, Execute
  <1>2. PICK outcome \in Outcomes :
            /\ inflight' = [inflight EXCEPT ![k] = outcome]
            /\ accepted' = IF outcome = "accepted"
                           THEN [accepted EXCEPT ![k] = Append(@, now)] ELSE accepted
    BY DEF Execute
  <1> DEFINE n == Len(accepted[k])
  <1>3. /\ now' = now /\ now \in Nat /\ \A j \in Keys : cached'[j] = Unexpired(j)
        /\ Unexpired(k) = {} /\ cached'[k] = {} /\ inflight[k] = "none" /\ inflight'[k] = outcome
        /\ accepted[k] \in Seq(Nat) /\ n \in Nat /\ DOMAIN accepted[k] = 1 .. n
        /\ \A i \in 1 .. n : accepted[k][i] \in Nat /\ accepted[k][i] <= now
        /\ \A j \in Keys \ {k} : inflight'[j] = inflight[j] /\ accepted'[j] = accepted[j]
    <2>1. FrontShapes
      BY DEF FroInv, LimitInv
    <2>2. /\ now' = now /\ \A j \in Keys : cached'[j] = Unexpired(j)
          /\ Unexpired(k) = {} /\ inflight[k] = "none"
      BY DEF Execute, Answered
    <2>3. inflight'[k] = outcome /\ \A j \in Keys \ {k} : inflight'[j] = inflight[j]
      BY <1>2, <2>1 DEF FrontShapes
    <2>4. \A j \in Keys \ {k} : accepted'[j] = accepted[j]
      BY <1>2, <2>1 DEF FrontShapes
    <2>5. now \in Nat /\ accepted[k] \in Seq(Nat)
      BY <2>1 DEF FrontShapes
    <2>6. \A i \in DOMAIN accepted[k] : accepted[k][i] <= now
      BY DEF FroInv, KeysInv
    <2>7. PICK q \in Seq(Nat) : q = accepted[k]
      BY <2>5
    <2>8. /\ Len(q) \in Nat /\ DOMAIN q = 1 .. Len(q)
          /\ \A i \in 1 .. Len(q) : q[i] \in Nat
      OBVIOUS
    <2>9. /\ n \in Nat /\ DOMAIN accepted[k] = 1 .. n
          /\ \A i \in 1 .. n : accepted[k][i] \in Nat /\ accepted[k][i] <= now
      BY <2>6, <2>7, <2>8
    <2> HIDE DEF n
    <2> QED BY <2>2, <2>3, <2>4, <2>5, <2>9
  <1>4. ASSUME NEW i \in 1 .. n PROVE now - accepted[k][i] >= Ttl
    <2>1. ASSUME NEW t \in cached[k], t >= accepted[k][i] + Ttl
          PROVE  now - accepted[k][i] >= Ttl
      <3>1. t \in Nat /\ ~(t > now)
        BY <1>3 DEF FroInv, LimitInv, FrontShapes, Unexpired
      <3>2. PICK u \in Nat, v \in Nat, w \in Nat : u = now /\ v = accepted[k][i] /\ w = t
        BY <1>3, <3>1
      <3> QED BY <2>1, <3>1, <3>2, Constants
    <2>2. \/ now - accepted[k][i] >= Ttl
          \/ inflight[k] = "accepted"
          \/ \E t \in cached[k] : t >= accepted[k][i] + Ttl
      BY <1>3 DEF FroInv, KeysInv
    <2> QED BY <1>3, <2>1, <2>2
  <1>5. \/ outcome = "accepted" /\ accepted'[k] = Append(accepted[k], now)
        \/ outcome # "accepted" /\ accepted'[k] = accepted[k]
    BY <1>2 DEF FroInv, LimitInv, FrontShapes
  <1>6. /\ accepted'[k] = accepted[k] \/ accepted'[k] = Append(accepted[k], now)
        /\ \A i \in DOMAIN accepted'[k] :
              \/ i \in 1 .. n /\ accepted'[k][i] = accepted[k][i]
              \/ i = n + 1 /\ accepted'[k][i] = now /\ outcome = "accepted"
    <2>1. CASE outcome = "accepted" /\ accepted'[k] = Append(accepted[k], now)
      <3>1. DOMAIN accepted'[k] = 1 .. n + 1 /\ accepted'[k][n + 1] = now
        BY <1>3, <2>1
      <3>2. \A i \in 1 .. n : accepted'[k][i] = accepted[k][i]
        BY <1>3, <2>1
      <3>3. \A i \in 1 .. n + 1 : i \in 1 .. n \/ i = n + 1
        BY <1>3
      <3> QED BY <2>1, <3>1, <3>2, <3>3
    <2>2. CASE outcome # "accepted" /\ accepted'[k] = accepted[k]
      BY <1>3, <2>2
    <2> QED BY <1>5, <2>1, <2>2
  <1> HIDE DEF n
  <1>7. KeysInv'
    <2>1. ASSUME NEW j \in Keys \ {k}
          PROVE  /\ AtMostOne(cached[j])'
                 /\ inflight'[j] # "none" => \A t \in cached'[j] : t <= now'
                 /\ \A i \in DOMAIN accepted'[j] :
                       /\ accepted'[j][i] <= now'
                       /\ \/ now' - accepted'[j][i] >= Ttl
                          \/ inflight'[j] = "accepted"
                          \/ \E t \in cached'[j] : t >= accepted'[j][i] + Ttl
      BY <1>3, KeysPruned DEF FroInv, LimitInv
    <2>2. ASSUME NEW i \in DOMAIN accepted'[k]
          PROVE  /\ accepted'[k][i] <= now
                 /\ now - accepted'[k][i] >= Ttl \/ inflight'[k] = "accepted"
      <3>1. CASE i \in 1 .. n /\ accepted'[k][i] = accepted[k][i]
        BY <1>3, <1>4, <3>1
      <3>2. CASE i = n + 1 /\ accepted'[k][i] = now /\ outcome = "accepted"
        BY <1>3, <3>2
      <3> QED BY <1>6, <3>1, <3>2
    <2>3. AtMostOne(cached[k])' /\ \A t \in cached'[k] : t <= now'
      BY <1>3 DEF AtMostOne
    <2> QED BY <1>3, <2>1, <2>2, <2>3 DEF KeysInv
  <1>8. AcceptedOnce'
    <2> SUFFICES ASSUME NEW j \in Keys, NEW a \in DOMAIN accepted'[j], NEW b \in DOMAIN accepted'[j], a < b
                 PROVE  accepted'[j][b] - accepted'[j][a] >= Ttl
      BY DEF AcceptedOnce
    <2>1. CASE j # k
      BY <1>3, <2>1 DEF FroInv, AcceptedOnce
    <2>2. CASE j = k
      <3>1. /\ a \in 1 .. n /\ accepted'[k][a] = accepted[k][a]
            /\ \/ b \in 1 .. n /\ accepted'[k][b] = accepted[k][b]
               \/ b = n + 1 /\ accepted'[k][b] = now
        <4>1. a \in 1 .. n \/ a = n + 1
          BY <1>6, <2>2
        <4>2. b \in 1 .. n \/ b = n + 1
          BY <1>6, <2>2
        <4>3. a # n + 1
          BY <1>3, <4>1, <4>2
        <4> QED BY <1>6, <2>2, <4>3
      <3>2. CASE b \in 1 .. n /\ accepted'[k][b] = accepted[k][b]
        BY <1>3, <2>2, <3>1, <3>2 DEF FroInv, AcceptedOnce
      <3>3. CASE b = n + 1 /\ accepted'[k][b] = now
        BY <1>4, <2>2, <3>1, <3>3
      <3> QED BY <3>1, <3>2, <3>3
    <2> QED BY <2>1, <2>2
  <1> QED BY <1>1, <1>7, <1>8 DEF FroInv

(* The reply of an accepted message is cached from now on.                  *)
LEMMA RepliesKeeps == ASSUME FroInv, NEW k \in Keys, Replies(k) PROVE FroInv'
  <1>1. /\ now' = now /\ now \in Nat /\ UNCHANGED limits /\ accepted' = accepted
        /\ inflight[k] # "none" /\ inflight'[k] = "none"
        /\ cached'[k] = IF inflight[k] = "broken" THEN cached[k] ELSE {now + Ttl}
        /\ \A j \in Keys \ {k} : inflight'[j] = inflight[j] /\ cached'[j] = cached[j]
    BY DEF FroInv, LimitInv, FrontShapes, Replies, limits
  <1>2. FrontShapes'
    <2>1. now + Ttl \in Nat
      BY <1>1, Constants
    <2>2. inflight' \in [Keys -> Outcomes \cup {"none"}] /\ cached' \in [Keys -> SUBSET Nat]
      BY <2>1 DEF FroInv, LimitInv, FrontShapes, Replies
    <2> QED BY <1>1, <2>2 DEF FroInv, LimitInv, FrontShapes, limits
  <1>3. LimitInv'
    BY <1>1, <1>2, LimitsKept DEF FroInv
  <1>4. ASSUME NEW i \in DOMAIN accepted[k]
        PROVE  /\ accepted[k][i] <= now
               /\ \/ now - accepted[k][i] >= Ttl
                  \/ \E t \in cached'[k] : t >= accepted[k][i] + Ttl
    <2>1. accepted[k][i] \in Nat /\ accepted[k][i] <= now
      BY DEF FroInv, LimitInv, FrontShapes, KeysInv
    <2>2. CASE inflight[k] = "broken"
      <3>1. now - accepted[k][i] >= Ttl \/ \E t \in cached[k] : t >= accepted[k][i] + Ttl
        BY <2>2 DEF FroInv, KeysInv
      <3> QED BY <1>1, <2>1, <2>2, <3>1
    <2>3. CASE inflight[k] # "broken"
      <3>1. now + Ttl \in cached'[k] /\ now + Ttl >= accepted[k][i] + Ttl
        BY <1>1, <2>1, <2>3, Constants
      <3> QED BY <2>1, <3>1
    <2> QED BY <2>2, <2>3
  <1>5. AtMostOne(cached[k])'
    BY <1>1 DEF FroInv, KeysInv, AtMostOne
  <1>6. KeysInv'
    <2>1. ASSUME NEW j \in Keys \ {k}
          PROVE  /\ AtMostOne(cached[j])'
                 /\ inflight'[j] # "none" => \A t \in cached'[j] : t <= now'
                 /\ \A i \in DOMAIN accepted'[j] :
                       /\ accepted'[j][i] <= now'
                       /\ \/ now' - accepted'[j][i] >= Ttl
                          \/ inflight'[j] = "accepted"
                          \/ \E t \in cached'[j] : t >= accepted'[j][i] + Ttl
      BY <1>1 DEF FroInv, KeysInv, AtMostOne
    <2> QED BY <1>1, <1>4, <1>5, <2>1 DEF KeysInv
  <1> QED BY <1>1, <1>3, <1>6 DEF FroInv, AcceptedOnce

(* The shapes of what a request that is let through writes.                 *)
LEMMA LetThroughShapes ==
    ASSUME FroInv, NEW c \in Callers, LetThrough(c), UNCHANGED now
    PROVE  /\ bucket' \in [Callers -> SUBSET BucketShape] /\ passed' \in [Callers -> Seq(Nat)]
           /\ promised' \in [Callers -> SUBSET Nat]
  <1> DEFINE b == [tokens |-> Level(c) - Minute, last |-> now]
  <1>1. b \in BucketShape
    <2>1. Level(c) - Minute \in 0 .. Capacity /\ now \in Nat
      BY LevelIs, Constants DEF FroInv, LimitInv, FrontShapes, LetThrough
    <2> QED BY <2>1 DEF BucketShape
  <1>2. /\ bucket' = [bucket EXCEPT ![c] = {b}] /\ now \in Nat
        /\ passed' = [passed EXCEPT ![c] = Append(@, now)]
        /\ promised' = [promised EXCEPT ![c] = {}]
    BY DEF LetThrough, Put, FroInv, LimitInv, FrontShapes
  <1> HIDE DEF b
  <1> QED BY <1>1, <1>2 DEF FroInv, LimitInv, FrontShapes

(* Each step keeps it.                                                      *)
LEMMA FroNext == ASSUME FroInv, [FrontNext]_frontVars PROVE FroInv'
  <1>1. CASE Tick
    BY <1>1, TickKeeps, KeysTick DEF FroInv, LimitInv
  <1>2. CASE Gc
    BY <1>2, GcKeeps, KeysKept DEF FroInv, LimitInv, Gc, keys
  <1>3. CASE FrontRestarts
    BY <1>3, FrontRestartsKeeps
  <1>4. ASSUME NEW c \in Callers, Limited(c) PROVE FroInv'
    BY <1>4, LimitedKeeps, KeysKept DEF FroInv, LimitInv, Limited, keys
  <1>5. ASSUME NEW c \in Callers, Unauthorized(c) PROVE FroInv'
    <2>1. FrontShapes'
      BY <1>5, LetThroughShapes DEF Unauthorized, FroInv, LimitInv, FrontShapes
    <2>2. LimitInv'
      BY <1>5, <2>1, LetThroughKeeps DEF Unauthorized, FroInv
    <2> QED BY <1>5, <2>2, KeysKept DEF Unauthorized, FroInv, keys
  <1>6. ASSUME NEW c \in Callers, NEW k \in Keys, Retry(c, k) PROVE FroInv'
    <2>1. cached' \in [Keys -> SUBSET Nat]
      BY <1>6 DEF Retry, FroInv, LimitInv, FrontShapes, Unexpired
    <2>2. FrontShapes'
      BY <1>6, <2>1, LetThroughShapes DEF Retry, FroInv, LimitInv, FrontShapes
    <2> QED BY <1>6, <2>2, RetryKeeps
  <1>7. ASSUME NEW c \in Callers, NEW k \in Keys, Execute(c, k) PROVE FroInv'
    <2>1. cached' \in [Keys -> SUBSET Nat]
      BY <1>7 DEF Execute, FroInv, LimitInv, FrontShapes, Unexpired
    <2>2. inflight' \in [Keys -> Outcomes \cup {"none"}] /\ accepted' \in [Keys -> Seq(Nat)]
      BY <1>7 DEF Execute, FroInv, LimitInv, FrontShapes
    <2>3. FrontShapes'
      BY <1>7, <2>1, <2>2, LetThroughShapes DEF Execute, FroInv, LimitInv, FrontShapes
    <2> QED BY <1>7, <2>3, ExecuteKeeps
  <1>8. ASSUME NEW k \in Keys, Replies(k) PROVE FroInv'
    BY <1>8, RepliesKeeps
  <1>9. CASE UNCHANGED frontVars
    <2>1. UNCHANGED limits /\ UNCHANGED <<now, keys>>
      BY <1>9 DEF frontVars, limits, keys
    <2>2. FrontShapes'
      BY <1>9 DEF frontVars, FroInv, LimitInv, FrontShapes
    <2> QED BY <2>1, <2>2, LimitsKept, KeysKept DEF FroInv
  <1> QED BY <1>1, <1>2, <1>3, <1>4, <1>5, <1>6, <1>7, <1>8, <1>9 DEF FrontNext

(* It implies what the run checks.                                          *)
LEMMA FroImplies == FroInv => LimiterInv /\ AcceptedOnce
  <1> SUFFICES ASSUME FroInv PROVE LimiterInv /\ AcceptedOnce
    OBVIOUS
  <1>1. \A S : AtMostOne(S) => IsFiniteSet(S) /\ Cardinality(S) <= 1
    <2> SUFFICES ASSUME NEW S, AtMostOne(S) PROVE IsFiniteSet(S) /\ Cardinality(S) <= 1
      OBVIOUS
    <2>1. CASE S = {}
      BY <2>1, FS_EmptySet
    <2>2. ASSUME NEW x \in S PROVE IsFiniteSet(S) /\ Cardinality(S) <= 1
      <3>1. S = {x}
        BY <2>2 DEF AtMostOne
      <3>2. IsFiniteSet({x}) /\ Cardinality({x}) = 1
        BY FS_Singleton
      <3>3. IsFiniteSet(S) /\ Cardinality(S) = 1
        BY <3>1, <3>2
      <3> QED BY <3>3
    <2> QED BY <2>1, <2>2
  <1>2. \A c \in Callers : \A b \in bucket[c] : b.tokens \in 0 .. Capacity /\ b.last \in 0 .. now
    BY DEF FroInv, LimitInv, FrontShapes, Buckets, BucketShape
  <1>3. FrontTypeOK
    BY <1>1, <1>2 DEF FroInv, LimitInv, FrontShapes, Buckets, KeysInv, FrontTypeOK
  <1>4. RetryAfterHonest
    <2> SUFFICES ASSUME NEW c \in Callers, NEW t \in promised[c], now >= t
                 PROVE  Level(c) >= Minute
      BY DEF RetryAfterHonest
    <2>1. PICK b \in bucket[c] : TRUE
      BY DEF FroInv, LimitInv, Buckets
    <2>2. /\ b \in BucketShape /\ Fill(b, now) \in Int /\ now \in Nat /\ t \in Nat
          /\ Level(c) = IF Fill(b, now) > Capacity THEN Capacity ELSE Fill(b, now)
          /\ Minute <= Fill(b, t)
      BY LevelIs DEF FroInv, LimitInv, FrontShapes, Promises
    <2>3. b.tokens \in Nat /\ b.last \in Nat
      BY <2>2, Constants DEF BucketShape
    <2>4. t - b.last \in Int /\ now - b.last \in Int /\ t - b.last <= now - b.last
      BY <2>2, <2>3
    <2>5. PICK x \in Int, y \in Int : x = Rpm * (t - b.last) /\ y = Rpm * (now - b.last) /\ x <= y
      BY <2>4, Constants, Products
    <2>6. Fill(b, t) = b.tokens + x /\ Fill(b, now) = b.tokens + y
      BY <2>5 DEF Fill
    <2> QED BY <2>2, <2>3, <2>5, <2>6, Constants
  <1> QED BY <1>3, <1>4 DEF LimiterInv, FroInv, LimitInv

HIDE FrontAssumption

----------------------------------------------------------------------------
(* The opening of the database (StoreOpen).                                 *)

(* A table is not there, is empty, or holds the rows of the version before. *)
TableStates == [TableNames -> {{}, {{}}, {OldSessions}}]

OpenShapes ==
    /\ tables \in TableStates /\ tx \subseteq TableStates /\ columns \subseteq Columns /\ found \subseteq columns
    /\ starting \in BOOLEAN /\ secret \in Generated \cup {NoKey}
    /\ stored \in [StoredCreds -> MasterKeys \cup {Plain, Absent}]
    /\ opening \in {"down", "schema", "columns", "rebuild", "masterKey", "encrypt", "open"}
    /\ masterKey \in MasterKeys \cup {NoKey} /\ envKey \in EnvKeys \cup {NoKey}
    /\ boots \in 0 .. MaxBoots /\ (opening # "down" => boots > 0)

(* On disk are whole tables only; a transaction holds the copies of both.   *)
TablesWhole ==
    /\ tables["sessions_new"] = {} /\ tables["boxes_new"] = {}
    /\ opening \notin {"down", "schema"} => tables["sessions"] # {} /\ tables["boxes"] # {}
    /\ tx # {} => opening = "rebuild"
    /\ \A i, j \in tx : i = j
    /\ \A i \in tx : /\ i["sessions_new"] = tables["sessions"]
                     /\ i["boxes_new"] = tables["boxes"]

(* What the constructor is through with stays done while the process lives. *)
DoneSoFar ==
    /\ opening \in {"rebuild", "masterKey", "encrypt", "open"} => columns = Columns
    /\ opening \in {"masterKey", "encrypt", "open"} => starting
    /\ opening = "open" => \A c \in StoredCreds : stored[c] # Plain
    /\ (\E c \in OldCreds : stored[c] # Absent)
          => tables["sessions"] = {OldSessions} /\ tables["boxes"] = {OldSessions}

(* The key that the next start will use, if there is one already.           *)
KeyOnDisk == IF envKey # NoKey THEN envKey ELSE secret

OneKey ==
    /\ opening \in {"encrypt", "open"} => masterKey = KeyOnDisk /\ masterKey # NoKey
    /\ ~Rotates => \A c \in StoredCreds : stored[c] \in {Absent, Plain, KeyOnDisk}

OpnInv == OpenShapes /\ TablesWhole /\ DoneSoFar /\ OneKey


(* It holds of every database that the first start may find.                *)
LEMMA OpnInit == OpenInit => OpnInv
  <1> SUFFICES ASSUME OpenInit PROVE OpnInv
    OBVIOUS
  <1> USE DEF OpenInit
  <1>1. OpenShapes
    <2>1. NoDatabase \in TableStates /\ OldDatabase \in TableStates
      BY DEF NoDatabase, OldDatabase, TableStates, TableNames
    <2>2. stored \in [StoredCreds -> MasterKeys \cup {Plain, Absent}] /\ columns \subseteq Columns
      BY OpenAssumption
    <2>3. 0 \in 0 .. MaxBoots
      BY OpenAssumption
    <2> QED BY <2>1, <2>2, <2>3 DEF OpenShapes
  <1>2. TablesWhole
    BY DEF TablesWhole, NoDatabase, OldDatabase, TableNames
  <1>3. DoneSoFar
    <2>1. CASE stored = [c \in StoredCreds |-> Absent]
      BY <2>1 DEF DoneSoFar, StoredCreds
    <2>2. CASE tables = OldDatabase
      BY <2>2 DEF DoneSoFar, OldDatabase, NoDatabase, TableNames
    <2> QED BY <2>1, <2>2
  <1>4. OneKey
    BY DEF OneKey
  <1> QED BY <1>1, <1>2, <1>3, <1>4 DEF OpnInv

(* Keys are keys.                                                           *)
LEMMA KeysApart ==
    /\ NoKey \notin MasterKeys /\ Plain \notin MasterKeys /\ Plain # Absent
    /\ \A n \in 1 .. MaxBoots : n \in Generated /\ n \in MasterKeys
    /\ EnvKeys \subseteq MasterKeys /\ Generated \subseteq MasterKeys
  BY OpenAssumption DEF MasterKeys, Generated

(* With Rotates, a start may find another key in the environment.           *)
LEMMA StartProcessStep == ASSUME OpnInv, StartProcess PROVE OpnInv'
  <1> USE DEF OpnInv, StartProcess, openDisk
  <1>1. OpenShapes'
    BY OpenAssumption DEF OpenShapes
  <1>2. TablesWhole'
    BY DEF TablesWhole
  <1>3. DoneSoFar'
    BY DEF DoneSoFar
  <1>4. OneKey'
    <2>1. ~Rotates => envKey' = envKey
      OBVIOUS
    <2> QED BY <2>1 DEF OneKey, KeyOnDisk
  <1> QED BY <1>1, <1>2, <1>3, <1>4

(* The tables are there, with all rows they had.                            *)
LEMMA CreateSchemaStep == ASSUME OpnInv, CreateSchema PROVE OpnInv'
  <1> USE DEF OpnInv, CreateSchema
  <1>1. OpenShapes'
    <2>1. tables' \in TableStates
      BY DEF OpenShapes, TableStates
    <2>2. columns' \subseteq Columns /\ found' \subseteq columns' /\ starting' \in BOOLEAN
      BY OpenAssumption DEF OpenShapes
    <2> QED BY <2>1, <2>2 DEF OpenShapes
  <1>2. TablesWhole'
    BY DEF TablesWhole, OpenShapes, TableNames
  <1>3. DoneSoFar'
    <2>1. \A t \in TableNames : tables[t] = {OldSessions} => tables'[t] = {OldSessions}
      OBVIOUS
    <2> QED BY <2>1 DEF DoneSoFar, TableNames
  <1>4. OneKey'
    BY DEF OneKey, KeyOnDisk
  <1> QED BY <1>1, <1>2, <1>3, <1>4

(* One more column.                                                         *)
LEMMA AddColumnStep == ASSUME OpnInv, AddColumn PROVE OpnInv'
  <1> USE DEF OpnInv, AddColumn, openProc
  <1>1. PICK c \in Lacking : columns' = columns \cup {c}
    <2>1. Lacking \in SUBSET Nat /\ Lacking # {}
      BY OpenAssumption DEF Lacking
    <2>2. \E c \in Lacking : \A d \in Lacking : c <= d
      BY <2>1, LeastOne
    <2>3. (CHOOSE c \in Lacking : \A d \in Lacking : c <= d) \in Lacking
      BY <2>2
    <2> QED BY <2>3
  <1>2. c \in Columns
    BY DEF Lacking
  <1>3. OpenShapes'
    BY <1>1, <1>2 DEF OpenShapes
  <1>4. TablesWhole' /\ DoneSoFar' /\ OneKey'
    BY DEF TablesWhole, DoneSoFar, OneKey, KeyOnDisk
  <1> QED BY <1>3, <1>4

(* No column is lacking.                                                    *)
LEMMA ColumnsDoneStep == ASSUME OpnInv, ColumnsDone PROVE OpnInv'
  <1> USE DEF OpnInv, ColumnsDone, openDisk
  <1>1. columns = Columns
    BY DEF OpenShapes, Lacking
  <1>2. OpenShapes'
    BY DEF OpenShapes
  <1>3. TablesWhole'
    BY DEF TablesWhole
  <1>4. DoneSoFar'
    BY <1>1 DEF DoneSoFar, OpenShapes
  <1>5. OneKey'
    BY DEF OneKey, KeyOnDisk, OpenShapes
  <1> QED BY <1>2, <1>3, <1>4, <1>5

(* There is one open transaction.                                           *)
LEMMA ImageIs == ASSUME TablesWhole, tx # {} PROVE Image \in tx /\ tx = {Image}
  BY DEF Image, TablesWhole

(* A statement that leaves the copies as they are.                          *)
LEMMA StatementStep ==
    ASSUME OpnInv, NEW image \in TableStates, Statement(image), opening = "rebuild",
           image["sessions_new"] = tables["sessions"], image["boxes_new"] = tables["boxes"],
           UNCHANGED <<columns, starting, secret, stored, opening, found, masterKey, envKey, boots>>
    PROVE  OpnInv'
  <1> USE DEF OpnInv, Statement
  <1>1. OpenShapes'
    BY DEF OpenShapes
  <1>2. TablesWhole'
    BY DEF TablesWhole
  <1>3. DoneSoFar' /\ OneKey'
    BY DEF DoneSoFar, OneKey, KeyOnDisk
  <1> QED BY <1>1, <1>2, <1>3

(* Both tables are copied in the transaction,                               *)
LEMMA CopyTablesStep == ASSUME OpnInv, CopyTables PROVE OpnInv'
  <1> DEFINE image == [tables EXCEPT !["sessions_new"] = tables["sessions"],
                                     !["boxes_new"] = tables["boxes"]]
  <1>1. image \in TableStates /\ image["sessions_new"] = tables["sessions"]
                         /\ image["boxes_new"] = tables["boxes"]
    BY DEF OpnInv, OpenShapes, TableStates, TableNames
  <1>2. /\ Statement(image) /\ opening = "rebuild"
        /\ UNCHANGED <<columns, starting, secret, stored, opening, found, masterKey, envKey, boots>>
    BY DEF CopyTables
  <1> HIDE DEF image
  <1> QED BY <1>1, <1>2, StatementStep

(* the old ones dropped in it,                                              *)
LEMMA DropTablesStep == ASSUME OpnInv, DropTables PROVE OpnInv'
  <1> DEFINE image == [Image EXCEPT !["sessions"] = {}, !["boxes"] = {}]
  <1>1. Image \in tx /\ opening = "rebuild" /\ Image \in TableStates
        /\ Image["sessions_new"] = tables["sessions"] /\ Image["boxes_new"] = tables["boxes"]
    BY ImageIs DEF OpnInv, OpenShapes, TablesWhole, DropTables
  <1>2. image \in TableStates /\ image["sessions_new"] = tables["sessions"]
                         /\ image["boxes_new"] = tables["boxes"]
    BY <1>1 DEF TableStates, TableNames
  <1>3. /\ Statement(image)
        /\ UNCHANGED <<columns, starting, secret, stored, opening, found, masterKey, envKey, boots>>
    BY DEF DropTables
  <1> HIDE DEF image
  <1> QED BY <1>1, <1>2, <1>3, StatementStep

(* and the copies take their place when it commits.                         *)
LEMMA RenameTablesStep == ASSUME OpnInv, RenameTables PROVE OpnInv'
  <1> USE DEF OpnInv, RenameTables
  <1>1. Image \in tx /\ opening = "rebuild"
        /\ Image["sessions_new"] = tables["sessions"] /\ Image["boxes_new"] = tables["boxes"]
        /\ tables["sessions"] # {} /\ tables["boxes"] # {}
    BY ImageIs DEF TablesWhole
  <1>2. /\ tables' \in TableStates
        /\ tables'["sessions"] = tables["sessions"] /\ tables'["boxes"] = tables["boxes"]
        /\ tables'["sessions_new"] = {} /\ tables'["boxes_new"] = {}
    <2>1. tables["sessions"] \in {{}, {{}}, {OldSessions}} /\ tables["boxes"] \in {{}, {{}}, {OldSessions}}
      BY DEF OpenShapes, TableStates, TableNames
    <2>2. tables' = [NoDatabase EXCEPT !["sessions"] = tables["sessions"], !["boxes"] = tables["boxes"]]
      BY <1>1
    <2>3. NoDatabase \in TableStates
      BY DEF NoDatabase, TableStates
    <2> QED BY <2>1, <2>2, <2>3 DEF NoDatabase, TableStates, TableNames
  <1>3. OpenShapes'
    BY <1>1, <1>2 DEF OpenShapes
  <1>4. TablesWhole'
    BY <1>1, <1>2 DEF TablesWhole
  <1>5. DoneSoFar'
    BY <1>1, <1>2 DEF DoneSoFar
  <1>6. OneKey'
    BY <1>1 DEF OneKey, KeyOnDisk
  <1> QED BY <1>3, <1>4, <1>5, <1>6

(* A key is generated only if nothing was under a key before.               *)
LEMMA ResolveKeyStep == ASSUME OpnInv, ResolveKey PROVE OpnInv'
  <1>1. /\ opening = "masterKey" /\ opening' = "encrypt" /\ boots \in 1 .. MaxBoots
        /\ UNCHANGED <<tables, columns, starting, stored, found, tx, envKey, boots>>
    BY OpenAssumption DEF OpnInv, OpenShapes, ResolveKey
  <1>2. boots \in Generated /\ boots \in MasterKeys /\ boots # NoKey
    BY <1>1, KeysApart
  <1>3. \/ envKey # NoKey /\ masterKey' = envKey /\ secret' = secret
        \/ envKey = NoKey /\ secret # NoKey /\ masterKey' = secret /\ secret' = secret
        \/ envKey = NoKey /\ secret = NoKey /\ masterKey' = boots /\ secret' = boots
    BY DEF ResolveKey, SavedKey
  <1>4. secret \in Generated \cup {NoKey} /\ envKey \in EnvKeys \cup {NoKey}
    BY DEF OpnInv, OpenShapes
  <1>5. OpenShapes'
    <2>1. secret' \in Generated \cup {NoKey} /\ masterKey' \in MasterKeys \cup {NoKey}
      BY <1>2, <1>3, <1>4, KeysApart
    <2> QED BY <1>1, <2>1 DEF OpnInv, OpenShapes
  <1>6. TablesWhole' /\ DoneSoFar'
    BY <1>1 DEF OpnInv, TablesWhole, DoneSoFar
  <1>7. OneKey'
    <2>1. masterKey' = KeyOnDisk' /\ masterKey' # NoKey
      BY <1>1, <1>2, <1>3 DEF KeyOnDisk
    <2>2. ASSUME ~Rotates, NEW c \in StoredCreds
          PROVE  stored[c] \in {Absent, Plain, KeyOnDisk'}
      <3>1. stored[c] \in {Absent, Plain, KeyOnDisk} /\ stored[c] \in MasterKeys \cup {Plain, Absent}
        BY <2>2 DEF OpnInv, OneKey, OpenShapes
      <3>2. CASE KeyOnDisk' = KeyOnDisk
        BY <3>1, <3>2
      <3>3. CASE KeyOnDisk = NoKey
        BY <3>1, <3>3, KeysApart
      <3>4. KeyOnDisk' = KeyOnDisk \/ KeyOnDisk = NoKey
        BY <1>1, <1>3 DEF KeyOnDisk
      <3> QED BY <3>2, <3>3, <3>4
    <2> QED BY <1>1, <2>1, <2>2 DEF OneKey
  <1> QED BY <1>5, <1>6, <1>7 DEF OpnInv

(* A credential is put under the key in use.                                *)
LEMMA Stores ==
    ASSUME OpnInv, opening \in {"encrypt", "open"}, NEW c \in StoredCreds,
           c \in OldCreds => stored[c] # Absent, stored' = [stored EXCEPT ![c] = masterKey],
           UNCHANGED <<tables, columns, starting, secret, openProc>>
    PROVE  OpnInv'
  <1> USE DEF OpnInv, openProc
  <1>1. masterKey \in MasterKeys /\ masterKey = KeyOnDisk /\ masterKey # Plain
    BY KeysApart DEF OpenShapes, OneKey
  <1>2. OpenShapes'
    BY <1>1 DEF OpenShapes
  <1>3. TablesWhole'
    BY DEF TablesWhole
  <1>4. \A d \in StoredCreds : stored'[d] = IF d = c THEN masterKey ELSE stored[d]
    BY DEF OpenShapes
  <1>5. DoneSoFar'
    <2>1. (\E d \in OldCreds : stored'[d] # Absent) => \E d \in OldCreds : stored[d] # Absent
      BY <1>4 DEF StoredCreds
    <2>2. opening' = "open" => \A d \in StoredCreds : stored'[d] # Plain
      BY <1>1, <1>4 DEF DoneSoFar
    <2> QED BY <2>1, <2>2 DEF DoneSoFar
  <1>6. OneKey'
    BY <1>1, <1>4 DEF OneKey, KeyOnDisk
  <1> QED BY <1>2, <1>3, <1>5, <1>6

(* The database opens when nothing is in plain text.                        *)
LEMMA OpenedStep == ASSUME OpnInv, Opened PROVE OpnInv'
  <1> USE DEF OpnInv, Opened, openDisk
  <1>1. OpenShapes'
    BY DEF OpenShapes
  <1>2. TablesWhole'
    BY DEF TablesWhole
  <1>3. DoneSoFar'
    BY DEF DoneSoFar
  <1>4. OneKey'
    BY DEF OneKey, KeyOnDisk
  <1> QED BY <1>1, <1>2, <1>3, <1>4

(* A crash loses the transaction and the key in memory, and nothing on disk. *)
LEMMA DiesStep == ASSUME OpnInv, Dies PROVE OpnInv'
  <1> USE DEF OpnInv, Dies, openDisk
  <1>1. OpenShapes'
    BY DEF OpenShapes
  <1>2. TablesWhole'
    BY DEF TablesWhole
  <1>3. DoneSoFar'
    BY DEF DoneSoFar
  <1>4. OneKey'
    BY DEF OneKey, KeyOnDisk
  <1> QED BY <1>1, <1>2, <1>3, <1>4

(* Each step keeps it.                                                      *)
LEMMA OpnNext == ASSUME OpnInv, [OpenNext]_openVars PROVE OpnInv'
  <1>1. CASE EncryptOne
    <2>1. PICK c \in OldCreds : stored[c] = Plain /\ stored' = [stored EXCEPT ![c] = masterKey]
      BY <1>1 DEF EncryptOne
    <2>2. c \in StoredCreds /\ stored[c] # Absent /\ opening = "encrypt"
      BY <1>1, <2>1, KeysApart DEF StoredCreds, EncryptOne
    <2>3. UNCHANGED <<tables, columns, starting, secret, openProc>>
      BY <1>1 DEF EncryptOne
    <2> QED BY <2>1, <2>2, <2>3, Stores
  <1>2. CASE StoreCredential
    <2>1. PICK c \in NewCreds : stored' = [stored EXCEPT ![c] = masterKey]
      BY <1>2 DEF StoreCredential
    <2>2. c \in StoredCreds /\ c \notin OldCreds /\ opening = "open"
      BY <1>2, OpenAssumption DEF StoredCreds, StoreCredential
    <2>3. UNCHANGED <<tables, columns, starting, secret, openProc>>
      BY <1>2 DEF StoreCredential
    <2> QED BY <2>1, <2>2, <2>3, Stores
  <1>3. CASE UNCHANGED openVars
    <2>1. UNCHANGED <<tables, columns, starting, secret, stored, opening, found, tx, masterKey, envKey, boots>>
      BY <1>3 DEF openVars, openDisk, openProc
    <2>2. OpenShapes' /\ TablesWhole'
      BY <2>1 DEF OpnInv, OpenShapes, TablesWhole
    <2>3. DoneSoFar' /\ OneKey'
      BY <2>1 DEF OpnInv, DoneSoFar, OneKey, KeyOnDisk
    <2> QED BY <2>2, <2>3 DEF OpnInv
  <1> QED BY <1>1, <1>2, <1>3, StartProcessStep, CreateSchemaStep, AddColumnStep, ColumnsDoneStep,
             CopyTablesStep, DropTablesStep, RenameTablesStep, ResolveKeyStep, OpenedStep, DiesStep
          DEF OpenNext

(* It implies what the run checks.                                          *)
LEMMA OpnImplies == OpnInv => OpenTypeOK /\ UpgradeWhole /\ (~Rotates => CredentialsReadable)
  <1> SUFFICES ASSUME OpnInv PROVE OpenTypeOK /\ UpgradeWhole /\ (~Rotates => CredentialsReadable)
    OBVIOUS
  <1> USE DEF OpnInv
  <1>1. \A x : IsFiniteSet({x}) /\ Cardinality({x}) = 1
    BY FS_Singleton
  <1>2. Cardinality({}) = 0
    BY FS_EmptySet
  <1>3. \A t \in TableNames : tables[t] \subseteq SUBSET OldSessions /\ Cardinality(tables[t]) <= 1
    <2> SUFFICES ASSUME NEW t \in TableNames
                 PROVE  tables[t] \subseteq SUBSET OldSessions /\ Cardinality(tables[t]) <= 1
      OBVIOUS
    <2>1. tables[t] \in {{}, {{}}, {OldSessions}}
      BY DEF OpenShapes, TableStates
    <2>2. Cardinality(tables[t]) = 0 \/ Cardinality(tables[t]) = 1
      BY <1>1, <1>2, <2>1
    <2> QED BY <2>1, <2>2
  <1>4. Cardinality(tx) <= 1
    <2>1. CASE tx = {}
      BY <1>2, <2>1
    <2>2. CASE tx # {}
      <3>1. Cardinality(tx) = 1
        BY <1>1, <2>2, ImageIs
      <3> QED BY <3>1
    <2> QED BY <2>1, <2>2
  <1>5. OpenTypeOK
    BY <1>3, <1>4 DEF OpenTypeOK, OpenShapes, TablesWhole
  <1>6. UpgradeWhole
    BY DEF UpgradeWhole, TablesWhole, DoneSoFar, StoredCreds
  <1>7. ~Rotates => CredentialsReadable
    BY DEF CredentialsReadable, DoneSoFar, OneKey
  <1> QED BY <1>5, <1>6, <1>7

----------------------------------------------------------------------------
(* The API as a whole.                                                      *)

(* A step is a step of one part, and leaves the others alone.               *)
LEMMA PartsApart ==
    [Next]_vars => /\ [CatalogNext]_catalogVars /\ [VaultNext]_vaultVars
                   /\ [FrontNext]_frontVars /\ [OpenNext]_openVars
                   /\ [StoreNext]_storeVars
  BY DEF Next, vars, handlers, backends

(* The store in memory and the store in SQLite answer alike, to every call  *)
(* of a handler and every read after it, with its order, cascades and       *)
(* counts; they differ only on the container of a session that is gone or   *)
(* was, and on the mark of an archived agent in the versions written after. *)
THEOREM StoresAnswerAlike == Spec => []StoresAgree
  <1>1. Init => StoInv
    BY StoresStart DEF Init
  <1>2. StoInv /\ [Next]_vars => StoInv'
    <2>1. [Next]_vars => [StoreNext]_storeVars
      BY PartsApart
    <2> QED BY <2>1, StoresStep, StoresIdle
  <1>3. StoInv => StoresAgree
    BY StoresSame
  <1> QED BY <1>1, <1>2, <1>3, PTL DEF Spec

(* Each agent's row is the last of its history, no two PATCHes of it write  *)
(* over the same version, a session keeps its environment, and no line of   *)
(* delegation is longer than its root allows, whoever holds its tokens.     *)
THEOREM CatalogConsistent == Spec => []CatalogInv
  <1>1. Init => CatInv
    BY CatInit DEF Init
  <1>2. CatInv /\ [Next]_vars => CatInv'
    BY CatNext, PartsApart
  <1>3. CatInv => CatalogInv
    BY CatImplies
  <1> QED BY <1>1, <1>2, <1>3, PTL DEF Spec

(* A run has credentials as new as those it began with, the vault keeps the *)
(* refresh token that its provider takes, and no revision is used twice.    *)
THEOREM VaultsConsistent == Spec => []VaultInv
  <1>1. Init => VauInv
    BY VauInit DEF Init
  <1>2. VauInv /\ [Next]_vars => VauInv'
    BY VauNext, PartsApart
  <1>3. VauInv => VaultInv
    BY VauImplies
  <1> QED BY <1>1, <1>2, <1>3, PTL DEF Spec

(* A caller gets no more than its rate in any window, and a request when    *)
(* Retry-After said so, rejections and dropped buckets notwithstanding.     *)
THEOREM LimiterHonest == Spec => []LimiterInv
  <1>1. Init => FroInv
    BY FroInit DEF Init
  <1>2. FroInv /\ [Next]_vars => FroInv'
    BY FroNext, PartsApart
  <1>3. FroInv => LimiterInv
    BY FroImplies
  <1> QED BY <1>1, <1>2, <1>3, PTL DEF Spec

(* Between two restarts a message with an Idempotency-Key is accepted once  *)
(* in a Ttl, whatever is retried, and however many retries come at a time.  *)
THEOREM KeysHonoured == Spec => []AcceptedOnce
  <1>1. Init => FroInv
    BY FroInit DEF Init
  <1>2. FroInv /\ [Next]_vars => FroInv'
    BY FroNext, PartsApart
  <1>3. FroInv => AcceptedOnce
    BY FroImplies
  <1> QED BY <1>1, <1>2, <1>3, PTL DEF Spec

(* The invariant of the upgrade holds, with Rotates or without.             *)
LEMMA OpnAlways == Spec => []OpnInv
  <1>1. Init => OpnInv
    BY OpnInit DEF Init
  <1>2. OpnInv /\ [Next]_vars => OpnInv'
    BY OpnNext, PartsApart
  <1> QED BY <1>1, <1>2, PTL DEF Spec

(* However often an upgrade is cut off, and whatever the operator does with *)
(* the key, a database that opens has all its columns and rows, no copy of  *)
(* a table left over and no credential in plain text.                       *)
THEOREM UpgradesFinish == Spec => [](OpenTypeOK /\ UpgradeWhole)
  <1>1. OpnInv => OpenTypeOK /\ UpgradeWhole
    BY OpnImplies
  <1> QED BY <1>1, OpnAlways, PTL

(* An operator who leaves OPENCLAW_VAULT_KEY alone can read every           *)
(* credential whenever the database is open.                                *)
THEOREM OpenIsWhole == ASSUME ~Rotates PROVE Spec => []OpenInv
  <1>1. OpnInv => OpenInv
    BY OpnImplies DEF OpenInv
  <1> QED BY <1>1, OpnAlways, PTL
=============================================================================
