---------------------------- MODULE EgressFilter ----------------------------
(***************************************************************************)
(* What the egress proxy's filters compute, byte by byte: the allow-list    *)
(* (docker/egress-proxy/allowlist.mjs) and the two hand-written readers of  *)
(* a DNS query (dns.mjs), one that takes the name and one that measures the *)
(* question to echo it.  Characters are their codes; offsets are those of   *)
(* the code, from 0.                                                        *)
(***************************************************************************)
EXTENDS Integers, Sequences, SequencesExt

CONSTANT LabelCap   \* bound: steps of a name (128 in the code)

ASSUME FilterAssumption == LabelCap \in Nat \ {0}

Dot  == 46
Star == 42

----------------------------------------------------------------------------
(* compileAllowlist.                                                        *)

(* Mutant: the case is kept.                                                *)
Lower_Kept(c) == c

Lower(c) == IF c \in 65 .. 90 THEN c + 32 ELSE c

(* No name here has spaces for trim to take.                                *)
Normalize(s) ==
    LET t == [i \in DOMAIN s |-> Lower(s[i])] IN
    IF t # <<>> /\ t[Len(t)] = Dot THEN Front(t) ELSE t

Matches(pattern, host) ==
    IF IsPrefix(<<Star, Dot>>, pattern)
    THEN LET suffix == Tail(pattern) IN
         Len(host) > Len(suffix) /\ IsSuffix(suffix, host)
    ELSE host = pattern

Allowed(patterns, host) ==
    /\ Normalize(host) # <<>>
    /\ \E raw \in patterns :
          Normalize(raw) # <<>> /\ Matches(Normalize(raw), Normalize(host))

----------------------------------------------------------------------------
(* A DNS message.                                                           *)

HeaderLength == 12
At(m, o) == m[o + 1]
QdCount(m) == At(m, 4) * 256 + At(m, 5)

Pointer(len) == len >= 192
(* Mutant: the class of a question is not echoed.                           *)
TypeAndClass_Type == 2

TypeAndClass == 4

Undefined == [name |-> <<>>, ok |-> FALSE]
Ascii(bytes) == [i \in DOMAIN bytes |-> bytes[i] % 128]

(* A label of length len stands whole at offset o.                          *)
Whole(m, o, len) == len <= 63 /\ o + 1 + len <= Len(m)

(* Joined by dots; the root alone is a dot.                                 *)
Joined(labels) ==
    IF labels = <<>> THEN <<Dot>>
    ELSE FoldLeft(LAMBDA acc, l : acc \o <<Dot>> \o l, Head(labels), Tail(labels))

RECURSIVE NameFrom(_, _, _, _)
NameFrom(m, o, labels, steps) ==
    IF steps = 0 \/ o >= Len(m) THEN Undefined
    ELSE LET len == At(m, o) IN
         IF len = 0 THEN [name |-> Joined(labels), ok |-> TRUE]
         ELSE IF Pointer(len)
         THEN IF o + 1 >= Len(m) THEN Undefined
              ELSE LET ptr == (len % 64) * 256 + At(m, o + 1) IN
                   IF ptr >= o THEN Undefined ELSE NameFrom(m, ptr, labels, steps - 1)
         ELSE IF ~Whole(m, o, len) THEN Undefined
         ELSE NameFrom(m, o + 1 + len,
                       Append(labels, Ascii(SubSeq(m, o + 2, o + 1 + len))), steps - 1)

ParseFirstQuestionName(m) ==
    IF Len(m) < HeaderLength \/ QdCount(m) < 1 THEN Undefined
    ELSE NameFrom(m, HeaderLength, <<>>, LabelCap)

RECURSIVE QuestionNameEnd(_, _, _)
QuestionNameEnd(m, o, steps) ==
    IF steps = 0 \/ o >= Len(m) THEN o
    ELSE LET len == At(m, o) IN
         IF len = 0 THEN o + 1
         ELSE IF Pointer(len) THEN o + 2
         ELSE IF o + 1 + len > Len(m) THEN Len(m)
         ELSE QuestionNameEnd(m, o + 1 + len, steps - 1)

(* The header says one question and no answers, keeps the id and "recursion *)
(* desired", and sets QR, RA and the code 3; the question follows as asked. *)
SynthesizeNxdomain(m) ==
    LET end  == QuestionNameEnd(m, HeaderLength, LabelCap) + TypeAndClass
        kept == SubSeq(m, 1, IF end < Len(m) THEN end ELSE Len(m)) IN
    IF Len(m) < HeaderLength THEN <<>>
    ELSE [i \in DOMAIN kept |->
            CASE i = 3 -> 128 + (kept[3] % 2)
              [] i = 4 -> 131
              [] i = 6 -> 1
              [] i \in {5} \cup 7 .. 12 -> 0
              [] OTHER -> kept[i]]

----------------------------------------------------------------------------
(* The references: a name is a list of labels.                              *)

Wire(labels) ==
    FoldLeft(LAMBDA acc, l : acc \o <<Len(l)>> \o l, <<>>, labels) \o <<0>>

SameLetter(c, d) == c = d \/ (c \in 65 .. 90 /\ d = c + 32)
SameLabels(ls, ms) ==
    /\ Len(ls) = Len(ms)
    /\ \A i \in DOMAIN ls :
          Len(ls[i]) = Len(ms[i]) /\ \A j \in DOMAIN ls[i] : SameLetter(ls[i][j], ms[i][j])

(* A pattern, too, is a list of labels, its first one a star or not.        *)
AllowedLabels(patterns, labels) ==
    \E p \in patterns :
        IF Head(p) = <<Star>>
        THEN /\ Len(labels) >= Len(p)
             /\ SameLabels(SubSeq(labels, Len(labels) - Len(p) + 2, Len(labels)), Tail(p))
        ELSE SameLabels(labels, p)
=============================================================================
