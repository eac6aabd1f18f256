------------------------------ MODULE HttpFront ------------------------------
(***************************************************************************)
(* What a POST to a session's events meets before the router (src/rate-     *)
(* limit.ts, src/auth.ts, src/orchestrator/server.ts): the rate limiter,    *)
(* then authentication, then the Idempotency-Key of the handler.  All of it *)
(* is in memory: a restart forgets it.                                      *)
(*                                                                          *)
(* A tick of the clock is a second.  A bucket's tokens are counted in       *)
(* shares, Minute of them to a token, so that a second refills Rpm of them. *)
(* A key stands for a session and the Idempotency-Key a client sends with   *)
(* one message to it, first try and retries alike; a client whose answer    *)
(* was lost sends again.                                                    *)
(***************************************************************************)
EXTENDS Integers, Sequences, FiniteSets

CONSTANTS
    Callers,      \* the limiter's keys: tokens and addresses
    Rpm,          \* requests per minute
    Minute,       \* seconds in it
    GcAfter,      \* seconds after which an idle bucket is dropped
    Keys,         \* idempotency keys, with their sessions
    Ttl,          \* seconds that a reply is cached
    MaxNow, MaxRequests, MaxRestarts   \* bounds; requests per caller and life

ASSUME FrontAssumption ==
    /\ {Rpm, Minute, Ttl, MaxNow, MaxRequests} \subseteq Nat \ {0}
    /\ GcAfter \in Nat /\ GcAfter >= Minute /\ MaxRestarts \in Nat

VARIABLES
    now,
    bucket,     \* per caller: the set of its bucket
    passed,     \* per caller: when its requests were let through, in this life
    promised,   \* per caller: when it was told to come back, since it last passed
    inflight,   \* per key: the outcome that its execution will have, if any
    cached,     \* per key: the set of its cached reply's time of expiry
    accepted,   \* per key: when its message was accepted, in this life
    restarts

frontVars == <<now, bucket, passed, promised, inflight, cached, accepted, restarts>>

Capacity == Rpm * Minute
Outcomes == {"accepted", "refused", "broken"}

FrontTypeOK ==
    /\ now \in 0 .. MaxNow /\ restarts \in 0 .. MaxRestarts
    /\ \A c \in Callers :
          /\ Cardinality(bucket[c]) <= 1
          /\ \A b \in bucket[c] : b.tokens \in 0 .. Capacity /\ b.last \in 0 .. now
          /\ bucket[c] = {} => promised[c] = {}
    /\ inflight \in [Keys -> Outcomes \cup {"none"}]
    /\ \A k \in Keys : /\ Cardinality(cached[k]) <= 1
                       /\ inflight[k] # "none" => \A t \in cached[k] : t <= now

FrontInit ==
    /\ now = 0 /\ restarts = 0
    /\ bucket = [c \in Callers |-> {}]
    /\ passed = [c \in Callers |-> <<>>]
    /\ promised = [c \in Callers |-> {}]
    /\ inflight = [k \in Keys |-> "none"]
    /\ cached = [k \in Keys |-> {}]
    /\ accepted = [k \in Keys |-> <<>>]

Tick ==
    /\ now < MaxNow /\ now' = now + 1
    /\ UNCHANGED <<bucket, passed, promised, inflight, cached, accepted, restarts>>

----------------------------------------------------------------------------
(* The limiter.                                                             *)

(* Mutant: an idle bucket goes on filling.                                  *)
Refilled_Uncapped(b) == b.tokens + Rpm * (now - b.last)

Refilled(b) ==
    LET tokens == b.tokens + Rpm * (now - b.last)
    IN  IF tokens > Capacity THEN Capacity ELSE tokens

(* The tokens a request of the caller finds.                                *)
Level(c) == IF bucket[c] = {} THEN Capacity
             ELSE Refilled(CHOOSE b \in bucket[c] : TRUE)

Put(c, tokens) ==
    bucket' = [bucket EXCEPT ![c] = {[tokens |-> tokens, last |-> now]}]

LetThrough(c) ==
    /\ Level(c) >= Minute /\ Len(passed[c]) < MaxRequests
    /\ Put(c, Level(c) - Minute)
    /\ passed' = [passed EXCEPT ![c] = Append(@, now)]
    /\ promised' = [promised EXCEPT ![c] = {}]

(* Retry-After, in whole seconds and at least one.                          *)
RetryAfter(tokens) ==
    LET wait == (Minute - tokens + Rpm - 1) \div Rpm IN IF wait < 1 THEN 1 ELSE wait

(* Mutant: a rejection moves the time of the last refill and not the tokens.*)
Limited_Unfilled(c) ==
    /\ Level(c) < Minute
    /\ bucket' = [bucket EXCEPT ![c] = {[b EXCEPT !.last = now] : b \in @}]
    /\ promised' = [promised EXCEPT ![c] = @ \cup {now + RetryAfter(Level(c))}]
    /\ UNCHANGED <<now, passed, inflight, cached, accepted, restarts>>

(* 429 with Retry-After.                                                    *)
Limited(c) ==
    /\ Level(c) < Minute
    /\ Put(c, Level(c))
    /\ promised' = [promised EXCEPT ![c] = @ \cup {now + RetryAfter(Level(c))}]
    /\ UNCHANGED <<now, passed, inflight, cached, accepted, restarts>>

Idle(b) == now - b.last > GcAfter

Gc ==
    /\ \E c \in Callers : \E b \in bucket[c] : Idle(b)
    /\ bucket' = [c \in Callers |-> {b \in bucket[c] : ~Idle(b)}]
    /\ promised' = [c \in Callers |-> IF bucket'[c] = {} THEN {} ELSE promised[c]]
    /\ UNCHANGED <<now, passed, inflight, cached, accepted, restarts>>

----------------------------------------------------------------------------
(* Behind the limiter.                                                      *)

(* 401: no token, or one that is wrong or expired.                          *)
Unauthorized(c) ==
    /\ LetThrough(c)
    /\ UNCHANGED <<now, inflight, cached, accepted, restarts>>

Unexpired(k) == {t \in cached[k] : t > now}

(* Mutant: only the cache is looked at.                                     *)
Answered_Cache(k) == Unexpired(k) # {}

(* The key has its reply already, or one on its way.                        *)
Answered(k) == Unexpired(k) # {} \/ inflight[k] # "none"

Retry(c, k) ==
    /\ Answered(k) /\ LetThrough(c)
    /\ cached' = [j \in Keys |-> Unexpired(j)]
    /\ UNCHANGED <<now, inflight, accepted, restarts>>

(* The first with its key: the router takes the message, refuses it (4xx)   *)
(* or fails (5xx), and the reply follows after an await.                    *)
Execute(c, k) ==
    /\ ~Answered(k) /\ LetThrough(c)
    /\ cached' = [j \in Keys |-> Unexpired(j)]
    /\ \E outcome \in Outcomes :
          /\ inflight' = [inflight EXCEPT ![k] = outcome]
          /\ accepted' = IF outcome = "accepted"
                         THEN [accepted EXCEPT ![k] = Append(@, now)] ELSE accepted
    /\ UNCHANGED <<now, restarts>>

(* Whatever is not the server's own failure is cached.                      *)
Replies(k) ==
    /\ inflight[k] # "none"
    /\ cached' = IF inflight[k] = "broken" THEN cached
                 ELSE [cached EXCEPT ![k] = {now + Ttl}]
    /\ inflight' = [inflight EXCEPT ![k] = "none"]
    /\ UNCHANGED <<now, bucket, passed, promised, accepted, restarts>>

FrontRestarts ==
    /\ restarts < MaxRestarts /\ restarts' = restarts + 1
    /\ bucket' = [c \in Callers |-> {}] /\ passed' = [c \in Callers |-> <<>>]
    /\ promised' = [c \in Callers |-> {}]
    /\ inflight' = [k \in Keys |-> "none"] /\ cached' = [k \in Keys |-> {}]
    /\ accepted' = [k \in Keys |-> <<>>]
    /\ UNCHANGED now

FrontNext ==
    \/ Tick \/ Gc \/ FrontRestarts
    \/ \E c \in Callers : \/ Limited(c) \/ Unauthorized(c)
                          \/ \E k \in Keys : Retry(c, k) \/ Execute(c, k)
    \/ \E k \in Keys : Replies(k)

----------------------------------------------------------------------------
(* Properties.                                                              *)

(* In every window a caller gets at most a full bucket and what the window  *)
(* refilled: dropping idle buckets gives nobody more.                       *)
RateBounded ==
    \A c \in Callers : \A i, j \in DOMAIN passed[c] :
        i <= j => (j - i + 1) * Minute <= Capacity + Rpm * (passed[c][j] - passed[c][i])

(* A caller that comes back when Retry-After told it to is let through,     *)
(* however often it was rejected in between.                                *)
RetryAfterHonest ==
    \A c \in Callers : \A t \in promised[c] : now >= t => Level(c) >= Minute

(* The limiter gives a caller no more than its rate, and no less than it    *)
(* said.                                                                    *)
LimiterInv == FrontTypeOK /\ RateBounded /\ RetryAfterHonest

(* In one life of the server a message is accepted at most once per key and *)
(* Ttl, whatever is lost, retried or sent twice at the same time.           *)
AcceptedOnce ==
    \A k \in Keys : \A i, j \in DOMAIN accepted[k] :
        i < j => accepted[k][j] - accepted[k][i] >= Ttl
=============================================================================
