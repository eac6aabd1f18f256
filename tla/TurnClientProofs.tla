-------------------------- MODULE TurnClientProofs --------------------------
(***************************************************************************)
(* The two clients that wait for a session to rest, for any number of       *)
(* messages, requests, updates, chats, lines, faults and crashes: what a    *)
(* chat.completions request answers, and what the Telegram adapter posts,   *)
(* creates, stores and replies, whatever interleaves.                       *)
(***************************************************************************)
EXTENDS MCTurnClients, PiLogProofs

----------------------------------------------------------------------------
(* The runs of the session: one at a time, in their order.                  *)
Phases == {"new", "waiting", "running", "answered", "lost"}

Alone(m) == \A n \in Msgs \ {m} : phase[n] = "new"

Once(s) == \A i, j \in 1 .. Len(s) : s[i] = s[j] => i = j

QueueInv ==
    /\ phase \in [Msgs -> Phases] /\ status \in {"none", "idle", "starting", "running", "failed"}
    /\ backlog \in Seq(Msgs) /\ Once(backlog) /\ given \in Seq(Msgs) /\ Once(given)
    /\ \A m \in Msgs : phase[m] = "answered" => m \in ToSet(given)
    /\ \A m, n \in Msgs : phase[m] = "running" /\ phase[n] = "running" => m = n
    /\ \A m \in Msgs : phase[m] = "running" => status \in {"starting", "running", "none"}

(* An ephemeral session has one message.                                    *)
BoxInv ==
    /\ ephemeral \in BOOLEAN /\ box \in BOOLEAN /\ reaping \in BOOLEAN
    /\ ephemeral => \A m \in Msgs : phase[m] = "new" \/ Alone(m)
    /\ box \/ reaping => \E m \in Msgs : phase[m] # "new"
    /\ reaping => \A m \in Msgs : phase[m] # "running"

(* Every line is of a message that Pi was given.                            *)
FileInv ==
    /\ log \in Seq(Lines) /\ Logged(ListBySession(log), log)
    /\ owner \in Seq(Msgs) /\ \A i \in 1 .. Len(owner) : owner[i] \in ToSet(given)
    /\ status = "none" => log = <<>>

RequestInv ==
    /\ req \in [Msgs -> {"new", "asked", "busy", "ok", "error"}]
    /\ calm \subseteq Msgs /\ DOMAIN before = Msgs /\ DOMAIN heard = Msgs
    /\ \A m \in Blocking : phase[m] # "waiting"
    /\ \A m \in Msgs : phase[m] = "new" => req[m] \in {"new", "busy"} /\ m \notin calm
    /\ \A m \in Msgs : req[m] \in {"asked", "ok", "error"} => m \in Blocking
    /\ \A m \in Msgs : req[m] = "ok" => phase[m] # "running"

(* Pi was given m, and not before it was given n.                           *)
PlaceIn(g, m) == CHOOSE i \in DOMAIN g : g[i] = m

LaterIn(g, m, n) ==
    m \in ToSet(g) /\ (n \in ToSet(g) => PlaceIn(g, m) >= PlaceIn(g, n))

NotBefore(m, n) == LaterIn(given, m, n)

Outcome == LatestAgentOutcome(log)

(* Since a calm request was made, what has been and can still be written is *)
(* not of an earlier turn.                                                  *)
Followed(m) ==
    /\ phase[m] = "running" /\ m \notin ToSet(given) => late = {} /\ Outcome = before[m]
    /\ \A n \in Msgs :
          n \in late \/ (phase[n] = "running" /\ n \in ToSet(given)) => NotBefore(n, m)
    /\ Outcome # before[m] =>
          Outcome # {} /\ \A e \in Outcome : NotBefore(owner[e.id[2]], m)

Follows(m) ==
    /\ req[m] = "asked" /\ status # "none" => Followed(m)
    /\ req[m] = "ok" => NotBefore(heard[m].outcome, m)

FollowInv == \A m \in calm : Follows(m)

(* A message that nobody else came to disturb.                              *)
Undisturbed(m) ==
    /\ req[m] = "asked" => before[m] = {}
    /\ phase[m] = "answered" => status \in {"idle", "none"}
    /\ phase[m] = "answered" /\ status # "none" /\ m \notin cut => Outcome # {}
    /\ phase[m] \in {"running", "answered"} /\ req[m] = "error" => m \in cut

AloneInv == \A m \in Blocking : Alone(m) => Undisturbed(m)

ChatIInv ==
    ChatTypeOK /\ QueueInv /\ BoxInv /\ FileInv /\ RequestInv /\ FollowInv /\ AloneInv

----------------------------------------------------------------------------
(* The invariant of the Telegram adapter.                                   *)
Rises(s) == \A i, j \in 1 .. Len(s) : i < j => s[i] < s[j]

(* A handler that may still post its update.                                *)
Posting(h) ==
    \/ h.pc \in {"fresh", "create", "post"}
    \/ h.pc \in {"open", "write", "rename"} /\ h.then = "post"

Pcs == {"idle", "fresh", "create", "post", "wait", "list", "reply", "sorry", "open",
        "write", "rename"}
Seen == {"none", "idle", "starting", "failed"}
Handlers ==
    [pc : Pcs, then : {"idle", "post", "reply"}, fd : {"none", "tmp", "disk", "gone"},
     text : Records, saw : Seen, reply : Nat]
Sessions ==
    [status : {"idle", "starting", "running", "failed"}, turns : Seq(Updates),
     log : Seq(Updates)]
Tellings == [kind : {"none", "stale", "reply", "sorry"}, of : Nat, saw : Seen]

PollInv ==
    /\ chatOf \in Seq(Chats) /\ sent \in Nat /\ confirmed \in Nat /\ offset \in Nat
    /\ confirmed <= sent /\ sent <= Len(chatOf) /\ offset <= sent
    /\ up \in BOOLEAN /\ (~up => offset = 0)
    /\ faults \in 0 .. MaxFaults /\ crashes \in 0 .. faults
    /\ told \in [Updates -> Tellings]

(* A handler is there from the dispatch of its update to its end.           *)
HandlerInv ==
    /\ handler \in [Updates -> Handlers]
    /\ ~up => handler = [u \in Updates |-> Idle]
    /\ \A u \in Updates :
          /\ handler[u].pc = "idle" <=> u \notin ToSet(chain[chatOf[u]])
          /\ handler[u].pc \in {"open", "write", "rename"} => handler[u].then \in {"post", "reply"}
          /\ handler[u].pc \in {"write", "rename"} => handler[u].fd # "none"
          /\ Posting(handler[u]) => handler[u].saw = "none"

(* The chain of a chat has the updates dispatched and not yet handled; only *)
(* the first is under way.                                                  *)
OrderInv ==
    /\ chain \in [Chats -> Seq(Updates)] /\ posts \in [Chats -> Seq(Updates)]
    /\ \A c \in Chats : Rises(chain[c]) /\ Rises(posts[c])
    /\ \A c \in Chats : \A u \in ToSet(chain[c]) \cup ToSet(posts[c]) :
          u <= offset /\ chatOf[u] = c
    /\ \A u \in Updates : handler[u].pc \notin {"idle", "fresh"} => MyTurn(u)
    /\ \A c \in Chats : \A p \in ToSet(posts[c]), u \in ToSet(chain[c]) :
          p <= u /\ (Posting(handler[u]) => p < u)

(* A session is created when none is known: at first, after a crash and     *)
(* after a creation whose answer was lost; each of these is a fault.        *)
LostInv == lost \in [Chats -> Nat] /\ \A c \in Chats : crashes + lost[c] <= faults

SessionInv ==
    /\ LostInv
    /\ known \in Records /\ created \in [Chats -> Nat]
    /\ \A c \in Chats : known[c] \in {0, created[c]}
    /\ \A c \in Chats : created[c] <= 1 + crashes + lost[c]
    /\ \A c \in Chats : known[c] = 0 => created[c] <= crashes + lost[c]
    /\ \A u \in Updates : handler[u].pc = "create" => known[chatOf[u]] = 0
    /\ ~up => known = NoRecords

(* What is written, and what can still be renamed, is what is known.        *)
Current(records) == \A c \in Chats : records[c] \in {0, known[c]}

FilesInv ==
    /\ \A f \in disk : f.records \in Records
    /\ \A f \in tmp : f.records \in Records
    /\ \A f, g \in disk : f = g
    /\ \A f, g \in tmp : f = g
    /\ \A f \in disk : \A c \in Chats : f.records[c] \in {0, created[c]}
    /\ up => \A f \in disk : Current(f.records)
    /\ \A u \in Updates : Current(handler[u].text)
    /\ (\E u \in Updates : handler[u].pc \in {"write", "rename"}) =>
          \A f \in tmp : Current(f.records)

(* The turns of a session, ended and not, are what was posted; those of a   *)
(* handler at its end are over.                                             *)
Settled(session, u, reply) ==
    u \notin ToSet(session.turns) /\ (u \in ToSet(session.log) => reply = u)

(* What a handler that saw its session at rest makes of it.                 *)
AtRest(session, u, h) ==
    h.saw = "idle" =>
        IF h.pc = "list" THEN session.turns = <<>> ELSE Settled(session, u, h.reply)

TurnsInOrder(session, posted) ==
    /\ Rises(session.log) /\ Rises(session.turns)
    /\ \A u \in ToSet(session.log), v \in ToSet(session.turns) : u < v
    /\ ToSet(session.log) \cup ToSet(session.turns) \subseteq ToSet(posted)

ToldOwn(session, u, t) == t.saw = "idle" /\ t.kind = "reply" => Settled(session, u, t.of)

ServerInv ==
    /\ server \in [Chats -> Sessions]
    /\ \A c \in Chats : server[c].turns # <<>> <=> server[c].status \in {"starting", "running"}

TurnInv ==
    /\ \A u \in Updates : u > offset \/ u \in ToSet(chain[chatOf[u]]) => told[u] = Untold
    /\ crashes = 0 =>
          /\ \A c \in Chats : TurnsInOrder(server[c], posts[c])
          /\ \A u \in Updates : AtRest(server[chatOf[u]], u, handler[u])
                                /\ ToldOwn(server[chatOf[u]], u, told[u])

ChainIInv ==
    PollInv /\ HandlerInv /\ OrderInv /\ SessionInv /\ FilesInv /\ ServerInv /\ TurnInv

----------------------------------------------------------------------------
(* Sequences: one element more at the end, one less at the head.            *)
Longer(t, s, x) ==
    /\ Len(t) = Len(s) + 1 /\ t[Len(s) + 1] = x
    /\ \A i \in 1 .. Len(s) : t[i] = s[i]
    /\ ToSet(t) = ToSet(s) \cup {x}

Shorter(t, s) ==
    /\ Len(t) = Len(s) - 1 /\ Head(s) = s[1]
    /\ \A i \in 1 .. Len(t) : t[i] = s[i + 1]
    /\ ToSet(s) = ToSet(t) \cup {Head(s)}

Members(s) == \A x : x \in ToSet(s) <=> \E i \in 1 .. Len(s) : s[i] = x

LEMMA AppendIs ==
    ASSUME NEW S, NEW s \in Seq(S), NEW x \in S
    PROVE  Append(s, x) \in Seq(S) /\ Longer(Append(s, x), s, x)
  <1>0. PICK t : t = Append(s, x)
    OBVIOUS
  <1>1. PICK n \in Nat : n = Len(s)
    OBVIOUS
  <1>2. /\ t \in Seq(S) /\ Len(t) = n + 1 /\ t[n + 1] = x
        /\ \A i \in 1 .. n : t[i] = s[i]
    BY <1>0, <1>1, AppendProperties
  <1>3. DOMAIN s = 1 .. n /\ DOMAIN t = 1 .. n + 1
    BY <1>1, <1>2
  <1>4. ASSUME NEW y PROVE y \in ToSet(t) <=> y \in ToSet(s) \cup {x}
    <2>1. y \in ToSet(t) <=> \E i \in 1 .. n + 1 : t[i] = y
      BY <1>3 DEF ToSet
    <2>2. y \in ToSet(s) <=> \E i \in 1 .. n : s[i] = y
      BY <1>3 DEF ToSet
    <2>3. (\E i \in 1 .. n + 1 : t[i] = y) <=> (\E i \in 1 .. n : t[i] = y) \/ t[n + 1] = y
      <3>1. \A i \in 1 .. n + 1 : i \in 1 .. n \/ i = n + 1
        OBVIOUS
      <3>2. n + 1 \in 1 .. n + 1 /\ \A i \in 1 .. n : i \in 1 .. n + 1
        OBVIOUS
      <3> QED BY <3>1, <3>2
    <2> QED BY <1>2, <2>1, <2>2, <2>3
  <1> QED BY <1>0, <1>1, <1>2, <1>4 DEF Longer

LEMMA InSeq ==
    ASSUME NEW S, NEW s \in Seq(S)
    PROVE  Members(s) /\ ToSet(s) \subseteq S
  <1>1. DOMAIN s = 1 .. Len(s) /\ \A i \in 1 .. Len(s) : s[i] \in S
    OBVIOUS
  <1> QED BY <1>1 DEF ToSet, Members

LEMMA OnceMore ==
    ASSUME NEW S, NEW s \in Seq(S), NEW x \in S, x \notin ToSet(s), Once(s)
    PROVE  Once(Append(s, x))
  <1>0. PICK t : t = Append(s, x)
    OBVIOUS
  <1>1. PICK n \in Nat : n = Len(s)
    OBVIOUS
  <1>2. /\ Len(t) = n + 1 /\ t[n + 1] = x
        /\ \A i \in 1 .. n : t[i] = s[i] /\ s[i] # x
    <2>1. Longer(t, s, x) /\ Members(s)
      BY <1>0, AppendIs, InSeq
    <2> QED BY <1>1, <2>1 DEF Longer, Members
  <1>3. \A i \in 1 .. n + 1 : i \in 1 .. n \/ i = n + 1
    OBVIOUS
  <1> QED BY <1>0, <1>1, <1>2, <1>3 DEF Once

LEMMA TailIs ==
    ASSUME NEW S, NEW s \in Seq(S), s # <<>>
    PROVE  Tail(s) \in Seq(S) /\ Head(s) \in S /\ Shorter(Tail(s), s)
  <1>0. PICK t : t = Tail(s)
    OBVIOUS
  <1>1. PICK n \in Nat : n = Len(s) /\ n # 0
    BY EmptySeq
  <1>2. /\ t \in Seq(S) /\ Len(t) = n - 1 /\ \A i \in 1 .. n - 1 : t[i] = s[i + 1]
        /\ Head(s) = s[1] /\ s[1] \in S
    BY <1>0, <1>1
  <1>3. DOMAIN s = 1 .. n /\ DOMAIN t = 1 .. n - 1
    BY <1>1, <1>2
  <1>4. ASSUME NEW y PROVE y \in ToSet(s) <=> y \in ToSet(t) \cup {Head(s)}
    <2>1. y \in ToSet(t) <=> \E i \in 1 .. n - 1 : t[i] = y
      BY <1>3 DEF ToSet
    <2>2. y \in ToSet(s) <=> \E i \in 1 .. n : s[i] = y
      BY <1>3 DEF ToSet
    <2>3. (\E i \in 1 .. n : s[i] = y) <=> (\E i \in 1 .. n - 1 : s[i + 1] = y) \/ s[1] = y
      <3>1. \A i \in 1 .. n : i = 1 \/ (i - 1 \in 1 .. n - 1 /\ (i - 1) + 1 = i)
        OBVIOUS
      <3>2. 1 \in 1 .. n /\ \A i \in 1 .. n - 1 : i + 1 \in 1 .. n
        BY <1>1
      <3> QED BY <3>1, <3>2
    <2> QED BY <1>2, <2>1, <2>2, <2>3
  <1> QED BY <1>0, <1>1, <1>2, <1>4 DEF Shorter

LEMMA OnceTail ==
    ASSUME NEW S, NEW s \in Seq(S), s # <<>>, Once(s)
    PROVE  Once(Tail(s)) /\ Head(s) \notin ToSet(Tail(s))
  <1>0. PICK t : t = Tail(s)
    OBVIOUS
  <1>1. PICK n \in Nat : n = Len(s) /\ n # 0
    BY EmptySeq
  <1>2. /\ t \in Seq(S) /\ Len(t) = n - 1 /\ \A i \in 1 .. n - 1 : t[i] = s[i + 1]
        /\ Head(s) = s[1]
    BY <1>0, <1>1
  <1>3. \A i \in 1 .. n - 1 : i + 1 \in 1 .. n /\ i + 1 # 1
    OBVIOUS
  <1>4. 1 \in 1 .. n
    BY <1>1
  <1>5. \A i \in 1 .. n - 1 : t[i] # s[1]
    BY <1>1, <1>2, <1>3, <1>4 DEF Once
  <1>6. \A i, j \in 1 .. n - 1 : t[i] = t[j] => i = j
    <2> SUFFICES ASSUME NEW i \in 1 .. n - 1, NEW j \in 1 .. n - 1, t[i] = t[j] PROVE i = j
      OBVIOUS
    <2>1. s[i + 1] = s[j + 1]
      BY <1>2
    <2>2. i + 1 = j + 1
      BY <1>1, <1>3, <2>1 DEF Once
    <2> QED BY <2>2
  <1>7. Once(t)
    BY <1>2, <1>6 DEF Once
  <1>8. \A x \in ToSet(t) : \E i \in 1 .. n - 1 : t[i] = x
    <2>1. Members(t)
      BY <1>2, InSeq
    <2> QED BY <1>2, <2>1 DEF Members
  <1> QED BY <1>0, <1>2, <1>5, <1>7, <1>8

----------------------------------------------------------------------------
(* The runs of the chat's session.                                          *)
RunStays == UNCHANGED run

(* How a step may move the messages.                                        *)
Moves ==
    /\ \A m \in Msgs : phase[m] # "new" => phase'[m] # "new"
    /\ \A m \in Msgs : phase[m] \notin {"new", "waiting"} => phase'[m] # "waiting"
    /\ \A m \in Blocking : phase[m] # "waiting" => phase'[m] # "waiting"
    /\ \A m \in Msgs : phase[m] \in {"answered", "lost"} => phase'[m] = phase[m]
    /\ \A m \in Msgs : phase'[m] = "answered" => phase[m] \in {"running", "answered"}
    /\ \A m \in Msgs : phase'[m] = "running" =>
          phase[m] \in {"new", "running"} \/ \E n \in Msgs : phase[n] = "running"
    /\ given' = given \/ \E m \in Msgs : phase[m] = "running" /\ Runs!Give(m)
    /\ status = "none" => status' = "none"

RunMove ==
    \/ RunStays \/ Runs!MarkRunning \/ Runs!Delete
    \/ \E m \in Msgs : \/ Runs!Start(m) \/ Runs!Give(m) \/ Runs!Finish(m) \/ Runs!Fail(m)
                       \/ m \notin Blocking /\ Runs!Enqueue(m)

QueueType == QueueInv /\ ToSet(backlog) = Runs!Waiting

LEMMA StartMoves ==
    ASSUME QueueType, NEW m \in Msgs, Runs!Start(m)
    PROVE  QueueType' /\ Moves
  <1>1. /\ phase[m] = "new" /\ status \in {"idle", "failed"} /\ status' = "starting"
        /\ phase' = [phase EXCEPT ![m] = "running"] /\ UNCHANGED <<backlog, given>>
    BY DEF Runs!Start
  <1>2. \A n \in Msgs : phase[n] # "running"
    BY <1>1 DEF QueueType, QueueInv
  <1>3. phase' \in [Msgs -> Phases] /\ \A n \in Msgs : phase'[n] = IF n = m THEN "running" ELSE phase[n]
    BY <1>1 DEF QueueType, QueueInv, Phases
  <1>4. QueueInv'
    BY <1>1, <1>2, <1>3 DEF QueueType, QueueInv
  <1>5. Runs!Waiting' = Runs!Waiting
    BY <1>1, <1>3 DEF Runs!Waiting
  <1>6. Moves
    BY ChatAssumption, <1>1, <1>3 DEF Moves
  <1> QED BY <1>1, <1>4, <1>5, <1>6 DEF QueueType

LEMMA EnqueueMoves ==
    ASSUME QueueType, NEW m \in Msgs, m \notin Blocking, Runs!Enqueue(m)
    PROVE  QueueType' /\ Moves
  <1>1. /\ phase[m] = "new" /\ status \in {"starting", "running"} /\ backlog' = Append(backlog, m)
        /\ phase' = [phase EXCEPT ![m] = "waiting"] /\ UNCHANGED <<status, given>>
    BY DEF Runs!Enqueue, Runs!InFlight
  <1>3. phase' \in [Msgs -> Phases] /\ \A n \in Msgs : phase'[n] = IF n = m THEN "waiting" ELSE phase[n]
    BY <1>1 DEF QueueType, QueueInv, Phases
  <1>4. m \notin ToSet(backlog) /\ backlog \in Seq(Msgs) /\ Once(backlog)
    BY <1>1 DEF QueueType, QueueInv, Runs!Waiting
  <1>5. backlog' \in Seq(Msgs) /\ ToSet(backlog') = ToSet(backlog) \cup {m} /\ Once(backlog')
    <2>1. PICK s, t : s = backlog /\ t = backlog'
      OBVIOUS
    <2>2. s \in Seq(Msgs) /\ t = Append(s, m) /\ m \notin ToSet(s) /\ Once(s)
      BY <1>1, <1>4, <2>1
    <2>3. t \in Seq(Msgs) /\ ToSet(t) = ToSet(s) \cup {m}
      <3>1. Append(s, m) \in Seq(Msgs) /\ Longer(Append(s, m), s, m)
        BY <2>2, AppendIs
      <3> QED BY <2>2, <3>1 DEF Longer
    <2>4. Once(t)
      BY <2>2, OnceMore
    <2> QED BY <2>1, <2>3, <2>4 DEF Once
  <1>6. QueueInv'
    BY <1>1, <1>3, <1>5 DEF QueueType, QueueInv
  <1>7. Runs!Waiting' = Runs!Waiting \cup {m}
    BY <1>1, <1>3 DEF Runs!Waiting
  <1>8. Moves
    BY ChatAssumption, <1>1, <1>3 DEF Moves
  <1> QED BY <1>5, <1>6, <1>7, <1>8 DEF QueueType

LEMMA GiveMoves ==
    ASSUME QueueType, NEW m \in Msgs, Runs!Give(m)
    PROVE  QueueType' /\ Moves /\ ToSet(given') = ToSet(given) \cup {m}
  <1>1. /\ phase[m] = "running" /\ m \notin ToSet(given) /\ given' = Append(given, m)
        /\ UNCHANGED <<status, backlog, phase>> /\ given \in Seq(Msgs) /\ Once(given)
    BY DEF Runs!Give, Runs!ToSet, ToSet, QueueType, QueueInv
  <1>2. given' \in Seq(Msgs) /\ ToSet(given') = ToSet(given) \cup {m} /\ Once(given')
    <2>1. PICK s, t : s = given /\ t = given'
      OBVIOUS
    <2>2. s \in Seq(Msgs) /\ t = Append(s, m) /\ m \notin ToSet(s) /\ Once(s)
      BY <1>1, <2>1
    <2>3. t \in Seq(Msgs) /\ ToSet(t) = ToSet(s) \cup {m}
      <3>1. Append(s, m) \in Seq(Msgs) /\ Longer(Append(s, m), s, m)
        BY <2>2, AppendIs
      <3> QED BY <2>2, <3>1 DEF Longer
    <2>4. Once(t)
      BY <2>2, OnceMore
    <2> QED BY <2>1, <2>3, <2>4 DEF Once
  <1>3. QueueInv'
    BY <1>1, <1>2 DEF QueueType, QueueInv
  <1>4. Runs!Waiting' = Runs!Waiting
    BY <1>1 DEF Runs!Waiting
  <1>5. Moves
    BY ChatAssumption, <1>1 DEF Moves
  <1> QED BY <1>1, <1>2, <1>3, <1>4, <1>5 DEF QueueType

LEMMA FinishMoves ==
    ASSUME QueueType, NEW m \in Msgs, Runs!Finish(m)
    PROVE  QueueType' /\ Moves
  <1>1. phase[m] = "running" /\ m \in ToSet(given) /\ given' = given
    BY DEF Runs!Finish, Runs!ToSet, ToSet
  <1>2. \A n \in Msgs : phase[n] = "running" => n = m
    BY <1>1 DEF QueueType, QueueInv
  <1>3. CASE /\ backlog # <<>> /\ backlog' = Tail(backlog)
             /\ phase' = [phase EXCEPT ![m] = "answered", ![Head(backlog)] = "running"]
             /\ UNCHANGED status
    <2>1. /\ backlog' \in Seq(Msgs) /\ Once(backlog') /\ Head(backlog) \in Msgs
          /\ ToSet(backlog) = ToSet(backlog') \cup {Head(backlog)}
          /\ Head(backlog) \notin ToSet(backlog')
      <3>1. PICK s, t : s = backlog /\ t = backlog'
        OBVIOUS
      <3>2. s \in Seq(Msgs) /\ s # <<>> /\ Once(s) /\ t = Tail(s)
        BY <1>3, <3>1 DEF QueueType, QueueInv
      <3>3. t \in Seq(Msgs) /\ Head(s) \in Msgs /\ ToSet(s) = ToSet(t) \cup {Head(s)}
        <4>1. Tail(s) \in Seq(Msgs) /\ Head(s) \in Msgs /\ Shorter(Tail(s), s)
          BY <3>2, TailIs
        <4> QED BY <3>2, <4>1 DEF Shorter
      <3>4. Once(t) /\ Head(s) \notin ToSet(t)
        BY <3>2, OnceTail
      <3> QED BY <3>1, <3>3, <3>4 DEF Once
    <2>2. PICK h \in Msgs : h = Head(backlog)
      BY <2>1
    <2>3. phase[h] = "waiting"
      BY <2>1, <2>2 DEF QueueType, Runs!Waiting
    <2>4. /\ phase' \in [Msgs -> Phases]
          /\ \A n \in Msgs : phase'[n] = IF n = h THEN "running" ELSE IF n = m THEN "answered" ELSE phase[n]
      BY <1>3, <2>2 DEF QueueType, QueueInv, Phases
    <2>5. Runs!Waiting' = Runs!Waiting \ {h}
      <3>1. \A n \in Msgs : phase'[n] = "waiting" <=> phase[n] = "waiting" /\ n # h
        BY <1>1, <2>4
      <3> QED BY <3>1 DEF Runs!Waiting
    <2>6. ToSet(backlog') = Runs!Waiting'
      BY <2>1, <2>2, <2>5 DEF QueueType
    <2>7. QueueInv'
      <3>1. \A n \in Msgs : phase'[n] = "answered" => n \in ToSet(given')
        BY <1>1, <2>4 DEF QueueType, QueueInv
      <3>2. \A n \in Msgs : phase'[n] = "running" => n = h
        BY <1>2, <2>4
      <3>3. \A n \in Msgs : phase'[n] = "running" => status' \in {"starting", "running", "none"}
        BY <1>1, <1>3 DEF QueueType, QueueInv
      <3> QED BY <1>1, <2>1, <2>4, <3>1, <3>2, <3>3 DEF QueueType, QueueInv
    <2>8. Moves
      BY ChatAssumption, <1>1, <1>3, <2>3, <2>4 DEF Moves
    <2> QED BY <2>6, <2>7, <2>8 DEF QueueType
  <1>4. CASE /\ backlog = <<>> /\ phase' = [phase EXCEPT ![m] = "answered"]
             /\ status' = IF status = "none" THEN "none" ELSE "idle"
             /\ UNCHANGED backlog
    <2>1. /\ phase' \in [Msgs -> Phases]
          /\ \A n \in Msgs : phase'[n] = IF n = m THEN "answered" ELSE phase[n]
      BY <1>4 DEF QueueType, QueueInv, Phases
    <2>2. Runs!Waiting' = Runs!Waiting
      <3>1. \A n \in Msgs : phase'[n] = "waiting" <=> phase[n] = "waiting"
        BY <1>1, <2>1
      <3> QED BY <3>1 DEF Runs!Waiting
    <2>3. \A n \in Msgs : phase'[n] # "running"
      BY <1>2, <2>1
    <2>4. \A n \in Msgs : phase'[n] = "answered" => n \in ToSet(given')
      BY <1>1, <2>1 DEF QueueType, QueueInv
    <2>5. QueueInv'
      BY <1>1, <1>4, <2>1, <2>3, <2>4 DEF QueueType, QueueInv
    <2>6. Moves
      BY ChatAssumption, <1>1, <1>4, <2>1 DEF Moves
    <2> QED BY <1>4, <2>2, <2>5, <2>6 DEF QueueType
  <1> QED BY <1>3, <1>4 DEF Runs!Finish

LEMMA FailMoves ==
    ASSUME QueueType, NEW m \in Msgs, Runs!Fail(m)
    PROVE  QueueType' /\ Moves
  <1>1. phase[m] = "running" /\ given' = given
    BY DEF Runs!Fail
  <1>2. \A n \in Msgs : phase[n] = "running" => n = m
    BY <1>1 DEF QueueType, QueueInv
  <1>3. CASE /\ Runs!InFlight /\ status' = "failed" /\ backlog' = <<>>
             /\ phase' = [n \in Msgs |-> IF n = m \/ phase[n] = "waiting" THEN "lost" ELSE phase[n]]
    <2>1. /\ phase' \in [Msgs -> Phases]
          /\ \A n \in Msgs : phase'[n] = IF n = m \/ phase[n] = "waiting" THEN "lost" ELSE phase[n]
      BY <1>3 DEF QueueType, QueueInv, Phases
    <2>2. \A n \in Msgs : phase'[n] # "running" /\ phase'[n] # "waiting"
      BY <1>2, <2>1
    <2>3. backlog' \in Seq(Msgs) /\ Once(backlog') /\ ToSet(backlog') = {}
      <3>1. PICK t \in Seq(Msgs) : t = backlog' /\ Len(t) = 0
        BY <1>3, EmptySeq
      <3>2. Once(t)
        BY <3>1 DEF Once
      <3>3. ToSet(t) = {}
        <4>1. Members(t)
          BY InSeq
        <4> QED BY <3>1, <4>1 DEF Members
      <3> QED BY <3>1, <3>2, <3>3 DEF Once
    <2>4. \A n \in Msgs : phase'[n] = "answered" => n \in ToSet(given')
      BY <1>1, <2>1 DEF QueueType, QueueInv
    <2>5. QueueInv'
      BY <1>1, <1>3, <2>1, <2>2, <2>3, <2>4 DEF QueueType, QueueInv
    <2>6. Runs!Waiting' = {}
      BY <2>2 DEF Runs!Waiting
    <2>7. Moves
      <3>1. status # "none"
        BY <1>3 DEF Runs!InFlight
      <3> QED BY ChatAssumption, <1>1, <2>1, <3>1 DEF Moves
    <2> QED BY <2>3, <2>5, <2>6, <2>7 DEF QueueType
  <1>4. CASE /\ ~Runs!InFlight /\ phase' = [phase EXCEPT ![m] = "lost"]
             /\ UNCHANGED <<status, backlog>>
    <2>1. /\ phase' \in [Msgs -> Phases]
          /\ \A n \in Msgs : phase'[n] = IF n = m THEN "lost" ELSE phase[n]
      BY <1>4 DEF QueueType, QueueInv, Phases
    <2>2. Runs!Waiting' = Runs!Waiting
      <3>1. \A n \in Msgs : phase'[n] = "waiting" <=> phase[n] = "waiting"
        BY <1>1, <2>1
      <3> QED BY <3>1 DEF Runs!Waiting
    <2>3. QueueInv'
      BY <1>1, <1>2, <1>4, <2>1 DEF QueueType, QueueInv
    <2>4. Moves
      BY ChatAssumption, <1>1, <1>4, <2>1 DEF Moves
    <2> QED BY <1>4, <2>2, <2>3, <2>4 DEF QueueType
  <1> QED BY <1>3, <1>4 DEF Runs!Fail

LEMMA RunMoves == ASSUME QueueType, RunMove PROVE QueueType' /\ Moves
  <1>1. CASE RunStays
    BY <1>1 DEF RunStays, run, QueueType, QueueInv, Moves, Runs!Waiting
  <1>2. CASE Runs!MarkRunning
    BY <1>2 DEF Runs!MarkRunning, QueueType, QueueInv, Moves, Runs!Waiting
  <1>3. CASE Runs!Delete
    BY <1>3 DEF Runs!Delete, QueueType, QueueInv, Moves, Runs!Waiting
  <1> QED BY <1>1, <1>2, <1>3, StartMoves, EnqueueMoves, GiveMoves, FinishMoves, FailMoves
          DEF RunMove

----------------------------------------------------------------------------
(* The session's file, and whose its latest outcome is.                     *)
OutcomeTypes == {"agent.message", "agent.tool_result"}

LEMMA OutcomeIs == Outcome = LatestOf(log, OutcomeTypes)
  BY DEF Outcome, LatestAgentOutcome, OutcomeTypes

LEMMA OutcomeInLog ==
    ASSUME FileInv
    PROVE  \A e \in Outcome : e.id[2] \in 1 .. Len(log) /\ Outcome = {e}
  <1>1. \/ Outcome = {}
        \/ \E e \in Events : Outcome = {e} /\ e.id[2] \in 1 .. Len(log)
    <2>1. PICK l : l = log /\ Logged(ListBySession(l), l)
      BY DEF FileInv
    <2>2. \/ LatestOf(l, OutcomeTypes) = {}
          \/ \E e \in Events : LatestOf(l, OutcomeTypes) = {e} /\ e.id[2] \in 1 .. Len(l)
      BY <2>1, LatestInLog
    <2> QED BY <2>1, <2>2, OutcomeIs
  <1> QED BY <1>1

LEMMA NoFile ==
    ASSUME log' = <<>>, owner' = <<>>
    PROVE  FileInv' /\ Len(log') = Len(owner')
  <1>1. PICK l, o : l = log' /\ o = owner' /\ l = <<>> /\ o = <<>>
    OBVIOUS
  <1>2. l \in Seq(Lines) /\ o \in Seq(Msgs) /\ Len(l) = 0 /\ Len(o) = 0
    BY <1>1, EmptySeq
  <1>3. Logged(ListBySession(l), l)
    BY <1>1, ListEmpty
  <1> QED BY <1>1, <1>2, <1>3 DEF FileInv

(* The outcome is the one there was, or m's.                                *)
OutcomeOf(m) ==
    \/ Outcome' = Outcome
    \/ Outcome' # {} /\ \A e \in Outcome' : owner'[e.id[2]] = m

(* What is in the file stays there.                                         *)
OwnersStay == \A i \in 1 .. Len(log) : owner'[i] = owner[i]

SilentLine(line) == Silent(line, OutcomeTypes)

LEMMA FileGrows ==
    ASSUME FileInv, Len(log) = Len(owner), NEW m \in Msgs, m \in ToSet(given'),
           ToSet(given) \subseteq ToSet(given'), status' = status, NEW line \in Lines,
           Writes(m, line)
    PROVE  /\ FileInv' /\ Len(log') = Len(owner') /\ OwnersStay /\ OutcomeOf(m)
           /\ SilentLine(line) => Outcome' = Outcome
  <1>1. CASE status = "none"
    <2>1. UNCHANGED <<log, owner>>
      BY <1>1 DEF Writes, file
    <2>2. FileInv'
      BY <2>1 DEF FileInv
    <2>3. Outcome' = Outcome
      BY <2>1 DEF Outcome
    <2> QED BY <2>1, <2>2, <2>3 DEF OwnersStay, OutcomeOf
  <1>2. CASE status # "none"
    <2>1. log' = Append(log, line) /\ owner' = Append(owner, m)
      BY <1>2 DEF Writes
    <2>2. PICK l, k : l = log /\ k = log' /\ OneMore(k, l, line)
      BY <2>1 DEF FileInv, OneMore
    <2>3. PICK n \in Nat : n = Len(log) /\ n = Len(owner)
      BY DEF FileInv
    <2>4. /\ owner' \in Seq(Msgs) /\ Len(owner') = n + 1 /\ owner'[n + 1] = m
          /\ \A i \in 1 .. n : owner'[i] = owner[i]
      <3>1. owner \in Seq(Msgs)
        BY DEF FileInv
      <3>2. Append(owner, m) \in Seq(Msgs) /\ Longer(Append(owner, m), owner, m)
        BY <3>1, AppendIs
      <3> QED BY <2>1, <2>3, <3>2 DEF Longer
    <2>5. Len(log') = n + 1
      <3>1. log \in Seq(Lines)
        BY DEF FileInv
      <3>2. Longer(Append(log, line), log, line)
        BY <3>1, AppendIs
      <3> QED BY <2>1, <2>3, <3>2 DEF Longer
    <2>6. LogExtends(ListBySession(k), k, ListBySession(l))
      BY <2>2, ListExtends
    <2>7. FileInv'
      <3>1. \A i \in 1 .. n + 1 : i \in 1 .. n \/ i = n + 1
        OBVIOUS
      <3>2. \A i \in 1 .. n + 1 : owner'[i] \in ToSet(given')
        BY <2>3, <2>4, <3>1 DEF FileInv
      <3>3. log' \in Seq(Lines) /\ Logged(ListBySession(log'), log')
        BY <2>2, <2>6 DEF LogExtends
      <3> QED BY <1>2, <2>4, <3>2, <3>3 DEF FileInv
    <2>8. OwnersStay
      BY <2>3, <2>4 DEF OwnersStay
    <2>9. OutcomeOf(m)
      <3>1. StaysOrOf(k, l, OutcomeTypes, Len(l) + 1)
        BY <2>2, LatestGrows
      <3>2. Outcome = LatestOf(l, OutcomeTypes) /\ Outcome' = LatestOf(k, OutcomeTypes)
        BY <2>2 DEF Outcome, LatestAgentOutcome, OutcomeTypes
      <3>3. CASE Outcome' = Outcome
        BY <3>3 DEF OutcomeOf
      <3>4. CASE \E e \in Events : Outcome' = {e} /\ e.id[2] = n + 1
        BY <2>4, <3>4 DEF OutcomeOf
      <3> QED BY <2>2, <2>3, <3>1, <3>2, <3>3, <3>4 DEF StaysOrOf
    <2>10. SilentLine(line) => Outcome' = Outcome
      <3>1. SUFFICES ASSUME Silent(line, OutcomeTypes) PROVE Outcome' = Outcome
        BY DEF SilentLine
      <3>2. LatestOf(k, OutcomeTypes) = LatestOf(l, OutcomeTypes)
        BY <2>2, <3>1, LatestSame
      <3> QED BY <2>2, <3>2 DEF Outcome, LatestAgentOutcome, OutcomeTypes
    <2> QED BY <2>4, <2>5, <2>7, <2>8, <2>9, <2>10
  <1> QED BY <1>1, <1>2

LEMMA UserLineIsSilent == UserLine \in Lines /\ SilentLine(UserLine)
  <1>1. /\ UserLine \in Lines /\ UserLine.role = "user" /\ UserLine.text = TRUE
        /\ UserLine.notice = FALSE
    BY DEF UserLine, Line, Lines
  <1>2. ASSUME NEW n \in Nat, NEW i \in 1 .. Len(MapLineToEvents(UserLine, n))
        PROVE  MapLineToEvents(UserLine, n)[i].type \notin OutcomeTypes
    <2>1. MapLineToEvents(UserLine, n) = MapUser(UserLine, n)
      BY <1>1 DEF MapLineToEvents
    <2>2. MapUser(UserLine, n) = <<Event("user.message", n, "line", 0)>>
      BY <1>1 DEF MapUser
    <2>3. PICK es : es = MapLineToEvents(UserLine, n)
      OBVIOUS
    <2>4. Len(es) = 1 /\ es[1] = Event("user.message", n, "line", 0) /\ i \in 1 .. Len(es)
      BY <2>1, <2>2, <2>3
    <2>5. i = 1
      BY <2>4
    <2>6. es[i].type = "user.message"
      BY <2>4, <2>5 DEF Event
    <2> QED BY <2>3, <2>6 DEF OutcomeTypes
  <1> QED BY <1>1, <1>2 DEF SilentLine, Silent

LEMMA AnswerLineIsLine == AnswerLine \in Lines
  BY DEF AnswerLine, Line, Lines

----------------------------------------------------------------------------
(* The order in which Pi was given the messages.                            *)
LEMMA PlaceIs ==
    ASSUME NEW g \in Seq(Msgs), Once(g), NEW i \in 1 .. Len(g)
    PROVE  PlaceIn(g, g[i]) = i
  <1>1. DOMAIN g = 1 .. Len(g)
    OBVIOUS
  <1>2. PICK k : k = PlaceIn(g, g[i])
    OBVIOUS
  <1>3. k \in 1 .. Len(g) /\ g[k] = g[i]
    BY <1>1, <1>2 DEF PlaceIn
  <1> QED BY <1>2, <1>3 DEF Once

LEMMA Placed ==
    ASSUME NEW g \in Seq(Msgs), Once(g), NEW m \in ToSet(g)
    PROVE  PlaceIn(g, m) \in 1 .. Len(g) /\ g[PlaceIn(g, m)] = m
  <1>1. Members(g)
    BY InSeq
  <1>2. PICK i \in 1 .. Len(g) : g[i] = m
    BY <1>1 DEF Members
  <1> QED BY <1>2, PlaceIs

LEMMA LaterThanItself ==
    ASSUME NEW g \in Seq(Msgs), Once(g), NEW m \in ToSet(g)
    PROVE  LaterIn(g, m, m)
  <1>1. PICK n \in Nat : n = Len(g)
    OBVIOUS
  <1>2. PlaceIn(g, m) \in 1 .. n
    BY <1>1, Placed
  <1> QED BY <1>2 DEF LaterIn

LEMMA PlacesStay ==
    ASSUME NEW g \in Seq(Msgs), Once(g), NEW x \in Msgs, x \notin ToSet(g)
    PROVE  /\ \A m \in ToSet(g) : PlaceIn(Append(g, x), m) = PlaceIn(g, m)
           /\ PlaceIn(Append(g, x), x) = Len(g) + 1
  <1>1. PICK h : h = Append(g, x) /\ h \in Seq(Msgs) /\ Once(h) /\ Longer(h, g, x)
    BY AppendIs, OnceMore
  <1>2. PICK n \in Nat : n = Len(g)
    OBVIOUS
  <1>3. Len(h) = n + 1 /\ h[n + 1] = x /\ \A i \in 1 .. n : h[i] = g[i]
    BY <1>1, <1>2 DEF Longer
  <1>4. ASSUME NEW m \in ToSet(g) PROVE PlaceIn(h, m) = PlaceIn(g, m)
    <2>1. PICK i \in 1 .. n : i = PlaceIn(g, m) /\ g[i] = m
      BY <1>2, Placed
    <2>2. i \in 1 .. n + 1 /\ h[i] = m
      BY <1>3, <2>1
    <2>3. PlaceIn(h, h[i]) = i
      BY <1>1, <1>3, <2>2, PlaceIs
    <2> QED BY <2>1, <2>2, <2>3
  <1>5. PlaceIn(h, x) = n + 1
    <2>1. PICK i \in 1 .. n + 1 : i = n + 1
      OBVIOUS
    <2>2. PlaceIn(h, h[i]) = i
      BY <1>1, <1>3, <2>1, PlaceIs
    <2> QED BY <1>3, <2>1, <2>2
  <1> QED BY <1>1, <1>2, <1>4, <1>5

LEMMA LaterStays ==
    ASSUME NEW g \in Seq(Msgs), Once(g), NEW x \in Msgs, x \notin ToSet(g),
           NEW m, NEW n, LaterIn(g, m, n), n # x
    PROVE  LaterIn(Append(g, x), m, n)
  <1>1. ToSet(Append(g, x)) = ToSet(g) \cup {x}
    BY AppendIs DEF Longer
  <1>2. m \in ToSet(g) /\ (n \in ToSet(g) => PlaceIn(g, m) >= PlaceIn(g, n))
    BY DEF LaterIn
  <1>3. PlaceIn(Append(g, x), m) = PlaceIn(g, m)
    BY <1>2, PlacesStay
  <1>4. n \in ToSet(g) => PlaceIn(Append(g, x), n) = PlaceIn(g, n)
    BY PlacesStay
  <1> QED BY <1>1, <1>2, <1>3, <1>4 DEF LaterIn

LEMMA LastIsLater ==
    ASSUME NEW g \in Seq(Msgs), Once(g), NEW x \in Msgs, x \notin ToSet(g), NEW n
    PROVE  LaterIn(Append(g, x), x, n)
  <1>1. ToSet(Append(g, x)) = ToSet(g) \cup {x}
    BY AppendIs DEF Longer
  <1>2. PICK l \in Nat : l = Len(g)
    OBVIOUS
  <1>3. PlaceIn(Append(g, x), x) = l + 1
    BY <1>2, PlacesStay
  <1>4. ASSUME n \in ToSet(g) PROVE PlaceIn(Append(g, x), n) \in 1 .. l
    <2>1. PlaceIn(Append(g, x), n) = PlaceIn(g, n)
      BY <1>4, PlacesStay
    <2> QED BY <1>2, <1>4, <2>1, Placed
  <1> QED BY <1>1, <1>3, <1>4 DEF LaterIn

(* A step that gives Pi at most one message keeps the order.                *)
LEMMA OrderKept ==
    ASSUME QueueInv, Moves, NEW m, NEW n, NotBefore(m, n),
           phase[n] = "running" => n \in ToSet(given) \/ given' = given
    PROVE  NotBefore(m, n)'
  <1>1. CASE given' = given
    BY <1>1 DEF NotBefore
  <1>2. CASE \E x \in Msgs : phase[x] = "running" /\ Runs!Give(x)
    <2>1. PICK x \in Msgs : phase[x] = "running" /\ x \notin ToSet(given) /\ given' = Append(given, x)
      BY <1>2 DEF Runs!Give, Runs!ToSet, ToSet
    <2>2. CASE n = x
      BY <1>1, <2>1, <2>2
    <2>3. CASE n # x
      <3>1. given \in Seq(Msgs) /\ Once(given) /\ LaterIn(given, m, n)
        BY DEF QueueInv, NotBefore
      <3>2. LaterIn(Append(given, x), m, n)
        BY <2>1, <2>3, <3>1, LaterStays
      <3> QED BY <2>1, <3>2 DEF NotBefore
    <2> QED BY <2>2, <2>3
  <1> QED BY <1>1, <1>2 DEF Moves

LEMMA JustGiven ==
    ASSUME QueueInv, Moves, NEW m \in Msgs, m \in ToSet(given'), m \notin ToSet(given), NEW n
    PROVE  NotBefore(m, n)'
  <1>1. PICK x \in Msgs : phase[x] = "running" /\ x \notin ToSet(given) /\ given' = Append(given, x)
    BY DEF Moves, Runs!Give, Runs!ToSet, ToSet
  <1>2. given \in Seq(Msgs) /\ Once(given)
    BY DEF QueueInv
  <1>3. ToSet(given') = ToSet(given) \cup {x}
    BY <1>1, <1>2, AppendIs DEF Longer
  <1>4. m = x
    BY <1>3
  <1>5. LaterIn(Append(given, x), x, n)
    BY <1>1, <1>2, LastIsLater
  <1> QED BY <1>1, <1>4, <1>5 DEF NotBefore

----------------------------------------------------------------------------
(* What a step keeps of each part of the invariant.                         *)

LEMMA Parts ==
    ChatIInv => /\ QueueType /\ QueueInv /\ BoxInv /\ FileInv /\ RequestInv /\ FollowInv
                /\ AloneInv /\ ChatTypeOK
  BY DEF ChatIInv, QueueType, ChatTypeOK

LEMMA MarkedKeeps ==
    ASSUME ChatIInv, Moves, QueueInv', marked' = marked, late' \subseteq late, ToSet(given') \subseteq marked
    PROVE  /\ ToSet(given') \subseteq marked'
           /\ marked' \subseteq {m \in Msgs : phase'[m] \in {"running", "answered", "lost"}}
           /\ late' \subseteq {m \in Msgs : phase'[m] = "answered"}
  <1>1. \A m \in marked : m \in Msgs /\ phase[m] \in {"running", "answered", "lost"}
    BY DEF ChatIInv, ChatTypeOK
  <1>2. \A m \in marked : phase'[m] \notin {"new", "waiting"}
    BY <1>1 DEF Moves
  <1>3. \A m \in Msgs : phase'[m] \in Phases
    BY DEF QueueInv
  <1>4. \A m \in late : m \in Msgs /\ phase'[m] = "answered"
    BY DEF ChatIInv, ChatTypeOK, Moves
  <1> QED BY <1>1, <1>2, <1>3, <1>4 DEF Phases

LEMMA BoxKeeps ==
    ASSUME ChatIInv, Moves, QueueInv', ephemeral' = ephemeral, reaping' = reaping,
           \A m \in Msgs : phase'[m] # "new" => phase[m] # "new",
           box' \in BOOLEAN, box' => box \/ \E m \in Msgs : phase[m] = "running"
    PROVE  BoxInv' /\ (reaping' => ephemeral' /\ ~box')
  <1>1. \A m \in Msgs : Alone(m) => Alone(m)'
    BY DEF Alone
  <1>2. ephemeral' => \A m \in Msgs : phase'[m] = "new" \/ Alone(m)'
    BY <1>1 DEF ChatIInv, BoxInv
  <1>3. box' \/ reaping' => \E m \in Msgs : phase'[m] # "new"
    <2>1. SUFFICES ASSUME box' \/ reaping' PROVE \E m \in Msgs : phase'[m] # "new"
      OBVIOUS
    <2>2. \E m \in Msgs : phase[m] # "new"
      BY <2>1 DEF ChatIInv, BoxInv
    <2> QED BY <2>2 DEF Moves
  <1>4. reaping' => \A m \in Msgs : phase[m] # "running"
    BY DEF ChatIInv, BoxInv
  <1>5. reaping' => \A m \in Msgs : phase'[m] # "running"
    BY <1>4 DEF Moves
  <1>6. reaping' => ephemeral' /\ ~box'
    BY <1>4 DEF ChatIInv, ChatTypeOK
  <1> QED BY <1>2, <1>3, <1>5, <1>6 DEF ChatIInv, BoxInv

LEMMA RequestKeeps ==
    ASSUME ChatIInv, Moves, UNCHANGED <<req, before, calm, heard>>,
           \A m \in Msgs : phase'[m] = "running" => phase[m] = "running" \/ m \notin Blocking
    PROVE  /\ RequestInv' /\ req' \in [Msgs -> {"new", "asked", "busy", "ok", "error"}]
           /\ \A m \in Msgs : heard'[m] # Silence <=> req'[m] = "ok"
  <1>1. \A m \in Msgs : phase'[m] = "new" => phase[m] = "new"
    BY DEF Moves
  <1>2. \A m \in Msgs : req[m] = "ok" => phase'[m] # "running"
    BY DEF ChatIInv, RequestInv
  <1> QED BY <1>1, <1>2 DEF ChatIInv, ChatTypeOK, RequestInv, Moves

(* Whose line may be the next.                                              *)
Writer(n) == n \in late \/ (phase[n] = "running" /\ n \in ToSet(given))

Continues ==
    /\ \A n \in late' : n \in Msgs /\ Writer(n)
    /\ \A n \in Msgs : phase'[n] = "running" /\ n \in ToSet(given') => phase[n] = "running"
    /\ status' # "none" =>
          OwnersStay /\ (Outcome' = Outcome \/ \E w \in Msgs : Writer(w) /\ OutcomeOf(w))

LEMMA FollowKeeps ==
    ASSUME ChatIInv, Moves, Continues, NEW m \in calm, req'[m] = req[m],
           before'[m] = before[m], heard'[m] = heard[m]
    PROVE  Follows(m)'
  <1>1. /\ QueueInv /\ Follows(m) /\ m \in Msgs /\ FileInv
        /\ late \subseteq Msgs
    BY DEF ChatIInv, FollowInv, RequestInv, ChatTypeOK
  <1>2. phase[m] # "new" /\ (req[m] \in {"asked", "ok", "error"} => phase[m] # "waiting")
    BY <1>1 DEF ChatIInv, RequestInv
  <1>3. ASSUME req[m] = "ok" PROVE NotBefore(heard[m].outcome, m)'
    <2>1. phase[m] # "running" /\ NotBefore(heard[m].outcome, m)
      BY <1>1, <1>3 DEF ChatIInv, RequestInv, Follows
    <2>2. PICK x : x = heard[m].outcome
      OBVIOUS
    <2>3. NotBefore(x, m)'
      BY <1>1, <2>1, <2>2, OrderKept
    <2> QED BY <2>2, <2>3 DEF NotBefore
  <1>4. ASSUME req[m] = "asked", status' # "none" PROVE Followed(m)'
    <2>1. status # "none" /\ Followed(m)
      BY <1>1, <1>4 DEF Moves, Follows
    <2>2. ASSUME phase[m] = "running", m \notin ToSet(given)
          PROVE  \A n \in Msgs : ~Writer(n)
      <3>1. late = {}
        BY <2>1, <2>2 DEF Followed
      <3>2. \A n \in Msgs : phase[n] = "running" => n = m
        BY <1>1, <2>2 DEF QueueInv
      <3> QED BY <2>2, <3>1, <3>2 DEF Writer
    <2>3. ASSUME NEW n \in Msgs, NotBefore(n, m), Writer(n) PROVE NotBefore(n, m)'
      BY <1>1, <2>2, <2>3, OrderKept
    <2>4. \A n \in Msgs : Writer(n) => NotBefore(n, m)'
      <3>1. \A n \in Msgs : Writer(n) => NotBefore(n, m)
        BY <2>1 DEF Writer, Followed
      <3> QED BY <2>3, <3>1
    <2>5. ASSUME phase'[m] = "running", m \notin ToSet(given')
          PROVE  late' = {} /\ Outcome' = before'[m]
      <3>1. m \notin ToSet(given)
        <4>1. given' = given \/ \E x \in Msgs : x \notin ToSet(given) /\ given' = Append(given, x)
          BY DEF Moves, Runs!Give, Runs!ToSet, ToSet
        <4>2. \A x \in Msgs : ToSet(Append(given, x)) = ToSet(given) \cup {x}
          BY <1>1, AppendIs DEF QueueInv, Longer
        <4> QED BY <2>5, <4>1, <4>2
      <3>2. phase[m] = "running"
        <4>1. phase[m] \in Phases /\ phase[m] # "waiting" /\ phase[m] # "new"
          BY <1>1, <1>2, <1>4 DEF QueueInv
        <4>2. phase[m] \notin {"answered", "lost"}
          BY <1>1, <2>5 DEF Moves
        <4> QED BY <4>1, <4>2 DEF Phases
      <3>3. Outcome = before[m]
        BY <2>1, <3>1, <3>2 DEF Followed
      <3>4. late' = {}
        BY <2>2, <3>1, <3>2 DEF Continues
      <3>5. Outcome' = Outcome
        BY <1>4, <2>2, <3>1, <3>2 DEF Continues
      <3> QED BY <3>3, <3>4, <3>5
    <2>6. ASSUME NEW n \in Msgs, n \in late' \/ (phase'[n] = "running" /\ n \in ToSet(given'))
          PROVE  NotBefore(n, m)'
      <3>1. CASE Writer(n)
        BY <2>4, <3>1
      <3>2. CASE ~Writer(n)
        <4>1. phase'[n] = "running" /\ n \in ToSet(given') /\ n \notin ToSet(given)
          BY <2>6, <3>2 DEF Continues, Writer
        <4> QED BY <1>1, <4>1, JustGiven
      <3> QED BY <3>1, <3>2
    <2>7. ASSUME Outcome' # before'[m]
          PROVE  Outcome' # {} /\ \A e \in Outcome' : NotBefore(owner[e.id[2]], m)'
      <3>1. CASE Outcome' = Outcome
        <4>1. /\ Outcome # before[m] /\ Outcome # {}
              /\ \A e \in Outcome : NotBefore(owner[e.id[2]], m)
          BY <2>1, <2>7, <3>1 DEF Followed
        <4>2. phase[m] = "running" => m \in ToSet(given)
          BY <2>1, <4>1 DEF Followed
        <4>3. ASSUME NEW e \in Outcome PROVE NotBefore(owner[e.id[2]], m)'
          <5>1. owner'[e.id[2]] = owner[e.id[2]]
            BY <1>1, <1>4, OutcomeInLog DEF Continues, OwnersStay
          <5>2. PICK o : o = owner[e.id[2]]
            OBVIOUS
          <5>3. NotBefore(o, m)'
            BY <1>1, <4>1, <4>2, <5>2, OrderKept
          <5> QED BY <5>1, <5>2, <5>3 DEF NotBefore
        <4> QED BY <3>1, <4>1, <4>3
      <3>2. CASE Outcome' # Outcome
        <4>1. PICK w \in Msgs : /\ Writer(w) /\ Outcome' # {}
                                /\ \A e \in Outcome' : owner'[e.id[2]] = w
          BY <1>4, <3>2 DEF Continues, OutcomeOf
        <4>2. NotBefore(w, m)'
          BY <2>4, <4>1
        <4> QED BY <4>1, <4>2 DEF NotBefore
      <3> QED BY <3>1, <3>2
    <2> QED BY <2>5, <2>6, <2>7 DEF Followed
  <1> QED BY <1>3, <1>4 DEF Follows

(* An undisturbed message that was answered: its session is at rest.        *)
LEMMA AloneRest ==
    ASSUME QueueType, RunMove, NEW m \in Blocking, Alone(m)', phase[m] = "answered"
    PROVE  status' \in {status, "none"}
  <1>1. m \in Msgs /\ \A n \in Msgs \ {m} : phase'[n] = "new"
    BY ChatAssumption DEF Alone
  <1>2. \A n \in Msgs : phase[n] # "running"
    <2>1. Moves
      BY RunMoves
    <2> QED BY <1>1, <2>1 DEF Moves
  <1>3. CASE RunStays
    BY <1>3 DEF RunStays, run
  <1>4. CASE Runs!MarkRunning
    BY <1>2, <1>4 DEF Runs!MarkRunning
  <1>5. CASE Runs!Delete
    BY <1>5 DEF Runs!Delete
  <1>6. ASSUME NEW n \in Msgs, Runs!Start(n) PROVE FALSE
    <2>1. n # m /\ phase'[n] = "running"
      BY <1>6 DEF Runs!Start, QueueType, QueueInv
    <2> QED BY <1>1, <2>1
  <1>7. ASSUME NEW n \in Msgs, Runs!Enqueue(n) PROVE FALSE
    <2>1. n # m /\ phase'[n] = "waiting"
      BY <1>7 DEF Runs!Enqueue, QueueType, QueueInv
    <2> QED BY <1>1, <2>1
  <1>8. ASSUME NEW n \in Msgs, Runs!Give(n) \/ Runs!Finish(n) \/ Runs!Fail(n) PROVE FALSE
    BY <1>2, <1>8 DEF Runs!Give, Runs!Finish, Runs!Fail
  <1> QED BY <1>3, <1>4, <1>5, <1>6, <1>7, <1>8 DEF RunMove

LEMMA AloneKeeps ==
    ASSUME ChatIInv, RunMove, NEW m \in Blocking, Alone(m)', req'[m] = req[m],
           before'[m] = before[m], cut \subseteq cut',
           ~(phase[m] = "running" /\ phase'[m] = "answered"),
           Outcome' = Outcome \/ Outcome' # {} \/ status' = "none"
    PROVE  Undisturbed(m)'
  <1>0. Moves /\ QueueType /\ QueueInv /\ RequestInv /\ m \in Msgs
    BY ChatAssumption, RunMoves, Parts
  <1>1. Alone(m) /\ Undisturbed(m)
    <2>1. Alone(m)
      BY <1>0 DEF Alone, Moves
    <2> QED BY <2>1 DEF ChatIInv, AloneInv
  <1>2. phase'[m] = "answered" => phase[m] = "answered"
    BY <1>0 DEF Moves
  <1>3. phase'[m] = "answered" => status' \in {"idle", "none"}
    BY <1>0, <1>1, <1>2, AloneRest DEF Undisturbed
  <1>4. phase'[m] = "answered" /\ status' # "none" /\ m \notin cut' => Outcome' # {}
    BY <1>0, <1>1, <1>2 DEF Undisturbed, Moves
  <1>5. phase'[m] \in {"running", "answered"} /\ req'[m] = "error" => m \in cut'
    <2>1. SUFFICES ASSUME phase'[m] \in {"running", "answered"}, req[m] = "error" PROVE m \in cut
      OBVIOUS
    <2>2. phase[m] \in Phases /\ phase[m] # "new" /\ phase[m] # "waiting"
      BY <1>0, <2>1 DEF RequestInv, QueueInv
    <2>3. phase[m] # "lost"
      BY <1>0, <2>1 DEF Moves
    <2> QED BY <1>1, <2>1, <2>2, <2>3 DEF Undisturbed, Phases
  <1> QED BY <1>1, <1>3, <1>4, <1>5 DEF Undisturbed

----------------------------------------------------------------------------
(* The steps of a run, of Pi and of the pool: no request is answered.       *)

(* What is left to show of one, when its effects are these.                 *)
LEMMA QuietKeeps ==
    ASSUME ChatIInv, RunMove, UNCHANGED <<req, before, calm, heard>>, cut \subseteq cut',
           \A m \in Msgs : phase'[m] = "running" => phase[m] = "running" \/ m \notin Blocking,
           \A m \in Msgs : phase[m] = "running" /\ phase'[m] = "answered" /\ Alone(m)' =>
               Undisturbed(m)',
           Outcome' = Outcome \/ Outcome' # {} \/ status' = "none", Continues
    PROVE  /\ QueueType' /\ Moves /\ RequestInv' /\ FollowInv' /\ AloneInv'
           /\ req' \in [Msgs -> {"new", "asked", "busy", "ok", "error"}]
           /\ \A m \in Msgs : heard'[m] # Silence <=> req'[m] = "ok"
  <1>1. QueueType' /\ Moves
    BY Parts, RunMoves
  <1>2. /\ RequestInv' /\ req' \in [Msgs -> {"new", "asked", "busy", "ok", "error"}]
        /\ \A m \in Msgs : heard'[m] # Silence <=> req'[m] = "ok"
    BY <1>1, RequestKeeps
  <1>3. FollowInv'
    <2>1. \A m \in calm : Follows(m)'
      BY <1>1, FollowKeeps
    <2> QED BY <2>1 DEF FollowInv
  <1>4. AloneInv'
    <2>1. SUFFICES ASSUME NEW m \in Blocking, Alone(m)' PROVE Undisturbed(m)'
      BY DEF AloneInv
    <2>2. m \in Msgs
      BY ChatAssumption
    <2>3. CASE phase[m] = "running" /\ phase'[m] = "answered"
      BY <2>1, <2>2, <2>3
    <2>4. CASE ~(phase[m] = "running" /\ phase'[m] = "answered")
      BY <2>1, <2>4, AloneKeeps
    <2> QED BY <2>3, <2>4
  <1> QED BY <1>1, <1>2, <1>3, <1>4

(* Nothing is written, nothing is given.                                    *)
LEMMA FileStays ==
    ASSUME ChatIInv, UNCHANGED <<log, owner, given>>, status' = "none" => log = <<>>
    PROVE  FileInv' /\ Len(log') = Len(owner') /\ OwnersStay /\ Outcome' = Outcome
  <1>1. FileInv'
    BY DEF ChatIInv, FileInv
  <1>2. OwnersStay /\ Outcome' = Outcome
    BY DEF OwnersStay, Outcome
  <1> QED BY <1>1, <1>2 DEF ChatIInv, ChatTypeOK

LEMMA DispatchKeeps == ASSUME ChatIInv, NEW m \in Msgs, Dispatch(m) PROVE ChatIInv'
  <1>1. /\ phase[m] = "running" /\ marked' = marked \cup {m} /\ box' = TRUE
        /\ UNCHANGED <<backlog, phase, given, ephemeral, log, owner, late, reaping, req, before,
                       calm, cut, heard>>
        /\ status' \in {status, "running"} /\ (status = "none" <=> status' = "none")
        /\ RunMove
    BY DEF Dispatch, file, client, run, RunMove, RunStays, Runs!MarkRunning
  <1>2. FileInv' /\ Len(log') = Len(owner') /\ OwnersStay /\ Outcome' = Outcome
    <2>1. status' = "none" => log = <<>>
      BY <1>1 DEF ChatIInv, FileInv
    <2> QED BY <1>1, <2>1, FileStays
  <1>3. Continues
    BY <1>1, <1>2 DEF Continues, Writer, ChatIInv, ChatTypeOK
  <1>4. /\ QueueType' /\ Moves /\ RequestInv' /\ FollowInv' /\ AloneInv'
        /\ req' \in [Msgs -> {"new", "asked", "busy", "ok", "error"}]
        /\ \A n \in Msgs : heard'[n] # Silence <=> req'[n] = "ok"
    BY <1>1, <1>2, <1>3, QuietKeeps
  <1>5. BoxInv' /\ (reaping' => ephemeral' /\ ~box')
    <2>1. QueueInv'
      BY <1>4 DEF QueueType
    <2> QED BY <1>1, <1>4, <2>1, BoxKeeps
  <1>6. /\ ToSet(given') \subseteq marked'
        /\ marked' \subseteq {n \in Msgs : phase'[n] \in {"running", "answered", "lost"}}
        /\ late' \subseteq {n \in Msgs : phase'[n] = "answered"}
    BY <1>1 DEF ChatIInv, ChatTypeOK
  <1> QED BY <1>2, <1>4, <1>5, <1>6 DEF ChatIInv, ChatTypeOK, QueueType, QueueInv

LEMMA PiTakesKeeps == ASSUME ChatIInv, NEW m \in Msgs, PiTakes(m) PROVE ChatIInv'
  <1>1. /\ m \in marked /\ Runs!Give(m) /\ Writes(m, UserLine) /\ RunMove
        /\ phase[m] = "running" /\ UNCHANGED <<status, backlog, phase>>
        /\ UNCHANGED <<ephemeral, marked, late, box, reaping, req, before, calm, cut, heard>>
    BY DEF PiTakes, client, RunMove, Runs!Give
  <1>2. ToSet(given') = ToSet(given) \cup {m}
    BY <1>1, Parts, GiveMoves
  <1>3. FileInv' /\ Len(log') = Len(owner') /\ OwnersStay /\ Outcome' = Outcome
    <2>1. FileInv /\ Len(log) = Len(owner)
      BY DEF ChatIInv, ChatTypeOK
    <2> QED BY <1>1, <1>2, <2>1, FileGrows, UserLineIsSilent
  <1>4. Continues
    BY <1>1, <1>3 DEF Continues, Writer, ChatIInv, ChatTypeOK
  <1>5. /\ QueueType' /\ Moves /\ RequestInv' /\ FollowInv' /\ AloneInv'
        /\ req' \in [Msgs -> {"new", "asked", "busy", "ok", "error"}]
        /\ \A n \in Msgs : heard'[n] # Silence <=> req'[n] = "ok"
    BY <1>1, <1>3, <1>4, QuietKeeps
  <1>6. BoxInv' /\ (reaping' => ephemeral' /\ ~box')
    <2>1. QueueInv' /\ box' \in BOOLEAN
      BY <1>1, <1>5 DEF QueueType, ChatIInv, BoxInv
    <2> QED BY <1>1, <1>5, <2>1, BoxKeeps
  <1>7. /\ ToSet(given') \subseteq marked'
        /\ marked' \subseteq {n \in Msgs : phase'[n] \in {"running", "answered", "lost"}}
        /\ late' \subseteq {n \in Msgs : phase'[n] = "answered"}
    BY <1>1, <1>2 DEF ChatIInv, ChatTypeOK
  <1> QED BY <1>3, <1>5, <1>6, <1>7 DEF ChatIInv, ChatTypeOK, QueueType, QueueInv

(* A line of a turn under way, or an outcome that is late.                  *)
LEMMA WritesKeep ==
    ASSUME ChatIInv, NEW m \in Msgs, Writer(m), NEW line \in Lines, Writes(m, line),
           UNCHANGED <<run, ephemeral, marked, box, reaping, req, before, calm, cut, heard>>,
           late' \subseteq late
    PROVE  ChatIInv'
  <1>1. UNCHANGED <<status, backlog, phase, given>> /\ RunMove
    BY DEF run, RunMove, RunStays
  <1>2. m \in ToSet(given)
    BY DEF Writer, ChatIInv, ChatTypeOK, QueueInv
  <1>3. FileInv' /\ Len(log') = Len(owner') /\ OwnersStay /\ OutcomeOf(m)
    <2>1. FileInv /\ Len(log) = Len(owner)
      BY DEF ChatIInv, ChatTypeOK
    <2> QED BY <1>1, <1>2, <2>1, FileGrows
  <1>4. Continues
    BY <1>1, <1>3 DEF Continues, Writer, ChatIInv, ChatTypeOK
  <1>5. Outcome' = Outcome \/ Outcome' # {}
    BY <1>3 DEF OutcomeOf
  <1>6. /\ QueueType' /\ Moves /\ RequestInv' /\ FollowInv' /\ AloneInv'
        /\ req' \in [Msgs -> {"new", "asked", "busy", "ok", "error"}]
        /\ \A n \in Msgs : heard'[n] # Silence <=> req'[n] = "ok"
    BY <1>1, <1>4, <1>5, QuietKeeps
  <1>7. BoxInv' /\ (reaping' => ephemeral' /\ ~box')
    <2>1. QueueInv' /\ box' \in BOOLEAN
      BY <1>1, <1>6 DEF QueueType, ChatIInv, BoxInv
    <2> QED BY <1>1, <1>6, <2>1, BoxKeeps
  <1>8. /\ ToSet(given') \subseteq marked'
        /\ marked' \subseteq {n \in Msgs : phase'[n] \in {"running", "answered", "lost"}}
        /\ late' \subseteq {n \in Msgs : phase'[n] = "answered"}
    BY <1>1 DEF ChatIInv, ChatTypeOK
  <1> QED BY <1>3, <1>6, <1>7, <1>8 DEF ChatIInv, ChatTypeOK, QueueType, QueueInv

LEMMA PiWritesKeeps == ASSUME ChatIInv, NEW m \in Msgs, PiWrites(m) PROVE ChatIInv'
  <1>1. PICK line \in Shapes : Writes(m, line)
    BY DEF PiWrites
  <1>2. line \in Lines
    BY ChatAssumption
  <1>3. /\ Writer(m) /\ late' = late
        /\ UNCHANGED <<run, ephemeral, marked, box, reaping, req, before, calm, cut, heard>>
    BY DEF PiWrites, Writer, client
  <1> QED BY <1>1, <1>2, <1>3, WritesKeep

LEMMA LateOutcomeKeeps == ASSUME ChatIInv, NEW m \in Msgs, LateOutcome(m) PROVE ChatIInv'
  <1>1. /\ Writer(m) /\ late' \subseteq late /\ Writes(m, AnswerLine)
        /\ UNCHANGED <<run, ephemeral, marked, box, reaping, req, before, calm, cut, heard>>
    BY DEF LateOutcome, Writer, client
  <1> QED BY <1>1, AnswerLineIsLine, WritesKeep

(* Only the message whose run ends and the next one move.                   *)
LEMMA FinishIs ==
    ASSUME QueueType, NEW m \in Msgs, Runs!Finish(m)
    PROVE  /\ phase'[m] = "answered"
           /\ \A n \in Msgs : phase'[n] # "new" => phase[n] # "new"
           /\ \A n \in Msgs : phase'[n] = "running" => phase[n] \in {"running", "waiting"}
  <1>1. /\ phase[m] = "running" /\ phase \in [Msgs -> Phases]
        /\ (backlog # <<>> /\ phase' = [phase EXCEPT ![m] = "answered", ![Head(backlog)] = "running"])
           \/ phase' = [phase EXCEPT ![m] = "answered"]
    BY DEF Runs!Finish, QueueType, QueueInv
  <1>2. CASE phase' = [phase EXCEPT ![m] = "answered"]
    BY <1>1, <1>2
  <1>3. CASE /\ backlog # <<>>
             /\ phase' = [phase EXCEPT ![m] = "answered", ![Head(backlog)] = "running"]
    <2>1. backlog \in Seq(Msgs) /\ ToSet(backlog) = Runs!Waiting
      BY DEF QueueType, QueueInv
    <2>2. Head(backlog) \in Msgs /\ Shorter(Tail(backlog), backlog)
      BY <1>3, <2>1, TailIs
    <2>3. PICK h \in Msgs : h = Head(backlog) /\ phase[h] = "waiting"
      BY <2>1, <2>2 DEF Shorter, Runs!Waiting
    <2>4. phase' = [phase EXCEPT ![m] = "answered", ![h] = "running"]
      BY <1>3, <2>3
    <2>5. \A n \in Msgs : phase'[n] = IF n = h THEN "running" ELSE IF n = m THEN "answered" ELSE phase[n]
      BY <1>1, <2>4
    <2> QED BY <1>1, <2>3, <2>5
  <1> QED BY <1>1, <1>2, <1>3

(* A run that ends while no other message is there leaves the session at    *)
(* rest.                                                                    *)
LEMMA LastFinish ==
    ASSUME QueueType, NEW m \in Msgs, Runs!Finish(m), Alone(m)'
    PROVE  status' \in {"idle", "none"}
  <1>1. CASE backlog = <<>>
    BY <1>1 DEF Runs!Finish
  <1>2. CASE backlog # <<>>
    <2>1. backlog \in Seq(Msgs) /\ Head(backlog) \in Msgs /\ Head(backlog) \in ToSet(backlog)
      <3>1. backlog \in Seq(Msgs)
        BY DEF QueueType, QueueInv
      <3>2. Head(backlog) \in Msgs /\ Shorter(Tail(backlog), backlog)
        BY <1>2, <3>1, TailIs
      <3> QED BY <3>1, <3>2 DEF Shorter
    <2>2. PICK h \in Msgs : h = Head(backlog) /\ phase[h] = "waiting"
      BY <2>1 DEF QueueType, Runs!Waiting
    <2>3. phase[m] = "running" /\ h # m
      BY <2>2 DEF Runs!Finish
    <2>4. phase'[h] = "running"
      BY <1>2, <2>2, <2>3 DEF Runs!Finish, QueueType, QueueInv
    <2> QED BY <2>3, <2>4 DEF Alone
  <1> QED BY <1>1, <1>2

(* After a run has ended, the next one has not been given its message.      *)
LEMMA NextIsNotGiven ==
    ASSUME ChatIInv, NEW n \in Msgs, n \in ToSet(given)
    PROVE  phase[n] \notin {"new", "waiting"}
  BY DEF ChatIInv, ChatTypeOK

LEMMA SettleKeeps ==
    ASSUME ChatIInv, NEW m \in Msgs, Runs!Finish(m),
           UNCHANGED <<ephemeral, marked, file, box, reaping, req, before, calm, heard>>,
           late' \subseteq late \cup {m}, cut \subseteq cut', Outcome # {} \/ m \in cut'
    PROVE  ChatIInv'
  <1>1. /\ phase[m] = "running" /\ m \in ToSet(given) /\ given' = given /\ RunMove
        /\ UNCHANGED <<log, owner>> /\ (status' = "none" => status = "none")
    BY DEF Runs!Finish, RunMove, file, Runs!ToSet, ToSet
  <1>2. QueueType' /\ Moves /\ QueueType /\ phase \in [Msgs -> Phases] /\ phase'[m] = "answered"
    <2>1. QueueType' /\ Moves /\ QueueType /\ phase \in [Msgs -> Phases]
      BY <1>1, RunMoves, Parts DEF QueueType, QueueInv
    <2> QED BY <2>1, FinishIs
  <1>3. FileInv' /\ Len(log') = Len(owner') /\ OwnersStay /\ Outcome' = Outcome
    <2>1. status' = "none" => log = <<>>
      BY <1>1 DEF ChatIInv, FileInv
    <2> QED BY <1>1, <2>1, FileStays
  <1>4. \A n \in Msgs : phase'[n] = "running" => phase[n] = "running" \/ phase[n] = "waiting"
    BY <1>2, FinishIs
  <1>5. Continues
    <2>1. \A n \in Msgs : phase'[n] = "running" /\ n \in ToSet(given') => phase[n] = "running"
      BY <1>1, <1>4, NextIsNotGiven
    <2>2. \A n \in late' : n \in Msgs /\ Writer(n)
      BY <1>1 DEF Writer, ChatIInv, ChatTypeOK
    <2> QED BY <1>3, <2>1, <2>2 DEF Continues
  <1>6. \A n \in Msgs : phase'[n] = "running" => phase[n] = "running" \/ n \notin Blocking
    BY <1>4 DEF ChatIInv, RequestInv
  <1>7. ASSUME NEW n \in Msgs, phase[n] = "running", phase'[n] = "answered", Alone(n)'
        PROVE  Undisturbed(n)'
    <2>1. n = m
      BY <1>1, <1>7 DEF ChatIInv, QueueInv
    <2>2. status' \in {"idle", "none"}
      BY <1>2, <1>7, <2>1, LastFinish
    <2>3. n \in Blocking \/ n \notin Blocking
      OBVIOUS
    <2>4. Alone(n)
      BY <1>2, <1>7 DEF Moves, Alone
    <2>5. CASE n \in Blocking
      <3>1. Undisturbed(n)
        BY <2>4, <2>5 DEF ChatIInv, AloneInv
      <3> QED BY <1>3, <1>7, <2>1, <2>2, <3>1 DEF Undisturbed
    <2>6. CASE n \notin Blocking
      <3>1. req[n] \notin {"asked", "ok", "error"}
        BY <2>6 DEF ChatIInv, RequestInv
      <3> QED BY <1>3, <2>1, <2>2, <3>1 DEF Undisturbed
    <2> QED BY <2>5, <2>6
  <1>8. /\ RequestInv' /\ FollowInv' /\ AloneInv'
        /\ req' \in [Msgs -> {"new", "asked", "busy", "ok", "error"}]
        /\ \A n \in Msgs : heard'[n] # Silence <=> req'[n] = "ok"
    BY <1>1, <1>3, <1>5, <1>6, <1>7, QuietKeeps
  <1>9. BoxInv' /\ (reaping' => ephemeral' /\ ~box')
    <2>1. QueueInv' /\ box' \in BOOLEAN
      BY <1>2 DEF QueueType, ChatIInv, BoxInv
    <2>2. \A n \in Msgs : phase'[n] # "new" => phase[n] # "new"
      BY <1>2, FinishIs
    <2> QED BY <1>2, <2>1, <2>2, BoxKeeps
  <1>10. /\ ToSet(given') \subseteq marked'
         /\ marked' \subseteq {n \in Msgs : phase'[n] \in {"running", "answered", "lost"}}
         /\ late' \subseteq {n \in Msgs : phase'[n] = "answered"}
    <2>1. QueueInv' /\ ToSet(given') \subseteq marked
      BY <1>1, <1>2 DEF QueueType, ChatIInv, ChatTypeOK
    <2>2. marked' \subseteq {n \in Msgs : phase'[n] \in {"running", "answered", "lost"}}
      BY <1>2, <2>1 DEF Moves, QueueInv, Phases, ChatIInv, ChatTypeOK
    <2>3. late' \subseteq {n \in Msgs : phase'[n] = "answered"}
      BY <1>2 DEF Moves, ChatIInv, ChatTypeOK
    <2> QED BY <2>1, <2>2, <2>3
  <1> QED BY <1>2, <1>3, <1>8, <1>9, <1>10 DEF ChatIInv, ChatTypeOK, QueueType, QueueInv

LEMMA SettlesKeeps == ASSUME ChatIInv, NEW m \in Msgs, Settles(m) \/ SettlesLate(m) PROVE ChatIInv'
  <1>1. CASE Settles(m)
    <2>1. Outcome # {}
      BY <1>1 DEF Settles, TurnAdvanced, NewOutcome, Outcome
    <2>2. /\ Runs!Finish(m) /\ late' = late /\ cut' = cut
          /\ UNCHANGED <<ephemeral, marked, file, box, reaping, req, before, calm, heard>>
      BY <1>1 DEF Settles, client
    <2> QED BY <2>1, <2>2, SettleKeeps
  <1>2. CASE SettlesLate(m)
    <2>1. /\ Runs!Finish(m) /\ late' = late \cup {m} /\ cut' = cut \cup {m}
          /\ UNCHANGED <<ephemeral, marked, file, box, reaping, req, before, calm, heard>>
      BY <1>2 DEF SettlesLate
    <2> QED BY <2>1, SettleKeeps
  <1> QED BY <1>1, <1>2


LEMMA FailIs ==
    ASSUME QueueType, NEW m \in Msgs, Runs!Fail(m)
    PROVE  /\ \A n \in Msgs : phase'[n] = phase[n] \/ (phase'[n] = "lost" /\ phase[n] # "new")
           /\ status' = "none" => status = "none"
  <1>1. phase[m] = "running" /\ phase \in [Msgs -> Phases]
    BY DEF Runs!Fail, QueueType, QueueInv
  <1>2. CASE /\ status' = "failed"
             /\ phase' = [n \in Msgs |-> IF n = m \/ phase[n] = "waiting" THEN "lost" ELSE phase[n]]
    BY <1>1, <1>2
  <1>3. CASE phase' = [phase EXCEPT ![m] = "lost"] /\ status' = status
    BY <1>1, <1>3
  <1> QED BY <1>2, <1>3 DEF Runs!Fail

LEMMA FailsKeeps == ASSUME ChatIInv, NEW m \in Msgs, Fails(m) PROVE ChatIInv'
  <1>1. /\ phase[m] = "running" /\ given' = given /\ RunMove /\ Runs!Fail(m) /\ QueueType
        /\ box' = (box /\ ~Runs!InFlight) /\ box \in BOOLEAN
        /\ UNCHANGED <<ephemeral, marked, log, owner, late, reaping, req, before, calm, cut, heard>>
    BY Parts DEF Fails, client, Runs!Fail, RunMove, file, BoxInv
  <1>2. /\ \A n \in Msgs : phase'[n] = phase[n] \/ (phase'[n] = "lost" /\ phase[n] # "new")
        /\ status' = "none" => status = "none"
    BY <1>1, FailIs
  <1>3. FileInv' /\ Len(log') = Len(owner') /\ OwnersStay /\ Outcome' = Outcome
    <2>1. status' = "none" => log = <<>>
      BY <1>2 DEF ChatIInv, FileInv
    <2> QED BY <1>1, <2>1, FileStays
  <1>4. Continues
    <2>1. \A n \in Msgs : phase'[n] = "running" => phase[n] = "running"
      BY <1>2
    <2> QED BY <1>1, <1>3, <2>1 DEF Continues, Writer, ChatIInv, ChatTypeOK
  <1>5. /\ QueueType' /\ Moves /\ RequestInv' /\ FollowInv' /\ AloneInv'
        /\ req' \in [Msgs -> {"new", "asked", "busy", "ok", "error"}]
        /\ \A n \in Msgs : heard'[n] # Silence <=> req'[n] = "ok"
    <2>1. \A n \in Msgs : phase'[n] = "running" => phase[n] = "running" \/ n \notin Blocking
      BY <1>2
    <2>2. \A n \in Msgs : ~(phase[n] = "running" /\ phase'[n] = "answered")
      BY <1>2
    <2> QED BY <1>1, <1>3, <1>4, <2>1, <2>2, QuietKeeps
  <1>6. BoxInv' /\ (reaping' => ephemeral' /\ ~box')
    <2>1. QueueInv' /\ box' \in BOOLEAN /\ (box' => box)
      BY <1>1, <1>5 DEF QueueType
    <2>2. \A n \in Msgs : phase'[n] # "new" => phase[n] # "new"
      BY <1>2
    <2> QED BY <1>1, <1>5, <2>1, <2>2, BoxKeeps
  <1>7. /\ ToSet(given') \subseteq marked'
        /\ marked' \subseteq {n \in Msgs : phase'[n] \in {"running", "answered", "lost"}}
        /\ late' \subseteq {n \in Msgs : phase'[n] = "answered"}
    <2>1. QueueInv' /\ ToSet(given') \subseteq marked
      BY <1>1, <1>5 DEF QueueType, ChatIInv, ChatTypeOK
    <2> QED BY <1>1, <1>5, <2>1, MarkedKeeps
  <1> QED BY <1>3, <1>5, <1>6, <1>7 DEF ChatIInv, ChatTypeOK, QueueType, QueueInv

(* The reaper takes the container of a session that is at rest.             *)
LEMMA ReapKeeps == ASSUME ChatIInv, Reap PROVE ChatIInv'
  <1>1. /\ box = TRUE /\ box' = FALSE /\ reaping' = TRUE /\ ephemeral = TRUE
        /\ status \notin {"starting", "running", "none"}
        /\ UNCHANGED <<status, backlog, phase, given, ephemeral, marked, log, owner, late, req,
                       before, calm, cut, heard>>
    BY DEF Reap, Runs!InFlight, run, file, client, ChatIInv, BoxInv
  <1>2. RunMove
    BY <1>1 DEF RunMove, RunStays, run
  <1>3. FileInv' /\ Len(log') = Len(owner') /\ OwnersStay /\ Outcome' = Outcome
    <2>1. status' = "none" => log = <<>>
      BY <1>1
    <2> QED BY <1>1, <2>1, FileStays
  <1>4. Continues
    BY <1>1, <1>3 DEF Continues, Writer, ChatIInv, ChatTypeOK
  <1>5. /\ QueueType' /\ Moves /\ RequestInv' /\ FollowInv' /\ AloneInv'
        /\ req' \in [Msgs -> {"new", "asked", "busy", "ok", "error"}]
        /\ \A n \in Msgs : heard'[n] # Silence <=> req'[n] = "ok"
    BY <1>1, <1>2, <1>3, <1>4, QuietKeeps
  <1>6. BoxInv'
    <2>1. \A n \in Msgs : phase[n] # "running"
      BY <1>1 DEF ChatIInv, QueueInv
    <2>2. BoxInv
      BY DEF ChatIInv
    <2> QED BY <1>1, <2>1, <2>2 DEF BoxInv, Alone
  <1>7. /\ ToSet(given') \subseteq marked'
        /\ marked' \subseteq {n \in Msgs : phase'[n] \in {"running", "answered", "lost"}}
        /\ late' \subseteq {n \in Msgs : phase'[n] = "answered"}
    BY <1>1 DEF ChatIInv, ChatTypeOK
  <1> QED BY <1>1, <1>3, <1>5, <1>6, <1>7 DEF ChatIInv, ChatTypeOK, QueueType, QueueInv

LEMMA CleanupOnReapKeeps == ASSUME ChatIInv, CleanupOnReap PROVE ChatIInv'
  <1>1. /\ reaping' = FALSE /\ status' = "none" /\ log' = <<>> /\ owner' = <<>> /\ RunMove
        /\ UNCHANGED <<backlog, phase, given, ephemeral, marked, late, box, req, before, calm,
                       cut, heard>>
    BY DEF CleanupOnReap, Runs!Delete, client, RunMove
  <1>2. FileInv' /\ Len(log') = Len(owner')
    BY <1>1, NoFile
  <1>3. Continues
    BY <1>1 DEF Continues, Writer, ChatIInv, ChatTypeOK
  <1>4. /\ QueueType' /\ Moves /\ RequestInv' /\ FollowInv' /\ AloneInv'
        /\ req' \in [Msgs -> {"new", "asked", "busy", "ok", "error"}]
        /\ \A n \in Msgs : heard'[n] # Silence <=> req'[n] = "ok"
    BY <1>1, <1>3, QuietKeeps
  <1>5. BoxInv'
    <2>1. BoxInv
      BY DEF ChatIInv
    <2> QED BY <1>1, <2>1 DEF BoxInv, Alone
  <1>6. /\ ToSet(given') \subseteq marked'
        /\ marked' \subseteq {n \in Msgs : phase'[n] \in {"running", "answered", "lost"}}
        /\ late' \subseteq {n \in Msgs : phase'[n] = "answered"}
    BY <1>1 DEF ChatIInv, ChatTypeOK
  <1> QED BY <1>1, <1>2, <1>4, <1>5, <1>6 DEF ChatIInv, ChatTypeOK, QueueType, QueueInv

----------------------------------------------------------------------------
(* The clients.                                                             *)

(* A message that starts or waits: nothing else moves.                      *)
LEMMA Posted ==
    ASSUME ChatIInv, NEW m \in Msgs, Runs!Start(m) \/ Runs!Enqueue(m)
    PROVE  /\ phase[m] = "new" /\ m \notin ToSet(given) /\ given' = given
           /\ phase'[m] \in {"running", "waiting"} /\ (Runs!Start(m) => phase'[m] = "running")
           /\ \A n \in Msgs \ {m} : phase'[n] = phase[n]
           /\ status # "none" /\ status' # "none"
  <1>1. phase[m] = "new" /\ given' = given /\ phase \in [Msgs -> Phases]
    BY DEF Runs!Start, Runs!Enqueue, ChatIInv, QueueInv
  <1>2. m \notin ToSet(given)
    BY <1>1, NextIsNotGiven
  <1>3. /\ \/ phase' = [phase EXCEPT ![m] = "running"]
           \/ phase' = [phase EXCEPT ![m] = "waiting"] /\ ~Runs!Start(m)
        /\ status # "none" /\ status' # "none"
    BY DEF Runs!Start, Runs!Enqueue, Runs!InFlight
  <1> QED BY <1>1, <1>2, <1>3

LEMMA NativePostKeeps == ASSUME ChatIInv, NEW m \in Msgs, NativePost(m) PROVE ChatIInv'
  <1>1. /\ m \notin Blocking /\ ephemeral = FALSE /\ RunMove
        /\ Runs!Start(m) \/ Runs!Enqueue(m)
        /\ UNCHANGED <<ephemeral, marked, log, owner, late, box, reaping, req, before, calm, cut,
                       heard>>
    BY DEF NativePost, client, RunMove, file, ChatIInv, BoxInv
  <1>2. /\ phase[m] = "new" /\ m \notin ToSet(given) /\ given' = given
        /\ phase'[m] \in {"running", "waiting"} /\ \A n \in Msgs \ {m} : phase'[n] = phase[n]
        /\ status # "none" /\ status' # "none"
    BY <1>1, Posted
  <1>3. FileInv' /\ Len(log') = Len(owner') /\ OwnersStay /\ Outcome' = Outcome
    BY <1>1, <1>2, FileStays
  <1>4. Continues
    <2>1. \A n \in Msgs : phase'[n] = "running" /\ n \in ToSet(given') => phase[n] = "running"
      BY <1>2
    <2> QED BY <1>1, <1>3, <2>1 DEF Continues, Writer, ChatIInv, ChatTypeOK
  <1>5. /\ QueueType' /\ Moves /\ RequestInv' /\ FollowInv' /\ AloneInv'
        /\ req' \in [Msgs -> {"new", "asked", "busy", "ok", "error"}]
        /\ \A n \in Msgs : heard'[n] # Silence <=> req'[n] = "ok"
    <2>1. \A n \in Msgs : phase'[n] = "running" => phase[n] = "running" \/ n \notin Blocking
      BY <1>1, <1>2
    <2>2. \A n \in Msgs : ~(phase[n] = "running" /\ phase'[n] = "answered")
      BY <1>2
    <2> QED BY <1>1, <1>3, <1>4, <2>1, <2>2, QuietKeeps
  <1>6. BoxInv' /\ ~reaping'
    <2>1. BoxInv /\ reaping = FALSE
      BY <1>1 DEF ChatIInv, ChatTypeOK, BoxInv
    <2>2. box => \E n \in Msgs : phase'[n] # "new"
      BY <1>5, <2>1 DEF BoxInv, Moves
    <2> QED BY <1>1, <2>1, <2>2 DEF BoxInv
  <1>7. /\ ToSet(given') \subseteq marked'
        /\ marked' \subseteq {n \in Msgs : phase'[n] \in {"running", "answered", "lost"}}
        /\ late' \subseteq {n \in Msgs : phase'[n] = "answered"}
    <2>1. QueueInv' /\ ToSet(given') \subseteq marked
      BY <1>2, <1>5 DEF QueueType, ChatIInv, ChatTypeOK
    <2> QED BY <1>1, <1>5, <2>1, MarkedKeeps
  <1> QED BY <1>3, <1>5, <1>6, <1>7 DEF ChatIInv, ChatTypeOK, QueueType, QueueInv

(* Nothing was written for messages that nobody sent.                       *)
LEMMA NothingYet ==
    ASSUME ChatIInv, \A n \in Msgs : phase[n] = "new"
    PROVE  Outcome = {}
  <1>1. \A n \in ToSet(given) : FALSE
    BY DEF ChatIInv, ChatTypeOK
  <1>2. \A e \in Outcome : e.id[2] \in 1 .. Len(owner)
    BY OutcomeInLog DEF ChatIInv, ChatTypeOK
  <1>3. \A e \in Outcome : owner[e.id[2]] \in ToSet(given)
    BY <1>2 DEF ChatIInv, FileInv
  <1> QED BY <1>1, <1>3

LEMMA AskKeeps == ASSUME ChatIInv, NEW m \in Msgs, Ask(m) PROVE ChatIInv'
  <1>1. /\ m \in Blocking /\ (ephemeral => \A n \in Msgs : phase[n] = "new") /\ RunMove
        /\ Runs!Start(m) /\ calm' = (IF late = {} THEN calm \cup {m} ELSE calm)
        /\ req' = [req EXCEPT ![m] = "asked"] /\ before' = [before EXCEPT ![m] = Outcome]
        /\ UNCHANGED <<ephemeral, marked, log, owner, late, box, reaping, cut, heard>>
    BY DEF Ask, Outcome, RunMove, file
  <1>2. /\ phase[m] = "new" /\ m \notin ToSet(given) /\ given' = given
        /\ phase'[m] = "running" /\ \A n \in Msgs \ {m} : phase'[n] = phase[n]
        /\ status # "none" /\ status' # "none"
    BY <1>1, Posted
  <1>3. FileInv' /\ Len(log') = Len(owner') /\ OwnersStay /\ Outcome' = Outcome
    BY <1>1, <1>2, FileStays
  <1>4. QueueType' /\ Moves /\ RequestInv /\ QueueInv'
    BY <1>1, Parts, RunMoves DEF QueueType
  <1>5. /\ req' \in [Msgs -> {"new", "asked", "busy", "ok", "error"}] /\ req'[m] = "asked"
        /\ \A n \in Msgs \ {m} : req'[n] = req[n]
        /\ DOMAIN before' = Msgs /\ before'[m] = Outcome
        /\ \A n \in Msgs \ {m} : before'[n] = before[n]
    BY <1>1, <1>4 DEF RequestInv
  <1>6. calm' \subseteq calm \cup {m} /\ m \notin calm /\ req[m] \in {"new", "busy"}
    BY <1>1, <1>2, <1>4 DEF RequestInv
  <1>7. \A n \in Msgs : heard'[n] # Silence <=> req'[n] = "ok"
    BY <1>1, <1>5, <1>6 DEF ChatIInv, ChatTypeOK
  <1>8. RequestInv'
    <2>1. calm' \subseteq Msgs /\ DOMAIN heard' = Msgs
      BY <1>1, <1>4, <1>6 DEF RequestInv
    <2>2. \A n \in Blocking : phase'[n] # "waiting"
      BY <1>2, <1>4, ChatAssumption DEF RequestInv
    <2>3. ASSUME NEW n \in Msgs
          PROVE  /\ phase'[n] = "new" => req'[n] \in {"new", "busy"} /\ n \notin calm'
                 /\ req'[n] \in {"asked", "ok", "error"} => n \in Blocking
                 /\ req'[n] = "ok" => phase'[n] # "running"
      <3>1. CASE n = m
        BY <1>1, <1>2, <1>5, <3>1
      <3>2. CASE n # m
        BY <1>2, <1>4, <1>5, <1>6, <3>2 DEF RequestInv
      <3> QED BY <3>1, <3>2
    <2> QED BY <1>5, <2>1, <2>2, <2>3 DEF RequestInv
  <1>9. FollowInv'
    <2>1. Continues
      <3>1. \A n \in Msgs : phase'[n] = "running" /\ n \in ToSet(given') => phase[n] = "running"
        BY <1>2
      <3> QED BY <1>1, <1>3, <3>1 DEF Continues, Writer, ChatIInv, ChatTypeOK
    <2>2. ASSUME NEW n \in calm PROVE Follows(n)'
      <3>1. n \in Msgs /\ n # m
        BY <1>4, <1>6 DEF RequestInv
      <3> QED BY <1>1, <1>4, <1>5, <2>1, <3>1, FollowKeeps
    <2>3. ASSUME m \in calm' PROVE Follows(m)'
      <3>1. late' = {}
        BY <1>1, <1>6, <2>3
      <3>2. \A n \in Msgs : phase'[n] = "running" => n = m
        BY <1>2, <1>4 DEF QueueInv
      <3>3. Followed(m)'
        BY <1>2, <1>3, <1>5, <3>1, <3>2 DEF Followed
      <3> QED BY <1>5, <3>3 DEF Follows
    <2> QED BY <1>6, <2>2, <2>3 DEF FollowInv
  <1>10. AloneInv'
    <2>1. SUFFICES ASSUME NEW n \in Blocking, Alone(n)' PROVE Undisturbed(n)'
      BY DEF AloneInv
    <2>2. n = m
      BY <1>2, <2>1 DEF Alone
    <2>3. Outcome = {}
      <3>1. \A k \in Msgs : phase[k] = "new"
        BY <1>2, <2>1, <2>2 DEF Alone
      <3> QED BY <3>1, NothingYet
    <2> QED BY <1>2, <1>5, <2>2, <2>3 DEF Undisturbed
  <1>11. BoxInv' /\ ~reaping'
    <2>1. BoxInv
      BY DEF ChatIInv
    <2>2. reaping = FALSE
      BY <1>1, <2>1 DEF ChatIInv, ChatTypeOK, BoxInv
    <2>3. ephemeral => \A n \in Msgs : phase'[n] = "new" \/ Alone(n)'
      BY <1>1, <1>2 DEF Alone
    <2>4. box => \E n \in Msgs : phase'[n] # "new"
      BY <1>2
    <2> QED BY <1>1, <2>1, <2>2, <2>3, <2>4 DEF BoxInv
  <1>12. /\ ToSet(given') \subseteq marked'
         /\ marked' \subseteq {n \in Msgs : phase'[n] \in {"running", "answered", "lost"}}
         /\ late' \subseteq {n \in Msgs : phase'[n] = "answered"}
    <2>1. ToSet(given') \subseteq marked
      BY <1>2 DEF ChatIInv, ChatTypeOK
    <2> QED BY <1>1, <1>4, <2>1, MarkedKeeps
  <1> QED BY <1>3, <1>4, <1>5, <1>7, <1>8, <1>9, <1>10, <1>11, <1>12
          DEF ChatIInv, ChatTypeOK, QueueType, QueueInv

(* A request is answered: nothing moves, unless an ephemeral session goes.  *)
LEMMA ReplyKeeps ==
    ASSUME ChatIInv, NEW m \in Msgs, NEW r \in {"busy", "ok", "error"},
           req[m] = "asked" \/ (r = "busy" /\ phase[m] = "new" /\ req[m] = "new"),
           r = "busy" => phase[m] = "new",
           req' = [req EXCEPT ![m] = r], cut \subseteq cut',
           DOMAIN heard' = Msgs, \A n \in Msgs \ {m} : heard'[n] = heard[n],
           heard'[m] # Silence <=> r = "ok", r = "ok" => phase[m] # "running",
           UNCHANGED <<backlog, phase, given, before, calm, ephemeral, marked, late, box, reaping>>,
           \/ UNCHANGED <<status, log, owner>>
           \/ Runs!Delete /\ log' = <<>> /\ owner' = <<>>,
           m \in calm => Follows(m)', m \in Blocking /\ Alone(m) => Undisturbed(m)'
    PROVE  ChatIInv'
  <1>1. RunMove /\ QueueType' /\ Moves /\ RequestInv /\ QueueInv'
    <2>1. RunMove
      BY DEF RunMove, RunStays, run
    <2> QED BY <2>1, Parts, RunMoves DEF QueueType
  <1>2. /\ req' \in [Msgs -> {"new", "asked", "busy", "ok", "error"}] /\ req'[m] = r
        /\ \A n \in Msgs \ {m} : req'[n] = req[n]
    BY <1>1 DEF RequestInv
  <1>3. \A n \in Msgs : heard'[n] # Silence <=> req'[n] = "ok"
    <2>1. \A n \in Msgs : heard[n] # Silence <=> req[n] = "ok"
      BY DEF ChatIInv, ChatTypeOK
    <2> QED BY <1>2, <2>1
  <1>4. RequestInv'
    <2>1. ASSUME NEW n \in Msgs
          PROVE  /\ phase'[n] = "new" => req'[n] \in {"new", "busy"} /\ n \notin calm'
                 /\ req'[n] \in {"asked", "ok", "error"} => n \in Blocking
                 /\ req'[n] = "ok" => phase'[n] # "running"
      <3>1. CASE n = m
        BY <1>1, <1>2, <3>1 DEF RequestInv
      <3>2. CASE n # m
        BY <1>1, <1>2, <3>2 DEF RequestInv
      <3> QED BY <3>1, <3>2
    <2> QED BY <1>1, <1>2, <2>1 DEF RequestInv
  <1>5. FileInv' /\ Len(log') = Len(owner') /\ (status' # "none" => OwnersStay /\ Outcome' = Outcome)
    <2>1. CASE UNCHANGED <<status, log, owner>>
      <3>1. status' = "none" => log = <<>>
        BY <2>1 DEF ChatIInv, FileInv
      <3> QED BY <2>1, <3>1, FileStays
    <2>2. CASE Runs!Delete /\ log' = <<>> /\ owner' = <<>>
      BY <2>2, NoFile DEF Runs!Delete
    <2> QED BY <2>1, <2>2
  <1>6. FollowInv'
    <2>1. Continues
      BY <1>5 DEF Continues, Writer, ChatIInv, ChatTypeOK
    <2>2. ASSUME NEW n \in calm, n # m PROVE Follows(n)'
      <3>1. n \in Msgs
        BY <1>1 DEF RequestInv
      <3> QED BY <1>1, <1>2, <2>1, <2>2, <3>1, FollowKeeps
    <2> QED BY <2>2 DEF FollowInv
  <1>7. AloneInv'
    <2>1. SUFFICES ASSUME NEW n \in Blocking, Alone(n)' PROVE Undisturbed(n)'
      BY DEF AloneInv
    <2>2. n \in Msgs /\ Alone(n)
      BY <2>1, ChatAssumption DEF Alone
    <2>3. CASE n = m
      BY <2>2, <2>3
    <2>4. CASE n # m
      <3>1. ~(phase[n] = "running" /\ phase'[n] = "answered")
        OBVIOUS
      <3> QED BY <1>1, <1>2, <1>5, <2>1, <2>2, <2>4, <3>1, AloneKeeps
    <2> QED BY <2>3, <2>4
  <1>8. BoxInv' /\ (reaping' => ephemeral' /\ ~box')
    <2>1. BoxInv /\ (reaping => ephemeral /\ ~box)
      BY DEF ChatIInv, ChatTypeOK
    <2> QED BY <2>1 DEF BoxInv, Alone
  <1>9. /\ ToSet(given') \subseteq marked'
        /\ marked' \subseteq {n \in Msgs : phase'[n] \in {"running", "answered", "lost"}}
        /\ late' \subseteq {n \in Msgs : phase'[n] = "answered"}
    BY DEF ChatIInv, ChatTypeOK
  <1> QED BY <1>1, <1>2, <1>3, <1>4, <1>5, <1>6, <1>7, <1>8, <1>9
          DEF ChatIInv, ChatTypeOK, QueueType, QueueInv

LEMMA BusyKeeps == ASSUME ChatIInv, NEW m \in Msgs, Busy(m) PROVE ChatIInv'
  <1>1. /\ req[m] = "new" /\ phase[m] = "new" /\ req' = [req EXCEPT ![m] = "busy"]
        /\ cut \subseteq cut'
        /\ UNCHANGED <<status, log, owner, backlog, phase, given, before, calm, ephemeral, marked,
                       late, box, reaping, heard>>
    BY DEF Busy, run, file
  <1>2. /\ DOMAIN heard' = Msgs /\ (heard'[m] # Silence <=> "busy" = "ok") /\ m \notin calm
        /\ req'[m] = "busy"
    BY <1>1 DEF ChatIInv, ChatTypeOK, RequestInv
  <1>3. Undisturbed(m)'
    BY <1>1, <1>2 DEF Undisturbed
  <1> QED BY <1>1, <1>2, <1>3, ReplyKeeps

LEMMA ErrorKeeps ==
    ASSUME ChatIInv, NEW m \in Msgs, req[m] = "asked", Error(m), cut \subseteq cut',
           m \in Blocking /\ Alone(m) /\ phase[m] \in {"running", "answered"} => m \in cut'
    PROVE  ChatIInv'
  <1>1. /\ req' = [req EXCEPT ![m] = "error"]
        /\ UNCHANGED <<backlog, phase, given, before, calm, ephemeral, marked, late, box, reaping,
                       heard>>
        /\ \/ UNCHANGED <<status, log, owner>>
           \/ Runs!Delete /\ log' = <<>> /\ owner' = <<>>
    BY DEF Error, run, file, Runs!Delete
  <1>2. /\ DOMAIN heard' = Msgs /\ (heard'[m] # Silence <=> "error" = "ok")
        /\ req'[m] = "error"
    BY <1>1 DEF ChatIInv, ChatTypeOK, RequestInv
  <1>3. Follows(m)'
    BY <1>2 DEF Follows
  <1>4. ASSUME m \in Blocking, Alone(m) PROVE Undisturbed(m)'
    <2>1. Undisturbed(m)
      BY <1>4 DEF ChatIInv, AloneInv
    <2>2. status' \in {status, "none"} /\ (status' # "none" => Outcome' = Outcome)
      BY <1>1 DEF Runs!Delete, Outcome
    <2> QED BY <1>1, <1>2, <1>4, <2>1, <2>2 DEF Undisturbed
  <1> QED BY <1>1, <1>2, <1>3, <1>4, ReplyKeeps

LEMMA PollErrorKeeps == ASSUME ChatIInv, NEW m \in Msgs, PollError(m) PROVE ChatIInv'
  <1>1. /\ req[m] = "asked" /\ Error(m) /\ cut' = cut
        /\ status = "failed" \/ (status = "idle" /\ ~LeftOutcome(m))
    BY DEF PollError
  <1>2. ASSUME m \in Blocking, Alone(m), phase[m] \in {"running", "answered"}, m \notin cut
        PROVE  FALSE
    <2>1. Undisturbed(m)
      BY <1>2 DEF ChatIInv, AloneInv
    <2>2. phase[m] = "answered"
      BY <1>1, <1>2 DEF ChatIInv, QueueInv
    <2>3. before[m] = {} /\ Outcome # {} /\ status = "idle"
      BY <1>1, <1>2, <2>1, <2>2 DEF Undisturbed
    <2> QED BY <1>1, <2>3 DEF LeftOutcome, NewOutcome, Outcome
  <1> QED BY <1>1, <1>2, ErrorKeeps

LEMMA PollCutKeeps ==
    ASSUME ChatIInv, NEW m \in Msgs, PollGone(m) \/ PollTimesOut(m)
    PROVE  ChatIInv'
  <1>1. req[m] = "asked" /\ Error(m) /\ cut' = cut \cup {m}
    BY DEF PollGone, PollTimesOut
  <1> QED BY <1>1, ErrorKeeps

LEMMA PollOkKeeps == ASSUME ChatIInv, NEW m \in Msgs, PollOk(m) PROVE ChatIInv'
  <1>1. /\ req[m] = "asked" /\ status = "idle" /\ Outcome \notin {{}, before[m]}
        /\ req' = [req EXCEPT ![m] = "ok"]
        /\ heard' = [heard EXCEPT ![m] = Answer(OwnerOf(Outcome), OwnerOf(LatestAgentMessage(log)))]
        /\ cut \subseteq cut'
        /\ UNCHANGED <<status, log, owner, backlog, phase, given, before, calm, ephemeral, marked,
                       late, box, reaping>>
    BY DEF PollOk, run, file, LeftOutcome, NewOutcome, Outcome
  <1>2. PICK e \in Outcome : OwnerOf(Outcome) = owner[e.id[2]] /\ e.id[2] \in 1 .. Len(owner)
    <2>1. (CHOOSE e \in Outcome : TRUE) \in Outcome
      BY <1>1
    <2>2. \A e \in Outcome : e.id[2] \in 1 .. Len(owner)
      BY OutcomeInLog DEF ChatIInv, ChatTypeOK
    <2> QED BY <1>1, <2>1, <2>2 DEF OwnerOf
  <1>3. PICK w \in Msgs : w = OwnerOf(Outcome) /\ w \in ToSet(given)
    <2>1. ToSet(given) \subseteq Msgs
      <3>1. given \in Seq(Msgs)
        BY DEF ChatIInv, QueueInv
      <3> QED BY <3>1, InSeq
    <2> QED BY <1>2, <2>1 DEF ChatIInv, FileInv
  <1>4. /\ DOMAIN heard' = Msgs /\ \A n \in Msgs \ {m} : heard'[n] = heard[n]
        /\ heard'[m] = Answer(w, OwnerOf(LatestAgentMessage(log)))
    BY <1>1, <1>3 DEF ChatIInv, RequestInv
  <1>5. heard'[m].outcome = w /\ heard'[m] # Silence
    <2>1. heard'[m].outcome = w /\ Silence.outcome = None
      BY <1>4 DEF Answer, Silence
    <2> QED BY <2>1, NoneAssumption
  <1>6. m \in calm => Follows(m)'
    <2>1. ASSUME m \in calm PROVE Follows(m)'
      <3>1. Followed(m)
        BY <1>1, <2>1 DEF ChatIInv, FollowInv, Follows
      <3>2. NotBefore(w, m)
        BY <1>1, <1>2, <1>3, <3>1 DEF Followed
      <3>3. NotBefore(w, m)'
        BY <1>1, <3>2 DEF NotBefore
      <3>4. req'[m] = "ok"
        BY <1>1 DEF ChatIInv, ChatTypeOK
      <3> QED BY <1>5, <3>3, <3>4 DEF Follows, NotBefore
    <2> QED BY <2>1
  <1>7. ASSUME m \in Blocking, Alone(m) PROVE Undisturbed(m)'
    <2>1. Undisturbed(m)
      BY <1>7 DEF ChatIInv, AloneInv
    <2>2. req'[m] = "ok" /\ Outcome' = Outcome
      BY <1>1 DEF ChatIInv, ChatTypeOK, Outcome
    <2> QED BY <1>1, <2>1, <2>2 DEF Undisturbed
  <1>8. phase[m] # "running"
    BY <1>1 DEF ChatIInv, QueueInv
  <1> QED BY <1>1, <1>4, <1>5, <1>6, <1>7, <1>8, ReplyKeeps

----------------------------------------------------------------------------
LEMMA ChatStarts == ChatInit => ChatIInv
  <1> SUFFICES ASSUME ChatInit PROVE ChatIInv
    OBVIOUS
  <1>1. /\ status = "idle" /\ backlog = <<>> /\ given = <<>> /\ phase = [m \in Msgs |-> "new"]
        /\ marked = {} /\ log = <<>> /\ owner = <<>> /\ late = {} /\ box = FALSE /\ reaping = FALSE
        /\ req = [m \in Msgs |-> "new"] /\ before = [m \in Msgs |-> {}] /\ calm = {}
        /\ cut = {} /\ heard = [m \in Msgs |-> Silence] /\ ephemeral \in BOOLEAN
    BY DEF ChatInit, Runs!Init
  <1>2. PICK s : s = <<>>
    OBVIOUS
  <1>3. s \in Seq(Msgs) /\ s \in Seq(Lines) /\ Len(s) = 0 /\ Once(s) /\ ToSet(s) = {}
    <2>1. s \in Seq(Msgs) /\ s \in Seq(Lines) /\ Len(s) = 0
      BY <1>2, EmptySeq
    <2>2. Members(s)
      BY <2>1, InSeq
    <2> QED BY <2>1, <2>2 DEF Once, Members
  <1>4. Logged(ListBySession(s), s)
    BY <1>2, ListEmpty
  <1>5. QueueType
    BY <1>1, <1>2, <1>3 DEF QueueType, QueueInv, Phases, Runs!Waiting
  <1>6. BoxInv /\ RequestInv /\ FollowInv /\ FileInv
    <2>1. BoxInv /\ FollowInv
      BY <1>1 DEF BoxInv, FollowInv
    <2>2. RequestInv
      BY <1>1, ChatAssumption DEF RequestInv
    <2>3. \A i \in 1 .. Len(s) : FALSE
      BY <1>3
    <2>4. FileInv
      BY <1>1, <1>2, <1>3, <1>4, <2>3 DEF FileInv
    <2> QED BY <2>1, <2>2, <2>4
  <1>7. AloneInv
    BY <1>1, ChatAssumption DEF AloneInv, Undisturbed
  <1>8. ChatTypeOK
    BY <1>1, <1>2, <1>3, <1>5 DEF ChatTypeOK, QueueType
  <1> QED BY <1>5, <1>6, <1>7, <1>8 DEF ChatIInv, QueueType

LEMMA ChatNextKeeps == ASSUME ChatIInv, ChatNext PROVE ChatIInv'
  <1>1. ASSUME NEW m \in Msgs, RunStep(m) PROVE ChatIInv'
    BY <1>1, DispatchKeeps, PiTakesKeeps, SettlesKeeps, FailsKeeps DEF RunStep
  <1>2. ASSUME NEW m \in Msgs, PiWrites(m) \/ LateOutcome(m) \/ NativePost(m) \/ Ask(m)
        PROVE  ChatIInv'
    BY <1>2, PiWritesKeeps, LateOutcomeKeeps, NativePostKeeps, AskKeeps
  <1>3. ASSUME NEW m \in Msgs,
               Busy(m) \/ PollGone(m) \/ PollError(m) \/ PollOk(m) \/ PollTimesOut(m)
        PROVE  ChatIInv'
    BY <1>3, BusyKeeps, PollCutKeeps, PollErrorKeeps, PollOkKeeps
  <1> QED BY <1>1, <1>2, <1>3, ReapKeeps, CleanupOnReapKeeps DEF ChatNext

LEMMA ChatRests == ASSUME ChatIInv, UNCHANGED chatVars PROVE ChatIInv'
  <1>1. /\ UNCHANGED <<status, backlog, phase, given, ephemeral, marked, log, owner, late, box>>
        /\ UNCHANGED <<reaping, req, before, calm, cut, heard>>
    BY DEF chatVars, run, file, client
  <1>2. RunMove
    BY <1>1 DEF RunMove, RunStays, run
  <1>3. FileInv' /\ Len(log') = Len(owner') /\ OwnersStay /\ Outcome' = Outcome
    <2>1. status' = "none" => log = <<>>
      BY <1>1 DEF ChatIInv, FileInv
    <2> QED BY <1>1, <2>1, FileStays
  <1>4. Continues
    BY <1>1, <1>3 DEF Continues, Writer, ChatIInv, ChatTypeOK
  <1>5. /\ QueueType' /\ Moves /\ RequestInv' /\ FollowInv' /\ AloneInv'
        /\ req' \in [Msgs -> {"new", "asked", "busy", "ok", "error"}]
        /\ \A n \in Msgs : heard'[n] # Silence <=> req'[n] = "ok"
    BY <1>1, <1>2, <1>3, <1>4, QuietKeeps
  <1>6. BoxInv' /\ (reaping' => ephemeral' /\ ~box')
    BY <1>1 DEF ChatIInv, ChatTypeOK, BoxInv, Alone
  <1>7. /\ ToSet(given') \subseteq marked'
        /\ marked' \subseteq {n \in Msgs : phase'[n] \in {"running", "answered", "lost"}}
        /\ late' \subseteq {n \in Msgs : phase'[n] = "answered"}
    BY <1>1 DEF ChatIInv, ChatTypeOK
  <1> QED BY <1>3, <1>5, <1>6, <1>7 DEF ChatIInv, ChatTypeOK, QueueType, QueueInv

(* What the invariant says of the answers.                                  *)
LEMMA ChatImplied == ChatIInv => ChatInv
  <1> SUFFICES ASSUME ChatIInv PROVE ChatInv
    OBVIOUS
  <1>1. NeverStale
    <2>1. SUFFICES ASSUME NEW m \in calm, req[m] = "ok"
                   PROVE  /\ heard[m].outcome # None
                          /\ m \in ToSet(given) => Place(heard[m].outcome) >= Place(m)
      BY DEF NeverStale
    <2>2. NotBefore(heard[m].outcome, m)
      BY <2>1 DEF ChatIInv, FollowInv, Follows
    <2>3. ToSet(given) \subseteq Msgs
      <3>1. given \in Seq(Msgs)
        BY DEF ChatIInv, QueueInv
      <3> QED BY <3>1, InSeq
    <2> QED BY <2>2, <2>3, NoneAssumption DEF NotBefore, LaterIn, Place, PlaceIn
  <1>2. NoFalseError
    <2>1. SUFFICES ASSUME NEW m \in Blocking, req[m] = "error", phase[m] = "answered", Alone(m)
                   PROVE  m \in cut
      BY DEF NoFalseError, Alone
    <2>2. Undisturbed(m)
      BY <2>1 DEF ChatIInv, AloneInv
    <2> QED BY <2>1, <2>2 DEF Undisturbed
  <1> QED BY <1>1, <1>2 DEF ChatIInv, ChatInv

(* A completion of a calm request never tells of an earlier turn, and a     *)
(* turn that went well, undisturbed, is not reported as an error: the       *)
(* handler's snapshot of the latest outcome is enough, whatever the         *)
(* messages, the lines that Pi writes and the other clients.                *)
THEOREM ChatHolds == Spec => []ChatInv
  <1>1. Init => ChatIInv
    BY ChatStarts DEF Init
  <1>2. ChatIInv /\ [Next]_vars => ChatIInv'
    <2> SUFFICES ASSUME ChatIInv, [Next]_vars PROVE ChatIInv'
      OBVIOUS
    <2>1. CASE ChatPart /\ ChatNext
      BY <2>1, ChatNextKeeps
    <2>2. CASE TelegramPart \/ UNCHANGED vars
      <3>1. UNCHANGED chatVars
        BY <2>2 DEF TelegramPart, vars
      <3> QED BY <3>1, ChatRests
    <2> QED BY <2>1, <2>2 DEF Next
  <1> QED BY <1>1, <1>2, ChatImplied, PTL DEF Spec

----------------------------------------------------------------------------
(* Rising sequences of numbers: the chains and the posts of a chat.         *)
RisingIn(s, S) == s \in Seq(S) /\ Rises(s)

LEMMA NoNumbers == ASSUME NEW S PROVE <<>> \in Seq(S) /\ Rises(<<>>) /\ ToSet(<<>>) = {}
  <1>1. PICK s \in Seq(S) : s = <<>> /\ Len(s) = 0
    BY EmptySeq
  <1>2. Members(s)
    BY InSeq
  <1> QED BY <1>1, <1>2 DEF Rises, Members

LEMMA RisesMore ==
    ASSUME NEW S \in SUBSET Nat, NEW s \in Seq(S), Rises(s), NEW x \in S, \A y \in ToSet(s) : y < x
    PROVE  Rises(Append(s, x))
  <1>1. PICK t : t = Append(s, x) /\ t \in Seq(S) /\ Longer(t, s, x)
    BY AppendIs
  <1>2. PICK n \in Nat : n = Len(s)
    OBVIOUS
  <1>3. /\ Len(t) = n + 1 /\ t[n + 1] = x
        /\ \A i \in 1 .. n : t[i] = s[i] /\ s[i] < x
    <2>1. Members(s)
      BY InSeq
    <2> QED BY <1>1, <1>2, <2>1 DEF Longer, Members
  <1>4. ASSUME NEW i \in 1 .. n + 1, NEW j \in 1 .. n + 1, i < j PROVE t[i] < t[j]
    <2>1. i \in 1 .. n /\ (j \in 1 .. n \/ j = n + 1)
      BY <1>4
    <2> QED BY <1>2, <1>3, <1>4, <2>1 DEF Rises
  <1> QED BY <1>1, <1>3, <1>4 DEF Rises

LEMMA RisesLess ==
    ASSUME NEW S \in SUBSET Nat, NEW s \in Seq(S), s # <<>>, Rises(s)
    PROVE  /\ Tail(s) \in Seq(S) /\ Rises(Tail(s)) /\ Head(s) \in ToSet(s) /\ Head(s) \in S
           /\ ToSet(s) = ToSet(Tail(s)) \cup {Head(s)}
           /\ \A y \in ToSet(Tail(s)) : Head(s) < y
  <1>1. PICK t : t = Tail(s) /\ t \in Seq(S) /\ Head(s) \in S /\ Shorter(t, s)
    BY TailIs
  <1>2. PICK n \in Nat : n = Len(s) /\ n # 0
    BY EmptySeq
  <1>3. Len(t) = n - 1 /\ Head(s) = s[1] /\ \A i \in 1 .. n - 1 : t[i] = s[i + 1]
    BY <1>1, <1>2 DEF Shorter
  <1>4. \A i \in 1 .. n - 1 : i + 1 \in 1 .. n /\ 1 < i + 1
    OBVIOUS
  <1>5. 1 \in 1 .. n
    BY <1>2
  <1>6. \A i \in 1 .. n - 1 : s[1] < t[i]
    BY <1>2, <1>3, <1>4, <1>5 DEF Rises
  <1>7. ASSUME NEW i \in 1 .. n - 1, NEW j \in 1 .. n - 1, i < j PROVE t[i] < t[j]
    <2>1. i + 1 \in 1 .. n /\ j + 1 \in 1 .. n /\ i + 1 < j + 1
      BY <1>7
    <2>2. s[i + 1] < s[j + 1]
      BY <1>2, <2>1 DEF Rises
    <2> QED BY <1>3, <2>2
  <1>8. Members(t)
    BY <1>1, InSeq
  <1> QED BY <1>1, <1>3, <1>6, <1>7, <1>8 DEF Rises, Shorter, Members

LEMMA LastIsMost ==
    ASSUME NEW S \in SUBSET Nat, NEW s \in Seq(S), s # <<>>, Rises(s)
    PROVE  Last(s) \in ToSet(s) /\ \A y \in ToSet(s) : y <= Last(s)
  <1>1. PICK n \in Nat : n = Len(s) /\ n # 0
    BY EmptySeq
  <1>2. n \in 1 .. n /\ Last(s) = s[n] /\ \A i \in 1 .. n : s[i] \in Nat
    <2>1. n \in 1 .. n
      BY <1>1
    <2>2. \A i \in 1 .. n : s[i] \in S
      BY <1>1
    <2> QED BY <1>1, <2>1, <2>2 DEF Last
  <1>3. \A i \in 1 .. n : i < n \/ i = n
    OBVIOUS
  <1>4. \A i \in 1 .. n : s[i] <= s[n]
    BY <1>1, <1>2, <1>3 DEF Rises
  <1>5. Members(s)
    BY InSeq
  <1> QED BY <1>1, <1>2, <1>4, <1>5 DEF Members

LEMMA Concat ==
    ASSUME NEW S, NEW s \in Seq(S), NEW t \in Seq(S)
    PROVE  s \o t \in Seq(S) /\ ToSet(s \o t) = ToSet(s) \cup ToSet(t)
  <1>1. PICK m \in Nat, n \in Nat : m = Len(s) /\ n = Len(t)
    OBVIOUS
  <1>2. /\ s \o t \in Seq(S) /\ Len(s \o t) = m + n
        /\ \A i \in 1 .. m + n : (s \o t)[i] = IF i <= m THEN s[i] ELSE t[i - m]
    BY <1>1, ConcatProperties
  <1>3. PICK r : r = s \o t
    OBVIOUS
  <1>4. Members(r) /\ Members(s) /\ Members(t)
    BY <1>2, <1>3, InSeq
  <1>5. ASSUME NEW x PROVE x \in ToSet(r) <=> x \in ToSet(s) \cup ToSet(t)
    <2>1. ASSUME NEW i \in 1 .. m + n PROVE r[i] \in ToSet(s) \cup ToSet(t)
      <3>1. CASE i <= m
        <4>1. i \in 1 .. m /\ r[i] = s[i]
          BY <1>2, <1>3, <3>1
        <4> QED BY <1>1, <1>4, <4>1 DEF Members
      <3>2. CASE ~(i <= m)
        <4>1. i - m \in 1 .. n /\ r[i] = t[i - m]
          BY <1>2, <1>3, <3>2
        <4> QED BY <1>1, <1>4, <4>1 DEF Members
      <3> QED BY <3>1, <3>2
    <2>2. ASSUME NEW i \in 1 .. m PROVE i \in 1 .. m + n /\ r[i] = s[i]
      BY <1>2, <1>3
    <2>3. ASSUME NEW i \in 1 .. n PROVE i + m \in 1 .. m + n /\ r[i + m] = t[i]
      <3>1. i + m \in 1 .. m + n /\ ~(i + m <= m) /\ (i + m) - m = i
        OBVIOUS
      <3> QED BY <1>2, <1>3, <3>1
    <2>4. x \in ToSet(r) => x \in ToSet(s) \cup ToSet(t)
      <3>1. x \in ToSet(r) => \E i \in 1 .. m + n : r[i] = x
        BY <1>2, <1>3, <1>4 DEF Members
      <3> QED BY <2>1, <3>1
    <2>5. x \in ToSet(s) => x \in ToSet(r)
      <3>1. x \in ToSet(s) => \E i \in 1 .. m : s[i] = x
        BY <1>1, <1>4 DEF Members
      <3>2. \A i \in 1 .. m + n : r[i] \in ToSet(r)
        BY <1>2, <1>3, <1>4 DEF Members
      <3> QED BY <2>2, <3>1, <3>2
    <2>6. x \in ToSet(t) => x \in ToSet(r)
      <3>1. x \in ToSet(t) => \E i \in 1 .. n : t[i] = x
        BY <1>1, <1>4 DEF Members
      <3>2. \A i \in 1 .. m + n : r[i] \in ToSet(r)
        BY <1>2, <1>3, <1>4 DEF Members
      <3> QED BY <2>3, <3>1, <3>2
    <2> QED BY <2>4, <2>5, <2>6
  <1> QED BY <1>2, <1>3, <1>5

LEMMA RisesConcat ==
    ASSUME NEW S \in SUBSET Nat, NEW s \in Seq(S), NEW t \in Seq(S), Rises(s), Rises(t),
           \A x \in ToSet(s), y \in ToSet(t) : x < y
    PROVE  Rises(s \o t)
  <1>1. PICK m \in Nat, n \in Nat : m = Len(s) /\ n = Len(t)
    OBVIOUS
  <1>2. /\ Len(s \o t) = m + n
        /\ \A i \in 1 .. m + n : (s \o t)[i] = IF i <= m THEN s[i] ELSE t[i - m]
    BY <1>1, ConcatProperties
  <1>3. PICK r : r = s \o t
    OBVIOUS
  <1>4. Members(s) /\ Members(t)
    BY InSeq
  <1>5. ASSUME NEW i \in 1 .. m + n, NEW j \in 1 .. m + n, i < j PROVE r[i] < r[j]
    <2>1. CASE j <= m
      <3>1. i \in 1 .. m /\ j \in 1 .. m /\ i <= m
        BY <1>5, <2>1
      <3> QED BY <1>1, <1>2, <1>3, <1>5, <2>1, <3>1 DEF Rises
    <2>2. CASE ~(j <= m) /\ i <= m
      <3>1. i \in 1 .. m /\ j - m \in 1 .. n
        BY <1>5, <2>2
      <3>2. s[i] \in ToSet(s) /\ t[j - m] \in ToSet(t)
        BY <1>1, <1>4, <3>1 DEF Members
      <3> QED BY <1>2, <1>3, <2>2, <3>2
    <2>3. CASE ~(j <= m) /\ ~(i <= m)
      <3>1. PICK k \in 1 .. n, l \in 1 .. n : k = i - m /\ l = j - m /\ k < l
        BY <1>5, <2>3
      <3>2. r[i] = t[k] /\ r[j] = t[l]
        BY <1>2, <1>3, <2>3, <3>1
      <3> QED BY <1>1, <3>1, <3>2 DEF Rises
    <2> QED BY <2>1, <2>2, <2>3
  <1> QED BY <1>2, <1>3, <1>5 DEF Rises

(* Among keeps the members that are wanted, and their order.                *)
Picked(f, s, S, n) ==
    /\ Rises(f) /\ \A x \in Nat : x \in ToSet(f) <=> \E k \in 1 .. n : s[k] = x /\ x \in S

LEMMA Picks ==
    ASSUME NEW N \in SUBSET Nat, NEW s \in Seq(N), Rises(s), NEW S
    PROVE  RisingIn(Among(s, S), N) /\ ToSet(Among(s, S)) = ToSet(s) \cap S
  <1> DEFINE G(n) == [k \in 1 .. n |-> IF s[k] \in S THEN <<s[k]>> ELSE <<>>]
             F(n) == FlattenSeq(G(n))
             Good(n) == F(n) \in Seq(N) /\ Picked(F(n), s, S, n)
             Bad == {n \in 0 .. Len(s) : ~Good(n)}
  <1>0. PICK l \in Nat : l = Len(s) /\ DOMAIN s = 1 .. l
    OBVIOUS
  <1>1. Good(0)
    <2>1. G(0) = <<>>
      BY EmptySeq
    <2>2. F(0) = <<>>
      BY <2>1, FlattenEmpty
    <2>3. \A k \in 1 .. 0 : FALSE
      OBVIOUS
    <2>4. PICK f : f = F(0) /\ f = <<>>
      BY <2>2
    <2>5. f \in Seq(N) /\ Picked(f, s, S, 0)
      BY <2>3, <2>4, NoNumbers DEF Picked
    <2> HIDE DEF F
    <2> QED BY <2>4, <2>5
  <1>2. ASSUME NEW n \in 0 .. l - 1, Good(n) PROVE Good(n + 1)
    <2>0. n + 1 \in 1 .. l /\ n \in Nat /\ \A k \in 1 .. n : k \in 1 .. n + 1 /\ k \in 1 .. l /\ k < n + 1
      OBVIOUS
    <2>1. PICK g, h, f : g = G(n) /\ h = G(n + 1) /\ f = F(n)
      OBVIOUS
    <2>2. PICK x \in N : x = s[n + 1]
      <3>1. PICK k \in 1 .. l : k = n + 1
        BY <2>0
      <3>2. s[k] \in N
        BY <1>0
      <3> QED BY <3>1, <3>2
    <2>3. f \in Seq(N) /\ Picked(f, s, S, n) /\ f = FlattenSeq(g) /\ F(n + 1) = FlattenSeq(h)
      BY <1>2, <2>1
    <2>4. Len(g) = n /\ Len(h) = n + 1 /\ (n = 0 => g = <<>>) /\ \A k \in 1 .. n : g[k] = h[k]
      BY <2>0, <2>1, EmptySeq
    <2>5. h[n + 1] = IF x \in S THEN <<x>> ELSE <<>>
      BY <2>0, <2>1, <2>2
    <2> HIDE DEF G, F
    <2>6. <<>> \o h[n + 1] = h[n + 1]
      <3>1. <<x>> \in Seq(N) /\ <<>> \in Seq(N)
        OBVIOUS
      <3>2. <<>> \o <<x>> = <<x>> /\ <<>> \o <<>> = <<>>
        BY <3>1, ConcatEmptySeq
      <3> QED BY <2>5, <3>2
    <2>7. F(n + 1) = f \o h[n + 1]
      BY <2>0, <2>3, <2>4, <2>6, FlattenMore
    <2>8. \A k \in 1 .. n : s[k] < x
      BY <1>0, <2>0, <2>2 DEF Rises
    <2>9. CASE x \in S
      <3>1. F(n + 1) = Append(f, x)
        BY <2>3, <2>5, <2>7, <2>9
      <3>2. Append(f, x) \in Seq(N) /\ ToSet(Append(f, x)) = ToSet(f) \cup {x}
        BY <2>3, AppendIs DEF Longer
      <3>3. \A y \in ToSet(f) : y < x
        <4>1. ToSet(f) \subseteq N
          BY <2>3, InSeq
        <4> QED BY <2>3, <2>8, <4>1 DEF Picked
      <3>4. Rises(Append(f, x))
        BY <2>3, <3>3, RisesMore DEF Picked
      <3>5. ASSUME NEW y \in Nat
            PROVE  y \in ToSet(f) \cup {x} <=> \E k \in 1 .. n + 1 : s[k] = y /\ y \in S
        <4>1. \A k \in 1 .. n + 1 : k \in 1 .. n \/ k = n + 1
          OBVIOUS
        <4> QED BY <2>0, <2>2, <2>3, <2>9, <4>1 DEF Picked
      <3> QED BY <3>1, <3>2, <3>4, <3>5 DEF Picked
    <2>10. CASE x \notin S
      <3>1. F(n + 1) = f
        BY <2>3, <2>5, <2>7, <2>10
      <3>2. ASSUME NEW y \in Nat
            PROVE  y \in ToSet(f) <=> \E k \in 1 .. n + 1 : s[k] = y /\ y \in S
        <4>1. \A k \in 1 .. n + 1 : k \in 1 .. n \/ k = n + 1
          OBVIOUS
        <4> QED BY <2>0, <2>2, <2>3, <2>10, <4>1 DEF Picked
      <3> QED BY <2>3, <3>1, <3>2 DEF Picked
    <2> QED BY <2>9, <2>10
  <1>3. Good(l)
    <2> HIDE DEF Good
    <2>1. SUFFICES ASSUME ~Good(l) PROVE FALSE
      OBVIOUS
    <2>2. Bad \in SUBSET Nat /\ Bad # {}
      BY <1>0, <2>1
    <2>3. PICK n \in Bad : \A k \in Bad : n <= k
      <3> HIDE DEF Bad
      <3> QED BY <2>2, LeastOne
    <2>4. n \in 0 .. l /\ ~Good(n) /\ n # 0
      BY <1>0, <1>1, <2>3
    <2>5. PICK k \in 0 .. l - 1 : n = k + 1
      BY <2>4
    <2>6. Good(k)
      BY <1>0, <2>3, <2>5
    <2> QED BY <1>2, <2>4, <2>5, <2>6
  <1>4. Among(s, S) = F(l)
    BY <1>0 DEF Among
  <1> HIDE DEF F
  <1>5. PICK f : f = Among(s, S) /\ f \in Seq(N) /\ Picked(f, s, S, l)
    BY <1>3, <1>4
  <1>6. ToSet(f) \subseteq N /\ ToSet(s) \subseteq N /\ Members(s)
    BY <1>5, InSeq
  <1>7. \A x \in Nat : x \in ToSet(f) <=> x \in ToSet(s) \cap S
    BY <1>0, <1>5, <1>6 DEF Picked, Members
  <1> QED BY <1>5, <1>6, <1>7 DEF RisingIn, Picked

----------------------------------------------------------------------------
(* A handler's step, part by part.                                          *)
LEMMA Chatting ==
    ASSUME PollInv
    PROVE  /\ Updates = 1 .. Len(chatOf) /\ Updates \in SUBSET Nat
           /\ \A u \in Updates : chatOf[u] \in Chats
  BY DEF PollInv, Updates

LEMMA OnTurn ==
    ASSUME PollInv, OrderInv, NEW u \in Updates, MyTurn(u)
    PROVE  /\ u \in ToSet(chain[chatOf[u]]) /\ u <= offset
           /\ \A v \in ToSet(chain[chatOf[u]]) \ {u} : u < v
           /\ ToSet(chain[chatOf[u]]) \subseteq Updates
  <1>1. PICK c \in Chats : c = chatOf[u]
    BY Chatting
  <1>2. PICK s \in Seq(Updates) : s = chain[c] /\ Rises(s) /\ s # <<>> /\ Head(s) = u
    BY <1>1 DEF OrderInv, MyTurn
  <1>3. /\ Head(s) \in ToSet(s) /\ ToSet(s) = ToSet(Tail(s)) \cup {Head(s)}
        /\ \A y \in ToSet(Tail(s)) : Head(s) < y
    BY <1>2, Chatting, RisesLess
  <1>4. ToSet(s) \subseteq Updates
    BY InSeq
  <1> QED BY <1>1, <1>2, <1>3, <1>4 DEF OrderInv

(* Only one handler of a chat is under way.                                 *)
LEMMA OthersWait ==
    ASSUME OrderInv, NEW u \in Updates, MyTurn(u), NEW v \in Updates, v # u,
           chatOf[v] = chatOf[u]
    PROVE  handler[v].pc \in {"idle", "fresh"}
  BY DEF OrderInv, MyTurn

LEMMA PollKeeps ==
    ASSUME PollInv, UNCHANGED <<telegram, offset, up, told, crashes, lost>>,
           faults' \in faults .. MaxFaults
    PROVE  PollInv'
  <1>1. UNCHANGED <<chatOf, sent, confirmed>>
    BY DEF telegram
  <1>2. faults' \in 0 .. MaxFaults /\ crashes' \in 0 .. faults'
    <2>1. faults \in Nat /\ crashes \in Nat /\ crashes <= faults /\ MaxFaults \in Nat
      BY TelegramAssumption DEF PollInv
    <2> QED BY <2>1
  <1> QED BY <1>1, <1>2 DEF PollInv, Updates

LEMMA OrderKeeps ==
    ASSUME PollInv, OrderInv, UNCHANGED <<chatOf, chain, offset, posts>>,
           \A v \in Updates : handler'[v].pc \in {"idle", "fresh"} \/ MyTurn(v),
           \A v \in Updates : Posting(handler'[v]) => Posting(handler[v])
    PROVE  OrderInv'
  <1>1. \A v \in Updates : MyTurn(v)' <=> MyTurn(v)
    BY DEF MyTurn
  <1>2. \A c \in Chats : ToSet(chain[c]) \subseteq Updates
    <2> SUFFICES ASSUME NEW c \in Chats PROVE ToSet(chain[c]) \subseteq Updates
      OBVIOUS
    <2>1. chain[c] \in Seq(Updates)
      BY DEF OrderInv
    <2> QED BY <2>1, InSeq
  <1>3. \A c \in Chats : \A p \in ToSet(posts[c]), u \in ToSet(chain[c]) :
            p <= u /\ (Posting(handler'[u]) => p < u)
    BY <1>2 DEF OrderInv
  <1> QED BY <1>1, <1>3 DEF OrderInv, Updates

LEMMA LostKeeps ==
    ASSUME PollInv, LostInv, UNCHANGED <<crashes, lost>>, faults' \in faults .. MaxFaults
    PROVE  LostInv'
  <1>1. faults \in Nat /\ crashes \in Nat /\ faults <= faults' /\ faults' \in Nat
    BY TelegramAssumption DEF PollInv
  <1>2. lost' \in [Chats -> Nat]
    BY DEF LostInv
  <1>3. ASSUME NEW c \in Chats PROVE crashes' + lost'[c] <= faults'
    <2>1. crashes + lost[c] <= faults /\ lost[c] \in Nat /\ lost'[c] = lost[c]
      BY DEF LostInv
    <2> QED BY <1>1, <2>1
  <1> QED BY <1>2, <1>3 DEF LostInv

LEMMA SessionKeeps ==
    ASSUME PollInv, SessionInv, UNCHANGED <<chatOf, created, known, up, crashes, lost>>,
           faults' \in faults .. MaxFaults,
           \A v \in Updates : handler'[v].pc = "create" => known[chatOf[v]] = 0
    PROVE  SessionInv'
  <1>1. LostInv'
    BY LostKeeps DEF SessionInv
  <1> QED BY <1>1 DEF SessionInv, Updates

LEMMA FilesKeeps ==
    ASSUME FilesInv, UNCHANGED <<chatOf, created, known, up, files>>,
           \A v \in Updates : Current(handler'[v].text),
           \A v \in Updates : handler'[v].pc \in {"write", "rename"} =>
               handler[v].pc \in {"write", "rename"}
    PROVE  FilesInv'
  BY DEF FilesInv, Updates, files, Current

LEMMA TurnKeeps ==
    ASSUME ServerInv, TurnInv,
           UNCHANGED <<chatOf, offset, chain, told, server, posts, crashes, lost>>,
           crashes = 0 => \A v \in Updates : AtRest(server[chatOf[v]], v, handler'[v])
    PROVE  ServerInv' /\ TurnInv'
  <1>1. ServerInv'
    BY DEF ServerInv, Sessions, Updates
  <1>2. TurnInv'
    BY DEF TurnInv, Updates
  <1> QED BY <1>1, <1>2

(* What the handler of u may be next.                                       *)
Fits(u, h) ==
    /\ h.pc # "idle"
    /\ h.pc \in {"open", "write", "rename"} => h.then \in {"post", "reply"}
    /\ h.pc \in {"write", "rename"} => h.fd # "none"
    /\ Posting(h) => Posting(handler[u]) /\ h.saw = "none"
    /\ h.pc = "create" => known[chatOf[u]] = 0

LEMMA HandlerKeeps ==
    ASSUME PollInv, HandlerInv, OrderInv, NEW u \in Updates, up, MyTurn(u),
           NEW h \in Handlers, handler' = [handler EXCEPT ![u] = h], Fits(u, h),
           UNCHANGED <<chatOf, chain, up>>
    PROVE  /\ HandlerInv' /\ \A v \in Updates : handler'[v] = IF v = u THEN h ELSE handler[v]
           /\ \A v \in Updates : handler'[v].pc \in {"idle", "fresh"} \/ MyTurn(v)
           /\ \A v \in Updates : Posting(handler'[v]) => Posting(handler[v])
  <1>1. /\ handler' \in [Updates -> Handlers]
        /\ \A v \in Updates : handler'[v] = IF v = u THEN h ELSE handler[v]
    BY DEF HandlerInv
  <1>2. handler' \in [Updates -> Handlers]'
    BY <1>1 DEF Updates, Handlers
  <1>3. u \in ToSet(chain[chatOf[u]])
    BY OnTurn
  <1>4. \A v \in Updates : handler'[v].pc = "idle" <=> v \notin ToSet(chain[chatOf[v]])
    BY <1>1, <1>3 DEF HandlerInv, Fits
  <1>5. ASSUME NEW v \in Updates
        PROVE  /\ handler'[v].pc \in {"open", "write", "rename"} => handler'[v].then \in {"post", "reply"}
               /\ handler'[v].pc \in {"write", "rename"} => handler'[v].fd # "none"
               /\ Posting(handler'[v]) => handler'[v].saw = "none"
    <2>1. CASE v = u
      BY <1>1, <2>1 DEF Fits
    <2>2. CASE v # u
      BY <1>1, <2>2 DEF HandlerInv
    <2> QED BY <2>1, <2>2
  <1>6. HandlerInv'
    BY <1>2, <1>4, <1>5 DEF HandlerInv, Updates
  <1>7. \A v \in Updates : handler'[v].pc \in {"idle", "fresh"} \/ MyTurn(v)
    BY <1>1 DEF OrderInv
  <1>8. \A v \in Updates : Posting(handler'[v]) => Posting(handler[v])
    BY <1>1 DEF Fits
  <1> QED BY <1>1, <1>6, <1>7, <1>8

(* A handler goes on: nothing else changes.                                 *)
LEMMA HandlerMoves ==
    ASSUME ChainIInv, NEW u \in Updates, up, MyTurn(u),
           NEW h \in Handlers, handler' = [handler EXCEPT ![u] = h], Fits(u, h),
           h.pc \notin {"write", "rename"}, Current(h.text),
           crashes = 0 => AtRest(server[chatOf[u]], u, h),
           UNCHANGED <<telegram, offset, up, chain, known, files, server, created, posts, told,
                       crashes, lost>>,
           faults' \in faults .. MaxFaults
    PROVE  ChainIInv'
  <1>0. UNCHANGED <<chatOf, sent, confirmed>>
    BY DEF telegram
  <1>1. PollInv'
    BY PollKeeps DEF ChainIInv
  <1>2. /\ HandlerInv' /\ \A v \in Updates : handler'[v] = IF v = u THEN h ELSE handler[v]
        /\ \A v \in Updates : handler'[v].pc \in {"idle", "fresh"} \/ MyTurn(v)
        /\ \A v \in Updates : Posting(handler'[v]) => Posting(handler[v])
    BY <1>0, HandlerKeeps DEF ChainIInv
  <1>3. OrderInv'
    BY <1>0, <1>2, OrderKeeps DEF ChainIInv
  <1>4. SessionInv'
    <2>1. \A v \in Updates : handler'[v].pc = "create" => known[chatOf[v]] = 0
      BY <1>2 DEF Fits, ChainIInv, SessionInv
    <2> QED BY <1>0, <2>1, SessionKeeps DEF ChainIInv
  <1>5. FilesInv'
    <2>1. \A v \in Updates : Current(handler'[v].text)
      BY <1>2 DEF ChainIInv, FilesInv
    <2>2. \A v \in Updates : handler'[v].pc \in {"write", "rename"} =>
              handler[v].pc \in {"write", "rename"}
      BY <1>2
    <2> QED BY <1>0, <2>1, <2>2, FilesKeeps DEF ChainIInv
  <1>6. ServerInv' /\ TurnInv'
    <2>1. crashes = 0 => \A v \in Updates : AtRest(server[chatOf[v]], v, handler'[v])
      BY <1>2 DEF ChainIInv, TurnInv
    <2> QED BY <1>0, <2>1, TurnKeeps DEF ChainIInv
  <1> QED BY <1>1, <1>2, <1>3, <1>4, <1>5, <1>6 DEF ChainIInv

----------------------------------------------------------------------------
(* The handler's steps.                                                     *)
LEMMA NoNumber == 0 \in Generations /\ NoRecords \in Records
  <1>1. 0 \in Generations
    BY TelegramAssumption DEF Generations
  <1> QED BY <1>1 DEF NoRecords, Records

LEMMA Faulty == ASSUME PollInv, Fault \/ faults' = faults PROVE faults' \in faults .. MaxFaults
  <1>1. faults \in Nat /\ faults <= MaxFaults /\ MaxFaults \in Nat
    BY TelegramAssumption DEF PollInv
  <1> QED BY <1>1 DEF Fault

LEMMA HereIs ==
    ASSUME ChainIInv, NEW u \in Updates
    PROVE  /\ PollInv /\ handler[u] \in Handlers /\ Current(handler[u].text) /\ Current(NoRecords)
           /\ chatOf[u] \in Chats /\ server[chatOf[u]] \in Sessions
           /\ (crashes = 0 => AtRest(server[chatOf[u]], u, handler[u]))
           /\ (Posting(handler[u]) => handler[u].saw = "none") /\ known \in Records
  <1>1. PollInv /\ HandlerInv /\ FilesInv /\ TurnInv /\ ServerInv /\ SessionInv
    BY DEF ChainIInv
  <1>2. Current(NoRecords)
    BY DEF Current, NoRecords
  <1>3. chatOf[u] \in Chats
    BY <1>1, Chatting
  <1> QED BY <1>1, <1>2, <1>3 DEF HandlerInv, FilesInv, TurnInv, ServerInv, SessionInv

LEMMA ApologizeKeeps ==
    ASSUME ChainIInv, NEW u \in Updates, up, MyTurn(u), Apologize(u),
           Fault \/ faults' = faults,
           UNCHANGED <<telegram, offset, up, chain, known, files, server, created, posts, told,
                       crashes, lost>>
    PROVE  ChainIInv'
  <1>1. PICK h : h = [Idle EXCEPT !.pc = "sorry"]
    OBVIOUS
  <1>2. h = [pc |-> "sorry", then |-> "idle", fd |-> "none", text |-> NoRecords, saw |-> "none",
             reply |-> 0]
    BY <1>1 DEF Idle
  <1>3. h \in Handlers
    BY <1>2, NoNumber DEF Handlers, Pcs, Seen
  <1>4. Fits(u, h) /\ h.pc \notin {"write", "rename"}
    BY <1>2 DEF Fits, Posting
  <1>5. Current(h.text) /\ PollInv
    BY <1>2, HereIs
  <1>6. AtRest(server[chatOf[u]], u, h)
    BY <1>2 DEF AtRest
  <1>7. faults' \in faults .. MaxFaults
    BY <1>5, Faulty
  <1>8. handler' = [handler EXCEPT ![u] = h]
    BY <1>1 DEF Apologize
  <1> QED BY <1>3, <1>4, <1>5, <1>6, <1>7, <1>8, HandlerMoves

LEMMA GotoKeeps ==
    ASSUME ChainIInv, NEW u \in Updates, At(u, "fresh"),
           NEW pc \in {"create", "post"}, Goto(u, pc), pc = "create" => known[chatOf[u]] = 0,
           UNCHANGED <<telegram, offset, up, chain, known, files, server, created, posts, told,
                       limits>>
    PROVE  ChainIInv'
  <1>1. PICK h : h = [handler[u] EXCEPT !.pc = pc]
    OBVIOUS
  <1>2. handler' = [handler EXCEPT ![u] = h]
    BY <1>1 DEF Goto
  <1>3. up /\ MyTurn(u) /\ handler[u].pc = "fresh" /\ crashes' = crashes /\ lost' = lost /\ faults' = faults
    BY DEF At, limits
  <1>4. handler[u] \in Handlers /\ Posting(handler[u]) /\ handler[u].saw = "none" /\ PollInv
        /\ Current(handler[u].text)
    BY <1>3, HereIs DEF Posting
  <1>5. h \in Handlers /\ h.pc = pc /\ h.saw = "none" /\ h.text = handler[u].text
    BY <1>1, <1>4 DEF Handlers, Pcs
  <1>6. Fits(u, h) /\ h.pc \notin {"write", "rename"} /\ AtRest(server[chatOf[u]], u, h)
    BY <1>4, <1>5 DEF Fits, AtRest
  <1>7. faults' \in faults .. MaxFaults
    BY <1>3, <1>4, Faulty
  <1> QED BY <1>2, <1>3, <1>4, <1>5, <1>6, <1>7, HandlerMoves

LEMMA WaitEndsKeeps == ASSUME ChainIInv, NEW u \in Updates, WaitEnds(u) PROVE ChainIInv'
  <1>1. PICK status0 : status0 = server[chatOf[u]].status /\ status0 # "running"
    BY DEF WaitEnds
  <1>2. PICK h : h = [handler[u] EXCEPT !.saw = status0,
                                        !.pc = IF status0 = "failed" THEN "reply" ELSE "list"]
    OBVIOUS
  <1>3. handler' = [handler EXCEPT ![u] = h]
    BY <1>1, <1>2 DEF WaitEnds
  <1>4. up /\ MyTurn(u) /\ crashes' = crashes /\ lost' = lost /\ faults' = faults
    BY DEF WaitEnds, At, limits
  <1>5. /\ handler[u] \in Handlers /\ Current(handler[u].text) /\ PollInv
        /\ chatOf[u] \in Chats /\ server[chatOf[u]] \in Sessions
    BY HereIs
  <1>6. status0 \in {"idle", "starting", "failed"}
    BY <1>1, <1>5 DEF Sessions
  <1>7. /\ h.pc = (IF status0 = "failed" THEN "reply" ELSE "list") /\ h.saw = status0
        /\ h.text = handler[u].text /\ h \in Handlers
    BY <1>2, <1>5, <1>6 DEF Handlers, Pcs, Seen
  <1>8. Fits(u, h) /\ h.pc \notin {"write", "rename"}
    BY <1>7 DEF Fits, Posting
  <1>9. AtRest(server[chatOf[u]], u, h)
    BY <1>1, <1>5, <1>7 DEF AtRest, ChainIInv, ServerInv
  <1>10. faults' \in faults .. MaxFaults
    BY <1>4, <1>5, Faulty
  <1> QED BY <1>3, <1>4, <1>5, <1>7, <1>8, <1>9, <1>10, HandlerMoves DEF WaitEnds

(* The last answer of a session at rest is that of the latest update.       *)
LEMMA LastIsOwn ==
    ASSUME ChainIInv, NEW u \in Updates, MyTurn(u), crashes = 0,
           server[chatOf[u]].turns = <<>>
    PROVE  Settled(server[chatOf[u]], u, LastAgentMessage(server[chatOf[u]].log))
  <1>1. PICK s : s = server[chatOf[u]]
    OBVIOUS
  <1>2. /\ chatOf[u] \in Chats /\ s \in Sessions /\ Updates \in SUBSET Nat
        /\ TurnsInOrder(s, posts[chatOf[u]]) /\ PollInv /\ OrderInv
    BY <1>1, HereIs, Chatting DEF ChainIInv, TurnInv
  <1>3. u \notin ToSet(s.turns)
    BY <1>1, NoNumbers
  <1>4. ASSUME u \in ToSet(s.log) PROVE LastAgentMessage(s.log) = u
    <2>1. s.log \in Seq(Updates) /\ Rises(s.log) /\ s.log # <<>>
      BY <1>2, <1>4, NoNumbers DEF Sessions, TurnsInOrder
    <2>2. PICK l : l = Last(s.log) /\ l \in ToSet(s.log) /\ u <= l
      BY <1>2, <1>4, <2>1, LastIsMost
    <2>3. l \in Updates
      BY <2>1, <2>2, InSeq
    <2>4. l <= u
      BY <1>2, <2>2, OnTurn DEF TurnsInOrder, OrderInv
    <2>5. l = u
      BY <1>2, <2>2, <2>3, <2>4
    <2> QED BY <2>1, <2>2, <2>5 DEF LastAgentMessage
  <1> QED BY <1>1, <1>3, <1>4 DEF Settled

LEMMA ListKeeps == ASSUME ChainIInv, NEW u \in Updates, List(u) PROVE ChainIInv'
  <1>1. PICK r : r = LastAgentMessage(server[chatOf[u]].log)
    OBVIOUS
  <1>2. PICK h : h = [handler[u] EXCEPT !.reply = r, !.pc = "open", !.then = "reply",
                                        !.text = known]
    OBVIOUS
  <1>3. handler' = [handler EXCEPT ![u] = h]
    BY <1>1, <1>2 DEF List
  <1>4. up /\ MyTurn(u) /\ crashes' = crashes /\ lost' = lost /\ faults' = faults /\ handler[u].pc = "list"
    BY DEF List, At, limits
  <1>5. /\ handler[u] \in Handlers /\ PollInv /\ chatOf[u] \in Chats /\ known \in Records
        /\ server[chatOf[u]] \in Sessions
        /\ crashes = 0 => AtRest(server[chatOf[u]], u, handler[u])
    BY HereIs
  <1>6. r \in Nat
    <2>1. PICK l \in Seq(Updates) : l = server[chatOf[u]].log
      BY <1>5 DEF Sessions
    <2>2. CASE l # <<>>
      <3>1. Len(l) \in 1 .. Len(l)
        BY <2>2, EmptySeq
      <3>2. Last(l) \in Updates
        BY <3>1 DEF Last
      <3> QED BY <1>1, <1>5, <2>1, <2>2, <3>2, Chatting DEF LastAgentMessage
    <2> QED BY <1>1, <2>1, <2>2 DEF LastAgentMessage
  <1>7. /\ h.pc = "open" /\ h.then = "reply" /\ h.saw = handler[u].saw /\ h.text = known
        /\ h.reply = r /\ h \in Handlers
    BY <1>2, <1>5, <1>6 DEF Handlers, Pcs
  <1>8. Fits(u, h) /\ h.pc \notin {"write", "rename"} /\ Current(h.text)
    BY <1>7 DEF Fits, Posting, Current
  <1>9. crashes = 0 => AtRest(server[chatOf[u]], u, h)
    <2> SUFFICES ASSUME crashes = 0, handler[u].saw = "idle"
                 PROVE  Settled(server[chatOf[u]], u, r)
      BY <1>7 DEF AtRest
    <2>1. server[chatOf[u]].turns = <<>>
      BY <1>4, <1>5 DEF AtRest
    <2> QED BY <1>1, <1>4, <2>1, LastIsOwn
  <1>10. faults' \in faults .. MaxFaults
    BY <1>4, <1>5, Faulty
  <1> QED BY <1>3, <1>4, <1>7, <1>8, <1>9, <1>10, HandlerMoves DEF List

LEMMA HandlesKeep ==
    ASSUME ChainIInv, NEW u \in Updates,
           \/ HasSession(u) \/ NeedsSession(u) \/ WaitEnds(u)
           \/ WaitTimesOut(u) \/ List(u) \/ ReplyFails(u) \/ RenameFails(u)
           \/ CreateFails(u) /\ UNCHANGED <<created, lost, server>>
           \/ PostFails(u) /\ UNCHANGED <<server, posts>>
    PROVE  ChainIInv'
  <1>1. CASE HasSession(u)
    BY <1>1, GotoKeeps DEF HasSession
  <1>2. CASE NeedsSession(u)
    BY <1>2, GotoKeeps DEF NeedsSession
  <1>3. CASE CreateFails(u) /\ UNCHANGED <<created, lost, server>>
    BY <1>3, ApologizeKeeps DEF CreateFails, At
  <1>4. CASE WaitTimesOut(u) \/ RenameFails(u)
    BY <1>4, ApologizeKeeps DEF WaitTimesOut, RenameFails, At, limits
  <1>5. CASE ReplyFails(u)
    BY <1>5, ApologizeKeeps DEF ReplyFails, At
  <1>6. CASE PostFails(u) /\ UNCHANGED <<server, posts>>
    BY <1>6, ApologizeKeeps DEF PostFails, At
  <1> QED BY <1>1, <1>2, <1>3, <1>4, <1>5, <1>6, WaitEndsKeeps, ListKeeps

(* The handler of u is done: the next of its chat is first in the chain.    *)
LEMMA Unchained ==
    ASSUME PollInv, OrderInv, NEW u \in Updates, MyTurn(u),
           chain' = [chain EXCEPT ![chatOf[u]] = Among(@, Updates \ {u})]
    PROVE  /\ chain' \in [Chats -> Seq(Updates)] /\ \A c \in Chats : Rises(chain'[c])
           /\ \A c \in Chats : ToSet(chain'[c]) = ToSet(chain[c]) \ {u}
           /\ \A c \in Chats : c # chatOf[u] => chain'[c] = chain[c]
  <1>1. PICK c \in Chats : c = chatOf[u]
    BY Chatting
  <1>2. PICK s \in Seq(Updates) : s = chain[c] /\ Rises(s)
    BY <1>1 DEF OrderInv
  <1>3. PICK t : t = Among(s, Updates \ {u}) /\ RisingIn(t, Updates)
                 /\ ToSet(t) = ToSet(s) \cap (Updates \ {u})
    BY <1>2, Chatting, Picks
  <1>4. ToSet(t) = ToSet(s) \ {u}
    BY <1>2, <1>3, InSeq
  <1>5. \A d \in Chats : chain'[d] = IF d = c THEN t ELSE chain[d]
    BY <1>1, <1>2, <1>3 DEF OrderInv
  <1>6. chain' \in [Chats -> Seq(Updates)]
    BY <1>1, <1>2, <1>3 DEF OrderInv, RisingIn
  <1>7. \A d \in Chats : d # c => u \notin ToSet(chain[d])
    BY <1>1 DEF OrderInv
  <1>8. ASSUME NEW d \in Chats
        PROVE  Rises(chain'[d]) /\ ToSet(chain'[d]) = ToSet(chain[d]) \ {u}
    <2>1. CASE d = c
      BY <1>2, <1>3, <1>4, <1>5, <2>1 DEF RisingIn
    <2>2. CASE d # c
      <3>1. chain'[d] = chain[d] /\ u \notin ToSet(chain[d])
        BY <1>5, <1>7, <2>2
      <3>2. Rises(chain[d])
        BY DEF OrderInv
      <3> QED BY <3>1, <3>2
    <2> QED BY <2>1, <2>2
  <1> QED BY <1>1, <1>5, <1>6, <1>8

LEMMA ReturnKeeps ==
    ASSUME ChainIInv, NEW u \in Updates, up, MyTurn(u), NEW kind \in {"stale", "reply", "sorry"},
           NEW of \in Nat, Return(u, kind, of),
           UNCHANGED <<telegram, offset, up, known, files, server, created, posts, limits>>,
           crashes = 0 /\ handler[u].saw = "idle" /\ kind = "reply" =>
               Settled(server[chatOf[u]], u, of)
    PROVE  ChainIInv'
  <1>0. /\ PollInv /\ HandlerInv /\ OrderInv /\ SessionInv /\ FilesInv /\ ServerInv /\ TurnInv
        /\ UNCHANGED <<chatOf, sent, confirmed, tmp, disk, faults, crashes, lost>>
    BY DEF ChainIInv, telegram, files, limits
  <1>1. PICK saw \in Seen : saw = handler[u].saw
    BY <1>0 DEF HandlerInv, Handlers
  <1>2. /\ handler' = [handler EXCEPT ![u] = Idle]
        /\ told' = [told EXCEPT ![u] = [kind |-> kind, of |-> of, saw |-> saw]]
        /\ chain' = [chain EXCEPT ![chatOf[u]] = Among(@, Updates \ {u})]
    BY <1>1 DEF Return
  <1>3. Idle \in Handlers /\ Idle.pc = "idle" /\ ~Posting(Idle) /\ Idle.saw = "none"
        /\ Idle.text = NoRecords
    BY NoNumber DEF Idle, Handlers, Pcs, Seen, Posting
  <1>4. /\ handler' \in [Updates -> Handlers]
        /\ \A v \in Updates : handler'[v] = IF v = u THEN Idle ELSE handler[v]
    BY <1>0, <1>2, <1>3 DEF HandlerInv
  <1>5. /\ chain' \in [Chats -> Seq(Updates)] /\ \A c \in Chats : Rises(chain'[c])
        /\ \A c \in Chats : ToSet(chain'[c]) = ToSet(chain[c]) \ {u}
        /\ \A c \in Chats : c # chatOf[u] => chain'[c] = chain[c]
    BY <1>0, <1>2, Unchained
  <1>6. /\ told' \in [Updates -> Tellings]
        /\ \A v \in Updates : told'[v] = IF v = u THEN [kind |-> kind, of |-> of, saw |-> saw]
                                         ELSE told[v]
    BY <1>0, <1>2 DEF PollInv, Tellings
  <1>7. Updates' = Updates /\ \A v \in Updates : chatOf[v] \in Chats
    BY <1>0, Chatting DEF Updates
  <1>8. PollInv'
    BY <1>0, <1>6, <1>7 DEF PollInv
  <1>9. HandlerInv'
    <2>1. handler' \in [Updates -> Handlers]'
      BY <1>4, <1>7 DEF Handlers
    <2>2. \A v \in Updates : handler'[v].pc = "idle" <=> v \notin ToSet(chain'[chatOf[v]])
      BY <1>0, <1>3, <1>4, <1>5, <1>7 DEF HandlerInv
    <2>3. ASSUME NEW v \in Updates
          PROVE  /\ handler'[v].pc \in {"open", "write", "rename"} => handler'[v].then \in {"post", "reply"}
                 /\ handler'[v].pc \in {"write", "rename"} => handler'[v].fd # "none"
                 /\ Posting(handler'[v]) => handler'[v].saw = "none"
      BY <1>0, <1>3, <1>4 DEF HandlerInv
    <2> QED BY <1>0, <1>7, <2>1, <2>2, <2>3 DEF HandlerInv
  <1>10. OrderInv'
    <2>1. ASSUME NEW v \in Updates, handler'[v].pc \notin {"idle", "fresh"} PROVE MyTurn(v)'
      <3>1. v # u /\ handler[v].pc \notin {"idle", "fresh"}
        BY <1>3, <1>4, <2>1
      <3>2. MyTurn(v) /\ chatOf[v] # chatOf[u]
        BY <1>0, <3>1, OthersWait DEF OrderInv
      <3> QED BY <1>0, <1>5, <1>7, <3>2 DEF MyTurn
    <2>2. ASSUME NEW c \in Chats, NEW p \in ToSet(posts[c]), NEW v \in ToSet(chain'[c])
          PROVE  p <= v /\ (Posting(handler'[v]) => p < v)
      <3>1. v \in ToSet(chain[c]) /\ v # u /\ v \in Updates
        <4>1. chain[c] \in Seq(Updates)
          BY <1>0 DEF OrderInv
        <4> QED BY <1>5, <4>1, InSeq
      <3> QED BY <1>0, <1>4, <3>1 DEF OrderInv
    <2>3. /\ posts' = posts /\ posts \in [Chats -> Seq(Updates)] /\ offset' = offset
          /\ \A c \in Chats : Rises(posts[c])
          /\ \A c \in Chats : \A v \in ToSet(chain'[c]) \cup ToSet(posts[c]) :
                v <= offset /\ chatOf[v] = c
      BY <1>0, <1>5 DEF OrderInv
    <2> QED BY <1>0, <1>5, <1>7, <2>1, <2>2, <2>3 DEF OrderInv
  <1>11. SessionInv'
    <2>1. \A v \in Updates : handler'[v].pc = "create" => known[chatOf[v]] = 0
      BY <1>0, <1>3, <1>4 DEF SessionInv
    <2> QED BY <1>0, <2>1, Faulty, SessionKeeps
  <1>12. FilesInv'
    <2>1. Current(NoRecords)
      BY DEF Current, NoRecords
    <2>2. \A v \in Updates : Current(handler'[v].text)
      BY <1>0, <1>3, <1>4, <2>1 DEF FilesInv
    <2>3. \A v \in Updates : handler'[v].pc \in {"write", "rename"} =>
              handler[v].pc \in {"write", "rename"}
      BY <1>3, <1>4
    <2> QED BY <1>0, <2>2, <2>3, FilesKeeps
  <1>13. ServerInv'
    BY <1>0, <1>7 DEF ServerInv, Sessions
  <1>14. TurnInv'
    <2>1. u \in ToSet(chain[chatOf[u]]) /\ u <= offset /\ u \in Nat /\ offset \in Nat
      BY <1>0, OnTurn, Chatting DEF PollInv
    <2>2. \A v \in Updates : v > offset \/ v \in ToSet(chain'[chatOf[v]]) => told'[v] = Untold
      <3> SUFFICES ASSUME NEW v \in Updates, v > offset \/ v \in ToSet(chain'[chatOf[v]])
                   PROVE  told'[v] = Untold
        OBVIOUS
      <3>1. ToSet(chain'[chatOf[v]]) = ToSet(chain[chatOf[v]]) \ {u}
        BY <1>5, <1>7
      <3>2. v # u
        BY <2>1, <3>1
      <3>3. v > offset \/ v \in ToSet(chain[chatOf[v]])
        BY <3>1
      <3>4. told[v] = Untold
        BY <1>0, <3>3 DEF TurnInv
      <3> QED BY <1>6, <3>2, <3>4
    <2>3. ASSUME crashes = 0, NEW v \in Updates
          PROVE  AtRest(server[chatOf[v]], v, handler'[v])
                 /\ ToldOwn(server[chatOf[v]], v, told'[v])
      <3>1. CASE v = u
        <4>1. AtRest(server[chatOf[v]], v, handler'[v])
          BY <1>3, <1>4, <3>1 DEF AtRest
        <4>2. told'[v].saw = saw /\ told'[v].kind = kind /\ told'[v].of = of
          BY <1>6, <3>1
        <4> QED BY <1>1, <2>3, <3>1, <4>1, <4>2 DEF ToldOwn
      <3>2. CASE v # u
        BY <1>0, <1>4, <1>6, <2>3, <3>2 DEF TurnInv
      <3> QED BY <3>1, <3>2
    <2> QED BY <1>0, <1>7, <2>2, <2>3 DEF TurnInv
  <1> QED BY <1>8, <1>9, <1>10, <1>11, <1>12, <1>13, <1>14 DEF ChainIInv

LEMMA ReturnsKeep ==
    ASSUME ChainIInv, NEW u \in Updates, TooOld(u) \/ Reply(u) \/ Sorry(u) PROVE ChainIInv'
  <1>1. CASE TooOld(u)
    BY <1>1, ReturnKeeps DEF TooOld, At
  <1>2. CASE Sorry(u)
    BY <1>2, ReturnKeeps DEF Sorry, At
  <1>3. CASE Reply(u)
    <2>1. /\ up /\ MyTurn(u) /\ handler[u].pc = "reply"
          /\ UNCHANGED <<telegram, offset, up, known, files, server, created, posts, limits>>
      BY <1>3 DEF Reply, At
    <2>2. PICK r \in Nat : r = handler[u].reply
      BY HereIs DEF Handlers
    <2>3. Return(u, "reply", r)
      BY <1>3, <2>2 DEF Reply
    <2>4. crashes = 0 /\ handler[u].saw = "idle" => Settled(server[chatOf[u]], u, r)
      BY <2>1, <2>2, HereIs DEF AtRest
    <2> QED BY <2>1, <2>3, <2>4, ReturnKeeps
  <1> QED BY <1>1, <1>2, <1>3

(* The server has a new session for a chat: no turn of it is under way and  *)
(* none has ended.                                                          *)
LEMMA NewSessionKeeps ==
    ASSUME ServerInv, TurnInv, NEW u \in Updates, NEW c \in Chats, c = chatOf[u],
           Updates' = Updates, \A v \in Updates : chatOf[v] \in Chats, NEW h,
           \A v \in Updates : handler'[v] = IF v = u THEN h ELSE handler[v],
           server' = [server EXCEPT ![c] = NoSession],
           UNCHANGED <<chatOf, offset, chain, told, posts, crashes>>
    PROVE  ServerInv' /\ TurnInv'
  <1>1. /\ NoSession \in Sessions /\ NoSession.turns = <<>> /\ NoSession.log = <<>>
        /\ NoSession.status = "idle"
    BY NoNumbers DEF NoSession, Sessions
  <1>2. /\ server' \in [Chats -> Sessions]
        /\ \A d \in Chats : server'[d] = IF d = c THEN NoSession ELSE server[d]
    BY <1>1 DEF ServerInv
  <1>3. ServerInv'
    <2>1. \A d \in Chats : server'[d].turns # <<>> <=> server'[d].status \in {"starting", "running"}
      BY <1>1, <1>2 DEF ServerInv
    <2> QED BY <1>2, <2>1 DEF ServerInv, Sessions
  <1>4. TurnInv'
    <2>1. \A v : \A r : Settled(NoSession, v, r)
      BY <1>1, NoNumbers DEF Settled
    <2>2. \A s : TurnsInOrder(NoSession, s)
      BY <1>1, NoNumbers DEF TurnsInOrder
    <2>3. crashes = 0 => \A d \in Chats : TurnsInOrder(server'[d], posts[d])
      BY <1>2, <2>2 DEF TurnInv
    <2>4. ASSUME crashes = 0, NEW v \in Updates
          PROVE  AtRest(server'[chatOf[v]], v, handler'[v])
                 /\ ToldOwn(server'[chatOf[v]], v, told[v])
      <3>1. CASE chatOf[v] = c
        <4>1. server'[chatOf[v]] = NoSession
          BY <1>2, <3>1
        <4> QED BY <1>1, <2>1, <4>1 DEF AtRest, ToldOwn
      <3>2. CASE chatOf[v] # c
        <4>1. server'[chatOf[v]] = server[chatOf[v]] /\ handler'[v] = handler[v]
          BY <1>2, <3>2
        <4> QED BY <2>4, <4>1 DEF TurnInv
      <3> QED BY <3>1, <3>2
    <2> QED BY <2>3, <2>4 DEF TurnInv
  <1> QED BY <1>3, <1>4

(* A session is created: it is the chat's, in memory and at the server.     *)
LEMMA CreateSessionKeeps == ASSUME ChainIInv, NEW u \in Updates, CreateSession(u) PROVE ChainIInv'
  <1>0. /\ PollInv /\ HandlerInv /\ OrderInv /\ SessionInv /\ FilesInv /\ ServerInv /\ TurnInv
        /\ UNCHANGED <<chatOf, sent, confirmed, tmp, disk, faults, crashes, lost>>
        /\ UNCHANGED <<telegram, offset, up, chain, files, posts, told, limits>>
        /\ up /\ MyTurn(u) /\ handler[u].pc = "create"
    BY DEF ChainIInv, CreateSession, At, telegram, files, limits
  <1>1. PICK c \in Chats : c = chatOf[u]
    BY <1>0, Chatting
  <1>2. PICK g \in Nat : /\ g = created[c] + 1 /\ created[c] \in Nat
                        /\ created[c] <= crashes + lost[c]
    BY <1>0, <1>1 DEF SessionInv
  <1>3. /\ created' = [created EXCEPT ![c] = g] /\ known' = [known EXCEPT ![c] = g]
        /\ server' = [server EXCEPT ![c] = NoSession]
    BY <1>0, <1>1, <1>2 DEF CreateSession, SessionInv
  <1>4. PICK k : k = known'
    OBVIOUS
  <1>5. PICK h : h = [handler[u] EXCEPT !.pc = "open", !.then = "post", !.text = k]
    OBVIOUS
  <1>6. handler' = [handler EXCEPT ![u] = h]
    <2>1. handler' = [handler EXCEPT ![u].pc = "open", ![u].then = "post", ![u].text = k]
      <3>1. Save(u, known', "post")
        BY DEF CreateSession
      <3> QED BY <1>4, <3>1 DEF Save
    <2> QED BY <1>5, <2>1
  <1>7. g \in Generations /\ g > 0 /\ g <= 1 + crashes + lost[c]
    <2>1. /\ crashes \in Nat /\ faults \in Nat /\ faults <= MaxFaults /\ MaxFaults \in Nat
          /\ lost[c] \in Nat /\ crashes + lost[c] <= faults
      BY <1>0, TelegramAssumption DEF PollInv, SessionInv, LostInv
    <2> QED BY <1>2, <2>1 DEF Generations
  <1>8. /\ known' \in Records /\ created' \in [Chats -> Nat]
        /\ \A d \in Chats : known'[d] = (IF d = c THEN g ELSE known[d])
        /\ \A d \in Chats : created'[d] = (IF d = c THEN g ELSE created[d])
        /\ known[c] = 0 /\ \A d \in Chats : known[d] \in {0, created[d]}
    BY <1>0, <1>1, <1>3, <1>7 DEF SessionInv, Records
  <1>9. /\ h \in Handlers /\ h.pc = "open" /\ h.then = "post" /\ h.text = k /\ h.saw = "none"
    <2>1. handler[u] \in Handlers /\ handler[u].saw = "none"
      BY <1>0 DEF HandlerInv, Posting
    <2> QED BY <1>4, <1>5, <1>8, <2>1 DEF Handlers, Pcs
  <1>10. Fits(u, h)
    BY <1>0, <1>9 DEF Fits, Posting
  <1>11. /\ HandlerInv' /\ \A v \in Updates : handler'[v] = IF v = u THEN h ELSE handler[v]
         /\ \A v \in Updates : handler'[v].pc \in {"idle", "fresh"} \/ MyTurn(v)
         /\ \A v \in Updates : Posting(handler'[v]) => Posting(handler[v])
    BY <1>0, <1>6, <1>9, <1>10, HandlerKeeps
  <1>12. OrderInv' /\ PollInv'
    <2>1. PollInv'
      <3>1. faults' \in faults .. MaxFaults
        BY <1>0, Faulty
      <3> QED BY <1>0, <3>1, PollKeeps
    <2> QED BY <1>0, <1>11, <2>1, OrderKeeps
  <1>13. Updates' = Updates /\ \A v \in Updates : chatOf[v] \in Chats
    BY <1>0, Chatting DEF Updates
  <1>14. SessionInv'
    <2>1. \A d \in Chats : known'[d] \in {0, created'[d]}
      BY <1>8
    <2>2. /\ \A d \in Chats : created'[d] <= 1 + crashes + lost[d]
          /\ \A d \in Chats : known'[d] = 0 => created'[d] <= crashes + lost[d]
      BY <1>0, <1>7, <1>8 DEF SessionInv
    <2>3. ASSUME NEW v \in Updates, handler'[v].pc = "create" PROVE known'[chatOf[v]] = 0
      <3>1. v # u /\ handler[v].pc = "create"
        BY <1>9, <1>11, <2>3
      <3>2. chatOf[v] # c
        BY <1>0, <1>1, <3>1, OthersWait
      <3> QED BY <1>0, <1>8, <1>13, <3>1, <3>2 DEF SessionInv
    <2>4. LostInv'
      BY <1>0, Faulty, LostKeeps DEF SessionInv
    <2> QED BY <1>0, <1>8, <1>13, <2>1, <2>2, <2>3, <2>4 DEF SessionInv
  <1>15. FilesInv'
    <2>1. \A f \in disk : Current(f.records)' /\ \A d \in Chats : f.records[d] \in {0, created'[d]}
      <3>1. \A f \in disk : Current(f.records)
        BY <1>0 DEF FilesInv
      <3>2. \A f \in disk : Current(f.records)'
        BY <1>8, <3>1 DEF Current
      <3> QED BY <1>8, <3>2 DEF Current
    <2>2. Current(k)'
      BY <1>4 DEF Current
    <2>3. \A v \in Updates : Current(handler[v].text)'
      <3>1. \A v \in Updates : Current(handler[v].text)
        BY <1>0 DEF FilesInv
      <3>2. \A v \in Updates : \A d \in Chats : handler[v].text[d] \in {0, known'[d]}
        BY <1>8, <3>1 DEF Current
      <3>3. \A v \in Updates : \A d \in Chats : handler'[v].text[d] \in {0, known'[d]}
        BY <1>9, <1>11, <2>2, <3>2 DEF Current
      <3> QED BY <3>3 DEF Current
    <2>4. (\E v \in Updates : handler'[v].pc \in {"write", "rename"}) =>
              \A f \in tmp : Current(f.records)'
      <3>1. (\E v \in Updates : handler'[v].pc \in {"write", "rename"}) =>
                \A f \in tmp : Current(f.records)
        BY <1>0, <1>9, <1>11 DEF FilesInv
      <3> QED BY <1>8, <3>1 DEF Current
    <2> QED BY <1>0, <1>13, <2>1, <2>3, <2>4 DEF FilesInv, Records
  <1>16. ServerInv' /\ TurnInv'
    BY <1>0, <1>1, <1>3, <1>11, <1>13, NewSessionKeeps
  <1> QED BY <1>11, <1>12, <1>14, <1>15, <1>16 DEF ChainIInv

(* A session is created and its answer is lost: it is at the server, and    *)
(* the chat still knows of none.                                            *)
LEMMA LostCreateKeeps ==
    ASSUME ChainIInv, NEW u \in Updates, CreateFails(u), ~UNCHANGED <<created, lost, server>>
    PROVE  ChainIInv'
  <1>0. /\ PollInv /\ HandlerInv /\ OrderInv /\ SessionInv /\ FilesInv /\ ServerInv /\ TurnInv
        /\ UNCHANGED <<chatOf, sent, confirmed, tmp, disk, crashes>>
        /\ UNCHANGED <<telegram, offset, up, chain, known, files, posts, told>>
        /\ up /\ MyTurn(u) /\ handler[u].pc = "create" /\ Fault
    BY DEF ChainIInv, CreateFails, At, telegram, files
  <1>1. PICK c \in Chats : c = chatOf[u]
    BY <1>0, Chatting
  <1>2. PICK g \in Nat, l \in Nat : /\ g = created[c] + 1 /\ l = lost[c] + 1
                                    /\ g <= crashes + l /\ crashes + l <= faults + 1
                                    /\ known[c] = 0 /\ created[c] \in Nat /\ lost[c] \in Nat
    <2>1. /\ created[c] \in Nat /\ lost[c] \in Nat /\ crashes + lost[c] <= faults
          /\ created[c] <= crashes + lost[c] /\ known[c] = 0
      BY <1>0, <1>1 DEF SessionInv, LostInv
    <2>2. crashes \in Nat /\ faults \in Nat
      BY <1>0, TelegramAssumption DEF PollInv
    <2> QED BY <2>1, <2>2
  <1>3. /\ created' = [created EXCEPT ![c] = g] /\ lost' = [lost EXCEPT ![c] = l]
        /\ server' = [server EXCEPT ![c] = NoSession]
    BY <1>1, <1>2 DEF CreateFails
  <1>4. /\ created' \in [Chats -> Nat] /\ lost' \in [Chats -> Nat] /\ known \in Records
        /\ \A d \in Chats : created'[d] = IF d = c THEN g ELSE created[d]
        /\ \A d \in Chats : lost'[d] = IF d = c THEN l ELSE lost[d]
    BY <1>0, <1>3 DEF SessionInv, LostInv
  <1>5. faults' = faults + 1 /\ faults' \in faults .. MaxFaults /\ faults \in Nat
    BY <1>0, Faulty, TelegramAssumption DEF Fault, PollInv
  <1>6. PICK h : h = [Idle EXCEPT !.pc = "sorry"]
    OBVIOUS
  <1>7. h = [pc |-> "sorry", then |-> "idle", fd |-> "none", text |-> NoRecords, saw |-> "none",
             reply |-> 0]
    BY <1>6 DEF Idle
  <1>8. h \in Handlers /\ Fits(u, h) /\ handler' = [handler EXCEPT ![u] = h]
    <2>1. h \in Handlers
      BY <1>7, NoNumber DEF Handlers, Pcs, Seen
    <2>2. Fits(u, h)
      BY <1>7 DEF Fits, Posting
    <2>3. handler' = [handler EXCEPT ![u] = h]
      BY <1>6 DEF CreateFails, Apologize
    <2> QED BY <2>1, <2>2, <2>3
  <1>9. /\ HandlerInv' /\ \A v \in Updates : handler'[v] = IF v = u THEN h ELSE handler[v]
        /\ \A v \in Updates : handler'[v].pc \in {"idle", "fresh"} \/ MyTurn(v)
        /\ \A v \in Updates : Posting(handler'[v]) => Posting(handler[v])
    BY <1>0, <1>8, HandlerKeeps
  <1>10. OrderInv' /\ PollInv'
    <2>1. PollInv'
      <3>1. faults' \in 0 .. MaxFaults /\ crashes' \in 0 .. faults'
        BY <1>0, <1>5, TelegramAssumption DEF PollInv
      <3> QED BY <1>0, <3>1 DEF PollInv, Updates
    <2> QED BY <1>0, <1>9, <2>1, OrderKeeps
  <1>11. Updates' = Updates /\ \A v \in Updates : chatOf[v] \in Chats
    BY <1>0, Chatting DEF Updates
  <1>12. SessionInv'
    <2>1. \A d \in Chats : known[d] \in {0, created'[d]}
      BY <1>0, <1>2, <1>4 DEF SessionInv
    <2>2. ASSUME NEW d \in Chats
          PROVE  /\ created'[d] <= 1 + crashes + lost'[d] /\ crashes + lost'[d] <= faults'
                 /\ known[d] = 0 => created'[d] <= crashes + lost'[d]
      <3>1. CASE d = c
        BY <1>0, <1>2, <1>4, <1>5, <3>1 DEF PollInv
      <3>2. CASE d # c
        <4>1. /\ created'[d] = created[d] /\ lost'[d] = lost[d] /\ lost[d] \in Nat
              /\ created[d] <= 1 + crashes + lost[d] /\ crashes + lost[d] <= faults
              /\ known[d] = 0 => created[d] <= crashes + lost[d]
          BY <1>0, <1>4, <3>2 DEF SessionInv, LostInv
        <4>2. crashes \in Nat
          BY <1>0, <1>5 DEF PollInv
        <4> QED BY <1>5, <4>1, <4>2
      <3> QED BY <3>1, <3>2
    <2>3. \A v \in Updates : handler'[v].pc = "create" => known[chatOf[v]] = 0
      BY <1>0, <1>7, <1>9 DEF SessionInv
    <2>4. LostInv'
      BY <1>0, <1>4, <2>2 DEF LostInv
    <2> QED BY <1>0, <1>4, <1>11, <2>1, <2>2, <2>3, <2>4 DEF SessionInv
  <1>13. FilesInv'
    <2>1. \A r : Current(r)' <=> Current(r)
      BY <1>0 DEF Current
    <2>2. \A f \in disk : \A d \in Chats : f.records[d] \in {0, created'[d]}
      BY <1>0, <1>2, <1>4 DEF FilesInv, Current
    <2>3. \A v \in Updates : Current(handler'[v].text)
      BY <1>0, <1>7, <1>9, HereIs DEF FilesInv
    <2>4. \A v \in Updates : handler'[v].pc \in {"write", "rename"} =>
              handler[v].pc \in {"write", "rename"}
      BY <1>7, <1>9
    <2> QED BY <1>0, <1>11, <2>1, <2>2, <2>3, <2>4 DEF FilesInv
  <1>14. ServerInv' /\ TurnInv'
    BY <1>0, <1>1, <1>3, <1>9, <1>11, NewSessionKeeps
  <1> QED BY <1>9, <1>10, <1>12, <1>13, <1>14 DEF ChainIInv

(* The orchestrator accepts an update: it is later than all that was        *)
(* posted, and than none that is still to be.                               *)
LEMMA AcceptedKeeps ==
    ASSUME ChainIInv, NEW u \in Updates, At(u, "post"), Accepted(u),
           NEW h \in Handlers, handler' = [handler EXCEPT ![u] = h],
           h.pc \in {"wait", "sorry"}, h.saw = "none", Current(h.text),
           UNCHANGED <<telegram, offset, up, chain, known, files, created, told, crashes, lost>>,
           faults' \in faults .. MaxFaults
    PROVE  ChainIInv'
  <1>0. /\ PollInv /\ HandlerInv /\ OrderInv /\ SessionInv /\ FilesInv /\ ServerInv /\ TurnInv
        /\ UNCHANGED <<chatOf, sent, confirmed, tmp, disk>>
        /\ up /\ MyTurn(u) /\ handler[u].pc = "post"
    BY DEF ChainIInv, At, telegram, files
  <1>1. PICK c \in Chats : c = chatOf[u]
    BY <1>0, Chatting
  <1>2. PICK s \in Sessions, p \in Seq(Updates) : s = server[c] /\ p = posts[c] /\ Rises(p)
    BY <1>0, <1>1 DEF ServerInv, OrderInv
  <1>3. PICK t : t = [s EXCEPT !.turns = Append(s.turns, u),
                               !.status = IF s.turns = <<>> THEN "starting" ELSE s.status]
    OBVIOUS
  <1>4. server' = [server EXCEPT ![c] = t] /\ posts' = [posts EXCEPT ![c] = Append(p, u)]
    <2>1. /\ server' = [server EXCEPT ![c].turns = Append(@, u),
                                      ![c].status = IF server[c].turns = <<>> THEN "starting" ELSE @]
          /\ posts' = [posts EXCEPT ![c] = Append(@, u)]
      BY <1>1 DEF Accepted
    <2> QED BY <1>2, <1>3, <2>1
  <1>5. Updates' = Updates /\ Updates \in SUBSET Nat /\ \A v \in Updates : chatOf[v] \in Chats
    BY <1>0, Chatting DEF Updates
  <1>6. /\ u \in ToSet(chain[c]) /\ u <= offset /\ ToSet(chain[c]) \subseteq Updates
        /\ \A v \in ToSet(chain[c]) \ {u} : u < v
    BY <1>0, <1>1, OnTurn
  <1>7. /\ \A x \in ToSet(p) : x < u
        /\ Append(p, u) \in Seq(Updates) /\ ToSet(Append(p, u)) = ToSet(p) \cup {u}
        /\ Rises(Append(p, u))
    <2>1. \A x \in ToSet(p) : x < u
      BY <1>0, <1>1, <1>2, <1>6 DEF OrderInv, Posting
    <2>2. Append(p, u) \in Seq(Updates) /\ Longer(Append(p, u), p, u)
      BY AppendIs
    <2>3. Rises(Append(p, u))
      BY <1>2, <1>5, <2>1, RisesMore
    <2> QED BY <2>1, <2>2, <2>3 DEF Longer
  <1>8. /\ Append(s.turns, u) \in Seq(Updates) /\ Append(s.turns, u) # <<>>
        /\ ToSet(Append(s.turns, u)) = ToSet(s.turns) \cup {u}
        /\ t.turns = Append(s.turns, u) /\ t.log = s.log /\ t \in Sessions
        /\ t.status \in {"starting", "running"}
    <2>1. s.turns \in Seq(Updates)
      BY DEF Sessions
    <2>2. Append(s.turns, u) \in Seq(Updates) /\ Longer(Append(s.turns, u), s.turns, u)
      BY <2>1, AppendIs
    <2>3. Append(s.turns, u) # <<>>
      BY <2>1
    <2>4. s.turns # <<>> => s.status \in {"starting", "running"}
      BY <1>0, <1>2 DEF ServerInv
    <2> QED BY <1>3, <2>2, <2>3, <2>4 DEF Longer, Sessions
  <1>9. Fits(u, h)
    BY <1>0 DEF Fits, Posting
  <1>10. /\ HandlerInv' /\ \A v \in Updates : handler'[v] = IF v = u THEN h ELSE handler[v]
         /\ \A v \in Updates : handler'[v].pc \in {"idle", "fresh"} \/ MyTurn(v)
    BY <1>0, <1>9, HandlerKeeps
  <1>11. PollInv'
    BY <1>0, PollKeeps
  <1>12. \A d \in Chats : posts'[d] = (IF d = c THEN Append(p, u) ELSE posts[d])
         /\ posts' \in [Chats -> Seq(Updates)]
    BY <1>0, <1>4, <1>7 DEF OrderInv
  <1>13. OrderInv'
    <2>1. \A v \in Updates : MyTurn(v)' <=> MyTurn(v)
      BY <1>0 DEF MyTurn
    <2>2. \A d \in Chats : Rises(chain[d]) /\ Rises(posts'[d])
      BY <1>0, <1>7, <1>12 DEF OrderInv
    <2>3. \A d \in Chats : \A v \in ToSet(chain[d]) \cup ToSet(posts'[d]) :
              v <= offset /\ chatOf[v] = d
      <3>1. \A d \in Chats : \A v \in ToSet(chain[d]) \cup ToSet(posts[d]) :
                v <= offset /\ chatOf[v] = d
        BY <1>0 DEF OrderInv
      <3> QED BY <1>1, <1>2, <1>6, <1>7, <1>12, <3>1
    <2>4. ASSUME NEW d \in Chats, NEW x \in ToSet(posts'[d]), NEW v \in ToSet(chain[d])
          PROVE  x <= v /\ (Posting(handler'[v]) => x < v)
      <3>0. v \in Updates
        <4>1. chain[d] \in Seq(Updates)
          BY <1>0 DEF OrderInv
        <4> QED BY <4>1, InSeq
      <3>1. CASE v = u
        <4>1. d = c /\ ~Posting(handler'[v])
          BY <1>0, <1>1, <1>10, <3>1 DEF OrderInv, Posting
        <4>2. x = u \/ x < u
          BY <1>7, <1>12, <4>1
        <4>3. x \in Nat
          BY <1>2, <1>5, <1>7, <1>12, <4>1, InSeq
        <4> QED BY <1>5, <3>1, <4>1, <4>2, <4>3
      <3>2. CASE v # u /\ x \in ToSet(posts[d])
        BY <1>0, <1>10, <3>0, <3>2 DEF OrderInv
      <3>3. CASE v # u /\ x \notin ToSet(posts[d])
        <4>1. d = c /\ x = u
          BY <1>2, <1>7, <1>12, <3>3
        <4> QED BY <1>5, <1>6, <3>0, <3>3, <4>1
      <3> QED BY <3>1, <3>2, <3>3
    <2>5. chain' = chain /\ chain \in [Chats -> Seq(Updates)] /\ offset' = offset
      BY <1>0 DEF OrderInv
    <2> QED BY <1>0, <1>5, <1>10, <1>12, <2>1, <2>2, <2>3, <2>4, <2>5 DEF OrderInv
  <1>14. SessionInv'
    <2>1. \A v \in Updates : handler'[v].pc = "create" => known[chatOf[v]] = 0
      BY <1>0, <1>10 DEF SessionInv
    <2> QED BY <1>0, <2>1, Faulty, SessionKeeps
  <1>15. FilesInv'
    <2>1. \A v \in Updates : Current(handler'[v].text)
      BY <1>0, <1>10 DEF FilesInv
    <2>2. \A v \in Updates : handler'[v].pc \in {"write", "rename"} =>
              handler[v].pc \in {"write", "rename"}
      BY <1>10
    <2> QED BY <1>0, <2>1, <2>2, FilesKeeps
  <1>16. /\ server' \in [Chats -> Sessions]
         /\ \A d \in Chats : server'[d] = IF d = c THEN t ELSE server[d]
    BY <1>0, <1>4, <1>8 DEF ServerInv
  <1>17. ServerInv'
    <2>1. \A d \in Chats : server'[d].turns # <<>> <=> server'[d].status \in {"starting", "running"}
      BY <1>0, <1>8, <1>16 DEF ServerInv
    <2> QED BY <1>5, <1>16, <2>1 DEF ServerInv, Sessions
  <1>18. TurnInv'
    <2>1. ASSUME crashes = 0 PROVE TurnsInOrder(t, Append(p, u))
      <3>1. TurnsInOrder(s, p)
        BY <1>0, <1>2, <2>1 DEF TurnInv
      <3>2. s.turns \in Seq(Updates) /\ \A x \in ToSet(s.turns) : x < u
        BY <1>7, <3>1 DEF TurnsInOrder, Sessions
      <3>3. Rises(Append(s.turns, u))
        BY <1>5, <3>1, <3>2, RisesMore DEF TurnsInOrder
      <3> QED BY <1>7, <1>8, <3>1, <3>3 DEF TurnsInOrder
    <2>2. crashes = 0 => \A d \in Chats : TurnsInOrder(server'[d], posts'[d])
      BY <1>0, <1>12, <1>16, <2>1 DEF TurnInv
    <2>3. ASSUME crashes = 0, NEW v \in Updates
          PROVE  AtRest(server'[chatOf[v]], v, handler'[v])
                 /\ ToldOwn(server'[chatOf[v]], v, told[v])
      <3>0. AtRest(server[chatOf[v]], v, handler[v]) /\ ToldOwn(server[chatOf[v]], v, told[v])
        BY <1>0, <2>3 DEF TurnInv
      <3>1. CASE v = u
        <4>1. told[v] = Untold
          BY <1>0, <1>1, <1>6, <3>1 DEF TurnInv
        <4> QED BY <1>10, <3>1, <4>1 DEF AtRest, ToldOwn, Untold
      <3>2. CASE v # u /\ chatOf[v] = c
        <4>1. handler'[v] = handler[v] /\ handler[v].pc \in {"idle", "fresh"}
              /\ server'[chatOf[v]] = t /\ server[chatOf[v]] = s
          BY <1>0, <1>1, <1>2, <1>10, <1>16, <3>2, OthersWait
        <4>2. \A r : Settled(s, v, r) => Settled(t, v, r)
          BY <1>8, <3>2 DEF Settled
        <4> QED BY <3>0, <4>1, <4>2 DEF AtRest, ToldOwn
      <3>3. CASE chatOf[v] # c
        <4>1. server'[chatOf[v]] = server[chatOf[v]] /\ handler'[v] = handler[v]
          BY <1>1, <1>5, <1>10, <1>16, <3>3
        <4> QED BY <3>0, <4>1
      <3> QED BY <3>1, <3>2, <3>3
    <2> QED BY <1>0, <1>5, <2>2, <2>3 DEF TurnInv
  <1> QED BY <1>10, <1>11, <1>13, <1>14, <1>15, <1>17, <1>18 DEF ChainIInv

LEMMA PostsKeep ==
    ASSUME ChainIInv, NEW u \in Updates, Post(u) \/ (PostFails(u) /\ Accepted(u))
    PROVE  ChainIInv'
  <1>0. PollInv /\ handler[u] \in Handlers /\ Current(handler[u].text) /\ Current(NoRecords)
    BY HereIs
  <1>1. CASE Post(u)
    <2>1. PICK h : h = [handler[u] EXCEPT !.pc = "wait"]
      OBVIOUS
    <2>2. At(u, "post") /\ Accepted(u) /\ handler' = [handler EXCEPT ![u] = h]
      BY <1>1, <2>1 DEF Post, Goto
    <2>3. handler[u].saw = "none"
      BY <2>2, HereIs DEF At, Posting
    <2>4. h \in Handlers /\ h.pc = "wait" /\ h.saw = "none" /\ Current(h.text)
      BY <1>0, <2>1, <2>3 DEF Handlers, Pcs
    <2>5. UNCHANGED <<telegram, offset, up, chain, known, files, created, told, crashes, lost, faults>>
      BY <1>1 DEF Post, limits
    <2>6. faults' \in faults .. MaxFaults
      BY <1>0, <2>5, Faulty
    <2> QED BY <2>2, <2>4, <2>5, <2>6, AcceptedKeeps
  <1>2. CASE PostFails(u) /\ Accepted(u)
    <2>1. PICK h : h = [Idle EXCEPT !.pc = "sorry"]
      OBVIOUS
    <2>2. At(u, "post") /\ Accepted(u) /\ handler' = [handler EXCEPT ![u] = h] /\ Fault
      BY <1>2, <2>1 DEF PostFails, Apologize
    <2>3. h = [pc |-> "sorry", then |-> "idle", fd |-> "none", text |-> NoRecords, saw |-> "none",
               reply |-> 0]
      BY <2>1 DEF Idle
    <2>4. h \in Handlers /\ h.pc = "sorry" /\ h.saw = "none" /\ Current(h.text)
      BY <1>0, <2>3, NoNumber DEF Handlers, Pcs, Seen
    <2>5. UNCHANGED <<telegram, offset, up, chain, known, files, created, told, crashes, lost>>
      BY <1>2 DEF PostFails
    <2>6. faults' \in faults .. MaxFaults
      BY <1>0, <2>2, Faulty
    <2> QED BY <2>2, <2>4, <2>5, <2>6, AcceptedKeeps
  <1> QED BY <1>1, <1>2

----------------------------------------------------------------------------
(* The storage: what is written is known, whoever's descriptor it is.       *)
LEMMA StorageMoves ==
    ASSUME ChainIInv, NEW u \in Updates, up, MyTurn(u), handler[u].pc \in {"open", "write"},
           NEW pc \in {"write", "rename"}, NEW fd \in {"tmp", "disk", "gone"},
           handler' = [handler EXCEPT ![u] = [handler[u] EXCEPT !.pc = pc, !.fd = fd]],
           UNCHANGED <<telegram, offset, up, chain, known, server, created, posts, told, limits>>
    PROVE  /\ PollInv' /\ HandlerInv' /\ OrderInv' /\ SessionInv' /\ ServerInv' /\ TurnInv'
           /\ Updates' = Updates /\ \A v \in Updates : handler'[v].text = handler[v].text
           /\ \A v \in Updates : handler'[v].pc \in {"write", "rename"} =>
                  v = u \/ handler[v].pc \in {"write", "rename"}
  <1>0. /\ PollInv /\ HandlerInv /\ OrderInv /\ SessionInv /\ FilesInv /\ ServerInv /\ TurnInv
        /\ UNCHANGED <<chatOf, sent, confirmed, faults, crashes, lost>>
    BY DEF ChainIInv, telegram, limits
  <1>1. PICK h : h = [handler[u] EXCEPT !.pc = pc, !.fd = fd]
    OBVIOUS
  <1>2. handler' = [handler EXCEPT ![u] = h]
    BY <1>1
  <1>3. /\ handler[u] \in Handlers /\ handler[u].then \in {"post", "reply"}
        /\ Posting(handler[u]) => handler[u].saw = "none"
    BY <1>0 DEF HandlerInv
  <1>4. /\ h \in Handlers /\ h.pc = pc /\ h.fd = fd /\ h.then = handler[u].then
        /\ h.saw = handler[u].saw /\ h.text = handler[u].text /\ h.reply = handler[u].reply
    BY <1>1, <1>3 DEF Handlers, Pcs
  <1>5. Fits(u, h)
    BY <1>3, <1>4 DEF Fits, Posting
  <1>6. /\ HandlerInv' /\ \A v \in Updates : handler'[v] = IF v = u THEN h ELSE handler[v]
        /\ \A v \in Updates : handler'[v].pc \in {"idle", "fresh"} \/ MyTurn(v)
        /\ \A v \in Updates : Posting(handler'[v]) => Posting(handler[v])
    BY <1>0, <1>2, <1>4, <1>5, HandlerKeeps
  <1>7. PollInv'
    <2>1. faults' \in faults .. MaxFaults
      BY <1>0, Faulty
    <2> QED BY <1>0, <2>1, PollKeeps
  <1>8. OrderInv'
    BY <1>0, <1>6, OrderKeeps
  <1>9. SessionInv'
    <2>1. \A v \in Updates : handler'[v].pc = "create" => known[chatOf[v]] = 0
      BY <1>0, <1>4, <1>6 DEF SessionInv
    <2> QED BY <1>0, <2>1, Faulty, SessionKeeps
  <1>10. ServerInv' /\ TurnInv'
    <2>1. crashes = 0 => \A v \in Updates : AtRest(server[chatOf[v]], v, handler'[v])
      BY <1>0, <1>4, <1>6 DEF TurnInv, AtRest
    <2> QED BY <1>0, <2>1, TurnKeeps
  <1> QED BY <1>0, <1>4, <1>6, <1>7, <1>8, <1>9, <1>10 DEF Updates

LEMMA OpenTmpKeeps == ASSUME ChainIInv, NEW u \in Updates, OpenTmp(u) PROVE ChainIInv'
  <1>1. /\ up /\ MyTurn(u) /\ handler[u].pc = "open" /\ tmp' = {File(NoRecords, 0)}
        /\ handler' = [handler EXCEPT ![u] = [handler[u] EXCEPT !.pc = "write", !.fd = "tmp"]]
        /\ UNCHANGED <<telegram, offset, up, chain, known, disk, server, created, posts, told,
                       limits>>
    BY DEF OpenTmp, At
  <1>2. /\ PollInv' /\ HandlerInv' /\ OrderInv' /\ SessionInv' /\ ServerInv' /\ TurnInv'
        /\ Updates' = Updates /\ \A v \in Updates : handler'[v].text = handler[v].text
    BY <1>1, StorageMoves
  <1>3. FilesInv'
    <2>1. FilesInv /\ (\A r : Current(r) <=> \A c \in Chats : r[c] \in {0, known[c]})
      BY DEF ChainIInv, Current
    <2>2. \A f \in tmp' : f.records = NoRecords
      BY <1>1 DEF File
    <2>3. \A f \in tmp' : Current(f.records)' /\ f.records \in Records
      BY <1>1, <2>2, NoNumber DEF Current, NoRecords
    <2>4. \A f, g \in tmp' : f = g
      BY <1>1
    <2>5. \A v \in Updates : Current(handler[v].text)'
      BY <1>1, <1>2, <2>1 DEF FilesInv, Current
    <2>6. up' => \A f \in disk : Current(f.records)'
      BY <1>1, <2>1 DEF FilesInv, Current
    <2> QED BY <1>1, <1>2, <2>1, <2>3, <2>4, <2>5, <2>6 DEF FilesInv, Records
  <1> QED BY <1>2, <1>3 DEF ChainIInv

LEMMA WriteTmpKeeps == ASSUME ChainIInv, NEW u \in Updates, WriteTmp(u) PROVE ChainIInv'
  <1>0. FilesInv /\ HandlerInv /\ SessionInv
    BY DEF ChainIInv
  <1>1. PICK fd \in {"tmp", "disk", "gone"}, text \in Records :
            fd = handler[u].fd /\ text = handler[u].text /\ Current(text)
    BY <1>0 DEF WriteTmp, At, HandlerInv, Handlers, FilesInv
  <1>2. /\ up /\ MyTurn(u) /\ handler[u].pc = "write"
        /\ handler' = [handler EXCEPT ![u] = [handler[u] EXCEPT !.pc = "rename", !.fd = fd]]
        /\ tmp' = (IF fd = "tmp" THEN Over(tmp, text) ELSE tmp)
        /\ disk' = (IF fd = "disk" THEN Over(disk, text) ELSE disk)
        /\ UNCHANGED <<telegram, offset, up, chain, known, server, created, posts, told, limits>>
    <2>1. [handler[u] EXCEPT !.pc = "rename"] = [handler[u] EXCEPT !.pc = "rename", !.fd = fd]
      BY <1>0, <1>1 DEF HandlerInv, Handlers
    <2> QED BY <1>1, <2>1 DEF WriteTmp, At, Goto
  <1>3. /\ PollInv' /\ HandlerInv' /\ OrderInv' /\ SessionInv' /\ ServerInv' /\ TurnInv'
        /\ Updates' = Updates /\ \A v \in Updates : handler'[v].text = handler[v].text
        /\ \A v \in Updates : handler'[v].pc \in {"write", "rename"} =>
               v = u \/ handler[v].pc \in {"write", "rename"}
    BY <1>2, StorageMoves
  <1>4. ASSUME NEW S PROVE /\ \A f \in Over(S, text) : f.records = text
                           /\ (\A f, g \in S : f = g) => \A f, g \in Over(S, text) : f = g
    BY DEF Over, File
  <1>5. /\ \A f \in tmp' : f.records = text \/ f \in tmp
        /\ \A f \in disk' : f.records = text \/ f \in disk
        /\ \A f, g \in tmp' : f = g
        /\ \A f, g \in disk' : f = g
    BY <1>0, <1>2, <1>4 DEF FilesInv
  <1>6. FilesInv'
    <2>1. \A c \in Chats : text[c] \in {0, created[c]}
      BY <1>0, <1>1 DEF Current, SessionInv
    <2>2. (\E v \in Updates : handler'[v].pc \in {"write", "rename"}) =>
              \A f \in tmp' : Current(f.records)'
      BY <1>0, <1>1, <1>2, <1>5 DEF FilesInv, Current
    <2>3. \A f \in disk' : Current(f.records)'
      BY <1>0, <1>1, <1>2, <1>5 DEF FilesInv, Current
    <2>4. \A v \in Updates : Current(handler[v].text)'
      BY <1>0, <1>2, <1>3 DEF FilesInv, Current
    <2>5. /\ \A f \in tmp' : f.records \in Records
          /\ \A f \in disk' : f.records \in Records
          /\ \A f \in disk' : \A c \in Chats : f.records[c] \in {0, created[c]}
      BY <1>0, <1>5, <2>1 DEF FilesInv
    <2> QED BY <1>2, <1>3, <1>5, <2>2, <2>3, <2>4, <2>5 DEF FilesInv, Records
  <1> QED BY <1>3, <1>6 DEF ChainIInv

LEMMA RenameTmpKeeps == ASSUME ChainIInv, NEW u \in Updates, RenameTmp(u) PROVE ChainIInv'
  <1>0. /\ PollInv /\ HandlerInv /\ OrderInv /\ SessionInv /\ FilesInv /\ ServerInv /\ TurnInv
        /\ UNCHANGED <<chatOf, sent, confirmed, offset, up, chain, known, server, created, posts,
                       told, faults, crashes, lost>>
        /\ UNCHANGED <<telegram, limits>>
        /\ up /\ MyTurn(u) /\ handler[u].pc = "rename" /\ disk' = tmp /\ tmp' = {}
    BY DEF ChainIInv, RenameTmp, At, telegram, limits
  <1>1. Updates' = Updates
    BY <1>0 DEF Updates
  <1>2. /\ handler[u] \in Handlers /\ handler[u].then \in {"post", "reply"}
        /\ Posting(handler[u]) => handler[u].saw = "none"
    BY <1>0 DEF HandlerInv
  <1>3. PICK h : h = [handler[u] EXCEPT !.pc = handler[u].then, !.then = "idle", !.fd = "none",
                                        !.text = NoRecords]
    OBVIOUS
  <1>4. /\ h \in Handlers /\ h.pc = handler[u].then /\ h.fd = "none" /\ h.text = NoRecords
        /\ h.saw = handler[u].saw /\ h.reply = handler[u].reply
    BY <1>2, <1>3, NoNumber DEF Handlers, Pcs
  <1>5. ASSUME NEW v \in Updates, v # u
        PROVE  /\ handler'[v] \in Handlers /\ handler'[v].pc = handler[v].pc
               /\ handler'[v].then = handler[v].then /\ handler'[v].text = handler[v].text
               /\ handler'[v].saw = handler[v].saw /\ handler'[v].reply = handler[v].reply
               /\ handler[v].fd # "none" => handler'[v].fd # "none"
    <2>1. handler'[v] = [handler[v] EXCEPT !.fd = Follow(handler[v].fd)]
      BY <1>5 DEF RenameTmp
    <2>2. handler[v] \in Handlers
      BY <1>0 DEF HandlerInv
    <2>3. /\ Follow(handler[v].fd) \in {"none", "tmp", "disk", "gone"}
          /\ handler[v].fd # "none" => Follow(handler[v].fd) # "none"
      BY <2>2 DEF Follow, Handlers
    <2> QED BY <2>1, <2>2, <2>3 DEF Handlers
  <1>6. handler'[u] = h /\ handler' \in [Updates -> Handlers]
    <2>1. handler'[u] = h
      BY <1>3 DEF RenameTmp
    <2>2. \A v \in Updates : handler'[v] \in Handlers
      BY <1>4, <1>5, <2>1
    <2>3. handler' = [v \in Updates |-> handler'[v]]
      BY DEF RenameTmp
    <2> QED BY <2>1, <2>2, <2>3
  <1>7. HandlerInv'
    <2>1. handler' \in [Updates -> Handlers]'
      BY <1>1, <1>6 DEF Handlers
    <2>2. u \in ToSet(chain[chatOf[u]])
      BY <1>0, OnTurn
    <2>3. \A v \in Updates : handler'[v].pc = "idle" <=> v \notin ToSet(chain[chatOf[v]])
      BY <1>0, <1>2, <1>4, <1>5, <1>6, <2>2 DEF HandlerInv
    <2>4. ASSUME NEW v \in Updates
          PROVE  /\ handler'[v].pc \in {"open", "write", "rename"} => handler'[v].then \in {"post", "reply"}
                 /\ handler'[v].pc \in {"write", "rename"} => handler'[v].fd # "none"
                 /\ Posting(handler'[v]) => handler'[v].saw = "none"
      <3>1. CASE v = u
        BY <1>0, <1>2, <1>4, <1>6, <3>1 DEF Posting
      <3>2. CASE v # u
        BY <1>0, <1>5, <3>2 DEF HandlerInv, Posting
      <3> QED BY <3>1, <3>2
    <2> QED BY <1>0, <1>1, <2>1, <2>3, <2>4 DEF HandlerInv
  <1>8. PollInv' /\ OrderInv'
    <2>1. faults' \in faults .. MaxFaults
      BY <1>0, Faulty
    <2>2. PollInv'
      BY <1>0, <2>1, PollKeeps
    <2>3. \A v \in Updates : handler'[v].pc \in {"idle", "fresh"} \/ MyTurn(v)
      BY <1>0, <1>5 DEF OrderInv
    <2>4. \A v \in Updates : Posting(handler'[v]) => Posting(handler[v])
      BY <1>0, <1>2, <1>4, <1>5, <1>6 DEF Posting
    <2> QED BY <1>0, <2>2, <2>3, <2>4, OrderKeeps
  <1>9. SessionInv'
    <2>1. \A v \in Updates : handler'[v].pc = "create" => known[chatOf[v]] = 0
      BY <1>0, <1>2, <1>4, <1>5, <1>6 DEF SessionInv
    <2> QED BY <1>0, <2>1, Faulty, SessionKeeps
  <1>10. FilesInv'
    <2>1. \A f \in tmp : Current(f.records) /\ f.records \in Records
      BY <1>0 DEF FilesInv
    <2>2. \A f \in tmp : Current(f.records)' /\ \A c \in Chats : f.records[c] \in {0, created[c]}
      BY <1>0, <2>1 DEF Current, SessionInv
    <2>3. \A v \in Updates : Current(handler[v].text)'
      <3>1. \A v \in Updates : \A c \in Chats : handler'[v].text[c] \in {0, known[c]}
        BY <1>0, <1>4, <1>5, <1>6 DEF FilesInv, Current, NoRecords
      <3> QED BY <1>0, <3>1 DEF Current
    <2>4. \A f, g \in tmp : f = g
      BY <1>0 DEF FilesInv
    <2> QED BY <1>0, <1>1, <2>1, <2>2, <2>3, <2>4 DEF FilesInv, Records
  <1>11. ServerInv' /\ TurnInv'
    <2>1. crashes = 0 => \A v \in Updates : AtRest(server[chatOf[v]], v, handler'[v])
      BY <1>0, <1>2, <1>4, <1>5, <1>6 DEF TurnInv, AtRest
    <2> QED BY <1>0, <2>1, TurnKeeps
  <1> QED BY <1>7, <1>8, <1>9, <1>10, <1>11 DEF ChainIInv

----------------------------------------------------------------------------
(* The sessions.                                                            *)

(* What is settled stays so, and a session at rest with it.                 *)
StaysSettled(s, t) ==
    /\ s.turns = <<>> => t.turns = <<>>
    /\ \A u \in Updates : \A r \in Nat : Settled(s, u, r) => Settled(t, u, r)

LEMMA ServerMoves ==
    ASSUME ChainIInv, NEW c \in Chats, NEW s \in Sessions, s = server[c], NEW t \in Sessions,
           server' = [server EXCEPT ![c] = t],
           t.turns # <<>> <=> t.status \in {"starting", "running"},
           StaysSettled(s, t), TurnsInOrder(s, posts[c]) => TurnsInOrder(t, posts[c]),
           UNCHANGED <<telegram, offset, up, chain, handler, known, files, created, posts, told,
                       crashes, lost>>,
           faults' \in faults .. MaxFaults
    PROVE  ChainIInv'
  <1>0. /\ PollInv /\ HandlerInv /\ OrderInv /\ SessionInv /\ FilesInv /\ ServerInv /\ TurnInv
        /\ UNCHANGED <<chatOf, sent, confirmed, tmp, disk>>
    BY DEF ChainIInv, telegram, files
  <1>1. Updates' = Updates /\ \A v \in Updates : chatOf[v] \in Chats
    BY <1>0, Chatting DEF Updates
  <1>2. /\ server' \in [Chats -> Sessions]
        /\ \A d \in Chats : server'[d] = IF d = c THEN t ELSE server[d]
    BY <1>0 DEF ServerInv
  <1>3. ServerInv'
    BY <1>0, <1>1, <1>2 DEF ServerInv, Sessions
  <1>4. PollInv'
    BY <1>0, PollKeeps
  <1>5. HandlerInv'
    BY <1>0, <1>1 DEF HandlerInv, Handlers
  <1>6. OrderInv'
    BY <1>0, OrderKeeps DEF OrderInv
  <1>7. SessionInv'
    BY <1>0, SessionKeeps DEF SessionInv
  <1>8. FilesInv'
    BY <1>0, FilesKeeps DEF FilesInv
  <1>9. TurnInv'
    <2>1. ASSUME crashes = 0, NEW v \in Updates
          PROVE  AtRest(server'[chatOf[v]], v, handler[v])
                 /\ ToldOwn(server'[chatOf[v]], v, told[v])
      <3>0. /\ AtRest(server[chatOf[v]], v, handler[v]) /\ ToldOwn(server[chatOf[v]], v, told[v])
            /\ handler[v].reply \in Nat /\ told[v].of \in Nat
        BY <1>0, <2>1 DEF TurnInv, HandlerInv, Handlers, PollInv, Tellings
      <3>1. CASE chatOf[v] = c
        BY <1>2, <3>0, <3>1 DEF AtRest, ToldOwn, StaysSettled
      <3>2. CASE chatOf[v] # c
        BY <1>1, <1>2, <3>0, <3>2
      <3> QED BY <3>1, <3>2
    <2>2. crashes = 0 => \A d \in Chats : TurnsInOrder(server'[d], posts[d])
      BY <1>0, <1>2 DEF TurnInv
    <2> QED BY <1>0, <1>1, <2>1, <2>2 DEF TurnInv
  <1> QED BY <1>3, <1>4, <1>5, <1>6, <1>7, <1>8, <1>9 DEF ChainIInv

LEMMA ContainerReadyKeeps == ASSUME ChainIInv, NEW c \in Chats, ContainerReady(c) PROVE ChainIInv'
  <1>1. PICK s \in Sessions : s = server[c] /\ s.status = "starting" /\ s.turns # <<>>
    BY DEF ChainIInv, ServerInv, ContainerReady
  <1>2. PICK t : t = [s EXCEPT !.status = "running"]
    OBVIOUS
  <1>3. t \in Sessions /\ t.turns = s.turns /\ t.log = s.log /\ t.status = "running"
    BY <1>2 DEF Sessions
  <1>4. server' = [server EXCEPT ![c] = t]
    BY <1>1, <1>2 DEF ContainerReady
  <1>5. StaysSettled(s, t) /\ (TurnsInOrder(s, posts[c]) => TurnsInOrder(t, posts[c]))
    BY <1>3 DEF StaysSettled, Settled, TurnsInOrder
  <1>6. faults' \in faults .. MaxFaults /\ crashes' = crashes /\ lost' = lost
    BY Faulty DEF ContainerReady, limits, ChainIInv
  <1> QED BY <1>1, <1>3, <1>4, <1>5, <1>6, ServerMoves DEF ContainerReady

LEMMA TurnEndsKeeps == ASSUME ChainIInv, NEW c \in Chats, TurnEnds(c) PROVE ChainIInv'
  <1>0. PollInv /\ ServerInv /\ Updates \in SUBSET Nat
    BY Chatting DEF ChainIInv
  <1>1. PICK s \in Sessions : s = server[c] /\ s.turns # <<>>
    BY <1>0 DEF ServerInv, TurnEnds
  <1>2. PICK q \in Seq(Updates), l \in Seq(Updates) : q = s.turns /\ l = s.log
    BY DEF Sessions
  <1>3. PICK log0 \in {l, Append(l, Head(q))} :
            server' = [server EXCEPT ![c] =
                          [status |-> IF Len(q) = 1 THEN "idle" ELSE "running",
                           turns |-> Tail(q), log |-> log0]]
    BY <1>1, <1>2 DEF TurnEnds
  <1>4. PICK t : t = [status |-> IF Len(q) = 1 THEN "idle" ELSE "running",
                      turns |-> Tail(q), log |-> log0]
    OBVIOUS
  <1>5. /\ Tail(q) \in Seq(Updates) /\ Head(q) \in Updates
        /\ ToSet(q) = ToSet(Tail(q)) \cup {Head(q)}
        /\ Tail(q) # <<>> <=> Len(q) # 1
    <2>1. /\ Tail(q) \in Seq(Updates) /\ Head(q) \in Updates /\ Shorter(Tail(q), q)
      BY <1>1, <1>2, TailIs
    <2>2. Tail(q) # <<>> <=> Len(q) # 1
      <3>1. PICK r \in Seq(Updates) : r = Tail(q)
        BY <2>1
      <3>2. PICK n \in Nat, k \in Nat : n = Len(q) /\ k = Len(r)
        OBVIOUS
      <3>3. k = n - 1
        BY <2>1, <3>1, <3>2 DEF Shorter
      <3>4. r = <<>> <=> k = 0
        BY <3>2, EmptySeq
      <3> QED BY <3>1, <3>2, <3>3, <3>4
    <2> QED BY <2>1, <2>2 DEF Shorter
  <1>6. log0 \in Seq(Updates) /\ ToSet(log0) \in {ToSet(l), ToSet(l) \cup {Head(q)}}
    <2>1. Append(l, Head(q)) \in Seq(Updates) /\ Longer(Append(l, Head(q)), l, Head(q))
      BY <1>5, AppendIs
    <2> QED BY <2>1 DEF Longer
  <1>7. t \in Sessions /\ (t.turns # <<>> <=> t.status \in {"starting", "running"})
    BY <1>4, <1>5, <1>6 DEF Sessions
  <1>8. StaysSettled(s, t)
    BY <1>1, <1>2, <1>4, <1>5, <1>6 DEF StaysSettled, Settled
  <1>9. ASSUME TurnsInOrder(s, posts[c]) PROVE TurnsInOrder(t, posts[c])
    <2>1. /\ Rises(l) /\ Rises(q) /\ \A u \in ToSet(l), v \in ToSet(q) : u < v
          /\ ToSet(l) \cup ToSet(q) \subseteq ToSet(posts[c])
      BY <1>2, <1>9 DEF TurnsInOrder
    <2>2. Rises(Tail(q)) /\ \A y \in ToSet(Tail(q)) : Head(q) < y
      BY <1>0, <1>1, <1>2, <2>1, RisesLess
    <2>3. Rises(log0)
      <3>1. \A y \in ToSet(l) : y < Head(q)
        BY <1>5, <2>1
      <3>2. Rises(Append(l, Head(q)))
        BY <1>0, <1>5, <2>1, <3>1, RisesMore
      <3> QED BY <2>1, <3>2
    <2>4. \A u \in ToSet(log0), v \in ToSet(Tail(q)) : u < v
      BY <1>5, <1>6, <2>1, <2>2
    <2>5. ToSet(log0) \cup ToSet(Tail(q)) \subseteq ToSet(posts[c])
      BY <1>5, <1>6, <2>1
    <2> QED BY <1>4, <2>2, <2>3, <2>4, <2>5 DEF TurnsInOrder
  <1>10. faults' \in faults .. MaxFaults /\ crashes' = crashes /\ lost' = lost
    BY Faulty DEF TurnEnds, limits, ChainIInv
  <1>11. server' = [server EXCEPT ![c] = t]
    BY <1>3, <1>4
  <1> QED BY <1>1, <1>7, <1>8, <1>9, <1>10, <1>11, ServerMoves DEF TurnEnds

LEMMA TurnFailsKeeps == ASSUME ChainIInv, NEW c \in Chats, TurnFails(c) PROVE ChainIInv'
  <1>1. PICK s \in Sessions : s = server[c]
    BY DEF ChainIInv, ServerInv
  <1>2. PICK t : t = [s EXCEPT !.status = "failed", !.turns = <<>>]
    OBVIOUS
  <1>3. t \in Sessions /\ t.turns = <<>> /\ t.log = s.log /\ t.status = "failed"
    BY <1>2, NoNumbers DEF Sessions
  <1>4. server' = [server EXCEPT ![c] = t]
    BY <1>1, <1>2 DEF TurnFails
  <1>5. StaysSettled(s, t) /\ (TurnsInOrder(s, posts[c]) => TurnsInOrder(t, posts[c]))
    BY <1>3, NoNumbers DEF StaysSettled, Settled, TurnsInOrder
  <1>6. faults' \in faults .. MaxFaults /\ crashes' = crashes /\ lost' = lost
    BY Faulty DEF TurnFails, ChainIInv
  <1> QED BY <1>1, <1>3, <1>4, <1>5, <1>6, ServerMoves DEF TurnFails

----------------------------------------------------------------------------
(* The poll: what is new is later than all that was dispatched before.      *)
News(s, from, to) ==
    /\ RisingIn(s, Updates) /\ ToSet(s) = from + 1 .. to
    /\ s = <<>> <=> from = to
    /\ s # <<>> => Last(s) = to

LEMMA NewsIs ==
    ASSUME PollInv, NEW q \in Nat, q <= sent
    PROVE  News([k \in 1 .. sent - q |-> q + k], q, sent)
  <1>1. PICK n \in Nat : n = sent - q /\ sent = q + n
    BY DEF PollInv
  <1>2. PICK s : s = [k \in 1 .. n |-> q + k]
    OBVIOUS
  <1>3. ASSUME NEW k \in 1 .. n PROVE q + k \in Updates
    <2>1. Len(chatOf) \in Nat /\ sent <= Len(chatOf) /\ Updates = 1 .. Len(chatOf)
      BY Chatting DEF PollInv
    <2> QED BY <1>1, <2>1
  <1>4. s \in Seq(Updates) /\ Len(s) = n /\ \A k \in 1 .. n : s[k] = q + k
    BY <1>2, <1>3
  <1>5. \A i \in 1 .. n : \A j \in 1 .. n : i < j => q + i < q + j
    OBVIOUS
  <1>6. Rises(s)
    BY <1>4, <1>5 DEF Rises
  <1>7. Members(s)
    BY <1>4, InSeq
  <1>8. ToSet(s) = q + 1 .. q + n
    <2>1. ASSUME NEW x \in q + 1 .. q + n PROVE \E k \in 1 .. n : x = q + k
      <3>1. x - q \in 1 .. n /\ x = q + (x - q)
        BY <2>1
      <3> QED BY <3>1
    <2>2. \A k \in 1 .. n : q + k \in q + 1 .. q + n
      OBVIOUS
    <2>3. ASSUME NEW x \in ToSet(s) PROVE x \in q + 1 .. q + n
      <3>1. PICK k \in 1 .. n : s[k] = x
        BY <1>4, <1>7, <2>3 DEF Members
      <3>2. x = q + k
        BY <1>4, <3>1
      <3> QED BY <2>2, <3>2
    <2>4. ASSUME NEW x \in q + 1 .. q + n PROVE x \in ToSet(s)
      <3>1. PICK k \in 1 .. n : x = q + k
        BY <2>1
      <3>2. s[k] = x
        BY <1>4, <3>1
      <3>3. k \in 1 .. Len(s)
        BY <1>4
      <3> QED BY <1>7, <3>2, <3>3 DEF Members
    <2> QED BY <2>3, <2>4
  <1>9. s = <<>> <=> n = 0
    BY <1>4, EmptySeq
  <1>10. ASSUME n # 0 PROVE Last(s) = q + n
    <2>1. n \in 1 .. n
      BY <1>10
    <2> QED BY <1>4, <2>1 DEF Last
  <1> QED BY <1>1, <1>2, <1>4, <1>6, <1>8, <1>9, <1>10 DEF News, RisingIn

LEMMA PollKeepsAll == ASSUME ChainIInv, Poll PROVE ChainIInv'
  <1>0. /\ PollInv /\ HandlerInv /\ OrderInv /\ SessionInv /\ FilesInv /\ ServerInv /\ TurnInv
        /\ up /\ UNCHANGED <<chatOf, sent, up, known, server, created, posts, told>>
        /\ UNCHANGED <<tmp, disk, faults, crashes, lost, files, limits>>
    BY DEF ChainIInv, Poll, files, limits
  <1>1. PICK q \in Nat, o \in Nat : /\ q = confirmed' /\ o = offset /\ o <= q /\ q <= sent
                                    /\ confirmed <= q /\ o <= sent
    <2>1. sent \in Nat /\ confirmed \in Nat /\ offset \in Nat /\ confirmed <= sent
          /\ offset <= sent
      BY <1>0 DEF PollInv
    <2> QED BY <2>1 DEF Poll
  <1>2. PICK news : news = [k \in 1 .. sent - q |-> q + k]
    OBVIOUS
  <1>3. News(news, q, sent) /\ sent \in Nat
    BY <1>0, <1>1, <1>2, NewsIs DEF PollInv
  <1>4. /\ offset' = NextOffset(news)
        /\ chain' = [c \in Chats |-> chain[c] \o Among(news, {u \in Updates : chatOf[u] = c})]
        /\ handler' = [u \in Updates |-> IF u \in ToSet(news) THEN [Idle EXCEPT !.pc = "fresh"]
                                         ELSE handler[u]]
    BY <1>1, <1>2 DEF Poll
  <1>5. offset' = (IF q = sent THEN o ELSE sent) /\ offset' \in Nat /\ o <= offset' /\ offset' <= sent
    BY <1>1, <1>3, <1>4 DEF News, NextOffset
  <1>6. \A x \in ToSet(news) : x \in Updates /\ o < x /\ x <= offset' /\ x \in Nat
    <2>1. \A x \in ToSet(news) : x \in Updates
      BY <1>3, InSeq DEF News, RisingIn
    <2> QED BY <1>1, <1>3, <1>5, <2>1 DEF News
  <1>7. Updates' = Updates /\ Updates \in SUBSET Nat /\ \A v \in Updates : chatOf[v] \in Chats
    BY <1>0, Chatting DEF Updates
  <1>8. ASSUME NEW c \in Chats
        PROVE  /\ chain'[c] \in Seq(Updates) /\ Rises(chain'[c])
               /\ ToSet(chain'[c]) = ToSet(chain[c]) \cup {u \in ToSet(news) : chatOf[u] = c}
               /\ chain[c] # <<>> => Head(chain'[c]) = Head(chain[c]) /\ chain'[c] # <<>>
    <2>1. PICK s \in Seq(Updates) : s = chain[c] /\ Rises(s) /\ \A x \in ToSet(s) : x <= o
      BY <1>0, <1>1 DEF OrderInv
    <2>2. PICK t : t = Among(news, {u \in Updates : chatOf[u] = c})
      OBVIOUS
    <2>3. /\ t \in Seq(Updates) /\ Rises(t)
          /\ ToSet(t) = ToSet(news) \cap {u \in Updates : chatOf[u] = c}
      BY <1>3, <1>7, <2>2, Picks DEF News, RisingIn
    <2>4. chain'[c] = s \o t
      BY <1>4, <2>1, <2>2
    <2>5. s \o t \in Seq(Updates) /\ ToSet(s \o t) = ToSet(s) \cup ToSet(t)
      BY <2>3, Concat
    <2>6. Rises(s \o t)
      <3>1. ToSet(s) \subseteq Updates
        BY <2>1, InSeq
      <3>2. \A x \in ToSet(s), y \in ToSet(t) : x < y
        <4> SUFFICES ASSUME NEW x \in ToSet(s), NEW y \in ToSet(t) PROVE x < y
          OBVIOUS
        <4>1. x \in Nat /\ x <= o
          BY <1>7, <2>1, <3>1
        <4>2. y \in Nat /\ o < y
          BY <1>6, <2>3
        <4> QED BY <4>1, <4>2
      <3> QED BY <1>7, <2>1, <2>3, <3>2, RisesConcat
    <2>7. ASSUME s # <<>> PROVE Head(s \o t) = Head(s) /\ s \o t # <<>>
      <3>1. PICK m \in Nat, n \in Nat : m = Len(s) /\ n = Len(t) /\ m # 0
        BY <2>3, <2>7, EmptySeq
      <3>2. /\ s \o t \in Seq(Updates) /\ Len(s \o t) = m + n
            /\ \A i \in 1 .. m + n : (s \o t)[i] = IF i <= m THEN s[i] ELSE t[i - m]
        BY <2>3, <3>1, ConcatProperties
      <3>3. 1 \in 1 .. m + n /\ 1 <= m /\ m + n # 0
        BY <3>1
      <3>4. (s \o t)[1] = s[1]
        BY <3>2, <3>3
      <3>5. PICK r : r = s \o t
        OBVIOUS
      <3>6. r \in Seq(Updates) /\ Len(r) # 0 /\ r[1] = s[1]
        BY <3>2, <3>3, <3>4, <3>5
      <3>7. Head(r) = r[1] /\ Head(s) = s[1] /\ r # <<>>
        BY <2>7, <3>6, EmptySeq
      <3> QED BY <3>5, <3>6, <3>7
    <2> QED BY <1>6, <2>1, <2>3, <2>4, <2>5, <2>6, <2>7
  <1>9. chain' \in [Chats -> Seq(Updates)]
    BY <1>4, <1>8
  <1>10. ASSUME NEW v \in Updates
         PROVE  \/ v \in ToSet(news) /\ handler'[v] = [Idle EXCEPT !.pc = "fresh"]
                                     /\ handler[v].pc = "idle" /\ v \notin ToSet(chain[chatOf[v]])
                \/ v \notin ToSet(news) /\ handler'[v] = handler[v]
    <2>1. v \in ToSet(news) => v \notin ToSet(chain[chatOf[v]])
      BY <1>0, <1>1, <1>6, <1>7 DEF OrderInv
    <2> QED BY <1>0, <1>4, <2>1 DEF HandlerInv
  <1>11. PICK fresh : fresh = [Idle EXCEPT !.pc = "fresh"]
    OBVIOUS
  <1>12. /\ fresh \in Handlers /\ fresh.pc = "fresh" /\ fresh.saw = "none"
         /\ fresh.text = NoRecords /\ fresh.fd = "none"
    BY <1>11, NoNumber DEF Idle, Handlers, Pcs, Seen
  <1>13. PollInv'
    BY <1>0, <1>1, <1>5, <1>7 DEF PollInv
  <1>14. HandlerInv'
    <2>1. handler' \in [Updates -> Handlers]
      <3>1. \A v \in Updates : handler'[v] \in Handlers
        BY <1>0, <1>10, <1>11, <1>12 DEF HandlerInv
      <3> QED BY <1>4, <3>1
    <2>2. \A v \in Updates : handler'[v].pc = "idle" <=> v \notin ToSet(chain'[chatOf[v]])
      <3> SUFFICES ASSUME NEW v \in Updates
                   PROVE  handler'[v].pc = "idle" <=> v \notin ToSet(chain'[chatOf[v]])
        OBVIOUS
      <3>1. CASE v \in ToSet(news)
        BY <1>7, <1>8, <1>10, <1>11, <1>12, <3>1
      <3>2. CASE v \notin ToSet(news)
        BY <1>0, <1>7, <1>8, <1>10, <3>2 DEF HandlerInv
      <3> QED BY <3>1, <3>2
    <2>3. ASSUME NEW v \in Updates
          PROVE  /\ handler'[v].pc \in {"open", "write", "rename"} => handler'[v].then \in {"post", "reply"}
                 /\ handler'[v].pc \in {"write", "rename"} => handler'[v].fd # "none"
                 /\ Posting(handler'[v]) => handler'[v].saw = "none"
      BY <1>0, <1>10, <1>11, <1>12 DEF HandlerInv
    <2>4. handler' \in [Updates -> Handlers]'
      BY <1>7, <2>1 DEF Handlers
    <2> QED BY <1>0, <1>7, <2>2, <2>3, <2>4 DEF HandlerInv
  <1>15. OrderInv'
    <2>1. ASSUME NEW v \in Updates, handler'[v].pc \notin {"idle", "fresh"} PROVE MyTurn(v)'
      <3>1. MyTurn(v)
        BY <1>0, <1>10, <1>11, <1>12, <2>1 DEF OrderInv
      <3> QED BY <1>0, <1>7, <1>8, <3>1 DEF MyTurn
    <2>2. ASSUME NEW c \in Chats, NEW v \in ToSet(chain'[c]) \cup ToSet(posts[c])
          PROVE  v <= offset' /\ chatOf[v] = c
      <3>1. CASE v \in ToSet(chain[c]) \cup ToSet(posts[c])
        <4>1. v \in Updates
          <5>1. chain[c] \in Seq(Updates) /\ posts[c] \in Seq(Updates)
            BY <1>0 DEF OrderInv
          <5> QED BY <3>1, <5>1, InSeq
        <4>2. v <= o /\ chatOf[v] = c
          BY <1>0, <1>1, <3>1 DEF OrderInv
        <4> QED BY <1>5, <1>7, <4>1, <4>2
      <3>2. CASE v \in ToSet(news) /\ chatOf[v] = c
        BY <1>6, <3>2
      <3> QED BY <1>8, <2>2, <3>1, <3>2
    <2>3. ASSUME NEW c \in Chats, NEW p \in ToSet(posts[c]), NEW v \in ToSet(chain'[c])
          PROVE  p <= v /\ (Posting(handler'[v]) => p < v)
      <3>0. /\ v \in ToSet(chain[c]) \/ (v \in ToSet(news) /\ chatOf[v] = c)
            /\ v \in Updates /\ p \in Nat /\ v \in Nat /\ p <= o
        <4>1. chain'[c] \in Seq(Updates) /\ posts[c] \in Seq(Updates)
          BY <1>0, <1>8 DEF OrderInv
        <4>2. v \in Updates /\ p \in Updates
          BY <4>1, InSeq
        <4> QED BY <1>0, <1>1, <1>7, <1>8, <4>2 DEF OrderInv
      <3>1. CASE v \in ToSet(news)
        BY <1>1, <1>6, <3>0, <3>1
      <3>2. CASE v \notin ToSet(news)
        BY <1>0, <1>10, <3>0, <3>2 DEF OrderInv
      <3> QED BY <3>1, <3>2
    <2>4. posts' = posts /\ posts \in [Chats -> Seq(Updates)] /\ \A c \in Chats : Rises(posts[c])
      BY <1>0 DEF OrderInv
    <2>5. posts' \in [Chats -> Seq(Updates')]
          /\ chain' \in [Chats -> Seq(Updates')]
      BY <1>0, <1>7, <1>9, <2>4
    <2>7. \A c \in Chats : Rises(chain'[c]) /\ Rises(posts'[c])
      BY <1>8, <2>4
    <2>8. \A c \in Chats : \A v \in ToSet(chain'[c]) \cup ToSet(posts'[c]) :
              v <= offset' /\ chatOf'[v] = c
      BY <1>0, <2>2
    <2>9. \A v \in Updates' : handler'[v].pc \notin {"idle", "fresh"} => MyTurn(v)'
      BY <1>7, <2>1
    <2>10. \A c \in Chats : \A p \in ToSet(posts'[c]), v \in ToSet(chain'[c]) :
               p <= v /\ (Posting(handler'[v]) => p < v)
      BY <2>3, <2>4
    <2> QED BY <2>5, <2>7, <2>8, <2>9, <2>10 DEF OrderInv
  <1>16. SessionInv'
    <2>1. \A v \in Updates : handler'[v].pc = "create" => known[chatOf[v]] = 0
      BY <1>0, <1>10, <1>11, <1>12 DEF SessionInv
    <2> QED BY <1>0, <2>1, Faulty, SessionKeeps
  <1>17. FilesInv'
    <2>1. Current(NoRecords)
      BY DEF Current, NoRecords
    <2>2. \A v \in Updates : Current(handler'[v].text)
      BY <1>0, <1>10, <1>11, <1>12, <2>1 DEF FilesInv
    <2>3. \A v \in Updates : handler'[v].pc \in {"write", "rename"} =>
              handler[v].pc \in {"write", "rename"}
      BY <1>10, <1>11, <1>12
    <2> QED BY <1>0, <2>2, <2>3, FilesKeeps
  <1>18. ServerInv'
    BY <1>0, <1>7 DEF ServerInv, Sessions
  <1>19. TurnInv'
    <2>1. ASSUME NEW v \in Updates, v > offset' \/ v \in ToSet(chain'[chatOf[v]])
          PROVE  told[v] = Untold
      <3>1. v > o \/ v \in ToSet(chain[chatOf[v]])
        <4>1. CASE v > offset'
          BY <1>1, <1>5, <1>7, <4>1
        <4>2. CASE v \in ToSet(news)
          BY <1>1, <1>6, <4>2
        <4> QED BY <1>7, <1>8, <2>1, <4>1, <4>2
      <3> QED BY <1>0, <1>1, <3>1 DEF TurnInv
    <2>2. ASSUME crashes = 0, NEW v \in Updates
          PROVE  AtRest(server[chatOf[v]], v, handler'[v])
                 /\ ToldOwn(server[chatOf[v]], v, told[v])
      <3>1. AtRest(server[chatOf[v]], v, handler[v]) /\ ToldOwn(server[chatOf[v]], v, told[v])
        BY <1>0, <2>2 DEF TurnInv
      <3> QED BY <1>10, <1>11, <1>12, <3>1 DEF AtRest
    <2>3. crashes = 0 => \A c \in Chats : TurnsInOrder(server[c], posts[c])
      BY <1>0 DEF TurnInv
    <2> QED BY <1>0, <1>7, <2>1, <2>2, <2>3 DEF TurnInv
  <1> QED BY <1>13, <1>14, <1>15, <1>16, <1>17, <1>18, <1>19 DEF ChainIInv

----------------------------------------------------------------------------
(* The other steps: the users, the end of the process and its restart.      *)
LEMMA UserSendsKeeps == ASSUME ChainIInv, UserSends PROVE ChainIInv'
  <1>0. /\ PollInv /\ HandlerInv /\ OrderInv /\ SessionInv /\ FilesInv /\ ServerInv /\ TurnInv
        /\ UNCHANGED <<chatOf, confirmed, offset, up, chain, handler, known, tmp, disk, server>>
        /\ UNCHANGED <<created, posts, told, faults, crashes, lost>>
        /\ sent < Len(chatOf) /\ sent' = sent + 1
    BY DEF ChainIInv, UserSends, files, limits
  <1>1. Updates' = Updates
    BY <1>0 DEF Updates
  <1>2. PollInv'
    <2>1. PICK l \in Nat, m \in Nat, n \in Nat, k \in Nat :
             /\ l = Len(chatOf) /\ m = sent /\ n = offset /\ k = confirmed
             /\ k <= m /\ n <= m /\ m < l
      BY <1>0 DEF PollInv
    <2>2. m + 1 \in Nat /\ k <= m + 1 /\ n <= m + 1 /\ m + 1 <= l
      BY <2>1
    <2> QED BY <1>0, <1>1, <2>1, <2>2 DEF PollInv
  <1>3. HandlerInv' /\ SessionInv' /\ FilesInv' /\ ServerInv'
    BY <1>0, <1>1 DEF HandlerInv, SessionInv, LostInv, FilesInv, ServerInv, Handlers, Sessions,
                     Current
  <1>4. OrderInv'
    BY <1>0, <1>1 DEF OrderInv, MyTurn
  <1>5. TurnInv'
    BY <1>0, <1>1 DEF TurnInv
  <1> QED BY <1>2, <1>3, <1>4, <1>5 DEF ChainIInv

LEMMA NoUpdates ==
    /\ <<>> \in Seq(Updates) /\ Rises(<<>>) /\ ToSet(<<>>) = {}
    /\ Idle \in Handlers /\ Idle.pc = "idle" /\ Idle.saw = "none" /\ Idle.text = NoRecords
    /\ ~Posting(Idle) /\ Untold \in Tellings /\ Untold.kind = "none" /\ Untold.saw = "none"
  <1>1. Len(<<>>) = 0 /\ ToSet(<<>>) = {}
    BY DEF ToSet
  <1>2. \A i, j \in 1 .. 0 : FALSE
    OBVIOUS
  <1>3. Rises(<<>>)
    BY <1>1, <1>2 DEF Rises
  <1> QED BY <1>1, <1>3, NoNumber DEF Idle, Handlers, Pcs, Seen, Posting, Untold, Tellings

LEMMA DiesKeeps == ASSUME ChainIInv, Dies PROVE ChainIInv'
  <1>0. /\ PollInv /\ HandlerInv /\ OrderInv /\ SessionInv /\ FilesInv /\ ServerInv /\ TurnInv
        /\ UNCHANGED <<chatOf, sent, confirmed, tmp, disk, server, created, lost>>
        /\ up' = FALSE /\ faults < MaxFaults /\ faults' = faults + 1 /\ crashes' = crashes + 1
        /\ offset' = 0 /\ known' = NoRecords
        /\ chain' = [c \in Chats |-> <<>>] /\ handler' = [u \in Updates |-> Idle]
        /\ posts' = [c \in Chats |-> <<>>] /\ told' = [u \in Updates |-> Untold]
    BY DEF ChainIInv, Dies, Fault, telegram, files
  <1>1. Updates' = Updates /\ \A u \in Updates : chatOf[u] \in Chats
    BY <1>0, Chatting DEF Updates
  <1>2. PICK n \in Nat, m \in Nat : /\ n = faults /\ m = crashes /\ m <= n /\ n + 1 <= MaxFaults
                                    /\ MaxFaults \in Nat
    BY <1>0, TelegramAssumption DEF PollInv
  <1>3. faults' \in 0 .. MaxFaults /\ crashes' \in 0 .. faults' /\ crashes' \in Nat /\ crashes' # 0
    BY <1>0, <1>2
  <1>4. PollInv'
    <2>1. told' \in [Updates -> Tellings]
      BY <1>0, NoUpdates
    <2>2. 0 \in Nat /\ 0 <= sent
      BY <1>0 DEF PollInv
    <2> QED BY <1>0, <1>1, <1>3, <2>1, <2>2 DEF PollInv
  <1>5. HandlerInv'
    <2>1. handler' \in [Updates -> Handlers]
      BY <1>0, NoUpdates
    <2>2. \A u \in Updates : handler'[u] = Idle /\ chain'[chatOf[u]] = <<>>
      BY <1>0, <1>1
    <2> QED BY <1>0, <1>1, <2>1, <2>2, NoUpdates DEF HandlerInv, Handlers
  <1>6. OrderInv'
    <2>1. /\ chain' \in [Chats -> Seq(Updates)] /\ posts' \in [Chats -> Seq(Updates)]
          /\ \A c \in Chats : chain'[c] = <<>> /\ posts'[c] = <<>>
      BY <1>0, NoUpdates
    <2>2. \A u \in Updates : handler'[u].pc = "idle"
      BY <1>0, NoUpdates
    <2> QED BY <1>1, <2>1, <2>2, NoUpdates DEF OrderInv
  <1>7. SessionInv'
    <2>1. ASSUME NEW c \in Chats
          PROVE  /\ created[c] <= 1 + crashes' + lost[c] /\ created[c] <= crashes' + lost[c]
                 /\ known'[c] = 0 /\ created[c] \in Nat /\ crashes' + lost[c] <= faults'
      <3>1. /\ created[c] \in Nat /\ created[c] <= 1 + crashes + lost[c]
            /\ lost[c] \in Nat /\ crashes + lost[c] <= faults
        BY <1>0 DEF SessionInv, LostInv
      <3>2. known'[c] = 0
        BY <1>0 DEF NoRecords
      <3> QED BY <1>0, <1>2, <3>1, <3>2
    <2>2. \A u \in Updates : handler'[u].pc # "create"
      BY <1>0, NoUpdates
    <2>3. created' \in [Chats -> Nat] /\ known' \in Records /\ created' = created
      BY <1>0, NoNumber DEF SessionInv
    <2>4. LostInv'
      BY <1>0, <2>1 DEF SessionInv, LostInv
    <2> QED BY <1>0, <1>1, <2>1, <2>2, <2>3, <2>4 DEF SessionInv
  <1>8. FilesInv'
    <2>1. \A u \in Updates : handler'[u].pc = "idle" /\ handler'[u].text = NoRecords
      BY <1>0, NoUpdates
    <2>2. \A u \in Updates : Current(handler[u].text)'
      BY <2>1, <1>1 DEF Current, NoRecords
    <2> QED BY <1>0, <1>1, <2>1, <2>2 DEF FilesInv
  <1>9. ServerInv'
    BY <1>0, <1>1 DEF ServerInv, Sessions
  <1>10. TurnInv'
    <2>1. \A u \in Updates : told'[u] = Untold
      BY <1>0
    <2> QED BY <1>1, <1>3, <2>1 DEF TurnInv
  <1> QED BY <1>4, <1>5, <1>6, <1>7, <1>8, <1>9, <1>10 DEF ChainIInv

LEMMA RestartKeeps == ASSUME ChainIInv, Restart PROVE ChainIInv'
  <1>0. /\ PollInv /\ HandlerInv /\ OrderInv /\ SessionInv /\ FilesInv /\ ServerInv /\ TurnInv
        /\ UNCHANGED <<chatOf, sent, confirmed, offset, chain, handler, tmp, disk, server>>
        /\ UNCHANGED <<created, posts, told, faults, crashes, lost>>
        /\ ~up /\ up' = TRUE
        /\ known' = IF disk = {} THEN NoRecords ELSE (CHOOSE f \in disk : TRUE).records
    BY DEF ChainIInv, Restart, telegram, files, limits
  <1>1. Updates' = Updates /\ \A u \in Updates : handler[u] = Idle
    BY <1>0 DEF Updates, HandlerInv
  <1>2. \/ disk = {} /\ known' = NoRecords
        \/ \E f \in disk : known' = f.records /\ \A g \in disk : g = f
    <2>1. CASE disk # {}
      <3>1. (CHOOSE f \in disk : TRUE) \in disk
        BY <2>1
      <3> QED BY <1>0, <2>1, <3>1 DEF FilesInv
    <2> QED BY <1>0, <2>1
  <1>3. /\ known' \in Records /\ \A c \in Chats : known'[c] \in {0, created[c]}
        /\ \A f \in disk : f.records = known'
    BY <1>0, <1>2, NoNumber DEF FilesInv, NoRecords
  <1>4. PollInv'
    BY <1>0, <1>1 DEF PollInv
  <1>5. HandlerInv'
    BY <1>0, <1>1 DEF HandlerInv, Handlers
  <1>6. OrderInv'
    BY <1>0, <1>1 DEF OrderInv, MyTurn
  <1>7. SessionInv'
    <2>1. \A c \in Chats : created[c] <= 1 + crashes + lost[c] /\ created[c] <= crashes + lost[c]
      BY <1>0 DEF SessionInv, NoRecords
    <2>2. \A u \in Updates : handler[u].pc # "create"
      BY <1>1, NoUpdates
    <2>3. LostInv'
      BY <1>0 DEF SessionInv, LostInv
    <2> QED BY <1>0, <1>1, <1>3, <2>1, <2>2, <2>3 DEF SessionInv
  <1>8. FilesInv'
    <2>1. \A u \in Updates : handler'[u].pc = "idle" /\ handler'[u].text = NoRecords
      BY <1>0, <1>1, NoUpdates
    <2>2. \A u \in Updates : Current(handler[u].text)'
      BY <2>1, <1>1 DEF Current, NoRecords
    <2>3. \A f \in disk : Current(f.records)'
      BY <1>0, <1>3 DEF Current
    <2> QED BY <1>0, <1>1, <2>1, <2>2, <2>3 DEF FilesInv
  <1>9. ServerInv'
    BY <1>0, <1>1 DEF ServerInv, Sessions
  <1>10. TurnInv'
    BY <1>0, <1>1 DEF TurnInv
  <1> QED BY <1>4, <1>5, <1>6, <1>7, <1>8, <1>9, <1>10 DEF ChainIInv

----------------------------------------------------------------------------
(* All steps, and what the invariant says.                                  *)
LEMMA HandleKeeps == ASSUME ChainIInv, NEW u \in Updates, Handle(u) PROVE ChainIInv'
  <1>1. CASE \/ HasSession(u) \/ NeedsSession(u) \/ WaitEnds(u)
             \/ WaitTimesOut(u) \/ List(u) \/ ReplyFails(u) \/ RenameFails(u)
    BY <1>1, HandlesKeep
  <1>0. CASE CreateFails(u)
    BY <1>0, HandlesKeep, LostCreateKeeps
  <1>2. CASE PostFails(u)
    <2>1. Accepted(u) \/ UNCHANGED <<server, posts>>
      BY <1>2 DEF PostFails
    <2> QED BY <1>2, <2>1, HandlesKeep, PostsKeep
  <1>3. CASE TooOld(u) \/ Reply(u) \/ Sorry(u)
    BY <1>3, ReturnsKeep
  <1>4. CASE CreateSession(u)
    BY <1>4, CreateSessionKeeps
  <1>5. CASE Post(u)
    BY <1>5, PostsKeep
  <1>6. CASE OpenTmp(u) \/ WriteTmp(u) \/ RenameTmp(u)
    BY <1>6, OpenTmpKeeps, WriteTmpKeeps, RenameTmpKeeps
  <1> QED BY <1>0, <1>1, <1>2, <1>3, <1>4, <1>5, <1>6 DEF Handle

LEMMA TelegramKeeps == ASSUME ChainIInv, TelegramNext PROVE ChainIInv'
  <1>1. CASE UserSends
    BY <1>1, UserSendsKeeps
  <1>2. CASE Poll
    BY <1>2, PollKeepsAll
  <1>3. CASE Kill
    BY <1>3, DiesKeeps DEF Kill
  <1>4. CASE Restart
    BY <1>4, RestartKeeps
  <1>5. ASSUME NEW u \in Updates, Handle(u) \/ SorryFails(u) PROVE ChainIInv'
    BY <1>5, HandleKeeps, DiesKeeps DEF SorryFails
  <1>6. ASSUME NEW c \in Chats, ContainerReady(c) \/ TurnEnds(c) \/ TurnFails(c) PROVE ChainIInv'
    BY <1>6, ContainerReadyKeeps, TurnEndsKeeps, TurnFailsKeeps
  <1> QED BY <1>1, <1>2, <1>3, <1>4, <1>5, <1>6 DEF TelegramNext

LEMMA AdapterRests == ASSUME ChainIInv, UNCHANGED adapterVars PROVE ChainIInv'
  <1>0. /\ PollInv /\ HandlerInv /\ OrderInv /\ SessionInv /\ FilesInv /\ ServerInv /\ TurnInv
        /\ UNCHANGED <<chatOf, sent, confirmed, offset, up, chain, handler, known, tmp, disk, server>>
        /\ UNCHANGED <<created, posts, told, faults, crashes, lost>>
    BY DEF ChainIInv, adapterVars, telegram, files, limits
  <1>1. Updates' = Updates
    BY <1>0 DEF Updates
  <1>2. PollInv'
    BY <1>0, <1>1 DEF PollInv
  <1>3. HandlerInv' /\ SessionInv' /\ FilesInv' /\ ServerInv'
    BY <1>0, <1>1 DEF HandlerInv, SessionInv, LostInv, FilesInv, ServerInv, Handlers, Sessions,
                     Current
  <1>4. OrderInv'
    BY <1>0, <1>1 DEF OrderInv, MyTurn
  <1>5. TurnInv'
    BY <1>0, <1>1 DEF TurnInv
  <1> QED BY <1>2, <1>3, <1>4, <1>5 DEF ChainIInv

LEMMA AdapterStarts == ASSUME TelegramInit PROVE ChainIInv
  <1>0. /\ chatOf \in Seq(Chats) /\ MaxFaults \in Nat
        /\ sent = 0 /\ confirmed = 0 /\ offset = 0 /\ up = TRUE
        /\ known = NoRecords /\ tmp = {} /\ disk = {} /\ faults = 0 /\ crashes = 0
        /\ handler = [u \in Updates |-> Idle] /\ told = [u \in Updates |-> Untold]
    BY TelegramAssumption DEF TelegramInit
  <1>1. /\ chain = [c \in Chats |-> <<>>] /\ posts = [c \in Chats |-> <<>>]
        /\ created = [c \in Chats |-> 0] /\ server = [c \in Chats |-> NoSession]
        /\ lost = [c \in Chats |-> 0]
    BY DEF TelegramInit
  <1>2. PollInv
    <2>1. Len(chatOf) \in Nat /\ told \in [Updates -> Tellings]
      BY <1>0, NoUpdates
    <2>2. 0 \in 0 .. MaxFaults /\ 0 \in 0 .. 0 /\ 0 \in Nat /\ 0 <= Len(chatOf) /\ 0 <= 0
      BY <1>0, <2>1
    <2> QED BY <1>0, <2>1, <2>2 DEF PollInv
  <1>3. \A u \in Updates : chatOf[u] \in Chats /\ handler[u] = Idle /\ chain[chatOf[u]] = <<>>
    BY <1>0, <1>1, <1>2, Chatting
  <1>4. HandlerInv
    <2>1. handler \in [Updates -> Handlers]
      BY <1>0, NoUpdates
    <2> QED BY <1>0, <1>3, <2>1, NoUpdates DEF HandlerInv
  <1>5. OrderInv
    <2>1. /\ chain \in [Chats -> Seq(Updates)] /\ posts \in [Chats -> Seq(Updates)]
          /\ \A c \in Chats : chain[c] = <<>> /\ posts[c] = <<>>
      BY <1>1, NoUpdates
    <2> QED BY <1>3, <2>1, NoUpdates DEF OrderInv
  <1>6. SessionInv
    <2>1. \A c \in Chats : known[c] = 0 /\ created[c] = 0
      BY <1>0, <1>1 DEF NoRecords
    <2>2. created \in [Chats -> Nat] /\ known \in Records
      BY <1>0, <1>1, NoNumber
    <2>3. LostInv
      BY <1>0, <1>1 DEF LostInv
    <2>4. \A c \in Chats : lost[c] = 0
      BY <1>1
    <2> QED BY <1>0, <1>3, <2>1, <2>2, <2>3, <2>4, NoUpdates DEF SessionInv
  <1>7. FilesInv
    <2>1. \A u \in Updates : Current(handler[u].text)
      BY <1>3, NoUpdates DEF Current, NoRecords
    <2> QED BY <1>0, <1>3, <2>1, NoUpdates DEF FilesInv
  <1>8. /\ NoSession \in Sessions /\ NoSession.turns = <<>> /\ NoSession.log = <<>>
        /\ NoSession.status = "idle"
    BY NoUpdates DEF NoSession, Sessions
  <1>9. ServerInv
    BY <1>1, <1>8 DEF ServerInv
  <1>10. TurnInv
    <2>1. \A u \in Updates : told[u] = Untold
      BY <1>0
    <2>2. \A c \in Chats : TurnsInOrder(server[c], posts[c])
      BY <1>1, <1>8, NoUpdates DEF TurnsInOrder
    <2> QED BY <1>3, <2>1, <2>2, NoUpdates DEF TurnInv, AtRest, ToldOwn
  <1> QED BY <1>2, <1>4, <1>5, <1>6, <1>7, <1>9, <1>10 DEF ChainIInv

LEMMA ChainImplied == ASSUME ChainIInv PROVE ChainInv
  <1>0. PollInv /\ HandlerInv /\ OrderInv /\ SessionInv /\ FilesInv /\ ServerInv /\ TurnInv
    BY DEF ChainIInv
  <1>1. TelegramTypeOK
    <2>1. 0 <= confirmed /\ confirmed <= sent /\ sent <= Len(chatOf) /\ offset <= sent
      BY <1>0 DEF PollInv
    <2>2. \A u \in Updates : told[u].kind \in {"none", "stale", "reply", "sorry"}
      BY <1>0 DEF PollInv, Tellings
    <2>3. \A c \in Chats : crashes + lost[c] \in 0 .. faults
      <3>1. faults \in Nat /\ crashes \in Nat
        BY <1>0, TelegramAssumption DEF PollInv
      <3>2. \A c \in Chats : lost[c] \in Nat /\ crashes + lost[c] <= faults
        BY <1>0 DEF SessionInv, LostInv
      <3> QED BY <3>1, <3>2
    <2>4. lost \in [Chats -> Nat]
      BY <1>0 DEF SessionInv, LostInv
    <2> QED BY <1>0, <2>1, <2>2, <2>3, <2>4
          DEF TelegramTypeOK, PollInv, HandlerInv, SessionInv, ServerInv
  <1>2. PostedInOrder
    <2>1. \A c \in Chats : DOMAIN posts[c] = 1 .. Len(posts[c])
      BY <1>0 DEF OrderInv
    <2> QED BY <1>0, <2>1 DEF PostedInOrder, OrderInv, Rises
  <1>3. OneSessionPerLife
    BY <1>0 DEF OneSessionPerLife, SessionInv
  <1>4. RestReplyIsOwn
    BY <1>0 DEF RestReplyIsOwn, TurnInv, ToldOwn, Settled
  <1> QED BY <1>1, <1>2, <1>3, <1>4 DEF ChainInv

LEMMA ChainAlways == Spec => []ChainIInv
  <1>1. Init => ChainIInv
    BY AdapterStarts DEF Init
  <1>2. ChainIInv /\ [Next]_vars => ChainIInv'
    <2>1. CASE Next
      BY <2>1, TelegramKeeps, AdapterRests DEF Next, ChatPart, TelegramPart
    <2>2. CASE UNCHANGED vars
      BY <2>2, AdapterRests DEF vars
    <2> QED BY <2>1, <2>2
  <1> QED BY <1>1, <1>2, PTL DEF Spec

(* Whatever chats write, calls and turns fail, processes die and handlers   *)
(* interleave: a chat's messages are posted in the order Telegram has them  *)
(* and once per life of the adapter, in one session per life and per create *)
(* whose answer was lost, and the reply read from a session at rest is the  *)
(* answer of the message it replies to.                                     *)
THEOREM ChainHolds == Spec => []ChainInv
  <1>1. ChainIInv => ChainInv
    BY ChainImplied
  <1> QED BY <1>1, ChainAlways, PTL

----------------------------------------------------------------------------
(* Nobody is ignored.  A handler that is over has told its chat something.  *)
Heard(u) == handler[u].pc # "idle" /\ handler'[u].pc = "idle" /\ up' => told'[u].kind # "none"

LEMMA ReturnTells ==
    ASSUME ChainIInv, NEW v \in Updates, NEW kind \in {"stale", "reply", "sorry"}, NEW of,
           Return(v, kind, of), NEW u \in Updates
    PROVE  Heard(u)
  <1>1. handler \in [Updates -> Handlers] /\ told \in [Updates -> Tellings]
    BY DEF ChainIInv, PollInv, HandlerInv
  <1>2. CASE u = v
    BY <1>1, <1>2 DEF Return, Heard
  <1>3. CASE u # v
    BY <1>1, <1>3 DEF Return, Heard
  <1> QED BY <1>2, <1>3

LEMMA StaysBusy ==
    ASSUME ChainIInv, NEW v \in Updates, NEW u \in Updates,
           \/ \E pc \in {"create", "post", "wait", "rename"} : Goto(v, pc)
           \/ Apologize(v) \/ CreateSession(v) \/ WaitEnds(v) \/ List(v) \/ OpenTmp(v)
    PROVE  Heard(u)
  <1>1. handler \in [Updates -> Handlers]
    BY DEF ChainIInv, HandlerInv
  <1>2. handler'[u] = handler[u] \/ handler'[u].pc # "idle"
    <2>1. CASE u = v
      BY <1>1, <2>1 DEF Handlers, Goto, Apologize, Idle, CreateSession, Save, WaitEnds, List, OpenTmp
    <2>2. CASE u # v
      BY <1>1, <2>2 DEF Handlers, Goto, Apologize, Idle, CreateSession, Save, WaitEnds, List, OpenTmp
    <2> QED BY <2>1, <2>2
  <1> QED BY <1>2 DEF Heard

LEMMA HandleTells ==
    ASSUME ChainIInv, NEW v \in Updates, Handle(v), NEW u \in Updates PROVE Heard(u)
  <1>1. CASE TooOld(v) \/ Reply(v) \/ Sorry(v)
    <2>1. \E kind \in {"stale", "reply", "sorry"} : \E of : Return(v, kind, of)
      BY <1>1 DEF TooOld, Reply, Sorry
    <2> QED BY <2>1, ReturnTells
  <1>2. CASE HasSession(v) \/ NeedsSession(v) \/ Post(v) \/ WriteTmp(v)
    <2>1. \E pc \in {"create", "post", "wait", "rename"} : Goto(v, pc)
      BY <1>2 DEF HasSession, NeedsSession, Post, WriteTmp
    <2> QED BY <2>1, StaysBusy
  <1>3. CASE \/ CreateFails(v) \/ PostFails(v) \/ WaitTimesOut(v) \/ ReplyFails(v)
             \/ RenameFails(v)
    <2>1. Apologize(v)
      BY <1>3 DEF CreateFails, PostFails, WaitTimesOut, ReplyFails, RenameFails
    <2> QED BY <2>1, StaysBusy
  <1>4. CASE CreateSession(v) \/ WaitEnds(v) \/ List(v) \/ OpenTmp(v)
    BY <1>4, StaysBusy
  <1>5. CASE RenameTmp(v)
    <2>1. handler \in [Updates -> Handlers] /\ handler[v].then \in {"post", "reply"}
      BY <1>5 DEF ChainIInv, HandlerInv, RenameTmp, At
    <2>2. CASE u = v
      BY <1>5, <2>1, <2>2 DEF RenameTmp, Handlers, Heard
    <2>3. CASE u # v
      BY <1>5, <2>1, <2>3 DEF RenameTmp, Handlers, Heard
    <2> QED BY <2>2, <2>3
  <1> QED BY <1>1, <1>2, <1>3, <1>4, <1>5 DEF Handle

LEMMA StepTells == ASSUME ChainIInv, TelegramNext, NEW u \in Updates PROVE Heard(u)
  <1>1. CASE Poll
    <2>1. handler'[u] = handler[u] \/ handler'[u].pc # "idle"
      BY <1>1 DEF Poll, Idle
    <2> QED BY <2>1 DEF Heard
  <1>2. CASE Dies
    BY <1>2 DEF Dies, Heard
  <1>3. ASSUME NEW v \in Updates, Handle(v) PROVE Heard(u)
    BY <1>3, HandleTells
  <1>4. CASE UserSends \/ Restart
    BY <1>4 DEF UserSends, Restart, Heard
  <1>5. ASSUME NEW c \in Chats, ContainerReady(c) \/ TurnEnds(c) \/ TurnFails(c) PROVE Heard(u)
    BY <1>5 DEF ContainerReady, TurnEnds, TurnFails, Heard
  <1> QED BY <1>1, <1>2, <1>3, <1>4, <1>5 DEF TelegramNext, Kill, SorryFails

(* No step ends a handler, other than by the end of the process, without a  *)
(* word to its chat: the answer, the apology or, to one that is too old,    *)
(* that it is: the safety half of UpdatesSettle.                            *)
THEOREM NobodyIsIgnored == Spec => NobodyIgnored
  <1>1. ASSUME ChainIInv, [Next]_vars, UNCHANGED adapterVars \/ TelegramNext, NEW u \in Updates
        PROVE  Heard(u)
    <2>1. CASE UNCHANGED adapterVars
      BY <2>1 DEF adapterVars, Heard
    <2> QED BY <1>1, <2>1, StepTells
  <1>2. [Next]_vars => UNCHANGED adapterVars \/ TelegramNext
    BY DEF Next, vars, ChatPart, TelegramPart
  <1>3. ChainIInv /\ [Next]_vars =>
            [\A u \in Updates :
                handler[u].pc # "idle" /\ handler'[u].pc = "idle" /\ up' =>
                told'[u].kind # "none"]_adapterVars
    BY <1>1, <1>2 DEF Heard
  <1> QED BY <1>3, ChainAlways, PTL DEF Spec, NobodyIgnored
=============================================================================
