--------------------------- MODULE ChatCompletions ---------------------------
(***************************************************************************)
(* Blocking POST /v1/chat/completions (src/orchestrator/server.ts): the     *)
(* requests of one session, which is either a named one that other clients  *)
(* post events to as well, or an ephemeral one made for a single request.   *)
(*                                                                          *)
(* The session is RunService's: SessionService shows that AgentRouter keeps *)
(* that promise (nobody cancels or streams here).  What this module adds is *)
(* the session's JSONL, which decides when a turn has advanced, the         *)
(* snapshots that the router and the handler take of it, the handler's poll *)
(* and clean-up, and the pool's container with its reaper.                  *)
(*                                                                          *)
(* A handler is between two awaits everywhere but in its poll, so a request *)
(* is "asked" until a round of the poll or its timeout answers it.          *)
(***************************************************************************)
EXTENDS PiLog, FiniteSets

CONSTANTS
    Msgs,          \* the messages clients may send, each at most once
    Blocking,      \* those sent as blocking chat completions
    Shapes,        \* the lines Pi writes in a turn, after the user's
    MaxTurnLines   \* bound: how many of them

ASSUME ChatAssumption ==
    /\ Blocking \subseteq Msgs /\ Shapes \subseteq Lines
    /\ MaxTurnLines \in Nat \ {0}

VARIABLES
    status, backlog, phase, given,   \* as in RunService
    ephemeral,   \* is the session an ephemeral one?
    marked,      \* the messages whose run has reached its POST
    base,        \* per message: the router's snapshot, user turns and outcome
    log,         \* the session's JSONL
    owner,       \* per line of it: the message whose turn wrote it
    late,        \* finished turns whose outcome is still to be written
    box,         \* does the pool hold a container for the session?
    reaping,     \* the reaper took that container and has not cleaned up yet
    req,         \* per message: its request
    before,      \* per request: the handler's snapshot of the latest outcome
    calm,        \* the requests asked while no outcome was late
    cut,         \* the requests that timed out, lost their session or were settled
                 \* before their outcome was written
    heard        \* per request: whose outcome and message its answer is

run == <<status, backlog, phase, given>>
file == <<log, owner>>
client == <<req, before, calm, cut, heard>>
chatVars == <<run, ephemeral, marked, base, file, late, box, reaping, client>>

Runs == INSTANCE RunService WITH disturbed <- FALSE

None == "none"
ASSUME NoneAssumption == None \notin Msgs

Answer(outcome, message) == [outcome |-> outcome, message |-> message]
Silence == Answer(None, None)

ChatTypeOK ==
    /\ status \in {"none", "idle", "starting", "running", "failed"}
    /\ ToSet(backlog) = Runs!Waiting /\ ToSet(given) \subseteq marked
    /\ marked \subseteq {m \in Msgs : phase[m] \in {"running", "answered", "lost"}}
    /\ Len(log) = Len(owner) /\ late \subseteq {m \in Msgs : phase[m] = "answered"}
    /\ req \in [Msgs -> {"new", "asked", "busy", "ok", "error"}]
    /\ \A m \in Msgs : heard[m] # Silence <=> req[m] = "ok"
    /\ reaping => ephemeral /\ ~box

ChatInit ==
    /\ Runs!Init
    /\ ephemeral \in BOOLEAN
    /\ marked = {} /\ base = [m \in Msgs |-> <<0, {}>>]
    /\ log = <<>> /\ owner = <<>> /\ late = {}
    /\ box = FALSE /\ reaping = FALSE
    /\ req = [m \in Msgs |-> "new"] /\ before = [m \in Msgs |-> {}]
    /\ calm = {} /\ cut = {} /\ heard = [m \in Msgs |-> Silence]

----------------------------------------------------------------------------
(* The runs.                                                                *)

(* snapshotTurnProgress, and the container that acquireWithRetry returned.  *)
Dispatch(m) ==
    /\ phase[m] = "running" /\ m \notin marked
    /\ marked' = marked \cup {m} /\ box' = TRUE
    /\ base' = [base EXCEPT ![m] = <<CountUserTurns(log), LatestAgentOutcome(log)>>]
    /\ Runs!MarkRunning \/ (status # "starting" /\ UNCHANGED run)
    /\ UNCHANGED <<ephemeral, file, late, reaping, client>>

(* A line of m's turn; one of a deleted session is nobody's to read.        *)
Writes(m, line) ==
    IF status = "none" THEN UNCHANGED file
    ELSE log' = Append(log, line) /\ owner' = Append(owner, m)

PiTakes(m) ==
    /\ m \in marked /\ Runs!Give(m)
    /\ Writes(m, UserLine)
    /\ UNCHANGED <<ephemeral, marked, base, late, box, reaping, client>>

PiWrites(m) ==
    /\ phase[m] = "running" /\ m \in ToSet(given) /\ status # "none"
    /\ Cardinality({i \in DOMAIN owner : owner[i] = m}) \in 1 .. MaxTurnLines
    /\ \E line \in Shapes : Writes(m, line)
    /\ UNCHANGED <<run, ephemeral, marked, base, late, box, reaping, client>>

UserTurnDurable(m) == CountUserTurns(log) > base[m][1]

(* There is an outcome, and it is not the one of the snapshot.              *)
NewOutcome(old) == LatestAgentOutcome(log) \notin {{}, old}

(* assertTurnAdvanced.                                                      *)
TurnAdvanced(m) == UserTurnDurable(m) /\ NewOutcome(base[m][2])

(* The POST returned and the turn is in the log.                            *)
Settles(m) ==
    /\ Runs!Finish(m) /\ TurnAdvanced(m)
    /\ UNCHANGED <<ephemeral, marked, base, file, late, box, reaping, client>>

(* waitForTurnAdvanced gave up on the outcome, which the reply has.         *)
SettlesLate(m) ==
    /\ Runs!Finish(m) /\ UserTurnDurable(m) /\ ~NewOutcome(base[m][2])
    /\ late' = late \cup {m} /\ cut' = cut \cup {m}
    /\ UNCHANGED <<ephemeral, marked, base, file, box, reaping, req, before, calm,
                   heard>>

(* The outcome gets to the disk after all.                                  *)
LateOutcome(m) ==
    /\ m \in late /\ late' = late \ {m}
    /\ Writes(m, AnswerLine)
    /\ UNCHANGED <<run, ephemeral, marked, base, box, reaping, client>>

(* handleBackgroundFailure: the container goes, if the run was current.     *)
Fails(m) ==
    /\ Runs!Fail(m)
    /\ box' = (box /\ ~Runs!InFlight)
    /\ UNCHANGED <<ephemeral, marked, base, file, late, reaping, client>>

----------------------------------------------------------------------------
(* Mutant: a session that a client named is reaped as well.                 *)
Reap_Named ==
    /\ box /\ ~Runs!InFlight /\ status # "none"
    /\ box' = FALSE /\ reaping' = TRUE
    /\ UNCHANGED <<run, ephemeral, marked, base, file, late, client>>

(* The reaper: only the container of an ephemeral session, not in flight,   *)
(* is reaped; its session and its log go when it has stopped.  How long ago *)
(* the container was acquired is all that counts, so a run may just have    *)
(* ended.                                                                   *)
Reap ==
    /\ box /\ ~Runs!InFlight
    /\ ephemeral /\ status # "none"
    /\ box' = FALSE /\ reaping' = TRUE
    /\ UNCHANGED <<run, ephemeral, marked, base, file, late, client>>

(* Mutant: the reaped session's row stays.                                  *)
CleanupOnReap_KeepRow ==
    /\ reaping /\ reaping' = FALSE
    /\ log' = <<>> /\ owner' = <<>>
    /\ UNCHANGED <<run, ephemeral, marked, base, late, box, client>>

CleanupOnReap ==
    /\ reaping /\ reaping' = FALSE
    /\ Runs!Delete /\ log' = <<>> /\ owner' = <<>>
    /\ UNCHANGED <<ephemeral, marked, base, late, box, client>>

----------------------------------------------------------------------------
(* The clients.                                                             *)

(* POST /v1/sessions/:id/events, for sessions whose id a client knows.      *)
NativePost(m) ==
    /\ m \notin Blocking /\ ~ephemeral
    /\ Runs!Start(m) \/ Runs!Enqueue(m)
    /\ UNCHANGED <<ephemeral, marked, base, file, late, box, reaping, client>>

(* Mutant: the handler's snapshot of the latest outcome is left out.        *)
Ask_NoSnapshot(m) ==
    /\ m \in Blocking /\ (ephemeral => \A n \in Msgs : phase[n] = "new")
    /\ Runs!Start(m)
    /\ req' = [req EXCEPT ![m] = "asked"]
    /\ calm' = IF late = {} THEN calm \cup {m} ELSE calm
    /\ UNCHANGED <<before, ephemeral, marked, base, file, late, box, reaping, cut,
                   heard>>

(* A chat completion: the snapshot and the run that starts, in one go.  An  *)
(* ephemeral session is made for the one request.                           *)
Ask(m) ==
    /\ m \in Blocking /\ (ephemeral => \A n \in Msgs : phase[n] = "new")
    /\ Runs!Start(m)
    /\ req' = [req EXCEPT ![m] = "asked"]
    /\ before' = [before EXCEPT ![m] = LatestAgentOutcome(log)]
    /\ calm' = IF late = {} THEN calm \cup {m} ELSE calm
    /\ UNCHANGED <<ephemeral, marked, base, file, late, box, reaping, cut, heard>>

(* rejectIfBusy.                                                            *)
Busy(m) ==
    /\ m \in Blocking /\ req[m] = "new" /\ phase[m] = "new" /\ ~ephemeral
    /\ Runs!InFlight
    /\ req' = [req EXCEPT ![m] = "busy"]
    /\ UNCHANGED <<run, ephemeral, marked, base, file, late, box, reaping, before,
                   calm, cut, heard>>

(* An error reply, after cleanupEphemeralOnError.                           *)
Error(m) ==
    /\ req' = [req EXCEPT ![m] = "error"]
    /\ \/ ephemeral /\ Runs!Delete /\ log' = <<>> /\ owner' = <<>>
       \/ ~ephemeral /\ UNCHANGED <<run, file>>
    /\ UNCHANGED <<ephemeral, marked, base, late, box, reaping, before, calm, heard>>

PollGone(m) ==
    /\ req[m] = "asked" /\ status = "none"
    /\ cut' = cut \cup {m} /\ Error(m)

(* Mutant: only a message of the agent counts as the outcome of a turn.     *)
LeftOutcome_Message(m) == LatestAgentMessage(log) \notin {{}, before[m]}

(* Stale detection: the latest outcome is not the one of the snapshot.      *)
LeftOutcome(m) == NewOutcome(before[m])

(* The run failed, or it finished and left nothing new in the log.          *)
PollError(m) ==
    /\ req[m] = "asked"
    /\ status = "failed" \/ (status = "idle" /\ ~LeftOutcome(m))
    /\ UNCHANGED cut /\ Error(m)

OwnerOf(found) ==
    IF found = {} THEN None ELSE owner[(CHOOSE e \in found : TRUE).id[2]]

(* The answer: the latest message, under the latest outcome's id.           *)
PollOk(m) ==
    /\ req[m] = "asked" /\ status = "idle" /\ LeftOutcome(m)
    /\ req' = [req EXCEPT ![m] = "ok"]
    /\ heard' = [heard EXCEPT ![m] = Answer(OwnerOf(LatestAgentOutcome(log)),
                                            OwnerOf(LatestAgentMessage(log)))]
    /\ UNCHANGED <<run, ephemeral, marked, base, file, late, box, reaping, before,
                   calm, cut>>

(* Ten minutes went by.                                                     *)
PollTimesOut(m) ==
    /\ req[m] = "asked" /\ Runs!InFlight
    /\ cut' = cut \cup {m} /\ Error(m)

RunStep(m) ==
    \/ Dispatch(m) \/ PiTakes(m) \/ Settles(m) \/ SettlesLate(m) \/ Fails(m)

ChatNext ==
    \/ \E m \in Msgs :
          \/ RunStep(m) \/ PiWrites(m) \/ LateOutcome(m)
          \/ NativePost(m) \/ Ask(m) \/ Busy(m)
          \/ PollGone(m) \/ PollError(m) \/ PollOk(m) \/ PollTimesOut(m)
    \/ Reap \/ CleanupOnReap

(* Runs come to their end, handlers poll, the sweeper runs.  Clients need   *)
(* not come, and Pi need not write.                                         *)
ChatStep ==
    \/ \E m \in Msgs : RunStep(m) \/ PollGone(m) \/ PollError(m) \/ PollOk(m)
    \/ Reap \/ CleanupOnReap

----------------------------------------------------------------------------
(* Properties.                                                              *)

Place(m) == CHOOSE i \in DOMAIN given : given[i] = m

(* A completion is never an outcome of an earlier turn, although the        *)
(* request has no id to follow its turn by: only the snapshot it took (the  *)
(* handler's stale detection), provided no earlier turn's outcome was still *)
(* on its way to the disk then.                                             *)
NeverStale ==
    \A m \in calm : req[m] = "ok" =>
        /\ heard[m].outcome # None
        /\ m \in ToSet(given) => Place(heard[m].outcome) >= Place(m)

(* A turn that went well is not reported as an error, tool-only turns       *)
(* included, unless the request was cut short, its outcome was late, or     *)
(* other turns ran before the handler looked.                               *)
NoFalseError ==
    \A m \in Blocking :
        req[m] = "error" /\ phase[m] = "answered" =>
            \/ m \in cut
            \/ given # <<>> /\ Last(given) # m
            \/ \E n \in Msgs \ {m} : phase[n] # "new"

(* A blocking completion tells of its own turn, or of a later one.          *)
ChatInv == ChatTypeOK /\ NeverStale /\ NoFalseError

(* An ephemeral session that answered goes, its container, row and log, and *)
(* with them whatever the client could still ask it.                        *)
EphemeralReaped ==
    []<>(\A m \in Blocking :
             ephemeral /\ req[m] = "ok" => ~box /\ status = "none" /\ log = <<>>)

(* The message of an answer is of the request's own turn.                   *)
OwnAnswer == \A m \in Blocking : heard[m].message \in {None, m}

(* An ephemeral session that was cleaned up on an error has no container    *)
(* left once its run is over.                                               *)
ErrorReaped ==
    []<>(\A m \in Blocking : ephemeral /\ req[m] = "error" => ~box)
=============================================================================
