----------------------------- MODULE RunService -----------------------------
(***************************************************************************)
(* What the orchestrator promises about the messages of one session,        *)
(* without containers, retries, probes, gateways or awaits: it runs the     *)
(* accepted messages one at a time and in their order, Pi is given each at  *)
(* most once, and the end of a run, good or bad, settles what waits behind  *)
(* it.                                                                      *)
(*                                                                          *)
(* The promise has two grades.  Until a client cancels or streams, every    *)
(* step is one of the orderly ones.  From then on the session is disturbed: *)
(* runs may overlap and a session may leave the flight while one of them is *)
(* live, but a message still only moves forward, Pi is only given what is   *)
(* being run, and what was lost stays lost.                                 *)
(*                                                                          *)
(* SessionService shows that SessionRouter keeps it.                        *)
(***************************************************************************)
EXTENDS Integers, Sequences, SequencesExt

CONSTANT Msgs

VARIABLES
    status,     \* the session's status, "none" once deleted
    backlog,    \* the accepted messages that wait, oldest first
    phase,      \* per message: new, waiting, running, answered or lost
    given,      \* the messages Pi was given, in order
    disturbed   \* has a client cancelled or streamed?

serviceVars == <<status, backlog, phase, given, disturbed>>

InFlight == status \in {"starting", "running"}

Waiting == {m \in Msgs : phase[m] = "waiting"}

Init ==
    /\ status = "idle" /\ backlog = <<>> /\ given = <<>>
    /\ phase = [m \in Msgs |-> "new"]
    /\ disturbed = FALSE

(* A message for a session at rest is run at once ...                       *)
Start(m) ==
    /\ phase[m] = "new" /\ status \in {"idle", "failed"}
    /\ status' = "starting"
    /\ phase' = [phase EXCEPT ![m] = "running"]
    /\ UNCHANGED <<backlog, given>>

(* ... one for a session in flight waits its turn.                          *)
Enqueue(m) ==
    /\ phase[m] = "new" /\ InFlight
    /\ backlog' = Append(backlog, m)
    /\ phase' = [phase EXCEPT ![m] = "waiting"]
    /\ UNCHANGED <<status, given>>

(* The container of the run is ready.                                       *)
MarkRunning ==
    /\ status = "starting" /\ status' = "running"
    /\ \E m \in Msgs : phase[m] = "running"
    /\ UNCHANGED <<backlog, phase, given>>

Give(m) ==
    /\ phase[m] = "running" /\ m \notin ToSet(given)
    /\ given' = Append(given, m)
    /\ UNCHANGED <<status, backlog, phase>>

(* The run is over: the oldest waiting message is next, or the session      *)
(* rests.                                                                   *)
Finish(m) ==
    /\ phase[m] = "running" /\ m \in ToSet(given)
    /\ \/ /\ backlog # <<>> /\ backlog' = Tail(backlog)
          /\ phase' = [phase EXCEPT ![m] = "answered", ![Head(backlog)] = "running"]
          /\ UNCHANGED status
       \/ /\ backlog = <<>>
          /\ phase' = [phase EXCEPT ![m] = "answered"]
          /\ status' = IF status = "none" THEN "none" ELSE "idle"
          /\ UNCHANGED backlog
    /\ UNCHANGED given

(* What waits is lost with the run that failed before it.                   *)
Fail(m) ==
    /\ phase[m] = "running"
    /\ \/ /\ InFlight /\ status' = "failed" /\ backlog' = <<>>
          /\ phase' = [n \in Msgs |-> IF n = m \/ phase[n] = "waiting" THEN "lost"
                                      ELSE phase[n]]
       \/ /\ ~InFlight /\ phase' = [phase EXCEPT ![m] = "lost"]
          /\ UNCHANGED <<status, backlog>>
    /\ UNCHANGED given

(* The two halves of a delete: forget what waits, remove the session.       *)
Forget ==
    /\ status # "none" /\ backlog' = <<>>
    /\ phase' = [m \in Msgs |-> IF phase[m] = "waiting" THEN "lost" ELSE phase[m]]
    /\ UNCHANGED <<status, given>>

Delete == status' = "none" /\ UNCHANGED <<backlog, phase, given>>

Orderly ==
    /\ ~disturbed /\ UNCHANGED disturbed
    /\ \/ \E m \in Msgs : Start(m) \/ Enqueue(m) \/ Give(m) \/ Finish(m) \/ Fail(m)
       \/ MarkRunning \/ Forget \/ Delete

(* The moves a message may make in a disturbed session.                     *)
Forward(m) ==
    \/ phase'[m] = phase[m]
    \/ phase[m] = "new" /\ phase'[m] = "running" /\ status \in {"idle", "failed"}
    \/ phase[m] = "new" /\ phase'[m] = "waiting" /\ InFlight
    \/ phase[m] = "waiting" /\ phase'[m] \in {"running", "lost"}
    \/ phase[m] = "running" /\ phase'[m] = "lost"
    \/ phase[m] = "running" /\ phase'[m] = "answered" /\ m \in ToSet(given)

Disturbed ==
    /\ disturbed'
    /\ \A m \in Msgs : Forward(m)
    /\ \/ given' = given
       \/ \E m \in Msgs : /\ phase[m] = "running" /\ m \notin ToSet(given)
                          /\ given' = Append(given, m)
    /\ ToSet(backlog') = Waiting'
    /\ status = "none" => status' = "none"

Next == Orderly \/ Disturbed

Spec == Init /\ [][Next]_serviceVars
=============================================================================
