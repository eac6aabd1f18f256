--------------------------- MODULE SessionService ---------------------------
(***************************************************************************)
(* SessionRouter implements RunService: a task that is refreshing,          *)
(* acquiring, probing, posting, relaying, settling or failing is one        *)
(* running message, and every step of a retry, an eviction or a cancel in   *)
(* progress is a stutter.                                                   *)
(***************************************************************************)
EXTENDS SessionRouter

PhaseOf(m) ==
    CASE pc[m] = "new"    -> "new"
      [] pc[m] = "queued" -> "waiting"
      [] pc[m] = "done"   -> "answered"
      [] pc[m] \in {"failed", "aborted", "dropped"} -> "lost"
      [] OTHER            -> "running"

Service == INSTANCE RunService WITH
    backlog   <- queue,
    phase     <- [m \in Msgs |-> PhaseOf(m)],
    given     <- received,
    disturbed <- cancels > 0 \/ \E m \in Msgs : mode[m] = "stream"

(* AgentRouter keeps the promise of RunService, for all client operations,  *)
(* failures and retries: until the first cancel or stream the accepted      *)
(* messages are run one at a time, in order, each given to Pi at most once, *)
(* and a failure loses what waits behind it; afterwards messages only move  *)
(* forward.                                                                 *)
KeepsService == Service!Spec
=============================================================================
