------------------------------- MODULE PiLog -------------------------------
(***************************************************************************)
(* What PiJsonlEventReader (src/store/pi-jsonl.ts) makes of a session's     *)
(* JSONL, the file Pi appends one line to per model change, user message,   *)
(* assistant message and tool result, and the orchestrator only reads.      *)
(*                                                                          *)
(* A log is the sequence of the file's complete lines, a line's Pi id is    *)
(* its position.  A line is a record of what the mapping looks at:          *)
(*   role      "meta" (model change, thinking level, compaction), "user",   *)
(*             "assistant" or "toolResult"                                  *)
(*   text      has the message text to show (extractText,                   *)
(*             extractAssistantText)?                                       *)
(*   notice    is the text one of the runtime's own notices?                *)
(*   thinking, tools   how many thinking and tool-call blocks it has        *)
(***************************************************************************)
EXTENDS Integers, Sequences, SequencesExt

Lines == [role : {"meta", "user", "assistant", "toolResult"},
          text : BOOLEAN, notice : BOOLEAN, thinking : Nat, tools : Nat]

Event(type, n, part, k) == [type |-> type, id |-> <<part, n, k>>]

MapBlocks(type, n, part, count) ==
    [k \in 1 .. count |-> Event(type, n, part, k)]

(* One of the assistant's lines: its thinking, then its tool calls, then    *)
(* its text, which is dropped when empty (a retry, an error).               *)
MapAssistant(line, n) ==
    MapBlocks("agent.thinking", n, "thinking", line.thinking)
    \o MapBlocks("agent.tool_use", n, "tool", line.tools)
    \o IF line.text THEN <<Event("agent.message", n, "line", 0)>> ELSE <<>>

(* A user line is a turn, unless it is one of the runtime's notices.        *)
MapUser(line, n) ==
    IF ~line.text THEN <<>>
    ELSE IF line.notice THEN <<Event("session.runtime_notice", n, "line", 0)>>
    ELSE <<Event("user.message", n, "line", 0)>>

MapLineToEvents(line, n) ==
    CASE line.role = "meta"       -> <<Event("session.meta", n, "line", 0)>>
      [] line.role = "user"       -> MapUser(line, n)
      [] line.role = "assistant"  -> MapAssistant(line, n)
      [] line.role = "toolResult" -> <<Event("agent.tool_result", n, "line", 0)>>

(* listBySession: re-read and re-parse; a partial line at the tail does not *)
(* parse and is skipped, so that only complete lines count.                 *)
ListBySession(log) ==
    FlattenSeq([n \in 1 .. Len(log) |-> MapLineToEvents(log[n], n)])

(* The events are looked at from the last one backwards.                    *)
LatestOf(log, types) ==
    LET events == ListBySession(log)
        places == {k \in DOMAIN events : events[k].type \in types}
    IN  IF places = {} THEN {} ELSE {events[Max(places)]}

(* The latest answer and the latest outcome: the empty set if there is none.*)
LatestAgentMessage(log) == LatestOf(log, {"agent.message"})
LatestAgentOutcome(log) == LatestOf(log, {"agent.message", "agent.tool_result"})

CountUserTurns(log) ==
    Len(SelectSeq(ListBySession(log), LAMBDA e : e.type = "user.message"))

Ids(events) == [i \in DOMAIN events |-> events[i].id]

(* The lines a model draws from.                                            *)
Line(role, text, notice, thinking, tools) ==
    [role |-> role, text |-> text, notice |-> notice,
     thinking |-> thinking, tools |-> tools]
UserLine   == Line("user", TRUE, FALSE, 0, 0)
NoticeLine == Line("user", TRUE, TRUE, 0, 0)
AnswerLine == Line("assistant", TRUE, FALSE, 0, 0)
CallLine   == Line("assistant", FALSE, FALSE, 1, 1)
EmptyLine  == Line("assistant", FALSE, FALSE, 0, 0)
ResultLine == Line("toolResult", TRUE, FALSE, 0, 0)
MetaLine   == Line("meta", FALSE, FALSE, 0, 0)
=============================================================================
