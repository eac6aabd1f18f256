---------------------------- MODULE MCTurnClients ----------------------------
(***************************************************************************)
(* The clients that post a message and wait for the session to rest before  *)
(* they read the answer: the chat.completions handler and the Telegram      *)
(* adapter.  They share no state (each has sessions of its own), so that a  *)
(* behaviour is of one or the other.                                        *)
(***************************************************************************)
EXTENDS ChatCompletions, TelegramAdapter

CONSTANTS a, b

TurnShapes == {CallLine, ResultLine, AnswerLine}

(* Two chats, and two updates of one chat.                                  *)
MCTraffic == {<<a, b>>, <<a, a>>}

VARIABLE part   \* "chat" or "telegram"

vars == <<part, chatVars, adapterVars>>

Init ==
    /\ part \in {"chat", "telegram"} /\ ChatInit /\ TelegramInit
    /\ part # "chat" => ~ephemeral
    /\ part # "telegram" => chatOf = CHOOSE t \in Traffic : TRUE

ChatPart     == part = "chat" /\ UNCHANGED <<part, adapterVars>>
TelegramPart == part = "telegram" /\ UNCHANGED <<part, chatVars>>

Next == (ChatPart /\ ChatNext) \/ (TelegramPart /\ TelegramNext)

(* Every step of either is one of finitely many, so that it is enough that  *)
(* some step is taken while there is one.                                   *)
Fairness ==
    /\ WF_vars(ChatPart /\ ChatStep)
    /\ WF_vars(TelegramPart /\ AdapterStep)

Spec == Init /\ [][Next]_vars

FairSpec == Spec /\ Fairness
=============================================================================
