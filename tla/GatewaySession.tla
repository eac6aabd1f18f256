--------------------------- MODULE GatewaySession ---------------------------
(***************************************************************************)
(* What passes between the router and ONE session's containers over their   *)
(* gateway WebSocket: GatewayWebSocketClient (src/runtime/gateway-ws.ts)    *)
(* with its pending requests, and the approvals AgentRouter keeps for an    *)
(* agent whose policy is always_ask (src/orchestrator/router.ts).           *)
(*                                                                          *)
(* The gateway (external) answers requests and broadcasts approval events   *)
(* on one ordered connection.  The client hands a reply to the promise of   *)
(* its request, and what awaits the promise runs when the message handlers  *)
(* have returned: the reply is "settling" until then.  Frames that came in  *)
(* one chunk are handled one after the other before that, nothing else is.  *)
(***************************************************************************)
EXTENDS Integers, Sequences, FiniteSets

CONSTANTS
    Approvals,   \* approvals the agents may ask for, each once
    MaxClients,  \* bound: gateway connections opened for the session
    MaxCalls,    \* bound: requests sent to the gateway
    Chunks       \* may several frames come in one chunk?

ASSUME GatewayAssumption ==
    /\ MaxClients \in Nat \ {0} /\ MaxCalls \in Nat \ {0}
    /\ Chunks \in BOOLEAN

VARIABLES
    run,        \* the session: "idle", "prepare" (acquireWithRetry) or "turn"
    live,        \* is there a container?
    client,     \* the number of the pool entry's WebSocket client
    connected,  \* is it connected?
    sub,        \* approvalSubscriptions: the client listened to, 0 if none
    shown,      \* pendingApprovals of the session
    call,       \* per request: what it is and how far it got
    calls,      \* requests sent (bounded by MaxCalls)
    gateway,    \* the container's approvals waiting for a decision
    asked,      \* approvals asked for so far
    wire,       \* frames from the gateway, oldest first
    synced,     \* has the client's last approval list succeeded, and has no
                \* event overtaken it?  (a condition of the properties)
    overtaken   \* has an event been handled since that list's reply?

router == <<run, sub, shown, synced, overtaken>>
socket == <<live, client, connected, wire>>
agent  == <<gateway, asked>>
gatewayVars   == <<router, socket, agent, call, calls>>

CallIds == 1 .. MaxCalls
Kinds   == {"none", "list", "resolve", "compact"}
Stages  == {"unused", "sent", "answered", "settling", "settled"}
NoCall  == [kind |-> "none", about |-> {}, client |-> 0, stage |-> "unused",
            ok |-> FALSE]

GatewayTypeOK ==
    /\ run \in {"idle", "prepare", "turn"}
    /\ client \in 0 .. MaxClients /\ sub \in 0 .. client
    /\ connected => live
    /\ run # "idle" => live
    /\ shown \subseteq asked /\ gateway \subseteq asked /\ asked \subseteq Approvals
    /\ ~live => gateway = {}
    /\ calls \in 0 .. MaxCalls
    /\ call \in [CallIds -> [kind : Kinds, about : SUBSET Approvals,
                             client : 0 .. MaxClients, stage : Stages,
                             ok : BOOLEAN]]
    /\ synced \in BOOLEAN /\ overtaken \in BOOLEAN

(* A session that has never run, or one adopted at startup in the middle of *)
(* a run: observeAdoptedSession subscribes and asks for the list.           *)
GatewayInit ==
    /\ shown = {} /\ wire = <<>> /\ synced = FALSE /\ overtaken = FALSE
    /\ \/ /\ run = "idle" /\ live = FALSE /\ connected = FALSE
          /\ client = 0 /\ sub = 0 /\ calls = 0
          /\ asked = {} /\ gateway = {}
          /\ call = [n \in CallIds |-> NoCall]
       \/ /\ run = "turn" /\ live = TRUE /\ connected = TRUE
          /\ client = 1 /\ sub = 1 /\ calls = 1
          /\ asked \in SUBSET Approvals /\ gateway = asked
          /\ call = [n \in CallIds |->
                        IF n = 1 THEN [NoCall EXCEPT !.kind = "list",
                                          !.client = 1, !.stage = "sent"]
                        ELSE NoCall]

----------------------------------------------------------------------------
(* The client's requests.                                                   *)

Waiting(n)  == call[n].stage \in {"sent", "answered"}
Settling(n) == call[n].stage = "settling"
Quiescent   == \A n \in CallIds : ~Settling(n)

(* request: it is refused at once when the client is not connected.         *)
Request(kind, about, who, open) ==
    /\ calls < MaxCalls /\ calls' = calls + 1
    /\ call' = [call EXCEPT ![calls'] =
                  [kind |-> kind, about |-> about, client |-> who, ok |-> FALSE,
                   stage |-> IF open THEN "sent" ELSE "settling"]]

(* handleSocketError, handleSocketClose, close: every request outstanding   *)
(* is rejected.                                                             *)
RejectAll ==
    [n \in CallIds |->
        IF Waiting(n) THEN [call[n] EXCEPT !.stage = "settling", !.ok = FALSE]
        ELSE call[n]]

(* pool.evictSession: the client is closed, the container goes.             *)
EvictRuntime ==
    /\ live' = FALSE /\ connected' = FALSE /\ wire' = <<>> /\ gateway' = {}
    /\ call' = RejectAll
    /\ UNCHANGED <<client, calls, asked>>

(* Mutant: a session subscribes once, whatever client it has by then.       *)
Subscribe_Once(who) == sub' = IF sub = 0 THEN who ELSE sub

(* ensureApprovalSubscriptions: the listeners of another client go.         *)
Subscribe(who) == sub' = who

(* The run acquires its container: a new one, its own, or its own over a    *)
(* new connection when the old one was lost.  Then it subscribes and asks   *)
(* for the list of pending approvals.                                       *)
StartRun ==
    /\ Quiescent /\ run = "idle" /\ run' = "prepare"
    /\ connected \/ client < MaxClients
    /\ LET who == IF connected THEN client ELSE client + 1
       IN  /\ client' = who /\ connected' = TRUE /\ live' = TRUE
           /\ Subscribe(who)
           /\ Request("list", {}, who, TRUE)
    /\ synced' = FALSE
    /\ UNCHANGED <<shown, overtaken, wire, gateway, asked>>

(* confirmTool, called for an approval the client was shown at some time.   *)
ConfirmTool ==
    /\ Quiescent /\ live
    /\ \E a \in asked : Request("resolve", {a}, client, connected)
    /\ UNCHANGED <<router, socket, agent>>

(* compact: refused while a run is in flight or without a container.        *)
Compact ==
    /\ Quiescent /\ run = "idle" /\ live
    /\ Request("compact", {}, client, connected)
    /\ UNCHANGED <<router, socket, agent>>

----------------------------------------------------------------------------
(* The runtime's gateway and agent.                                         *)

(* The agent wants to use a tool: it blocks on the answer.                  *)
AgentAsks ==
    /\ Quiescent /\ run = "turn" /\ live
    /\ \E a \in Approvals \ asked :
          /\ asked' = asked \cup {a} /\ gateway' = gateway \cup {a}
          /\ wire' = IF connected
                     THEN Append(wire, [type |-> "requested", about |-> {a}, of |-> 0,
                                        ok |-> TRUE])
                     ELSE wire
    /\ UNCHANGED <<router, live, client, connected, call, calls>>

Resolved(a) == [type |-> "resolved", about |-> {a}, of |-> 0, ok |-> TRUE]

(* Nobody decided in time: the plugin denies.                               *)
ApprovalExpires ==
    /\ Quiescent
    /\ \E a \in gateway :
          /\ gateway' = gateway \ {a}
          /\ wire' = IF connected THEN Append(wire, Resolved(a)) ELSE wire
    /\ UNCHANGED <<router, live, client, connected, asked, call, calls>>

(* The gateway handles a request of the connected client, in any order.     *)
GatewayAnswers ==
    /\ Quiescent /\ connected
    /\ \E n \in CallIds :
          /\ call[n].stage = "sent" /\ call[n].client = client
          /\ LET about == call[n].about
                 known == about \subseteq gateway
                 reply(ok, what) == [type |-> "reply", about |-> what, of |-> n,
                                     ok |-> ok]
             IN  CASE call[n].kind = "list" ->
                        wire' = Append(wire, reply(TRUE, gateway)) /\ gateway' = gateway
                   [] call[n].kind = "compact" ->
                        /\ \E ok \in BOOLEAN : wire' = Append(wire, reply(ok, {}))
                        /\ gateway' = gateway
                   [] call[n].kind = "resolve" ->
                        /\ gateway' = gateway \ about
                        /\ wire' = IF known
                                   THEN wire \o <<Resolved(CHOOSE a \in about : TRUE),
                                                  reply(TRUE, about)>>
                                   ELSE Append(wire, reply(FALSE, about))
          /\ call' = [call EXCEPT ![n].stage = "answered"]
    /\ UNCHANGED <<router, live, client, connected, asked, calls>>

----------------------------------------------------------------------------
(* The client's handlers.                                                   *)

(* Mutant: a reply is handed over even if its request has timed out.        *)
Settle_Late(n, f) ==
    call' = [call EXCEPT ![n].stage = "settling", ![n].ok = f.ok, ![n].about = f.about]

(* handleMessage, a reply: ignored when its request is no longer pending.   *)
Settle(n, f) ==
    call' = IF Waiting(n)
            THEN [call EXCEPT ![n].stage = "settling", ![n].ok = f.ok,
                              ![n].about = f.about]
            ELSE call

(* Mutant: the resolved events are not listened to.                         *)
OnApproval_NoResolved(f) ==
    shown' = IF f.type = "requested" THEN shown \cup f.about ELSE shown

(* The two listeners: upsertPendingApproval and removePendingApproval.      *)
OnApproval(f) ==
    shown' = IF sub # client THEN shown
             ELSE IF f.type = "requested" THEN shown \cup f.about
             ELSE shown \ f.about

(* Is what awaits the reply of a list still to run?                         *)
ListSettling == \E n \in CallIds : Settling(n) /\ call[n].kind = "list"

HandleMessage ==
    /\ Quiescent \/ Chunks
    /\ connected /\ wire # <<>> /\ wire' = Tail(wire)
    /\ LET f == Head(wire)
       IN  \/ /\ f.type = "reply" /\ Settle(f.of, f)
              /\ UNCHANGED <<shown, overtaken>>
           \/ /\ f.type # "reply" /\ OnApproval(f)
              /\ overtaken' = ListSettling
              /\ UNCHANGED call
    /\ UNCHANGED <<run, sub, synced, live, client, connected, agent, calls>>

(* Mutant: only a request that names its own timeout has a timer.           *)
RequestTimesOut_Compact ==
    /\ Quiescent
    /\ \E n \in CallIds :
          /\ Waiting(n) /\ call[n].kind = "compact"
          /\ call' = [call EXCEPT ![n].stage = "settling", ![n].ok = FALSE]
    /\ UNCHANGED <<router, socket, agent, calls>>

RequestTimesOut ==
    /\ Quiescent
    /\ \E n \in CallIds :
          /\ Waiting(n)
          /\ call' = [call EXCEPT ![n].stage = "settling", ![n].ok = FALSE]
    /\ UNCHANGED <<router, socket, agent, calls>>

ConnectionLost ==
    /\ Quiescent /\ connected
    /\ connected' = FALSE /\ wire' = <<>>
    /\ call' = RejectAll
    /\ UNCHANGED <<router, live, client, agent, calls>>

(* What awaits the promise: syncPendingApprovals replaces the approvals by  *)
(* the list, confirmTool removes its own; a failure changes nothing.        *)
Apply(n) ==
    IF ~call[n].ok THEN shown
    ELSE CASE call[n].kind = "list"    -> call[n].about
           [] call[n].kind = "resolve" -> shown \ call[n].about
           [] OTHER                    -> shown

Continue ==
    /\ \E n \in CallIds :
          /\ Settling(n)
          /\ call' = [call EXCEPT ![n].stage = "settled", ![n].about = {}]
          /\ shown' = Apply(n)
          /\ run' = IF run = "prepare" /\ call[n].kind = "list" THEN "turn" ELSE run
          /\ IF call[n].kind = "list"
             THEN /\ synced' = (call[n].ok /\ call[n].client = client /\ ~overtaken)
                  /\ overtaken' = (overtaken /\ ListSettling')
             ELSE UNCHANGED <<synced, overtaken>>
    /\ UNCHANGED <<sub, socket, agent, calls>>

----------------------------------------------------------------------------
(* The ends of a run.                                                       *)

ClearApprovals == shown' = {}

(* The POST returns and endRunSuccess: no tool was waiting.                 *)
EndRun ==
    /\ Quiescent /\ run = "turn" /\ gateway = {}
    /\ run' = "idle" /\ ClearApprovals
    /\ UNCHANGED <<sub, synced, overtaken, socket, agent, call, calls>>

(* cancel: the run is aborted, an approval it waited for may linger in the  *)
(* gateway until it expires.                                                *)
CancelRun ==
    /\ Quiescent /\ run = "turn"
    /\ run' = "idle" /\ ClearApprovals
    /\ UNCHANGED <<sub, synced, overtaken, socket, agent, call, calls>>

(* handleBackgroundFailure, and finalizeFromJsonl for an adopted run.       *)
FailRun ==
    /\ Quiescent /\ run = "turn"
    /\ run' = "idle" /\ ClearApprovals /\ sub' = 0 /\ synced' = FALSE
    /\ EvictRuntime /\ UNCHANGED overtaken

(* reapIdle: the listeners and what is shown are left as they are.          *)
ReapIdle ==
    /\ Quiescent /\ run = "idle" /\ live
    /\ EvictRuntime
    /\ UNCHANGED router

GatewayNext ==
    \/ StartRun \/ ConfirmTool \/ Compact
    \/ AgentAsks \/ ApprovalExpires \/ GatewayAnswers
    \/ HandleMessage \/ RequestTimesOut \/ ConnectionLost \/ Continue
    \/ EndRun \/ CancelRun \/ FailRun \/ ReapIdle

(* Promises run, timers fire, what is on the wire arrives.  Neither the     *)
(* gateway's answers nor the agent's turns are assumed.                     *)
GatewayStep == HandleMessage \/ RequestTimesOut \/ Continue

GatewaySpec == GatewayInit /\ [][GatewayNext]_gatewayVars

----------------------------------------------------------------------------
(* Properties.                                                              *)

Still == Quiescent /\ connected /\ wire = <<>>

(* When nothing is on its way, a running session shows the approvals its    *)
(* container waits for, and an idle one none that is not waiting: whatever  *)
(* was cancelled, expired, lost with a connection or confirmed twice.  Not  *)
(* if the client's last list failed, or events overtook it.                 *)
ShownIsPending ==
    Still /\ synced => /\ shown \subseteq gateway
                       /\ run = "turn" => shown = gateway

(* The router's approvals are those of the container.                       *)
ApprovalInv == GatewayTypeOK /\ ShownIsPending

(* The same for every list that succeeded, as the README has it             *)
(* (rehydrates pending approvals ... on warm reuse / adoption).             *)
ListRehydrates ==
    Still /\ run = "turn"
    /\ (\E n \in CallIds : call[n].kind = "list" /\ call[n].ok /\ call[n].stage = "settled"
           /\ \A k \in CallIds : call[k].kind = "list" => k <= n)
    => shown = gateway

(* A request settles once: what its caller was told is not revised by a     *)
(* reply that comes after its timeout or after the connection was lost.     *)
SettledForGood ==
    [][\A n \in CallIds : call[n].stage = "settled" => call'[n] = call[n]]_gatewayVars

(* Every request settles, so that nothing waits for the gateway for ever    *)
(* (requests being bounded, as it is written here).                         *)
RequestsSettle == []<>(\A n \in CallIds : call[n].stage \in {"unused", "settled"})

(* An approval the agent waits for is shown to the clients of the session,  *)
(* unless the connection or the list failed.                                *)
AskedIsShown ==
    []<>(run # "turn" \/ ~connected \/ ~synced \/ gateway \subseteq shown)

(* compact's comment: it "does not race with a running turn".               *)
CompactAlone ==
    \A n \in CallIds :
        call[n].kind = "compact" /\ call[n].stage \in {"sent", "answered"}
        => run # "turn"
=============================================================================
