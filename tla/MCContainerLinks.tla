-------------------------- MODULE MCContainerLinks --------------------------
(***************************************************************************)
(* What connects a session's container, for TLC: the networks and the       *)
(* sidecar of limited networking, the process in that sidecar (the topology *)
(* sees of it only that it runs), and the gateway socket to the router.     *)
(* The three share no state; a behaviour exercises one of them.             *)
(***************************************************************************)
EXTENDS LimitedNetworking, EgressProxy, GatewaySession

CONSTANTS
    QuestionBytes,     \* the bytes of a question
    MaxQuestion        \* bound: its length

VARIABLE part   \* "topology", "proxy" or "gateway"

allVars == <<part, vars, proxyVars, gatewayVars>>

(* Headers with one question and with none.                                 *)
Header(qdcount) == <<0, 7, 1, 0, 0, qdcount, 0, 0, 0, 0, 0, 0>>

(* No resolver points into the header of its query.                         *)
PointsIntoHeader(q) == \E i \in 1 .. Len(q) - 1 : q[i] >= 192 /\ q[i + 1] < HeaderLength

Questions ==
    LET names == UNION {[1 .. n -> QuestionBytes] : n \in 0 .. MaxQuestion} IN
    {q \in names \cup {n \o <<0, 1, 0, 1>> : n \in names} : ~PointsIntoHeader(q)}

MCDatagrams ==
    {<<>>} \cup {Header(1) \o q : q \in Questions} \cup {Header(0) \o <<1, 97, 0>>}

(* "*.a", and "aa".                                                         *)
MCPatterns == {<<42, 46, 97>>, <<97, 97>>}
MCPatternLabels == {<<<<42>>, <<97>>>>, <<<<97, 97>>>>}
MCHosts == {<<97, 97>>, <<97>>}

MCLabels == UNION {[1 .. n -> {65, 97}] : n \in 1 .. 2}
MCNames  == UNION {[1 .. n -> MCLabels] : n \in 0 .. 2}

(* VerdictExact, for the names and patterns of this instance.               *)
NameJudged == VerdictExact(MCNames, MCPatternLabels)

(* EchoExact, for the names of this instance.                               *)
QuestionEchoed == EchoExact(MCNames)

(* The proxy judges the name that was asked, and refuses what it judged.    *)
FilterInv == ProxyTypeOK /\ NameJudged /\ QuestionEchoed

(* Boots, rollbacks, evictions and startups end, the proxy gives its        *)
(* sockets back, and requests to the gateway settle, for good.              *)
LinksSettle == TopologySettles /\ SocketsReleased /\ RequestsSettle /\ SettledForGood

MCInit ==
    /\ part \in {"topology", "proxy", "gateway"}
    /\ Init /\ ProxyInit /\ GatewayInit
    /\ part # "gateway" => run = "idle"

Topology == part = "topology" /\ UNCHANGED <<part, proxyVars, gatewayVars>>
Proxy    == part = "proxy" /\ UNCHANGED <<part, vars, gatewayVars>>
Gateway  == part = "gateway" /\ UNCHANGED <<part, vars, proxyVars>>

MCNext == (Topology /\ Next) \/ (Proxy /\ ProxyNext) \/ (Gateway /\ GatewayNext)

MCSpec == MCInit /\ [][MCNext]_allVars

MCFairSpec ==
    /\ MCSpec
    /\ WF_allVars(Topology /\ EvictStep)
    /\ WF_allVars((Topology /\ System) \/ (Proxy /\ ProxyStep) \/ (Gateway /\ GatewayStep))
=============================================================================
