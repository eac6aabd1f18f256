----------------------------- MODULE EgressProxy -----------------------------
(***************************************************************************)
(* The process in the sidecar (docker/egress-proxy/proxy.mjs): it filters   *)
(* and forwards a DNS query over UDP, whose answer may be lost, late or     *)
(* there twice, tunnels a CONNECT, and relays a plain HTTP request.         *)
(* Connections share nothing but the process: a behaviour is one of them.   *)
(***************************************************************************)
EXTENDS EgressFilter

CONSTANTS
    Datagrams,     \* the messages a client may send to port 53
    Patterns,      \* OPENCLAW_EGRESS_ALLOWED_HOSTS
    Hosts,         \* the hosts a client may name to port 8118
    MaxReplies     \* bound: answers of the upstream resolver to one query

VARIABLES
    alive,       \* does the process run?
    query,       \* the datagram being handled, the verdict on it, the reply
    forwarder,   \* the socket of an allowed query: state, `responded`, timer
    network,     \* upstream answers on the way; relays whose send is not done
    tunnel,      \* a CONNECT: the client's socket and the upstream one
    relay        \* a plain request: where it is

proxyVars == <<alive, query, forwarder, network, tunnel, relay>>

NoQuery     == [msg |-> <<>>, verdict |-> "none", reply |-> <<>>]
NoForwarder == [socket |-> "none", responded |-> FALSE, timer |-> FALSE]
NoTunnel    == [client |-> "none", upstream |-> "none"]
Unused      == alive /\ query = NoQuery /\ tunnel = NoTunnel /\ relay = "none"
Ends        == {"none", "connecting", "open", "ended", "destroyed"}

ProxyTypeOK ==
    /\ alive \in BOOLEAN
    /\ query.verdict \in {"none", "dropped", "denied", "forwarded"}
    /\ forwarder \in [socket : {"none", "open", "closed"}, responded : BOOLEAN, timer : BOOLEAN]
    /\ forwarder.timer => forwarder.socket = "open"
    /\ network.replies \in 0 .. MaxReplies /\ network.sending \in 0 .. MaxReplies
    /\ tunnel \in [client : Ends, upstream : Ends]
    /\ relay \in {"none", "refused", "forbidden", "waiting", "body", "answered", "badGateway",
                  "cut"}

ProxyInit ==
    /\ alive = TRUE /\ query = NoQuery /\ forwarder = NoForwarder
    /\ network = [replies |-> 0, sending |-> 0]
    /\ tunnel = NoTunnel /\ relay = "none"

----------------------------------------------------------------------------
(* dnsSocket.on("message").                                                 *)

Verdict(m) ==
    LET parsed == ParseFirstQuestionName(m) IN
    IF ~parsed.ok THEN "dropped"
    ELSE IF Allowed(Patterns, parsed.name) THEN "forwarded" ELSE "denied"

OnDatagram ==
    /\ Unused
    /\ \E m \in Datagrams :
          /\ query' = [msg |-> m, verdict |-> Verdict(m),
                       reply |-> IF Verdict(m) = "denied" THEN SynthesizeNxdomain(m) ELSE <<>>]
          /\ IF Verdict(m) = "forwarded"
             THEN /\ forwarder' = [socket |-> "open", responded |-> FALSE, timer |-> TRUE]
                  /\ \E n \in 0 .. MaxReplies : network' = [network EXCEPT !.replies = n]
             ELSE UNCHANGED <<forwarder, network>>
    /\ UNCHANGED <<alive, tunnel, relay>>

(* An answer comes to the open socket; it is lost with a closed one.        *)
OnUpstreamAnswer ==
    /\ alive /\ network.replies > 0
    /\ IF forwarder.socket = "open"
       THEN /\ forwarder' = [forwarder EXCEPT !.responded = TRUE, !.timer = FALSE]
            /\ network' = [replies |-> network.replies - 1, sending |-> network.sending + 1]
       ELSE /\ network' = [network EXCEPT !.replies = @ - 1]
            /\ UNCHANGED forwarder
    /\ UNCHANGED <<alive, query, tunnel, relay>>

(* The callback of the relayed answer's send closes the forwarder; close    *)
(* throws on a socket that is closed, and nothing catches it.               *)
OnRelayed ==
    /\ alive /\ network.sending > 0
    /\ network' = [network EXCEPT !.sending = @ - 1]
    /\ IF forwarder.socket = "open"
       THEN forwarder' = [forwarder EXCEPT !.socket = "closed"] /\ UNCHANGED alive
       ELSE alive' = FALSE /\ UNCHANGED forwarder
    /\ UNCHANGED <<query, tunnel, relay>>

GivesUp == ~forwarder.responded

OnTimer ==
    /\ alive /\ forwarder.timer
    /\ forwarder' = [forwarder EXCEPT !.timer = FALSE,
                                      !.socket = IF GivesUp THEN "closed" ELSE @]
    /\ UNCHANGED <<alive, query, network, tunnel, relay>>

(* Mutant: the timer is left to close the socket a second time.             *)
OnForwarderError_KeepsTimer ==
    /\ alive /\ forwarder.socket = "open" /\ forwarder.timer
    /\ forwarder' = [forwarder EXCEPT !.socket = "closed"]
    /\ UNCHANGED <<alive, query, network, tunnel, relay>>

OnForwarderError ==
    /\ alive /\ forwarder.socket = "open" /\ forwarder.timer
    /\ forwarder' = [forwarder EXCEPT !.socket = "closed", !.timer = FALSE]
    /\ UNCHANGED <<alive, query, network, tunnel, relay>>

----------------------------------------------------------------------------
(* handleConnect.                                                           *)

OnConnect ==
    /\ Unused
    /\ \E h \in Hosts :
          tunnel' = IF Allowed(Patterns, h) THEN [client |-> "open", upstream |-> "connecting"]
                    ELSE [client |-> "ended", upstream |-> "none"]
    /\ UNCHANGED <<alive, query, forwarder, network, relay>>

Established ==
    /\ alive /\ tunnel.upstream = "connecting"
    /\ tunnel' = [tunnel EXCEPT !.upstream = "open"]
    /\ UNCHANGED <<alive, query, forwarder, network, relay>>

(* One side ends; the pipe ends the other.                                  *)
TunnelEnds ==
    /\ alive /\ tunnel = [client |-> "open", upstream |-> "open"]
    /\ tunnel' \in {[client |-> "ended", upstream |-> "open"],
                    [client |-> "open", upstream |-> "ended"]}
    /\ UNCHANGED <<alive, query, forwarder, network, relay>>

EndIsPiped ==
    /\ alive /\ "ended" \in {tunnel.client, tunnel.upstream} /\ tunnel.upstream # "none"
    /\ tunnel' = [client |-> "ended", upstream |-> "ended"] /\ tunnel' # tunnel
    /\ UNCHANGED <<alive, query, forwarder, network, relay>>

(* Mutant: an idle tunnel that was never established has no timeout.        *)
Idling_Established == {"open"}

Idling == {"connecting", "open"}

(* Both sockets idle for ten minutes, or an error of either: closeBoth.     *)
CloseBoth ==
    /\ alive /\ tunnel.upstream \in Idling /\ tunnel.client \in {"open", "ended"}
    /\ tunnel' = [client |-> "destroyed", upstream |-> "destroyed"]
    /\ UNCHANGED <<alive, query, forwarder, network, relay>>

----------------------------------------------------------------------------
(* handleRequest.                                                           *)

OnRequest ==
    /\ Unused
    /\ \/ \E h \in Hosts : relay' = IF Allowed(Patterns, h) THEN "waiting" ELSE "forbidden"
       \/ relay' = "refused"   \* no host, or no port
    /\ UNCHANGED <<alive, query, forwarder, network, tunnel>>

(* The upstream fails before its head (502), or sends it; then the body,    *)
(* whole or cut off: the pipe ends the response only with a whole body.     *)
OnUpstream ==
    /\ alive
    /\ \/ relay = "waiting" /\ relay' \in {"badGateway", "body"}
       \/ relay = "body" /\ relay' \in {"answered", "cut"}
    /\ UNCHANGED <<alive, query, forwarder, network, tunnel>>

ProxyStep ==
    \/ OnUpstreamAnswer \/ OnRelayed \/ OnTimer
    \/ EndIsPiped \/ CloseBoth

ProxyNext ==
    \/ ProxyStep \/ OnDatagram \/ OnForwarderError
    \/ OnConnect \/ Established \/ TunnelEnds
    \/ OnRequest \/ OnUpstream

----------------------------------------------------------------------------
(* Properties.                                                              *)

(* The name that is judged is the name that was asked, however its labels   *)
(* are written in the message and its case: the verdict on a query that a   *)
(* resolver writes is that of the label-wise reference.                     *)
VerdictExact(names, patterns) ==
    query # NoQuery => \A labels \in names :
        LET question == SubSeq(query.msg, HeaderLength + 1, Len(query.msg)) IN
        IsPrefix(Wire(labels), question) /\ QdCount(query.msg) = 1 =>
            query.verdict = IF AllowedLabels(patterns, labels) THEN "forwarded" ELSE "denied"

(* The two readers of a question agree: the NXDOMAIN that answers a query   *)
(* asks the same question, in the same bytes, compression or not, and asks  *)
(* it to the end where a resolver wrote it.                                 *)
EchoExact(names) ==
    query.verdict = "denied" /\ query.reply # <<>> =>
        /\ ParseFirstQuestionName(query.reply) = ParseFirstQuestionName(query.msg)
        /\ SubSeq(query.reply, HeaderLength + 1, Len(query.reply))
             = SubSeq(query.msg, HeaderLength + 1, Len(query.reply))
        /\ \A labels \in names, type \in [1 .. 4 -> {0, 1}] :
              LET question == Wire(labels) \o type IN
              IsPrefix(question, SubSeq(query.msg, HeaderLength + 1, Len(query.msg)))
                => Len(query.reply) = HeaderLength + Len(question)

(* No socket is held for ever: a forwarder is closed whatever the upstream  *)
(* does, and both sides of a tunnel end when one does or nothing comes.     *)
SocketsReleased ==
    []<>(~alive \/ (/\ forwarder.socket # "open"
                    /\ tunnel.upstream \notin {"connecting", "open"}))

(* proxy.mjs runs "next to" its agent for the whole session: an answer that *)
(* comes twice does not end the process.                                    *)
StaysAlive == alive

(* proxy.mjs, TUNNEL_IDLE_TIMEOUT_MS: a relayed request ends, too.          *)
RequestsEnd == []<>(relay \notin {"waiting", "body", "cut"})
=============================================================================
