--------------------------- MODULE ProxyFrontend -----------------------------
(***************************************************************************)
(* proxyConnectionHandler of server/proxyServer.js up to the point where a *)
(* browser's socket is a stream of the tunnel: the limit on connections,   *)
(* the header that arrives in pieces, its limits in size and time, and the *)
(* cascade of answers once it is complete.  What becomes of the stream     *)
(* afterwards is in FrameProtocol.tla; here the tunnel takes its bytes or  *)
(* drops them, and closes it.                                              *)
(*                                                                         *)
(* A socket's input is counted in bytes: a header of size[s], the empty    *)
(* line that ends it, and a body.                                          *)
(***************************************************************************)
EXTENDS Integers, Sequences, FiniteSets, SequencesExt, HttpFraming

CONSTANTS
  Sockets,
  Requests,        \* records: auth, line, method, headers
  Sizes,           \* sizes a header may have
  MaxBytes,        \* bound: bytes a browser sends
  HeaderEnd,       \* length of "\r\n\r\n"
  MAX_PROXY_HEADER_SIZE,
  MAX_CONCURRENT_PROXY_CONNECTIONS

ASSUME ProxyFrontendAssumption ==
  /\ \A request \in Requests : request.headers \in Seq(HeaderLine)
  /\ Sizes \subseteq Nat \ {0}
  /\ MaxBytes \in Nat
  /\ HeaderEnd \in Nat \ {0}
  /\ MAX_PROXY_HEADER_SIZE \in Nat
  /\ MAX_CONCURRENT_PROXY_CONNECTIONS \in Nat \ {0}

(* What the handler makes of a request that is complete: all that it does  *)
(* depends on.  The framing of a CONNECT is not looked at.                 *)
Outcome(request, c) ==
  LET http == request.method # "CONNECT" IN
  [config |-> c, auth |-> request.auth, line |-> request.line, http |-> http,
   refused   |-> http /\ Refused(request.headers, c.strict),
   isolated  |-> http /\ ShouldForceClose(request.method, request.headers, c),
   ambiguous |-> http /\ Ambiguous(request.headers)]

Outcomes == {Outcome(request, c) : request \in Requests, c \in Configs}

VARIABLES
  config,                  \* chosen at the start
  tunnel,                  \* activeWs of TunnelServer: "open" (isReady()), "closing"
                           \* (no longer OPEN, 'close' to come), "down" (none)
  activeProxyConnections,
  socket,                  \* "none", "flowing", "ending" (end() called and
                           \* destroy() left to setImmediate), "destroyed", "closed"
  counted,                 \* got past the limit: it has the 'close' listener
  resolved, hardTimer,
  registered,              \* FrameProtocol forwards its data
  reply,                   \* history: status lines written by this handler
  size, received,          \* the header's size; bytes the browser sent
  forwarded,               \* bytes behind the header the tunnel has taken
  accepted, isolated, ambiguous   \* history: of the request that was handed over

vars == <<config, tunnel, activeProxyConnections, socket, counted, resolved,
          hardTimer, registered, reply, size, received, forwarded, accepted,
          isolated, ambiguous>>

Statuses == {"503", "431", "408", "407", "400", "502"}

TypeOK ==
  /\ config \in Configs
  /\ tunnel \in {"open", "closing", "down"}
  /\ activeProxyConnections \in 0 .. MAX_CONCURRENT_PROXY_CONNECTIONS
  /\ socket \in [Sockets -> {"none", "flowing", "ending", "destroyed", "closed"}]
  /\ {counted, resolved, hardTimer, registered, accepted, isolated, ambiguous}
       \subseteq [Sockets -> BOOLEAN]
  /\ reply \in [Sockets -> Seq(Statuses)]
  /\ size \in [Sockets -> Sizes]
  /\ received \in [Sockets -> 0 .. MaxBytes]
  /\ forwarded \in [Sockets -> 0 .. MaxBytes]

Init ==
  /\ config \in Configs
  /\ tunnel \in {"open", "down"}
  /\ activeProxyConnections = 0
  /\ socket = [s \in Sockets |-> "none"]
  /\ counted = [s \in Sockets |-> FALSE]
  /\ resolved = [s \in Sockets |-> FALSE]
  /\ hardTimer = [s \in Sockets |-> FALSE]
  /\ registered = [s \in Sockets |-> FALSE]
  /\ reply = [s \in Sockets |-> <<>>]
  /\ size \in [Sockets -> Sizes]
  /\ received = [s \in Sockets |-> 0]
  /\ forwarded = [s \in Sockets |-> 0]
  /\ accepted = [s \in Sockets |-> FALSE]
  /\ isolated = [s \in Sockets |-> FALSE]
  /\ ambiguous = [s \in Sockets |-> FALSE]

verdict == <<accepted, isolated, ambiguous>>

-----------------------------------------------------------------------------
(* socket.end(status), then destroy() now or in setImmediate.  Neither     *)
(* does anything to a socket that is destroyed already.                    *)
Answer(s, status, next) ==
  /\ reply' = [reply EXCEPT ![s] = Append(@, status)]
  /\ socket' = [socket EXCEPT ![s] = next]

(* A browser connects.                                                     *)
FullTooLate == activeProxyConnections > MAX_CONCURRENT_PROXY_CONNECTIONS

Full == activeProxyConnections >= MAX_CONCURRENT_PROXY_CONNECTIONS

Rejected(s) ==
  /\ socket[s] = "none"
  /\ Full
  /\ Answer(s, "503", "destroyed")
  /\ UNCHANGED <<config, tunnel, activeProxyConnections, counted, resolved,
                 hardTimer, registered, size, received, forwarded, verdict>>

Admitted(s) ==
  /\ socket[s] = "none"
  /\ ~Full
  /\ activeProxyConnections' = activeProxyConnections + 1
  /\ socket' = [socket EXCEPT ![s] = "flowing"]
  /\ counted' = [counted EXCEPT ![s] = TRUE]
  /\ hardTimer' = [hardTimer EXCEPT ![s] = TRUE]
  /\ UNCHANGED <<config, tunnel, resolved, registered, reply, size, received,
                 forwarded, verdict>>

-----------------------------------------------------------------------------
(* onData, once n more bytes have arrived.                                 *)

Got(s, n) == received[s] + n

Receives(s, n) ==
  /\ socket[s] = "flowing"
  /\ Got(s, n) <= MaxBytes
  /\ received' = [received EXCEPT ![s] = Got(s, n)]

Complete(s, n) == Got(s, n) >= size[s] + HeaderEnd

TooLargeAlready(s, n) ==
  IF Complete(s, n) THEN size[s] > MAX_PROXY_HEADER_SIZE
                    ELSE Got(s, n) >= MAX_PROXY_HEADER_SIZE

TooLarge(s, n) ==
  IF Complete(s, n) THEN size[s] > MAX_PROXY_HEADER_SIZE
                    ELSE Got(s, n) > MAX_PROXY_HEADER_SIZE

HeaderTooLarge(s, n) ==
  /\ ~resolved[s]
  /\ Receives(s, n)
  /\ TooLarge(s, n)
  /\ Answer(s, "431", "destroyed")
  /\ UNCHANGED <<config, tunnel, activeProxyConnections, counted, resolved,
                 hardTimer, registered, size, forwarded, verdict>>

TimerClearedByData(s) == hardTimer' = [hardTimer EXCEPT ![s] = FALSE]

TimerKept(s) == UNCHANGED hardTimer

HeaderContinues(s, n) ==
  /\ ~resolved[s]
  /\ Receives(s, n)
  /\ ~TooLarge(s, n)
  /\ ~Complete(s, n)
  /\ TimerKept(s)
  /\ UNCHANGED <<config, tunnel, activeProxyConnections, socket, counted,
                 resolved, registered, reply, size, forwarded, verdict>>

(* The header is complete: no more timer, no more onData.                  *)
Resolves(s, n) ==
  /\ ~resolved[s]
  /\ Receives(s, n)
  /\ ~TooLarge(s, n)
  /\ Complete(s, n)
  /\ resolved' = [resolved EXCEPT ![s] = TRUE]
  /\ hardTimer' = [hardTimer EXCEPT ![s] = FALSE]
  /\ UNCHANGED <<config, tunnel, activeProxyConnections, counted, size>>

(* The answers that come before registerConnection.                        *)
RefusedEarly(s, n, request) ==
  /\ Resolves(s, n)
  /\ \/ ~request.auth /\ Answer(s, "407", "ending")
     \/ request.auth /\ ~request.line /\ Answer(s, "400", "ending")
     \/ request.auth /\ request.line /\ tunnel # "open" /\ Answer(s, "502", "ending")
  /\ UNCHANGED <<tunnel, registered, forwarded, verdict>>

Passes(s, n, request) ==
  request.auth /\ request.line /\ tunnel = "open" /\ Resolves(s, n)

(* registerConnection finds no free id and destroys the socket.            *)
NoId(s, n, request) ==
  /\ Passes(s, n, request)
  /\ Answer(s, "503", "destroyed")
  /\ UNCHANGED <<tunnel, registered, forwarded, verdict>>

(* sendFrame, after which total bytes are forwarded if it takes them.  It  *)
(* drops them when they overflow the queue, which terminates the tunnel,   *)
(* and while the tunnel is closing; no caller looks at its result.         *)
Sent(s, total) ==
  \/ tunnel = "open" /\ forwarded' = [forwarded EXCEPT ![s] = total] /\ UNCHANGED tunnel
  \/ tunnel # "down" /\ tunnel' = "closing" /\ UNCHANGED forwarded

ExtraDataForgotten(s, n) == 0

ExtraData(s, n) == Got(s, n) - size[s] - HeaderEnd

(* registerConnection sends OPEN, the handler what is behind the header    *)
(* (and for a plain request the header): either may be what overflows.     *)
Forwards(s, n) ==
  /\ registered' = [registered EXCEPT ![s] = TRUE]
  /\ Sent(s, ExtraData(s, n))
  /\ accepted' = [accepted EXCEPT ![s] = TRUE]
  /\ UNCHANGED <<socket, reply>>

Connects(s, n, request) ==
  /\ Passes(s, n, request)
  /\ ~request.http
  /\ Forwards(s, n)
  /\ UNCHANGED <<isolated, ambiguous>>

Requested(s, n, request) ==
  /\ Passes(s, n, request)
  /\ request.http /\ ~request.refused
  /\ Forwards(s, n)
  /\ isolated' = [isolated EXCEPT ![s] = request.isolated]
  /\ ambiguous' = [ambiguous EXCEPT ![s] = request.ambiguous]

(* Refused framing: it is a stream of the tunnel by now, its OPEN is sent, *)
(* and what arrives before setImmediate is forwarded by FrameProtocol's    *)
(* listener.  The slip: no return behind the answer.                       *)
RefusedAndForwarded(s, n, request) ==
  /\ Passes(s, n, request)
  /\ request.http /\ request.refused
  /\ registered' = [registered EXCEPT ![s] = TRUE]
  /\ Sent(s, ExtraData(s, n))
  /\ Answer(s, "400", "ending")
  /\ accepted' = [accepted EXCEPT ![s] = TRUE]
  /\ UNCHANGED <<isolated, ambiguous>>

RefusedLate(s, n, request) ==
  /\ Passes(s, n, request)
  /\ request.http /\ request.refused
  /\ registered' = [registered EXCEPT ![s] = TRUE]
  /\ Sent(s, forwarded[s])
  /\ Answer(s, "400", "ending")
  /\ UNCHANGED verdict

(* 'data' once onData is gone: for FrameProtocol's listener, or for nobody. *)
(* The listener does not parse it: it may be the rest of the body or the   *)
(* requests that follow on the same connection.                            *)
LaterData(s, n) ==
  /\ socket[s] \in {"flowing", "ending"}
  /\ resolved[s]
  /\ Got(s, n) <= MaxBytes
  /\ received' = [received EXCEPT ![s] = Got(s, n)]
  /\ IF registered[s] THEN Sent(s, forwarded[s] + n) ELSE UNCHANGED <<tunnel, forwarded>>
  /\ UNCHANGED <<config, activeProxyConnections, socket, counted,
                 resolved, hardTimer, registered, reply, size, verdict>>

-----------------------------------------------------------------------------
Destroys(s) ==
  /\ socket' = [socket EXCEPT ![s] = "destroyed"]
  /\ UNCHANGED <<config, tunnel, activeProxyConnections, counted, resolved,
                 registered, reply, size, received, forwarded, verdict>>

RunImmediate(s) == socket[s] = "ending" /\ Destroys(s) /\ UNCHANGED hardTimer

(* The browser's end of the socket ends or fails, the stream is closed by  *)
(* the tunnel, or the idle timeout strikes.                                *)
Ends(s) == socket[s] \in {"flowing", "ending"} /\ Destroys(s) /\ UNCHANGED hardTimer

(* The hard timer runs out, which it also may between destroy and 'close'. *)
HardTimeout(s) ==
  /\ hardTimer[s]
  /\ hardTimer' = [hardTimer EXCEPT ![s] = FALSE]
  /\ IF ~resolved[s] /\ socket[s] = "flowing"
     THEN Answer(s, "408", "destroyed")
     ELSE UNCHANGED <<reply, socket>>
  /\ UNCHANGED <<config, tunnel, activeProxyConnections, counted, resolved,
                 registered, size, received, forwarded, verdict>>

GivenBackAlways(s) == activeProxyConnections' = activeProxyConnections - 1

GivenBack(s) ==
  activeProxyConnections' = activeProxyConnections - IF counted[s] THEN 1 ELSE 0

Closed(s) ==
  /\ socket[s] = "destroyed"
  /\ socket' = [socket EXCEPT ![s] = "closed"]
  /\ GivenBack(s)
  /\ hardTimer' = [hardTimer EXCEPT ![s] = FALSE]
  /\ registered' = [registered EXCEPT ![s] = FALSE]
  /\ UNCHANGED <<config, tunnel, counted, resolved, reply, size, received,
                 forwarded, verdict>>

(* The tunnel.  FrameProtocol destroys the sockets it has on 'tunnel_close', *)
(* which comes with the 'close' of the WebSocket or, when another session  *)
(* takes its place before that, ahead of its 'tunnel_ready'.               *)
DestroysRegistered ==
  /\ socket' = [s \in Sockets |->
                  IF registered[s] /\ socket[s] # "closed" THEN "destroyed" ELSE socket[s]]
  /\ registered' = [s \in Sockets |-> FALSE]

TunnelStep ==
  UNCHANGED <<config, activeProxyConnections, counted, resolved, hardTimer, reply, size,
              received, forwarded, verdict>>

(* The WebSocket leaves OPEN: either end closes it, or it fails.           *)
TunnelShuts ==
  /\ tunnel = "open"
  /\ tunnel' = "closing"
  /\ UNCHANGED <<socket, registered>>
  /\ TunnelStep

TunnelClosed ==
  /\ tunnel = "closing"
  /\ tunnel' = "down"
  /\ DestroysRegistered
  /\ TunnelStep

(* The slip: a session that is replaced is not announced as closed.        *)
TunnelReplacedSilently ==
  /\ tunnel' = "open"
  /\ UNCHANGED <<socket, registered>>
  /\ TunnelStep

TunnelConnects ==
  /\ tunnel' = "open"
  /\ IF tunnel # "down" THEN DestroysRegistered ELSE UNCHANGED <<socket, registered>>
  /\ TunnelStep

Next ==
  \/ \E s \in Sockets :
       \/ Rejected(s) \/ Admitted(s)
       \/ \E n \in 1 .. MaxBytes :
            \/ HeaderTooLarge(s, n) \/ HeaderContinues(s, n) \/ LaterData(s, n)
            \/ \E request \in {o \in Outcomes : o.config = config} :
                 \/ RefusedEarly(s, n, request) \/ NoId(s, n, request)
                 \/ Connects(s, n, request) \/ Requested(s, n, request)
                 \/ RefusedLate(s, n, request)
       \/ RunImmediate(s) \/ Ends(s) \/ HardTimeout(s) \/ Closed(s)
  \/ TunnelShuts \/ TunnelClosed \/ TunnelConnects

Spec == Init /\ [][Next]_vars

(* Timers and immediates run and a destroyed socket reports 'close'.       *)
(* Browsers need not do anything, nor the tunnel.                          *)
Fairness == \A s \in Sockets :
  WF_vars(HardTimeout(s)) /\ WF_vars(RunImmediate(s)) /\ WF_vars(Closed(s))

FairSpec == Spec /\ Fairness

-----------------------------------------------------------------------------
(* The count of connections is the number of sockets that were admitted    *)
(* and have not reported 'close', through every way a socket can end; the  *)
(* ones rejected at the limit never touch it.                              *)
SlotsExact ==
  activeProxyConnections =
    Cardinality({s \in Sockets : counted[s] /\ socket[s] # "closed"})

(* The limit on the header's size holds up to the empty line: no header    *)
(* above it is let through and none that fits together with its empty line *)
(* is answered 431, however the bytes arrive.  In the HeaderEnd - 1 sizes  *)
(* between the two it depends on the pieces which of them happens.         *)
SizeExact ==
  \A s \in Sockets :
    /\ Contains(reply[s], "431") => size[s] + HeaderEnd > MAX_PROXY_HEADER_SIZE + 1
    /\ resolved[s] => size[s] <= MAX_PROXY_HEADER_SIZE

(* Between the listener that collects the header and the one that forwards *)
(* data, and across overflows, closings and replacements of the tunnel:    *)
(* with the tunnel open it has every byte behind the header of an open     *)
(* socket, once.  What it drops is thus only ever an end of the stream: it *)
(* takes nothing more before the socket is destroyed.                      *)
BodyComplete ==
  \A s \in Sockets :
    accepted[s] /\ socket[s] = "flowing" =>
      LET body == received[s] - size[s] - HeaderEnd
      IN  forwarded[s] <= body /\ (tunnel = "open" => forwarded[s] = body)

(* A browser gets at most one answer of the handler, and none when its     *)
(* request is handed over: neither the timer, nor a limit, nor a refusal   *)
(* comes on top of another of them.                                        *)
OneAnswer ==
  \A s \in Sockets : Len(reply[s]) <= 1 /\ (accepted[s] => reply[s] = <<>>)

(* The request the handler parses, the first of a socket: if different     *)
(* readers could find its end at different places, it is not handed over   *)
(* in strict mode, and in the other one it is given "Connection: close"    *)
(* where a configuration asks for that.  Nothing is said of what follows   *)
(* on the socket, which is forwarded unparsed in either mode (LaterData).  *)
FirstRequestContained ==
  \A s \in Sockets :
    ambiguous[s] =>
      /\ ~config.strict
      /\ config.smart \/ config.force => isolated[s]

(* A browser that is slow with its header, or sends none, does not keep    *)
(* its place: the collection of the header ends.                           *)
HeaderPhaseEnds ==
  \A s \in Sockets :
    socket[s] = "flowing" /\ ~resolved[s] ~> resolved[s] \/ socket[s] = "closed"
=============================================================================
