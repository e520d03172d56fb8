---------------------------- MODULE FrameProtocol ----------------------------
(***************************************************************************)
(* The server half of the multiplexer: server/frameProtocol.js with the    *)
(* parts of server/proxyServer.js that register a browser connection and   *)
(* answer it, and the session handling of server/tunnelServer.js that      *)
(* decides which WebSocket frames go to.                                   *)
(*                                                                         *)
(* A browser connection s goes idle -> open -> ... -> closed.  "ending" is *)
(* a socket the proxy has end()ed and will destroy in a setImmediate;      *)
(* "ended" is one whose browser sent FIN; "destroyed" is one whose         *)
(* destroy() has been called and whose 'close' event has not run yet.      *)
(***************************************************************************)
EXTENDS Tunnel

CONSTANTS
  StartId,      \* first connection id (DEBUG_START_ID)
  MaxAttempts,  \* candidates tried by registerConnection
  Methods,      \* kinds of request: "connect", "http", "badhttp"
  MaxUp,        \* bound: chunks a browser sends
  MaxSockBuf    \* unflushed writes a socket may hold (MAX_SOCKET_BUFFER_MB)

ASSUME FrameProtocolAssumption ==
  /\ StartId \in Ids
  /\ MaxAttempts \in Nat \ {0}
  /\ Methods \subseteq {"connect", "http", "badhttp"}
  /\ MaxUp \in Nat
  /\ MaxSockBuf \in Nat

VARIABLES
  activeWs,   \* session the server sends on, 0 when there is none
  conns,      \* this.connections: id -> browser connection
  nextId,     \* this.nextConnectionId
  bst,        \* state of each browser socket
  regId,      \* connId in the closures of a registered socket, 0 before
  regSess,    \* history: session that was active at registration
  method,     \* kind of request, "none" before it is parsed
  waiting,    \* onOpenAck / onClose still listening for this CONNECT
  bSent,      \* chunks read from the browser so far
  bIn,        \* everything written to the browser socket, in order
  bBuf        \* how many of those writes are still unflushed

srvVars == <<activeWs, conns, nextId, bst, regId, regSess, method, waiting,
             bSent, bIn, bBuf>>

BStates == {"idle", "open", "ending", "ended", "destroyed", "closed"}

FrameProtocolTypeOK ==
  /\ activeWs \in 0 .. NumSessions
  /\ conns \in [Ids -> Sockets \cup {None}]
  /\ nextId \in Ids
  /\ bst \in [Sockets -> BStates]
  /\ regId \in [Sockets -> 0 .. IdLimit]
  /\ regSess \in [Sockets -> 0 .. NumSessions]
  /\ method \in [Sockets -> {"none", "connect", "http", "badhttp"}]
  /\ waiting \in [Sockets -> BOOLEAN]
  /\ bSent \in [Sockets -> Nat]
  /\ bIn \in [Sockets -> Seq(Payloads)]
  /\ bBuf \in [Sockets -> Nat]

FrameProtocolInit ==
  /\ activeWs = 0
  /\ conns = [i \in Ids |-> None]
  /\ nextId = StartId
  /\ bst = [s \in Sockets |-> "idle"]
  /\ regId = [s \in Sockets |-> 0]
  /\ regSess = [s \in Sockets |-> 0]
  /\ method = [s \in Sockets |-> "none"]
  /\ waiting = [s \in Sockets |-> FALSE]
  /\ bSent = [s \in Sockets |-> 0]
  /\ bIn = [s \in Sockets |-> <<>>]
  /\ bBuf = [s \in Sockets |-> 0]

-----------------------------------------------------------------------------
(* tunnelServer.isReady() and tunnelServer.sendFrame().                    *)

IsReady == activeWs # 0 /\ srvWs[activeWs] = "open"

SendFrames(fs) ==
  down' = IF IsReady THEN Put(down, activeWs, fs, cliWs) ELSE down

DestroyNothing(st) == st

Gone(st)    == st \in {"destroyed", "closed"}
Destroy(st) == IF st = "closed" THEN st ELSE "destroyed"

(* What a write of one item leaves unflushed in the socket's buffer.       *)
Buffered(s, n) == IF s \in Slow THEN n + 1 ELSE n

Overflows(n) == n > MaxSockBuf

-----------------------------------------------------------------------------
(* The 'close' event of FrameProtocol for the ids in I, followed by        *)
(* destroy() on their sockets and the removal of their entries: the CLOSE  *)
(* branch of handleIncomingFrame, and closeAllConnections.  proxyServer's  *)
(* onClose writes the 502 before anything is destroyed.                    *)

Listening(I) == {w \in Sockets : waiting[w] /\ regId[w] \in I}

Evict(I) ==
  LET answered == {w \in Listening(I) : bst[w] = "open"}
      doomed   == Listening(I) \cup {conns[i] : i \in I}
  IN  /\ conns' = [i \in Ids |-> IF i \in I THEN None ELSE conns[i]]
      /\ waiting' = [w \in Sockets |-> waiting[w] /\ w \notin Listening(I)]
      /\ bIn' = [w \in Sockets |->
                   IF w \in answered THEN Append(bIn[w], Reply(502)) ELSE bIn[w]]
      /\ bBuf' = [w \in Sockets |->
                   IF w \in answered THEN Buffered(w, bBuf[w]) ELSE bBuf[w]]
      /\ bst' = [w \in Sockets |->
                   IF w \in doomed THEN Destroy(bst[w]) ELSE bst[w]]

Registered == {i \in Ids : conns[i] # None}

TunnelCloseForgotten(lost) == Evict({})

(* 'tunnel_close': closeAllConnections(), or nothing when no session ends. *)
TunnelClose(lost) == Evict(IF lost THEN Registered ELSE {})

-----------------------------------------------------------------------------
(* registerConnection tries the ids Candidate(1), Candidate(2), ... and    *)
(* takes the first that is free; nextConnectionId wraps at the limit.      *)

CandidateUnwrapped(n) == nextId + (n - 1)
CandidateFromFirst(n) == ((n - 1) % IdLimit) + 1

Candidate(n) == ((nextId - 1 + (n - 1)) % IdLimit) + 1

EveryAttempt == 1 .. MaxAttempts

FreeAttempts == {n \in 1 .. MaxAttempts : conns[Candidate(n)] = None}

FirstFree == CHOOSE n \in FreeAttempts : \A m \in FreeAttempts : n <= m

(* The handler of a complete request.  An HTTP request is forwarded with   *)
(* its header as first chunk, a CONNECT may bring early data, and a        *)
(* request whose framing is refused has been registered and OPENed by then *)
(* and is answered 400.                                                    *)
Request(s, m, extra) ==
  /\ bst[s] = "idle"
  /\ m \in Methods
  /\ IsReady
  /\ FreeAttempts # {}
  /\ LET i     == Candidate(FirstFree)
         first == m = "http" \/ (m = "connect" /\ extra)
     IN  /\ conns' = [conns EXCEPT ![i] = s]
         /\ nextId' = Candidate(FirstFree + 1)
         /\ regId' = [regId EXCEPT ![s] = i]
         /\ SendFrames(IF first THEN <<Open(i, s), Data(i, Up(s, 1))>>
                                ELSE <<Open(i, s)>>)
         /\ bSent' = [bSent EXCEPT ![s] = IF first THEN 1 ELSE 0]
  /\ regSess' = [regSess EXCEPT ![s] = activeWs]
  /\ method' = [method EXCEPT ![s] = m]
  /\ waiting' = [waiting EXCEPT ![s] = m = "connect"]
  /\ bst' = [bst EXCEPT ![s] = IF m = "badhttp" THEN "ending" ELSE "open"]
  /\ bIn' = IF m = "badhttp" THEN [bIn EXCEPT ![s] = Append(@, Reply(400))] ELSE bIn
  /\ bBuf' = IF m = "badhttp" THEN [bBuf EXCEPT ![s] = Buffered(s, @)] ELSE bBuf
  /\ UNCHANGED <<activeWs, srvWs, cliWs, up>>

(* The same handler when the tunnel is down (502) or no id is free (503).  *)
Refuse(s, m) ==
  /\ bst[s] = "idle"
  /\ m \in Methods
  /\ ~IsReady \/ FreeAttempts = {}
  /\ nextId' = IF IsReady THEN Candidate(MaxAttempts + 2) ELSE nextId
  /\ bst' = [bst EXCEPT ![s] = IF IsReady THEN "destroyed" ELSE "ending"]
  /\ bIn' = [bIn EXCEPT ![s] = Append(@, Reply(IF IsReady THEN 503 ELSE 502))]
  /\ bBuf' = [bBuf EXCEPT ![s] = Buffered(s, @)]
  /\ method' = [method EXCEPT ![s] = m]
  /\ UNCHANGED <<activeWs, conns, regId, regSess, waiting, bSent, tunnelVars>>

-----------------------------------------------------------------------------
(* Events of a registered browser socket.                                  *)

CleanupSilently(s) ==
  /\ conns' = IF regId[s] = 0 THEN conns ELSE [conns EXCEPT ![regId[s]] = None]
  /\ UNCHANGED down

(* cleanup(): keyed by the connection id of the closure.                   *)
Cleanup(s) ==
  LET i == regId[s]
  IN  IF i # 0 /\ conns[i] # None
      THEN SendFrames(<<Close(i)>>) /\ conns' = [conns EXCEPT ![i] = None]
      ELSE UNCHANGED <<down, conns>>

BrowserSend(s) ==
  /\ bst[s] \in {"open", "ending"}
  /\ regId[s] # 0
  /\ bSent[s] < MaxUp
  /\ bSent' = [bSent EXCEPT ![s] = @ + 1]
  /\ SendFrames(<<Data(regId[s], Up(s, bSent[s] + 1))>>)
  /\ UNCHANGED <<activeWs, conns, nextId, bst, regId, regSess, method, waiting,
                 bIn, bBuf, srvWs, cliWs, up>>

BrowserEnd(s) ==
  /\ s \in Finishing
  /\ bst[s] \in {"open", "ending"}
  /\ regId[s] # 0
  /\ bst' = [bst EXCEPT ![s] = "ended"]
  /\ Cleanup(s)
  /\ UNCHANGED <<activeWs, nextId, regId, regSess, method, waiting, bSent, bIn,
                 bBuf, srvWs, cliWs, up>>

(* Idle timeout or socket error: destroyed now, 'close' comes later.       *)
BrowserAbort(s) ==
  /\ s \in Fragile
  /\ bst[s] \in {"open", "ending"}
  /\ bst' = [bst EXCEPT ![s] = "destroyed"]
  /\ UNCHANGED <<activeWs, conns, nextId, regId, regSess, method, waiting, bSent,
                 bIn, bBuf, tunnelVars>>

(* setImmediate(() => socket.destroy()) after a reply of the proxy.        *)
EndingDestroyed(s) ==
  /\ bst[s] = "ending"
  /\ bst' = [bst EXCEPT ![s] = "destroyed"]
  /\ UNCHANGED <<activeWs, conns, nextId, regId, regSess, method, waiting, bSent,
                 bIn, bBuf, tunnelVars>>

BrowserClosed(s) ==
  /\ bst[s] \in {"ended", "destroyed"}
  /\ bst' = [bst EXCEPT ![s] = "closed"]
  /\ waiting' = [waiting EXCEPT ![s] = FALSE]
  /\ Cleanup(s)
  /\ UNCHANGED <<activeWs, nextId, regId, regSess, method, bSent, bIn, bBuf,
                 srvWs, cliWs, up>>

(* The browser reads one buffered write.                                   *)
BrowserRead(s) ==
  /\ bBuf[s] > 0
  /\ ~Gone(bst[s])
  /\ bBuf' = [bBuf EXCEPT ![s] = @ - 1]
  /\ UNCHANGED <<activeWs, conns, nextId, bst, regId, regSess, method, waiting,
                 bSent, bIn, tunnelVars>>

-----------------------------------------------------------------------------
(* handleIncomingFrame, one action per branch.  Replies go to activeWs,    *)
(* which need not be the session the frame came from.                      *)

Arrives(k) ==
  /\ Receives(srvWs, k)
  /\ up[k] # <<>>
  /\ up' = [up EXCEPT ![k] = Tail(@)]
  /\ UNCHANGED <<activeWs, nextId, regId, regSess, method, bSent, srvWs, cliWs>>

FrameUnknown(k) ==
  /\ Arrives(k)
  /\ LET f == Head(up[k])
     IN  /\ conns[f.id] = None
         /\ IF f.type # "CLOSE" THEN SendFrames(<<Close(f.id)>>) ELSE UNCHANGED down
  /\ UNCHANGED <<conns, bst, waiting, bIn, bBuf>>

FrameData(k) ==
  /\ Arrives(k)
  /\ LET f == Head(up[k])
         s == conns[f.id]
         n == Buffered(s, bBuf[s])
     IN  /\ s # None
         /\ f.type = "DATA"
         /\ \/ /\ Gone(bst[s])
               /\ SendFrames(<<Close(f.id)>>)
               /\ conns' = [conns EXCEPT ![f.id] = None]
               /\ UNCHANGED <<bst, bIn, bBuf>>
            \/ /\ bst[s] \in {"ending", "ended"}     \* write after end
               /\ bst' = [bst EXCEPT ![s] = "destroyed"]
               /\ UNCHANGED <<conns, bIn, bBuf, down>>
            \/ /\ bst[s] \in {"idle", "open"}
               /\ bIn' = [bIn EXCEPT ![s] = Append(@, f.pay)]
               /\ bBuf' = [bBuf EXCEPT ![s] = n]
               /\ IF Overflows(n)
                  THEN /\ SendFrames(<<Close(f.id)>>)
                       /\ bst' = [bst EXCEPT ![s] = "destroyed"]
                       /\ conns' = [conns EXCEPT ![f.id] = None]
                  ELSE UNCHANGED <<bst, conns, down>>
  /\ UNCHANGED waiting

FrameClose(k) ==
  /\ Arrives(k)
  /\ conns[Head(up[k]).id] # None
  /\ Head(up[k]).type = "CLOSE"
  /\ Evict({Head(up[k]).id})
  /\ UNCHANGED down

FrameOpenAck(k) ==
  /\ Arrives(k)
  /\ LET f       == Head(up[k])
         heard   == Listening({f.id})
         replied == {w \in heard : ~Gone(bst[w])}
     IN  /\ conns[f.id] # None
         /\ f.type = "OPEN_ACK"
         /\ waiting' = [w \in Sockets |-> waiting[w] /\ w \notin heard]
         /\ bIn' = [w \in Sockets |->
                      IF w \in replied THEN Append(bIn[w], Reply(200)) ELSE bIn[w]]
         /\ bBuf' = [w \in Sockets |->
                      IF w \in replied THEN Buffered(w, bBuf[w]) ELSE bBuf[w]]
  /\ UNCHANGED <<conns, bst, down>>

-----------------------------------------------------------------------------
(* TunnelServer: a client connects (session k), possibly while an earlier  *)
(* session is still active, at its own end too; a session's socket is      *)
(* shut; its 'close' event.                                                *)

Connection(k) ==
  /\ cliWs[k] = "none"
  /\ k > 1 => cliWs[k - 1] # "none"
  /\ TunnelClose(activeWs # 0)
  /\ activeWs' = k
  /\ srvWs' = [(IF activeWs = 0 THEN srvWs ELSE Shut(srvWs, activeWs)) EXCEPT ![k] = "open"]
  /\ cliWs' = [cliWs EXCEPT ![k] = "open"]
  /\ UNCHANGED <<nextId, regId, regSess, method, bSent, down, up>>

(* Ping timeout, a frame that does not decrypt or decode, a send error or  *)
(* a full outbound queue: the server shuts the socket.                     *)
ServerShuts(k) ==
  /\ k \in Failing
  /\ srvWs[k] = "open"
  /\ srvWs' = Shut(srvWs, k)
  /\ UNCHANGED <<srvVars, cliWs, down, up>>

(* The slip: whichever session closes is taken for the active one.         *)
ServerWsClosedUnguarded(k) ==
  /\ MayClose(srvWs, cliWs, k)
  /\ srvWs' = [srvWs EXCEPT ![k] = "closed"]
  /\ up' = [up EXCEPT ![k] = <<>>]
  /\ activeWs' = 0
  /\ TunnelClose(TRUE)
  /\ UNCHANGED <<nextId, regId, regSess, method, bSent, cliWs, down>>

ServerWsClosed(k) ==
  /\ MayClose(srvWs, cliWs, k)
  /\ srvWs' = [srvWs EXCEPT ![k] = "closed"]
  /\ up' = [up EXCEPT ![k] = <<>>]
  /\ activeWs' = IF activeWs = k THEN 0 ELSE activeWs
  /\ TunnelClose(activeWs = k)
  /\ UNCHANGED <<nextId, regId, regSess, method, bSent, cliWs, down>>

-----------------------------------------------------------------------------
ServerHandles(k) ==
  FrameUnknown(k) \/ FrameData(k) \/ FrameClose(k) \/ FrameOpenAck(k)

ServerNext ==
  \/ \E s \in Sockets :
       \/ \E m \in Methods :
            \/ \E extra \in BOOLEAN : Request(s, m, extra)
            \/ Refuse(s, m)
       \/ BrowserSend(s)
       \/ BrowserEnd(s)
       \/ BrowserAbort(s)
       \/ EndingDestroyed(s)
       \/ BrowserClosed(s)
       \/ BrowserRead(s)
  \/ \E k \in Sessions :
       \/ ServerHandles(k)
       \/ Connection(k)
       \/ ServerShuts(k)
       \/ ServerWsClosed(k)
=============================================================================
