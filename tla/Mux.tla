--------------------------------- MODULE Mux ---------------------------------
(***************************************************************************)
(* PipeProxy's multiplexer end to end: the server half, the client half    *)
(* and the WebSocket sessions between them.  Every step is an event of one *)
(* of the two Node processes, run to completion as Node does.              *)
(***************************************************************************)
EXTENDS FrameProtocol, ConnectionManager

vars == <<srvVars, cliVars, tunnelVars>>

Init == TunnelInit /\ FrameProtocolInit /\ ConnectionManagerInit

Next == \/ ServerNext /\ UNCHANGED cliVars
        \/ ClientNext /\ UNCHANGED srvVars

Spec == Init /\ [][Next]_vars

-----------------------------------------------------------------------------
(* What Node, the kernel and the resolver do eventually: deliver what has  *)
(* arrived, finish a lookup, a connect, a close.  A browser's socket whose *)
(* browser sent FIN closes at the latest by the idle timeout; a target's   *)
(* has none, so one that sent FIN may stay half open as long as the target *)
(* does not read.  Nothing is assumed of browsers and targets, nor that a  *)
(* tunnel ever fails or comes back.                                        *)

ServerLearnsClose(k) ==
  ServerWsClosed(k) /\ (srvWs[k] = "closing" \/ cliWs[k] = "closed")

ClientLearnsClose(k) ==
  ClientWsClosed(k) /\ (cliWs[k] = "closing" \/ srvWs[k] \in {"closing", "closed"})

ConnectEnds(s) ==
  tst[s] = "connecting" /\ (TargetConnects(s) \/ TargetFails(s))

Server(A) == A /\ UNCHANGED cliVars
Client(A) == A /\ UNCHANGED srvVars

Fairness ==
  /\ \A k \in Sessions :
       /\ WF_vars(Server(ServerHandles(k)))
       /\ WF_vars(Client(ClientHandles(k)))
       /\ WF_vars(Server(ServerLearnsClose(k)))
       /\ WF_vars(Client(ClientLearnsClose(k)))
  /\ \A s \in Sockets :
       /\ WF_vars(Server(EndingDestroyed(s)))
       /\ WF_vars(Server(BrowserClosed(s)))
       /\ WF_vars(Client(\E d \in dns : d.of = s /\ Resolves(d)))
       /\ WF_vars(Client(ConnectEnds(s)))
       /\ WF_vars(Client(tst[s] = "destroyed" /\ TargetClosed(s)))

FairSpec == Spec /\ Fairness

-----------------------------------------------------------------------------
(* Every variable has its type: maps hold sockets, ids stay in range, and  *)
(* a session's channels carry well-formed frames.                          *)
TypeOK == TunnelTypeOK /\ FrameProtocolTypeOK /\ ConnectionManagerTypeOK

(* A browser connection in the Map of frameProtocol.js belongs to the      *)
(* session that is active now, sits under its own id, and is still alive   *)
(* or about to report 'close': sessions that were replaced or lost leave   *)
(* nothing behind in the Map.                                              *)
RegisteredInSession ==
  \A i \in Ids : conns[i] # None =>
    LET s == conns[i]
    IN  /\ activeWs # 0
        /\ regSess[s] = activeWs
        /\ regId[s] = i
        /\ bst[s] \in {"open", "ending", "destroyed"}

(* An open WebSocket is the one the server sends on: a session that was    *)
(* replaced is shut, and its 'close', which may come while the next one    *)
(* is in use, does not make the server forget that one.                    *)
OpenSessionActive == \A k \in Sessions : srvWs[k] = "open" => activeWs = k

(* A browser socket left open is always in the Map: only entries of the    *)
(* Map are destroyed when the tunnel or the target goes away, so a live    *)
(* socket outside it would hang for ever.                                  *)
NoStrandedBrowser ==
  \A s \in Sockets :
    bst[s] = "open" => regId[s] # 0 /\ conns[regId[s]] = s

(* The same at the client: while its session lasts, a live target socket   *)
(* is in its manager's Map, where a CLOSE can reach it.                    *)
TargetOwned ==
  \A s \in Sockets :
    tst[s] \in {"connecting", "open"} /\ cliWs[tKey[s].sess] # "closed" =>
      cConn[tKey[s].sess][tKey[s].id] = s

(* What a browser is given after at most one status line of the proxy is a *)
(* prefix of what its own target sent: no byte of another stream or of an  *)
(* earlier session, none twice, none out of order.  Or it is the client's  *)
(* refusal page and what onClose adds to it.                               *)
Answers(b) == IF b # <<>> /\ b[1].tag = "reply" THEN 1 ELSE 0

BrowserStream ==
  \A s \in Sockets :
    LET b == bIn[s]
        n == Len(b) - Answers(b)
    IN  \/ b \in {<<Page(s)>>, <<Page(s), Reply(502)>>}
        \/ n <= tSent[s] /\ \A m \in 1 .. n : b[m + Answers(b)] = Down(s, m)

(* What a target is given is a prefix of what its own browser sent, the    *)
(* early data queued during name resolution included.                      *)
TargetStream ==
  \A s \in Sockets :
    /\ Len(tIn[s]) <= bSent[s]
    /\ \A n \in 1 .. Len(tIn[s]) : tIn[s][n] = Up(s, n)

(* A CONNECT is answered 200 before any byte of the target, once, and no   *)
(* status line of the proxy is mixed into an established stream.           *)
AnsweredOnce ==
  \A s \in Sockets : method[s] = "connect" =>
    \A n \in 1 .. Len(bIn[s]) :
      /\ bIn[s][n].tag = "down" => bIn[s][1] = Reply(200) /\ n > 1
      /\ bIn[s][n].tag = "reply" /\ n > 1 => bIn[s][1] = Page(s) /\ n = 2

(* When a session is up, nothing is in flight and no socket is about to    *)
(* report 'close', both halves agree on which ids are in use: neither half *)
(* keeps an entry the other has forgotten.                                 *)
Quiet(k) ==
  /\ srvWs[k] = "open" /\ cliWs[k] = "open"
  /\ up[k] = <<>> /\ down[k] = <<>>
  /\ \A i \in Registered : bst[conns[i]] \in {"open", "ending"}

Agreement ==
  activeWs # 0 /\ Quiet(activeWs) =>
    Registered = Connected(activeWs) \cup Pending(activeWs)

(* An id is given out only when no live connection holds it, also after    *)
(* nextConnectionId has wrapped.                                           *)
NoIdTakenOver ==
  [][\A i \in Ids : conns[i] # None => conns'[i] \in {conns[i], None}]_vars

(* A frame of a session that has been replaced may still arrive; it never  *)
(* touches a browser connection, which by then belongs to a later session. *)
StaleFramesHarmless ==
  [][\A k \in Sessions :
       k # activeWs /\ ServerHandles(k) => UNCHANGED <<conns, bst, waiting, bIn>>]_vars

(* The client never has more streams than MAX_CONNECTIONS, nor more        *)
(* lookups in progress than MAX_PENDING_CONNECTIONS, per session.          *)
WithinLimits ==
  \A k \in Sessions :
    /\ Cardinality(Connected(k)) + Cardinality(Pending(k)) <= MaxConnections
    /\ Cardinality(Pending(k)) <= MaxPending

(* Once a session's socket has closed at the client, none of its targets   *)
(* is being connected to or talked to.                                     *)
Ghost(s) == tst[s] \in {"connecting", "open"} /\ cliWs[tKey[s].sess] = "closed"

NoGhostTarget == \A s \in Sockets : ~Ghost(s)

(* A session that ends at the client takes its live targets with it: the   *)
(* only ghosts are those whose lookup was still in progress then.          *)
SessionTakesItsTargets ==
  [][\A k \in Sessions : cliWs[k] # "closed" /\ cliWs'[k] = "closed" =>
       \A s \in Sockets :
         tKey[s].sess = k => tst'[s] \notin {"connecting", "open"}]_vars

(* Every CONNECT is answered or its socket closed, whatever happens to the *)
(* lookup, the target and the tunnel.                                      *)
EveryConnectAnswered == \A s \in Sockets : waiting[s] ~> ~waiting[s]

(* When the target is gone its browser's socket does not stay open.        *)
CloseReachesBrowser ==
  \A s \in Sockets :
    tst[s] \in {"ended", "destroyed", "closed"} ~> bst[s] \in {"ended", "closed"}

(* When the browser is gone its target's socket is destroyed, unless the   *)
(* target has ended its side, whose entry is then gone and which no CLOSE  *)
(* reaches, or it is a ghost.                                              *)
CloseReachesTarget ==
  \A s \in Sockets :
    bst[s] = "closed" /\ regId[s] # 0 ~>
      tst[s] \in {"none", "ended", "closed"} \/ Ghost(s)
=============================================================================
