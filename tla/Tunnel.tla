------------------------------- MODULE Tunnel -------------------------------
(***************************************************************************)
(* The link both halves of PipeProxy share: the frames of                  *)
(* shared/frameEncoder.js and one WebSocket per tunnel session, seen from  *)
(* the two `ws` objects that end it.  The `ws` package itself is external: *)
(* it is modelled by what server/tunnelServer.js and                       *)
(* client/raspberryClient.js rely on, namely FIFO delivery, a readyState   *)
(* at each end, and a 'close' event at each end that the other end may see *)
(* earlier, later, or after losing the frames still in flight.             *)
(***************************************************************************)
EXTENDS Integers, Sequences

CONSTANTS
  Sockets,      \* browser connections; each asks for one target
  IdLimit,      \* largest connection id before nextConnectionId wraps
  NumSessions,  \* how many times the client connects its WebSocket
  Slow,         \* connections whose two ends need not read at once
  Failing,      \* sessions whose WebSocket may fail or be terminated
  Fragile,      \* connections whose browser or target may fail or time out
  Finishing,    \* connections whose browser or target may send FIN
  None          \* "no such entry in the Map"

Ids      == 1 .. IdLimit
Sessions == 1 .. NumSessions

ASSUME TunnelAssumption ==
  /\ None \notin Sockets
  /\ IdLimit \in Nat \ {0}
  /\ NumSessions \in Nat \ {0}
  /\ Slow \subseteq Sockets
  /\ Failing \subseteq Sessions
  /\ Fragile \subseteq Sockets
  /\ Finishing \subseteq Sockets

-----------------------------------------------------------------------------
(* Frames.  A payload is known by the browser connection it belongs to, by *)
(* what it is, and by its position in the stream.                          *)

Payload(s, tag, n) == [of |-> s, tag |-> tag, n |-> n]
Empty     == Payload(None, "none", 0)
Target(s) == Payload(s, "target", 0)   \* "host:port" of an OPEN
Up(s, n)  == Payload(s, "up", n)       \* n-th chunk the browser sends
Down(s, n) == Payload(s, "down", n)    \* n-th chunk the target sends
Page(s)   == Payload(s, "page", 0)     \* 403 / 502 page made by the client
Reply(c)  == Payload(None, "reply", c) \* status line made by the proxy

Payloads == [of : Sockets \cup {None},
             tag : {"none", "target", "up", "down", "page", "reply"},
             n : Nat]

Frame(type, i, p) == [type |-> type, id |-> i, pay |-> p]
Open(i, s)  == Frame("OPEN", i, Target(s))
Data(i, p)  == Frame("DATA", i, p)
Close(i)    == Frame("CLOSE", i, Empty)
OpenAck(i)  == Frame("OPEN_ACK", i, Empty)

Frames == {f \in [type : {"OPEN", "DATA", "CLOSE", "OPEN_ACK"}, id : Ids, pay : Payloads] :
             f.type = "OPEN" => f.pay.of \in Sockets}

-----------------------------------------------------------------------------
VARIABLES
  srvWs,   \* srvWs[k]: readyState of session k's socket at the server
  cliWs,   \* cliWs[k]: readyState of session k's socket at the client
  down,    \* down[k]: frames on their way from the server to the client
  up       \* up[k]: frames on their way from the client to the server

tunnelVars == <<srvWs, cliWs, down, up>>

WsStates == {"none", "open", "closing", "closed"}

TunnelTypeOK ==
  /\ srvWs \in [Sessions -> WsStates]
  /\ cliWs \in [Sessions -> WsStates]
  /\ down \in [Sessions -> Seq(Frames)]
  /\ up \in [Sessions -> Seq(Frames)]

TunnelInit ==
  /\ srvWs = [k \in Sessions |-> "none"]
  /\ cliWs = [k \in Sessions |-> "none"]
  /\ down = [k \in Sessions |-> <<>>]
  /\ up = [k \in Sessions |-> <<>>]

(* A socket delivers 'message' events until its 'close' event, also while  *)
(* it is closing.                                                          *)
Receives(ws, k) == ws[k] \in {"open", "closing"}

(* ws.close() and ws.terminate(): no send is accepted any more.            *)
Shut(ws, k) == [ws EXCEPT ![k] = IF @ = "open" THEN "closing" ELSE @]

(* An end of session k reports 'close' after it was shut or after the      *)
(* other end was, and at any time when the connection may fail.            *)
MayClose(ws, other, k) ==
  /\ Receives(ws, k)
  /\ k \in Failing \/ ws[k] = "closing" \/ other[k] \in {"closing", "closed"}

(* Frames put on a channel whose reader has gone are lost.                 *)
Put(chan, k, fs, reader) ==
  IF reader[k] = "closed" THEN chan ELSE [chan EXCEPT ![k] = @ \o fs]
=============================================================================
