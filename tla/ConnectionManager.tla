-------------------------- MODULE ConnectionManager --------------------------
(***************************************************************************)
(* The client half of the multiplexer: client/connectionManager.js, one    *)
(* manager per WebSocket as client/raspberryClient.js creates them.  What  *)
(* a manager still owns after its socket has closed (name lookups, target  *)
(* sockets) goes on existing, so the state is indexed by session.          *)
(*                                                                         *)
(* Name resolution and the target hosts are the environment: a request's   *)
(* host is an IP literal, a name, a local name or unusable, and a lookup   *)
(* or a connect may succeed, fail or take arbitrarily long.                *)
(***************************************************************************)
EXTENDS Tunnel, FiniteSets

CONSTANTS
  Hosts,           \* kinds of target host: "ip", "name", "local", "bad"
  MaxConnections,  \* MAX_CONNECTIONS
  MaxPending,      \* MAX_PENDING_CONNECTIONS
  MaxEarly,        \* early chunks a pending connection may hold
  MaxDown          \* bound: chunks a target sends

ASSUME ConnectionManagerAssumption ==
  /\ Hosts \subseteq {"ip", "name", "local", "bad"}
  /\ MaxConnections \in Nat
  /\ MaxPending \in Nat
  /\ MaxEarly \in Nat
  /\ MaxDown \in Nat

(* An entry of the Map of pending connections differs from no entry.       *)
ASSUME QueuesAreEntries == None \notin Seq(Payloads)

VARIABLES
  cConn,   \* cConn[k]: this.connections of session k's manager
  pend,    \* pend[k]: this.pendingConnections, id -> queued early data
  dns,     \* lookups whose callback has not run: [sess, id, of]
  tst,     \* state of each target socket, named by its browser connection
  tKey,    \* [sess, id] in the closures of the target socket
  tSent,   \* chunks read from the target so far
  tIn      \* everything written to the target socket, in order

cliVars == <<cConn, pend, dns, tst, tKey, tSent, tIn>>

TStates == {"none", "connecting", "open", "ended", "destroyed", "closed"}

Lookups == [sess : Sessions, id : Ids, of : Sockets]
NoKey   == [sess |-> 0, id |-> 0]

ConnectionManagerTypeOK ==
  /\ cConn \in [Sessions -> [Ids -> Sockets \cup {None}]]
  /\ pend \in [Sessions -> [Ids -> Seq(Payloads) \cup {None}]]
  /\ dns \subseteq Lookups
  /\ tst \in [Sockets -> TStates]
  /\ tKey \in [Sockets -> [sess : Sessions, id : Ids] \cup {NoKey}]
  /\ tSent \in [Sockets -> Nat]
  /\ tIn \in [Sockets -> Seq(Payloads)]

ConnectionManagerInit ==
  /\ cConn = [k \in Sessions |-> [i \in Ids |-> None]]
  /\ pend = [k \in Sessions |-> [i \in Ids |-> None]]
  /\ dns = {}
  /\ tst = [s \in Sockets |-> "none"]
  /\ tKey = [s \in Sockets |-> NoKey]
  /\ tSent = [s \in Sockets |-> 0]
  /\ tIn = [s \in Sockets |-> <<>>]

-----------------------------------------------------------------------------
(* sendFrame of session k's manager: nothing is sent once its own socket   *)
(* is no longer OPEN.                                                      *)
ReplyFrames(k, fs) ==
  up' = IF cliWs[k] = "open" THEN Put(up, k, fs, srvWs) ELSE up

TDestroyNothing(st) == st

TGone(st)    == st \in {"destroyed", "closed"}
TDestroy(st) == IF st = "closed" THEN st ELSE "destroyed"

Connected(k) == {i \in Ids : cConn[k][i] # None}
Pending(k)   == {i \in Ids : pend[k][i] # None}

FullTooLate(k) == Cardinality(Connected(k)) + Cardinality(Pending(k)) > MaxConnections

Full(k) == \/ Cardinality(Connected(k)) + Cardinality(Pending(k)) >= MaxConnections
           \/ Cardinality(Pending(k)) >= MaxPending

(* The answer to a target that is refused: a page, then CLOSE.             *)
Refusal(i, s) == <<Data(i, Page(s)), Close(i)>>

Removed(map, k, i) == [map EXCEPT ![k][i] = None]

-----------------------------------------------------------------------------
EstablishLosingEarly(k, i, s, early) ==
  /\ cConn' = [cConn EXCEPT ![k][i] = s]
  /\ pend' = Removed(pend, k, i)
  /\ tst' = [tst EXCEPT ![s] = "connecting"]
  /\ tKey' = [tKey EXCEPT ![s] = [sess |-> k, id |-> i]]
  /\ UNCHANGED tIn

(* establishConnection: the target socket exists from here on, the early   *)
(* data is written to it and the pending entry goes away.                  *)
Establish(k, i, s, early) ==
  /\ cConn' = [cConn EXCEPT ![k][i] = s]
  /\ pend' = Removed(pend, k, i)
  /\ tst' = [tst EXCEPT ![s] = "connecting"]
  /\ tKey' = [tKey EXCEPT ![s] = [sess |-> k, id |-> i]]
  /\ tIn' = [tIn EXCEPT ![s] = @ \o early]

-----------------------------------------------------------------------------
(* handleFrame, one action per branch.                                     *)

Delivered(k) ==
  /\ Receives(cliWs, k)
  /\ down[k] # <<>>
  /\ down' = [down EXCEPT ![k] = Tail(@)]
  /\ UNCHANGED <<srvWs, cliWs, tSent>>

(* OPEN refused without a page: a limit, or a host that cannot be used.    *)
OpenRejected(k, h) ==
  /\ Delivered(k)
  /\ Head(down[k]).type = "OPEN"
  /\ Full(k) \/ h = "bad"
  /\ ReplyFrames(k, <<Close(Head(down[k]).id)>>)
  /\ UNCHANGED <<cConn, pend, dns, tst, tKey, tIn>>

(* OPEN of a local host, which leaves an entry of the id as it is, or of   *)
(* an address in a protected range, which removes it.                      *)
OpenForbidden(k, h) ==
  /\ Delivered(k)
  /\ Head(down[k]).type = "OPEN"
  /\ ~Full(k)
  /\ h = "local"
  /\ ReplyFrames(k, Refusal(Head(down[k]).id, Head(down[k]).pay.of))
  /\ pend' = pend \/ pend' = Removed(pend, k, Head(down[k]).id)
  /\ UNCHANGED <<cConn, dns, tst, tKey, tIn>>

OpenAddress(k, h) ==
  /\ Delivered(k)
  /\ Head(down[k]).type = "OPEN"
  /\ ~Full(k)
  /\ h = "ip"
  /\ Establish(k, Head(down[k]).id, Head(down[k]).pay.of, <<>>)
  /\ UNCHANGED <<dns, up>>

OpenName(k, h) ==
  /\ Delivered(k)
  /\ Head(down[k]).type = "OPEN"
  /\ ~Full(k)
  /\ h = "name"
  /\ LET f == Head(down[k])
     IN  /\ pend' = [pend EXCEPT ![k][f.id] = <<>>]
         /\ dns' = dns \cup {[sess |-> k, id |-> f.id, of |-> f.pay.of]}
  /\ UNCHANGED <<cConn, tst, tKey, tIn, up>>

DataConnected(k) ==
  /\ Delivered(k)
  /\ LET f == Head(down[k])
         s == cConn[k][f.id]
     IN  /\ f.type = "DATA"
         /\ s # None
         /\ IF TGone(tst[s])
            THEN /\ ReplyFrames(k, <<Close(f.id)>>)
                 /\ cConn' = Removed(cConn, k, f.id)
                 /\ UNCHANGED tIn
            ELSE /\ tIn' = [tIn EXCEPT ![s] = Append(@, f.pay)]
                 /\ UNCHANGED <<up, cConn>>
  /\ UNCHANGED <<pend, dns, tst, tKey>>

(* The target does not take its data: the socket's buffer is full.  How    *)
(* much a target has read is not modelled, so any write may be the one.    *)
DataOverflow(k) ==
  /\ Delivered(k)
  /\ LET f == Head(down[k])
         s == cConn[k][f.id]
     IN  /\ f.type = "DATA"
         /\ s \in Slow
         /\ ~TGone(tst[s])
         /\ ReplyFrames(k, <<Close(f.id)>>)
         /\ cConn' = Removed(cConn, k, f.id)
         /\ tst' = [tst EXCEPT ![s] = "destroyed"]
         /\ tIn' = [tIn EXCEPT ![s] = Append(@, f.pay)]
  /\ UNCHANGED <<pend, dns, tKey>>

DataPending(k) ==
  /\ Delivered(k)
  /\ LET f == Head(down[k])
         q == Append(pend[k][f.id], f.pay)
     IN  /\ f.type = "DATA"
         /\ cConn[k][f.id] = None
         /\ pend[k][f.id] # None
         /\ IF Len(q) > MaxEarly
            THEN /\ ReplyFrames(k, <<Close(f.id)>>)
                 /\ pend' = Removed(pend, k, f.id)
            ELSE /\ pend' = [pend EXCEPT ![k][f.id] = q]
                 /\ UNCHANGED up
  /\ UNCHANGED <<cConn, dns, tst, tKey, tIn>>

DataUnknown(k) ==
  /\ Delivered(k)
  /\ LET f == Head(down[k])
     IN  /\ f.type = "DATA"
         /\ cConn[k][f.id] = None
         /\ pend[k][f.id] = None
         /\ ReplyFrames(k, <<Close(f.id)>>)
  /\ UNCHANGED <<cConn, pend, dns, tst, tKey, tIn>>

CloseFrame(k) ==
  /\ Delivered(k)
  /\ LET f == Head(down[k])
         s == cConn[k][f.id]
     IN  /\ f.type = "CLOSE"
         /\ tst' = IF s = None THEN tst ELSE [tst EXCEPT ![s] = TDestroy(@)]
         /\ cConn' = Removed(cConn, k, f.id)
         /\ pend' = Removed(pend, k, f.id)
  /\ UNCHANGED <<dns, tKey, tIn, up>>

-----------------------------------------------------------------------------
(* The dns.lookup callback.                                                *)

LookupStale(d) ==
  /\ d \in dns
  /\ dns' = dns \ {d}
  /\ pend[d.sess][d.id] = None
  /\ UNCHANGED <<cConn, pend, tst, tKey, tSent, tIn, tunnelVars>>

(* No address, or an address establishConnection refuses.  The slip: the   *)
(* entry goes away and nothing is answered.                                *)
LookupFailsSilently(d) ==
  /\ d \in dns
  /\ dns' = dns \ {d}
  /\ pend[d.sess][d.id] # None
  /\ pend' = Removed(pend, d.sess, d.id)
  /\ UNCHANGED <<cConn, tst, tKey, tSent, tIn, tunnelVars>>

LookupFails(d) ==
  /\ d \in dns
  /\ dns' = dns \ {d}
  /\ pend[d.sess][d.id] # None
  /\ ReplyFrames(d.sess, Refusal(d.id, d.of))
  /\ pend' = Removed(pend, d.sess, d.id)
  /\ UNCHANGED <<cConn, tst, tKey, tSent, tIn, srvWs, cliWs, down>>

LookupSucceeds(d) ==
  /\ d \in dns
  /\ dns' = dns \ {d}
  /\ pend[d.sess][d.id] # None
  /\ Establish(d.sess, d.id, d.of, pend[d.sess][d.id])
  /\ UNCHANGED <<tSent, tunnelVars>>

-----------------------------------------------------------------------------
(* Events of a target socket.                                              *)

TargetCleanupSilently(s) ==
  /\ cConn' = Removed(cConn, tKey[s].sess, tKey[s].id)
  /\ UNCHANGED up

TargetCleanup(s) ==
  LET k == tKey[s].sess
      i == tKey[s].id
  IN  IF cConn[k][i] # None
      THEN ReplyFrames(k, <<Close(i)>>) /\ cConn' = Removed(cConn, k, i)
      ELSE UNCHANGED <<up, cConn>>

TargetConnectsSilently(s) ==
  /\ tst[s] = "connecting"
  /\ tst' = [tst EXCEPT ![s] = "open"]
  /\ UNCHANGED <<cConn, pend, dns, tKey, tSent, tIn, tunnelVars>>

TargetConnects(s) ==
  /\ tst[s] = "connecting"
  /\ tst' = [tst EXCEPT ![s] = "open"]
  /\ ReplyFrames(tKey[s].sess, <<OpenAck(tKey[s].id)>>)
  /\ UNCHANGED <<cConn, pend, dns, tKey, tSent, tIn, srvWs, cliWs, down>>

TargetSends(s) ==
  /\ tst[s] = "open"
  /\ tSent[s] < MaxDown
  /\ tSent' = [tSent EXCEPT ![s] = @ + 1]
  /\ ReplyFrames(tKey[s].sess, <<Data(tKey[s].id, Down(s, tSent[s] + 1))>>)
  /\ UNCHANGED <<cConn, pend, dns, tst, tKey, tIn, srvWs, cliWs, down>>

TargetEnds(s) ==
  /\ s \in Finishing
  /\ tst[s] = "open"
  /\ tst' = [tst EXCEPT ![s] = "ended"]
  /\ TargetCleanup(s)
  /\ UNCHANGED <<pend, dns, tKey, tSent, tIn, srvWs, cliWs, down>>

(* Refused, unreachable, reset: destroyed, and 'error' runs the cleanup.   *)
TargetFails(s) ==
  /\ s \in Fragile
  /\ tst[s] \in {"connecting", "open"}
  /\ tst' = [tst EXCEPT ![s] = "destroyed"]
  /\ TargetCleanup(s)
  /\ UNCHANGED <<pend, dns, tKey, tSent, tIn, srvWs, cliWs, down>>

TargetClosed(s) ==
  /\ tst[s] \in {"ended", "destroyed"}
  /\ tst' = [tst EXCEPT ![s] = "closed"]
  /\ TargetCleanup(s)
  /\ UNCHANGED <<pend, dns, tKey, tSent, tIn, srvWs, cliWs, down>>

-----------------------------------------------------------------------------
(* The client's end of the WebSocket: terminate() on a missing ping, a     *)
(* decryption failure or a full queue, and the 'close' event, which runs   *)
(* closeAllConnections.  pendingConnections is not cleared there.          *)

ClientShuts(k) ==
  /\ k \in Failing
  /\ cliWs[k] = "open"
  /\ cliWs' = Shut(cliWs, k)
  /\ UNCHANGED <<cliVars, srvWs, down, up>>

CloseAllTargetsForgotten(k) ==
  /\ cConn' = [cConn EXCEPT ![k] = [i \in Ids |-> None]]
  /\ UNCHANGED <<tst, pend>>

CloseAllTargets(k) ==
  /\ tst' = [s \in Sockets |->
               IF \E i \in Ids : cConn[k][i] = s THEN TDestroy(tst[s]) ELSE tst[s]]
  /\ cConn' = [cConn EXCEPT ![k] = [i \in Ids |-> None]]
  /\ UNCHANGED pend

ClientWsClosed(k) ==
  /\ MayClose(cliWs, srvWs, k)
  /\ cliWs' = [cliWs EXCEPT ![k] = "closed"]
  /\ down' = [down EXCEPT ![k] = <<>>]
  /\ CloseAllTargets(k)
  /\ UNCHANGED <<dns, tKey, tSent, tIn, srvWs, up>>

-----------------------------------------------------------------------------
ClientHandles(k) ==
  \/ \E h \in Hosts :
       OpenRejected(k, h) \/ OpenForbidden(k, h) \/ OpenAddress(k, h) \/ OpenName(k, h)
  \/ DataConnected(k)
  \/ DataOverflow(k)
  \/ DataPending(k)
  \/ DataUnknown(k)
  \/ CloseFrame(k)

Resolves(d) == LookupStale(d) \/ LookupFails(d) \/ LookupSucceeds(d)

ClientNext ==
  \/ \E k \in Sessions : ClientHandles(k) \/ ClientShuts(k) \/ ClientWsClosed(k)
  \/ \E d \in dns : Resolves(d)
  \/ \E s \in Sockets :
       \/ TargetConnects(s)
       \/ TargetSends(s)
       \/ TargetEnds(s)
       \/ TargetFails(s)
       \/ TargetClosed(s)
=============================================================================
