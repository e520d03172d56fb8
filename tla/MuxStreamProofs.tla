--------------------------- MODULE MuxStreamProofs ---------------------------
(***************************************************************************)
(* Theorems about the streams of Mux: who owns a socket, where a frame may *)
(* come from and what a target is given.  They hold as long as connection  *)
(* ids are not reused, a hypothesis stated in each of them; FirstLap says  *)
(* for which numbers of connections that is never an issue.                *)
(***************************************************************************)
EXTENDS MuxProofs

-----------------------------------------------------------------------------
(* Two sockets have the same id only when the 'close' event of one of them *)
(* has run: nextConnectionId does not come round to an id while its last   *)
(* holder is still to run its cleanup().                                   *)
IdsApart ==
  \A s, t \in Sockets :
    s # t /\ regId[s] # 0 /\ regId[s] = regId[t] =>
      bst[s] = "closed" \/ bst[t] = "closed"

(* No id is given out twice: nextConnectionId has not come round yet.      *)
FreshIds ==
  \A s, t \in Sockets : regId[s] # 0 /\ regId[s] = regId[t] => s = t

-----------------------------------------------------------------------------
(* Inductive invariants.                                                   *)

(* A socket that is open, or that is ending after it was registered, is in *)
(* the Map; one without a request has no id.                               *)
LiveInMap ==
  \A s \in Sockets :
    /\ bst[s] = "idle" => regId[s] = 0
    /\ bst[s] = "open" => regId[s] # 0
    /\ bst[s] \in {"open", "ending"} /\ regId[s] # 0 => conns[regId[s]] = s

(* Sessions that sockets were registered in have begun.                    *)
SessionsBegun ==
  /\ activeWs # 0 => cliWs[activeWs] # "none"
  /\ \A s \in Sockets :
       regId[s] # 0 => regSess[s] # 0 /\ cliWs[regSess[s]] # "none"

(* Socket s was registered in session k under id i.                        *)
Holds(ri, rs, s, k, i) == ri[s] = i /\ rs[s] = k

(* An OPEN or DATA frame on its way to the client is about a socket that   *)
(* was registered in that session under that id.                           *)
DownFrom(q, k, ri, rs) ==
  \A n \in 1 .. Len(q) :
    q[n].type \in {"OPEN", "DATA"} =>
      q[n].pay.of \in Sockets /\ Holds(ri, rs, q[n].pay.of, k, q[n].id)

(* A frame on its way to the server has the id of some socket that was     *)
(* registered in that session.                                             *)
UpFrom(q, k, ri, rs) ==
  \A n \in 1 .. Len(q) : \E s \in Sockets : Holds(ri, rs, s, k, q[n].id)

DownSourced == \A k \in Sessions : DownFrom(down[k], k, regId, regSess)
UpSourced   == \A k \in Sessions : UpFrom(up[k], k, regId, regSess)

(* So are the lookups, the target sockets and the two Maps of the client.  *)
LookupsSourced == \A d \in dns : Holds(regId, regSess, d.of, d.sess, d.id)
KeysSourced ==
  \A s \in Sockets :
    tKey[s] # NoKey => Holds(regId, regSess, s, tKey[s].sess, tKey[s].id)
TargetsSourced ==
  \A k \in Sessions : \A i \in Ids :
    cConn[k][i] # None => Holds(regId, regSess, cConn[k][i], k, i)
PendingSourced ==
  \A k \in Sessions : \A i \in Ids :
    pend[k][i] # None => \E s \in Sockets : Holds(regId, regSess, s, k, i)

Sourced ==
  /\ SessionsBegun
  /\ DownSourced /\ UpSourced
  /\ LookupsSourced /\ KeysSourced /\ TargetsSourced /\ PendingSourced

-----------------------------------------------------------------------------
(* The Map of the server.                                                  *)

(* A request is what changes ids and sessions.                             *)
LEMMA RegisteredByRequest ==
  ASSUME [Next]_vars
  PROVE  \/ regId' = regId /\ regSess' = regSess
         \/ \E s \in Sockets, m \in Methods, extra \in BOOLEAN : Request(s, m, extra)
<1>1. CASE ServerNext
  <2>1. ASSUME NEW k \in Sessions, ServerHandles(k)
        PROVE  regId' = regId /\ regSess' = regSess
    BY <2>1 DEF ServerHandles, FrameUnknown, FrameData, FrameClose, FrameOpenAck, Arrives
  <2>2. ASSUME NEW k \in Sessions, Connection(k) \/ ServerShuts(k) \/ ServerWsClosed(k)
        PROVE  regId' = regId /\ regSess' = regSess
    BY <2>2 DEF Connection, ServerShuts, ServerWsClosed, srvVars
  <2>3. ASSUME NEW s \in Sockets,
               \/ \E m \in Methods : Refuse(s, m)
               \/ BrowserSend(s) \/ BrowserEnd(s) \/ BrowserAbort(s)
               \/ EndingDestroyed(s) \/ BrowserClosed(s) \/ BrowserRead(s)
        PROVE  regId' = regId /\ regSess' = regSess
    BY <2>3 DEF Refuse, BrowserSend, BrowserEnd, BrowserAbort, EndingDestroyed,
                BrowserClosed, BrowserRead
  <2> QED
    BY <1>1, <2>1, <2>2, <2>3 DEF ServerNext
<1>2. CASE UNCHANGED srvVars
  BY <1>2 DEF srvVars
<1> QED
  BY <1>1, <1>2 DEF Next, vars

(* Registering is for good.                                                *)
LEMMA RegistrationKept ==
  ASSUME TypeInv, LiveInMap, [Next]_vars
  PROVE  \A s \in Sockets :
           regId[s] # 0 => regId'[s] = regId[s] /\ regSess'[s] = regSess[s]
<1>1. /\ regId \in [Sockets -> 0 .. IdLimit]
      /\ regSess \in [Sockets -> 0 .. NumSessions]
  BY DEF TypeInv, TypeOK, FrameProtocolTypeOK
<1>2. ASSUME NEW s \in Sockets, NEW m \in Methods, NEW extra \in BOOLEAN,
             Request(s, m, extra)
      PROVE  \A t \in Sockets :
               regId[t] # 0 => regId'[t] = regId[t] /\ regSess'[t] = regSess[t]
  <2>1. /\ regId' = [regId EXCEPT ![s] = Candidate(FirstFree)]
        /\ regSess' = [regSess EXCEPT ![s] = activeWs]
        /\ bst[s] = "idle"
    BY <1>2 DEF Request
  <2>2. regId[s] = 0
    BY <2>1 DEF LiveInMap
  <2> QED
    BY <1>1, <2>1, <2>2
<1> QED
  BY <1>2, RegisteredByRequest

(* An entry of the Map that goes away takes its socket with it.            *)
LEMMA LiveKept ==
  ASSUME TypeInv, LiveInMap, UNCHANGED regId,
         \A s \in Sockets :
           bst'[s] = bst[s] \/ bst'[s] \in {"ended", "destroyed", "closed"},
         \A i \in Ids : conns[i] \in Sockets =>
           conns'[i] = conns[i] \/ bst'[conns[i]] \in {"ended", "destroyed", "closed"}
  PROVE  LiveInMap'
<1> SUFFICES ASSUME NEW s \in Sockets
             PROVE  /\ bst'[s] = "idle" => regId'[s] = 0
                    /\ bst'[s] = "open" => regId'[s] # 0
                    /\ bst'[s] \in {"open", "ending"} /\ regId'[s] # 0 =>
                         conns'[regId'[s]] = s
  BY DEF LiveInMap
<1>1. regId[s] \in 0 .. IdLimit
  BY DEF TypeInv, TypeOK, FrameProtocolTypeOK
<1>2. ASSUME bst'[s] \in {"open", "ending"}, regId[s] # 0
      PROVE  conns'[regId[s]] = s
  <2>1. regId[s] \in Ids
    BY <1>1, <1>2 DEF Ids
  <2>2. bst[s] \in {"open", "ending"}
    BY <1>2
  <2>3. conns[regId[s]] = s
    BY <1>2, <2>2 DEF LiveInMap
  <2> QED
    BY <1>2, <2>1, <2>3
<1> QED
  BY <1>2 DEF LiveInMap

(* destroy() leaves no socket open.                                        *)
LEMMA EvictLive ==
  ASSUME TypeInv, RegisteredInSession, NEW I, Evict(I)
  PROVE  /\ \A s \in Sockets :
              bst'[s] = bst[s] \/ bst'[s] \in {"ended", "destroyed", "closed"}
         /\ \A i \in Ids : conns[i] \in Sockets =>
              conns'[i] = conns[i] \/ bst'[conns[i]] \in {"ended", "destroyed", "closed"}
<1>1. \A s \in Sockets : bst'[s] = bst[s] \/ bst'[s] = Destroy(bst[s])
  BY DEF Evict
<1>2. ASSUME NEW i \in Ids, conns[i] \in Sockets
      PROVE  conns'[i] = conns[i] \/ bst'[conns[i]] = Destroy(bst[conns[i]])
  BY <1>2 DEF Evict
<1> QED
  BY <1>1, <1>2 DEF Destroy

(* The cleanup of a socket takes no other live socket out of the Map, as   *)
(* long as ids are apart.                                                  *)
LEMMA CleanupLive ==
  ASSUME TypeInv, RegisteredInSession, IdsApart, NEW s \in Sockets, Cleanup(s),
         bst[s] # "closed"
  PROVE  \A i \in Ids : conns[i] \in Sockets => conns'[i] = conns[i] \/ conns[i] = s
<1> SUFFICES ASSUME NEW i \in Ids, conns[i] \in Sockets, conns'[i] # conns[i]
             PROVE  conns[i] = s
  OBVIOUS
<1>1. conns \in [Ids -> Sockets \cup {None}] /\ conns[i] # None
  BY TunnelAssumption DEF TypeInv, TypeOK, FrameProtocolTypeOK
<1>2. i = regId[s] /\ i # 0
  BY <1>1 DEF Cleanup, Ids
<1>3. regId[conns[i]] = i /\ bst[conns[i]] \in {"open", "ending", "destroyed"}
  BY <1>1 DEF RegisteredInSession
<1> QED
  BY <1>2, <1>3 DEF IdsApart

(* A step of a browser socket, a request or a refusal.                     *)
LEMMA BrowserLive ==
  ASSUME TypeInv, RegisteredInSession, IdsApart, LiveInMap, NEW s \in Sockets,
         \/ \E m \in Methods : (\E extra \in BOOLEAN : Request(s, m, extra)) \/ Refuse(s, m)
         \/ BrowserSend(s) \/ BrowserEnd(s) \/ BrowserAbort(s)
         \/ EndingDestroyed(s) \/ BrowserClosed(s) \/ BrowserRead(s)
  PROVE  LiveInMap'
<1>1. /\ bst \in [Sockets -> BStates]
      /\ conns \in [Ids -> Sockets \cup {None}]
      /\ regId \in [Sockets -> 0 .. IdLimit]
  BY DEF TypeInv, TypeOK, FrameProtocolTypeOK
<1>2. CASE \E m \in Methods : \E extra \in BOOLEAN : Request(s, m, extra)
  <2> DEFINE j == Candidate(FirstFree)
  <2>1. PICK m \in Methods : \E extra \in BOOLEAN : Request(s, m, extra)
    BY <1>2
  <2>2. /\ conns' = [conns EXCEPT ![j] = s]
        /\ regId' = [regId EXCEPT ![s] = j]
        /\ bst' = [bst EXCEPT ![s] = IF m = "badhttp" THEN "ending" ELSE "open"]
        /\ FreeAttempts # {}
    BY <2>1 DEF Request
  <2>3. FirstFree \in 1 .. MaxAttempts /\ conns[j] = None
    BY <2>2, FirstFreeExists DEF FreeAttempts
  <2>4. j \in Ids
    BY <2>3, CandidateType, FrameProtocolAssumption DEF TypeInv, TypeOK, FrameProtocolTypeOK
  <2>5. j # 0
    BY <2>4 DEF Ids
  <2> HIDE DEF j
  <2>6. SUFFICES ASSUME NEW w \in Sockets
                 PROVE  /\ bst'[w] = "idle" => regId'[w] = 0
                        /\ bst'[w] = "open" => regId'[w] # 0
                        /\ bst'[w] \in {"open", "ending"} /\ regId'[w] # 0 =>
                             conns'[regId'[w]] = w
    BY DEF LiveInMap
  <2>7. CASE w = s
    BY <1>1, <2>2, <2>4, <2>5, <2>7
  <2>8. CASE w # s
    <3>1. bst'[w] = bst[w] /\ regId'[w] = regId[w]
      BY <1>1, <2>2, <2>8
    <3>2. ASSUME bst[w] \in {"open", "ending"}, regId[w] # 0
          PROVE  conns'[regId[w]] = w
      <4>1. regId[w] \in Ids /\ conns[regId[w]] = w
        BY <1>1, <3>2 DEF LiveInMap, Ids
      <4>2. regId[w] # j
        BY <2>3, <4>1, TunnelAssumption
      <4> QED
        BY <1>1, <2>2, <4>1, <4>2
    <3> QED
      BY <3>1, <3>2 DEF LiveInMap
  <2> QED
    BY <2>7, <2>8
<1>3. CASE \E m \in Methods : Refuse(s, m)
  <2>1. PICK m \in Methods : Refuse(s, m)
    BY <1>3
  <2>2. /\ bst' = [bst EXCEPT ![s] = IF IsReady THEN "destroyed" ELSE "ending"]
        /\ bst[s] = "idle"
        /\ UNCHANGED <<conns, regId>>
    BY <2>1 DEF Refuse
  <2>3. regId[s] = 0
    BY <2>2 DEF LiveInMap
  <2> QED
    BY <1>1, <2>2, <2>3 DEF LiveInMap
<1>4. CASE BrowserSend(s) \/ BrowserRead(s)
  BY <1>4 DEF BrowserSend, BrowserRead, LiveInMap
<1>5. CASE BrowserAbort(s) \/ EndingDestroyed(s)
  <2>1. UNCHANGED <<conns, regId>> /\ bst' = [bst EXCEPT ![s] = "destroyed"]
    BY <1>5 DEF BrowserAbort, EndingDestroyed
  <2> QED
    BY <1>1, <2>1, LiveKept
<1>6. CASE BrowserEnd(s) \/ BrowserClosed(s)
  <2>1. /\ Cleanup(s)
        /\ UNCHANGED regId
        /\ bst[s] # "closed"
        /\ bst' = [bst EXCEPT ![s] = "ended"] \/ bst' = [bst EXCEPT ![s] = "closed"]
    BY <1>6 DEF BrowserEnd, BrowserClosed
  <2>2. \A i \in Ids : conns[i] \in Sockets => conns'[i] = conns[i] \/ conns[i] = s
    BY <2>1, CleanupLive
  <2> QED
    BY <1>1, <2>1, <2>2, LiveKept
<1> QED
  BY <1>2, <1>3, <1>4, <1>5, <1>6

(* A frame handled by the server, or a session that begins, is shut or     *)
(* ends.                                                                   *)
LEMMA SessionLive ==
  ASSUME TypeInv, RegisteredInSession, LiveInMap, NEW k \in Sessions,
         ServerHandles(k) \/ Connection(k) \/ ServerShuts(k) \/ ServerWsClosed(k)
  PROVE  LiveInMap'
<1> DEFINE f == Head(up[k])
<1>1. /\ bst \in [Sockets -> BStates]
      /\ conns \in [Ids -> Sockets \cup {None}]
  BY DEF TypeInv, TypeOK, FrameProtocolTypeOK
<1>2. CASE FrameUnknown(k) \/ FrameOpenAck(k) \/ ServerShuts(k)
  BY <1>2 DEF FrameUnknown, FrameOpenAck, ServerShuts, Arrives, srvVars, LiveInMap
<1>3. CASE FrameClose(k) \/ Connection(k) \/ ServerWsClosed(k)
  <2>1. UNCHANGED regId /\ \E I : Evict(I)
    BY <1>3 DEF FrameClose, Arrives, Connection, ServerWsClosed, TunnelClose
  <2> QED
    BY <2>1, EvictLive, LiveKept
<1>4. CASE FrameData(k)
  <2>1. /\ conns[f.id] # None
        /\ UNCHANGED regId
        /\ \/ /\ Gone(bst[conns[f.id]])
              /\ bst' = bst
              /\ conns' = [conns EXCEPT ![f.id] = None]
           \/ /\ bst' = [bst EXCEPT ![conns[f.id]] = "destroyed"]
              /\ conns' = conns \/ conns' = [conns EXCEPT ![f.id] = None]
           \/ conns' = conns /\ bst' = bst
    BY <1>4 DEF FrameData, Arrives
  <2> HIDE DEF f
  <2>2. \A s \in Sockets : bst'[s] = bst[s] \/ bst'[s] \in {"ended", "destroyed", "closed"}
    BY <1>1, <2>1
  <2>3. \A i \in Ids : conns[i] \in Sockets =>
          conns'[i] = conns[i] \/ bst'[conns[i]] \in {"ended", "destroyed", "closed"}
    BY <1>1, <2>1 DEF Gone
  <2> QED
    BY <2>1, <2>2, <2>3, LiveKept
<1> QED
  BY <1>2, <1>3, <1>4 DEF ServerHandles

(* Every step keeps live sockets in the Map: a new entry takes an id       *)
(* nobody needs any more.                                                  *)
LEMMA LiveStep ==
  ASSUME TypeInv, RegisteredInSession, IdsApart, LiveInMap, [Next]_vars
  PROVE  LiveInMap'
<1>1. CASE ServerNext
  BY <1>1, BrowserLive, SessionLive DEF ServerNext
<1>2. CASE UNCHANGED srvVars
  BY <1>2 DEF srvVars, LiveInMap
<1> QED
  BY <1>1, <1>2 DEF Next, vars

(* LiveInMap holds as long as ids stay apart.                              *)
LEMMA LiveHolds == Spec /\ []IdsApart => []LiveInMap
<1>1. Init => LiveInMap
  BY DEF Init, FrameProtocolInit, LiveInMap
<1>2. TypeInv /\ RegisteredInSession /\ IdsApart /\ LiveInMap /\ [Next]_vars => LiveInMap'
  BY LiveStep
<1> QED
  BY <1>1, <1>2, KeyedTypes, MapOfActiveSession, PTL DEF Spec

(* A browser socket left open is always in the Map of frameProtocol.js, so *)
(* that the end of its target or of the tunnel reaches it: as long as no   *)
(* id is given out again while its last holder's 'close' has not run.      *)
THEOREM BrowsersInMap == Spec /\ []IdsApart => []NoStrandedBrowser
<1>1. LiveInMap => NoStrandedBrowser
  BY DEF LiveInMap, NoStrandedBrowser
<1> QED
  BY <1>1, LiveHolds, PTL

-----------------------------------------------------------------------------
(* What the server and the client put on the channels.                     *)

(* Frames of a session stay right when channels grow, when one is taken    *)
(* off, and when sockets without an id are registered.                     *)
RegisteredFor(ri1, rs1, ri2, rs2) ==
  \A s \in Sockets : ri1[s] # 0 => ri2[s] = ri1[s] /\ rs2[s] = rs1[s]

(* Frames of the right origin may be added to a channel.                   *)
LEMMA DownFromMore ==
  ASSUME NEW q \in Seq(Frames), NEW fs \in Seq(Frames), NEW k, NEW ri, NEW rs,
         DownFrom(q, k, ri, rs), DownFrom(fs, k, ri, rs)
  PROVE  DownFrom(q \o fs, k, ri, rs)
<1> DEFINE z == q \o fs
<1>1. SUFFICES ASSUME NEW n \in 1 .. Len(z), z[n].type \in {"OPEN", "DATA"}
               PROVE  z[n].pay.of \in Sockets /\ Holds(ri, rs, z[n].pay.of, k, z[n].id)
  BY DEF DownFrom
<1>2. CASE n <= Len(q)
  <2>1. z[n] = q[n] /\ n \in 1 .. Len(q)
    BY <1>2
  <2> QED
    BY <1>1, <2>1, Zenon DEF DownFrom
<1>3. CASE n > Len(q)
  <2>1. z[n] = fs[n - Len(q)] /\ n - Len(q) \in 1 .. Len(fs)
    BY <1>3
  <2> QED
    BY <1>1, <2>1, Zenon DEF DownFrom
<1> QED
  BY <1>2, <1>3

(* The same for a channel to the server.                                   *)
LEMMA UpFromMore ==
  ASSUME NEW q \in Seq(Frames), NEW fs \in Seq(Frames), NEW k, NEW ri, NEW rs,
         UpFrom(q, k, ri, rs), UpFrom(fs, k, ri, rs)
  PROVE  UpFrom(q \o fs, k, ri, rs)
<1> DEFINE z == q \o fs
<1>1. SUFFICES ASSUME NEW n \in 1 .. Len(z)
               PROVE  \E s \in Sockets : Holds(ri, rs, s, k, z[n].id)
  BY DEF UpFrom
<1>2. CASE n <= Len(q)
  <2>1. z[n] = q[n] /\ n \in 1 .. Len(q)
    BY <1>2
  <2> QED
    BY <2>1, Zenon DEF UpFrom
<1>3. CASE n > Len(q)
  <2>1. z[n] = fs[n - Len(q)] /\ n - Len(q) \in 1 .. Len(fs)
    BY <1>3
  <2> QED
    BY <2>1, Zenon DEF UpFrom
<1> QED
  BY <1>2, <1>3

(* Taking a frame off a channel leaves the origin of the others.           *)
LEMMA TailFrom ==
  ASSUME NEW q \in Seq(Frames), q # <<>>, NEW k, NEW ri, NEW rs
  PROVE  /\ DownFrom(q, k, ri, rs) => DownFrom(Tail(q), k, ri, rs)
         /\ UpFrom(q, k, ri, rs) => UpFrom(Tail(q), k, ri, rs)
<1>1. \A n \in 1 .. Len(Tail(q)) : Tail(q)[n] = q[n + 1] /\ n + 1 \in 1 .. Len(q)
  OBVIOUS
<1>2. ASSUME DownFrom(q, k, ri, rs)
      PROVE  DownFrom(Tail(q), k, ri, rs)
  BY <1>1, <1>2, Zenon DEF DownFrom
<1>3. ASSUME UpFrom(q, k, ri, rs)
      PROVE  UpFrom(Tail(q), k, ri, rs)
  BY <1>1, <1>3, Zenon DEF UpFrom
<1> QED
  BY <1>2, <1>3

(* Registering another socket changes no frame's origin.                   *)
LEMMA FromKept ==
  ASSUME NEW q \in Seq(Frames), NEW k, NEW ri1, NEW rs1, NEW ri2, NEW rs2,
         RegisteredFor(ri1, rs1, ri2, rs2)
  PROVE  /\ DownFrom(q, k, ri1, rs1) => DownFrom(q, k, ri2, rs2)
         /\ UpFrom(q, k, ri1, rs1) => UpFrom(q, k, ri2, rs2)
<1>1. \A n \in 1 .. Len(q) : q[n].id # 0
  <2>1. \A n \in 1 .. Len(q) : q[n] \in Frames
    OBVIOUS
  <2>2. \A f \in Frames : f.id \in Ids
    BY DEF Frames
  <2> QED
    BY <2>1, <2>2 DEF Ids
<1>2. \A n \in 1 .. Len(q) : \A s \in Sockets :
        Holds(ri1, rs1, s, k, q[n].id) => Holds(ri2, rs2, s, k, q[n].id)
  BY <1>1, Zenon DEF Holds, RegisteredFor
<1>3. ASSUME DownFrom(q, k, ri1, rs1)
      PROVE  DownFrom(q, k, ri2, rs2)
  BY <1>2, <1>3, Zenon DEF DownFrom
<1>4. ASSUME UpFrom(q, k, ri1, rs1)
      PROVE  UpFrom(q, k, ri2, rs2)
  BY <1>2, <1>4, Zenon DEF UpFrom
<1> QED
  BY <1>3, <1>4

(* Where sendFrame of the server puts frames.                              *)
LEMMA SendFramesPuts ==
  ASSUME TypeInv, NEW fs, SendFrames(fs)
  PROVE  \A k \in Sessions :
           \/ down'[k] = down[k]
           \/ /\ k = activeWs /\ srvWs[k] = "open" /\ cliWs[k] # "closed"
              /\ down'[k] = down[k] \o fs
<1>1. down \in Channels
  BY DEF TypeInv, TypeOK, TunnelTypeOK, Channels
<1>2. CASE IsReady /\ cliWs[activeWs] # "closed"
  <2>1. down' = [down EXCEPT ![activeWs] = @ \o fs]
    BY <1>2 DEF SendFrames, Put
  <2> QED
    BY <1>1, <1>2, <2>1 DEF Channels, IsReady
<1>3. CASE ~(IsReady /\ cliWs[activeWs] # "closed")
  BY <1>3 DEF SendFrames, Put
<1> QED
  BY <1>2, <1>3

(* Where sendFrame of the client puts frames.                              *)
LEMMA ReplyFramesPuts ==
  ASSUME TypeInv, NEW j \in Sessions, NEW fs, ReplyFrames(j, fs)
  PROVE  \A k \in Sessions :
           up'[k] = up[k] \/ (k = j /\ up'[k] = up[k] \o fs)
<1>1. up \in Channels
  BY DEF TypeInv, TypeOK, TunnelTypeOK, Channels
<1> QED
  BY <1>1 DEF ReplyFrames, Put, Channels

(* The frames of a request.                                                *)
RequestFrames(s, m, extra) ==
  LET i == Candidate(FirstFree)
  IN  IF m = "http" \/ (m = "connect" /\ extra)
        THEN <<Open(i, s), Data(i, Up(s, 1))>> ELSE <<Open(i, s)>>

(* The frames fs that one step of the server may put on channel k.         *)
ServerPuts(k, fs) ==
  /\ k = activeWs /\ srvWs[k] = "open" /\ cliWs[k] # "closed"
  /\ \/ \E i \in Ids : fs = <<Close(i)>>
     \/ \E s \in Sockets : BrowserSend(s) /\ fs = <<Data(regId[s], Up(s, bSent[s] + 1))>>
     \/ \E s \in Sockets, m \in Methods, extra \in BOOLEAN :
          Request(s, m, extra) /\ fs = RequestFrames(s, m, extra)

(* What a step of the server does to a channel to the client.              *)
LEMMA DownByServer ==
  ASSUME TypeInv, ServerNext, NEW k \in Sessions
  PROVE  down'[k] = down[k] \/ \E fs : ServerPuts(k, fs) /\ down'[k] = down[k] \o fs
<1>1. ASSUME NEW s \in Sockets, NEW m \in Methods, NEW extra \in BOOLEAN,
             Request(s, m, extra)
      PROVE  down'[k] = down[k] \/ \E fs : ServerPuts(k, fs) /\ down'[k] = down[k] \o fs
  <2>1. SendFrames(RequestFrames(s, m, extra))
    BY <1>1 DEF Request, RequestFrames
  <2> QED
    BY <1>1, <2>1, SendFramesPuts DEF ServerPuts
<1>2. ASSUME NEW s \in Sockets, BrowserSend(s)
      PROVE  down'[k] = down[k] \/ \E fs : ServerPuts(k, fs) /\ down'[k] = down[k] \o fs
  <2>1. SendFrames(<<Data(regId[s], Up(s, bSent[s] + 1))>>)
    BY <1>2 DEF BrowserSend
  <2> QED
    BY <1>2, <2>1, SendFramesPuts DEF ServerPuts
<1>3. ASSUME NEW i \in Ids, SendFrames(<<Close(i)>>)
      PROVE  down'[k] = down[k] \/ \E fs : ServerPuts(k, fs) /\ down'[k] = down[k] \o fs
  BY <1>3, SendFramesPuts DEF ServerPuts
<1>4. ASSUME NEW s \in Sockets, BrowserEnd(s) \/ BrowserClosed(s)
      PROVE  down' = down \/ \E i \in Ids : SendFrames(<<Close(i)>>)
  <2>1. Cleanup(s)
    BY <1>4 DEF BrowserEnd, BrowserClosed
  <2>2. regId[s] # 0 => regId[s] \in Ids
    BY DEF TypeInv, TypeOK, FrameProtocolTypeOK, Ids
  <2> QED
    BY <2>1, <2>2 DEF Cleanup
<1>5. ASSUME NEW j \in Sessions, ServerHandles(j)
      PROVE  down' = down \/ \E i \in Ids : SendFrames(<<Close(i)>>)
  <2>1. Arrives(j)
    BY <1>5 DEF ServerHandles, FrameUnknown, FrameData, FrameClose, FrameOpenAck
  <2>2. Head(up[j]) \in Frames
    BY <2>1, TakeType DEF Arrives, TypeInv, TypeOK, TunnelTypeOK, Channels
  <2>3. Head(up[j]).id \in Ids
    BY <2>2 DEF Frames
  <2> QED
    BY <1>5, <2>3 DEF ServerHandles, FrameUnknown, FrameData, FrameClose, FrameOpenAck
<1>6. ASSUME NEW s \in Sockets,
             \/ \E m \in Methods : Refuse(s, m)
             \/ BrowserAbort(s) \/ EndingDestroyed(s) \/ BrowserRead(s)
      PROVE  down' = down
  BY <1>6 DEF Refuse, BrowserAbort, EndingDestroyed, BrowserRead, tunnelVars
<1>7. ASSUME NEW j \in Sessions, Connection(j) \/ ServerShuts(j) \/ ServerWsClosed(j)
      PROVE  down' = down
  BY <1>7 DEF Connection, ServerShuts, ServerWsClosed
<1> QED
  BY <1>1, <1>2, <1>3, <1>4, <1>5, <1>6, <1>7 DEF ServerNext

(* What a step of the client does to a channel from the server.            *)
LEMMA DownByClient ==
  ASSUME TypeInv, ClientNext, NEW k \in Sessions
  PROVE  \/ down'[k] = down[k]
         \/ ClientHandles(k) /\ down[k] # <<>> /\ down'[k] = Tail(down[k])
         \/ ClientWsClosed(k) /\ down'[k] = <<>>
<1>1. down \in Channels
  BY DEF TypeInv, TypeOK, TunnelTypeOK, Channels
<1>2. ASSUME NEW j \in Sessions, ClientHandles(j)
      PROVE  \/ down'[k] = down[k]
             \/ ClientHandles(k) /\ down[k] # <<>> /\ down'[k] = Tail(down[k])
  <2>1. Delivered(j)
    BY <1>2 DEF ClientHandles, OpenRejected, OpenForbidden, OpenAddress, OpenName,
       DataConnected, DataOverflow, DataPending, DataUnknown, CloseFrame
  <2>2. down[j] # <<>> /\ down' = [down EXCEPT ![j] = Tail(@)]
    BY <2>1 DEF Delivered
  <2>3. CASE k = j
    BY <1>1, <1>2, <2>2, <2>3 DEF Channels
  <2>4. CASE k # j
    BY <1>1, <2>2, <2>4 DEF Channels
  <2> QED
    BY <2>3, <2>4
<1>3. ASSUME NEW j \in Sessions, ClientWsClosed(j)
      PROVE  down'[k] = down[k] \/ (ClientWsClosed(k) /\ down'[k] = <<>>)
  <2>1. down' = [down EXCEPT ![j] = <<>>]
    BY <1>3 DEF ClientWsClosed
  <2> QED
    BY <1>1, <1>3, <2>1 DEF Channels
<1>4. ASSUME NEW j \in Sessions, ClientShuts(j)
      PROVE  down' = down
  BY <1>4 DEF ClientShuts
<1>5. ASSUME NEW d \in dns, Resolves(d)
      PROVE  down' = down
  BY <1>5 DEF Resolves, LookupStale, LookupFails, LookupSucceeds, tunnelVars
<1>6. ASSUME NEW s \in Sockets,
             \/ TargetConnects(s) \/ TargetSends(s) \/ TargetEnds(s)
             \/ TargetFails(s) \/ TargetClosed(s)
      PROVE  down' = down
  BY <1>6 DEF TargetConnects, TargetSends, TargetEnds, TargetFails, TargetClosed
<1> QED
  BY <1>2, <1>3, <1>4, <1>5, <1>6 DEF ClientNext

(* Frames of a step of the client go to session k with the id of a socket  *)
(* that was registered there.                                              *)
LEMMA UpByClient ==
  ASSUME TypeInv, Sourced, ClientNext, NEW k \in Sessions
  PROVE  \/ up'[k] = up[k]
         \/ \E fs \in Seq(Frames) :
              /\ UpFrom(fs, k, regId, regSess)
              /\ up'[k] = up[k] \o fs
<1> DEFINE Replied == \/ up'[k] = up[k]
                      \/ \E fs \in Seq(Frames) :
                           /\ UpFrom(fs, k, regId, regSess)
                           /\ up'[k] = up[k] \o fs
<1>1. ASSUME NEW j \in Sessions, NEW s \in Sockets, NEW i \in Ids,
             Holds(regId, regSess, s, j, i),
             NEW fs \in Seq(Frames), \A n \in 1 .. Len(fs) : fs[n].id = i,
             ReplyFrames(j, fs)
      PROVE  Replied
  <2>1. UpFrom(fs, j, regId, regSess)
    BY <1>1, Zenon DEF UpFrom
  <2> QED
    BY <1>1, <2>1, ReplyFramesPuts
<1>2. ASSUME NEW i \in Ids
      PROVE  /\ <<Close(i)>> \in Seq(Frames) /\ \A n \in 1 .. 1 : <<Close(i)>>[n].id = i
             /\ <<OpenAck(i)>> \in Seq(Frames) /\ \A n \in 1 .. 1 : <<OpenAck(i)>>[n].id = i
             /\ \A p \in Payloads : /\ <<Data(i, p)>> \in Seq(Frames)
                                    /\ \A n \in 1 .. 1 : <<Data(i, p)>>[n].id = i
             /\ \A s \in Sockets : /\ Refusal(i, s) \in Seq(Frames)
                                   /\ \A n \in 1 .. 2 : Refusal(i, s)[n].id = i
                                   /\ Len(Refusal(i, s)) = 2
  <2>1. /\ Close(i) \in Frames /\ Close(i).id = i
        /\ OpenAck(i) \in Frames /\ OpenAck(i).id = i
        /\ \A p \in Payloads : Data(i, p) \in Frames /\ Data(i, p).id = i
        /\ \A s \in Sockets : Page(s) \in Payloads
    BY FrameTypes, PayloadTypes DEF Close, OpenAck, Data, Frame
  <2> QED
    BY <2>1 DEF Refusal
<1> HIDE DEF Replied
<1>3. ASSUME NEW j \in Sessions, ClientHandles(j)
      PROVE  Replied
  <2> DEFINE f == Head(down[j])
  <2>1. Delivered(j)
    BY <1>3 DEF ClientHandles, OpenRejected, OpenForbidden, OpenAddress, OpenName,
       DataConnected, DataOverflow, DataPending, DataUnknown, CloseFrame
  <2>2. down[j] \in Seq(Frames) /\ down[j] # <<>>
    BY <2>1 DEF Delivered, TypeInv, TypeOK, TunnelTypeOK
  <2>3. f \in Frames /\ f = down[j][1] /\ 1 \in 1 .. Len(down[j])
    BY <2>2
  <2>4. f.id \in Ids
    BY <2>3 DEF Frames
  <2>5. f.type \in {"OPEN", "DATA"} =>
          f.pay.of \in Sockets /\ Holds(regId, regSess, f.pay.of, j, f.id)
    BY <2>3, Zenon DEF Sourced, DownSourced, DownFrom
  <2>6. \/ up' = up
        \/ f.type \in {"OPEN", "DATA"} /\ ReplyFrames(j, <<Close(f.id)>>)
        \/ f.type = "OPEN" /\ ReplyFrames(j, Refusal(f.id, f.pay.of))
    <3>1. CASE \E h \in Hosts : OpenRejected(j, h)
      BY <3>1 DEF OpenRejected
    <3>2. CASE \E h \in Hosts : OpenForbidden(j, h)
      BY <3>2 DEF OpenForbidden
    <3>3. CASE DataConnected(j) \/ DataOverflow(j) \/ DataPending(j) \/ DataUnknown(j)
      BY <3>3 DEF DataConnected, DataOverflow, DataPending, DataUnknown
    <3>4. CASE (\E h \in Hosts : OpenAddress(j, h) \/ OpenName(j, h)) \/ CloseFrame(j)
      BY <3>4 DEF OpenAddress, OpenName, CloseFrame
    <3> QED
      BY <1>3, <3>1, <3>2, <3>3, <3>4 DEF ClientHandles
  <2> HIDE DEF f
  <2>7. CASE up' = up
    BY <2>7 DEF Replied
  <2>8. ASSUME f.type \in {"OPEN", "DATA"}, ReplyFrames(j, <<Close(f.id)>>)
        PROVE  Replied
    <3>1. /\ <<Close(f.id)>> \in Seq(Frames)
          /\ \A n \in 1 .. Len(<<Close(f.id)>>) : <<Close(f.id)>>[n].id = f.id
      BY <2>4, <1>2
    <3> QED
      BY <2>4, <2>5, <2>8, <3>1, <1>1
  <2>9. ASSUME f.type = "OPEN", ReplyFrames(j, Refusal(f.id, f.pay.of))
        PROVE  Replied
    <3>1. f.pay.of \in Sockets /\ Holds(regId, regSess, f.pay.of, j, f.id)
      BY <2>5, <2>9
    <3>2. /\ Refusal(f.id, f.pay.of) \in Seq(Frames)
          /\ \A n \in 1 .. Len(Refusal(f.id, f.pay.of)) : Refusal(f.id, f.pay.of)[n].id = f.id
      BY <2>4, <3>1, <1>2
    <3> QED
      BY <2>4, <2>9, <3>1, <3>2, <1>1
  <2> QED
    BY <2>6, <2>7, <2>8, <2>9
<1>4. ASSUME NEW d \in dns, Resolves(d)
      PROVE  Replied
  <2>1. d.sess \in Sessions /\ d.id \in Ids /\ d.of \in Sockets
    BY DEF TypeInv, TypeOK, ConnectionManagerTypeOK, Lookups
  <2>2. Holds(regId, regSess, d.of, d.sess, d.id)
    BY DEF Sourced, LookupsSourced
  <2>3. up' = up \/ ReplyFrames(d.sess, Refusal(d.id, d.of))
    BY <1>4 DEF Resolves, LookupStale, LookupFails, LookupSucceeds, tunnelVars
  <2>4. /\ Refusal(d.id, d.of) \in Seq(Frames)
        /\ \A n \in 1 .. Len(Refusal(d.id, d.of)) : Refusal(d.id, d.of)[n].id = d.id
    BY <2>1, <1>2
  <2>5. CASE up' = up
    BY <2>5 DEF Replied
  <2> QED
    BY <2>1, <2>2, <2>3, <2>4, <2>5, <1>1
<1>5. ASSUME NEW s \in Sockets,
             \/ TargetConnects(s) \/ TargetSends(s) \/ TargetEnds(s)
             \/ TargetFails(s) \/ TargetClosed(s)
      PROVE  Replied
  <2> DEFINE j == tKey[s].sess
             i == tKey[s].id
  <2>1. tst[s] # "none"
    BY <1>5 DEF TargetConnects, TargetSends, TargetEnds, TargetFails, TargetClosed
  <2>2. tKey[s] # NoKey /\ tKey[s] \in [sess : Sessions, id : Ids]
    BY <2>1 DEF TypeInv, KeysOK, TypeOK, ConnectionManagerTypeOK
  <2>3. j \in Sessions /\ i \in Ids /\ Holds(regId, regSess, s, j, i)
    BY <2>2 DEF Sourced, KeysSourced
  <2>4. Down(s, tSent[s] + 1) \in Payloads
    BY PayloadTypes DEF TypeInv, TypeOK, ConnectionManagerTypeOK
  <2>5. \/ up' = up
        \/ ReplyFrames(j, <<OpenAck(i)>>)
        \/ ReplyFrames(j, <<Data(i, Down(s, tSent[s] + 1))>>)
        \/ ReplyFrames(j, <<Close(i)>>)
    BY <1>5 DEF TargetConnects, TargetSends, TargetEnds, TargetFails, TargetClosed,
       TargetCleanup
  <2> HIDE DEF i, j
  <2>6. CASE up' = up
    BY <2>6 DEF Replied
  <2>7. ASSUME NEW f \in Frames, f.id = i, ReplyFrames(j, <<f>>)
        PROVE  Replied
    <3>1. <<f>> \in Seq(Frames) /\ \A n \in 1 .. Len(<<f>>) : <<f>>[n].id = i
      BY <2>7
    <3> QED
      BY <2>3, <2>7, <3>1, <1>1
  <2>8. /\ OpenAck(i) \in Frames /\ OpenAck(i).id = i
        /\ Close(i) \in Frames /\ Close(i).id = i
        /\ Data(i, Down(s, tSent[s] + 1)) \in Frames /\ Data(i, Down(s, tSent[s] + 1)).id = i
    BY <2>3, <2>4, FrameTypes DEF OpenAck, Close, Data, Frame
  <2> QED
    BY <2>5, <2>6, <2>7, <2>8
<1>6. ASSUME NEW j \in Sessions, ClientShuts(j) \/ ClientWsClosed(j)
      PROVE  Replied
  BY <1>6 DEF ClientShuts, ClientWsClosed, Replied
<1>7. Replied
  BY <1>3, <1>4, <1>5, <1>6 DEF ClientNext
<1> QED
  BY <1>7 DEF Replied

(* What a step of the server does to a channel from the client.            *)
LEMMA UpByServer ==
  ASSUME TypeInv, ServerNext, NEW k \in Sessions
  PROVE  \/ up'[k] = up[k]
         \/ up[k] # <<>> /\ up'[k] = Tail(up[k])
         \/ up'[k] = <<>>
<1>1. up \in Channels
  BY DEF TypeInv, TypeOK, TunnelTypeOK, Channels
<1>2. ASSUME NEW j \in Sessions, ServerHandles(j)
      PROVE  up'[k] = up[k] \/ (up[k] # <<>> /\ up'[k] = Tail(up[k]))
  <2>1. up[j] # <<>> /\ up' = [up EXCEPT ![j] = Tail(@)]
    BY <1>2 DEF ServerHandles, FrameUnknown, FrameData, FrameClose, FrameOpenAck, Arrives
  <2> QED
    BY <1>1, <2>1 DEF Channels
<1>3. ASSUME NEW j \in Sessions, Connection(j) \/ ServerShuts(j) \/ ServerWsClosed(j)
      PROVE  up'[k] = up[k] \/ up'[k] = <<>>
  <2>1. up' = up \/ up' = [up EXCEPT ![j] = <<>>]
    BY <1>3 DEF Connection, ServerShuts, ServerWsClosed
  <2> QED
    BY <1>1, <2>1 DEF Channels
<1>4. ASSUME NEW s \in Sockets,
             \/ \E m \in Methods : (\E extra \in BOOLEAN : Request(s, m, extra)) \/ Refuse(s, m)
             \/ BrowserSend(s) \/ BrowserEnd(s) \/ BrowserAbort(s)
             \/ EndingDestroyed(s) \/ BrowserClosed(s) \/ BrowserRead(s)
      PROVE  up' = up
  BY <1>4 DEF Request, Refuse, BrowserSend, BrowserEnd, BrowserAbort, EndingDestroyed,
     BrowserClosed, BrowserRead, tunnelVars
<1> QED
  BY <1>2, <1>3, <1>4 DEF ServerNext

-----------------------------------------------------------------------------
(* Where frames, lookups and target sockets come from.                     *)

(* What a step does to the client's end of a session.                      *)
LEMMA ClientEndSteps ==
  ASSUME [Next]_vars
  PROVE  \/ cliWs' = cliWs
         \/ \E j \in Sessions :
              \/ cliWs' = [cliWs EXCEPT ![j] = "open"] /\ cliWs[j] = "none"
              \/ cliWs' = [cliWs EXCEPT ![j] = IF @ = "open" THEN "closing" ELSE @]
              \/ cliWs' = [cliWs EXCEPT ![j] = "closed"] /\ ClientWsClosed(j)
<1>1. ASSUME NEW j \in Sessions, Connection(j) \/ ServerShuts(j) \/ ServerWsClosed(j)
      PROVE  \/ cliWs' = cliWs
             \/ cliWs' = [cliWs EXCEPT ![j] = "open"] /\ cliWs[j] = "none"
  BY <1>1 DEF Connection, ServerShuts, ServerWsClosed
<1>2. ASSUME NEW j \in Sessions, ServerHandles(j)
      PROVE  cliWs' = cliWs
  BY <1>2 DEF ServerHandles, FrameUnknown, FrameData, FrameClose, FrameOpenAck, Arrives
<1>3. ASSUME NEW s \in Sockets,
             \/ \E m \in Methods : (\E extra \in BOOLEAN : Request(s, m, extra)) \/ Refuse(s, m)
             \/ BrowserSend(s) \/ BrowserEnd(s) \/ BrowserAbort(s)
             \/ EndingDestroyed(s) \/ BrowserClosed(s) \/ BrowserRead(s)
      PROVE  cliWs' = cliWs
  BY <1>3 DEF Request, Refuse, BrowserSend, BrowserEnd, BrowserAbort, EndingDestroyed,
     BrowserClosed, BrowserRead, tunnelVars
<1>4. ASSUME NEW j \in Sessions, ClientHandles(j)
      PROVE  cliWs' = cliWs
  BY <1>4 DEF ClientHandles, OpenRejected, OpenForbidden, OpenAddress, OpenName,
     DataConnected, DataOverflow, DataPending, DataUnknown, CloseFrame, Delivered
<1>5. ASSUME NEW j \in Sessions, ClientShuts(j) \/ ClientWsClosed(j)
      PROVE  \/ cliWs' = [cliWs EXCEPT ![j] = IF @ = "open" THEN "closing" ELSE @]
             \/ cliWs' = [cliWs EXCEPT ![j] = "closed"] /\ ClientWsClosed(j)
  BY <1>5 DEF ClientShuts, ClientWsClosed, Shut
<1>6. ASSUME NEW d \in dns, Resolves(d)
      PROVE  cliWs' = cliWs
  BY <1>6 DEF Resolves, LookupStale, LookupFails, LookupSucceeds, tunnelVars
<1>7. ASSUME NEW s \in Sockets,
             \/ TargetConnects(s) \/ TargetSends(s) \/ TargetEnds(s)
             \/ TargetFails(s) \/ TargetClosed(s)
      PROVE  cliWs' = cliWs
  BY <1>7 DEF TargetConnects, TargetSends, TargetEnds, TargetFails, TargetClosed
<1> QED
  BY <1>1, <1>2, <1>3, <1>4, <1>5, <1>6, <1>7
     DEF Next, ServerNext, ClientNext, vars, tunnelVars

(* The client's end of a session begins once and closes for good, when     *)
(* its socket's 'close' event runs.                                        *)
LEMMA ClientEndKept ==
  ASSUME TypeInv, [Next]_vars, NEW k \in Sessions
  PROVE  /\ cliWs[k] # "none" => cliWs'[k] # "none"
         /\ cliWs[k] = "closed" => cliWs'[k] = "closed"
         /\ cliWs[k] # "closed" /\ cliWs'[k] = "closed" => ClientWsClosed(k)
<1>1. cliWs \in [Sessions -> WsStates]
  BY DEF TypeInv, TypeOK, TunnelTypeOK
<1> QED
  BY <1>1, ClientEndSteps

(* Sessions that have begun stay so, and a request is registered in one.   *)
LEMMA BegunStep ==
  ASSUME TypeInv, LiveInMap, SessionsBegun, [Next]_vars
  PROVE  SessionsBegun'
<1>1. /\ cliWs \in [Sessions -> WsStates]
      /\ regId \in [Sockets -> 0 .. IdLimit]
      /\ regSess \in [Sockets -> 0 .. NumSessions]
      /\ activeWs \in 0 .. NumSessions
  BY DEF TypeInv, TypeOK, TunnelTypeOK, FrameProtocolTypeOK
<1>2. activeWs' # 0 => activeWs' \in Sessions /\ cliWs'[activeWs'] # "none"
  <2>1. CASE \E k \in Sessions : Connection(k)
    BY <1>1, <2>1 DEF Connection
  <2>2. CASE ~ \E k \in Sessions : Connection(k)
    <3>1. activeWs' = activeWs \/ activeWs' = 0
      <4>1. ASSUME NEW j \in Sessions, ServerShuts(j) \/ ServerWsClosed(j)
            PROVE  activeWs' = activeWs \/ activeWs' = 0
        BY <4>1 DEF ServerShuts, ServerWsClosed, srvVars
      <4>2. ASSUME NEW j \in Sessions, ServerHandles(j)
            PROVE  activeWs' = activeWs
        BY <4>2 DEF ServerHandles, FrameUnknown, FrameData, FrameClose, FrameOpenAck, Arrives
      <4>3. ASSUME NEW s \in Sockets,
               \/ \E m \in Methods : (\E extra \in BOOLEAN : Request(s, m, extra)) \/ Refuse(s, m)
               \/ BrowserSend(s) \/ BrowserEnd(s) \/ BrowserAbort(s)
               \/ EndingDestroyed(s) \/ BrowserClosed(s) \/ BrowserRead(s)
            PROVE  activeWs' = activeWs
        BY <4>3 DEF Request, Refuse, BrowserSend, BrowserEnd, BrowserAbort, EndingDestroyed,
           BrowserClosed, BrowserRead
      <4>4. CASE UNCHANGED srvVars
        BY <4>4 DEF srvVars
      <4> QED
        BY <2>2, <4>1, <4>2, <4>3, <4>4 DEF Next, ServerNext, vars
    <3> QED
      BY <1>1, <3>1, ClientEndKept DEF SessionsBegun, Sessions
  <2> QED
    BY <2>1, <2>2
<1>3. ASSUME NEW s \in Sockets, regId'[s] # 0
      PROVE  regSess'[s] # 0 /\ cliWs'[regSess'[s]] # "none"
  <2>1. CASE regId[s] # 0
    <3>1. regSess'[s] = regSess[s] /\ regSess[s] \in Sessions
      BY <1>1, <2>1, RegistrationKept DEF SessionsBegun, Sessions
    <3> QED
      BY <2>1, <3>1, ClientEndKept DEF SessionsBegun
  <2>2. CASE regId[s] = 0
    <3>1. \E t \in Sockets, m \in Methods, extra \in BOOLEAN : Request(t, m, extra)
      BY <1>3, <2>2, RegisteredByRequest
    <3>2. regSess'[s] = activeWs /\ activeWs # 0 /\ cliWs' = cliWs
      BY <1>1, <1>3, <2>2, <3>1 DEF Request, IsReady
    <3> QED
      BY <3>2 DEF SessionsBegun
  <2> QED
    BY <2>1, <2>2
<1> QED
  BY <1>2, <1>3 DEF SessionsBegun

(* OPEN and DATA frames are sent in the session the socket belongs to: one *)
(* that may still send is in the Map, and the Map is of the active session.*)
LEMMA DownSourcedStep ==
  ASSUME TypeInv, RegisteredInSession, LiveInMap, DownSourced, [Next]_vars
  PROVE  DownSourced'
<1> SUFFICES ASSUME NEW k \in Sessions
             PROVE  DownFrom(down'[k], k, regId', regSess')
  BY DEF DownSourced
<1>1. /\ down \in Channels
      /\ regId \in [Sockets -> 0 .. IdLimit]
      /\ regSess \in [Sockets -> 0 .. NumSessions]
      /\ nextId \in Ids
      /\ bSent \in [Sockets -> Nat]
  BY DEF TypeInv, TypeOK, TunnelTypeOK, FrameProtocolTypeOK, Channels
<1>2. down[k] \in Seq(Frames)
  BY <1>1 DEF Channels
<1>3. RegisteredFor(regId, regSess, regId', regSess')
  BY RegistrationKept DEF RegisteredFor
<1>4. DownFrom(down[k], k, regId', regSess')
  BY <1>2, <1>3, FromKept DEF DownSourced
<1>5. ASSUME NEW fs, ServerPuts(k, fs), down'[k] = down[k] \o fs
      PROVE  DownFrom(down'[k], k, regId', regSess')
  <2>1. ASSUME NEW i \in Ids, fs = <<Close(i)>>
        PROVE  fs \in Seq(Frames) /\ DownFrom(fs, k, regId', regSess')
    <3>1. Close(i) \in Frames /\ Close(i).type = "CLOSE"
      BY FrameTypes DEF Close, Frame
    <3> QED
      BY <2>1, <3>1 DEF DownFrom
  <2>2. ASSUME NEW s \in Sockets, BrowserSend(s),
               fs = <<Data(regId[s], Up(s, bSent[s] + 1))>>
        PROVE  fs \in Seq(Frames) /\ DownFrom(fs, k, regId', regSess')
    <3>1. regId[s] \in Ids
      BY <1>1, <2>2 DEF BrowserSend, Ids
    <3>2. conns[regId[s]] = s
      BY <2>2, LiveInMap DEF BrowserSend, LiveInMap
    <3>3. regSess[s] = k
      BY <1>5, <3>1, <3>2, TunnelAssumption DEF RegisteredInSession, ServerPuts
    <3>4. regId' = regId /\ regSess' = regSess
      BY <2>2 DEF BrowserSend
    <3>5. Data(regId[s], Up(s, bSent[s] + 1)) \in Frames
      BY <1>1, <3>1, FrameTypes, PayloadTypes
    <3>6. /\ Data(regId[s], Up(s, bSent[s] + 1)).id = regId[s]
          /\ Data(regId[s], Up(s, bSent[s] + 1)).pay.of = s
      BY DEF Data, Frame, Up, Payload
    <3> QED
      BY <2>2, <3>3, <3>4, <3>5, <3>6 DEF DownFrom, Holds
  <2>3. ASSUME NEW s \in Sockets, NEW m \in Methods, NEW extra \in BOOLEAN,
               Request(s, m, extra), fs = RequestFrames(s, m, extra)
        PROVE  fs \in Seq(Frames) /\ DownFrom(fs, k, regId', regSess')
    <3> DEFINE i == Candidate(FirstFree)
    <3>1. /\ regId' = [regId EXCEPT ![s] = i]
          /\ regSess' = [regSess EXCEPT ![s] = activeWs]
          /\ FreeAttempts # {}
      BY <2>3 DEF Request
    <3>2. i \in Ids
      BY <1>1, <3>1, FirstFreeExists, CandidateType, FrameProtocolAssumption DEF FreeAttempts
    <3>3. fs = <<Open(i, s)>> \/ fs = <<Open(i, s), Data(i, Up(s, 1))>>
      BY <2>3 DEF RequestFrames
    <3> HIDE DEF i
    <3>4. /\ Open(i, s) \in Frames /\ Open(i, s).id = i /\ Open(i, s).pay.of = s
          /\ Data(i, Up(s, 1)) \in Frames /\ Data(i, Up(s, 1)).id = i
          /\ Data(i, Up(s, 1)).pay.of = s
      BY <3>2, FrameTypes, PayloadTypes DEF Open, Data, Frame, Up, Target, Payload
    <3>5. regId'[s] = i /\ regSess'[s] = k
      BY <1>1, <1>5, <3>1 DEF ServerPuts
    <3>6. /\ Holds(regId', regSess', s, k, i)
          /\ fs \in Seq(Frames)
          /\ \A n \in 1 .. Len(fs) : fs[n].pay.of = s /\ fs[n].id = i
      <4>1. CASE fs = <<Open(i, s)>>
        BY <3>4, <3>5, <4>1 DEF Holds
      <4>2. CASE fs = <<Open(i, s), Data(i, Up(s, 1))>>
        <5>1. Len(fs) = 2 /\ fs[1] = Open(i, s) /\ fs[2] = Data(i, Up(s, 1))
          BY <4>2
        <5>2. fs \in Seq(Frames)
          BY <3>4, <4>2
        <5> QED
          BY <3>4, <3>5, <5>1, <5>2 DEF Holds
      <4> QED
        BY <3>3, <4>1, <4>2
    <3> QED
      BY <3>6, Zenon DEF DownFrom
  <2>4. fs \in Seq(Frames) /\ DownFrom(fs, k, regId', regSess')
    BY <1>5, <2>1, <2>2, <2>3 DEF ServerPuts
  <2> QED
    BY <1>2, <1>4, <1>5, <2>4, DownFromMore
<1>6. CASE ServerNext
  BY <1>4, <1>5, <1>6, DownByServer
<1>7. CASE ClientNext
  <2>1. DownFrom(<<>>, k, regId', regSess')
    BY DEF DownFrom
  <2> QED
    BY <1>2, <1>4, <1>7, <2>1, DownByClient, TailFrom
<1>8. CASE UNCHANGED vars
  BY <1>4, <1>8 DEF vars, tunnelVars
<1> QED
  BY <1>6, <1>7, <1>8 DEF Next

(* A step of the client answers under the id it was given.                 *)
LEMMA UpSourcedStep ==
  ASSUME TypeInv, LiveInMap, Sourced, [Next]_vars
  PROVE  UpSourced'
<1> SUFFICES ASSUME NEW k \in Sessions
             PROVE  UpFrom(up'[k], k, regId', regSess')
  BY DEF UpSourced
<1>1. up[k] \in Seq(Frames)
  BY DEF TypeInv, TypeOK, TunnelTypeOK
<1>2. RegisteredFor(regId, regSess, regId', regSess')
  BY RegistrationKept DEF RegisteredFor
<1>3. UpFrom(up[k], k, regId, regSess)
  BY DEF Sourced, UpSourced
<1>4. UpFrom(up[k], k, regId', regSess')
  BY <1>1, <1>2, <1>3, FromKept
<1>5. CASE ServerNext
  <2>1. UpFrom(<<>>, k, regId', regSess')
    BY DEF UpFrom
  <2> QED
    BY <1>1, <1>4, <1>5, <2>1, UpByServer, TailFrom
<1>6. CASE ClientNext
  <2>1. ASSUME NEW fs \in Seq(Frames), UpFrom(fs, k, regId, regSess), up'[k] = up[k] \o fs
        PROVE  UpFrom(up'[k], k, regId', regSess')
    <3>1. UpFrom(fs, k, regId', regSess')
      BY <1>2, <2>1, FromKept
    <3>2. UpFrom(up[k] \o fs, k, regId', regSess')
      BY <1>1, <1>4, <3>1, UpFromMore
    <3> QED
      BY <2>1, <3>2, Zenon
  <2> QED
    BY <1>4, <1>6, <2>1, UpByClient
<1>7. CASE UNCHANGED vars
  BY <1>4, <1>7 DEF vars, tunnelVars
<1> QED
  BY <1>5, <1>6, <1>7 DEF Next

(* A lookup, a target socket or an entry of a client's Map comes from an   *)
(* OPEN or DATA frame, or from another of them.                            *)
LEMMA ClientSourced ==
  ASSUME TypeInv, Sourced, ClientNext
  PROVE  /\ \A d \in dns' : Holds(regId, regSess, d.of, d.sess, d.id)
         /\ \A s \in Sockets :
              tKey'[s] # NoKey => Holds(regId, regSess, s, tKey'[s].sess, tKey'[s].id)
         /\ \A k \in Sessions : \A i \in Ids :
              cConn'[k][i] # None => Holds(regId, regSess, cConn'[k][i], k, i)
         /\ \A k \in Sessions : \A i \in Ids :
              pend'[k][i] # None => \E s \in Sockets : Holds(regId, regSess, s, k, i)
<1> DEFINE Goal ==
      /\ \A d \in dns' : Holds(regId, regSess, d.of, d.sess, d.id)
      /\ \A s \in Sockets :
           tKey'[s] # NoKey => Holds(regId, regSess, s, tKey'[s].sess, tKey'[s].id)
      /\ \A k \in Sessions : \A i \in Ids :
           cConn'[k][i] # None => Holds(regId, regSess, cConn'[k][i], k, i)
      /\ \A k \in Sessions : \A i \in Ids :
           pend'[k][i] # None => \E s \in Sockets : Holds(regId, regSess, s, k, i)
<1>1. /\ cConn \in [Sessions -> [Ids -> Sockets \cup {None}]]
      /\ pend \in [Sessions -> [Ids -> Seq(Payloads) \cup {None}]]
      /\ dns \subseteq Lookups
      /\ tKey \in [Sockets -> [sess : Sessions, id : Ids] \cup {NoKey}]
  BY DEF TypeInv, TypeOK, ConnectionManagerTypeOK
<1>2. /\ \A d \in dns : Holds(regId, regSess, d.of, d.sess, d.id)
      /\ \A s \in Sockets :
           tKey[s] # NoKey => Holds(regId, regSess, s, tKey[s].sess, tKey[s].id)
      /\ \A k \in Sessions : \A i \in Ids :
           cConn[k][i] # None => Holds(regId, regSess, cConn[k][i], k, i)
      /\ \A k \in Sessions : \A i \in Ids :
           pend[k][i] # None => \E s \in Sockets : Holds(regId, regSess, s, k, i)
  BY DEF Sourced, LookupsSourced, KeysSourced, TargetsSourced, PendingSourced
<1>3. ASSUME dns' \subseteq dns, tKey' = tKey,
             \A k \in Sessions : \A i \in Ids : cConn'[k][i] \in {cConn[k][i], None},
             \A k \in Sessions : \A i \in Ids : pend[k][i] = None => pend'[k][i] = None
      PROVE  Goal
  BY <1>2, <1>3
<1>4. ASSUME NEW k \in Sessions, NEW i \in Ids
      PROVE  /\ \A j \in Sessions : \A n \in Ids :
                  Removed(cConn, k, i)[j][n] \in {cConn[j][n], None}
             /\ \A j \in Sessions : \A n \in Ids :
                  pend[j][n] = None => Removed(pend, k, i)[j][n] = None
  BY <1>1 DEF Removed
<1>5. ASSUME NEW k \in Sessions, NEW i \in Ids, NEW s \in Sockets, NEW early,
             Holds(regId, regSess, s, k, i), dns' \subseteq dns, Establish(k, i, s, early)
      PROVE  Goal
  <2>1. /\ cConn' = [cConn EXCEPT ![k][i] = s]
        /\ pend' = Removed(pend, k, i)
        /\ tKey' = [tKey EXCEPT ![s] = [sess |-> k, id |-> i]]
    BY <1>5 DEF Establish
  <2>2. \A t \in Sockets :
          tKey'[t] # NoKey => Holds(regId, regSess, t, tKey'[t].sess, tKey'[t].id)
    BY <1>1, <1>2, <1>5, <2>1
  <2>3. \A j \in Sessions : \A n \in Ids :
          cConn'[j][n] # None => Holds(regId, regSess, cConn'[j][n], j, n)
    BY <1>1, <1>2, <1>5, <2>1
  <2>4. \A j \in Sessions : \A n \in Ids :
          pend'[j][n] # None => \E t \in Sockets : Holds(regId, regSess, t, j, n)
    BY <1>2, <1>4, <2>1
  <2> QED
    BY <1>2, <1>5, <2>2, <2>3, <2>4
<1> HIDE DEF Goal
<1>6. ASSUME NEW k \in Sessions, ClientHandles(k)
      PROVE  Goal
  <2> DEFINE f == Head(down[k])
  <2>1. Delivered(k)
    BY <1>6 DEF ClientHandles, OpenRejected, OpenForbidden, OpenAddress, OpenName,
       DataConnected, DataOverflow, DataPending, DataUnknown, CloseFrame
  <2>2. down[k] \in Seq(Frames) /\ down[k] # <<>>
    BY <2>1 DEF Delivered, TypeInv, TypeOK, TunnelTypeOK
  <2>3. f \in Frames /\ f = down[k][1] /\ 1 \in 1 .. Len(down[k])
    BY <2>2
  <2>4. f.id \in Ids
    BY <2>3 DEF Frames
  <2>5. f.type \in {"OPEN", "DATA"} =>
          f.pay.of \in Sockets /\ Holds(regId, regSess, f.pay.of, k, f.id)
    BY <2>3, Zenon DEF Sourced, DownSourced, DownFrom
  <2>6. CASE \E h \in Hosts : OpenAddress(k, h)
    <3>1. f.type = "OPEN" /\ Establish(k, f.id, f.pay.of, <<>>) /\ dns' = dns
      BY <2>6 DEF OpenAddress
    <3> HIDE DEF f
    <3> QED
      BY <1>5, <2>4, <2>5, <3>1
  <2>7. CASE \E h \in Hosts : OpenName(k, h)
    <3>1. /\ f.type = "OPEN"
          /\ pend' = [pend EXCEPT ![k][f.id] = <<>>]
          /\ dns' = dns \cup {[sess |-> k, id |-> f.id, of |-> f.pay.of]}
          /\ UNCHANGED <<cConn, tKey>>
      BY <2>7 DEF OpenName
    <3> HIDE DEF f
    <3>2. \A d \in dns' : Holds(regId, regSess, d.of, d.sess, d.id)
      BY <1>2, <2>5, <3>1
    <3>3. \A j \in Sessions : \A n \in Ids :
            pend'[j][n] # None => \E t \in Sockets : Holds(regId, regSess, t, j, n)
      BY <1>1, <1>2, <2>4, <2>5, <3>1
    <3> QED
      BY <1>2, <3>1, <3>2, <3>3 DEF Goal
  <2>8. CASE (\E h \in Hosts : OpenRejected(k, h) \/ OpenForbidden(k, h)) \/ DataUnknown(k)
    <3>1. /\ pend' = pend \/ pend' = Removed(pend, k, f.id)
          /\ UNCHANGED <<cConn, dns, tKey>>
      BY <2>8 DEF OpenRejected, OpenForbidden, DataUnknown
    <3> HIDE DEF f
    <3> QED
      BY <1>3, <1>4, <2>4, <3>1
  <2>9. CASE DataConnected(k) \/ DataOverflow(k) \/ CloseFrame(k)
    <3>1. /\ pend' = pend \/ pend' = Removed(pend, k, f.id)
          /\ cConn' = cConn \/ cConn' = Removed(cConn, k, f.id)
          /\ UNCHANGED <<dns, tKey>>
      BY <2>9 DEF DataConnected, DataOverflow, CloseFrame
    <3> HIDE DEF f
    <3> QED
      BY <1>3, <1>4, <2>4, <3>1
  <2>10. CASE DataPending(k)
    <3>1. /\ pend[k][f.id] # None
          /\ pend' = Removed(pend, k, f.id) \/ \E q : pend' = [pend EXCEPT ![k][f.id] = q]
          /\ UNCHANGED <<cConn, dns, tKey>>
      BY <2>10 DEF DataPending
    <3> HIDE DEF f
    <3>2. ASSUME NEW q, pend' = [pend EXCEPT ![k][f.id] = q],
                 NEW j \in Sessions, NEW n \in Ids, pend[j][n] = None
          PROVE  pend'[j][n] = None
      <4>1. j # k \/ n # f.id
        BY <3>1, <3>2
      <4> QED
        BY <1>1, <2>4, <3>2, <4>1
    <3>3. \A j \in Sessions : \A n \in Ids : pend[j][n] = None => pend'[j][n] = None
      <4>1. CASE pend' = Removed(pend, k, f.id)
        BY <1>4, <2>4, <4>1
      <4>2. CASE \E q : pend' = [pend EXCEPT ![k][f.id] = q]
        <5>1. PICK q : pend' = [pend EXCEPT ![k][f.id] = q]
          BY <4>2
        <5> QED
          BY <3>2, <5>1, Zenon
      <4> QED
        BY <3>1, <4>1, <4>2
    <3> QED
      BY <1>3, <3>1, <3>3
  <2> QED
    BY <1>6, <2>6, <2>7, <2>8, <2>9, <2>10 DEF ClientHandles
<1>7. ASSUME NEW k \in Sessions, ClientShuts(k)
      PROVE  Goal
  <2>1. UNCHANGED cliVars
    BY <1>7 DEF ClientShuts
  <2> QED
    BY <1>3, <2>1 DEF cliVars
<1>8. ASSUME NEW k \in Sessions, ClientWsClosed(k)
      PROVE  Goal
  <2>1. /\ cConn' = [cConn EXCEPT ![k] = [i \in Ids |-> None]]
        /\ UNCHANGED <<pend, dns, tKey>>
    BY <1>8 DEF ClientWsClosed, CloseAllTargets
  <2>2. \A j \in Sessions : \A i \in Ids : cConn'[j][i] \in {cConn[j][i], None}
    BY <1>1, <2>1
  <2> QED
    BY <1>3, <2>1, <2>2
<1>9. ASSUME NEW d \in dns, Resolves(d)
      PROVE  Goal
  <2>1. d.sess \in Sessions /\ d.id \in Ids /\ d.of \in Sockets
    BY <1>1 DEF Lookups
  <2>2. CASE LookupSucceeds(d)
    <3>1. Establish(d.sess, d.id, d.of, pend[d.sess][d.id]) /\ dns' \subseteq dns
      BY <2>2 DEF LookupSucceeds
    <3> QED
      BY <1>2, <1>5, <2>1, <3>1
  <2>3. CASE LookupStale(d) \/ LookupFails(d)
    <3>1. /\ pend' = pend \/ pend' = Removed(pend, d.sess, d.id)
          /\ dns' \subseteq dns
          /\ UNCHANGED <<cConn, tKey>>
      BY <2>3 DEF LookupStale, LookupFails
    <3> QED
      BY <1>3, <1>4, <2>1, <3>1
  <2> QED
    BY <1>9, <2>2, <2>3 DEF Resolves
<1>10. ASSUME NEW s \in Sockets,
              \/ TargetConnects(s) \/ TargetSends(s) \/ TargetEnds(s)
              \/ TargetFails(s) \/ TargetClosed(s)
       PROVE  Goal
  <2>1. tst[s] # "none"
    BY <1>10 DEF TargetConnects, TargetSends, TargetEnds, TargetFails, TargetClosed
  <2>2. tKey[s] \in [sess : Sessions, id : Ids]
    BY <1>1, <2>1 DEF TypeInv, KeysOK
  <2>3. /\ cConn' = cConn \/ cConn' = Removed(cConn, tKey[s].sess, tKey[s].id)
        /\ UNCHANGED <<pend, dns, tKey>>
    BY <1>10 DEF TargetConnects, TargetSends, TargetEnds, TargetFails, TargetClosed,
       TargetCleanup
  <2> QED
    BY <1>3, <1>4, <2>2, <2>3
<1>11. Goal
  BY <1>6, <1>7, <1>8, <1>9, <1>10 DEF ClientNext
<1> QED
  BY <1>11 DEF Goal

(* Every step keeps what is on its way, and what the client holds, of      *)
(* registered origin.                                                      *)
LEMMA SourcedStep ==
  ASSUME TypeInv, RegisteredInSession, LiveInMap, Sourced, [Next]_vars
  PROVE  Sourced'
<1>1. SessionsBegun' /\ DownSourced' /\ UpSourced'
  BY BegunStep, DownSourcedStep, UpSourcedStep DEF Sourced
<1>2. /\ \A d \in dns' : Holds(regId, regSess, d.of, d.sess, d.id)
      /\ \A s \in Sockets :
           tKey'[s] # NoKey => Holds(regId, regSess, s, tKey'[s].sess, tKey'[s].id)
      /\ \A k \in Sessions : \A i \in Ids :
           cConn'[k][i] # None => Holds(regId, regSess, cConn'[k][i], k, i)
      /\ \A k \in Sessions : \A i \in Ids :
           pend'[k][i] # None => \E s \in Sockets : Holds(regId, regSess, s, k, i)
  <2>1. CASE ClientNext
    BY <2>1, ClientSourced
  <2>2. CASE UNCHANGED cliVars
    BY <2>2 DEF cliVars, Sourced, LookupsSourced, KeysSourced, TargetsSourced, PendingSourced
  <2> QED
    BY <2>1, <2>2 DEF Next, vars
<1>3. ASSUME NEW s \in Sockets, NEW k, NEW i, i # 0, Holds(regId, regSess, s, k, i)
      PROVE  Holds(regId', regSess', s, k, i)
  BY <1>3, RegistrationKept DEF Holds
<1>4. TypeInv'
  BY TypeStep
<1>5. /\ cConn' \in [Sessions -> [Ids -> Sockets \cup {None}]]
      /\ dns' \subseteq Lookups
      /\ tKey' \in [Sockets -> [sess : Sessions, id : Ids] \cup {NoKey}]
  BY <1>4 DEF TypeInv, TypeOK, ConnectionManagerTypeOK
<1>6. \A i \in Ids : i # 0
  BY DEF Ids
<1>7. LookupsSourced'
  BY <1>2, <1>3, <1>5, <1>6 DEF LookupsSourced, Lookups
<1>8. KeysSourced'
  <2>1. \A s \in Sockets : tKey'[s] # NoKey => tKey'[s].id \in Ids
    BY <1>5
  <2> QED
    BY <1>2, <1>3, <1>6, <2>1 DEF KeysSourced
<1>9. TargetsSourced'
  BY <1>2, <1>3, <1>5, <1>6 DEF TargetsSourced
<1>10. PendingSourced'
  BY <1>2, <1>3, <1>6 DEF PendingSourced
<1> QED
  BY <1>1, <1>7, <1>8, <1>9, <1>10 DEF Sourced

(* Sourced holds as long as ids stay apart.                                *)
LEMMA SourcedHolds == Spec /\ []IdsApart => []Sourced
<1>1. Init => Sourced
  BY DEF Init, TunnelInit, FrameProtocolInit, ConnectionManagerInit, Sourced, SessionsBegun,
     DownSourced, UpSourced, DownFrom, UpFrom, LookupsSourced, KeysSourced, TargetsSourced,
     PendingSourced
<1>2. TypeInv /\ RegisteredInSession /\ LiveInMap /\ Sourced /\ [Next]_vars => Sourced'
  BY SourcedStep
<1> QED
  BY <1>1, <1>2, KeyedTypes, MapOfActiveSession, LiveHolds, PTL DEF Spec

-----------------------------------------------------------------------------
(* Fresh ids keep sessions and targets apart.                              *)

(* Ids that are never given out twice stay apart.                          *)
LEMMA FreshApart == FreshIds => IdsApart
BY DEF FreshIds, IdsApart

(* A frame of an earlier session has the id of a socket that was           *)
(* registered then, and whatever the Map holds was registered later.       *)
LEMMA StaleUnknown ==
  ASSUME TypeInv, RegisteredInSession, Sourced, FreshIds,
         NEW k \in Sessions, k # activeWs, ServerHandles(k)
  PROVE  UNCHANGED <<conns, bst, waiting, bIn>>
<1> DEFINE f == Head(up[k])
<1>1. Arrives(k)
  BY DEF ServerHandles, FrameUnknown, FrameData, FrameClose, FrameOpenAck
<1>2. up[k] \in Seq(Frames) /\ up[k] # <<>>
  BY <1>1 DEF Arrives, TypeInv, TypeOK, TunnelTypeOK
<1>3. f \in Frames /\ f = up[k][1] /\ 1 \in 1 .. Len(up[k])
  BY <1>2
<1>4. f.id \in Ids /\ f.id # 0
  BY <1>3 DEF Frames, Ids
<1>5. PICK s \in Sockets : Holds(regId, regSess, s, k, f.id)
  BY <1>3, Zenon DEF Sourced, UpSourced, UpFrom
<1>6. conns[f.id] = None
  <2>1. SUFFICES ASSUME conns[f.id] # None
                 PROVE  FALSE
    OBVIOUS
  <2>2. conns[f.id] \in Sockets
    BY <1>4, <2>1 DEF TypeInv, TypeOK, FrameProtocolTypeOK
  <2>3. regId[conns[f.id]] = f.id /\ regSess[conns[f.id]] = activeWs
    BY <1>4, <2>1 DEF RegisteredInSession
  <2>4. conns[f.id] = s
    BY <1>4, <1>5, <2>2, <2>3 DEF FreshIds, Holds
  <2> QED
    BY <1>5, <2>3, <2>4 DEF Holds
<1>7. FrameUnknown(k)
  BY <1>6 DEF ServerHandles, FrameData, FrameClose, FrameOpenAck
<1> QED
  BY <1>7 DEF FrameUnknown

(* A frame that arrives on a session that has been replaced changes no     *)
(* browser connection (handleIncomingFrame): it is for an id nobody holds  *)
(* any more, as long as that id has not been given out again.              *)
THEOREM StaleFramesIgnored == Spec /\ []FreshIds => StaleFramesHarmless
<1> DEFINE Ignored == \A k \in Sessions :
                        k # activeWs /\ ServerHandles(k) => UNCHANGED <<conns, bst, waiting, bIn>>
<1>1. TypeInv /\ RegisteredInSession /\ Sourced /\ FreshIds /\ [Next]_vars => [Ignored]_vars
  BY StaleUnknown
<1> QED
  BY <1>1, FreshApart, KeyedTypes, MapOfActiveSession, SourcedHolds, PTL
     DEF Spec, StaleFramesHarmless

(* The target sockets a step takes out of a Map are gone after it, and a   *)
(* target that is made takes the place of none that is alive.              *)
LEMMA OwnedKept ==
  ASSUME TypeInv, Sourced, FreshIds, TargetOwned, UNCHANGED tKey,
         \A k \in Sessions : cliWs[k] = "closed" => cliWs'[k] = "closed",
         \A s \in Sockets :
           tst'[s] \in {"connecting", "open"} => tst[s] \in {"connecting", "open"},
         \A k \in Sessions : \A i \in Ids : cConn[k][i] \in Sockets =>
           \/ cConn'[k][i] = cConn[k][i]
           \/ tst'[cConn[k][i]] \notin {"connecting", "open"}
           \/ cliWs'[k] = "closed"
  PROVE  TargetOwned'
<1> SUFFICES ASSUME NEW s \in Sockets, tst'[s] \in {"connecting", "open"},
                    cliWs'[tKey'[s].sess] # "closed"
             PROVE  cConn'[tKey'[s].sess][tKey'[s].id] = s
  BY DEF TargetOwned
<1>1. tst[s] \in {"connecting", "open"}
  OBVIOUS
<1>2. tKey[s] \in [sess : Sessions, id : Ids]
  BY <1>1 DEF TypeInv, KeysOK, TypeOK, ConnectionManagerTypeOK
<1>3. cConn[tKey[s].sess][tKey[s].id] = s
  BY <1>1, <1>2 DEF TargetOwned
<1> QED
  BY <1>2, <1>3

(* A target socket that is created enters the Map under an id that had no  *)
(* other.                                                                  *)
LEMMA EstablishOwned ==
  ASSUME TypeInv, Sourced, FreshIds, TargetOwned, cliWs' = cliWs,
         NEW k \in Sessions, NEW i \in Ids, NEW s \in Sockets, NEW early,
         Holds(regId, regSess, s, k, i), Establish(k, i, s, early)
  PROVE  TargetOwned'
<1>1. /\ cConn' = [cConn EXCEPT ![k][i] = s]
      /\ tst' = [tst EXCEPT ![s] = "connecting"]
      /\ tKey' = [tKey EXCEPT ![s] = [sess |-> k, id |-> i]]
  BY DEF Establish
<1>2. /\ cConn \in [Sessions -> [Ids -> Sockets \cup {None}]]
      /\ tst \in [Sockets -> TStates]
      /\ tKey \in [Sockets -> [sess : Sessions, id : Ids] \cup {NoKey}]
  BY DEF TypeInv, TypeOK, ConnectionManagerTypeOK
<1> SUFFICES ASSUME NEW t \in Sockets, tst'[t] \in {"connecting", "open"},
                    cliWs'[tKey'[t].sess] # "closed"
             PROVE  cConn'[tKey'[t].sess][tKey'[t].id] = t
  BY DEF TargetOwned
<1>3. CASE t = s
  BY <1>1, <1>2, <1>3
<1>4. CASE t # s
  <2>1. tst[t] = tst'[t] /\ tKey'[t] = tKey[t]
    BY <1>1, <1>2, <1>4
  <2>2. tKey[t] # NoKey /\ tKey[t] \in [sess : Sessions, id : Ids]
    BY <1>2, <2>1 DEF TypeInv, KeysOK
  <2>3. regId[t] = tKey[t].id /\ regId[s] = i
    BY <2>2 DEF Sourced, KeysSourced, Holds
  <2>4. tKey[t].id # i
    BY <1>4, <2>3 DEF FreshIds, Ids
  <2>5. cConn[tKey[t].sess][tKey[t].id] = t
    BY <2>1 DEF TargetOwned
  <2> QED
    BY <1>1, <1>2, <2>1, <2>2, <2>4, <2>5
<1> QED
  BY <1>3, <1>4

(* What a cleanup takes out of a client's Map is its own socket.           *)
LEMMA TargetCleanupOwn ==
  ASSUME TypeInv, Sourced, FreshIds, NEW s \in Sockets, tst[s] # "none", TargetCleanup(s)
  PROVE  \A k \in Sessions : \A i \in Ids :
           cConn[k][i] \in Sockets => cConn'[k][i] = cConn[k][i] \/ cConn[k][i] = s
<1> DEFINE j == tKey[s].sess
           n == tKey[s].id
<1>1. cConn \in [Sessions -> [Ids -> Sockets \cup {None}]]
  BY DEF TypeInv, TypeOK, ConnectionManagerTypeOK
<1>2. tKey[s] # NoKey /\ tKey[s] \in [sess : Sessions, id : Ids]
  BY DEF TypeInv, KeysOK, TypeOK, ConnectionManagerTypeOK
<1>3. j \in Sessions /\ n \in Ids /\ n # 0 /\ regId[s] = n
  BY <1>2 DEF Sourced, KeysSourced, Holds, Ids
<1>4. cConn' = cConn \/ cConn' = [cConn EXCEPT ![j][n] = None]
  BY DEF TargetCleanup, Removed
<1> HIDE DEF j, n
<1>5. cConn[j][n] \in Sockets => cConn[j][n] = s
  BY <1>3, TunnelAssumption DEF Sourced, TargetsSourced, Holds, FreshIds
<1> SUFFICES ASSUME NEW k \in Sessions, NEW i \in Ids, cConn[k][i] \in Sockets,
                    cConn'[k][i] # cConn[k][i]
             PROVE  cConn[k][i] = s
  OBVIOUS
<1>6. k = j /\ i = n
  BY <1>1, <1>3, <1>4
<1> QED
  BY <1>5, <1>6

(* Every step keeps live target sockets in the client's Map.               *)
LEMMA OwnedStep ==
  ASSUME TypeInv, Sourced, FreshIds, TargetOwned, [Next]_vars
  PROVE  TargetOwned'
<1>1. /\ cConn \in [Sessions -> [Ids -> Sockets \cup {None}]]
      /\ tst \in [Sockets -> TStates]
      /\ dns \subseteq Lookups
  BY DEF TypeInv, TypeOK, ConnectionManagerTypeOK
<1>2. \A k \in Sessions : cliWs[k] = "closed" => cliWs'[k] = "closed"
  BY ClientEndKept
<1>3. CASE UNCHANGED cliVars
  BY <1>2, <1>3, OwnedKept DEF cliVars
<1>4. ASSUME NEW k \in Sessions, ClientHandles(k)
      PROVE  TargetOwned'
  <2> DEFINE f == Head(down[k])
  <2>1. Delivered(k)
    BY <1>4 DEF ClientHandles, OpenRejected, OpenForbidden, OpenAddress, OpenName,
       DataConnected, DataOverflow, DataPending, DataUnknown, CloseFrame
  <2>2. down[k] \in Seq(Frames) /\ down[k] # <<>> /\ cliWs' = cliWs
    BY <2>1 DEF Delivered, TypeInv, TypeOK, TunnelTypeOK
  <2>3. f \in Frames /\ f = down[k][1] /\ 1 \in 1 .. Len(down[k])
    BY <2>2
  <2>4. f.id \in Ids
    BY <2>3 DEF Frames
  <2>5. f.type \in {"OPEN", "DATA"} =>
          f.pay.of \in Sockets /\ Holds(regId, regSess, f.pay.of, k, f.id)
    BY <2>3, Zenon DEF Sourced, DownSourced, DownFrom
  <2>6. CASE \E h \in Hosts : OpenAddress(k, h)
    <3>1. f.type = "OPEN" /\ Establish(k, f.id, f.pay.of, <<>>)
      BY <2>6 DEF OpenAddress
    <3> HIDE DEF f
    <3> QED
      BY <2>2, <2>4, <2>5, <3>1, EstablishOwned
  <2>7. CASE \/ \E h \in Hosts : OpenName(k, h) \/ OpenRejected(k, h) \/ OpenForbidden(k, h)
             \/ DataUnknown(k)
             \/ DataPending(k)
    <3>1. UNCHANGED <<cConn, tst, tKey>>
      BY <2>7 DEF OpenName, OpenRejected, OpenForbidden, DataUnknown, DataPending
    <3> QED
      BY <1>2, <3>1, OwnedKept
  <2>8. CASE DataConnected(k) \/ DataOverflow(k) \/ CloseFrame(k)
    <3>1. /\ cConn' = cConn \/ cConn' = [cConn EXCEPT ![k][f.id] = None]
          /\ UNCHANGED tKey
          /\ \/ tst' = tst /\ (cConn' = cConn \/ TGone(tst[cConn[k][f.id]]))
             \/ tst' = tst /\ cConn[k][f.id] = None
             \/ tst' = [tst EXCEPT ![cConn[k][f.id]] = "destroyed"]
             \/ tst' = [tst EXCEPT ![cConn[k][f.id]] = TDestroy(@)]
      BY <2>8 DEF DataConnected, DataOverflow, CloseFrame, Removed
    <3> HIDE DEF f
    <3>2. \A s \in Sockets :
            tst'[s] \in {"connecting", "open"} => tst[s] \in {"connecting", "open"}
      BY <1>1, <3>1 DEF TDestroy
    <3>3. ASSUME cConn[k][f.id] \in Sockets
          PROVE  cConn' = cConn \/ tst'[cConn[k][f.id]] \notin {"connecting", "open"}
      BY <1>1, <3>1, <3>3, TunnelAssumption DEF TDestroy, TGone
    <3>4. \A j \in Sessions : \A i \in Ids : cConn[j][i] \in Sockets =>
            \/ cConn'[j][i] = cConn[j][i]
            \/ tst'[cConn[j][i]] \notin {"connecting", "open"}
      <4> SUFFICES ASSUME NEW j \in Sessions, NEW i \in Ids, cConn[j][i] \in Sockets,
                          cConn'[j][i] # cConn[j][i]
                   PROVE  tst'[cConn[j][i]] \notin {"connecting", "open"}
        OBVIOUS
      <4>1. j = k /\ i = f.id
        BY <1>1, <2>4, <3>1
      <4> QED
        BY <3>3, <4>1
    <3> QED
      BY <1>2, <3>1, <3>2, <3>4, OwnedKept
  <2> QED
    BY <1>4, <2>6, <2>7, <2>8 DEF ClientHandles
<1>5. ASSUME NEW k \in Sessions, ClientShuts(k)
      PROVE  TargetOwned'
  <2>1. UNCHANGED cliVars
    BY <1>5 DEF ClientShuts
  <2> QED
    BY <1>3, <2>1
<1>6. ASSUME NEW k \in Sessions, ClientWsClosed(k)
      PROVE  TargetOwned'
  <2>1. /\ cliWs' = [cliWs EXCEPT ![k] = "closed"]
        /\ tst' = [s \in Sockets |->
                     IF \E i \in Ids : cConn[k][i] = s THEN TDestroy(tst[s]) ELSE tst[s]]
        /\ cConn' = [cConn EXCEPT ![k] = [i \in Ids |-> None]]
        /\ UNCHANGED tKey
    BY <1>6 DEF ClientWsClosed, CloseAllTargets
  <2>2. cliWs'[k] = "closed"
    BY <2>1 DEF TypeInv, TypeOK, TunnelTypeOK
  <2>3. \A s \in Sockets :
          tst'[s] \in {"connecting", "open"} => tst[s] \in {"connecting", "open"}
    BY <1>1, <2>1 DEF TDestroy
  <2>4. \A j \in Sessions : \A i \in Ids : j # k => cConn'[j][i] = cConn[j][i]
    BY <1>1, <2>1
  <2> QED
    BY <1>2, <2>1, <2>2, <2>3, <2>4, OwnedKept
<1>7. ASSUME NEW d \in dns, Resolves(d)
      PROVE  TargetOwned'
  <2>1. d.sess \in Sessions /\ d.id \in Ids /\ d.of \in Sockets
    BY <1>1 DEF Lookups
  <2>2. Holds(regId, regSess, d.of, d.sess, d.id)
    BY DEF Sourced, LookupsSourced
  <2>3. CASE LookupSucceeds(d)
    <3>1. /\ Establish(d.sess, d.id, d.of, pend[d.sess][d.id])
          /\ cliWs' = cliWs
      BY <2>3 DEF LookupSucceeds, tunnelVars
    <3> QED
      BY <2>1, <2>2, <3>1, EstablishOwned
  <2>4. CASE LookupStale(d) \/ LookupFails(d)
    <3>1. UNCHANGED <<cConn, tst, tKey>>
      BY <2>4 DEF LookupStale, LookupFails
    <3> QED
      BY <1>2, <3>1, OwnedKept
  <2> QED
    BY <1>7, <2>3, <2>4 DEF Resolves
<1>8. ASSUME NEW s \in Sockets, TargetConnects(s) \/ TargetSends(s)
      PROVE  TargetOwned'
  <2>1. /\ UNCHANGED <<cConn, tKey>>
        /\ tst' = tst \/ (tst' = [tst EXCEPT ![s] = "open"] /\ tst[s] = "connecting")
    BY <1>8 DEF TargetConnects, TargetSends
  <2>2. \A t \in Sockets :
          tst'[t] \in {"connecting", "open"} => tst[t] \in {"connecting", "open"}
    BY <1>1, <2>1
  <2> QED
    BY <1>2, <2>1, <2>2, OwnedKept
<1>9. ASSUME NEW s \in Sockets, TargetEnds(s) \/ TargetFails(s) \/ TargetClosed(s)
      PROVE  TargetOwned'
  <2>1. /\ TargetCleanup(s) /\ tst[s] # "none"
        /\ UNCHANGED tKey
        /\ \/ tst' = [tst EXCEPT ![s] = "ended"]
           \/ tst' = [tst EXCEPT ![s] = "destroyed"]
           \/ tst' = [tst EXCEPT ![s] = "closed"]
    BY <1>9 DEF TargetEnds, TargetFails, TargetClosed
  <2>2. \A k \in Sessions : \A i \in Ids :
          cConn[k][i] \in Sockets => cConn'[k][i] = cConn[k][i] \/ cConn[k][i] = s
    BY <2>1, TargetCleanupOwn
  <2>3. /\ tst'[s] \notin {"connecting", "open"}
        /\ \A t \in Sockets :
             tst'[t] \in {"connecting", "open"} => tst[t] \in {"connecting", "open"}
    BY <1>1, <2>1
  <2> QED
    BY <1>2, <2>1, <2>2, <2>3, OwnedKept
<1> QED
  BY <1>3, <1>4, <1>5, <1>6, <1>7, <1>8, <1>9 DEF Next, ClientNext, vars

(* While its session lasts, a live target socket is in its manager's Map   *)
(* (connectionManager.js), where a CLOSE reaches it, as long as no id is   *)
(* given out twice.                                                        *)
THEOREM TargetsInMap == Spec /\ []FreshIds => []TargetOwned
<1>1. Init => TargetOwned
  BY DEF Init, ConnectionManagerInit, TargetOwned
<1>2. TypeInv /\ Sourced /\ FreshIds /\ TargetOwned /\ [Next]_vars => TargetOwned'
  BY OwnedStep
<1> QED
  BY <1>1, <1>2, FreshApart, KeyedTypes, SourcedHolds, PTL DEF Spec

(* A session that ends at the client takes every live target socket with   *)
(* it (closeAllConnections), as long as no id is given out twice.          *)
THEOREM SessionsTakeTargets == Spec /\ []FreshIds => SessionTakesItsTargets
<1> DEFINE Taken ==
      \A k \in Sessions : cliWs[k] # "closed" /\ cliWs'[k] = "closed" =>
        \A s \in Sockets :
          tKey[s].sess = k => tst'[s] \notin {"connecting", "open"}
<1>1. TypeInv /\ TargetOwned /\ [Next]_vars => Taken
  <2> SUFFICES ASSUME TypeInv, TargetOwned, [Next]_vars,
                      NEW k \in Sessions, cliWs[k] # "closed", cliWs'[k] = "closed",
                      NEW s \in Sockets, tKey[s].sess = k
               PROVE  tst'[s] \notin {"connecting", "open"}
    OBVIOUS
  <2>1. /\ cliWs \in [Sessions -> WsStates]
        /\ tst \in [Sockets -> TStates]
        /\ tKey[s] \in [sess : Sessions, id : Ids] \cup {NoKey}
    BY DEF TypeInv, TypeOK, TunnelTypeOK, ConnectionManagerTypeOK
  <2>2. tKey[s].id \in Ids
    <3>1. NoKey.sess \notin Sessions
      BY DEF NoKey, Sessions
    <3> QED
      BY <2>1, <3>1
  <2>3. ClientWsClosed(k)
    BY <2>1, ClientEndKept
  <2>4. tst' = [t \in Sockets |->
                  IF \E i \in Ids : cConn[k][i] = t THEN TDestroy(tst[t]) ELSE tst[t]]
    BY <2>3 DEF ClientWsClosed, CloseAllTargets
  <2>5. CASE tst[s] \in {"connecting", "open"}
    <3>1. cConn[k][tKey[s].id] = s
      BY <2>5 DEF TargetOwned
    <3> QED
      BY <2>2, <2>4, <3>1 DEF TDestroy
  <2>6. CASE tst[s] \notin {"connecting", "open"}
    BY <2>4, <2>6 DEF TDestroy
  <2> QED
    BY <2>5, <2>6
<1> QED
  BY <1>1, KeyedTypes, TargetsInMap, PTL DEF Spec, SessionTakesItsTargets

-----------------------------------------------------------------------------
(* What a target has been given and what is on its way to it.  For a       *)
(* socket s: q is the channel of its session to the client, c and p are    *)
(* its entries in the two Maps of the client (cConn and pend), t is what   *)
(* its target was given, sent is the number of chunks read from the        *)
(* browser, and whole says that every chunk sent could be put on q.        *)

IsOpen(f, s) == f.type = "OPEN" /\ f.pay.of = s
IsData(f, s) == f.type = "DATA" /\ f.pay.of = s

OpenIn(q, s) == \E n \in 1 .. Len(q) : IsOpen(q[n], s)

(* The chunks the client holds: queued while the name is looked up,        *)
(* written to the target later.                                            *)
Held(p, t) == IF p # None THEN p ELSE t

(* The client takes the chunks that reach it.                              *)
Flows(q, s, c, p) == OpenIn(q, s) \/ p # None \/ c = s

(* The OPEN of s is sent once, before its chunks.                          *)
OpenFirst(q, s) ==
  \A n, m \in 1 .. Len(q) :
    IsOpen(q[n], s) => /\ IsOpen(q[m], s) => m = n
                       /\ IsData(q[m], s) => n < m

(* Each chunk on the way has a number above base, follows its predecessor  *)
(* unless that is base itself, and comes before the chunks after it; when  *)
(* the channel is whole the last chunk sent is on it.                      *)
Follows(q, s, base, n) ==
  q[n].pay.n = base + 1 \/ \E m \in 1 .. n - 1 : IsData(q[m], s) /\ q[m].pay.n + 1 = q[n].pay.n

Numbered(q, s, tag, base, sent) ==
  \A n \in 1 .. Len(q) : IsData(q[n], s) =>
    /\ q[n].pay = Payload(s, tag, q[n].pay.n)
    /\ base < q[n].pay.n /\ q[n].pay.n <= sent
    /\ Follows(q, s, base, n)

Increasing(q, s) ==
  \A m, n \in 1 .. Len(q) :
    IsData(q[m], s) /\ IsData(q[n], s) /\ m < n => q[m].pay.n < q[n].pay.n

LastThere(q, s, base, sent) ==
  base < sent => \E n \in 1 .. Len(q) : IsData(q[n], s) /\ q[n].pay.n = sent

(* A prefix of the chunks sent.                                            *)
InOrder(held, s, sent) ==
  Len(held) <= sent /\ \A n \in 1 .. Len(held) : held[n] = Up(s, n)

(* The OPEN comes before anything else of the stream; the client holds its *)
(* first chunks; and if it still takes more, the next ones are on the way. *)
StreamOK(q, s, c, p, t, sent, whole) ==
  /\ p # None => c = None /\ t = <<>>
  /\ OpenIn(q, s) => p = None /\ c = None /\ t = <<>>
  /\ InOrder(Held(p, t), s, sent)
  /\ OpenFirst(q, s)
  /\ Flows(q, s, c, p) =>
       /\ Numbered(q, s, "up", Len(Held(p, t)), sent)
       /\ Increasing(q, s)
       /\ whole => LastThere(q, s, Len(Held(p, t)), sent)

(* Neither end of session k refuses or drops what the server sends on it.  *)
Whole(k) == srvWs[k] = "open" /\ cliWs[k] # "closed"

(* The inductive invariant: every stream is in order.                      *)
StreamsInOrder ==
  \A s \in Sockets :
    /\ regId[s] = 0 => tIn[s] = <<>>
    /\ regId[s] # 0 => LET k == regSess[s]
                           i == regId[s]
                       IN  StreamOK(down[k], s, cConn[k][i], pend[k][i], tIn[s],
                                    bSent[s], Whole(k))

-----------------------------------------------------------------------------
(* Lemmas about frames taken off a channel and put on it.                  *)

(* Payloads are numbered.                                                  *)
LEMMA NumbersAreNat ==
  ASSUME NEW q \in Seq(Frames)
  PROVE  \A n \in 1 .. Len(q) : q[n].pay.n \in Nat
<1>1. \A n \in 1 .. Len(q) : q[n] \in Frames
  OBVIOUS
<1>2. \A f \in Frames : f.pay.n \in Nat
  BY DEF Frames, Payloads
<1> QED
  BY <1>1, <1>2

(* The tail of a channel: frames move forward by one.                      *)
LEMMA TailFrames ==
  ASSUME NEW q \in Seq(Frames), q # <<>>
  PROVE  /\ Tail(q) \in Seq(Frames)
         /\ Len(q) \in Nat \ {0} /\ Len(Tail(q)) = Len(q) - 1
         /\ Head(q) = q[1]
         /\ \A n \in 1 .. Len(Tail(q)) : Tail(q)[n] = q[n + 1] /\ n + 1 \in 1 .. Len(q)
OBVIOUS

(* A channel after frames have been put on it.                             *)
LEMMA MoreFrames ==
  ASSUME NEW q \in Seq(Frames), NEW fs \in Seq(Frames)
  PROVE  /\ q \o fs \in Seq(Frames)
         /\ Len(q) \in Nat /\ Len(fs) \in Nat
         /\ Len(q \o fs) = Len(q) + Len(fs)
         /\ \A n \in 1 .. Len(q) : (q \o fs)[n] = q[n]
         /\ \A n \in 1 .. Len(fs) : (q \o fs)[n + Len(q)] = fs[n]
         /\ \A n \in 1 .. Len(q \o fs) :
              n \in 1 .. Len(q) \/ (n - Len(q) \in 1 .. Len(fs) /\ (q \o fs)[n] = fs[n - Len(q)])
OBVIOUS

(* OPEN, and what follows it, on the tail of a channel.                    *)
LEMMA TailOpen ==
  ASSUME NEW q \in Seq(Frames), q # <<>>, NEW s, OpenFirst(q, s)
  PROVE  /\ OpenFirst(Tail(q), s)
         /\ OpenIn(Tail(q), s) => OpenIn(q, s)
         /\ IsOpen(Head(q), s) => ~OpenIn(Tail(q), s)
         /\ IsData(Head(q), s) => ~OpenIn(q, s)
<1> DEFINE z == Tail(q)
<1>1. /\ z \in Seq(Frames)
      /\ Len(q) \in Nat \ {0} /\ Len(z) = Len(q) - 1
      /\ Head(q) = q[1]
      /\ \A n \in 1 .. Len(z) : z[n] = q[n + 1] /\ n + 1 \in 1 .. Len(q)
  BY TailFrames
<1> HIDE DEF z
<1>2. ASSUME NEW n \in 1 .. Len(z), NEW m \in 1 .. Len(z), IsOpen(z[n], s)
      PROVE  /\ IsOpen(z[m], s) => m = n
             /\ IsData(z[m], s) => n < m
  <2>1. IsOpen(q[n + 1], s) /\ n + 1 \in 1 .. Len(q) /\ m + 1 \in 1 .. Len(q)
    BY <1>1, <1>2
  <2>2. /\ IsOpen(q[m + 1], s) => m + 1 = n + 1
        /\ IsData(q[m + 1], s) => n + 1 < m + 1
    BY <2>1, Zenon DEF OpenFirst
  <2> QED
    BY <1>1, <2>2
<1>3. OpenFirst(z, s)
  BY <1>2 DEF OpenFirst
<1>4. OpenIn(z, s) => OpenIn(q, s)
  BY <1>1 DEF OpenIn
<1>5. IsOpen(q[1], s) => ~OpenIn(z, s)
  <2> SUFFICES ASSUME IsOpen(q[1], s), NEW n \in 1 .. Len(z), IsOpen(z[n], s)
               PROVE  FALSE
    BY DEF OpenIn
  <2>1. IsOpen(q[n + 1], s) /\ n + 1 \in 1 .. Len(q) /\ 1 \in 1 .. Len(q)
    BY <1>1
  <2>2. n + 1 = 1
    BY <2>1, Zenon DEF OpenFirst
  <2> QED
    BY <2>2
<1>6. IsData(q[1], s) => ~OpenIn(q, s)
  <2> SUFFICES ASSUME IsData(q[1], s), NEW n \in 1 .. Len(q), IsOpen(q[n], s)
               PROVE  FALSE
    BY DEF OpenIn
  <2>1. n < 1
    <3>1. 1 \in 1 .. Len(q)
      BY <1>1
    <3> QED
      BY <3>1, Zenon DEF OpenFirst
  <2> QED
    BY <1>1, <2>1
<1> QED
  BY <1>1, <1>3, <1>4, <1>5, <1>6 DEF z

(* A frame taken off the channel that is not a chunk of s.                 *)
LEMMA TailNumbered ==
  ASSUME NEW q \in Seq(Frames), q # <<>>, NEW s, NEW tag, ~IsData(Head(q), s),
         NEW base \in Nat, NEW sent \in Nat,
         Numbered(q, s, tag, base, sent), Increasing(q, s)
  PROVE  /\ Numbered(Tail(q), s, tag, base, sent)
         /\ Increasing(Tail(q), s)
         /\ LastThere(q, s, base, sent) => LastThere(Tail(q), s, base, sent)
<1> DEFINE z == Tail(q)
<1>1. /\ z \in Seq(Frames)
      /\ Len(q) \in Nat \ {0} /\ Len(z) = Len(q) - 1
      /\ ~IsData(q[1], s)
      /\ \A n \in 1 .. Len(z) : z[n] = q[n + 1] /\ n + 1 \in 1 .. Len(q)
  BY TailFrames
<1>2. \A n \in 2 .. Len(q) : n - 1 \in 1 .. Len(z) /\ z[n - 1] = q[n]
  <2> SUFFICES ASSUME NEW n \in 2 .. Len(q)
               PROVE  n - 1 \in 1 .. Len(z) /\ z[n - 1] = q[n]
    OBVIOUS
  <2>1. n - 1 \in 1 .. Len(z)
    BY <1>1
  <2>2. z[n - 1] = q[(n - 1) + 1]
    BY <1>1, <2>1
  <2> QED
    BY <2>1, <2>2
<1> HIDE DEF z
<1>3. ASSUME NEW n \in 1 .. Len(z), IsData(z[n], s)
      PROVE  /\ z[n].pay = Payload(s, tag, z[n].pay.n)
             /\ base < z[n].pay.n /\ z[n].pay.n <= sent
             /\ Follows(z, s, base, n)
  <2>1. z[n] = q[n + 1] /\ n + 1 \in 1 .. Len(q) /\ IsData(q[n + 1], s)
    BY <1>1, <1>3
  <2>2. /\ q[n + 1].pay = Payload(s, tag, q[n + 1].pay.n)
        /\ base < q[n + 1].pay.n /\ q[n + 1].pay.n <= sent
        /\ Follows(q, s, base, n + 1)
    BY <2>1, Zenon DEF Numbered
  <2>3. CASE q[n + 1].pay.n = base + 1
    BY <2>1, <2>2, <2>3 DEF Follows
  <2>4. CASE q[n + 1].pay.n # base + 1
    <3>1. PICK m \in 1 .. (n + 1) - 1 : IsData(q[m], s) /\ q[m].pay.n + 1 = q[n + 1].pay.n
      BY <2>2, <2>4 DEF Follows
    <3>2. m # 1 /\ m \in 2 .. Len(q) /\ m - 1 \in 1 .. n - 1
      BY <1>1, <3>1
    <3>3. z[m - 1] = q[m]
      BY <1>2, <3>2
    <3>4. Follows(z, s, base, n)
      BY <2>1, <3>1, <3>2, <3>3 DEF Follows
    <3> QED
      BY <2>1, <2>2, <3>4
  <2> QED
    BY <2>3, <2>4
<1>4. Numbered(z, s, tag, base, sent)
  BY <1>3 DEF Numbered
<1>5. ASSUME NEW m \in 1 .. Len(z), NEW n \in 1 .. Len(z),
             IsData(z[m], s), IsData(z[n], s), m < n
      PROVE  z[m].pay.n < z[n].pay.n
  <2>1. /\ z[m] = q[m + 1] /\ m + 1 \in 1 .. Len(q)
        /\ z[n] = q[n + 1] /\ n + 1 \in 1 .. Len(q)
        /\ m + 1 < n + 1
    BY <1>1, <1>5
  <2> QED
    BY <1>5, <2>1 DEF Increasing
<1>6. Increasing(z, s)
  BY <1>5 DEF Increasing
<1>7. ASSUME LastThere(q, s, base, sent), base < sent
      PROVE  \E n \in 1 .. Len(z) : IsData(z[n], s) /\ z[n].pay.n = sent
  <2>1. PICK n \in 1 .. Len(q) : IsData(q[n], s) /\ q[n].pay.n = sent
    BY <1>7 DEF LastThere
  <2>2. n \in 2 .. Len(q)
    BY <1>1, <2>1
  <2> QED
    BY <1>2, <2>1, <2>2
<1> QED
  BY <1>4, <1>6, <1>7 DEF LastThere, z

(* The first chunk on the channel is the one after base; it is taken off.  *)
LEMMA HeadNumbered ==
  ASSUME NEW q \in Seq(Frames), q # <<>>, NEW s, NEW tag, IsData(Head(q), s),
         NEW base \in Nat, NEW sent \in Nat,
         Numbered(q, s, tag, base, sent), Increasing(q, s)
  PROVE  /\ Head(q).pay = Payload(s, tag, base + 1) /\ base + 1 <= sent
         /\ Numbered(Tail(q), s, tag, base + 1, sent)
         /\ Increasing(Tail(q), s)
         /\ LastThere(q, s, base, sent) => LastThere(Tail(q), s, base + 1, sent)
<1> DEFINE z == Tail(q)
<1>1. /\ z \in Seq(Frames)
      /\ Len(q) \in Nat \ {0} /\ Len(z) = Len(q) - 1
      /\ Head(q) = q[1]
      /\ \A n \in 1 .. Len(z) : z[n] = q[n + 1] /\ n + 1 \in 1 .. Len(q)
  BY TailFrames
<1>2. \A n \in 2 .. Len(q) : n - 1 \in 1 .. Len(z) /\ z[n - 1] = q[n]
  <2> SUFFICES ASSUME NEW n \in 2 .. Len(q)
               PROVE  n - 1 \in 1 .. Len(z) /\ z[n - 1] = q[n]
    OBVIOUS
  <2>1. n - 1 \in 1 .. Len(z)
    BY <1>1
  <2>2. z[n - 1] = q[(n - 1) + 1]
    BY <1>1, <2>1
  <2> QED
    BY <2>1, <2>2
<1> HIDE DEF z
<1>3. 1 \in 1 .. Len(q) /\ IsData(q[1], s)
  BY <1>1
<1>4. /\ q[1].pay = Payload(s, tag, q[1].pay.n)
      /\ q[1].pay.n <= sent
      /\ Follows(q, s, base, 1)
  BY <1>3, Zenon DEF Numbered
<1>5. q[1].pay.n = base + 1
  BY <1>4 DEF Follows
<1>6. \A n \in 1 .. Len(q) : q[n].pay.n \in Nat
  BY NumbersAreNat
<1>7. ASSUME NEW n \in 1 .. Len(z), IsData(z[n], s)
      PROVE  /\ z[n].pay = Payload(s, tag, z[n].pay.n)
             /\ base + 1 < z[n].pay.n /\ z[n].pay.n <= sent
             /\ Follows(z, s, base + 1, n)
  <2>1. z[n] = q[n + 1] /\ n + 1 \in 1 .. Len(q) /\ IsData(q[n + 1], s) /\ 1 < n + 1
    BY <1>1, <1>7
  <2>2. /\ q[n + 1].pay = Payload(s, tag, q[n + 1].pay.n)
        /\ q[n + 1].pay.n <= sent
        /\ Follows(q, s, base, n + 1)
    BY <2>1, Zenon DEF Numbered
  <2>3. base + 1 < q[n + 1].pay.n
    BY <1>3, <1>5, <2>1 DEF Increasing
  <2>4. PICK m \in 1 .. (n + 1) - 1 : IsData(q[m], s) /\ q[m].pay.n + 1 = q[n + 1].pay.n
    BY <2>2, <2>3 DEF Follows
  <2>5. CASE m = 1
    BY <1>5, <2>1, <2>2, <2>3, <2>4, <2>5 DEF Follows
  <2>6. CASE m # 1
    <3>1. m \in 2 .. Len(q) /\ m - 1 \in 1 .. n - 1
      BY <1>1, <2>4, <2>6
    <3>2. z[m - 1] = q[m]
      BY <1>2, <3>1
    <3>3. Follows(z, s, base + 1, n)
      BY <2>1, <2>4, <3>1, <3>2 DEF Follows
    <3> QED
      BY <2>1, <2>2, <2>3, <3>3
  <2> QED
    BY <2>5, <2>6
<1>8. Numbered(z, s, tag, base + 1, sent)
  BY <1>7 DEF Numbered
<1>9. ASSUME NEW m \in 1 .. Len(z), NEW n \in 1 .. Len(z),
             IsData(z[m], s), IsData(z[n], s), m < n
      PROVE  z[m].pay.n < z[n].pay.n
  <2>1. /\ z[m] = q[m + 1] /\ m + 1 \in 1 .. Len(q)
        /\ z[n] = q[n + 1] /\ n + 1 \in 1 .. Len(q)
        /\ m + 1 < n + 1
    BY <1>1, <1>9
  <2> QED
    BY <1>9, <2>1 DEF Increasing
<1>10. Increasing(z, s)
  BY <1>9 DEF Increasing
<1>11. ASSUME LastThere(q, s, base, sent), base + 1 < sent
       PROVE  \E n \in 1 .. Len(z) : IsData(z[n], s) /\ z[n].pay.n = sent
  <2>1. PICK n \in 1 .. Len(q) : IsData(q[n], s) /\ q[n].pay.n = sent
    BY <1>11 DEF LastThere
  <2>2. n # 1
    BY <1>5, <1>11, <2>1
  <2>3. n \in 2 .. Len(q)
    BY <1>1, <2>2
  <2> QED
    BY <1>2, <2>1, <2>3
<1>12. LastThere(q, s, base, sent) => LastThere(z, s, base + 1, sent)
  BY <1>11 DEF LastThere
<1> QED
  BY <1>1, <1>4, <1>5, <1>8, <1>10, <1>12 DEF z

(* Frames put on the channel that have nothing to do with s.               *)
LEMMA MoreUnrelated ==
  ASSUME NEW q \in Seq(Frames), NEW fs \in Seq(Frames), NEW s, NEW tag,
         \A n \in 1 .. Len(fs) : ~IsOpen(fs[n], s) /\ ~IsData(fs[n], s),
         NEW base \in Nat, NEW sent \in Nat
  PROVE  /\ OpenIn(q \o fs, s) <=> OpenIn(q, s)
         /\ OpenFirst(q, s) => OpenFirst(q \o fs, s)
         /\ Numbered(q, s, tag, base, sent) => Numbered(q \o fs, s, tag, base, sent)
         /\ Increasing(q, s) => Increasing(q \o fs, s)
         /\ LastThere(q, s, base, sent) => LastThere(q \o fs, s, base, sent)
<1> DEFINE z == q \o fs
<1>1. /\ z \in Seq(Frames)
      /\ Len(q) \in Nat /\ Len(fs) \in Nat
      /\ Len(z) = Len(q) + Len(fs)
      /\ \A n \in 1 .. Len(q) : z[n] = q[n]
      /\ \A n \in 1 .. Len(z) :
           n \in 1 .. Len(q) \/ (n - Len(q) \in 1 .. Len(fs) /\ z[n] = fs[n - Len(q)])
  BY MoreFrames
<1> HIDE DEF z
<1>2. /\ \A n \in 1 .. Len(q) : n \in 1 .. Len(z) /\ z[n] = q[n]
      /\ \A n \in 1 .. Len(z) :
           IsOpen(z[n], s) \/ IsData(z[n], s) => n \in 1 .. Len(q) /\ z[n] = q[n]
  <2>1. \A n \in 1 .. Len(q) : n \in 1 .. Len(z)
    BY <1>1
  <2>2. \A n \in 1 .. Len(z) :
          n \in 1 .. Len(q) \/ (~IsOpen(z[n], s) /\ ~IsData(z[n], s))
    BY <1>1, Zenon
  <2> QED
    BY <1>1, <2>1, <2>2, Zenon
<1>3. OpenIn(z, s) <=> OpenIn(q, s)
  BY <1>2, Zenon DEF OpenIn
<1>4. OpenFirst(q, s) => OpenFirst(z, s)
  <2> SUFFICES ASSUME OpenFirst(q, s), NEW n \in 1 .. Len(z), NEW m \in 1 .. Len(z),
                      IsOpen(z[n], s)
               PROVE  /\ IsOpen(z[m], s) => m = n
                      /\ IsData(z[m], s) => n < m
    BY Zenon DEF OpenFirst
  <2>1. n \in 1 .. Len(q) /\ IsOpen(q[n], s)
    BY <1>2
  <2>2. IsOpen(z[m], s) \/ IsData(z[m], s) => m \in 1 .. Len(q) /\ z[m] = q[m]
    BY <1>2
  <2> QED
    BY <2>1, <2>2, Zenon DEF OpenFirst
<1>5. Numbered(q, s, tag, base, sent) => Numbered(z, s, tag, base, sent)
  <2> SUFFICES ASSUME Numbered(q, s, tag, base, sent), NEW n \in 1 .. Len(z), IsData(z[n], s)
               PROVE  /\ z[n].pay = Payload(s, tag, z[n].pay.n)
                      /\ base < z[n].pay.n /\ z[n].pay.n <= sent
                      /\ Follows(z, s, base, n)
    BY Zenon DEF Numbered
  <2>1. n \in 1 .. Len(q) /\ z[n] = q[n]
    BY <1>2
  <2>2. /\ q[n].pay = Payload(s, tag, q[n].pay.n)
        /\ base < q[n].pay.n /\ q[n].pay.n <= sent
        /\ Follows(q, s, base, n)
    BY <2>1, Zenon DEF Numbered
  <2>3. \A m \in 1 .. n - 1 : z[m] = q[m]
    BY <1>1, <2>1
  <2>4. Follows(z, s, base, n)
    BY <2>1, <2>2, <2>3, Zenon DEF Follows
  <2> QED
    BY <2>1, <2>2, <2>4
<1>6. Increasing(q, s) => Increasing(z, s)
  BY <1>2, Zenon DEF Increasing
<1>7. LastThere(q, s, base, sent) => LastThere(z, s, base, sent)
  BY <1>2, Zenon DEF LastThere
<1> QED
  BY <1>3, <1>4, <1>5, <1>6, <1>7 DEF z

(* The next chunk of s put on the channel.                                 *)
LEMMA MoreChunk ==
  ASSUME NEW q \in Seq(Frames), NEW f \in Frames, NEW s, NEW tag, NEW sent \in Nat,
         IsData(f, s), f.pay = Payload(s, tag, sent + 1)
  PROVE  /\ OpenIn(Append(q, f), s) <=> OpenIn(q, s)
         /\ OpenFirst(q, s) => OpenFirst(Append(q, f), s)
         /\ \A base \in Nat :
              /\ base <= sent
              /\ Numbered(q, s, tag, base, sent) /\ Increasing(q, s)
              /\ LastThere(q, s, base, sent)
              => /\ Numbered(Append(q, f), s, tag, base, sent + 1)
                 /\ Increasing(Append(q, f), s)
                 /\ LastThere(Append(q, f), s, base, sent + 1)
<1> DEFINE z == Append(q, f)
<1>1. /\ z \in Seq(Frames)
      /\ Len(q) \in Nat /\ Len(z) = Len(q) + 1
      /\ \A n \in 1 .. Len(q) : z[n] = q[n]
      /\ z[Len(q) + 1] = f
  OBVIOUS
<1> HIDE DEF z
<1>2. ~IsOpen(f, s) /\ f.pay.n = sent + 1
  BY DEF IsOpen, IsData, Payload
<1>3. \A n \in 1 .. Len(z) :
        \/ n \in 1 .. Len(q) /\ z[n] = q[n]
        \/ n = Len(q) + 1 /\ z[n] = f
  BY <1>1
<1>4. \A n \in 1 .. Len(q) : n \in 1 .. Len(z) /\ z[n] = q[n] /\ n < Len(q) + 1
  BY <1>1
<1>5. OpenIn(z, s) <=> OpenIn(q, s)
  BY <1>2, <1>3, <1>4, Zenon DEF OpenIn
<1>6. OpenFirst(q, s) => OpenFirst(z, s)
  <2> SUFFICES ASSUME OpenFirst(q, s), NEW n \in 1 .. Len(z), NEW m \in 1 .. Len(z),
                      IsOpen(z[n], s)
               PROVE  /\ IsOpen(z[m], s) => m = n
                      /\ IsData(z[m], s) => n < m
    BY Zenon DEF OpenFirst
  <2>1. n \in 1 .. Len(q) /\ z[n] = q[n]
    BY <1>2, <1>3
  <2>2. CASE m \in 1 .. Len(q) /\ z[m] = q[m]
    BY <2>1, <2>2, Zenon DEF OpenFirst
  <2>3. CASE m = Len(q) + 1 /\ z[m] = f
    BY <1>2, <1>4, <2>1, <2>3
  <2> QED
    BY <1>3, <2>2, <2>3
<1>7. ASSUME NEW base \in Nat, base <= sent, Numbered(q, s, tag, base, sent), Increasing(q, s),
             LastThere(q, s, base, sent)
      PROVE  /\ Numbered(z, s, tag, base, sent + 1)
             /\ Increasing(z, s)
             /\ LastThere(z, s, base, sent + 1)
  <2>0. \A n \in 1 .. Len(q) : q[n].pay.n \in Nat
    BY NumbersAreNat
  <2>1. Follows(z, s, base, Len(q) + 1)
    <3>1. CASE base = sent
      BY <1>1, <1>2, <3>1 DEF Follows
    <3>2. CASE base < sent
      <4>1. PICK n \in 1 .. Len(q) : IsData(q[n], s) /\ q[n].pay.n = sent
        BY <1>7, <3>2 DEF LastThere
      <4>2. n \in 1 .. (Len(q) + 1) - 1 /\ z[n] = q[n]
        BY <1>1, <4>1
      <4> QED
        BY <1>1, <1>2, <4>1, <4>2 DEF Follows
    <3> QED
      BY <1>7, <3>1, <3>2
  <2>2. ASSUME NEW n \in 1 .. Len(q), IsData(q[n], s)
        PROVE  /\ z[n].pay = Payload(s, tag, z[n].pay.n)
               /\ base < z[n].pay.n /\ z[n].pay.n <= sent + 1
               /\ Follows(z, s, base, n)
    <3>1. /\ q[n].pay = Payload(s, tag, q[n].pay.n)
          /\ base < q[n].pay.n /\ q[n].pay.n <= sent
          /\ Follows(q, s, base, n)
      BY <1>7, <2>2, Zenon DEF Numbered
    <3>2. z[n] = q[n] /\ \A m \in 1 .. n - 1 : z[m] = q[m]
      BY <1>1
    <3>3. Follows(z, s, base, n)
      BY <3>1, <3>2, Zenon DEF Follows
    <3> QED
      BY <2>0, <3>1, <3>2, <3>3
  <2>3. ASSUME NEW n \in 1 .. Len(z), IsData(z[n], s)
        PROVE  /\ z[n].pay = Payload(s, tag, z[n].pay.n)
               /\ base < z[n].pay.n /\ z[n].pay.n <= sent + 1
               /\ Follows(z, s, base, n)
    <3>1. CASE n \in 1 .. Len(q) /\ z[n] = q[n]
      BY <2>2, <2>3, <3>1
    <3>2. CASE n = Len(q) + 1 /\ z[n] = f
      BY <1>2, <1>7, <2>1, <3>2
    <3> QED
      BY <1>3, <3>1, <3>2
  <2>4. Numbered(z, s, tag, base, sent + 1)
    BY <2>3, Zenon DEF Numbered
  <2>5. ASSUME NEW m \in 1 .. Len(z), NEW n \in 1 .. Len(z),
               IsData(z[m], s), IsData(z[n], s), m < n
        PROVE  z[m].pay.n < z[n].pay.n
    <3>1. m \in 1 .. Len(q) /\ z[m] = q[m]
      BY <1>1, <2>5
    <3>2. CASE n \in 1 .. Len(q) /\ z[n] = q[n]
      BY <1>7, <2>5, <3>1, <3>2, Zenon DEF Increasing
    <3>3. CASE n = Len(q) + 1 /\ z[n] = f
      <4>1. q[m].pay.n <= sent
        BY <1>7, <2>5, <3>1, Zenon DEF Numbered
      <4> QED
        BY <1>2, <2>0, <3>1, <3>3, <4>1
    <3> QED
      BY <1>3, <3>2, <3>3
  <2>6. Increasing(z, s)
    BY <2>5, Zenon DEF Increasing
  <2>7. Len(q) + 1 \in 1 .. Len(z) /\ IsData(z[Len(q) + 1], s) /\ z[Len(q) + 1].pay.n = sent + 1
    BY <1>1, <1>2
  <2>8. LastThere(z, s, base, sent + 1)
    BY <2>7, Zenon DEF LastThere
  <2> QED
    BY <2>4, <2>6, <2>8
<1> QED
  BY <1>5, <1>6, <1>7 DEF z

(* Chunks read from the browser that could not be put on the channel.      *)
LEMMA MoreSent ==
  ASSUME NEW q \in Seq(Frames), NEW s, NEW tag, NEW base \in Nat, NEW sent \in Nat,
         Numbered(q, s, tag, base, sent)
  PROVE  Numbered(q, s, tag, base, sent + 1)
<1>1. \A n \in 1 .. Len(q) : q[n].pay.n \in Nat
  BY NumbersAreNat
<1>2. \A n \in 1 .. Len(q) : q[n].pay.n <= sent => q[n].pay.n <= sent + 1
  BY <1>1
<1> QED
  BY <1>2, Zenon DEF Numbered

-----------------------------------------------------------------------------
(* What each kind of step does to a stream.                                *)

(* What an entry of pendingConnections may be.                             *)
Entries == Seq(Payloads) \cup {None}

(* What the client holds of a stream is a sequence of chunks.              *)
LEMMA HeldType ==
  ASSUME NEW p \in Entries, NEW t \in Seq(Payloads)
  PROVE  Held(p, t) \in Seq(Payloads) /\ Len(Held(p, t)) \in Nat
BY DEF Held, Entries

(* Entries of the client's Maps that go away.                              *)
LEMMA StreamDropped ==
  ASSUME NEW q \in Seq(Frames), NEW s \in Sockets, NEW c \in Sockets \cup {None},
         NEW p \in Entries, NEW t \in Seq(Payloads), NEW sent \in Nat, NEW whole \in BOOLEAN,
         StreamOK(q, s, c, p, t, sent, whole),
         NEW c2 \in {c, None}, NEW p2 \in {p, None}, NEW whole2 \in BOOLEAN, whole2 => whole
  PROVE  StreamOK(q, s, c2, p2, t, sent, whole2)
<1>0. s # None
  BY TunnelAssumption
<1>1. CASE p2 = p
  BY <1>0, <1>1, Zenon DEF StreamOK, Flows
<1>2. CASE p2 # p
  <2>1. p2 = None /\ p # None /\ c = None /\ c2 = None /\ t = <<>> /\ ~OpenIn(q, s)
    BY <1>2 DEF StreamOK
  <2>2. ~Flows(q, s, c2, p2)
    BY <1>0, <2>1 DEF Flows
  <2>3. InOrder(Held(p2, t), s, sent)
    BY <2>1 DEF Held, InOrder
  <2> QED
    BY <2>1, <2>2, <2>3 DEF StreamOK
<1> QED
  BY <1>1, <1>2

(* A frame taken off the channel that is not about s.                      *)
LEMMA StreamPassed ==
  ASSUME NEW q \in Seq(Frames), NEW s \in Sockets, NEW c \in Sockets \cup {None},
         NEW p \in Entries, NEW t \in Seq(Payloads), NEW sent \in Nat, NEW whole \in BOOLEAN,
         StreamOK(q, s, c, p, t, sent, whole),
         q # <<>>, ~IsOpen(Head(q), s), ~IsData(Head(q), s)
  PROVE  StreamOK(Tail(q), s, c, p, t, sent, whole)
<1>1. OpenFirst(q, s)
  BY DEF StreamOK
<1>2. OpenFirst(Tail(q), s) /\ (OpenIn(Tail(q), s) => OpenIn(q, s))
  BY <1>1, TailOpen
<1>3. Flows(Tail(q), s, c, p) => Flows(q, s, c, p)
  BY <1>2 DEF Flows
<1>4. ASSUME Flows(Tail(q), s, c, p)
      PROVE  /\ Numbered(Tail(q), s, "up", Len(Held(p, t)), sent)
             /\ Increasing(Tail(q), s)
             /\ whole => LastThere(Tail(q), s, Len(Held(p, t)), sent)
  <2>1. /\ Numbered(q, s, "up", Len(Held(p, t)), sent)
        /\ Increasing(q, s)
        /\ whole => LastThere(q, s, Len(Held(p, t)), sent)
    BY <1>3, <1>4 DEF StreamOK
  <2>2. Len(Held(p, t)) \in Nat
    BY HeldType
  <2> HIDE DEF Held
  <2> QED
    BY <2>1, <2>2, TailNumbered
<1> QED
  BY <1>2, <1>4, Zenon DEF StreamOK

(* The OPEN of s taken off the channel: refused, connected to, looked up.  *)
LEMMA StreamOpened ==
  ASSUME NEW q \in Seq(Frames), NEW s \in Sockets, NEW c \in Sockets \cup {None},
         NEW p \in Entries, NEW t \in Seq(Payloads), NEW sent \in Nat, NEW whole \in BOOLEAN,
         StreamOK(q, s, c, p, t, sent, whole),
         q # <<>>, IsOpen(Head(q), s)
  PROVE  /\ c = None /\ p = None /\ t = <<>>
         /\ StreamOK(Tail(q), s, c, p, t, sent, whole)
         /\ StreamOK(Tail(q), s, s, None, t, sent, whole)
         /\ StreamOK(Tail(q), s, c, <<>>, t, sent, whole)
<1>1. OpenFirst(q, s) /\ InOrder(Held(p, t), s, sent)
  BY DEF StreamOK
<1>2. OpenIn(q, s)
  <2>1. Head(q) = q[1] /\ 1 \in 1 .. Len(q)
    OBVIOUS
  <2> QED
    BY <2>1, Zenon DEF OpenIn
<1>3. c = None /\ p = None /\ t = <<>>
  BY <1>2, Zenon DEF StreamOK
<1>4. OpenFirst(Tail(q), s) /\ ~OpenIn(Tail(q), s) /\ ~IsData(Head(q), s)
  BY <1>1, TailOpen DEF IsOpen, IsData
<1>5. \A e \in {None, <<>>} : Held(e, t) = <<>> /\ Len(Held(e, t)) = 0
  BY <1>3 DEF Held
<1>6. \A e \in {None, <<>>} : InOrder(Held(e, t), s, sent)
  BY <1>5 DEF InOrder
<1>7. /\ Numbered(Tail(q), s, "up", 0, sent)
      /\ Increasing(Tail(q), s)
      /\ whole => LastThere(Tail(q), s, 0, sent)
  <2>1. Flows(q, s, c, p)
    BY <1>2 DEF Flows
  <2>2. /\ Numbered(q, s, "up", 0, sent)
        /\ Increasing(q, s)
        /\ whole => LastThere(q, s, 0, sent)
    BY <1>3, <1>5, <2>1 DEF StreamOK
  <2> QED
    BY <1>4, <2>2, TailNumbered
<1>8. StreamOK(Tail(q), s, c, p, t, sent, whole)
  BY <1>3, <1>4, <1>5, <1>6, <1>7 DEF StreamOK
<1>9. StreamOK(Tail(q), s, s, None, t, sent, whole)
  BY <1>3, <1>4, <1>5, <1>6, <1>7 DEF StreamOK
<1>10. StreamOK(Tail(q), s, c, <<>>, t, sent, whole)
  BY <1>3, <1>4, <1>5, <1>6, <1>7 DEF StreamOK
<1> QED
  BY <1>3, <1>8, <1>9, <1>10

(* A chunk of s taken off the channel: given to the target, queued while   *)
(* its name is looked up, or refused because the target is gone.           *)
LEMMA StreamChunk ==
  ASSUME NEW q \in Seq(Frames), NEW s \in Sockets, NEW c \in Sockets \cup {None},
         NEW p \in Entries, NEW t \in Seq(Payloads), NEW sent \in Nat, NEW whole \in BOOLEAN,
         StreamOK(q, s, c, p, t, sent, whole),
         q # <<>>, IsData(Head(q), s)
  PROVE  /\ c = s => p = None
         /\ StreamOK(Tail(q), s, None, None, t, sent, whole)
         /\ c = s => /\ StreamOK(Tail(q), s, s, None, Append(t, Head(q).pay), sent, whole)
                     /\ StreamOK(Tail(q), s, None, None, Append(t, Head(q).pay), sent, whole)
         /\ p # None => StreamOK(Tail(q), s, c, Append(p, Head(q).pay), t, sent, whole)
<1>0. s # None
  BY TunnelAssumption
<1>1. OpenFirst(q, s) /\ InOrder(Held(p, t), s, sent)
  BY DEF StreamOK
<1>2. ~OpenIn(q, s) /\ OpenFirst(Tail(q), s) /\ ~OpenIn(Tail(q), s)
  BY <1>1, TailOpen
<1>3. p # None => c = None /\ t = <<>>
  BY DEF StreamOK
<1>4. Held(None, t) = t /\ (p = None => Held(p, t) = t)
  BY DEF Held
<1>5. StreamOK(Tail(q), s, None, None, t, sent, whole)
  <2>1. InOrder(t, s, sent)
    <3>1. CASE p = None
      BY <1>1, <1>4, <3>1
    <3>2. CASE p # None
      BY <1>3, <3>2 DEF InOrder
    <3> QED
      BY <3>1, <3>2
  <2>2. ~Flows(Tail(q), s, None, None)
    BY <1>0, <1>2 DEF Flows
  <2> QED
    BY <1>2, <1>4, <2>1, <2>2 DEF StreamOK
<1>6. ASSUME NEW h \in Seq(Payloads), h = Held(p, t), c = s \/ p # None
      PROVE  /\ InOrder(Append(h, Head(q).pay), s, sent)
             /\ Numbered(Tail(q), s, "up", Len(Append(h, Head(q).pay)), sent)
             /\ Increasing(Tail(q), s)
             /\ whole => LastThere(Tail(q), s, Len(Append(h, Head(q).pay)), sent)
  <2>1. Flows(q, s, c, p)
    BY <1>6 DEF Flows
  <2>2. /\ Numbered(q, s, "up", Len(h), sent)
        /\ Increasing(q, s)
        /\ whole => LastThere(q, s, Len(h), sent)
    BY <1>6, <2>1, Zenon DEF StreamOK
  <2>3. Len(h) \in Nat /\ Len(Append(h, Head(q).pay)) = Len(h) + 1
    OBVIOUS
  <2>4. /\ Head(q).pay = Up(s, Len(h) + 1) /\ Len(h) + 1 <= sent
        /\ Numbered(Tail(q), s, "up", Len(h) + 1, sent)
        /\ Increasing(Tail(q), s)
        /\ whole => LastThere(Tail(q), s, Len(h) + 1, sent)
    BY <2>2, <2>3, HeadNumbered DEF Up
  <2>5. \A n \in 1 .. Len(h) : h[n] = Up(s, n)
    BY <1>1, <1>6 DEF InOrder
  <2>6. \A n \in 1 .. Len(h) + 1 : Append(h, Head(q).pay)[n] = Up(s, n)
    <3> SUFFICES ASSUME NEW n \in 1 .. Len(h) + 1
                 PROVE  Append(h, Head(q).pay)[n] = Up(s, n)
      OBVIOUS
    <3>1. CASE n \in 1 .. Len(h)
      BY <2>5, <3>1
    <3>2. CASE n = Len(h) + 1
      BY <2>4, <3>2
    <3> QED
      BY <2>3, <3>1, <3>2
  <2> QED
    BY <2>3, <2>4, <2>6 DEF InOrder
<1>7. ASSUME c = s
      PROVE  /\ p = None
             /\ StreamOK(Tail(q), s, s, None, Append(t, Head(q).pay), sent, whole)
             /\ StreamOK(Tail(q), s, None, None, Append(t, Head(q).pay), sent, whole)
  <2>1. p = None
    BY <1>0, <1>3, <1>7
  <2>2. Held(None, Append(t, Head(q).pay)) = Append(t, Head(q).pay) /\ Held(p, t) = t
    BY <2>1 DEF Held
  <2>3. /\ InOrder(Append(t, Head(q).pay), s, sent)
        /\ Numbered(Tail(q), s, "up", Len(Append(t, Head(q).pay)), sent)
        /\ Increasing(Tail(q), s)
        /\ whole => LastThere(Tail(q), s, Len(Append(t, Head(q).pay)), sent)
    BY <1>6, <1>7, <2>2
  <2>4. StreamOK(Tail(q), s, s, None, Append(t, Head(q).pay), sent, whole)
    BY <1>2, <2>2, <2>3, Zenon DEF StreamOK
  <2>5. StreamOK(Tail(q), s, None, None, Append(t, Head(q).pay), sent, whole)
    BY <1>2, <2>2, <2>3, Zenon DEF StreamOK
  <2> QED
    BY <2>1, <2>4, <2>5
<1>8. ASSUME p # None
      PROVE  StreamOK(Tail(q), s, c, Append(p, Head(q).pay), t, sent, whole)
  <2>1. p \in Seq(Payloads) /\ Held(p, t) = p
    BY <1>8 DEF Entries, Held
  <2>2. /\ InOrder(Append(p, Head(q).pay), s, sent)
        /\ Numbered(Tail(q), s, "up", Len(Append(p, Head(q).pay)), sent)
        /\ Increasing(Tail(q), s)
        /\ whole => LastThere(Tail(q), s, Len(Append(p, Head(q).pay)), sent)
    BY <1>6, <1>8, <2>1
  <2>3. CASE Append(p, Head(q).pay) # None
    <3>1. Held(Append(p, Head(q).pay), t) = Append(p, Head(q).pay)
      BY <2>3 DEF Held
    <3> QED
      BY <1>2, <1>3, <1>8, <2>2, <3>1, Zenon DEF StreamOK
  <2>4. CASE Append(p, Head(q).pay) = None
    BY <1>3, <1>5, <1>8, <2>4, Zenon
  <2> QED
    BY <2>3, <2>4
<1> QED
  BY <1>5, <1>7, <1>8

(* A lookup that succeeds: what was queued is written to the target.       *)
LEMMA StreamResolved ==
  ASSUME NEW q \in Seq(Frames), NEW s \in Sockets, NEW c \in Sockets \cup {None},
         NEW p \in Entries, NEW t \in Seq(Payloads), NEW sent \in Nat, NEW whole \in BOOLEAN,
         StreamOK(q, s, c, p, t, sent, whole), p # None
  PROVE  StreamOK(q, s, s, None, t \o p, sent, whole)
<1>1. c = None /\ t = <<>> /\ ~OpenIn(q, s)
  BY Zenon DEF StreamOK
<1>2. p \in Seq(Payloads) /\ t \o p = p
  BY <1>1 DEF Entries
<1>3. Held(None, p) = p /\ Held(p, t) = p
  BY DEF Held
<1>4. Flows(q, s, c, p)
  BY DEF Flows
<1>5. /\ InOrder(p, s, sent)
      /\ OpenFirst(q, s)
      /\ Numbered(q, s, "up", Len(p), sent)
      /\ Increasing(q, s)
      /\ whole => LastThere(q, s, Len(p), sent)
  BY <1>3, <1>4, Zenon DEF StreamOK
<1> QED
  BY <1>1, <1>2, <1>3, <1>5, Zenon DEF StreamOK

(* The session ends at the client: the channel is gone.                    *)
LEMMA StreamCleared ==
  ASSUME NEW q \in Seq(Frames), NEW s \in Sockets, NEW c \in Sockets \cup {None},
         NEW p \in Entries, NEW t \in Seq(Payloads), NEW sent \in Nat, NEW whole \in BOOLEAN,
         StreamOK(q, s, c, p, t, sent, whole), NEW c2 \in {c, None}
  PROVE  StreamOK(<<>>, s, c2, p, t, sent, FALSE)
<1>1. ~OpenIn(<<>>, s) /\ OpenFirst(<<>>, s) /\ Increasing(<<>>, s)
  BY DEF OpenIn, OpenFirst, Increasing
<1>2. \A b : Numbered(<<>>, s, "up", b, sent)
  BY DEF Numbered
<1>3. InOrder(Held(p, t), s, sent) /\ (p # None => c2 = None /\ t = <<>>)
  BY DEF StreamOK
<1> QED
  BY <1>1, <1>2, <1>3, Zenon DEF StreamOK

(* Frames that are not about s, put on the channel.                        *)
LEMMA StreamGrown ==
  ASSUME NEW q \in Seq(Frames), NEW s \in Sockets, NEW c \in Sockets \cup {None},
         NEW p \in Entries, NEW t \in Seq(Payloads), NEW sent \in Nat, NEW whole \in BOOLEAN,
         StreamOK(q, s, c, p, t, sent, whole),
         NEW fs \in Seq(Frames), \A n \in 1 .. Len(fs) : ~IsOpen(fs[n], s) /\ ~IsData(fs[n], s)
  PROVE  StreamOK(q \o fs, s, c, p, t, sent, whole)
<1>1. Len(Held(p, t)) \in Nat
  BY HeldType
<1> HIDE DEF Held
<1>2. /\ OpenIn(q \o fs, s) <=> OpenIn(q, s)
      /\ OpenFirst(q, s) => OpenFirst(q \o fs, s)
      /\ Numbered(q, s, "up", Len(Held(p, t)), sent) => Numbered(q \o fs, s, "up", Len(Held(p, t)), sent)
      /\ Increasing(q, s) => Increasing(q \o fs, s)
      /\ LastThere(q, s, Len(Held(p, t)), sent) => LastThere(q \o fs, s, Len(Held(p, t)), sent)
  BY <1>1, MoreUnrelated
<1>3. Flows(q \o fs, s, c, p) => Flows(q, s, c, p)
  BY <1>2 DEF Flows
<1> QED
  BY <1>2, <1>3, Zenon DEF StreamOK

(* A chunk of s read from the browser: put on a whole channel, lost on one *)
(* that is not whole.                                                      *)
LEMMA StreamSent ==
  ASSUME NEW q \in Seq(Frames), NEW s \in Sockets, NEW c \in Sockets \cup {None},
         NEW p \in Entries, NEW t \in Seq(Payloads), NEW sent \in Nat, NEW whole \in BOOLEAN,
         StreamOK(q, s, c, p, t, sent, whole),
         NEW f \in Frames, IsData(f, s), f.pay = Up(s, sent + 1)
  PROVE  /\ whole => StreamOK(Append(q, f), s, c, p, t, sent + 1, whole)
         /\ ~whole => StreamOK(q, s, c, p, t, sent + 1, whole)
<1> DEFINE base == Len(Held(p, t))
<1>0. f.pay = Payload(s, "up", sent + 1)
  BY DEF Up
<1>1. base \in Nat
  BY HeldType
<1>2. base <= sent /\ InOrder(Held(p, t), s, sent + 1)
  <2>1. Len(Held(p, t)) <= sent /\ \A n \in 1 .. Len(Held(p, t)) : Held(p, t)[n] = Up(s, n)
    BY DEF StreamOK, InOrder
  <2>2. Len(Held(p, t)) <= sent + 1
    BY <1>1, <2>1
  <2> QED
    BY <2>1, <2>2, Zenon DEF InOrder
<1> HIDE DEF base
<1>3. ASSUME whole
      PROVE  StreamOK(Append(q, f), s, c, p, t, sent + 1, whole)
  <2>1. /\ OpenIn(Append(q, f), s) <=> OpenIn(q, s)
        /\ OpenFirst(q, s) => OpenFirst(Append(q, f), s)
    BY <1>0, MoreChunk
  <2>2. Flows(Append(q, f), s, c, p) => Flows(q, s, c, p)
    BY <2>1 DEF Flows
  <2>3. ASSUME Flows(q, s, c, p)
        PROVE  /\ Numbered(Append(q, f), s, "up", base, sent + 1)
               /\ Increasing(Append(q, f), s)
               /\ LastThere(Append(q, f), s, base, sent + 1)
    <3>1. Numbered(q, s, "up", base, sent) /\ Increasing(q, s) /\ LastThere(q, s, base, sent)
      BY <1>3, <2>3, Zenon DEF StreamOK, base
    <3> QED
      BY <1>0, <1>1, <1>2, <3>1, MoreChunk
  <2> QED
    BY <1>2, <2>1, <2>2, <2>3, Zenon DEF StreamOK, base
<1>4. ASSUME ~whole
      PROVE  StreamOK(q, s, c, p, t, sent + 1, whole)
  <2>1. Numbered(q, s, "up", base, sent) => Numbered(q, s, "up", base, sent + 1)
    BY <1>1, MoreSent
  <2> QED
    BY <1>2, <1>4, <2>1, Zenon DEF StreamOK, base
<1> QED
  BY <1>3, <1>4

-----------------------------------------------------------------------------
(* Every step keeps the streams in order.                                  *)

(* The client does not touch the server's end of a session.                *)
LEMMA ServerEndAlone ==
  ASSUME ClientNext
  PROVE  srvWs' = srvWs
<1>1. ASSUME NEW j \in Sessions, ClientHandles(j)
      PROVE  srvWs' = srvWs
  BY <1>1 DEF ClientHandles, OpenRejected, OpenForbidden, OpenAddress, OpenName,
     DataConnected, DataOverflow, DataPending, DataUnknown, CloseFrame, Delivered
<1>2. ASSUME NEW j \in Sessions, ClientShuts(j) \/ ClientWsClosed(j)
      PROVE  srvWs' = srvWs
  BY <1>2 DEF ClientShuts, ClientWsClosed
<1>3. ASSUME NEW d \in dns, Resolves(d)
      PROVE  srvWs' = srvWs
  BY <1>3 DEF Resolves, LookupStale, LookupFails, LookupSucceeds, tunnelVars
<1>4. ASSUME NEW s \in Sockets,
             \/ TargetConnects(s) \/ TargetSends(s) \/ TargetEnds(s)
             \/ TargetFails(s) \/ TargetClosed(s)
      PROVE  srvWs' = srvWs
  BY <1>4 DEF TargetConnects, TargetSends, TargetEnds, TargetFails, TargetClosed
<1> QED
  BY <1>1, <1>2, <1>3, <1>4 DEF ClientNext

(* The server's end of a session is not open again after the session.      *)
LEMMA ServerEndKept ==
  ASSUME TypeInv, [Next]_vars, NEW k \in Sessions, cliWs[k] # "none", srvWs'[k] = "open"
  PROVE  srvWs[k] = "open"
<1>1. srvWs \in [Sessions -> WsStates]
  BY DEF TypeInv, TypeOK, TunnelTypeOK
<1>2. ASSUME NEW j \in Sessions, Connection(j)
      PROVE  srvWs[k] = "open"
  <2>1. j # k /\ srvWs'[k] = (IF activeWs = 0 THEN srvWs ELSE Shut(srvWs, activeWs))[k]
    BY <1>1, <1>2 DEF Connection, Shut
  <2> QED
    BY <1>1, <2>1 DEF Shut
<1>3. ASSUME NEW j \in Sessions, ServerShuts(j) \/ ServerWsClosed(j)
      PROVE  srvWs[k] = "open"
  <2>1. srvWs' = Shut(srvWs, j) \/ srvWs' = [srvWs EXCEPT ![j] = "closed"]
    BY <1>3 DEF ServerShuts, ServerWsClosed
  <2> QED
    BY <1>1, <2>1 DEF Shut
<1>4. ASSUME NEW j \in Sessions, ServerHandles(j)
      PROVE  srvWs' = srvWs
  BY <1>4 DEF ServerHandles, FrameUnknown, FrameData, FrameClose, FrameOpenAck, Arrives
<1>5. ASSUME NEW s \in Sockets,
             \/ \E m \in Methods : (\E extra \in BOOLEAN : Request(s, m, extra)) \/ Refuse(s, m)
             \/ BrowserSend(s) \/ BrowserEnd(s) \/ BrowserAbort(s)
             \/ EndingDestroyed(s) \/ BrowserClosed(s) \/ BrowserRead(s)
      PROVE  srvWs' = srvWs
  BY <1>5 DEF Request, Refuse, BrowserSend, BrowserEnd, BrowserAbort, EndingDestroyed,
     BrowserClosed, BrowserRead, tunnelVars
<1>6. CASE ClientNext
  BY <1>6, ServerEndAlone
<1>7. CASE UNCHANGED vars
  BY <1>7 DEF vars, tunnelVars
<1> QED
  BY <1>2, <1>3, <1>4, <1>5, <1>6, <1>7 DEF Next, ServerNext

(* What the client does with a frame of one stream, it does to that stream *)
(* only.                                                                   *)
LEMMA OthersUntouched ==
  ASSUME TypeInv, NEW j \in Sessions, ClientHandles(j), NEW k \in Sessions, NEW i \in Ids,
         k # j \/ i # Head(down[j]).id
  PROVE  cConn'[k][i] = cConn[k][i] /\ pend'[k][i] = pend[k][i]
<1> DEFINE n == Head(down[j]).id
<1>1. /\ cConn \in [Sessions -> [Ids -> Sockets \cup {None}]]
      /\ pend \in [Sessions -> [Ids -> Seq(Payloads) \cup {None}]]
  BY DEF TypeInv, TypeOK, ConnectionManagerTypeOK
<1>2. Delivered(j)
  BY DEF ClientHandles, OpenRejected, OpenForbidden, OpenAddress, OpenName,
     DataConnected, DataOverflow, DataPending, DataUnknown, CloseFrame
<1>3. Head(down[j]) \in Frames
  BY <1>2, TakeType DEF Delivered, TypeInv, TypeOK, TunnelTypeOK, Channels
<1>4. n \in Ids
  BY <1>3 DEF Frames
<1>5. \/ cConn' = cConn
      \/ \E e : cConn' = [cConn EXCEPT ![j][n] = e]
  BY Zenon DEF ClientHandles, OpenRejected, OpenForbidden, OpenAddress, OpenName, DataConnected,
     DataOverflow, DataPending, DataUnknown, CloseFrame, Establish, Removed
<1>6. \/ pend' = pend
      \/ \E e : pend' = [pend EXCEPT ![j][n] = e]
  BY Zenon DEF ClientHandles, OpenRejected, OpenForbidden, OpenAddress, OpenName, DataConnected,
     DataOverflow, DataPending, DataUnknown, CloseFrame, Establish, Removed
<1> HIDE DEF n
<1>7. k # j \/ i # n
  BY DEF n
<1> QED
  BY <1>1, <1>4, <1>5, <1>6, <1>7

(* A target is given something by a chunk of its own stream only.          *)
LEMMA GivenByOwn ==
  ASSUME TypeInv, Sourced, FreshIds, NEW j \in Sessions, ClientHandles(j), NEW s \in Sockets,
         ~IsData(Head(down[j]), s)
  PROVE  tIn'[s] = tIn[s]
<1> DEFINE f == Head(down[j])
<1>1. /\ tIn \in [Sockets -> Seq(Payloads)]
      /\ cConn \in [Sessions -> [Ids -> Sockets \cup {None}]]
  BY DEF TypeInv, TypeOK, ConnectionManagerTypeOK
<1>2. Delivered(j)
  BY DEF ClientHandles, OpenRejected, OpenForbidden, OpenAddress, OpenName,
     DataConnected, DataOverflow, DataPending, DataUnknown, CloseFrame
<1>3. down[j] \in Seq(Frames) /\ down[j] # <<>>
  BY <1>2 DEF Delivered, TypeInv, TypeOK, TunnelTypeOK
<1>4. f \in Frames /\ f = down[j][1] /\ 1 \in 1 .. Len(down[j])
  BY <1>3
<1>5. f.id \in Ids /\ f.id # 0
  BY <1>4 DEF Frames, Ids
<1>6. f.type \in {"OPEN", "DATA"} =>
        f.pay.of \in Sockets /\ Holds(regId, regSess, f.pay.of, j, f.id)
  BY <1>4, Zenon DEF Sourced, DownSourced, DownFrom
<1>7. \/ tIn' = tIn
      \/ f.type = "OPEN" /\ tIn' = [tIn EXCEPT ![f.pay.of] = @ \o <<>>]
      \/ /\ f.type = "DATA" /\ cConn[j][f.id] \in Sockets
         /\ tIn' = [tIn EXCEPT ![cConn[j][f.id]] = Append(@, f.pay)]
  <2>1. CASE \E h \in Hosts : OpenAddress(j, h)
    BY <2>1, Zenon DEF OpenAddress, Establish
  <2>2. CASE DataConnected(j) \/ DataOverflow(j)
    <3>1. /\ f.type = "DATA"
          /\ cConn[j][f.id] # None
          /\ tIn' = tIn \/ tIn' = [tIn EXCEPT ![cConn[j][f.id]] = Append(@, f.pay)]
      BY <2>2, TunnelAssumption DEF DataConnected, DataOverflow
    <3> QED
      BY <1>1, <1>5, <3>1
  <2>3. CASE \/ \E h \in Hosts : OpenRejected(j, h) \/ OpenForbidden(j, h) \/ OpenName(j, h)
             \/ DataPending(j) \/ DataUnknown(j) \/ CloseFrame(j)
    BY <2>3 DEF OpenRejected, OpenForbidden, OpenName, DataPending, DataUnknown, CloseFrame
  <2> QED
    BY <2>1, <2>2, <2>3 DEF ClientHandles
<1> HIDE DEF f
<1>8. CASE tIn' = tIn
  BY <1>8
<1>9. CASE f.type = "OPEN" /\ tIn' = [tIn EXCEPT ![f.pay.of] = @ \o <<>>]
  BY <1>1, <1>6, <1>9
<1>10. CASE /\ f.type = "DATA" /\ cConn[j][f.id] \in Sockets
            /\ tIn' = [tIn EXCEPT ![cConn[j][f.id]] = Append(@, f.pay)]
  <2>1. Holds(regId, regSess, cConn[j][f.id], j, f.id)
    BY <1>5, <1>10, TunnelAssumption DEF Sourced, TargetsSourced
  <2>2. cConn[j][f.id] = f.pay.of
    BY <1>5, <1>6, <1>10, <2>1 DEF Holds, FreshIds
  <2>3. f.pay.of # s
    BY <1>10 DEF IsData, f
  <2> QED
    BY <1>1, <1>10, <2>2, <2>3
<1> QED
  BY <1>7, <1>8, <1>9, <1>10

(* The client handles a frame of the session of s.                         *)
LEMMA StreamByFrame ==
  ASSUME TypeInv, Sourced, FreshIds, NEW s \in Sockets, NEW k \in Sessions, NEW i \in Ids,
         Holds(regId, regSess, s, k, i), ClientHandles(k), NEW whole \in BOOLEAN,
         StreamOK(down[k], s, cConn[k][i], pend[k][i], tIn[s], bSent[s], whole)
  PROVE  StreamOK(Tail(down[k]), s, cConn'[k][i], pend'[k][i], tIn'[s], bSent[s], whole)
<1> DEFINE q == down[k]
           f == Head(q)
           c == cConn[k][i]
           p == pend[k][i]
           t == tIn[s]
           sent == bSent[s]
           Goal == StreamOK(Tail(q), s, cConn'[k][i], pend'[k][i], tIn'[s], sent, whole)
<1>1. /\ cConn \in [Sessions -> [Ids -> Sockets \cup {None}]]
      /\ pend \in [Sessions -> [Ids -> Seq(Payloads) \cup {None}]]
      /\ tIn \in [Sockets -> Seq(Payloads)]
      /\ bSent \in [Sockets -> Nat]
  BY DEF TypeInv, TypeOK, ConnectionManagerTypeOK, FrameProtocolTypeOK
<1>2. c \in Sockets \cup {None} /\ p \in Entries /\ t \in Seq(Payloads) /\ sent \in Nat
  BY <1>1 DEF Entries
<1>3. Delivered(k)
  BY DEF ClientHandles, OpenRejected, OpenForbidden, OpenAddress, OpenName,
     DataConnected, DataOverflow, DataPending, DataUnknown, CloseFrame
<1>4. q \in Seq(Frames) /\ q # <<>>
  BY <1>3 DEF Delivered, TypeInv, TypeOK, TunnelTypeOK
<1>5. f \in Frames /\ f = q[1] /\ 1 \in 1 .. Len(q)
  BY <1>4
<1>6. f.id \in Ids /\ f.id # 0 /\ f.pay \in Payloads
  BY <1>5 DEF Frames, Ids
<1>7. f.type \in {"OPEN", "DATA"} =>
        f.pay.of \in Sockets /\ Holds(regId, regSess, f.pay.of, k, f.id)
  BY <1>5, Zenon DEF Sourced, DownSourced, DownFrom
<1>8. IsOpen(f, s) \/ IsData(f, s) => f.id = i
  BY <1>7 DEF IsOpen, IsData, Holds
<1>9. f.type \in {"OPEN", "DATA"} /\ f.id = i => f.pay.of = s
  BY <1>6, <1>7 DEF Holds, FreshIds
<1>10. c \in {s, None}
  <2>1. c # None => Holds(regId, regSess, c, k, i)
    BY DEF Sourced, TargetsSourced
  <2>2. i # 0
    BY DEF Ids
  <2> QED
    BY <1>2, <2>1, <2>2 DEF Holds, FreshIds
<1>11. StreamOK(q, s, c, p, t, sent, whole)
  OBVIOUS
<1>12. s # None
  BY TunnelAssumption
<1> SUFFICES Goal
  OBVIOUS
<1> HIDE DEF q, c, p, t, sent
<1>13. CASE ~IsOpen(f, s) /\ ~IsData(f, s)
  <2>1. StreamOK(Tail(q), s, c, p, t, sent, whole)
    BY <1>2, <1>4, <1>11, <1>13, StreamPassed, Zenon
  <2>2. tIn'[s] = t
    BY <1>13, GivenByOwn DEF q, t
  <2>3. CASE f.id # i
    <3>1. cConn'[k][i] = c /\ pend'[k][i] = p
      BY <2>3, OthersUntouched DEF q, c, p
    <3> QED
      BY <2>1, <2>2, <3>1
  <2>4. CASE f.id = i
    <3>1. CloseFrame(k)
      <4>1. f.type \notin {"OPEN", "DATA"}
        BY <1>9, <1>13, <2>4 DEF IsOpen, IsData
      <4> QED
        BY <4>1 DEF ClientHandles, OpenRejected, OpenForbidden, OpenAddress, OpenName,
           DataConnected, DataOverflow, DataPending, DataUnknown, q
    <3>2. cConn'[k][i] = None /\ pend'[k][i] = None
      BY <1>1, <2>4, <3>1 DEF CloseFrame, Removed, q
    <3>3. StreamOK(Tail(q), s, None, None, t, sent, whole)
      <4>1. Tail(q) \in Seq(Frames)
        BY <1>4
      <4> QED
        BY <1>2, <2>1, <4>1, StreamDropped, Zenon
    <3> QED
      BY <2>2, <3>2, <3>3
  <2> QED
    BY <2>3, <2>4
<1>14. CASE IsOpen(f, s)
  <2>1. /\ c = None /\ p = None /\ t = <<>>
        /\ StreamOK(Tail(q), s, c, p, t, sent, whole)
        /\ StreamOK(Tail(q), s, s, None, t, sent, whole)
        /\ StreamOK(Tail(q), s, c, <<>>, t, sent, whole)
    <3>1. /\ q \in Seq(Frames) /\ c \in Sockets \cup {None} /\ p \in Entries
          /\ t \in Seq(Payloads) /\ sent \in Nat
          /\ StreamOK(q, s, c, p, t, sent, whole)
          /\ q # <<>> /\ IsOpen(Head(q), s)
      BY <1>2, <1>4, <1>11, <1>14
    <3> QED
      BY <3>1, StreamOpened
  <2>2. tIn'[s] = t
    <3>1. ~IsData(f, s)
      BY <1>14 DEF IsOpen, IsData
    <3> QED
      BY <3>1, GivenByOwn DEF q, t
  <2>3. f.id = i /\ f.pay.of = s /\ f.type = "OPEN"
    BY <1>8, <1>14 DEF IsOpen
  <2>4. CASE \E h \in Hosts : OpenRejected(k, h) \/ OpenForbidden(k, h)
    <3>1. cConn' = cConn /\ (pend' = pend \/ pend' = Removed(pend, k, i))
      BY <2>3, <2>4 DEF OpenRejected, OpenForbidden, q
    <3>2. cConn'[k][i] = c /\ pend'[k][i] = p
      BY <1>1, <2>1, <3>1 DEF Removed, c, p
    <3> QED
      BY <2>1, <2>2, <3>2
  <2>5. CASE \E h \in Hosts : OpenAddress(k, h)
    <3>1. Establish(k, i, s, <<>>)
      BY <2>3, <2>5 DEF OpenAddress, q
    <3>2. cConn'[k][i] = s /\ pend'[k][i] = None
      BY <1>1, <3>1 DEF Establish, Removed
    <3> QED
      BY <2>1, <2>2, <3>2
  <2>6. CASE \E h \in Hosts : OpenName(k, h)
    <3>1. cConn' = cConn /\ pend' = [pend EXCEPT ![k][i] = <<>>]
      BY <2>3, <2>6 DEF OpenName, q
    <3>2. cConn'[k][i] = c /\ pend'[k][i] = <<>>
      BY <1>1, <3>1 DEF c
    <3> QED
      BY <2>1, <2>2, <3>2
  <2>7. ~(DataConnected(k) \/ DataOverflow(k) \/ DataPending(k) \/ DataUnknown(k) \/ CloseFrame(k))
    BY <2>3 DEF DataConnected, DataOverflow, DataPending, DataUnknown, CloseFrame, q
  <2> QED
    BY <2>4, <2>5, <2>6, <2>7 DEF ClientHandles
<1>15. CASE IsData(f, s)
  <2>1. /\ c = s => p = None
        /\ StreamOK(Tail(q), s, None, None, t, sent, whole)
        /\ c = s => /\ StreamOK(Tail(q), s, s, None, Append(t, f.pay), sent, whole)
                    /\ StreamOK(Tail(q), s, None, None, Append(t, f.pay), sent, whole)
        /\ p # None => StreamOK(Tail(q), s, c, Append(p, f.pay), t, sent, whole)
    BY <1>2, <1>4, <1>11, <1>15, StreamChunk, Zenon
  <2>2. f.id = i /\ f.type = "DATA"
    BY <1>8, <1>15 DEF IsData
  <2>3. CASE DataConnected(k)
    <3>1. /\ c # None
          /\ pend' = pend
          /\ \/ cConn' = Removed(cConn, k, i) /\ tIn' = tIn
             \/ cConn' = cConn /\ tIn' = [tIn EXCEPT ![c] = Append(@, f.pay)]
      BY <2>2, <2>3 DEF DataConnected, q, c
    <3>2. c = s /\ p = None
      BY <1>10, <2>1, <3>1
    <3>3. \/ cConn'[k][i] = None /\ tIn'[s] = t
          \/ cConn'[k][i] = s /\ tIn'[s] = Append(t, f.pay)
      BY <1>1, <3>1, <3>2 DEF Removed, c, t
    <3>4. pend'[k][i] = None
      BY <3>1, <3>2 DEF p
    <3> QED
      BY <2>1, <3>2, <3>3, <3>4
  <2>4. CASE DataOverflow(k)
    <3>1. /\ c \in Slow
          /\ pend' = pend
          /\ cConn' = Removed(cConn, k, i)
          /\ tIn' = [tIn EXCEPT ![c] = Append(@, f.pay)]
      BY <2>2, <2>4 DEF DataOverflow, q, c
    <3>2. c = s /\ p = None
      BY <1>10, <2>1, <3>1, TunnelAssumption
    <3>3. cConn'[k][i] = None /\ tIn'[s] = Append(t, f.pay)
      BY <1>1, <3>1, <3>2 DEF Removed, t
    <3>4. pend'[k][i] = None
      BY <3>1, <3>2 DEF p
    <3> QED
      BY <2>1, <3>2, <3>3, <3>4
  <2>5. CASE DataPending(k)
    <3>1. /\ c = None /\ p # None
          /\ UNCHANGED <<cConn, tIn>>
          /\ pend' = Removed(pend, k, i) \/ pend' = [pend EXCEPT ![k][i] = Append(p, f.pay)]
      BY <2>2, <2>5 DEF DataPending, q, c, p
    <3>2. /\ cConn'[k][i] = None /\ tIn'[s] = t
          /\ pend'[k][i] = None \/ pend'[k][i] = Append(p, f.pay)
      BY <1>1, <3>1 DEF Removed, c, t
    <3> QED
      BY <2>1, <3>1, <3>2
  <2>6. CASE DataUnknown(k)
    <3>1. c = None /\ p = None /\ UNCHANGED <<cConn, pend, tIn>>
      BY <2>2, <2>6 DEF DataUnknown, q, c, p
    <3>2. cConn'[k][i] = None /\ pend'[k][i] = None /\ tIn'[s] = t
      BY <3>1 DEF c, p, t
    <3> QED
      BY <2>1, <3>2
  <2>7. ~CloseFrame(k) /\ ~\E h \in Hosts : \/ OpenRejected(k, h) \/ OpenForbidden(k, h)
                                            \/ OpenAddress(k, h) \/ OpenName(k, h)
    BY <2>2 DEF OpenRejected, OpenForbidden, OpenAddress, OpenName, CloseFrame, q
  <2> QED
    BY <2>3, <2>4, <2>5, <2>6, <2>7 DEF ClientHandles
<1> QED
  BY <1>13, <1>14, <1>15

(* A step of the client.                                                   *)
LEMMA StreamByClient ==
  ASSUME TypeInv, Sourced, FreshIds, ClientNext, UNCHANGED srvVars,
         NEW s \in Sockets, NEW k \in Sessions, NEW i \in Ids, Holds(regId, regSess, s, k, i),
         StreamOK(down[k], s, cConn[k][i], pend[k][i], tIn[s], bSent[s], Whole(k))
  PROVE  StreamOK(down'[k], s, cConn'[k][i], pend'[k][i], tIn'[s], bSent'[s], Whole(k)')
<1> DEFINE q == down[k]
           c == cConn[k][i]
           p == pend[k][i]
           t == tIn[s]
           sent == bSent[s]
           whole == Whole(k)
           whole2 == Whole(k)'
           Goal == StreamOK(down'[k], s, cConn'[k][i], pend'[k][i], tIn'[s], sent, whole2)
           Untouched == down'[k] = q /\ cConn'[k][i] = c /\ pend'[k][i] = p /\ tIn'[s] = t
           Dropped == /\ down'[k] = q /\ tIn'[s] = t
                      /\ cConn'[k][i] \in {c, None} /\ pend'[k][i] \in {p, None}
                      /\ whole2 => whole
<1>1. /\ cConn \in [Sessions -> [Ids -> Sockets \cup {None}]]
      /\ pend \in [Sessions -> [Ids -> Seq(Payloads) \cup {None}]]
      /\ tIn \in [Sockets -> Seq(Payloads)]
      /\ tKey \in [Sockets -> [sess : Sessions, id : Ids] \cup {NoKey}]
      /\ bSent \in [Sockets -> Nat]
      /\ dns \subseteq Lookups
      /\ down \in Channels
      /\ cliWs \in [Sessions -> WsStates]
  BY DEF TypeInv, TypeOK, TunnelTypeOK, ConnectionManagerTypeOK, FrameProtocolTypeOK, Channels
<1>2. /\ q \in Seq(Frames) /\ c \in Sockets \cup {None} /\ p \in Entries
      /\ t \in Seq(Payloads) /\ sent \in Nat
  BY <1>1 DEF Entries, Channels
<1>3. whole \in BOOLEAN /\ whole2 \in BOOLEAN
  BY DEF Whole
<1>4. StreamOK(q, s, c, p, t, sent, whole)
  OBVIOUS
<1>5. i # 0
  BY DEF Ids
<1> SUFFICES Goal
  BY DEF srvVars
<1>6. /\ srvWs' = srvWs
      /\ cliWs' = cliWs => whole2 = whole
  BY ServerEndAlone DEF Whole
<1>7. ASSUME Dropped
      PROVE  Goal
  <2>1. cConn'[k][i] \in {c, None} /\ pend'[k][i] \in {p, None} /\ (whole2 => whole)
    BY <1>7
  <2> HIDE DEF q, c, p, t, sent, whole, whole2
  <2>2. StreamOK(q, s, cConn'[k][i], pend'[k][i], t, sent, whole2)
    BY <1>2, <1>3, <1>4, <2>1, StreamDropped
  <2> QED
    BY <1>7, <2>2
<1>8. CASE ClientHandles(k)
  <2>1. Delivered(k)
    BY <1>8 DEF ClientHandles, OpenRejected, OpenForbidden, OpenAddress, OpenName,
       DataConnected, DataOverflow, DataPending, DataUnknown, CloseFrame
  <2>2. down'[k] = Tail(down[k]) /\ cliWs' = cliWs
    BY <1>1, <2>1 DEF Delivered, Channels
  <2>3. StreamOK(Tail(down[k]), s, cConn'[k][i], pend'[k][i], tIn'[s], bSent[s], Whole(k))
    BY <1>3, <1>8, StreamByFrame
  <2> QED
    BY <1>6, <2>2, <2>3
<1>9. ASSUME NEW j \in Sessions, j # k, ClientHandles(j)
      PROVE  Dropped
  <2>1. Delivered(j)
    BY <1>9 DEF ClientHandles, OpenRejected, OpenForbidden, OpenAddress, OpenName,
       DataConnected, DataOverflow, DataPending, DataUnknown, CloseFrame
  <2>2. down'[k] = q /\ cliWs' = cliWs /\ down[j] \in Seq(Frames) /\ down[j] # <<>>
    BY <1>1, <1>9, <2>1 DEF Delivered, Channels
  <2>3. cConn'[k][i] = c /\ pend'[k][i] = p
    BY <1>9, OthersUntouched
  <2>4. ~IsData(Head(down[j]), s)
    <3>1. Head(down[j]) = down[j][1] /\ 1 \in 1 .. Len(down[j])
      BY <2>2
    <3>2. Head(down[j]).type = "DATA" =>
            Holds(regId, regSess, Head(down[j]).pay.of, j, Head(down[j]).id)
      BY <3>1, Zenon DEF Sourced, DownSourced, DownFrom
    <3> QED
      BY <1>9, <3>2 DEF IsData, Holds
  <2>5. tIn'[s] = t
    BY <1>9, <2>4, GivenByOwn
  <2> QED
    BY <1>6, <2>2, <2>3, <2>5
<1>10. ASSUME NEW j \in Sessions, ClientShuts(j)
       PROVE  Dropped
  <2>1. UNCHANGED <<cConn, pend, tIn, down>> /\ cliWs' = Shut(cliWs, j)
    BY <1>10 DEF ClientShuts, cliVars
  <2>2. cliWs'[k] # "closed" => cliWs[k] # "closed"
    BY <1>1, <2>1 DEF Shut
  <2> QED
    BY <1>6, <2>1, <2>2 DEF Whole
<1>11. CASE ClientWsClosed(k)
  <2>1. /\ cConn' = [cConn EXCEPT ![k] = [n \in Ids |-> None]]
        /\ cliWs' = [cliWs EXCEPT ![k] = "closed"]
        /\ down' = [down EXCEPT ![k] = <<>>]
        /\ UNCHANGED <<pend, tIn>>
    BY <1>11 DEF ClientWsClosed, CloseAllTargets
  <2>2. down'[k] = <<>> /\ cConn'[k][i] = None /\ pend'[k][i] = p /\ tIn'[s] = t
    BY <1>1, <2>1 DEF Channels
  <2>3. whole2 = FALSE
    BY <1>1, <2>1 DEF Whole
  <2> HIDE DEF q, c, p, t, sent, whole, whole2
  <2>4. StreamOK(<<>>, s, None, p, t, sent, FALSE)
    BY <1>2, <1>3, <1>4, StreamCleared, Zenon
  <2> QED
    BY <2>2, <2>3, <2>4
<1>12. ASSUME NEW j \in Sessions, j # k, ClientWsClosed(j)
       PROVE  Dropped
  <2>1. /\ cConn' = [cConn EXCEPT ![j] = [n \in Ids |-> None]]
        /\ cliWs' = [cliWs EXCEPT ![j] = "closed"]
        /\ down' = [down EXCEPT ![j] = <<>>]
        /\ UNCHANGED <<pend, tIn>>
    BY <1>12 DEF ClientWsClosed, CloseAllTargets
  <2>2. down'[k] = q /\ cConn'[k] = cConn[k] /\ pend'[k][i] = p /\ tIn'[s] = t
    BY <1>1, <1>12, <2>1 DEF Channels
  <2>3. cliWs'[k] = cliWs[k]
    BY <1>1, <1>12, <2>1
  <2> QED
    BY <1>6, <2>2, <2>3 DEF Whole
<1>13. ASSUME NEW d \in dns, LookupStale(d)
       PROVE  Dropped
  <2>1. UNCHANGED <<cConn, pend, tIn, cliWs, down>>
    BY <1>13 DEF LookupStale, tunnelVars
  <2> QED
    BY <1>6, <2>1
<1>14. ASSUME NEW d \in dns, LookupFails(d)
       PROVE  Dropped
  <2>1. UNCHANGED <<cConn, tIn, cliWs, down>> /\ pend' = Removed(pend, d.sess, d.id)
    BY <1>14 DEF LookupFails
  <2>2. pend'[k][i] \in {p, None}
    BY <1>1, <2>1 DEF Removed, Lookups
  <2> QED
    BY <1>6, <2>1, <2>2
<1>15. ASSUME NEW d \in dns, LookupSucceeds(d)
       PROVE  Goal
  <2>1. /\ Establish(d.sess, d.id, d.of, pend[d.sess][d.id])
        /\ UNCHANGED <<cliWs, down>>
        /\ pend[d.sess][d.id] # None
    BY <1>15 DEF LookupSucceeds, tunnelVars
  <2>2. d.of \in Sockets /\ d.sess \in Sessions /\ d.id \in Ids
    BY <1>1, <1>15 DEF Lookups
  <2>3. Holds(regId, regSess, d.of, d.sess, d.id)
    BY <1>15 DEF Sourced, LookupsSourced
  <2>4. CASE d.of = s
    <3>1. d.sess = k /\ d.id = i
      BY <2>3, <2>4 DEF Holds
    <3>2. Establish(k, i, s, p) /\ p # None
      BY <2>1, <2>4, <3>1
    <3>3. cConn'[k][i] = s /\ pend'[k][i] = None /\ tIn'[s] = t \o p
      BY <1>1, <3>2 DEF Establish, Removed
    <3> HIDE DEF q, c, p, t, sent, whole, whole2
    <3>4. StreamOK(q, s, s, None, t \o p, sent, whole)
      BY <1>2, <1>3, <1>4, <3>2, StreamResolved, Zenon
    <3> QED
      BY <1>6, <2>1, <3>3, <3>4 DEF q
  <2>5. CASE d.of # s
    <3>1. d.id # i
      BY <1>5, <2>2, <2>3, <2>5 DEF Holds, FreshIds
    <3>2. cConn'[k][i] = c /\ pend'[k][i] = p /\ tIn'[s] = t
      BY <1>1, <2>1, <2>2, <2>5, <3>1 DEF Establish, Removed
    <3> QED
      BY <1>6, <1>7, <2>1, <3>2
  <2> QED
    BY <2>4, <2>5
<1>16. ASSUME NEW u \in Sockets, TargetConnects(u) \/ TargetSends(u)
       PROVE  Dropped
  <2>1. UNCHANGED <<cConn, pend, tIn, cliWs, down>>
    BY <1>16 DEF TargetConnects, TargetSends
  <2> QED
    BY <1>6, <2>1
<1>17. ASSUME NEW u \in Sockets, TargetEnds(u) \/ TargetFails(u) \/ TargetClosed(u)
       PROVE  Dropped
  <2>1. UNCHANGED <<pend, tIn, cliWs, down>> /\ TargetCleanup(u)
    BY <1>17 DEF TargetEnds, TargetFails, TargetClosed
  <2>2. cConn' = cConn \/ cConn' = Removed(cConn, tKey[u].sess, tKey[u].id)
    BY <2>1 DEF TargetCleanup
  <2>3. ASSUME NEW a, NEW b, cConn' = Removed(cConn, a, b)
        PROVE  cConn'[k][i] \in {c, None}
    <3>1. CASE a = k
      <4>1. cConn'[k] = [cConn[k] EXCEPT ![b] = None]
        BY <1>1, <2>3, <3>1 DEF Removed
      <4> QED
        BY <1>1, <4>1
    <3>2. CASE a # k
      BY <1>1, <2>3, <3>2 DEF Removed
    <3> QED
      BY <3>1, <3>2
  <2>4. cConn'[k][i] \in {c, None}
    BY <2>2, <2>3
  <2> QED
    BY <1>6, <2>1, <2>4
<1> HIDE DEF Goal, Dropped
<1> QED
  BY <1>7, <1>8, <1>9, <1>10, <1>11, <1>12, <1>13, <1>14, <1>15, <1>16, <1>17
     DEF ClientNext, Resolves

(* A step of the server, for a stream that has begun.                      *)
LEMMA StreamByServer ==
  ASSUME TypeInv, RegisteredInSession, LiveInMap, Sourced, ServerNext, UNCHANGED cliVars,
         NEW s \in Sockets, NEW k \in Sessions, NEW i \in Ids, Holds(regId, regSess, s, k, i),
         StreamOK(down[k], s, cConn[k][i], pend[k][i], tIn[s], bSent[s], Whole(k))
  PROVE  StreamOK(down'[k], s, cConn'[k][i], pend'[k][i], tIn'[s], bSent'[s], Whole(k)')
<1> DEFINE q == down[k]
           c == cConn[k][i]
           p == pend[k][i]
           t == tIn[s]
           sent == bSent[s]
           whole == Whole(k)
           whole2 == Whole(k)'
           Goal == StreamOK(down'[k], s, cConn'[k][i], pend'[k][i], tIn'[s], bSent'[s], whole2)
<1>1. /\ cConn \in [Sessions -> [Ids -> Sockets \cup {None}]]
      /\ pend \in [Sessions -> [Ids -> Seq(Payloads) \cup {None}]]
      /\ tIn \in [Sockets -> Seq(Payloads)]
      /\ bSent \in [Sockets -> Nat]
      /\ regId \in [Sockets -> 0 .. IdLimit]
      /\ nextId \in Ids
      /\ down \in Channels
  BY DEF TypeInv, TypeOK, TunnelTypeOK, ConnectionManagerTypeOK, FrameProtocolTypeOK, Channels
<1>2. /\ q \in Seq(Frames) /\ c \in Sockets \cup {None} /\ p \in Entries
      /\ t \in Seq(Payloads) /\ sent \in Nat
  BY <1>1 DEF Entries, Channels
<1>3. whole \in BOOLEAN /\ whole2 \in BOOLEAN
  BY DEF Whole
<1>4. StreamOK(q, s, c, p, t, sent, whole)
  OBVIOUS
<1>5. i # 0 /\ regId[s] = i /\ regSess[s] = k
  BY DEF Ids, Holds
<1> SUFFICES Goal
  OBVIOUS
<1>6. cConn'[k][i] = c /\ pend'[k][i] = p /\ tIn'[s] = t
  BY DEF cliVars
<1>7. whole2 => whole
  <2>1. cliWs[k] # "none"
    BY <1>5 DEF Sourced, SessionsBegun
  <2>2. [Next]_vars
    BY DEF Next
  <2> QED
    BY <2>1, <2>2, ServerEndKept, ClientEndKept DEF Whole
<1>8. CASE BrowserSend(s)
  <2> DEFINE f == Data(i, Up(s, sent + 1))
  <2>1. /\ SendFrames(<<f>>)
        /\ bSent'[s] = sent + 1
        /\ UNCHANGED <<srvWs, cliWs>>
    BY <1>1, <1>5, <1>8 DEF BrowserSend
  <2>2. conns[i] = s
    BY <1>5, <1>8 DEF BrowserSend, LiveInMap
  <2>3. activeWs = k /\ activeWs # 0
    BY <1>5, <2>2, TunnelAssumption DEF RegisteredInSession
  <2>4. f \in Frames /\ IsData(f, s) /\ f.pay = Up(s, sent + 1)
    <3>1. f \in Frames
      BY <1>2, FrameTypes, PayloadTypes
    <3> QED
      BY <3>1 DEF Data, Frame, Up, Payload, IsData
  <2>5. down'[k] = IF whole THEN Append(q, f) ELSE q
    <3>1. whole => down' = [down EXCEPT ![k] = @ \o <<f>>]
      BY <2>1, <2>3 DEF SendFrames, IsReady, Put, Whole
    <3>2. ~whole => down' = down
      BY <2>1, <2>3 DEF SendFrames, IsReady, Put, Whole
    <3>3. q \o <<f>> = Append(q, f)
      BY <1>2, <2>4
    <3> HIDE DEF f, whole
    <3> QED
      BY <1>1, <3>1, <3>2, <3>3 DEF Channels
  <2>6. whole2 = whole
    BY <2>1 DEF Whole
  <2> HIDE DEF q, c, p, t, sent, whole, whole2, f
  <2>7. /\ whole => StreamOK(Append(q, f), s, c, p, t, sent + 1, whole)
        /\ ~whole => StreamOK(q, s, c, p, t, sent + 1, whole)
    BY <1>2, <1>3, <1>4, <2>4, StreamSent, Zenon
  <2> QED
    BY <1>3, <1>6, <2>1, <2>5, <2>6, <2>7
<1>9. CASE ~BrowserSend(s)
  <2>1. ~\E m \in Methods, extra \in BOOLEAN : Request(s, m, extra)
    BY <1>5 DEF Request, LiveInMap
  <2>2. bSent'[s] = sent
    <3>1. ASSUME NEW u \in Sockets, NEW m \in Methods, NEW extra \in BOOLEAN,
                 Request(u, m, extra)
          PROVE  bSent'[s] = sent
      <4>1. u # s /\ \E b : bSent' = [bSent EXCEPT ![u] = b]
        BY <2>1, <3>1, Zenon DEF Request
      <4> QED
        BY <1>1, <4>1
    <3>2. ASSUME NEW u \in Sockets, BrowserSend(u)
          PROVE  bSent'[s] = sent
      BY <1>1, <1>9, <3>2 DEF BrowserSend
    <3>3. ASSUME NEW u \in Sockets,
                 \/ \E m \in Methods : Refuse(u, m)
                 \/ BrowserEnd(u) \/ BrowserAbort(u)
                 \/ EndingDestroyed(u) \/ BrowserClosed(u) \/ BrowserRead(u)
          PROVE  bSent' = bSent
      BY <3>3 DEF Refuse, BrowserEnd, BrowserAbort, EndingDestroyed, BrowserClosed, BrowserRead
    <3>4. ASSUME NEW j \in Sessions, ServerHandles(j)
          PROVE  bSent' = bSent
      BY <3>4 DEF ServerHandles, FrameUnknown, FrameData, FrameClose, FrameOpenAck, Arrives
    <3>5. ASSUME NEW j \in Sessions, Connection(j) \/ ServerShuts(j) \/ ServerWsClosed(j)
          PROVE  bSent' = bSent
      BY <3>5 DEF Connection, ServerShuts, ServerWsClosed, srvVars
    <3> QED
      BY <3>1, <3>2, <3>3, <3>4, <3>5 DEF ServerNext
  <2>3. ASSUME NEW fs, ServerPuts(k, fs)
        PROVE  fs \in Seq(Frames) /\ \A n \in 1 .. Len(fs) : ~IsOpen(fs[n], s) /\ ~IsData(fs[n], s)
    <3>1. CASE \E j \in Ids : fs = <<Close(j)>>
      <4>1. PICK j \in Ids : fs = <<Close(j)>>
        BY <3>1
      <4>2. Close(j) \in Frames /\ Close(j).type = "CLOSE"
        BY FrameTypes DEF Close, Frame
      <4> QED
        BY <4>1, <4>2 DEF IsOpen, IsData
    <3>2. CASE \E u \in Sockets : /\ BrowserSend(u)
                                  /\ fs = <<Data(regId[u], Up(u, bSent[u] + 1))>>
      <4>1. PICK u \in Sockets : /\ BrowserSend(u)
                                 /\ fs = <<Data(regId[u], Up(u, bSent[u] + 1))>>
        BY <3>2
      <4>2. u # s /\ regId[u] \in Ids /\ bSent[u] + 1 \in Nat
        <5>1. u # s
          BY <1>9, <4>1
        <5>2. regId[u] # 0
          BY <4>1 DEF BrowserSend
        <5> QED
          BY <1>1, <5>1, <5>2 DEF Ids
      <4>3. Data(regId[u], Up(u, bSent[u] + 1)) \in Frames
        BY <4>2, FrameTypes, PayloadTypes
      <4>4. Data(regId[u], Up(u, bSent[u] + 1)).pay.of = u
        BY DEF Data, Frame, Up, Payload
      <4> QED
        BY <4>1, <4>2, <4>3, <4>4 DEF IsOpen, IsData
    <3>3. CASE \E u \in Sockets, m \in Methods, extra \in BOOLEAN :
                 Request(u, m, extra) /\ fs = RequestFrames(u, m, extra)
      <4>1. PICK u \in Sockets, m \in Methods, extra \in BOOLEAN :
                   Request(u, m, extra) /\ fs = RequestFrames(u, m, extra)
        BY <3>3
      <4> DEFINE j == Candidate(FirstFree)
      <4>2. u # s
        BY <2>1, <4>1
      <4>3. FreeAttempts # {}
        BY <4>1 DEF Request
      <4>4. j \in Ids
        BY <1>1, <4>3, FirstFreeExists, CandidateType, FrameProtocolAssumption DEF FreeAttempts
      <4>5. fs = <<Open(j, u)>> \/ fs = <<Open(j, u), Data(j, Up(u, 1))>>
        BY <4>1 DEF RequestFrames
      <4> HIDE DEF j
      <4>6. /\ Open(j, u) \in Frames /\ Open(j, u).pay.of = u
            /\ Data(j, Up(u, 1)) \in Frames /\ Data(j, Up(u, 1)).pay.of = u
        BY <4>4, FrameTypes, PayloadTypes DEF Open, Data, Frame, Up, Target, Payload
      <4>7. CASE fs = <<Open(j, u)>>
        BY <4>2, <4>6, <4>7 DEF IsOpen, IsData
      <4>8. CASE fs = <<Open(j, u), Data(j, Up(u, 1))>>
        <5>1. Len(fs) = 2 /\ fs[1] = Open(j, u) /\ fs[2] = Data(j, Up(u, 1))
          BY <4>8
        <5>2. fs \in Seq(Frames)
          BY <4>6, <4>8
        <5> QED
          BY <4>2, <4>6, <5>1, <5>2 DEF IsOpen, IsData
      <4> QED
        BY <4>5, <4>7, <4>8
    <3> QED
      BY <2>3, <3>1, <3>2, <3>3 DEF ServerPuts
  <2>4. \/ down'[k] = q
        \/ \E fs \in Seq(Frames) : /\ \A n \in 1 .. Len(fs) : ~IsOpen(fs[n], s) /\ ~IsData(fs[n], s)
                                   /\ down'[k] = q \o fs
    BY <2>3, DownByServer
  <2> HIDE DEF q, c, p, t, sent, whole, whole2
  <2>5. down'[k] \in Seq(Frames) /\ StreamOK(down'[k], s, c, p, t, sent, whole)
    <3>1. ASSUME NEW fs \in Seq(Frames),
                 \A n \in 1 .. Len(fs) : ~IsOpen(fs[n], s) /\ ~IsData(fs[n], s),
                 down'[k] = q \o fs
          PROVE  down'[k] \in Seq(Frames) /\ StreamOK(down'[k], s, c, p, t, sent, whole)
      <4>1. StreamOK(q \o fs, s, c, p, t, sent, whole)
        BY <1>2, <1>3, <1>4, <3>1, StreamGrown, Zenon
      <4>2. q \o fs \in Seq(Frames)
        BY <1>2
      <4> QED
        BY <3>1, <4>1, <4>2
    <3> QED
      BY <1>2, <1>4, <2>4, <3>1
  <2>6. StreamOK(down'[k], s, c, p, t, sent, whole2)
    BY <1>2, <1>3, <1>7, <2>5, StreamDropped, Zenon
  <2> QED
    BY <1>6, <2>2, <2>6
<1> QED
  BY <1>8, <1>9

(* A request is registered and its OPEN put on the channel.                *)
LEMMA StreamBegins ==
  ASSUME NEW q \in Seq(Frames), NEW s \in Sockets,
         \A n \in 1 .. Len(q) : ~IsOpen(q[n], s) /\ ~IsData(q[n], s),
         NEW f \in Frames, IsOpen(f, s)
  PROVE  /\ \A sent \in Nat : StreamOK(q, s, None, None, <<>>, sent, FALSE)
         /\ StreamOK(Append(q, f), s, None, None, <<>>, 0, TRUE)
<1> DEFINE z == Append(q, f)
<1>1. /\ Len(q) \in Nat /\ Len(z) = Len(q) + 1
      /\ \A n \in 1 .. Len(q) : z[n] = q[n]
      /\ z[Len(q) + 1] = f
      /\ \A n \in 1 .. Len(z) : n \in 1 .. Len(q) \/ n = Len(q) + 1
  OBVIOUS
<1>2. s # None
  BY TunnelAssumption
<1>3. ~OpenIn(q, s) /\ OpenFirst(q, s)
  BY DEF OpenIn, OpenFirst
<1>4. Held(None, <<>>) = <<>> /\ \A sent \in Nat : InOrder(<<>>, s, sent)
  BY DEF Held, InOrder
<1>5. \A sent \in Nat : StreamOK(q, s, None, None, <<>>, sent, FALSE)
  BY <1>2, <1>3, <1>4 DEF StreamOK, Flows
<1> HIDE DEF z
<1>6. \A n \in 1 .. Len(z) : ~IsData(z[n], s)
  BY <1>1 DEF IsOpen, IsData
<1>7. \A n \in 1 .. Len(z) : IsOpen(z[n], s) => n = Len(q) + 1
  BY <1>1
<1>8. OpenFirst(z, s)
  BY <1>6, <1>7 DEF OpenFirst
<1>9. Numbered(z, s, "up", 0, 0) /\ Increasing(z, s) /\ LastThere(z, s, 0, 0)
  BY <1>6 DEF Numbered, Increasing, LastThere
<1>10. StreamOK(z, s, None, None, <<>>, 0, TRUE)
  BY <1>4, <1>8, <1>9 DEF StreamOK
<1> QED
  BY <1>5, <1>10 DEF z

(* The id of a request is new: nothing of an earlier stream is left under  *)
(* it, and no frame of this one has been sent.                             *)
LEMMA StreamByRequest ==
  ASSUME TypeInv, LiveInMap, Sourced, FreshIds', UNCHANGED cliVars,
         NEW s \in Sockets, tIn[s] = <<>>,
         NEW m \in Methods, NEW extra \in BOOLEAN, Request(s, m, extra),
         NEW k \in Sessions, NEW i \in Ids, Holds(regId', regSess', s, k, i)
  PROVE  StreamOK(down'[k], s, cConn'[k][i], pend'[k][i], tIn'[s], bSent'[s], Whole(k)')
<1> DEFINE q == down[k]
           f == Data(i, Up(s, 1))
           first == m = "http" \/ (m = "connect" /\ extra)
<1>1. /\ cConn \in [Sessions -> [Ids -> Sockets \cup {None}]]
      /\ regId \in [Sockets -> 0 .. IdLimit]
      /\ regSess \in [Sockets -> 0 .. NumSessions]
      /\ activeWs \in 0 .. NumSessions
      /\ bSent \in [Sockets -> Nat]
      /\ nextId \in Ids
      /\ down \in Channels
  BY DEF TypeInv, TypeOK, TunnelTypeOK, ConnectionManagerTypeOK, FrameProtocolTypeOK, Channels
<1>2. /\ IsReady /\ bst[s] = "idle"
      /\ regId' = [regId EXCEPT ![s] = Candidate(FirstFree)]
      /\ regSess' = [regSess EXCEPT ![s] = activeWs]
      /\ bSent' = [bSent EXCEPT ![s] = IF first THEN 1 ELSE 0]
      /\ UNCHANGED <<srvWs, cliWs>>
  BY DEF Request
<1>3. /\ activeWs = k /\ Candidate(FirstFree) = i /\ i # 0
      /\ SendFrames(IF first THEN <<Open(i, s), f>> ELSE <<Open(i, s)>>)
  <2>1. activeWs = k /\ Candidate(FirstFree) = i /\ i # 0
    BY <1>1, <1>2 DEF Holds, Ids
  <2> QED
    BY <2>1 DEF Request
<1> HIDE DEF first
<1>4. regId'[s] = i /\ regSess'[s] = k /\ k # 0 /\ regId[s] = 0
  BY <1>1, <1>2, <1>3 DEF LiveInMap, Holds, Sessions
<1>5. \A u \in Sockets : regId[u] # i
  <2> SUFFICES ASSUME NEW u \in Sockets, regId[u] = i
               PROVE  FALSE
    OBVIOUS
  <2>1. u # s /\ regId'[u] = i
    BY <1>1, <1>2, <1>3, <1>4
  <2> QED
    BY <1>3, <1>4, <2>1 DEF FreshIds
<1>6. cConn[k][i] = None
  BY <1>1, <1>3, <1>4, <1>5 DEF Sourced, TargetsSourced, Holds
<1>7. pend[k][i] = None
  BY <1>3, <1>4, <1>5 DEF Sourced, PendingSourced, Holds
<1>8. q \in Seq(Frames)
  BY <1>1, <1>4 DEF Channels
<1>9. \A n \in 1 .. Len(q) : ~IsOpen(q[n], s) /\ ~IsData(q[n], s)
  <2> SUFFICES ASSUME NEW n \in 1 .. Len(q), q[n].type \in {"OPEN", "DATA"}, q[n].pay.of = s
               PROVE  FALSE
    BY DEF IsOpen, IsData
  <2>1. DownFrom(q, k, regId, regSess)
    BY <1>4 DEF Sourced, DownSourced
  <2>2. regId[s] = q[n].id
    BY <2>1 DEF DownFrom, Holds
  <2>3. q[n] \in Frames
    BY <1>8
  <2>4. q[n].id \in Ids
    BY <2>3 DEF Frames
  <2> QED
    BY <1>4, <2>2, <2>4 DEF Ids
<1>10. /\ Open(i, s) \in Frames /\ IsOpen(Open(i, s), s)
       /\ f \in Frames /\ IsData(f, s) /\ f.pay = Up(s, 1)
  <2>1. Open(i, s) \in Frames /\ f \in Frames
    BY <1>3, FrameTypes, PayloadTypes
  <2> QED
    BY <2>1 DEF Open, Data, Frame, Up, Target, Payload, IsOpen, IsData
<1>11. /\ \A sent \in Nat : StreamOK(q, s, None, None, <<>>, sent, FALSE)
       /\ StreamOK(Append(q, Open(i, s)), s, None, None, <<>>, 0, TRUE)
  BY <1>8, <1>9, <1>10, StreamBegins
<1>12. StreamOK(Append(Append(q, Open(i, s)), f), s, None, None, <<>>, 1, TRUE)
  <2> DEFINE z == Append(q, Open(i, s))
  <2>1. z \in Seq(Frames) /\ <<>> \in Seq(Payloads) /\ None \in Entries
    BY <1>8, <1>10 DEF Entries
  <2>2. f.pay = Up(s, 0 + 1)
    BY <1>10
  <2> HIDE DEF z, f
  <2>3. StreamOK(z, s, None, None, <<>>, 0, TRUE)
    BY <1>11 DEF z
  <2>4. StreamOK(Append(z, f), s, None, None, <<>>, 0 + 1, TRUE)
    BY <1>10, <2>1, <2>2, <2>3, StreamSent, Zenon
  <2>5. 0 + 1 = 1
    OBVIOUS
  <2> QED
    BY <2>4, <2>5, Zenon DEF z
<1>13. Whole(k)' <=> cliWs[k] # "closed"
  BY <1>2, <1>3 DEF Whole, IsReady
<1>14. bSent'[s] = IF first THEN 1 ELSE 0
  BY <1>1, <1>2
<1>15. cConn'[k][i] = None /\ pend'[k][i] = None /\ tIn'[s] = <<>>
  BY <1>6, <1>7 DEF cliVars
<1> DEFINE Goal == StreamOK(down'[k], s, None, None, <<>>, bSent'[s], Whole(k)')
<1>16. ASSUME cliWs[k] = "closed"
       PROVE  Goal
  <2>1. down'[k] = q
    BY <1>3, <1>16 DEF SendFrames, Put
  <2>2. bSent'[s] \in Nat /\ Whole(k)' = FALSE
    BY <1>13, <1>14, <1>16 DEF Whole
  <2> QED
    BY <1>11, <2>1, <2>2, Zenon
<1>17. ASSUME cliWs[k] # "closed"
       PROVE  Goal
  <2>1. Whole(k)' = TRUE
    BY <1>13, <1>17 DEF Whole
  <2>2. CASE first
    <3> bSent'[s] = 1
      BY <1>14, <2>2
    <3>1. down' = [down EXCEPT ![k] = @ \o <<Open(i, s), f>>]
      BY <1>2, <1>3, <1>17, <2>2 DEF SendFrames, Put
    <3>2. q \o <<Open(i, s), f>> = Append(Append(q, Open(i, s)), f)
      BY <1>8, <1>10
    <3>3. down'[k] = Append(Append(q, Open(i, s)), f)
      BY <1>1, <1>4, <3>1, <3>2 DEF Channels
    <3> QED
      BY <1>12, <2>1, <3>3, Zenon
  <2>3. CASE ~first
    <3> bSent'[s] = 0
      BY <1>14, <2>3
    <3>1. down' = [down EXCEPT ![k] = @ \o <<Open(i, s)>>]
      BY <1>2, <1>3, <1>17, <2>3 DEF SendFrames, Put
    <3>2. q \o <<Open(i, s)>> = Append(q, Open(i, s))
      BY <1>8, <1>10
    <3>3. down'[k] = Append(q, Open(i, s))
      BY <1>1, <1>4, <3>1, <3>2 DEF Channels
    <3> QED
      BY <1>11, <2>1, <3>3, Zenon
  <2> QED
    BY <2>2, <2>3
<1>18. Goal
  BY <1>16, <1>17
<1> QED
  BY <1>15, <1>18, Zenon

(* Before it is registered a socket has no target that is given anything.  *)
LEMMA NothingGivenBefore ==
  ASSUME TypeInv, Sourced, FreshIds, [Next]_vars, NEW s \in Sockets, regId[s] = 0
  PROVE  tIn'[s] = tIn[s]
<1>1. /\ tIn \in [Sockets -> Seq(Payloads)]
      /\ dns \subseteq Lookups
      /\ down \in Channels
  BY DEF TypeInv, TypeOK, TunnelTypeOK, ConnectionManagerTypeOK, Channels
<1>2. ASSUME NEW j \in Sessions, ClientHandles(j)
      PROVE  tIn'[s] = tIn[s]
  <2>1. Delivered(j)
    BY <1>2 DEF ClientHandles, OpenRejected, OpenForbidden, OpenAddress, OpenName,
       DataConnected, DataOverflow, DataPending, DataUnknown, CloseFrame
  <2>2. down[j] \in Seq(Frames) /\ down[j] # <<>>
    BY <1>1, <2>1 DEF Delivered, Channels
  <2>3. Head(down[j]) = down[j][1] /\ 1 \in 1 .. Len(down[j]) /\ Head(down[j]) \in Frames
    BY <2>2
  <2>4. Head(down[j]).id # 0
    BY <2>3 DEF Frames, Ids
  <2>5. Head(down[j]).type = "DATA" =>
          Holds(regId, regSess, Head(down[j]).pay.of, j, Head(down[j]).id)
    BY <2>3, Zenon DEF Sourced, DownSourced, DownFrom
  <2>6. ~IsData(Head(down[j]), s)
    BY <2>4, <2>5 DEF IsData, Holds
  <2> QED
    BY <1>2, <2>6, GivenByOwn
<1>3. ASSUME NEW d \in dns, Resolves(d)
      PROVE  tIn'[s] = tIn[s]
  <2>1. d \in Lookups
    BY <1>1
  <2>2. d.of # s
    BY <2>1 DEF Sourced, LookupsSourced, Holds, Lookups, Ids
  <2>3. tIn' = tIn \/ \E e : tIn' = [tIn EXCEPT ![d.of] = e]
    BY <1>3, Zenon DEF Resolves, LookupStale, LookupFails, LookupSucceeds, Establish
  <2> QED
    BY <1>1, <2>2, <2>3
<1>4. ASSUME NEW j \in Sessions, ClientShuts(j) \/ ClientWsClosed(j)
      PROVE  tIn' = tIn
  BY <1>4 DEF ClientShuts, ClientWsClosed, cliVars
<1>5. ASSUME NEW u \in Sockets,
             \/ TargetConnects(u) \/ TargetSends(u) \/ TargetEnds(u)
             \/ TargetFails(u) \/ TargetClosed(u)
      PROVE  tIn' = tIn
  BY <1>5 DEF TargetConnects, TargetSends, TargetEnds, TargetFails, TargetClosed
<1>6. CASE UNCHANGED cliVars
  BY <1>6 DEF cliVars
<1> QED
  BY <1>2, <1>3, <1>4, <1>5, <1>6 DEF Next, ClientNext, vars

(* A request is the server's: the client's variables stay.                 *)
LEMMA RequestIsServers ==
  ASSUME [Next]_vars, NEW s \in Sockets, regId'[s] # regId[s]
  PROVE  UNCHANGED cliVars
<1>1. CASE UNCHANGED srvVars
  BY <1>1 DEF srvVars
<1>2. CASE UNCHANGED vars
  BY <1>2 DEF vars
<1> QED
  BY <1>1, <1>2 DEF Next

(* Every step keeps every stream in order.                                 *)
LEMMA StreamsStep ==
  ASSUME TypeInv, RegisteredInSession, LiveInMap, Sourced, FreshIds, FreshIds',
         StreamsInOrder, [Next]_vars
  PROVE  StreamsInOrder'
<1>1. /\ regId \in [Sockets -> 0 .. IdLimit]
      /\ regSess \in [Sockets -> 0 .. NumSessions]
  BY DEF TypeInv, TypeOK, FrameProtocolTypeOK
<1>2. ASSUME NEW s \in Sockets, regId'[s] = 0
      PROVE  tIn'[s] = <<>>
  <2>1. regId[s] = 0
    BY <1>2, RegistrationKept
  <2>2. tIn[s] = <<>>
    BY <2>1 DEF StreamsInOrder
  <2> QED
    BY <2>1, <2>2, NothingGivenBefore
<1>3. ASSUME NEW s \in Sockets, NEW k \in Sessions, NEW i \in Ids, Holds(regId, regSess, s, k, i)
      PROVE  /\ Holds(regId', regSess', s, k, i)
             /\ StreamOK(down'[k], s, cConn'[k][i], pend'[k][i], tIn'[s], bSent'[s], Whole(k)')
  <2>1. regId[s] = i /\ regSess[s] = k /\ i # 0
    BY <1>3 DEF Holds, Ids
  <2>2. Holds(regId', regSess', s, k, i)
    BY <2>1, RegistrationKept DEF Holds
  <2>3. StreamOK(down[k], s, cConn[k][i], pend[k][i], tIn[s], bSent[s], Whole(k))
    BY <2>1, Zenon DEF StreamsInOrder
  <2>4. CASE ServerNext /\ UNCHANGED cliVars
    BY <1>3, <2>2, <2>3, <2>4, StreamByServer
  <2>5. CASE ClientNext /\ UNCHANGED srvVars
    BY <1>3, <2>2, <2>3, <2>5, StreamByClient DEF srvVars
  <2>6. CASE UNCHANGED vars
    BY <2>2, <2>3, <2>6, Zenon DEF vars, srvVars, cliVars, tunnelVars, Whole
  <2> QED
    BY <2>4, <2>5, <2>6 DEF Next
<1>4. ASSUME NEW s \in Sockets, regId[s] # 0
      PROVE  regSess[s] \in Sessions /\ regId[s] \in Ids
  BY <1>1, <1>4 DEF Sourced, SessionsBegun, Sessions, Ids
<1>5. ASSUME NEW s \in Sockets, NEW k \in Sessions, NEW i \in Ids, Holds(regId', regSess', s, k, i)
      PROVE  StreamOK(down'[k], s, cConn'[k][i], pend'[k][i], tIn'[s], bSent'[s], Whole(k)')
  <2>1. CASE regId[s] # 0
    <3>1. Holds(regId, regSess, s, k, i)
      BY <1>5, <2>1, RegistrationKept DEF Holds
    <3> QED
      BY <1>3, <3>1
  <2>2. CASE regId[s] = 0
    <3>1. regId'[s] # regId[s]
      BY <1>5, <2>2 DEF Holds, Ids
    <3>2. PICK u \in Sockets, m \in Methods, extra \in BOOLEAN : Request(u, m, extra)
      BY <3>1, RegisteredByRequest
    <3>3. regId' = [regId EXCEPT ![u] = Candidate(FirstFree)]
      BY <3>2 DEF Request
    <3>4. u = s
      BY <1>1, <1>5, <2>2, <3>3 DEF Holds, Ids
    <3>5. UNCHANGED cliVars
      BY <3>1, RequestIsServers
    <3>6. tIn[s] = <<>>
      BY <2>2 DEF StreamsInOrder
    <3> QED
      BY <1>5, <3>2, <3>4, <3>5, <3>6, StreamByRequest
  <2> QED
    BY <2>1, <2>2
<1>6. ASSUME NEW s \in Sockets, regId'[s] # 0
      PROVE  regSess'[s] \in Sessions /\ regId'[s] \in Ids
  <2>1. /\ regId' \in [Sockets -> 0 .. IdLimit]
        /\ regSess' \in [Sockets -> 0 .. NumSessions]
    BY TypeStep DEF TypeInv, TypeOK, FrameProtocolTypeOK
  <2>2. SessionsBegun'
    BY BegunStep DEF Sourced
  <2> QED
    BY <1>6, <2>1, <2>2 DEF SessionsBegun, Sessions, Ids
<1> QED
  BY <1>2, <1>5, <1>6, Zenon DEF StreamsInOrder, Holds, Whole

(* When the streams are in order, so is what each target was given.        *)
LEMMA GivenInOrder ==
  ASSUME TypeInv, StreamsInOrder
  PROVE  TargetStream
<1> SUFFICES ASSUME NEW s \in Sockets
             PROVE  InOrder(tIn[s], s, bSent[s])
  BY DEF TargetStream, InOrder
<1>1. bSent[s] \in Nat
  BY DEF TypeInv, TypeOK, FrameProtocolTypeOK
<1>2. InOrder(<<>>, s, bSent[s])
  BY <1>1 DEF InOrder
<1>3. CASE regId[s] = 0
  BY <1>2, <1>3 DEF StreamsInOrder
<1>4. CASE regId[s] # 0
  <2> DEFINE p == pend[regSess[s]][regId[s]]
  <2>1. InOrder(Held(p, tIn[s]), s, bSent[s]) /\ (p # None => tIn[s] = <<>>)
    BY <1>4 DEF StreamsInOrder, StreamOK
  <2> QED
    BY <1>2, <2>1 DEF Held
<1> QED
  BY <1>3, <1>4

(* The streams stay in order as long as ids are fresh.                     *)
LEMMA StreamsHold == Spec /\ []FreshIds => []StreamsInOrder
<1>1. Init => StreamsInOrder
  BY DEF Init, FrameProtocolInit, ConnectionManagerInit, StreamsInOrder
<1>2. /\ TypeInv /\ RegisteredInSession /\ LiveInMap /\ Sourced /\ FreshIds /\ FreshIds'
      /\ StreamsInOrder /\ [Next]_vars
      => StreamsInOrder'
  BY StreamsStep
<1> QED
  BY <1>1, <1>2, FreshApart, KeyedTypes, MapOfActiveSession, LiveHolds, SourcedHolds, PTL
     DEF Spec

(* A target is given what its own browser sent, in order and without gaps, *)
(* the chunks that were queued while its name was looked up included.      *)
THEOREM TargetsGivenOwnStream == Spec /\ []FreshIds => []TargetStream
<1>1. TypeInv /\ StreamsInOrder => TargetStream
  BY GivenInOrder
<1> QED
  BY <1>1, KeyedTypes, StreamsHold, PTL

-----------------------------------------------------------------------------
(* Ids are not given out twice before nextConnectionId has come round.     *)

(* There are no more browser connections than ids from the first one up to *)
(* the limit: 4000000000 of them, unless DEBUG_START_ID says otherwise.    *)
EnoughIds ==
  /\ IsFiniteSet(Sockets)
  /\ StartId + Cardinality(Sockets) <= IdLimit + 1

Issued == {s \in Sockets : regId[s] # 0}

(* While some socket has no id, nextConnectionId has only counted up, past *)
(* every id given out.                                                     *)
Climbing ==
  /\ \A s \in Sockets : bst[s] = "idle" => regId[s] = 0
  /\ FreshIds
  /\ \A s \in Sockets : regId[s] < StartId + Cardinality(Issued)
  /\ Issued # Sockets => nextId = StartId + Cardinality(Issued)

(* A socket without a request never had one.                               *)
LEMMA IdleBefore ==
  ASSUME TypeInv, [Next]_vars
  PROVE  \A s \in Sockets : bst'[s] = "idle" => bst[s] = "idle"
<1>1. bst \in [Sockets -> BStates]
  BY DEF TypeInv, TypeOK, FrameProtocolTypeOK
<1>2. ASSUME NEW I, Evict(I)
      PROVE  \A s \in Sockets : bst'[s] = "idle" => bst[s] = "idle"
  BY <1>1, <1>2 DEF Evict, Destroy
<1>3. ASSUME NEW u \in Sockets, NEW st, st # "idle", bst' = [bst EXCEPT ![u] = st]
      PROVE  \A s \in Sockets : bst'[s] = "idle" => bst[s] = "idle"
  BY <1>1, <1>3
<1>4. ASSUME NEW k \in Sessions, ServerHandles(k)
      PROVE  \A s \in Sockets : bst'[s] = "idle" => bst[s] = "idle"
  <2>1. CASE FrameUnknown(k) \/ FrameOpenAck(k)
    BY <2>1 DEF FrameUnknown, FrameOpenAck
  <2>2. CASE FrameClose(k)
    BY <1>2, <2>2 DEF FrameClose
  <2>3. CASE FrameData(k)
    BY <1>1, <2>3 DEF FrameData
  <2> QED
    BY <1>4, <2>1, <2>2, <2>3 DEF ServerHandles
<1>5. ASSUME NEW k \in Sessions, Connection(k) \/ ServerWsClosed(k)
      PROVE  \A s \in Sockets : bst'[s] = "idle" => bst[s] = "idle"
  <2>1. \E I : Evict(I)
    BY <1>5, Zenon DEF Connection, ServerWsClosed, TunnelClose
  <2> QED
    BY <1>2, <2>1
<1>6. ASSUME NEW u \in Sockets,
             \/ \E m \in Methods : (\E extra \in BOOLEAN : Request(u, m, extra)) \/ Refuse(u, m)
             \/ BrowserEnd(u) \/ BrowserAbort(u) \/ EndingDestroyed(u) \/ BrowserClosed(u)
      PROVE  \A s \in Sockets : bst'[s] = "idle" => bst[s] = "idle"
  <2>1. \E st : st # "idle" /\ bst' = [bst EXCEPT ![u] = st]
    <3>1. \E st \in BStates \ {"idle"} : bst' = [bst EXCEPT ![u] = st]
      BY <1>6 DEF Request, Refuse, BrowserEnd, BrowserAbort, EndingDestroyed, BrowserClosed, BStates
    <3> QED
      BY <3>1
  <2> QED
    BY <1>3, <2>1
<1>7. ASSUME NEW u \in Sockets, BrowserSend(u) \/ BrowserRead(u)
      PROVE  bst' = bst
  BY <1>7 DEF BrowserSend, BrowserRead
<1>8. ASSUME NEW k \in Sessions, ServerShuts(k)
      PROVE  bst' = bst
  BY <1>8 DEF ServerShuts, srvVars
<1>9. CASE UNCHANGED srvVars
  BY <1>9 DEF srvVars
<1> QED
  BY <1>4, <1>5, <1>6, <1>7, <1>8, <1>9 DEF Next, ServerNext, vars

(* Requests, taken or refused, are what moves nextConnectionId.            *)
LEMMA IdsByRequest ==
  ASSUME [Next]_vars
  PROVE  \/ UNCHANGED <<regId, nextId>>
         \/ \E s \in Sockets, m \in Methods :
              Refuse(s, m) \/ \E extra \in BOOLEAN : Request(s, m, extra)
<1>1. ASSUME NEW k \in Sessions, ServerHandles(k)
      PROVE  UNCHANGED <<regId, nextId>>
  BY <1>1 DEF ServerHandles, FrameUnknown, FrameData, FrameClose, FrameOpenAck, Arrives
<1>2. ASSUME NEW k \in Sessions, Connection(k) \/ ServerShuts(k) \/ ServerWsClosed(k)
      PROVE  UNCHANGED <<regId, nextId>>
  BY <1>2 DEF Connection, ServerShuts, ServerWsClosed, srvVars
<1>3. ASSUME NEW s \in Sockets,
             \/ BrowserSend(s) \/ BrowserEnd(s) \/ BrowserAbort(s)
             \/ EndingDestroyed(s) \/ BrowserClosed(s) \/ BrowserRead(s)
      PROVE  UNCHANGED <<regId, nextId>>
  BY <1>3 DEF BrowserSend, BrowserEnd, BrowserAbort, EndingDestroyed, BrowserClosed, BrowserRead
<1>4. CASE UNCHANGED srvVars
  BY <1>4 DEF srvVars
<1> QED
  BY <1>1, <1>2, <1>3, <1>4 DEF Next, ServerNext, vars

(* While an id is left the first candidate is free.                        *)
LEMMA FirstCandidate ==
  ASSUME TypeInv, RegisteredInSession, Climbing, EnoughIds, Issued # Sockets
  PROVE  /\ FreeAttempts # {} /\ FirstFree = 1
         /\ Candidate(1) = nextId
         /\ Cardinality(Issued) \in Nat /\ Cardinality(Issued) < Cardinality(Sockets)
         /\ Cardinality(Sockets) \in Nat
         /\ nextId < IdLimit => Candidate(2) = nextId + 1
<1>1. /\ IdLimit \in Nat \ {0} /\ StartId \in Nat \ {0} /\ MaxAttempts \in Nat \ {0}
      /\ nextId \in 1 .. IdLimit
      /\ conns \in [Ids -> Sockets \cup {None}]
  BY TunnelAssumption, FrameProtocolAssumption DEF TypeInv, TypeOK, FrameProtocolTypeOK, Ids
<1>2. /\ Cardinality(Issued) \in Nat /\ Cardinality(Sockets) \in Nat
      /\ Cardinality(Issued) < Cardinality(Sockets)
  <2>1. Issued \in SUBSET Sockets
    BY DEF Issued
  <2>2. /\ IsFiniteSet(Issued) /\ Cardinality(Issued) <= Cardinality(Sockets)
        /\ Cardinality(Issued) # Cardinality(Sockets)
    BY <2>1, FS_Subset DEF EnoughIds
  <2>3. Cardinality(Issued) \in Nat /\ Cardinality(Sockets) \in Nat
    BY <2>2, FS_CardinalityType DEF EnoughIds
  <2> QED
    BY <2>2, <2>3
<1>3. \A x \in 0 .. IdLimit - 1 : x % IdLimit = x
  BY <1>1
<1>4. Candidate(1) = nextId
  <2>1. nextId - 1 \in 0 .. IdLimit - 1 /\ nextId - 1 + (1 - 1) = nextId - 1
    BY <1>1
  <2>2. (nextId - 1 + (1 - 1)) % IdLimit = nextId - 1
    BY <1>3, <2>1
  <2> QED
    BY <1>1, <2>2 DEF Candidate
<1>5. nextId < IdLimit => Candidate(2) = nextId + 1
  <2> SUFFICES ASSUME nextId < IdLimit
               PROVE  Candidate(2) = nextId + 1
    OBVIOUS
  <2>1. nextId \in 0 .. IdLimit - 1 /\ nextId - 1 + (2 - 1) = nextId
    BY <1>1
  <2>2. (nextId - 1 + (2 - 1)) % IdLimit = nextId
    BY <1>3, <2>1
  <2> QED
    BY <2>2 DEF Candidate
<1>6. conns[nextId] = None
  <2> SUFFICES ASSUME conns[nextId] # None
               PROVE  FALSE
    OBVIOUS
  <2>1. conns[nextId] \in Sockets /\ regId[conns[nextId]] = nextId
    BY <1>1 DEF RegisteredInSession, Ids
  <2>2. regId[conns[nextId]] < nextId
    BY <2>1 DEF Climbing
  <2> QED
    BY <1>1, <2>1, <2>2
<1>7. 1 \in FreeAttempts /\ \A m \in FreeAttempts : m \in Nat /\ 1 <= m
  BY <1>1, <1>4, <1>6 DEF FreeAttempts
<1>8. FirstFree = 1
  <2>1. \E n \in FreeAttempts : \A m \in FreeAttempts : n <= m
    BY <1>7
  <2>2. FirstFree \in FreeAttempts /\ \A m \in FreeAttempts : FirstFree <= m
    BY <2>1 DEF FirstFree
  <2>3. FirstFree \in Nat /\ 1 <= FirstFree /\ FirstFree <= 1
    BY <1>7, <2>2
  <2> QED
    BY <2>3
<1> QED
  BY <1>2, <1>4, <1>5, <1>7, <1>8

(* Every step lets nextConnectionId climb, or leaves it.                   *)
LEMMA ClimbingStep ==
  ASSUME TypeInv, RegisteredInSession, Climbing, EnoughIds, [Next]_vars
  PROVE  Climbing'
<1>1. /\ regId \in [Sockets -> 0 .. IdLimit]
      /\ nextId \in Ids
      /\ StartId \in Nat
  BY FrameProtocolAssumption DEF TypeInv, TypeOK, FrameProtocolTypeOK, Ids
<1>2. Cardinality(Issued) \in Nat /\ IsFiniteSet(Issued)
  <2>1. Issued \in SUBSET Sockets
    BY DEF Issued
  <2> QED
    BY <2>1, FS_Subset, FS_CardinalityType DEF EnoughIds
<1>3. ASSUME NEW s \in Sockets, bst[s] = "idle"
      PROVE  s \notin Issued
  BY <1>3 DEF Climbing, Issued
<1>4. CASE UNCHANGED <<regId, nextId>>
  <2>1. Issued' = Issued
    BY <1>4 DEF Issued
  <2> QED
    BY <1>4, <2>1, IdleBefore DEF Climbing, FreshIds
<1>5. ASSUME NEW s \in Sockets, NEW m \in Methods, Refuse(s, m)
      PROVE  UNCHANGED <<regId, nextId>>
  <2>1. Issued # Sockets
    BY <1>3, <1>5 DEF Refuse
  <2> QED
    BY <1>5, <2>1, FirstCandidate DEF Refuse
<1>6. ASSUME NEW s \in Sockets, NEW m \in Methods, NEW extra \in BOOLEAN, Request(s, m, extra)
      PROVE  Climbing'
  <2> DEFINE c == Cardinality(Issued)
  <2>1. s \notin Issued /\ Issued # Sockets
    BY <1>3, <1>6 DEF Request
  <2>2. /\ FirstFree = 1 /\ Candidate(1) = nextId
        /\ c < Cardinality(Sockets) /\ Cardinality(Sockets) \in Nat
        /\ nextId < IdLimit => Candidate(2) = nextId + 1
    BY <2>1, FirstCandidate
  <2>3. /\ regId' = [regId EXCEPT ![s] = nextId]
        /\ nextId' = Candidate(FirstFree + 1)
        /\ bst'[s] # "idle"
    <3>1. /\ regId' = [regId EXCEPT ![s] = Candidate(FirstFree)]
          /\ nextId' = Candidate(FirstFree + 1)
          /\ bst' = [bst EXCEPT ![s] = IF m = "badhttp" THEN "ending" ELSE "open"]
      BY <1>6 DEF Request
    <3>2. bst \in [Sockets -> BStates]
      BY DEF TypeInv, TypeOK, FrameProtocolTypeOK
    <3> QED
      BY <2>2, <3>1, <3>2
  <2>4. nextId = StartId + c
    BY <2>1 DEF Climbing
  <2>5. Issued' = Issued \cup {s}
    BY <1>1, <2>3 DEF Issued, Ids
  <2>6. Cardinality(Issued)' = c + 1 /\ Cardinality(Issued') = c + 1
    BY <1>2, <2>1, <2>5, FS_AddElement
  <2>7. \A t \in Sockets : t # s => regId'[t] = regId[t] /\ regId[t] < nextId
    BY <1>1, <2>3, <2>4 DEF Climbing
  <2>8. regId'[s] = nextId /\ nextId \in Nat
    BY <1>1, <2>3 DEF Ids
  <2>9. FreshIds'
    BY <1>1, <2>7, <2>8 DEF Climbing, FreshIds
  <2>10. \A t \in Sockets : regId'[t] < StartId + (c + 1)
    BY <1>1, <1>2, <2>4, <2>7, <2>8
  <2>11. \A t \in Sockets : bst'[t] = "idle" => regId'[t] = 0
    BY <2>3, <2>7, IdleBefore DEF Climbing
  <2>12. Issued' # Sockets => nextId' = StartId + (c + 1)
    <3> SUFFICES ASSUME Issued' # Sockets
                 PROVE  nextId' = StartId + (c + 1)
      OBVIOUS
    <3>1. Issued' \in SUBSET Sockets
      BY DEF Issued
    <3>2. c + 1 <= Cardinality(Sockets) /\ c + 1 # Cardinality(Sockets)
      BY <2>6, <3>1, FS_Subset DEF EnoughIds
    <3>3. nextId < IdLimit
      BY <1>1, <1>2, <2>2, <2>4, <3>2, TunnelAssumption DEF EnoughIds
    <3>4. FirstFree + 1 = 2
      BY <2>2
    <3> QED
      BY <1>1, <1>2, <2>2, <2>3, <2>4, <3>3, <3>4
  <2> QED
    BY <2>6, <2>9, <2>10, <2>11, <2>12 DEF Climbing
<1> QED
  BY <1>4, <1>5, <1>6, IdsByRequest

(* With enough ids for all connections none is given out twice.            *)
LEMMA IdsLast ==
  ASSUME EnoughIds
  PROVE  Spec => []FreshIds
<1>1. Init => Climbing
  <2> SUFFICES ASSUME Init
               PROVE  Climbing
    OBVIOUS
  <2>1. Issued = {} /\ nextId = StartId /\ \A s \in Sockets : regId[s] = 0
    BY DEF Init, FrameProtocolInit, Issued
  <2>2. Cardinality(Issued) = 0
    BY <2>1, FS_EmptySet
  <2>3. StartId \in Nat \ {0}
    BY FrameProtocolAssumption DEF Ids
  <2> QED
    BY <2>1, <2>2, <2>3 DEF Climbing, FreshIds
<1>2. TypeInv /\ RegisteredInSession /\ Climbing /\ [Next]_vars => Climbing'
  BY ClimbingStep
<1>3. Climbing => FreshIds
  BY DEF Climbing
<1> QED
  BY <1>1, <1>2, <1>3, KeyedTypes, MapOfActiveSession, PTL DEF Spec

(* Until nextConnectionId has come round: every live socket is in its Map, *)
(* frames of replaced sessions touch no browser, a session takes its       *)
(* targets with it, and a target is given what its own browser sent, in    *)
(* order and without gaps.                                                 *)
THEOREM FirstLap ==
  ASSUME EnoughIds
  PROVE  Spec => /\ [](NoStrandedBrowser /\ TargetOwned /\ TargetStream)
                 /\ StaleFramesHarmless /\ SessionTakesItsTargets
BY IdsLast, FreshApart, BrowsersInMap, StaleFramesIgnored, TargetsInMap,
   SessionsTakeTargets, TargetsGivenOwnStream, PTL
=============================================================================
