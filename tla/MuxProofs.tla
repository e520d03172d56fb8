------------------------------ MODULE MuxProofs ------------------------------
(***************************************************************************)
(* Theorems about Mux, for any number of browser connections, sessions and *)
(* ids, and whatever is slow, fails or ends.                               *)
(***************************************************************************)
EXTENDS Mux, FiniteSetTheorems, WellFoundedInduction, TLAPS

-----------------------------------------------------------------------------
(* Frames and channels.                                                    *)

(* The frames the two halves build are well formed.                        *)
LEMMA FrameTypes ==
  ASSUME NEW i \in Ids
  PROVE  /\ \A p \in Payloads : Data(i, p) \in Frames
         /\ \A s \in Sockets : Open(i, s) \in Frames
         /\ Close(i) \in Frames
         /\ OpenAck(i) \in Frames
  BY DEF Payloads, Frames, Frame, Data, Open, Close, OpenAck, Target, Empty, Payload

(* The payloads the two halves build are well formed.                      *)
LEMMA PayloadTypes ==
  /\ \A s \in Sockets : Page(s) \in Payloads
  /\ \A s \in Sockets : \A n \in Nat : Up(s, n) \in Payloads /\ Down(s, n) \in Payloads
  /\ \A c \in Nat : Reply(c) \in Payloads
  BY DEF Payloads, Page, Up, Down, Reply, Payload

Channels == [Sessions -> Seq(Frames)]

(* Putting frames on a channel gives a channel.                            *)
LEMMA PutType ==
  ASSUME NEW chan \in Channels, NEW k \in Sessions, NEW fs \in Seq(Frames), NEW reader
  PROVE  Put(chan, k, fs, reader) \in Channels
<1>1. chan[k] \o fs \in Seq(Frames)
  BY DEF Channels
<1> QED
  BY <1>1 DEF Put, Channels

(* Taking the first frame off a channel gives a frame and a channel.       *)
LEMMA TakeType ==
  ASSUME NEW chan \in Channels, NEW k \in Sessions, chan[k] # <<>>
  PROVE  /\ Head(chan[k]) \in Frames
         /\ [chan EXCEPT ![k] = Tail(@)] \in Channels
<1>1. chan[k] \in Seq(Frames)
  BY DEF Channels
<1>2. Head(chan[k]) \in Frames /\ Tail(chan[k]) \in Seq(Frames)
  BY <1>1
<1> QED
  BY <1>2 DEF Channels

(* sendFrame of the server keeps the channel well formed.                  *)
LEMMA SendFramesType ==
  ASSUME activeWs \in 0 .. NumSessions, down \in Channels,
         NEW fs \in Seq(Frames), SendFrames(fs)
  PROVE  down' \in Channels
<1>1. CASE IsReady
  <2>1. activeWs \in Sessions
    BY <1>1 DEF IsReady, Sessions
  <2>2. Put(down, activeWs, fs, cliWs) \in Channels
    BY <2>1, PutType
  <2> QED
    BY <2>2, <1>1 DEF SendFrames
<1>2. CASE ~IsReady
  BY <1>2 DEF SendFrames
<1> QED
  BY <1>1, <1>2

(* sendFrame of the client keeps the channel well formed.                  *)
LEMMA ReplyFramesType ==
  ASSUME up \in Channels, NEW k \in Sessions, NEW fs \in Seq(Frames), ReplyFrames(k, fs)
  PROVE  up' \in Channels
<1>1. Put(up, k, fs, srvWs) \in Channels
  BY PutType
<1> QED
  BY <1>1 DEF ReplyFrames

-----------------------------------------------------------------------------
(* Connection ids.                                                         *)

(* Every candidate is an id.                                               *)
LEMMA CandidateType ==
  ASSUME nextId \in Ids, NEW n \in Int
  PROVE  Candidate(n) \in Ids
<1>1. IdLimit \in Nat \ {0}
  BY TunnelAssumption
<1>2. (nextId - 1 + (n - 1)) \in Int
  BY DEF Ids
<1>3. (nextId - 1 + (n - 1)) % IdLimit \in 0 .. IdLimit - 1
  BY <1>1, <1>2
<1> QED
  BY <1>1, <1>3 DEF Candidate, Ids

(* registerConnection takes the first free candidate.                      *)
LessNat == {p \in Nat \X Nat : p[1] < p[2]}

LEMMA FirstFreeExists ==
  ASSUME FreeAttempts # {}
  PROVE  FirstFree \in FreeAttempts
<1>1. FreeAttempts \subseteq Nat
  BY FrameProtocolAssumption DEF FreeAttempts
<1>2. IsWellFoundedOn(LessNat, Nat)
  BY NatLessThanWellFounded DEF OpToRel, LessNat
<1>3. \E n \in FreeAttempts : \A m \in FreeAttempts : ~(<<m, n>> \in LessNat)
  <2> DEFINE T == FreeAttempts
  <2>1. T \subseteq Nat /\ T # {}
    BY <1>1
  <2> HIDE DEF T
  <2>2. \E n \in T : \A m \in T : ~(<<m, n>> \in LessNat)
    BY <2>1, <1>2, WFMin
  <2> QED
    BY <2>2 DEF T
<1>4. PICK n \in FreeAttempts : \A m \in FreeAttempts : ~(<<m, n>> \in LessNat)
  BY <1>3
<1>5. \A m \in FreeAttempts : n <= m
  <2>1. ASSUME NEW m \in FreeAttempts, m < n
        PROVE  <<m, n>> \in LessNat
    <3>1. m \in Nat /\ n \in Nat
      BY <1>1
    <3> QED
      BY <3>1, <2>1 DEF LessNat
  <2>2. \A m \in FreeAttempts : ~(m < n)
    BY <1>4, <2>1, Zenon
  <2> QED
    BY <1>1, <2>2
<1> QED
  BY <1>5 DEF FirstFree

-----------------------------------------------------------------------------
(* The parts the server's handlers share.                                  *)

(* A write leaves a natural number of writes unflushed.                    *)
LEMMA BufferedType ==
  ASSUME NEW s, NEW n \in Nat
  PROVE  Buffered(s, n) \in Nat
  BY DEF Buffered

(* destroy() gives a socket state.                                         *)
LEMMA DestroyType ==
  ASSUME NEW st \in BStates
  PROVE  Destroy(st) \in BStates
  BY DEF Destroy, BStates

(* A 'close' of the protocol keeps every map well formed.                  *)
LEMMA EvictType ==
  ASSUME FrameProtocolTypeOK, NEW I, Evict(I)
  PROVE  /\ conns' \in [Ids -> Sockets \cup {None}]
         /\ bst' \in [Sockets -> BStates]
         /\ waiting' \in [Sockets -> BOOLEAN]
         /\ bIn' \in [Sockets -> Seq(Payloads)]
         /\ bBuf' \in [Sockets -> Nat]
<1> USE DEF FrameProtocolTypeOK
<1>1. conns' \in [Ids -> Sockets \cup {None}]
  BY DEF Evict
<1>2. bst' \in [Sockets -> BStates]
  BY DestroyType DEF Evict
<1>3. waiting' \in [Sockets -> BOOLEAN]
  BY Zenon DEF Evict
<1>4. bIn' \in [Sockets -> Seq(Payloads)]
  <2>1. \A w \in Sockets : Append(bIn[w], Reply(502)) \in Seq(Payloads)
    BY PayloadTypes
  <2> QED
    BY <2>1 DEF Evict
<1>5. bBuf' \in [Sockets -> Nat]
  BY BufferedType DEF Evict
<1> QED
  BY <1>1, <1>2, <1>3, <1>4, <1>5

(* The cleanup of a socket keeps the Map and the channel well formed.      *)
LEMMA CleanupType ==
  ASSUME TypeOK, NEW s \in Sockets, Cleanup(s)
  PROVE  /\ down' \in Channels
         /\ conns' \in [Ids -> Sockets \cup {None}]
<1> USE DEF TypeOK, TunnelTypeOK, FrameProtocolTypeOK, Channels
<1>1. CASE regId[s] # 0 /\ conns[regId[s]] # None
  <2>1. regId[s] \in Ids
    BY <1>1 DEF Ids
  <2>2. <<Close(regId[s])>> \in Seq(Frames)
    BY <2>1, FrameTypes
  <2>3. /\ SendFrames(<<Close(regId[s])>>)
        /\ conns' = [conns EXCEPT ![regId[s]] = None]
    BY <1>1 DEF Cleanup
  <2>4. down' \in Channels
    BY <2>2, <2>3, SendFramesType
  <2> QED
    BY <2>3, <2>4
<1>2. CASE ~(regId[s] # 0 /\ conns[regId[s]] # None)
  BY <1>2 DEF Cleanup
<1> QED
  BY <1>1, <1>2

-----------------------------------------------------------------------------
(* Type correctness, the server half.                                      *)

(* A request, accepted or refused.                                         *)
LEMMA RequestType ==
  ASSUME TypeOK, NEW s \in Sockets, NEW m \in Methods,
         (\E extra \in BOOLEAN : Request(s, m, extra)) \/ Refuse(s, m)
  PROVE  TunnelTypeOK' /\ FrameProtocolTypeOK'
<1> USE DEF TypeOK
<1>0. m \in {"none", "connect", "http", "badhttp"}
  BY FrameProtocolAssumption
<1>1. ASSUME NEW extra \in BOOLEAN, Request(s, m, extra)
      PROVE  TunnelTypeOK' /\ FrameProtocolTypeOK'
  <2> DEFINE i == Candidate(FirstFree)
             first == m = "http" \/ (m = "connect" /\ extra)
             fs == IF first THEN <<Open(i, s), Data(i, Up(s, 1))>> ELSE <<Open(i, s)>>
  <2>1. FirstFree \in 1 .. MaxAttempts
    BY <1>1, FirstFreeExists DEF Request, FreeAttempts
  <2>2. FirstFree \in Int /\ FirstFree + 1 \in Int
    BY <2>1, FrameProtocolAssumption
  <2>3. i \in Ids /\ Candidate(FirstFree + 1) \in Ids
    BY <2>2, CandidateType DEF FrameProtocolTypeOK
  <2>4. activeWs \in 1 .. NumSessions
    BY <1>1 DEF Request, IsReady, FrameProtocolTypeOK
  <2>5. fs \in Seq(Frames)
    BY <2>3, FrameTypes, PayloadTypes
  <2>6. /\ conns' = [conns EXCEPT ![i] = s]
        /\ nextId' = Candidate(FirstFree + 1)
        /\ regId' = [regId EXCEPT ![s] = i]
        /\ SendFrames(fs)
        /\ bSent' = [bSent EXCEPT ![s] = IF first THEN 1 ELSE 0]
    BY <1>1 DEF Request
  <2> HIDE DEF i, first, fs
  <2>7. down' \in Channels
    BY <2>5, <2>6, SendFramesType DEF TunnelTypeOK, FrameProtocolTypeOK, Channels
  <2>8. TunnelTypeOK'
    BY <1>1, <2>7 DEF Request, TunnelTypeOK, Channels
  <2>9. /\ conns' \in [Ids -> Sockets \cup {None}]
        /\ nextId' \in Ids
        /\ regId' \in [Sockets -> 0 .. IdLimit]
        /\ bSent' \in [Sockets -> Nat]
    BY <2>3, <2>6 DEF FrameProtocolTypeOK, Ids
  <2>10. Append(bIn[s], Reply(400)) \in Seq(Payloads)
    BY PayloadTypes DEF FrameProtocolTypeOK
  <2>11. /\ bIn' \in [Sockets -> Seq(Payloads)]
         /\ bBuf' \in [Sockets -> Nat]
    BY <1>1, <2>10, BufferedType DEF Request, FrameProtocolTypeOK
  <2>12. /\ regSess' \in [Sockets -> 0 .. NumSessions]
         /\ method' \in [Sockets -> {"none", "connect", "http", "badhttp"}]
         /\ bst' \in [Sockets -> BStates]
         /\ activeWs' \in 0 .. NumSessions
    BY <1>0, <1>1, <2>4 DEF Request, FrameProtocolTypeOK, BStates
  <2>13. waiting' \in [Sockets -> BOOLEAN]
    BY <1>1, Zenon DEF Request, FrameProtocolTypeOK
  <2> QED
    BY <2>8, <2>9, <2>11, <2>12, <2>13 DEF FrameProtocolTypeOK
<1>2. ASSUME Refuse(s, m)
      PROVE  TunnelTypeOK' /\ FrameProtocolTypeOK'
  <2>1. Candidate(MaxAttempts + 2) \in Ids
    BY CandidateType, FrameProtocolAssumption DEF FrameProtocolTypeOK
  <2>2. \A c \in Nat : Append(bIn[s], Reply(c)) \in Seq(Payloads)
    BY PayloadTypes DEF FrameProtocolTypeOK
  <2>3. /\ bIn' \in [Sockets -> Seq(Payloads)]
        /\ bBuf' \in [Sockets -> Nat]
        /\ bst' \in [Sockets -> BStates]
        /\ nextId' \in Ids
        /\ method' \in [Sockets -> {"none", "connect", "http", "badhttp"}]
    BY <1>0, <1>2, <2>1, <2>2, BufferedType DEF Refuse, FrameProtocolTypeOK, BStates
  <2> QED
    BY <1>2, <2>3 DEF Refuse, FrameProtocolTypeOK, TunnelTypeOK, tunnelVars
<1> QED
  BY <1>1, <1>2

(* An event of a browser socket.                                           *)
LEMMA BrowserType ==
  ASSUME TypeOK, NEW s \in Sockets,
         \/ BrowserSend(s) \/ BrowserEnd(s) \/ BrowserAbort(s)
         \/ EndingDestroyed(s) \/ BrowserClosed(s) \/ BrowserRead(s)
  PROVE  TunnelTypeOK' /\ FrameProtocolTypeOK'
<1> USE DEF TypeOK, TunnelTypeOK, FrameProtocolTypeOK
<1>1. ASSUME BrowserSend(s)
      PROVE  TunnelTypeOK' /\ FrameProtocolTypeOK'
  <2>1. regId[s] \in Ids
    BY <1>1 DEF BrowserSend, Ids
  <2>2. bSent[s] + 1 \in Nat
    OBVIOUS
  <2>3. <<Data(regId[s], Up(s, bSent[s] + 1))>> \in Seq(Frames)
    BY <2>1, <2>2, FrameTypes, PayloadTypes
  <2>4. down' \in Channels
    BY <1>1, <2>3, SendFramesType DEF BrowserSend, Channels
  <2>5. bSent' \in [Sockets -> Nat]
    BY <1>1, <2>2 DEF BrowserSend
  <2> QED
    BY <1>1, <2>4, <2>5 DEF BrowserSend, Channels
<1>2. ASSUME BrowserEnd(s)
      PROVE  TunnelTypeOK' /\ FrameProtocolTypeOK'
  <2>1. down' \in Channels /\ conns' \in [Ids -> Sockets \cup {None}]
    BY <1>2, CleanupType DEF BrowserEnd
  <2> QED
    BY <1>2, <2>1 DEF BrowserEnd, BStates, Channels
<1>3. ASSUME BrowserAbort(s) \/ EndingDestroyed(s)
      PROVE  TunnelTypeOK' /\ FrameProtocolTypeOK'
  BY <1>3 DEF BrowserAbort, EndingDestroyed, BStates, tunnelVars
<1>4. ASSUME BrowserClosed(s)
      PROVE  TunnelTypeOK' /\ FrameProtocolTypeOK'
  <2>1. down' \in Channels /\ conns' \in [Ids -> Sockets \cup {None}]
    BY <1>4, CleanupType DEF BrowserClosed
  <2>2. waiting' \in [Sockets -> BOOLEAN]
    BY <1>4 DEF BrowserClosed
  <2> QED
    BY <1>4, <2>1, <2>2 DEF BrowserClosed, BStates, Channels
<1>5. ASSUME BrowserRead(s)
      PROVE  TunnelTypeOK' /\ FrameProtocolTypeOK'
  BY <1>5 DEF BrowserRead, tunnelVars
<1> QED
  BY <1>1, <1>2, <1>3, <1>4, <1>5

(* A frame handled by the server.                                          *)
LEMMA ServerHandlesType ==
  ASSUME TypeOK, NEW k \in Sessions, ServerHandles(k)
  PROVE  TunnelTypeOK' /\ FrameProtocolTypeOK'
<1> USE DEF TypeOK
<1>1. /\ Arrives(k)
      /\ \/ FrameUnknown(k) \/ FrameData(k) \/ FrameClose(k) \/ FrameOpenAck(k)
  BY DEF ServerHandles, FrameUnknown, FrameData, FrameClose, FrameOpenAck
<1>2. /\ up[k] # <<>>
      /\ up' = [up EXCEPT ![k] = Tail(@)]
      /\ UNCHANGED <<activeWs, nextId, regId, regSess, method, bSent, srvWs, cliWs>>
  BY <1>1 DEF Arrives
<1>3. Head(up[k]) \in Frames /\ up' \in Channels
  BY <1>2, TakeType DEF TunnelTypeOK, Channels
<1>4. Head(up[k]).id \in Ids /\ Head(up[k]).pay \in Payloads
  BY <1>3 DEF Frames
<1>5. <<Close(Head(up[k]).id)>> \in Seq(Frames)
  BY <1>4, FrameTypes
<1>6. ASSUME SendFrames(<<Close(Head(up[k]).id)>>) \/ UNCHANGED down
      PROVE  down' \in Channels
  BY <1>5, <1>6, SendFramesType DEF TunnelTypeOK, FrameProtocolTypeOK, Channels
<1>7. ASSUME down' \in Channels,
             conns' \in [Ids -> Sockets \cup {None}],
             bst' \in [Sockets -> BStates],
             waiting' \in [Sockets -> BOOLEAN],
             bIn' \in [Sockets -> Seq(Payloads)],
             bBuf' \in [Sockets -> Nat]
      PROVE  TunnelTypeOK' /\ FrameProtocolTypeOK'
  BY <1>2, <1>3, <1>7 DEF TunnelTypeOK, FrameProtocolTypeOK, Channels
<1>8. CASE FrameUnknown(k)
  <2>1. down' \in Channels
    BY <1>6, <1>8 DEF FrameUnknown
  <2> QED
    BY <1>7, <1>8, <2>1 DEF FrameUnknown, FrameProtocolTypeOK
<1>9. CASE FrameData(k)
  <2> DEFINE f == Head(up[k])
             s == conns[f.id]
             n == Buffered(s, bBuf[s])
  <2>1. s \in Sockets
    BY <1>4, <1>9 DEF FrameData, FrameProtocolTypeOK
  <2>2. n \in Nat
    BY <2>1, BufferedType DEF FrameProtocolTypeOK
  <2>3. Append(bIn[s], f.pay) \in Seq(Payloads)
    BY <1>4, <2>1 DEF FrameProtocolTypeOK
  <2>4. down' \in Channels
    BY <1>6, <1>9 DEF FrameData
  <2>5. conns' \in [Ids -> Sockets \cup {None}]
    BY <1>4, <1>9 DEF FrameData, FrameProtocolTypeOK
  <2>6. bst' \in [Sockets -> BStates]
    BY <1>9 DEF FrameData, FrameProtocolTypeOK, BStates
  <2>7. bIn' = bIn \/ bIn' = [bIn EXCEPT ![s] = Append(@, f.pay)]
    BY <1>9 DEF FrameData
  <2>8. bIn' \in [Sockets -> Seq(Payloads)]
    BY <2>1, <2>3, <2>7 DEF FrameProtocolTypeOK
  <2>9. bBuf' = bBuf \/ bBuf' = [bBuf EXCEPT ![s] = n]
    BY <1>9 DEF FrameData
  <2>10. bBuf' \in [Sockets -> Nat]
    BY <2>1, <2>2, <2>9 DEF FrameProtocolTypeOK
  <2>11. waiting' \in [Sockets -> BOOLEAN]
    BY <1>9 DEF FrameData, FrameProtocolTypeOK
  <2> QED
    BY <1>7, <2>4, <2>5, <2>6, <2>8, <2>10, <2>11
<1>10. CASE FrameClose(k)
  <2>1. Evict({Head(up[k]).id}) /\ UNCHANGED down
    BY <1>10 DEF FrameClose
  <2>2. down' \in Channels
    BY <1>6, <2>1
  <2> QED
    BY <1>7, <2>1, <2>2, EvictType
<1>11. CASE FrameOpenAck(k)
  <2>1. down' \in Channels
    BY <1>6, <1>11 DEF FrameOpenAck
  <2>2. \A w \in Sockets : Append(bIn[w], Reply(200)) \in Seq(Payloads)
    BY PayloadTypes DEF FrameProtocolTypeOK
  <2>3. bIn' \in [Sockets -> Seq(Payloads)]
    BY <1>11, <2>2 DEF FrameOpenAck, FrameProtocolTypeOK
  <2>4. bBuf' \in [Sockets -> Nat]
    BY <1>11, BufferedType DEF FrameOpenAck, FrameProtocolTypeOK
  <2>5. waiting' \in [Sockets -> BOOLEAN]
    BY <1>11, Zenon DEF FrameOpenAck
  <2> QED
    BY <1>7, <1>11, <2>1, <2>3, <2>4, <2>5 DEF FrameOpenAck, FrameProtocolTypeOK
<1> QED
  BY <1>1, <1>8, <1>9, <1>10, <1>11

(* A session that begins, is shut or ends at the server.                   *)
LEMMA SessionType ==
  ASSUME TypeOK, NEW k \in Sessions,
         Connection(k) \/ ServerShuts(k) \/ ServerWsClosed(k)
  PROVE  TunnelTypeOK' /\ FrameProtocolTypeOK'
<1> USE DEF TypeOK
<1>1. CASE Connection(k)
  <2>1. Evict(IF activeWs # 0 THEN Registered ELSE {})
    BY <1>1 DEF Connection, TunnelClose
  <2>2. /\ conns' \in [Ids -> Sockets \cup {None}]
        /\ bst' \in [Sockets -> BStates]
        /\ waiting' \in [Sockets -> BOOLEAN]
        /\ bIn' \in [Sockets -> Seq(Payloads)]
        /\ bBuf' \in [Sockets -> Nat]
    BY <2>1, EvictType
  <2>3. Shut(srvWs, activeWs) \in [Sessions -> WsStates]
    BY DEF Shut, TunnelTypeOK, WsStates
  <2>4. srvWs' \in [Sessions -> WsStates] /\ cliWs' \in [Sessions -> WsStates]
    BY <1>1, <2>3 DEF Connection, TunnelTypeOK, WsStates
  <2>5. activeWs' \in 0 .. NumSessions
    BY <1>1 DEF Connection, Sessions
  <2> QED
    BY <1>1, <2>2, <2>4, <2>5 DEF Connection, TunnelTypeOK, FrameProtocolTypeOK
<1>2. CASE ServerShuts(k)
  <2>1. srvWs' \in [Sessions -> WsStates]
    BY <1>2 DEF ServerShuts, Shut, TunnelTypeOK, WsStates
  <2> QED
    BY <1>2, <2>1 DEF ServerShuts, TunnelTypeOK, FrameProtocolTypeOK, srvVars
<1>3. CASE ServerWsClosed(k)
  <2>1. Evict(IF activeWs = k THEN Registered ELSE {})
    BY <1>3 DEF ServerWsClosed, TunnelClose
  <2>2. /\ conns' \in [Ids -> Sockets \cup {None}]
        /\ bst' \in [Sockets -> BStates]
        /\ waiting' \in [Sockets -> BOOLEAN]
        /\ bIn' \in [Sockets -> Seq(Payloads)]
        /\ bBuf' \in [Sockets -> Nat]
    BY <2>1, EvictType
  <2>3. /\ srvWs' \in [Sessions -> WsStates]
        /\ up' \in [Sessions -> Seq(Frames)]
    BY <1>3 DEF ServerWsClosed, TunnelTypeOK, WsStates
  <2>4. activeWs' \in 0 .. NumSessions
    BY <1>3, TunnelAssumption DEF ServerWsClosed, FrameProtocolTypeOK
  <2> QED
    BY <1>3, <2>2, <2>3, <2>4 DEF ServerWsClosed, TunnelTypeOK, FrameProtocolTypeOK
<1> QED
  BY <1>1, <1>2, <1>3

-----------------------------------------------------------------------------
(* Type correctness, the client half.                                      *)

(* A target socket that has been made, and one that is in a manager's Map, *)
(* knows the session and the id it was made for.                           *)
KeysOK ==
  /\ \A s \in Sockets : tst[s] # "none" => tKey[s] # NoKey
  /\ \A k \in Sessions : \A i \in Ids : cConn[k][i] # None => tKey[cConn[k][i]] # NoKey

TypeInv == TypeOK /\ KeysOK

(* The maps after a target socket has been made.                           *)
LEMMA EstablishType ==
  ASSUME ConnectionManagerTypeOK, NEW k \in Sessions, NEW i \in Ids, NEW s \in Sockets,
         NEW early \in Seq(Payloads), Establish(k, i, s, early)
  PROVE  /\ cConn' \in [Sessions -> [Ids -> Sockets \cup {None}]]
         /\ pend' \in [Sessions -> [Ids -> Seq(Payloads) \cup {None}]]
         /\ tst' \in [Sockets -> TStates]
         /\ tKey' \in [Sockets -> [sess : Sessions, id : Ids] \cup {NoKey}]
         /\ tIn' \in [Sockets -> Seq(Payloads)]
<1> USE DEF ConnectionManagerTypeOK
<1>1. cConn' \in [Sessions -> [Ids -> Sockets \cup {None}]]
  BY DEF Establish
<1>2. pend' \in [Sessions -> [Ids -> Seq(Payloads) \cup {None}]]
  BY DEF Establish, Removed
<1>3. tst' \in [Sockets -> TStates]
  BY DEF Establish, TStates
<1>4. tKey' \in [Sockets -> [sess : Sessions, id : Ids] \cup {NoKey}]
  BY DEF Establish
<1>5. tIn[s] \o early \in Seq(Payloads)
  OBVIOUS
<1>6. tIn' \in [Sockets -> Seq(Payloads)]
  BY <1>5 DEF Establish
<1> QED
  BY <1>1, <1>2, <1>3, <1>4, <1>6

(* The cleanup of a target socket that has been made.                      *)
LEMMA TargetCleanupType ==
  ASSUME TypeOK, NEW s \in Sockets, tKey[s] \in [sess : Sessions, id : Ids],
         TargetCleanup(s)
  PROVE  /\ up' \in Channels
         /\ cConn' \in [Sessions -> [Ids -> Sockets \cup {None}]]
<1> DEFINE k == tKey[s].sess
           i == tKey[s].id
<1>1. k \in Sessions /\ i \in Ids
  OBVIOUS
<1> HIDE DEF k, i
<1>2. <<Close(i)>> \in Seq(Frames)
  BY <1>1, FrameTypes
<1>3. \/ ReplyFrames(k, <<Close(i)>>) /\ cConn' = Removed(cConn, k, i)
      \/ UNCHANGED <<up, cConn>>
  BY DEF TargetCleanup, k, i
<1>4. up' \in Channels
  BY <1>1, <1>2, <1>3, ReplyFramesType DEF TypeOK, TunnelTypeOK, Channels
<1>5. cConn \in [Sessions -> [Ids -> Sockets \cup {None}]]
  BY DEF TypeOK, ConnectionManagerTypeOK
<1>6. Removed(cConn, k, i) \in [Sessions -> [Ids -> Sockets \cup {None}]]
  BY <1>1, <1>5 DEF Removed
<1> QED
  BY <1>3, <1>4, <1>5, <1>6

(* A frame handled by the client.                                          *)
LEMMA ClientHandlesType ==
  ASSUME TypeInv, NEW k \in Sessions, ClientHandles(k)
  PROVE  TunnelTypeOK' /\ ConnectionManagerTypeOK'
<1> USE DEF TypeInv, TypeOK
<1> DEFINE f == Head(down[k])
<1>1. Delivered(k)
  BY DEF ClientHandles, OpenRejected, OpenForbidden, OpenAddress, OpenName,
         DataConnected, DataOverflow, DataPending, DataUnknown, CloseFrame
<1>2. /\ down[k] # <<>>
      /\ down' = [down EXCEPT ![k] = Tail(@)]
      /\ UNCHANGED <<srvWs, cliWs, tSent>>
  BY <1>1 DEF Delivered
<1>3. f \in Frames /\ down' \in Channels
  BY <1>2, TakeType DEF TunnelTypeOK, Channels
<1>4. /\ f.id \in Ids
      /\ f.pay \in Payloads
      /\ f.type = "OPEN" => f.pay.of \in Sockets
  BY <1>3 DEF Frames
<1> HIDE DEF f
<1>5. /\ cConn \in [Sessions -> [Ids -> Sockets \cup {None}]]
      /\ pend \in [Sessions -> [Ids -> Seq(Payloads) \cup {None}]]
      /\ dns \subseteq Lookups
      /\ tst \in [Sockets -> TStates]
      /\ tKey \in [Sockets -> [sess : Sessions, id : Ids] \cup {NoKey}]
      /\ tSent \in [Sockets -> Nat]
      /\ tIn \in [Sockets -> Seq(Payloads)]
  BY DEF ConnectionManagerTypeOK
<1>6. ASSUME up' \in Channels,
             cConn' \in [Sessions -> [Ids -> Sockets \cup {None}]],
             pend' \in [Sessions -> [Ids -> Seq(Payloads) \cup {None}]],
             dns' \subseteq Lookups,
             tst' \in [Sockets -> TStates],
             tKey' \in [Sockets -> [sess : Sessions, id : Ids] \cup {NoKey}],
             tIn' \in [Sockets -> Seq(Payloads)]
      PROVE  TunnelTypeOK' /\ ConnectionManagerTypeOK'
  BY <1>2, <1>3, <1>6 DEF TunnelTypeOK, ConnectionManagerTypeOK, Channels
<1>7. /\ <<Close(f.id)>> \in Seq(Frames)
      /\ f.type = "OPEN" => Refusal(f.id, f.pay.of) \in Seq(Frames)
  BY <1>4, FrameTypes, PayloadTypes DEF Refusal
<1>8. ASSUME \/ ReplyFrames(k, <<Close(f.id)>>)
             \/ f.type = "OPEN" /\ ReplyFrames(k, Refusal(f.id, f.pay.of))
             \/ UNCHANGED up
      PROVE  up' \in Channels
  <2>1. up \in Channels
    BY DEF TunnelTypeOK, Channels
  <2> QED
    BY <1>7, <1>8, <2>1, ReplyFramesType
<1>9. Removed(cConn, k, f.id) \in [Sessions -> [Ids -> Sockets \cup {None}]]
  BY <1>4, <1>5 DEF Removed
<1>10. Removed(pend, k, f.id) \in [Sessions -> [Ids -> Seq(Payloads) \cup {None}]]
  BY <1>4, <1>5 DEF Removed
<1>11. ASSUME NEW h \in Hosts, OpenRejected(k, h)
       PROVE  TunnelTypeOK' /\ ConnectionManagerTypeOK'
  <2>1. ReplyFrames(k, <<Close(f.id)>>) /\ UNCHANGED <<cConn, pend, dns, tst, tKey, tIn>>
    BY <1>11 DEF OpenRejected, f
  <2> QED
    BY <1>5, <1>6, <1>8, <2>1
<1>12. ASSUME NEW h \in Hosts, OpenForbidden(k, h)
       PROVE  TunnelTypeOK' /\ ConnectionManagerTypeOK'
  <2>1. /\ f.type = "OPEN"
        /\ ReplyFrames(k, Refusal(f.id, f.pay.of))
        /\ pend' = pend \/ pend' = Removed(pend, k, f.id)
        /\ UNCHANGED <<cConn, dns, tst, tKey, tIn>>
    BY <1>12 DEF OpenForbidden, f
  <2>2. up' \in Channels
    BY <1>8, <2>1
  <2>3. pend' \in [Sessions -> [Ids -> Seq(Payloads) \cup {None}]]
    BY <1>5, <1>10, <2>1
  <2> QED
    BY <1>5, <1>6, <2>1, <2>2, <2>3
<1>13. ASSUME NEW h \in Hosts, OpenAddress(k, h)
       PROVE  TunnelTypeOK' /\ ConnectionManagerTypeOK'
  <2>1. /\ f.type = "OPEN"
        /\ Establish(k, f.id, f.pay.of, <<>>)
        /\ UNCHANGED <<dns, up>>
    BY <1>13 DEF OpenAddress, f
  <2>2. f.pay.of \in Sockets /\ <<>> \in Seq(Payloads)
    BY <1>4, <2>1
  <2>3. /\ cConn' \in [Sessions -> [Ids -> Sockets \cup {None}]]
        /\ pend' \in [Sessions -> [Ids -> Seq(Payloads) \cup {None}]]
        /\ tst' \in [Sockets -> TStates]
        /\ tKey' \in [Sockets -> [sess : Sessions, id : Ids] \cup {NoKey}]
        /\ tIn' \in [Sockets -> Seq(Payloads)]
    BY <1>4, <2>1, <2>2, EstablishType
  <2> QED
    BY <1>5, <1>6, <1>8, <2>1, <2>3
<1>14. ASSUME NEW h \in Hosts, OpenName(k, h)
       PROVE  TunnelTypeOK' /\ ConnectionManagerTypeOK'
  <2>1. /\ f.type = "OPEN"
        /\ pend' = [pend EXCEPT ![k][f.id] = <<>>]
        /\ dns' = dns \cup {[sess |-> k, id |-> f.id, of |-> f.pay.of]}
        /\ UNCHANGED <<cConn, tst, tKey, tIn, up>>
    BY <1>14 DEF OpenName, f
  <2>2. dns' \subseteq Lookups
    BY <1>4, <1>5, <2>1 DEF Lookups
  <2>3. pend' \in [Sessions -> [Ids -> Seq(Payloads) \cup {None}]]
    BY <1>4, <1>5, <2>1
  <2> QED
    BY <1>5, <1>6, <1>8, <2>1, <2>2, <2>3
<1>15. ASSUME DataConnected(k) \/ DataOverflow(k)
       PROVE  TunnelTypeOK' /\ ConnectionManagerTypeOK'
  <2> DEFINE s == cConn[k][f.id]
  <2>0. s # None \/ s \in Slow
    BY <1>15 DEF DataConnected, DataOverflow, f
  <2>1. s \in Sockets
    <3>1. s \in Sockets \cup {None}
      BY <1>4, <1>5
    <3> QED
      BY <2>0, <3>1, TunnelAssumption
  <2>2. Append(tIn[s], f.pay) \in Seq(Payloads)
    BY <1>4, <1>5, <2>1
  <2>3. /\ \/ ReplyFrames(k, <<Close(f.id)>>)
           \/ UNCHANGED up
        /\ cConn' = Removed(cConn, k, f.id) \/ cConn' = cConn
        /\ tIn' = [tIn EXCEPT ![s] = Append(@, f.pay)] \/ tIn' = tIn
        /\ tst' = [tst EXCEPT ![s] = "destroyed"] \/ tst' = tst
        /\ UNCHANGED <<pend, dns, tKey>>
    BY <1>15 DEF DataConnected, DataOverflow, f
  <2>4. up' \in Channels
    BY <1>8, <2>3
  <2>5. cConn' \in [Sessions -> [Ids -> Sockets \cup {None}]]
    BY <1>5, <1>9, <2>3
  <2>6. tIn' \in [Sockets -> Seq(Payloads)]
    BY <1>5, <2>1, <2>2, <2>3
  <2>7. tst' \in [Sockets -> TStates]
    BY <1>5, <2>3 DEF TStates
  <2> QED
    BY <1>5, <1>6, <2>3, <2>4, <2>5, <2>6, <2>7
<1>16. ASSUME DataPending(k)
       PROVE  TunnelTypeOK' /\ ConnectionManagerTypeOK'
  <2> DEFINE q == Append(pend[k][f.id], f.pay)
  <2>1. pend[k][f.id] \in Seq(Payloads)
    BY <1>4, <1>5, <1>16 DEF DataPending, f
  <2>2. q \in Seq(Payloads)
    BY <1>4, <2>1
  <2>3. /\ \/ ReplyFrames(k, <<Close(f.id)>>) /\ pend' = Removed(pend, k, f.id)
           \/ UNCHANGED up /\ pend' = [pend EXCEPT ![k][f.id] = q]
        /\ UNCHANGED <<cConn, dns, tst, tKey, tIn>>
    BY <1>16 DEF DataPending, f
  <2>4. up' \in Channels
    BY <1>8, <2>3
  <2> HIDE DEF q
  <2>5. [pend EXCEPT ![k][f.id] = q] \in [Sessions -> [Ids -> Seq(Payloads) \cup {None}]]
    BY <1>4, <1>5, <2>2
  <2>6. pend' \in [Sessions -> [Ids -> Seq(Payloads) \cup {None}]]
    BY <1>10, <2>3, <2>5
  <2> QED
    BY <1>5, <1>6, <2>3, <2>4, <2>6
<1>17. ASSUME DataUnknown(k)
       PROVE  TunnelTypeOK' /\ ConnectionManagerTypeOK'
  <2>1. ReplyFrames(k, <<Close(f.id)>>) /\ UNCHANGED <<cConn, pend, dns, tst, tKey, tIn>>
    BY <1>17 DEF DataUnknown, f
  <2> QED
    BY <1>5, <1>6, <1>8, <2>1
<1>18. ASSUME CloseFrame(k)
       PROVE  TunnelTypeOK' /\ ConnectionManagerTypeOK'
  <2>1. /\ \/ tst' = tst
           \/ tst' = [tst EXCEPT ![cConn[k][f.id]] = TDestroy(@)]
        /\ cConn' = Removed(cConn, k, f.id)
        /\ pend' = Removed(pend, k, f.id)
        /\ UNCHANGED <<dns, tKey, tIn, up>>
    BY <1>18 DEF CloseFrame, f
  <2>2. tst' \in [Sockets -> TStates]
    BY <1>5, <2>1 DEF TStates, TDestroy
  <2>3. up' \in Channels
    BY <1>8, <2>1
  <2> QED
    BY <1>5, <1>6, <1>9, <1>10, <2>1, <2>2, <2>3
<1> QED
  BY <1>11, <1>12, <1>13, <1>14, <1>15, <1>16, <1>17, <1>18 DEF ClientHandles

(* The callback of a lookup.                                               *)
LEMMA ResolvesType ==
  ASSUME TypeInv, NEW d \in dns, Resolves(d)
  PROVE  TunnelTypeOK' /\ ConnectionManagerTypeOK'
<1> USE DEF TypeInv, TypeOK
<1>1. d \in Lookups
  BY DEF ConnectionManagerTypeOK
<1>2. d.sess \in Sessions /\ d.id \in Ids /\ d.of \in Sockets
  BY <1>1 DEF Lookups
<1>3. dns \ {d} \subseteq Lookups
  BY DEF ConnectionManagerTypeOK
<1>4. CASE LookupStale(d)
  BY <1>3, <1>4 DEF LookupStale, TunnelTypeOK, ConnectionManagerTypeOK, tunnelVars
<1>5. CASE LookupFails(d)
  <2>1. Refusal(d.id, d.of) \in Seq(Frames)
    BY <1>2, FrameTypes, PayloadTypes DEF Refusal
  <2>2. up' \in Channels
    BY <1>2, <1>5, <2>1, ReplyFramesType DEF LookupFails, TunnelTypeOK, Channels
  <2>3. Removed(pend, d.sess, d.id) \in [Sessions -> [Ids -> Seq(Payloads) \cup {None}]]
    BY <1>2 DEF Removed, ConnectionManagerTypeOK
  <2> QED
    BY <1>3, <1>5, <2>2, <2>3 DEF LookupFails, TunnelTypeOK, ConnectionManagerTypeOK, Channels
<1>6. CASE LookupSucceeds(d)
  <2>1. pend[d.sess][d.id] # None
    BY <1>6 DEF LookupSucceeds
  <2>2. pend[d.sess][d.id] \in Seq(Payloads)
    BY <1>2, <2>1 DEF ConnectionManagerTypeOK
  <2>3. Establish(d.sess, d.id, d.of, pend[d.sess][d.id])
    BY <1>6 DEF LookupSucceeds
  <2>4. /\ cConn' \in [Sessions -> [Ids -> Sockets \cup {None}]]
        /\ pend' \in [Sessions -> [Ids -> Seq(Payloads) \cup {None}]]
        /\ tst' \in [Sockets -> TStates]
        /\ tKey' \in [Sockets -> [sess : Sessions, id : Ids] \cup {NoKey}]
        /\ tIn' \in [Sockets -> Seq(Payloads)]
    BY <1>2, <2>2, <2>3, EstablishType
  <2> QED
    BY <1>3, <1>6, <2>4 DEF LookupSucceeds, TunnelTypeOK, ConnectionManagerTypeOK, tunnelVars
<1> QED
  BY <1>4, <1>5, <1>6 DEF Resolves

(* An event of a target socket.                                            *)
LEMMA TargetType ==
  ASSUME TypeInv, NEW s \in Sockets,
         \/ TargetConnects(s) \/ TargetSends(s) \/ TargetEnds(s)
         \/ TargetFails(s) \/ TargetClosed(s)
  PROVE  TunnelTypeOK' /\ ConnectionManagerTypeOK'
<1> USE DEF TypeInv, TypeOK
<1>1. tst[s] # "none"
  BY DEF TargetConnects, TargetSends, TargetEnds, TargetFails, TargetClosed
<1>2. tKey[s] \in [sess : Sessions, id : Ids]
  BY <1>1 DEF KeysOK, ConnectionManagerTypeOK
<1> DEFINE k == tKey[s].sess
           i == tKey[s].id
<1>3. k \in Sessions /\ i \in Ids
  BY <1>2
<1>4. CASE TargetConnects(s)
  <2>1. <<OpenAck(i)>> \in Seq(Frames)
    BY <1>3, FrameTypes
  <2>2. ReplyFrames(k, <<OpenAck(i)>>)
    BY <1>4 DEF TargetConnects
  <2>3. up' \in Channels
    BY <1>3, <2>1, <2>2, ReplyFramesType DEF TunnelTypeOK, Channels
  <2> QED
    BY <1>4, <2>3 DEF TargetConnects, TunnelTypeOK, ConnectionManagerTypeOK, Channels, TStates
<1>5. CASE TargetSends(s)
  <2>1. tSent[s] + 1 \in Nat
    BY DEF ConnectionManagerTypeOK
  <2>2. <<Data(i, Down(s, tSent[s] + 1))>> \in Seq(Frames)
    BY <1>3, <2>1, FrameTypes, PayloadTypes
  <2>3. ReplyFrames(k, <<Data(i, Down(s, tSent[s] + 1))>>)
    BY <1>5 DEF TargetSends
  <2>4. up' \in Channels
    BY <1>3, <2>2, <2>3, ReplyFramesType DEF TunnelTypeOK, Channels
  <2>5. tSent' \in [Sockets -> Nat]
    BY <1>5, <2>1 DEF TargetSends, ConnectionManagerTypeOK
  <2> QED
    BY <1>5, <2>4, <2>5 DEF TargetSends, TunnelTypeOK, ConnectionManagerTypeOK, Channels
<1>6. CASE TargetEnds(s) \/ TargetFails(s) \/ TargetClosed(s)
  <2>1. TargetCleanup(s)
    BY <1>6 DEF TargetEnds, TargetFails, TargetClosed
  <2>2. /\ up' \in Channels
        /\ cConn' \in [Sessions -> [Ids -> Sockets \cup {None}]]
    BY <1>2, <2>1, TargetCleanupType
  <2>3. tst' \in [Sockets -> TStates]
    BY <1>6 DEF TargetEnds, TargetFails, TargetClosed, ConnectionManagerTypeOK, TStates
  <2>4. UNCHANGED <<pend, dns, tKey, tSent, tIn, srvWs, cliWs, down>>
    BY <1>6 DEF TargetEnds, TargetFails, TargetClosed
  <2> QED
    BY <2>2, <2>3, <2>4 DEF TunnelTypeOK, ConnectionManagerTypeOK, Channels
<1> QED
  BY <1>4, <1>5, <1>6

(* A session that is shut or ends at the client.                           *)
LEMMA ClientSessionType ==
  ASSUME TypeInv, NEW k \in Sessions, ClientShuts(k) \/ ClientWsClosed(k)
  PROVE  TunnelTypeOK' /\ ConnectionManagerTypeOK'
<1> USE DEF TypeInv, TypeOK
<1>1. CASE ClientShuts(k)
  BY <1>1 DEF ClientShuts, Shut, WsStates, TunnelTypeOK, ConnectionManagerTypeOK, cliVars
<1>2. CASE ClientWsClosed(k)
  <2>1. /\ cliWs' \in [Sessions -> WsStates]
        /\ down' \in [Sessions -> Seq(Frames)]
    BY <1>2 DEF ClientWsClosed, TunnelTypeOK, WsStates
  <2>2. CloseAllTargets(k)
    BY <1>2 DEF ClientWsClosed
  <2>3. tst' \in [Sockets -> TStates]
    BY <2>2 DEF CloseAllTargets, ConnectionManagerTypeOK, TDestroy, TStates
  <2>4. cConn' \in [Sessions -> [Ids -> Sockets \cup {None}]]
    BY <2>2 DEF CloseAllTargets, ConnectionManagerTypeOK
  <2>5. pend' = pend
    BY <2>2 DEF CloseAllTargets
  <2> QED
    BY <1>2, <2>1, <2>3, <2>4, <2>5 DEF ClientWsClosed, TunnelTypeOK, ConnectionManagerTypeOK
<1> QED
  BY <1>1, <1>2

-----------------------------------------------------------------------------
(* Target sockets know their key.                                          *)

(* Making a target socket gives it its key.                                *)
LEMMA EstablishKeys ==
  ASSUME TypeInv, NEW k \in Sessions, NEW i \in Ids, NEW s \in Sockets, NEW early,
         Establish(k, i, s, early)
  PROVE  KeysOK'
<1>1. /\ cConn' = [cConn EXCEPT ![k][i] = s]
      /\ tst' = [tst EXCEPT ![s] = "connecting"]
      /\ tKey' = [tKey EXCEPT ![s] = [sess |-> k, id |-> i]]
  BY DEF Establish
<1>2. /\ cConn \in [Sessions -> [Ids -> Sockets \cup {None}]]
      /\ tst \in [Sockets -> TStates]
      /\ tKey \in [Sockets -> [sess : Sessions, id : Ids] \cup {NoKey}]
      /\ KeysOK
  BY DEF TypeInv, TypeOK, ConnectionManagerTypeOK
<1>3. [sess |-> k, id |-> i] # NoKey
  BY DEF NoKey, Sessions
<1>4. \A t \in Sockets : tKey[t] # NoKey => tKey'[t] # NoKey
  BY <1>1, <1>2, <1>3
<1>5. tKey'[s] # NoKey
  BY <1>1, <1>2, <1>3
<1>6. \A t \in Sockets : tst'[t] # "none" => tKey'[t] # NoKey
  BY <1>1, <1>2, <1>4, <1>5 DEF KeysOK
<1>7. ASSUME NEW k2 \in Sessions, NEW i2 \in Ids, cConn'[k2][i2] # None
      PROVE  tKey'[cConn'[k2][i2]] # NoKey
  <2>1. CASE k2 = k /\ i2 = i
    BY <1>1, <1>2, <1>5, <2>1
  <2>2. CASE ~(k2 = k /\ i2 = i)
    <3>1. cConn'[k2][i2] = cConn[k2][i2]
      BY <1>1, <1>2, <2>2
    <3>2. cConn[k2][i2] \in Sockets /\ tKey[cConn[k2][i2]] # NoKey
      BY <1>2, <1>7, <3>1 DEF KeysOK
    <3> QED
      BY <1>4, <3>1, <3>2
  <2> QED
    BY <2>1, <2>2
<1> QED
  BY <1>6, <1>7 DEF KeysOK

(* A step that makes no target socket and adds nothing to a manager's Map  *)
(* changes only sockets that have a key.                                   *)
LEMMA KeysKept ==
  ASSUME KeysOK, UNCHANGED tKey,
         \A s \in Sockets : tst'[s] # "none" => tst[s] # "none" \/ tKey[s] # NoKey,
         \A k \in Sessions : \A i \in Ids : cConn'[k][i] \in {cConn[k][i], None}
  PROVE  KeysOK'
BY DEF KeysOK

(* A frame handled by the client keeps the keys.                           *)
LEMMA ClientHandlesKeys ==
  ASSUME TypeInv, NEW k \in Sessions, ClientHandles(k)
  PROVE  KeysOK'
<1> DEFINE f == Head(down[k])
<1>1. /\ KeysOK
      /\ cConn \in [Sessions -> [Ids -> Sockets \cup {None}]]
      /\ tst \in [Sockets -> TStates]
  BY DEF TypeInv, TypeOK, ConnectionManagerTypeOK
<1>2. Delivered(k)
  BY DEF ClientHandles, OpenRejected, OpenForbidden, OpenAddress, OpenName,
         DataConnected, DataOverflow, DataPending, DataUnknown, CloseFrame
<1>3. f \in Frames
  BY <1>2, TakeType DEF Delivered, TypeInv, TypeOK, TunnelTypeOK, Channels
<1>4. f.id \in Ids /\ (f.type = "OPEN" => f.pay.of \in Sockets)
  BY <1>3 DEF Frames
<1> HIDE DEF f
<1>5. \A j \in Sessions : \A i \in Ids :
        Removed(cConn, k, f.id)[j][i] \in {cConn[j][i], None}
  BY <1>1, <1>4 DEF Removed
<1>6. CASE \E h \in Hosts : OpenAddress(k, h)
  <2>1. f.type = "OPEN" /\ Establish(k, f.id, f.pay.of, <<>>)
    BY <1>6 DEF OpenAddress, f
  <2> QED
    BY <1>4, <2>1, EstablishKeys
<1>7. CASE \/ \E h \in Hosts : OpenRejected(k, h) \/ OpenForbidden(k, h) \/ OpenName(k, h)
           \/ DataPending(k)
           \/ DataUnknown(k)
  <2>1. UNCHANGED <<cConn, tst, tKey>>
    BY <1>7 DEF OpenRejected, OpenForbidden, OpenName, DataPending, DataUnknown
  <2> QED
    BY <1>1, <2>1 DEF KeysOK
<1>8. CASE DataConnected(k) \/ DataOverflow(k) \/ CloseFrame(k)
  <2>1. /\ cConn' = Removed(cConn, k, f.id) \/ cConn' = cConn
        /\ UNCHANGED tKey
    BY <1>8 DEF DataConnected, DataOverflow, CloseFrame, f
  <2>2. \A j \in Sessions : \A i \in Ids : cConn'[j][i] \in {cConn[j][i], None}
    BY <1>5, <2>1
  <2>3. \/ tst' = tst
        \/ /\ cConn[k][f.id] # None
           /\ \A s \in Sockets : s # cConn[k][f.id] => tst'[s] = tst[s]
        \/ \A s \in Sockets : tst'[s] # "none" => tst[s] # "none"
    <3>1. CASE DataConnected(k)
      BY <3>1 DEF DataConnected
    <3>2. CASE DataOverflow(k)
      <4>1. cConn[k][f.id] \in Slow /\ tst' = [tst EXCEPT ![cConn[k][f.id]] = "destroyed"]
        BY <3>2 DEF DataOverflow, f
      <4>2. cConn[k][f.id] # None
        BY <4>1, TunnelAssumption
      <4> QED
        BY <1>1, <4>1, <4>2
    <3>3. CASE CloseFrame(k)
      <4>1. tst' = IF cConn[k][f.id] = None THEN tst
                   ELSE [tst EXCEPT ![cConn[k][f.id]] = TDestroy(@)]
        BY <3>3 DEF CloseFrame, f
      <4> QED
        BY <1>1, <4>1
    <3> QED
      BY <1>8, <3>1, <3>2, <3>3
  <2>4. \A s \in Sockets : tst'[s] # "none" => tst[s] # "none" \/ tKey[s] # NoKey
    BY <1>1, <1>4, <2>3 DEF KeysOK
  <2> QED
    BY <1>1, <2>1, <2>2, <2>4, KeysKept
<1> QED
  BY <1>6, <1>7, <1>8 DEF ClientHandles

(* Every other step of the client keeps the keys.                          *)
LEMMA ClientKeys ==
  ASSUME TypeInv, ClientNext
  PROVE  KeysOK'
<1>1. /\ KeysOK
      /\ cConn \in [Sessions -> [Ids -> Sockets \cup {None}]]
      /\ tst \in [Sockets -> TStates]
      /\ tKey \in [Sockets -> [sess : Sessions, id : Ids] \cup {NoKey}]
      /\ dns \subseteq Lookups
  BY DEF TypeInv, TypeOK, ConnectionManagerTypeOK
<1>2. CASE \E k \in Sessions : ClientHandles(k)
  BY <1>2, ClientHandlesKeys
<1>3. CASE \E k \in Sessions : ClientShuts(k)
  BY <1>1, <1>3 DEF ClientShuts, cliVars, KeysOK
<1>4. ASSUME NEW k \in Sessions, ClientWsClosed(k)
      PROVE  KeysOK'
  <2>1. CloseAllTargets(k) /\ UNCHANGED tKey
    BY <1>4 DEF ClientWsClosed
  <2>2. \A j \in Sessions : \A i \in Ids : cConn'[j][i] \in {cConn[j][i], None}
    BY <1>1, <2>1 DEF CloseAllTargets
  <2>3. ASSUME NEW s \in Sockets, tst'[s] # "none"
        PROVE  tst[s] # "none" \/ tKey[s] # NoKey
    <3>1. CASE \E i \in Ids : cConn[k][i] = s
      <4>1. PICK i \in Ids : cConn[k][i] = s
        BY <3>1
      <4>2. cConn[k][i] # None
        BY <4>1, TunnelAssumption
      <4> QED
        BY <1>1, <4>1, <4>2 DEF KeysOK
    <3>2. CASE ~(\E i \in Ids : cConn[k][i] = s)
      BY <2>1, <2>3, <3>2 DEF CloseAllTargets
    <3> QED
      BY <3>1, <3>2
  <2> QED
    BY <1>1, <2>1, <2>2, <2>3, KeysKept
<1>5. ASSUME NEW d \in dns, Resolves(d)
      PROVE  KeysOK'
  <2>1. d.sess \in Sessions /\ d.id \in Ids /\ d.of \in Sockets
    BY <1>1 DEF Lookups
  <2>2. CASE LookupSucceeds(d)
    BY <2>1, <2>2, EstablishKeys DEF LookupSucceeds
  <2>3. CASE LookupStale(d) \/ LookupFails(d)
    BY <1>1, <2>3 DEF LookupStale, LookupFails, KeysOK
  <2> QED
    BY <1>5, <2>2, <2>3 DEF Resolves
<1>6. ASSUME NEW s \in Sockets,
             \/ TargetConnects(s) \/ TargetSends(s) \/ TargetEnds(s)
             \/ TargetFails(s) \/ TargetClosed(s)
      PROVE  KeysOK'
  <2>1. /\ tst[s] # "none"
        /\ UNCHANGED tKey
        /\ \A t \in Sockets \ {s} : tst'[t] = tst[t]
    BY <1>1, <1>6 DEF TargetConnects, TargetSends, TargetEnds, TargetFails, TargetClosed
  <2>2. tKey[s] \in [sess : Sessions, id : Ids]
    BY <1>1, <2>1 DEF KeysOK
  <2>3. cConn' = cConn \/ cConn' = Removed(cConn, tKey[s].sess, tKey[s].id)
    BY <1>6 DEF TargetConnects, TargetSends, TargetEnds, TargetFails, TargetClosed,
                TargetCleanup
  <2>4. \A j \in Sessions : \A i \in Ids : cConn'[j][i] \in {cConn[j][i], None}
    BY <1>1, <2>2, <2>3 DEF Removed
  <2>5. \A t \in Sockets : tst'[t] # "none" => tst[t] # "none" \/ tKey[t] # NoKey
    BY <2>1
  <2> QED
    BY <1>1, <2>1, <2>4, <2>5, KeysKept
<1> QED
  BY <1>2, <1>3, <1>4, <1>5, <1>6 DEF ClientNext

-----------------------------------------------------------------------------
(* A step of the server and a step of the client keep TypeInv.             *)
LEMMA TypeStep ==
  ASSUME TypeInv, [Next]_vars
  PROVE  TypeInv'
<1>1. CASE ServerNext /\ UNCHANGED cliVars
  <2>1. TunnelTypeOK' /\ FrameProtocolTypeOK'
    <3>1. TypeOK
      BY DEF TypeInv
    <3>2. \/ \E s \in Sockets : \E m \in Methods :
               (\E extra \in BOOLEAN : Request(s, m, extra)) \/ Refuse(s, m)
          \/ \E s \in Sockets : \/ BrowserSend(s) \/ BrowserEnd(s) \/ BrowserAbort(s)
                                \/ EndingDestroyed(s) \/ BrowserClosed(s) \/ BrowserRead(s)
          \/ \E k \in Sessions : ServerHandles(k)
          \/ \E k \in Sessions : Connection(k) \/ ServerShuts(k) \/ ServerWsClosed(k)
      BY <1>1 DEF ServerNext
    <3> QED
      BY <3>1, <3>2, RequestType, BrowserType, ServerHandlesType, SessionType
  <2>2. ConnectionManagerTypeOK' /\ KeysOK'
    BY <1>1 DEF TypeInv, TypeOK, ConnectionManagerTypeOK, KeysOK, cliVars
  <2> QED
    BY <2>1, <2>2 DEF TypeInv, TypeOK
<1>2. CASE ClientNext /\ UNCHANGED srvVars
  <2>1. TunnelTypeOK' /\ ConnectionManagerTypeOK'
    <3>1. \/ \E k \in Sessions : ClientHandles(k)
          \/ \E k \in Sessions : ClientShuts(k) \/ ClientWsClosed(k)
          \/ \E d \in dns : Resolves(d)
          \/ \E s \in Sockets : \/ TargetConnects(s) \/ TargetSends(s) \/ TargetEnds(s)
                                \/ TargetFails(s) \/ TargetClosed(s)
      BY <1>2 DEF ClientNext
    <3> QED
      BY <3>1, ClientHandlesType, ClientSessionType, ResolvesType, TargetType
  <2>2. KeysOK'
    BY <1>2, ClientKeys
  <2>3. FrameProtocolTypeOK'
    BY <1>2 DEF TypeInv, TypeOK, FrameProtocolTypeOK, srvVars
  <2> QED
    BY <2>1, <2>2, <2>3 DEF TypeInv, TypeOK
<1>3. CASE UNCHANGED vars
  BY <1>3 DEF vars, srvVars, cliVars, tunnelVars, TypeInv, TypeOK, TunnelTypeOK,
              FrameProtocolTypeOK, ConnectionManagerTypeOK, KeysOK
<1> QED
  BY <1>1, <1>2, <1>3 DEF Next

(* Every reachable state is type correct, and every target socket that has *)
(* been made knows its session and id (frameProtocol.js,                   *)
(* connectionManager.js and the channels between them).                    *)
THEOREM KeyedTypes == Spec => []TypeInv
<1>1. Init => TypeInv
  <2> SUFFICES ASSUME Init PROVE TypeInv
    OBVIOUS
  <2> USE DEF Init
  <2>1. TunnelTypeOK
    BY DEF TunnelInit, TunnelTypeOK, WsStates
  <2>2. FrameProtocolTypeOK
    <3>1. waiting \in [Sockets -> BOOLEAN]
      BY Zenon DEF FrameProtocolInit
    <3> QED
      BY <3>1, TunnelAssumption, FrameProtocolAssumption
         DEF FrameProtocolInit, FrameProtocolTypeOK, BStates
  <2>3. ConnectionManagerTypeOK
    BY DEF ConnectionManagerInit, ConnectionManagerTypeOK, TStates
  <2>4. KeysOK
    BY DEF ConnectionManagerInit, KeysOK
  <2> QED
    BY <2>1, <2>2, <2>3, <2>4 DEF TypeInv, TypeOK
<1>2. TypeInv /\ [Next]_vars => TypeInv'
  BY TypeStep
<1> QED
  BY <1>1, <1>2, PTL DEF Spec

(* Maps hold sockets, ids stay in range, channels carry frames.            *)
THEOREM TypeCorrect == Spec => []TypeOK
<1>1. TypeInv => TypeOK
  BY DEF TypeInv
<1> QED
  BY <1>1, KeyedTypes, PTL

-----------------------------------------------------------------------------
(* The Map of frameProtocol.js.  RegisteredInSession is inductive once the *)
(* types are known: a 'close' of the protocol removes whatever it          *)
(* destroys, the events of a socket remove the entry of its own id, and a  *)
(* session that begins or ends finds nothing to leave behind.              *)

(* A step that moves no entry, and takes no socket of the Map out of the   *)
(* states it may be in, keeps the Map in order.                            *)
LEMMA MapKept ==
  ASSUME TypeInv, RegisteredInSession, UNCHANGED <<activeWs, regSess, regId>>,
         \A i \in Ids : conns'[i] = None \/
           (conns'[i] = conns[i] /\ (conns[i] \in Sockets =>
              bst'[conns[i]] = bst[conns[i]]
              \/ bst'[conns[i]] \in {"open", "ending", "destroyed"}))
  PROVE  RegisteredInSession'
<1> SUFFICES ASSUME NEW i \in Ids, conns'[i] # None
             PROVE  /\ activeWs' # 0
                    /\ regSess'[conns'[i]] = activeWs'
                    /\ regId'[conns'[i]] = i
                    /\ bst'[conns'[i]] \in {"open", "ending", "destroyed"}
  BY DEF RegisteredInSession
<1>1. conns'[i] = conns[i] /\ conns[i] # None
  OBVIOUS
<1>2. conns[i] \in Sockets
  BY <1>1 DEF TypeInv, TypeOK, FrameProtocolTypeOK
<1> QED
  BY <1>1, <1>2 DEF RegisteredInSession

(* A 'close' of the protocol leaves the entries it keeps in order.         *)
LEMMA EvictMap ==
  ASSUME TypeInv, RegisteredInSession, NEW I, Evict(I)
  PROVE  \A i \in Ids : conns'[i] = None \/
           (conns'[i] = conns[i] /\ (conns[i] \in Sockets =>
              bst'[conns[i]] = bst[conns[i]]
              \/ bst'[conns[i]] \in {"open", "ending", "destroyed"}))
<1> SUFFICES ASSUME NEW i \in Ids, conns'[i] # None
             PROVE  /\ conns'[i] = conns[i]
                    /\ conns[i] \in Sockets =>
                         bst'[conns[i]] = bst[conns[i]]
                         \/ bst'[conns[i]] \in {"open", "ending", "destroyed"}
  OBVIOUS
<1>1. conns'[i] = conns[i]
  BY DEF Evict
<1>2. ASSUME conns[i] \in Sockets
      PROVE  bst[conns[i]] \in {"open", "ending", "destroyed"}
  BY <1>1 DEF RegisteredInSession
<1>3. ASSUME conns[i] \in Sockets
      PROVE  bst'[conns[i]] = bst[conns[i]] \/ bst'[conns[i]] = Destroy(bst[conns[i]])
  BY <1>3 DEF Evict
<1> QED
  BY <1>1, <1>2, <1>3 DEF Destroy

(* The cleanup of a socket takes it out of the Map.                        *)
LEMMA CleanupMap ==
  ASSUME TypeInv, RegisteredInSession, NEW s \in Sockets, Cleanup(s)
  PROVE  \A i \in Ids : conns'[i] = None \/ (conns'[i] = conns[i] /\ conns[i] # s)
<1> SUFFICES ASSUME NEW i \in Ids, conns'[i] # None
             PROVE  conns'[i] = conns[i] /\ conns[i] # s
  OBVIOUS
<1>1. conns \in [Ids -> Sockets \cup {None}] /\ s # None
  BY TunnelAssumption DEF TypeInv, TypeOK, FrameProtocolTypeOK
<1>2. CASE i = regId[s]
  <2>1. i # 0
    BY DEF Ids
  <2> QED
    BY <1>1, <1>2, <2>1 DEF Cleanup
<1>3. CASE i # regId[s]
  <2>1. conns'[i] = conns[i]
    BY <1>1, <1>3 DEF Cleanup
  <2>2. regId[conns[i]] = i
    BY <2>1 DEF RegisteredInSession
  <2> QED
    BY <1>3, <2>1, <2>2
<1> QED
  BY <1>2, <1>3

(* A session that begins or ends leaves an empty Map behind.               *)
LEMMA SessionMap ==
  ASSUME TypeInv, RegisteredInSession, NEW k \in Sessions,
         Connection(k) \/ ServerWsClosed(k)
  PROVE  RegisteredInSession'
<1>1. CASE activeWs = 0
  <2>1. \A i \in Ids : conns[i] = None
    BY <1>1 DEF RegisteredInSession
  <2>2. \A i \in Ids : conns'[i] = None
    BY <2>1 DEF Connection, ServerWsClosed, TunnelClose, Evict
  <2> QED
    BY <2>2 DEF RegisteredInSession
<1>2. CASE activeWs # 0 /\ (Connection(k) \/ activeWs = k)
  <2>1. Evict(Registered)
    BY <1>2 DEF Connection, ServerWsClosed, TunnelClose
  <2>2. \A i \in Ids : conns'[i] = None
    BY <2>1 DEF Evict, Registered
  <2> QED
    BY <2>2 DEF RegisteredInSession
<1>3. CASE ServerWsClosed(k) /\ activeWs # k
  <2>1. Evict({}) /\ UNCHANGED <<activeWs, regSess, regId>>
    BY <1>3 DEF ServerWsClosed, TunnelClose
  <2> QED
    BY <2>1, EvictMap, MapKept
<1> QED
  BY <1>1, <1>2, <1>3

(* A request registers a socket that is not in the Map yet.                *)
LEMMA RequestMap ==
  ASSUME TypeInv, RegisteredInSession, NEW s \in Sockets, NEW m \in Methods,
         NEW extra \in BOOLEAN, Request(s, m, extra)
  PROVE  RegisteredInSession'
<1> DEFINE j == Candidate(FirstFree)
<1>1. /\ conns \in [Ids -> Sockets \cup {None}]
      /\ bst \in [Sockets -> BStates]
      /\ regId \in [Sockets -> 0 .. IdLimit]
      /\ regSess \in [Sockets -> 0 .. NumSessions]
  BY DEF TypeInv, TypeOK, FrameProtocolTypeOK
<1>2. /\ conns' = [conns EXCEPT ![j] = s]
      /\ regId' = [regId EXCEPT ![s] = j]
      /\ regSess' = [regSess EXCEPT ![s] = activeWs]
      /\ bst' = [bst EXCEPT ![s] = IF m = "badhttp" THEN "ending" ELSE "open"]
      /\ activeWs' = activeWs /\ activeWs # 0
      /\ bst[s] = "idle"
  BY DEF Request, IsReady
<1> HIDE DEF j
<1>3. \A i \in Ids : conns[i] # s
  <2>1. s # None
    BY TunnelAssumption
  <2> QED
    BY <1>2, <2>1 DEF RegisteredInSession
<1> SUFFICES ASSUME NEW i \in Ids, conns'[i] # None
             PROVE  /\ activeWs' # 0
                    /\ regSess'[conns'[i]] = activeWs'
                    /\ regId'[conns'[i]] = i
                    /\ bst'[conns'[i]] \in {"open", "ending", "destroyed"}
  BY DEF RegisteredInSession
<1>4. CASE i = j
  BY <1>1, <1>2, <1>4
<1>5. CASE i # j
  <2>1. conns'[i] = conns[i] /\ conns[i] \in Sockets \ {s}
    BY <1>1, <1>2, <1>3, <1>5
  <2> QED
    BY <1>1, <1>2, <2>1 DEF RegisteredInSession
<1> QED
  BY <1>4, <1>5

(* An event of a browser socket, or a request that is refused.             *)
LEMMA BrowserMap ==
  ASSUME TypeInv, RegisteredInSession, NEW s \in Sockets,
         \/ \E m \in Methods : Refuse(s, m)
         \/ BrowserSend(s) \/ BrowserEnd(s) \/ BrowserAbort(s)
         \/ EndingDestroyed(s) \/ BrowserClosed(s) \/ BrowserRead(s)
  PROVE  RegisteredInSession'
<1>1. bst \in [Sockets -> BStates]
  BY DEF TypeInv, TypeOK, FrameProtocolTypeOK
<1>2. CASE \E m \in Methods : Refuse(s, m)
  BY <1>1, <1>2, MapKept DEF Refuse
<1>3. CASE BrowserSend(s) \/ BrowserRead(s)
  BY <1>3, MapKept DEF BrowserSend, BrowserRead
<1>4. CASE BrowserAbort(s) \/ EndingDestroyed(s)
  BY <1>1, <1>4, MapKept DEF BrowserAbort, EndingDestroyed
<1>5. CASE BrowserEnd(s) \/ BrowserClosed(s)
  <2>1. /\ Cleanup(s)
        /\ UNCHANGED <<activeWs, regSess, regId>>
        /\ \A w \in Sockets : w # s => bst'[w] = bst[w]
    BY <1>1, <1>5 DEF BrowserEnd, BrowserClosed
  <2>2. \A i \in Ids : conns'[i] = None \/ (conns'[i] = conns[i] /\ conns[i] # s)
    BY <2>1, CleanupMap
  <2> QED
    BY <2>1, <2>2, MapKept
<1> QED
  BY <1>2, <1>3, <1>4, <1>5

(* A frame handled by the server.                                          *)
LEMMA FrameMap ==
  ASSUME TypeInv, RegisteredInSession, NEW k \in Sessions, ServerHandles(k)
  PROVE  RegisteredInSession'
<1> DEFINE f == Head(up[k])
<1>1. /\ conns \in [Ids -> Sockets \cup {None}]
      /\ bst \in [Sockets -> BStates]
  BY DEF TypeInv, TypeOK, FrameProtocolTypeOK
<1>2. UNCHANGED <<activeWs, regSess, regId>>
  BY DEF ServerHandles, FrameUnknown, FrameData, FrameClose, FrameOpenAck, Arrives
<1>3. CASE FrameUnknown(k) \/ FrameOpenAck(k)
  BY <1>2, <1>3, MapKept DEF FrameUnknown, FrameOpenAck
<1>4. CASE FrameClose(k)
  BY <1>2, <1>4, EvictMap, MapKept DEF FrameClose
<1>5. CASE FrameData(k)
  <2>1. /\ conns' = conns \/ conns' = [conns EXCEPT ![f.id] = None]
        /\ bst' = bst \/ bst' = [bst EXCEPT ![conns[f.id]] = "destroyed"]
    BY <1>5 DEF FrameData
  <2> HIDE DEF f
  <2>2. \A i \in Ids : conns'[i] = None \/ conns'[i] = conns[i]
    BY <1>1, <2>1
  <2>3. \A w \in Sockets : bst'[w] = bst[w] \/ bst'[w] \in {"open", "ending", "destroyed"}
    BY <1>1, <2>1
  <2> QED
    BY <1>2, <2>2, <2>3, MapKept
<1> QED
  BY <1>3, <1>4, <1>5 DEF ServerHandles

(* A browser connection in the Map of frameProtocol.js belongs to the      *)
(* active session, sits under its own id and is alive or about to report   *)
(* 'close', whatever sessions, browsers and targets did before.            *)
THEOREM MapOfActiveSession == Spec => []RegisteredInSession
<1>1. Init => RegisteredInSession
  BY DEF Init, FrameProtocolInit, RegisteredInSession
<1>2. TypeInv /\ RegisteredInSession /\ [Next]_vars => RegisteredInSession'
  <2> SUFFICES ASSUME TypeInv, RegisteredInSession, [Next]_vars
               PROVE  RegisteredInSession'
    OBVIOUS
  <2>1. CASE ServerNext
    <3>1. CASE \E k \in Sessions : ServerShuts(k)
      BY <3>1 DEF ServerShuts, srvVars, RegisteredInSession
    <3> QED
      BY <2>1, <3>1, RequestMap, BrowserMap, FrameMap, SessionMap DEF ServerNext
  <2>2. CASE UNCHANGED srvVars
    BY <2>2 DEF srvVars, RegisteredInSession
  <2> QED
    BY <2>1, <2>2 DEF Next, vars
<1> QED
  BY <1>1, <1>2, KeyedTypes, PTL DEF Spec

-----------------------------------------------------------------------------
(* What any step but those of the sessions leaves alone.                   *)
LEMMA SessionsKept ==
  ASSUME [Next]_vars
  PROVE  \/ UNCHANGED <<activeWs, srvWs>>
         \/ \E k \in Sessions : Connection(k) \/ ServerShuts(k) \/ ServerWsClosed(k)
<1> DEFINE Kept == UNCHANGED <<activeWs, srvWs>>
<1>1. ASSUME NEW s \in Sockets,
             \/ \E m \in Methods : (\E extra \in BOOLEAN : Request(s, m, extra)) \/ Refuse(s, m)
             \/ BrowserSend(s) \/ BrowserEnd(s) \/ BrowserAbort(s)
             \/ EndingDestroyed(s) \/ BrowserClosed(s) \/ BrowserRead(s)
      PROVE  Kept
  BY <1>1 DEF Request, Refuse, BrowserSend, BrowserEnd, BrowserAbort, EndingDestroyed,
     BrowserClosed, BrowserRead, tunnelVars
<1>2. ASSUME NEW k \in Sessions, ServerHandles(k)
      PROVE  Kept
  BY <1>2 DEF ServerHandles, FrameUnknown, FrameData, FrameClose, FrameOpenAck, Arrives
<1>3. ASSUME NEW k \in Sessions, ClientHandles(k)
      PROVE  srvWs' = srvWs
  BY <1>3 DEF ClientHandles, OpenRejected, OpenForbidden, OpenAddress, OpenName,
     DataConnected, DataOverflow, DataPending, DataUnknown, CloseFrame, Delivered
<1>4. ASSUME NEW k \in Sessions, ClientShuts(k) \/ ClientWsClosed(k)
      PROVE  srvWs' = srvWs
  BY <1>4 DEF ClientShuts, ClientWsClosed
<1>5. ASSUME NEW d \in dns, Resolves(d)
      PROVE  srvWs' = srvWs
  BY <1>5 DEF Resolves, LookupStale, LookupFails, LookupSucceeds, tunnelVars
<1>6. ASSUME NEW s \in Sockets,
             \/ TargetConnects(s) \/ TargetSends(s) \/ TargetEnds(s)
             \/ TargetFails(s) \/ TargetClosed(s)
      PROVE  srvWs' = srvWs
  BY <1>6 DEF TargetConnects, TargetSends, TargetEnds, TargetFails, TargetClosed
<1>7. CASE ClientNext /\ UNCHANGED srvVars
  BY <1>3, <1>4, <1>5, <1>6, <1>7 DEF ClientNext, srvVars
<1>8. CASE ServerNext
  BY <1>1, <1>2, <1>8 DEF ServerNext
<1>9. CASE UNCHANGED vars
  BY <1>9 DEF vars, srvVars, tunnelVars
<1> QED
  BY <1>7, <1>8, <1>9 DEF Next

(* An open WebSocket is the one the server sends on: tunnelServer.js shuts *)
(* the one it replaces, and its late 'close' leaves activeWs alone.        *)
THEOREM OneSessionSentOn == Spec => []OpenSessionActive
<1>1. Init => OpenSessionActive
  BY DEF Init, TunnelInit, OpenSessionActive
<1>2. TypeInv /\ OpenSessionActive /\ [Next]_vars => OpenSessionActive'
  <2> SUFFICES ASSUME TypeInv, OpenSessionActive, [Next]_vars
               PROVE  OpenSessionActive'
    OBVIOUS
  <2>1. srvWs \in [Sessions -> WsStates]
    BY DEF TypeInv, TypeOK, TunnelTypeOK
  <2>2. ASSUME NEW k \in Sessions, Connection(k)
        PROVE  OpenSessionActive'
    <3>1. /\ activeWs' = k
          /\ srvWs' = [(IF activeWs = 0 THEN srvWs ELSE Shut(srvWs, activeWs))
                         EXCEPT ![k] = "open"]
      BY <2>2 DEF Connection
    <3>2. ASSUME NEW j \in Sessions, j # k
          PROVE  srvWs'[j] # "open"
      <4>1. CASE activeWs = 0
        BY <2>1, <3>1, <3>2, <4>1 DEF OpenSessionActive, Sessions
      <4>2. CASE activeWs # 0
        <5>1. srvWs'[j] = Shut(srvWs, activeWs)[j]
          BY <2>1, <3>1, <3>2, <4>2 DEF Shut
        <5>2. srvWs[j] = "open" => j = activeWs
          BY DEF OpenSessionActive
        <5> QED
          BY <2>1, <5>1, <5>2 DEF Shut
      <4> QED
        BY <4>1, <4>2
    <3> QED
      BY <3>1, <3>2 DEF OpenSessionActive
  <2>3. ASSUME NEW k \in Sessions, ServerShuts(k) \/ ServerWsClosed(k)
        PROVE  OpenSessionActive'
    <3>1. \A j \in Sessions : srvWs'[j] = "open" => srvWs[j] = "open"
      BY <2>1, <2>3 DEF ServerShuts, ServerWsClosed, Shut
    <3>2. activeWs' = activeWs \/ (activeWs = k /\ srvWs'[k] # "open")
      BY <2>1, <2>3 DEF ServerShuts, ServerWsClosed, srvVars
    <3> QED
      BY <3>1, <3>2 DEF OpenSessionActive
  <2>4. CASE UNCHANGED <<activeWs, srvWs>>
    BY <2>4 DEF OpenSessionActive
  <2> QED
    BY <2>2, <2>3, <2>4, SessionsKept
<1> QED
  BY <1>1, <1>2, KeyedTypes, PTL DEF Spec

-----------------------------------------------------------------------------
(* An id is given out only when no live connection holds it, whatever      *)
(* nextConnectionId has wrapped to (registerConnection).                   *)
THEOREM IdsNeverTakenOver == Spec => NoIdTakenOver
<1> DEFINE Kept == \A i \in Ids : conns[i] # None => conns'[i] \in {conns[i], None}
<1>1. TypeInv /\ [Next]_vars => Kept
  <2> SUFFICES ASSUME TypeInv, [Next]_vars PROVE Kept
    OBVIOUS
  <2>1. conns \in [Ids -> Sockets \cup {None}]
    BY DEF TypeInv, TypeOK, FrameProtocolTypeOK
  <2>2. ASSUME NEW s \in Sockets, NEW m \in Methods, NEW extra \in BOOLEAN,
               Request(s, m, extra)
        PROVE  Kept
    <3>1. conns[Candidate(FirstFree)] = None
      BY <2>2, FirstFreeExists DEF Request, FreeAttempts
    <3>2. conns' = [conns EXCEPT ![Candidate(FirstFree)] = s]
      BY <2>2 DEF Request
    <3> QED
      BY <2>1, <3>1, <3>2
  <2>3. ASSUME NEW s \in Sockets,
               \/ \E m \in Methods : Refuse(s, m)
               \/ BrowserSend(s) \/ BrowserAbort(s) \/ EndingDestroyed(s) \/ BrowserRead(s)
        PROVE  Kept
    BY <2>3 DEF Refuse, BrowserSend, BrowserAbort, EndingDestroyed, BrowserRead
  <2>4. ASSUME NEW s \in Sockets, BrowserEnd(s) \/ BrowserClosed(s)
        PROVE  Kept
    BY <2>1, <2>4 DEF BrowserEnd, BrowserClosed, Cleanup
  <2>5. ASSUME NEW k \in Sessions, ServerHandles(k)
        PROVE  Kept
    <3>1. \/ conns' = conns
          \/ \E i \in Ids : conns' = [conns EXCEPT ![i] = None]
          \/ \E I : Evict(I)
      <4>1. CASE FrameUnknown(k) \/ FrameOpenAck(k)
        BY <4>1 DEF FrameUnknown, FrameOpenAck
      <4>2. CASE FrameClose(k)
        BY <4>2 DEF FrameClose
      <4>3. CASE FrameData(k)
        <5>1. Head(up[k]) \in Frames
          BY <4>3, TakeType DEF FrameData, Arrives, TypeInv, TypeOK, TunnelTypeOK, Channels
        <5>2. Head(up[k]).id \in Ids
          BY <5>1 DEF Frames
        <5> QED
          BY <4>3, <5>2 DEF FrameData
      <4> QED
        BY <2>5, <4>1, <4>2, <4>3 DEF ServerHandles
    <3> QED
      BY <2>1, <3>1 DEF Evict
  <2>6. ASSUME NEW k \in Sessions, Connection(k) \/ ServerShuts(k) \/ ServerWsClosed(k)
        PROVE  Kept
    BY <2>6 DEF Connection, ServerShuts, ServerWsClosed, TunnelClose, Evict, srvVars
  <2>7. CASE UNCHANGED srvVars
    BY <2>7 DEF srvVars
  <2> QED
    BY <2>2, <2>3, <2>4, <2>5, <2>6, <2>7 DEF Next, ServerNext, vars
<1> QED
  BY <1>1, KeyedTypes, PTL DEF Spec, NoIdTakenOver

-----------------------------------------------------------------------------
(* The limits of connectionManager.js.  WithinLimits is inductive once the *)
(* types are known: OPEN adds one id under both limits, and a lookup that  *)
(* succeeds moves an id from the pending Map to the other.                 *)

(* The ids in use are finitely many.                                       *)
LEMMA IdsFinite ==
  ASSUME NEW T \in SUBSET Ids
  PROVE  IsFiniteSet(T) /\ Cardinality(T) \in Nat
<1>1. IsFiniteSet(Ids)
  BY FS_Interval, TunnelAssumption DEF Ids
<1>2. IsFiniteSet(T)
  BY <1>1, FS_Subset
<1> QED
  BY <1>2, FS_CardinalityType

(* The limits of one session, for sets of connected and pending ids.       *)
Fits(C, P) == /\ Cardinality(C) + Cardinality(P) <= MaxConnections
              /\ Cardinality(P) <= MaxPending

(* Fewer ids fit.                                                          *)
LEMMA FewerFit ==
  ASSUME NEW C \in SUBSET Ids, NEW P \in SUBSET Ids, Fits(C, P),
         NEW C2 \in SUBSET C, NEW P2 \in SUBSET P
  PROVE  Fits(C2, P2)
<1>1. IsFiniteSet(C) /\ IsFiniteSet(P)
  BY IdsFinite
<1>2. Cardinality(C2) <= Cardinality(C) /\ Cardinality(P2) <= Cardinality(P)
  BY <1>1, FS_Subset
<1>3. /\ Cardinality(C) \in Nat /\ Cardinality(P) \in Nat
      /\ Cardinality(C2) \in Nat /\ Cardinality(P2) \in Nat
  BY IdsFinite
<1>4. MaxConnections \in Nat /\ MaxPending \in Nat
  BY ConnectionManagerAssumption
<1> QED
  BY <1>2, <1>3, <1>4 DEF Fits

(* One more id fits below the limits, and a pending one may be connected.  *)
LEMMA OneMoreFits ==
  ASSUME NEW C \in SUBSET Ids, NEW P \in SUBSET Ids, Fits(C, P), NEW i \in Ids
  PROVE  /\ Cardinality(C) + Cardinality(P) < MaxConnections => Fits(C \cup {i}, P)
         /\ /\ Cardinality(C) + Cardinality(P) < MaxConnections
            /\ Cardinality(P) < MaxPending
            => Fits(C, P \cup {i})
         /\ i \in P => Fits(C \cup {i}, P \ {i})
<1>1. IsFiniteSet(C) /\ IsFiniteSet(P)
  BY IdsFinite
<1>2. Cardinality(C) \in Nat /\ Cardinality(P) \in Nat
  BY IdsFinite
<1>3. Cardinality(C \cup {i}) \in {Cardinality(C), Cardinality(C) + 1}
  BY <1>1, FS_AddElement
<1>4. Cardinality(P \cup {i}) \in {Cardinality(P), Cardinality(P) + 1}
  BY <1>1, FS_AddElement
<1>5. i \in P => Cardinality(P \ {i}) = Cardinality(P) - 1
  BY <1>1, FS_RemoveElement
<1>6. MaxConnections \in Nat /\ MaxPending \in Nat
  BY ConnectionManagerAssumption
<1> QED
  BY <1>2, <1>3, <1>4, <1>5, <1>6 DEF Fits

(* The limits, session by session.                                         *)
LEMMA LimitsAre ==
  /\ WithinLimits <=> \A k \in Sessions : Fits(Connected(k), Pending(k))
  /\ \A k \in Sessions : Connected(k) \subseteq Ids /\ Pending(k) \subseteq Ids
BY DEF WithinLimits, Fits, Connected, Pending

(* A step that only forgets ids keeps the limits.                          *)
LEMMA LimitsKept ==
  ASSUME WithinLimits,
         \A k \in Sessions : \A i \in Ids :
           /\ cConn'[k][i] # None => cConn[k][i] # None
           /\ pend'[k][i] # None => pend[k][i] # None
  PROVE  WithinLimits'
<1> SUFFICES ASSUME NEW k \in Sessions
             PROVE  /\ Cardinality(Connected(k)') + Cardinality(Pending(k)') <= MaxConnections
                    /\ Cardinality(Pending(k)') <= MaxPending
  BY DEF WithinLimits
<1>1. Connected(k)' \subseteq Connected(k) /\ Pending(k)' \subseteq Pending(k)
  BY DEF Connected, Pending
<1>2. Fits(Connected(k), Pending(k)) /\ Connected(k) \subseteq Ids /\ Pending(k) \subseteq Ids
  BY LimitsAre
<1>3. Fits(Connected(k)', Pending(k)')
  BY <1>1, <1>2, FewerFit
<1> QED
  BY <1>3 DEF Fits

(* A step that changes the ids of one session, to ones that fit.           *)
LEMMA LimitsOfOne ==
  ASSUME WithinLimits, NEW k \in Sessions,
         Fits(Connected(k)', Pending(k)'),
         \A j \in Sessions \ {k} : cConn'[j] = cConn[j] /\ pend'[j] = pend[j]
  PROVE  WithinLimits'
<1> SUFFICES ASSUME NEW j \in Sessions
             PROVE  /\ Cardinality(Connected(j)') + Cardinality(Pending(j)') <= MaxConnections
                    /\ Cardinality(Pending(j)') <= MaxPending
  BY DEF WithinLimits
<1>1. CASE j = k
  BY <1>1 DEF Fits
<1>2. CASE j # k
  <2>1. Connected(j)' = Connected(j) /\ Pending(j)' = Pending(j)
    BY <1>2 DEF Connected, Pending
  <2> QED
    BY <2>1 DEF WithinLimits
<1> QED
  BY <1>1, <1>2

(* A target socket is made for an id below the limit or a pending one.     *)
LEMMA EstablishLimits ==
  ASSUME TypeInv, WithinLimits, NEW k \in Sessions, NEW i \in Ids, NEW s \in Sockets,
         NEW early, Establish(k, i, s, early), ~Full(k) \/ pend[k][i] # None
  PROVE  WithinLimits'
<1>1. /\ cConn \in [Sessions -> [Ids -> Sockets \cup {None}]]
      /\ pend \in [Sessions -> [Ids -> Seq(Payloads) \cup {None}]]
  BY DEF TypeInv, TypeOK, ConnectionManagerTypeOK
<1>2. /\ cConn' = [cConn EXCEPT ![k][i] = s]
      /\ pend' = [pend EXCEPT ![k][i] = None]
  BY DEF Establish, Removed
<1>3. s # None
  BY TunnelAssumption
<1>4. Connected(k)' = Connected(k) \cup {i} /\ Pending(k)' = Pending(k) \ {i}
  BY <1>1, <1>2, <1>3 DEF Connected, Pending
<1>5. Fits(Connected(k), Pending(k)) /\ Connected(k) \subseteq Ids /\ Pending(k) \subseteq Ids
  BY LimitsAre
<1>6. Fits(Connected(k) \cup {i}, Pending(k) \ {i})
  <2>1. CASE pend[k][i] # None
    <3>1. i \in Pending(k)
      BY <2>1 DEF Pending
    <3> QED
      BY <1>5, <3>1, OneMoreFits
  <2>2. CASE ~Full(k)
    <3>1. Cardinality(Connected(k)) + Cardinality(Pending(k)) < MaxConnections
      <4>1. Cardinality(Connected(k)) \in Nat /\ Cardinality(Pending(k)) \in Nat
        BY <1>5, IdsFinite
      <4> QED
        BY <2>2, <4>1, ConnectionManagerAssumption DEF Full
    <3>2. Fits(Connected(k) \cup {i}, Pending(k))
      BY <1>5, <3>1, OneMoreFits
    <3>3. Connected(k) \cup {i} \subseteq Ids
      BY <1>5
    <3> QED
      BY <1>5, <3>2, <3>3, FewerFit
  <2> QED
    BY <2>1, <2>2
<1>7. \A j \in Sessions \ {k} : cConn'[j] = cConn[j] /\ pend'[j] = pend[j]
  BY <1>1, <1>2
<1> QED
  BY <1>4, <1>6, <1>7, LimitsOfOne

(* A lookup begins below both limits.                                      *)
LEMMA OpenNameLimits ==
  ASSUME TypeInv, WithinLimits, NEW k \in Sessions, NEW h \in Hosts, OpenName(k, h)
  PROVE  WithinLimits'
<1> DEFINE i == Head(down[k]).id
<1>1. /\ cConn' = cConn
      /\ pend' = [pend EXCEPT ![k][i] = <<>>]
      /\ ~Full(k)
  BY DEF OpenName
<1>2. i \in Ids
  <2>1. Head(down[k]) \in Frames
    BY TakeType DEF OpenName, Delivered, TypeInv, TypeOK, TunnelTypeOK, Channels
  <2> QED
    BY <2>1 DEF Frames
<1> HIDE DEF i
<1>3. pend \in [Sessions -> [Ids -> Seq(Payloads) \cup {None}]]
  BY DEF TypeInv, TypeOK, ConnectionManagerTypeOK
<1>4. Connected(k)' = Connected(k) /\ Pending(k)' \subseteq Pending(k) \cup {i}
  BY <1>1, <1>2, <1>3 DEF Connected, Pending
<1>5. Fits(Connected(k), Pending(k)) /\ Connected(k) \subseteq Ids /\ Pending(k) \subseteq Ids
  BY LimitsAre
<1>6. /\ Cardinality(Connected(k)) + Cardinality(Pending(k)) < MaxConnections
      /\ Cardinality(Pending(k)) < MaxPending
  <2>1. Cardinality(Connected(k)) \in Nat /\ Cardinality(Pending(k)) \in Nat
    BY <1>5, IdsFinite
  <2> QED
    BY <1>1, <2>1, ConnectionManagerAssumption DEF Full
<1>7. Fits(Connected(k), Pending(k) \cup {i})
  BY <1>2, <1>5, <1>6, OneMoreFits
<1>8. Fits(Connected(k)', Pending(k)')
  <2>1. Pending(k) \cup {i} \subseteq Ids
    BY <1>2, <1>5
  <2> QED
    BY <1>4, <1>5, <1>7, <2>1, FewerFit
<1>9. \A j \in Sessions \ {k} : cConn'[j] = cConn[j] /\ pend'[j] = pend[j]
  BY <1>1, <1>3
<1> QED
  BY <1>8, <1>9, LimitsOfOne

(* A frame handled by the client keeps the limits.                         *)
LEMMA ClientHandlesLimits ==
  ASSUME TypeInv, WithinLimits, NEW k \in Sessions, ClientHandles(k)
  PROVE  WithinLimits'
<1> DEFINE f == Head(down[k])
<1>1. /\ cConn \in [Sessions -> [Ids -> Sockets \cup {None}]]
      /\ pend \in [Sessions -> [Ids -> Seq(Payloads) \cup {None}]]
  BY DEF TypeInv, TypeOK, ConnectionManagerTypeOK
<1>2. f.id \in Ids /\ (f.type = "OPEN" => f.pay.of \in Sockets)
  <2>1. Delivered(k)
    BY DEF ClientHandles, OpenRejected, OpenForbidden, OpenAddress, OpenName,
           DataConnected, DataOverflow, DataPending, DataUnknown, CloseFrame
  <2>2. f \in Frames
    BY <2>1, TakeType DEF Delivered, TypeInv, TypeOK, TunnelTypeOK, Channels
  <2> QED
    BY <2>2 DEF Frames
<1> HIDE DEF f
<1>3. CASE \E h \in Hosts : OpenAddress(k, h)
  <2>1. f.type = "OPEN" /\ ~Full(k) /\ Establish(k, f.id, f.pay.of, <<>>)
    BY <1>3 DEF OpenAddress, f
  <2> QED
    BY <1>2, <2>1, EstablishLimits
<1>4. CASE \E h \in Hosts : OpenName(k, h)
  BY <1>4, OpenNameLimits
<1>5. CASE \/ \E h \in Hosts : OpenRejected(k, h) \/ OpenForbidden(k, h)
           \/ DataConnected(k) \/ DataOverflow(k) \/ DataPending(k)
           \/ DataUnknown(k) \/ CloseFrame(k)
  <2>1. /\ cConn' = cConn \/ cConn' = Removed(cConn, k, f.id)
        /\ \/ pend' = pend
           \/ pend' = Removed(pend, k, f.id)
           \/ /\ pend[k][f.id] # None
              /\ \E q : pend' = [pend EXCEPT ![k][f.id] = q]
    BY <1>5 DEF OpenRejected, OpenForbidden, DataConnected, DataOverflow, DataPending,
                DataUnknown, CloseFrame, f
  <2>2. \A j \in Sessions : \A i \in Ids : cConn'[j][i] # None => cConn[j][i] # None
    <3>1. \A j \in Sessions : \A i \in Ids :
            Removed(cConn, k, f.id)[j][i] \in {cConn[j][i], None}
      BY <1>1, <1>2 DEF Removed
    <3> QED
      BY <2>1, <3>1
  <2>3. \A j \in Sessions : \A i \in Ids : pend'[j][i] # None => pend[j][i] # None
    <3>1. \A j \in Sessions : \A i \in Ids :
            Removed(pend, k, f.id)[j][i] \in {pend[j][i], None}
      BY <1>1, <1>2 DEF Removed
    <3>2. \A q : \A j \in Sessions : \A i \in Ids :
            [pend EXCEPT ![k][f.id] = q][j][i] =
              IF j = k /\ i = f.id THEN q ELSE pend[j][i]
      BY <1>1, <1>2
    <3>3. CASE pend' = pend \/ pend' = Removed(pend, k, f.id)
      BY <3>1, <3>3
    <3>4. ASSUME pend[k][f.id] # None, NEW q, pend' = [pend EXCEPT ![k][f.id] = q]
          PROVE  \A j \in Sessions : \A i \in Ids : pend'[j][i] # None => pend[j][i] # None
      BY <3>2, <3>4
    <3> QED
      BY <2>1, <3>3, <3>4
  <2> QED
    BY <2>2, <2>3, LimitsKept
<1> QED
  BY <1>3, <1>4, <1>5 DEF ClientHandles

(* Every other step of the client keeps the limits.                        *)
LEMMA ClientLimits ==
  ASSUME TypeInv, WithinLimits, ClientNext
  PROVE  WithinLimits'
<1>1. /\ cConn \in [Sessions -> [Ids -> Sockets \cup {None}]]
      /\ pend \in [Sessions -> [Ids -> Seq(Payloads) \cup {None}]]
      /\ dns \subseteq Lookups
      /\ KeysOK
      /\ tKey \in [Sockets -> [sess : Sessions, id : Ids] \cup {NoKey}]
  BY DEF TypeInv, TypeOK, ConnectionManagerTypeOK
<1>2. CASE \E k \in Sessions : ClientHandles(k)
  BY <1>2, ClientHandlesLimits
<1>3. ASSUME NEW k \in Sessions, ClientShuts(k) \/ ClientWsClosed(k)
      PROVE  WithinLimits'
  <2>1. /\ cConn' = cConn \/ cConn' = [cConn EXCEPT ![k] = [i \in Ids |-> None]]
        /\ pend' = pend
    BY <1>3 DEF ClientShuts, ClientWsClosed, CloseAllTargets, cliVars
  <2>2. \A j \in Sessions : \A i \in Ids : cConn'[j][i] # None => cConn[j][i] # None
    BY <1>1, <2>1
  <2> QED
    BY <2>1, <2>2, LimitsKept
<1>4. ASSUME NEW d \in dns, Resolves(d)
      PROVE  WithinLimits'
  <2>1. d.sess \in Sessions /\ d.id \in Ids /\ d.of \in Sockets
    BY <1>1 DEF Lookups
  <2>2. CASE LookupSucceeds(d)
    BY <2>1, <2>2, EstablishLimits DEF LookupSucceeds
  <2>3. CASE LookupStale(d) \/ LookupFails(d)
    <3>1. /\ cConn' = cConn
          /\ pend' = pend \/ pend' = Removed(pend, d.sess, d.id)
      BY <2>3 DEF LookupStale, LookupFails
    <3>2. \A j \in Sessions : \A i \in Ids : pend'[j][i] # None => pend[j][i] # None
      BY <1>1, <2>1, <3>1 DEF Removed
    <3> QED
      BY <3>1, <3>2, LimitsKept
  <2> QED
    BY <1>4, <2>2, <2>3 DEF Resolves
<1>5. ASSUME NEW s \in Sockets,
             \/ TargetConnects(s) \/ TargetSends(s) \/ TargetEnds(s)
             \/ TargetFails(s) \/ TargetClosed(s)
      PROVE  WithinLimits'
  <2>1. tst[s] # "none"
    BY <1>5 DEF TargetConnects, TargetSends, TargetEnds, TargetFails, TargetClosed
  <2>2. tKey[s] \in [sess : Sessions, id : Ids]
    BY <1>1, <2>1 DEF KeysOK
  <2>3. /\ cConn' = cConn \/ cConn' = Removed(cConn, tKey[s].sess, tKey[s].id)
        /\ pend' = pend
    BY <1>5 DEF TargetConnects, TargetSends, TargetEnds, TargetFails, TargetClosed,
                TargetCleanup
  <2>4. \A j \in Sessions : \A i \in Ids : cConn'[j][i] # None => cConn[j][i] # None
    BY <1>1, <2>2, <2>3 DEF Removed
  <2> QED
    BY <2>3, <2>4, LimitsKept
<1> QED
  BY <1>2, <1>3, <1>4, <1>5 DEF ClientNext

(* No manager ever has more streams than MAX_CONNECTIONS, nor more lookups *)
(* in progress than MAX_PENDING_CONNECTIONS.                               *)
THEOREM LimitsHold == Spec => []WithinLimits
<1>1. Init => WithinLimits
  <2> SUFFICES ASSUME Init
               PROVE  \A k \in Sessions : Fits(Connected(k), Pending(k))
    BY LimitsAre
  <2>1. \A k \in Sessions : Connected(k) = {} /\ Pending(k) = {}
    BY DEF Init, ConnectionManagerInit, Connected, Pending
  <2>2. Cardinality({}) = 0
    BY FS_EmptySet
  <2>3. Fits({}, {})
    BY <2>2, ConnectionManagerAssumption DEF Fits
  <2> QED
    BY <2>1, <2>3
<1>2. TypeInv /\ WithinLimits /\ [Next]_vars => WithinLimits'
  <2> SUFFICES ASSUME TypeInv, WithinLimits, [Next]_vars
               PROVE  WithinLimits'
    OBVIOUS
  <2>1. CASE ClientNext
    BY <2>1, ClientLimits
  <2>2. CASE UNCHANGED cliVars
    BY <2>2 DEF cliVars, WithinLimits, Connected, Pending
  <2> QED
    BY <2>1, <2>2 DEF Next, vars
<1> QED
  BY <1>1, <1>2, KeyedTypes, PTL DEF Spec
=============================================================================
