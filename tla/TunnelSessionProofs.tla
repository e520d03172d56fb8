------------------------ MODULE TunnelSessionProofs --------------------------
(***************************************************************************)
(* Proofs about TunnelSession, for every value of its constants.           *)
(*                                                                         *)
(* No handshake is let pass twice (Signed, Requested, Spent): a nonce that *)
(* was let pass is in the table, or so old that its timestamp is refused   *)
(* whatever the server's clock has been set to: the cleanup forgets a      *)
(* nonce when it is older than Drift + Grace by the clock, which is never  *)
(* ahead of real time, and a timestamp that is accepted is at most Drift + *)
(* StepBack old in real time, no more than Drift + Grace.                  *)
(*                                                                         *)
(* The heartbeat (Session, ServerNotices, ClientNotices, Beating,          *)
(* Listening): the server's timer and isAlive together bound how long ago  *)
(* a link died or a pong came; on a link that works, isAlive is down only  *)
(* in the tick in which the ping or the pong is under way, and the         *)
(* client's timeout runs behind the server's timer by PingGrace.           *)
(*                                                                         *)
(* The lockout (Asking, Losing, Table, Patience): without trouble and      *)
(* without a session nothing is added to the table of nonces but by the    *)
(* rate limit, which ends RateLimit + StepBack after the trouble; the      *)
(* first cleanup that is later than that by Drift + Grace + StepBack       *)
(* empties the table, and the attempt after that is let in.                *)
(***************************************************************************)
EXTENDS TunnelSession, FiniteSetTheorems, TLAPS

States == {"none", "requested", "open", "closing", "terminated", "closed"}

Types ==
  /\ time \in Nat
  /\ offset \in -StepBack .. 0
  /\ made \in 0 .. MaxConns
  /\ nonce \in [Conns -> 0 .. MaxConns]
  /\ timestamp \in [Conns -> Nat]
  /\ ws \in [Conns -> States]
  /\ usedNonces \subseteq Conns
  /\ passed \in [Conns -> Nat]

(* A connection carries a nonce and the timestamp it was signed with: its  *)
(* own, or those of the one it repeats.                                    *)
Signed ==
  \A c \in Conns : c <= made =>
    /\ nonce[c] \in 1 .. made
    /\ nonce[nonce[c]] = nonce[c]
    /\ timestamp[nonce[c]] = timestamp[c]

Requested == \A c \in Conns : ws[c] = "requested" => c <= made

(* What has passed is in the table or too old for any clock.               *)
Spent ==
  \A n \in Conns : passed[n] # 0 =>
    /\ n <= made
    /\ passed[n] = 1
    /\ n \in usedNonces \/ time - timestamp[n] > Drift + Grace

IInv == Types /\ Signed /\ Requested /\ Spent

(* What the assumption says, one constant at a time.                       *)
LEMMA Constants ==
  /\ MaxConns \in Nat /\ Drift \in Nat /\ Grace \in Nat /\ StepBack \in Nat
  /\ StepBack <= Grace
  BY TunnelSessionAssumption

LEMMA IInvInit == Init => IInv
  BY Constants DEF Init, IInv, Types, States, Signed, Requested, Spent, Conns

-----------------------------------------------------------------------------
(* Time, a change of the clock and whatever befalls the connections that   *)
(* were made disturb nothing.                                              *)
LEMMA Elsewhere ==
  ASSUME IInv,
         UNCHANGED <<made, nonce, timestamp, usedNonces, passed>>,
         time' = time \/ time' = time + 1,
         offset' \in -StepBack .. 0,
         ws' \in [Conns -> States],
         \A c \in Conns : ws'[c] = "requested" => ws[c] = "requested"
  PROVE  IInv'
  <1>1. Types'
    BY DEF IInv, Types
  <1>2. Signed' /\ Requested'
    BY DEF IInv, Signed, Requested
  <1>3. Spent'
    <2> SUFFICES ASSUME NEW n \in Conns, passed[n] # 0
                 PROVE  /\ n <= made /\ passed[n] = 1
                        /\ n \in usedNonces \/ time' - timestamp[n] > Drift + Grace
      BY DEF Spent
    <2>1. /\ n <= made /\ passed[n] = 1
          /\ n \in usedNonces \/ time - timestamp[n] > Drift + Grace
      BY DEF IInv, Spent
    <2>2. time \in Nat /\ timestamp[n] \in Nat
      BY DEF IInv, Types
    <2> QED
      BY <2>1, <2>2, Constants
  <1> QED
    BY <1>1, <1>2, <1>3 DEF IInv

(* A connection that is made gets a number of its own.                     *)
LEMMA Makes ==
  ASSUME IInv, NEW n, NEW t \in Nat,
         made + 1 \in Conns,
         \/ n = made + 1
         \/ n \in 1 .. made /\ nonce[n] = n /\ timestamp[n] = t,
         made' = made + 1,
         nonce' = [nonce EXCEPT ![made + 1] = n],
         timestamp' = [timestamp EXCEPT ![made + 1] = t],
         ws' = [ws EXCEPT ![made + 1] = "requested"],
         UNCHANGED <<time, usedNonces, passed>>,
         offset' \in -StepBack .. 0
  PROVE  IInv'
  <1> USE Constants DEF Conns
  <1>1. Types'
    <2>1. made + 1 \in 0 .. MaxConns /\ n \in 0 .. MaxConns
      BY DEF IInv, Types
    <2>2. nonce' \in [Conns -> 0 .. MaxConns] /\ timestamp' \in [Conns -> Nat]
      BY <2>1 DEF IInv, Types
    <2>3. ws' \in [Conns -> States]
      BY DEF IInv, Types, States
    <2> QED
      BY <2>1, <2>2, <2>3 DEF IInv, Types
  <1>2. Signed'
    <2> SUFFICES ASSUME NEW d \in Conns, d <= made + 1
                 PROVE  /\ nonce'[d] \in 1 .. made + 1
                        /\ nonce'[nonce'[d]] = nonce'[d]
                        /\ timestamp'[nonce'[d]] = timestamp'[d]
      BY DEF Signed
    <2>0. /\ made \in Nat
          /\ nonce'[made + 1] = n /\ timestamp'[made + 1] = t
          /\ \A e \in 1 .. made : nonce'[e] = nonce[e] /\ timestamp'[e] = timestamp[e]
      BY DEF IInv, Types
    <2>1. CASE d = made + 1
      BY <2>0, <2>1
    <2>2. CASE d <= made
      <3>1. /\ nonce[d] \in 1 .. made /\ nonce[nonce[d]] = nonce[d]
            /\ timestamp[nonce[d]] = timestamp[d]
        BY <2>2 DEF IInv, Signed
      <3> QED
        BY <2>0, <2>2, <3>1
    <2> QED
      BY <2>1, <2>2 DEF IInv, Types
  <1>3. Requested'
    BY DEF IInv, Types, Requested
  <1>4. Spent'
    BY DEF IInv, Types, Spent
  <1> QED
    BY <1>1, <1>2, <1>3, <1>4 DEF IInv

(* A request that is authorized carries a nonce that never passed.         *)
LEMMA Unspent ==
  ASSUME IInv, NEW c \in Conns, ws[c] = "requested", Authorized(c)
  PROVE  nonce[c] \in 1 .. made /\ nonce[c] \in Conns /\ passed[nonce[c]] = 0
  <1> USE Constants DEF Conns
  <1>1. /\ nonce[c] \in 1 .. made /\ nonce[c] \in Conns
        /\ timestamp[nonce[c]] = timestamp[c]
    BY DEF IInv, Types, Signed, Requested
  <1>2. time - timestamp[c] <= Drift + StepBack
    <2>1. /\ time \in Nat /\ offset \in -StepBack .. 0 /\ timestamp[c] \in Nat
          /\ Drift \in Nat /\ StepBack \in Nat
      BY DEF IInv, Types
    <2>2. Distance(time + offset, timestamp[c]) <= Drift
      BY DEF Authorized, Now
    <2> QED
      BY <2>1, <2>2 DEF Distance
  <1>3. nonce[c] \notin usedNonces
    BY DEF Authorized
  <1>4. ~(time - timestamp[c] > Drift + Grace)
    BY <1>2 DEF IInv, Types
  <1> QED
    BY <1>1, <1>3, <1>4 DEF IInv, Spent

(* The handshake lets it pass now; it is in the table from now on.         *)
LEMMA RecordsKeeps ==
  ASSUME IInv, NEW c \in Conns, Arrives(c), Authorized(c), Records(c),
         ws' \in [Conns -> States],
         \A d \in Conns : ws'[d] = "requested" => ws[d] = "requested"
  PROVE  IInv'
  <1>1. nonce[c] \in 1 .. made /\ nonce[c] \in Conns /\ passed[nonce[c]] = 0
    BY Unspent DEF Arrives
  <1>2. UNCHANGED <<time, offset, made, nonce, timestamp>>
    BY DEF Arrives, headers
  <1>3. Types'
    <2>1. usedNonces' \subseteq Conns
      BY <1>1 DEF IInv, Types, Records
    <2>2. passed' \in [Conns -> Nat]
      BY <1>1 DEF IInv, Types, Records
    <2> QED
      BY <1>2, <2>1, <2>2 DEF IInv, Types
  <1>4. Signed' /\ Requested'
    BY <1>2 DEF IInv, Signed, Requested
  <1>5. Spent'
    <2> SUFFICES ASSUME NEW n \in Conns, passed'[n] # 0
                 PROVE  /\ n <= made /\ passed'[n] = 1
                        /\ n \in usedNonces' \/ time - timestamp[n] > Drift + Grace
      BY <1>2 DEF Spent
    <2>1. /\ usedNonces' = usedNonces \cup {nonce[c]}
          /\ passed'[n] = IF n = nonce[c] THEN passed[n] + 1 ELSE passed[n]
      BY <1>1 DEF IInv, Types, Records
    <2>2. CASE n = nonce[c]
      BY <1>1, <2>1, <2>2, Constants DEF IInv, Types
    <2>3. CASE n # nonce[c]
      BY <2>1, <2>3 DEF IInv, Spent
    <2> QED
      BY <2>2, <2>3
  <1> QED
    BY <1>3, <1>4, <1>5 DEF IInv

(* What the cleanup forgets is too old for any clock.                      *)
LEMMA CleanupKeeps ==
  ASSUME IInv, CleanupExpiredNonces
  PROVE  IInv'
  <1> USE DEF CleanupExpiredNonces, headers
  <1>1. Types'
    BY DEF IInv, Types
  <1>2. Signed' /\ Requested'
    BY DEF IInv, Signed, Requested
  <1>3. \A n \in Expired : time - timestamp[n] > Drift + Grace
    BY Constants DEF IInv, Types, Expired, Now
  <1>4. Spent'
    BY <1>3 DEF IInv, Spent
  <1> QED
    BY <1>1, <1>2, <1>4 DEF IInv

-----------------------------------------------------------------------------
LEMMA IInvNext ==
  ASSUME IInv, [Next]_vars
  PROVE  IInv'
  <1> USE DEF headers, handshake, clientVars, history
  <1>1. ASSUME NEW c \in Conns PROVE ws[c] \in States
    BY DEF IInv, Types
  <1>2. CASE Connect
    BY <1>2, Makes, Constants DEF Connect, IInv, Types, Conns
  <1>3. CASE \E c \in Conns : RequestRepeated(c)
    <2> PICK c \in Conns : RequestRepeated(c)
      BY <1>3
    <2>1. /\ nonce[c] \in 1 .. made /\ nonce[nonce[c]] = nonce[c]
          /\ timestamp[nonce[c]] = timestamp[c] /\ timestamp[c] \in Nat
      BY DEF RequestRepeated, IInv, Signed, Types
    <2> QED
      BY <2>1, Makes DEF RequestRepeated, Trouble, IInv, Types
  <1>4. CASE ClientOpens \/ ClientPing \/ PingTimeout \/ ClientCloses
    BY <1>4, Elsewhere DEF ClientOpens, ClientPing, PingTimeout, ClientCloses, IInv, Types
  <1>5. CASE PingTick
    BY <1>5, Elsewhere DEF PingTick, IInv, Types, States
  <1>6. CASE \E c \in Conns : OnConnection(c)
    <2> PICK c \in Conns : OnConnection(c)
      BY <1>6
    <2>1. CASE Unauthorized(c)
      BY <2>1, Elsewhere DEF Unauthorized, Arrives, IInv, Types, States
    <2>2. CASE RateLimited(c)
      BY <2>2, RecordsKeeps DEF RateLimited, IInv, Types, States
    <2>3. CASE Accepted(c)
      BY <2>3, RecordsKeeps DEF Accepted, IInv, Types, States
    <2> QED
      BY <2>1, <2>2, <2>3 DEF OnConnection
  <1>7. CASE \E c \in Conns : Pong(c) \/ ServerCloses(c)
    BY <1>7, Elsewhere DEF Pong, ServerCloses, IInv, Types, States
  <1>8. CASE CleanupExpiredNonces
    BY <1>8, CleanupKeeps
  <1>9. CASE \E c \in Conns, how \in {"slow", "dead"} : LinkFails(c, how)
    BY <1>9, Elsewhere DEF LinkFails, Trouble, IInv, Types
  <1>10. CASE \E o \in -StepBack .. 0 : ClockAdjusted(o)
    BY <1>10, Elsewhere DEF ClockAdjusted, Trouble, IInv, Types
  <1>11. CASE Restart
    BY <1>11 DEF Restart, Trouble, IInv, Types, States, Signed, Requested, Spent
  <1>12. CASE Tick
    BY <1>12, Elsewhere DEF Tick, IInv, Types
  <1>13. CASE UNCHANGED vars
    BY <1>13, Elsewhere DEF vars, IInv, Types
  <1> QED
    BY <1>2, <1>3, <1>4, <1>5, <1>6, <1>7, <1>8, <1>9, <1>10, <1>11, <1>12, <1>13
       DEF Next

(* For every value of the constants a handshake is let pass at most once   *)
(* while the server runs: the table of nonces in tunnelServer.js, which    *)
(* forgets and whose clock may be set back, is enough against repetition.  *)
THEOREM HandshakeOnce == Spec => []NonceOnce
  <1>1. IInv => NonceOnce
    BY DEF IInv, Types, Spent, NonceOnce
  <1> QED
    BY <1>1, IInvInit, IInvNext, PTL DEF Spec

-----------------------------------------------------------------------------
(* Timers.                                                                 *)

LEMMA Numbers ==
  /\ MaxTime \in Nat /\ MaxConns \in Nat /\ MaxTroubles \in Nat
  /\ Drift \in Nat /\ Grace \in Nat /\ StepBack \in Nat /\ RateLimit \in Nat
  /\ MaxNonces \in Nat \ {0} /\ PingInterval \in Nat \ {0} /\ PingGrace \in Nat \ {0}
  /\ CleanupInterval \in Nat \ {0} /\ ReconnectDelay \in Nat \ {0}
  /\ StepBack <= Grace /\ StepBack < MaxTime
  BY TunnelSessionAssumption

-----------------------------------------------------------------------------
(* Types.                                                                  *)

(* What TypeOK says of the timers and of the numbers that are counted.     *)
Clocks ==
  /\ time \in StepBack + 1 .. MaxTime
  /\ lastConnectionTime \in Nat
  /\ pingTimer \in Timer(PingInterval)
  /\ cleanupTimer \in 0 .. CleanupInterval
  /\ pingTimeout \in Timer(PingInterval + PingGrace)
  /\ reconnectTimer \in Timer(ReconnectDelay)
  /\ troubles \in 0 .. MaxTroubles
  /\ lastTrouble \in Nat
  /\ lastPong \in Nat

(* What it says of the connections.                                        *)
Places ==
  /\ link \in [Conns -> {"up", "slow", "dead"}]
  /\ activeWs \in 0 .. MaxConns
  /\ cur \in 0 .. MaxConns
  /\ client \in {"waiting", "connecting", "open", "closing"}
  /\ pings \subseteq Conns /\ pongs \subseteq Conns
  /\ deadSince \in [Conns -> Nat]

Truths == secretsMatch \in BOOLEAN /\ isAlive \in BOOLEAN

(* The table of nonces is never fuller than it may be.                     *)
Room == IsFiniteSet(usedNonces) /\ Cardinality(usedNonces) <= MaxNonces

LEMMA ClocksNext ==
  ASSUME IInv, Clocks, [Next]_vars
  PROVE  Clocks'
  <1> USE Numbers DEF Clocks, Timer, Off, headers, handshake, clientVars, history
  <1>1. time \in Nat /\ offset \in -StepBack .. 0
    BY DEF IInv, Types
  <1>2. CASE Connect
    BY <1>2 DEF Connect
  <1>3. CASE \E c \in Conns : RequestRepeated(c)
    BY <1>3 DEF RequestRepeated, Trouble, Troubled
  <1>4. CASE ClientOpens \/ ClientPing
    BY <1>4 DEF ClientOpens, ClientPing, Heartbeat, InTime, Troubled
  <1>5. CASE PingTimeout \/ ClientCloses
    BY <1>5 DEF PingTimeout, ClientCloses, InTime, Troubled
  <1>6. CASE PingTick
    BY <1>6 DEF PingTick
  <1>7. CASE \E c \in Conns : OnConnection(c)
    <2>1. Now \in Nat
      BY <1>1 DEF Now
    <2>2. lastConnectionTime' \in Nat
      BY <1>7, <2>1 DEF OnConnection, Unauthorized, RateLimited, Accepted, RefusalForgotten
    <2>3. pingTimer' \in Timer(PingInterval)
      BY <1>7 DEF OnConnection, Unauthorized, RateLimited, Accepted
    <2>4. lastTrouble' \in Nat /\ UNCHANGED <<time, cleanupTimer, clientVars, troubles, lastPong>>
      BY <1>1, <1>7 DEF OnConnection, Unauthorized, RateLimited, Accepted, Arrives,
         InTime, Troubled
    <2> QED
      BY <2>2, <2>3, <2>4
  <1>8. CASE \E c \in Conns : Pong(c)
    BY <1>8 DEF Pong
  <1>9. CASE \E c \in Conns : ServerCloses(c)
    BY <1>9 DEF ServerCloses, SessionEnds
  <1>10. CASE CleanupExpiredNonces
    BY <1>10 DEF CleanupExpiredNonces
  <1>11. CASE \E c \in Conns, how \in {"slow", "dead"} : LinkFails(c, how)
    BY <1>11 DEF LinkFails, Trouble, Troubled
  <1>12. CASE \E o \in -StepBack .. 0 : ClockAdjusted(o)
    BY <1>12 DEF ClockAdjusted, Trouble, Troubled
  <1>13. CASE Restart
    BY <1>13 DEF Restart, Trouble, Troubled
  <1>14. CASE Tick
    BY <1>14 DEF Tick, Due, Elapsed
  <1>15. CASE UNCHANGED vars
    BY <1>15 DEF vars
  <1> QED
    BY <1>2, <1>3, <1>4, <1>5, <1>6, <1>7, <1>8, <1>9, <1>10, <1>11, <1>12, <1>13,
       <1>14, <1>15 DEF Next

LEMMA Pinged ==
  ASSUME PingTick
  PROVE  pings' = pings \/ (activeWs # 0 /\ pings' = pings \cup {activeWs})
  <1>1. CASE activeWs = 0
    BY <1>1 DEF PingTick
  <1>2. CASE activeWs # 0 /\ ~isAlive
    BY <1>2 DEF PingTick
  <1>3. CASE activeWs # 0 /\ isAlive
    <2>1. pings' = IF ws[activeWs] = "open" THEN pings \cup {activeWs} ELSE pings
      BY <1>3 DEF PingTick
    <2> QED
      BY <1>3, <2>1
  <1> QED
    BY <1>1, <1>2, <1>3

LEMMA PlacesNext ==
  ASSUME IInv, Clocks, Places, [Next]_vars
  PROVE  Places'
  <1> USE Numbers DEF Places, Conns, headers, handshake, clientVars, history
  <1>1. made \in 0 .. MaxConns /\ time \in Nat
    BY DEF IInv, Types
  <1>2. CASE Connect
    BY <1>1, <1>2 DEF Connect
  <1>3. CASE \E c \in Conns : RequestRepeated(c)
    BY <1>1, <1>3 DEF RequestRepeated, Trouble
  <1>4. CASE ClientOpens \/ ClientPing
    BY <1>4 DEF ClientOpens, ClientPing
  <1>5. CASE PingTimeout \/ ClientCloses
    BY <1>5 DEF PingTimeout, ClientCloses
  <1>6. CASE PingTick
    <2>1. pings' = pings \/ (activeWs # 0 /\ pings' = pings \cup {activeWs})
      BY <1>6, Pinged
    <2>2. UNCHANGED <<link, activeWs, cur, client, pongs, deadSince>>
      BY <1>6 DEF PingTick
    <2>3. activeWs # 0 => activeWs \in Conns
      OBVIOUS
    <2>4. pings' \subseteq Conns
      BY <2>1, <2>3, Zenon
    <2> QED
      BY <2>2, <2>4
  <1>7. CASE \E c \in Conns : OnConnection(c)
    <2> PICK c \in Conns : OnConnection(c)
      BY <1>7
    <2>1. activeWs' = activeWs \/ activeWs' = c
      BY DEF OnConnection, Unauthorized, RateLimited, Accepted
    <2>2. UNCHANGED <<link, cur, client, pings, pongs, deadSince>>
      BY DEF OnConnection, Unauthorized, RateLimited, Accepted, Arrives
    <2> QED
      BY <2>1, <2>2
  <1>8. CASE \E c \in Conns : Pong(c)
    BY <1>8 DEF Pong
  <1>9. CASE \E c \in Conns : ServerCloses(c)
    BY <1>9 DEF ServerCloses, SessionEnds
  <1>10. CASE CleanupExpiredNonces
    BY <1>10 DEF CleanupExpiredNonces
  <1>11. CASE \E c \in Conns, how \in {"slow", "dead"} : LinkFails(c, how)
    <2> PICK c \in Conns, how \in {"slow", "dead"} : LinkFails(c, how)
      BY <1>11
    <2>1. link' \in [Conns -> {"up", "slow", "dead"}]
      BY DEF LinkFails
    <2>2. deadSince' \in [Conns -> Nat]
      BY <1>1 DEF LinkFails
    <2> QED
      BY <2>1, <2>2 DEF LinkFails, Trouble
  <1>12. CASE \E o \in -StepBack .. 0 : ClockAdjusted(o)
    BY <1>12 DEF ClockAdjusted, Trouble
  <1>13. CASE Restart
    <2>1. activeWs' = 0
      BY <1>13 DEF Restart
    <2>2. UNCHANGED <<link, cur, client, pings, pongs, deadSince>>
      BY <1>13 DEF Restart, Trouble
    <2> QED
      BY <2>1, <2>2
  <1>14. CASE Tick
    BY <1>14 DEF Tick
  <1>15. CASE UNCHANGED vars
    BY <1>15 DEF vars
  <1> QED
    BY <1>2, <1>3, <1>4, <1>5, <1>6, <1>7, <1>8, <1>9, <1>10, <1>11, <1>12, <1>13,
       <1>14, <1>15 DEF Next

LEMMA SecretsStay == ASSUME [Next]_vars PROVE UNCHANGED secretsMatch
  <1>1. CASE Next
    BY <1>1 DEF Next, Connect, ClientOpens, ClientPing, PingTimeout, ClientCloses, PingTick,
       OnConnection, Unauthorized, RateLimited, Accepted, Arrives, Pong, ServerCloses,
       CleanupExpiredNonces, LinkFails, RequestRepeated, ClockAdjusted, Restart, Trouble,
       Tick, headers
  <1> QED
    BY <1>1 DEF vars, headers

LEMMA TruthsNext ==
  ASSUME Truths, [Next]_vars
  PROVE  Truths'
  <1>1. UNCHANGED secretsMatch
    BY SecretsStay
  <1>2. (isAlive' = isAlive) \/ (isAlive' = TRUE) \/ (isAlive' = FALSE)
    <2>1. CASE Next
      BY <2>1, Zenon DEF Next, Connect, ClientOpens, ClientPing, PingTimeout, ClientCloses,
         PingTick, OnConnection, Unauthorized, RateLimited, Accepted, Arrives, Pong,
         ServerCloses, CleanupExpiredNonces, LinkFails, RequestRepeated, ClockAdjusted,
         Restart, Tick
    <2> QED
      BY <2>1, Zenon DEF vars
  <1> QED
    BY <1>1, <1>2, Zenon DEF Truths

LEMMA TableActs ==
  ASSUME [Next]_vars
  PROVE  \/ UNCHANGED usedNonces
         \/ \E c \in Conns : RateLimited(c) \/ Accepted(c)
         \/ CleanupExpiredNonces
         \/ Restart
  <1>1. CASE Next
    BY <1>1 DEF Next, Connect, ClientOpens, ClientPing, PingTimeout, ClientCloses, PingTick,
       OnConnection, Unauthorized, Pong, ServerCloses, LinkFails, RequestRepeated,
       ClockAdjusted, Tick, handshake
  <1> QED
    BY <1>1 DEF vars, handshake

LEMMA RoomNext ==
  ASSUME IInv, Room, [Next]_vars
  PROVE  Room'
  <1> USE Numbers DEF headers, handshake, clientVars, history
  <1>1. CASE UNCHANGED usedNonces
    BY <1>1 DEF Room
  <1>2. CASE \E c \in Conns : RateLimited(c) \/ Accepted(c)
    <2> PICK c \in Conns : RateLimited(c) \/ Accepted(c)
      BY <1>2
    <2>1. nonce[c] \notin usedNonces /\ Cardinality(usedNonces) < MaxNonces
      BY DEF RateLimited, Accepted, Authorized
    <2>2. usedNonces' = usedNonces \cup {nonce[c]}
      BY DEF RateLimited, Accepted, Records
    <2>3. /\ IsFiniteSet(usedNonces') /\ Cardinality(usedNonces') = Cardinality(usedNonces) + 1
          /\ Cardinality(usedNonces) \in Nat
      BY <2>1, <2>2, FS_AddElement, FS_CardinalityType DEF Room
    <2> QED
      BY <2>1, <2>3 DEF Room
  <1>3. CASE CleanupExpiredNonces
    <2>1. usedNonces' \subseteq usedNonces
      BY <1>3 DEF CleanupExpiredNonces
    <2>2. /\ IsFiniteSet(usedNonces') /\ Cardinality(usedNonces') <= Cardinality(usedNonces)
          /\ Cardinality(usedNonces) \in Nat /\ Cardinality(usedNonces') \in Nat
      BY <2>1, FS_Subset, FS_CardinalityType DEF Room
    <2> QED
      BY <2>2 DEF Room
  <1>4. CASE Restart
    BY <1>4, FS_EmptySet DEF Restart, Room
  <1> QED
    BY <1>1, <1>2, <1>3, <1>4, TableActs

-----------------------------------------------------------------------------
(* Which timer runs when.                                                  *)

(* The client's timers say what it is doing.                               *)
ClientTimers ==
  /\ client = "open" => pingTimeout # Off
  /\ client # "open" => pingTimeout = Off
  /\ client = "waiting" => reconnectTimer # Off
  /\ client # "waiting" => reconnectTimer = Off

(* The client's connection is one it has made; it is open when the server  *)
(* has answered.                                                           *)
ClientConnection ==
  /\ cur <= made
  /\ client # "waiting" => cur # 0
  /\ client = "open" => \A c \in Conns : cur = c => ws[c] \notin {"none", "requested"}

(* A session has a heartbeat, and no connection is open but the session's. *)
SessionOf(c, state, active, timer) ==
  /\ active = c =>
       timer # Off /\ (state = "open" \/ (state = "terminated" /\ timer = PingInterval))
  /\ state = "open" => active = c

Session ==
  /\ activeWs <= made
  /\ \A c \in Conns : SessionOf(c, ws[c], activeWs, pingTimer)

(* What is recorded lies in the past.                                      *)
Past ==
  /\ lastPong <= time /\ lastTrouble <= time /\ lastConnectionTime <= time
  /\ \A c \in Conns : deadSince[c] <= time /\ timestamp[c] <= time
  /\ \A n \in usedNonces : n <= made

(* The server never goes back to before it has answered.                   *)
LEMMA Answered ==
  ASSUME IInv, [Next]_vars, NEW c \in Conns, c <= made, ws[c] \notin {"none", "requested"}
  PROVE  ws'[c] \notin {"none", "requested"}
  <1> USE DEF IInv, Types
  <1>1. CASE UNCHANGED ws
    BY <1>1
  <1>2. CASE Connect
    BY <1>2, Numbers DEF Connect, Conns
  <1>3. CASE \E d \in Conns : RequestRepeated(d)
    BY <1>3, Numbers DEF RequestRepeated, Conns
  <1>4. CASE PingTick
    BY <1>4 DEF PingTick
  <1>5. CASE \E d \in Conns : OnConnection(d) \/ ServerCloses(d)
    BY <1>5 DEF OnConnection, Unauthorized, RateLimited, Accepted, ServerCloses
  <1>6. CASE Restart
    BY <1>6 DEF Restart
  <1>7. CASE ClientOpens \/ ClientPing \/ PingTimeout \/ ClientCloses \/ CleanupExpiredNonces \/ Tick
    BY <1>7 DEF ClientOpens, ClientPing, PingTimeout, ClientCloses, CleanupExpiredNonces, Tick
  <1>8. CASE \E d \in Conns : Pong(d) \/ \E how \in {"slow", "dead"} : LinkFails(d, how)
    BY <1>8 DEF Pong, LinkFails
  <1>9. CASE \E o \in -StepBack .. 0 : ClockAdjusted(o)
    BY <1>9 DEF ClockAdjusted
  <1>10. CASE UNCHANGED vars
    BY <1>10 DEF vars
  <1> QED
    BY <1>1, <1>2, <1>3, <1>4, <1>5, <1>6, <1>7, <1>8, <1>9, <1>10 DEF Next

(* The actions that change the client, those that make a connection, those *)
(* that change a session.                                                  *)
LEMMA ClientActs ==
  ASSUME [Next]_vars
  PROVE  \/ UNCHANGED clientVars
         \/ Connect \/ ClientOpens \/ ClientPing \/ PingTimeout \/ ClientCloses \/ Tick
  <1>1. CASE Next
    BY <1>1 DEF Next, PingTick, OnConnection, Unauthorized, RateLimited, Accepted, Arrives,
       Pong, ServerCloses, CleanupExpiredNonces, LinkFails, RequestRepeated, ClockAdjusted,
       Restart, Trouble
  <1> QED
    BY <1>1 DEF vars

LEMMA HeaderActs ==
  ASSUME [Next]_vars
  PROVE  \/ UNCHANGED <<made, nonce, timestamp>>
         \/ Connect
         \/ \E c \in Conns : RequestRepeated(c)
  <1>1. CASE Next
    BY <1>1 DEF Next, ClientOpens, ClientPing, PingTimeout, ClientCloses, PingTick,
       OnConnection, Unauthorized, RateLimited, Accepted, Arrives, Pong, ServerCloses,
       CleanupExpiredNonces, LinkFails, ClockAdjusted, Restart, Tick, headers
  <1> QED
    BY <1>1 DEF vars, headers

LEMMA TimeActs == ASSUME [Next]_vars PROVE UNCHANGED time \/ Tick
  <1>1. CASE Next
    BY <1>1 DEF Next, Connect, ClientOpens, ClientPing, PingTimeout, ClientCloses, PingTick,
       OnConnection, Unauthorized, RateLimited, Accepted, Arrives, Pong, ServerCloses,
       CleanupExpiredNonces, LinkFails, RequestRepeated, ClockAdjusted, Restart, Trouble
  <1> QED
    BY <1>1 DEF vars

LEMMA DeadActs ==
  ASSUME [Next]_vars
  PROVE  UNCHANGED deadSince \/ \E c \in Conns, how \in {"slow", "dead"} : LinkFails(c, how)
  <1>1. CASE Next
    BY <1>1 DEF Next, Connect, ClientOpens, ClientPing, PingTimeout, ClientCloses, PingTick,
       OnConnection, Unauthorized, RateLimited, Accepted, Arrives, Pong, ServerCloses,
       CleanupExpiredNonces, RequestRepeated, ClockAdjusted, Restart, Tick, history
  <1> QED
    BY <1>1 DEF vars, history

LEMMA LinkActs ==
  ASSUME [Next]_vars
  PROVE  \/ UNCHANGED link
         \/ \E c \in Conns : RequestRepeated(c)
         \/ \E c \in Conns, how \in {"slow", "dead"} : LinkFails(c, how)
  <1>1. CASE Next
    BY <1>1 DEF Next, Connect, ClientOpens, ClientPing, PingTimeout, ClientCloses, PingTick,
       OnConnection, Unauthorized, RateLimited, Accepted, Arrives, Pong, ServerCloses,
       CleanupExpiredNonces, ClockAdjusted, Restart, Tick
  <1> QED
    BY <1>1 DEF vars

LEMMA LastActs ==
  ASSUME [Next]_vars
  PROVE  /\ lastPong' = lastPong \/ lastPong' = time
         /\ lastTrouble' = lastTrouble \/ lastTrouble' = time
         /\ lastConnectionTime' \in {lastConnectionTime, Now, 0}
  <1> USE DEF history, handshake
  <1>1. CASE Next
    <2>1. lastPong' = lastPong \/ lastPong' = time
      BY <1>1 DEF Next, Connect, ClientOpens, ClientPing, PingTimeout, ClientCloses, PingTick,
         OnConnection, Unauthorized, RateLimited, Accepted, Arrives, Pong, ServerCloses,
         CleanupExpiredNonces, LinkFails, RequestRepeated, ClockAdjusted, Restart, Trouble, Tick
    <2>2. lastTrouble' = lastTrouble \/ lastTrouble' = time
      BY <1>1 DEF Next, Connect, ClientOpens, ClientPing, PingTimeout, ClientCloses, PingTick,
         OnConnection, Unauthorized, RateLimited, Accepted, Arrives, Pong, ServerCloses,
         CleanupExpiredNonces, LinkFails, RequestRepeated, ClockAdjusted, Restart, Trouble,
         Tick, InTime, Troubled
    <2>3. lastConnectionTime' \in {lastConnectionTime, Now, 0}
      BY <1>1 DEF Next, Connect, ClientOpens, ClientPing, PingTimeout, ClientCloses, PingTick,
         OnConnection, Unauthorized, RateLimited, Accepted, Pong, ServerCloses,
         CleanupExpiredNonces, LinkFails, RequestRepeated, ClockAdjusted, Restart, Tick,
         RefusalForgotten
    <2> QED
      BY <2>1, <2>2, <2>3
  <1> QED
    BY <1>1 DEF vars

LEMMA SessionActs ==
  ASSUME [Next]_vars
  PROVE  \/ UNCHANGED <<made, ws, activeWs, pingTimer>>
         \/ Connect \/ PingTick \/ Restart \/ Tick
         \/ \E c \in Conns : RequestRepeated(c)
         \/ \E c \in Conns : OnConnection(c)
         \/ \E c \in Conns : ServerCloses(c)
  <1>1. CASE Next
    BY <1>1 DEF Next, ClientOpens, ClientPing, PingTimeout, ClientCloses, Pong,
       CleanupExpiredNonces, LinkFails, ClockAdjusted
  <1> QED
    BY <1>1 DEF vars

LEMMA ClientTimersNext ==
  ASSUME Clocks, Places, ClientTimers, [Next]_vars
  PROVE  ClientTimers'
  <1> USE Numbers DEF Clocks, Timer, Off, ClientTimers
  <1>1. CASE UNCHANGED clientVars
    BY <1>1 DEF clientVars
  <1>2. CASE Connect
    BY <1>2 DEF Connect
  <1>3. CASE ClientOpens \/ ClientPing
    BY <1>3 DEF ClientOpens, ClientPing, Heartbeat
  <1>4. CASE PingTimeout \/ ClientCloses
    BY <1>4 DEF PingTimeout, ClientCloses
  <1>5. CASE Tick
    BY <1>5 DEF Tick, Elapsed, Due
  <1> QED
    BY <1>1, <1>2, <1>3, <1>4, <1>5, ClientActs

LEMMA ClientConnectionNext ==
  ASSUME IInv, Places, ClientTimers, ClientConnection, [Next]_vars
  PROVE  ClientConnection'
  <1> USE DEF ClientConnection
  <1>1. made \in 0 .. MaxConns /\ made' \in 0 .. MaxConns /\ made <= made'
    <2>1. made \in 0 .. MaxConns
      BY DEF IInv, Types
    <2>2. made' = made \/ (made' = made + 1 /\ made + 1 \in Conns)
      <3>1. CASE Connect \/ \E c \in Conns : RequestRepeated(c)
        BY <3>1 DEF Connect, RequestRepeated
      <3> QED
        BY <3>1, HeaderActs
    <2> QED
      BY <2>1, <2>2, Numbers DEF Conns
  <1>2. cur' = cur \/ cur' = made'
    BY ClientActs, Zenon DEF clientVars, Connect, ClientOpens, ClientPing, PingTimeout,
       ClientCloses, Tick
  <1>3. cur' <= made'
    BY <1>1, <1>2 DEF Places
  <1>4. client' # "waiting" => cur' # 0
    <2>1. CASE Connect
      <3>1. cur' \in Conns
        BY <2>1 DEF Connect
      <3> QED
        BY <3>1 DEF Conns
    <2>2. CASE UNCHANGED clientVars \/ ClientOpens \/ ClientPing \/ PingTimeout \/ Tick
      <3>1. client' # "waiting" => client # "waiting" /\ cur' = cur
        <4>1. CASE UNCHANGED clientVars \/ ClientPing \/ Tick
          BY <4>1 DEF clientVars, ClientPing, Tick
        <4>2. CASE ClientOpens
          BY <4>2 DEF ClientOpens
        <4>3. CASE PingTimeout
          <5>1. pingTimeout # Off
            BY <4>3 DEF PingTimeout, Off
          <5>2. client = "open"
            BY <5>1 DEF ClientTimers
          <5> QED
            BY <4>3, <5>2 DEF PingTimeout
        <4> QED
          BY <2>2, <4>1, <4>2, <4>3
      <3> QED
        BY <3>1
    <2>3. CASE ClientCloses
      BY <2>3 DEF ClientCloses
    <2> QED
      BY <2>1, <2>2, <2>3, ClientActs
  <1>5. ASSUME client' = "open", NEW c \in Conns, cur' = c
        PROVE  ws'[c] \notin {"none", "requested"}
    <2>1. UNCHANGED cur /\ (client = "open" \/ ws[c] \notin {"none", "requested"})
      BY <1>5, ClientActs DEF clientVars, Connect, ClientOpens, ClientPing, PingTimeout,
         ClientCloses, Tick
    <2>2. ws[c] \notin {"none", "requested"} /\ c <= made
      BY <1>5, <2>1
    <2> QED
      BY <2>2, Answered
  <1> QED
    BY <1>3, <1>4, <1>5

LEMMA SessionNext ==
  ASSUME IInv, Clocks, Places, Session, [Next]_vars
  PROVE  Session'
  <1>0. PingInterval # Off
    BY Numbers DEF Off
  <1>1. /\ made \in Nat /\ ws \in [Conns -> States] /\ activeWs \in Nat
        /\ pingTimer \in Timer(PingInterval) /\ activeWs <= made
        /\ made' \in Nat /\ made <= made'
    <2>1. made' = made \/ made' = made + 1
      BY HeaderActs, Zenon DEF Connect, RequestRepeated
    <2> QED
      BY <2>1, Numbers DEF IInv, Types, Places, Clocks, Session
  <1>3. CASE Connect \/ \E c \in Conns : RequestRepeated(c)
    <2>1. /\ ws' = [ws EXCEPT ![made + 1] = "requested"]
          /\ UNCHANGED <<activeWs, pingTimer>>
      BY <1>3 DEF Connect, RequestRepeated
    <2>2. activeWs # made + 1
      BY <1>1
    <2>3. ASSUME NEW c \in Conns PROVE SessionOf(c, ws'[c], activeWs', pingTimer')
      <3>1. CASE c = made + 1
        <4>1. ws'[c] = "requested" /\ activeWs' # c
          BY <1>1, <2>1, <2>2, <3>1
        <4> QED
          BY <4>1 DEF SessionOf
      <3>2. CASE c # made + 1
        <4>1. ws'[c] = ws[c]
          BY <1>1, <2>1, <3>2
        <4> QED
          BY <2>1, <4>1 DEF Session, SessionOf
      <3> QED
        BY <3>1, <3>2
    <2>4. activeWs' <= made'
      BY <1>1, <2>1
    <2> QED
      BY <2>3, <2>4 DEF Session
  <1>4. CASE PingTick
    <2>1. ws' = ws \/ ws' = [ws EXCEPT ![activeWs] = "terminated"]
      BY <1>4, Zenon DEF PingTick
    <2>2. pingTimer' = PingInterval /\ UNCHANGED <<activeWs, made>>
      BY <1>4 DEF PingTick, headers
    <2>3. ASSUME NEW c \in Conns PROVE SessionOf(c, ws'[c], activeWs', pingTimer')
      <3>1. \/ ws'[c] = ws[c]
            \/ activeWs = c /\ ws'[c] = "terminated"
        BY <1>1, <2>1
      <3>2. SessionOf(c, ws[c], activeWs, pingTimer)
        BY DEF Session
      <3> QED
        BY <1>0, <2>2, <3>1, <3>2 DEF SessionOf
    <2> QED
      BY <1>1, <2>2, <2>3 DEF Session
  <1>5. CASE \E c \in Conns : OnConnection(c)
    <2> PICK c \in Conns : OnConnection(c)
      BY <1>5
    <2>1. c <= made /\ ws[c] = "requested" /\ made' = made
      BY DEF OnConnection, Unauthorized, RateLimited, Accepted, Arrives, IInv, Requested
    <2>2. CASE Accepted(c)
      <3>1. activeWs' = c /\ pingTimer' = PingInterval
        BY <2>2 DEF Accepted
      <3>2. ASSUME NEW d \in Conns PROVE SessionOf(d, ws'[d], activeWs', pingTimer')
        <4>1. ws'[d] = IF d = c THEN "open"
                       ELSE IF d = activeWs /\ ws[d] = "open" THEN "closing" ELSE ws[d]
          BY <2>2 DEF Accepted
        <4>2. SessionOf(d, ws[d], activeWs, pingTimer)
          BY DEF Session
        <4>3. d # c => ws'[d] # "open"
          BY <4>1, <4>2 DEF SessionOf
        <4> QED
          BY <1>0, <3>1, <4>1, <4>3 DEF SessionOf
      <3> QED
        BY <2>1, <3>1, <3>2 DEF Session
    <2>3. CASE Unauthorized(c) \/ RateLimited(c)
      <3>1. ws' = [ws EXCEPT ![c] = "closing"] /\ UNCHANGED <<activeWs, pingTimer>>
        BY <2>3 DEF Unauthorized, RateLimited
      <3>2. ASSUME NEW d \in Conns PROVE SessionOf(d, ws'[d], activeWs', pingTimer')
        <4>1. SessionOf(d, ws[d], activeWs, pingTimer)
          BY DEF Session
        <4>2. (d # c /\ ws'[d] = ws[d]) \/ (d = c /\ ws'[d] = "closing")
          BY <1>1, <3>1
        <4> QED
          BY <2>1, <3>1, <4>1, <4>2 DEF SessionOf
      <3> QED
        BY <1>1, <2>1, <3>1, <3>2 DEF Session
    <2> QED
      BY <2>2, <2>3 DEF OnConnection
  <1>6. CASE \E c \in Conns : ServerCloses(c)
    <2> PICK c \in Conns : ServerCloses(c)
      BY <1>6
    <2>1. /\ ws' = [ws EXCEPT ![c] = "closed"] /\ made' = made
          /\ \/ activeWs = c /\ activeWs' = 0
             \/ activeWs # c /\ UNCHANGED <<activeWs, pingTimer>>
      BY DEF ServerCloses, SessionEnds
    <2>2. ASSUME NEW d \in Conns PROVE SessionOf(d, ws'[d], activeWs', pingTimer')
      <3>1. SessionOf(d, ws[d], activeWs, pingTimer) /\ d # 0
        BY DEF Session, Conns
      <3>2. (d # c /\ ws'[d] = ws[d]) \/ (d = c /\ ws'[d] = "closed")
        BY <1>1, <2>1
      <3> QED
        BY <2>1, <3>1, <3>2 DEF SessionOf
    <2> QED
      BY <1>1, <2>1, <2>2 DEF Session
  <1>7. CASE Restart
    <2>1. activeWs' = 0 /\ \A c \in Conns : c # 0 /\ ws'[c] # "open"
      BY <1>7 DEF Restart, Conns
    <2> QED
      BY <1>1, <2>1 DEF Session, SessionOf
  <1>8. CASE Tick
    <2>1. (\A c \in Conns : ws[c] # "terminated") /\ pingTimer # 0
      BY <1>8 DEF Tick, Due
    <2>2. pingTimer # Off => pingTimer' # Off
      BY <1>1, <1>8, <2>1 DEF Tick, Elapsed, Timer, Off
    <2>3. made' = made /\ ws' = ws /\ activeWs' = activeWs
      BY <1>8 DEF Tick, headers
    <2>4. ASSUME NEW c \in Conns PROVE SessionOf(c, ws'[c], activeWs', pingTimer')
      <3>1. SessionOf(c, ws[c], activeWs, pingTimer) /\ ws[c] # "terminated"
        BY <2>1 DEF Session
      <3>2. SessionOf(c, ws[c], activeWs, pingTimer')
        BY <2>2, <3>1 DEF SessionOf
      <3> QED
        BY <2>3, <3>2, Zenon
    <2> QED
      BY <1>1, <2>3, <2>4 DEF Session
  <1>9. CASE UNCHANGED <<made, ws, activeWs, pingTimer>>
    BY <1>9 DEF Session
  <1> QED
    BY <1>3, <1>4, <1>5, <1>6, <1>7, <1>8, <1>9, SessionActs

LEMMA PastNext ==
  ASSUME IInv, Clocks, Places, Past, [Next]_vars
  PROVE  Past'
  <1> USE Numbers DEF Past, headers, handshake, clientVars, history
  <1>1. /\ made \in 0 .. MaxConns /\ time \in Nat /\ offset \in -StepBack .. 0
        /\ lastPong \in Nat /\ lastTrouble \in Nat /\ lastConnectionTime \in Nat
    BY DEF IInv, Types, Clocks
  <1>2. time' = time \/ time' = time + 1
    BY TimeActs DEF Tick
  <1>3. lastPong' <= time' /\ lastTrouble' <= time' /\ lastConnectionTime' <= time'
    <2>1. lastPong' = lastPong \/ lastPong' = time
      BY LastActs
    <2>2. lastTrouble' = lastTrouble \/ lastTrouble' = time
      BY LastActs
    <2>3. lastConnectionTime' \in {lastConnectionTime, Now, 0}
      BY LastActs
    <2> QED
      BY <1>1, <1>2, <2>1, <2>2, <2>3 DEF Now
  <1>4. ASSUME NEW c \in Conns PROVE deadSince'[c] <= time'
    <2>1. deadSince[c] <= time /\ deadSince[c] \in Nat
      BY DEF Places
    <2>2. deadSince' = deadSince \/ \E d \in Conns : deadSince' = [deadSince EXCEPT ![d] = time]
      BY DeadActs DEF LinkFails
    <2>3. deadSince'[c] = deadSince[c] \/ deadSince'[c] = time
      BY <2>2 DEF Places
    <2> QED
      BY <1>1, <1>2, <2>1, <2>3
  <1>5. ASSUME NEW c \in Conns PROVE timestamp'[c] <= time'
    <2>1. timestamp[c] <= time /\ timestamp[c] \in Nat
      BY DEF IInv, Types
    <2>2. \/ UNCHANGED timestamp
          \/ timestamp' = [timestamp EXCEPT ![made + 1] = time]
          \/ \E d \in Conns : timestamp' = [timestamp EXCEPT ![made + 1] = timestamp[d]]
      BY HeaderActs DEF Connect, RequestRepeated
    <2>3. CASE UNCHANGED timestamp
      BY <1>1, <1>2, <2>1, <2>3
    <2>4. CASE timestamp' = [timestamp EXCEPT ![made + 1] = time]
      <3>1. timestamp'[c] = timestamp[c] \/ timestamp'[c] = time
        BY <2>4 DEF IInv, Types
      <3> QED
        BY <1>1, <1>2, <2>1, <3>1
    <2>5. CASE \E d \in Conns : timestamp' = [timestamp EXCEPT ![made + 1] = timestamp[d]]
      <3> PICK d \in Conns : timestamp' = [timestamp EXCEPT ![made + 1] = timestamp[d]]
        BY <2>5
      <3>1. timestamp'[c] = timestamp[c] \/ timestamp'[c] = timestamp[d]
        BY DEF IInv, Types
      <3>2. timestamp[d] <= time /\ timestamp[d] \in Nat
        BY DEF IInv, Types
      <3> QED
        BY <1>1, <1>2, <2>1, <3>1, <3>2
    <2> QED
      BY <2>2, <2>3, <2>4, <2>5
  <1>6. ASSUME NEW n \in usedNonces' PROVE n <= made'
    <2>1. made' = made \/ made' = made + 1
      BY HeaderActs DEF Connect, RequestRepeated
    <2>2. \/ n \in usedNonces
          \/ \E c \in Conns : ws[c] = "requested" /\ n = nonce[c]
      <3>1. CASE \E c \in Conns : RateLimited(c) \/ Accepted(c)
        BY <3>1 DEF RateLimited, Accepted, Arrives, Records
      <3>2. CASE UNCHANGED usedNonces \/ CleanupExpiredNonces \/ Restart
        BY <3>2 DEF CleanupExpiredNonces, Restart
      <3> QED
        BY <3>1, <3>2, TableActs
    <2>3. n <= made /\ n \in Nat
      <3>1. CASE n \in usedNonces
        BY <3>1 DEF IInv, Types, Conns
      <3>2. CASE \E c \in Conns : ws[c] = "requested" /\ n = nonce[c]
        <4>1. n \in 1 .. made
          BY <3>2 DEF IInv, Signed, Requested
        <4> QED
          BY <1>1, <4>1
      <3> QED
        BY <2>2, <3>1, <3>2
    <2> QED
      BY <1>1, <2>1, <2>3
  <1> QED
    BY <1>3, <1>4, <1>5, <1>6

-----------------------------------------------------------------------------
(* A dead link is noticed.                                                 *)

Within(age, now, death, pong) == now - death <= age \/ now - pong <= age

(* At the server: how long ago at most the link died, or the last pong     *)
(* came, by the timer of the heartbeat and by isAlive.                     *)
Noticed(state, alive, timer, now, death, pong) ==
  /\ state = "open" /\ alive => Within(PingInterval - timer, now, death, pong)
  /\ state = "open" /\ ~alive => Within(2 * PingInterval - timer, now, death, pong)
  /\ state # "open" => Within(2 * PingInterval, now, death, pong)

ServerNotices ==
  \A c \in Conns : link[c] = "dead" /\ activeWs = c =>
    Noticed(ws[c], isAlive, pingTimer, time, deadSince[c], lastPong)

(* At the client.                                                          *)
ClientNotices ==
  \A c \in Conns : link[c] = "dead" /\ cur = c /\ client = "open" =>
    time - deadSince[c] <= PingInterval + PingGrace - pingTimeout

LEMMA ClientNoticesNext ==
  ASSUME IInv, Clocks, Places, ClientTimers, ClientConnection, Past, ClientNotices, [Next]_vars
  PROVE  ClientNotices'
  <1> USE Numbers
  <1> SUFFICES ASSUME NEW c \in Conns, link'[c] = "dead", cur' = c, client' = "open"
               PROVE  time' - deadSince'[c] <= PingInterval + PingGrace - pingTimeout'
    BY DEF ClientNotices
  <1>1. /\ time \in Nat /\ deadSince[c] \in Nat /\ deadSince[c] <= time
        /\ pingTimeout \in Timer(PingInterval + PingGrace)
    BY DEF IInv, Types, Clocks, Places, Past
  <1>2. CASE \E d \in Conns, how \in {"slow", "dead"} : LinkFails(d, how)
    <2> PICK d \in Conns, how \in {"slow", "dead"} : LinkFails(d, how)
      BY <1>2
    <2>1. UNCHANGED <<time, clientVars>>
      BY DEF LinkFails, Trouble
    <2>2. CASE d = c
      <3>1. how = "dead" /\ deadSince'[c] = time
        BY <2>2 DEF LinkFails, Places
      <3> QED
        BY <1>1, <2>1, <3>1 DEF Timer, Off, clientVars
    <2>3. CASE d # c
      <3>1. link[c] = "dead" /\ deadSince'[c] = deadSince[c]
        BY <2>3 DEF LinkFails, Places
      <3> QED
        BY <2>1, <3>1 DEF clientVars, ClientNotices
    <2> QED
      BY <2>2, <2>3
  <1>3. CASE ~\E d \in Conns, how \in {"slow", "dead"} : LinkFails(d, how)
    <2>1. UNCHANGED deadSince /\ link[c] = "dead"
      <3>1. UNCHANGED deadSince
        BY <1>3, DeadActs
      <3>2. UNCHANGED link \/ \E d \in Conns : link' = [link EXCEPT ![made + 1] = "slow"]
        BY <1>3, LinkActs DEF RequestRepeated
      <3>3. link[c] = "dead"
        BY <3>2 DEF Places
      <3> QED
        BY <3>1, <3>3
    <2>2. CASE Tick
      <3>1. client = "open" /\ cur = c /\ pingTimeout # 0 /\ pingTimeout # Off
        BY <2>2 DEF Tick, Due, ClientTimers
      <3>2. time' = time + 1 /\ pingTimeout' = pingTimeout - 1
        BY <2>2, <3>1 DEF Tick, Elapsed
      <3>3. time - deadSince[c] <= PingInterval + PingGrace - pingTimeout
        BY <2>1, <3>1 DEF ClientNotices
      <3> QED
        BY <1>1, <2>1, <3>1, <3>2, <3>3 DEF Timer, Off
    <2>3. CASE UNCHANGED clientVars /\ UNCHANGED time
      BY <2>1, <2>3 DEF clientVars, ClientNotices
    <2>4. CASE Connect \/ ClientOpens \/ ClientPing \/ PingTimeout \/ ClientCloses
      BY <2>1, <2>4 DEF Connect, ClientOpens, ClientPing, PingTimeout, ClientCloses
    <2> QED
      BY <2>2, <2>3, <2>4, ClientActs, TimeActs
  <1> QED
    BY <1>2, <1>3

(* A session that goes on is left alone by all but these.                  *)
LEMMA Undisturbed ==
  ASSUME IInv, Places, Session, NEW c \in Conns, activeWs = c, activeWs' = c, [Next]_vars
  PROVE  \/ Tick \/ PingTick \/ \E d \in Conns : Pong(d)
         \/ UNCHANGED <<time, isAlive, lastPong, pingTimer>> /\ ws'[c] = ws[c]
  <1> USE Numbers DEF Conns, history, handshake, clientVars
  <1>1. c <= made /\ ws[c] \in {"open", "terminated"} /\ made \in Nat /\ ws \in [Conns -> States]
    BY DEF Session, SessionOf, IInv, Types
  <1>2. CASE Connect \/ \E d \in Conns : RequestRepeated(d)
    <2>1. ws' = [ws EXCEPT ![made + 1] = "requested"]
      BY <1>2 DEF Connect, RequestRepeated
    <2>2. c # made + 1
      BY <1>1
    <2>3. ws'[c] = ws[c]
      BY <1>1, <2>1, <2>2
    <2>4. UNCHANGED <<time, isAlive, lastPong, pingTimer>>
      BY <1>2 DEF Connect, RequestRepeated, Trouble
    <2> QED
      BY <2>3, <2>4
  <1>3. CASE \E d \in Conns : OnConnection(d)
    <2> PICK d \in Conns : OnConnection(d)
      BY <1>3
    <2>1. ws[d] = "requested" /\ UNCHANGED <<time, lastPong>>
      BY DEF OnConnection, Unauthorized, RateLimited, Accepted, Arrives
    <2>2. d # c /\ ~Accepted(d)
      BY <1>1, <2>1 DEF Accepted
    <2>3. UNCHANGED <<isAlive, pingTimer>> /\ ws'[c] = ws[c]
      BY <1>1, <2>2 DEF OnConnection, Unauthorized, RateLimited
    <2> QED
      BY <2>1, <2>3
  <1>4. CASE \E d \in Conns : ServerCloses(d)
    <2> PICK d \in Conns : ServerCloses(d)
      BY <1>4
    <2>1. d # c
      BY DEF ServerCloses, SessionEnds
    <2> QED
      BY <1>1, <2>1 DEF ServerCloses, SessionEnds
  <1>5. CASE Restart
    BY <1>5 DEF Restart
  <1>6. CASE ClientOpens \/ ClientPing \/ PingTimeout \/ ClientCloses \/ CleanupExpiredNonces
    BY <1>6 DEF ClientOpens, ClientPing, PingTimeout, ClientCloses, CleanupExpiredNonces
  <1>7. CASE \E d \in Conns, how \in {"slow", "dead"} : LinkFails(d, how)
    BY <1>7 DEF LinkFails, Trouble
  <1>8. CASE \E o \in -StepBack .. 0 : ClockAdjusted(o)
    BY <1>8 DEF ClockAdjusted, Trouble
  <1>9. CASE UNCHANGED vars
    BY <1>9 DEF vars
  <1> QED
    BY <1>2, <1>3, <1>4, <1>5, <1>6, <1>7, <1>8, <1>9 DEF Next

LEMMA NoticedNow ==
  ASSUME NEW state, NEW alive, NEW timer \in Timer(PingInterval), NEW now \in Nat,
         NEW death \in Nat, NEW pong \in Nat, death = now \/ pong = now
  PROVE  Noticed(state, alive, timer, now, death, pong)
  BY Numbers DEF Noticed, Within, Timer, Off

LEMMA NoticedTick ==
  ASSUME NEW alive, NEW timer \in Timer(PingInterval), NEW now \in Nat,
         NEW death \in Nat, NEW pong \in Nat,
         Noticed("open", alive, timer, now, death, pong)
  PROVE  Noticed("open", alive, timer - 1, now + 1, death, pong)
  BY Numbers DEF Noticed, Within, Timer, Off

LEMMA ServerNoticesNext ==
  ASSUME IInv, Clocks, Places, Truths, Session, Past, ServerNotices, [Next]_vars
  PROVE  ServerNotices'
  <1> USE Numbers
  <1> SUFFICES ASSUME NEW c \in Conns, link'[c] = "dead", activeWs' = c
               PROVE  Noticed(ws'[c], isAlive', pingTimer', time', deadSince'[c], lastPong')
    BY Zenon DEF ServerNotices
  <1>1. /\ time \in Nat /\ deadSince[c] \in Nat /\ lastPong \in Nat
        /\ pingTimer \in Timer(PingInterval) /\ pingTimer' \in Timer(PingInterval)
        /\ time' \in Nat /\ lastPong' \in Nat
    BY ClocksNext DEF IInv, Types, Clocks, Places
  <1>2. CASE \E d \in Conns, how \in {"slow", "dead"} : LinkFails(d, how)
    <2> PICK d \in Conns, how \in {"slow", "dead"} : LinkFails(d, how)
      BY <1>2
    <2>1. UNCHANGED <<time, ws, activeWs, isAlive, pingTimer, lastPong>>
      BY DEF LinkFails, Trouble
    <2>2. CASE d = c
      <3>1. how = "dead" /\ deadSince'[c] = time
        BY <2>2 DEF LinkFails, Places
      <3> QED
        BY <1>1, <2>1, <3>1, NoticedNow
    <2>3. CASE d # c
      <3>1. link[c] = "dead" /\ deadSince'[c] = deadSince[c]
        BY <2>3 DEF LinkFails, Places
      <3> QED
        BY <2>1, <3>1 DEF ServerNotices
    <2> QED
      BY <2>2, <2>3
  <1>3. CASE ~\E d \in Conns, how \in {"slow", "dead"} : LinkFails(d, how)
    <2>1. UNCHANGED deadSince /\ link[c] = "dead"
      <3>1. UNCHANGED deadSince
        BY <1>3, DeadActs
      <3>2. UNCHANGED link \/ \E d \in Conns : link' = [link EXCEPT ![made + 1] = "slow"]
        BY <1>3, LinkActs DEF RequestRepeated
      <3>3. link[c] = "dead"
        BY <3>2 DEF Places
      <3> QED
        BY <3>1, <3>3
    <2>2. CASE activeWs = c
      <3>1. /\ pingTimer # Off
            /\ ws[c] = "open" \/ (ws[c] = "terminated" /\ pingTimer = PingInterval)
        BY <2>2 DEF Session, SessionOf
      <3>2. Noticed(ws[c], isAlive, pingTimer, time, deadSince[c], lastPong)
        BY <2>1, <2>2 DEF ServerNotices
      <3>3. CASE Tick
        <4>1. ws[c] = "open" /\ pingTimer # 0
          BY <3>1, <3>3 DEF Tick, Due
        <4>2. pingTimer' = pingTimer - 1 /\ time' = time + 1
          BY <3>1, <3>3 DEF Tick, Elapsed
        <4>3. UNCHANGED <<ws, isAlive, lastPong>>
          BY <3>3 DEF Tick
        <4> QED
          BY <1>1, <2>1, <3>1, <3>2, <4>1, <4>2, <4>3, NoticedTick
      <3>4. CASE PingTick
        <4>1. pingTimer = 0 /\ ws[c] = "open" /\ c # 0
          BY <3>1, <3>4 DEF PingTick, Conns
        <4>2. UNCHANGED <<time, lastPong>> /\ pingTimer' = PingInterval
          BY <3>4 DEF PingTick
        <4>3. CASE isAlive
          <5>1. ws'[c] = "open" /\ ~isAlive'
            BY <2>2, <3>4, <4>1, <4>3 DEF PingTick
          <5>2. Within(PingInterval - 0, time, deadSince[c], lastPong)
            BY <3>2, <4>1, <4>3 DEF Noticed
          <5>3. Within(2 * PingInterval - PingInterval, time, deadSince[c], lastPong)
            BY <5>2 DEF Within
          <5> QED
            BY <2>1, <4>2, <5>1, <5>3 DEF Noticed
        <4>4. CASE ~isAlive
          <5>1. ws'[c] = "terminated"
            <6>1. ws' = [ws EXCEPT ![c] = "terminated"]
              BY <2>2, <3>4, <4>1, <4>4 DEF PingTick
            <6> QED
              BY <6>1 DEF IInv, Types
          <5>2. Within(2 * PingInterval - 0, time, deadSince[c], lastPong)
            BY <3>2, <4>1, <4>4 DEF Noticed
          <5>3. Within(2 * PingInterval, time, deadSince[c], lastPong)
            BY <5>2 DEF Within
          <5> QED
            BY <2>1, <4>2, <5>1, <5>3 DEF Noticed
        <4> QED
          BY <4>3, <4>4
      <3>5. CASE \E d \in Conns : Pong(d)
        <4>1. lastPong' = time'
          BY <3>5 DEF Pong
        <4> QED
          BY <1>1, <4>1, <2>1, NoticedNow
      <3>6. CASE UNCHANGED <<time, isAlive, lastPong, pingTimer>> /\ ws'[c] = ws[c]
        BY <2>1, <3>2, <3>6, Zenon
      <3> QED
        BY <2>2, <3>3, <3>4, <3>5, <3>6, Undisturbed
    <2>3. CASE activeWs # c
      <3>1. Accepted(c)
        <4>1. \E d \in Conns : OnConnection(d)
          <5>1. c # 0
            BY DEF Conns
          <5>2. ~\E d \in Conns : ServerCloses(d)
            BY <2>3, <5>1 DEF ServerCloses, SessionEnds
          <5>3. ~(Connect \/ PingTick \/ Tick \/ \E d \in Conns : RequestRepeated(d))
            BY <2>3 DEF Connect, PingTick, Tick, RequestRepeated
          <5>4. ~Restart
            BY <5>1 DEF Restart
          <5> QED
            BY <2>3, <5>2, <5>3, <5>4, SessionActs
        <4> PICK d \in Conns : OnConnection(d)
          BY <4>1
        <4> QED
          BY <2>3 DEF OnConnection, Unauthorized, RateLimited, Accepted
      <3> QED
        BY <2>1, <3>1 DEF Accepted, Arrives
    <2> QED
      BY <2>2, <2>3
  <1> QED
    BY <1>2, <1>3

-----------------------------------------------------------------------------
(* The heartbeat of a link that works.                                     *)

(* What is requested on a link that works is the client's attempt, made    *)
(* just now.                                                               *)
Asking ==
  \A c \in Conns : ws[c] = "requested" /\ link[c] = "up" =>
    cur = c /\ client = "connecting" /\ timestamp[c] = time

(* The session that the client has: when isAlive is down a ping or a pong  *)
(* is under way, and the client's timeout runs after the server's timer or *)
(* else the ping that sets it again is under way.                          *)
Beating ==
  \A c \in Conns :
    link[c] = "up" /\ cur = c /\ client \in {"connecting", "open"} /\ ws[c] = "open" =>
      /\ ~isAlive => pingTimer = PingInterval /\ client = "open" /\ c \in pings \cup pongs
      /\ client = "connecting" => pingTimer = PingInterval
      /\ client = "open" => \/ pingTimeout >= pingTimer + PingGrace
                            \/ pingTimer = PingInterval /\ c \in pings

Listening ==
  \A c \in Conns : link[c] = "up" /\ cur = c /\ client = "open" => pingTimeout >= PingGrace

(* How a connection changes at the server, and in which step.              *)
LEMMA WsSteps ==
  ASSUME IInv, [Next]_vars, NEW c \in Conns
  PROVE  \/ ws'[c] = ws[c]
         \/ /\ ws'[c] = "requested"
            /\ c = made + 1 /\ (Connect \/ \E d \in Conns : RequestRepeated(d))
         \/ ws'[c] = "open" /\ Accepted(c)
         \/ ws'[c] = "terminated" /\ PingTick /\ activeWs = c /\ ~isAlive
         \/ /\ ws'[c] = "closing"
            /\ \/ Unauthorized(c) \/ RateLimited(c)
               \/ \E d \in Conns \ {c} : Accepted(d) /\ ws[c] = "open"
         \/ ws'[c] = "closed" /\ (ServerCloses(c) \/ Restart)
         \/ ws'[c] = "none" /\ Restart
  <1>1. ws \in [Conns -> States]
    BY DEF IInv, Types
  <1>2. CASE Connect \/ \E d \in Conns : RequestRepeated(d)
    <2>1. ws' = [ws EXCEPT ![made + 1] = "requested"]
      BY <1>2 DEF Connect, RequestRepeated
    <2>2. ws'[c] = ws[c] \/ (c = made + 1 /\ ws'[c] = "requested")
      BY <1>1, <2>1
    <2> QED
      BY <1>2, <2>2
  <1>3. CASE PingTick
    <2>1. ws' = ws \/ (~isAlive /\ ws' = [ws EXCEPT ![activeWs] = "terminated"])
      BY <1>3, Zenon DEF PingTick
    <2>2. ws'[c] = ws[c] \/ (activeWs = c /\ ~isAlive /\ ws'[c] = "terminated")
      BY <1>1, <2>1
    <2> QED
      BY <1>3, <2>2
  <1>4. CASE \E d \in Conns : OnConnection(d)
    <2> PICK d \in Conns : OnConnection(d)
      BY <1>4
    <2>1. CASE Accepted(d)
      <3>1. ws'[c] = IF c = d THEN "open"
                     ELSE IF c = activeWs /\ ws[c] = "open" THEN "closing" ELSE ws[c]
        BY <2>1 DEF Accepted
      <3> QED
        BY <2>1, <3>1
    <2>2. CASE Unauthorized(d) \/ RateLimited(d)
      <3>1. ws' = [ws EXCEPT ![d] = "closing"]
        BY <2>2 DEF Unauthorized, RateLimited
      <3>2. ws'[c] = ws[c] \/ (c = d /\ ws'[c] = "closing")
        BY <1>1, <3>1
      <3> QED
        BY <2>2, <3>2
    <2> QED
      BY <2>1, <2>2 DEF OnConnection
  <1>5. CASE \E d \in Conns : ServerCloses(d)
    <2> PICK d \in Conns : ServerCloses(d)
      BY <1>5
    <2>1. ws' = [ws EXCEPT ![d] = "closed"]
      BY DEF ServerCloses
    <2>2. ws'[c] = ws[c] \/ (c = d /\ ws'[c] = "closed")
      BY <1>1, <2>1
    <2> QED
      BY <2>2
  <1>6. CASE Restart
    <2>1. ws'[c] = IF ws[c] \in {"none", "requested"} THEN "none" ELSE "closed"
      BY <1>6 DEF Restart
    <2> QED
      BY <1>6, <2>1
  <1>7. CASE Tick \/ UNCHANGED ws
    BY <1>7 DEF Tick
  <1> QED
    BY <1>2, <1>3, <1>4, <1>5, <1>6, <1>7, SessionActs

(* A link that works worked before, and a request is one from before or    *)
(* made now.                                                               *)
LEMMA WorkedBefore ==
  ASSUME Places, [Next]_vars, NEW c \in Conns, link'[c] = "up"
  PROVE  link[c] = "up"
  <1>1. CASE \E d \in Conns : RequestRepeated(d)
    BY <1>1 DEF RequestRepeated, Places
  <1>2. CASE \E d \in Conns, how \in {"slow", "dead"} : LinkFails(d, how)
    BY <1>2 DEF LinkFails, Places
  <1> QED
    BY <1>1, <1>2, LinkActs

LEMMA RequestedBefore ==
  ASSUME IInv, [Next]_vars, NEW c \in Conns, ws'[c] = "requested"
  PROVE  \/ ws[c] = "requested"
         \/ c = made + 1 /\ (Connect \/ \E d \in Conns : RequestRepeated(d))
  BY WsSteps

(* A client that waits to reconnect, or was timed out.                     *)
LEMMA ConnectWaits == ClientTimers /\ Connect => client = "waiting"
  <1>1. 0 # Off
    BY DEF Off
  <1> QED
    BY <1>1 DEF ClientTimers, Connect

LEMMA TimeoutOpen == ClientTimers /\ PingTimeout => client = "open"
  <1>1. 0 # Off
    BY DEF Off
  <1> QED
    BY <1>1 DEF ClientTimers, PingTimeout

LEMMA AskingNext ==
  ASSUME IInv, Places, ClientTimers, ClientConnection, Asking, [Next]_vars
  PROVE  Asking'
  <1> SUFFICES ASSUME NEW c \in Conns, ws'[c] = "requested", link'[c] = "up"
               PROVE  cur' = c /\ client' = "connecting" /\ timestamp'[c] = time'
    BY DEF Asking
  <1>1. link[c] = "up"
    BY WorkedBefore
  <1>2. timestamp \in [Conns -> Nat] /\ time \in Nat /\ made \in Nat
    BY DEF IInv, Types
  <1>3. CASE c = made + 1 /\ Connect
    BY <1>2, <1>3 DEF Connect
  <1>4. CASE c = made + 1 /\ \E d \in Conns : RequestRepeated(d)
    <2>1. link'[c] = "slow"
      BY <1>4 DEF RequestRepeated, Places
    <2> QED
      BY <2>1
  <1>5. CASE ws[c] = "requested"
    <2>1. cur = c /\ client = "connecting" /\ timestamp[c] = time /\ c <= made
      BY <1>1, <1>5 DEF Asking, IInv, Requested
    <2>2. ~Connect /\ ~PingTimeout
      BY <2>1, ConnectWaits, TimeoutOpen
    <2>3. ~ClientOpens /\ ~ClientPing /\ ~ClientCloses
      BY <1>1, <1>5, <2>1 DEF ClientOpens, ClientPing, ClientCloses
    <2>4. ~Tick
      BY <1>1, <1>5 DEF Tick, UnderWay
    <2>5. UNCHANGED <<clientVars, time>>
      BY <2>2, <2>3, <2>4, ClientActs, TimeActs
    <2>6. timestamp'[c] = timestamp[c]
      <3>1. CASE \E d \in Conns : RequestRepeated(d)
        <4>1. c # made + 1
          BY <1>2, <2>1
        <4> QED
          BY <1>2, <3>1, <4>1 DEF RequestRepeated
      <3> QED
        BY <2>2, <3>1, HeaderActs
    <2> QED
      BY <2>1, <2>5, <2>6 DEF clientVars
  <1> QED
    BY <1>3, <1>4, <1>5, RequestedBefore

(* The client's connection goes on being its connection: what the client   *)
(* did in this step.                                                       *)
LEMMA GoesOn ==
  ASSUME IInv, Places, ClientTimers, ClientConnection, [Next]_vars,
         NEW c \in Conns, cur' = c, client' \in {"connecting", "open"},
         ws'[c] # "requested" \/ client' = "open"
  PROVE  /\ cur = c /\ client \in {"connecting", "open"}
         /\ \/ UNCHANGED clientVars
            \/ ClientOpens /\ client = "connecting" /\ client' = "open"
            \/ ClientPing /\ client = "open" /\ client' = "open"
            \/ Tick /\ UNCHANGED <<cur, client>>
  <1>1. ~Connect
    <2>1. ASSUME Connect PROVE FALSE
      <3>1. c = made + 1 /\ client' = "connecting" /\ ws'[c] = "requested"
        BY <2>1 DEF Connect, IInv, Types
      <3> QED
        BY <3>1
    <2> QED
      BY <2>1
  <1>2. ~PingTimeout /\ ~ClientCloses
    BY DEF PingTimeout, ClientCloses
  <1>3. CASE UNCHANGED clientVars
    BY <1>3 DEF clientVars
  <1>4. CASE ClientOpens
    BY <1>4 DEF ClientOpens
  <1>5. CASE ClientPing
    BY <1>5 DEF ClientPing
  <1>6. CASE Tick
    BY <1>6 DEF Tick
  <1> QED
    BY <1>1, <1>2, <1>3, <1>4, <1>5, <1>6, ClientActs

LEMMA BeatActs ==
  ASSUME [Next]_vars
  PROVE  UNCHANGED <<pings, pongs>> \/ ClientPing \/ PingTick \/ \E c \in Conns : Pong(c)
  <1>1. CASE Next
    BY <1>1 DEF Next, Connect, ClientOpens, PingTimeout, ClientCloses, OnConnection,
       Unauthorized, RateLimited, Accepted, Arrives, ServerCloses, CleanupExpiredNonces,
       LinkFails, RequestRepeated, ClockAdjusted, Restart, Tick
  <1> QED
    BY <1>1 DEF vars

(* A connection that is open was open before or has just been accepted.    *)
LEMMA OpenedBefore ==
  ASSUME IInv, [Next]_vars, NEW c \in Conns, ws'[c] = "open"
  PROVE  ws[c] = "open" \/ Accepted(c)
  BY WsSteps

LEMMA BeatingNext ==
  ASSUME IInv, Clocks, Clocks', Places, ClientTimers, ClientConnection, Session, Session',
         Asking, Beating, [Next]_vars
  PROVE  Beating'
  <1> SUFFICES ASSUME NEW c \in Conns, link'[c] = "up", cur' = c,
                      client' \in {"connecting", "open"}, ws'[c] = "open"
               PROVE  /\ ~isAlive' => /\ pingTimer' = PingInterval /\ client' = "open"
                                      /\ c \in pings' \cup pongs'
                      /\ client' = "connecting" => pingTimer' = PingInterval
                      /\ client' = "open" => \/ pingTimeout' >= pingTimer' + PingGrace
                                             \/ pingTimer' = PingInterval /\ c \in pings'
    BY Zenon DEF Beating
  <1>0. /\ PingInterval \in Nat \ {0} /\ PingGrace \in Nat \ {0}
        /\ pingTimer \in Timer(PingInterval) /\ pingTimeout \in Timer(PingInterval + PingGrace)
        /\ c # 0
    BY Numbers DEF Clocks, Conns
  <1>1. link[c] = "up"
    BY WorkedBefore
  <1>2. CASE Accepted(c)
    <2>1. client = "connecting"
      BY <1>1, <1>2 DEF Accepted, Arrives, Asking
    <2>2. isAlive' /\ pingTimer' = PingInterval /\ client' = client
      BY <1>2 DEF Accepted, Arrives, clientVars
    <2> QED
      BY <2>1, <2>2
  <1>3. CASE ws[c] = "open"
    <2>1. /\ cur = c /\ client \in {"connecting", "open"}
          /\ \/ UNCHANGED clientVars
             \/ ClientOpens /\ client = "connecting" /\ client' = "open"
             \/ ClientPing /\ client = "open" /\ client' = "open"
             \/ Tick /\ UNCHANGED <<cur, client>>
      BY GoesOn
    <2>2. activeWs = c /\ activeWs' = c
      BY <1>3 DEF Session, SessionOf
    <2>3. /\ ~isAlive => pingTimer = PingInterval /\ client = "open" /\ c \in pings \cup pongs
          /\ client = "connecting" => pingTimer = PingInterval
          /\ client = "open" => \/ pingTimeout >= pingTimer + PingGrace
                                \/ pingTimer = PingInterval /\ c \in pings
      BY <1>1, <1>3, <2>1 DEF Beating
    <2>4. CASE Tick
      <3>1. ~UnderWay(c) /\ ~Due
        BY <2>4 DEF Tick
      <3>2. client = "open" /\ c \notin pings /\ c \notin pongs
        BY <1>1, <1>3, <2>1, <3>1 DEF UnderWay
      <3>3. isAlive /\ pingTimeout >= pingTimer + PingGrace
        BY <2>3, <3>2
      <3>4. pingTimer # 0 /\ pingTimer # Off /\ pingTimeout # 0 /\ pingTimeout # Off
        BY <2>2, <3>1, <3>2 DEF Due, Session, SessionOf, ClientTimers
      <3>5. pingTimer' = pingTimer - 1 /\ pingTimeout' = pingTimeout - 1
        BY <2>4, <3>4 DEF Tick, Elapsed
      <3>6. pingTimeout' >= pingTimer' + PingGrace
        BY <1>0, <3>3, <3>5 DEF Timer, Off
      <3>7. isAlive' /\ client' = "open"
        BY <2>4, <3>2, <3>3 DEF Tick
      <3> QED
        BY <3>6, <3>7
    <2>5. CASE PingTick
      <3>1. pingTimer = 0 /\ pingTimer' = PingInterval /\ UNCHANGED clientVars
        BY <2>5 DEF PingTick
      <3>2. isAlive /\ client = "open" /\ client' = "open"
        BY <1>0, <2>1, <2>3, <3>1 DEF clientVars
      <3>3. c \in pings'
        BY <1>0, <1>3, <2>2, <2>5, <3>2 DEF PingTick
      <3> QED
        BY <3>1, <3>2, <3>3
    <2>6. CASE \E d \in Conns : Pong(d)
      <3>1. isAlive' /\ UNCHANGED <<pingTimer, pings, clientVars>>
        BY <2>6 DEF Pong
      <3> QED
        BY <2>3, <3>1 DEF clientVars
    <2>7. CASE UNCHANGED <<isAlive, pingTimer>> /\ ~PingTick /\ ~Tick /\ ~\E d \in Conns : Pong(d)
      <3>1. CASE ClientOpens
        <4>1. isAlive' /\ pingTimer' = PingInterval /\ pingTimeout' = PingInterval + PingGrace
          BY <2>1, <2>3, <2>7, <3>1 DEF ClientOpens, Heartbeat
        <4> QED
          BY <1>0, <4>1, <2>1, <3>1 DEF ClientOpens
      <3>2. CASE ClientPing
        <4>1. client = "open" /\ client' = "open" /\ c \in pongs'
          BY <2>1, <3>2 DEF ClientPing
        <4>2. pingTimeout' = PingInterval + PingGrace
          BY <3>2 DEF ClientPing, Heartbeat
        <4>3. pingTimeout' >= pingTimer' + PingGrace
          BY <1>0, <2>7, <4>2 DEF Timer, Off
        <4> QED
          BY <2>3, <2>7, <4>1, <4>3
      <3>3. CASE UNCHANGED clientVars
        <4>1. CASE ClientPing
          BY <3>2, <4>1
        <4>2. CASE UNCHANGED <<pings, pongs>>
          BY <2>3, <2>7, <3>3, <4>2 DEF clientVars
        <4> QED
          BY <2>7, <4>1, <4>2, BeatActs
      <3> QED
        BY <2>1, <2>7, <3>1, <3>2, <3>3
    <2> QED
      BY <2>2, <2>4, <2>5, <2>6, <2>7, Undisturbed
  <1> QED
    BY <1>2, <1>3, OpenedBefore

LEMMA ListeningNext ==
  ASSUME IInv, Clocks, Clocks', Places, ClientTimers, ClientConnection, Session,
         Beating, Listening, [Next]_vars
  PROVE  Listening'
  <1> SUFFICES ASSUME NEW c \in Conns, link'[c] = "up", cur' = c, client' = "open"
               PROVE  pingTimeout' >= PingGrace
    BY Zenon DEF Listening
  <1>0. /\ PingInterval \in Nat \ {0} /\ PingGrace \in Nat \ {0}
        /\ pingTimer \in Timer(PingInterval) /\ pingTimeout \in Timer(PingInterval + PingGrace)
    BY Numbers DEF Clocks
  <1>1. link[c] = "up"
    BY WorkedBefore
  <1>2. /\ cur = c
        /\ \/ UNCHANGED clientVars
           \/ ClientOpens
           \/ ClientPing
           \/ Tick /\ UNCHANGED client
    BY GoesOn
  <1>3. CASE UNCHANGED clientVars
    BY <1>1, <1>3 DEF clientVars, Listening
  <1>4. CASE ClientOpens \/ ClientPing
    <2>1. pingTimeout' = PingInterval + PingGrace
      BY <1>4 DEF ClientOpens, ClientPing, Heartbeat
    <2> QED
      BY <1>0, <2>1
  <1>5. CASE Tick /\ client = "open"
    <2>1. ~UnderWay(c) /\ ~Due
      BY <1>5 DEF Tick
    <2>2. ws[c] = "open" /\ c \notin pings
      BY <1>1, <1>2, <1>5, <2>1 DEF UnderWay
    <2>3. pingTimeout >= pingTimer + PingGrace
      BY <1>1, <1>2, <1>5, <2>2 DEF Beating
    <2>4. pingTimer # 0 /\ pingTimer # Off /\ pingTimeout # 0 /\ pingTimeout # Off
      BY <1>5, <2>1, <2>2 DEF Due, Session, SessionOf, ClientTimers
    <2>5. pingTimeout' = pingTimeout - 1
      BY <1>5, <2>4 DEF Tick, Elapsed
    <2> QED
      BY <1>0, <2>3, <2>4, <2>5 DEF Timer, Off
  <1> QED
    BY <1>2, <1>3, <1>4, <1>5

LEMMA TerminatedBefore ==
  ASSUME IInv, [Next]_vars, NEW c \in Conns, ws'[c] = "terminated"
  PROVE  ws[c] = "terminated" \/ (PingTick /\ activeWs = c /\ ~isAlive)
  BY WsSteps

(* What a step of the heartbeat may never do.                              *)
LEMMA KeepsLive ==
  ASSUME IInv, Clocks, Places, ClientTimers, ClientConnection, Session, Beating, Listening,
         [Next]_vars
  PROVE  /\ \A c \in Conns :
              link[c] = "up" /\ ~ClientGone(c) /\ ws'[c] = "terminated" => ws[c] = "terminated"
         /\ PingTimeout => link[cur] # "up"
  <1>1. ASSUME NEW c \in Conns, link[c] = "up", ~ClientGone(c), ws'[c] = "terminated",
               ws[c] # "terminated"
        PROVE  FALSE
    <2>1. PingTick /\ activeWs = c /\ ~isAlive
      BY <1>1, TerminatedBefore
    <2>2. cur = c /\ client \in {"connecting", "open"}
      BY <1>1 DEF ClientGone, Places
    <2>3. ws[c] = "open" /\ pingTimer = 0
      BY <1>1, <2>1 DEF Session, SessionOf, PingTick
    <2>4. pingTimer = PingInterval
      BY <1>1, <2>1, <2>2, <2>3 DEF Beating
    <2> QED
      BY <2>3, <2>4, Numbers
  <1>2. ASSUME PingTimeout, link[cur] = "up" PROVE FALSE
    <2>1. client = "open" /\ pingTimeout = 0
      BY <1>2, TimeoutOpen DEF PingTimeout
    <2>2. cur \in Conns
      BY <2>1, Numbers DEF ClientConnection, Places, Conns
    <2>3. pingTimeout >= PingGrace
      BY <1>2, <2>1, <2>2 DEF Listening
    <2> QED
      BY <2>1, <2>3, Numbers
  <1> QED
    BY <1>1, <1>2

-----------------------------------------------------------------------------
(* The client is let in.                                                   *)

Quiet == time - lastTrouble

(* From then on, at the latest, the rate limit is over and a cleanup has   *)
(* forgotten every nonce that the client used up.                          *)
Settled == RateLimit + Drift + Grace + 2 * StepBack

Good == link[cur] = "up" /\ client \in {"connecting", "open"} /\ ws[cur] = "open"

(* On a link that no longer works the client's timeout runs.               *)
Losing ==
  /\ \A c \in Conns : cur = c /\ client = "open" /\ link[c] # "up" =>
       Quiet <= PingInterval + PingGrace - pingTimeout
  /\ client = "closing" =>
       Quiet <= PingInterval + PingGrace /\ \A c \in Conns : cur = c => link[c] # "up"

(* What keeps a client out wears off.                                      *)
Table ==
  ~Good =>
    /\ lastConnectionTime <= lastTrouble
    /\ \A n \in usedNonces : timestamp[n] - lastTrouble <= RateLimit + StepBack
    /\ Quiet > Settled + CleanupInterval - cleanupTimer => usedNonces = {}

(* Timers that have not run longer than they may.                          *)
LEMMA TimerLeft ==
  ASSUME NEW i \in Nat, NEW g \in Nat, NEW t \in Timer(i + g)
  PROVE  0 <= i + g - t
  BY DEF Timer, Off

LEMMA Left ==
  ASSUME NEW s \in Nat, NEW i \in Nat, NEW t \in Nat, t <= i
  PROVE  ~(0 > s + i - t)
  OBVIOUS

(* A step leaves its mark on the quiet.                                    *)
LEMMA QuietActs ==
  ASSUME Clocks, Clocks', Past, [Next]_vars
  PROVE  /\ Quiet \in Nat
         /\ \/ Tick /\ Quiet' = Quiet + 1
            \/ UNCHANGED time /\ Quiet' = 0
            \/ UNCHANGED <<time, lastTrouble>> /\ Quiet' = Quiet
  <1>1. time \in Nat /\ lastTrouble \in Nat /\ lastTrouble <= time
    BY Numbers DEF Clocks, Past
  <1>2. CASE Tick
    <2>1. time' = time + 1 /\ lastTrouble' = lastTrouble
      BY <1>2 DEF Tick, history
    <2> QED
      BY <1>1, <1>2, <2>1 DEF Quiet
  <1>3. CASE UNCHANGED time
    <2>1. lastTrouble' = lastTrouble \/ lastTrouble' = time
      BY LastActs
    <2> QED
      BY <1>1, <1>3, <2>1 DEF Quiet
  <1> QED
    BY <1>2, <1>3, TimeActs

(* Without trouble no link changes, no clock either, and whatever happens  *)
(* on a connection happens on a link that works.                           *)
LEMMA Untroubled ==
  ASSUME [Next]_vars, lastTrouble' # time
  PROVE  /\ UNCHANGED link
         /\ ~\E c \in Conns : RequestRepeated(c)
         /\ ~Restart
         /\ ClientOpens \/ ClientPing \/ ClientCloses => link[cur] = "up"
         /\ \A c \in Conns : Unauthorized(c) \/ RateLimited(c) \/ Accepted(c) => link[c] = "up"
  <1>1. ~\E c \in Conns : RequestRepeated(c)
    BY DEF RequestRepeated, Trouble, Troubled
  <1>2. ~\E c \in Conns, how \in {"slow", "dead"} : LinkFails(c, how)
    BY DEF LinkFails, Trouble, Troubled
  <1>3. ~Restart
    BY DEF Restart, Trouble, Troubled
  <1>4. ClientOpens \/ ClientPing \/ ClientCloses => link[cur] = "up"
    BY DEF ClientOpens, ClientPing, ClientCloses, InTime, Troubled
  <1>5. \A c \in Conns : Unauthorized(c) \/ RateLimited(c) \/ Accepted(c) => link[c] = "up"
    BY DEF Unauthorized, RateLimited, Accepted, Arrives, InTime, Troubled
  <1> QED
    BY <1>1, <1>2, <1>3, <1>4, <1>5, LinkActs

LEMMA LosingNext ==
  ASSUME IInv, Clocks, Clocks', Places, ClientTimers, ClientConnection, Session, Past,
         Beating, Listening, Losing, [Next]_vars
  PROVE  Losing'
  <1>0. /\ PingInterval \in Nat /\ PingGrace \in Nat /\ Quiet \in Nat
        /\ pingTimeout \in Timer(PingInterval + PingGrace)
        /\ pingTimeout' \in Timer(PingInterval + PingGrace)
    BY Numbers, QuietActs DEF Clocks
  <1>1. ASSUME NEW c \in Conns, cur' = c, client' = "open", link'[c] # "up"
        PROVE  Quiet' <= PingInterval + PingGrace - pingTimeout'
    <2>1. CASE Quiet' = 0
      <3>1. 0 <= PingInterval + PingGrace - pingTimeout'
        BY <1>0, TimerLeft
      <3> QED
        BY <2>1, <3>1, Zenon
    <2>2. CASE Quiet' # 0
      <3>1. lastTrouble' # time \/ Tick
        <4>1. \/ Tick
              \/ UNCHANGED <<time, lastTrouble>> /\ Quiet' = Quiet
          BY <2>2, QuietActs
        <4>2. Quiet = time - lastTrouble /\ time \in Nat /\ lastTrouble \in Nat
          BY Numbers DEF Quiet, Clocks
        <4> QED
          BY <2>2, <4>1, <4>2
      <3>2. UNCHANGED link /\ ~ClientOpens /\ ~ClientPing
        <4>1. CASE Tick
          BY <4>1 DEF Tick, ClientOpens, ClientPing, Heartbeat
        <4>2. CASE lastTrouble' # time
          BY <1>1, <4>2, Untroubled DEF ClientOpens, ClientPing
        <4> QED
          BY <3>1, <4>1, <4>2
      <3>3. cur = c /\ (UNCHANGED clientVars \/ (Tick /\ UNCHANGED <<cur, client>>))
        BY <1>1, <3>2, GoesOn
      <3>4. client = "open" /\ link[c] # "up"
        BY <1>1, <3>2, <3>3 DEF clientVars
      <3>5. Quiet <= PingInterval + PingGrace - pingTimeout
        BY <3>3, <3>4 DEF Losing
      <3>6. CASE Tick
        <4>1. Quiet' = Quiet + 1 \/ Quiet' = Quiet
          BY <2>2, QuietActs
        <4>2. pingTimeout # Off /\ pingTimeout' = pingTimeout - 1
          BY <3>4, <3>6 DEF Tick, Elapsed, ClientTimers
        <4> QED
          BY <1>0, <3>5, <4>1, <4>2 DEF Timer, Off
      <3>7. CASE UNCHANGED clientVars
        <4>1. ~Tick => Quiet' = Quiet
          BY <2>2, QuietActs
        <4> QED
          BY <3>5, <3>6, <3>7, <4>1 DEF clientVars
      <3> QED
        BY <3>3, <3>6, <3>7
    <2> QED
      BY <2>1, <2>2
  <1>2. ASSUME client' = "closing"
        PROVE  Quiet' <= PingInterval + PingGrace /\ \A c \in Conns : cur' = c => link'[c] # "up"
    <2>1. ~Tick
      <3>1. ASSUME Tick PROVE FALSE
        BY <1>2, <3>1 DEF Tick, Due
      <3> QED
        BY <3>1
    <2>2. Quiet' = 0 \/ Quiet' = Quiet
      BY <2>1, QuietActs
    <2>3. /\ UNCHANGED cur
          /\ Quiet <= PingInterval + PingGrace
          /\ \A c \in Conns : cur = c => link[c] # "up"
      <3>1. CASE PingTimeout
        <4>1. client = "open" /\ pingTimeout = 0 /\ UNCHANGED cur
          BY <3>1, TimeoutOpen DEF PingTimeout
        <4>2. link[cur] # "up"
          BY <3>1, KeepsLive
        <4>3. cur \in Conns
          BY <4>1, Numbers DEF ClientConnection, Places, Conns
        <4>4. Quiet <= PingInterval + PingGrace - pingTimeout
          BY <4>1, <4>2, <4>3 DEF Losing
        <4> QED
          BY <1>0, <4>1, <4>2, <4>4
      <3>2. CASE UNCHANGED clientVars
        BY <1>2, <3>2 DEF clientVars, Losing
      <3>3. ~Connect /\ ~ClientOpens /\ ~ClientPing /\ ~ClientCloses
        BY <1>2 DEF Connect, ClientOpens, ClientPing, ClientCloses
      <3> QED
        BY <2>1, <3>1, <3>2, <3>3, ClientActs
    <2>4. \A c \in Conns : cur' = c => link'[c] # "up"
      BY <2>3, WorkedBefore
    <2> QED
      BY <1>0, <2>2, <2>3, <2>4
  <1> QED
    BY <1>1, <1>2 DEF Losing

(* A session on a link that works goes on until there is trouble.          *)
LEMMA GoodStays ==
  ASSUME IInv, Clocks, Places, ClientTimers, ClientConnection, Session, Asking, Beating,
         Listening, [Next]_vars, Good, lastTrouble' # time
  PROVE  Good'
  <1>1. cur \in Conns /\ cur # made + 1
    BY Numbers DEF Good, ClientConnection, Places, Conns, IInv, Types
  <1>2. ~Connect /\ ~PingTimeout
    <2>1. ~Connect
      BY ConnectWaits DEF Good
    <2>2. ~PingTimeout
      BY KeepsLive DEF Good
    <2> QED
      BY <2>1, <2>2
  <1>3. ~ClientCloses
    BY DEF Good, ClientCloses
  <1>4. UNCHANGED cur /\ client' \in {"connecting", "open"}
    BY <1>2, <1>3, ClientActs DEF Good, clientVars, ClientOpens, ClientPing, Tick
  <1>5. ws'[cur] = ws[cur]
    <2>1. ~ClientGone(cur)
      BY DEF Good, ClientGone
    <2>2. ws'[cur] # "terminated"
      BY <1>1, <2>1, KeepsLive DEF Good
    <2>3. ~Unauthorized(cur) /\ ~RateLimited(cur) /\ ~Accepted(cur)
      BY DEF Good, Unauthorized, RateLimited, Accepted, Arrives
    <2>4. ~\E d \in Conns \ {cur} : Accepted(d)
      BY Untroubled DEF Accepted, Arrives, Asking
    <2>5. ~ServerCloses(cur)
      BY <2>1 DEF Good, ServerCloses
    <2> QED
      BY <1>1, <2>2, <2>3, <2>4, <2>5, WsSteps, Untroubled
  <1> QED
    BY <1>4, <1>5, Untroubled DEF Good

(* The session that is accepted without trouble is good.                   *)
LEMMA AcceptedGood ==
  ASSUME IInv, Places, Asking, [Next]_vars, NEW c \in Conns, Accepted(c), lastTrouble' # time
  PROVE  Good'
  <1>1. link[c] = "up" /\ UNCHANGED link
    BY Untroubled
  <1>2. cur = c /\ client = "connecting" /\ UNCHANGED clientVars
    BY <1>1 DEF Accepted, Arrives, Asking
  <1>3. ws'[c] = "open"
    BY DEF Accepted
  <1> QED
    BY <1>1, <1>2, <1>3 DEF Good, clientVars

LEMMA TableTyped == IInv /\ [Next]_vars => usedNonces' \subseteq Conns
  BY IInvNext DEF IInv, Types

(* A tick is no trouble, nor does it come with anything else.              *)
LEMMA QuietTick == Tick => UNCHANGED lastTrouble
  BY DEF Tick, history

LEMMA ConnectionTimeActs ==
  ASSUME [Next]_vars
  PROVE  UNCHANGED lastConnectionTime \/ Restart \/ \E c \in Conns : Accepted(c)
  <1> USE DEF handshake
  <1>1. CASE Next
    BY <1>1 DEF Next, Connect, ClientOpens, ClientPing, PingTimeout, ClientCloses, PingTick,
       OnConnection, Unauthorized, RateLimited, RefusalForgotten, Pong, ServerCloses,
       CleanupExpiredNonces, LinkFails, RequestRepeated, ClockAdjusted, Tick
  <1> QED
    BY <1>1 DEF vars

LEMMA CleanupActs ==
  ASSUME [Next]_vars
  PROVE  \/ UNCHANGED <<usedNonces, cleanupTimer>>
         \/ CleanupExpiredNonces \/ Restart \/ Tick
         \/ \E c \in Conns : RateLimited(c) \/ Accepted(c)
  <1> USE DEF handshake
  <1>1. CASE Next
    BY <1>1 DEF Next, Connect, ClientOpens, ClientPing, PingTimeout, ClientCloses, PingTick,
       OnConnection, Unauthorized, Arrives, Pong, ServerCloses, LinkFails, RequestRepeated,
       ClockAdjusted
  <1> QED
    BY <1>1 DEF vars

LEMMA TableNext ==
  ASSUME IInv, Clocks, Clocks', Places, ClientTimers, ClientConnection, Session, Past, Past',
         Asking, Beating, Listening, Table, [Next]_vars
  PROVE  Table'
  <1> SUFFICES ASSUME ~Good'
               PROVE  /\ lastConnectionTime' <= lastTrouble'
                      /\ \A n \in usedNonces' :
                           timestamp'[n] - lastTrouble' <= RateLimit + StepBack
                      /\ Quiet' > Settled + CleanupInterval - cleanupTimer' => usedNonces' = {}
    BY Zenon DEF Table
  <1>0. /\ RateLimit \in Nat /\ Drift \in Nat /\ Grace \in Nat /\ StepBack \in Nat
        /\ CleanupInterval \in Nat /\ Settled \in Nat
        /\ Settled = RateLimit + Drift + Grace + 2 * StepBack
        /\ Quiet \in Nat /\ Quiet = time - lastTrouble
        /\ time \in Nat /\ lastTrouble \in Nat /\ lastConnectionTime \in Nat
        /\ cleanupTimer \in Nat /\ cleanupTimer <= CleanupInterval
        /\ cleanupTimer' \in Nat /\ cleanupTimer' <= CleanupInterval
    <2>1. /\ RateLimit \in Nat /\ Drift \in Nat /\ Grace \in Nat /\ StepBack \in Nat
          /\ CleanupInterval \in Nat
      BY Numbers
    <2>2. Settled \in Nat /\ Settled = RateLimit + Drift + Grace + 2 * StepBack
      BY <2>1 DEF Settled
    <2>3. Quiet \in Nat /\ Quiet = time - lastTrouble
      BY QuietActs DEF Quiet
    <2>4. time \in Nat /\ lastTrouble \in Nat /\ lastConnectionTime \in Nat
      BY <2>1 DEF Clocks
    <2>5. cleanupTimer \in Nat /\ cleanupTimer <= CleanupInterval
      BY <2>1 DEF Clocks
    <2>6. cleanupTimer' \in Nat /\ cleanupTimer' <= CleanupInterval
      BY <2>1 DEF Clocks
    <2> QED
      BY <2>1, <2>2, <2>3, <2>4, <2>5, <2>6
  <1>1. CASE lastTrouble' = time /\ UNCHANGED time
    <2>1. lastConnectionTime' <= lastTrouble'
      BY <1>1 DEF Past
    <2>2. ASSUME NEW n \in usedNonces'
          PROVE  timestamp'[n] - lastTrouble' <= RateLimit + StepBack
      <3>1. n \in Conns
        BY TableTyped
      <3>2. timestamp'[n] <= time' /\ timestamp'[n] \in Nat
        BY <3>1, IInvNext DEF Past, IInv, Types
      <3> QED
        BY <1>0, <1>1, <3>2
    <2>3. Quiet' = 0
      BY <1>0, <1>1 DEF Quiet
    <2>4. ~(Quiet' > Settled + CleanupInterval - cleanupTimer')
      <3>1. ~(0 > Settled + CleanupInterval - cleanupTimer')
        BY <1>0, Left
      <3> QED
        BY <2>3, <3>1, Zenon
    <2> QED
      BY <2>1, <2>2, <2>4
  <1>2. CASE lastTrouble' = lastTrouble /\ (lastTrouble' # time \/ Tick)
    <2>1. ~Good
      <3>1. CASE lastTrouble' # time
        BY <3>1, GoodStays
      <3>2. CASE Tick
        BY <3>2 DEF Tick, Good
      <3> QED
        BY <1>2, <3>1, <3>2
    <2>2. /\ lastConnectionTime <= lastTrouble
          /\ \A n \in usedNonces : timestamp[n] - lastTrouble <= RateLimit + StepBack
          /\ Quiet > Settled + CleanupInterval - cleanupTimer => usedNonces = {}
      BY <2>1 DEF Table
    <2>3. ~\E c \in Conns : Accepted(c)
      <3>1. ASSUME NEW c \in Conns, Accepted(c) PROVE FALSE
        <4>1. CASE lastTrouble' # time
          BY <3>1, <4>1, AcceptedGood
        <4>2. CASE Tick
          BY <1>0, <3>1, <4>2 DEF Tick, Accepted, Arrives
        <4> QED
          BY <1>2, <4>1, <4>2
      <3> QED
        BY <3>1
    <2>4. CASE Tick
      <3>1. /\ UNCHANGED <<lastConnectionTime, usedNonces, timestamp>>
            /\ cleanupTimer' = cleanupTimer - 1
        BY <2>4 DEF Tick, handshake, headers
      <3>2. Quiet' = Quiet + 1
        BY <1>0, <1>2, <2>4 DEF Tick, Quiet
      <3>3. Quiet' > Settled + CleanupInterval - cleanupTimer'
              => Quiet > Settled + CleanupInterval - cleanupTimer
        BY <1>0, <3>1, <3>2
      <3> QED
        BY <1>2, <2>2, <3>1, <3>3
    <2>5. CASE ~Tick /\ lastTrouble' # time
      <3>1. UNCHANGED time /\ Quiet' = Quiet
        BY <1>2, <2>5, TimeActs DEF Quiet
      <3>2. lastConnectionTime' <= lastTrouble'
        BY <1>2, <2>2, <2>3, <2>5, ConnectionTimeActs, Untroubled
      <3>3. \A n \in usedNonces : timestamp'[n] = timestamp[n]
        <4>1. \A n \in usedNonces : n # made + 1
          BY DEF Past, IInv, Types, Conns
        <4>2. UNCHANGED timestamp \/ timestamp' = [timestamp EXCEPT ![made + 1] = time]
          BY <2>5, HeaderActs, Untroubled DEF Connect
        <4> QED
          BY <4>1, <4>2 DEF IInv, Types
      <3>4. CASE \E c \in Conns : RateLimited(c)
        <4> PICK c \in Conns : RateLimited(c)
          BY <3>4
        <4>1. link[c] = "up"
          BY <2>5, Untroubled
        <4>2. timestamp[c] = time
          BY <4>1 DEF RateLimited, Arrives, Asking
        <4>3. nonce[c] \in Conns /\ timestamp[nonce[c]] = time
          <5>1. nonce[c] \in Conns
            BY Unspent DEF RateLimited, Arrives
          <5>2. timestamp[nonce[c]] = timestamp[c]
            BY DEF RateLimited, Arrives, IInv, Requested, Signed
          <5> QED
            BY <4>2, <5>1, <5>2
        <4>4. Quiet <= RateLimit + StepBack
          <5>1. Now - lastConnectionTime < RateLimit
            BY DEF RateLimited, Flapping
          <5>2. offset \in Int /\ -StepBack <= offset /\ Now = time + offset
            BY <1>0 DEF IInv, Types, Now
          <5> QED
            BY <1>0, <2>2, <5>1, <5>2
        <4>5. /\ usedNonces' = usedNonces \cup {nonce[c]}
              /\ UNCHANGED <<timestamp, cleanupTimer>>
          BY DEF RateLimited, Records, Arrives, headers
        <4>6. \A n \in usedNonces' : timestamp'[n] - lastTrouble' <= RateLimit + StepBack
          BY <1>0, <1>2, <2>2, <4>3, <4>4, <4>5
        <4>7. ~(Quiet' > Settled + CleanupInterval - cleanupTimer')
          BY <1>0, <3>1, <4>4, <4>5
        <4> QED
          BY <3>2, <4>6, <4>7
      <3>5. CASE CleanupExpiredNonces
        <4>1. /\ usedNonces' = usedNonces \ Expired /\ cleanupTimer' = CleanupInterval
              /\ UNCHANGED timestamp
          BY <3>5 DEF CleanupExpiredNonces, headers
        <4>2. ASSUME Quiet > Settled, NEW n \in usedNonces PROVE n \in Expired
          <5>1. /\ timestamp[n] \in Nat /\ offset \in Int /\ -StepBack <= offset
                /\ Now = time + offset
            BY <1>0 DEF IInv, Types, Now
          <5>2. timestamp[n] - lastTrouble <= RateLimit + StepBack
            BY <2>2
          <5>3. Now - timestamp[n] > Drift + Grace
            BY <1>0, <4>2, <5>1, <5>2
          <5> QED
            BY <5>3 DEF Expired
        <4>3. Quiet' > Settled + CleanupInterval - cleanupTimer' => usedNonces' = {}
          <5>1. Quiet' > Settled + CleanupInterval - cleanupTimer' => Quiet > Settled
            BY <1>0, <3>1, <4>1
          <5> QED
            BY <4>1, <4>2, <5>1
        <4> QED
          BY <1>2, <2>2, <3>2, <4>1, <4>3
      <3>6. CASE UNCHANGED <<usedNonces, cleanupTimer>>
        BY <1>2, <2>2, <3>1, <3>2, <3>3, <3>6
      <3> QED
        BY <2>3, <2>5, <3>4, <3>5, <3>6, CleanupActs, Untroubled
    <2> QED
      BY <1>2, <2>4, <2>5
  <1> QED
    BY <1>1, <1>2, LastActs, TimeActs, QuietTick

(* How long the client can have been kept out, as its state shows: while   *)
(* it waits to reconnect, while it is connecting, and while it has a       *)
(* connection on a link that works and was refused.                        *)
Patience ==
  secretsMatch =>
    /\ client = "waiting" =>
         Quiet + reconnectTimer <= ReconnectDelay + Settled + CleanupInterval
    /\ \A c \in Conns : cur = c /\ client = "connecting" /\ link[c] = "up" =>
         Quiet <= ReconnectDelay + Settled + CleanupInterval
    /\ \A c \in Conns :
         cur = c /\ client \in {"connecting", "open"} /\ link[c] = "up" =>
           ws[c] \in {"requested", "open"} \/ Quiet <= Settled + CleanupInterval

(* Every leaf about numbers below needs these.                             *)
LEMMA Spans ==
  /\ Settled \in Nat /\ ReconnectDelay \in Nat /\ CleanupInterval \in Nat
  /\ Settled = RateLimit + Drift + Grace + 2 * StepBack
  BY Numbers DEF Settled

(* An attempt on a link that works is refused by the rate limit or because *)
(* of the nonces in the table, not after they have worn off.               *)
LEMMA RefusedEarly ==
  ASSUME IInv, Clocks, Past, Asking, Table, StepBack <= Drift, secretsMatch,
         NEW c \in Conns, link[c] = "up", Unauthorized(c) \/ RateLimited(c)
  PROVE  Quiet <= Settled + CleanupInterval
  <1>1. ws[c] = "requested" /\ cur = c /\ timestamp[c] = time
    BY DEF Unauthorized, RateLimited, Arrives, Asking
  <1>2. ~Good
    BY <1>1 DEF Good
  <1>3. time \in Nat /\ offset \in Int /\ -StepBack <= offset /\ offset <= 0 /\ Now = time + offset
    BY Numbers DEF IInv, Types, Now
  <1>4. lastTrouble \in Nat /\ lastConnectionTime \in Nat /\ cleanupTimer \in Nat
    BY Numbers DEF Clocks
  <1>5. CASE RateLimited(c)
    <2>1. Now - lastConnectionTime < RateLimit
      BY <1>5 DEF RateLimited, Flapping
    <2>2. lastConnectionTime <= lastTrouble
      BY <1>2 DEF Table
    <2>3. Quiet = time - lastTrouble
      BY DEF Quiet
    <2>4. time - lastTrouble < RateLimit + StepBack
      BY <1>3, <1>4, <2>1, <2>2, Numbers
    <2> QED
      BY <1>3, <1>4, <2>3, <2>4, Numbers, Spans
  <1>6. CASE Unauthorized(c)
    <2>1. Quiet > Settled + CleanupInterval - cleanupTimer => usedNonces = {}
      BY <1>2 DEF Table
    <2>2. Distance(Now, timestamp[c]) <= Drift
      BY <1>1, <1>3, Numbers DEF Distance
    <2>3. usedNonces # {}
      <3>1. usedNonces = {} => Cardinality(usedNonces) = 0
        BY FS_EmptySet
      <3>2. 0 < MaxNonces
        BY Numbers
      <3>3. ~Authorized(c)
        BY <1>6 DEF Unauthorized
      <3> QED
        BY <2>2, <3>1, <3>2, <3>3 DEF Authorized
    <2>4. ~(Quiet > Settled + CleanupInterval - cleanupTimer)
      BY <2>1, <2>3
    <2>5. Quiet \in Int
      BY <1>3, <1>4 DEF Quiet
    <2> QED
      BY <1>4, <2>4, <2>5, Spans
  <1> QED
    BY <1>5, <1>6

LEMMA PatienceNext ==
  ASSUME IInv, Clocks, Clocks', Places, Truths, ClientTimers, ClientTimers', ClientConnection,
         Session, Past, Asking, Beating, Listening, Losing, Table, Patience,
         StepBack <= Drift, [Next]_vars
  PROVE  Patience'
  <1> DEFINE most == ReconnectDelay + Settled + CleanupInterval
  <1>0. /\ most \in Nat /\ Settled + CleanupInterval \in Nat
        /\ most = ReconnectDelay + (Settled + CleanupInterval)
        /\ Quiet \in Nat
        /\ reconnectTimer \in Timer(ReconnectDelay) /\ reconnectTimer' \in Timer(ReconnectDelay)
    BY Spans, QuietActs DEF Clocks
  <1> SUFFICES ASSUME secretsMatch
               PROVE  /\ client' = "waiting" => Quiet' + reconnectTimer' <= most
                      /\ \A c \in Conns :
                           cur' = c /\ client' = "connecting" /\ link'[c] = "up" =>
                             Quiet' <= most
                      /\ \A c \in Conns :
                           cur' = c /\ client' \in {"connecting", "open"} /\ link'[c] = "up" =>
                             \/ ws'[c] \in {"requested", "open"}
                             \/ Quiet' <= Settled + CleanupInterval
    <2>1. UNCHANGED secretsMatch
      BY SecretsStay
    <2> QED
      BY <2>1, Zenon DEF Patience
  <1>1. CASE Quiet' = 0
    <2>1. 0 <= most /\ 0 <= Settled + CleanupInterval
      BY <1>0
    <2>2. 0 + reconnectTimer' <= most
      BY <1>0, Spans DEF Timer, Off
    <2> QED
      BY <1>1, <2>1, <2>2, Zenon
  <1>2. CASE Tick
    <2>1. ~Due /\ (\A c \in Conns : ~UnderWay(c)) /\ UNCHANGED <<cur, client, link, ws>>
      BY <1>2 DEF Tick
    <2>2. ASSUME client' = "waiting" PROVE Quiet' + reconnectTimer' <= most
      <3>1. reconnectTimer # Off /\ Quiet + reconnectTimer <= most
        BY <2>1, <2>2 DEF ClientTimers, Patience
      <3>2. reconnectTimer' = reconnectTimer - 1
        BY <1>2, <3>1 DEF Tick, Elapsed
      <3>3. Quiet' = Quiet + 1 \/ Quiet' = Quiet \/ Quiet' = 0
        BY QuietActs
      <3>4. reconnectTimer \in Int
        BY <1>0, Spans DEF Timer, Off
      <3> QED
        BY <1>0, <3>1, <3>2, <3>3, <3>4
    <2>3. ASSUME NEW c \in Conns, cur = c, link[c] = "up" PROVE client # "connecting"
      BY <2>1, <2>3 DEF UnderWay
    <2>4. ASSUME NEW c \in Conns, cur = c, link[c] = "up", client = "open" PROVE ws[c] = "open"
      BY <2>1, <2>4 DEF UnderWay
    <2> QED
      BY <2>1, <2>2, <2>3, <2>4
  <1>3. CASE UNCHANGED <<time, lastTrouble>> /\ Quiet' = Quiet /\ Quiet # 0
    <2>1. lastTrouble' # time
      BY <1>3 DEF Quiet, Clocks
    <2>2. ~Tick
      BY <1>3, Numbers DEF Tick, Clocks
    <2>3. ASSUME NEW c \in Conns, cur = c, client \in {"connecting", "open"}, link[c] = "up",
                 ws[c] \notin {"requested", "open"}
          PROVE  Quiet <= Settled + CleanupInterval
      BY <2>3 DEF Patience
    <2>4. ASSUME client' = "waiting" PROVE Quiet + reconnectTimer' <= most
      <3>1. CASE ClientCloses
        <4>1. link[cur] = "up" /\ reconnectTimer' = ReconnectDelay
          BY <2>1, <3>1, Untroubled DEF ClientCloses
        <4>2. client # "waiting"
          BY <3>1 DEF ClientCloses
        <4>3. cur \in Conns
          BY <4>2, Numbers DEF ClientConnection, Places, Conns
        <4>4. client \in {"connecting", "open"} /\ ws[cur] \notin {"requested", "open"}
          BY <3>1, <4>1, <4>3 DEF ClientCloses, Losing
        <4>5. Quiet <= Settled + CleanupInterval
          BY <2>3, <4>1, <4>3, <4>4
        <4> QED
          BY <1>0, <4>1, <4>5, Spans
      <3>2. CASE UNCHANGED clientVars
        BY <2>4, <3>2 DEF clientVars, Patience
      <3>3. ~Connect /\ ~ClientOpens /\ ~ClientPing /\ ~PingTimeout
        BY <2>4 DEF Connect, ClientOpens, ClientPing, PingTimeout
      <3> QED
        BY <2>2, <3>1, <3>2, <3>3, ClientActs
    <2>5. ASSUME NEW c \in Conns, cur' = c, client' = "connecting", link'[c] = "up"
          PROVE  Quiet <= most
      <3>1. link[c] = "up"
        BY <2>5, WorkedBefore
      <3>2. CASE Connect
        <4>1. client = "waiting" /\ reconnectTimer = 0
          BY <3>2, ConnectWaits DEF Connect
        <4>2. Quiet + 0 <= most
          BY <4>1 DEF Patience
        <4> QED
          BY <1>0, <4>2
      <3>3. CASE UNCHANGED clientVars
        BY <2>5, <3>1, <3>3 DEF clientVars, Patience
      <3>4. ~ClientOpens /\ ~ClientPing /\ ~PingTimeout /\ ~ClientCloses
        BY <2>5 DEF ClientOpens, ClientPing, PingTimeout, ClientCloses
      <3> QED
        BY <2>2, <3>2, <3>3, <3>4, ClientActs
    <2>6. ASSUME NEW c \in Conns, cur' = c, client' \in {"connecting", "open"},
                 link'[c] = "up", ws'[c] \notin {"requested", "open"}
          PROVE  Quiet <= Settled + CleanupInterval
      <3>1. link[c] = "up"
        BY <2>6, WorkedBefore
      <3>2. cur = c /\ client \in {"connecting", "open"}
        BY <2>6, GoesOn
      <3>3. ws[c] # "open"
        <4>1. ASSUME ws[c] = "open" PROVE FALSE
          <5>1. Good
            BY <3>1, <3>2, <4>1 DEF Good
          <5>2. Good'
            BY <2>1, <5>1, GoodStays
          <5> QED
            BY <2>6, <5>2 DEF Good
        <4> QED
          BY <4>1
      <3>4. CASE ws[c] = "requested"
        <4>1. activeWs # c
          BY <3>4 DEF Session, SessionOf
        <4>2. ~ServerCloses(c) /\ ~Restart
          BY <2>1, <3>4, Untroubled DEF ServerCloses
        <4>3. Unauthorized(c) \/ RateLimited(c)
          BY <2>6, <3>4, <4>1, <4>2, WsSteps
        <4> QED
          BY <3>1, <4>3, RefusedEarly
      <3>5. CASE ws[c] # "requested"
        BY <2>3, <3>1, <3>2, <3>3, <3>5
      <3> QED
        BY <3>4, <3>5
    <2>7. Quiet' = Quiet
      BY <1>3
    <2> HIDE DEF most
    <2> QED
      BY <2>4, <2>5, <2>6, <2>7, Zenon
  <1>4. \/ Tick \/ Quiet' = 0
        \/ UNCHANGED <<time, lastTrouble>> /\ Quiet' = Quiet
    BY QuietActs
  <1> HIDE DEF most
  <1> QED
    BY <1>1, <1>2, <1>3, <1>4, Zenon

-----------------------------------------------------------------------------
(* The whole invariant.                                                    *)
Timing ==
  /\ Clocks /\ Places /\ Truths /\ Room
  /\ ClientTimers /\ ClientConnection /\ Session /\ Past
  /\ ServerNotices /\ ClientNotices
  /\ Asking /\ Beating /\ Listening
  /\ Losing /\ Table

LEMMA TimingInit == Init => Timing
  <1> SUFFICES ASSUME Init PROVE Timing
    OBVIOUS
  <1> USE Numbers DEF Init, Conns, Timer, Off
  <1>1. Clocks /\ Places
    BY DEF Clocks, Places
  <1>2. Truths
    BY DEF Truths
  <1>3. Room
    BY FS_EmptySet DEF Room
  <1>4. ClientTimers /\ ClientConnection
    BY DEF ClientTimers, ClientConnection
  <1>5. Session
    BY DEF Session, SessionOf
  <1>6. Past
    BY DEF Past
  <1>7. ServerNotices /\ ClientNotices /\ Asking /\ Beating /\ Listening
    BY DEF ServerNotices, ClientNotices, Asking, Beating, Listening
  <1>8. Losing
    BY DEF Losing
  <1>9. Table
    BY DEF Table
  <1> QED
    BY <1>1, <1>2, <1>3, <1>4, <1>5, <1>6, <1>7, <1>8, <1>9 DEF Timing

LEMMA TimingNext ==
  ASSUME IInv, Timing, [Next]_vars
  PROVE  Timing'
  <1> USE DEF Timing
  <1>1. Clocks' /\ Places' /\ Truths' /\ Room'
    BY ClocksNext, PlacesNext, TruthsNext, RoomNext
  <1>2. ClientTimers' /\ ClientConnection' /\ Session' /\ Past'
    BY ClientTimersNext, ClientConnectionNext, SessionNext, PastNext
  <1>3. ServerNotices' /\ ClientNotices'
    BY ServerNoticesNext, ClientNoticesNext
  <1>4. Asking' /\ Beating' /\ Listening'
    BY <1>1, <1>2, AskingNext, BeatingNext, ListeningNext
  <1>5. Losing' /\ Table'
    BY <1>1, <1>2, LosingNext, TableNext
  <1> QED
    BY <1>1, <1>2, <1>3, <1>4, <1>5

LEMMA TimingAlways == Spec => [](IInv /\ Timing)
  BY IInvInit, IInvNext, TimingInit, TimingNext, PTL DEF Spec

(* The state that tunnelServer.js and raspberryClient.js keep is what it   *)
(* should be: the table of nonces never holds more than                    *)
(* MAX_NONCE_TRACKING_SIZE, and no timer runs longer than it was set.      *)
THEOREM TypeCorrect == Spec => []TypeOK
  <1>1. IInv /\ Timing => TypeOK
    <2> SUFFICES ASSUME IInv, Timing PROVE TypeOK
      OBVIOUS
    <2>1. Types /\ Clocks /\ Places /\ Truths /\ Room
      BY DEF IInv, Timing
    <2>2. {lastTrouble, lastPong} \subseteq Nat
      BY <2>1 DEF Clocks
    <2> QED
      BY <2>1, <2>2 DEF TypeOK, Types, States, Clocks, Places, Truths, Room
  <1> QED
    BY <1>1, TimingAlways, PTL

(* Whatever the intervals are, a dead link is noticed in time: the server  *)
(* gives a session up two intervals after its link has died or after the   *)
(* last pong, the client after its timeout, which every 'ping' sets again. *)
THEOREM DeadLinksNoticed == Spec => []DeadNoticed
  <1>1. IInv /\ Timing => DeadNoticed
    <2> SUFFICES ASSUME IInv, Timing, NEW c \in Conns, link[c] = "dead"
                 PROVE  /\ activeWs = c => Within(2 * PingInterval, time, deadSince[c], lastPong)
                        /\ cur = c /\ client = "open" =>
                             time - deadSince[c] <= PingInterval + PingGrace
      BY Zenon DEF DeadNoticed, Within
    <2>0. /\ PingInterval \in Nat /\ PingGrace \in Nat
          /\ time \in Nat /\ deadSince[c] \in Nat /\ lastPong \in Nat
          /\ pingTimer \in Timer(PingInterval)
          /\ pingTimeout \in Timer(PingInterval + PingGrace)
      BY Numbers DEF IInv, Types, Timing, Clocks, Places
    <2>1. ASSUME activeWs = c
          PROVE  Within(2 * PingInterval, time, deadSince[c], lastPong)
      <3>1. /\ pingTimer # Off
            /\ Noticed(ws[c], isAlive, pingTimer, time, deadSince[c], lastPong)
        BY <2>1 DEF Timing, Session, SessionOf, ServerNotices
      <3>2. pingTimer \in Nat
        BY <2>0, <3>1 DEF Timer, Off
      <3>3. \/ Within(PingInterval - pingTimer, time, deadSince[c], lastPong)
            \/ Within(2 * PingInterval - pingTimer, time, deadSince[c], lastPong)
            \/ Within(2 * PingInterval, time, deadSince[c], lastPong)
        BY <3>1, Zenon DEF Noticed
      <3> QED
        BY <2>0, <3>2, <3>3 DEF Within
    <2>2. ASSUME cur = c, client = "open"
          PROVE  time - deadSince[c] <= PingInterval + PingGrace
      <3>1. /\ pingTimeout # Off
            /\ time - deadSince[c] <= PingInterval + PingGrace - pingTimeout
        BY <2>2 DEF Timing, ClientTimers, ClientNotices
      <3> QED
        BY <2>0, <3>1 DEF Timer, Off
    <2> QED
      BY <2>1, <2>2
  <1> QED
    BY <1>1, TimingAlways, PTL

(* Whatever the intervals are, the heartbeat ends no session whose link    *)
(* works, as long as the client's timeout exceeds the interval of the      *)
(* pings: what is under way on such a link arrives before the next tick.   *)
THEOREM LiveSessionsKept == Spec => LiveSessionKept
  <1>1. IInv /\ Timing /\ [Next]_vars =>
          [/\ \A c \in Conns :
                link[c] = "up" /\ ~ClientGone(c) /\ ws'[c] = "terminated" => ws[c] = "terminated"
           /\ PingTimeout => link[cur] # "up"]_vars
    BY KeepsLive DEF Timing
  <1> QED
    BY <1>1, TimingAlways, PTL DEF Spec, LiveSessionKept

(* Whatever the limits are, the client is not locked out, provided that    *)
(* the server's clock is never set back further than the difference the    *)
(* handshake tolerates: what the rate limit of the 'connection' handler    *)
(* and the nonces used up meanwhile refuse wears off in Recovery.          *)
THEOREM NotLockedOut ==
  ASSUME StepBack <= Drift
  PROVE  Spec => []GetsIn
  <1>1. Init => Patience
    <2> SUFFICES ASSUME Init PROVE Patience
      OBVIOUS
    <2>1. Quiet = 0 /\ reconnectTimer = 0 /\ client = "waiting"
      BY Numbers DEF Init, Quiet
    <2>2. 0 + 0 <= ReconnectDelay + Settled + CleanupInterval
      BY Spans
    <2> QED
      BY <2>1, <2>2 DEF Patience
  <1>2. IInv /\ Timing /\ IInv' /\ Timing' /\ Patience /\ [Next]_vars => Patience'
    BY PatienceNext DEF Timing
  <1>3. IInv /\ Timing /\ Patience => GetsIn
    <2> SUFFICES ASSUME IInv, Timing, Patience, secretsMatch, Quiet > Recovery
                 PROVE  \/ client = "open" /\ activeWs = cur
                        \/ client = "connecting" /\ link[cur] # "up"
      BY Zenon DEF GetsIn, Quiet
    <2>1. /\ Quiet > ReconnectDelay + (PingInterval + PingGrace)
          /\ Quiet > ReconnectDelay + (Settled + CleanupInterval)
          /\ Quiet \in Int
      <3>1. time \in Nat /\ lastTrouble \in Nat
        BY Numbers DEF Timing, Clocks
      <3>2. Quiet \in Int
        BY <3>1 DEF Quiet
      <3> QED
        BY <3>2, Numbers DEF Recovery, Settled
    <2>2. client \in {"waiting", "connecting", "open", "closing"}
      BY DEF Timing, Places
    <2>3. client # "waiting"
      <3>1. reconnectTimer \in Timer(ReconnectDelay)
        BY DEF Timing, Clocks
      <3>2. ASSUME client = "waiting" PROVE FALSE
        <4>1. reconnectTimer # Off
              /\ Quiet + reconnectTimer <= ReconnectDelay + Settled + CleanupInterval
          BY <3>2 DEF Timing, ClientTimers, Patience
        <4> QED
          BY <2>1, <3>1, <4>1, Spans DEF Timer, Off
      <3> QED
        BY <3>2
    <2>4. client # "closing"
      <3>1. client = "closing" => Quiet <= PingInterval + PingGrace
        BY DEF Timing, Losing
      <3> QED
        BY <2>1, <3>1, Numbers
    <2>5. cur \in Conns
      BY <2>3, Numbers DEF Timing, ClientConnection, Places, Conns
    <2>6. CASE client = "connecting"
      <3>1. link[cur] = "up" => Quiet <= ReconnectDelay + Settled + CleanupInterval
        BY <2>5, <2>6 DEF Patience
      <3> QED
        BY <2>1, <2>6, <3>1, Spans
    <2>7. CASE client = "open"
      <3>1. pingTimeout \in Timer(PingInterval + PingGrace) /\ pingTimeout # Off
        BY <2>7 DEF Timing, Clocks, ClientTimers
      <3>2. link[cur] # "up" => Quiet <= PingInterval + PingGrace - pingTimeout
        BY <2>5, <2>7 DEF Timing, Losing
      <3>3. link[cur] = "up"
        BY <2>1, <3>1, <3>2, Numbers DEF Timer, Off
      <3>4. ws[cur] # "requested"
        BY <2>5, <2>7 DEF Timing, ClientConnection
      <3>5. ws[cur] # "open" => Quiet <= Settled + CleanupInterval
        BY <2>5, <2>7, <3>3, <3>4 DEF Patience
      <3>6. ws[cur] = "open"
        BY <2>1, <3>5, Spans
      <3> QED
        BY <2>5, <2>7, <3>6 DEF Timing, Session, SessionOf
    <2> QED
      BY <2>2, <2>3, <2>4, <2>6, <2>7
  <1> QED
    BY <1>1, <1>2, <1>3, TimingInit, IInvInit, TimingAlways, PTL DEF Spec
=============================================================================
