---------------------------- MODULE TunnelSession ----------------------------
(***************************************************************************)
(* How a tunnel session begins and how either end notices that it is over: *)
(* the 'connection' handler of server/tunnelServer.js with its nonce table *)
(* (cleanupExpiredNonces) and rate limit, the heartbeat of both ends, and  *)
(* connect() of client/raspberryClient.js with its reconnect timer.        *)
(*                                                                         *)
(* Time passes in ticks.  Timers count down and are due at 0; a tick waits *)
(* for what is due and for what is under way on a link that is "up", so a  *)
(* message takes less than a tick there, in any order with the timers.  On *)
(* a "slow" link it arrives any time later or never, on a "dead" one never.*)
(* Date.now() of the server is not a timer: it may be set back by StepBack *)
(* and forward again.                                                      *)
(*                                                                         *)
(* Both ends read the same intervals, which the code takes from the        *)
(* environment of each; the client's clock is right.                       *)
(* Not here: the handshake by secret header, which keeps no state.         *)
(***************************************************************************)
EXTENDS Integers, FiniteSets

CONSTANTS
  MaxTime,         \* bound: ticks
  MaxConns,        \* bound: connections that are made
  MaxTroubles,     \* bound: broken links, clock changes, copies, restarts
  Drift,           \* HANDSHAKE_TIMEOUT_MS
  Grace,           \* the 60000 added to it by cleanupExpiredNonces
  StepBack,        \* how far the server's clock may be set back
  CleanupInterval, \* the 60000 between two cleanups
  MaxNonces,       \* MAX_NONCE_TRACKING_SIZE
  RateLimit,       \* RATE_LIMIT_MS
  PingInterval,    \* PING_INTERVAL_MS
  PingGrace,       \* the 5000 added to it by the client
  ReconnectDelay   \* RECONNECT_DELAY_MS

ASSUME TunnelSessionAssumption ==
  /\ {MaxTime, MaxConns, MaxTroubles, Drift, Grace, StepBack, RateLimit} \subseteq Nat
  /\ {MaxNonces, PingInterval, PingGrace, CleanupInterval, ReconnectDelay} \subseteq Nat \ {0}
  /\ StepBack <= Grace
  /\ StepBack < MaxTime     \* the clock starts at StepBack + 1

Conns == 1 .. MaxConns
Off   == -1     \* a timer that is not armed

VARIABLES
  time, offset,          \* real time; the server's clock is time + offset
  made,                  \* connections made so far
  nonce, timestamp,      \* the headers each of them came with
  link,                  \* "up", "slow" or "dead"
  secretsMatch,          \* the signatures are made with the server's secret
  ws,                    \* each connection at the server
  activeWs, lastConnectionTime, usedNonces, isAlive,
  pingTimer, cleanupTimer,
  cur, client,           \* the client's connection, and its state
  pingTimeout, reconnectTimer,
  pings, pongs,          \* connections with a ping, a pong under way
  passed,                \* history: how often each nonce was let pass
  troubles, lastTrouble, \* history: faults so far, time of the last one
  deadSince, lastPong    \* history

headers   == <<nonce, timestamp, secretsMatch>>
clientVars == <<cur, client, pingTimeout, reconnectTimer>>
handshake == <<lastConnectionTime, usedNonces, passed>>
history   == <<troubles, lastTrouble, deadSince>>
vars == <<time, offset, made, headers, link, ws, activeWs, handshake, isAlive,
          pingTimer, cleanupTimer, clientVars, pings, pongs, history, lastPong>>

Timer(max) == 0 .. max \cup {Off}

TypeOK ==
  /\ time \in StepBack + 1 .. MaxTime
  /\ offset \in -StepBack .. 0
  /\ made \in 0 .. MaxConns
  /\ nonce \in [Conns -> 0 .. MaxConns]
  /\ timestamp \in [Conns -> Nat]
  /\ link \in [Conns -> {"up", "slow", "dead"}]
  /\ secretsMatch \in BOOLEAN
  /\ ws \in [Conns -> {"none", "requested", "open", "closing", "terminated", "closed"}]
  /\ activeWs \in 0 .. MaxConns
  /\ lastConnectionTime \in Nat
  /\ usedNonces \subseteq Conns /\ Cardinality(usedNonces) <= MaxNonces
  /\ isAlive \in BOOLEAN
  /\ pingTimer \in Timer(PingInterval)
  /\ cleanupTimer \in 0 .. CleanupInterval
  /\ cur \in 0 .. MaxConns
  /\ client \in {"waiting", "connecting", "open", "closing"}
  /\ pingTimeout \in Timer(PingInterval + PingGrace)
  /\ reconnectTimer \in Timer(ReconnectDelay)
  /\ pings \subseteq Conns /\ pongs \subseteq Conns
  /\ passed \in [Conns -> Nat]
  /\ troubles \in 0 .. MaxTroubles
  /\ {lastTrouble, lastPong} \subseteq Nat
  /\ deadSince \in [Conns -> Nat]

Init ==
  /\ time = StepBack + 1
  /\ offset = 0
  /\ made = 0
  /\ nonce = [c \in Conns |-> 0]
  /\ timestamp = [c \in Conns |-> 0]
  /\ link = [c \in Conns |-> "up"]
  /\ secretsMatch \in BOOLEAN
  /\ ws = [c \in Conns |-> "none"]
  /\ activeWs = 0
  /\ lastConnectionTime = 0
  /\ usedNonces = {}
  /\ isAlive = FALSE
  /\ pingTimer = Off
  /\ cleanupTimer = CleanupInterval
  /\ cur = 0
  /\ client = "waiting"
  /\ pingTimeout = Off
  /\ reconnectTimer = 0
  /\ pings = {} /\ pongs = {}
  /\ passed = [c \in Conns |-> 0]
  /\ troubles = 0
  /\ lastTrouble = time
  /\ lastPong = 0
  /\ deadSince = [c \in Conns |-> 0]

-----------------------------------------------------------------------------
Now == time + offset

Distance(a, b) == IF a > b THEN a - b ELSE b - a

ClientGone(c) == cur # c \/ client \in {"waiting", "closing"}

Troubled == lastTrouble' = time

(* What arrives late on a link that is not up counts as a fault.           *)
InTime(c) == IF link[c] = "up" THEN UNCHANGED lastTrouble ELSE Troubled

-----------------------------------------------------------------------------
(* The client.                                                             *)

(* connect(): a fresh nonce and the time, signed.                          *)
Connect ==
  LET c == made + 1 IN
  /\ reconnectTimer = 0
  /\ c \in Conns
  /\ made' = c
  /\ nonce' = [nonce EXCEPT ![c] = c]
  /\ timestamp' = [timestamp EXCEPT ![c] = time]
  /\ ws' = [ws EXCEPT ![c] = "requested"]
  /\ cur' = c
  /\ client' = "connecting"
  /\ reconnectTimer' = Off
  /\ UNCHANGED <<time, offset, link, secretsMatch, activeWs, handshake, isAlive,
                 pingTimer, cleanupTimer, pingTimeout, pings, pongs, history, lastPong>>

HeartbeatWithoutGrace == pingTimeout' = PingInterval

Heartbeat == pingTimeout' = PingInterval + PingGrace

(* 'open'.  The answer to the upgrade precedes the handler that may refuse *)
(* the connection, so a refused client sees 'open' too.                    *)
ClientOpens ==
  /\ client = "connecting"
  /\ ws[cur] \notin {"none", "requested"}
  /\ link[cur] # "dead"
  /\ client' = "open"
  /\ Heartbeat
  /\ InTime(cur)
  /\ UNCHANGED <<time, offset, made, headers, link, ws, activeWs, handshake, isAlive,
                 pingTimer, cleanupTimer, cur, reconnectTimer, pings, pongs,
                 troubles, deadSince, lastPong>>

(* 'ping', which the ws package has answered already.                      *)
ClientPing ==
  /\ cur \in pings
  /\ client = "open"
  /\ link[cur] # "dead"
  /\ pings' = pings \ {cur}
  /\ pongs' = pongs \cup {cur}
  /\ Heartbeat
  /\ InTime(cur)
  /\ UNCHANGED <<time, offset, made, headers, link, ws, activeWs, handshake, isAlive,
                 pingTimer, cleanupTimer, cur, client, reconnectTimer, troubles,
                 deadSince, lastPong>>

PingTimeout ==
  /\ pingTimeout = 0
  /\ client' = "closing"
  /\ pingTimeout' = Off
  /\ UNCHANGED <<time, offset, made, headers, link, ws, activeWs, handshake, isAlive,
                 pingTimer, cleanupTimer, cur, reconnectTimer, pings, pongs,
                 history, lastPong>>

(* 'close': of a socket it terminated, of one the server has closed, or of *)
(* an attempt that fails.  An attempt on a link that has died has no timer *)
(* of its own: it ends when the operating system says so.                  *)
ClientCloses ==
  /\ \/ client = "closing"
     \/ client = "open" /\ link[cur] # "dead" /\ ws[cur] \in {"closing", "terminated", "closed"}
     \/ client = "connecting" /\ link[cur] # "dead" /\ ws[cur] \in {"none", "terminated", "closed"}
     \/ client = "connecting" /\ link[cur] # "up"
  /\ client' = "waiting"
  /\ pingTimeout' = Off
  /\ reconnectTimer' = ReconnectDelay
  /\ InTime(cur)
  /\ UNCHANGED <<time, offset, made, headers, link, ws, activeWs, handshake, isAlive,
                 pingTimer, cleanupTimer, cur, pings, pongs, troubles, deadSince, lastPong>>

-----------------------------------------------------------------------------
(* The server.                                                             *)

AuthorizedUncapped(c) ==
  /\ Distance(Now, timestamp[c]) <= Drift
  /\ nonce[c] \notin usedNonces
  /\ secretsMatch

(* The handshake, check by check; what passes leaves its nonce behind.     *)
Authorized(c) ==
  /\ Distance(Now, timestamp[c]) <= Drift
  /\ nonce[c] \notin usedNonces
  /\ Cardinality(usedNonces) < MaxNonces
  /\ secretsMatch

Flapping == lastConnectionTime # 0 /\ Now - lastConnectionTime < RateLimit

Arrives(c) ==
  /\ ws[c] = "requested"
  /\ link[c] # "dead"
  /\ InTime(c)
  /\ UNCHANGED <<time, offset, made, headers, link, cleanupTimer, clientVars,
                 pings, pongs, troubles, deadSince, lastPong>>

Records(c) ==
  /\ usedNonces' = usedNonces \cup {nonce[c]}
  /\ passed' = [passed EXCEPT ![nonce[c]] = @ + 1]

Unauthorized(c) ==
  /\ Arrives(c)
  /\ ~Authorized(c)
  /\ ws' = [ws EXCEPT ![c] = "closing"]
  /\ UNCHANGED <<activeWs, handshake, isAlive, pingTimer>>

RefusalCounted == lastConnectionTime' = Now

RefusalForgotten == UNCHANGED lastConnectionTime

RateLimited(c) ==
  /\ Arrives(c)
  /\ Authorized(c)
  /\ Flapping
  /\ Records(c)
  /\ ws' = [ws EXCEPT ![c] = "closing"]
  /\ RefusalForgotten
  /\ UNCHANGED <<activeWs, isAlive, pingTimer>>

Accepted(c) ==
  /\ Arrives(c)
  /\ Authorized(c)
  /\ ~Flapping
  /\ Records(c)
  /\ lastConnectionTime' = Now
  /\ ws' = [d \in Conns |->
              IF d = c THEN "open"
              ELSE IF d = activeWs /\ ws[d] = "open" THEN "closing" ELSE ws[d]]
  /\ activeWs' = c
  /\ isAlive' = TRUE
  /\ pingTimer' = PingInterval

OnConnection(c) == Unauthorized(c) \/ RateLimited(c) \/ Accepted(c)

(* The callback of setInterval(..., pingIntervalMs).                       *)
PingTick ==
  /\ pingTimer = 0
  /\ pingTimer' = PingInterval
  /\ IF activeWs = 0
     THEN UNCHANGED <<ws, isAlive, pings>>
     ELSE IF ~isAlive
     THEN /\ ws' = [ws EXCEPT ![activeWs] = "terminated"]
          /\ UNCHANGED <<isAlive, pings>>
     ELSE /\ isAlive' = FALSE
          /\ pings' = IF ws[activeWs] = "open" THEN pings \cup {activeWs} ELSE pings
          /\ UNCHANGED ws
  /\ UNCHANGED <<time, offset, made, headers, link, activeWs, handshake, cleanupTimer,
                 clientVars, pongs, history, lastPong>>

(* 'pong', of whichever connection it is.                                  *)
Pong(c) ==
  /\ c \in pongs
  /\ link[c] # "dead"
  /\ ws[c] \in {"open", "closing"}
  /\ pongs' = pongs \ {c}
  /\ isAlive' = TRUE
  /\ lastPong' = time
  /\ UNCHANGED <<time, offset, made, headers, link, ws, activeWs, handshake, pingTimer,
                 cleanupTimer, clientVars, pings, history>>

(* 'close': the socket was terminated, its client is gone, or the closing  *)
(* handshake that the server began is over or has been given up.           *)
SessionEndsUnguarded(c) ==
  /\ activeWs' = IF activeWs = c THEN 0 ELSE activeWs
  /\ pingTimer' = Off

SessionEnds(c) ==
  IF activeWs = c THEN activeWs' = 0 /\ pingTimer' = Off
                  ELSE UNCHANGED <<activeWs, pingTimer>>

ServerCloses(c) ==
  /\ \/ ws[c] \in {"closing", "terminated"}
     \/ ws[c] = "open" /\ link[c] # "dead" /\ ClientGone(c)
  /\ ws' = [ws EXCEPT ![c] = "closed"]
  /\ SessionEnds(c)
  /\ UNCHANGED <<time, offset, made, headers, link, handshake, isAlive, cleanupTimer,
                 clientVars, pings, pongs, history, lastPong>>

ExpiredWithoutGrace == {n \in usedNonces : Now - timestamp[n] > Drift}

Expired == {n \in usedNonces : Now - timestamp[n] > Drift + Grace}

CleanupExpiredNonces ==
  /\ cleanupTimer = 0
  /\ cleanupTimer' = CleanupInterval
  /\ usedNonces' = usedNonces \ Expired
  /\ UNCHANGED <<time, offset, made, headers, link, ws, activeWs, lastConnectionTime,
                 passed, isAlive, pingTimer, clientVars, pings, pongs, history, lastPong>>

-----------------------------------------------------------------------------
(* Faults.                                                                 *)

Trouble ==
  /\ troubles < MaxTroubles
  /\ troubles' = troubles + 1
  /\ Troubled
  /\ UNCHANGED <<time, secretsMatch, clientVars, lastPong>>

LinkFails(c, how) ==
  /\ Trouble
  /\ c <= made
  /\ link[c] # "dead" /\ link[c] # how
  /\ link' = [link EXCEPT ![c] = how]
  /\ deadSince' = IF how = "dead" THEN [deadSince EXCEPT ![c] = time] ELSE deadSince
  /\ UNCHANGED <<offset, made, nonce, timestamp, ws, activeWs, handshake, isAlive,
                 pingTimer, cleanupTimer, pings, pongs>>

(* The server's clock is adjusted.                                         *)
ClockAdjusted(o) ==
  /\ Trouble
  /\ offset # o
  /\ offset' = o
  /\ UNCHANGED <<made, nonce, timestamp, link, ws, activeWs, handshake, isAlive,
                 pingTimer, cleanupTimer, pings, pongs, deadSince>>

(* A request is sent a second time, on a connection of its own that nobody *)
(* answers on.                                                             *)
RequestRepeated(c) ==
  LET d == made + 1 IN
  /\ Trouble
  /\ c <= made
  /\ d \in Conns
  /\ made' = d
  /\ nonce' = [nonce EXCEPT ![d] = nonce[c]]
  /\ timestamp' = [timestamp EXCEPT ![d] = timestamp[c]]
  /\ link' = [link EXCEPT ![d] = "slow"]
  /\ ws' = [ws EXCEPT ![d] = "requested"]
  /\ UNCHANGED <<offset, activeWs, handshake, isAlive, pingTimer, cleanupTimer,
                 pings, pongs, deadSince>>

(* The server's process is replaced: what it knew is gone, the nonces too. *)
Restart ==
  /\ Trouble
  /\ ws' = [c \in Conns |-> IF ws[c] \in {"none", "requested"} THEN "none" ELSE "closed"]
  /\ activeWs' = 0
  /\ lastConnectionTime' = 0
  /\ usedNonces' = {}
  /\ passed' = [c \in Conns |-> 0]
  /\ isAlive' = FALSE
  /\ pingTimer' = Off
  /\ cleanupTimer' = CleanupInterval
  /\ UNCHANGED <<offset, made, nonce, timestamp, link, pings, pongs, deadSince>>

-----------------------------------------------------------------------------
(* What happens before the next tick.                                      *)
Due ==
  \/ 0 \in {pingTimer, cleanupTimer, pingTimeout, reconnectTimer}
  \/ client = "closing"
  \/ \E c \in Conns : ws[c] = "terminated"

UnderWay(c) ==
  /\ link[c] = "up"
  /\ \/ ws[c] = "requested"
     \/ c \in pongs /\ ws[c] \in {"open", "closing"}
     \/ ClientGone(c) /\ ws[c] \in {"open", "closing"}
     \/ cur = c /\ client = "connecting"
     \/ cur = c /\ client = "open" /\ (c \in pings \/ ws[c] # "open")

Elapsed(timer) == IF timer = Off THEN Off ELSE timer - 1

Tick ==
  /\ time < MaxTime
  /\ ~Due
  /\ \A c \in Conns : ~UnderWay(c)
  /\ time' = time + 1
  /\ pingTimer' = Elapsed(pingTimer)
  /\ cleanupTimer' = cleanupTimer - 1
  /\ pingTimeout' = Elapsed(pingTimeout)
  /\ reconnectTimer' = Elapsed(reconnectTimer)
  /\ UNCHANGED <<offset, made, headers, link, ws, activeWs, handshake, isAlive,
                 cur, client, pings, pongs, history, lastPong>>

Next ==
  \/ Connect \/ ClientOpens \/ ClientPing \/ PingTimeout \/ ClientCloses
  \/ PingTick \/ CleanupExpiredNonces
  \/ \E c \in Conns :
       \/ OnConnection(c)
       \/ Pong(c)
       \/ ServerCloses(c)
       \/ \E how \in {"slow", "dead"} : LinkFails(c, how)
       \/ RequestRepeated(c)
  \/ \E o \in -StepBack .. 0 : ClockAdjusted(o)
  \/ Restart
  \/ Tick

Spec == Init /\ [][Next]_vars

-----------------------------------------------------------------------------
(* A handshake is let pass once: while the server runs, a nonce it has let *)
(* pass is never let pass again, although the table forgets it and the     *)
(* clock may go back.                                                      *)
NonceOnce == \A n \in Conns : passed[n] <= 1

(* The heartbeat ends no session whose link works: neither does the server *)
(* terminate it for want of a pong, nor the client for want of a ping.     *)
LiveSessionKept ==
  [][/\ \A c \in Conns :
          link[c] = "up" /\ ~ClientGone(c) /\ ws'[c] = "terminated" => ws[c] = "terminated"
     /\ PingTimeout => link[cur] # "up"]_vars

(* A dead link is noticed: by the server two intervals after it died, or   *)
(* after the last pong of any connection, for isAlive does not tell them   *)
(* apart; by the client after its timeout.                                 *)
DeadNoticed ==
  \A c \in Conns : link[c] = "dead" =>
    /\ activeWs = c =>
         \/ time - deadSince[c] <= 2 * PingInterval
         \/ time - lastPong <= 2 * PingInterval
    /\ cur = c /\ client = "open" =>
         time - deadSince[c] <= PingInterval + PingGrace

(* The time the client needs at most: it notices by its timer, or else its *)
(* attempts are refused until the rate limit is over and the nonces they   *)
(* used up meanwhile are forgotten, by a clock that may be set back; the   *)
(* attempt after that is let in.                                           *)
Recovery ==
  LET notice == PingInterval + PingGrace
      refuse == RateLimit + Drift + Grace + 2 * StepBack + CleanupInterval
  IN  ReconnectDelay + IF notice > refuse THEN notice ELSE refuse

(* The client is not locked out: when nothing has gone wrong for that long *)
(* it has a session, whatever the rate limit, the nonce table, the clock   *)
(* and the other connections did before; unless its attempt hangs on a     *)
(* link that died under it.                                                *)
GetsIn ==
  secretsMatch /\ time - lastTrouble > Recovery =>
    \/ client = "open" /\ activeWs = cur
    \/ client = "connecting" /\ link[cur] # "up"
=============================================================================
