---------------------------- MODULE OutboundQueue ----------------------------
(***************************************************************************)
(* The outbound queue in front of a tunnel WebSocket: sendFrame,           *)
(* flushOutboundQueue, compactOutboundQueueIfNeeded and resetOutboundQueue *)
(* of server/tunnelServer.js (the same code is in                          *)
(* client/connectionManager.js), with the sockets that feed it being       *)
(* paused and resumed as in server/frameProtocol.js.                       *)
(*                                                                         *)
(* On the server one queue outlives its sessions: a new session resets it  *)
(* while sends of the old one may still be in the old socket, and their    *)
(* callbacks run later.  On the client every session has its own queue,    *)
(* which lives through one session only, and checkDrain also flushes.      *)
(* Which of the two copies a behaviour is about is chosen at the start.    *)
(*                                                                         *)
(* ws.send is external: a chunk given to it sits in the socket's buffer    *)
(* (bufferedAmount) until it reaches the kernel, then the callback runs;   *)
(* on a socket that is no longer open the callback may report an error.    *)
(***************************************************************************)
EXTENDS Integers, Sequences

CONSTANTS
  NumSessions,    \* sessions the server lives through
  Producers,      \* sockets whose data is sent through the tunnel
  Lengths,        \* possible lengths of an encrypted frame
  MaxFrames,      \* bound: frames sent in a session
  MaxQueueBytes,  \* MAX_TUNNEL_QUEUE_MB / MAX_CLIENT_QUEUE_MB
  HighWaterMark,  \* WS_HIGH_WATER_MARK_MB
  LowWaterMark,   \* WS_LOW_WATER_MARK_MB
  CompactAt       \* 1024 in compactOutboundQueueIfNeeded

ASSUME OutboundQueueAssumption ==
  /\ NumSessions \in Nat \ {0}
  /\ Lengths \subseteq Nat
  /\ MaxFrames \in Nat
  /\ MaxQueueBytes \in Nat
  /\ HighWaterMark \in Nat
  /\ LowWaterMark \in Nat
  /\ CompactAt \in Nat

Sessions == 1 .. NumSessions

(* A chunk: one encrypted frame, with the session whose CryptoStream made  *)
(* it and the sequence number it carries.                                  *)
Chunks == [sess : Sessions, seq : Nat, len : Lengths]

VARIABLES
  copy,                 \* whose queue it is: the server's or the client's
  activeWs,             \* current session, 0 when there is none
  ws,                   \* readyState of each session's socket
  outSeq,               \* cryptoStream.outSeq of each session
  outboundQueue,        \* chunks, those before the head already sent
  outboundQueueHead,
  outboundQueueBytes,
  isFlushingQueue,
  flushRetryTimer,      \* the 5 ms retry is armed
  immediates,           \* setImmediate(flushOutboundQueue) not yet run
  inSocket,             \* chunks given to ws.send, callback not yet run
  sent,                 \* how many chunks of each session ws.send was given
  paused,               \* pausedSockets
  drainInterval         \* "none", "running", or "cleared": a handle that is
                        \* kept although its interval has been stopped

queueVars == <<outboundQueue, outboundQueueHead, outboundQueueBytes,
               isFlushingQueue, flushRetryTimer>>
vars == <<copy, activeWs, ws, outSeq, queueVars, immediates, inSocket, sent, paused,
          drainInterval>>

(* Every variable has its type, and the head never runs past the queue.    *)
TypeOK ==
  /\ copy \in {"server", "client"}
  /\ activeWs \in 0 .. NumSessions
  /\ ws \in [Sessions -> {"none", "open", "closing", "closed"}]
  /\ outSeq \in [Sessions -> Nat]
  /\ outboundQueue \in Seq(Chunks)
  /\ outboundQueueHead \in 0 .. Len(outboundQueue)
  /\ outboundQueueBytes \in Nat
  /\ isFlushingQueue \in BOOLEAN
  /\ flushRetryTimer \in BOOLEAN
  /\ immediates \in Nat
  /\ inSocket \in [Sessions -> Seq(Chunks)]
  /\ sent \in [Sessions -> Nat]
  /\ paused \subseteq Producers
  /\ drainInterval \in {"none", "running", "cleared"}

Init ==
  /\ copy \in {"server", "client"}
  /\ activeWs = 0
  /\ ws = [k \in Sessions |-> "none"]
  /\ outSeq = [k \in Sessions |-> 0]
  /\ outboundQueue = <<>>
  /\ outboundQueueHead = 0
  /\ outboundQueueBytes = 0
  /\ isFlushingQueue = FALSE
  /\ flushRetryTimer = FALSE
  /\ immediates = 0
  /\ inSocket = [k \in Sessions |-> <<>>]
  /\ sent = [k \in Sessions |-> 0]
  /\ paused = {}
  /\ drainInterval = "running"     \* both constructors start it

-----------------------------------------------------------------------------
Bytes(q) ==
  LET sum[n \in 0 .. Len(q)] == IF n = 0 THEN 0 ELSE sum[n - 1] + q[n].len
  IN  sum[Len(q)]

IsReady == activeWs # 0 /\ ws[activeWs] = "open"

BufferedAmount(buffers) == IF activeWs = 0 THEN 0 ELSE Bytes(buffers[activeWs])

TerminateForgotten(k) == ws

Terminate(k) == [ws EXCEPT ![k] = IF @ = "open" THEN "closing" ELSE @]

(* flushOutboundQueue() on a queue that sendFrame may just have extended   *)
(* and a flag that a callback may just have cleared: nothing, the retry    *)
(* timer, or one chunk handed to the socket.                               *)
Flush(queue, timer) ==
  LET chunk == queue[outboundQueueHead + 1]
      idle  == \/ isFlushingQueue
               \/ ~IsReady
               \/ outboundQueueHead >= Len(queue)
  IN  IF idle
      THEN /\ flushRetryTimer' = timer
           /\ UNCHANGED <<outboundQueueHead, isFlushingQueue, inSocket, sent>>
      ELSE IF BufferedAmount(inSocket) > HighWaterMark
      THEN /\ flushRetryTimer' = TRUE
           /\ UNCHANGED <<outboundQueueHead, isFlushingQueue, inSocket, sent>>
      ELSE /\ isFlushingQueue' = TRUE
           /\ outboundQueueHead' = outboundQueueHead + 1
           /\ inSocket' = [inSocket EXCEPT ![activeWs] = Append(@, chunk)]
           /\ sent' = [sent EXCEPT ![activeWs] = @ + 1]
           /\ flushRetryTimer' = timer

Reset ==
  /\ outboundQueue' = <<>>
  /\ outboundQueueHead' = 0
  /\ outboundQueueBytes' = 0
  /\ isFlushingQueue' = FALSE
  /\ flushRetryTimer' = FALSE

-----------------------------------------------------------------------------
(* sendFrame(): the frame is encrypted, which uses up a sequence number,   *)
(* before the queue is found full.                                         *)

Encrypted(len) == [sess |-> activeWs, seq |-> outSeq[activeWs], len |-> len]

IsFullAlready(len) == outboundQueueBytes > MaxQueueBytes

IsFull(len) == outboundQueueBytes + len > MaxQueueBytes

SendAccepted(len) ==
  /\ IsReady
  /\ outSeq[activeWs] < MaxFrames
  /\ ~IsFull(len)
  /\ outSeq' = [outSeq EXCEPT ![activeWs] = @ + 1]
  /\ outboundQueue' = Append(outboundQueue, Encrypted(len))
  /\ outboundQueueBytes' = outboundQueueBytes + len
  /\ Flush(outboundQueue', flushRetryTimer)
  /\ UNCHANGED <<copy, activeWs, ws, immediates, drainInterval>>

SendOverflows(len) ==
  /\ IsReady
  /\ outSeq[activeWs] < MaxFrames
  /\ IsFull(len)
  /\ outSeq' = [outSeq EXCEPT ![activeWs] = @ + 1]
  /\ ws' = Terminate(activeWs)
  /\ UNCHANGED <<copy, activeWs, queueVars, immediates, inSocket, sent, drainInterval>>

(* A control frame: OPEN, OPEN_ACK, CLOSE.                                 *)
SendControl(len) ==
  /\ SendAccepted(len) \/ SendOverflows(len)
  /\ UNCHANGED paused

(* A 'data' event of a producer: its chunk is sent and the producer is     *)
(* paused when the socket (not the queue) holds too much.                  *)
ProducerData(p, len) ==
  /\ p \notin paused
  /\ SendAccepted(len) \/ SendOverflows(len)
  /\ paused' = IF BufferedAmount(inSocket') > HighWaterMark
               THEN paused \cup {p} ELSE paused

-----------------------------------------------------------------------------
(* The callback of ws.send for the oldest chunk in socket k.  It works on  *)
(* the queue and the active socket of now, whatever session k was.         *)

Compacts ==
  /\ outboundQueueHead # 0
  /\ \/ outboundQueueHead >= CompactAt
     \/ outboundQueueHead * 2 >= Len(outboundQueue)

Waiting == SubSeq(outboundQueue, outboundQueueHead + 1, Len(outboundQueue))

Compact ==
  /\ outboundQueue' = IF Compacts THEN Waiting ELSE outboundQueue
  /\ outboundQueueHead' = IF Compacts THEN 0 ELSE outboundQueueHead

NeverRescheduled == UNCHANGED immediates

Reschedule ==
  immediates' = IF outboundQueueHead < Len(outboundQueue)
                THEN immediates + 1 ELSE immediates

CallbackRuns(k) ==
  /\ inSocket[k] # <<>>
  /\ inSocket' = [inSocket EXCEPT ![k] = Tail(@)]
  /\ isFlushingQueue' = FALSE
  /\ LET left == outboundQueueBytes - Head(inSocket[k]).len
     IN  outboundQueueBytes' = IF left < 0 THEN 0 ELSE left
  /\ UNCHANGED <<copy, activeWs, outSeq, flushRetryTimer, sent, paused, drainInterval>>

SendSucceeds(k) ==
  /\ ws[k] \in {"open", "closing"}
  /\ CallbackRuns(k)
  /\ Compact
  /\ Reschedule
  /\ UNCHANGED ws

SendFails(k) ==
  /\ ws[k] \in {"closing", "closed"}
  /\ CallbackRuns(k)
  /\ ws' = IF IsReady THEN Terminate(activeWs) ELSE ws
  /\ UNCHANGED <<outboundQueue, outboundQueueHead, immediates>>

-----------------------------------------------------------------------------
RunImmediate ==
  /\ immediates > 0
  /\ immediates' = immediates - 1
  /\ Flush(outboundQueue, flushRetryTimer)
  /\ UNCHANGED <<copy, activeWs, ws, outSeq, outboundQueue, outboundQueueBytes, paused,
                 drainInterval>>

RetryTimer ==
  /\ flushRetryTimer
  /\ Flush(outboundQueue, FALSE)
  /\ UNCHANGED <<copy, activeWs, ws, outSeq, outboundQueue, outboundQueueBytes,
                 immediates, paused, drainInterval>>

(* checkDrain(), every 25 ms while the interval runs; on the client it also *)
(* restarts the flush.                                                      *)
DrainedBelow == BufferedAmount(inSocket) < LowWaterMark

Drained == BufferedAmount(inSocket) <= LowWaterMark

CheckDrain ==
  /\ drainInterval = "running"
  /\ IsReady
  /\ Drained
  /\ paused' = {}
  /\ IF copy = "client"
     THEN Flush(outboundQueue, flushRetryTimer)
     ELSE UNCHANGED <<outboundQueueHead, isFlushingQueue, flushRetryTimer, inSocket, sent>>
  /\ UNCHANGED <<copy, activeWs, ws, outSeq, outboundQueue, outboundQueueBytes,
                 immediates, drainInterval>>

-----------------------------------------------------------------------------
(* Sessions.  Every producer is destroyed and forgotten with its session.  *)
(* The server's 'tunnel_close' stops the drain interval and forgets the    *)
(* handle, 'tunnel_ready' starts one unless there is a handle; the client  *)
(* stops the one its manager was made with, for good.                      *)

HandleKept(handle) == "cleared"

Stopped(handle) == "none"

Started(handle) == IF handle = "none" THEN "running" ELSE handle

Connect(k) ==
  /\ ws[k] = "none"
  /\ k > 1 => copy = "server" /\ ws[k - 1] # "none"
  /\ ws' = [(IF activeWs = 0 THEN ws ELSE Terminate(activeWs)) EXCEPT ![k] = "open"]
  /\ activeWs' = k
  /\ Reset
  /\ paused' = {}
  /\ drainInterval' = Started(IF activeWs = 0 THEN drainInterval ELSE Stopped(drainInterval))
  /\ UNCHANGED <<copy, outSeq, immediates, inSocket, sent>>

Shut(k) ==
  /\ ws[k] = "open"
  /\ ws' = Terminate(k)
  /\ UNCHANGED <<copy, activeWs, outSeq, queueVars, immediates, inSocket, sent, paused,
                 drainInterval>>

WsClosed(k) ==
  /\ ws[k] \in {"open", "closing"}
  /\ ws' = [ws EXCEPT ![k] = "closed"]
  /\ IF activeWs = k
     THEN /\ Reset
          /\ activeWs' = 0
          /\ paused' = {}
          /\ drainInterval' = IF copy = "server" THEN Stopped(drainInterval) ELSE "cleared"
     ELSE UNCHANGED <<queueVars, activeWs, paused, drainInterval>>
  /\ UNCHANGED <<copy, outSeq, immediates, inSocket, sent>>

Next ==
  \/ \E len \in Lengths :
       \/ SendControl(len)
       \/ \E p \in Producers : ProducerData(p, len)
  \/ \E k \in Sessions :
       \/ SendSucceeds(k)
       \/ SendFails(k)
       \/ Connect(k)
       \/ Shut(k)
       \/ WsClosed(k)
  \/ RunImmediate
  \/ RetryTimer
  \/ CheckDrain

Spec == Init /\ [][Next]_vars

(* Node runs its timers and immediates, checkDrain as long as its interval *)
(* has not been stopped, and a socket that is written to is read by its    *)
(* peer or fails.  New frames, connects and failures are free.             *)
Fairness ==
  /\ \A k \in Sessions : WF_vars(SendSucceeds(k) \/ SendFails(k))
  /\ WF_vars(RunImmediate)
  /\ WF_vars(RetryTimer)
  /\ WF_vars(CheckDrain)

FairSpec == Spec /\ Fairness

-----------------------------------------------------------------------------
(* What session k's socket is given is exactly the frames encrypted for    *)
(* session k, in the order of their sequence numbers with none missing or  *)
(* repeated, and what waits in the queue continues that numbering: the     *)
(* receiver's strict sequence check in decryptMessage can never fail,      *)
(* neither after a compaction nor after a reset or a full queue.           *)
InSequence ==
  /\ \A k \in Sessions : \A j \in 1 .. Len(inSocket[k]) :
       /\ inSocket[k][j].sess = k
       /\ inSocket[k][j].seq = sent[k] - Len(inSocket[k]) + j - 1
  /\ \A j \in outboundQueueHead + 1 .. Len(outboundQueue) :
       /\ activeWs # 0
       /\ outboundQueue[j].sess = activeWs
       /\ outboundQueue[j].seq = sent[activeWs] + (j - outboundQueueHead) - 1

(* No lost wake-up: while the tunnel is open and chunks wait, either a     *)
(* send is in progress, whose callback will go on, or a flush is already   *)
(* scheduled; and a send in progress really is in the socket.              *)
NoLostWakeup ==
  IsReady =>
    /\ outboundQueueHead < Len(outboundQueue) =>
         isFlushingQueue \/ immediates > 0 \/ flushRetryTimer
    /\ isFlushingQueue => inSocket[activeWs] # <<>>

(* outboundQueueBytes is what the queue and the socket of the session      *)
(* really hold, and stays within the limit.  True of the client's queue,   *)
(* which serves one session.                                               *)
Accounting ==
  copy = "client" =>
    /\ outboundQueueBytes = Bytes(Waiting) + BufferedAmount(inSocket)
    /\ outboundQueueBytes <= MaxQueueBytes

(* What the active session holds never exceeds the limit of the queue.     *)
QueueBounded == Bytes(Waiting) + BufferedAmount(inSocket) <= MaxQueueBytes

(* A failed send of a session that has been replaced leaves the session    *)
(* that replaced it alone.                                                 *)
StaleFailureHarmless ==
  [][\A k \in Sessions : k # activeWs /\ SendFails(k) => UNCHANGED ws]_vars

(* Every chunk that waits is handed to the socket, unless its session ends *)
(* first.                                                                  *)
EveryChunkLeaves ==
  \A k \in Sessions :
    activeWs = k /\ Waiting # <<>> ~> Waiting = <<>> \/ activeWs # k \/ ~IsReady

(* A paused producer is resumed, unless its session ends first: whatever   *)
(* sessions came and went before, the interval that resumes it is running. *)
EveryProducerResumes ==
  \A p \in Producers : p \in paused ~> p \notin paused \/ ~IsReady
=============================================================================
