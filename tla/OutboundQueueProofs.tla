------------------------ MODULE OutboundQueueProofs ------------------------
(***************************************************************************)
(* Theorems about OutboundQueue, for every number of sessions, frames and  *)
(* lengths, and for every setting of the limits and watermarks.            *)
(***************************************************************************)
EXTENDS OutboundQueue, SequenceTheorems, WellFoundedInduction, TLAPS

(* flushOutboundQueue keeps the head within the queue and hands the socket *)
(* of the active session nothing but chunks.                               *)
LEMMA FlushType ==
  ASSUME TypeOK, NEW queue \in Seq(Chunks), NEW timer \in BOOLEAN,
         Len(queue) >= Len(outboundQueue),
         Flush(queue, timer)
  PROVE  /\ outboundQueueHead' \in 0 .. Len(queue)
         /\ isFlushingQueue' \in BOOLEAN
         /\ flushRetryTimer' \in BOOLEAN
         /\ inSocket' \in [Sessions -> Seq(Chunks)]
         /\ sent' \in [Sessions -> Nat]
<1> USE DEF TypeOK, Sessions
<1>1. CASE isFlushingQueue \/ ~IsReady \/ outboundQueueHead >= Len(queue)
  BY <1>1 DEF Flush
<1>2. CASE ~(isFlushingQueue \/ ~IsReady \/ outboundQueueHead >= Len(queue))
  <2>1. activeWs \in Sessions
    BY <1>2 DEF IsReady
  <2>2. queue[outboundQueueHead + 1] \in Chunks
    BY <1>2
  <2>3. Append(inSocket[activeWs], queue[outboundQueueHead + 1]) \in Seq(Chunks)
    BY <2>1, <2>2
  <2>4. CASE BufferedAmount(inSocket) > HighWaterMark
    BY <1>2, <2>4 DEF Flush
  <2>5. CASE ~(BufferedAmount(inSocket) > HighWaterMark)
    <3>1. /\ isFlushingQueue' = TRUE
          /\ outboundQueueHead' = outboundQueueHead + 1
          /\ inSocket' = [inSocket EXCEPT ![activeWs] = Append(@, queue[outboundQueueHead + 1])]
          /\ sent' = [sent EXCEPT ![activeWs] = @ + 1]
          /\ flushRetryTimer' = timer
      BY <1>2, <2>5 DEF Flush
    <3>2. inSocket' \in [Sessions -> Seq(Chunks)]
      BY <3>1, <2>1, <2>3
    <3>3. sent' \in [Sessions -> Nat]
      <4>1. sent \in [Sessions -> Nat] /\ sent[activeWs] + 1 \in Nat
        BY <2>1
      <4> QED
        BY <4>1, <3>1, Zenon
    <3> QED
      BY <3>1, <3>2, <3>3, <1>2
  <2> QED
    BY <2>4, <2>5
<1> QED
  BY <1>1, <1>2

LEMMA WaitingType ==
  ASSUME TypeOK
  PROVE  /\ Waiting \in Seq(Chunks)
         /\ Len(Waiting) = Len(outboundQueue) - outboundQueueHead
         /\ \A j \in 1 .. Len(Waiting) :
              Waiting[j] = outboundQueue[outboundQueueHead + j]
  BY DEF TypeOK, Waiting

LEMMA TerminateType ==
  ASSUME TypeOK, NEW k
  PROVE  Terminate(k) \in [Sessions -> {"none", "open", "closing", "closed"}]
  BY DEF TypeOK, Terminate

LEMMA SendType ==
  ASSUME TypeOK, NEW len \in Lengths, SendAccepted(len) \/ SendOverflows(len),
         paused' \subseteq Producers
  PROVE  TypeOK'
<1>0. activeWs \in Sessions
  BY DEF SendAccepted, SendOverflows, IsReady, TypeOK, Sessions
<1>1. CASE SendAccepted(len)
  <2>1. Encrypted(len) \in Chunks
    BY <1>0 DEF Encrypted, Chunks, TypeOK
  <2>2. /\ outboundQueue' \in Seq(Chunks)
        /\ Len(outboundQueue') >= Len(outboundQueue)
    BY <1>1, <2>1 DEF SendAccepted, TypeOK
  <2>3. /\ outboundQueueHead' \in 0 .. Len(outboundQueue')
        /\ isFlushingQueue' \in BOOLEAN
        /\ flushRetryTimer' \in BOOLEAN
        /\ inSocket' \in [Sessions -> Seq(Chunks)]
        /\ sent' \in [Sessions -> Nat]
    <3>1. Flush(outboundQueue', flushRetryTimer)
      BY <1>1 DEF SendAccepted
    <3>2. flushRetryTimer \in BOOLEAN
      BY DEF TypeOK
    <3> QED
      BY <2>2, <3>1, <3>2, FlushType
  <2>4. outSeq' \in [Sessions -> Nat]
    BY <1>0, <1>1 DEF SendAccepted, TypeOK
  <2>5. outboundQueueBytes' \in Nat
    BY <1>1, OutboundQueueAssumption DEF SendAccepted, TypeOK
  <2> QED
    BY <1>1, <2>2, <2>3, <2>4, <2>5 DEF SendAccepted, TypeOK
<1>2. CASE SendOverflows(len)
  <2>1. outSeq' \in [Sessions -> Nat]
    BY <1>0, <1>2 DEF SendOverflows, TypeOK
  <2>2. ws' \in [Sessions -> {"none", "open", "closing", "closed"}]
    BY <1>2, TerminateType DEF SendOverflows
  <2> QED
    BY <1>2, <2>1, <2>2 DEF SendOverflows, TypeOK, queueVars
<1> QED
  BY <1>1, <1>2

LEMMA CallbackType ==
  ASSUME TypeOK, NEW k \in Sessions, CallbackRuns(k)
  PROVE  /\ inSocket' \in [Sessions -> Seq(Chunks)]
         /\ outboundQueueBytes' \in Nat
         /\ isFlushingQueue' \in BOOLEAN
<1>1. /\ inSocket[k] \in Seq(Chunks)
      /\ inSocket[k] # <<>>
  BY DEF TypeOK, CallbackRuns
<1>2. /\ Head(inSocket[k]) \in Chunks
      /\ Tail(inSocket[k]) \in Seq(Chunks)
  BY <1>1
<1>3. Head(inSocket[k]).len \in Nat
  BY <1>2, OutboundQueueAssumption DEF Chunks
<1>4. inSocket' \in [Sessions -> Seq(Chunks)]
  BY <1>2 DEF TypeOK, CallbackRuns
<1>5. outboundQueueBytes' \in Nat
  BY <1>3 DEF TypeOK, CallbackRuns
<1> QED
  BY <1>4, <1>5 DEF CallbackRuns

LEMMA ResetType ==
  ASSUME Reset
  PROVE  /\ outboundQueue' \in Seq(Chunks)
         /\ outboundQueueHead' \in 0 .. Len(outboundQueue')
         /\ outboundQueueBytes' \in Nat
         /\ isFlushingQueue' \in BOOLEAN
         /\ flushRetryTimer' \in BOOLEAN
<1>1. /\ outboundQueue' = <<>>
      /\ outboundQueueHead' = 0
      /\ outboundQueueBytes' = 0
      /\ isFlushingQueue' = FALSE
      /\ flushRetryTimer' = FALSE
  BY DEF Reset
<1>2. outboundQueue' \in Seq(Chunks) /\ Len(outboundQueue') = 0
  BY <1>1
<1>3. outboundQueueHead' \in 0 .. Len(outboundQueue') /\ outboundQueueBytes' \in Nat
  BY <1>1, <1>2
<1>4. isFlushingQueue' \in BOOLEAN /\ flushRetryTimer' \in BOOLEAN
  BY <1>1
<1> QED
  BY <1>2, <1>3, <1>4

(* A flush outside sendFrame: an immediate, the retry timer, a drain.       *)
LEMMA FlushOnlyType ==
  ASSUME TypeOK, NEW timer \in BOOLEAN, Flush(outboundQueue, timer),
         UNCHANGED <<copy, activeWs, ws, outSeq, outboundQueue, outboundQueueBytes,
                     drainInterval>>,
         immediates' \in Nat, paused' \subseteq Producers
  PROVE  TypeOK'
<1>1. /\ outboundQueue \in Seq(Chunks)
      /\ Len(outboundQueue) >= Len(outboundQueue)
  BY DEF TypeOK
<1>2. /\ outboundQueueHead' \in 0 .. Len(outboundQueue)
      /\ isFlushingQueue' \in BOOLEAN
      /\ flushRetryTimer' \in BOOLEAN
      /\ inSocket' \in [Sessions -> Seq(Chunks)]
      /\ sent' \in [Sessions -> Nat]
  BY <1>1, FlushType
<1> QED
  BY <1>2 DEF TypeOK

(* Type correctness: every variable keeps its type and the head never runs *)
(* past the queue, for all constants.                                      *)
THEOREM TypeCorrect == Spec => []TypeOK
<1>1. Init => TypeOK
  <2> SUFFICES ASSUME Init PROVE TypeOK
    OBVIOUS
  <2>1. /\ activeWs \in 0 .. NumSessions
        /\ outboundQueue \in Seq(Chunks)
        /\ outboundQueueHead \in 0 .. Len(outboundQueue)
    BY OutboundQueueAssumption DEF Init
  <2> QED
    BY <2>1 DEF Init, TypeOK
<1>2. TypeOK /\ [Next]_vars => TypeOK'
  <2> SUFFICES ASSUME TypeOK, [Next]_vars PROVE TypeOK'
    OBVIOUS
  <2>1. ASSUME NEW len \in Lengths, SendControl(len) PROVE TypeOK'
    BY <2>1, SendType DEF SendControl, TypeOK
  <2>2. ASSUME NEW len \in Lengths, NEW p \in Producers, ProducerData(p, len)
        PROVE  TypeOK'
    <3>1. paused' \subseteq Producers
      BY <2>2 DEF ProducerData, TypeOK
    <3> QED
      BY <2>2, <3>1, SendType DEF ProducerData
  <2>3. ASSUME NEW k \in Sessions, SendSucceeds(k) PROVE TypeOK'
    <3>1. CallbackRuns(k)
      BY <2>3 DEF SendSucceeds
    <3>2. /\ outboundQueue' \in Seq(Chunks)
          /\ outboundQueueHead' \in 0 .. Len(outboundQueue')
      BY <2>3, WaitingType DEF SendSucceeds, Compact, TypeOK
    <3>3. immediates' \in Nat
      BY <2>3 DEF SendSucceeds, Reschedule, TypeOK
    <3> QED
      BY <2>3, <3>1, <3>2, <3>3, CallbackType DEF SendSucceeds, CallbackRuns, TypeOK
  <2>4. ASSUME NEW k \in Sessions, SendFails(k) PROVE TypeOK'
    <3>1. CallbackRuns(k)
      BY <2>4 DEF SendFails
    <3>2. ws' \in [Sessions -> {"none", "open", "closing", "closed"}]
      BY <2>4, TerminateType DEF SendFails, TypeOK
    <3> QED
      BY <2>4, <3>1, <3>2, CallbackType DEF SendFails, CallbackRuns, TypeOK
  <2>5. ASSUME NEW k \in Sessions, Connect(k) PROVE TypeOK'
    <3>1. ws' \in [Sessions -> {"none", "open", "closing", "closed"}]
      BY <2>5, TerminateType DEF Connect, TypeOK
    <3>2. activeWs' \in 0 .. NumSessions
      BY <2>5, OutboundQueueAssumption DEF Connect, Sessions
    <3>3. drainInterval' \in {"none", "running", "cleared"}
      BY <2>5 DEF Connect, Started, Stopped, TypeOK
    <3> QED
      BY <2>5, <3>1, <3>2, <3>3, ResetType DEF Connect, TypeOK
  <2>6. ASSUME NEW k \in Sessions, Shut(k) PROVE TypeOK'
    BY <2>6, TerminateType DEF Shut, TypeOK, queueVars
  <2>7. ASSUME NEW k \in Sessions, WsClosed(k) PROVE TypeOK'
    <3>1. CASE activeWs = k
      <4>1. activeWs' \in 0 .. NumSessions
        BY <2>7, <3>1, OutboundQueueAssumption DEF WsClosed
      <4>2. drainInterval' \in {"none", "running", "cleared"}
        BY <2>7, <3>1 DEF WsClosed, Stopped
      <4> QED
        BY <2>7, <3>1, <4>1, <4>2, ResetType DEF WsClosed, TypeOK
    <3>2. CASE activeWs # k
      BY <2>7, <3>2 DEF WsClosed, queueVars, TypeOK
    <3> QED
      BY <3>1, <3>2
  <2>8. CASE RunImmediate
    BY <2>8, FlushOnlyType DEF RunImmediate, TypeOK
  <2>9. CASE RetryTimer
    BY <2>9, FlushOnlyType DEF RetryTimer, TypeOK
  <2>10. CASE CheckDrain
    <3>1. CASE copy = "client"
      BY <2>10, <3>1, FlushOnlyType DEF CheckDrain, TypeOK
    <3>2. CASE copy # "client"
      BY <2>10, <3>2 DEF CheckDrain, TypeOK
    <3> QED
      BY <3>1, <3>2
  <2>11. CASE UNCHANGED vars
    BY <2>11 DEF vars, queueVars, TypeOK
  <2> QED
    BY <2>1, <2>2, <2>3, <2>4, <2>5, <2>6, <2>7, <2>8, <2>9, <2>10, <2>11 DEF Next
<1> QED
  BY <1>1, <1>2, PTL DEF Spec

-----------------------------------------------------------------------------
(* What flushOutboundQueue leaves behind, whoever called it: if the tunnel *)
(* is ready and something waits, a flush is under way or armed.            *)
LEMMA FlushWakes ==
  ASSUME TypeOK, NEW queue \in Seq(Chunks), NEW timer \in BOOLEAN,
         Flush(queue, timer),
         IsReady => (isFlushingQueue => inSocket[activeWs] # <<>>)
  PROVE  IsReady => /\ outboundQueueHead' < Len(queue) =>
                         isFlushingQueue' \/ flushRetryTimer'
                    /\ isFlushingQueue' => inSocket'[activeWs] # <<>>
<1> SUFFICES ASSUME IsReady
             PROVE  /\ outboundQueueHead' < Len(queue) =>
                         isFlushingQueue' \/ flushRetryTimer'
                    /\ isFlushingQueue' => inSocket'[activeWs] # <<>>
  OBVIOUS
<1>0. activeWs \in Sessions
  BY DEF IsReady, TypeOK, Sessions
<1>1. CASE isFlushingQueue \/ outboundQueueHead >= Len(queue)
  BY <1>1 DEF Flush, TypeOK
<1>2. CASE ~(isFlushingQueue \/ outboundQueueHead >= Len(queue))
  <2>1. CASE BufferedAmount(inSocket) > HighWaterMark
    BY <1>2, <2>1 DEF Flush
  <2>2. CASE ~(BufferedAmount(inSocket) > HighWaterMark)
    <3>1. /\ isFlushingQueue'
          /\ inSocket' = [inSocket EXCEPT ![activeWs] = Append(@, queue[outboundQueueHead + 1])]
      BY <1>2, <2>2 DEF Flush
    <3>2. inSocket'[activeWs] # <<>>
      BY <1>0, <3>1 DEF TypeOK
    <3> QED
      BY <3>1, <3>2
  <2> QED
    BY <2>1, <2>2
<1> QED
  BY <1>1, <1>2

(* The tunnel is never left open with chunks that wait and nothing that    *)
(* will send them, nor with isFlushingQueue stuck, for every interleaving  *)
(* of callbacks, also late ones, timers, immediates and sessions.          *)
THEOREM WakeupNeverLost == Spec => []NoLostWakeup
<1>1. Init => NoLostWakeup
  BY DEF Init, NoLostWakeup, IsReady
<1>2. TypeOK /\ TypeOK' /\ NoLostWakeup /\ [Next]_vars => NoLostWakeup'
  <2> SUFFICES ASSUME TypeOK, TypeOK', NoLostWakeup, [Next]_vars, IsReady'
               PROVE  /\ outboundQueueHead' < Len(outboundQueue') =>
                           isFlushingQueue' \/ immediates' > 0 \/ flushRetryTimer'
                      /\ isFlushingQueue' => inSocket'[activeWs'] # <<>>
    BY DEF NoLostWakeup
  <2>1. ASSUME NEW len \in Lengths, SendAccepted(len) \/ SendOverflows(len)
        PROVE  /\ outboundQueueHead' < Len(outboundQueue') =>
                    isFlushingQueue' \/ immediates' > 0 \/ flushRetryTimer'
               /\ isFlushingQueue' => inSocket'[activeWs'] # <<>>
    <3>1. CASE SendAccepted(len)
      <4>1. /\ outboundQueue' \in Seq(Chunks)
            /\ flushRetryTimer \in BOOLEAN
            /\ Flush(outboundQueue', flushRetryTimer)
            /\ IsReady
            /\ activeWs' = activeWs
        BY <3>1 DEF SendAccepted, TypeOK
      <4> QED
        BY <4>1, FlushWakes DEF NoLostWakeup
    <3>2. CASE SendOverflows(len)
      BY <3>2 DEF SendOverflows, Terminate, IsReady, TypeOK, Sessions
    <3> QED
      BY <2>1, <3>1, <3>2
  <2>2. ASSUME NEW k \in Sessions, SendSucceeds(k)
        PROVE  /\ outboundQueueHead' < Len(outboundQueue') =>
                    isFlushingQueue' \/ immediates' > 0 \/ flushRetryTimer'
               /\ isFlushingQueue' => inSocket'[activeWs'] # <<>>
    <3>1. ~isFlushingQueue'
      BY <2>2 DEF SendSucceeds, CallbackRuns
    <3>2. ASSUME outboundQueueHead' < Len(outboundQueue')
          PROVE  immediates' > 0
      <4>1. outboundQueueHead < Len(outboundQueue)
        <5>1. CASE Compacts
          <6>1. outboundQueue' = Waiting /\ outboundQueueHead' = 0
            <7>1. Compact
              BY <2>2, Zenon DEF SendSucceeds
            <7> QED
              BY <5>1, <7>1, Zenon DEF Compact
          <6>2. outboundQueueHead \in Nat /\ Len(outboundQueue) \in Nat
            BY DEF TypeOK
          <6>3. Len(Waiting) = Len(outboundQueue) - outboundQueueHead
            BY WaitingType
          <6> QED
            BY <3>2, <6>1, <6>2, <6>3
        <5>2. CASE ~Compacts
          BY <2>2, <3>2, <5>2 DEF SendSucceeds, Compact
        <5> QED
          BY <5>1, <5>2
      <4> QED
        BY <2>2, <4>1 DEF SendSucceeds, Reschedule, TypeOK
    <3> QED
      BY <3>1, <3>2
  <2>3. ASSUME NEW k \in Sessions, SendFails(k) PROVE FALSE
    BY <2>3 DEF SendFails, CallbackRuns, Terminate, IsReady, TypeOK, Sessions
  <2>4. ASSUME NEW k \in Sessions, Connect(k)
        PROVE  ~isFlushingQueue' /\ ~(outboundQueueHead' < Len(outboundQueue'))
    BY <2>4 DEF Connect, Reset
  <2>5. ASSUME NEW k \in Sessions, Shut(k) \/ WsClosed(k)
        PROVE  /\ IsReady
               /\ activeWs' = activeWs
               /\ UNCHANGED <<queueVars, immediates, inSocket>>
    BY <2>5 DEF Shut, WsClosed, Terminate, IsReady, TypeOK, Sessions, queueVars
  <2>6. ASSUME RunImmediate \/ RetryTimer \/ (CheckDrain /\ copy = "client")
        PROVE  /\ outboundQueueHead' < Len(outboundQueue') =>
                    isFlushingQueue' \/ immediates' > 0 \/ flushRetryTimer'
               /\ isFlushingQueue' => inSocket'[activeWs'] # <<>>
    <3>1. PICK timer \in BOOLEAN : Flush(outboundQueue, timer)
      <4>1. flushRetryTimer \in BOOLEAN
        BY DEF TypeOK
      <4> QED
        BY <2>6, <4>1 DEF RunImmediate, RetryTimer, CheckDrain
    <3>2. /\ outboundQueue \in Seq(Chunks)
          /\ outboundQueue' = outboundQueue
          /\ IsReady
          /\ activeWs' = activeWs
      BY <2>6 DEF RunImmediate, RetryTimer, CheckDrain, IsReady, TypeOK
    <3> QED
      BY <3>1, <3>2, FlushWakes DEF NoLostWakeup
  <2>7. ASSUME \/ CheckDrain /\ copy # "client"
               \/ UNCHANGED vars
        PROVE  /\ IsReady
               /\ activeWs' = activeWs
               /\ UNCHANGED <<queueVars, immediates, inSocket>>
    BY <2>7 DEF CheckDrain, vars, queueVars, IsReady
  <2> QED
    BY <2>1, <2>2, <2>3, <2>4, <2>5, <2>6, <2>7
       DEF Next, SendControl, ProducerData, NoLostWakeup, queueVars
<1> QED
  BY <1>1, <1>2, TypeCorrect, PTL DEF Spec

-----------------------------------------------------------------------------
(* What the queue holds, and how much of it.                               *)

(* The order of the numbers, as a set of pairs.                            *)
LessNat == {p \in Nat \X Nat : p[1] < p[2]}

(* Induction over a set: what holds of 0 and of every successor of a       *)
(* number it holds of, holds of every number.                              *)
LEMMA EveryNumber ==
  ASSUME NEW S \in SUBSET Nat, 0 \in S, \A n \in S : n + 1 \in S
  PROVE  S = Nat
<1> SUFFICES ASSUME Nat \ S # {} PROVE FALSE
  OBVIOUS
<1>1. IsWellFoundedOn(LessNat, Nat)
  BY NatLessThanWellFounded DEF OpToRel, LessNat
<1> DEFINE T == Nat \ S
<1>2. T \subseteq Nat /\ T # {}
  OBVIOUS
<1> HIDE DEF T
<1>3. PICK n \in T : \A m \in T : ~(<<m, n>> \in LessNat)
  BY <1>1, <1>2, WFMin
<1>4. n \in Nat \ {0} /\ n \notin S
  BY <1>3 DEF T
<1>5. n - 1 \in Nat /\ n - 1 < n /\ n - 1 + 1 = n
  BY <1>4
<1>6. <<n - 1, n>> \in LessNat
  BY <1>4, <1>5 DEF LessNat
<1>7. n - 1 \in S
  BY <1>3, <1>5, <1>6 DEF T
<1> QED
  BY <1>4, <1>5, <1>7

(* The partial sums of the lengths of q.                                   *)
Sums(q, f, m) ==
  /\ f \in [0 .. m -> Nat]
  /\ f[0] = 0
  /\ \A n \in 1 .. m : f[n] = f[n - 1] + q[n].len

LEMMA SumsType ==
  ASSUME NEW q, NEW f, NEW m \in Nat, Sums(q, f, m), NEW n \in 0 .. m
  PROVE  f[n] \in Nat
<1>1. f \in [0 .. m -> Nat]
  BY DEF Sums
<1> QED
  BY <1>1

LEMMA SumsStep ==
  ASSUME NEW q, NEW f, NEW m \in Nat, Sums(q, f, m), NEW n \in 1 .. m
  PROVE  f[n] = f[n - 1] + q[n].len
  BY DEF Sums

LEMMA ChunkLength ==
  ASSUME NEW q \in Seq(Chunks), NEW n \in 1 .. Len(q)
  PROVE  q[n].len \in Nat
<1>1. q[n] \in Chunks
  OBVIOUS
<1> QED
  BY <1>1, OutboundQueueAssumption DEF Chunks

LEMMA SumsExist ==
  ASSUME NEW q \in Seq(Chunks)
  PROVE  \E f : Sums(q, f, Len(q))
<1> DEFINE S == {m \in Nat : m <= Len(q) => \E f : Sums(q, f, m)}
<1>0. Len(q) \in Nat
  OBVIOUS
<1>1. 0 \in S
  <2>1. Sums(q, [n \in 0 .. 0 |-> 0], 0)
    BY DEF Sums
  <2> QED
    BY <2>1
<1>2. ASSUME NEW m \in S PROVE m + 1 \in S
  <2> SUFFICES ASSUME m + 1 <= Len(q) PROVE \E f : Sums(q, f, m + 1)
    OBVIOUS
  <2>1. m \in Nat /\ m + 1 \in 1 .. Len(q)
    BY <1>0
  <2>2. PICK f : Sums(q, f, m)
    BY <1>0, <2>1
  <2>3. q[m + 1].len \in Nat
    BY <2>1, ChunkLength
  <2> DEFINE g == [n \in 0 .. m + 1 |-> IF n = m + 1 THEN f[m] + q[m + 1].len ELSE f[n]]
  <2>4. f[m] \in Nat /\ \A n \in 0 .. m : f[n] \in Nat
    <3>1. m \in 0 .. m
      BY <2>1
    <3> QED
      BY <2>1, <2>2, <3>1, SumsType
  <2>5. Sums(q, g, m + 1)
    <3>1. g \in [0 .. m + 1 -> Nat]
      BY <2>1, <2>3, <2>4
    <3>2. g[0] = 0
      BY <2>1, <2>2 DEF Sums
    <3>3. ASSUME NEW n \in 1 .. m + 1
          PROVE  g[n] = g[n - 1] + q[n].len
      <4>1. CASE n = m + 1
        BY <2>1, <4>1
      <4>2. CASE n \in 1 .. m
        <5>1. /\ n \in 0 .. m + 1 /\ n - 1 \in 0 .. m + 1
              /\ n # m + 1 /\ n - 1 # m + 1
          BY <2>1, <4>2
        <5>2. g[n] = f[n] /\ g[n - 1] = f[n - 1]
          BY <5>1
        <5>3. f[n] = f[n - 1] + q[n].len
          BY <2>2, <4>2 DEF Sums
        <5> QED
          BY <5>2, <5>3
      <4> QED
        BY <2>1, <4>1, <4>2
    <3> QED
      BY <3>1, <3>2, <3>3 DEF Sums
  <2> QED
    BY <2>5
<1>3. S = Nat
  <2> HIDE DEF S
  <2>1. S \in SUBSET Nat
    BY DEF S
  <2> QED
    BY <1>1, <1>2, <2>1, EveryNumber
<1> QED
  BY <1>0, <1>3

(* Bytes is the last of the partial sums.                                  *)
LEMMA BytesSums ==
  ASSUME NEW q \in Seq(Chunks)
  PROVE  \E f : Sums(q, f, Len(q)) /\ Bytes(q) = f[Len(q)]
<1>0. Len(q) \in Nat
  OBVIOUS
<1> DEFINE Rec(f) == f = [n \in 0 .. Len(q) |-> IF n = 0 THEN 0 ELSE f[n - 1] + q[n].len]
           sum == CHOOSE f : Rec(f)
<1>1. \E f : Rec(f)
  <2>1. PICK f : Sums(q, f, Len(q))
    BY SumsExist
  <2>2. Rec(f)
    BY <1>0, <2>1 DEF Sums
  <2> QED
    BY <2>2
<1>2. Rec(sum)
  BY <1>1
<1>3. Bytes(q) = sum[Len(q)]
  BY DEF Bytes
<1> HIDE DEF sum
<1>4. sum = [n \in 0 .. Len(q) |-> IF n = 0 THEN 0 ELSE sum[n - 1] + q[n].len]
  BY <1>2
<1> HIDE DEF Rec
<1>5. /\ DOMAIN sum = 0 .. Len(q) /\ sum[0] = 0
      /\ \A n \in 1 .. Len(q) : sum[n] = sum[n - 1] + q[n].len
  <2>1. DOMAIN sum = 0 .. Len(q)
    BY <1>4
  <2>2. sum[0] = 0
    <3>1. 0 \in 0 .. Len(q)
      BY <1>0
    <3> QED
      BY <1>4, <3>1
  <2>3. ASSUME NEW n \in 1 .. Len(q)
        PROVE  sum[n] = sum[n - 1] + q[n].len
    <3>1. n \in 0 .. Len(q) /\ n # 0
      BY <1>0
    <3> QED
      BY <1>4, <3>1
  <2> QED
    BY <2>1, <2>2, <2>3
<1>6. \A n \in 0 .. Len(q) : sum[n] \in Nat
  <2> DEFINE S == {n \in Nat : n <= Len(q) => sum[n] \in Nat}
  <2>1. 0 \in S
    BY <1>5
  <2>2. ASSUME NEW n \in S PROVE n + 1 \in S
    <3> SUFFICES ASSUME n + 1 <= Len(q) PROVE sum[n + 1] \in Nat
      OBVIOUS
    <3>1. n \in Nat /\ n + 1 \in 1 .. Len(q) /\ n + 1 - 1 = n
      BY <1>0
    <3>2. q[n + 1].len \in Nat /\ sum[n] \in Nat
      BY <1>0, <3>1, ChunkLength
    <3>3. sum[n + 1] = sum[n + 1 - 1] + q[n + 1].len
      BY <1>5, <3>1
    <3> QED
      BY <3>1, <3>2, <3>3
  <2> HIDE DEF S
  <2>3. S \in SUBSET Nat
    BY DEF S
  <2>4. S = Nat
    BY <2>1, <2>2, <2>3, EveryNumber
  <2> QED
    BY <1>0, <2>4 DEF S
<1>7. Sums(q, sum, Len(q))
  <2>1. sum = [n \in 0 .. Len(q) |-> sum[n]]
    BY <1>4
  <2> QED
    BY <1>5, <1>6, <2>1 DEF Sums
<1> QED
  BY <1>3, <1>7

(* Two series whose terms agree, from the first's beginning and from the   *)
(* second's place i on, differ by what the second has summed up to there.  *)
LEMMA SumsDiffer ==
  ASSUME NEW p, NEW q, NEW f, NEW g, NEW m \in Nat, NEW i \in Nat,
         NEW l \in Nat, i + m <= l,
         Sums(p, f, m), Sums(q, g, l),
         \A n \in 1 .. m : p[n].len \in Nat /\ q[i + n].len = p[n].len,
         g[i] \in Nat
  PROVE  g[i + m] = f[m] + g[i]
<1> DEFINE S == {n \in Nat : n <= m => g[i + n] = f[n] + g[i]}
<1>1. 0 \in S
  BY DEF Sums
<1>2. ASSUME NEW n \in S PROVE n + 1 \in S
  <2> SUFFICES ASSUME n + 1 <= m PROVE g[i + (n + 1)] = f[n + 1] + g[i]
    OBVIOUS
  <2>1. /\ n \in Nat /\ n + 1 \in 1 .. m /\ n + 1 - 1 = n
        /\ i + (n + 1) \in 1 .. l /\ i + (n + 1) - 1 = i + n
        /\ n \in 0 .. m
    OBVIOUS
  <2>2. g[i + n] = f[n] + g[i] /\ f[n] \in Nat
    <3>1. g[i + n] = f[n] + g[i]
      BY <2>1
    <3> QED
      BY <2>1, <3>1, SumsType
  <2>3. f[n + 1] = f[n] + p[n + 1].len
    <3>1. f[n + 1] = f[n + 1 - 1] + p[n + 1].len
      BY <2>1, SumsStep
    <3> QED
      BY <2>1, <3>1
  <2>4. g[i + (n + 1)] = g[i + n] + q[i + (n + 1)].len
    <3>1. g[i + (n + 1)] = g[i + (n + 1) - 1] + q[i + (n + 1)].len
      BY <2>1, SumsStep
    <3> QED
      BY <2>1, <3>1
  <2>5. f[n + 1] \in Nat
    <3>1. n + 1 \in 0 .. m
      BY <2>1
    <3> QED
      BY <3>1, SumsType
  <2>6. q[i + (n + 1)].len = p[n + 1].len /\ p[n + 1].len \in Nat
    BY <2>1
  <2> QED
    BY <2>2, <2>3, <2>4, <2>5, <2>6
<1> HIDE DEF S
<1>3. S \in SUBSET Nat
  BY DEF S
<1>4. S = Nat
  BY <1>1, <1>2, <1>3, EveryNumber
<1> QED
  BY <1>4 DEF S
LEMMA BytesNat ==
  ASSUME NEW q \in Seq(Chunks)
  PROVE  Bytes(q) \in Nat
<1>1. PICK f : Sums(q, f, Len(q)) /\ Bytes(q) = f[Len(q)]
  BY BytesSums
<1>2. Len(q) \in Nat /\ Len(q) \in 0 .. Len(q)
  OBVIOUS
<1> QED
  BY <1>1, <1>2, SumsType

LEMMA BytesEmpty == Bytes(<<>>) = 0
<1>1. <<>> \in Seq(Chunks) /\ Len(<<>>) = 0
  OBVIOUS
<1>2. PICK f : Sums(<<>>, f, 0) /\ Bytes(<<>>) = f[0]
  BY <1>1, BytesSums
<1> QED
  BY <1>2 DEF Sums

(* Two series whose terms agree are equal as far as both go.               *)
LEMMA SumsAgree ==
  ASSUME NEW q, NEW r, NEW f, NEW g, NEW m \in Nat, NEW l \in Nat, m <= l,
         Sums(q, f, m), Sums(r, g, l),
         \A n \in 1 .. m : q[n].len \in Nat /\ r[n].len = q[n].len
  PROVE  g[m] = f[m]
<1> DEFINE S == {n \in Nat : n <= m => g[n] = f[n]}
<1>1. 0 \in S
  BY DEF Sums
<1>2. ASSUME NEW n \in S PROVE n + 1 \in S
  <2> SUFFICES ASSUME n + 1 <= m PROVE g[n + 1] = f[n + 1]
    OBVIOUS
  <2>1. n \in Nat /\ n + 1 \in 1 .. m /\ n + 1 \in 1 .. l /\ n + 1 - 1 = n
    OBVIOUS
  <2>2. f[n + 1] = f[n + 1 - 1] + q[n + 1].len
    BY <2>1, SumsStep
  <2>3. g[n + 1] = g[n + 1 - 1] + r[n + 1].len
    BY <2>1, SumsStep
  <2>4. g[n] = f[n] /\ r[n + 1].len = q[n + 1].len
    BY <2>1
  <2> QED
    BY <2>1, <2>2, <2>3, <2>4
<1> HIDE DEF S
<1>3. S \in SUBSET Nat
  BY DEF S
<1>4. S = Nat
  BY <1>1, <1>2, <1>3, EveryNumber
<1> QED
  BY <1>4 DEF S

LEMMA BytesAppend ==
  ASSUME NEW q \in Seq(Chunks), NEW chunk \in Chunks
  PROVE  Bytes(Append(q, chunk)) = Bytes(q) + chunk.len
<1> DEFINE r == Append(q, chunk)
<1>0. Len(q) \in Nat
  OBVIOUS
<1>1. /\ r \in Seq(Chunks) /\ Len(r) = Len(q) + 1
      /\ r[Len(q) + 1] = chunk
      /\ \A n \in 1 .. Len(q) : r[n] = q[n]
  OBVIOUS
<1> HIDE DEF r
<1>2. PICK f : Sums(q, f, Len(q)) /\ Bytes(q) = f[Len(q)]
  BY BytesSums
<1>3. PICK g : Sums(r, g, Len(q) + 1) /\ Bytes(r) = g[Len(q) + 1]
  BY <1>1, BytesSums
<1>4. g[Len(q)] = f[Len(q)]
  <2>1. PICK m \in Nat, l \in Nat : m = Len(q) /\ l = Len(q) + 1
    BY <1>0
  <2>2. \A n \in 1 .. m : q[n].len \in Nat /\ r[n].len = q[n].len
    BY <1>1, <2>1, ChunkLength
  <2>3. m <= l /\ Sums(q, f, m) /\ Sums(r, g, l)
    BY <1>2, <1>3, <2>1
  <2>4. g[m] = f[m]
    BY <2>2, <2>3, SumsAgree
  <2> QED
    BY <2>1, <2>4
<1>5. g[Len(q) + 1] = g[Len(q)] + chunk.len
  <2>1. Len(q) + 1 \in Nat /\ Len(q) + 1 \in 1 .. Len(q) + 1 /\ Len(q) + 1 - 1 = Len(q)
    BY <1>0
  <2>2. g[Len(q) + 1] = g[Len(q) + 1 - 1] + r[Len(q) + 1].len
    BY <1>3, <2>1, SumsStep
  <2> QED
    BY <1>1, <2>1, <2>2
<1> QED
  BY <1>2, <1>3, <1>4, <1>5 DEF r

LEMMA BytesTail ==
  ASSUME NEW q \in Seq(Chunks), q # <<>>
  PROVE  Bytes(q) = Head(q).len + Bytes(Tail(q))
<1> DEFINE p == Tail(q)
<1>0. Len(p) \in Nat
  OBVIOUS
<1>1. /\ p \in Seq(Chunks) /\ Len(q) = 1 + Len(p)
      /\ q[1] = Head(q)
      /\ \A n \in 1 .. Len(p) : p[n] = q[1 + n]
  OBVIOUS
<1> HIDE DEF p
<1>2. PICK f : Sums(p, f, Len(p)) /\ Bytes(p) = f[Len(p)]
  BY <1>1, BytesSums
<1>3. PICK g : Sums(q, g, 1 + Len(p)) /\ Bytes(q) = g[1 + Len(p)]
  BY <1>1, BytesSums
<1>4. 1 \in Nat /\ 1 + Len(p) \in Nat /\ 1 + Len(p) <= 1 + Len(p) /\ 1 \in 1 .. 1 + Len(p)
  BY <1>0
<1>5. g[1] = Head(q).len
  <2>1. g[1] = g[1 - 1] + q[1].len /\ g[0] = 0
    <3>1. g[0] = 0
      BY <1>3 DEF Sums
    <3>2. g[1] = g[1 - 1] + q[1].len
      BY <1>3, <1>4, SumsStep
    <3> QED
      BY <3>1, <3>2
  <2>2. q[1].len \in Nat
    BY <1>1, <1>4, ChunkLength
  <2> QED
    BY <1>1, <2>1, <2>2
<1>6. Head(q).len \in Nat
  BY <1>1, <1>4, ChunkLength
<1>7. \A n \in 1 .. Len(p) : p[n].len \in Nat /\ q[1 + n].len = p[n].len
  BY <1>1, ChunkLength
<1>8. g[1 + Len(p)] = f[Len(p)] + g[1]
  BY <1>0, <1>2, <1>3, <1>4, <1>5, <1>6, <1>7, SumsDiffer
<1>9. Bytes(p) \in Nat
  BY <1>1, BytesNat
<1>10. Bytes(q) = Bytes(p) + Head(q).len
  BY <1>2, <1>3, <1>5, <1>8, Zenon
<1>11. Bytes(p) + Head(q).len = Head(q).len + Bytes(p)
  BY <1>6, <1>9
<1> QED
  BY <1>10, <1>11, Zenon DEF p

-----------------------------------------------------------------------------
(* What waits after the head has moved, after a send and after a           *)
(* compaction.                                                             *)
LEMMA DropFirst ==
  ASSUME NEW q \in Seq(Chunks), NEW h \in Nat, h < Len(q)
  PROVE  LET w == SubSeq(q, h + 1, Len(q))
         IN  /\ w \in Seq(Chunks) /\ w # <<>>
             /\ Head(w) = q[h + 1]
             /\ Tail(w) = SubSeq(q, h + 2, Len(q))
<1> DEFINE w == SubSeq(q, h + 1, Len(q))
           v == SubSeq(q, h + 2, Len(q))
<1>1. /\ w \in Seq(Chunks) /\ Len(w) = Len(q) - h
      /\ \A j \in 1 .. Len(q) - h : w[j] = q[h + j]
  OBVIOUS
<1>2. /\ v \in Seq(Chunks) /\ Len(v) = Len(q) - h - 1
      /\ \A j \in 1 .. Len(q) - h - 1 : v[j] = q[h + 1 + j]
  OBVIOUS
<1> HIDE DEF w, v
<1>3. /\ w # <<>> /\ Head(w) = q[h + 1]
      /\ Tail(w) \in Seq(Chunks) /\ Len(Tail(w)) = Len(q) - h - 1
      /\ \A j \in 1 .. Len(q) - h - 1 : Tail(w)[j] = w[j + 1]
  BY <1>1
<1>4. \A j \in 1 .. Len(q) - h - 1 : Tail(w)[j] = v[j]
  BY <1>1, <1>2, <1>3
<1>5. Tail(w) = v
  BY <1>2, <1>3, <1>4, SeqEqual
<1> QED
  BY <1>1, <1>3, <1>5 DEF w, v

LEMMA AppendLast ==
  ASSUME NEW q \in Seq(Chunks), NEW chunk \in Chunks, NEW h \in 0 .. Len(q)
  PROVE  LET r == Append(q, chunk)
         IN  SubSeq(r, h + 1, Len(r)) = Append(SubSeq(q, h + 1, Len(q)), chunk)
<1> DEFINE r == Append(q, chunk)
           w == SubSeq(q, h + 1, Len(q))
           v == SubSeq(r, h + 1, Len(r))
<1>0. Len(q) \in Nat /\ h \in Nat /\ h <= Len(q)
  OBVIOUS
<1>1. /\ r \in Seq(Chunks) /\ Len(r) = Len(q) + 1
      /\ r[Len(q) + 1] = chunk
      /\ \A j \in 1 .. Len(q) : r[j] = q[j]
  OBVIOUS
<1>2. /\ w \in Seq(Chunks) /\ Len(w) = Len(q) - h
      /\ \A j \in 1 .. Len(q) - h : w[j] = q[h + j]
  OBVIOUS
<1> HIDE DEF r
<1>3. /\ v \in Seq(Chunks) /\ Len(v) = Len(q) - h + 1
      /\ \A j \in 1 .. Len(q) - h + 1 : v[j] = r[h + j]
  BY <1>0, <1>1
<1> HIDE DEF w, v
<1>4. /\ Append(w, chunk) \in Seq(Chunks) /\ Len(Append(w, chunk)) = Len(q) - h + 1
      /\ Append(w, chunk)[Len(q) - h + 1] = chunk
      /\ \A j \in 1 .. Len(q) - h : Append(w, chunk)[j] = w[j]
  BY <1>2
<1>5. ASSUME NEW j \in 1 .. Len(q) - h + 1 PROVE Append(w, chunk)[j] = v[j]
  <2>1. CASE j = Len(q) - h + 1
    <3>1. v[j] = r[h + j] /\ h + j = Len(q) + 1
      BY <1>0, <1>3, <2>1
    <3> QED
      BY <1>1, <1>4, <2>1, <3>1
  <2>2. CASE j \in 1 .. Len(q) - h
    <3>1. v[j] = r[h + j] /\ h + j \in 1 .. Len(q)
      BY <1>0, <1>3, <2>2
    <3>2. Append(w, chunk)[j] = w[j] /\ w[j] = q[h + j]
      BY <1>2, <1>4, <2>2
    <3> QED
      BY <1>1, <3>1, <3>2
  <2>3. j = Len(q) - h + 1 \/ j \in 1 .. Len(q) - h
    <3>1. Len(q) - h \in Nat
      BY <1>0
    <3> QED
      BY <3>1
  <2> QED
    BY <2>1, <2>2, <2>3
<1>6. Append(w, chunk) = v
  BY <1>3, <1>4, <1>5, SeqEqual
<1> QED
  BY <1>6 DEF r, w, v

(* The waiting chunks after flushOutboundQueue has given the first to the  *)
(* socket, after sendFrame has added one and after a compaction.           *)
LEMMA WaitingCompacted ==
  ASSUME TypeOK, Compact
  PROVE  Waiting' = Waiting
<1>1. Waiting \in Seq(Chunks) /\ Len(Waiting) \in Nat
  BY WaitingType
<1>2. CASE Compacts
  <2>1. Waiting' = SubSeq(Waiting, 1, Len(Waiting))
    <3>1. outboundQueue' = Waiting /\ outboundQueueHead' = 0
      BY <1>2 DEF Compact
    <3>2. Waiting' = SubSeq(outboundQueue', outboundQueueHead' + 1, Len(outboundQueue'))
      BY DEF Waiting
    <3>3. outboundQueueHead' + 1 = 1
      BY <3>1
    <3> QED
      BY <3>1, <3>2, <3>3, Zenon
  <2>2. SubSeq(Waiting, 1, Len(Waiting)) = Waiting
    BY <1>1
  <2> QED
    BY <2>1, <2>2
<1>3. CASE ~Compacts
  BY <1>3 DEF Compact, Waiting
<1> QED
  BY <1>2, <1>3

(* Either a flush leaves queue, head and socket alone, or it moves the     *)
(* first chunk that waits to the end of the active socket.                 *)
LEMMA FlushMoves ==
  ASSUME TypeOK, NEW queue \in Seq(Chunks), NEW timer, Flush(queue, timer)
  PROVE  \/ UNCHANGED <<outboundQueueHead, inSocket, sent>>
         \/ /\ IsReady
            /\ outboundQueueHead < Len(queue)
            /\ outboundQueueHead' = outboundQueueHead + 1
            /\ inSocket' = [inSocket EXCEPT
                              ![activeWs] = Append(@, queue[outboundQueueHead + 1])]
            /\ sent' = [sent EXCEPT ![activeWs] = @ + 1]
<1>1. CASE isFlushingQueue \/ ~IsReady \/ outboundQueueHead >= Len(queue)
  BY <1>1 DEF Flush
<1>2. CASE ~(isFlushingQueue \/ ~IsReady \/ outboundQueueHead >= Len(queue))
  <2>1. CASE BufferedAmount(inSocket) > HighWaterMark
    BY <1>2, <2>1 DEF Flush
  <2>2. CASE ~(BufferedAmount(inSocket) > HighWaterMark)
    <3>1. Len(queue) \in Nat /\ outboundQueueHead \in Nat
      BY DEF TypeOK
    <3> QED
      BY <1>2, <2>2, <3>1 DEF Flush
  <2> QED
    BY <2>1, <2>2
<1> QED
  BY <1>1, <1>2

-----------------------------------------------------------------------------
(* q holds frames of session k, numbered without a gap from first on.      *)
Numbered(q, k, first) ==
  \A j \in 1 .. Len(q) : q[j].sess = k /\ q[j].seq = first + j - 1

SocketsNumbered ==
  \A k \in Sessions : Numbered(inSocket[k], k, sent[k] - Len(inSocket[k]))

WaitingNumbered ==
  /\ Waiting # <<>> => activeWs # 0
  /\ Numbered(Waiting, activeWs, sent[activeWs])

(* The next number a session's CryptoStream gives out: a session that has  *)
(* not begun has given out none, and those of the active session are in    *)
(* its socket, beyond it or waiting.                                       *)
Numbering ==
  /\ \A k \in Sessions :
       ws[k] = "none" => outSeq[k] = 0 /\ sent[k] = 0 /\ inSocket[k] = <<>>
  /\ activeWs # 0 => ws[activeWs] # "none"
  /\ IsReady => outSeq[activeWs] = sent[activeWs] + Len(Waiting)

SequenceInv == SocketsNumbered /\ WaitingNumbered /\ Numbering

LEMMA NumberedAppend ==
  ASSUME NEW q \in Seq(Chunks), NEW chunk \in Chunks, NEW k, NEW first \in Int,
         Numbered(q, k, first),
         chunk.sess = k, chunk.seq = first + Len(q)
  PROVE  Numbered(Append(q, chunk), k, first)
<1>0. Len(q) \in Nat
  OBVIOUS
<1>1. /\ Len(Append(q, chunk)) = Len(q) + 1
      /\ Append(q, chunk)[Len(q) + 1] = chunk
      /\ \A j \in 1 .. Len(q) : Append(q, chunk)[j] = q[j]
  OBVIOUS
<1>2. ASSUME NEW j \in 1 .. Len(q) + 1
      PROVE  /\ Append(q, chunk)[j].sess = k
             /\ Append(q, chunk)[j].seq = first + j - 1
  <2>1. CASE j = Len(q) + 1
    <3>1. first + j - 1 = first + Len(q)
      BY <1>0, <2>1
    <3> QED
      BY <1>1, <2>1, <3>1
  <2>2. CASE j \in 1 .. Len(q)
    BY <1>1, <2>2 DEF Numbered
  <2> QED
    BY <1>0, <2>1, <2>2
<1> QED
  BY <1>1, <1>2 DEF Numbered

LEMMA NumberedTail ==
  ASSUME NEW q \in Seq(Chunks), q # <<>>, NEW k, NEW first \in Int,
         Numbered(q, k, first)
  PROVE  /\ Head(q) \in Chunks /\ Head(q).sess = k /\ Head(q).seq = first
         /\ Tail(q) \in Seq(Chunks) /\ Len(Tail(q)) = Len(q) - 1
         /\ Numbered(Tail(q), k, first + 1)
<1>0. /\ Len(q) \in Nat /\ 1 \in 1 .. Len(q)
      /\ Head(q) = q[1] /\ Head(q) \in Chunks
      /\ Tail(q) \in Seq(Chunks) /\ Len(Tail(q)) = Len(q) - 1
      /\ \A j \in 1 .. Len(q) - 1 : Tail(q)[j] = q[j + 1]
  OBVIOUS
<1>1. Head(q).sess = k /\ Head(q).seq = first
  <2>1. q[1].sess = k /\ q[1].seq = first + 1 - 1
    BY <1>0 DEF Numbered
  <2> QED
    BY <1>0, <2>1
<1>2. ASSUME NEW j \in 1 .. Len(Tail(q))
      PROVE  Tail(q)[j].sess = k /\ Tail(q)[j].seq = first + 1 + j - 1
  <2>1. j \in 1 .. Len(q) - 1 /\ j + 1 \in 1 .. Len(q)
    BY <1>0
  <2>2. q[j + 1].sess = k /\ q[j + 1].seq = first + (j + 1) - 1
    BY <2>1 DEF Numbered
  <2>3. first + (j + 1) - 1 = first + 1 + j - 1
    BY <2>1
  <2> QED
    BY <1>0, <2>1, <2>2, <2>3
<1> QED
  BY <1>0, <1>1, <1>2 DEF Numbered

(* The two forms in which the property is needed: as it is stated, over    *)
(* the queue from its head on, and over the chunks that wait.              *)
LEMMA InSequenceForm ==
  ASSUME TypeOK, SocketsNumbered, WaitingNumbered
  PROVE  InSequence
<1>1. /\ Len(outboundQueue) \in Nat /\ outboundQueueHead \in Nat
      /\ Waiting \in Seq(Chunks)
      /\ Len(Waiting) = Len(outboundQueue) - outboundQueueHead
      /\ \A j \in 1 .. Len(Waiting) : Waiting[j] = outboundQueue[outboundQueueHead + j]
  BY WaitingType DEF TypeOK
<1>2. ASSUME NEW j \in outboundQueueHead + 1 .. Len(outboundQueue)
      PROVE  /\ activeWs # 0
             /\ outboundQueue[j].sess = activeWs
             /\ outboundQueue[j].seq = sent[activeWs] + (j - outboundQueueHead) - 1
  <2>1. PICK i \in 1 .. Len(Waiting) : j = outboundQueueHead + i
    <3>1. j - outboundQueueHead \in 1 .. Len(Waiting)
      BY <1>1
    <3>2. j = outboundQueueHead + (j - outboundQueueHead)
      BY <1>1
    <3> QED
      BY <3>1, <3>2
  <2>2. Waiting # <<>>
    BY <1>1, <2>1
  <2>3. Waiting[i].sess = activeWs /\ Waiting[i].seq = sent[activeWs] + i - 1
    BY DEF WaitingNumbered, Numbered
  <2>4. outboundQueue[j] = Waiting[i]
    BY <1>1, <2>1
  <2>5. i = j - outboundQueueHead
    BY <1>1, <2>1
  <2> QED
    BY <2>2, <2>3, <2>4, <2>5 DEF WaitingNumbered
<1>3. ASSUME NEW k \in Sessions, NEW j \in 1 .. Len(inSocket[k])
      PROVE  /\ inSocket[k][j].sess = k
             /\ inSocket[k][j].seq = sent[k] - Len(inSocket[k]) + j - 1
  BY DEF SocketsNumbered, Numbered
<1> QED
  BY <1>2, <1>3 DEF InSequence

(* A flush moves the first chunk from the head of its queue on behind      *)
(* those in the active socket, or nothing: all stay numbered either way.   *)
From(queue, head) == SubSeq(queue, head + 1, Len(queue))

LEMMA FlushNumbered ==
  ASSUME TypeOK, SequenceInv,
         NEW queue \in Seq(Chunks), NEW timer, Flush(queue, timer),
         outboundQueue' = queue, activeWs' = activeWs,
         outboundQueueHead <= Len(queue),
         NEW w, w = From(queue, outboundQueueHead),
         w # <<>> => activeWs # 0,
         Numbered(w, activeWs, sent[activeWs])
  PROVE  /\ SocketsNumbered'
         /\ WaitingNumbered'
         /\ activeWs # 0 => sent'[activeWs] + Len(Waiting') = sent[activeWs] + Len(w)
         /\ \A k \in Sessions : ws[k] = "none" =>
              sent'[k] = sent[k] /\ inSocket'[k] = inSocket[k]
<1>0. /\ outboundQueueHead \in Nat /\ Len(queue) \in Nat
      /\ sent \in [Sessions -> Nat] /\ inSocket \in [Sessions -> Seq(Chunks)]
      /\ activeWs # 0 => activeWs \in Sessions
  BY DEF TypeOK, Sessions
<1>1. Waiting' = From(queue, outboundQueueHead')
  BY DEF Waiting, From
<1>2. CASE UNCHANGED <<outboundQueueHead, inSocket, sent>>
  <2>1. Waiting' = w
    BY <1>1, <1>2
  <2> QED
    BY <1>2, <2>1 DEF SequenceInv, SocketsNumbered, WaitingNumbered
<1>3. CASE /\ IsReady
           /\ outboundQueueHead < Len(queue)
           /\ outboundQueueHead' = outboundQueueHead + 1
           /\ inSocket' = [inSocket EXCEPT
                             ![activeWs] = Append(@, queue[outboundQueueHead + 1])]
           /\ sent' = [sent EXCEPT ![activeWs] = @ + 1]
  <2>0. activeWs \in Sessions /\ ws[activeWs] # "none"
    BY <1>0, <1>3 DEF IsReady
  <2>1. outboundQueueHead' + 1 = outboundQueueHead + 2
    BY <1>0, <1>3
  <2>2. /\ w \in Seq(Chunks) /\ w # <<>>
        /\ Head(w) = queue[outboundQueueHead + 1]
        /\ Tail(w) = Waiting'
    BY <1>0, <1>1, <1>3, <2>1, DropFirst DEF From
  <2>3. sent[activeWs] \in Nat /\ sent[activeWs] \in Int /\ inSocket[activeWs] \in Seq(Chunks)
    BY <1>0, <2>0
  <2>4. /\ Head(w) \in Chunks /\ Head(w).sess = activeWs /\ Head(w).seq = sent[activeWs]
        /\ Len(Tail(w)) = Len(w) - 1
        /\ Numbered(Tail(w), activeWs, sent[activeWs] + 1)
    BY <2>2, <2>3, NumberedTail
  <2>5. /\ inSocket'[activeWs] = Append(inSocket[activeWs], Head(w))
        /\ sent'[activeWs] = sent[activeWs] + 1
        /\ \A k \in Sessions \ {activeWs} :
             inSocket'[k] = inSocket[k] /\ sent'[k] = sent[k]
    BY <1>0, <1>3, <2>0, <2>2
  <2>6. WaitingNumbered'
    BY <2>0, <2>2, <2>4, <2>5 DEF WaitingNumbered, Sessions
  <2>7. SocketsNumbered'
    <3> SUFFICES ASSUME NEW k \in Sessions
                 PROVE  Numbered(inSocket'[k], k, sent'[k] - Len(inSocket'[k]))
      BY DEF SocketsNumbered
    <3>1. Numbered(inSocket[k], k, sent[k] - Len(inSocket[k]))
      BY DEF SequenceInv, SocketsNumbered
    <3>2. CASE k # activeWs
      <4>1. inSocket'[k] = inSocket[k] /\ sent'[k] = sent[k]
        BY <2>5, <3>2
      <4> QED
        BY <3>1, <4>1, Zenon
    <3>3. CASE k = activeWs
      <4>0. Len(inSocket[activeWs]) \in Nat
        BY <2>3
      <4>1. PICK first \in Int : first = sent[activeWs] - Len(inSocket[activeWs])
        BY <2>3, <4>0
      <4>2. Head(w).seq = first + Len(inSocket[activeWs])
        BY <2>3, <2>4, <4>1
      <4>3. Numbered(Append(inSocket[activeWs], Head(w)), activeWs, first)
        <5>1. Numbered(inSocket[activeWs], activeWs, first)
          BY <3>1, <3>3, <4>1, Zenon
        <5> QED
          BY <2>3, <2>4, <4>2, <5>1, NumberedAppend
      <4>4. first = sent'[activeWs] - Len(inSocket'[activeWs])
        <5>1. Len(inSocket'[activeWs]) = Len(inSocket[activeWs]) + 1
          <6>1. Len(Append(inSocket[activeWs], Head(w))) = Len(inSocket[activeWs]) + 1
            BY <2>3, <2>4
          <6> QED
            BY <2>5, <6>1, Zenon
        <5>2. sent'[activeWs] = sent[activeWs] + 1 /\ sent[activeWs] \in Nat
          BY <2>3, <2>5
        <5>3. PICK n \in Nat, m \in Nat : n = Len(inSocket[activeWs]) /\ m = sent[activeWs]
          BY <4>0, <5>2
        <5>4. /\ first = m - n /\ sent'[activeWs] = m + 1
              /\ Len(inSocket'[activeWs]) = n + 1
          BY <4>1, <5>1, <5>2, <5>3, Zenon
        <5> QED
          BY <5>4
      <4>5. inSocket'[k] = Append(inSocket[activeWs], Head(w))
        BY <2>5, <3>3
      <4> QED
        BY <3>3, <4>3, <4>4, <4>5, Zenon
    <3> QED
      BY <3>2, <3>3
  <2>8. sent'[activeWs] + Len(Waiting') = sent[activeWs] + Len(w)
    <3>1. Len(Waiting') = Len(w) - 1
      BY <2>2, <2>4, Zenon
    <3>2. Len(w) \in Nat /\ sent[activeWs] \in Nat
      BY <2>2, <2>3
    <3>3. sent'[activeWs] = sent[activeWs] + 1
      BY <2>5
    <3> QED
      BY <3>1, <3>2, <3>3
  <2> QED
    BY <2>0, <2>5, <2>6, <2>7, <2>8
<1> QED
  BY <1>2, <1>3, FlushMoves

(* A session that ends or begins leaves nothing waiting.                   *)
LEMMA ResetNumbered ==
  ASSUME Reset
  PROVE  Waiting' = <<>> /\ WaitingNumbered'
<1>1. outboundQueue' = <<>> /\ outboundQueueHead' = 0
  BY DEF Reset
<1>2. Waiting' = SubSeq(outboundQueue', outboundQueueHead' + 1, Len(outboundQueue'))
  BY DEF Waiting
<1>3. SubSeq(<<>>, 1, 0) = <<>> /\ Len(<<>>) = 0
  OBVIOUS
<1>4. Waiting' = <<>>
  BY <1>1, <1>2, <1>3
<1> QED
  BY <1>3, <1>4 DEF WaitingNumbered, Numbered

LEMMA ShutKeepsBegun ==
  ASSUME TypeOK, NEW k, NEW i \in Sessions
  PROVE  /\ Terminate(k)[i] = "none" => ws[i] = "none"
         /\ Terminate(k)[i] = "open" => ws[i] = "open"
  BY DEF TypeOK, Terminate

(* sendFrame(): the new chunk takes the next number of its session.        *)
LEMMA SendNumbered ==
  ASSUME TypeOK, TypeOK', SequenceInv, NEW len \in Lengths,
         SendAccepted(len) \/ SendOverflows(len)
  PROVE  SequenceInv'
<1>0. /\ activeWs \in Sessions /\ IsReady /\ ws[activeWs] # "none"
      /\ outSeq \in [Sessions -> Nat] /\ sent[activeWs] \in Nat
      /\ outboundQueue \in Seq(Chunks) /\ outboundQueueHead \in 0 .. Len(outboundQueue)
      /\ Waiting \in Seq(Chunks)
  <2>1. IsReady
    BY DEF SendAccepted, SendOverflows
  <2>2. activeWs \in Sessions /\ ws[activeWs] # "none"
    BY <2>1 DEF IsReady, TypeOK, Sessions
  <2>3. /\ outSeq \in [Sessions -> Nat] /\ sent \in [Sessions -> Nat]
        /\ outboundQueue \in Seq(Chunks) /\ outboundQueueHead \in 0 .. Len(outboundQueue)
    BY DEF TypeOK
  <2>4. sent[activeWs] \in Nat
    BY <2>2, <2>3
  <2> QED
    BY <2>1, <2>2, <2>3, <2>4, WaitingType
<1>1. CASE SendAccepted(len)
  <2> DEFINE chunk == Encrypted(len)
             queue == Append(outboundQueue, chunk)
             w     == Append(Waiting, chunk)
  <2>1. /\ chunk \in Chunks /\ chunk.sess = activeWs
        /\ chunk.seq = sent[activeWs] + Len(Waiting)
    BY <1>0 DEF Encrypted, Chunks, SequenceInv, Numbering
  <2>2. /\ outboundQueue' = queue /\ activeWs' = activeWs /\ ws' = ws
        /\ outSeq' = [outSeq EXCEPT ![activeWs] = @ + 1]
        /\ Flush(queue, flushRetryTimer)
    BY <1>1 DEF SendAccepted
  <2>3. queue \in Seq(Chunks) /\ outboundQueueHead <= Len(queue)
    BY <1>0, <2>1
  <2>4. w = From(queue, outboundQueueHead)
    BY <1>0, <2>1, AppendLast DEF From, Waiting
  <2>5. Numbered(w, activeWs, sent[activeWs])
    <3>1. Numbered(Waiting, activeWs, sent[activeWs])
      BY DEF SequenceInv, WaitingNumbered
    <3>2. sent[activeWs] \in Int
      BY <1>0
    <3> HIDE DEF chunk
    <3> QED
      BY <1>0, <2>1, <3>1, <3>2, NumberedAppend
  <2>6. Len(w) = Len(Waiting) + 1 /\ Len(Waiting) \in Nat
    BY <1>0, <2>1
  <2>7. activeWs # 0
    BY <1>0 DEF IsReady
  <2> HIDE DEF chunk, queue, w
  <2>8. /\ SocketsNumbered' /\ WaitingNumbered'
        /\ sent'[activeWs] + Len(Waiting') = sent[activeWs] + Len(w)
        /\ \A k \in Sessions : ws[k] = "none" =>
             sent'[k] = sent[k] /\ inSocket'[k] = inSocket[k]
    BY <2>2, <2>3, <2>4, <2>5, <2>7, FlushNumbered
  <2>9. outSeq'[activeWs] = sent'[activeWs] + Len(Waiting')
    <3>1. outSeq'[activeWs] = outSeq[activeWs] + 1
      BY <1>0, <2>2
    <3>2. outSeq[activeWs] = sent[activeWs] + Len(Waiting)
      BY <1>0 DEF SequenceInv, Numbering
    <3>3. outSeq'[activeWs] = sent[activeWs] + Len(w)
      <4>1. sent[activeWs] \in Nat
        BY <1>0
      <4> QED
        BY <2>6, <3>1, <3>2, <4>1
    <3> QED
      BY <2>8, <3>3
  <2>10. \A k \in Sessions : ws[k] = "none" =>
           outSeq'[k] = 0 /\ sent'[k] = 0 /\ inSocket'[k] = <<>>
    BY <1>0, <2>2, <2>8 DEF SequenceInv, Numbering
  <2> QED
    BY <1>0, <2>2, <2>8, <2>9, <2>10 DEF SequenceInv, Numbering
<1>2. CASE SendOverflows(len)
  <2>1. /\ ws' = Terminate(activeWs) /\ activeWs' = activeWs
        /\ outSeq' = [outSeq EXCEPT ![activeWs] = @ + 1]
        /\ UNCHANGED <<outboundQueue, outboundQueueHead, inSocket, sent>>
    BY <1>2 DEF SendOverflows, queueVars
  <2>2. Waiting' = Waiting
    BY <2>1 DEF Waiting
  <2>3. SocketsNumbered' /\ WaitingNumbered'
    <3>1. SocketsNumbered'
      BY <2>1 DEF SequenceInv, SocketsNumbered
    <3>2. sent' = sent /\ activeWs' = activeWs
      BY <2>1
    <3>3. WaitingNumbered'
      BY <2>2, <3>2 DEF SequenceInv, WaitingNumbered
    <3> QED
      BY <3>1, <3>3
  <2>4. \A i \in Sessions : ws'[i] = "none" => ws[i] = "none" /\ i # activeWs
    <3>1. \A i \in Sessions : ws'[i] = "none" => ws[i] = "none"
      BY <2>1, ShutKeepsBegun, Zenon
    <3> QED
      BY <1>0, <3>1
  <2>5. ~IsReady'
    BY <1>0, <2>1 DEF IsReady, Terminate, TypeOK
  <2>6. \A i \in Sessions : ws'[i] = "none" =>
          outSeq'[i] = 0 /\ sent'[i] = 0 /\ inSocket'[i] = <<>>
    BY <1>0, <2>1, <2>4 DEF SequenceInv, Numbering
  <2>7. ws'[activeWs'] # "none"
    BY <1>0, <2>1, <2>4
  <2> QED
    BY <2>3, <2>5, <2>6, <2>7 DEF SequenceInv, Numbering
<1> QED
  BY <1>1, <1>2

(* The callback of ws.send takes the oldest chunk out of its socket.       *)
LEMMA CallbackNumbered ==
  ASSUME TypeOK, SequenceInv, NEW k \in Sessions, CallbackRuns(k)
  PROVE  SocketsNumbered' /\ (inSocket[k] # <<>>) /\ sent' = sent
<1>0. /\ inSocket[k] \in Seq(Chunks) /\ inSocket[k] # <<>>
      /\ sent[k] \in Nat /\ sent' = sent
      /\ inSocket' = [inSocket EXCEPT ![k] = Tail(@)]
      /\ inSocket \in [Sessions -> Seq(Chunks)]
  BY DEF TypeOK, CallbackRuns
<1>1. inSocket'[k] = Tail(inSocket[k]) /\ \A i \in Sessions \ {k} : inSocket'[i] = inSocket[i]
  BY <1>0
<1> SUFFICES ASSUME NEW i \in Sessions
             PROVE  Numbered(inSocket'[i], i, sent[i] - Len(inSocket'[i]))
  BY <1>0 DEF SocketsNumbered
<1>2. Numbered(inSocket[i], i, sent[i] - Len(inSocket[i]))
  BY DEF SequenceInv, SocketsNumbered
<1>3. CASE i # k
  <2>1. inSocket'[i] = inSocket[i]
    BY <1>1, <1>3
  <2> QED
    BY <1>2, <2>1, Zenon
<1>4. CASE i = k
  <2>1. Len(inSocket[k]) \in Nat
    BY <1>0
  <2>2. PICK first \in Int : first = sent[k] - Len(inSocket[k])
    BY <1>0, <2>1
  <2>3. Numbered(inSocket[k], k, first)
    BY <1>2, <1>4, <2>2, Zenon
  <2>4. Numbered(Tail(inSocket[k]), k, first + 1) /\ Len(Tail(inSocket[k])) = Len(inSocket[k]) - 1
    BY <1>0, <2>3, NumberedTail
  <2>5. first + 1 = sent[k] - Len(Tail(inSocket[k]))
    BY <1>0, <2>1, <2>2, <2>4
  <2> QED
    BY <1>1, <1>4, <2>4, <2>5, Zenon
<1> QED
  BY <1>3, <1>4

(* A step that numbers nothing and moves nothing, and after which no       *)
(* socket is younger than before.                                          *)
LEMMA NumberingKept ==
  ASSUME TypeOK, SequenceInv,
         activeWs' = activeWs, outSeq' = outSeq, sent' = sent, Waiting' = Waiting,
         \A i \in Sessions : /\ ws'[i] = "none" => ws[i] = "none"
                             /\ ws'[i] = "open" => ws[i] = "open"
                             /\ inSocket[i] = <<>> => inSocket'[i] = <<>>
  PROVE  Numbering' /\ WaitingNumbered'
<1>1. activeWs # 0 => activeWs \in Sessions
  BY DEF TypeOK, Sessions
<1>2. Numbering
  BY DEF SequenceInv
<1>3. \A i \in Sessions : ws'[i] = "none" =>
        outSeq'[i] = 0 /\ sent'[i] = 0 /\ inSocket'[i] = <<>>
  <2> SUFFICES ASSUME NEW i \in Sessions, ws'[i] = "none"
               PROVE  outSeq'[i] = 0 /\ sent'[i] = 0 /\ inSocket'[i] = <<>>
    OBVIOUS
  <2>1. ws[i] = "none" /\ (inSocket[i] = <<>> => inSocket'[i] = <<>>)
    OBVIOUS
  <2>2. outSeq[i] = 0 /\ sent[i] = 0 /\ inSocket[i] = <<>>
    BY <1>2, <2>1, Zenon DEF Numbering
  <2> QED
    BY <2>1, <2>2
<1>4. activeWs' # 0 => ws'[activeWs'] # "none"
  <2> SUFFICES ASSUME activeWs # 0 PROVE ws'[activeWs] # "none"
    OBVIOUS
  <2>1. activeWs \in Sessions /\ ws[activeWs] # "none"
    BY <1>1, <1>2 DEF Numbering
  <2>2. ws'[activeWs] = "none" => ws[activeWs] = "none"
    BY <2>1
  <2> QED
    BY <2>1, <2>2
<1>5. IsReady' => outSeq'[activeWs'] = sent'[activeWs'] + Len(Waiting')
  <2>1. IsReady' => IsReady
    <3> SUFFICES ASSUME activeWs # 0, ws'[activeWs] = "open" PROVE ws[activeWs] = "open"
      BY DEF IsReady
    <3> QED
      BY <1>1
  <2> QED
    BY <1>2, <2>1, Zenon DEF Numbering
<1>6. WaitingNumbered'
  BY Zenon DEF SequenceInv, WaitingNumbered
<1> QED
  BY <1>3, <1>4, <1>5, <1>6 DEF Numbering

LEMMA SequenceKept == Spec => []SequenceInv
<1>1. Init => SequenceInv
  <2> SUFFICES ASSUME Init PROVE SequenceInv
    OBVIOUS
  <2>1. Waiting = <<>> /\ Len(<<>>) = 0
    BY DEF Init, Waiting
  <2>2. \A k \in Sessions : inSocket[k] = <<>> /\ outSeq[k] = 0 /\ sent[k] = 0
    BY DEF Init
  <2>3. SocketsNumbered /\ WaitingNumbered
    BY <2>1, <2>2 DEF SocketsNumbered, WaitingNumbered, Numbered
  <2> QED
    BY <2>2, <2>3 DEF SequenceInv, Numbering, Init, IsReady
<1>2. TypeOK /\ TypeOK' /\ SequenceInv /\ [Next]_vars => SequenceInv'
  <2> SUFFICES ASSUME TypeOK, TypeOK', SequenceInv, [Next]_vars
               PROVE  SequenceInv'
    OBVIOUS
  <2>1. ASSUME NEW len \in Lengths, SendAccepted(len) \/ SendOverflows(len)
        PROVE  SequenceInv'
    BY <2>1, SendNumbered
  <2>2. ASSUME NEW k \in Sessions, SendSucceeds(k) \/ SendFails(k)
        PROVE  SequenceInv'
    <3>1. CallbackRuns(k) /\ activeWs' = activeWs /\ outSeq' = outSeq
      BY <2>2 DEF SendSucceeds, SendFails, CallbackRuns
    <3>2. SocketsNumbered' /\ inSocket[k] # <<>> /\ sent' = sent
      BY <3>1, CallbackNumbered
    <3>3. Waiting' = Waiting
      <4>1. CASE SendSucceeds(k)
        BY <4>1, WaitingCompacted DEF SendSucceeds
      <4>2. CASE SendFails(k)
        BY <4>2 DEF SendFails, Waiting
      <4> QED
        BY <2>2, <4>1, <4>2
    <3>4. \A i \in Sessions \ {k} : inSocket'[i] = inSocket[i]
      BY <3>1 DEF CallbackRuns, TypeOK
    <3>5. \A i \in Sessions : /\ ws'[i] = "none" => ws[i] = "none"
                              /\ ws'[i] = "open" => ws[i] = "open"
      <4>1. ws' = ws \/ ws' = Terminate(activeWs)
        BY <2>2 DEF SendSucceeds, SendFails
      <4> QED
        BY <4>1, ShutKeepsBegun, Zenon
    <3>6. \A i \in Sessions : inSocket[i] = <<>> => inSocket'[i] = <<>>
      BY <3>2, <3>4
    <3>7. Numbering' /\ WaitingNumbered'
      BY <3>1, <3>2, <3>3, <3>5, <3>6, NumberingKept
    <3> QED
      BY <3>2, <3>7 DEF SequenceInv
  <2>3. ASSUME NEW k \in Sessions, Connect(k) PROVE SequenceInv'
    <3>1. /\ Reset /\ ws[k] = "none" /\ activeWs' = k
          /\ UNCHANGED <<outSeq, inSocket, sent>>
      BY <2>3 DEF Connect
    <3>2. Waiting' = <<>> /\ WaitingNumbered' /\ Len(<<>>) = 0
      BY <3>1, ResetNumbered
    <3>3. SocketsNumbered'
      BY <3>1 DEF SequenceInv, SocketsNumbered
    <3>4. /\ ws'[k] = "open"
          /\ \A i \in Sessions : ws'[i] = "none" => ws[i] = "none"
      <4>1. CASE activeWs = 0
        BY <2>3, <4>1 DEF Connect, TypeOK
      <4>2. CASE activeWs # 0
        <5>1. ws' = [Terminate(activeWs) EXCEPT ![k] = "open"]
          BY <2>3, <4>2 DEF Connect
        <5>2. \A i \in Sessions : Terminate(activeWs)[i] = "none" => ws[i] = "none"
          BY ShutKeepsBegun, Zenon
        <5>3. Terminate(activeWs) \in [Sessions -> {"none", "open", "closing", "closed"}]
          BY TerminateType
        <5>4. ws'[k] = "open" /\ \A i \in Sessions \ {k} : ws'[i] = Terminate(activeWs)[i]
          BY <5>1, <5>3
        <5> QED
          BY <5>2, <5>4
      <4> QED
        BY <4>1, <4>2
    <3>5. \A i \in Sessions : ws'[i] = "none" =>
            outSeq'[i] = 0 /\ sent'[i] = 0 /\ inSocket'[i] = <<>>
      BY <3>1, <3>4 DEF SequenceInv, Numbering
    <3>6. outSeq'[k] = sent'[k] + Len(Waiting')
      BY <3>1, <3>2 DEF SequenceInv, Numbering
    <3> QED
      BY <3>1, <3>2, <3>3, <3>4, <3>5, <3>6 DEF SequenceInv, Numbering
  <2>4. ASSUME NEW k \in Sessions, Shut(k) PROVE SequenceInv'
    <3>1. UNCHANGED <<activeWs, outSeq, outboundQueue, outboundQueueHead, inSocket, sent>>
      BY <2>4 DEF Shut, queueVars
    <3>2. Waiting' = Waiting
      BY <3>1 DEF Waiting
    <3>3. SocketsNumbered'
      BY <3>1 DEF SequenceInv, SocketsNumbered
    <3>4. \A i \in Sessions : /\ ws'[i] = "none" => ws[i] = "none"
                              /\ ws'[i] = "open" => ws[i] = "open"
      <4>1. ws' = Terminate(k)
        BY <2>4 DEF Shut
      <4>2. \A i \in Sessions : /\ Terminate(k)[i] = "none" => ws[i] = "none"
                                /\ Terminate(k)[i] = "open" => ws[i] = "open"
        BY ShutKeepsBegun, Zenon
      <4> QED
        BY <4>1, <4>2, Zenon
    <3>5. Numbering' /\ WaitingNumbered'
      BY <3>1, <3>2, <3>4, NumberingKept
    <3> QED
      BY <3>3, <3>5 DEF SequenceInv
  <2>5. ASSUME NEW k \in Sessions, WsClosed(k) PROVE SequenceInv'
    <3>1. /\ ws' = [ws EXCEPT ![k] = "closed"] /\ ws[k] # "none"
          /\ UNCHANGED <<outSeq, inSocket, sent>>
      BY <2>5 DEF WsClosed
    <3>2. SocketsNumbered'
      BY <3>1 DEF SequenceInv, SocketsNumbered
    <3>3. \A i \in Sessions : ws'[i] = "none" => ws[i] = "none"
      BY <3>1 DEF TypeOK
    <3>4. CASE activeWs = k
      <4>1. Reset /\ activeWs' = 0
        BY <2>5, <3>4 DEF WsClosed
      <4>2. WaitingNumbered'
        BY <4>1, ResetNumbered
      <4> QED
        BY <3>1, <3>2, <3>3, <4>1, <4>2 DEF SequenceInv, Numbering, IsReady
    <3>5. CASE activeWs # k
      <4>1. UNCHANGED <<activeWs, outboundQueue, outboundQueueHead>>
        BY <2>5, <3>5 DEF WsClosed, queueVars
      <4>2. Waiting' = Waiting
        BY <4>1 DEF Waiting
      <4>3. \A i \in Sessions : ws'[i] = "open" => ws[i] = "open"
        BY <3>1 DEF TypeOK
      <4>4. Numbering' /\ WaitingNumbered'
        BY <3>1, <3>3, <4>1, <4>2, <4>3, NumberingKept
      <4> QED
        BY <3>2, <4>4 DEF SequenceInv
    <3> QED
      BY <3>4, <3>5
  <2>6. ASSUME RunImmediate \/ RetryTimer \/ (CheckDrain /\ copy = "client")
        PROVE  SequenceInv'
    <3>1. PICK timer : Flush(outboundQueue, timer)
      BY <2>6 DEF RunImmediate, RetryTimer, CheckDrain
    <3>2. UNCHANGED <<outboundQueue, activeWs, ws, outSeq>>
      BY <2>6 DEF RunImmediate, RetryTimer, CheckDrain
    <3>3. /\ outboundQueue \in Seq(Chunks) /\ outboundQueueHead <= Len(outboundQueue)
          /\ Waiting = From(outboundQueue, outboundQueueHead)
      BY DEF TypeOK, Waiting, From
    <3>4. /\ Waiting # <<>> => activeWs # 0
          /\ Numbered(Waiting, activeWs, sent[activeWs])
      BY DEF SequenceInv, WaitingNumbered
    <3>5. /\ SocketsNumbered' /\ WaitingNumbered'
          /\ activeWs # 0 => sent'[activeWs] + Len(Waiting') = sent[activeWs] + Len(Waiting)
          /\ \A k \in Sessions : ws[k] = "none" =>
               sent'[k] = sent[k] /\ inSocket'[k] = inSocket[k]
      BY <3>1, <3>2, <3>3, <3>4, FlushNumbered
    <3>6. IsReady' => outSeq'[activeWs'] = sent'[activeWs'] + Len(Waiting')
      BY <3>2, <3>5 DEF SequenceInv, Numbering, IsReady
    <3> QED
      BY <3>2, <3>5, <3>6 DEF SequenceInv, Numbering
  <2>7. ASSUME \/ CheckDrain /\ copy # "client"
               \/ UNCHANGED vars
        PROVE  SequenceInv'
    <3>1. UNCHANGED <<activeWs, ws, outSeq, outboundQueue, outboundQueueHead, inSocket, sent>>
      BY <2>7 DEF CheckDrain, vars, queueVars
    <3>2. Waiting' = Waiting
      BY <3>1 DEF Waiting
    <3>3. SocketsNumbered'
      BY <3>1 DEF SequenceInv, SocketsNumbered
    <3>4. Numbering' /\ WaitingNumbered'
      BY <3>1, <3>2, NumberingKept
    <3> QED
      BY <3>3, <3>4 DEF SequenceInv
  <2> QED
    BY <2>1, <2>2, <2>3, <2>4, <2>5, <2>6, <2>7
       DEF Next, SendControl, ProducerData
<1> QED
  BY <1>1, <1>2, TypeCorrect, PTL DEF Spec

(* The socket of every session is given exactly the frames encrypted for   *)
(* that session, in the order of their sequence numbers with none missing  *)
(* or repeated, and the queue continues that numbering: whatever resets,   *)
(* compactions, overflows and late callbacks do, the strict sequence check *)
(* at the other end of the tunnel cannot fail.                             *)
THEOREM NumberedWithoutGap == Spec => []InSequence
<1>1. TypeOK /\ SequenceInv => InSequence
  BY InSequenceForm DEF SequenceInv
<1> QED
  BY <1>1, TypeCorrect, SequenceKept, PTL

-----------------------------------------------------------------------------
(* The client's copy of the queue serves session 1 and no other, and is    *)
(* empty when that session is not connected.                               *)
OneSession ==
  /\ activeWs \in {0, 1}
  /\ \A k \in Sessions : k # 1 => ws[k] = "none"
  /\ activeWs = 0 => Waiting = <<>>

AccountingInv == copy = "client" => OneSession /\ Accounting

Held == Bytes(Waiting) + BufferedAmount(inSocket)

LEMMA HeldNat ==
  ASSUME TypeOK
  PROVE  Bytes(Waiting) \in Nat /\ BufferedAmount(inSocket) \in Nat
<1>1. Bytes(Waiting) \in Nat
  BY WaitingType, BytesNat
<1>2. CASE activeWs = 0
  BY <1>1, <1>2 DEF BufferedAmount
<1>3. CASE activeWs # 0
  <2>1. activeWs \in Sessions /\ inSocket[activeWs] \in Seq(Chunks)
    BY <1>3 DEF TypeOK, Sessions
  <2>2. Bytes(inSocket[activeWs]) \in Nat
    BY <2>1, BytesNat
  <2> QED
    BY <1>1, <1>3, <2>2 DEF BufferedAmount
<1> QED
  BY <1>2, <1>3

(* A flush changes where a chunk is held, not how much is held.            *)
LEMMA FlushKeepsBytes ==
  ASSUME TypeOK,
         NEW queue \in Seq(Chunks), NEW timer, Flush(queue, timer),
         outboundQueue' = queue, activeWs' = activeWs,
         outboundQueueHead <= Len(queue),
         NEW w \in Seq(Chunks), w = From(queue, outboundQueueHead)
  PROVE  Held' = Bytes(w) + BufferedAmount(inSocket)
<1>0. /\ outboundQueueHead \in Nat /\ Len(queue) \in Nat
      /\ inSocket \in [Sessions -> Seq(Chunks)]
      /\ activeWs # 0 => activeWs \in Sessions
  BY DEF TypeOK, Sessions
<1>1. Waiting' = From(queue, outboundQueueHead')
  BY DEF Waiting, From
<1>2. CASE UNCHANGED <<outboundQueueHead, inSocket, sent>>
  <2>1. Waiting' = w
    BY <1>1, <1>2
  <2> QED
    BY <1>2, <2>1 DEF Held, BufferedAmount
<1>3. CASE /\ IsReady
           /\ outboundQueueHead < Len(queue)
           /\ outboundQueueHead' = outboundQueueHead + 1
           /\ inSocket' = [inSocket EXCEPT
                             ![activeWs] = Append(@, queue[outboundQueueHead + 1])]
           /\ sent' = [sent EXCEPT ![activeWs] = @ + 1]
  <2>1. activeWs # 0 /\ activeWs \in Sessions /\ inSocket[activeWs] \in Seq(Chunks)
    BY <1>0, <1>3 DEF IsReady
  <2>2. outboundQueueHead' + 1 = outboundQueueHead + 2
    BY <1>0, <1>3
  <2>3. /\ w # <<>> /\ Head(w) = queue[outboundQueueHead + 1] /\ Tail(w) = Waiting'
    BY <1>0, <1>1, <1>3, <2>2, DropFirst DEF From
  <2>4. Head(w) \in Chunks /\ Head(w).len \in Nat
    <3>1. w[1] = Head(w) /\ w[1] \in Chunks /\ 1 \in 1 .. Len(w)
      BY <2>3
    <3> QED
      BY <3>1, ChunkLength
  <2>5. inSocket'[activeWs] = Append(inSocket[activeWs], Head(w))
    BY <1>0, <1>3, <2>1, <2>3
  <2>6. Bytes(w) = Head(w).len + Bytes(Waiting')
    BY <2>3, BytesTail
  <2>7. Bytes(inSocket'[activeWs]) = Bytes(inSocket[activeWs]) + Head(w).len
    BY <2>1, <2>4, <2>5, BytesAppend
  <2>8. Bytes(Waiting') \in Nat /\ Bytes(inSocket[activeWs]) \in Nat
    <3>1. Waiting' \in Seq(Chunks)
      BY <2>3
    <3> QED
      BY <2>1, <3>1, BytesNat
  <2>9. /\ Held' = Bytes(Waiting') + Bytes(inSocket'[activeWs])
        /\ BufferedAmount(inSocket) = Bytes(inSocket[activeWs])
    BY <2>1 DEF Held, BufferedAmount
  <2> QED
    BY <2>4, <2>6, <2>7, <2>8, <2>9
<1> QED
  BY <1>2, <1>3, FlushMoves

LEMMA HeldUnchanged ==
  ASSUME Waiting' = Waiting, activeWs' = activeWs, inSocket' = inSocket
  PROVE  Held' = Held
  BY DEF Held, BufferedAmount

(* sendFrame(): the new chunk is counted once, unless the queue is full.   *)
LEMMA SendAccounts ==
  ASSUME TypeOK, AccountingInv, copy = "client", NEW len \in Lengths,
         SendAccepted(len)
  PROVE  Held' = Held + len /\ outboundQueueBytes' = outboundQueueBytes + len
<1> DEFINE chunk == Encrypted(len)
           queue == Append(outboundQueue, chunk)
           w     == Append(Waiting, chunk)
<1>1. /\ outboundQueue' = queue /\ activeWs' = activeWs
      /\ outboundQueueBytes' = outboundQueueBytes + len
      /\ Flush(queue, flushRetryTimer)
  BY DEF SendAccepted
<1>2. /\ outboundQueue \in Seq(Chunks) /\ outboundQueueHead \in 0 .. Len(outboundQueue)
      /\ Waiting \in Seq(Chunks)
  BY WaitingType DEF TypeOK
<1>3. chunk \in Chunks /\ chunk.len = len
  <2>1. activeWs \in Sessions
    BY DEF SendAccepted, IsReady, TypeOK, Sessions
  <2> QED
    BY <2>1 DEF Encrypted, Chunks, TypeOK
<1> HIDE DEF chunk
<1>4. queue \in Seq(Chunks) /\ outboundQueueHead <= Len(queue) /\ w \in Seq(Chunks)
  BY <1>2, <1>3
<1>5. w = From(queue, outboundQueueHead)
  BY <1>2, <1>3, AppendLast DEF From, Waiting
<1>6. Bytes(w) = Bytes(Waiting) + len
  BY <1>2, <1>3, BytesAppend
<1> HIDE DEF queue, w
<1>7. Held' = Bytes(w) + BufferedAmount(inSocket)
  BY <1>1, <1>4, <1>5, FlushKeepsBytes
<1>8. Held' = Held + len
  <2>1. Bytes(Waiting) \in Nat /\ BufferedAmount(inSocket) \in Nat
    BY HeldNat
  <2>2. len \in Nat
    BY OutboundQueueAssumption
  <2> QED
    BY <1>6, <1>7, <2>1, <2>2 DEF Held
<1> QED
  BY <1>1, <1>8

(* The callback of ws.send takes off the length of the chunk that has left *)
(* the active socket; the subtraction never has to be cut off at zero.     *)
LEMMA CallbackAccounts ==
  ASSUME TypeOK, NEW k \in Sessions, CallbackRuns(k), activeWs = k,
         outboundQueueBytes = Held, Waiting' = Waiting
  PROVE  /\ outboundQueueBytes' = Held'
         /\ outboundQueueBytes' <= outboundQueueBytes
<1>0. /\ inSocket \in [Sessions -> Seq(Chunks)] /\ inSocket[k] # <<>>
      /\ inSocket' = [inSocket EXCEPT ![k] = Tail(@)] /\ activeWs' = activeWs
      /\ outboundQueueBytes' = IF outboundQueueBytes - Head(inSocket[k]).len < 0 THEN 0
                               ELSE outboundQueueBytes - Head(inSocket[k]).len
  BY DEF TypeOK, CallbackRuns
<1>1. inSocket[k] \in Seq(Chunks) /\ inSocket'[k] = Tail(inSocket[k])
  BY <1>0
<1>2. Tail(inSocket[k]) \in Seq(Chunks) /\ Head(inSocket[k]).len \in Nat
  <2>1. Tail(inSocket[k]) \in Seq(Chunks) /\ 1 \in 1 .. Len(inSocket[k])
    BY <1>0, <1>1
  <2>2. inSocket[k][1].len \in Nat /\ Head(inSocket[k]) = inSocket[k][1]
    BY <1>1, <2>1, ChunkLength
  <2> QED
    BY <2>1, <2>2
<1>3. Bytes(inSocket[k]) = Head(inSocket[k]).len + Bytes(Tail(inSocket[k]))
  BY <1>0, <1>1, BytesTail
<1>4. Bytes(Tail(inSocket[k])) \in Nat /\ Bytes(Waiting) \in Nat
  BY <1>2, BytesNat, HeldNat
<1>5. k # 0
  BY OutboundQueueAssumption DEF Sessions
<1>6. /\ Held = Bytes(Waiting) + Bytes(inSocket[k])
      /\ Held' = Bytes(Waiting) + Bytes(Tail(inSocket[k]))
  BY <1>0, <1>1, <1>5 DEF Held, BufferedAmount
<1>7. PICK l \in Nat, b \in Nat, c \in Nat :
         /\ l = Head(inSocket[k]).len /\ b = Bytes(Tail(inSocket[k])) /\ c = Bytes(Waiting)
  BY <1>2, <1>4
<1>8. /\ outboundQueueBytes = c + (l + b) /\ Held' = c + b
      /\ outboundQueueBytes' = IF outboundQueueBytes - l < 0 THEN 0 ELSE outboundQueueBytes - l
  BY <1>0, <1>3, <1>6, <1>7
<1> QED
  BY <1>8

LEMMA ResetAccounts ==
  ASSUME Reset, activeWs' # 0 => inSocket'[activeWs'] = <<>>
  PROVE  Waiting' = <<>> /\ Held' = 0 /\ outboundQueueBytes' = 0
<1>1. Waiting' = <<>> /\ outboundQueueBytes' = 0
  BY ResetNumbered DEF Reset
<1>2. Bytes(Waiting') = 0
  BY <1>1, BytesEmpty
<1>3. BufferedAmount(inSocket)' = 0
  BY BytesEmpty DEF BufferedAmount
<1> QED
  BY <1>1, <1>2, <1>3 DEF Held

(* outboundQueueBytes of the client's queue is at all times the bytes that *)
(* wait and those in the socket, and never more than the limit: no         *)
(* overflow, compaction, failed send or late callback loses or repeats a   *)
(* length.                                                                 *)
THEOREM BytesAccountedFor == Spec => []Accounting
<1>1. Init => AccountingInv
  <2> SUFFICES ASSUME Init PROVE AccountingInv
    OBVIOUS
  <2>1. Waiting = <<>>
    BY DEF Init, Waiting
  <2>2. Bytes(Waiting) = 0 /\ BufferedAmount(inSocket) = 0 /\ outboundQueueBytes = 0
    BY <2>1, BytesEmpty DEF Init, BufferedAmount
  <2>3. Accounting
    BY <2>2, OutboundQueueAssumption DEF Accounting
  <2>4. OneSession
    BY <2>1 DEF Init, OneSession
  <2> QED
    BY <2>3, <2>4 DEF AccountingInv
<1>2. TypeOK /\ TypeOK' /\ SequenceInv /\ AccountingInv /\ [Next]_vars => AccountingInv'
  <2> SUFFICES ASSUME TypeOK, TypeOK', SequenceInv, AccountingInv, [Next]_vars,
                      copy' = "client"
               PROVE  /\ activeWs' \in {0, 1}
                      /\ \A i \in Sessions : i # 1 => ws'[i] = "none"
                      /\ activeWs' = 0 => Waiting' = <<>>
                      /\ outboundQueueBytes' = Held' /\ outboundQueueBytes' <= MaxQueueBytes
    BY DEF AccountingInv, OneSession, Accounting, Held
  <2> DEFINE Goal == /\ activeWs' \in {0, 1}
                     /\ \A i \in Sessions : i # 1 => ws'[i] = "none"
                     /\ activeWs' = 0 => Waiting' = <<>>
                     /\ outboundQueueBytes' = Held' /\ outboundQueueBytes' <= MaxQueueBytes
  <2>0. copy = "client"
    BY DEF Next, SendControl, ProducerData, SendAccepted, SendOverflows, SendSucceeds,
           SendFails, CallbackRuns, Connect, Shut, WsClosed, RunImmediate, RetryTimer,
           CheckDrain, vars
  <2>a. /\ activeWs \in {0, 1}
        /\ \A i \in Sessions : i # 1 => ws[i] = "none"
        /\ activeWs = 0 => Waiting = <<>>
        /\ outboundQueueBytes = Held /\ outboundQueueBytes <= MaxQueueBytes
    BY <2>0 DEF AccountingInv, OneSession, Accounting, Held
  <2>b. Held \in Nat /\ MaxQueueBytes \in Nat /\ 1 \in Sessions
    BY HeldNat, OutboundQueueAssumption DEF Held, Sessions
  <2>1. ASSUME NEW len \in Lengths, SendAccepted(len) PROVE Goal
    <3>1. Held' = Held + len /\ outboundQueueBytes' = outboundQueueBytes + len
      BY <2>0, <2>1, SendAccounts
    <3>2. outboundQueueBytes + len <= MaxQueueBytes
      <4>1. ~(outboundQueueBytes + len > MaxQueueBytes) /\ len \in Nat
        BY <2>1, OutboundQueueAssumption DEF SendAccepted, IsFull
      <4> QED
        BY <2>a, <2>b, <4>1
    <3>3. activeWs' = activeWs /\ activeWs # 0 /\ ws' = ws
      BY <2>1 DEF SendAccepted, IsReady
    <3> QED
      BY <2>a, <3>1, <3>2, <3>3
  <2>2. ASSUME NEW len \in Lengths, SendOverflows(len) PROVE Goal
    <3>1. /\ UNCHANGED <<activeWs, outboundQueue, outboundQueueHead, outboundQueueBytes, inSocket>>
          /\ ws' = Terminate(activeWs)
      BY <2>2 DEF SendOverflows, queueVars
    <3>2. Waiting' = Waiting
      BY <3>1 DEF Waiting
    <3>3. Held' = Held
      BY <3>1, <3>2, HeldUnchanged
    <3>4. activeWs = 1
      BY <2>2, <2>a DEF SendOverflows, IsReady
    <3>5. \A i \in Sessions : i # 1 => ws'[i] = ws[i]
      BY <3>1, <3>4 DEF Terminate, TypeOK
    <3> QED
      BY <2>a, <3>1, <3>2, <3>3, <3>5
  <2>3. ASSUME NEW k \in Sessions, SendSucceeds(k) \/ SendFails(k) PROVE Goal
    <3>1. CallbackRuns(k) /\ activeWs' = activeWs /\ k = 1
      BY <2>3, <2>a DEF SendSucceeds, SendFails, CallbackRuns
    <3>2. Waiting' = Waiting
      <4>1. CASE SendSucceeds(k)
        BY <4>1, WaitingCompacted DEF SendSucceeds
      <4>2. CASE SendFails(k)
        BY <4>2 DEF SendFails, Waiting
      <4> QED
        BY <2>3, <4>1, <4>2
    <3>3. \A i \in Sessions : i # 1 => ws'[i] = ws[i]
      BY <2>3, <2>a DEF SendSucceeds, SendFails, Terminate, IsReady, TypeOK
    <3>4. CASE activeWs = 1
      <4>1. outboundQueueBytes' = Held' /\ outboundQueueBytes' <= outboundQueueBytes
        BY <2>a, <3>1, <3>2, <3>4, CallbackAccounts
      <4>2. outboundQueueBytes' \in Nat /\ outboundQueueBytes \in Nat
        BY DEF TypeOK
      <4> QED
        BY <2>a, <2>b, <3>1, <3>2, <3>3, <4>1, <4>2
    <3>5. CASE activeWs = 0
      <4>1. Held = 0 /\ Held' = 0
        BY <2>a, <3>1, <3>2, <3>5, BytesEmpty DEF Held, BufferedAmount
      <4>2. outboundQueueBytes' = 0
        <5>1. Head(inSocket[k]).len \in Nat
          <6>1. inSocket[k] \in Seq(Chunks) /\ inSocket[k] # <<>>
            BY <3>1 DEF CallbackRuns, TypeOK
          <6>2. 1 \in 1 .. Len(inSocket[k]) /\ Head(inSocket[k]) = inSocket[k][1]
            BY <6>1
          <6> QED
            BY <6>1, <6>2, ChunkLength
        <5>2. outboundQueueBytes = 0
          BY <2>a, <4>1
        <5> QED
          BY <3>1, <5>1, <5>2 DEF CallbackRuns
      <4> QED
        BY <2>a, <2>b, <3>1, <3>2, <3>3, <3>5, <4>1, <4>2
    <3> QED
      BY <2>a, <3>4, <3>5
  <2>4. ASSUME NEW k \in Sessions, Connect(k) PROVE Goal
    <3>1. k = 1
      BY <2>0, <2>4 DEF Connect, Sessions
    <3>2. Reset /\ activeWs' = 1 /\ inSocket' = inSocket /\ ws[1] = "none"
      BY <2>4, <3>1 DEF Connect
    <3>3. inSocket[1] = <<>>
      BY <2>b, <3>2 DEF SequenceInv, Numbering
    <3>4. Waiting' = <<>> /\ Held' = 0 /\ outboundQueueBytes' = 0
      BY <3>2, <3>3, ResetAccounts
    <3>5. activeWs = 0
      BY <2>a, <3>2 DEF SequenceInv, Numbering
    <3>6. \A i \in Sessions : i # 1 => ws'[i] = ws[i]
      BY <2>4, <3>1, <3>5 DEF Connect, TypeOK
    <3> QED
      BY <2>a, <2>b, <3>2, <3>4, <3>6
  <2>5. ASSUME NEW k \in Sessions, Shut(k) PROVE Goal
    <3>1. UNCHANGED <<activeWs, outboundQueue, outboundQueueHead, outboundQueueBytes, inSocket>>
      BY <2>5 DEF Shut, queueVars
    <3>2. Waiting' = Waiting
      BY <3>1 DEF Waiting
    <3>3. Held' = Held
      BY <3>1, <3>2, HeldUnchanged
    <3>4. \A i \in Sessions : i # 1 => ws'[i] = ws[i]
      BY <2>5, <2>a DEF Shut, Terminate, TypeOK
    <3> QED
      BY <2>a, <3>1, <3>2, <3>3, <3>4
  <2>6. ASSUME NEW k \in Sessions, WsClosed(k) PROVE Goal
    <3>1. k = 1 /\ ws' = [ws EXCEPT ![k] = "closed"] /\ inSocket' = inSocket
      BY <2>6, <2>a DEF WsClosed
    <3>2. \A i \in Sessions : i # 1 => ws'[i] = ws[i]
      BY <3>1 DEF TypeOK
    <3>3. CASE activeWs = k
      <4>1. Reset /\ activeWs' = 0
        BY <2>6, <3>3 DEF WsClosed
      <4>2. Waiting' = <<>> /\ Held' = 0 /\ outboundQueueBytes' = 0
        BY <4>1, ResetAccounts
      <4> QED
        BY <2>a, <2>b, <3>2, <4>1, <4>2
    <3>4. CASE activeWs # k
      <4>1. UNCHANGED <<activeWs, outboundQueue, outboundQueueHead, outboundQueueBytes>>
        BY <2>6, <3>4 DEF WsClosed, queueVars
      <4>2. Waiting' = Waiting
        BY <4>1 DEF Waiting
      <4>3. Held' = Held
        BY <3>1, <4>1, <4>2, HeldUnchanged
      <4> QED
        BY <2>a, <3>2, <4>1, <4>2, <4>3
    <3> QED
      BY <3>3, <3>4
  <2>7. ASSUME RunImmediate \/ RetryTimer \/ CheckDrain PROVE Goal
    <3>1. PICK timer : Flush(outboundQueue, timer)
      BY <2>0, <2>7 DEF RunImmediate, RetryTimer, CheckDrain
    <3>2. UNCHANGED <<outboundQueue, activeWs, ws, outboundQueueBytes>>
      BY <2>7 DEF RunImmediate, RetryTimer, CheckDrain
    <3>3. /\ outboundQueue \in Seq(Chunks) /\ outboundQueueHead <= Len(outboundQueue)
          /\ Waiting = From(outboundQueue, outboundQueueHead) /\ Waiting \in Seq(Chunks)
      BY WaitingType DEF TypeOK, Waiting, From
    <3>4. Held' = Held
      BY <3>1, <3>2, <3>3, FlushKeepsBytes DEF Held
    <3>5. activeWs = 0 => Waiting' = Waiting
      BY <3>1, <3>2 DEF Flush, IsReady, Waiting
    <3> QED
      BY <2>a, <3>2, <3>4, <3>5
  <2>8. CASE UNCHANGED vars
    <3>1. UNCHANGED <<activeWs, ws, outboundQueue, outboundQueueHead, outboundQueueBytes, inSocket>>
      BY <2>8 DEF vars, queueVars
    <3>2. Waiting' = Waiting
      BY <3>1 DEF Waiting
    <3>3. Held' = Held
      BY <3>1, <3>2, HeldUnchanged
    <3> QED
      BY <2>a, <3>1, <3>2, <3>3
  <2>9. Goal
    <3>1. \/ \E len \in Lengths : SendAccepted(len) \/ SendOverflows(len)
          \/ \E k \in Sessions :
               SendSucceeds(k) \/ SendFails(k) \/ Connect(k) \/ Shut(k) \/ WsClosed(k)
          \/ RunImmediate \/ RetryTimer \/ CheckDrain
          \/ UNCHANGED vars
      BY DEF Next, SendControl, ProducerData
    <3> QED
      BY <3>1, <2>1, <2>2, <2>3, <2>4, <2>5, <2>6, <2>7, <2>8
  <2> QED
    BY <2>9
<1>3. AccountingInv => Accounting
  BY DEF AccountingInv, Accounting
<1> QED
  BY <1>1, <1>2, <1>3, TypeCorrect, SequenceKept, PTL DEF Spec
=============================================================================
