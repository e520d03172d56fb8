------------------------ MODULE ProxyFrontendProofs --------------------------
(***************************************************************************)
(* Proofs about HttpFraming and ProxyFrontend for every value of their     *)
(* constants: any list of header lines, any number of browsers, any limits *)
(***************************************************************************)
EXTENDS ProxyFrontend, FiniteSetTheorems, TLAPS

-----------------------------------------------------------------------------
(* The framing.                                                            *)

(* With no Transfer-Encoding, lengths that agree are one reading.          *)
LEMMA LengthsAgree ==
  ASSUME NEW headers \in Seq(HeaderLine), NEW strict \in BOOLEAN,
         ~Refused(headers, strict), Coded(headers) = {}
  PROVE  ~Ambiguous(headers)
  <1>1. \A i, j \in Sized(headers) : headers[i].length = headers[j].length
    BY DEF Refused, Invalid, InvalidLengths, Several
  <1>2. Readings(headers) = {<<"length", headers[i].length>> : i \in Sized(headers)}
    BY DEF Readings
  <1> QED
    BY <1>1, <1>2 DEF Ambiguous

(* In strict mode one list of codings is left, it ends in chunked, and no  *)
(* length stands beside it.                                                *)
LEMMA StrictCodings ==
  ASSUME NEW headers \in Seq(HeaderLine),
         ~Refused(headers, TRUE), Coded(headers) # {}
  PROVE  ~Ambiguous(headers)
  <1> DEFINE tokens == TransferEncoding(headers)
  <1>1. Sized(headers) = {}
    BY DEF Refused, Conflicting
  <1>2. ~InvalidCodings(headers, TRUE)
    BY DEF Refused, Invalid
  <1>3. PICK k : k \in Coded(headers)
    OBVIOUS
  <1>4. Coded(headers) = {k}
    BY <1>2, <1>3 DEF InvalidCodings, Several
  <1>5. k \in Nat
    BY <1>3 DEF Coded, Lines
  <1>6. Max(Coded(headers)) = k
    BY <1>4, <1>5 DEF Max
  <1>7. Filled(tokens) # {} /\ Chunked(tokens) = {Max(Filled(tokens))}
    BY <1>2 DEF InvalidCodings
  <1>8. tokens[Max(Filled(tokens))] = "chunked"
    BY <1>7 DEF Chunked
  <1>9. CodedReadings(tokens) = {<<"chunked", 0>>}
    BY <1>7, <1>8 DEF CodedReadings
  <1>10. Readings(headers) = {<<"chunked", 0>>}
    BY <1>1, <1>4, <1>6, <1>9 DEF Readings, TransferEncoding
  <1> QED
    BY <1>10 DEF Ambiguous

(* Whatever the header lines of a request: in strict mode parseHeaderFraming *)
(* lets none through whose end can be found at two places, and in the other  *)
(* mode shouldForceCloseForHttp closes the connection behind one.            *)
THEOREM FramingContained ==
  ASSUME NEW request, NEW c \in Configs, request.headers \in Seq(HeaderLine),
         ~Refused(request.headers, c.strict), Ambiguous(request.headers)
  PROVE  /\ ~c.strict
         /\ c.smart \/ c.force => ShouldForceClose(request.method, request.headers, c)
  <1>1. Coded(request.headers) # {}
    BY LengthsAgree DEF Configs
  <1>2. ~c.strict
    BY <1>1, StrictCodings DEF Configs
  <1> QED
    BY <1>1, <1>2 DEF ShouldForceClose

-----------------------------------------------------------------------------
(* The invariant.                                                          *)

States == {"none", "flowing", "ending", "destroyed", "closed"}

Types ==
  /\ config \in Configs
  /\ socket \in [Sockets -> States]
  /\ counted \in [Sockets -> BOOLEAN] /\ resolved \in [Sockets -> BOOLEAN]
  /\ registered \in [Sockets -> BOOLEAN] /\ accepted \in [Sockets -> BOOLEAN]
  /\ isolated \in [Sockets -> BOOLEAN] /\ ambiguous \in [Sockets -> BOOLEAN]
  /\ reply \in [Sockets -> Seq(Statuses)]
  /\ size \in [Sockets -> Sizes]
  /\ received \in [Sockets -> Nat]
  /\ forwarded \in [Sockets -> Nat]
  /\ tunnel \in {"open", "closing", "down"}

(* The sockets that hold a place, and those that never got one.            *)
Holding == {s \in Sockets : counted[s] /\ socket[s] # "closed"}

Slots ==
  /\ \A s \in Sockets : counted[s] => socket[s] # "none"
  /\ IsFiniteSet(Holding)
  /\ activeProxyConnections = Cardinality(Holding)

BodyOf(s) == received[s] - size[s] - HeaderEnd

(* As long as the socket of a request that was handed over is open it is   *)
(* FrameProtocol that listens to it; without a tunnel there is none.       *)
Body ==
  /\ \A s \in Sockets : accepted[s] =>
       /\ socket[s] # "none"
       /\ socket[s] = "flowing" =>
            /\ resolved[s] /\ registered[s]
            /\ forwarded[s] <= BodyOf(s)
            /\ tunnel = "open" => forwarded[s] = BodyOf(s)
  /\ tunnel = "down" => \A s \in Sockets : ~registered[s]

(* Nothing is forwarded before the header is complete.                     *)
Fresh == \A s \in Sockets : ~resolved[s] => forwarded[s] = 0

(* A socket that flows has had no answer yet.                              *)
Unanswered ==
  \A s \in Sockets : socket[s] \in {"none", "flowing"} => reply[s] = <<>>

LEMMA Constants ==
  /\ Sizes \subseteq Nat \ {0} /\ HeaderEnd \in Nat \ {0}
  /\ MaxBytes \in Nat /\ MAX_PROXY_HEADER_SIZE \in Nat
  BY ProxyFrontendAssumption

(* What a complete header leads to.                                        *)
Answers(s, n, request) ==
  \/ RefusedEarly(s, n, request) \/ NoId(s, n, request) \/ Connects(s, n, request)
  \/ Requested(s, n, request) \/ RefusedLate(s, n, request)

LEMMA AnswersResolve ==
  ASSUME NEW s, NEW n, NEW request, Answers(s, n, request)
  PROVE  /\ Resolves(s, n)
         /\ UNCHANGED <<config, counted, size, activeProxyConnections>>
         /\ \/ UNCHANGED <<socket, reply>>
            \/ \E status \in Statuses \ {"431"}, next \in {"ending", "destroyed"} :
                 Answer(s, status, next)
  BY DEF Answers, RefusedEarly, NoId, Connects, Requested, RefusedLate, Passes,
         Resolves, Forwards, Statuses

(* sendFrame takes the bytes as a whole or not at all, and opens no tunnel. *)
LEMMA SentOrNot ==
  ASSUME NEW s, NEW total, Sent(s, total)
  PROVE  /\ UNCHANGED forwarded \/ forwarded' = [forwarded EXCEPT ![s] = total]
         /\ tunnel # "down"
         /\ tunnel' = tunnel \/ tunnel' = "closing"
         /\ tunnel' = "open" => forwarded' = [forwarded EXCEPT ![s] = total]
  BY DEF Sent

LEMMA AnswersSend ==
  ASSUME NEW s, NEW n, NEW request, Answers(s, n, request)
  PROVE  \/ UNCHANGED <<tunnel, forwarded, registered, accepted>>
         \/ /\ registered' = [registered EXCEPT ![s] = TRUE]
            /\ \/ Sent(s, forwarded[s]) /\ UNCHANGED accepted
               \/ /\ Sent(s, ExtraData(s, n))
                  /\ accepted' = [accepted EXCEPT ![s] = TRUE]
                  /\ UNCHANGED <<socket, reply>>
  BY DEF Answers, RefusedEarly, NoId, Connects, Requested, RefusedLate, Forwards, verdict

LEMMA AnswersForward ==
  ASSUME Types, NEW s \in Sockets, NEW n, NEW request, Answers(s, n, request)
  PROVE  /\ UNCHANGED forwarded \/ forwarded' = [forwarded EXCEPT ![s] = ExtraData(s, n)]
         /\ UNCHANGED accepted \/ accepted' = [accepted EXCEPT ![s] = TRUE]
  <1>1. [forwarded EXCEPT ![s] = forwarded[s]] = forwarded
    BY DEF Types
  <1>2. UNCHANGED accepted \/ accepted' = [accepted EXCEPT ![s] = TRUE]
    BY AnswersSend
  <1>3. CASE UNCHANGED forwarded
    BY <1>2, <1>3
  <1>4. CASE Sent(s, forwarded[s])
    BY <1>1, <1>2, <1>4 DEF Sent
  <1>5. CASE Sent(s, ExtraData(s, n))
    BY <1>2, <1>5 DEF Sent
  <1> QED
    BY <1>3, <1>4, <1>5, AnswersSend

LEMMA TypesInit == Init => Types
  BY DEF Init, Types, States

LEMMA AnswerTyped ==
  ASSUME Types, NEW s \in Sockets, NEW status \in Statuses, NEW next \in States,
         Answer(s, status, next)
  PROVE  reply' \in [Sockets -> Seq(Statuses)] /\ socket' \in [Sockets -> States]
  <1>1. Append(reply[s], status) \in Seq(Statuses)
    BY DEF Types
  <1>2. reply' \in [Sockets -> Seq(Statuses)]
    BY <1>1 DEF Types, Answer
  <1>3. socket' \in [Sockets -> States]
    BY DEF Types, Answer
  <1> QED
    BY <1>2, <1>3

LEMMA OutcomeTyped ==
  ASSUME NEW request \in Outcomes
  PROVE  /\ request.isolated \in BOOLEAN /\ request.ambiguous \in BOOLEAN
         /\ \E r \in Requests, c \in Configs : request = Outcome(r, c)
  <1> PICK r \in Requests, c \in Configs : request = Outcome(r, c)
    BY DEF Outcomes
  <1> DEFINE http == r.method # "CONNECT"
  <1>1. request.isolated = (http /\ ShouldForceClose(r.method, r.headers, c))
    BY DEF Outcome
  <1>2. request.ambiguous = (http /\ Ambiguous(r.headers))
    BY DEF Outcome
  <1> QED
    BY <1>1, <1>2, Zenon

LEMMA TypesAnswer ==
  ASSUME Types, NEW s \in Sockets, NEW n \in 1 .. MaxBytes, NEW request \in Outcomes,
         Answers(s, n, request)
  PROVE  Types'
  <1>1. Resolves(s, n)
    BY AnswersResolve
  <1>2. reply' \in [Sockets -> Seq(Statuses)] /\ socket' \in [Sockets -> States]
    <2>1. CASE UNCHANGED <<socket, reply>>
      BY <2>1 DEF Types
    <2>2. CASE \E status \in Statuses \ {"431"}, next \in {"ending", "destroyed"} :
                 Answer(s, status, next)
      BY <2>2, AnswerTyped DEF States
    <2> QED
      BY <2>1, <2>2, AnswersResolve
  <1>3. received[s] \in Nat /\ size[s] \in Nat
    BY Constants DEF Types
  <1>4. /\ received' \in [Sockets -> Nat]
        /\ resolved' \in [Sockets -> BOOLEAN]
        /\ config' \in Configs /\ size' \in [Sockets -> Sizes]
        /\ counted' \in [Sockets -> BOOLEAN]
    BY <1>1, <1>3 DEF Resolves, Receives, Got, Types
  <1>5. ExtraData(s, n) \in Nat
    BY <1>1, <1>3, Constants DEF Resolves, ExtraData, Complete, Got
  <1>6. /\ \/ UNCHANGED forwarded
           \/ forwarded' = [forwarded EXCEPT ![s] = forwarded[s]]
           \/ forwarded' = [forwarded EXCEPT ![s] = ExtraData(s, n)]
        /\ tunnel' = tunnel \/ tunnel' = "closing"
    BY AnswersSend, SentOrNot
  <1>7. forwarded' \in [Sockets -> Nat] /\ tunnel' \in {"open", "closing", "down"}
    BY <1>5, <1>6 DEF Types
  <1>8. registered' \in [Sockets -> BOOLEAN] /\ accepted' \in [Sockets -> BOOLEAN]
    <2>1. /\ UNCHANGED registered \/ registered' = [registered EXCEPT ![s] = TRUE]
          /\ UNCHANGED accepted \/ accepted' = [accepted EXCEPT ![s] = TRUE]
      BY AnswersSend
    <2> QED
      BY <2>1 DEF Types
  <1>9. isolated' \in [Sockets -> BOOLEAN] /\ ambiguous' \in [Sockets -> BOOLEAN]
    <2>1. \/ UNCHANGED <<isolated, ambiguous>>
          \/ /\ isolated' = [isolated EXCEPT ![s] = request.isolated]
             /\ ambiguous' = [ambiguous EXCEPT ![s] = request.ambiguous]
      BY DEF Answers, RefusedEarly, NoId, Connects, Requested, RefusedLate, verdict
    <2>2. request.isolated \in BOOLEAN /\ request.ambiguous \in BOOLEAN
      BY OutcomeTyped
    <2> QED
      BY <2>1, <2>2 DEF Types
  <1> QED
    BY <1>2, <1>4, <1>7, <1>8, <1>9 DEF Types

(* The other actions, as a socket sees them.                               *)
Others(s) ==
  \/ Rejected(s) \/ Admitted(s)
  \/ \E n \in 1 .. MaxBytes :
       HeaderTooLarge(s, n) \/ HeaderContinues(s, n) \/ LaterData(s, n)
  \/ RunImmediate(s) \/ Ends(s) \/ HardTimeout(s) \/ Closed(s)

(* The moves of the tunnel.                                                *)
TunnelMoves == TunnelShuts \/ TunnelClosed \/ TunnelConnects

LEMMA Steps ==
  ASSUME Next
  PROVE  \/ \E s \in Sockets, n \in 1 .. MaxBytes, request \in Outcomes :
              request.config = config /\ Answers(s, n, request)
         \/ \E s \in Sockets : Others(s)
         \/ TunnelMoves
  BY DEF Next, Others, Answers, TunnelMoves

LEMMA Moves ==
  ASSUME Types, TunnelMoves
  PROVE  /\ UNCHANGED <<config, activeProxyConnections, counted, resolved, hardTimer>>
         /\ UNCHANGED <<reply, size, received, forwarded, accepted, isolated, ambiguous>>
         /\ tunnel' \in {"open", "closing", "down"}
         /\ \/ /\ UNCHANGED <<socket, registered>>
               /\ tunnel' = "open" => tunnel = "down"
               /\ tunnel' # "down"
            \/ DestroysRegistered
  BY DEF TunnelMoves, TunnelShuts, TunnelClosed, TunnelConnects, TunnelStep, verdict, Types

LEMMA TypesOthers ==
  ASSUME Types, NEW s \in Sockets, Others(s)
  PROVE  Types'
  <1> USE DEF verdict
  <1>1. CASE Rejected(s)
    BY <1>1, AnswerTyped DEF Rejected, Types, States, Statuses
  <1>2. CASE Admitted(s)
    BY <1>2 DEF Admitted, Types, States
  <1>3. ASSUME NEW n \in 1 .. MaxBytes
        PROVE  received[s] + n \in Nat /\ forwarded[s] + n \in Nat
    BY Constants DEF Types
  <1>4. CASE \E n \in 1 .. MaxBytes : HeaderTooLarge(s, n)
    <2> PICK n \in 1 .. MaxBytes : HeaderTooLarge(s, n)
      BY <1>4
    <2>1. reply' \in [Sockets -> Seq(Statuses)] /\ socket' \in [Sockets -> States]
      BY AnswerTyped DEF HeaderTooLarge, States, Statuses
    <2>2. received' \in [Sockets -> Nat]
      BY <1>3 DEF HeaderTooLarge, Receives, Got, Types
    <2> QED
      BY <2>1, <2>2 DEF HeaderTooLarge, Types
  <1>5. CASE \E n \in 1 .. MaxBytes : HeaderContinues(s, n)
    <2> PICK n \in 1 .. MaxBytes : HeaderContinues(s, n)
      BY <1>5
    <2>1. received' \in [Sockets -> Nat]
      BY <1>3 DEF HeaderContinues, Receives, Got, Types
    <2> QED
      BY <2>1 DEF HeaderContinues, TimerKept, Types
  <1>6. CASE \E n \in 1 .. MaxBytes : LaterData(s, n)
    <2> PICK n \in 1 .. MaxBytes : LaterData(s, n)
      BY <1>6
    <2>1. received' \in [Sockets -> Nat]
      BY <1>3 DEF LaterData, Got, Types
    <2>2. /\ forwarded' = forwarded \/ forwarded' = [forwarded EXCEPT ![s] = forwarded[s] + n]
          /\ tunnel' = tunnel \/ tunnel' = "closing"
      BY SentOrNot DEF LaterData
    <2>3. forwarded' \in [Sockets -> Nat] /\ tunnel' \in {"open", "closing", "down"}
      BY <1>3, <2>2 DEF Types
    <2> QED
      BY <2>1, <2>3 DEF LaterData, Types
  <1>7. CASE RunImmediate(s) \/ Ends(s)
    <2>1. socket' \in [Sockets -> States]
      BY <1>7 DEF RunImmediate, Ends, Destroys, Types, States
    <2> QED
      BY <1>7, <2>1 DEF RunImmediate, Ends, Destroys, Types
  <1>8. CASE HardTimeout(s)
    <2>1. reply' \in [Sockets -> Seq(Statuses)] /\ socket' \in [Sockets -> States]
      BY <1>8, AnswerTyped DEF HardTimeout, Types, States, Statuses
    <2> QED
      BY <1>8, <2>1 DEF HardTimeout, Types
  <1>9. CASE Closed(s)
    BY <1>9 DEF Closed, Types, States
  <1> QED
    BY <1>1, <1>2, <1>4, <1>5, <1>6, <1>7, <1>8, <1>9 DEF Others

LEMMA TypesNext ==
  ASSUME Types, [Next]_vars
  PROVE  Types'
  <1>1. CASE Next
    <2>1. CASE TunnelMoves
      BY <2>1, Moves DEF Types, States, DestroysRegistered
    <2> QED
      BY <1>1, <2>1, Steps, TypesAnswer, TypesOthers
  <1>2. CASE UNCHANGED vars
    BY <1>2 DEF vars, Types
  <1> QED
    BY <1>1, <1>2

-----------------------------------------------------------------------------
(* The limit on the header's size.                                         *)

(* An answer other than 431 adds no 431.                                   *)
LEMMA OtherAnswer ==
  ASSUME Types, NEW s \in Sockets, NEW status \in Statuses \ {"431"}, NEW next,
         Answer(s, status, next), NEW t \in Sockets, Contains(reply'[t], "431")
  PROVE  Contains(reply[t], "431")
  <1>1. CASE t = s
    <2>1. reply[s] \in Seq(Statuses) /\ reply'[s] = Append(reply[s], status)
      BY DEF Types, Answer
    <2> QED
      BY <1>1, <2>1 DEF Contains
  <1>2. CASE t # s
    BY <1>2 DEF Types, Answer
  <1> QED
    BY <1>1, <1>2

LEMMA SizeNext ==
  ASSUME Types, SizeExact, [Next]_vars
  PROVE  SizeExact'
  <1> SUFFICES ASSUME NEW t \in Sockets
               PROVE  /\ Contains(reply'[t], "431") =>
                           size'[t] + HeaderEnd > MAX_PROXY_HEADER_SIZE + 1
                      /\ resolved'[t] => size'[t] <= MAX_PROXY_HEADER_SIZE
    BY DEF SizeExact
  <1> USE DEF SizeExact, verdict
  <1>1. CASE \E s \in Sockets, n \in 1 .. MaxBytes, request \in Outcomes : Answers(s, n, request)
    <2> PICK s \in Sockets, n \in 1 .. MaxBytes, request \in Outcomes : Answers(s, n, request)
      BY <1>1
    <2>1. Contains(reply'[t], "431") => Contains(reply[t], "431")
      BY AnswersResolve, OtherAnswer
    <2>2. size[s] <= MAX_PROXY_HEADER_SIZE
      <3>1. size[s] \in Nat
        BY Constants DEF Types
      <3> QED
        BY <3>1, AnswersResolve, Constants DEF Resolves, TooLarge
    <2>3. resolved'[t] => resolved[t] \/ t = s
      BY AnswersResolve DEF Resolves, Types
    <2>4. size' = size
      BY AnswersResolve
    <2> QED
      BY <2>1, <2>2, <2>3, <2>4
  <1>2. CASE \E s \in Sockets, n \in 1 .. MaxBytes : HeaderTooLarge(s, n)
    <2> PICK s \in Sockets, n \in 1 .. MaxBytes : HeaderTooLarge(s, n)
      BY <1>2
    <2>1. size[s] + HeaderEnd > MAX_PROXY_HEADER_SIZE + 1
      <3>1. size[s] \in Nat /\ received[s] \in Nat /\ n \in Nat
        <4>1. size[s] \in Nat
          BY Constants DEF Types
        <4>2. received[s] \in Nat
          BY DEF Types
        <4>3. n \in Nat
          BY Constants
        <4> QED
          BY <4>1, <4>2, <4>3
      <3>2. TooLarge(s, n)
        BY DEF HeaderTooLarge
      <3>3. CASE Complete(s, n)
        BY <3>1, <3>2, <3>3, Constants DEF TooLarge
      <3>4. CASE ~Complete(s, n)
        BY <3>1, <3>2, <3>4, Constants DEF TooLarge, Complete, Got
      <3> QED
        BY <3>3, <3>4
    <2>2. t # s => reply'[t] = reply[t]
      BY DEF HeaderTooLarge, Answer, Types
    <2> QED
      BY <2>1, <2>2 DEF HeaderTooLarge
  <1>3. CASE \E s \in Sockets : Rejected(s) \/ HardTimeout(s)
    <2>1. Contains(reply'[t], "431") => Contains(reply[t], "431")
      BY <1>3, OtherAnswer DEF Rejected, HardTimeout, Statuses
    <2>2. UNCHANGED <<size, resolved>>
      BY <1>3 DEF Rejected, HardTimeout
    <2> QED
      BY <2>1, <2>2
  <1>4. CASE \/ \E s \in Sockets :
                  \/ Admitted(s) \/ RunImmediate(s) \/ Ends(s) \/ Closed(s)
                  \/ \E n \in 1 .. MaxBytes : HeaderContinues(s, n) \/ LaterData(s, n)
             \/ TunnelMoves \/ UNCHANGED vars
    <2>1. UNCHANGED <<reply, size, resolved>>
      BY <1>4, Moves DEF Admitted, RunImmediate, Ends, Destroys, Closed, HeaderContinues,
                  LaterData, vars
    <2> QED
      BY <2>1
  <1> QED
    BY <1>1, <1>2, <1>3, <1>4, Steps DEF Others

-----------------------------------------------------------------------------
(* The body.                                                               *)

LEMMA FreshNext ==
  ASSUME Types, Fresh, [Next]_vars
  PROVE  Fresh'
  <1>1. CASE \E s \in Sockets, n \in 1 .. MaxBytes, request \in Outcomes : Answers(s, n, request)
    <2> PICK s \in Sockets, n \in 1 .. MaxBytes, request \in Outcomes : Answers(s, n, request)
      BY <1>1
    <2>1. resolved' = [resolved EXCEPT ![s] = TRUE]
      BY AnswersResolve DEF Resolves
    <2>2. ASSUME NEW t \in Sockets, t # s
          PROVE  forwarded'[t] = forwarded[t]
      <3>1. \/ UNCHANGED forwarded
            \/ forwarded' = [forwarded EXCEPT ![s] = ExtraData(s, n)]
        BY AnswersForward
      <3> QED
        BY <2>2, <3>1 DEF Types
    <2> QED
      BY <2>1, <2>2 DEF Fresh, Types
  <1>2. CASE \E s \in Sockets, n \in 1 .. MaxBytes : LaterData(s, n)
    <2> PICK s \in Sockets, n \in 1 .. MaxBytes : LaterData(s, n)
      BY <1>2
    <2>1. resolved[s] /\ resolved' = resolved
      BY DEF LaterData
    <2>2. \A t \in Sockets : t # s => forwarded'[t] = forwarded[t]
      BY SentOrNot DEF LaterData, Types
    <2> QED
      BY <2>1, <2>2 DEF Fresh
  <1>3. CASE \/ \E s \in Sockets :
                  \/ Rejected(s) \/ Admitted(s)
                  \/ \E n \in 1 .. MaxBytes : HeaderTooLarge(s, n) \/ HeaderContinues(s, n)
                  \/ RunImmediate(s) \/ Ends(s) \/ HardTimeout(s) \/ Closed(s)
             \/ TunnelMoves \/ UNCHANGED vars
    <2>1. UNCHANGED <<resolved, forwarded>>
      BY <1>3, Moves DEF Rejected, Admitted, HeaderTooLarge, HeaderContinues, RunImmediate,
         Ends, Destroys, HardTimeout, Closed, vars
    <2> QED
      BY <2>1 DEF Fresh
  <1> QED
    BY <1>1, <1>2, <1>3, Steps DEF Others

LEMMA BodyAnswer ==
  ASSUME Types, Fresh, Body, NEW s \in Sockets, NEW n \in 1 .. MaxBytes,
         NEW request \in Outcomes, Answers(s, n, request)
  PROVE  Body'
  <1>1. /\ Resolves(s, n) /\ ~resolved[s] /\ socket[s] = "flowing"
        /\ received' = [received EXCEPT ![s] = Got(s, n)]
        /\ resolved' = [resolved EXCEPT ![s] = TRUE]
        /\ size' = size
    BY AnswersResolve DEF Resolves, Receives
  <1>2. ~accepted[s]
    BY <1>1 DEF Body
  <1>3. ASSUME NEW t \in Sockets, t # s
        PROVE  UNCHANGED <<socket[t], resolved[t], received[t], size[t]>>
    <2>1. UNCHANGED <<resolved[t], received[t], size[t]>>
      BY <1>1, <1>3 DEF Types
    <2>2. UNCHANGED socket[t]
      <3>1. CASE UNCHANGED <<socket, reply>>
        BY <3>1
      <3>2. CASE \E status \in Statuses \ {"431"}, next \in {"ending", "destroyed"} :
                   Answer(s, status, next)
        BY <1>3, <3>2 DEF Answer, Types
      <3> QED
        BY <3>1, <3>2, AnswersResolve
    <2> QED
      BY <2>1, <2>2
  <1>4. CASE UNCHANGED <<tunnel, forwarded, registered, accepted>>
    BY <1>2, <1>3, <1>4 DEF Body, BodyOf
  <1>5. CASE /\ registered' = [registered EXCEPT ![s] = TRUE]
             /\ Sent(s, forwarded[s]) /\ UNCHANGED accepted
    <2>1. UNCHANGED forwarded
      BY <1>5, SentOrNot DEF Types
    <2>2. tunnel' # "down" /\ (tunnel' = "open" => tunnel = "open")
      BY <1>5, SentOrNot
    <2>3. \A t \in Sockets : t # s => UNCHANGED registered[t]
      BY <1>5 DEF Types
    <2> QED
      BY <1>2, <1>3, <1>5, <2>1, <2>2, <2>3 DEF Body, BodyOf
  <1>6. CASE /\ registered' = [registered EXCEPT ![s] = TRUE]
             /\ Sent(s, ExtraData(s, n))
             /\ accepted' = [accepted EXCEPT ![s] = TRUE]
             /\ UNCHANGED <<socket, reply>>
    <2>1. tunnel' # "down" /\ (tunnel' = "open" => tunnel = "open")
      BY <1>6, SentOrNot
    <2>2. ASSUME NEW t \in Sockets, t # s
          PROVE  UNCHANGED <<registered[t], accepted[t], forwarded[t]>>
      <3>1. \/ UNCHANGED forwarded
            \/ forwarded' = [forwarded EXCEPT ![s] = ExtraData(s, n)]
        BY AnswersForward
      <3> QED
        BY <1>6, <2>2, <3>1 DEF Types
    <2>3. resolved'[s] /\ registered'[s] /\ socket'[s] = "flowing"
      BY <1>1, <1>6 DEF Types
    <2>4. BodyOf(s)' = ExtraData(s, n)
      BY <1>1 DEF BodyOf, ExtraData, Types
    <2>5. tunnel' = "open" => forwarded'[s] = ExtraData(s, n)
      BY <1>6, SentOrNot DEF Types
    <2>6. forwarded'[s] <= ExtraData(s, n)
      <3>1. ExtraData(s, n) \in Nat
        <4>1. received[s] \in Nat /\ size[s] \in Nat
          BY Constants DEF Types
        <4> QED
          BY <1>1, <4>1, Constants DEF Resolves, ExtraData, Complete, Got
      <3>2. forwarded'[s] \in {0, ExtraData(s, n)}
        <4>1. forwarded[s] = 0
          BY <1>1 DEF Fresh
        <4> QED
          BY <1>6, <4>1, SentOrNot DEF Types
      <3> QED
        BY <3>1, <3>2
    <2>7. ASSUME NEW t \in Sockets, t # s
          PROVE  BodyOf(t)' = BodyOf(t)
      BY <1>3, <2>7 DEF BodyOf
    <2>8. ASSUME NEW t \in Sockets, accepted'[t]
          PROVE  /\ socket'[t] # "none"
                 /\ socket'[t] = "flowing" =>
                      /\ resolved'[t] /\ registered'[t]
                      /\ forwarded'[t] <= BodyOf(t)'
                      /\ tunnel' = "open" => forwarded'[t] = BodyOf(t)'
      <3>1. CASE t = s
        BY <2>3, <2>4, <2>5, <2>6, <3>1
      <3>2. CASE t # s
        BY <1>3, <2>1, <2>2, <2>7, <2>8, <3>2 DEF Body
      <3> QED
        BY <3>1, <3>2
    <2> QED
      BY <2>1, <2>8 DEF Body
  <1> QED
    BY <1>4, <1>5, <1>6, AnswersSend

LEMMA BodyOthers ==
  ASSUME Types, Body, NEW s \in Sockets, Others(s)
  PROVE  Body'
  <1> USE DEF Body, BodyOf, Types, verdict
  <1>1. CASE Rejected(s) \/ Admitted(s) \/ HardTimeout(s)
    BY <1>1 DEF Rejected, Admitted, HardTimeout, Answer
  <1>2. CASE \E n \in 1 .. MaxBytes : HeaderTooLarge(s, n) \/ HeaderContinues(s, n)
    BY <1>2 DEF HeaderTooLarge, HeaderContinues, Receives, Answer
  <1>3. CASE \E n \in 1 .. MaxBytes : LaterData(s, n)
    <2> PICK n \in 1 .. MaxBytes : LaterData(s, n)
      BY <1>3
    <2>1. /\ received[s] \in Int /\ forwarded[s] \in Int /\ size[s] \in Int
          /\ HeaderEnd \in Int /\ n \in Nat
      <3>1. received[s] \in Nat /\ forwarded[s] \in Nat
        OBVIOUS
      <3>2. size[s] \in Nat
        BY Constants
      <3>3. n \in Nat /\ HeaderEnd \in Int
        BY Constants
      <3> QED
        BY <3>1, <3>2, <3>3
    <2>2. /\ UNCHANGED <<socket, resolved, registered, size, accepted>>
          /\ received' = [received EXCEPT ![s] = received[s] + n]
      BY DEF LaterData, Got
    <2>3. /\ tunnel' = "open" => tunnel = "open"
          /\ tunnel' = "down" => tunnel = "down"
          /\ UNCHANGED forwarded \/ forwarded' = [forwarded EXCEPT ![s] = forwarded[s] + n]
          /\ registered[s] /\ tunnel' = "open" =>
               forwarded' = [forwarded EXCEPT ![s] = forwarded[s] + n]
      BY SentOrNot DEF LaterData
    <2>4. ASSUME accepted[s], socket[s] = "flowing"
          PROVE  /\ forwarded'[s] <= received'[s] - size[s] - HeaderEnd
                 /\ tunnel' = "open" => forwarded'[s] = received'[s] - size[s] - HeaderEnd
      <3>1. /\ received'[s] = received[s] + n
            /\ forwarded'[s] \in {forwarded[s], forwarded[s] + n}
            /\ tunnel' = "open" => forwarded'[s] = forwarded[s] + n
        BY <2>2, <2>3, <2>4
      <3>2. /\ forwarded[s] <= received[s] - size[s] - HeaderEnd
            /\ tunnel = "open" => forwarded[s] = received[s] - size[s] - HeaderEnd
        BY <2>4
      <3> HIDE DEF Body, BodyOf, Types
      <3> QED
        BY <2>1, <2>3, <3>1, <3>2
    <2>5. ASSUME NEW t \in Sockets, t # s
          PROVE  UNCHANGED <<forwarded[t], received[t]>>
      BY <2>2, <2>3, <2>5
    <2>6. ASSUME NEW t \in Sockets, accepted'[t]
          PROVE  /\ socket'[t] # "none"
                 /\ socket'[t] = "flowing" =>
                      /\ resolved'[t] /\ registered'[t]
                      /\ forwarded'[t] <= received'[t] - size'[t] - HeaderEnd
                      /\ tunnel' = "open" =>
                           forwarded'[t] = received'[t] - size'[t] - HeaderEnd
      BY <2>2, <2>3, <2>4, <2>5, <2>6
    <2> QED
      BY <2>2, <2>3, <2>6
  <1>4. CASE RunImmediate(s) \/ Ends(s) \/ Closed(s)
    <2>1. UNCHANGED <<tunnel, resolved, size, received, forwarded, accepted>>
      BY <1>4 DEF RunImmediate, Ends, Destroys, Closed
    <2>2. ASSUME NEW t \in Sockets
          PROVE  \/ UNCHANGED <<socket[t], registered[t]>>
                 \/ /\ socket'[t] \in {"destroyed", "closed"}
                    /\ registered'[t] => registered[t]
      BY <1>4, <2>2 DEF RunImmediate, Ends, Destroys, Closed
    <2> QED
      BY <2>1, <2>2
  <1> QED
    BY <1>1, <1>2, <1>3, <1>4 DEF Others

LEMMA BodyNext ==
  ASSUME Types, Fresh, Body, [Next]_vars
  PROVE  Body'
  <1>1. CASE TunnelMoves
    <2>1. UNCHANGED <<resolved, size, received, forwarded, accepted>>
      BY <1>1, Moves
    <2>2. CASE DestroysRegistered
      BY <2>1, <2>2 DEF DestroysRegistered, Body, BodyOf, Types
    <2>3. CASE /\ UNCHANGED <<socket, registered>>
               /\ tunnel' = "open" => tunnel = "down"
               /\ tunnel' # "down"
      BY <2>1, <2>3 DEF Body, BodyOf
    <2> QED
      BY <1>1, <2>2, <2>3, Moves
  <1>2. CASE UNCHANGED vars
    BY <1>2 DEF vars, Body, BodyOf
  <1> QED
    BY <1>1, <1>2, Steps, BodyAnswer, BodyOthers

-----------------------------------------------------------------------------
(* The places.                                                             *)

(* No place is taken or given back while no socket is admitted or closed.  *)
LEMMA SameHolding ==
  ASSUME Slots, UNCHANGED <<activeProxyConnections, counted>>,
         \A s \in Sockets : \/ socket'[s] = socket[s]
                            \/ /\ socket[s] # "closed" \/ ~counted[s]
                               /\ socket'[s] \notin {"none", "closed"}
  PROVE  Slots'
  <1>1. Holding' = Holding
    BY DEF Holding
  <1>2. \A s \in Sockets : counted'[s] => socket'[s] # "none"
    BY DEF Slots
  <1> QED
    BY <1>1, <1>2 DEF Slots

LEMMA SlotsAdmitted ==
  ASSUME Types, Slots, NEW s \in Sockets, Admitted(s)
  PROVE  Slots'
  <1>1. s \notin Holding
    BY DEF Slots, Holding, Admitted
  <1>2. Holding' = Holding \cup {s}
    BY DEF Holding, Admitted, Types
  <1>3. /\ IsFiniteSet(Holding \cup {s})
        /\ Cardinality(Holding \cup {s}) = Cardinality(Holding) + 1
    BY <1>1, FS_AddElement DEF Slots
  <1>4. \A t \in Sockets : counted'[t] => socket'[t] # "none"
    BY DEF Slots, Admitted, Types
  <1> QED
    BY <1>2, <1>3, <1>4 DEF Slots, Admitted

LEMMA SlotsClosed ==
  ASSUME Types, Slots, NEW s \in Sockets, Closed(s)
  PROVE  Slots'
  <1>1. \A t \in Sockets : counted'[t] => socket'[t] # "none"
    BY DEF Slots, Closed, Types
  <1>2. CASE counted[s]
    <2>1. s \in Holding
      BY <1>2 DEF Holding, Closed
    <2>2. Holding' = Holding \ {s}
      BY DEF Holding, Closed, Types
    <2>3. /\ IsFiniteSet(Holding \ {s})
          /\ Cardinality(Holding \ {s}) = Cardinality(Holding) - 1
      BY <2>1, FS_RemoveElement DEF Slots
    <2> QED
      BY <1>1, <1>2, <2>2, <2>3 DEF Slots, Closed, GivenBack
  <1>3. CASE ~counted[s]
    <2>1. Holding' = Holding
      BY <1>3 DEF Holding, Closed, Types
    <2>2. Cardinality(Holding) \in Nat
      BY FS_CardinalityType DEF Slots
    <2> QED
      BY <1>1, <1>3, <2>1, <2>2 DEF Slots, Closed, GivenBack
  <1> QED
    BY <1>2, <1>3

LEMMA SlotsNext ==
  ASSUME Types, Slots, [Next]_vars
  PROVE  Slots'
  <1> USE DEF Types, verdict
  <1>1. CASE \E s \in Sockets, n \in 1 .. MaxBytes, request \in Outcomes : Answers(s, n, request)
    <2> PICK s \in Sockets, n \in 1 .. MaxBytes, request \in Outcomes : Answers(s, n, request)
      BY <1>1
    <2>1. socket[s] = "flowing"
      BY AnswersResolve DEF Resolves, Receives
    <2>2. \A t \in Sockets : \/ socket'[t] = socket[t]
                             \/ t = s /\ socket'[t] \in {"ending", "destroyed"}
      <3>1. CASE UNCHANGED <<socket, reply>>
        BY <3>1
      <3>2. CASE \E status \in Statuses \ {"431"}, next \in {"ending", "destroyed"} :
                   Answer(s, status, next)
        BY <3>2 DEF Answer
      <3> QED
        BY <3>1, <3>2, AnswersResolve
    <2> QED
      BY <2>1, <2>2, AnswersResolve, SameHolding
  <1>2. CASE \E s \in Sockets : Rejected(s)
    <2> PICK s \in Sockets : Rejected(s)
      BY <1>2
    <2>1. ~counted[s]
      BY DEF Slots, Rejected
    <2> QED
      BY <2>1, SameHolding DEF Rejected, Answer
  <1>3. CASE \E s \in Sockets :
               \/ RunImmediate(s) \/ Ends(s) \/ HardTimeout(s)
               \/ \E n \in 1 .. MaxBytes :
                    HeaderTooLarge(s, n) \/ HeaderContinues(s, n) \/ LaterData(s, n)
    <2> PICK s \in Sockets :
               \/ RunImmediate(s) \/ Ends(s) \/ HardTimeout(s)
               \/ \E n \in 1 .. MaxBytes :
                    HeaderTooLarge(s, n) \/ HeaderContinues(s, n) \/ LaterData(s, n)
      BY <1>3
    <2>1. UNCHANGED <<activeProxyConnections, counted>>
      BY DEF RunImmediate, Ends, Destroys, HardTimeout, HeaderTooLarge, HeaderContinues,
             LaterData
    <2>2. \/ UNCHANGED socket
          \/ /\ socket[s] \in {"flowing", "ending"}
             /\ socket' = [socket EXCEPT ![s] = "destroyed"]
      BY DEF RunImmediate, Ends, Destroys, HardTimeout, HeaderTooLarge, HeaderContinues,
             LaterData, Receives, Answer
    <2>3. \A t \in Sockets : \/ socket'[t] = socket[t]
                             \/ socket[t] # "closed" /\ socket'[t] = "destroyed"
      BY <2>2
    <2> QED
      BY <2>1, <2>3, SameHolding
  <1>4. CASE TunnelMoves
    <2>1. UNCHANGED <<activeProxyConnections, counted>>
      BY <1>4, Moves
    <2>2. \A t \in Sockets : \/ socket'[t] = socket[t]
                             \/ socket[t] # "closed" /\ socket'[t] = "destroyed"
      BY <1>4, Moves DEF DestroysRegistered
    <2> QED
      BY <2>1, <2>2, SameHolding
  <1>5. CASE UNCHANGED vars
    BY <1>5, SameHolding DEF vars
  <1> QED
    BY <1>1, <1>2, <1>3, <1>4, <1>5, Steps, SlotsAdmitted, SlotsClosed DEF Others

-----------------------------------------------------------------------------
(* The answers.                                                            *)

(* The answer to a socket that has none leaves it with that one, and not   *)
(* flowing.                                                                *)
LEMMA FirstAnswer ==
  ASSUME Types, Unanswered, OneAnswer, NEW s \in Sockets, NEW status \in Statuses,
         NEW next \in {"ending", "destroyed"}, Answer(s, status, next),
         socket[s] \in {"none", "flowing"}, ~accepted[s], UNCHANGED accepted
  PROVE  Unanswered' /\ OneAnswer'
  <1>1. reply[s] = <<>>
    BY DEF Unanswered
  <1>2. reply'[s] = <<status>>
    BY <1>1 DEF Answer, Types
  <1>3. Len(reply'[s]) <= 1 /\ socket'[s] = next
    <2>1. Len(<<status>>) = 1
      OBVIOUS
    <2>2. socket'[s] = next
      BY DEF Answer, Types
    <2> QED
      BY <1>2, <2>1, <2>2
  <1>4. \A t \in Sockets : t # s => UNCHANGED <<reply[t], socket[t]>>
    BY DEF Answer, Types
  <1>5. Unanswered'
    BY <1>3, <1>4 DEF Unanswered
  <1>6. OneAnswer'
    BY <1>3, <1>4 DEF OneAnswer
  <1> QED
    BY <1>5, <1>6

LEMMA AnsweredNext ==
  ASSUME Types, Body, Unanswered, OneAnswer, [Next]_vars
  PROVE  Unanswered' /\ OneAnswer'
  <1> USE DEF verdict
  <1>1. CASE \E s \in Sockets, n \in 1 .. MaxBytes, request \in Outcomes : Answers(s, n, request)
    <2> PICK s \in Sockets, n \in 1 .. MaxBytes, request \in Outcomes : Answers(s, n, request)
      BY <1>1
    <2>1. socket[s] = "flowing" /\ ~accepted[s]
      BY AnswersResolve DEF Resolves, Receives, Body
    <2>2. CASE UNCHANGED <<socket, reply>>
      <3>1. ASSUME NEW t \in Sockets, accepted'[t]
            PROVE  accepted[t] \/ t = s
        <4>1. UNCHANGED accepted \/ accepted' = [accepted EXCEPT ![s] = TRUE]
          BY AnswersForward
        <4> QED
          BY <3>1, <4>1 DEF Types
      <3>2. reply[s] = <<>>
        BY <2>1 DEF Unanswered
      <3> QED
        BY <2>2, <3>1, <3>2 DEF Unanswered, OneAnswer
    <2>3. CASE ~UNCHANGED <<socket, reply>>
      <3>1. UNCHANGED accepted
        BY <2>3, AnswersSend
      <3> QED
        BY <2>1, <2>3, <3>1, AnswersResolve, FirstAnswer
    <2> QED
      BY <2>2, <2>3
  <1>2. CASE \E s \in Sockets : Rejected(s)
    <2> PICK s \in Sockets : Rejected(s)
      BY <1>2
    <2>1. socket[s] = "none" /\ ~accepted[s]
      BY DEF Rejected, Body
    <2> QED
      BY <2>1, FirstAnswer DEF Rejected, Statuses
  <1>3. CASE \E s \in Sockets, n \in 1 .. MaxBytes : HeaderTooLarge(s, n)
    <2> PICK s \in Sockets, n \in 1 .. MaxBytes : HeaderTooLarge(s, n)
      BY <1>3
    <2>1. socket[s] = "flowing" /\ ~accepted[s]
      BY DEF HeaderTooLarge, Receives, Body
    <2> QED
      BY <2>1, FirstAnswer DEF HeaderTooLarge, Statuses
  <1>4. CASE \E s \in Sockets : HardTimeout(s)
    <2> PICK s \in Sockets : HardTimeout(s)
      BY <1>4
    <2>1. CASE ~resolved[s] /\ socket[s] = "flowing"
      <3>1. ~accepted[s]
        BY <2>1 DEF Body
      <3> QED
        BY <2>1, <3>1, FirstAnswer DEF HardTimeout, Statuses
    <2>2. CASE ~(~resolved[s] /\ socket[s] = "flowing")
      BY <2>2 DEF HardTimeout, Unanswered, OneAnswer
    <2> QED
      BY <2>1, <2>2
  <1>5. CASE \/ \E s \in Sockets :
                  \/ Admitted(s) \/ RunImmediate(s) \/ Ends(s) \/ Closed(s)
                  \/ \E n \in 1 .. MaxBytes : HeaderContinues(s, n) \/ LaterData(s, n)
             \/ TunnelMoves \/ UNCHANGED vars
    <2>1. UNCHANGED <<reply, accepted>>
      BY <1>5, Moves DEF Admitted, RunImmediate, Ends, Destroys, Closed, HeaderContinues,
                  LaterData, vars
    <2>2. \A t \in Sockets :
            socket'[t] \in {"none", "flowing"} => socket[t] \in {"none", "flowing"}
      BY <1>5, Moves DEF Admitted, RunImmediate, Ends, Destroys, Closed, HeaderContinues,
                  LaterData, DestroysRegistered, vars, Types
    <2> QED
      BY <2>1, <2>2 DEF Unanswered, OneAnswer
  <1> QED
    BY <1>1, <1>2, <1>3, <1>4, <1>5, Steps DEF Others

-----------------------------------------------------------------------------
(* What was forwarded.                                                     *)
LEMMA AmbiguityNext ==
  ASSUME Types, FirstRequestContained, [Next]_vars
  PROVE  FirstRequestContained'
  <1>1. CASE \E s \in Sockets, n \in 1 .. MaxBytes, request \in Outcomes :
               request.config = config /\ Requested(s, n, request)
    <2> PICK s \in Sockets, n \in 1 .. MaxBytes, request \in Outcomes :
               request.config = config /\ Requested(s, n, request)
      BY <1>1
    <2> PICK r \in Requests, c \in Configs : request = Outcome(r, c)
      BY OutcomeTyped
    <2>1. /\ request.config = c
          /\ request.ambiguous => Ambiguous(r.headers) /\ r.method # "CONNECT"
          /\ r.method # "CONNECT" /\ ~request.refused => ~Refused(r.headers, c.strict)
          /\ r.method # "CONNECT" /\ ShouldForceClose(r.method, r.headers, c) =>
               request.isolated
      BY DEF Outcome
    <2>2. r.headers \in Seq(HeaderLine)
      BY ProxyFrontendAssumption
    <2>3. request.ambiguous => ~c.strict /\ (c.smart \/ c.force => request.isolated)
      BY <2>1, <2>2, FramingContained DEF Requested
    <2>4. UNCHANGED config /\ config = c
      BY <2>1 DEF Requested, Passes, Resolves
    <2> QED
      BY <2>3, <2>4 DEF Requested, FirstRequestContained, Types
  <1>2. CASE ~\E s \in Sockets, n \in 1 .. MaxBytes, request \in Outcomes :
               request.config = config /\ Requested(s, n, request)
    <2>1. UNCHANGED <<config, isolated, ambiguous>>
      BY <1>2, Steps, Moves DEF Answers, Others, RefusedEarly, NoId, Connects, RefusedLate,
         Passes, Resolves, Rejected, Admitted, HeaderTooLarge, HeaderContinues, LaterData,
         RunImmediate, Ends, Destroys, HardTimeout, Closed, vars, verdict
    <2> QED
      BY <2>1 DEF FirstRequestContained
  <1> QED
    BY <1>1, <1>2

-----------------------------------------------------------------------------
(* The rest of the types: no more is forwarded than was received, and no   *)
(* more places are taken than there are.                                   *)
Bounds ==
  /\ hardTimer \in [Sockets -> BOOLEAN]
  /\ activeProxyConnections <= MAX_CONCURRENT_PROXY_CONNECTIONS
  /\ \A s \in Sockets : forwarded[s] <= received[s] /\ received[s] <= MaxBytes

LEMMA BoundsInit == Init => Bounds
  BY ProxyFrontendAssumption DEF Init, Bounds

(* The bytes of a socket that gets n more.                                 *)
LEMMA BytesBounded ==
  ASSUME Types, Bounds, NEW s \in Sockets, NEW n \in 1 .. MaxBytes,
         Got(s, n) <= MaxBytes,
         received' = [received EXCEPT ![s] = Got(s, n)],
         \/ UNCHANGED forwarded
         \/ forwarded' = [forwarded EXCEPT ![s] = forwarded[s] + n]
         \/ forwarded' = [forwarded EXCEPT ![s] = ExtraData(s, n)]
  PROVE  \A t \in Sockets : forwarded'[t] <= received'[t] /\ received'[t] <= MaxBytes
  <1>1. \A t \in Sockets \ {s} : forwarded'[t] = forwarded[t] /\ received'[t] = received[t]
    BY DEF Types
  <1>2. received'[s] = received[s] + n
    BY DEF Types, Got
  <1>3. /\ received[s] \in Nat /\ forwarded[s] \in Nat /\ n \in Nat
        /\ forwarded[s] <= received[s] /\ MaxBytes \in Nat
    BY Constants DEF Types, Bounds
  <1>4. size[s] \in Nat /\ HeaderEnd \in Nat
    BY Constants DEF Types
  <1>5. forwarded'[s] \in {forwarded[s], forwarded[s] + n, ExtraData(s, n)}
    BY DEF Types
  <1>6. ExtraData(s, n) <= received[s] + n
    BY <1>3, <1>4 DEF ExtraData, Got
  <1>7. forwarded'[s] <= received'[s]
    BY <1>2, <1>3, <1>5, <1>6
  <1>8. received'[s] <= MaxBytes
    BY <1>2 DEF Got
  <1> QED
    BY <1>1, <1>7, <1>8 DEF Bounds

LEMMA BoundsNext ==
  ASSUME Types, Types', Slots, Slots', Bounds, [Next]_vars
  PROVE  Bounds'
  <1> USE DEF verdict
  <1>0. MAX_CONCURRENT_PROXY_CONNECTIONS \in Nat
    BY ProxyFrontendAssumption
  <1>1. CASE \E s \in Sockets, n \in 1 .. MaxBytes, request \in Outcomes : Answers(s, n, request)
    <2> PICK s \in Sockets, n \in 1 .. MaxBytes, request \in Outcomes : Answers(s, n, request)
      BY <1>1
    <2>1. /\ Got(s, n) <= MaxBytes
          /\ received' = [received EXCEPT ![s] = Got(s, n)]
          /\ hardTimer' = [hardTimer EXCEPT ![s] = FALSE]
          /\ UNCHANGED activeProxyConnections
      BY AnswersResolve DEF Resolves, Receives
    <2>2. UNCHANGED forwarded \/ forwarded' = [forwarded EXCEPT ![s] = ExtraData(s, n)]
      BY AnswersForward
    <2>3. \A t \in Sockets : forwarded'[t] <= received'[t] /\ received'[t] <= MaxBytes
      BY <2>1, <2>2, BytesBounded
    <2> QED
      BY <2>1, <2>3 DEF Bounds
  <1>2. CASE \E s \in Sockets, n \in 1 .. MaxBytes :
               HeaderTooLarge(s, n) \/ HeaderContinues(s, n) \/ LaterData(s, n)
    <2> PICK s \in Sockets, n \in 1 .. MaxBytes :
               HeaderTooLarge(s, n) \/ HeaderContinues(s, n) \/ LaterData(s, n)
      BY <1>2
    <2>1. /\ Got(s, n) <= MaxBytes
          /\ received' = [received EXCEPT ![s] = Got(s, n)]
          /\ \/ UNCHANGED forwarded
             \/ forwarded' = [forwarded EXCEPT ![s] = forwarded[s] + n]
          /\ UNCHANGED <<hardTimer, activeProxyConnections>>
      BY SentOrNot DEF HeaderTooLarge, HeaderContinues, LaterData, Receives, TimerKept
    <2>2. \A t \in Sockets : forwarded'[t] <= received'[t] /\ received'[t] <= MaxBytes
      BY <2>1, BytesBounded
    <2> QED
      BY <2>1, <2>2 DEF Bounds
  <1>3. CASE \E s \in Sockets : Admitted(s)
    <2> PICK s \in Sockets : Admitted(s)
      BY <1>3
    <2>1. activeProxyConnections' <= MAX_CONCURRENT_PROXY_CONNECTIONS
      <3>1. activeProxyConnections \in Nat
        BY FS_CardinalityType DEF Slots
      <3>2. activeProxyConnections' = activeProxyConnections + 1
        BY DEF Admitted
      <3>3. ~(activeProxyConnections >= MAX_CONCURRENT_PROXY_CONNECTIONS)
        BY DEF Admitted, Full
      <3> QED
        BY <1>0, <3>1, <3>2, <3>3
    <2> QED
      BY <2>1 DEF Admitted, Bounds
  <1>4. CASE \E s \in Sockets : Closed(s)
    <2> PICK s \in Sockets : Closed(s)
      BY <1>4
    <2>1. activeProxyConnections' <= MAX_CONCURRENT_PROXY_CONNECTIONS
      <3>1. activeProxyConnections \in Nat
        BY FS_CardinalityType DEF Slots
      <3>2. activeProxyConnections <= MAX_CONCURRENT_PROXY_CONNECTIONS
        BY DEF Bounds
      <3>3. \/ activeProxyConnections' = activeProxyConnections - 1
            \/ activeProxyConnections' = activeProxyConnections - 0
        BY DEF Closed, GivenBack
      <3> QED
        BY <1>0, <3>1, <3>2, <3>3
    <2> QED
      BY <2>1 DEF Closed, Bounds
  <1>5. CASE \E s \in Sockets : Rejected(s) \/ RunImmediate(s) \/ Ends(s) \/ HardTimeout(s)
    <2>1. UNCHANGED <<activeProxyConnections, received, forwarded>>
      BY <1>5 DEF Rejected, RunImmediate, Ends, Destroys, HardTimeout
    <2>2. hardTimer' \in [Sockets -> BOOLEAN]
      BY <1>5 DEF Rejected, RunImmediate, Ends, Destroys, HardTimeout, Bounds
    <2> QED
      BY <2>1, <2>2 DEF Bounds
  <1>6. CASE TunnelMoves \/ UNCHANGED vars
    BY <1>6, Moves DEF vars, Bounds
  <1> QED
    BY <1>1, <1>2, <1>3, <1>4, <1>5, <1>6, Steps DEF Others

-----------------------------------------------------------------------------
IInv ==
  /\ Types /\ Bounds /\ Slots /\ SizeExact
  /\ Fresh /\ Body
  /\ Unanswered /\ OneAnswer
  /\ FirstRequestContained

LEMMA IInvInit == Init => IInv
  <1> SUFFICES ASSUME Init PROVE IInv
    OBVIOUS
  <1>1. Holding = {}
    BY DEF Init, Holding
  <1>2. Slots
    BY <1>1, FS_EmptySet DEF Init, Slots
  <1>3. SizeExact /\ Fresh /\ Body /\ Unanswered /\ OneAnswer /\ FirstRequestContained
    BY DEF Init, SizeExact, Fresh, Body, Unanswered, OneAnswer, FirstRequestContained,
           Contains
  <1> QED
    BY <1>2, <1>3, TypesInit, BoundsInit DEF IInv

LEMMA IInvNext == IInv /\ [Next]_vars => IInv'
  BY TypesNext, SlotsNext, SizeNext, FreshNext, BodyNext, AnsweredNext, AmbiguityNext,
     BoundsNext DEF IInv

LEMMA Invariant == Spec => []IInv
  BY IInvInit, IInvNext, PTL DEF Spec

(* Type correctness, which says also that the limit on connections is kept *)
(* and that no more of a body is forwarded than the browser has sent.      *)
THEOREM TypeCorrect == Spec => []TypeOK
  <1>1. ASSUME IInv PROVE TypeOK
    <2> USE <1>1
    <2>1. Types /\ Slots /\ Bounds
      BY DEF IInv
    <2>2. activeProxyConnections \in 0 .. MAX_CONCURRENT_PROXY_CONNECTIONS
      <3>1. activeProxyConnections \in Nat
        BY <2>1, FS_CardinalityType DEF Slots
      <3>2. activeProxyConnections <= MAX_CONCURRENT_PROXY_CONNECTIONS
        BY <2>1 DEF Bounds
      <3>3. MAX_CONCURRENT_PROXY_CONNECTIONS \in Nat
        BY ProxyFrontendAssumption
      <3> QED
        BY <3>1, <3>2, <3>3
    <2>3. ASSUME NEW s \in Sockets
          PROVE  received[s] \in 0 .. MaxBytes /\ forwarded[s] \in 0 .. MaxBytes
      <3>1. received[s] \in Nat /\ forwarded[s] \in Nat
        BY <2>1 DEF Types
      <3>2. forwarded[s] <= received[s] /\ received[s] <= MaxBytes
        BY <2>1 DEF Bounds
      <3> QED
        BY <3>1, <3>2, Constants
    <2>4. received \in [Sockets -> 0 .. MaxBytes]
      BY <2>1, <2>3 DEF Types
    <2>5. forwarded \in [Sockets -> 0 .. MaxBytes]
      BY <2>1, <2>3 DEF Types
    <2>6. {counted, resolved, hardTimer, registered, accepted, isolated, ambiguous}
            \subseteq [Sockets -> BOOLEAN]
      BY <2>1, Zenon DEF Types, Bounds
    <2>7. /\ config \in Configs /\ size \in [Sockets -> Sizes]
          /\ tunnel \in {"open", "closing", "down"}
      BY <2>1, Zenon DEF Types, Bounds
    <2>8. socket \in [Sockets -> {"none", "flowing", "ending", "destroyed", "closed"}]
      BY <2>1, Zenon DEF Types, States
    <2>9. reply \in [Sockets -> Seq(Statuses)]
      BY <2>1, Zenon DEF Types
    <2> QED
      BY <2>2, <2>4, <2>5, <2>6, <2>7, <2>8, <2>9, Zenon DEF TypeOK
  <1> QED
    BY <1>1, Invariant, PTL

(* The count of proxyServer.js is the number of sockets that hold a place, *)
(* for any number of browsers and any limit.                               *)
THEOREM PlacesCounted == Spec => []SlotsExact
  <1>1. IInv => SlotsExact
    BY DEF IInv, Slots, SlotsExact, Holding
  <1> QED
    BY <1>1, Invariant, PTL

(* onData lets no header above MAX_PROXY_HEADER_SIZE through and refuses   *)
(* none that fits with its empty line, for any header in any pieces.  In   *)
(* the margin of HeaderEnd - 1 sizes below the limit it may do either.     *)
THEOREM SizeLimited == Spec => []SizeExact
  <1>1. IInv => SizeExact
    BY DEF IInv
  <1> QED
    BY <1>1, Invariant, PTL

(* The listener that forwards data takes over from the one that collects   *)
(* the header without a gap, wherever the header ends in a chunk; and what *)
(* the tunnel drops, on overflow or while it closes, is the end of what it *)
(* gets of a socket: none is left open when a tunnel opens again.          *)
THEOREM BodyHandedOver == Spec => []BodyComplete
  <1>1. IInv => BodyComplete
    BY DEF IInv, Body, BodyOf, BodyComplete
  <1> QED
    BY <1>1, Invariant, PTL

(* No browser gets two answers, and none whose request was handed over.    *)
THEOREM AnsweredOnce == Spec => []OneAnswer
  <1>1. IInv => OneAnswer
    BY DEF IInv
  <1> QED
    BY <1>1, Invariant, PTL

(* The request that is parsed, the first of its socket, is handed over     *)
(* with an ambiguous length only as the mode allows it, for any set of     *)
(* requests with any header lines.  What follows it is not parsed.         *)
THEOREM FirstRequestChecked == Spec => []FirstRequestContained
  <1>1. IInv => FirstRequestContained
    BY DEF IInv
  <1> QED
    BY <1>1, Invariant, PTL
=============================================================================
