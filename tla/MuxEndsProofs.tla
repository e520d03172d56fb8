---------------------------- MODULE MuxEndsProofs ----------------------------
(***************************************************************************)
(* Theorems about the two ends of the streams of Mux.                      *)
(*                                                                         *)
(* First, about the direction that MuxStreamProofs leaves: what a browser  *)
(* is given is what its own target sent, after the answer that             *)
(* proxyServer.js owes it, or the page the client refuses it with.         *)
(*                                                                         *)
(* Then, that the two ends agree on the ids in use once everything on the  *)
(* way has arrived.  An id passes through them in one order only: OPEN,    *)
(* both ends have it, CLOSE from the end that drops it first, neither has  *)
(* it.  The invariant says where on that way each id of the active session *)
(* is.                                                                     *)
(*                                                                         *)
(* Like those of MuxStreamProofs they hold as long as no connection id is  *)
(* given out twice.                                                        *)
(***************************************************************************)
EXTENDS MuxStreamProofs, SequenceTheorems

-----------------------------------------------------------------------------
(* What a browser may have been given, in any state: b was written to the  *)
(* socket of s and sent chunks were read from its target.                  *)
OwnBytes(b, s, sent) ==
  LET n == Len(b) - Answers(b)
  IN  \/ b \in {<<Page(s)>>, <<Page(s), Reply(502)>>}
      \/ n <= sent /\ \A m \in 1 .. n : b[m + Answers(b)] = Down(s, m)

AnswerFirst(b, s) ==
  \A n \in 1 .. Len(b) :
    /\ b[n].tag = "down" => b[1] = Reply(200) /\ n > 1
    /\ b[n].tag = "reply" /\ n > 1 => b[1] = Page(s) /\ n = 2

(* What is on its way to a browser on the channel q: the OPEN_ACK of its   *)
(* id, the chunks of its target, or the page of a refusal.                 *)
IsAck(f, i) == f.type = "OPEN_ACK" /\ f.id = i

AckIn(q, i) == \E n \in 1 .. Len(q) : IsAck(q[n], i)

AckFirst(q, s, i) ==
  \A n \in 1 .. Len(q) : IsData(q[n], s) => \E m \in 1 .. n - 1 : IsAck(q[m], i)

Silent(q, s) == \A n \in 1 .. Len(q) : ~IsData(q[n], s)

OnePage(q, s) ==
  \A n \in 1 .. Len(q) : IsData(q[n], s) =>
    /\ q[n].pay = Page(s)
    /\ \A m \in 1 .. Len(q) : IsData(q[m], s) => m = n

(* A browser socket whose target socket exists: connect says that its      *)
(* request was a CONNECT, wait that the CONNECT has not been answered, on  *)
(* that the target is connected and may send, and whole that every chunk   *)
(* read from the target could be put on q.  The chunks given are the first *)
(* ones, the next ones are on the way, and an unanswered CONNECT has its   *)
(* OPEN_ACK on the way before any of them.                                 *)
Skip(connect, wait) == IF connect /\ ~wait THEN 1 ELSE 0

Established(q, s, i, connect, wait, on, whole, sent, b) ==
  LET skip == Skip(connect, wait)
      base == Len(b) - skip
  IN  /\ skip <= Len(b) /\ base <= sent
      /\ skip = 1 => b[1] = Reply(200)
      /\ \A n \in 1 .. base : b[n + skip] = Down(s, n)
      /\ Numbered(q, s, "down", base, sent)
      /\ Increasing(q, s)
      /\ whole => LastThere(q, s, base, sent)
      /\ connect /\ wait => /\ b = <<>> /\ AckFirst(q, s, i)
                            /\ on /\ whole => AckIn(q, i)

(* A browser socket without a target: asked says that its OPEN or its      *)
(* lookup is still to be handled.  Until then nothing is on the way to it; *)
(* later at most one page is.                                              *)
Unmade(q, s, i, connect, wait, asked, sent, b) ==
  /\ connect => wait
  /\ ~AckIn(q, i)
  /\ sent = 0
  /\ \/ b = <<>> /\ OnePage(q, s)
     \/ b = <<Page(s)>> /\ Silent(q, s)
  /\ asked => b = <<>> /\ Silent(q, s)

(* The client still has to handle the OPEN of s, or its lookup.            *)
AskedFor(s, k, i) == OpenIn(down[k], s) \/ pend[k][i] # None

(* Neither end of session k refuses or drops what the client sends on it.  *)
WholeUp(k) == cliWs[k] = "open" /\ srvWs[k] # "closed"

AnswerOK(s, k, i) ==
  IF tKey[s] # NoKey
    THEN /\ ~AskedFor(s, k, i)
         /\ Established(up[k], s, i, method[s] = "connect", waiting[s],
                        tst[s] = "open", WholeUp(k), tSent[s], bIn[s])
    ELSE Unmade(up[k], s, i, method[s] = "connect", waiting[s],
                AskedFor(s, k, i), tSent[s], bIn[s])

(* The inductive invariant.                                                *)

(* DATA on its way to the server is about a socket that was registered in  *)
(* that session under that id.                                             *)
UpTagged == \A k \in Sessions : DownFrom(up[k], k, regId, regSess)

(* Who waits for an answer, and who has sent nothing yet.                  *)
Waiters ==
  \A s \in Sockets :
    /\ waiting[s] => method[s] = "connect"
    /\ bst[s] \in {"idle", "ending"} => ~waiting[s]
    /\ bst[s] = "idle" => bIn[s] = <<>>
    /\ tKey[s] = NoKey => tSent[s] = 0

Given(s) ==
  /\ OwnBytes(bIn[s], s, tSent[s])
  /\ method[s] = "connect" => AnswerFirst(bIn[s], s)

Answering ==
  \A s \in Sockets :
    /\ Given(s)
    /\ bst[s] = "open" => AnswerOK(s, regSess[s], regId[s])

-----------------------------------------------------------------------------
(* OPEN_ACKs and pages taken off a channel and put on it.                  *)

(* What is left of a channel when a frame is taken off it.                 *)
LEMMA TailAnswers ==
  ASSUME NEW q \in Seq(Frames), q # <<>>, NEW s, NEW i
  PROVE  /\ AckIn(Tail(q), i) => AckIn(q, i)
         /\ IsAck(Head(q), i) => AckIn(q, i)
         /\ ~IsAck(Head(q), i) /\ AckIn(q, i) => AckIn(Tail(q), i)
         /\ ~IsAck(Head(q), i) /\ AckFirst(q, s, i) =>
              ~IsData(Head(q), s) /\ AckFirst(Tail(q), s, i)
         /\ Silent(q, s) => ~IsData(Head(q), s) /\ Silent(Tail(q), s)
         /\ OnePage(q, s) => OnePage(Tail(q), s)
         /\ OnePage(q, s) /\ IsData(Head(q), s) =>
              Head(q).pay = Page(s) /\ Silent(Tail(q), s)
<1> DEFINE z == Tail(q)
<1>1. /\ z \in Seq(Frames)
      /\ Len(q) \in Nat \ {0} /\ Len(z) = Len(q) - 1
      /\ Head(q) = q[1] /\ 1 \in 1 .. Len(q)
      /\ \A n \in 1 .. Len(z) : z[n] = q[n + 1] /\ n + 1 \in 1 .. Len(q) /\ n + 1 # 1
  <2>1. \A n \in 1 .. Len(z) : n + 1 # 1
    OBVIOUS
  <2> QED
    BY <2>1, TailFrames
<1>2. \A n \in 1 .. Len(q) : n = 1 \/ (n - 1 \in 1 .. Len(z) /\ z[n - 1] = q[n])
  <2> SUFFICES ASSUME NEW n \in 1 .. Len(q), n # 1
               PROVE  n - 1 \in 1 .. Len(z) /\ z[n - 1] = q[n]
    OBVIOUS
  <2>1. n - 1 \in 1 .. Len(z)
    BY <1>1
  <2>2. z[n - 1] = q[(n - 1) + 1]
    BY <1>1, <2>1
  <2> QED
    BY <2>1, <2>2
<1> HIDE DEF z
<1>3. AckIn(z, i) => AckIn(q, i)
  BY <1>1, Zenon DEF AckIn
<1>4. IsAck(q[1], i) => AckIn(q, i)
  BY <1>1, Zenon DEF AckIn
<1>5. ~IsAck(q[1], i) /\ AckIn(q, i) => AckIn(z, i)
  <2> SUFFICES ASSUME ~IsAck(q[1], i), NEW n \in 1 .. Len(q), IsAck(q[n], i)
               PROVE  AckIn(z, i)
    BY Zenon DEF AckIn
  <2>1. n - 1 \in 1 .. Len(z) /\ z[n - 1] = q[n]
    BY <1>2, Zenon
  <2> QED
    BY <2>1, Zenon DEF AckIn
<1>6. ASSUME ~IsAck(q[1], i), AckFirst(q, s, i)
      PROVE  ~IsData(q[1], s) /\ AckFirst(z, s, i)
  <2>1. ~IsData(q[1], s)
    <3>1. ~\E m \in 1 .. 1 - 1 : IsAck(q[m], i)
      OBVIOUS
    <3> QED
      BY <1>1, <1>6, <3>1, Zenon DEF AckFirst
  <2>2. ASSUME NEW n \in 1 .. Len(z), IsData(z[n], s)
        PROVE  \E m \in 1 .. n - 1 : IsAck(z[m], i)
    <3>1. n + 1 \in 1 .. Len(q) /\ IsData(q[n + 1], s)
      BY <1>1, <2>2, Zenon
    <3>2. PICK m \in 1 .. (n + 1) - 1 : IsAck(q[m], i)
      BY <1>6, <3>1, Zenon DEF AckFirst
    <3>3. m # 1 /\ m \in 1 .. Len(q)
      BY <1>1, <1>6, <3>1, <3>2
    <3>4. m - 1 \in 1 .. n - 1 /\ z[m - 1] = q[m]
      <4>1. m - 1 \in 1 .. n - 1
        BY <3>2, <3>3
      <4> QED
        BY <1>2, <3>3, <4>1, Zenon
    <3> QED
      BY <3>2, <3>4, Zenon
  <2> QED
    BY <2>1, <2>2, Zenon DEF AckFirst
<1>7. Silent(q, s) => ~IsData(q[1], s) /\ Silent(z, s)
  BY <1>1, Zenon DEF Silent
<1>8. ASSUME OnePage(q, s)
      PROVE  OnePage(z, s)
  <2> SUFFICES ASSUME NEW n \in 1 .. Len(z), IsData(z[n], s)
               PROVE  /\ z[n].pay = Page(s)
                      /\ \A m \in 1 .. Len(z) : IsData(z[m], s) => m = n
    BY Zenon DEF OnePage
  <2>1. n + 1 \in 1 .. Len(q) /\ z[n] = q[n + 1]
    BY <1>1, Zenon
  <2>2. /\ q[n + 1].pay = Page(s)
        /\ \A m \in 1 .. Len(q) : IsData(q[m], s) => m = n + 1
    BY <1>8, <2>1, Zenon DEF OnePage
  <2>3. ASSUME NEW m \in 1 .. Len(z), IsData(z[m], s)
        PROVE  m = n
    <3>1. m + 1 = n + 1
      BY <1>1, <2>2, <2>3, Zenon
    <3> QED
      BY <3>1
  <2> QED
    BY <2>1, <2>2, <2>3, Zenon
<1>9. ASSUME OnePage(q, s), IsData(q[1], s)
      PROVE  q[1].pay = Page(s) /\ Silent(z, s)
  <2>1. q[1].pay = Page(s) /\ \A m \in 1 .. Len(q) : IsData(q[m], s) => m = 1
    BY <1>1, <1>9, Zenon DEF OnePage
  <2>2. Silent(z, s)
    BY <1>1, <2>1, Zenon DEF Silent
  <2> QED
    BY <2>1, <2>2
<1> QED
  BY <1>1, <1>3, <1>4, <1>5, <1>6, <1>7, <1>8, <1>9, Zenon DEF z

(* What a channel holds when frames are put on it that are not chunks of   *)
(* s, and when one chunk is.                                               *)
LEMMA MoreAnswers ==
  ASSUME NEW q \in Seq(Frames), NEW fs \in Seq(Frames), NEW s, NEW i,
         \A n \in 1 .. Len(fs) : ~IsData(fs[n], s)
  PROVE  /\ AckIn(q, i) => AckIn(q \o fs, i)
         /\ AckFirst(q, s, i) => AckFirst(q \o fs, s, i)
         /\ Silent(q, s) => Silent(q \o fs, s)
         /\ OnePage(q, s) => OnePage(q \o fs, s)
         /\ ~AckIn(q, i) /\ (\A n \in 1 .. Len(fs) : ~IsAck(fs[n], i)) => ~AckIn(q \o fs, i)
<1> DEFINE z == q \o fs
<1>1. /\ Len(q) \in Nat
      /\ Len(fs) \in Nat
      /\ Len(z) = Len(q) + Len(fs)
      /\ \A n \in 1 .. Len(q) : z[n] = q[n]
      /\ \A n \in 1 .. Len(z) :
           n \in 1 .. Len(q) \/ (n - Len(q) \in 1 .. Len(fs) /\ z[n] = fs[n - Len(q)])
  BY MoreFrames
<1> HIDE DEF z
<1>2. /\ \A n \in 1 .. Len(q) : n \in 1 .. Len(z) /\ z[n] = q[n]
      /\ \A n \in 1 .. Len(z) : IsData(z[n], s) => n \in 1 .. Len(q) /\ z[n] = q[n]
  <2>1. \A n \in 1 .. Len(q) : n \in 1 .. Len(z)
    BY <1>1
  <2>2. \A n \in 1 .. Len(z) : n \in 1 .. Len(q) \/ ~IsData(z[n], s)
    BY <1>1, Zenon
  <2> QED
    BY <1>1, <2>1, <2>2, Zenon
<1>3. AckIn(q, i) => AckIn(z, i)
  BY <1>2, Zenon DEF AckIn
<1>4. ASSUME AckFirst(q, s, i), NEW n \in 1 .. Len(z), IsData(z[n], s)
      PROVE  \E m \in 1 .. n - 1 : IsAck(z[m], i)
  <2>1. n \in 1 .. Len(q) /\ IsData(q[n], s)
    BY <1>2, <1>4, Zenon
  <2>2. PICK m \in 1 .. n - 1 : IsAck(q[m], i)
    BY <1>4, <2>1, Zenon DEF AckFirst
  <2>3. m \in 1 .. Len(q)
    BY <1>1, <2>1
  <2> QED
    BY <1>2, <2>2, <2>3, Zenon
<1>5. Silent(q, s) => Silent(z, s)
  BY <1>2, Zenon DEF Silent
<1>6. OnePage(q, s) => OnePage(z, s)
  BY <1>2, Zenon DEF OnePage
<1>7. ~AckIn(q, i) /\ (\A n \in 1 .. Len(fs) : ~IsAck(fs[n], i)) => ~AckIn(z, i)
  BY <1>1, Zenon DEF AckIn
<1> QED
  BY <1>3, <1>4, <1>5, <1>6, <1>7, Zenon DEF z, AckFirst

(* An OPEN_ACK put on the channel before any chunk.                        *)
LEMMA AckPut ==
  ASSUME NEW q \in Seq(Frames), NEW f \in Frames, NEW i, IsAck(f, i)
  PROVE  AckIn(Append(q, f), i)
<1>1. /\ Len(Append(q, f)) = Len(q) + 1 /\ Len(q) \in Nat
      /\ Append(q, f)[Len(q) + 1] = f
  OBVIOUS
<1>2. Len(q) + 1 \in 1 .. Len(Append(q, f))
  BY <1>1
<1> QED
  BY <1>1, <1>2, Zenon DEF AckIn

(* A chunk put on a channel with an OPEN_ACK.                              *)
LEMMA ChunkAfterAck ==
  ASSUME NEW q \in Seq(Frames), NEW f \in Frames, NEW s, NEW i, ~IsAck(f, i),
         AckIn(q, i), AckFirst(q, s, i)
  PROVE  AckFirst(Append(q, f), s, i) /\ AckIn(Append(q, f), i)
<1> DEFINE z == Append(q, f)
<1>1. /\ Len(q) \in Nat /\ Len(z) = Len(q) + 1
      /\ \A n \in 1 .. Len(q) : z[n] = q[n]
  OBVIOUS
<1> HIDE DEF z
<1>2. ASSUME NEW n \in 1 .. Len(z), IsData(z[n], s)
      PROVE  \E m \in 1 .. n - 1 : IsAck(z[m], i)
  <2>1. CASE n \in 1 .. Len(q)
    <3>1. PICK m \in 1 .. n - 1 : IsAck(q[m], i)
      BY <1>1, <1>2, <2>1, Zenon DEF AckFirst
    <3>2. m \in 1 .. Len(q)
      BY <1>1, <2>1
    <3> QED
      BY <1>1, <3>1, <3>2, Zenon
  <2>2. CASE n \notin 1 .. Len(q)
    <3>1. PICK m \in 1 .. Len(q) : IsAck(q[m], i)
      BY Zenon DEF AckIn
    <3>2. m \in 1 .. n - 1
      BY <1>1, <2>2, <3>1
    <3> QED
      BY <1>1, <3>1, <3>2, Zenon
  <2> QED
    BY <2>1, <2>2
<1>3. AckIn(z, i)
  <2>1. \A n \in 1 .. Len(q) : n \in 1 .. Len(z)
    BY <1>1
  <2> QED
    BY <1>1, <2>1, Zenon DEF AckIn
<1> QED
  BY <1>2, <1>3, Zenon DEF AckFirst, z

(* A refusal put on a channel with nothing for s.                          *)
LEMMA PagePut ==
  ASSUME NEW q \in Seq(Frames), NEW s \in Sockets, NEW i \in Ids, Silent(q, s)
  PROVE  /\ OnePage(q \o Refusal(i, s), s)
         /\ ~AckIn(q, i) => ~AckIn(q \o Refusal(i, s), i)
<1> DEFINE fs == Refusal(i, s)
           z == q \o fs
<1>1. /\ fs \in Seq(Frames) /\ Len(fs) = 2
      /\ fs[1] = Data(i, Page(s)) /\ fs[2] = Close(i)
  BY FrameTypes, PayloadTypes DEF Refusal
<1>2. /\ fs[1].pay = Page(s)
      /\ ~IsData(fs[2], s) /\ ~IsAck(fs[1], i) /\ ~IsAck(fs[2], i)
  BY <1>1 DEF Data, Close, Frame, IsData, IsAck
<1> HIDE DEF fs
<1>3. /\ Len(q) \in Nat /\ Len(z) = Len(q) + 2
      /\ \A n \in 1 .. Len(q) : z[n] = q[n]
      /\ \A n \in 1 .. Len(z) :
           n \in 1 .. Len(q) \/ (n - Len(q) \in 1 .. 2 /\ z[n] = fs[n - Len(q)])
  <2>1. /\ Len(q) \in Nat /\ Len(z) = Len(q) + Len(fs)
        /\ \A n \in 1 .. Len(q) : z[n] = q[n]
        /\ \A n \in 1 .. Len(z) :
             n \in 1 .. Len(q) \/ (n - Len(q) \in 1 .. Len(fs) /\ z[n] = fs[n - Len(q)])
    BY <1>1, MoreFrames, Zenon
  <2> HIDE DEF z
  <2> QED
    BY <1>1, <2>1
<1> HIDE DEF z
<1>4. \A n \in 1 .. Len(z) :
        \/ n \in 1 .. Len(q) /\ z[n] = q[n]
        \/ n = Len(q) + 1 /\ z[n] = fs[1]
        \/ n = Len(q) + 2 /\ z[n] = fs[2]
  <2> SUFFICES ASSUME NEW n \in 1 .. Len(z), n \notin 1 .. Len(q)
               PROVE  \/ n = Len(q) + 1 /\ z[n] = fs[1]
                      \/ n = Len(q) + 2 /\ z[n] = fs[2]
    BY <1>3, Zenon
  <2>1. n - Len(q) \in 1 .. 2 /\ z[n] = fs[n - Len(q)]
    BY <1>3
  <2>2. n - Len(q) = 1 \/ n - Len(q) = 2
    BY <2>1
  <2> QED
    BY <1>3, <2>1, <2>2
<1>5. \A n \in 1 .. Len(z) : IsData(z[n], s) => n = Len(q) + 1 /\ z[n] = fs[1]
  BY <1>2, <1>4, Zenon DEF Silent
<1>6. OnePage(z, s)
  BY <1>2, <1>5, Zenon DEF OnePage
<1>7. ~AckIn(q, i) => ~AckIn(z, i)
  BY <1>2, <1>4, Zenon DEF AckIn
<1> QED
  BY <1>6, <1>7 DEF z, fs

-----------------------------------------------------------------------------
(* What each kind of step does to what a browser is given.  First a socket *)
(* whose target exists.                                                    *)

(* Sequences of one or two items.                                          *)
LEMMA OneItem ==
  ASSUME NEW x
  PROVE  Append(<<>>, x) = <<x>> /\ Len(<<x>>) = 1 /\ <<x>>[1] = x
OBVIOUS

LEMMA TwoItems ==
  ASSUME NEW x \in Payloads, NEW y \in Payloads
  PROVE  Append(<<x>>, y) = <<x, y>> /\ Len(<<x, y>>) = 2 /\ <<x, y>>[1] = x /\ <<x, y>>[2] = y
<1> DEFINE z == Append(<<x>>, y)
           w == <<x, y>>
<1>1. z \in Seq(Payloads) /\ Len(z) = 2 /\ z[1] = x /\ z[2] = y
  <2>1. <<x>> \in Seq(Payloads) /\ Len(<<x>>) = 1 /\ <<x>>[1] = x
    OBVIOUS
  <2> HIDE DEF z
  <2> QED
    BY <2>1, AppendProperties DEF z
<1>2. w \in Seq(Payloads) /\ Len(w) = 2 /\ w[1] = x /\ w[2] = y
  OBVIOUS
<1> HIDE DEF z, w
<1>3. \A n \in 1 .. Len(z) : z[n] = w[n]
  BY <1>1, <1>2
<1>4. z = w
  BY <1>1, <1>2, <1>3, SeqEqual
<1> QED
  BY <1>2, <1>4 DEF z, w

(* What is skipped is one item or none.                                    *)
LEMMA SkipType ==
  ASSUME NEW connect, NEW wait, NEW b \in Seq(Payloads),
         Skip(connect, wait) <= Len(b)
  PROVE  /\ Skip(connect, wait) \in {0, 1}
         /\ Len(b) \in Nat /\ Len(b) - Skip(connect, wait) \in Nat
<1>1. Skip(connect, wait) \in {0, 1}
  BY DEF Skip
<1> QED
  BY <1>1

(* What it has been given is right.                                        *)
LEMMA EstablishedGiven ==
  ASSUME NEW q \in Seq(Frames), NEW s \in Sockets, NEW i \in Ids,
         NEW connect, NEW wait, NEW on,
         NEW whole, NEW sent \in Nat, NEW b \in Seq(Payloads),
         Established(q, s, i, connect, wait, on, whole, sent, b)
  PROVE  /\ OwnBytes(b, s, sent)
         /\ connect => AnswerFirst(b, s)
         /\ connect /\ wait => b = <<>>
<1> DEFINE skip == Skip(connect, wait)
           base == Len(b) - skip
<1>0. Skip(connect, wait) <= Len(b)
  BY Zenon DEF Established
<1>1. skip \in {0, 1} /\ Len(b) \in Nat /\ base \in Nat
  BY <1>0, SkipType
<1>2. /\ skip = 1 => b[1] = Reply(200)
      /\ \A n \in 1 .. base : b[n + skip] = Down(s, n)
      /\ base <= sent
      /\ connect /\ wait => b = <<>>
  BY Zenon DEF Established
<1>3. connect /\ ~wait => skip = 1
  BY DEF Skip
<1>4. skip = 1 \/ skip = 0
  BY <1>1
<1> HIDE DEF skip
<1>5. /\ Reply(200).tag = "reply"
      /\ \A n : Down(s, n).tag = "down"
  BY DEF Reply, Down, Payload
<1>6. Answers(b) = skip
  <2>1. CASE skip = 1
    BY <1>1, <1>2, <1>5, <2>1 DEF Answers
  <2>2. CASE skip = 0
    <3>1. b # <<>> => b[1] = Down(s, 1)
      BY <1>1, <1>2, <2>2
    <3> QED
      BY <1>5, <2>2, <3>1 DEF Answers
  <2> QED
    BY <1>4, <2>1, <2>2
<1>7. OwnBytes(b, s, sent)
  BY <1>2, <1>6, Zenon DEF OwnBytes
<1>8. ASSUME connect
      PROVE  AnswerFirst(b, s)
  <2>1. CASE wait
    <3>1. b = <<>> /\ \A n \in 1 .. Len(b) : FALSE
      BY <1>2, <1>8, <2>1
    <3> QED
      BY <3>1, Zenon DEF AnswerFirst
  <2>2. CASE ~wait
    <3>1. skip = 1 /\ b[1] = Reply(200)
      BY <1>2, <1>3, <1>8, <2>2, Zenon
    <3>2. \A n \in 1 .. Len(b) : n = 1 \/ (n > 1 /\ b[n] = Down(s, n - 1))
      <4> SUFFICES ASSUME NEW n \in 1 .. Len(b), n # 1
                   PROVE  n > 1 /\ b[n] = Down(s, n - 1)
        OBVIOUS
      <4>1. n - 1 \in 1 .. base /\ n > 1 /\ (n - 1) + skip = n
        BY <1>1, <3>1
      <4>2. b[(n - 1) + skip] = Down(s, n - 1)
        BY <1>2, <4>1, Zenon
      <4> QED
        BY <4>1, <4>2
    <3>3. b[1].tag = "reply" /\ ~(1 > 1)
      BY <1>5, <3>1
    <3>4. \A n \in 1 .. Len(b) :
            /\ b[n].tag = "down" => n > 1
            /\ ~(b[n].tag = "reply" /\ n > 1)
      BY <1>5, <3>2, <3>3
    <3> QED
      BY <3>1, <3>4, Zenon DEF AnswerFirst
  <2> QED
    BY <2>1, <2>2
<1> QED
  BY <1>2, <1>7, <1>8

(* A frame taken off the channel that is neither a chunk of s nor its      *)
(* OPEN_ACK.                                                               *)
LEMMA EstablishedPassed ==
  ASSUME NEW q \in Seq(Frames), q # <<>>, NEW s \in Sockets, NEW i \in Ids,
         NEW connect, NEW wait, NEW on,
         NEW whole, NEW sent \in Nat, NEW b \in Seq(Payloads),
         Established(q, s, i, connect, wait, on, whole, sent, b),
         ~IsData(Head(q), s), ~IsAck(Head(q), i)
  PROVE  Established(Tail(q), s, i, connect, wait, on, whole, sent, b)
<1> DEFINE base == Len(b) - Skip(connect, wait)
<1>0. Skip(connect, wait) <= Len(b)
  BY Zenon DEF Established
<1>1. base \in Nat
  BY <1>0, SkipType
<1>2. /\ Numbered(q, s, "down", base, sent) /\ Increasing(q, s)
      /\ whole => LastThere(q, s, base, sent)
      /\ connect /\ wait => AckFirst(q, s, i) /\ (on /\ whole => AckIn(q, i))
  BY Zenon DEF Established
<1> HIDE DEF base
<1>3. /\ Numbered(Tail(q), s, "down", base, sent) /\ Increasing(Tail(q), s)
      /\ whole => LastThere(Tail(q), s, base, sent)
  BY <1>1, <1>2, TailNumbered
<1>4. connect /\ wait => AckFirst(Tail(q), s, i) /\ (on /\ whole => AckIn(Tail(q), i))
  BY <1>2, TailAnswers, Zenon
<1> QED
  BY <1>3, <1>4, Zenon DEF Established, base

(* A chunk of s taken off the channel is the next one, and an unanswered   *)
(* CONNECT has none at the head of the channel.                            *)
LEMMA EstablishedChunk ==
  ASSUME NEW q \in Seq(Frames), q # <<>>, NEW s \in Sockets, NEW i \in Ids,
         NEW connect, NEW wait, NEW on,
         NEW whole, NEW sent \in Nat, NEW b \in Seq(Payloads),
         Established(q, s, i, connect, wait, on, whole, sent, b), IsData(Head(q), s)
  PROVE  Established(Tail(q), s, i, connect, wait, on, whole, sent, Append(b, Head(q).pay))
<1> DEFINE skip == Skip(connect, wait)
           base == Len(b) - skip
           p == Head(q).pay
<1>0. Skip(connect, wait) <= Len(b)
  BY Zenon DEF Established
<1>1. skip \in {0, 1} /\ Len(b) \in Nat /\ base \in Nat
  BY <1>0, SkipType
<1>2. /\ Numbered(q, s, "down", base, sent) /\ Increasing(q, s)
      /\ whole => LastThere(q, s, base, sent)
      /\ skip <= Len(b)
      /\ skip = 1 => b[1] = Reply(200)
      /\ \A n \in 1 .. base : b[n + skip] = Down(s, n)
      /\ connect /\ wait => AckFirst(q, s, i)
  BY Zenon DEF Established
<1>3. ~(connect /\ wait)
  <2>1. ~IsAck(Head(q), i)
    BY DEF IsAck, IsData
  <2> QED
    BY <1>2, <2>1, TailAnswers, Zenon
<1> HIDE DEF skip
<1>4. Len(Append(b, p)) = Len(b) + 1
  OBVIOUS
<1>5. /\ p = Payload(s, "down", base + 1) /\ base + 1 <= sent
      /\ Numbered(Tail(q), s, "down", base + 1, sent) /\ Increasing(Tail(q), s)
      /\ whole => LastThere(Tail(q), s, base + 1, sent)
  BY <1>1, <1>2, HeadNumbered
<1>6. p = Down(s, base + 1)
  BY <1>5 DEF Down
<1> HIDE DEF p
<1>7. base + 1 = Len(Append(b, p)) - skip
  BY <1>1, <1>4
<1>8. /\ skip <= Len(Append(b, p))
      /\ skip = 1 => Append(b, p)[1] = Reply(200)
  BY <1>1, <1>2
<1>9. \A n \in 1 .. base + 1 : Append(b, p)[n + skip] = Down(s, n)
  <2> SUFFICES ASSUME NEW n \in 1 .. base + 1
               PROVE  Append(b, p)[n + skip] = Down(s, n)
    OBVIOUS
  <2>1. CASE n \in 1 .. base
    <3>1. n + skip \in 1 .. Len(b)
      BY <1>1, <2>1
    <3> QED
      BY <1>2, <2>1, <3>1
  <2>2. CASE n = base + 1
    <3>1. n + skip = Len(b) + 1
      BY <1>1, <2>2
    <3> QED
      BY <1>6, <2>2, <3>1
  <2> QED
    BY <1>1, <2>1, <2>2
<1> QED
  BY <1>3, <1>5, <1>7, <1>8, <1>9, Zenon DEF Established, skip, p

(* The OPEN_ACK taken off the channel: it answers a CONNECT that waits.    *)
LEMMA EstablishedAck ==
  ASSUME NEW q \in Seq(Frames), q # <<>>, NEW s \in Sockets, NEW i \in Ids,
         NEW connect, NEW wait, NEW on,
         NEW whole, NEW sent \in Nat, NEW b \in Seq(Payloads),
         Established(q, s, i, connect, wait, on, whole, sent, b), IsAck(Head(q), i),
         NEW wait2, ~wait2
  PROVE  /\ connect /\ wait =>
              Established(Tail(q), s, i, connect, wait2, on, whole, sent,
                          Append(b, Reply(200)))
         /\ ~wait => Established(Tail(q), s, i, connect, wait2, on, whole, sent, b)
<1> DEFINE skip == Skip(connect, wait)
           base == Len(b) - skip
<1>0. Skip(connect, wait) <= Len(b)
  BY Zenon DEF Established
<1>1. skip \in {0, 1} /\ Len(b) \in Nat /\ base \in Nat
  BY <1>0, SkipType
<1>2. /\ Numbered(q, s, "down", base, sent) /\ Increasing(q, s)
      /\ whole => LastThere(q, s, base, sent)
      /\ skip <= Len(b) /\ base <= sent
      /\ skip = 1 => b[1] = Reply(200)
      /\ \A n \in 1 .. base : b[n + skip] = Down(s, n)
      /\ connect /\ wait => b = <<>>
  BY Zenon DEF Established
<1>3. ~IsData(Head(q), s)
  BY DEF IsAck, IsData
<1>4. /\ Numbered(Tail(q), s, "down", base, sent) /\ Increasing(Tail(q), s)
      /\ whole => LastThere(Tail(q), s, base, sent)
  <2> HIDE DEF base
  <2> QED
    BY <1>1, <1>2, <1>3, TailNumbered
<1>5. ASSUME connect, wait
      PROVE  Established(Tail(q), s, i, connect, wait2, on, whole, sent,
                         Append(b, Reply(200)))
  <2> DEFINE b2 == Append(b, Reply(200))
             skip2 == Skip(connect, wait2)
             base2 == Len(b2) - skip2
  <2>1. b = <<>> /\ base = 0 /\ skip2 = 1
    BY <1>2, <1>5 DEF Skip
  <2>2. b2 = <<Reply(200)>>
    <3>1. b = <<>>
      BY <2>1
    <3> QED
      BY <3>1
  <2>3. Len(b2) = 1 /\ b2[1] = Reply(200)
    BY <2>2, OneItem, Zenon
  <2> HIDE DEF b2
  <2> HIDE DEF skip2
  <2>4. /\ skip2 <= Len(b2) /\ base2 = 0 /\ base2 <= sent
        /\ \A n \in 1 .. base2 : b2[n + skip2] = Down(s, n)
    BY <2>1, <2>3
  <2>5. /\ Numbered(Tail(q), s, "down", base2, sent) /\ Increasing(Tail(q), s)
        /\ whole => LastThere(Tail(q), s, base2, sent)
    <3>1. base2 = base
      BY <2>1, <2>4
    <3> HIDE DEF base, base2
    <3> QED
      BY <1>4, <3>1
  <2>6. Established(Tail(q), s, i, connect, wait2, on, whole, sent, b2)
    BY <2>3, <2>4, <2>5, Zenon DEF Established, skip2
  <2> QED
    BY <2>6 DEF b2
<1>6. ASSUME ~wait
      PROVE  Established(Tail(q), s, i, connect, wait2, on, whole, sent, b)
  <2>1. Skip(connect, wait2) = skip
    BY <1>6 DEF Skip
  <2> HIDE DEF skip
  <2> QED
    BY <1>2, <1>4, <2>1, Zenon DEF Established
<1> QED
  BY <1>5, <1>6

(* Frames put on the channel that are not about s.                         *)
LEMMA EstablishedGrown ==
  ASSUME NEW q \in Seq(Frames), NEW s \in Sockets, NEW i \in Ids,
         NEW connect, NEW wait, NEW on,
         NEW whole, NEW sent \in Nat, NEW b \in Seq(Payloads),
         Established(q, s, i, connect, wait, on, whole, sent, b),
         NEW fs \in Seq(Frames), \A n \in 1 .. Len(fs) : ~IsOpen(fs[n], s) /\ ~IsData(fs[n], s)
  PROVE  Established(q \o fs, s, i, connect, wait, on, whole, sent, b)
<1> DEFINE base == Len(b) - Skip(connect, wait)
<1>0. Skip(connect, wait) <= Len(b)
  BY Zenon DEF Established
<1>1. base \in Nat
  BY <1>0, SkipType
<1>2. /\ Numbered(q, s, "down", base, sent) /\ Increasing(q, s)
      /\ whole => LastThere(q, s, base, sent)
      /\ connect /\ wait => AckFirst(q, s, i) /\ (on /\ whole => AckIn(q, i))
  BY Zenon DEF Established
<1> HIDE DEF base
<1>3. /\ Numbered(q \o fs, s, "down", base, sent) /\ Increasing(q \o fs, s)
      /\ whole => LastThere(q \o fs, s, base, sent)
  BY <1>1, <1>2, MoreUnrelated
<1>4. connect /\ wait => AckFirst(q \o fs, s, i) /\ (on /\ whole => AckIn(q \o fs, i))
  BY <1>2, MoreAnswers, Zenon
<1> QED
  BY <1>3, <1>4, Zenon DEF Established, base

(* A target that can no longer send, or a channel that is no longer whole. *)
LEMMA EstablishedLess ==
  ASSUME NEW q \in Seq(Frames), NEW s \in Sockets, NEW i \in Ids,
         NEW connect, NEW wait, NEW on,
         NEW whole, NEW sent \in Nat, NEW b \in Seq(Payloads),
         Established(q, s, i, connect, wait, on, whole, sent, b),
         NEW on2, on2 => on, NEW whole2, whole2 => whole
  PROVE  Established(q, s, i, connect, wait, on2, whole2, sent, b)
BY Zenon DEF Established

(* The target is connected: its OPEN_ACK is put on a whole channel.        *)
LEMMA EstablishedOn ==
  ASSUME NEW q \in Seq(Frames), NEW s \in Sockets, NEW i \in Ids,
         NEW connect, NEW wait, NEW on,
         NEW whole, NEW sent \in Nat, NEW b \in Seq(Payloads),
         Established(q, s, i, connect, wait, on, whole, sent, b)
  PROVE  /\ whole => Established(Append(q, OpenAck(i)), s, i, connect, wait, TRUE, whole, sent, b)
         /\ ~whole => Established(q, s, i, connect, wait, TRUE, whole, sent, b)
<1>0. Established(Append(q, OpenAck(i)), s, i, connect, wait, on, whole, sent, b)
  <2> DEFINE fs == <<OpenAck(i)>>
  <2>1. /\ OpenAck(i) \in Frames /\ fs \in Seq(Frames)
        /\ q \o fs = Append(q, OpenAck(i))
        /\ \A n \in 1 .. Len(fs) : fs[n] = OpenAck(i)
    BY FrameTypes
  <2>2. ~IsOpen(OpenAck(i), s) /\ ~IsData(OpenAck(i), s) /\ IsAck(OpenAck(i), i)
    BY DEF OpenAck, Frame, IsOpen, IsData, IsAck
  <2>3. \A n \in 1 .. Len(fs) : ~IsOpen(fs[n], s) /\ ~IsData(fs[n], s)
    BY <2>1, <2>2, Zenon
  <2> HIDE DEF fs
  <2>4. fs \in Seq(Frames)
    BY <2>1, Zenon
  <2>5. Established(q \o fs, s, i, connect, wait, on, whole, sent, b)
    BY <2>3, <2>4, EstablishedGrown, Zenon
  <2> QED
    BY <2>1, <2>5
<1>1. AckIn(Append(q, OpenAck(i)), i)
  <2>1. IsAck(OpenAck(i), i)
    BY DEF OpenAck, Frame, IsAck
  <2> QED
    BY <2>1, AckPut, FrameTypes
<1>2. ASSUME ~whole
      PROVE  Established(q, s, i, connect, wait, TRUE, whole, sent, b)
  BY <1>2, Zenon DEF Established
<1> QED
  BY <1>0, <1>1, <1>2, Zenon DEF Established

(* A chunk read from the target: put on a whole channel, lost on another.  *)
LEMMA EstablishedSent ==
  ASSUME NEW q \in Seq(Frames), NEW s \in Sockets, NEW i \in Ids,
         NEW connect, NEW wait,
         NEW whole, NEW sent \in Nat, NEW b \in Seq(Payloads),
         Established(q, s, i, connect, wait, TRUE, whole, sent, b)
  PROVE  /\ whole => Established(Append(q, Data(i, Down(s, sent + 1))), s, i, connect, wait,
                                 TRUE, whole, sent + 1, b)
         /\ ~whole => Established(q, s, i, connect, wait, TRUE, whole, sent + 1, b)
<1> DEFINE base == Len(b) - Skip(connect, wait)
           f == Data(i, Down(s, sent + 1))
<1>0. Skip(connect, wait) <= Len(b)
  BY Zenon DEF Established
<1>1. base \in Nat
  BY <1>0, SkipType
<1>2. /\ Numbered(q, s, "down", base, sent) /\ Increasing(q, s)
      /\ whole => LastThere(q, s, base, sent)
      /\ base <= sent
      /\ connect /\ wait => AckFirst(q, s, i) /\ (whole => AckIn(q, i))
  BY Zenon DEF Established
<1>3. f \in Frames
  BY FrameTypes, PayloadTypes, sent + 1 \in Nat
<1>4. IsData(f, s) /\ ~IsAck(f, i) /\ f.pay = Payload(s, "down", sent + 1)
  BY DEF Data, Down, Payload, Frame, IsData, IsAck
<1> HIDE DEF f
<1>5. base <= sent + 1
  BY <1>1, <1>2
<1> HIDE DEF base
<1>6. ASSUME whole
      PROVE  Established(Append(q, f), s, i, connect, wait, TRUE, whole, sent + 1, b)
  <2>1. /\ Numbered(Append(q, f), s, "down", base, sent + 1) /\ Increasing(Append(q, f), s)
        /\ LastThere(Append(q, f), s, base, sent + 1)
    BY <1>1, <1>2, <1>3, <1>4, <1>6, MoreChunk
  <2>2. connect /\ wait => AckFirst(Append(q, f), s, i) /\ AckIn(Append(q, f), i)
    BY <1>2, <1>3, <1>4, <1>6, ChunkAfterAck, Zenon
  <2> QED
    BY <1>5, <1>6, <2>1, <2>2, Zenon DEF Established, base
<1>7. ASSUME ~whole
      PROVE  Established(q, s, i, connect, wait, TRUE, whole, sent + 1, b)
  <2>1. Numbered(q, s, "down", base, sent + 1)
    BY <1>1, <1>2, MoreSent
  <2> QED
    BY <1>5, <1>7, <2>1, Zenon DEF Established, base
<1> QED
  BY <1>6, <1>7 DEF f

-----------------------------------------------------------------------------
(* Then a socket without a target.                                         *)

(* What it has been given is right: nothing, or a page.                    *)
LEMMA UnmadeGiven ==
  ASSUME NEW q \in Seq(Frames), NEW s \in Sockets, NEW i \in Ids,
         NEW connect, NEW wait, NEW asked,
         NEW sent \in Nat, NEW b \in Seq(Payloads),
         Unmade(q, s, i, connect, wait, asked, sent, b)
  PROVE  /\ OwnBytes(b, s, sent) /\ AnswerFirst(b, s)
         /\ b = <<>> \/ b = <<Page(s)>>
<1>1. b = <<>> \/ b = <<Page(s)>>
  BY Zenon DEF Unmade
<1>2. CASE b = <<>>
  <2>1. Answers(b) = 0
    BY <1>2, Zenon DEF Answers
  <2>2. Len(b) = 0 /\ Len(b) - 0 = 0 /\ 0 <= sent
        /\ (\A n \in 1 .. 0 : FALSE) /\ (\A n \in 1 .. Len(b) : FALSE)
    BY <1>2
  <2>3. OwnBytes(b, s, sent)
    BY <2>1, <2>2 DEF OwnBytes
  <2>4. \A n \in 1 .. Len(b) : FALSE
    BY <2>2
  <2>5. AnswerFirst(b, s)
    BY <2>4, Zenon DEF AnswerFirst
  <2> QED
    BY <1>1, <2>3, <2>5
<1>3. CASE b = <<Page(s)>>
  <2>1. Len(b) = 1 /\ b[1].tag = "page"
    BY <1>3 DEF Page, Payload
  <2>2. \A n \in 1 .. Len(b) : b[n].tag # "down" /\ b[n].tag # "reply"
    BY <2>1
  <2> QED
    BY <1>1, <1>3, <2>2, Zenon DEF OwnBytes, AnswerFirst
<1> QED
  BY <1>1, <1>2, <1>3

(* A frame taken off the channel: it is no OPEN_ACK of s.                  *)
LEMMA UnmadePassed ==
  ASSUME NEW q \in Seq(Frames), q # <<>>, NEW s \in Sockets, NEW i \in Ids,
         NEW connect, NEW wait, NEW asked,
         NEW sent \in Nat, NEW b \in Seq(Payloads),
         Unmade(q, s, i, connect, wait, asked, sent, b)
  PROVE  /\ ~IsAck(Head(q), i)
         /\ ~IsData(Head(q), s) => Unmade(Tail(q), s, i, connect, wait, asked, sent, b)
BY TailAnswers, Zenon DEF Unmade

(* The page taken off the channel.                                         *)
LEMMA UnmadePage ==
  ASSUME NEW q \in Seq(Frames), q # <<>>, NEW s \in Sockets, NEW i \in Ids,
         NEW connect, NEW wait, NEW asked,
         NEW sent \in Nat, NEW b \in Seq(Payloads),
         Unmade(q, s, i, connect, wait, asked, sent, b), IsData(Head(q), s)
  PROVE  Unmade(Tail(q), s, i, connect, wait, asked, sent, Append(b, Head(q).pay))
<1>1. ~Silent(q, s)
  BY TailAnswers, Zenon
<1>2. /\ b = <<>> /\ OnePage(q, s) /\ ~asked
      /\ ~AckIn(q, i) /\ (connect => wait) /\ sent = 0
  BY <1>1, Zenon DEF Unmade
<1>3. Head(q).pay = Page(s) /\ Silent(Tail(q), s) /\ ~AckIn(Tail(q), i)
  BY <1>2, TailAnswers, Zenon
<1>4. Append(b, Head(q).pay) = <<Page(s)>>
  BY <1>2, <1>3
<1> QED
  BY <1>2, <1>3, <1>4, Zenon DEF Unmade

(* Frames put on the channel that are not about s.                         *)
LEMMA UnmadeGrown ==
  ASSUME NEW q \in Seq(Frames), NEW s \in Sockets, NEW i \in Ids,
         NEW connect, NEW wait, NEW asked,
         NEW sent \in Nat, NEW b \in Seq(Payloads),
         Unmade(q, s, i, connect, wait, asked, sent, b),
         NEW fs \in Seq(Frames),
         \A n \in 1 .. Len(fs) : ~IsData(fs[n], s) /\ ~IsAck(fs[n], i)
  PROVE  Unmade(q \o fs, s, i, connect, wait, asked, sent, b)
<1>1. /\ Silent(q, s) => Silent(q \o fs, s)
      /\ OnePage(q, s) => OnePage(q \o fs, s)
      /\ ~AckIn(q, i) => ~AckIn(q \o fs, i)
  BY MoreAnswers, Zenon
<1> QED
  BY <1>1, Zenon DEF Unmade

(* The OPEN or the lookup is over.                                         *)
LEMMA UnmadeLess ==
  ASSUME NEW q \in Seq(Frames), NEW s \in Sockets, NEW i \in Ids,
         NEW connect, NEW wait, NEW asked,
         NEW sent \in Nat, NEW b \in Seq(Payloads),
         Unmade(q, s, i, connect, wait, asked, sent, b), NEW asked2, asked2 => asked
  PROVE  Unmade(q, s, i, connect, wait, asked2, sent, b)
BY Zenon DEF Unmade

(* A refusal is the only thing ever put on the channel for this socket.    *)
LEMMA UnmadeRefused ==
  ASSUME NEW q \in Seq(Frames), NEW s \in Sockets, NEW i \in Ids,
         NEW connect, NEW wait,
         NEW sent \in Nat, NEW b \in Seq(Payloads),
         Unmade(q, s, i, connect, wait, TRUE, sent, b)
  PROVE  Unmade(q \o Refusal(i, s), s, i, connect, wait, FALSE, sent, b)
<1>1. /\ b = <<>> /\ Silent(q, s) /\ ~AckIn(q, i)
      /\ (connect => wait) /\ sent = 0
  BY Zenon DEF Unmade
<1>2. OnePage(q \o Refusal(i, s), s) /\ ~AckIn(q \o Refusal(i, s), i)
  BY <1>1, PagePut, Zenon
<1> QED
  BY <1>1, <1>2, Zenon DEF Unmade

(* The target socket is created: nothing is on the way yet.                *)
LEMMA UnmadeEstablished ==
  ASSUME NEW q \in Seq(Frames), NEW s \in Sockets, NEW i \in Ids,
         NEW connect, NEW wait, NEW whole,
         NEW sent \in Nat, NEW b \in Seq(Payloads),
         Unmade(q, s, i, connect, wait, TRUE, sent, b)
  PROVE  Established(q, s, i, connect, wait, FALSE, whole, sent, b)
<1>1. b = <<>> /\ Silent(q, s) /\ (connect => wait) /\ sent = 0
  BY Zenon DEF Unmade
<1> DEFINE skip == Skip(connect, wait)
           base == Len(b) - skip
<1>2. skip = 0 /\ Len(b) = 0 /\ base = 0
  BY <1>1 DEF Skip
<1>3. skip <= Len(b) /\ base <= sent /\ ~(skip = 1) /\ ~(base < sent)
      /\ \A n \in 1 .. base : FALSE
  BY <1>1, <1>2
<1> HIDE DEF base
<1>4. /\ Numbered(q, s, "down", base, sent) /\ Increasing(q, s)
      /\ LastThere(q, s, base, sent) /\ AckFirst(q, s, i)
  BY <1>1, <1>3, Zenon DEF Silent, Numbered, Increasing, LastThere, AckFirst
<1> QED
  BY <1>1, <1>3, <1>4, Zenon DEF Established, skip, base

(* The 502 of onClose, added to what either kind of socket was given.      *)
LEMMA BadGateway ==
  ASSUME NEW s \in Sockets, NEW sent \in Nat, NEW b, b = <<>> \/ b = <<Page(s)>>
  PROVE  OwnBytes(Append(b, Reply(502)), s, sent) /\ AnswerFirst(Append(b, Reply(502)), s)
<1> DEFINE z == Append(b, Reply(502))
<1>1. Reply(502).tag = "reply" /\ Page(s).tag = "page"
  BY DEF Reply, Page, Payload
<1>2. CASE b = <<>>
  <2>1. z = <<Reply(502)>>
    BY <1>2
  <2>2. Len(z) = 1 /\ z # <<>> /\ z[1].tag = "reply"
    BY <1>1, <2>1
  <2> HIDE DEF z
  <2>3. Answers(z) = 1
    BY <2>2, Zenon DEF Answers
  <2>4. Len(z) - 1 = 0 /\ 0 <= sent /\ \A n \in 1 .. 0 : FALSE
    BY <2>2
  <2>5. OwnBytes(z, s, sent)
    BY <2>3, <2>4 DEF OwnBytes
  <2>6. \A n \in 1 .. Len(z) : ~(n > 1) /\ z[n].tag # "down"
    BY <2>2
  <2>7. AnswerFirst(z, s)
    BY <2>6 DEF AnswerFirst
  <2> QED
    BY <2>5, <2>7 DEF z
<1>3. CASE b = <<Page(s)>>
  <2>1. z = <<Page(s), Reply(502)>>
    BY <1>3, TwoItems, PayloadTypes
  <2>2. Len(z) = 2 /\ z[1] = Page(s) /\ z[2] = Reply(502)
    <3> HIDE DEF z
    <3> QED
      BY <2>1, TwoItems, PayloadTypes
  <2> HIDE DEF z
  <2>3. \A n \in 1 .. Len(z) : z[n].tag # "down" /\ (n > 1 => n = 2)
    BY <1>1, <2>2
  <2>4. OwnBytes(z, s, sent)
    BY <2>1, Zenon DEF OwnBytes
  <2>5. AnswerFirst(z, s)
    BY <2>2, <2>3, Zenon DEF AnswerFirst
  <2> QED
    BY <2>4, <2>5 DEF z
<1> QED
  BY <1>2, <1>3

-----------------------------------------------------------------------------
(* What a step of the server does to a browser socket.                     *)

(* A socket that is open is in the Map, and its session is the active one. *)
LEMMA OpenInMap ==
  ASSUME TypeInv, RegisteredInSession, LiveInMap, NEW s \in Sockets, bst[s] = "open"
  PROVE  /\ regId[s] \in Ids /\ conns[regId[s]] = s
         /\ regSess[s] = activeWs /\ activeWs \in Sessions
<1>1. /\ regId \in [Sockets -> 0 .. IdLimit]
      /\ activeWs \in 0 .. NumSessions
  BY DEF TypeInv, TypeOK, FrameProtocolTypeOK
<1>2. regId[s] # 0 /\ conns[regId[s]] = s
  BY DEF LiveInMap
<1>3. regId[s] \in Ids
  BY <1>1, <1>2, TunnelAssumption DEF Ids
<1>4. regSess[s] = activeWs /\ activeWs # 0
  BY <1>2, <1>3, TunnelAssumption DEF RegisteredInSession
<1>5. activeWs \in Sessions
  BY <1>1, <1>4, TunnelAssumption DEF Sessions
<1> QED
  BY <1>2, <1>3, <1>4, <1>5

(* The entry of an id in the Map is the socket that has this id.           *)
LEMMA EntryIsOwn ==
  ASSUME TypeInv, RegisteredInSession, NEW n \in Ids, conns[n] # None
  PROVE  conns[n] \in Sockets /\ regId[conns[n]] = n /\ regSess[conns[n]] = activeWs
BY DEF TypeInv, TypeOK, FrameProtocolTypeOK, RegisteredInSession

(* Nothing changes for a socket that is open and stays so but the frames   *)
(* that are on their way to other ones.                                    *)
Same(s, k, i) ==
  /\ bst[s] = "open" /\ waiting'[s] = waiting[s]
  /\ \/ up'[k] = up[k]
     \/ /\ up[k] # <<>> /\ up'[k] = Tail(up[k])
        /\ ~IsData(Head(up[k]), s) /\ ~IsAck(Head(up[k]), i)
  /\ WholeUp(k)' => WholeUp(k)
  /\ AskedFor(s, k, i)' => AskedFor(s, k, i)

Nothing(s, k, i) ==
  /\ bIn'[s] = bIn[s] /\ method'[s] = method[s]
  /\ bst'[s] = "open" => Same(s, k, i)

(* The 502 of onClose goes to a socket that is destroyed then.             *)
Evicted(s) ==
  /\ bst[s] = "open" /\ waiting[s] /\ bst'[s] # "open"
  /\ bIn'[s] = Append(bIn[s], Reply(502)) /\ method'[s] = method[s]

(* A frame of its own session is handled for it.                           *)
OwnFrame(s, k, i) ==
  /\ bst[s] = "open" /\ method'[s] = method[s]
  /\ up[k] # <<>> /\ up'[k] = Tail(up[k])
  /\ WholeUp(k)' => WholeUp(k)
  /\ AskedFor(s, k, i)' => AskedFor(s, k, i)

OwnData(s, k, i) ==
  /\ OwnFrame(s, k, i)
  /\ IsData(Head(up[k]), s)
  /\ bIn'[s] = Append(bIn[s], Head(up[k]).pay) /\ waiting'[s] = waiting[s]

OwnAck(s, k, i) ==
  /\ OwnFrame(s, k, i)
  /\ IsAck(Head(up[k]), i)
  /\ waiting'[s] = FALSE
  /\ waiting[s] => bIn'[s] = Append(bIn[s], Reply(200))
  /\ ~waiting[s] => bIn'[s] = bIn[s]

(* A 'close' of the protocol.                                              *)
LEMMA EvictOn ==
  ASSUME TypeInv, RegisteredInSession, LiveInMap, NEW I, Evict(I), NEW s \in Sockets
  PROVE  /\ bst'[s] = "open" =>
              bst[s] = "open" /\ waiting'[s] = waiting[s] /\ regId[s] \notin I
         /\ \/ bIn'[s] = bIn[s]
            \/ /\ bst[s] = "open" /\ waiting[s] /\ bst'[s] # "open"
               /\ bIn'[s] = Append(bIn[s], Reply(502))
<1> DEFINE doomed == Listening(I) \cup {conns[i] : i \in I}
<1>1. waiting[s] \in BOOLEAN /\ bst[s] \in BStates
  BY DEF TypeInv, TypeOK, FrameProtocolTypeOK
<1>2. /\ bst'[s] = IF s \in doomed THEN Destroy(bst[s]) ELSE bst[s]
      /\ waiting'[s] = (waiting[s] /\ s \notin Listening(I))
      /\ bIn'[s] = IF s \in Listening(I) /\ bst[s] = "open"
                     THEN Append(bIn[s], Reply(502)) ELSE bIn[s]
  BY DEF Evict
<1>3. s \in Listening(I) => waiting[s] /\ s \in doomed
  BY DEF Listening
<1>4. s \in doomed => bst'[s] # "open"
  BY <1>2 DEF Destroy
<1>5. bst[s] = "open" /\ regId[s] \in I => s \in doomed
  BY OpenInMap, Zenon
<1> HIDE DEF doomed
<1>6. ASSUME bst'[s] = "open"
      PROVE  bst[s] = "open" /\ waiting'[s] = waiting[s] /\ regId[s] \notin I
  BY <1>1, <1>2, <1>3, <1>4, <1>5, <1>6
<1> QED
  BY <1>2, <1>3, <1>4, <1>6

(* Frames that may be put on the channel of an open socket's session ask   *)
(* for nothing in its name.                                                *)
LEMMA AskedNoMore ==
  ASSUME TypeInv, LiveInMap, ServerNext, UNCHANGED cliVars,
         NEW s \in Sockets, bst[s] = "open", NEW k \in Sessions, NEW i \in Ids
  PROVE  AskedFor(s, k, i)' => AskedFor(s, k, i)
<1>1. pend' = pend
  BY DEF cliVars
<1>2. down \in Channels
  BY DEF TypeInv, TypeOK, TunnelTypeOK, Channels
<1>3. ASSUME NEW fs, ServerPuts(k, fs)
      PROVE  fs \in Seq(Frames) /\ \A n \in 1 .. Len(fs) : ~IsOpen(fs[n], s)
  <2>1. CASE \E j \in Ids : fs = <<Close(j)>>
    <3>1. PICK j \in Ids : fs = <<Close(j)>>
      BY <2>1
    <3>2. Close(j) \in Frames /\ Close(j).type = "CLOSE"
      BY FrameTypes DEF Close, Frame
    <3> QED
      BY <3>1, <3>2 DEF IsOpen
  <2>2. CASE \E u \in Sockets : BrowserSend(u) /\ fs = <<Data(regId[u], Up(u, bSent[u] + 1))>>
    <3>1. PICK u \in Sockets : BrowserSend(u) /\ fs = <<Data(regId[u], Up(u, bSent[u] + 1))>>
      BY <2>2
    <3>2. regId[u] \in Ids /\ bSent[u] + 1 \in Nat
      <4>1. regId[u] \in 0 .. IdLimit /\ bSent[u] \in Nat /\ regId[u] # 0
        BY <3>1 DEF BrowserSend, TypeInv, TypeOK, FrameProtocolTypeOK
      <4> QED
        BY <4>1, TunnelAssumption DEF Ids
    <3>3. /\ Data(regId[u], Up(u, bSent[u] + 1)) \in Frames
          /\ Data(regId[u], Up(u, bSent[u] + 1)).type = "DATA"
      BY <3>2, FrameTypes, PayloadTypes DEF Data, Frame
    <3> QED
      BY <3>1, <3>3 DEF IsOpen
  <2>3. CASE \E u \in Sockets, m \in Methods, extra \in BOOLEAN :
               Request(u, m, extra) /\ fs = RequestFrames(u, m, extra)
    <3>1. PICK u \in Sockets, m \in Methods, extra \in BOOLEAN :
                 Request(u, m, extra) /\ fs = RequestFrames(u, m, extra)
      BY <2>3
    <3> DEFINE j == Candidate(FirstFree)
    <3>2. u # s /\ FreeAttempts # {}
      BY <3>1 DEF Request
    <3>3. j \in Ids
      <4>1. nextId \in Ids
        BY DEF TypeInv, TypeOK, FrameProtocolTypeOK
      <4> QED
        BY <3>2, <4>1, FirstFreeExists, CandidateType, FrameProtocolAssumption DEF FreeAttempts
    <3>4. fs = <<Open(j, u)>> \/ fs = <<Open(j, u), Data(j, Up(u, 1))>>
      BY <3>1 DEF RequestFrames
    <3> HIDE DEF j
    <3>5. /\ Open(j, u) \in Frames /\ Open(j, u).pay.of = u
          /\ Data(j, Up(u, 1)) \in Frames /\ Data(j, Up(u, 1)).type = "DATA"
      BY <3>3, FrameTypes, PayloadTypes DEF Open, Data, Frame, Target, Payload
    <3>6. CASE fs = <<Open(j, u)>>
      BY <3>2, <3>5, <3>6 DEF IsOpen
    <3>7. CASE fs = <<Open(j, u), Data(j, Up(u, 1))>>
      <4>1. Len(fs) = 2 /\ fs[1] = Open(j, u) /\ fs[2] = Data(j, Up(u, 1))
        BY <3>7
      <4>2. fs \in Seq(Frames)
        BY <3>5, <3>7
      <4> QED
        BY <3>2, <3>5, <4>1, <4>2 DEF IsOpen
    <3> QED
      BY <3>4, <3>6, <3>7
  <2> QED
    BY <1>3, <2>1, <2>2, <2>3 DEF ServerPuts
<1>4. ASSUME NEW fs, ServerPuts(k, fs), down'[k] = down[k] \o fs, OpenIn(down'[k], s)
      PROVE  OpenIn(down[k], s)
  <2> DEFINE q == down[k]
             z == q \o fs
  <2>1. q \in Seq(Frames) /\ fs \in Seq(Frames)
    BY <1>2, <1>3, <1>4 DEF Channels
  <2>2. /\ \A n \in 1 .. Len(q) : z[n] = q[n]
        /\ \A n \in 1 .. Len(z) :
             n \in 1 .. Len(q) \/ (n - Len(q) \in 1 .. Len(fs) /\ z[n] = fs[n - Len(q)])
    BY <2>1, MoreFrames, Zenon
  <2>3. \A n \in 1 .. Len(fs) : ~IsOpen(fs[n], s)
    BY <1>3, <1>4
  <2> HIDE DEF q, z
  <2>4. OpenIn(z, s) => OpenIn(q, s)
    BY <2>2, <2>3, Zenon DEF OpenIn
  <2> QED
    BY <1>4, <2>4 DEF q, z
<1>5. OpenIn(down'[k], s) => OpenIn(down[k], s)
  BY <1>4, DownByServer
<1> QED
  BY <1>1, <1>5 DEF AskedFor

(* The frame at the head of a channel to the server that is about a socket *)
(* of the Map came from the session of that socket.                        *)
LEMMA HeadOfOwn ==
  ASSUME TypeInv, RegisteredInSession, LiveInMap, Sourced, UpTagged, FreshIds,
         NEW j \in Sessions, Arrives(j), NEW s \in Sockets, bst[s] = "open"
  PROVE  LET f == Head(up[j])
         IN  /\ f.id \in Ids /\ f.pay \in Payloads
             /\ up[j] # <<>> /\ up' = [up EXCEPT ![j] = Tail(up[j])]
             /\ f.id = regId[s] => j = regSess[s] /\ conns[f.id] = s
             /\ f.id # regId[s] => ~IsData(f, s) /\ ~IsAck(f, regId[s]) /\ conns[f.id] # s
             /\ f.id = regId[s] /\ f.type = "DATA" => IsData(f, s)
<1> DEFINE f == Head(up[j])
<1>1. /\ up \in Channels /\ up[j] # <<>> /\ up' = [up EXCEPT ![j] = Tail(up[j])]
      /\ regId[s] \in Ids /\ conns[regId[s]] = s /\ conns \in [Ids -> Sockets \cup {None}]
  BY OpenInMap DEF Arrives, TypeInv, TypeOK, TunnelTypeOK, FrameProtocolTypeOK, Channels
<1>2. /\ up[j] \in Seq(Frames)
      /\ f = up[j][1] /\ 1 \in 1 .. Len(up[j]) /\ f \in Frames
  BY <1>1 DEF Channels
<1>3. f.id \in Ids /\ f.id # 0 /\ f.pay \in Payloads
  BY <1>2 DEF Frames, Ids
<1>4. PICK u \in Sockets : Holds(regId, regSess, u, j, f.id)
  BY <1>2, Zenon DEF Sourced, UpSourced, UpFrom
<1>5. f.type = "DATA" => f.pay.of \in Sockets /\ Holds(regId, regSess, f.pay.of, j, f.id)
  BY <1>2, Zenon DEF UpTagged, DownFrom
<1> HIDE DEF f
<1>6. f.id = regId[s] => u = s
  BY <1>3, <1>4 DEF Holds, FreshIds
<1>7. f.id = regId[s] => j = regSess[s] /\ conns[f.id] = s
  BY <1>1, <1>4, <1>6 DEF Holds
<1>8. f.id # regId[s] => ~IsData(f, s) /\ ~IsAck(f, regId[s])
  BY <1>5 DEF IsData, IsAck, Holds
<1>9. conns[f.id] = s => f.id = regId[s]
  BY <1>3, EntryIsOwn, TunnelAssumption
<1>10. f.id = regId[s] /\ f.type = "DATA" => f.pay.of = s
  BY <1>3, <1>5 DEF Holds, FreshIds
<1> QED
  BY <1>1, <1>3, <1>7, <1>8, <1>9, <1>10 DEF f, IsData

(* The server handles a frame, for a socket that is open.                  *)
LEMMA FrameOnOpen ==
  ASSUME TypeInv, RegisteredInSession, LiveInMap, Sourced, UpTagged, FreshIds,
         UNCHANGED cliVars, NEW j \in Sessions, ServerHandles(j),
         NEW s \in Sockets, bst[s] = "open",
         NEW k \in Sessions, NEW i \in Ids, Holds(regId, regSess, s, k, i)
  PROVE  Nothing(s, k, i) \/ Evicted(s) \/ OwnData(s, k, i) \/ OwnAck(s, k, i)
<1> DEFINE f == Head(up[j])
<1>0. regSess[s] = k /\ regId[s] = i
  BY DEF Holds
<1>1. /\ Arrives(j) /\ ServerNext
      /\ method' = method /\ srvWs' = srvWs /\ cliWs' = cliWs
  BY DEF ServerHandles, FrameUnknown, FrameData, FrameClose, FrameOpenAck, Arrives, ServerNext
<1>2. /\ f.id \in Ids /\ f.pay \in Payloads
      /\ up[j] # <<>> /\ up' = [up EXCEPT ![j] = Tail(up[j])]
      /\ f.id = i => j = k /\ conns[f.id] = s
      /\ f.id # i => ~IsData(f, s) /\ ~IsAck(f, i) /\ conns[f.id] # s
      /\ f.id = i /\ f.type = "DATA" => IsData(f, s)
  BY <1>0, <1>1, HeadOfOwn
<1>3. conns[i] = s
  BY <1>0, OpenInMap
<1>4. WholeUp(k)' = WholeUp(k) /\ (AskedFor(s, k, i)' => AskedFor(s, k, i))
  <2>1. AskedFor(s, k, i)' => AskedFor(s, k, i)
    BY <1>1, <1>3, AskedNoMore
  <2> QED
    BY <1>1, <2>1 DEF WholeUp
<1>5. /\ conns \in [Ids -> Sockets \cup {None}] /\ bst \in [Sockets -> BStates]
      /\ bIn \in [Sockets -> Seq(Payloads)] /\ waiting \in [Sockets -> BOOLEAN]
      /\ up \in Channels
  BY DEF TypeInv, TypeOK, FrameProtocolTypeOK, TunnelTypeOK, Channels
<1>6. ASSUME f.id # i
      PROVE  up'[k] = up[k] \/ /\ up[k] # <<>> /\ up'[k] = Tail(up[k])
                               /\ ~IsData(Head(up[k]), s) /\ ~IsAck(Head(up[k]), i)
  <2>1. CASE j = k
    BY <1>2, <1>3, <1>5, <1>6, <2>1 DEF Channels
  <2>2. CASE j # k
    BY <1>2, <1>3, <1>5, <2>2 DEF Channels
  <2> QED
    BY <2>1, <2>2
<1>7. ASSUME f.id = i
      PROVE  j = k /\ conns[f.id] = s /\ OwnFrame(s, k, i)
  <2>1. j = k /\ conns[f.id] = s
    BY <1>2, <1>7
  <2>2. up[k] # <<>> /\ up'[k] = Tail(up[k])
    BY <1>2, <1>3, <1>5, <2>1 DEF Channels
  <2> QED
    BY <1>1, <1>4, <2>1, <2>2 DEF OwnFrame
<1>8. s # None
  BY TunnelAssumption
<1> HIDE DEF f
<1>9. CASE FrameUnknown(j)
  <2>1. conns[f.id] = None /\ UNCHANGED <<bst, waiting, bIn>>
    BY <1>9 DEF FrameUnknown, f
  <2>2. f.id # i
    BY <1>7, <1>8, <2>1
  <2> QED
    BY <1>1, <1>4, <1>6, <2>1, <2>2 DEF Nothing, Same
<1>10. CASE FrameData(j)
  <2>1. /\ f.type = "DATA" /\ waiting' = waiting
        /\ \/ UNCHANGED <<bst, bIn>> /\ Gone(bst[conns[f.id]])
           \/ /\ bst[conns[f.id]] \in {"ending", "ended"}
              /\ bst' = [bst EXCEPT ![conns[f.id]] = "destroyed"] /\ bIn' = bIn
           \/ /\ bIn' = [bIn EXCEPT ![conns[f.id]] = Append(@, f.pay)]
              /\ bst' = bst \/ bst' = [bst EXCEPT ![conns[f.id]] = "destroyed"]
    BY <1>10 DEF FrameData, f
  <2>2. CASE f.id = i
    <3>1. bIn'[s] = Append(bIn[s], f.pay)
      BY <1>5, <1>7, <2>1, <2>2 DEF Gone
    <3> QED
      BY <1>2, <1>7, <2>1, <2>2, <3>1 DEF OwnData, f
  <2>3. CASE f.id # i
    <3>1. bIn'[s] = bIn[s]
      BY <1>2, <1>5, <2>1, <2>3
    <3> QED
      BY <1>1, <1>4, <1>6, <2>1, <2>3, <3>1 DEF Nothing, Same
  <2> QED
    BY <2>2, <2>3
<1>11. CASE FrameClose(j)
  <2>1. Evict({f.id})
    BY <1>11 DEF FrameClose, f
  <2>2. /\ bst'[s] = "open" => waiting'[s] = waiting[s] /\ f.id # i
        /\ \/ bIn'[s] = bIn[s]
           \/ waiting[s] /\ bst'[s] # "open" /\ bIn'[s] = Append(bIn[s], Reply(502))
    BY <1>0, <2>1, EvictOn
  <2> QED
    BY <1>1, <1>4, <1>6, <2>2 DEF Nothing, Same, Evicted
<1>12. CASE FrameOpenAck(j)
  <2>1. /\ f.type = "OPEN_ACK" /\ bst' = bst
        /\ waiting'[s] = (waiting[s] /\ s \notin Listening({f.id}))
        /\ bIn'[s] = IF s \in Listening({f.id}) /\ ~Gone(bst[s])
                       THEN Append(bIn[s], Reply(200)) ELSE bIn[s]
    BY <1>12 DEF FrameOpenAck, f
  <2>2. s \in Listening({f.id}) <=> waiting[s] /\ f.id = i
    BY <1>0 DEF Listening
  <2>3. ~Gone(bst[s])
    BY DEF Gone
  <2>4. CASE f.id = i
    <3>1. IsAck(Head(up[k]), i)
      BY <1>7, <2>1, <2>4 DEF IsAck, f
    <3>2. /\ waiting'[s] = FALSE
          /\ waiting[s] => bIn'[s] = Append(bIn[s], Reply(200))
          /\ ~waiting[s] => bIn'[s] = bIn[s]
      BY <1>5, <2>1, <2>2, <2>3, <2>4
    <3> QED
      BY <1>7, <2>4, <3>1, <3>2 DEF OwnAck
  <2>5. CASE f.id # i
    <3>1. waiting'[s] = waiting[s] /\ bIn'[s] = bIn[s]
      BY <1>5, <2>1, <2>2, <2>5
    <3> QED
      BY <1>1, <1>4, <1>6, <2>5, <3>1 DEF Nothing, Same
  <2> QED
    BY <2>4, <2>5
<1> QED
  BY <1>9, <1>10, <1>11, <1>12 DEF ServerHandles

(* An event of a browser socket or a request, for a socket that is open.   *)
LEMMA EventOnOpen ==
  ASSUME TypeInv, RegisteredInSession, LiveInMap, UNCHANGED cliVars, NEW u \in Sockets,
         \/ \E m \in Methods : (\E extra \in BOOLEAN : Request(u, m, extra)) \/ Refuse(u, m)
         \/ BrowserSend(u) \/ BrowserEnd(u) \/ BrowserAbort(u)
         \/ EndingDestroyed(u) \/ BrowserClosed(u) \/ BrowserRead(u),
         NEW s \in Sockets, bst[s] = "open", NEW k \in Sessions, NEW i \in Ids
  PROVE  Nothing(s, k, i)
<1>1. /\ bIn \in [Sockets -> Seq(Payloads)]
      /\ waiting \in [Sockets -> BOOLEAN]
      /\ method \in [Sockets -> {"none", "connect", "http", "badhttp"}]
  BY DEF TypeInv, TypeOK, FrameProtocolTypeOK
<1>2. ServerNext
  BY DEF ServerNext
<1>3. AskedFor(s, k, i)' => AskedFor(s, k, i)
  BY <1>2, AskedNoMore
<1>4. /\ UNCHANGED <<up, srvWs, cliWs>>
      /\ bIn'[s] = bIn[s] /\ waiting'[s] = waiting[s] /\ method'[s] = method[s]
  <2>1. ASSUME NEW m \in Methods, NEW extra \in BOOLEAN, Request(u, m, extra)
        PROVE  <1>4!:
    <3>1. u # s /\ UNCHANGED <<up, srvWs, cliWs>>
      BY <2>1 DEF Request
    <3>2. /\ \E b : waiting' = [waiting EXCEPT ![u] = b]
          /\ method' = [method EXCEPT ![u] = m]
          /\ bIn' = bIn \/ \E b : bIn' = [bIn EXCEPT ![u] = b]
      BY <2>1, Zenon DEF Request
    <3>3. bIn'[s] = bIn[s]
      BY <1>1, <3>1, <3>2
    <3>4. waiting'[s] = waiting[s] /\ method'[s] = method[s]
      BY <1>1, <3>1, <3>2
    <3> QED
      BY <3>1, <3>3, <3>4
  <2>2. ASSUME NEW m \in Methods, Refuse(u, m)
        PROVE  <1>4!:
    <3>1. u # s /\ UNCHANGED <<up, srvWs, cliWs, waiting>>
      BY <2>2 DEF Refuse, tunnelVars
    <3>2. /\ method' = [method EXCEPT ![u] = m]
          /\ bIn' = [bIn EXCEPT ![u] = Append(@, Reply(IF IsReady THEN 503 ELSE 502))]
      BY <2>2, Zenon DEF Refuse
    <3>3. bIn'[s] = bIn[s]
      BY <1>1, <3>1, <3>2
    <3>4. waiting'[s] = waiting[s] /\ method'[s] = method[s]
      BY <1>1, <3>1, <3>2
    <3> QED
      BY <3>1, <3>3, <3>4
  <2>3. CASE BrowserSend(u) \/ BrowserEnd(u) \/ BrowserAbort(u) \/ EndingDestroyed(u)
             \/ BrowserRead(u)
    BY <2>3 DEF BrowserSend, BrowserEnd, BrowserAbort, EndingDestroyed, BrowserRead, tunnelVars
  <2>4. CASE BrowserClosed(u)
    BY <1>1, <2>4 DEF BrowserClosed
  <2> QED
    BY <2>1, <2>2, <2>3, <2>4
<1> QED
  BY <1>3, <1>4 DEF Nothing, Same, WholeUp

(* A session begins, is shut or ends, for a socket that is open.           *)
LEMMA SessionOnOpen ==
  ASSUME TypeInv, RegisteredInSession, LiveInMap, UNCHANGED cliVars, NEW j \in Sessions,
         Connection(j) \/ ServerShuts(j) \/ ServerWsClosed(j),
         NEW s \in Sockets, bst[s] = "open",
         NEW k \in Sessions, NEW i \in Ids, Holds(regId, regSess, s, k, i)
  PROVE  Nothing(s, k, i) \/ Evicted(s)
<1>1. /\ regId[s] = i /\ conns[i] = s /\ activeWs = k /\ activeWs # 0
      /\ method' = method /\ s # None
  BY OpenInMap, TunnelAssumption
     DEF Holds, Sessions, Connection, ServerShuts, ServerWsClosed, srvVars
<1>2. /\ up \in Channels
      /\ srvWs \in [Sessions -> WsStates]
      /\ cliWs \in [Sessions -> WsStates]
  BY DEF TypeInv, TypeOK, TunnelTypeOK, Channels
<1>3. ASSUME Evict(Registered)
      PROVE  Nothing(s, k, i) \/ Evicted(s)
  <2>1. i \in Registered
    BY <1>1 DEF Registered
  <2> QED
    BY <1>1, <1>3, <2>1, EvictOn DEF Nothing, Evicted
<1>4. ServerNext
  BY DEF ServerNext
<1>5. AskedFor(s, k, i)' => AskedFor(s, k, i)
  BY <1>4, AskedNoMore
<1>6. CASE Connection(j)
  <2>1. Evict(Registered)
    BY <1>1, <1>6 DEF Connection, TunnelClose
  <2> QED
    BY <1>3, <2>1
<1>7. CASE ServerShuts(j)
  <2>1. UNCHANGED <<bst, waiting, bIn, up, cliWs>> /\ srvWs' = Shut(srvWs, j)
    BY <1>7 DEF ServerShuts, srvVars
  <2>2. WholeUp(k)' => WholeUp(k)
    BY <1>2, <2>1 DEF WholeUp, Shut
  <2> QED
    BY <1>1, <1>5, <2>1, <2>2 DEF Nothing, Same
<1>8. CASE ServerWsClosed(j)
  <2>1. /\ srvWs' = [srvWs EXCEPT ![j] = "closed"]
        /\ up' = [up EXCEPT ![j] = <<>>]
        /\ cliWs' = cliWs
        /\ TunnelClose(activeWs = j)
    BY <1>8 DEF ServerWsClosed
  <2>2. CASE j = k
    BY <1>1, <1>3, <2>1, <2>2 DEF TunnelClose
  <2>3. CASE j # k
    <3>1. Evict({})
      BY <1>1, <2>1, <2>3 DEF TunnelClose
    <3>2. up'[k] = up[k] /\ srvWs'[k] = srvWs[k]
      BY <1>2, <2>1, <2>3 DEF Channels
    <3> QED
      BY <1>1, <1>5, <2>1, <3>1, <3>2, EvictOn DEF Nothing, Same, Evicted, WholeUp
  <2> QED
    BY <2>2, <2>3
<1> QED
  BY <1>6, <1>7, <1>8

(* A socket that is open: every step of the server.                        *)
LEMMA ServerOnOpen ==
  ASSUME TypeInv, RegisteredInSession, LiveInMap, Sourced, UpTagged, FreshIds,
         UNCHANGED cliVars, ServerNext,
         NEW s \in Sockets, bst[s] = "open",
         NEW k \in Sessions, NEW i \in Ids, Holds(regId, regSess, s, k, i)
  PROVE  Nothing(s, k, i) \/ Evicted(s) \/ OwnData(s, k, i) \/ OwnAck(s, k, i)
<1>1. ASSUME NEW u \in Sockets,
             \/ \E m \in Methods : (\E extra \in BOOLEAN : Request(u, m, extra)) \/ Refuse(u, m)
             \/ BrowserSend(u) \/ BrowserEnd(u) \/ BrowserAbort(u)
             \/ EndingDestroyed(u) \/ BrowserClosed(u) \/ BrowserRead(u)
      PROVE  Nothing(s, k, i)
  BY <1>1, EventOnOpen
<1>2. ASSUME NEW j \in Sessions, ServerHandles(j)
      PROVE  Nothing(s, k, i) \/ Evicted(s) \/ OwnData(s, k, i) \/ OwnAck(s, k, i)
  BY <1>2, FrameOnOpen
<1>3. ASSUME NEW j \in Sessions, Connection(j) \/ ServerShuts(j) \/ ServerWsClosed(j)
      PROVE  Nothing(s, k, i) \/ Evicted(s)
  BY <1>3, SessionOnOpen
<1> HIDE DEF Nothing, Evicted, OwnData, OwnAck
<1> QED
  BY <1>1, <1>2, <1>3, Zenon DEF ServerNext

(* A socket that is not open is given nothing but a refusal.               *)
LEMMA ServerOnOther ==
  ASSUME TypeInv, RegisteredInSession, LiveInMap, Waiters, FreshIds, ServerNext,
         NEW s \in Sockets, bst[s] # "open"
  PROVE  \/ \E m \in Methods : (\E extra \in BOOLEAN : Request(s, m, extra)) \/ Refuse(s, m)
         \/ bIn'[s] = bIn[s] /\ method'[s] = method[s] /\ bst'[s] # "open"
<1> DEFINE Goal == bIn'[s] = bIn[s] /\ method'[s] = method[s] /\ bst'[s] # "open"
<1>1. /\ bIn \in [Sockets -> Seq(Payloads)] /\ bst \in [Sockets -> BStates]
      /\ waiting \in [Sockets -> BOOLEAN]
      /\ method \in [Sockets -> {"none", "connect", "http", "badhttp"}]
  BY DEF TypeInv, TypeOK, FrameProtocolTypeOK
<1>2. ASSUME NEW I, Evict(I), method' = method
      PROVE  Goal
  BY <1>2, EvictOn
<1>3. ASSUME NEW u \in Sockets, u # s,
             \E m \in Methods : (\E extra \in BOOLEAN : Request(u, m, extra)) \/ Refuse(u, m)
      PROVE  Goal
  <2>1. PICK m \in Methods : (\E extra \in BOOLEAN : Request(u, m, extra)) \/ Refuse(u, m)
    BY <1>3
  <2>2. ASSUME NEW extra \in BOOLEAN, Request(u, m, extra)
        PROVE  Goal
    BY <1>1, <1>3, <2>2 DEF Request
  <2>3. ASSUME Refuse(u, m)
        PROVE  Goal
    BY <1>1, <1>3, <2>3 DEF Refuse
  <2> QED
    BY <2>1, <2>2, <2>3
<1>4. ASSUME NEW u \in Sockets,
             \/ BrowserSend(u) \/ BrowserEnd(u) \/ BrowserAbort(u)
             \/ EndingDestroyed(u) \/ BrowserClosed(u) \/ BrowserRead(u)
      PROVE  Goal
  BY <1>1, <1>4 DEF BrowserSend, BrowserEnd, BrowserAbort, EndingDestroyed, BrowserClosed,
     BrowserRead
<1>5. ASSUME NEW j \in Sessions, Connection(j) \/ ServerShuts(j) \/ ServerWsClosed(j)
      PROVE  Goal
  <2>1. \/ UNCHANGED <<bIn, bst, method>>
        \/ method' = method /\ \E I : Evict(I)
    BY <1>5, Zenon DEF Connection, ServerShuts, ServerWsClosed, TunnelClose, srvVars
  <2> QED
    BY <1>2, <2>1
<1>6. ASSUME NEW j \in Sessions, ServerHandles(j)
      PROVE  Goal
  <2> DEFINE f == Head(up[j])
  <2>1. Arrives(j) /\ method' = method
    BY <1>6 DEF ServerHandles, FrameUnknown, FrameData, FrameClose, FrameOpenAck, Arrives
  <2>2. f \in Frames
    BY <2>1, TakeType DEF Arrives, TypeInv, TypeOK, TunnelTypeOK, Channels
  <2>3. f.id \in Ids
    BY <2>2 DEF Frames
  <2>4. conns[f.id] # None =>
          /\ conns[f.id] \in Sockets /\ regId[conns[f.id]] = f.id /\ f.id # 0
          /\ bst[conns[f.id]] \in {"open", "ending", "destroyed"}
    BY <2>3, EntryIsOwn DEF RegisteredInSession, Ids
  <2> HIDE DEF f
  <2>5. CASE FrameUnknown(j)
    BY <2>1, <2>5 DEF FrameUnknown
  <2>6. CASE FrameData(j)
    <3>1. /\ conns[f.id] # None
          /\ \/ UNCHANGED <<bst, bIn>>
             \/ bst' = [bst EXCEPT ![conns[f.id]] = "destroyed"] /\ bIn' = bIn
             \/ /\ bst[conns[f.id]] \in {"idle", "open"}
                /\ bIn' = [bIn EXCEPT ![conns[f.id]] = Append(@, f.pay)]
                /\ bst' = bst \/ bst' = [bst EXCEPT ![conns[f.id]] = "destroyed"]
      BY <2>6 DEF FrameData, f
    <3>2. bst[conns[f.id]] \in {"idle", "open"} => conns[f.id] # s
      BY <2>4, <3>1
    <3> QED
      BY <1>1, <2>1, <2>4, <3>1, <3>2
  <2>7. CASE FrameClose(j)
    BY <1>2, <2>1, <2>7 DEF FrameClose
  <2>8. CASE FrameOpenAck(j)
    <3>1. /\ conns[f.id] # None /\ bst' = bst
          /\ bIn'[s] = IF s \in Listening({f.id}) /\ ~Gone(bst[s])
                         THEN Append(bIn[s], Reply(200)) ELSE bIn[s]
      BY <2>8 DEF FrameOpenAck, f
    <3>2. ~(s \in Listening({f.id}) /\ ~Gone(bst[s]))
      <4> SUFFICES ASSUME s \in Listening({f.id}), ~Gone(bst[s])
                   PROVE  FALSE
        OBVIOUS
      <4>1. waiting[s] /\ regId[s] = f.id
        BY DEF Listening
      <4>2. conns[f.id] = s
        BY <2>4, <3>1, <4>1 DEF FreshIds
      <4> QED
        BY <2>4, <3>1, <4>1, <4>2 DEF Gone, Waiters
    <3> QED
      BY <2>1, <3>1, <3>2
  <2> QED
    BY <1>6, <2>5, <2>6, <2>7, <2>8 DEF ServerHandles
<1> HIDE DEF Goal
<1> SUFFICES ASSUME ~\E m \in Methods : (\E extra \in BOOLEAN : Request(s, m, extra)) \/ Refuse(s, m)
             PROVE  Goal
  BY DEF Goal
<1> QED
  BY <1>3, <1>4, <1>5, <1>6, Zenon DEF ServerNext

-----------------------------------------------------------------------------
(* What a step of the client does for a browser socket.                    *)

(* Frames that are not about socket s, whose id is i.                      *)
Elsewhere(fs, s, i) ==
  \A n \in 1 .. Len(fs) : ~IsOpen(fs[n], s) /\ ~IsData(fs[n], s) /\ ~IsAck(fs[n], i)

More(s, k, i) ==
  up'[k] = up[k] \/ \E fs \in Seq(Frames) : Elsewhere(fs, s, i) /\ up'[k] = up[k] \o fs

(* The replies of the client that are not about s.                         *)
LEMMA RepliesElsewhere ==
  ASSUME NEW x \in Ids, NEW s \in Sockets, NEW i
  PROVE  /\ <<Close(x)>> \in Seq(Frames) /\ Elsewhere(<<Close(x)>>, s, i)
         /\ <<OpenAck(x)>> \in Seq(Frames) /\ (x # i => Elsewhere(<<OpenAck(x)>>, s, i))
         /\ \A u \in Sockets :
              /\ Refusal(x, u) \in Seq(Frames)
              /\ u # s => Elsewhere(Refusal(x, u), s, i)
         /\ \A u \in Sockets : \A n \in Nat :
              /\ <<Data(x, Down(u, n))>> \in Seq(Frames)
              /\ u # s => Elsewhere(<<Data(x, Down(u, n))>>, s, i)
<1>1. /\ Close(x) \in Frames /\ OpenAck(x) \in Frames
      /\ \A u \in Sockets : Data(x, Page(u)) \in Frames
      /\ \A u \in Sockets : \A n \in Nat : Data(x, Down(u, n)) \in Frames
  BY FrameTypes, PayloadTypes
<1>2. /\ ~IsOpen(Close(x), s) /\ ~IsData(Close(x), s) /\ ~IsAck(Close(x), i)
      /\ ~IsOpen(OpenAck(x), s) /\ ~IsData(OpenAck(x), s) /\ (x # i => ~IsAck(OpenAck(x), i))
  BY DEF IsOpen, IsData, IsAck, Close, OpenAck, Frame
<1>3. \A u, p : LET f == Data(x, p)
                IN  ~IsOpen(f, s) /\ ~IsAck(f, i) /\ (p.of # s => ~IsData(f, s))
  BY DEF IsOpen, IsData, IsAck, Data, Frame
<1>4. \A u \in Sockets : Page(u).of = u /\ \A n \in Nat : Down(u, n).of = u
  BY DEF Page, Down, Payload
<1>5. \A f \in Frames : Len(<<f>>) = 1 /\ <<f>>[1] = f /\ <<f>> \in Seq(Frames)
  OBVIOUS
<1>6. \A f, g \in Frames : /\ Len(<<f, g>>) = 2 /\ <<f, g>>[1] = f /\ <<f, g>>[2] = g
                           /\ <<f, g>> \in Seq(Frames)
  OBVIOUS
<1>7. \A u \in Sockets : Refusal(x, u) = <<Data(x, Page(u)), Close(x)>>
  BY DEF Refusal
<1> HIDE DEF Ids
<1>8. <<Close(x)>> \in Seq(Frames) /\ Elsewhere(<<Close(x)>>, s, i)
  BY <1>1, <1>2, <1>5 DEF Elsewhere
<1>9. <<OpenAck(x)>> \in Seq(Frames) /\ (x # i => Elsewhere(<<OpenAck(x)>>, s, i))
  BY <1>1, <1>2, <1>5 DEF Elsewhere
<1>10. ASSUME NEW u \in Sockets
       PROVE  Refusal(x, u) \in Seq(Frames) /\ (u # s => Elsewhere(Refusal(x, u), s, i))
  <2>1. Refusal(x, u) \in Seq(Frames)
    <3>1. Data(x, Page(u)) \in Frames /\ Close(x) \in Frames
      BY <1>1
    <3> QED
      BY <1>6, <1>7, <3>1
  <2>2. u # s => ~IsOpen(Data(x, Page(u)), s) /\ ~IsData(Data(x, Page(u)), s)
                 /\ ~IsAck(Data(x, Page(u)), i)
    BY <1>3, <1>4
  <2>3. Len(Refusal(x, u)) = 2 /\ Refusal(x, u)[1] = Data(x, Page(u))
        /\ Refusal(x, u)[2] = Close(x)
    BY <1>1, <1>6, <1>7
  <2>4. \A n \in 1 .. 2 : n = 1 \/ n = 2
    OBVIOUS
  <2> QED
    BY <1>2, <2>1, <2>2, <2>3, <2>4 DEF Elsewhere
<1>11. ASSUME NEW u \in Sockets, NEW n \in Nat
       PROVE  /\ <<Data(x, Down(u, n))>> \in Seq(Frames)
              /\ u # s => Elsewhere(<<Data(x, Down(u, n))>>, s, i)
  <2>1. u # s => ~IsOpen(Data(x, Down(u, n)), s) /\ ~IsData(Data(x, Down(u, n)), s)
                 /\ ~IsAck(Data(x, Down(u, n)), i)
    BY <1>3, <1>4
  <2> QED
    BY <1>1, <1>5, <2>1 DEF Elsewhere
<1> QED
  BY <1>8, <1>9, <1>10, <1>11

(* Such a reply leaves the channel of s, or puts it there.                 *)
LEMMA RepliedElsewhere ==
  ASSUME TypeInv, NEW j \in Sessions, NEW fs \in Seq(Frames), ReplyFrames(j, fs),
         NEW s, NEW k \in Sessions, NEW i, Elsewhere(fs, s, i)
  PROVE  More(s, k, i)
<1>1. up'[k] = up[k] \/ (k = j /\ up'[k] = up[k] \o fs)
  BY ReplyFramesPuts
<1> QED
  BY <1>1 DEF More

(* A reply reaches the channel when nothing refuses or drops it.           *)
LEMMA RepliedOn ==
  ASSUME TypeInv, NEW k \in Sessions, NEW fs, ReplyFrames(k, fs)
  PROVE  up'[k] = IF WholeUp(k) THEN up[k] \o fs ELSE up[k]
BY DEF ReplyFrames, Put, WholeUp, TypeInv, TypeOK, TunnelTypeOK

(* The client has nothing more to handle for a socket than it had.         *)
LEMMA ClientAsks ==
  ASSUME TypeInv, Sourced, FreshIds, ClientNext,
         NEW s \in Sockets, NEW k \in Sessions, NEW i \in Ids, Holds(regId, regSess, s, k, i)
  PROVE  AskedFor(s, k, i)' => AskedFor(s, k, i)
<1>1. down \in Channels /\ pend \in [Sessions -> [Ids -> Seq(Payloads) \cup {None}]]
  BY DEF TypeInv, TypeOK, TunnelTypeOK, ConnectionManagerTypeOK, Channels
<1>2. OpenIn(down'[k], s) => OpenIn(down[k], s)
  <2>1. down[k] # <<>> /\ OpenIn(Tail(down[k]), s) => OpenIn(down[k], s)
    BY <1>1, TailFrames DEF OpenIn, Channels
  <2>2. ~OpenIn(<<>>, s)
    BY DEF OpenIn
  <2> QED
    BY <2>1, <2>2, DownByClient
<1>3. ASSUME NEW j \in Sessions, ClientHandles(j), pend'[k][i] # None
      PROVE  AskedFor(s, k, i)
  <2>1. CASE k # j \/ i # Head(down[j]).id
    BY <1>3, <2>1, OthersUntouched DEF AskedFor
  <2>2. CASE k = j /\ i = Head(down[j]).id
    <3>1. pend[k][i] # None \/ (Head(down[k]).type = "OPEN" /\ down[k] # <<>>)
      <4>1. \/ (Head(down[k]).type = "OPEN" /\ down[k] # <<>>)
            \/ pend[k][Head(down[k]).id] # None
            \/ pend' = pend
            \/ pend' = Removed(pend, k, Head(down[k]).id)
        BY <1>3, <2>2, Zenon DEF ClientHandles, OpenRejected, OpenForbidden, OpenAddress,
           OpenName, DataConnected, DataOverflow, DataPending, DataUnknown, CloseFrame, Establish,
           Delivered
      <4> QED
        BY <1>1, <1>3, <2>2, <4>1 DEF Removed
    <3>2. ASSUME Head(down[k]).type = "OPEN", down[k] # <<>>
          PROVE  OpenIn(down[k], s)
      <4>1. Head(down[k]) = down[k][1] /\ 1 \in 1 .. Len(down[k])
        BY <1>1, <3>2, TailFrames DEF Channels
      <4>2. Head(down[k]).pay.of \in Sockets
            /\ Holds(regId, regSess, Head(down[k]).pay.of, k, i)
        BY <2>2, <3>2, <4>1 DEF Sourced, DownSourced, DownFrom
      <4>3. Head(down[k]).pay.of = s
        BY <4>2 DEF FreshIds, Holds, Ids
      <4> QED
        BY <3>2, <4>1, <4>3 DEF OpenIn, IsOpen
    <3> QED
      BY <3>1, <3>2 DEF AskedFor
  <2> QED
    BY <2>1, <2>2
<1>4. (\E j \in Sessions : ClientHandles(j)) \/ pend'[k][i] = pend[k][i] \/ pend'[k][i] = None
  <2>1. ASSUME NEW d \in dns, Resolves(d)
        PROVE  pend'[k][i] = pend[k][i] \/ pend'[k][i] = None
    <3>1. pend' = pend \/ pend' = Removed(pend, d.sess, d.id)
      BY <2>1 DEF Resolves, LookupStale, LookupFails, LookupSucceeds, Establish
    <3> QED
      BY <1>1, <3>1 DEF Removed
  <2>2. ASSUME NEW j \in Sessions, ClientShuts(j) \/ ClientWsClosed(j)
        PROVE  pend' = pend
    BY <2>2 DEF ClientShuts, ClientWsClosed, CloseAllTargets, cliVars
  <2>3. ASSUME NEW u \in Sockets,
               TargetConnects(u) \/ TargetSends(u) \/ TargetEnds(u) \/ TargetFails(u) \/ TargetClosed(u)
        PROVE  pend' = pend
    BY <2>3 DEF TargetConnects, TargetSends, TargetEnds, TargetFails, TargetClosed
  <2> QED
    BY <2>1, <2>2, <2>3, Zenon DEF ClientNext
<1>5. pend'[k][i] # None => AskedFor(s, k, i)
  BY <1>3, <1>4 DEF AskedFor
<1> QED
  BY <1>2, <1>5 DEF AskedFor

(* What a step of the client does for socket s, registered in session k    *)
(* under id i: nothing but what goes to others, ...                        *)
Kept(s, k, i) ==
  /\ tSent'[s] = tSent[s] /\ (tst'[s] = "open" => tst[s] = "open")
  /\ WholeUp(k)' => WholeUp(k)
  /\ AskedFor(s, k, i)' => AskedFor(s, k, i)

Untouched(s, k, i) == Kept(s, k, i) /\ tKey'[s] = tKey[s] /\ More(s, k, i)

(* ... its target refused or made, ...                                     *)
Refused(s, k, i) ==
  /\ Kept(s, k, i) /\ tKey'[s] = tKey[s]
  /\ AskedFor(s, k, i) /\ ~AskedFor(s, k, i)'
  /\ up'[k] = up[k] \/ up'[k] = up[k] \o Refusal(i, s)

Made(s, k, i) ==
  /\ Kept(s, k, i) /\ tKey'[s] # NoKey /\ tst'[s] # "open"
  /\ AskedFor(s, k, i) /\ ~AskedFor(s, k, i)'
  /\ up'[k] = up[k]

(* ... its target connected, or a chunk read from it.                      *)
OnTarget(s, k, i) ==
  /\ tKey'[s] = tKey[s] /\ tKey[s] # NoKey
  /\ (WholeUp(k)' <=> WholeUp(k))
  /\ AskedFor(s, k, i)' => AskedFor(s, k, i)

On(s, k, i) ==
  /\ OnTarget(s, k, i) /\ tSent'[s] = tSent[s] /\ tst'[s] = "open"
  /\ up'[k] = IF WholeUp(k) THEN up[k] \o <<OpenAck(i)>> ELSE up[k]

Chunk(s, k, i) ==
  /\ OnTarget(s, k, i) /\ tSent'[s] = tSent[s] + 1 /\ tst[s] = "open" /\ tst'[s] = "open"
  /\ up'[k] = IF WholeUp(k) THEN up[k] \o <<Data(i, Down(s, tSent[s] + 1))>> ELSE up[k]

(* A frame that is not the OPEN of s is answered, if at all, by a CLOSE or *)
(* by a page for another socket.                                           *)
LEMMA FrameForOthers ==
  ASSUME TypeInv, NEW j \in Sessions, ClientHandles(j),
         NEW s \in Sockets, NEW k \in Sessions, NEW i,
         ~IsOpen(Head(down[j]), s)
  PROVE  tKey'[s] = tKey[s] /\ (tst'[s] = "open" => tst[s] = "open") /\ More(s, k, i)
<1> DEFINE f == Head(down[j])
<1>1. /\ tKey \in [Sockets -> [sess : Sessions, id : Ids] \cup {NoKey}]
      /\ tst \in [Sockets -> TStates]
      /\ down \in Channels
  BY DEF TypeInv, TypeOK, ConnectionManagerTypeOK, TunnelTypeOK, Channels
<1>2. down[j] # <<>>
  BY DEF ClientHandles, OpenRejected, OpenForbidden, OpenAddress, OpenName, DataConnected,
     DataOverflow, DataPending, DataUnknown, CloseFrame, Delivered
<1>3. f \in Frames /\ f.id \in Ids /\ (f.type = "OPEN" => f.pay.of \in Sockets /\ f.pay.of # s)
  <2>1. f \in Frames
    BY <1>1, <1>2, TakeType
  <2> QED
    BY <2>1 DEF IsOpen, Frames
<1>4. /\ <<Close(f.id)>> \in Seq(Frames) /\ Elsewhere(<<Close(f.id)>>, s, i)
      /\ f.type = "OPEN" => /\ Refusal(f.id, f.pay.of) \in Seq(Frames)
                            /\ Elsewhere(Refusal(f.id, f.pay.of), s, i)
  BY <1>3, RepliesElsewhere
<1> HIDE DEF f
<1>5. More(s, k, i)
  <2>1. \/ up' = up
        \/ ReplyFrames(j, <<Close(f.id)>>)
        \/ f.type = "OPEN" /\ ReplyFrames(j, Refusal(f.id, f.pay.of))
    BY Zenon DEF ClientHandles, OpenRejected, OpenForbidden, OpenAddress, OpenName, DataConnected,
       DataOverflow, DataPending, DataUnknown, CloseFrame, f
  <2>2. CASE up' = up
    BY <2>2 DEF More
  <2>3. CASE ReplyFrames(j, <<Close(f.id)>>)
    BY <1>4, <2>3, RepliedElsewhere
  <2>4. CASE f.type = "OPEN" /\ ReplyFrames(j, Refusal(f.id, f.pay.of))
    BY <1>4, <2>4, RepliedElsewhere
  <2> QED
    BY <2>1, <2>2, <2>3, <2>4
<1>6. \/ tKey' = tKey /\ (tst' = tst \/ \E u : tst' = [tst EXCEPT ![u] = "destroyed"]
                                     \/ \E v : tst' = [tst EXCEPT ![v] = TDestroy(@)])
      \/ /\ f.type = "OPEN"
         /\ tKey' = [tKey EXCEPT ![f.pay.of] = [sess |-> j, id |-> f.id]]
         /\ tst' = [tst EXCEPT ![f.pay.of] = "connecting"]
  BY Zenon DEF ClientHandles, OpenRejected, OpenForbidden, OpenAddress, OpenName, DataConnected,
     DataOverflow, DataPending, DataUnknown, CloseFrame, Establish, f
<1>7. tKey'[s] = tKey[s] /\ (tst'[s] = "open" => tst[s] = "open")
  BY <1>1, <1>3, <1>6 DEF TDestroy
<1> QED
  BY <1>5, <1>7

(* The client handles a frame.                                             *)
LEMMA ClientFrame ==
  ASSUME TypeInv, Sourced, FreshIds, NEW j \in Sessions, ClientHandles(j), srvWs' = srvWs,
         NEW s \in Sockets, NEW k \in Sessions, NEW i \in Ids, Holds(regId, regSess, s, k, i),
         StreamOK(down[k], s, cConn[k][i], pend[k][i], tIn[s], bSent[s], Whole(k))
  PROVE  Untouched(s, k, i) \/ Refused(s, k, i) \/ Made(s, k, i)
<1> DEFINE f == Head(down[j])
<1>1. /\ down \in Channels
      /\ pend \in [Sessions -> [Ids -> Seq(Payloads) \cup {None}]]
      /\ tKey \in [Sockets -> [sess : Sessions, id : Ids] \cup {NoKey}]
      /\ tst \in [Sockets -> TStates]
  BY DEF TypeInv, TypeOK, ConnectionManagerTypeOK, TunnelTypeOK, Channels
<1>2. /\ down[j] # <<>> /\ down' = [down EXCEPT ![j] = Tail(@)]
      /\ UNCHANGED <<cliWs, tSent>>
  BY DEF ClientHandles, OpenRejected, OpenForbidden, OpenAddress, OpenName, DataConnected,
     DataOverflow, DataPending, DataUnknown, CloseFrame, Delivered
<1>3. AskedFor(s, k, i)' => AskedFor(s, k, i)
  <2>1. ClientNext
    BY DEF ClientNext
  <2> QED
    BY <2>1, ClientAsks
<1>4. WholeUp(k)' <=> WholeUp(k)
  BY <1>2 DEF WholeUp
<1>5. CASE ~IsOpen(f, s)
  <2>1. tKey'[s] = tKey[s] /\ (tst'[s] = "open" => tst[s] = "open") /\ More(s, k, i)
    BY <1>5, FrameForOthers
  <2> QED
    BY <1>2, <1>3, <1>4, <2>1 DEF Untouched, Kept
<1>6. CASE IsOpen(f, s)
  <2>1. f \in Frames /\ f.type = "OPEN" /\ f.pay.of = s /\ f.id = i /\ j = k
    <3>1. f = down[j][1] /\ 1 \in 1 .. Len(down[j]) /\ f \in Frames
      BY <1>1, <1>2, TailFrames, TakeType DEF Channels
    <3>2. Holds(regId, regSess, s, j, f.id)
      BY <1>6, <3>1 DEF Sourced, DownSourced, DownFrom, IsOpen
    <3> QED
      BY <1>6, <3>1, <3>2 DEF Holds, IsOpen
  <2>2. /\ OpenIn(down[k], s) /\ pend[k][i] = None
        /\ ~OpenIn(down'[k], s) /\ AskedFor(s, k, i)
    <3>1. down[k] \in Seq(Frames) /\ down'[k] = Tail(down[k]) /\ down[k] # <<>>
      BY <1>1, <1>2, <2>1 DEF Channels
    <3>2. Head(down[k]) = down[k][1] /\ 1 \in 1 .. Len(down[k])
      BY <3>1, TailFrames
    <3>3. OpenIn(down[k], s)
      BY <1>6, <2>1, <3>2 DEF OpenIn
    <3>4. OpenFirst(down[k], s) /\ pend[k][i] = None
      BY <3>3 DEF StreamOK
    <3>5. ~OpenIn(Tail(down[k]), s)
      BY <1>6, <2>1, <3>1, <3>4, TailOpen
    <3> QED
      BY <3>1, <3>3, <3>4, <3>5 DEF AskedFor
  <2>3. ~AskedFor(s, k, i)' <=> pend'[k][i] = None
    BY <2>2 DEF AskedFor
  <2> HIDE DEF f
  <2>4. CASE \E h \in Hosts : OpenForbidden(j, h)
    <3>1. /\ ReplyFrames(k, Refusal(i, s))
          /\ pend' = pend \/ pend' = Removed(pend, k, i)
          /\ tKey' = tKey /\ tst' = tst
      BY <2>1, <2>4 DEF OpenForbidden, f
    <3>2. up'[k] = up[k] \/ up'[k] = up[k] \o Refusal(i, s)
      BY <3>1, RepliedOn
    <3>3. pend'[k][i] = None
      BY <1>1, <2>2, <3>1 DEF Removed
    <3> QED
      BY <1>2, <1>3, <1>4, <2>2, <2>3, <3>1, <3>2, <3>3 DEF Refused, Kept
  <2>5. CASE \E h \in Hosts : OpenAddress(j, h)
    <3>1. Establish(k, i, s, <<>>) /\ up' = up
      BY <2>1, <2>5 DEF OpenAddress, f
    <3>2. pend'[k][i] = None /\ tst'[s] = "connecting" /\ tKey'[s] = [sess |-> k, id |-> i]
      BY <1>1, <3>1 DEF Removed, Establish
    <3>3. tKey'[s] # NoKey
      BY <3>2 DEF NoKey, Ids
    <3> QED
      BY <1>2, <1>3, <1>4, <2>2, <2>3, <3>1, <3>2, <3>3 DEF Made, Kept
  <2>6. CASE \E h \in Hosts : OpenRejected(j, h) \/ OpenName(j, h)
    <3>1. tKey' = tKey /\ tst' = tst /\ (up' = up \/ ReplyFrames(j, <<Close(f.id)>>))
      BY <2>6, Zenon DEF OpenRejected, OpenName, f
    <3>2. <<Close(f.id)>> \in Seq(Frames) /\ Elsewhere(<<Close(f.id)>>, s, i)
      BY <2>1, RepliesElsewhere
    <3>3. More(s, k, i)
      <4>1. CASE up' = up
        BY <4>1 DEF More
      <4>2. CASE ReplyFrames(j, <<Close(f.id)>>)
        BY <3>2, <4>2, RepliedElsewhere
      <4> QED
        BY <3>1, <4>1, <4>2
    <3> QED
      BY <1>2, <1>3, <1>4, <3>1, <3>3 DEF Untouched, Kept
  <2> QED
    BY <2>1, <2>4, <2>5, <2>6, Zenon DEF ClientHandles, DataConnected, DataOverflow, DataPending,
       DataUnknown, CloseFrame, f
<1> QED
  BY <1>5, <1>6

(* A lookup ends.                                                          *)
LEMMA ClientLookup ==
  ASSUME TypeInv, Sourced, FreshIds, NEW d \in dns, Resolves(d), srvWs' = srvWs,
         NEW s \in Sockets, NEW k \in Sessions, NEW i \in Ids, Holds(regId, regSess, s, k, i),
         StreamOK(down[k], s, cConn[k][i], pend[k][i], tIn[s], bSent[s], Whole(k))
  PROVE  Untouched(s, k, i) \/ Refused(s, k, i) \/ Made(s, k, i)
<1>1. /\ pend \in [Sessions -> [Ids -> Seq(Payloads) \cup {None}]]
      /\ tKey \in [Sockets -> [sess : Sessions, id : Ids] \cup {NoKey}]
      /\ tst \in [Sockets -> TStates]
      /\ d.sess \in Sessions /\ d.id \in Ids /\ d.of \in Sockets
  BY DEF TypeInv, TypeOK, ConnectionManagerTypeOK, Lookups
<1>2. UNCHANGED <<cliWs, down, tSent>>
  BY DEF Resolves, LookupStale, LookupFails, LookupSucceeds, tunnelVars
<1>3. AskedFor(s, k, i)' => AskedFor(s, k, i)
  <2>1. ClientNext
    BY DEF ClientNext
  <2> QED
    BY <2>1, ClientAsks
<1>4. WholeUp(k)' <=> WholeUp(k)
  BY <1>2 DEF WholeUp
<1>5. CASE LookupStale(d)
  BY <1>2, <1>3, <1>4, <1>5 DEF LookupStale, Untouched, Kept, More, tunnelVars
<1>6. CASE ~LookupStale(d) /\ d.of # s
  <2>1. CASE LookupFails(d)
    <3>1. More(s, k, i)
      <4>1. Refusal(d.id, d.of) \in Seq(Frames) /\ Elsewhere(Refusal(d.id, d.of), s, i)
        BY <1>1, <1>6, RepliesElsewhere
      <4>2. ReplyFrames(d.sess, Refusal(d.id, d.of))
        BY <2>1 DEF LookupFails
      <4> QED
        BY <1>1, <4>1, <4>2, RepliedElsewhere
    <3> QED
      BY <1>2, <1>3, <1>4, <2>1, <3>1 DEF LookupFails, Untouched, Kept
  <2>2. CASE LookupSucceeds(d)
    <3>1. up' = up /\ tKey'[s] = tKey[s] /\ tst'[s] = tst[s]
      BY <1>1, <1>6, <2>2 DEF LookupSucceeds, Establish, tunnelVars
    <3> QED
      BY <1>2, <1>3, <1>4, <3>1 DEF Untouched, Kept, More
  <2> QED
    BY <1>6, <2>1, <2>2 DEF Resolves
<1>7. CASE ~LookupStale(d) /\ d.of = s
  <2>1. d.sess = k /\ d.id = i
    BY <1>7 DEF Sourced, LookupsSourced, Holds
  <2>2. pend[k][i] # None /\ AskedFor(s, k, i) /\ ~OpenIn(down[k], s)
    BY <1>7, <2>1 DEF Resolves, LookupFails, LookupSucceeds, AskedFor, StreamOK
  <2>3. pend' = Removed(pend, k, i)
    BY <1>7, <2>1 DEF Resolves, LookupFails, LookupSucceeds, Establish
  <2>4. ~AskedFor(s, k, i)'
    BY <1>1, <1>2, <2>2, <2>3 DEF AskedFor, Removed
  <2>5. CASE LookupFails(d)
    <3>1. ReplyFrames(k, Refusal(i, s)) /\ tKey' = tKey /\ tst' = tst
      BY <1>7, <2>1, <2>5 DEF LookupFails
    <3>2. up'[k] = up[k] \/ up'[k] = up[k] \o Refusal(i, s)
      BY <3>1, RepliedOn
    <3> QED
      BY <1>2, <1>3, <1>4, <2>2, <2>4, <3>1, <3>2 DEF Refused, Kept
  <2>6. CASE LookupSucceeds(d)
    <3>1. up' = up /\ tst'[s] = "connecting" /\ tKey'[s] = [sess |-> k, id |-> i]
      BY <1>1, <1>7, <2>1, <2>6 DEF LookupSucceeds, Establish, tunnelVars
    <3>2. tKey'[s] # NoKey
      BY <3>1 DEF NoKey, Ids
    <3> QED
      BY <1>2, <1>3, <1>4, <2>2, <2>4, <3>1, <3>2 DEF Made, Kept
  <2> QED
    BY <1>7, <2>5, <2>6 DEF Resolves
<1> QED
  BY <1>5, <1>6, <1>7

(* An event of a target socket.                                            *)
LEMMA ClientTarget ==
  ASSUME TypeInv, Sourced, FreshIds, NEW u \in Sockets,
         \/ TargetConnects(u) \/ TargetSends(u) \/ TargetEnds(u)
         \/ TargetFails(u) \/ TargetClosed(u),
         srvWs' = srvWs,
         NEW s \in Sockets, NEW k \in Sessions, NEW i \in Ids, Holds(regId, regSess, s, k, i)
  PROVE  Untouched(s, k, i) \/ On(s, k, i) \/ Chunk(s, k, i)
<1> DEFINE j == tKey[u].sess
           x == tKey[u].id
<1>1. /\ tKey \in [Sockets -> [sess : Sessions, id : Ids] \cup {NoKey}]
      /\ tst \in [Sockets -> TStates] /\ tSent \in [Sockets -> Nat]
  BY DEF TypeInv, TypeOK, ConnectionManagerTypeOK
<1>2. UNCHANGED <<cliWs, down, pend, tKey>>
  BY DEF TargetConnects, TargetSends, TargetEnds, TargetFails, TargetClosed
<1>3. AskedFor(s, k, i)' => AskedFor(s, k, i)
  BY <1>2 DEF AskedFor
<1>4. WholeUp(k)' <=> WholeUp(k)
  BY <1>2 DEF WholeUp
<1>5. /\ tKey[u] # NoKey /\ j \in Sessions /\ x \in Ids
      /\ Holds(regId, regSess, u, j, x)
  <2>1. tst[u] # "none"
    BY DEF TargetConnects, TargetSends, TargetEnds, TargetFails, TargetClosed
  <2>2. tKey[u] # NoKey
    BY <2>1 DEF TypeInv, KeysOK
  <2>3. tKey[u] \in [sess : Sessions, id : Ids]
    BY <1>1, <2>2
  <2> QED
    BY <2>2, <2>3 DEF Sourced, KeysSourced
<1>6. u = s => j = k /\ x = i
  BY <1>5 DEF Holds
<1>7. u # s => x # i
  BY <1>5 DEF Holds, FreshIds, Ids
<1>8. \A n \in Nat : n + 1 \in Nat
  OBVIOUS
<1>9. tSent[u] + 1 \in Nat
  BY <1>1, <1>8
<1> HIDE DEF j, x
<1>10. CASE TargetConnects(u)
  <2>1. /\ tst' = [tst EXCEPT ![u] = "open"] /\ tSent' = tSent
        /\ ReplyFrames(j, <<OpenAck(x)>>)
    BY <1>10 DEF TargetConnects, j, x
  <2>2. CASE u = s
    <3>1. up'[k] = IF WholeUp(k) THEN up[k] \o <<OpenAck(i)>> ELSE up[k]
      BY <1>6, <2>1, <2>2, RepliedOn
    <3> QED
      BY <1>1, <1>2, <1>3, <1>4, <1>5, <2>1, <2>2, <3>1 DEF On, OnTarget
  <2>3. CASE u # s
    <3>1. More(s, k, i)
      BY <1>5, <1>7, <2>1, <2>3, RepliesElsewhere, RepliedElsewhere
    <3> QED
      BY <1>1, <1>2, <1>3, <1>4, <2>1, <2>3, <3>1 DEF Untouched, Kept
  <2> QED
    BY <2>2, <2>3
<1>11. CASE TargetSends(u)
  <2>1. /\ tst' = tst /\ tst[u] = "open" /\ tSent' = [tSent EXCEPT ![u] = @ + 1]
        /\ ReplyFrames(j, <<Data(x, Down(u, tSent[u] + 1))>>)
    BY <1>11 DEF TargetSends, j, x
  <2>2. CASE u = s
    <3>1. up'[k] = IF WholeUp(k) THEN up[k] \o <<Data(i, Down(s, tSent[s] + 1))>> ELSE up[k]
      BY <1>6, <2>1, <2>2, RepliedOn
    <3> QED
      BY <1>1, <1>2, <1>3, <1>4, <1>5, <2>1, <2>2, <3>1 DEF Chunk, OnTarget
  <2>3. CASE u # s
    <3>1. /\ <<Data(x, Down(u, tSent[u] + 1))>> \in Seq(Frames)
          /\ Elsewhere(<<Data(x, Down(u, tSent[u] + 1))>>, s, i)
      BY <1>5, <1>9, <2>3, RepliesElsewhere
    <3>2. More(s, k, i)
      BY <1>5, <2>1, <3>1, RepliedElsewhere
    <3> QED
      BY <1>1, <1>2, <1>3, <1>4, <2>1, <2>3, <3>2 DEF Untouched, Kept
  <2> QED
    BY <2>2, <2>3
<1>12. CASE TargetEnds(u) \/ TargetFails(u) \/ TargetClosed(u)
  <2>1. /\ tSent' = tSent /\ TargetCleanup(u)
        /\ \E st \in {"ended", "destroyed", "closed"} : tst' = [tst EXCEPT ![u] = st]
    BY <1>12 DEF TargetEnds, TargetFails, TargetClosed
  <2>2. up' = up \/ ReplyFrames(j, <<Close(x)>>)
    BY <2>1 DEF TargetCleanup, j, x
  <2>3. More(s, k, i)
    <3>1. CASE up' = up
      BY <3>1 DEF More
    <3>2. CASE ReplyFrames(j, <<Close(x)>>)
      BY <1>5, <3>2, RepliesElsewhere, RepliedElsewhere
    <3> QED
      BY <2>2, <3>1, <3>2
  <2>4. tst'[s] = "open" => tst[s] = "open"
    BY <1>1, <2>1
  <2> QED
    BY <1>2, <1>3, <1>4, <2>1, <2>3, <2>4 DEF Untouched, Kept
<1> QED
  BY <1>10, <1>11, <1>12

(* The client's end of a session is shut or closes.                        *)
LEMMA ClientSession ==
  ASSUME TypeInv, Sourced, FreshIds, NEW j \in Sessions, ClientShuts(j) \/ ClientWsClosed(j),
         srvWs' = srvWs,
         NEW s \in Sockets, NEW k \in Sessions, NEW i \in Ids, Holds(regId, regSess, s, k, i)
  PROVE  Untouched(s, k, i)
<1>1. tst \in [Sockets -> TStates] /\ cliWs \in [Sessions -> WsStates]
  BY DEF TypeInv, TypeOK, ConnectionManagerTypeOK, TunnelTypeOK
<1>2. AskedFor(s, k, i)' => AskedFor(s, k, i)
  <2>1. ClientNext
    BY DEF ClientNext
  <2> QED
    BY <2>1, ClientAsks
<1>3. UNCHANGED <<tSent, tKey, up>>
  BY DEF ClientShuts, ClientWsClosed, cliVars
<1>4. tst'[s] = "open" => tst[s] = "open"
  BY <1>1 DEF ClientShuts, ClientWsClosed, CloseAllTargets, TDestroy, cliVars
<1>5. cliWs'[k] = "open" => cliWs[k] = "open"
  BY <1>1 DEF ClientShuts, ClientWsClosed, Shut
<1> QED
  BY <1>2, <1>3, <1>4, <1>5 DEF Untouched, Kept, More, WholeUp

(* Every step of the client.                                               *)
LEMMA ClientOnAny ==
  ASSUME TypeInv, Sourced, FreshIds, ClientNext,
         NEW s \in Sockets, NEW k \in Sessions, NEW i \in Ids, Holds(regId, regSess, s, k, i),
         StreamOK(down[k], s, cConn[k][i], pend[k][i], tIn[s], bSent[s], Whole(k))
  PROVE  \/ Untouched(s, k, i) \/ Refused(s, k, i) \/ Made(s, k, i)
         \/ On(s, k, i) \/ Chunk(s, k, i)
<1>1. srvWs' = srvWs
  BY ServerEndAlone
<1>2. ASSUME NEW j \in Sessions, ClientHandles(j)
      PROVE  Untouched(s, k, i) \/ Refused(s, k, i) \/ Made(s, k, i)
  BY <1>1, <1>2, ClientFrame
<1>3. ASSUME NEW j \in Sessions, ClientShuts(j) \/ ClientWsClosed(j)
      PROVE  Untouched(s, k, i)
  BY <1>1, <1>3, ClientSession
<1>4. ASSUME NEW d \in dns, Resolves(d)
      PROVE  Untouched(s, k, i) \/ Refused(s, k, i) \/ Made(s, k, i)
  BY <1>1, <1>4, ClientLookup
<1>5. ASSUME NEW u \in Sockets,
             TargetConnects(u) \/ TargetSends(u) \/ TargetEnds(u) \/ TargetFails(u) \/ TargetClosed(u)
      PROVE  Untouched(s, k, i) \/ On(s, k, i) \/ Chunk(s, k, i)
  BY <1>1, <1>5, ClientTarget
<1> HIDE DEF Untouched, Refused, Made, On, Chunk
<1> QED
  BY <1>2, <1>3, <1>4, <1>5, Zenon DEF ClientNext

(* A step of the client, for a socket that is open.                        *)
LEMMA AnswerByClient ==
  ASSUME TypeInv, TypeInv', Sourced, FreshIds, ClientNext, UNCHANGED srvVars,
         NEW s \in Sockets, NEW k \in Sessions, NEW i \in Ids, Holds(regId, regSess, s, k, i),
         StreamOK(down[k], s, cConn[k][i], pend[k][i], tIn[s], bSent[s], Whole(k)),
         AnswerOK(s, k, i)
  PROVE  AnswerOK(s, k, i)'
<1> DEFINE c == method[s] = "connect"
           w == waiting[s]
           b == bIn[s]
           q == up[k]
           sent == tSent[s]
           on == tst[s] = "open"
           whole == WholeUp(k)
           asked == AskedFor(s, k, i)
           Goal == AnswerOK(s, k, i)'
           q2 == up'[k]
           sent2 == tSent'[s]
           on2 == tst'[s] = "open"
           whole2 == WholeUp(k)'
           asked2 == AskedFor(s, k, i)'
<1>1. q \in Seq(Frames) /\ q2 \in Seq(Frames) /\ b \in Seq(Payloads) /\ sent \in Nat
  BY DEF TypeInv, TypeOK, TunnelTypeOK, FrameProtocolTypeOK, ConnectionManagerTypeOK
<1>2. /\ tKey[s] # NoKey => ~asked /\ Established(q, s, i, c, w, on, whole, sent, b)
      /\ tKey[s] = NoKey => Unmade(q, s, i, c, w, asked, sent, b)
  BY DEF AnswerOK
<1>3. /\ tKey'[s] # NoKey /\ ~asked2 /\ Established(q2, s, i, c, w, on2, whole2, sent2, b) => Goal
      /\ tKey'[s] = NoKey /\ Unmade(q2, s, i, c, w, asked2, sent2, b) => Goal
  <2>1. method' = method /\ waiting' = waiting /\ bIn' = bIn
    BY DEF srvVars
  <2> QED
    BY <2>1 DEF AnswerOK
<1> HIDE DEF c, w, b
<1>4. CASE Untouched(s, k, i)
  <2>1. /\ tKey'[s] = tKey[s] /\ sent2 = sent /\ (on2 => on) /\ (whole2 => whole)
        /\ asked2 => asked
    BY <1>4 DEF Untouched, Kept
  <2>2. q2 = q \/ \E fs \in Seq(Frames) : Elsewhere(fs, s, i) /\ q2 = q \o fs
    BY <1>4 DEF Untouched, More
  <2> HIDE DEF on, on2, whole, whole2, asked, asked2, q, q2, sent, sent2
  <2>3. CASE tKey[s] # NoKey
    <3>1. Established(q2, s, i, c, w, on, whole, sent, b)
      <4>1. CASE q2 = q
        BY <1>2, <2>3, <4>1
      <4>2. ASSUME NEW fs \in Seq(Frames), Elsewhere(fs, s, i), q2 = q \o fs
            PROVE  Established(q2, s, i, c, w, on, whole, sent, b)
        BY <1>1, <1>2, <2>3, <4>2, EstablishedGrown DEF Elsewhere
      <4> QED
        BY <2>2, <4>1, <4>2
    <3>2. Established(q2, s, i, c, w, on2, whole2, sent, b)
      BY <1>1, <2>1, <3>1, EstablishedLess
    <3> QED
      BY <1>2, <1>3, <2>1, <2>3, <3>2
  <2>4. CASE tKey[s] = NoKey
    <3>1. Unmade(q2, s, i, c, w, asked, sent, b)
      <4>1. CASE q2 = q
        BY <1>2, <2>4, <4>1
      <4>2. ASSUME NEW fs \in Seq(Frames), Elsewhere(fs, s, i), q2 = q \o fs
            PROVE  Unmade(q2, s, i, c, w, asked, sent, b)
        BY <1>1, <1>2, <2>4, <4>2, UnmadeGrown DEF Elsewhere
      <4> QED
        BY <2>2, <4>1, <4>2
    <3>2. Unmade(q2, s, i, c, w, asked2, sent, b)
      BY <1>1, <2>1, <3>1, UnmadeLess
    <3> QED
      BY <1>3, <2>1, <2>4, <3>2
  <2> QED
    BY <2>3, <2>4
<1>5. CASE Refused(s, k, i)
  <2>1. /\ tKey'[s] = tKey[s] /\ sent2 = sent /\ asked /\ ~asked2
        /\ q2 = q \/ q2 = q \o Refusal(i, s)
    BY <1>5 DEF Refused, Kept
  <2> HIDE DEF on, on2, whole, whole2, asked, asked2, q, q2, sent, sent2
  <2>2. tKey[s] = NoKey /\ Unmade(q, s, i, c, w, TRUE, sent, b)
    <3>1. tKey[s] = NoKey /\ Unmade(q, s, i, c, w, asked, sent, b)
      BY <1>2, <2>1
    <3> QED
      BY <1>1, <2>1, <3>1, UnmadeLess
  <2>3. Unmade(q \o Refusal(i, s), s, i, c, w, FALSE, sent, b)
    BY <1>1, <2>2, UnmadeRefused
  <2>4. Unmade(q, s, i, c, w, FALSE, sent, b)
    BY <1>1, <2>2, UnmadeLess
  <2>5. Unmade(q2, s, i, c, w, FALSE, sent, b)
    BY <2>1, <2>3, <2>4
  <2>6. Unmade(q2, s, i, c, w, asked2, sent, b)
    BY <1>1, <2>1, <2>5, UnmadeLess
  <2> QED
    BY <1>3, <2>1, <2>2, <2>6
<1>6. CASE Made(s, k, i)
  <2>1. tKey'[s] # NoKey /\ sent2 = sent /\ asked /\ ~asked2 /\ q2 = q /\ ~on2
    BY <1>6 DEF Made, Kept
  <2> HIDE DEF on, on2, whole, whole2, asked, asked2, q, q2, sent, sent2
  <2>2. Unmade(q, s, i, c, w, TRUE, sent, b)
    BY <1>1, <1>2, <2>1, UnmadeLess
  <2> DEFINE off == FALSE
  <2>3. Established(q, s, i, c, w, off, whole2, sent, b) /\ (on2 => off)
    BY <1>1, <2>1, <2>2, UnmadeEstablished
  <2> HIDE DEF off
  <2>4. Established(q, s, i, c, w, on2, whole2, sent, b)
    BY <1>1, <2>1, <2>3, EstablishedLess
  <2> QED
    BY <1>3, <2>1, <2>4
<1>7. CASE On(s, k, i)
  <2>1. /\ tKey'[s] = tKey[s] /\ tKey[s] # NoKey /\ sent2 = sent /\ (whole2 <=> whole)
        /\ asked2 => asked
        /\ q2 = IF whole THEN q \o <<OpenAck(i)>> ELSE q
    BY <1>7 DEF On, OnTarget
  <2> HIDE DEF on, on2, whole, whole2, asked, asked2, q, q2, sent, sent2
  <2>2. ~asked /\ Established(q, s, i, c, w, on, whole, sent, b)
    BY <1>2, <2>1
  <2>3. OpenAck(i) \in Frames
    BY FrameTypes
  <2>4. whole => q2 = Append(q, OpenAck(i))
    BY <1>1, <2>1, <2>3
  <2>5. Established(q2, s, i, c, w, TRUE, whole, sent, b)
    BY <1>1, <2>1, <2>2, <2>4, EstablishedOn
  <2>6. Established(q2, s, i, c, w, on2, whole2, sent, b)
    BY <1>1, <2>1, <2>5, EstablishedLess
  <2> QED
    BY <1>3, <2>1, <2>2, <2>6
<1>8. CASE Chunk(s, k, i)
  <2> DEFINE f == Data(i, Down(s, tSent[s] + 1))
  <2>1. /\ tKey'[s] = tKey[s] /\ tKey[s] # NoKey /\ sent2 = sent + 1 /\ (whole2 <=> whole)
        /\ asked2 => asked
        /\ on
        /\ q2 = IF whole THEN q \o <<f>> ELSE q
    BY <1>8 DEF Chunk, OnTarget
  <2>2. f = Data(i, Down(s, sent + 1)) /\ f \in Frames
    BY <1>1, FrameTypes, PayloadTypes
  <2> HIDE DEF on, on2, whole, whole2, asked, asked2, q, q2, sent, sent2, f
  <2>3. ~asked /\ Established(q, s, i, c, w, TRUE, whole, sent, b)
    BY <1>1, <1>2, <2>1, EstablishedLess
  <2>4. whole => q2 = Append(q, f)
    BY <1>1, <2>1, <2>2
  <2>5. Established(q2, s, i, c, w, TRUE, whole, sent + 1, b)
    BY <1>1, <2>1, <2>2, <2>3, <2>4, EstablishedSent
  <2>6. Established(q2, s, i, c, w, on2, whole2, sent + 1, b)
    <3>1. sent + 1 \in Nat
      BY <1>1
    <3> QED
      BY <1>1, <2>1, <2>5, <3>1, EstablishedLess
  <2> QED
    BY <1>3, <2>1, <2>3, <2>6
<1> QED
  <2> HIDE DEF on, on2, whole, whole2, asked, asked2, q, q2, sent, sent2
  <2>1. Goal
    BY <1>4, <1>5, <1>6, <1>7, <1>8, ClientOnAny
  <2> QED
    BY <2>1 DEF Goal

-----------------------------------------------------------------------------
(* The server answers a socket that is open.                               *)

(* What an open socket has been given is right, and little while its       *)
(* CONNECT waits for an answer.                                            *)
LEMMA AnswerGiven ==
  ASSUME NEW q \in Seq(Frames), NEW s \in Sockets, NEW i \in Ids,
         NEW connect, NEW wait, NEW on, NEW whole, NEW asked, NEW made,
         NEW sent \in Nat, NEW b \in Seq(Payloads),
         made => Established(q, s, i, connect, wait, on, whole, sent, b),
         ~made => Unmade(q, s, i, connect, wait, asked, sent, b)
  PROVE  /\ OwnBytes(b, s, sent)
         /\ connect => AnswerFirst(b, s)
         /\ connect /\ wait => b = <<>> \/ b = <<Page(s)>>
<1>1. CASE made
  BY <1>1, EstablishedGiven
<1>2. CASE ~made
  BY <1>2, UnmadeGiven
<1> QED
  BY <1>1, <1>2

(* A step of the server, for a socket that is open.                        *)
LEMMA AnswerByServer ==
  ASSUME TypeInv, TypeInv', RegisteredInSession, LiveInMap, Sourced, UpTagged, Waiters, FreshIds,
         UNCHANGED cliVars, ServerNext,
         NEW s \in Sockets, bst[s] = "open",
         NEW k \in Sessions, NEW i \in Ids, Holds(regId, regSess, s, k, i),
         AnswerOK(s, k, i)
  PROVE  /\ Given(s)'
         /\ bst'[s] = "open" => AnswerOK(s, k, i)'
<1> DEFINE c == method[s] = "connect"
           w == waiting[s]
           b == bIn[s]
           q == up[k]
           sent == tSent[s]
           on == tst[s] = "open"
           whole == WholeUp(k)
           asked == AskedFor(s, k, i)
           made == tKey[s] # NoKey
           q2 == up'[k]
           b2 == bIn'[s]
           w2 == waiting'[s]
           whole2 == WholeUp(k)'
           asked2 == AskedFor(s, k, i)'
           Good(x, y, z) ==
             /\ made => ~asked2 /\ Established(x, s, i, c, y, on, whole2, sent, z)
             /\ ~made => Unmade(x, s, i, c, y, asked2, sent, z)
<1>1. /\ q \in Seq(Frames) /\ q2 \in Seq(Frames) /\ b \in Seq(Payloads) /\ sent \in Nat
      /\ b2 \in Seq(Payloads)
  BY DEF TypeInv, TypeOK, TunnelTypeOK, FrameProtocolTypeOK, ConnectionManagerTypeOK
<1>2. /\ made => ~asked /\ Established(q, s, i, c, w, on, whole, sent, b)
      /\ ~made => Unmade(q, s, i, c, w, asked, sent, b)
  BY DEF AnswerOK
<1>3. tKey' = tKey /\ tSent' = tSent /\ tst' = tst
  BY DEF cliVars
<1>4. /\ OwnBytes(b, s, sent) /\ (c => AnswerFirst(b, s))
      /\ c /\ w => b = <<>> \/ b = <<Page(s)>>
  <2> HIDE DEF c, w, b, q, sent, on, whole, asked, made
  <2>1. CASE made
    <3>1. Established(q, s, i, c, w, on, whole, sent, b)
      BY <1>2, <2>1, Zenon
    <3> QED
      BY <1>1, <3>1, EstablishedGiven, Zenon
  <2>2. CASE ~made
    <3>1. Unmade(q, s, i, c, w, asked, sent, b)
      BY <1>2, <2>2, Zenon
    <3> QED
      BY <1>1, <3>1, UnmadeGiven, Zenon
  <2> QED
    BY <2>1, <2>2
<1>5. w => c
  BY DEF Waiters
<1>6. ASSUME method'[s] = method[s], Good(q2, w2, b2)
      PROVE  Given(s)' /\ AnswerOK(s, k, i)'
  <2>1. OwnBytes(b2, s, sent) /\ (c => AnswerFirst(b2, s))
    <3> HIDE DEF c, w2, b2, q2, sent, on, whole2, asked2, made
    <3>1. CASE made
      <4>1. Established(q2, s, i, c, w2, on, whole2, sent, b2)
        BY <1>6, <3>1, Zenon
      <4> QED
        BY <1>1, <4>1, EstablishedGiven, Zenon
    <3>2. CASE ~made
      <4>1. Unmade(q2, s, i, c, w2, asked2, sent, b2)
        BY <1>6, <3>2, Zenon
      <4> QED
        BY <1>1, <4>1, UnmadeGiven, Zenon
    <3> QED
      BY <3>1, <3>2
  <2> QED
    BY <1>3, <1>6, <2>1 DEF Given, AnswerOK
<1>7. ASSUME method'[s] = method[s], b2 = b
      PROVE  Given(s)'
  BY <1>3, <1>4, <1>7 DEF Given
<1>8. CASE Nothing(s, k, i)
  <2>1. CASE bst'[s] # "open"
    BY <1>7, <1>8, <2>1 DEF Nothing
  <2>2. CASE bst'[s] = "open"
    <3>1. /\ method'[s] = method[s] /\ b2 = b /\ w2 = w
          /\ (whole2 => whole) /\ (asked2 => asked)
          /\ \/ q2 = q
             \/ q # <<>> /\ q2 = Tail(q) /\ ~IsData(Head(q), s) /\ ~IsAck(Head(q), i)
      BY <1>8, <2>2 DEF Nothing, Same
    <3>2. Good(q2, w2, b2)
      <4> HIDE DEF c, w, b, q, sent, on, whole, asked, made, q2, b2, w2, whole2, asked2
      <4>1. made => ~asked /\ Established(q2, s, i, c, w, on, whole, sent, b)
        BY <1>1, <1>2, <3>1, EstablishedPassed
      <4>2. ~made => Unmade(q2, s, i, c, w, asked, sent, b)
        BY <1>1, <1>2, <3>1, UnmadePassed
      <4>3. made => ~asked2 /\ Established(q2, s, i, c, w, on, whole2, sent, b)
        BY <1>1, <3>1, <4>1, EstablishedLess
      <4>4. ~made => Unmade(q2, s, i, c, w, asked2, sent, b)
        BY <1>1, <3>1, <4>2, UnmadeLess
      <4> QED
        BY <3>1, <4>3, <4>4
    <3> QED
      BY <1>6, <3>1, <3>2
  <2> QED
    BY <2>1, <2>2
<1>9. CASE Evicted(s)
  <2>1. /\ w /\ bst'[s] # "open" /\ b2 = Append(b, Reply(502)) /\ method'[s] = method[s]
    BY <1>9 DEF Evicted
  <2>2. OwnBytes(b2, s, sent) /\ AnswerFirst(b2, s)
    <3> HIDE DEF c, w, b, b2, sent
    <3> QED
      BY <1>1, <1>4, <1>5, <2>1, BadGateway
  <2> QED
    BY <1>3, <2>1, <2>2 DEF Given
<1>10. CASE OwnData(s, k, i)
  <2>1. /\ method'[s] = method[s] /\ w2 = w
        /\ q # <<>> /\ q2 = Tail(q) /\ IsData(Head(q), s)
        /\ b2 = Append(b, Head(q).pay)
    BY <1>10 DEF OwnData, OwnFrame
  <2>2. (whole2 => whole) /\ (asked2 => asked)
    BY <1>10 DEF OwnData, OwnFrame
  <2>3. Good(q2, w2, b2)
    <3> HIDE DEF c, w, b, q, sent, on, whole, asked, made, q2, b2, w2, whole2, asked2
    <3>1. made => ~asked /\ Established(q2, s, i, c, w, on, whole, sent, b2)
      BY <1>1, <1>2, <2>1, EstablishedChunk
    <3>2. ~made => Unmade(q2, s, i, c, w, asked, sent, b2)
      BY <1>1, <1>2, <2>1, UnmadePage
    <3>3. made => ~asked2 /\ Established(q2, s, i, c, w, on, whole2, sent, b2)
      BY <1>1, <2>2, <3>1, EstablishedLess
    <3>4. ~made => Unmade(q2, s, i, c, w, asked2, sent, b2)
      BY <1>1, <2>2, <3>2, UnmadeLess
    <3> QED
      BY <2>1, <3>3, <3>4
  <2> QED
    BY <1>6, <2>1, <2>3
<1>11. CASE OwnAck(s, k, i)
  <2>1. /\ method'[s] = method[s]
        /\ q # <<>> /\ q2 = Tail(q) /\ IsAck(Head(q), i)
        /\ ~w2
        /\ w => b2 = Append(b, Reply(200))
        /\ ~w => b2 = b
    BY <1>11 DEF OwnAck, OwnFrame
  <2>2. (whole2 => whole) /\ (asked2 => asked)
    BY <1>11 DEF OwnAck, OwnFrame
  <2>3. Good(q2, w2, b2)
    <3> HIDE DEF c, w, b, q, sent, on, whole, asked, made, q2, b2, w2, whole2, asked2
    <3>1. made
      BY <1>1, <1>2, <2>1, UnmadePassed
    <3>2. /\ c /\ w => Established(Tail(q), s, i, c, w2, on, whole, sent, Append(b, Reply(200)))
          /\ ~w => Established(Tail(q), s, i, c, w2, on, whole, sent, b)
      BY <1>1, <1>2, <2>1, <3>1, EstablishedAck
    <3>3. Established(q2, s, i, c, w2, on, whole, sent, b2)
      BY <1>5, <2>1, <3>2
    <3>4. Established(q2, s, i, c, w2, on, whole2, sent, b2)
      BY <1>1, <2>2, <3>3, EstablishedLess
    <3> QED
      BY <1>2, <2>2, <3>1, <3>4
  <2> QED
    BY <1>6, <2>1, <2>3
<1> QED
  BY <1>8, <1>9, <1>10, <1>11, ServerOnOpen

(* A refusal of the proxy is all a socket that is refused is given.        *)
LEMMA OneReply ==
  ASSUME NEW s \in Sockets, NEW sent \in Nat, NEW code \in Nat
  PROVE  /\ OwnBytes(<<>>, s, sent) /\ AnswerFirst(<<>>, s)
         /\ OwnBytes(<<Reply(code)>>, s, sent) /\ AnswerFirst(<<Reply(code)>>, s)
         /\ Append(<<>>, Reply(code)) = <<Reply(code)>>
<1>1. Reply(code).tag = "reply"
  BY DEF Reply, Payload
<1>2. Len(<<Reply(code)>>) = 1 /\ <<Reply(code)>>[1] = Reply(code) /\ <<Reply(code)>> # <<>>
      /\ Append(<<>>, Reply(code)) = <<Reply(code)>>
  OBVIOUS
<1> DEFINE b == <<Reply(code)>>
<1>3. Len(b) = 1 /\ b[1].tag = "reply" /\ b # <<>>
  BY <1>1, <1>2
<1> HIDE DEF b
<1>4. Answers(b) = 1
  BY <1>3 DEF Answers
<1>5. OwnBytes(b, s, sent)
  BY <1>3, <1>4 DEF OwnBytes
<1>6. AnswerFirst(b, s)
  BY <1>3 DEF AnswerFirst
<1>7. OwnBytes(<<>>, s, sent) /\ AnswerFirst(<<>>, s)
  BY DEF OwnBytes, AnswerFirst, Answers
<1> QED
  BY <1>2, <1>5, <1>6, <1>7 DEF b

(* A request is registered under a new id: nothing is on its way to the    *)
(* socket, and it has no target yet.                                       *)
LEMMA AnswerByRequest ==
  ASSUME TypeInv, TypeInv', LiveInMap, Sourced, UpTagged, Waiters, FreshIds', UNCHANGED cliVars,
         NEW s \in Sockets, NEW m \in Methods, NEW extra \in BOOLEAN, Request(s, m, extra),
         NEW k \in Sessions, NEW i \in Ids, Holds(regId', regSess', s, k, i)
  PROVE  /\ Given(s)'
         /\ bst'[s] = "open" => AnswerOK(s, k, i)'
<1> DEFINE n == Candidate(FirstFree)
<1>1. /\ bst[s] = "idle" /\ regId[s] = 0 /\ bIn[s] = <<>>
      /\ regId' = [regId EXCEPT ![s] = n]
      /\ up' = up
      /\ method' = [method EXCEPT ![s] = m]
      /\ waiting' = [waiting EXCEPT ![s] = m = "connect"]
      /\ bst' = [bst EXCEPT ![s] = IF m = "badhttp" THEN "ending" ELSE "open"]
      /\ bIn' = IF m = "badhttp" THEN [bIn EXCEPT ![s] = Append(@, Reply(400))] ELSE bIn
  <2>1. bst[s] = "idle" /\ regId[s] = 0 /\ bIn[s] = <<>>
    BY DEF Request, LiveInMap, Waiters
  <2> QED
    BY <2>1, Zenon DEF Request
<1>2. /\ regId \in [Sockets -> 0 .. IdLimit] /\ up \in [Sessions -> Seq(Frames)]
      /\ tKey \in [Sockets -> [sess : Sessions, id : Ids] \cup {NoKey}]
      /\ method \in [Sockets -> {"none", "connect", "http", "badhttp"}]
      /\ waiting \in [Sockets -> BOOLEAN]
      /\ bst \in [Sockets -> BStates]
      /\ bIn \in [Sockets -> Seq(Payloads)]
      /\ tSent \in [Sockets -> Nat]
  BY DEF TypeInv, TypeOK, TunnelTypeOK, FrameProtocolTypeOK, ConnectionManagerTypeOK
<1>3. tKey[s] = NoKey /\ tSent[s] = 0
  <2> SUFFICES ASSUME tKey[s] # NoKey
               PROVE  FALSE
    BY DEF Waiters
  <2>1. tKey[s].id \in Ids
    BY <1>2
  <2>2. regId[s] = tKey[s].id
    BY DEF Sourced, KeysSourced, Holds
  <2> QED
    BY <1>1, <2>1, <2>2 DEF Ids
<1>4. tKey' = tKey /\ tSent' = tSent
  BY DEF cliVars
<1>5. ~AckIn(up[k], i)
  <2> SUFFICES ASSUME NEW x \in 1 .. Len(up[k]), up[k][x].id = i
               PROVE  FALSE
    BY DEF AckIn, IsAck
  <2>1. PICK u \in Sockets : Holds(regId, regSess, u, k, i)
    BY DEF Sourced, UpSourced, UpFrom
  <2>2. u # s
    BY <1>1, <2>1 DEF Holds, Ids
  <2>3. regId'[u] = i /\ regId'[s] = i
    BY <1>1, <1>2, <2>1, <2>2 DEF Holds
  <2> QED
    BY <2>2, <2>3 DEF FreshIds, Ids
<1>6. Silent(up[k], s)
  <2> SUFFICES ASSUME NEW x \in 1 .. Len(up[k]), IsData(up[k][x], s)
               PROVE  FALSE
    BY DEF Silent
  <2>1. up[k][x] \in Frames
    BY <1>2
  <2>2. up[k][x].id \in Ids
    BY <2>1 DEF Frames
  <2>3. regId[s] = up[k][x].id
    BY DEF UpTagged, DownFrom, IsData, Holds
  <2> QED
    BY <1>1, <2>2, <2>3 DEF Ids
<1>7. OnePage(up[k], s)
  BY <1>6 DEF Silent, OnePage
<1>8. CASE m = "badhttp"
  <2>1. bIn'[s] = <<Reply(400)>> /\ method'[s] # "connect" /\ bst'[s] # "open"
    BY <1>1, <1>2, <1>8, OneReply
  <2> QED
    BY <1>2, <1>4, <2>1, OneReply DEF Given
<1>9. CASE m # "badhttp"
  <2>1. bIn'[s] = <<>> /\ (method'[s] = "connect" => waiting'[s])
    BY <1>1, <1>2, <1>9
  <2>2. Given(s)'
    BY <1>2, <1>4, <2>1, OneReply DEF Given
  <2>3. Unmade(up'[k], s, i, method'[s] = "connect", waiting'[s], AskedFor(s, k, i)', tSent'[s],
               bIn'[s])
    BY <1>1, <1>3, <1>4, <1>5, <1>6, <1>7, <2>1, Zenon DEF Unmade
  <2>4. AnswerOK(s, k, i)'
    BY <1>3, <1>4, <2>3 DEF AnswerOK
  <2> QED
    BY <2>2, <2>4
<1> QED
  BY <1>8, <1>9

(* A request that is refused.                                              *)
LEMMA AnswerByRefusal ==
  ASSUME TypeInv, Waiters, UNCHANGED cliVars, NEW s \in Sockets, NEW m \in Methods, Refuse(s, m)
  PROVE  Given(s)' /\ bst'[s] # "open"
<1>1. /\ bIn \in [Sockets -> Seq(Payloads)] /\ tSent \in [Sockets -> Nat]
      /\ bst \in [Sockets -> BStates]
  BY DEF TypeInv, TypeOK, FrameProtocolTypeOK, ConnectionManagerTypeOK
<1>2. bIn[s] = <<>>
  BY DEF Refuse, Waiters
<1> DEFINE code == IF IsReady THEN 503 ELSE 502
<1>3. code \in Nat /\ bIn' = [bIn EXCEPT ![s] = Append(@, Reply(code))]
  <2>1. bIn' = [bIn EXCEPT ![s] = Append(@, Reply(code))]
    BY Zenon DEF Refuse
  <2>2. code \in Nat
    OBVIOUS
  <2> QED
    BY <2>1, <2>2
<1> HIDE DEF code
<1>4. bIn'[s] = <<Reply(code)>>
  BY <1>1, <1>2, <1>3, OneReply
<1>5. bst'[s] # "open"
  BY <1>1 DEF Refuse
<1>6. tSent' = tSent
  BY DEF cliVars
<1>7. OwnBytes(bIn'[s], s, tSent'[s]) /\ AnswerFirst(bIn'[s], s)
  <2>1. tSent[s] \in Nat
    BY <1>1
  <2> QED
    BY <1>3, <1>4, <1>6, <2>1, OneReply
<1> QED
  BY <1>5, <1>7 DEF Given

-----------------------------------------------------------------------------
(* DATA on its way to the server stays of registered origin.               *)

(* The replies of the client are.                                          *)
LEMMA RepliesTagged ==
  ASSUME NEW x \in Ids, NEW j
  PROVE  /\ <<Close(x)>> \in Seq(Frames) /\ DownFrom(<<Close(x)>>, j, regId, regSess)
         /\ <<OpenAck(x)>> \in Seq(Frames) /\ DownFrom(<<OpenAck(x)>>, j, regId, regSess)
         /\ \A u \in Sockets : Holds(regId, regSess, u, j, x) =>
              /\ Refusal(x, u) \in Seq(Frames)
              /\ DownFrom(Refusal(x, u), j, regId, regSess)
         /\ \A u \in Sockets : \A n \in Nat : Holds(regId, regSess, u, j, x) =>
              /\ <<Data(x, Down(u, n))>> \in Seq(Frames)
              /\ DownFrom(<<Data(x, Down(u, n))>>, j, regId, regSess)
<1>1. /\ Close(x) \in Frames /\ OpenAck(x) \in Frames
      /\ \A u \in Sockets : Data(x, Page(u)) \in Frames
      /\ \A u \in Sockets : \A n \in Nat : Data(x, Down(u, n)) \in Frames
  BY FrameTypes, PayloadTypes
<1>2. /\ Close(x).type = "CLOSE" /\ OpenAck(x).type = "OPEN_ACK"
      /\ \A p : Data(x, p).pay = p /\ Data(x, p).id = x
  BY DEF Close, OpenAck, Data, Frame
<1>3. \A u \in Sockets : Page(u).of = u /\ \A n \in Nat : Down(u, n).of = u
  BY DEF Page, Down, Payload
<1>4. \A f \in Frames : Len(<<f>>) = 1 /\ <<f>>[1] = f /\ <<f>> \in Seq(Frames)
  OBVIOUS
<1>5. \A f, g \in Frames : /\ Len(<<f, g>>) = 2 /\ <<f, g>>[1] = f /\ <<f, g>>[2] = g
                           /\ <<f, g>> \in Seq(Frames)
  OBVIOUS
<1> HIDE DEF Ids
<1>6. /\ <<Close(x)>> \in Seq(Frames) /\ DownFrom(<<Close(x)>>, j, regId, regSess)
      /\ <<OpenAck(x)>> \in Seq(Frames) /\ DownFrom(<<OpenAck(x)>>, j, regId, regSess)
  BY <1>1, <1>2, <1>4 DEF DownFrom
<1>7. ASSUME NEW u \in Sockets, Holds(regId, regSess, u, j, x)
      PROVE  /\ Refusal(x, u) \in Seq(Frames)
             /\ DownFrom(Refusal(x, u), j, regId, regSess)
  <2> DEFINE f == Data(x, Page(u))
             q == Refusal(x, u)
  <2>1. f \in Frames /\ f.pay.of = u /\ f.id = x /\ Close(x) \in Frames
    BY <1>1, <1>2, <1>3
  <2> HIDE DEF f
  <2>2. q \in Seq(Frames) /\ Len(q) = 2 /\ q[1] = f /\ q[2] = Close(x)
    BY <1>5, <2>1 DEF Refusal, f
  <2>3. \A n \in 1 .. 2 : n = 1 \/ n = 2
    OBVIOUS
  <2> HIDE DEF q
  <2>4. DownFrom(q, j, regId, regSess)
    BY <1>2, <1>7, <2>1, <2>2, <2>3 DEF DownFrom
  <2> QED
    BY <2>2, <2>4 DEF q
<1>8. ASSUME NEW u \in Sockets, NEW n \in Nat, Holds(regId, regSess, u, j, x)
      PROVE  /\ <<Data(x, Down(u, n))>> \in Seq(Frames)
             /\ DownFrom(<<Data(x, Down(u, n))>>, j, regId, regSess)
  <2> DEFINE f == Data(x, Down(u, n))
  <2>1. f \in Frames /\ f.pay.of = u /\ f.id = x
    BY <1>1, <1>2, <1>3
  <2> HIDE DEF f
  <2>2. <<f>> \in Seq(Frames) /\ DownFrom(<<f>>, j, regId, regSess)
    BY <1>4, <1>8, <2>1 DEF DownFrom
  <2> QED
    BY <2>2 DEF f
<1> QED
  BY <1>6, <1>7, <1>8

(* Every step of the client.                                               *)
LEMMA UpTaggedByClient ==
  ASSUME TypeInv, Sourced, UpTagged, ClientNext, NEW k \in Sessions
  PROVE  DownFrom(up'[k], k, regId, regSess)
<1>1. up[k] \in Seq(Frames) /\ DownFrom(up[k], k, regId, regSess)
  BY DEF UpTagged, TypeInv, TypeOK, TunnelTypeOK
<1>2. ASSUME up' = up
      PROVE  DownFrom(up'[k], k, regId, regSess)
  BY <1>1, <1>2
<1>3. ASSUME NEW j \in Sessions, NEW fs \in Seq(Frames), DownFrom(fs, j, regId, regSess),
             ReplyFrames(j, fs)
      PROVE  DownFrom(up'[k], k, regId, regSess)
  <2>1. up'[k] = up[k] \/ (k = j /\ up'[k] = up[k] \o fs)
    BY <1>3, ReplyFramesPuts
  <2>2. k = j => DownFrom(up[k] \o fs, k, regId, regSess)
    BY <1>1, <1>3, DownFromMore
  <2> QED
    BY <1>1, <2>1, <2>2
<1>4. ASSUME NEW j \in Sessions, ClientHandles(j)
      PROVE  DownFrom(up'[k], k, regId, regSess)
  <2> DEFINE f == Head(down[j])
  <2>1. Delivered(j)
    BY <1>4 DEF ClientHandles, OpenRejected, OpenForbidden, OpenAddress, OpenName,
       DataConnected, DataOverflow, DataPending, DataUnknown, CloseFrame
  <2>2. down[j] \in Seq(Frames) /\ down[j] # <<>>
    BY <2>1 DEF Delivered, TypeInv, TypeOK, TunnelTypeOK
  <2>3. f \in Frames /\ f = down[j][1] /\ 1 \in 1 .. Len(down[j])
    BY <2>2
  <2>4. f.id \in Ids
    BY <2>3 DEF Frames
  <2>5. f.type = "OPEN" => f.pay.of \in Sockets /\ Holds(regId, regSess, f.pay.of, j, f.id)
    BY <2>3, Zenon DEF Sourced, DownSourced, DownFrom
  <2> HIDE DEF f
  <2>6. \/ up' = up
        \/ ReplyFrames(j, <<Close(f.id)>>)
        \/ f.type = "OPEN" /\ ReplyFrames(j, Refusal(f.id, f.pay.of))
    BY <1>4, Zenon DEF ClientHandles, OpenRejected, OpenForbidden, OpenAddress, OpenName,
       DataConnected, DataOverflow, DataPending, DataUnknown, CloseFrame, f
  <2>7. CASE ReplyFrames(j, <<Close(f.id)>>)
    BY <1>3, <2>4, <2>7, RepliesTagged
  <2>8. CASE f.type = "OPEN" /\ ReplyFrames(j, Refusal(f.id, f.pay.of))
    BY <1>3, <2>4, <2>5, <2>8, RepliesTagged
  <2> QED
    BY <1>2, <2>6, <2>7, <2>8
<1>5. ASSUME NEW d \in dns, Resolves(d)
      PROVE  DownFrom(up'[k], k, regId, regSess)
  <2>1. d.sess \in Sessions /\ d.id \in Ids /\ d.of \in Sockets
    BY DEF TypeInv, TypeOK, ConnectionManagerTypeOK, Lookups
  <2>2. Holds(regId, regSess, d.of, d.sess, d.id)
    BY DEF Sourced, LookupsSourced
  <2>3. up' = up \/ ReplyFrames(d.sess, Refusal(d.id, d.of))
    BY <1>5 DEF Resolves, LookupStale, LookupFails, LookupSucceeds, tunnelVars
  <2> QED
    BY <1>2, <1>3, <2>1, <2>2, <2>3, RepliesTagged
<1>6. ASSUME NEW u \in Sockets,
             TargetConnects(u) \/ TargetSends(u) \/ TargetEnds(u) \/ TargetFails(u) \/ TargetClosed(u)
      PROVE  DownFrom(up'[k], k, regId, regSess)
  <2> DEFINE j == tKey[u].sess
             x == tKey[u].id
  <2>1. tst[u] # "none"
    BY <1>6 DEF TargetConnects, TargetSends, TargetEnds, TargetFails, TargetClosed
  <2>2. tKey[u] # NoKey /\ tKey[u] \in [sess : Sessions, id : Ids] \cup {NoKey}
        /\ tSent[u] \in Nat
    BY <2>1 DEF TypeInv, KeysOK, TypeOK, ConnectionManagerTypeOK
  <2>3. j \in Sessions /\ x \in Ids /\ Holds(regId, regSess, u, j, x) /\ tSent[u] + 1 \in Nat
    BY <2>2 DEF Sourced, KeysSourced
  <2>4. \/ up' = up \/ ReplyFrames(j, <<Close(x)>>) \/ ReplyFrames(j, <<OpenAck(x)>>)
        \/ ReplyFrames(j, <<Data(x, Down(u, tSent[u] + 1))>>)
    BY <1>6 DEF TargetConnects, TargetSends, TargetEnds, TargetFails, TargetClosed, TargetCleanup
  <2> HIDE DEF j, x
  <2> QED
    BY <1>2, <1>3, <2>3, <2>4, RepliesTagged
<1>7. ASSUME NEW j \in Sessions, ClientShuts(j) \/ ClientWsClosed(j)
      PROVE  DownFrom(up'[k], k, regId, regSess)
  <2>1. up' = up
    BY <1>7 DEF ClientShuts, ClientWsClosed
  <2> QED
    BY <1>2, <2>1
<1> QED
  BY <1>4, <1>5, <1>6, <1>7, Zenon DEF ClientNext

(* Every step.                                                             *)
LEMMA UpTaggedStep ==
  ASSUME TypeInv, LiveInMap, Sourced, UpTagged, [Next]_vars
  PROVE  UpTagged'
<1> SUFFICES ASSUME NEW k \in Sessions
             PROVE  DownFrom(up'[k], k, regId', regSess')
  BY DEF UpTagged
<1>1. up[k] \in Seq(Frames) /\ DownFrom(up[k], k, regId, regSess)
  BY DEF UpTagged, TypeInv, TypeOK, TunnelTypeOK
<1>2. RegisteredFor(regId, regSess, regId', regSess')
  BY RegistrationKept DEF RegisteredFor
<1>3. DownFrom(up[k], k, regId', regSess')
  BY <1>1, <1>2, FromKept
<1>4. CASE ServerNext
  <2>1. DownFrom(<<>>, k, regId', regSess')
    BY DEF DownFrom
  <2> QED
    BY <1>1, <1>3, <1>4, <2>1, UpByServer, TailFrom
<1>5. CASE ClientNext /\ UNCHANGED srvVars
  <2>1. DownFrom(up'[k], k, regId, regSess)
    BY <1>5, UpTaggedByClient
  <2> QED
    BY <1>5, <2>1 DEF srvVars
<1>6. CASE UNCHANGED vars
  BY <1>3, <1>6 DEF vars, tunnelVars
<1> QED
  BY <1>4, <1>5, <1>6 DEF Next

-----------------------------------------------------------------------------
(* Who waits for an answer.                                                *)

(* A step of the server.                                                   *)
LEMMA WaitersByServer ==
  ASSUME TypeInv, RegisteredInSession, LiveInMap, Waiters, ServerNext, UNCHANGED cliVars
  PROVE  Waiters'
<1>1. /\ bIn \in [Sockets -> Seq(Payloads)] /\ bst \in [Sockets -> BStates]
      /\ waiting \in [Sockets -> BOOLEAN]
      /\ method \in [Sockets -> {"none", "connect", "http", "badhttp"}]
  BY DEF TypeInv, TypeOK, FrameProtocolTypeOK
<1> SUFFICES ASSUME NEW s \in Sockets
             PROVE  /\ waiting'[s] => method'[s] = "connect"
                    /\ bst'[s] \in {"idle", "ending"} => ~waiting'[s]
                    /\ bst'[s] = "idle" => bIn'[s] = <<>>
  BY DEF Waiters, cliVars
<1> DEFINE Goal == /\ waiting'[s] => method'[s] = "connect"
                   /\ bst'[s] \in {"idle", "ending"} => ~waiting'[s]
                   /\ bst'[s] = "idle" => bIn'[s] = <<>>
<1>2. /\ waiting[s] => method[s] = "connect"
      /\ bst[s] \in {"idle", "ending"} => ~waiting[s]
      /\ bst[s] = "idle" => bIn[s] = <<>>
  BY DEF Waiters
<1>3. ASSUME waiting'[s] => waiting[s], method'[s] = method[s],
             bst'[s] \in {"idle", "ending"} => bst'[s] = bst[s],
             bst'[s] = "idle" => bIn'[s] = bIn[s]
      PROVE  Goal
  BY <1>2, <1>3
<1>4. ASSUME NEW I, Evict(I), method' = method
      PROVE  Goal
  <2>1. waiting'[s] => waiting[s]
    BY <1>4 DEF Evict
  <2>2. bst'[s] \in {"idle", "ending"} => bst'[s] = bst[s]
    BY <1>1, <1>4 DEF Evict, Destroy
  <2>3. bst[s] # "open" => bIn'[s] = bIn[s]
    BY <1>4, EvictOn
  <2> HIDE DEF Goal
  <2> QED
    BY <1>3, <1>4, <2>1, <2>2, <2>3
<1>5. ASSUME NEW u \in Sockets, NEW m \in Methods, NEW extra \in BOOLEAN, Request(u, m, extra)
      PROVE  Goal
  <2>1. /\ method' = [method EXCEPT ![u] = m]
        /\ waiting' = [waiting EXCEPT ![u] = m = "connect"]
        /\ bst' = [bst EXCEPT ![u] = IF m = "badhttp" THEN "ending" ELSE "open"]
        /\ bIn' = IF m = "badhttp" THEN [bIn EXCEPT ![u] = Append(@, Reply(400))] ELSE bIn
    BY <1>5, Zenon DEF Request
  <2>2. CASE u = s
    BY <1>1, <2>1, <2>2
  <2>3. CASE u # s
    BY <1>1, <1>2, <2>1, <2>3
  <2> QED
    BY <2>2, <2>3
<1>6. ASSUME NEW u \in Sockets, NEW m \in Methods, Refuse(u, m)
      PROVE  Goal
  <2>1. /\ method' = [method EXCEPT ![u] = m] /\ waiting' = waiting /\ bst[u] = "idle"
        /\ \E st \in {"destroyed", "ending"} : bst' = [bst EXCEPT ![u] = st]
        /\ \E c : bIn' = [bIn EXCEPT ![u] = Append(@, Reply(c))]
    <3> DEFINE st == IF IsReady THEN "destroyed" ELSE "ending"
               code == IF IsReady THEN 503 ELSE 502
    <3>1. /\ method' = [method EXCEPT ![u] = m] /\ waiting' = waiting /\ bst[u] = "idle"
          /\ bst' = [bst EXCEPT ![u] = st]
          /\ bIn' = [bIn EXCEPT ![u] = Append(@, Reply(code))]
      BY <1>6, Zenon DEF Refuse
    <3>2. st \in {"destroyed", "ending"}
      OBVIOUS
    <3> HIDE DEF st, code
    <3> QED
      BY <3>1, <3>2, Zenon
  <2>2. CASE u = s
    BY <1>1, <1>2, <2>1, <2>2
  <2>3. CASE u # s
    BY <1>1, <1>2, <2>1, <2>3
  <2> QED
    BY <2>2, <2>3
<1>7. ASSUME NEW u \in Sockets,
             \/ BrowserSend(u) \/ BrowserEnd(u) \/ BrowserAbort(u)
             \/ EndingDestroyed(u) \/ BrowserClosed(u) \/ BrowserRead(u)
      PROVE  Goal
  <2>1. /\ waiting'[s] => waiting[s]
        /\ method' = method /\ bIn' = bIn
        /\ bst'[s] \in {"idle", "ending"} => bst'[s] = bst[s]
    BY <1>1, <1>7 DEF BrowserSend, BrowserEnd, BrowserAbort, EndingDestroyed, BrowserClosed,
       BrowserRead
  <2> QED
    BY <1>2, <2>1
<1>8. ASSUME NEW j \in Sessions, Connection(j) \/ ServerShuts(j) \/ ServerWsClosed(j)
      PROVE  Goal
  <2>1. \/ UNCHANGED <<bIn, bst, method, waiting>>
        \/ method' = method /\ \E I : Evict(I)
    BY <1>8, Zenon DEF Connection, ServerShuts, ServerWsClosed, TunnelClose, srvVars
  <2> QED
    BY <1>2, <1>4, <2>1
<1>9. ASSUME NEW j \in Sessions, ServerHandles(j)
      PROVE  Goal
  <2> DEFINE f == Head(up[j])
  <2>1. Arrives(j) /\ method' = method
    BY <1>9 DEF ServerHandles, FrameUnknown, FrameData, FrameClose, FrameOpenAck, Arrives
  <2>2. f \in Frames
    BY <2>1, TakeType DEF Arrives, TypeInv, TypeOK, TunnelTypeOK, Channels
  <2>3. f.id \in Ids
    BY <2>2 DEF Frames
  <2>4. conns[f.id] # None => bst[conns[f.id]] \in {"open", "ending", "destroyed"}
    BY <2>3 DEF RegisteredInSession
  <2> HIDE DEF f
  <2>5. CASE FrameUnknown(j)
    BY <1>2, <2>1, <2>5 DEF FrameUnknown
  <2>6. CASE FrameData(j)
    <3>1. /\ conns[f.id] # None /\ waiting' = waiting
          /\ \/ UNCHANGED <<bst, bIn>>
             \/ bst' = [bst EXCEPT ![conns[f.id]] = "destroyed"] /\ bIn' = bIn
             \/ /\ bst[conns[f.id]] \in {"idle", "open"}
                /\ bIn' = [bIn EXCEPT ![conns[f.id]] = Append(@, f.pay)]
                /\ bst' = bst \/ bst' = [bst EXCEPT ![conns[f.id]] = "destroyed"]
      BY <2>6 DEF FrameData, f
    <3>2. bst'[s] \in {"idle", "ending"} => bst'[s] = bst[s]
      BY <1>1, <3>1
    <3>3. bst[s] = "idle" => bIn'[s] = bIn[s]
      BY <1>1, <2>4, <3>1
    <3> QED
      BY <1>2, <2>1, <3>1, <3>2, <3>3
  <2>7. CASE FrameClose(j)
    BY <1>4, <2>1, <2>7 DEF FrameClose
  <2>8. CASE FrameOpenAck(j)
    <3>1. /\ bst' = bst
          /\ waiting'[s] => waiting[s]
          /\ bIn'[s] = IF s \in Listening({f.id}) /\ ~Gone(bst[s])
                         THEN Append(bIn[s], Reply(200)) ELSE bIn[s]
      BY <2>8 DEF FrameOpenAck, f
    <3>2. bst[s] = "idle" => s \notin Listening({f.id})
      BY <1>2 DEF Listening
    <3> QED
      BY <1>2, <2>1, <3>1, <3>2
  <2> QED
    BY <1>9, <2>5, <2>6, <2>7, <2>8 DEF ServerHandles
<1> QED
  <2> HIDE DEF Goal
  <2>1. Goal
    BY <1>5, <1>6, <1>7, <1>8, <1>9, Zenon DEF ServerNext
  <2> QED
    BY <2>1 DEF Goal

(* A target sends nothing before it is made, and is never unmade.          *)
LEMMA SentByTarget ==
  ASSUME TypeInv, ClientNext, NEW s \in Sockets
  PROVE  /\ tSent'[s] = tSent[s] \/ (tKey[s] # NoKey /\ tSent'[s] = tSent[s] + 1)
         /\ tKey'[s] = NoKey => tKey[s] = NoKey
<1>1. /\ tKey \in [Sockets -> [sess : Sessions, id : Ids] \cup {NoKey}]
      /\ tSent \in [Sockets -> Nat]
  BY DEF TypeInv, TypeOK, ConnectionManagerTypeOK
<1>2. ASSUME tSent' = tSent,
             \/ tKey' = tKey
             \/ \E k \in Sessions, i \in Ids, u \in Sockets :
                  tKey' = [tKey EXCEPT ![u] = [sess |-> k, id |-> i]]
      PROVE  tSent'[s] = tSent[s] /\ (tKey'[s] = NoKey => tKey[s] = NoKey)
  <2>1. \A k \in Sessions, i \in Ids : [sess |-> k, id |-> i] # NoKey
    BY DEF NoKey, Ids
  <2> QED
    BY <1>1, <1>2, <2>1
<1>3. ASSUME NEW j \in Sessions, ClientHandles(j)
      PROVE  tSent'[s] = tSent[s] /\ (tKey'[s] = NoKey => tKey[s] = NoKey)
  <2> DEFINE f == Head(down[j])
  <2>1. Delivered(j)
    BY <1>3 DEF ClientHandles, OpenRejected, OpenForbidden, OpenAddress, OpenName,
       DataConnected, DataOverflow, DataPending, DataUnknown, CloseFrame
  <2>2. f \in Frames
    BY <2>1, TakeType DEF Delivered, TypeInv, TypeOK, TunnelTypeOK, Channels
  <2>3. f.id \in Ids /\ (f.type = "OPEN" => f.pay.of \in Sockets)
    BY <2>2 DEF Frames
  <2> HIDE DEF f
  <2>4. \/ tKey' = tKey
        \/ /\ f.type = "OPEN"
           /\ tKey' = [tKey EXCEPT ![f.pay.of] = [sess |-> j, id |-> f.id]]
    BY <1>3, Zenon DEF ClientHandles, OpenRejected, OpenForbidden, OpenAddress, OpenName,
       DataConnected, DataOverflow, DataPending, DataUnknown, CloseFrame, Establish, f
  <2> QED
    BY <1>2, <2>1, <2>3, <2>4 DEF Delivered
<1>4. ASSUME NEW d \in dns, Resolves(d)
      PROVE  tSent'[s] = tSent[s] /\ (tKey'[s] = NoKey => tKey[s] = NoKey)
  <2>1. d.sess \in Sessions /\ d.id \in Ids /\ d.of \in Sockets
    BY DEF TypeInv, TypeOK, ConnectionManagerTypeOK, Lookups
  <2>2. /\ tSent' = tSent
        /\ tKey' = tKey \/ tKey' = [tKey EXCEPT ![d.of] = [sess |-> d.sess, id |-> d.id]]
    BY <1>4 DEF Resolves, LookupStale, LookupFails, LookupSucceeds, Establish
  <2> QED
    BY <1>2, <2>1, <2>2
<1>5. ASSUME NEW u \in Sockets, TargetSends(u)
      PROVE  /\ tSent'[s] = tSent[s] \/ (tKey[s] # NoKey /\ tSent'[s] = tSent[s] + 1)
             /\ tKey' = tKey
  <2>1. tKey[u] # NoKey
    BY <1>5 DEF TargetSends, TypeInv, KeysOK
  <2> QED
    BY <1>1, <1>5, <2>1 DEF TargetSends
<1>6. ASSUME NEW u \in Sockets,
             TargetConnects(u) \/ TargetEnds(u) \/ TargetFails(u) \/ TargetClosed(u)
      PROVE  tSent' = tSent /\ tKey' = tKey
  BY <1>6 DEF TargetConnects, TargetEnds, TargetFails, TargetClosed
<1>7. ASSUME NEW j \in Sessions, ClientShuts(j) \/ ClientWsClosed(j)
      PROVE  tSent' = tSent /\ tKey' = tKey
  BY <1>7 DEF ClientShuts, ClientWsClosed, cliVars
<1> QED
  BY <1>3, <1>4, <1>5, <1>6, <1>7, Zenon DEF ClientNext

(* Every step.                                                             *)
LEMMA WaitersStep ==
  ASSUME TypeInv, RegisteredInSession, LiveInMap, Waiters, [Next]_vars
  PROVE  Waiters'
<1>1. CASE ServerNext /\ UNCHANGED cliVars
  BY <1>1, WaitersByServer
<1>2. CASE ClientNext /\ UNCHANGED srvVars
  <2> SUFFICES ASSUME NEW s \in Sockets, tKey'[s] = NoKey
               PROVE  tSent'[s] = 0
    BY <1>2 DEF Waiters, srvVars
  <2>1. tKey[s] = NoKey /\ tSent'[s] = tSent[s]
    BY <1>2, SentByTarget
  <2> QED
    BY <2>1 DEF Waiters
<1>3. CASE UNCHANGED vars
  BY <1>3 DEF Waiters, vars, srvVars, cliVars
<1> QED
  BY <1>1, <1>2, <1>3 DEF Next

-----------------------------------------------------------------------------
(* Every step keeps what browsers are given right.                         *)

(* Chunks the target sent that have not been given yet.                    *)
LEMMA OwnBytesMore ==
  ASSUME NEW s \in Sockets, NEW b \in Seq(Payloads), NEW sent \in Nat, OwnBytes(b, s, sent),
         NEW sent2 \in Nat, sent <= sent2
  PROVE  OwnBytes(b, s, sent2)
<1> DEFINE n == Len(b) - Answers(b)
<1>1. n \in Int
  BY DEF Answers
<1>2. \/ b \in {<<Page(s)>>, <<Page(s), Reply(502)>>}
      \/ n <= sent /\ \A m \in 1 .. n : b[m + Answers(b)] = Down(s, m)
  BY Zenon DEF OwnBytes
<1>3. n <= sent => n <= sent2
  <2> HIDE DEF n
  <2> QED
    BY <1>1
<1> QED
  BY <1>2, <1>3, Zenon DEF OwnBytes

(* A socket that is open has been registered.                              *)
LEMMA OpenHolds ==
  ASSUME TypeInv, RegisteredInSession, LiveInMap, NEW s \in Sockets, bst[s] = "open"
  PROVE  \E k \in Sessions, i \in Ids : Holds(regId, regSess, s, k, i)
<1>1. regId[s] \in Ids /\ regSess[s] \in Sessions
  BY OpenInMap
<1> QED
  BY <1>1 DEF Holds

(* Every step of the server, for any socket.                               *)
LEMMA AnsweringByServer ==
  ASSUME TypeInv, TypeInv', RegisteredInSession, LiveInMap, Sourced, UpTagged, Waiters,
         FreshIds, FreshIds', Answering, ServerNext, UNCHANGED cliVars,
         NEW s \in Sockets
  PROVE  /\ Given(s)'
         /\ \A k \in Sessions, i \in Ids :
              Holds(regId', regSess', s, k, i) /\ bst'[s] = "open" => AnswerOK(s, k, i)'
<1>1. CASE bst[s] = "open"
  <2>1. ASSUME NEW k \in Sessions, NEW i \in Ids, Holds(regId, regSess, s, k, i)
        PROVE  /\ Given(s)'
               /\ bst'[s] = "open" => AnswerOK(s, k, i)'
    <3>1. AnswerOK(s, k, i)
      BY <1>1, <2>1 DEF Answering, Holds
    <3> QED
      BY <1>1, <2>1, <3>1, AnswerByServer
  <2>2. Given(s)'
    BY <1>1, <2>1, OpenHolds
  <2>3. ASSUME NEW k \in Sessions, NEW i \in Ids, Holds(regId', regSess', s, k, i),
               bst'[s] = "open"
        PROVE  AnswerOK(s, k, i)'
    <3>1. regId[s] # 0
      BY <1>1 DEF LiveInMap
    <3>2. Holds(regId, regSess, s, k, i)
      BY <2>3, <3>1, RegistrationKept DEF Holds, Next
    <3> QED
      BY <2>1, <2>3, <3>2
  <2> QED
    BY <2>2, <2>3
<1>2. CASE bst[s] # "open"
  <2>1. ASSUME NEW m \in Methods, NEW extra \in BOOLEAN, Request(s, m, extra)
        PROVE  /\ Given(s)'
               /\ \A k \in Sessions, i \in Ids :
                    Holds(regId', regSess', s, k, i) /\ bst'[s] = "open" => AnswerOK(s, k, i)'
    <3>1. ASSUME NEW k \in Sessions, NEW i \in Ids, Holds(regId', regSess', s, k, i)
          PROVE  /\ Given(s)'
                 /\ bst'[s] = "open" => AnswerOK(s, k, i)'
      BY <2>1, <3>1, AnswerByRequest
    <3>2. \E k \in Sessions, i \in Ids : Holds(regId', regSess', s, k, i)
      <4>1. /\ regId' = [regId EXCEPT ![s] = Candidate(FirstFree)]
            /\ regSess' = [regSess EXCEPT ![s] = activeWs]
            /\ IsReady /\ FreeAttempts # {}
        BY <2>1, Zenon DEF Request
      <4>2. /\ regId \in [Sockets -> 0 .. IdLimit] /\ regSess \in [Sockets -> 0 .. NumSessions]
            /\ activeWs \in 0 .. NumSessions /\ nextId \in Ids
        BY DEF TypeInv, TypeOK, FrameProtocolTypeOK
      <4>3. FirstFree \in Int
        BY <4>1, FirstFreeExists DEF FreeAttempts
      <4>4. Candidate(FirstFree) \in Ids
        BY <4>2, <4>3, CandidateType
      <4>5. regId'[s] \in Ids /\ regSess'[s] \in Sessions
        <5>1. regId'[s] = Candidate(FirstFree) /\ regSess'[s] = activeWs
          BY <4>1, <4>2
        <5>2. activeWs \in Sessions
          BY <4>1, <4>2 DEF IsReady, Sessions
        <5> QED
          BY <4>4, <5>1, <5>2
      <4> QED
        BY <4>5 DEF Holds
    <3> QED
      BY <3>1, <3>2
  <2>2. ASSUME NEW m \in Methods, Refuse(s, m)
        PROVE  Given(s)' /\ bst'[s] # "open"
    BY <2>2, AnswerByRefusal
  <2>3. ASSUME bIn'[s] = bIn[s], method'[s] = method[s]
        PROVE  Given(s)'
    BY <2>3 DEF Answering, Given, cliVars
  <2> QED
    BY <1>2, <2>1, <2>2, <2>3, ServerOnOther
<1> QED
  BY <1>1, <1>2

(* Every step of the client, for any socket.                               *)
LEMMA AnsweringByClient ==
  ASSUME TypeInv, TypeInv', LiveInMap, Sourced, FreshIds, StreamsInOrder, Answering,
         ClientNext, UNCHANGED srvVars, NEW s \in Sockets
  PROVE  /\ Given(s)'
         /\ \A k \in Sessions, i \in Ids :
              Holds(regId', regSess', s, k, i) /\ bst'[s] = "open" => AnswerOK(s, k, i)'
<1>1. Given(s)'
  <2>1. tSent[s] \in Nat /\ tSent'[s] \in Nat /\ bIn[s] \in Seq(Payloads)
    BY DEF TypeInv, TypeOK, FrameProtocolTypeOK, ConnectionManagerTypeOK
  <2>2. tSent[s] <= tSent'[s]
    <3>1. tSent'[s] = tSent[s] \/ tSent'[s] = tSent[s] + 1
      BY SentByTarget
    <3> QED
      BY <2>1, <3>1
  <2>3. OwnBytes(bIn[s], s, tSent[s]) /\ (method[s] = "connect" => AnswerFirst(bIn[s], s))
    BY DEF Answering, Given
  <2>4. OwnBytes(bIn[s], s, tSent'[s])
    BY <2>1, <2>2, <2>3, OwnBytesMore
  <2> QED
    BY <2>3, <2>4 DEF Given, srvVars
<1>2. ASSUME NEW k \in Sessions, NEW i \in Ids, Holds(regId', regSess', s, k, i),
             bst'[s] = "open"
      PROVE  AnswerOK(s, k, i)'
  <2>1. Holds(regId, regSess, s, k, i) /\ bst[s] = "open"
    BY <1>2 DEF srvVars
  <2>2. AnswerOK(s, k, i)
    BY <2>1 DEF Answering, Holds
  <2>3. StreamOK(down[k], s, cConn[k][i], pend[k][i], tIn[s], bSent[s], Whole(k))
    <3>1. regId[s] = i /\ regSess[s] = k /\ i # 0
      BY <2>1 DEF Holds, Ids
    <3> QED
      BY <3>1, Zenon DEF StreamsInOrder
  <2> QED
    BY <2>1, <2>2, <2>3, AnswerByClient
<1> QED
  BY <1>1, <1>2

(* Every step.                                                             *)
LEMMA AnsweringStep ==
  ASSUME TypeInv, RegisteredInSession, LiveInMap, Sourced, UpTagged, Waiters, FreshIds,
         FreshIds', StreamsInOrder, Answering, [Next]_vars
  PROVE  Answering'
<1>1. TypeInv' /\ LiveInMap'
  BY TypeStep, LiveStep, FreshApart
<1>2. ASSUME NEW s \in Sockets
      PROVE  /\ Given(s)'
             /\ \A k \in Sessions, i \in Ids :
                  Holds(regId', regSess', s, k, i) /\ bst'[s] = "open" => AnswerOK(s, k, i)'
  <2>1. CASE ServerNext /\ UNCHANGED cliVars
    BY <1>1, <2>1, AnsweringByServer
  <2>2. CASE ClientNext /\ UNCHANGED srvVars
    BY <1>1, <2>2, AnsweringByClient
  <2>3. CASE UNCHANGED vars
    <3>1. Given(s)'
      BY <2>3 DEF vars, srvVars, cliVars, Answering, Given
    <3>2. ASSUME NEW k \in Sessions, NEW i \in Ids, Holds(regId', regSess', s, k, i),
                 bst'[s] = "open"
          PROVE  AnswerOK(s, k, i)'
      <4>1. AnswerOK(s, k, i)
        BY <2>3, <3>2 DEF vars, srvVars, Answering, Holds
      <4> QED
        BY <2>3, <4>1 DEF vars, srvVars, cliVars, tunnelVars, AnswerOK, AskedFor, WholeUp
    <3> QED
      BY <3>1, <3>2
  <2> QED
    BY <2>1, <2>2, <2>3 DEF Next
<1>3. ASSUME NEW s \in Sockets, bst'[s] = "open"
      PROVE  regSess'[s] \in Sessions /\ regId'[s] \in Ids
  <2>1. /\ regId' \in [Sockets -> 0 .. IdLimit]
        /\ regSess' \in [Sockets -> 0 .. NumSessions]
    BY <1>1 DEF TypeInv, TypeOK, FrameProtocolTypeOK
  <2>2. SessionsBegun'
    BY BegunStep DEF Sourced
  <2>3. regId'[s] # 0
    BY <1>1, <1>3 DEF LiveInMap
  <2> QED
    BY <2>1, <2>2, <2>3 DEF SessionsBegun, Sessions, Ids
<1> QED
  BY <1>2, <1>3, Zenon DEF Answering, Holds, AnswerOK, AskedFor, WholeUp

-----------------------------------------------------------------------------
(* In a state with the invariant, what each browser was given is right.    *)
LEMMA GivenRight ==
  ASSUME Answering
  PROVE  BrowserStream /\ AnsweredOnce
<1>1. ASSUME NEW s \in Sockets
      PROVE  /\ OwnBytes(bIn[s], s, tSent[s])
             /\ method[s] = "connect" => AnswerFirst(bIn[s], s)
  BY DEF Answering, Given
<1> QED
  BY <1>1 DEF BrowserStream, AnsweredOnce, OwnBytes, AnswerFirst

LEMMA AnsweringHolds == Spec /\ []FreshIds => []Answering
<1>1. Init => UpTagged /\ Waiters
  BY DEF Init, TunnelInit, FrameProtocolInit, ConnectionManagerInit, UpTagged, DownFrom, Waiters
<1>2. Init => Answering
  <2> SUFFICES ASSUME Init, NEW s \in Sockets
               PROVE  Given(s) /\ bst[s] # "open"
    BY DEF Answering
  <2>1. OwnBytes(<<>>, s, 0)
    BY DEF OwnBytes, Answers
  <2>2. bIn[s] = <<>> /\ tSent[s] = 0 /\ method[s] = "none" /\ bst[s] = "idle"
    BY DEF Init, FrameProtocolInit, ConnectionManagerInit
  <2> QED
    BY <2>1, <2>2 DEF Given
<1>3. TypeInv /\ LiveInMap /\ Sourced /\ UpTagged /\ [Next]_vars => UpTagged'
  BY UpTaggedStep
<1>4. TypeInv /\ RegisteredInSession /\ LiveInMap /\ Waiters /\ [Next]_vars => Waiters'
  BY WaitersStep
<1>5. /\ TypeInv /\ RegisteredInSession /\ LiveInMap /\ Sourced /\ UpTagged /\ Waiters
      /\ FreshIds /\ FreshIds' /\ StreamsInOrder /\ Answering /\ [Next]_vars
      => Answering'
  BY AnsweringStep
<1> QED
  BY <1>1, <1>2, <1>3, <1>4, <1>5, FreshApart, KeyedTypes, MapOfActiveSession, LiveHolds,
     SourcedHolds, StreamsHold, PTL DEF Spec

(* What a browser is given after at most one status line of the proxy is a *)
(* prefix of what its own target sent: no byte of another stream or of an  *)
(* earlier session, none twice, none missing.  Or it is the page the       *)
(* client refused it with.                                                 *)
THEOREM BrowsersGivenOwnStream == Spec /\ []FreshIds => []BrowserStream
BY AnsweringHolds, GivenRight, PTL

(* A CONNECT is answered 200 once, before any byte of the target, and the  *)
(* proxy writes no status line into an established stream (proxyServer.js).*)
THEOREM ConnectAnsweredOnce == Spec /\ []FreshIds => []AnsweredOnce
BY AnsweringHolds, GivenRight, PTL

(* Until nextConnectionId has come round, without further hypotheses.      *)
THEOREM FirstLapOfBrowsers ==
  ASSUME EnoughIds
  PROVE  Spec => [](BrowserStream /\ AnsweredOnce)
BY IdsLast, BrowsersGivenOwnStream, ConnectAnsweredOnce, PTL

-----------------------------------------------------------------------------
(* Agreement of the two ends: the inductive invariant.                     *)

(* A frame of the given type and id is on the channel q.                   *)
In(q, type, i) == \E n \in 1 .. Len(q) : q[n].type = type /\ q[n].id = i

(* i is the id of a browser connection, of this session or an earlier one. *)
GivenOut(i) == \E s \in Sockets : regId[s] = i

GivenOutIn(q) == \A n \in 1 .. Len(q) : GivenOut(q[n].id)

(* An OPEN is the first frame under its id.                                *)
OpensFirst(q) ==
  \A m, n \in 1 .. Len(q) : m < n /\ q[n].type = "OPEN" => q[m].id # q[n].id

(* The client has the id, with a target socket or with a lookup.           *)
Known(k, i) == cConn[k][i] # None \/ pend[k][i] # None

(* Who has an id (held: the server, known: the client), and what is on the *)
(* way about it: its OPEN or a CLOSE to the client, a CLOSE to the server. *)
Balanced(held, known, opening, closing, closed) ==
  /\ held => opening \/ known \/ closed
  /\ known \/ opening => held \/ closing
  /\ closed => ~known /\ ~opening
  /\ opening => ~known
  /\ closing => ~held

BalancedAt(k, i) ==
  Balanced(conns[i] # None, Known(k, i), In(down[k], "OPEN", i),
           In(down[k], "CLOSE", i), In(up[k], "CLOSE", i))

(* The two ends of session k can send to each other.                       *)
Linked(k) == k = activeWs /\ srvWs[k] = "open" /\ cliWs[k] = "open"

Agreeing ==
  /\ \A k \in Sessions : GivenOutIn(down[k]) /\ OpensFirst(down[k])
  /\ \A k \in Sessions : Linked(k) => \A i \in Ids : BalancedAt(k, i)

-----------------------------------------------------------------------------
(* Lemmas about channels.                                                  *)

(* What is on a channel after frames have been put on it.                  *)
LEMMA InMore ==
  ASSUME NEW q \in Seq(Frames), NEW fs \in Seq(Frames), NEW type, NEW i
  PROVE  In(q \o fs, type, i) <=> In(q, type, i) \/ In(fs, type, i)
<1> DEFINE z == q \o fs
<1>1. ASSUME In(z, type, i)
      PROVE  In(q, type, i) \/ In(fs, type, i)
  <2>1. PICK n \in 1 .. Len(z) : z[n].type = type /\ z[n].id = i
    BY <1>1, Zenon DEF In
  <2>2. \/ n \in 1 .. Len(q) /\ z[n] = q[n]
        \/ n - Len(q) \in 1 .. Len(fs) /\ z[n] = fs[n - Len(q)]
    BY MoreFrames
  <2> QED
    BY <2>1, <2>2, Zenon DEF In
<1>2. ASSUME In(q, type, i)
      PROVE  In(z, type, i)
  <2>1. PICK n \in 1 .. Len(q) : q[n].type = type /\ q[n].id = i
    BY <1>2, Zenon DEF In
  <2>2. n \in 1 .. Len(z) /\ z[n] = q[n]
    BY MoreFrames
  <2> QED
    BY <2>1, <2>2, Zenon DEF In
<1>3. ASSUME In(fs, type, i)
      PROVE  In(z, type, i)
  <2>1. PICK n \in 1 .. Len(fs) : fs[n].type = type /\ fs[n].id = i
    BY <1>3, Zenon DEF In
  <2>2. n + Len(q) \in 1 .. Len(z) /\ z[n + Len(q)] = fs[n]
    BY MoreFrames
  <2> QED
    BY <2>1, <2>2, Zenon DEF In
<1> QED
  BY <1>1, <1>2, <1>3

LEMMA InGrown ==
  ASSUME NEW q \in Seq(Frames), NEW fs \in Seq(Frames), NEW z, z = q \o fs, NEW i
  PROVE  /\ In(z, "OPEN", i) <=> In(q, "OPEN", i) \/ In(fs, "OPEN", i)
         /\ In(z, "CLOSE", i) <=> In(q, "CLOSE", i) \/ In(fs, "CLOSE", i)
<1>1. In(q \o fs, "OPEN", i) <=> In(q, "OPEN", i) \/ In(fs, "OPEN", i)
  BY InMore, Zenon
<1>2. In(q \o fs, "CLOSE", i) <=> In(q, "CLOSE", i) \/ In(fs, "CLOSE", i)
  BY InMore, Zenon
<1> QED
  BY <1>1, <1>2

(* One frame, or two.                                                      *)
LEMMA InFew ==
  ASSUME NEW f, NEW g, NEW type, NEW i
  PROVE  /\ In(<<f>>, type, i) <=> f.type = type /\ f.id = i
         /\ In(<<f, g>>, type, i) <=>
              (f.type = type /\ f.id = i) \/ (g.type = type /\ g.id = i)
<1>1. Len(<<f>>) = 1 /\ <<f>>[1] = f /\ Len(<<f, g>>) = 2 /\ <<f, g>>[1] = f /\ <<f, g>>[2] = g
  OBVIOUS
<1>2. 1 .. 1 = {1} /\ 1 .. 2 = {1, 2}
  OBVIOUS
<1> QED
  BY <1>1, <1>2, Zenon DEF In

(* What is on a channel after its first frame has been taken off it.       *)
LEMMA InTail ==
  ASSUME NEW q \in Seq(Frames), q # <<>>, NEW type, NEW i
  PROVE  In(q, type, i) <=>
           (Head(q).type = type /\ Head(q).id = i) \/ In(Tail(q), type, i)
<1>1. ASSUME In(q, type, i)
      PROVE  (Head(q).type = type /\ Head(q).id = i) \/ In(Tail(q), type, i)
  <2>1. PICK n \in 1 .. Len(q) : q[n].type = type /\ q[n].id = i
    BY <1>1, Zenon DEF In
  <2>2. CASE n = 1
    BY <2>1, <2>2, TailFrames
  <2>3. CASE n # 1
    <3>1. n - 1 \in 1 .. Len(Tail(q)) /\ Tail(q)[n - 1] = q[n]
      BY <2>3, TailFrames
    <3> QED
      BY <2>1, <3>1, Zenon DEF In
  <2> QED
    BY <2>2, <2>3
<1>2. ASSUME In(Tail(q), type, i)
      PROVE  In(q, type, i)
  <2>1. PICK n \in 1 .. Len(Tail(q)) : Tail(q)[n].type = type /\ Tail(q)[n].id = i
    BY <1>2, Zenon DEF In
  <2>2. n + 1 \in 1 .. Len(q) /\ Tail(q)[n] = q[n + 1]
    BY TailFrames
  <2> QED
    BY <2>1, <2>2, Zenon DEF In
<1>3. ASSUME Head(q).type = type, Head(q).id = i
      PROVE  In(q, type, i)
  <2>1. 1 \in 1 .. Len(q) /\ q[1] = Head(q)
    BY TailFrames
  <2> QED
    BY <1>3, <2>1, Zenon DEF In
<1> QED
  BY <1>1, <1>2, <1>3

(* Nothing is on an empty channel.                                         *)
LEMMA InEmpty ==
  ASSUME NEW type, NEW i
  PROVE  ~In(<<>>, type, i)
<1>1. Len(<<>>) = 0 /\ 1 .. 0 = {}
  OBVIOUS
<1> QED
  BY <1>1, Zenon DEF In

(* Behind a frame there is no OPEN of its id.                              *)
LEMMA HeadOpens ==
  ASSUME NEW q \in Seq(Frames), q # <<>>, OpensFirst(q)
  PROVE  /\ OpensFirst(Tail(q))
         /\ ~In(Tail(q), "OPEN", Head(q).id)
<1>1. OpensFirst(Tail(q))
  <2> SUFFICES ASSUME NEW m \in 1 .. Len(Tail(q)), NEW n \in 1 .. Len(Tail(q)),
                      m < n, Tail(q)[n].type = "OPEN"
               PROVE  Tail(q)[m].id # Tail(q)[n].id
    BY Zenon DEF OpensFirst
  <2>1. /\ m + 1 \in 1 .. Len(q) /\ n + 1 \in 1 .. Len(q) /\ m + 1 < n + 1
        /\ Tail(q)[m] = q[m + 1] /\ Tail(q)[n] = q[n + 1]
    BY TailFrames
  <2> QED
    BY <2>1, Zenon DEF OpensFirst
<1>2. ASSUME In(Tail(q), "OPEN", Head(q).id)
      PROVE  FALSE
  <2>1. PICK n \in 1 .. Len(Tail(q)) : Tail(q)[n].type = "OPEN" /\ Tail(q)[n].id = Head(q).id
    BY <1>2, Zenon DEF In
  <2>2. 1 \in 1 .. Len(q) /\ n + 1 \in 1 .. Len(q) /\ 1 < n + 1
        /\ Tail(q)[n] = q[n + 1] /\ Head(q) = q[1]
    BY TailFrames
  <2> QED
    BY <2>1, <2>2, Zenon DEF OpensFirst
<1> QED
  BY <1>1, <1>2

(* Frames other than OPEN may follow anything.                             *)
LEMMA MoreOpens ==
  ASSUME NEW q \in Seq(Frames), NEW fs \in Seq(Frames), OpensFirst(q), OpensFirst(fs),
         \A n \in 1 .. Len(fs) : fs[n].type = "OPEN" =>
           \A m \in 1 .. Len(q) : q[m].id # fs[n].id
  PROVE  OpensFirst(q \o fs)
<1> DEFINE z == q \o fs
<1> SUFFICES ASSUME NEW m \in 1 .. Len(z), NEW n \in 1 .. Len(z), m < n, z[n].type = "OPEN"
             PROVE  z[m].id # z[n].id
  BY Zenon DEF OpensFirst
<1>1. CASE n \in 1 .. Len(q)
  <2>1. m \in 1 .. Len(q) /\ z[m] = q[m] /\ z[n] = q[n]
    BY <1>1, MoreFrames
  <2> QED
    BY <1>1, <2>1, Zenon DEF OpensFirst
<1>2. CASE n \notin 1 .. Len(q)
  <2>1. n - Len(q) \in 1 .. Len(fs) /\ z[n] = fs[n - Len(q)]
    BY <1>2, MoreFrames
  <2>2. CASE m \in 1 .. Len(q)
    <3>1. z[m] = q[m]
      BY <2>2, MoreFrames
    <3> QED
      BY <2>1, <2>2, <3>1, Zenon
  <2>3. CASE m \notin 1 .. Len(q)
    <3>1. m - Len(q) \in 1 .. Len(fs) /\ z[m] = fs[m - Len(q)] /\ m - Len(q) < n - Len(q)
      BY <2>3, MoreFrames
    <3> QED
      BY <2>1, <3>1, Zenon DEF OpensFirst
  <2> QED
    BY <2>2, <2>3
<1> QED
  BY <1>1, <1>2

(* One frame, or an OPEN and something else.                               *)
LEMMA FewOpens ==
  ASSUME NEW f \in Frames, NEW g \in Frames, g.type # "OPEN"
  PROVE  /\ OpensFirst(<<f>>) /\ OpensFirst(<<f, g>>)
         /\ \A n \in 1 .. Len(<<f>>) : <<f>>[n] = f
         /\ \A n \in 1 .. Len(<<f, g>>) : <<f, g>>[n] = f \/ <<f, g>>[n] = g
<1>1. /\ \A n \in 1 .. Len(<<f>>) : <<f>>[n] = f /\ n = 1
      /\ \A n \in 1 .. Len(<<f, g>>) : (<<f, g>>[n] = f /\ n = 1) \/ (<<f, g>>[n] = g /\ n = 2)
  <2>1. /\ Len(<<f>>) = 1 /\ <<f>>[1] = f
        /\ Len(<<f, g>>) = 2 /\ <<f, g>>[1] = f /\ <<f, g>>[2] = g
    OBVIOUS
  <2>2. \A n \in 1 .. 1 : n = 1
    OBVIOUS
  <2>3. \A n \in 1 .. 2 : n = 1 \/ n = 2
    OBVIOUS
  <2>4. ASSUME NEW n \in 1 .. Len(<<f>>)
        PROVE  <<f>>[n] = f /\ n = 1
    BY <2>1, <2>2
  <2>5. ASSUME NEW n \in 1 .. Len(<<f, g>>)
        PROVE  (<<f, g>>[n] = f /\ n = 1) \/ (<<f, g>>[n] = g /\ n = 2)
    BY <2>1, <2>3
  <2> QED
    BY <2>4, <2>5
<1>2. OpensFirst(<<f>>)
  BY <1>1 DEF OpensFirst
<1>3. OpensFirst(<<f, g>>)
  <2> SUFFICES ASSUME NEW m \in 1 .. Len(<<f, g>>), NEW n \in 1 .. Len(<<f, g>>),
                      m < n, <<f, g>>[n].type = "OPEN"
               PROVE  FALSE
    BY Zenon DEF OpensFirst
  <2>1. n = 1
    BY <1>1, Zenon
  <2> QED
    BY <2>1
<1> QED
  BY <1>1, <1>2, <1>3

(* Ids are given out for good.                                             *)
LEMMA GivenOutMore ==
  ASSUME NEW q \in Seq(Frames), NEW fs \in Seq(Frames), GivenOutIn(q), GivenOutIn(fs)
  PROVE  GivenOutIn(q \o fs)
<1> SUFFICES ASSUME NEW n \in 1 .. Len(q \o fs)
             PROVE  GivenOut((q \o fs)[n].id)
  BY Zenon DEF GivenOutIn
<1>1. \/ n \in 1 .. Len(q) /\ (q \o fs)[n] = q[n]
      \/ n - Len(q) \in 1 .. Len(fs) /\ (q \o fs)[n] = fs[n - Len(q)]
  BY MoreFrames
<1> QED
  BY <1>1, Zenon DEF GivenOutIn

LEMMA GivenOutTail ==
  ASSUME NEW q \in Seq(Frames), q # <<>>, GivenOutIn(q)
  PROVE  GivenOutIn(Tail(q))
<1> SUFFICES ASSUME NEW n \in 1 .. Len(Tail(q))
             PROVE  GivenOut(Tail(q)[n].id)
  BY Zenon DEF GivenOutIn
<1>1. Tail(q)[n] = q[n + 1] /\ n + 1 \in 1 .. Len(q)
  BY TailFrames
<1> QED
  BY <1>1, Zenon DEF GivenOutIn

-----------------------------------------------------------------------------
(* What a step of the server does to the Map and to the channels of the    *)
(* active session k.                                                       *)

(* No frame is taken off the channel, or one that closes nothing.          *)
Took(k) ==
  \/ up'[k] = up[k]
  \/ /\ up[k] # <<>> /\ up'[k] = Tail(up[k])
     /\ Head(up[k]).type = "CLOSE" => conns[Head(up[k]).id] = None

Stays(k) == conns' = conns /\ down' = down /\ Took(k)

(* The server forgets an id, if it had it, and says so.                    *)
Drops(k, j) ==
  /\ GivenOut(j)
  /\ \A i \in Ids : conns'[i] = IF i = j THEN None ELSE conns[i]
  /\ SendFrames(<<Close(j)>>)
  /\ Took(k)

(* It forgets an id because of a CLOSE.                                    *)
Closes(k, j) ==
  /\ up[k] # <<>> /\ up'[k] = Tail(up[k])
  /\ Head(up[k]).type = "CLOSE" /\ Head(up[k]).id = j
  /\ \A i \in Ids : conns'[i] = IF i = j THEN None ELSE conns[i]
  /\ down' = down

(* The first frame of a channel to the server has the id of some socket.   *)
LEMMA HeadGivenOut ==
  ASSUME TypeInv, Sourced, NEW k \in Sessions, up[k] # <<>>
  PROVE  Head(up[k]) \in Frames /\ Head(up[k]).id \in Ids /\ GivenOut(Head(up[k]).id)
<1>1. up[k] \in Seq(Frames)
  BY DEF TypeInv, TypeOK, TunnelTypeOK
<1>2. Head(up[k]) = up[k][1] /\ 1 \in 1 .. Len(up[k]) /\ Head(up[k]) \in Frames
  BY <1>1
<1>3. PICK s \in Sockets : Holds(regId, regSess, s, k, up[k][1].id)
  BY <1>2, Zenon DEF Sourced, UpSourced, UpFrom
<1> QED
  BY <1>2, <1>3 DEF GivenOut, Holds, Frames

(* The cleanup of a browser socket.                                        *)
LEMMA CleanupDrops ==
  ASSUME TypeInv, NEW k \in Sessions, NEW s \in Sockets, Cleanup(s), up' = up
  PROVE  Stays(k) \/ \E j \in Ids : Drops(k, j)
<1>1. CASE regId[s] # 0 /\ conns[regId[s]] # None
  <2>1. regId[s] \in Ids
    BY <1>1 DEF TypeInv, TypeOK, FrameProtocolTypeOK, Ids
  <2>2. SendFrames(<<Close(regId[s])>>) /\ conns' = [conns EXCEPT ![regId[s]] = None]
    BY <1>1 DEF Cleanup
  <2>3. \A i \in Ids : conns'[i] = IF i = regId[s] THEN None ELSE conns[i]
    BY <2>1, <2>2 DEF TypeInv, TypeOK, FrameProtocolTypeOK
  <2> QED
    BY <2>1, <2>2, <2>3, Zenon DEF Drops, Took, GivenOut
<1>2. CASE ~(regId[s] # 0 /\ conns[regId[s]] # None)
  BY <1>2 DEF Cleanup, Stays, Took
<1> QED
  BY <1>1, <1>2

(* A frame of session k.                                                   *)
LEMMA HandlesDoes ==
  ASSUME TypeInv, Sourced, NEW k \in Sessions, ServerHandles(k)
  PROVE  Stays(k) \/ \E j \in Ids : Drops(k, j) \/ Closes(k, j)
<1> DEFINE f == Head(up[k])
<1>1. /\ up[k] # <<>> /\ up' = [up EXCEPT ![k] = Tail(@)]
  BY DEF ServerHandles, FrameUnknown, FrameData, FrameClose, FrameOpenAck, Arrives
<1>2. up'[k] = Tail(up[k]) /\ conns \in [Ids -> Sockets \cup {None}]
  BY <1>1 DEF TypeInv, TypeOK, TunnelTypeOK, FrameProtocolTypeOK
<1>3. f \in Frames /\ f.id \in Ids /\ GivenOut(f.id)
  BY <1>1, HeadGivenOut
<1>4. ASSUME f.type # "CLOSE" \/ conns[f.id] = None
      PROVE  Took(k)
  BY <1>1, <1>2, <1>4 DEF Took
<1>5. ASSUME SendFrames(<<Close(f.id)>>), conns' = [conns EXCEPT ![f.id] = None],
             f.type # "CLOSE"
      PROVE  Drops(k, f.id)
  <2>1. \A i \in Ids : conns'[i] = IF i = f.id THEN None ELSE conns[i]
    BY <1>2, <1>5
  <2> QED
    BY <1>3, <1>4, <1>5, <2>1 DEF Drops
<1>6. CASE FrameUnknown(k)
  <2>1. conns[f.id] = None /\ conns' = conns
    BY <1>6 DEF FrameUnknown
  <2>2. CASE f.type # "CLOSE"
    <3>1. SendFrames(<<Close(f.id)>>)
      BY <1>6, <2>2 DEF FrameUnknown
    <3>2. conns' = [conns EXCEPT ![f.id] = None]
      BY <1>2, <1>3, <2>1
    <3> QED
      BY <1>3, <1>5, <2>2, <3>1, <3>2
  <2>3. CASE f.type = "CLOSE"
    <3>1. down' = down
      BY <1>6, <2>3 DEF FrameUnknown
    <3> QED
      BY <1>4, <2>1, <3>1 DEF Stays
  <2> QED
    BY <2>2, <2>3
<1>7. CASE FrameData(k)
  <2>1. f.type # "CLOSE"
    BY <1>7 DEF FrameData
  <2>2. \/ SendFrames(<<Close(f.id)>>) /\ conns' = [conns EXCEPT ![f.id] = None]
        \/ conns' = conns /\ down' = down
    BY <1>7, Zenon DEF FrameData
  <2> QED
    BY <1>3, <1>4, <1>5, <2>1, <2>2 DEF Stays
<1>8. CASE FrameClose(k)
  <2>1. f.type = "CLOSE" /\ down' = down /\ Evict({f.id})
    BY <1>8 DEF FrameClose
  <2>2. conns' = [i \in Ids |-> IF i \in {f.id} THEN None ELSE conns[i]]
    BY <2>1, Zenon DEF Evict
  <2>3. \A i \in Ids : conns'[i] = IF i = f.id THEN None ELSE conns[i]
    BY <2>2
  <2> QED
    BY <1>1, <1>2, <1>3, <2>1, <2>3 DEF Closes
<1>9. CASE FrameOpenAck(k)
  <2>1. f.type = "OPEN_ACK" /\ conns' = conns /\ down' = down
    BY <1>9 DEF FrameOpenAck
  <2> QED
    BY <1>4, <2>1 DEF Stays
<1> QED
  BY <1>6, <1>7, <1>8, <1>9 DEF ServerHandles

(* A frame of another session: its id is not in the Map.                   *)
LEMMA StaleDoes ==
  ASSUME TypeInv, RegisteredInSession, Sourced, FreshIds,
         NEW k \in Sessions, k = activeWs, NEW l \in Sessions, l # k, ServerHandles(l)
  PROVE  Stays(k) \/ \E j \in Ids : Drops(k, j)
<1>1. conns' = conns
  BY StaleUnknown
<1>2. up'[k] = up[k]
  BY DEF ServerHandles, FrameUnknown, FrameData, FrameClose, FrameOpenAck, Arrives, TypeInv,
     TypeOK, TunnelTypeOK
<1>3. Took(k)
  BY <1>2 DEF Took
<1>4. Stays(l) \/ \E j \in Ids : Drops(l, j) \/ Closes(l, j)
  BY HandlesDoes
<1>5. CASE Stays(l)
  BY <1>3, <1>5 DEF Stays
<1>6. ASSUME NEW j \in Ids, Drops(l, j) PROVE Drops(k, j)
  BY <1>3, <1>6 DEF Drops
<1>7. ASSUME NEW j \in Ids, Closes(l, j) PROVE Stays(k)
  BY <1>1, <1>3, <1>7 DEF Closes, Stays
<1> QED
  BY <1>4, <1>5, <1>6, <1>7

(* Every step that leaves the session active.                              *)
LEMMA ServerDoes ==
  ASSUME TypeInv, RegisteredInSession, Sourced, FreshIds, ServerNext,
         NEW k \in Sessions, k = activeWs, activeWs' = activeWs
  PROVE  \/ Stays(k)
         \/ \E j \in Ids : Drops(k, j) \/ Closes(k, j)
         \/ \E s \in Sockets : BrowserSend(s)
         \/ \E s \in Sockets, m \in Methods, extra \in BOOLEAN : Request(s, m, extra)
<1>1. ASSUME NEW s \in Sockets,
             \/ \E m \in Methods : Refuse(s, m)
             \/ BrowserAbort(s) \/ EndingDestroyed(s) \/ BrowserRead(s)
      PROVE  Stays(k)
  BY <1>1 DEF Refuse, BrowserAbort, EndingDestroyed, BrowserRead, tunnelVars, Stays, Took
<1>2. ASSUME NEW s \in Sockets, BrowserEnd(s) \/ BrowserClosed(s)
      PROVE  Stays(k) \/ \E j \in Ids : Drops(k, j)
  <2>1. Cleanup(s) /\ up' = up
    BY <1>2 DEF BrowserEnd, BrowserClosed
  <2> QED
    BY <2>1, CleanupDrops
<1>3. ASSUME NEW l \in Sessions, ServerHandles(l)
      PROVE  Stays(k) \/ \E j \in Ids : Drops(k, j) \/ Closes(k, j)
  BY <1>3, HandlesDoes, StaleDoes
<1>4. ASSUME NEW l \in Sessions, Connection(l)
      PROVE  FALSE
  <2>1. l = k /\ cliWs[k] = "none"
    BY <1>4 DEF Connection
  <2>2. cliWs[k] # "none"
    BY DEF Sourced, SessionsBegun, Sessions
  <2> QED
    BY <2>1, <2>2
<1>5. ASSUME NEW l \in Sessions, ServerShuts(l)
      PROVE  Stays(k)
  BY <1>5 DEF ServerShuts, srvVars, Stays, Took
<1>6. ASSUME NEW l \in Sessions, ServerWsClosed(l)
      PROVE  Stays(k)
  <2>1. activeWs # l
    BY <1>6 DEF ServerWsClosed, Sessions
  <2>2. Evict({}) /\ down' = down /\ up' = [up EXCEPT ![l] = <<>>]
    BY <1>6, <2>1 DEF ServerWsClosed, TunnelClose
  <2>3. conns' = conns
    <3>1. conns' = [i \in Ids |-> IF i \in {} THEN None ELSE conns[i]]
      BY <2>2, Zenon DEF Evict
    <3> QED
      BY <3>1 DEF TypeInv, TypeOK, FrameProtocolTypeOK
  <2>4. up'[k] = up[k]
    BY <2>1, <2>2 DEF TypeInv, TypeOK, TunnelTypeOK
  <2> QED
    BY <2>2, <2>3, <2>4 DEF Stays, Took
<1> QED
  BY <1>1, <1>2, <1>3, <1>4, <1>5, <1>6, Zenon DEF ServerNext

-----------------------------------------------------------------------------
(* What a step of the client does to its two Maps and to the channels of   *)
(* session k, as long as it can send there.                                *)

KnownNext(k, i) == cConn'[k][i] # None \/ pend'[k][i] # None

KnownElse(k, j) == \A i \in Ids : i # j => (KnownNext(k, i) <=> Known(k, i))

Takes(k) == down[k] # <<>> /\ down'[k] = Tail(down[k])

(* The same ids are known; at most DATA is taken and no CLOSE is sent.     *)
Goes(k) ==
  /\ \A i \in Ids : KnownNext(k, i) <=> Known(k, i)
  /\ down'[k] = down[k] \/ (Takes(k) /\ Head(down[k]).type = "DATA")
  /\ up'[k] = up[k] \/ \E f \in Frames : f.type # "CLOSE" /\ up'[k] = up[k] \o <<f>>

(* An OPEN is accepted, ...                                                *)
Learns(k, j) ==
  /\ Takes(k) /\ Head(down[k]).type = "OPEN" /\ Head(down[k]).id = j
  /\ KnownNext(k, j) /\ KnownElse(k, j)
  /\ up'[k] = up[k]

(* ... or an id is forgotten or refused, which the server is told, ...     *)
Forgets(k, j) ==
  /\ ~KnownNext(k, j) /\ KnownElse(k, j)
  /\ \/ down'[k] = down[k] /\ Known(k, j)
     \/ Takes(k) /\ Head(down[k]).id = j /\ Head(down[k]).type # "CLOSE"
  /\ \E fs \in Seq(Frames) :
       /\ up'[k] = up[k] \o fs
       /\ \A i \in Ids : In(fs, "CLOSE", i) <=> i = j

(* ... or it is forgotten because of a CLOSE.                              *)
Obeys(k, j) ==
  /\ Takes(k) /\ Head(down[k]).type = "CLOSE" /\ Head(down[k]).id = j
  /\ ~KnownNext(k, j) /\ KnownElse(k, j)
  /\ up'[k] = up[k]

(* An id is in at most one of the Maps, and in none before its OPEN is     *)
(* handled.                                                                *)
OneEntry(k) ==
  \A i \in Ids : /\ cConn[k][i] # None => pend[k][i] = None
                 /\ In(down[k], "OPEN", i) => ~Known(k, i)

LEMMA OneEntryHolds ==
  ASSUME TypeInv, Sourced, FreshIds, StreamsInOrder, NEW k \in Sessions
  PROVE  OneEntry(k)
<1> SUFFICES ASSUME NEW i \in Ids
             PROVE  /\ cConn[k][i] # None => pend[k][i] = None
                    /\ In(down[k], "OPEN", i) => ~Known(k, i)
  BY DEF OneEntry
<1>1. ASSUME NEW s \in Sockets, Holds(regId, regSess, s, k, i)
      PROVE  StreamOK(down[k], s, cConn[k][i], pend[k][i], tIn[s], bSent[s], Whole(k))
  BY <1>1 DEF StreamsInOrder, Holds, Ids
<1>2. ASSUME cConn[k][i] # None
      PROVE  pend[k][i] = None
  <2>1. cConn[k][i] \in Sockets
    BY <1>2 DEF TypeInv, TypeOK, ConnectionManagerTypeOK
  <2>2. Holds(regId, regSess, cConn[k][i], k, i)
    BY <1>2 DEF Sourced, TargetsSourced
  <2> QED
    BY <1>1, <1>2, <2>1, <2>2 DEF StreamOK
<1>3. ASSUME In(down[k], "OPEN", i)
      PROVE  ~Known(k, i)
  <2>1. PICK n \in 1 .. Len(down[k]) : down[k][n].type = "OPEN" /\ down[k][n].id = i
    BY <1>3, Zenon DEF In
  <2>2. down[k][n].pay.of \in Sockets /\ Holds(regId, regSess, down[k][n].pay.of, k, i)
    BY <2>1 DEF Sourced, DownSourced, DownFrom
  <2>3. OpenIn(down[k], down[k][n].pay.of)
    BY <2>1, Zenon DEF OpenIn, IsOpen
  <2> QED
    BY <1>1, <2>2, <2>3, Zenon DEF StreamOK, Known
<1> QED
  BY <1>2, <1>3

(* What the client sends on a session that is linked is on its channel.    *)
LEMMA LinkedReply ==
  ASSUME TypeInv, NEW k \in Sessions, Linked(k), NEW fs, ReplyFrames(k, fs)
  PROVE  up'[k] = up[k] \o fs
BY DEF Linked, ReplyFrames, Put, TypeInv, TypeOK, TunnelTypeOK

(* Both ways of refusing close the id, and nothing else.                   *)
LEMMA CloseCloses ==
  ASSUME NEW j \in Ids
  PROVE  /\ <<Close(j)>> \in Seq(Frames)
         /\ \A i \in Ids : In(<<Close(j)>>, "CLOSE", i) <=> i = j
<1>1. Close(j) \in Frames
  BY FrameTypes
<1>2. Close(j).type = "CLOSE" /\ Close(j).id = j
  BY DEF Close, Frame
<1>3. ASSUME NEW i \in Ids
      PROVE  In(<<Close(j)>>, "CLOSE", i) <=> i = j
  BY <1>2, InFew, Zenon
<1> QED
  BY <1>1, <1>3

LEMMA RefusalCloses ==
  ASSUME NEW j \in Ids, NEW s \in Sockets
  PROVE  /\ Refusal(j, s) \in Seq(Frames)
         /\ \A i \in Ids : In(Refusal(j, s), "CLOSE", i) <=> i = j
<1>1. Close(j) \in Frames /\ Data(j, Page(s)) \in Frames
  BY FrameTypes, PayloadTypes
<1>2. Close(j).type = "CLOSE" /\ Close(j).id = j /\ Data(j, Page(s)).type # "CLOSE"
  BY DEF Close, Data, Frame
<1>3. Refusal(j, s) \in Seq(Frames)
  BY <1>1 DEF Refusal
<1>4. ASSUME NEW i \in Ids
      PROVE  In(Refusal(j, s), "CLOSE", i) <=> i = j
  <2>1. In(Refusal(j, s), "CLOSE", i) <=>
          (Data(j, Page(s)).type = "CLOSE" /\ Data(j, Page(s)).id = i)
          \/ (Close(j).type = "CLOSE" /\ Close(j).id = i)
    BY InFew, Zenon DEF Refusal
  <2> QED
    BY <1>2, <2>1, Zenon
<1> QED
  BY <1>3, <1>4

(* An id that is forgotten.                                                *)
LEMMA ForgetsClosing ==
  ASSUME TypeInv, NEW k \in Sessions, Linked(k), NEW j \in Ids,
         ~KnownNext(k, j), KnownElse(k, j),
         \/ down'[k] = down[k] /\ Known(k, j)
         \/ Takes(k) /\ Head(down[k]).id = j /\ Head(down[k]).type # "CLOSE",
         \/ ReplyFrames(k, <<Close(j)>>)
         \/ \E s \in Sockets : ReplyFrames(k, Refusal(j, s))
  PROVE  Forgets(k, j)
<1>1. \E fs \in Seq(Frames) :
        /\ up'[k] = up[k] \o fs
        /\ \A i \in Ids : In(fs, "CLOSE", i) <=> i = j
  <2>1. CASE ReplyFrames(k, <<Close(j)>>)
    <3>1. up'[k] = up[k] \o <<Close(j)>>
      BY <2>1, LinkedReply
    <3> QED
      BY <3>1, CloseCloses, Zenon
  <2>2. ASSUME NEW s \in Sockets, ReplyFrames(k, Refusal(j, s))
        PROVE  <1>1!:
    <3>1. up'[k] = up[k] \o Refusal(j, s)
      BY <2>2, LinkedReply
    <3>2. Refusal(j, s) \in Seq(Frames)
          /\ \A i \in Ids : In(Refusal(j, s), "CLOSE", i) <=> i = j
      BY RefusalCloses
    <3> QED
      BY <3>1, <3>2, Zenon
  <2> QED
    BY <2>1, <2>2
<1> QED
  BY <1>1, Zenon DEF Forgets

(* An entry of a Map set or removed.                                       *)
LEMMA EntrySet ==
  ASSUME NEW S, NEW map \in [Sessions -> [Ids -> S]], NEW k \in Sessions, NEW j \in Ids, NEW e
  PROVE  /\ \A i \in Ids : [map EXCEPT ![k][j] = e][k][i] = IF i = j THEN e ELSE map[k][i]
         /\ \A l \in Sessions : l # k => [map EXCEPT ![k][j] = e][l] = map[l]
OBVIOUS

(* An id that is in neither Map any more.                                  *)
LEMMA EntryGone ==
  ASSUME TypeInv, NEW k \in Sessions, NEW j \in Ids,
         (cConn' = cConn /\ cConn[k][j] = None) \/ cConn' = Removed(cConn, k, j),
         (pend' = pend /\ pend[k][j] = None) \/ pend' = Removed(pend, k, j)
  PROVE  ~KnownNext(k, j) /\ KnownElse(k, j)
<1>1. /\ cConn \in [Sessions -> [Ids -> Sockets \cup {None}]]
      /\ pend \in [Sessions -> [Ids -> Seq(Payloads) \cup {None}]]
  BY DEF TypeInv, TypeOK, ConnectionManagerTypeOK
<1>2. /\ \A i \in Ids : Removed(cConn, k, j)[k][i] = IF i = j THEN None ELSE cConn[k][i]
      /\ \A i \in Ids : Removed(pend, k, j)[k][i] = IF i = j THEN None ELSE pend[k][i]
  BY <1>1, EntrySet DEF Removed
<1>3. cConn'[k][j] = None /\ \A i \in Ids : i # j => cConn'[k][i] = cConn[k][i]
  <2>1. CASE cConn' = cConn /\ cConn[k][j] = None
    BY <2>1
  <2>2. CASE cConn' = Removed(cConn, k, j)
    BY <1>2, <2>2
  <2> QED
    BY <2>1, <2>2
<1>4. pend'[k][j] = None /\ \A i \in Ids : i # j => pend'[k][i] = pend[k][i]
  <2>1. CASE pend' = pend /\ pend[k][j] = None
    BY <2>1
  <2>2. CASE pend' = Removed(pend, k, j)
    BY <1>2, <2>2
  <2> QED
    BY <2>1, <2>2
<1> QED
  BY <1>3, <1>4 DEF KnownNext, KnownElse, Known

(* establishConnection gives the id a target socket.                       *)
LEMMA EstablishKnows ==
  ASSUME TypeInv, NEW k \in Sessions, NEW j \in Ids, NEW s \in Sockets, NEW early,
         Establish(k, j, s, early)
  PROVE  /\ KnownNext(k, j) /\ KnownElse(k, j)
         /\ \A l \in Sessions : l # k => cConn'[l] = cConn[l] /\ pend'[l] = pend[l]
<1>1. /\ cConn \in [Sessions -> [Ids -> Sockets \cup {None}]]
      /\ pend \in [Sessions -> [Ids -> Seq(Payloads) \cup {None}]]
  BY DEF TypeInv, TypeOK, ConnectionManagerTypeOK
<1>2. cConn' = [cConn EXCEPT ![k][j] = s] /\ pend' = Removed(pend, k, j)
  BY DEF Establish
<1>3. /\ \A i \in Ids : cConn'[k][i] = IF i = j THEN s ELSE cConn[k][i]
      /\ \A l \in Sessions : l # k => cConn'[l] = cConn[l]
  BY <1>1, <1>2, EntrySet
<1>4. /\ \A i \in Ids : pend'[k][i] = IF i = j THEN None ELSE pend[k][i]
      /\ \A l \in Sessions : l # k => pend'[l] = pend[l]
  BY <1>1, <1>2, EntrySet DEF Removed
<1>5. s # None
  BY TunnelAssumption
<1> QED
  BY <1>3, <1>4, <1>5 DEF KnownNext, KnownElse, Known

(* The frame the client handles.                                           *)
LEMMA HeadFrame ==
  ASSUME TypeInv, NEW k \in Sessions, down[k] # <<>>
  PROVE  LET f == Head(down[k])
         IN  /\ f \in Frames /\ f.id \in Ids /\ f.pay \in Payloads
             /\ f.type = "OPEN" => f.pay.of \in Sockets
<1>1. down[k] \in Seq(Frames)
  BY DEF TypeInv, TypeOK, TunnelTypeOK
<1>2. Head(down[k]) \in Frames
  BY <1>1
<1> QED
  BY <1>2 DEF Frames

(* A frame of session k.                                                   *)
LEMMA OpenDoes ==
  ASSUME TypeInv, NEW k \in Sessions, Linked(k), OneEntry(k), NEW h \in Hosts,
         OpenRejected(k, h) \/ OpenForbidden(k, h) \/ OpenAddress(k, h) \/ OpenName(k, h)
  PROVE  \E j \in Ids : Learns(k, j) \/ Forgets(k, j)
<1> DEFINE f == Head(down[k])
           j == f.id
<1>1. /\ down[k] # <<>> /\ down' = [down EXCEPT ![k] = Tail(@)]
      /\ f.type = "OPEN"
  BY DEF OpenRejected, OpenForbidden, OpenAddress, OpenName, Delivered
<1>2. down \in [Sessions -> Seq(Frames)]
  BY DEF TypeInv, TypeOK, TunnelTypeOK
<1>3. Takes(k)
  BY <1>1, <1>2 DEF Takes
<1>4. f \in Frames /\ j \in Ids /\ f.pay.of \in Sockets
  BY <1>1, HeadFrame
<1>5. cConn[k][j] = None /\ pend[k][j] = None
  <2>1. In(down[k], "OPEN", j)
    BY <1>1, <1>2, InTail
  <2> QED
    BY <1>4, <2>1 DEF OneEntry, Known
<1>6. CASE OpenRejected(k, h)
  <2>1. cConn' = cConn /\ pend' = pend /\ ReplyFrames(k, <<Close(j)>>)
    BY <1>6 DEF OpenRejected
  <2>2. ~KnownNext(k, j) /\ KnownElse(k, j)
    BY <1>4, <1>5, <2>1, EntryGone
  <2> QED
    BY <1>1, <1>3, <1>4, <2>1, <2>2, ForgetsClosing
<1>7. CASE OpenForbidden(k, h)
  <2>1. /\ cConn' = cConn
        /\ pend' = pend \/ pend' = Removed(pend, k, j)
        /\ ReplyFrames(k, Refusal(j, f.pay.of))
    BY <1>7 DEF OpenForbidden
  <2>2. ~KnownNext(k, j) /\ KnownElse(k, j)
    BY <1>4, <1>5, <2>1, EntryGone
  <2>3. \E s \in Sockets : ReplyFrames(k, Refusal(j, s))
    BY <1>4, <2>1, Zenon
  <2> QED
    BY <1>1, <1>3, <1>4, <2>2, <2>3, ForgetsClosing
<1>8. CASE OpenAddress(k, h)
  <2>1. Establish(k, j, f.pay.of, <<>>) /\ up' = up
    BY <1>8 DEF OpenAddress
  <2>2. KnownNext(k, j) /\ KnownElse(k, j)
    BY <1>4, <2>1, EstablishKnows
  <2> QED
    BY <1>1, <1>3, <1>4, <2>1, <2>2 DEF Learns
<1>9. CASE OpenName(k, h)
  <2>1. cConn' = cConn /\ pend' = [pend EXCEPT ![k][j] = <<>>] /\ up' = up
    BY <1>9 DEF OpenName
  <2>2. \A i \in Ids : pend'[k][i] = IF i = j THEN <<>> ELSE pend[k][i]
    <3>1. pend \in [Sessions -> [Ids -> Seq(Payloads) \cup {None}]]
      BY DEF TypeInv, TypeOK, ConnectionManagerTypeOK
    <3> QED
      BY <1>4, <2>1, <3>1, EntrySet
  <2>3. <<>> # None
    <3>1. <<>> \in Seq(Payloads)
      OBVIOUS
    <3> QED
      BY <3>1, QueuesAreEntries, Zenon
  <2>4. KnownNext(k, j) /\ KnownElse(k, j)
    BY <1>4, <2>1, <2>2, <2>3 DEF KnownNext, KnownElse, Known
  <2> QED
    BY <1>1, <1>3, <1>4, <2>1, <2>4 DEF Learns
<1> QED
  BY <1>6, <1>7, <1>8, <1>9

LEMMA DataDoes ==
  ASSUME TypeInv, NEW k \in Sessions, Linked(k), OneEntry(k),
         DataConnected(k) \/ DataOverflow(k) \/ DataPending(k) \/ DataUnknown(k)
  PROVE  Goes(k) \/ \E j \in Ids : Forgets(k, j)
<1> DEFINE f == Head(down[k])
           j == f.id
           s == cConn[k][j]
<1>1. /\ down[k] # <<>> /\ down' = [down EXCEPT ![k] = Tail(@)]
      /\ f.type = "DATA"
  BY DEF DataConnected, DataOverflow, DataPending, DataUnknown, Delivered
<1>2. /\ down \in [Sessions -> Seq(Frames)]
      /\ pend \in [Sessions -> [Ids -> Seq(Payloads) \cup {None}]]
  BY DEF TypeInv, TypeOK, TunnelTypeOK, ConnectionManagerTypeOK
<1>3. Takes(k)
  BY <1>1, <1>2 DEF Takes
<1>4. f \in Frames /\ j \in Ids /\ f.pay \in Payloads
  BY <1>1, HeadFrame
<1>5. s # None => pend[k][j] = None
  BY <1>4 DEF OneEntry
<1>6. ASSUME cConn' = cConn, pend' = pend, up' = up
      PROVE  Goes(k)
  BY <1>1, <1>3, <1>6 DEF Goes, KnownNext, Known
<1>7. ASSUME ReplyFrames(k, <<Close(j)>>),
             (cConn' = cConn /\ s = None) \/ cConn' = Removed(cConn, k, j),
             (pend' = pend /\ pend[k][j] = None) \/ pend' = Removed(pend, k, j)
      PROVE  Forgets(k, j)
  <2>1. ~KnownNext(k, j) /\ KnownElse(k, j)
    BY <1>4, <1>7, EntryGone
  <2> QED
    BY <1>1, <1>3, <1>4, <1>7, <2>1, ForgetsClosing
<1>8. CASE DataConnected(k)
  <2>1. pend' = pend /\ s # None
    BY <1>8 DEF DataConnected
  <2>2. \/ ReplyFrames(k, <<Close(j)>>) /\ cConn' = Removed(cConn, k, j)
        \/ up' = up /\ cConn' = cConn
    BY <1>8, Zenon DEF DataConnected
  <2> QED
    BY <1>4, <1>5, <1>6, <1>7, <2>1, <2>2
<1>9. CASE DataOverflow(k)
  <2>1. pend' = pend /\ ReplyFrames(k, <<Close(j)>>) /\ cConn' = Removed(cConn, k, j)
        /\ s \in Slow
    BY <1>9, Zenon DEF DataOverflow
  <2>2. s # None
    BY <2>1, TunnelAssumption
  <2> QED
    BY <1>4, <1>5, <1>7, <2>1, <2>2
<1>10. CASE DataPending(k)
  <2>1. cConn' = cConn /\ s = None
    BY <1>10 DEF DataPending
  <2>2. \/ ReplyFrames(k, <<Close(j)>>) /\ pend' = Removed(pend, k, j)
        \/ up' = up /\ pend' = [pend EXCEPT ![k][j] = Append(pend[k][j], f.pay)]
    BY <1>10, Zenon DEF DataPending
  <2>3. CASE ReplyFrames(k, <<Close(j)>>) /\ pend' = Removed(pend, k, j)
    BY <1>4, <1>7, <2>1, <2>3
  <2>4. CASE up' = up /\ pend' = [pend EXCEPT ![k][j] = Append(pend[k][j], f.pay)]
    <3>1. \A i \in Ids : pend'[k][i] = IF i = j THEN Append(pend[k][j], f.pay) ELSE pend[k][i]
      BY <1>2, <1>4, <2>4, EntrySet
    <3>2. pend[k][j] # None
      BY <1>10 DEF DataPending
    <3>3. Append(pend[k][j], f.pay) # None
      <4>1. pend[k][j] \in Seq(Payloads)
        BY <1>2, <1>4, <3>2
      <4>2. Append(pend[k][j], f.pay) \in Seq(Payloads)
        BY <1>4, <4>1
      <4> QED
        BY <4>2, QueuesAreEntries, Zenon
    <3>4. \A i \in Ids : KnownNext(k, i) <=> Known(k, i)
      BY <2>1, <3>1, <3>2, <3>3 DEF KnownNext, Known
    <3> QED
      BY <1>1, <1>3, <2>4, <3>4 DEF Goes
  <2> QED
    BY <2>2, <2>3, <2>4
<1>11. CASE DataUnknown(k)
  <2>1. cConn' = cConn /\ pend' = pend /\ s = None /\ pend[k][j] = None
        /\ ReplyFrames(k, <<Close(j)>>)
    BY <1>11 DEF DataUnknown
  <2> QED
    BY <1>4, <1>7, <2>1
<1> QED
  BY <1>8, <1>9, <1>10, <1>11

LEMMA CloseDoes ==
  ASSUME TypeInv, NEW k \in Sessions, CloseFrame(k)
  PROVE  \E j \in Ids : Obeys(k, j)
<1> DEFINE f == Head(down[k])
           j == f.id
<1>1. /\ down[k] # <<>> /\ down' = [down EXCEPT ![k] = Tail(@)]
      /\ f.type = "CLOSE" /\ up' = up
      /\ cConn' = Removed(cConn, k, j) /\ pend' = Removed(pend, k, j)
  BY DEF CloseFrame, Delivered
<1>2. /\ down \in [Sessions -> Seq(Frames)]
      /\ pend \in [Sessions -> [Ids -> Seq(Payloads) \cup {None}]]
      /\ cConn \in [Sessions -> [Ids -> Sockets \cup {None}]]
  BY DEF TypeInv, TypeOK, TunnelTypeOK, ConnectionManagerTypeOK
<1>3. Takes(k)
  BY <1>1, <1>2 DEF Takes
<1>4. f \in Frames /\ j \in Ids
  BY <1>1, HeadFrame
<1>5. cConn'[k][j] = None /\ pend'[k][j] = None
  BY <1>1, <1>2, <1>4, EntrySet DEF Removed
<1>6. ~KnownNext(k, j) /\ KnownElse(k, j)
  BY <1>1, <1>4, <1>5, EntryGone
<1> QED
  BY <1>1, <1>3, <1>4, <1>6 DEF Obeys

(* Nothing happens to session k.                                           *)
LEMMA GoesElsewhere ==
  ASSUME NEW k \in Sessions, down'[k] = down[k],
         cConn'[k] = cConn[k], pend'[k] = pend[k],
         up'[k] = up[k] \/ \E f \in Frames : f.type # "CLOSE" /\ up'[k] = up[k] \o <<f>>
  PROVE  Goes(k)
BY DEF Goes, KnownNext, Known

(* A frame of any session.                                                 *)
LEMMA FrameDoes ==
  ASSUME TypeInv, NEW k \in Sessions, Linked(k), OneEntry(k),
         NEW l \in Sessions, ClientHandles(l)
  PROVE  Goes(k) \/ \E j \in Ids : Learns(k, j) \/ Forgets(k, j) \/ Obeys(k, j)
<1>1. CASE l = k
  BY <1>1, OpenDoes, DataDoes, CloseDoes, Zenon DEF ClientHandles
<1>2. CASE l # k
  <2> DEFINE f == Head(down[l])
  <2>1. down[l] # <<>> /\ down' = [down EXCEPT ![l] = Tail(@)]
    BY DEF ClientHandles, OpenRejected, OpenForbidden, OpenAddress, OpenName, DataConnected,
       DataOverflow, DataPending, DataUnknown, CloseFrame, Delivered
  <2>2. /\ down \in [Sessions -> Seq(Frames)]
        /\ pend \in [Sessions -> [Ids -> Seq(Payloads) \cup {None}]]
        /\ cConn \in [Sessions -> [Ids -> Sockets \cup {None}]]
    BY DEF TypeInv, TypeOK, TunnelTypeOK, ConnectionManagerTypeOK
  <2>3. f.id \in Ids
    BY <2>1, HeadFrame
  <2>4. down'[k] = down[k]
    BY <1>2, <2>1, <2>2
  <2>5. \/ cConn' = cConn \/ cConn' = Removed(cConn, l, f.id)
        \/ \E s : cConn' = [cConn EXCEPT ![l][f.id] = s]
    BY Zenon DEF ClientHandles, OpenRejected, OpenForbidden, OpenAddress, OpenName,
       DataConnected, DataOverflow, DataPending, DataUnknown, CloseFrame, Establish
  <2>6. \/ pend' = pend \/ pend' = Removed(pend, l, f.id)
        \/ \E q : pend' = [pend EXCEPT ![l][f.id] = q]
    BY Zenon DEF ClientHandles, OpenRejected, OpenForbidden, OpenAddress, OpenName,
       DataConnected, DataOverflow, DataPending, DataUnknown, CloseFrame, Establish
  <2>7. cConn'[k] = cConn[k] /\ pend'[k] = pend[k]
    BY <1>2, <2>2, <2>5, <2>6 DEF Removed
  <2>8. up' = up \/ \E fs : ReplyFrames(l, fs)
    BY Zenon DEF ClientHandles, OpenRejected, OpenForbidden, OpenAddress, OpenName,
       DataConnected, DataOverflow, DataPending, DataUnknown, CloseFrame
  <2>9. up'[k] = up[k]
    BY <1>2, <2>8, ReplyFramesPuts
  <2> QED
    BY <2>4, <2>7, <2>9, GoesElsewhere
<1> QED
  BY <1>1, <1>2

(* The callback of a lookup.                                               *)
LEMMA ResolvesDoes ==
  ASSUME TypeInv, Sourced, NEW k \in Sessions, Linked(k), OneEntry(k),
         NEW d \in dns, Resolves(d)
  PROVE  Goes(k) \/ \E j \in Ids : Forgets(k, j)
<1> DEFINE l == d.sess
           j == d.id
<1>1. l \in Sessions /\ j \in Ids /\ d.of \in Sockets
  BY DEF TypeInv, TypeOK, ConnectionManagerTypeOK, Lookups
<1>2. /\ pend \in [Sessions -> [Ids -> Seq(Payloads) \cup {None}]]
      /\ cConn \in [Sessions -> [Ids -> Sockets \cup {None}]]
  BY DEF TypeInv, TypeOK, ConnectionManagerTypeOK
<1>3. CASE LookupStale(d)
  BY <1>3, GoesElsewhere DEF LookupStale, tunnelVars
<1>4. CASE LookupFails(d)
  <2>1. /\ pend[l][j] # None /\ pend' = Removed(pend, l, j) /\ cConn' = cConn /\ down' = down
        /\ ReplyFrames(l, Refusal(j, d.of))
    BY <1>4 DEF LookupFails
  <2>2. CASE l = k
    <3>1. cConn[k][j] = None
      BY <1>1, <2>1, <2>2 DEF OneEntry
    <3>2. ~KnownNext(k, j) /\ KnownElse(k, j)
      BY <1>1, <2>1, <2>2, <3>1, EntryGone
    <3>3. Known(k, j)
      BY <2>1, <2>2 DEF Known
    <3>4. \E s \in Sockets : ReplyFrames(k, Refusal(j, s))
      BY <1>1, <2>1, <2>2, Zenon
    <3>5. Forgets(k, j)
      BY <1>1, <2>1, <3>2, <3>3, <3>4, ForgetsClosing
    <3> QED
      BY <1>1, <3>5
  <2>3. CASE l # k
    <3>1. pend'[k] = pend[k]
      BY <1>1, <1>2, <2>1, <2>3 DEF Removed
    <3>2. up'[k] = up[k]
      BY <1>1, <2>1, <2>3, ReplyFramesPuts
    <3> QED
      BY <2>1, <3>1, <3>2, GoesElsewhere
  <2> QED
    BY <2>2, <2>3
<1>5. CASE LookupSucceeds(d)
  <2>1. /\ pend[l][j] # None /\ Establish(l, j, d.of, pend[l][j])
        /\ down' = down /\ up' = up
    BY <1>5 DEF LookupSucceeds, tunnelVars
  <2>2. /\ KnownNext(l, j) /\ KnownElse(l, j)
        /\ \A m \in Sessions : m # l => cConn'[m] = cConn[m] /\ pend'[m] = pend[m]
    BY <1>1, <2>1, EstablishKnows
  <2>3. CASE l = k
    <3>1. Known(k, j)
      BY <2>1, <2>3 DEF Known
    <3> QED
      BY <2>1, <2>2, <2>3, <3>1 DEF Goes, KnownElse
  <2>4. CASE l # k
    BY <2>1, <2>2, <2>4, GoesElsewhere
  <2> QED
    BY <2>3, <2>4
<1> QED
  BY <1>3, <1>4, <1>5 DEF Resolves

(* The cleanup of a target socket.                                         *)
LEMMA TargetCleanupDoes ==
  ASSUME TypeInv, NEW k \in Sessions, Linked(k), OneEntry(k),
         NEW s \in Sockets, tst[s] # "none", TargetCleanup(s), pend' = pend, down' = down
  PROVE  Goes(k) \/ \E j \in Ids : Forgets(k, j)
<1> DEFINE l == tKey[s].sess
           j == tKey[s].id
<1>1. l \in Sessions /\ j \in Ids
  BY DEF TypeInv, KeysOK, TypeOK, ConnectionManagerTypeOK
<1>2. CASE cConn[l][j] = None
  <2>1. up' = up /\ cConn' = cConn
    BY <1>2 DEF TargetCleanup
  <2> QED
    BY <2>1, GoesElsewhere
<1>3. CASE cConn[l][j] # None
  <2>1. ReplyFrames(l, <<Close(j)>>) /\ cConn' = Removed(cConn, l, j)
    BY <1>3 DEF TargetCleanup
  <2>2. CASE l = k
    <3>1. pend[k][j] = None
      BY <1>1, <1>3, <2>2 DEF OneEntry
    <3>2. ~KnownNext(k, j) /\ KnownElse(k, j)
      BY <1>1, <2>1, <2>2, <3>1, EntryGone
    <3>3. Known(k, j)
      BY <1>3, <2>2 DEF Known
    <3>4. Forgets(k, j)
      BY <1>1, <2>1, <2>2, <3>2, <3>3, ForgetsClosing
    <3> QED
      BY <1>1, <3>4
  <2>3. CASE l # k
    <3>1. cConn'[k] = cConn[k]
      BY <1>1, <2>1, <2>3 DEF Removed, TypeInv, TypeOK, ConnectionManagerTypeOK
    <3>2. up'[k] = up[k]
      BY <1>1, <2>1, <2>3, ReplyFramesPuts
    <3> QED
      BY <3>1, <3>2, GoesElsewhere
  <2> QED
    BY <2>2, <2>3
<1> QED
  BY <1>2, <1>3

(* An event of a target socket.                                            *)
LEMMA TargetDoes ==
  ASSUME TypeInv, NEW k \in Sessions, Linked(k), OneEntry(k), NEW s \in Sockets,
         \/ TargetConnects(s) \/ TargetSends(s) \/ TargetEnds(s)
         \/ TargetFails(s) \/ TargetClosed(s)
  PROVE  Goes(k) \/ \E j \in Ids : Forgets(k, j)
<1>1. tst[s] # "none"
  BY DEF TargetConnects, TargetSends, TargetEnds, TargetFails, TargetClosed
<1>2. tKey[s].sess \in Sessions /\ tKey[s].id \in Ids
  BY <1>1 DEF TypeInv, KeysOK, TypeOK, ConnectionManagerTypeOK
<1>3. ASSUME NEW f \in Frames, f.type # "CLOSE", ReplyFrames(tKey[s].sess, <<f>>),
             UNCHANGED <<cConn, pend, down>>
      PROVE  Goes(k)
  <2>1. up'[k] = up[k] \/ up'[k] = up[k] \o <<f>>
    BY <1>2, <1>3, ReplyFramesPuts
  <2> QED
    BY <1>3, <2>1, GoesElsewhere
<1>4. CASE TargetConnects(s)
  <2>1. OpenAck(tKey[s].id) \in Frames /\ OpenAck(tKey[s].id).type # "CLOSE"
    BY <1>2, FrameTypes DEF OpenAck, Frame
  <2> QED
    BY <1>3, <1>4, <2>1 DEF TargetConnects
<1>5. CASE TargetSends(s)
  <2>1. tSent[s] + 1 \in Nat
    BY DEF TypeInv, TypeOK, ConnectionManagerTypeOK
  <2>2. Data(tKey[s].id, Down(s, tSent[s] + 1)) \in Frames
    BY <1>2, <2>1, FrameTypes, PayloadTypes
  <2>3. Data(tKey[s].id, Down(s, tSent[s] + 1)).type # "CLOSE"
    BY DEF Data, Frame
  <2> QED
    BY <1>3, <1>5, <2>2, <2>3 DEF TargetSends
<1>6. CASE TargetEnds(s) \/ TargetFails(s) \/ TargetClosed(s)
  <2>1. TargetCleanup(s) /\ pend' = pend /\ down' = down
    BY <1>6 DEF TargetEnds, TargetFails, TargetClosed
  <2> QED
    BY <1>1, <2>1, TargetCleanupDoes
<1> QED
  BY <1>4, <1>5, <1>6

(* Every step that leaves the session linked.                              *)
LEMMA ClientDoes ==
  ASSUME TypeInv, Sourced, ClientNext, NEW k \in Sessions, Linked(k), OneEntry(k),
         cliWs'[k] = "open"
  PROVE  Goes(k) \/ \E j \in Ids : Learns(k, j) \/ Forgets(k, j) \/ Obeys(k, j)
<1>1. ASSUME NEW l \in Sessions, ClientShuts(l)
      PROVE  Goes(k)
  BY <1>1, GoesElsewhere DEF ClientShuts, cliVars
<1>2. ASSUME NEW l \in Sessions, ClientWsClosed(l)
      PROVE  Goes(k)
  <2>1. /\ down' = [down EXCEPT ![l] = <<>>] /\ pend' = pend /\ up' = up
        /\ cConn' = [cConn EXCEPT ![l] = [i \in Ids |-> None]]
        /\ cliWs' = [cliWs EXCEPT ![l] = "closed"]
    BY <1>2 DEF ClientWsClosed, CloseAllTargets
  <2>2. l # k
    BY <2>1 DEF TypeInv, TypeOK, TunnelTypeOK
  <2>3. down'[k] = down[k]
    BY <2>1, <2>2 DEF TypeInv, TypeOK, TunnelTypeOK
  <2>4. cConn'[k] = cConn[k]
    BY <2>1, <2>2 DEF TypeInv, TypeOK, ConnectionManagerTypeOK
  <2> QED
    BY <2>1, <2>3, <2>4, GoesElsewhere
<1>3. ASSUME NEW l \in Sessions, ClientHandles(l)
      PROVE  Goes(k) \/ \E j \in Ids : Learns(k, j) \/ Forgets(k, j) \/ Obeys(k, j)
  BY <1>3, FrameDoes
<1>4. ASSUME NEW d \in dns, Resolves(d)
      PROVE  Goes(k) \/ \E j \in Ids : Forgets(k, j)
  BY <1>4, ResolvesDoes
<1>5. ASSUME NEW s \in Sockets,
             \/ TargetConnects(s) \/ TargetSends(s) \/ TargetEnds(s)
             \/ TargetFails(s) \/ TargetClosed(s)
      PROVE  Goes(k) \/ \E j \in Ids : Forgets(k, j)
  BY <1>5, TargetDoes
<1> QED
  BY <1>1, <1>2, <1>3, <1>4, <1>5, Zenon DEF ClientNext

-----------------------------------------------------------------------------
(* Every step keeps every id where it should be.                           *)

(* What the client takes off the channel.                                  *)
LEMMA InTaken ==
  ASSUME NEW k, down[k] \in Seq(Frames), OpensFirst(down[k]), Takes(k), NEW i
  PROVE  /\ In(down[k], "OPEN", i) <=> (Head(down[k]).type = "OPEN" /\ Head(down[k]).id = i)
                                       \/ In(down'[k], "OPEN", i)
         /\ In(down[k], "CLOSE", i) <=> (Head(down[k]).type = "CLOSE" /\ Head(down[k]).id = i)
                                        \/ In(down'[k], "CLOSE", i)
         /\ ~In(down'[k], "OPEN", Head(down[k]).id)
<1> DEFINE q == down[k]
<1>1. q \in Seq(Frames) /\ q # <<>> /\ OpensFirst(q) /\ down'[k] = Tail(q)
  BY DEF Takes
<1> HIDE DEF q
<1>2. /\ In(q, "OPEN", i) <=> (Head(q).type = "OPEN" /\ Head(q).id = i) \/ In(Tail(q), "OPEN", i)
      /\ In(q, "CLOSE", i) <=> (Head(q).type = "CLOSE" /\ Head(q).id = i) \/ In(Tail(q), "CLOSE", i)
  BY <1>1, InTail, Zenon
<1>3. ~In(Tail(q), "OPEN", Head(q).id)
  BY <1>1, HeadOpens
<1> QED
  BY <1>1, <1>2, <1>3, Zenon DEF q

(* Where nothing changes for an id, it stays where it is.                  *)
LEMMA BalancedSame ==
  ASSUME NEW k, NEW i, BalancedAt(k, i),
         (conns'[i] # None) <=> (conns[i] # None),
         KnownNext(k, i) <=> Known(k, i),
         In(down'[k], "OPEN", i) <=> In(down[k], "OPEN", i),
         In(down'[k], "CLOSE", i) <=> In(down[k], "CLOSE", i),
         In(up'[k], "CLOSE", i) <=> In(up[k], "CLOSE", i)
  PROVE  BalancedAt(k, i)'
BY Zenon DEF BalancedAt, Balanced, Known, KnownNext

(* What the server puts on a session that is linked is on its channel.     *)
LEMMA LinkedSend ==
  ASSUME TypeInv, NEW k \in Sessions, Linked(k), NEW fs, SendFrames(fs)
  PROVE  down'[k] = down[k] \o fs
BY DEF Linked, IsReady, SendFrames, Put, TypeInv, TypeOK, TunnelTypeOK, Sessions

(* A frame taken off the channel to the server that closes nothing.        *)
LEMMA TookClosed ==
  ASSUME TypeInv, NEW k \in Sessions, Took(k), NEW i \in Ids
  PROVE  /\ In(up'[k], "CLOSE", i) => In(up[k], "CLOSE", i)
         /\ conns[i] # None => (In(up'[k], "CLOSE", i) <=> In(up[k], "CLOSE", i))
<1>1. CASE up'[k] = up[k]
  BY <1>1
<1>2. CASE /\ up[k] # <<>> /\ up'[k] = Tail(up[k])
           /\ Head(up[k]).type = "CLOSE" => conns[Head(up[k]).id] = None
  <2>1. up[k] \in Seq(Frames)
    BY DEF TypeInv, TypeOK, TunnelTypeOK
  <2>2. In(up[k], "CLOSE", i) <=>
          (Head(up[k]).type = "CLOSE" /\ Head(up[k]).id = i) \/ In(Tail(up[k]), "CLOSE", i)
    BY <1>2, <2>1, InTail
  <2> QED
    BY <1>2, <2>2
<1> QED
  BY <1>1, <1>2 DEF Took

(* The server, for an id of the active session.                            *)
LEMMA BalancedStays ==
  ASSUME TypeInv, NEW k \in Sessions, UNCHANGED cliVars, NEW i \in Ids, BalancedAt(k, i),
         Stays(k)
  PROVE  BalancedAt(k, i)'
<1>1. conns' = conns /\ down' = down /\ cConn' = cConn /\ pend' = pend
  BY DEF Stays, cliVars
<1>2. /\ In(up'[k], "CLOSE", i) => In(up[k], "CLOSE", i)
      /\ conns[i] # None => (In(up'[k], "CLOSE", i) <=> In(up[k], "CLOSE", i))
  BY TookClosed DEF Stays
<1> QED
  BY <1>1, <1>2, Zenon DEF BalancedAt, Balanced, Known

LEMMA BalancedDrops ==
  ASSUME TypeInv, NEW k \in Sessions, Linked(k), UNCHANGED cliVars,
         NEW i \in Ids, BalancedAt(k, i), NEW j \in Ids, Drops(k, j)
  PROVE  BalancedAt(k, i)'
<1>1. cConn' = cConn /\ pend' = pend
  BY DEF cliVars
<1>2. /\ In(up'[k], "CLOSE", i) => In(up[k], "CLOSE", i)
      /\ conns[i] # None => (In(up'[k], "CLOSE", i) <=> In(up[k], "CLOSE", i))
  BY TookClosed DEF Drops
<1>3. /\ In(down'[k], "OPEN", i) <=> In(down[k], "OPEN", i)
      /\ In(down'[k], "CLOSE", i) <=> In(down[k], "CLOSE", i) \/ i = j
  <2>1. down'[k] = down[k] \o <<Close(j)>>
    BY LinkedSend DEF Drops
  <2>2. down[k] \in Seq(Frames) /\ <<Close(j)>> \in Seq(Frames)
    BY CloseCloses DEF TypeInv, TypeOK, TunnelTypeOK
  <2>3. Close(j).type = "CLOSE" /\ Close(j).id = j
    BY DEF Close, Frame
  <2>4. /\ In(<<Close(j)>>, "OPEN", i) <=> Close(j).type = "OPEN" /\ Close(j).id = i
        /\ In(<<Close(j)>>, "CLOSE", i) <=> Close(j).type = "CLOSE" /\ Close(j).id = i
    BY InFew, Zenon
  <2>5. /\ In(down'[k], "OPEN", i) <=> In(down[k], "OPEN", i) \/ In(<<Close(j)>>, "OPEN", i)
        /\ In(down'[k], "CLOSE", i) <=> In(down[k], "CLOSE", i) \/ In(<<Close(j)>>, "CLOSE", i)
    BY <2>1, <2>2, InGrown
  <2> QED
    BY <2>3, <2>4, <2>5
<1>4. conns'[i] = IF i = j THEN None ELSE conns[i]
  BY DEF Drops
<1>5. CASE i = j
  <2>1. conns'[i] = None
    BY <1>4, <1>5
  <2> QED
    BY <1>1, <1>2, <1>3, <1>5, <2>1, Zenon DEF BalancedAt, Balanced, Known
<1>6. CASE i # j
  <2>1. conns'[i] = conns[i]
    BY <1>4, <1>6
  <2> QED
    BY <1>1, <1>2, <1>3, <1>6, <2>1, Zenon DEF BalancedAt, Balanced, Known
<1> QED
  BY <1>5, <1>6

LEMMA BalancedCloses ==
  ASSUME TypeInv, NEW k \in Sessions, UNCHANGED cliVars,
         NEW i \in Ids, BalancedAt(k, i), NEW j \in Ids, Closes(k, j)
  PROVE  BalancedAt(k, i)'
<1>1. cConn' = cConn /\ pend' = pend /\ down' = down
  BY DEF cliVars, Closes
<1>2. conns'[i] = IF i = j THEN None ELSE conns[i]
  BY DEF Closes
<1>3. In(up[k], "CLOSE", i) <=> i = j \/ In(up'[k], "CLOSE", i)
  <2>1. up[k] \in Seq(Frames) /\ up[k] # <<>> /\ up'[k] = Tail(up[k])
        /\ Head(up[k]).type = "CLOSE" /\ Head(up[k]).id = j
    BY DEF Closes, TypeInv, TypeOK, TunnelTypeOK
  <2> QED
    BY <2>1, InTail
<1>4. CASE i = j
  <2>1. conns'[i] = None /\ In(up[k], "CLOSE", i)
    BY <1>2, <1>3, <1>4
  <2> QED
    BY <1>1, <2>1, Zenon DEF BalancedAt, Balanced, Known
<1>5. CASE i # j
  <2>1. conns'[i] = conns[i] /\ (In(up'[k], "CLOSE", i) <=> In(up[k], "CLOSE", i))
    BY <1>2, <1>3, <1>5
  <2> QED
    BY <1>1, <2>1, Zenon DEF BalancedAt, Balanced, Known
<1> QED
  BY <1>4, <1>5

LEMMA BalancedSend ==
  ASSUME TypeInv, LiveInMap, NEW k \in Sessions, Linked(k), UNCHANGED cliVars,
         NEW i \in Ids, BalancedAt(k, i), NEW s \in Sockets, BrowserSend(s)
  PROVE  BalancedAt(k, i)'
<1> DEFINE f == Data(regId[s], Up(s, bSent[s] + 1))
<1>1. cConn' = cConn /\ pend' = pend /\ conns' = conns /\ up' = up
  BY DEF cliVars, BrowserSend
<1>2. f \in Frames /\ f.type = "DATA"
  <2>1. regId[s] \in Ids /\ bSent[s] + 1 \in Nat
    BY DEF BrowserSend, TypeInv, TypeOK, FrameProtocolTypeOK, Ids
  <2> QED
    BY <2>1, FrameTypes, PayloadTypes DEF Data, Frame
<1>3. down'[k] = down[k] \o <<f>>
  BY LinkedSend DEF BrowserSend
<1>4. down[k] \in Seq(Frames) /\ <<f>> \in Seq(Frames)
  BY <1>2 DEF TypeInv, TypeOK, TunnelTypeOK
<1> HIDE DEF f
<1>5. ~In(<<f>>, "OPEN", i) /\ ~In(<<f>>, "CLOSE", i)
  <2>1. /\ In(<<f>>, "OPEN", i) <=> f.type = "OPEN" /\ f.id = i
        /\ In(<<f>>, "CLOSE", i) <=> f.type = "CLOSE" /\ f.id = i
    BY InFew, Zenon
  <2> QED
    BY <1>2, <2>1
<1>6. /\ In(down'[k], "OPEN", i) <=> In(down[k], "OPEN", i)
      /\ In(down'[k], "CLOSE", i) <=> In(down[k], "CLOSE", i)
  <2>1. /\ In(down'[k], "OPEN", i) <=> In(down[k], "OPEN", i) \/ In(<<f>>, "OPEN", i)
        /\ In(down'[k], "CLOSE", i) <=> In(down[k], "CLOSE", i) \/ In(<<f>>, "CLOSE", i)
    BY <1>3, <1>4, InGrown
  <2> QED
    BY <1>5, <2>1
<1> QED
  BY <1>1, <1>6, Zenon DEF BalancedAt, Balanced, Known

(* An id that was never given out is not in use anywhere.                  *)
LEMMA UnusedId ==
  ASSUME TypeInv, Sourced, NEW k \in Sessions, GivenOutIn(down[k]),
         NEW i \in Ids, ~GivenOut(i), NEW type
  PROVE  ~Known(k, i) /\ ~In(down[k], type, i) /\ ~In(up[k], type, i)
<1>1. ASSUME Known(k, i) PROVE FALSE
  <2>1. ASSUME cConn[k][i] # None PROVE FALSE
    <3>1. cConn[k][i] \in Sockets
      BY <2>1 DEF TypeInv, TypeOK, ConnectionManagerTypeOK
    <3>2. Holds(regId, regSess, cConn[k][i], k, i)
      BY <2>1 DEF Sourced, TargetsSourced
    <3> QED
      BY <3>1, <3>2 DEF Holds, GivenOut
  <2>2. ASSUME pend[k][i] # None PROVE FALSE
    <3>1. \E s \in Sockets : Holds(regId, regSess, s, k, i)
      BY <2>2 DEF Sourced, PendingSourced
    <3> QED
      BY <3>1 DEF Holds, GivenOut
  <2> QED
    BY <1>1, <2>1, <2>2 DEF Known
<1>2. ~In(down[k], type, i)
  BY Zenon DEF In, GivenOutIn
<1>3. ASSUME In(up[k], type, i) PROVE FALSE
  <2>1. PICK n \in 1 .. Len(up[k]) : up[k][n].type = type /\ up[k][n].id = i
    BY <1>3, Zenon DEF In
  <2>2. PICK s \in Sockets : Holds(regId, regSess, s, k, up[k][n].id)
    BY <2>1, Zenon DEF Sourced, UpSourced, UpFrom
  <2> QED
    BY <2>1, <2>2 DEF Holds, GivenOut
<1> QED
  BY <1>1, <1>2, <1>3

(* The id of a request was never given out.                                *)
LEMMA NewId ==
  ASSUME TypeInv, LiveInMap, FreshIds',
         NEW s \in Sockets, NEW m \in Methods, NEW extra \in BOOLEAN, Request(s, m, extra)
  PROVE  LET i == Candidate(FirstFree)
         IN  /\ i \in Ids /\ ~GivenOut(i)
             /\ regId' = [regId EXCEPT ![s] = i]
             /\ \A j \in Ids : conns'[j] = IF j = i THEN s ELSE conns[j]
<1> DEFINE i == Candidate(FirstFree)
<1>1. FreeAttempts # {} /\ regId' = [regId EXCEPT ![s] = i] /\ conns' = [conns EXCEPT ![i] = s]
      /\ regId[s] = 0
  BY DEF Request, LiveInMap
<1>2. FirstFree \in Int
  <2>1. FirstFree \in FreeAttempts
    BY <1>1, FirstFreeExists
  <2> QED
    BY <2>1 DEF FreeAttempts
<1>3. i \in Ids
  BY <1>2, CandidateType DEF TypeInv, TypeOK, FrameProtocolTypeOK
<1> HIDE DEF i
<1>4. ASSUME NEW t \in Sockets, regId[t] = i
      PROVE  FALSE
  <2>1. i # 0
    BY <1>3 DEF Ids
  <2>2. regId'[t] = i /\ regId'[s] = i /\ t # s
    BY <1>1, <1>4, <2>1 DEF TypeInv, TypeOK, FrameProtocolTypeOK
  <2> QED
    BY <2>1, <2>2, Zenon DEF FreshIds
<1>5. \A j \in Ids : conns'[j] = IF j = i THEN s ELSE conns[j]
  BY <1>1, <1>3 DEF TypeInv, TypeOK, FrameProtocolTypeOK
<1> QED
  BY <1>1, <1>3, <1>4, <1>5 DEF GivenOut, i

(* A request sends the OPEN of its id, and no CLOSE.                       *)
LEMMA RequestOpens ==
  ASSUME NEW s \in Sockets, NEW m, NEW extra, Candidate(FirstFree) \in Ids
  PROVE  LET fs == RequestFrames(s, m, extra)
         IN  /\ fs \in Seq(Frames) /\ OpensFirst(fs)
             /\ \A n \in 1 .. Len(fs) : fs[n].id = Candidate(FirstFree)
             /\ \A i \in Ids : In(fs, "OPEN", i) <=> i = Candidate(FirstFree)
             /\ \A i \in Ids : ~In(fs, "CLOSE", i)
<1> DEFINE j == Candidate(FirstFree)
           f == Open(j, s)
           g == Data(j, Up(s, 1))
<1>1. f \in Frames /\ g \in Frames
  BY FrameTypes, PayloadTypes
<1>2. f.type = "OPEN" /\ f.id = j /\ g.type = "DATA" /\ g.id = j
  BY DEF Open, Data, Frame
<1>3. RequestFrames(s, m, extra) = <<f>> \/ RequestFrames(s, m, extra) = <<f, g>>
  BY DEF RequestFrames
<1> HIDE DEF f, g, j
<1>4. /\ OpensFirst(<<f>>) /\ OpensFirst(<<f, g>>)
      /\ \A n \in 1 .. Len(<<f>>) : <<f>>[n] = f
      /\ \A n \in 1 .. Len(<<f, g>>) : <<f, g>>[n] = f \/ <<f, g>>[n] = g
  BY <1>1, <1>2, FewOpens
<1>5. <<f>> \in Seq(Frames) /\ <<f, g>> \in Seq(Frames)
  BY <1>1
<1>6. ASSUME NEW i \in Ids
      PROVE  /\ In(<<f>>, "OPEN", i) <=> i = j
             /\ In(<<f, g>>, "OPEN", i) <=> i = j
             /\ ~In(<<f>>, "CLOSE", i) /\ ~In(<<f, g>>, "CLOSE", i)
  <2>1. /\ In(<<f>>, "OPEN", i) <=> f.type = "OPEN" /\ f.id = i
        /\ In(<<f, g>>, "OPEN", i) <=>
             (f.type = "OPEN" /\ f.id = i) \/ (g.type = "OPEN" /\ g.id = i)
    BY InFew, Zenon
  <2>2. /\ In(<<f>>, "CLOSE", i) <=> f.type = "CLOSE" /\ f.id = i
        /\ In(<<f, g>>, "CLOSE", i) <=>
             (f.type = "CLOSE" /\ f.id = i) \/ (g.type = "CLOSE" /\ g.id = i)
    BY InFew, Zenon
  <2> QED
    BY <1>2, <2>1, <2>2
<1>7. CASE RequestFrames(s, m, extra) = <<f>>
  <2>1. \A n \in 1 .. Len(<<f>>) : <<f>>[n].id = j
    BY <1>2, <1>4, Zenon
  <2> QED
    BY <1>4, <1>5, <1>6, <1>7, <2>1, Zenon DEF j
<1>8. CASE RequestFrames(s, m, extra) = <<f, g>>
  <2>1. \A n \in 1 .. Len(<<f, g>>) : <<f, g>>[n].id = j
    BY <1>2, <1>4, Zenon
  <2> QED
    BY <1>4, <1>5, <1>6, <1>8, <2>1, Zenon DEF j
<1> QED
  BY <1>3, <1>7, <1>8

LEMMA BalancedRequest ==
  ASSUME TypeInv, LiveInMap, Sourced, FreshIds', NEW k \in Sessions, Linked(k),
         UNCHANGED cliVars, GivenOutIn(down[k]), NEW i \in Ids, BalancedAt(k, i),
         NEW s \in Sockets, NEW m \in Methods, NEW extra \in BOOLEAN, Request(s, m, extra)
  PROVE  BalancedAt(k, i)'
<1> DEFINE j  == Candidate(FirstFree)
           fs == RequestFrames(s, m, extra)
<1>1. cConn' = cConn /\ pend' = pend /\ up' = up /\ SendFrames(fs)
  BY DEF cliVars, Request, RequestFrames
<1>2. j \in Ids /\ ~GivenOut(j) /\ \A x \in Ids : conns'[x] = IF x = j THEN s ELSE conns[x]
  BY NewId
<1>3. fs \in Seq(Frames) /\ (In(fs, "OPEN", i) <=> i = j) /\ ~In(fs, "CLOSE", i)
  BY <1>2, RequestOpens
<1>4. down'[k] = down[k] \o fs /\ down[k] \in Seq(Frames)
  BY <1>1, LinkedSend DEF TypeInv, TypeOK, TunnelTypeOK
<1> HIDE DEF j, fs
<1>5. /\ In(down'[k], "OPEN", i) <=> In(down[k], "OPEN", i) \/ In(fs, "OPEN", i)
      /\ In(down'[k], "CLOSE", i) <=> In(down[k], "CLOSE", i) \/ In(fs, "CLOSE", i)
  BY <1>3, <1>4, InGrown
<1>6. CASE i = j
  <2>1. ~Known(k, i) /\ ~In(down[k], "CLOSE", i) /\ ~In(up[k], "CLOSE", i)
    BY <1>2, <1>6, UnusedId
  <2>2. conns'[i] # None
    BY <1>2, <1>6, TunnelAssumption
  <2>3. In(down'[k], "OPEN", i) /\ ~In(down'[k], "CLOSE", i)
    BY <1>3, <1>5, <1>6, <2>1
  <2> QED
    BY <1>1, <2>1, <2>2, <2>3, Zenon DEF BalancedAt, Balanced, Known
<1>7. CASE i # j
  <2>1. conns'[i] = conns[i]
    BY <1>2, <1>7
  <2>2. /\ In(down'[k], "OPEN", i) <=> In(down[k], "OPEN", i)
        /\ In(down'[k], "CLOSE", i) <=> In(down[k], "CLOSE", i)
    BY <1>3, <1>5, <1>7
  <2> QED
    BY <1>1, <2>1, <2>2, Zenon DEF BalancedAt, Balanced, Known
<1> QED
  BY <1>6, <1>7

(* The client, for an id of the active session.                            *)
LEMMA BalancedGoes ==
  ASSUME TypeInv, NEW k \in Sessions, UNCHANGED srvVars,
         OpensFirst(down[k]),
         NEW i \in Ids, BalancedAt(k, i), Goes(k)
  PROVE  BalancedAt(k, i)'
<1>1. conns' = conns /\ (KnownNext(k, i) <=> Known(k, i))
  BY DEF srvVars, Goes
<1>2. down[k] \in Seq(Frames) /\ up[k] \in Seq(Frames)
  BY DEF TypeInv, TypeOK, TunnelTypeOK
<1>3. /\ In(down'[k], "OPEN", i) <=> In(down[k], "OPEN", i)
      /\ In(down'[k], "CLOSE", i) <=> In(down[k], "CLOSE", i)
  <2>1. CASE down'[k] = down[k]
    BY <2>1
  <2>2. CASE Takes(k) /\ Head(down[k]).type = "DATA"
    <3>1. /\ In(down[k], "OPEN", i) <=> (Head(down[k]).type = "OPEN" /\ Head(down[k]).id = i)
                                        \/ In(down'[k], "OPEN", i)
          /\ In(down[k], "CLOSE", i) <=> (Head(down[k]).type = "CLOSE" /\ Head(down[k]).id = i)
                                         \/ In(down'[k], "CLOSE", i)
      BY <1>2, <2>2, InTaken
    <3> QED
      BY <2>2, <3>1
  <2> QED
    BY <2>1, <2>2 DEF Goes
<1>4. In(up'[k], "CLOSE", i) <=> In(up[k], "CLOSE", i)
  <2>1. CASE up'[k] = up[k]
    BY <2>1
  <2>2. ASSUME NEW f \in Frames, f.type # "CLOSE", up'[k] = up[k] \o <<f>>
        PROVE  In(up'[k], "CLOSE", i) <=> In(up[k], "CLOSE", i)
    <3>1. In(<<f>>, "CLOSE", i) <=> f.type = "CLOSE" /\ f.id = i
      BY InFew, Zenon
    <3>2. <<f>> \in Seq(Frames)
      BY <2>2
    <3>3. In(up'[k], "CLOSE", i) <=> In(up[k], "CLOSE", i) \/ In(<<f>>, "CLOSE", i)
      BY <1>2, <2>2, <3>2, InGrown
    <3> QED
      BY <2>2, <3>1, <3>3
  <2> QED
    BY <2>1, <2>2 DEF Goes
<1> QED
  BY <1>1, <1>3, <1>4, BalancedSame

LEMMA BalancedLearns ==
  ASSUME TypeInv, NEW k \in Sessions, UNCHANGED srvVars, OpensFirst(down[k]),
         NEW i \in Ids, BalancedAt(k, i), NEW j \in Ids, Learns(k, j)
  PROVE  BalancedAt(k, i)'
<1>1. conns' = conns /\ up'[k] = up[k] /\ KnownNext(k, j)
      /\ (i # j => (KnownNext(k, i) <=> Known(k, i)))
  BY DEF srvVars, Learns, KnownElse
<1>2. down[k] \in Seq(Frames) /\ Takes(k) /\ Head(down[k]).type = "OPEN" /\ Head(down[k]).id = j
  BY DEF Learns, TypeInv, TypeOK, TunnelTypeOK
<1>3. /\ In(down[k], "OPEN", i) <=> (Head(down[k]).type = "OPEN" /\ Head(down[k]).id = i)
                                    \/ In(down'[k], "OPEN", i)
      /\ In(down[k], "CLOSE", i) <=> (Head(down[k]).type = "CLOSE" /\ Head(down[k]).id = i)
                                     \/ In(down'[k], "CLOSE", i)
      /\ ~In(down'[k], "OPEN", Head(down[k]).id)
  BY <1>2, InTaken
<1>4. CASE i = j
  <2>1. In(down[k], "OPEN", i) /\ ~In(down'[k], "OPEN", i)
        /\ (In(down'[k], "CLOSE", i) <=> In(down[k], "CLOSE", i)) /\ KnownNext(k, i)
    BY <1>1, <1>2, <1>3, <1>4
  <2> QED
    BY <1>1, <2>1, Zenon DEF BalancedAt, Balanced, Known, KnownNext
<1>5. CASE i # j
  <2>1. /\ In(down'[k], "OPEN", i) <=> In(down[k], "OPEN", i)
        /\ In(down'[k], "CLOSE", i) <=> In(down[k], "CLOSE", i)
    BY <1>2, <1>3, <1>5
  <2> QED
    BY <1>1, <1>5, <2>1, BalancedSame
<1> QED
  BY <1>4, <1>5

LEMMA BalancedForgets ==
  ASSUME TypeInv, NEW k \in Sessions, UNCHANGED srvVars, OpensFirst(down[k]),
         NEW i \in Ids, BalancedAt(k, i), NEW j \in Ids, Forgets(k, j)
  PROVE  BalancedAt(k, i)'
<1>1. conns' = conns /\ ~KnownNext(k, j) /\ (i # j => (KnownNext(k, i) <=> Known(k, i)))
  BY DEF srvVars, Forgets, KnownElse
<1>2. down[k] \in Seq(Frames) /\ up[k] \in Seq(Frames)
  BY DEF TypeInv, TypeOK, TunnelTypeOK
<1>3. In(up'[k], "CLOSE", i) <=> In(up[k], "CLOSE", i) \/ i = j
  <2>1. PICK fs \in Seq(Frames) : /\ up'[k] = up[k] \o fs
                                  /\ \A x \in Ids : In(fs, "CLOSE", x) <=> x = j
    BY Zenon DEF Forgets
  <2>2. In(up'[k], "CLOSE", i) <=> In(up[k], "CLOSE", i) \/ In(fs, "CLOSE", i)
    BY <1>2, <2>1, InGrown
  <2> QED
    BY <2>1, <2>2
<1>4. \/ down'[k] = down[k] /\ Known(k, j)
      \/ Takes(k) /\ Head(down[k]).id = j /\ Head(down[k]).type # "CLOSE"
  BY DEF Forgets
<1>5. CASE down'[k] = down[k] /\ Known(k, j)
  <2>1. CASE i = j
    BY <1>1, <1>3, <1>5, <2>1, Zenon DEF BalancedAt, Balanced, Known, KnownNext
  <2>2. CASE i # j
    BY <1>1, <1>3, <1>5, <2>2, BalancedSame
  <2> QED
    BY <2>1, <2>2
<1>6. CASE Takes(k) /\ Head(down[k]).id = j /\ Head(down[k]).type # "CLOSE"
  <2>1. /\ In(down[k], "OPEN", i) <=> (Head(down[k]).type = "OPEN" /\ Head(down[k]).id = i)
                                      \/ In(down'[k], "OPEN", i)
        /\ In(down[k], "CLOSE", i) <=> (Head(down[k]).type = "CLOSE" /\ Head(down[k]).id = i)
                                       \/ In(down'[k], "CLOSE", i)
        /\ ~In(down'[k], "OPEN", Head(down[k]).id)
    BY <1>2, <1>6, InTaken
  <2>2. CASE i = j
    <3>1. ~In(down'[k], "OPEN", i) /\ (In(down'[k], "CLOSE", i) <=> In(down[k], "CLOSE", i))
      BY <1>6, <2>1, <2>2
    <3>2. In(up'[k], "CLOSE", i) /\ ~KnownNext(k, i)
      BY <1>1, <1>3, <2>2
    <3> QED
      BY <1>1, <3>1, <3>2, Zenon DEF BalancedAt, Balanced, Known, KnownNext
  <2>3. CASE i # j
    <3>1. /\ In(down'[k], "OPEN", i) <=> In(down[k], "OPEN", i)
          /\ In(down'[k], "CLOSE", i) <=> In(down[k], "CLOSE", i)
      BY <1>6, <2>1, <2>3
    <3> QED
      BY <1>1, <1>3, <2>3, <3>1, BalancedSame
  <2> QED
    BY <2>2, <2>3
<1> QED
  BY <1>4, <1>5, <1>6

LEMMA BalancedObeys ==
  ASSUME TypeInv, NEW k \in Sessions, UNCHANGED srvVars, OpensFirst(down[k]),
         NEW i \in Ids, BalancedAt(k, i), NEW j \in Ids, Obeys(k, j)
  PROVE  BalancedAt(k, i)'
<1>1. conns' = conns /\ up'[k] = up[k] /\ ~KnownNext(k, j)
      /\ (i # j => (KnownNext(k, i) <=> Known(k, i)))
  BY DEF srvVars, Obeys, KnownElse
<1>2. down[k] \in Seq(Frames) /\ Takes(k) /\ Head(down[k]).type = "CLOSE" /\ Head(down[k]).id = j
  BY DEF Obeys, TypeInv, TypeOK, TunnelTypeOK
<1>3. /\ In(down[k], "OPEN", i) <=> (Head(down[k]).type = "OPEN" /\ Head(down[k]).id = i)
                                    \/ In(down'[k], "OPEN", i)
      /\ In(down[k], "CLOSE", i) <=> (Head(down[k]).type = "CLOSE" /\ Head(down[k]).id = i)
                                     \/ In(down'[k], "CLOSE", i)
      /\ ~In(down'[k], "OPEN", Head(down[k]).id)
  BY <1>2, InTaken
<1>4. CASE i = j
  <2>1. In(down[k], "CLOSE", i) /\ ~In(down'[k], "OPEN", i) /\ ~KnownNext(k, i)
    BY <1>1, <1>2, <1>3, <1>4
  <2> QED
    BY <1>1, <2>1, Zenon DEF BalancedAt, Balanced, Known, KnownNext
<1>5. CASE i # j
  <2>1. /\ In(down'[k], "OPEN", i) <=> In(down[k], "OPEN", i)
        /\ In(down'[k], "CLOSE", i) <=> In(down[k], "CLOSE", i)
    BY <1>2, <1>3, <1>5
  <2> QED
    BY <1>1, <1>5, <2>1, BalancedSame
<1> QED
  BY <1>4, <1>5

-----------------------------------------------------------------------------
(* A session begins with nothing known or on the way.                      *)

LEMMA UnbegunSession ==
  ASSUME TypeInv, Sourced, NEW k \in Sessions, cliWs[k] = "none", NEW i \in Ids
  PROVE  ~Known(k, i) /\ ~In(down[k], "OPEN", i) /\ ~In(up[k], "CLOSE", i)
<1>1. ASSUME NEW s \in Sockets, Holds(regId, regSess, s, k, i) PROVE FALSE
  <2>1. regId[s] # 0 /\ regSess[s] = k
    BY <1>1 DEF Holds, Ids
  <2> QED
    BY <2>1 DEF Sourced, SessionsBegun
<1>2. ASSUME Known(k, i) PROVE FALSE
  <2>1. ASSUME cConn[k][i] # None PROVE FALSE
    <3>1. cConn[k][i] \in Sockets
      BY <2>1 DEF TypeInv, TypeOK, ConnectionManagerTypeOK
    <3> QED
      BY <1>1, <2>1, <3>1 DEF Sourced, TargetsSourced
  <2>2. ASSUME pend[k][i] # None PROVE FALSE
    BY <1>1, <2>2 DEF Sourced, PendingSourced
  <2> QED
    BY <1>2, <2>1, <2>2 DEF Known
<1>3. ASSUME In(down[k], "OPEN", i) PROVE FALSE
  <2>1. PICK n \in 1 .. Len(down[k]) : down[k][n].type = "OPEN" /\ down[k][n].id = i
    BY <1>3, Zenon DEF In
  <2>2. down[k][n].pay.of \in Sockets /\ Holds(regId, regSess, down[k][n].pay.of, k, i)
    BY <2>1 DEF Sourced, DownSourced, DownFrom
  <2> QED
    BY <1>1, <2>2
<1>4. ASSUME In(up[k], "CLOSE", i) PROVE FALSE
  <2>1. PICK n \in 1 .. Len(up[k]) : up[k][n].type = "CLOSE" /\ up[k][n].id = i
    BY <1>4, Zenon DEF In
  <2>2. PICK s \in Sockets : Holds(regId, regSess, s, k, up[k][n].id)
    BY <2>1, Zenon DEF Sourced, UpSourced, UpFrom
  <2> QED
    BY <1>1, <2>1, <2>2
<1> QED
  BY <1>2, <1>3, <1>4

LEMMA BalancedConnection ==
  ASSUME TypeInv, RegisteredInSession, Sourced, NEW k \in Sessions, Connection(k),
         UNCHANGED cliVars, NEW i \in Ids
  PROVE  BalancedAt(k, i)'
<1>1. /\ cliWs[k] = "none" /\ down' = down /\ up' = up /\ cConn' = cConn /\ pend' = pend
      /\ TunnelClose(activeWs # 0)
  BY DEF Connection, cliVars
<1>2. ~Known(k, i) /\ ~In(down[k], "OPEN", i) /\ ~In(up[k], "CLOSE", i)
  BY <1>1, UnbegunSession
<1>3. conns'[i] = None
  <2>1. CASE activeWs = 0
    <3>1. conns' = [j \in Ids |-> IF j \in {} THEN None ELSE conns[j]]
      BY <1>1, <2>1 DEF TunnelClose, Evict
    <3>2. conns[i] = None
      BY <2>1, Zenon DEF RegisteredInSession
    <3> QED
      BY <3>1, <3>2
  <2>2. CASE activeWs # 0
    <3>1. conns' = [j \in Ids |-> IF j \in Registered THEN None ELSE conns[j]]
      BY <1>1, <2>2 DEF TunnelClose, Evict
    <3> QED
      BY <3>1 DEF Registered
  <2> QED
    BY <2>1, <2>2
<1> QED
  BY <1>1, <1>2, <1>3, Zenon DEF BalancedAt, Balanced, Known

(* A session that is linked was linked before, or begins.                  *)
LEMMA LinkedBefore ==
  ASSUME TypeInv, Sourced, Next, NEW k \in Sessions, Linked(k)'
  PROVE  (Linked(k) /\ activeWs' = activeWs) \/ Connection(k)
<1>1. activeWs' = k /\ srvWs'[k] = "open" /\ cliWs'[k] = "open"
  BY DEF Linked
<1>2. srvWs \in [Sessions -> WsStates] /\ cliWs \in [Sessions -> WsStates]
  BY DEF TypeInv, TypeOK, TunnelTypeOK
<1>3. ASSUME UNCHANGED <<activeWs, srvWs, cliWs>>
      PROVE  Linked(k) /\ activeWs' = activeWs
  BY <1>1, <1>3 DEF Linked
<1>4. CASE ServerNext
  <2>1. ASSUME NEW s \in Sockets,
               \/ \E m \in Methods : (\E extra \in BOOLEAN : Request(s, m, extra)) \/ Refuse(s, m)
               \/ BrowserSend(s) \/ BrowserEnd(s) \/ BrowserAbort(s)
               \/ EndingDestroyed(s) \/ BrowserClosed(s) \/ BrowserRead(s)
        PROVE  UNCHANGED <<activeWs, srvWs, cliWs>>
    BY <2>1 DEF Request, Refuse, BrowserSend, BrowserEnd, BrowserAbort, EndingDestroyed,
       BrowserClosed, BrowserRead, tunnelVars
  <2>2. ASSUME NEW l \in Sessions, ServerHandles(l)
        PROVE  UNCHANGED <<activeWs, srvWs, cliWs>>
    BY <2>2 DEF ServerHandles, FrameUnknown, FrameData, FrameClose, FrameOpenAck, Arrives
  <2>3. ASSUME NEW l \in Sessions, Connection(l)
        PROVE  Connection(k)
    BY <1>1, <2>3 DEF Connection
  <2>4. ASSUME NEW l \in Sessions, ServerShuts(l) \/ ServerWsClosed(l)
        PROVE  Linked(k) /\ activeWs' = activeWs
    <3>1. CASE ServerShuts(l)
      <4>1. srvWs' = Shut(srvWs, l) /\ cliWs' = cliWs /\ activeWs' = activeWs
        BY <3>1 DEF ServerShuts, srvVars
      <4>2. srvWs[k] = "open"
        BY <1>1, <1>2, <4>1 DEF Shut
      <4> QED
        BY <1>1, <4>1, <4>2 DEF Linked
    <3>2. CASE ServerWsClosed(l)
      <4>1. /\ srvWs' = [srvWs EXCEPT ![l] = "closed"] /\ cliWs' = cliWs
            /\ activeWs' = IF activeWs = l THEN 0 ELSE activeWs
        BY <3>2 DEF ServerWsClosed
      <4>2. srvWs[k] = "open"
        BY <1>1, <1>2, <4>1
      <4>3. activeWs' = activeWs
        BY <1>1, <4>1 DEF Sessions
      <4> QED
        BY <1>1, <4>1, <4>2, <4>3 DEF Linked
    <3> QED
      BY <2>4, <3>1, <3>2
  <2> QED
    BY <1>3, <1>4, <2>1, <2>2, <2>3, <2>4, Zenon DEF ServerNext
<1>5. CASE ClientNext /\ UNCHANGED srvVars
  <2>1. activeWs' = activeWs
    BY <1>5 DEF srvVars
  <2>2. ASSUME NEW l \in Sessions, ClientHandles(l)
        PROVE  UNCHANGED <<srvWs, cliWs>>
    BY <2>2 DEF ClientHandles, OpenRejected, OpenForbidden, OpenAddress, OpenName,
       DataConnected, DataOverflow, DataPending, DataUnknown, CloseFrame, Delivered
  <2>3. ASSUME NEW d \in dns, Resolves(d)
        PROVE  UNCHANGED <<srvWs, cliWs>>
    BY <2>3 DEF Resolves, LookupStale, LookupFails, LookupSucceeds, tunnelVars
  <2>4. ASSUME NEW s \in Sockets,
               \/ TargetConnects(s) \/ TargetSends(s) \/ TargetEnds(s)
               \/ TargetFails(s) \/ TargetClosed(s)
        PROVE  UNCHANGED <<srvWs, cliWs>>
    BY <2>4 DEF TargetConnects, TargetSends, TargetEnds, TargetFails, TargetClosed
  <2>5. ASSUME NEW l \in Sessions, ClientShuts(l) \/ ClientWsClosed(l)
        PROVE  srvWs' = srvWs /\ cliWs[k] = "open"
    <3>1. srvWs' = srvWs /\ (cliWs' = Shut(cliWs, l) \/ cliWs' = [cliWs EXCEPT ![l] = "closed"])
      BY <2>5 DEF ClientShuts, ClientWsClosed
    <3> QED
      BY <1>1, <1>2, <3>1 DEF Shut
  <2> QED
    BY <1>1, <1>5, <2>1, <2>2, <2>3, <2>4, <2>5 DEF ClientNext, Linked
<1> QED
  BY <1>4, <1>5 DEF Next

-----------------------------------------------------------------------------
(* The ids on the channels to the client.                                  *)

GivenOutNext(i) == \E s \in Sockets : regId'[s] = i

LEMMA GivenOutKept ==
  ASSUME TypeInv, LiveInMap, [Next]_vars, NEW i \in Ids, GivenOut(i)
  PROVE  GivenOutNext(i)
<1>1. PICK s \in Sockets : regId[s] = i
  BY DEF GivenOut
<1>2. regId[s] # 0
  BY <1>1 DEF Ids
<1>3. regId'[s] = i
  BY <1>1, <1>2, RegistrationKept
<1> QED
  BY <1>3 DEF GivenOutNext

(* A channel that shrinks, or grows by frames whose OPENs have new ids.    *)
LEMMA ChannelMore ==
  ASSUME TypeInv, LiveInMap, [Next]_vars, NEW k \in Sessions,
         GivenOutIn(down[k]), OpensFirst(down[k]), NEW fs \in Seq(Frames), OpensFirst(fs),
         \A n \in 1 .. Len(fs) : GivenOutNext(fs[n].id),
         \A n \in 1 .. Len(fs) : fs[n].type = "OPEN" => ~GivenOut(fs[n].id),
         down'[k] = down[k] \o fs
  PROVE  /\ \A n \in 1 .. Len(down'[k]) : GivenOutNext(down'[k][n].id)
         /\ OpensFirst(down'[k])
<1> DEFINE q == down[k]
           z == down'[k]
<1>1. q \in Seq(Frames) /\ \A n \in 1 .. Len(q) : q[n].id \in Ids
  BY DEF TypeInv, TypeOK, TunnelTypeOK, Frames
<1>2. ASSUME NEW n \in 1 .. Len(z)
      PROVE  GivenOutNext(z[n].id)
  <2>1. \/ n \in 1 .. Len(q) /\ z[n] = q[n]
        \/ n - Len(q) \in 1 .. Len(fs) /\ z[n] = fs[n - Len(q)]
    BY <1>1, MoreFrames
  <2>2. CASE n \in 1 .. Len(q) /\ z[n] = q[n]
    <3>1. q[n].id \in Ids /\ GivenOut(q[n].id)
      BY <1>1, <2>2, Zenon DEF GivenOutIn
    <3> QED
      BY <2>2, <3>1, GivenOutKept
  <2>3. CASE n - Len(q) \in 1 .. Len(fs) /\ z[n] = fs[n - Len(q)]
    BY <2>3
  <2> QED
    BY <2>1, <2>2, <2>3
<1>3. \A n \in 1 .. Len(fs) : fs[n].type = "OPEN" =>
        \A m \in 1 .. Len(q) : q[m].id # fs[n].id
  BY Zenon DEF GivenOutIn
<1>4. OpensFirst(q \o fs)
  BY <1>1, <1>3, MoreOpens
<1> QED
  BY <1>2, <1>4

LEMMA ChannelLess ==
  ASSUME TypeInv, LiveInMap, [Next]_vars, NEW k \in Sessions,
         GivenOutIn(down[k]), OpensFirst(down[k]),
         \/ down'[k] = down[k]
         \/ down[k] # <<>> /\ down'[k] = Tail(down[k])
         \/ down'[k] = <<>>
  PROVE  /\ \A n \in 1 .. Len(down'[k]) : GivenOutNext(down'[k][n].id)
         /\ OpensFirst(down'[k])
<1>1. down[k] \in Seq(Frames)
  BY DEF TypeInv, TypeOK, TunnelTypeOK
<1>2. GivenOutIn(down'[k]) /\ OpensFirst(down'[k]) /\ down'[k] \in Seq(Frames)
  <2>1. CASE down'[k] = down[k]
    BY <1>1, <2>1
  <2>2. CASE down[k] # <<>> /\ down'[k] = Tail(down[k])
    BY <1>1, <2>2, HeadOpens, GivenOutTail, TailFrames
  <2>3. CASE down'[k] = <<>>
    <3>1. 1 .. Len(down'[k]) = {} /\ down'[k] \in Seq(Frames)
      BY <2>3
    <3> QED
      BY <3>1, Zenon DEF GivenOutIn, OpensFirst
  <2> QED
    BY <2>1, <2>2, <2>3
<1>3. ASSUME NEW n \in 1 .. Len(down'[k])
      PROVE  GivenOutNext(down'[k][n].id)
  <2>1. down'[k][n].id \in Ids
    BY <1>2 DEF Frames
  <2>2. GivenOut(down'[k][n].id)
    BY <1>2, Zenon DEF GivenOutIn
  <2> QED
    BY <2>1, <2>2, GivenOutKept
<1> QED
  BY <1>2, <1>3

(* What a step of the server puts on a channel.                            *)
LEMMA ChannelByServer ==
  ASSUME TypeInv, LiveInMap, RegisteredInSession, Sourced, FreshIds, FreshIds', Next,
         ServerNext, NEW k \in Sessions, GivenOutIn(down[k]), OpensFirst(down[k])
  PROVE  /\ \A n \in 1 .. Len(down'[k]) : GivenOutNext(down'[k][n].id)
         /\ OpensFirst(down'[k])
<1> DEFINE Goal == /\ \A n \in 1 .. Len(down'[k]) : GivenOutNext(down'[k][n].id)
                   /\ OpensFirst(down'[k])
<1>1. CASE down'[k] = down[k]
  BY <1>1, ChannelLess
<1>2. ASSUME NEW fs \in Seq(Frames), OpensFirst(fs), SendFrames(fs),
             \A n \in 1 .. Len(fs) : GivenOutNext(fs[n].id),
             \A n \in 1 .. Len(fs) : fs[n].type = "OPEN" => ~GivenOut(fs[n].id)
      PROVE  Goal
  <2>1. down'[k] = down[k] \/ down'[k] = down[k] \o fs
    BY <1>2, SendFramesPuts
  <2> QED
    BY <1>1, <1>2, <2>1, ChannelMore
<1>3. ASSUME NEW f \in Frames, f.type # "OPEN", SendFrames(<<f>>), GivenOut(f.id)
      PROVE  Goal
  <2>1. <<f>> \in Seq(Frames) /\ f.id \in Ids
    BY <1>3 DEF Frames
  <2>2. OpensFirst(<<f>>) /\ \A n \in 1 .. Len(<<f>>) : <<f>>[n] = f
    BY <1>3, FewOpens
  <2>3. GivenOutNext(f.id)
    BY <1>3, <2>1, GivenOutKept
  <2>4. \A n \in 1 .. Len(<<f>>) : GivenOutNext(<<f>>[n].id) /\ <<f>>[n].type # "OPEN"
    BY <1>3, <2>2, <2>3, Zenon
  <2> QED
    BY <1>2, <1>3, <2>1, <2>2, <2>4
<1>4. ASSUME k = activeWs, activeWs' = activeWs
      PROVE  Goal
  <2>1. \/ Stays(k)
        \/ \E j \in Ids : Drops(k, j) \/ Closes(k, j)
        \/ \E s \in Sockets : BrowserSend(s)
        \/ \E s \in Sockets, m \in Methods, extra \in BOOLEAN : Request(s, m, extra)
    BY <1>4, ServerDoes
  <2>2. CASE Stays(k)
    BY <1>1, <2>2 DEF Stays
  <2>3. ASSUME NEW j \in Ids, Drops(k, j)
        PROVE  Goal
    <3>1. Close(j) \in Frames /\ Close(j).type # "OPEN" /\ Close(j).id = j
      BY FrameTypes DEF Close, Frame
    <3>2. SendFrames(<<Close(j)>>) /\ GivenOut(Close(j).id)
      BY <2>3, <3>1 DEF Drops
    <3> QED
      BY <1>3, <3>1, <3>2
  <2>4. ASSUME NEW j \in Ids, Closes(k, j)
        PROVE  Goal
    BY <1>1, <2>4 DEF Closes
  <2>5. ASSUME NEW s \in Sockets, BrowserSend(s)
        PROVE  Goal
    <3> DEFINE f == Data(regId[s], Up(s, bSent[s] + 1))
    <3>1. regId[s] \in Ids /\ bSent[s] + 1 \in Nat /\ SendFrames(<<f>>)
      BY <2>5 DEF BrowserSend, TypeInv, TypeOK, FrameProtocolTypeOK, Ids
    <3>2. f \in Frames /\ f.type # "OPEN" /\ f.id = regId[s]
      BY <3>1, FrameTypes, PayloadTypes DEF Data, Frame
    <3>3. GivenOut(f.id)
      BY <3>2 DEF GivenOut
    <3> HIDE DEF f
    <3> QED
      BY <1>3, <3>1, <3>2, <3>3
  <2>6. ASSUME NEW s \in Sockets, NEW m \in Methods, NEW extra \in BOOLEAN,
               Request(s, m, extra)
        PROVE  Goal
    <3> DEFINE fs == RequestFrames(s, m, extra)
               i  == Candidate(FirstFree)
    <3>1. SendFrames(fs)
      BY <2>6 DEF Request, RequestFrames
    <3>2. i \in Ids /\ ~GivenOut(i) /\ regId' = [regId EXCEPT ![s] = i]
      BY <2>6, NewId
    <3>3. GivenOutNext(i)
      <4>1. regId'[s] = i
        BY <3>2 DEF TypeInv, TypeOK, FrameProtocolTypeOK
      <4> QED
        BY <4>1 DEF GivenOutNext
    <3>4. fs \in Seq(Frames) /\ OpensFirst(fs) /\ \A n \in 1 .. Len(fs) : fs[n].id = i
      BY <3>2, RequestOpens
    <3> HIDE DEF fs, i
    <3>5. \A n \in 1 .. Len(fs) : GivenOutNext(fs[n].id) /\ ~GivenOut(fs[n].id)
      BY <3>2, <3>3, <3>4, Zenon
    <3> QED
      BY <1>2, <3>1, <3>4, <3>5
  <2> QED
    BY <2>1, <2>2, <2>3, <2>4, <2>5, <2>6
<1>5. ASSUME k # activeWs \/ activeWs' # activeWs
      PROVE  down'[k] = down[k]
  <2>1. CASE k # activeWs
    BY <2>1, DownByServer DEF ServerPuts
  <2>2. CASE activeWs' # activeWs
    <3>1. ASSUME NEW s \in Sockets,
                 \/ \E m \in Methods : (\E extra \in BOOLEAN : Request(s, m, extra)) \/ Refuse(s, m)
                 \/ BrowserSend(s) \/ BrowserEnd(s) \/ BrowserAbort(s)
                 \/ EndingDestroyed(s) \/ BrowserClosed(s) \/ BrowserRead(s)
          PROVE  FALSE
      BY <2>2, <3>1 DEF Request, Refuse, BrowserSend, BrowserEnd, BrowserAbort,
         EndingDestroyed, BrowserClosed, BrowserRead
    <3>2. ASSUME NEW l \in Sessions, ServerHandles(l)
          PROVE  FALSE
      BY <2>2, <3>2 DEF ServerHandles, FrameUnknown, FrameData, FrameClose, FrameOpenAck, Arrives
    <3>3. ASSUME NEW l \in Sessions, Connection(l) \/ ServerShuts(l) \/ ServerWsClosed(l)
          PROVE  down' = down
      BY <3>3 DEF Connection, ServerShuts, ServerWsClosed
    <3> QED
      BY <3>1, <3>2, <3>3, Zenon DEF ServerNext
  <2> QED
    BY <1>5, <2>1, <2>2
<1> QED
  BY <1>1, <1>4, <1>5

-----------------------------------------------------------------------------
(* Every step.                                                             *)

LEMMA BalancedStep ==
  ASSUME TypeInv, LiveInMap, RegisteredInSession, Sourced, StreamsInOrder,
         FreshIds, FreshIds', Agreeing, Next,
         NEW k \in Sessions, Linked(k)', NEW i \in Ids
  PROVE  BalancedAt(k, i)'
<1>1. CASE Connection(k)
  <2>1. UNCHANGED cliVars
    <3>1. cliWs[k] = "none" /\ activeWs' = k
      BY <1>1 DEF Connection
    <3>2. activeWs # k
      BY <3>1 DEF Sourced, SessionsBegun, Sessions
    <3> QED
      BY <3>1, <3>2 DEF Next, srvVars
  <2> QED
    BY <1>1, <2>1, BalancedConnection
<1>2. CASE Linked(k) /\ activeWs' = activeWs
  <2>1. BalancedAt(k, i) /\ GivenOutIn(down[k]) /\ OpensFirst(down[k])
    BY <1>2 DEF Agreeing
  <2>2. k = activeWs /\ cliWs'[k] = "open"
    BY <1>2 DEF Linked
  <2>3. CASE ServerNext /\ UNCHANGED cliVars
    <3>1. \/ Stays(k)
          \/ \E j \in Ids : Drops(k, j) \/ Closes(k, j)
          \/ \E s \in Sockets : BrowserSend(s)
          \/ \E s \in Sockets, m \in Methods, extra \in BOOLEAN : Request(s, m, extra)
      BY <1>2, <2>2, <2>3, ServerDoes
    <3>2. CASE Stays(k)
      BY <2>1, <2>3, <3>2, BalancedStays
    <3>3. ASSUME NEW j \in Ids, Drops(k, j)
          PROVE  BalancedAt(k, i)'
      BY <1>2, <2>1, <2>3, <3>3, BalancedDrops
    <3>4. ASSUME NEW j \in Ids, Closes(k, j)
          PROVE  BalancedAt(k, i)'
      BY <2>1, <2>3, <3>4, BalancedCloses
    <3>5. ASSUME NEW s \in Sockets, BrowserSend(s)
          PROVE  BalancedAt(k, i)'
      BY <1>2, <2>1, <2>3, <3>5, BalancedSend
    <3>6. ASSUME NEW s \in Sockets, NEW m \in Methods, NEW extra \in BOOLEAN,
                 Request(s, m, extra)
          PROVE  BalancedAt(k, i)'
      BY <1>2, <2>1, <2>3, <3>6, BalancedRequest
    <3> QED
      BY <3>1, <3>2, <3>3, <3>4, <3>5, <3>6
  <2>4. CASE ClientNext /\ UNCHANGED srvVars
    <3>1. OneEntry(k)
      BY OneEntryHolds
    <3>2. Goes(k) \/ \E j \in Ids : Learns(k, j) \/ Forgets(k, j) \/ Obeys(k, j)
      BY <1>2, <2>2, <2>4, <3>1, ClientDoes
    <3>3. CASE Goes(k)
      BY <2>1, <2>4, <3>3, BalancedGoes
    <3>4. ASSUME NEW j \in Ids, Learns(k, j)
          PROVE  BalancedAt(k, i)'
      BY <2>1, <2>4, <3>4, BalancedLearns
    <3>5. ASSUME NEW j \in Ids, Forgets(k, j)
          PROVE  BalancedAt(k, i)'
      BY <2>1, <2>4, <3>5, BalancedForgets
    <3>6. ASSUME NEW j \in Ids, Obeys(k, j)
          PROVE  BalancedAt(k, i)'
      BY <2>1, <2>4, <3>6, BalancedObeys
    <3> QED
      BY <3>2, <3>3, <3>4, <3>5, <3>6
  <2> QED
    BY <2>3, <2>4 DEF Next
<1> QED
  BY <1>1, <1>2, LinkedBefore

LEMMA AgreeingStep ==
  ASSUME TypeInv, LiveInMap, RegisteredInSession, Sourced, StreamsInOrder,
         FreshIds, FreshIds', Agreeing, [Next]_vars
  PROVE  Agreeing'
<1>1. CASE Next
  <2>1. ASSUME NEW k \in Sessions
        PROVE  /\ \A n \in 1 .. Len(down'[k]) : GivenOutNext(down'[k][n].id)
               /\ OpensFirst(down'[k])
    <3>1. GivenOutIn(down[k]) /\ OpensFirst(down[k])
      BY DEF Agreeing
    <3>2. CASE ServerNext
      BY <1>1, <3>1, <3>2, ChannelByServer
    <3>3. CASE ClientNext
      BY <3>1, <3>3, ChannelLess, DownByClient
    <3> QED
      BY <1>1, <3>2, <3>3 DEF Next
  <2>2. ASSUME NEW k \in Sessions
        PROVE  (GivenOutIn(down[k]) /\ OpensFirst(down[k]))'
    BY <2>1 DEF GivenOutIn, GivenOut, GivenOutNext, OpensFirst
  <2>3. ASSUME NEW k \in Sessions, Linked(k)', NEW i \in Ids
        PROVE  BalancedAt(k, i)'
    BY <1>1, <2>3, BalancedStep
  <2> QED
    BY <2>2, <2>3, Zenon DEF Agreeing
<1>2. CASE UNCHANGED vars
  <2>1. /\ conns' = conns /\ regId' = regId /\ activeWs' = activeWs /\ cConn' = cConn
        /\ pend' = pend /\ srvWs' = srvWs /\ cliWs' = cliWs /\ down' = down /\ up' = up
    BY <1>2 DEF vars, srvVars, cliVars, tunnelVars
  <2> QED
    BY <2>1 DEF Agreeing, GivenOutIn, GivenOut, OpensFirst, Linked, BalancedAt, Balanced,
       Known, In
<1> QED
  BY <1>1, <1>2

(* What the invariant says when nothing is on the way.                     *)
LEMMA AgreeingAgrees ==
  ASSUME TypeInv, Agreeing
  PROVE  Agreement
<1> SUFFICES ASSUME activeWs # 0, Quiet(activeWs)
             PROVE  Registered = Connected(activeWs) \cup Pending(activeWs)
  BY DEF Agreement
<1> DEFINE k == activeWs
<1>1. k \in Sessions /\ Linked(k) /\ up[k] = <<>> /\ down[k] = <<>>
  BY DEF Quiet, Linked, TypeInv, TypeOK, FrameProtocolTypeOK, Sessions
<1>2. ASSUME NEW i \in Ids
      PROVE  conns[i] # None <=> cConn[k][i] # None \/ pend[k][i] # None
  <2>1. BalancedAt(k, i)
    BY <1>1, Zenon DEF Agreeing
  <2>2. ~In(down[k], "OPEN", i) /\ ~In(down[k], "CLOSE", i) /\ ~In(up[k], "CLOSE", i)
    BY <1>1, InEmpty
  <2> QED
    BY <2>1, <2>2, Zenon DEF BalancedAt, Balanced, Known
<1> QED
  BY <1>2 DEF Registered, Connected, Pending

LEMMA AgreeingInit ==
  ASSUME Init
  PROVE  Agreeing
<1>1. \A k \in Sessions : down[k] = <<>>
  BY DEF Init, TunnelInit
<1>2. 1 .. Len(<<>>) = {} /\ activeWs = 0 /\ 0 \notin Sessions
  BY DEF Init, FrameProtocolInit, Sessions
<1> QED
  BY <1>1, <1>2 DEF Agreeing, GivenOutIn, OpensFirst, Linked

-----------------------------------------------------------------------------
(* While no connection id is given out twice, the two halves agree on the  *)
(* ids in use whenever nothing is in flight on an open session: neither    *)
(* frameProtocol.js nor connectionManager.js keeps an entry that the other *)
(* has forgotten.                                                          *)
THEOREM BothEndsAgree == Spec /\ []FreshIds => []Agreement
<1>1. Init => Agreeing
  BY AgreeingInit
<1>2. /\ TypeInv /\ LiveInMap /\ RegisteredInSession /\ Sourced /\ StreamsInOrder
      /\ FreshIds /\ FreshIds' /\ Agreeing /\ [Next]_vars
      => Agreeing'
  BY AgreeingStep
<1>3. TypeInv /\ Agreeing => Agreement
  BY AgreeingAgrees
<1>4. Spec => []TypeInv
  BY KeyedTypes
<1>5. Spec => []RegisteredInSession
  BY MapOfActiveSession
<1>6. Spec /\ []IdsApart => []LiveInMap
  BY LiveHolds
<1>7. Spec /\ []IdsApart => []Sourced
  BY SourcedHolds
<1>8. Spec /\ []FreshIds => []StreamsInOrder
  BY StreamsHold
<1>9. FreshIds => IdsApart
  BY FreshApart
<1> QED
  BY <1>1, <1>2, <1>3, <1>4, <1>5, <1>6, <1>7, <1>8, <1>9, PTL DEF Spec

(* So they do, without a hypothesis, as long as there are enough ids for   *)
(* all connections ever made.                                              *)
THEOREM FirstLapOfAgreement ==
  ASSUME EnoughIds
  PROVE  Spec => []Agreement
<1>1. Spec => []FreshIds
  BY IdsLast
<1>2. Spec /\ []FreshIds => []Agreement
  BY BothEndsAgree
<1> QED
  BY <1>1, <1>2, PTL
=============================================================================
