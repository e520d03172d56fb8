---------------------------- MODULE FrameDecoder -----------------------------
(***************************************************************************)
(* shared/frameDecoder.js, fed with what encodeFrame of                    *)
(* shared/frameEncoder.js makes of the frames that were sent.              *)
(*                                                                         *)
(* In the tunnel every message is one encoded frame and a listener of      *)
(* 'error' closes the socket, while messages under way still arrive        *)
(* (framing "message").  The class itself promises more: a continuous      *)
(* stream cut anywhere, as tests/test_decoder.js feeds it ("stream"); what *)
(* follows an error on such a stream is not fed any more.                  *)
(*                                                                         *)
(* A byte is a number.  The three fields of the header take one byte each, *)
(* so that HeaderSize is 3 where the code has 1 + 4 + 4.                   *)
(***************************************************************************)
EXTENDS Integers, Sequences, SequencesExt

CONSTANTS
  Streams,        \* the sequences of frames that may be sent
  MaxFrameSize,   \* MAX_FRAME_SIZE
  CompactAt       \* 1024 in _compactChunksIfNeeded

HeaderSize == 3

Frame == [type : Nat, connectionId : Nat, payload : Seq(Nat)]

ASSUME FrameDecoderAssumption ==
  /\ Streams \subseteq Seq(Frame)
  /\ MaxFrameSize \in Nat
  /\ CompactAt \in Nat

VARIABLES
  framing, sent,                  \* chosen at the start, never changed
  fed,                            \* bytes of the encoded frames given to push()
  chunks, chunkStart, chunkOffset, totalLength,   \* the decoder
  frames,                         \* 'frame' events
  errors                          \* 'error' events, by cause

vars == <<framing, sent, fed, chunks, chunkStart, chunkOffset, totalLength,
          frames, errors>>

-----------------------------------------------------------------------------
(* encodeFrame(): type, connectionId, length, payload.                     *)
Encode(frame) ==
  <<frame.type, frame.connectionId, Len(frame.payload)>> \o frame.payload

Wire(fs) == FlattenSeq([i \in 1 .. Len(fs) |-> Encode(fs[i])])

Encoded == Wire(sent)

(* The decoder's state as one value, for the loop inside push().           *)
Decoder ==
  [chunks |-> chunks, start |-> chunkStart, offset |-> chunkOffset,
   total |-> totalLength, frames |-> frames, errors |-> errors]

EmptiedButTotal(d) == [d EXCEPT !.chunks = <<>>, !.start = 0, !.offset = 0]

Emptied(d) == [d EXCEPT !.chunks = <<>>, !.start = 0, !.offset = 0, !.total = 0]

(* emit('error'), then _reset().                                           *)
Failed(d, cause) == [Emptied(d) EXCEPT !.errors = Append(@, cause)]

CompactNever(d) == d

Compact(d) ==
  IF d.start > CompactAt /\ d.start * 2 > Len(d.chunks)
  THEN [d EXCEPT !.chunks = SubSeq(@, d.start + 1, Len(@)), !.start = 0]
  ELSE d

(* The bytes the chunks hold from the offset on.                           *)
Held(d) ==
  LET all == FlattenSeq(SubSeq(d.chunks, d.start + 1, Len(d.chunks)))
  IN  SubSeq(all, d.offset + 1, Len(all))

First(d) == d.chunks[d.start + 1]

Available(d) == Len(First(d)) - d.offset

(* _peek(n): the n next bytes, fewer if the chunks hold fewer.             *)
Peek(d, n) == SubSeq(Held(d), 1, Min({n, Len(Held(d))}))

(* The bytes of the first k chunks that are not used up.                   *)
Whole(d, k) == Len(FlattenSeq(SubSeq(d.chunks, d.start + 1, d.start + k)))

(* The loop of _consume: as many chunks as n bytes use up are passed.  The *)
(* next one is kept, with its offset.                                      *)
UsedUp(d, n) ==
  Max({k \in 0 .. Len(d.chunks) - d.start : Whole(d, k) <= d.offset + n})

PassKeepingOffset(d, n) ==
  LET used == UsedUp(d, n)
  IN  [d EXCEPT !.start = @ + used, !.offset = IF used = 0 THEN @ + n ELSE @]

Pass(d, n) ==
  LET used == UsedUp(d, n)
  IN  [d EXCEPT !.start = @ + used, !.offset = @ + n - Whole(d, used)]

(* _consume(n) for 0 < n <= totalLength.  The chunk that holds more than n *)
(* bytes is the only case that does not look whether to compact.           *)
Consume(d, n) ==
  LET passed == [Pass(d, n) EXCEPT !.total = @ - n]
  IN  IF Available(d) > n THEN passed ELSE Compact(passed)

(* One round of the loop in _processBuffer(): the first frame, if it is    *)
(* complete.                                                               *)
Round(d) ==
  LET header  == Peek(d, HeaderSize)
      length  == header[3]
      body    == Consume(d, HeaderSize)
      payload == Peek(body, length)
      after   == IF length > 0 THEN Consume(body, length) ELSE body
      frame   == [type |-> header[1], connectionId |-> header[2], payload |-> payload]
  IN  IF d.total < HeaderSize THEN d
      ELSE IF Len(header) < HeaderSize THEN Failed(d, "fault")
      ELSE IF length > MaxFrameSize THEN Failed(d, "large")
      ELSE IF d.total < HeaderSize + length THEN d
      ELSE IF Len(payload) < length THEN Failed(body, "fault")
      ELSE [after EXCEPT !.frames = Append(@, frame)]

(* _processBuffer(): rounds until one changes nothing, of which there are  *)
(* no more than there is room for headers.                                 *)
ProcessBuffer(d) ==
  LET rounds == d.total \div HeaderSize
      round[i \in 0 .. rounds] == IF i = 0 THEN d ELSE Round(round[i - 1])
  IN  round[rounds]

OverflowsOneFrame(d, chunk) == d.total + Len(chunk) > MaxFrameSize

Overflows(d, chunk) == d.total + Len(chunk) > 2 * MaxFrameSize

Pushed(d, chunk) ==
  IF Overflows(d, chunk) THEN Failed(d, "limit")
  ELSE ProcessBuffer([d EXCEPT !.chunks = Append(@, chunk),
                               !.total = @ + Len(chunk)])

-----------------------------------------------------------------------------
TypeOK ==
  /\ framing \in {"message", "stream"}
  /\ sent \in Streams
  /\ fed \in 0 .. Len(Encoded)
  /\ chunks \in Seq(Seq(Nat))
  /\ chunkStart \in 0 .. Len(chunks)
  /\ chunkOffset \in Nat
  /\ totalLength \in 0 .. 2 * MaxFrameSize
  /\ frames \in Seq(Frame)
  /\ errors \in Seq({"limit", "large", "fault"})

Init ==
  /\ framing \in {"message", "stream"}
  /\ sent \in Streams
  /\ fed = 0
  /\ chunks = <<>>
  /\ chunkStart = 0
  /\ chunkOffset = 0
  /\ totalLength = 0
  /\ frames = <<>>
  /\ errors = <<>>

(* The next message is the next frame whole.                               *)
NextMessage == Encode(sent[Len(frames) + Len(errors) + 1])

(* push(chunk) with the n next bytes.                                      *)
Push(n) ==
  /\ n <= Len(Encoded) - fed
  /\ IF framing = "message" THEN n = Len(NextMessage) ELSE errors = <<>>
  /\ LET d == Pushed(Decoder, SubSeq(Encoded, fed + 1, fed + n))
     IN  /\ chunks' = d.chunks
         /\ chunkStart' = d.start
         /\ chunkOffset' = d.offset
         /\ totalLength' = d.total
         /\ frames' = d.frames
         /\ errors' = d.errors
  /\ fed' = fed + n
  /\ UNCHANGED <<framing, sent>>

Next == \E n \in 1 .. Len(Encoded) : Push(n)

Spec == Init /\ [][Next]_vars

-----------------------------------------------------------------------------
(* The frames that listeners may still get.                                *)
Pending ==
  IF framing = "stream" /\ errors # <<>> THEN <<>>
  ELSE SubSeq(sent, Len(frames) + Len(errors) + 1, Len(sent))

(* However the bytes are cut, listeners get the frames that were sent, in  *)
(* order, none twice, none altered and none mixed from two; with a message *)
(* per frame exactly those that are small enough.                          *)
Abstract == INSTANCE FrameStream WITH
  delivered <- frames,
  pending   <- Pending

ImplementsFrameStream == Abstract!Spec

(* Between two calls of push() the chunks hold totalLength bytes, which    *)
(* are the last ones fed and not a whole frame, and the offset lies inside *)
(* the first chunk: _peek and _consume never meet an integrity fault, and  *)
(* no frame that has arrived waits for the next message.                   *)
BufferExact ==
  /\ totalLength = Len(Held(Decoder))
  /\ Held(Decoder) = SubSeq(Encoded, fed - totalLength + 1, fed)
  /\ chunkOffset > 0 => Available(Decoder) > 0
  /\ totalLength >= HeaderSize =>
       totalLength < HeaderSize + Held(Decoder)[3]
  /\ \A i \in 1 .. Len(errors) : errors[i] # "fault"

(* What is kept is bounded, however long the decoder lives and whatever it *)
(* is fed: twice MaxFrameSize in bytes, and chunks that are used up are let *)
(* go of, which past CompactAt are never more than half of the list.       *)
Retention ==
  /\ totalLength <= 2 * MaxFrameSize
  /\ chunkStart <= Len(chunks)
  /\ chunkStart <= CompactAt \/ chunkStart * 2 <= Len(chunks)

(* A frame that is small enough is never refused by the limit on the whole *)
(* buffer, as long as no chunk is longer than what that limit leaves next  *)
(* to an incomplete frame; a message that is one such frame never is.      *)
LegalNeverRefused ==
  [][\A n \in 1 .. Len(Encoded) :
       Push(n) /\ errors' # errors =>
         \/ Len(sent[Len(frames') + Len(errors')].payload) > MaxFrameSize
         \/ framing = "stream" /\ n > MaxFrameSize - HeaderSize + 1]_vars
=============================================================================
