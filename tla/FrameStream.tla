----------------------------- MODULE FrameStream -----------------------------
(***************************************************************************)
(* What a FrameDecoder promises to those who listen for its 'frame'        *)
(* events: the frames that were sent, in order, each at most once.         *)
(*                                                                         *)
(* Fed with one message per frame, as the tunnel does, it leaves out the   *)
(* frames that are too large and no others.  Fed with a continuous stream  *)
(* it may give up, and then delivers nothing more.                         *)
(***************************************************************************)
EXTENDS Integers, Sequences

CONSTANTS MaxFrameSize

VARIABLES
  framing,    \* "message" or "stream"
  pending,    \* frames sent and neither delivered nor left out
  delivered   \* frames delivered, in order

vars == <<framing, pending, delivered>>

TooLarge(frame) == Len(frame.payload) > MaxFrameSize

Init ==
  /\ framing \in {"message", "stream"}
  /\ delivered = <<>>

(* One input may complete several frames.                                  *)
Deliver ==
  \E n \in 1 .. Len(pending) :
    /\ \A i \in 1 .. n : ~TooLarge(pending[i])
    /\ delivered' = delivered \o SubSeq(pending, 1, n)
    /\ pending' = SubSeq(pending, n + 1, Len(pending))
    /\ UNCHANGED framing

LeaveOut ==
  /\ framing = "message"
  /\ pending # <<>>
  /\ TooLarge(Head(pending))
  /\ pending' = Tail(pending)
  /\ UNCHANGED <<framing, delivered>>

GiveUp ==
  \E n \in 0 .. Len(pending) :
    /\ framing = "stream"
    /\ delivered' = delivered \o SubSeq(pending, 1, n)
    /\ \A i \in 1 .. n : ~TooLarge(pending[i])
    /\ pending' = <<>>
    /\ UNCHANGED framing

Next == Deliver \/ LeaveOut \/ GiveUp

Spec == Init /\ [][Next]_vars
=============================================================================
