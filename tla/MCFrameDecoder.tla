--------------------------- MODULE MCFrameDecoder ----------------------------
(* An instance of FrameDecoder for TLC: some frames of some lengths.       *)
(* Types, ids and payload bytes all differ, so that a byte in the wrong    *)
(* place is seen.                                                          *)
EXTENDS FrameDecoder, TLC

CONSTANTS MaxFrames, Lengths

MCFrame(i, length) ==
  [type |-> 10 + i, connectionId |-> 20 + i,
   payload |-> [j \in 1 .. length |-> 100 * i + j]]

MCStreams ==
  UNION {{[i \in 1 .. n |-> MCFrame(i, lengths[i])] :
            lengths \in [1 .. n -> Lengths]} : n \in 1 .. MaxFrames}
=============================================================================
