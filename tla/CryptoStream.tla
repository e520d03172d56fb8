---------------------------- MODULE CryptoStream ----------------------------
(***************************************************************************)
(* The sequence numbers of shared/cryptoStream.js: encryptMessage stamps   *)
(* each message with a w-bit counter (w = 32 in the code), decryptMessage  *)
(* compares it with the counter it expects, exactly in strict mode and as  *)
(* "not behind" in the other, and its callers (raspberryClient.js,         *)
(* tunnelServer.js) terminate the WebSocket when it throws, though what    *)
(* still arrives while that closes is decrypted like the rest.  AES-GCM    *)
(* itself is external: a message decrypts to what was encrypted.           *)
(*                                                                         *)
(* The link may lose, repeat and reorder messages, which a WebSocket does  *)
(* not do on its own; the counters are what notices when it happens.       *)
(***************************************************************************)
EXTENDS Integers, Sequences

CONSTANTS
  Modulus,          \* 2^w, the range of a sequence number
  MaxMessages       \* bound: messages encrypted

ASSUME CryptoStreamAssumption ==
  /\ Modulus \in Nat \ {0, 1}
  /\ Modulus % 2 = 0
  /\ MaxMessages \in Nat

VARIABLES
  strict,         \* isStrictSequenceEnabled, fixed by the constructor
  faithful,       \* the link neither loses, repeats nor reorders
  outSeq,         \* sender: this.outSeq
  encrypted,      \* sender: messages encrypted so far, not reduced modulo
  link,           \* messages on the way, numbered by their true position
  expectedInSeq,  \* receiver: this.expectedInSeq
  accepted,       \* receiver: true positions of the messages it returned
  terminated      \* decryptMessage has thrown

setting == <<strict, faithful>>
vars == <<setting, outSeq, encrypted, link, expectedInSeq, accepted, terminated>>

(* A message: its true position and the counter it carries.                *)
Messages == [pos : Nat, seq : 0 .. Modulus - 1]

(* Counters stay in their w bits; positions and the link are well formed.  *)
TypeOK ==
  /\ strict \in BOOLEAN
  /\ faithful \in BOOLEAN
  /\ outSeq \in 0 .. Modulus - 1
  /\ encrypted \in Nat
  /\ link \in Seq(Messages)
  /\ expectedInSeq \in 0 .. Modulus - 1
  /\ accepted \in Seq(Nat)
  /\ terminated \in BOOLEAN

Init ==
  /\ strict \in BOOLEAN
  /\ faithful \in BOOLEAN
  /\ outSeq = 0
  /\ encrypted = 0
  /\ link = <<>>
  /\ expectedInSeq = 0
  /\ accepted = <<>>
  /\ terminated = FALSE

Increment(c) == (c + 1) % Modulus

(* The next position a receiver that has lost nothing waits for.           *)
Position == IF accepted = <<>> THEN 0 ELSE accepted[Len(accepted)] + 1

(* How far from the receiver's position the link reaches: a counter of w   *)
(* bits tells apart no more than its range, the lenient check half of it.  *)
Window == IF strict THEN Modulus - 1 ELSE Modulus \div 2

EncryptMessageSaturating ==
  /\ encrypted < MaxMessages
  /\ encrypted < Position + Window
  /\ link' = Append(link, [pos |-> encrypted, seq |-> outSeq])
  /\ encrypted' = encrypted + 1
  /\ outSeq' = IF outSeq = Modulus - 1 THEN outSeq ELSE outSeq + 1
  /\ UNCHANGED <<setting, expectedInSeq, accepted, terminated>>

EncryptMessage ==
  /\ encrypted < MaxMessages
  /\ encrypted < Position + Window
  /\ link' = Append(link, [pos |-> encrypted, seq |-> outSeq])
  /\ encrypted' = encrypted + 1
  /\ outSeq' = Increment(outSeq)
  /\ UNCHANGED <<setting, expectedInSeq, accepted, terminated>>

Difference(seq) == (seq - expectedInSeq) % Modulus

PassesUnchecked(seq) == Difference(seq) <= Modulus \div 2 - 1

PassesHalf(seq) == Difference(seq) <= Modulus \div 2

Passes(seq) ==
  IF strict THEN Difference(seq) = 0
            ELSE Difference(seq) <= Modulus \div 2 - 1

Without(q, j) == SubSeq(q, 1, j - 1) \o SubSeq(q, j + 1, Len(q))

(* Which messages of the link can arrive next, and what stays in it.       *)
Arrivals ==
  IF faithful THEN {1} \cap 1 .. Len(link)
              ELSE {j \in 1 .. Len(link) : link[j].pos >= Position - Window}

Leftover(j) == IF faithful THEN {Tail(link)} ELSE {link, Without(link, j)}

Accept(j) ==
  /\ Passes(link[j].seq)
  /\ accepted' = Append(accepted, link[j].pos)
  /\ expectedInSeq' = IF Difference(link[j].seq) = 0 \/ strict
                      THEN Increment(expectedInSeq)
                      ELSE Increment(link[j].seq)
  /\ link' \in Leftover(j)
  /\ UNCHANGED <<setting, outSeq, encrypted, terminated>>

Reject(j) ==
  /\ ~Passes(link[j].seq)
  /\ terminated' = TRUE
  /\ link' \in Leftover(j)
  /\ UNCHANGED <<setting, outSeq, encrypted, expectedInSeq, accepted>>

(* Lost, or too old to turn up again.                                      *)
Lose(j) ==
  /\ ~faithful
  /\ link' = Without(link, j)
  /\ UNCHANGED <<setting, outSeq, encrypted, expectedInSeq, accepted, terminated>>

Next ==
  \/ EncryptMessage
  \/ \E j \in Arrivals : Accept(j) \/ Reject(j)
  \/ \E j \in 1 .. Len(link) : Lose(j)

Spec == Init /\ [][Next]_vars

-----------------------------------------------------------------------------
(* In strict mode the receiver returns the messages as they were sent:     *)
(* none missing, none twice, none out of order, across the wrap of the     *)
(* counter, whatever the link does within a window shorter than its range. *)
StrictPrefix == strict => \A n \in 1 .. Len(accepted) : accepted[n] = n - 1

(* In the other mode messages may be missing, but one that was returned is *)
(* never returned again nor is an older one, within half the range.        *)
NoReplay ==
  \A m, n \in 1 .. Len(accepted) : m < n => accepted[m] < accepted[n]

(* On a link that delivers faithfully, as a WebSocket does, the check      *)
(* never fails: a tunnel is not terminated because its counter wrapped.    *)
NoFalseAlarm == faithful => ~terminated
=============================================================================
