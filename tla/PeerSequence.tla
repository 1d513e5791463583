---------------------------- MODULE PeerSequence ----------------------------
(***************************************************************************)
(* The packet numbers of one Nearby Sync session: sendPacket() counts them *)
(* in 16 bits and skips 0, PeerBinding::accept takes a packet only if      *)
(* sequenceIsNewer() than the last one it took, by the sign of the 16-bit  *)
(* difference.  While two users compare codes a session can run for hours, *)
(* resending every 700 ms, and the counter wraps.                          *)
(***************************************************************************)
EXTENDS Integers

CONSTANT Half      \* half the numbers of the counter: 2^15 in the code
ASSUME HalfAssumption == Half \in Nat /\ Half >= 4

Modulus == 2 * Half
Sequence == 1..(Modulus - 1)

(* static_cast<int16_t>(candidate - previous) > 0 *)
SequenceIsNewer(candidate, previous) ==
  /\ candidate # 0
  /\ candidate # previous
  /\ (candidate - previous) % Modulus \in 1..(Half - 1)

Successor(s) == IF (s + 1) % Modulus = 0 THEN 1 ELSE s + 1

(* The number of the packet sent k packets after, and k packets before,    *)
(* the one numbered s: the counter goes round Modulus - 1 numbers.         *)
Later(s, k) == IF s + k < Modulus THEN s + k ELSE s + k - (Modulus - 1)
Earlier(s, k) == IF s - k > 0 THEN s - k ELSE s - k + (Modulus - 1)

(* Later is what sendPacket() counts to, and Earlier undoes it.            *)
LaterIsCounted ==
  \A s \in Sequence, k \in 0..(Half - 1) :
    /\ Later(s, 0) = s
    /\ Later(s, k + 1) = Successor(Later(s, k))
    /\ Earlier(Later(s, k), k) = s

(* A receiver is never stuck: after any loss of fewer than half the        *)
(* numbers (less two, for the step over 0) the next packet is taken.       *)
FreshIsTaken ==
  \A s \in Sequence, k \in 1..(Half - 2) : SequenceIsNewer(Later(s, k), s)

(* A duplicated or delayed packet of the half before the last one taken is *)
(* refused, across the wrap too.                                           *)
StaleIsRefused ==
  \A s \in Sequence, k \in 0..(Half - 1) : ~SequenceIsNewer(Earlier(s, k), s)

=============================================================================
