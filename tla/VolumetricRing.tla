--------------------------- MODULE VolumetricRing ---------------------------
(***************************************************************************)
(* src/circuit/ring-buffer.ts as operators on a record: a fixed array, a   *)
(* write pointer, a count of recorded samples and a running sum, so that   *)
(* the error rate costs one division.                                      *)
(*                                                                         *)
(* Rounding.  The array is a Float32Array: it holds the nearest float of   *)
(* the number stored, while the sum adds the number itself and later takes *)
(* away what the array held of it.  So the sum drifts from the array with  *)
(* every ratio such as 1/3, in either direction.  Ratios in [0.0, 1.0] are *)
(* integers 0..Scale in a unit that no rounding exceeds, and Float32 is    *)
(* what the array holds of each.  The sum's own double arithmetic, finer   *)
(* by 2^29, is exact here.                                                 *)
(***************************************************************************)
EXTENDS Integers, Functions

CONSTANTS Window,  \* windowSize
          Scale,   \* the integer that stands for a ratio of 1.0
          Float32  \* what a slot holds after a ratio was stored in it

\* The constructor throws unless windowSize is a positive integer.
ASSUME WindowAssumption == Window \in Nat \ {0}
ASSUME ScaleAssumption == Scale \in Nat \ {0}
\* 0 and 1 are floats, and a unit is the largest error of a rounding
ASSUME Float32Assumption ==
  /\ Float32 \in [0..Scale -> 0..Scale]
  /\ Float32[0] = 0 /\ Float32[Scale] = Scale
  /\ \A x \in 0..Scale : Float32[x] - x \in -1..1

Slots == 0..Window - 1

RingType ==
  [buffer     : [Slots -> 0..Scale],
   pointer    : Slots,
   count      : 0..Window,
   runningSum : Nat]

EmptyRing ==
  [buffer |-> [i \in Slots |-> 0], pointer |-> 0, count |-> 0, runningSum |-> 0]

(* What a ring is like however it was filled: slots that were never        *)
(* written hold 0.                                                         *)
RingSound(r) ==
  /\ r \in RingType
  /\ r.count < Window => /\ r.pointer = r.count
                         /\ \A i \in Slots : i >= r.count => r.buffer[i] = 0

AtLeast(a, b) == IF a >= b THEN a ELSE b
AtMost(a, b)  == IF a <= b THEN a ELSE b

Clamped(ratio) == AtLeast(0, AtMost(Scale, ratio))

Rounded(ratio) == Float32[Clamped(ratio)] # Clamped(ratio)

Stored(r, ratio) == [r.buffer EXCEPT ![r.pointer] = Float32[Clamped(ratio)]]

\* slip: the old value is read after the new one is stored
SumAfterStore(r, ratio) ==
  AtLeast(0, (r.runningSum - Stored(r, ratio)[r.pointer]) + Clamped(ratio))

\* takes away the float, adds the number
SumAfter(r, ratio) ==
  AtLeast(0, (r.runningSum - r.buffer[r.pointer]) + Clamped(ratio))

\* slip: the pointer stays on the last slot instead of wrapping
RecordOutcomeStuckPointer(r, ratio) ==
  [buffer     |-> Stored(r, ratio),
   pointer    |-> AtMost(Window - 1, r.pointer + 1),
   count      |-> AtMost(Window, r.count + 1),
   runningSum |-> SumAfter(r, ratio)]

RecordOutcome(r, ratio) ==
  [buffer     |-> Stored(r, ratio),
   pointer    |-> (r.pointer + 1) % Window,
   count      |-> IF r.count < Window THEN r.count + 1 ELSE r.count,
   runningSum |-> SumAfter(r, ratio)]

(* getErrorRate() > percent/100, without the division: at most 1, which a  *)
(* sum that has drifted up may pass.                                       *)
RateAbove(r, percent) ==
  /\ r.count > 0
  /\ AtMost(Scale * r.count, r.runningSum) * 100 > percent * Scale * r.count

(* The samples the ring still knows, oldest first.                         *)
Recent(r) ==
  [i \in 1..r.count |-> r.buffer[(r.pointer - r.count + i - 1 + Window) % Window]]
=============================================================================
