----------------------------- MODULE SeqNumber -----------------------------
(***************************************************************************)
(* Cyclic sequence numbers: GenericSeqNumber<T> of src/src/seq_number.rs.  *)
(*                                                                         *)
(* A sequence number is a u32 in 0..MAX_NUMBER, where MAX_NUMBER is        *)
(* 0x7fff_ffff for packets and acknowledgements.  `a + k` wraps around;    *)
(* `a - b` is a signed i32.  The operators below are the three trait       *)
(* implementations as they are written, the sign of the two wrap-around    *)
(* branches of the subtraction included.                                   *)
(***************************************************************************)
EXTENDS Integers

CONSTANT MAX_NUMBER      \* T::MAX_NUMBER

(* Every instantiation in the code is 2^k - 1, so MAX_NUMBER is odd.       *)
ASSUME MaxNumberAssumption == MAX_NUMBER \in Nat /\ MAX_NUMBER % 2 = 1

SeqNumbers == 0 .. MAX_NUMBER

Threshold == MAX_NUMBER \div 2

AbsDiff(a, b) == IF a >= b THEN a - b ELSE b - a

(* The cast `as i32` of a u32.  An i32 has one bit more than a packet      *)
(* sequence number: it covers -(MAX_NUMBER + 1) .. MAX_NUMBER.             *)
AsI32(n) == IF n > MAX_NUMBER THEN n - 2 * (MAX_NUMBER + 1) ELSE n

(* Sub for GenericSeqNumber: the signed difference a - b.                  *)
SeqSub(a, b) ==
  IF AbsDiff(a, b) <= Threshold THEN a - b
  ELSE IF a < Threshold         THEN -AsI32(a + MAX_NUMBER + 1 - b)
  ELSE                               AsI32(b + MAX_NUMBER + 1 - a)

(* Add<i32> for GenericSeqNumber; Sub<i32> is the addition of -k.          *)
SeqAdd(a, k) == (a + k) % (MAX_NUMBER + 1)
=============================================================================
