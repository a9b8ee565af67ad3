------------------------------ MODULE LossSet ------------------------------
(***************************************************************************)
(* What a loss list promises: a set of sequence numbers, and the cyclic    *)
(* order in which they are looked up.  LossList implements it with the     *)
(* ordered map of ranges of src/src/loss_list.rs; the protocol modules use *)
(* these operators directly.                                               *)
(***************************************************************************)
EXTENDS SeqNumber, FiniteSetsExt

(* Mutant of CyclicRange: the end of a range is left out.                  *)
CyclicRangeHalfOpen(n1, n2) ==
  IF n1 <= n2 THEN n1 .. (n2 - 1) ELSE (n1 .. MAX_NUMBER) \cup (0 .. (n2 - 1))

(* The numbers from n1 to n2, through MAX_NUMBER and 0 when n1 > n2.       *)
CyclicRange(n1, n2) ==
  IF n1 <= n2 THEN n1 .. n2 ELSE (n1 .. MAX_NUMBER) \cup (0 .. n2)

(* The first member of a non-empty set at or after a number, going around  *)
(* at MAX_NUMBER.                                                          *)
FirstAfter(S, after) ==
  IF \E s \in S : s >= after THEN Min({s \in S : s >= after}) ELSE Min(S)

=============================================================================
