------------------------------ MODULE LossList ------------------------------
(***************************************************************************)
(* src/src/loss_list.rs: the loss list as the code keeps it, an ordered    *)
(* map from the start of a range of lost sequence numbers to its end.      *)
(*                                                                         *)
(*   sequences   the BTreeMap<SeqNumber, (SeqNumber, SeqNumber)>; the key  *)
(*               and the first component of the value are always the same  *)
(*               number, so the map is a function from starts to ends      *)
(*   popped      the result of the last pop_after, NoNumber for None       *)
(*                                                                         *)
(* Comparisons between sequence numbers in this file of the code are those *)
(* of the derived Ord: plain comparison of the u32 values.                 *)
(***************************************************************************)
EXTENDS LossSet

CONSTANTS
  AvoidZeroOverlap   \* leave out the inserts that start at zero over a range
                     \* that starts at zero (see ZeroOverlap)

ASSUME AvoidZeroOverlapAssumption == AvoidZeroOverlap \in BOOLEAN

VARIABLES sequences, popped

vars == <<sequences, popped>>

NoNumber == -1

(***************************************************************************)
(* The functions of the file                                               *)
(***************************************************************************)

Without(f, S)    == [k \in DOMAIN f \ S |-> f[k]]
With(f, key, v)  == [k \in DOMAIN f \cup {key} |-> IF k = key THEN v ELSE f[k]]

(* range(..=n).next_back(): the keys up to n, of which the last is used.   *)
UpTo(f, n) == {k \in DOMAIN f : k <= n}
From(f, n) == {k \in DOMAIN f : k >= n}

(* Mutant of InsertRange: the ranges it covers are not absorbed.           *)
InsertRangeNoAbsorb(f, n1, n2) ==
  IF UpTo(f, n1) # {} /\ f[Max(UpTo(f, n1))] >= SeqAdd(n1, -1)
  THEN With(f, Max(UpTo(f, n1)), Max({f[Max(UpTo(f, n1))], n2}))
  ELSE With(f, n1, n2)

(* insert, when the range does not wrap.  The ranges that start inside     *)
(* n1+1..n2 are absorbed; the range at or before n1 is extended if it      *)
(* reaches n1 - 1, where the subtraction is the cyclic one.                *)
InsertRange(f, n1, n2) ==
  LET absorbed == {k \in DOMAIN f : n1 + 1 <= k /\ k <= n2}
      last     == Max({n2} \cup {f[k] : k \in absorbed})
      g        == Without(f, absorbed)
      prev     == Max(UpTo(g, n1))
  IN  IF UpTo(g, n1) # {} /\ g[prev] >= SeqAdd(n1, -1)
      THEN With(g, prev, Max({g[prev], last}))
      ELSE With(g, n1, last)

Insert(f, n1, n2) ==
  IF n1 > n2 THEN InsertRange(InsertRange(f, n1, MAX_NUMBER), 0, n2)
             ELSE InsertRange(f, n1, n2)

(* Mutant of Remove: the part of a split range after the number is lost.   *)
RemoveNoSplit(f, num) ==
  IF UpTo(f, num) = {} THEN f
  ELSE IF Max(UpTo(f, num)) = num THEN Without(f, {num})
  ELSE IF f[Max(UpTo(f, num))] >= num THEN With(f, Max(UpTo(f, num)), SeqAdd(num, -1))
  ELSE f

Remove(f, num) ==
  LET key  == Max(UpTo(f, num))
      end  == f[key]
      tail(g) == IF end > num THEN With(g, SeqAdd(num, 1), end) ELSE g
  IN  IF UpTo(f, num) = {}  THEN f
      ELSE IF key = num     THEN tail(Without(f, {key}))
      ELSE IF end >= num    THEN tail(With(f, key, SeqAdd(num, -1)))
      ELSE f

(* remove_all, when the range does not wrap: downwards, one by one.        *)
RemoveRange(f, n1, n2) ==
  LET after[i \in n1 .. (n2 + 1)] ==
        IF i = n2 + 1 THEN f ELSE Remove(after[i + 1], i)
  IN  after[n1]

RemoveAll(f, n1, n2) ==
  IF n1 <= n2 THEN RemoveRange(f, n1, n2)
              ELSE RemoveRange(RemoveRange(f, n1, MAX_NUMBER), 0, n2)

(* Mutant of PeekAfter: the range the number lies in is not looked at.     *)
PeekAfterNoInner(f, after) ==
  IF DOMAIN f = {} THEN NoNumber
  ELSE IF From(f, after) # {} THEN Min(From(f, after))
  ELSE Min(DOMAIN f)

PeekAfter(f, after) ==
  IF DOMAIN f = {} THEN NoNumber
  ELSE IF UpTo(f, after) # {} /\ f[Max(UpTo(f, after))] >= after THEN after
  ELSE IF From(f, after) # {} THEN Min(From(f, after))
  ELSE Min(DOMAIN f)

(***************************************************************************)
(* The state machine: any sequence of calls                                *)
(***************************************************************************)

Init == sequences = [k \in {} |-> k] /\ popped = NoNumber

(* An insert of a range that starts at zero, directly or as the second     *)
(* half of a range that wraps, while a range that starts at zero is kept.  *)
(* There n1 - 1 is MAX_NUMBER, and a shorter insert cuts the kept range    *)
(* short, so that ImplementsLossSet fails unless these calls are left out. *)
ZeroOverlap(n1, n2) == (n1 = 0 \/ n1 > n2) /\ 0 \in DOMAIN sequences

DoInsert(n1, n2) ==
  /\ AvoidZeroOverlap => ~ZeroOverlap(n1, n2)
  /\ sequences' = Insert(sequences, n1, n2)
  /\ UNCHANGED popped

DoRemove(num) ==
  /\ sequences' = Remove(sequences, num)
  /\ UNCHANGED popped

DoRemoveAll(n1, n2) ==
  /\ sequences' = RemoveAll(sequences, n1, n2)
  /\ UNCHANGED popped

(* pop_after: peek_after's number is removed and returned.                 *)
PopAfter(after) ==
  /\ popped' = PeekAfter(sequences, after)
  /\ sequences' = IF popped' = NoNumber THEN sequences
                                        ELSE Remove(sequences, popped')

Next ==
  \/ \E n1, n2 \in SeqNumbers : DoInsert(n1, n2) \/ DoRemoveAll(n1, n2)
  \/ \E n \in SeqNumbers : DoRemove(n) \/ PopAfter(n)

Spec == Init /\ [][Next]_vars

(***************************************************************************)
(* Properties                                                              *)
(***************************************************************************)

(* The set of numbers the map of ranges stands for.                        *)
Numbers == UNION {k .. sequences[k] : k \in DOMAIN sequences}

(* Ranges are never empty and never overlap: insert absorbs what it covers *)
(* and remove splits, so that a lost number is kept in exactly one range   *)
(* and one removal takes it out for good.  The halves of a range that      *)
(* wraps end at MAX_NUMBER and start at zero, and never beyond             *)
(* (loss_list.rs, insert, remove, remove_all).                             *)
RangesDisjoint ==
  /\ \A k \in DOMAIN sequences : 0 <= k /\ k <= sequences[k] /\ sequences[k] <= MAX_NUMBER
  /\ \A k, l \in DOMAIN sequences : k < l => sequences[k] < l

(* Looking up after any number returns the cyclically first lost number,   *)
(* whichever way the numbers happen to be split into ranges                *)
(* (loss_list.rs, peek_after).                                             *)
PeekIsFirst ==
  \A n \in SeqNumbers :
    PeekAfter(sequences, n) =
      IF Numbers = {} THEN NoNumber ELSE FirstAfter(Numbers, n)

Abstract == INSTANCE LossSetSpec WITH losses <- Numbers

(* Every call on the map of ranges is the corresponding operation on the   *)
(* set of lost numbers: no call forgets a lost number or invents one.      *)
ImplementsLossSet == Abstract!Spec
=============================================================================
