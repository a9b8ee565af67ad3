-------------------------- MODULE SeqNumberProofs --------------------------
(***************************************************************************)
(* Sequence numbers away from the wrap: what the operators of SeqNumber    *)
(* and LossSet compute for numbers that lie within one half of the cycle   *)
(* and do not go through 0.  The proofs about the protocol rest on these   *)
(* lemmas and never look at the wrap-around branches again.                *)
(***************************************************************************)
EXTENDS LossSet, WellFoundedInduction, TLAPS

(* Two numbers at most half of the cycle apart, on the same side of the    *)
(* wrap, have their plain difference (seq_number.rs, sub, first branch).   *)
LEMMA SubExact ==
  ASSUME NEW a \in Int, NEW b \in Int,
         a - b <= Threshold, b - a <= Threshold
  PROVE  SeqSub(a, b) = a - b
BY DEF SeqSub, AbsDiff

(* A number below the modulus is its own remainder.                        *)
LEMMA ModSmall ==
  ASSUME NEW n \in Nat, NEW m \in Nat, n < m
  PROVE  n % m = n
OBVIOUS

(* A remainder lies below the modulus.                                     *)
LEMMA ModType ==
  ASSUME NEW n \in Int, NEW m \in Nat, m > 0
  PROVE  n % m \in Nat /\ n % m < m
OBVIOUS

(* An addition that stays between 0 and MAX_NUMBER is the plain one        *)
(* (seq_number.rs, add).                                                   *)
LEMMA AddExact ==
  ASSUME NEW a \in Int, NEW k \in Int, a + k \in SeqNumbers
  PROVE  SeqAdd(a, k) = a + k
BY MaxNumberAssumption, ModSmall DEF SeqAdd, SeqNumbers

(* Addition always yields a sequence number (seq_number.rs, add).          *)
LEMMA AddType ==
  ASSUME NEW a \in Int, NEW k \in Int
  PROVE  SeqAdd(a, k) \in SeqNumbers
BY MaxNumberAssumption DEF SeqAdd, SeqNumbers

(* A non-empty set of naturals has a least element, and Min is it.         *)
LEMMA MinExact ==
  ASSUME NEW S, S \subseteq Nat, S # {}
  PROVE  Min(S) \in S /\ \A s \in S : Min(S) <= s
<1>1. \E x \in S : \A y \in S : ~(<<y, x>> \in OpToRel(<, Nat))
  BY NatLessThanWellFounded, WFMin, Zenon
<1>2. PICK x \in S : \A y \in S : ~(<<y, x>> \in OpToRel(<, Nat))
  BY <1>1, Zenon
<1>3. ASSUME NEW y \in S PROVE ~(y < x)
  <2>1. ~(<<y, x>> \in OpToRel(<, Nat))
    BY <1>2, Zenon
  <2>2. ~(<<y, x>> \in {ss \in Nat \X Nat : ss[1] < ss[2]})
    BY <2>1, Zenon DEF OpToRel
  <2> QED BY <2>2, SMT
<1>4. \A y \in S : x <= y
  BY <1>3
<1> QED BY <1>4 DEF Min

(* When a set lies on one side of the number looked after, the first       *)
(* member found is the least one (loss_list.rs, peek_after).               *)
LEMMA FirstAfterExact ==
  ASSUME NEW S, S \subseteq Nat, S # {}, NEW after \in Int,
         (\A s \in S : s >= after) \/ (\A s \in S : s < after)
  PROVE  FirstAfter(S, after) \in S /\ \A s \in S : FirstAfter(S, after) <= s
<1>1. CASE \A s \in S : s >= after
  <2>1. {s \in S : s >= after} = S
    BY <1>1
  <2>2. FirstAfter(S, after) = Min(S)
    BY <1>1, <2>1 DEF FirstAfter
  <2> QED BY <2>2, MinExact
<1>2. CASE \A s \in S : s < after
  <2>1. FirstAfter(S, after) = Min(S)
    BY <1>2 DEF FirstAfter
  <2> QED BY <2>1, MinExact
<1> QED BY <1>1, <1>2

=============================================================================
