--------------------------- MODULE LossListProofs ---------------------------
(***************************************************************************)
(* Proofs about LossList, for every MAX_NUMBER: the ranges stay disjoint,  *)
(* a lookup finds the cyclically first lost number, and the map of ranges  *)
(* implements the set of lost numbers of LossSetSpec.                      *)
(*                                                                         *)
(* The lemmas are about one map f.  Ranges(f) says that f is a map of      *)
(* disjoint ranges of sequence numbers, and In(f, x) that x lies in one of *)
(* them; each function of the code is characterised by what it does to     *)
(* both.                                                                   *)
(***************************************************************************)
EXTENDS LossList, SeqNumberProofs

Ranges(f) ==
  /\ f = [k \in DOMAIN f |-> f[k]]
  /\ \A k \in DOMAIN f : /\ k \in SeqNumbers
                         /\ f[k] \in SeqNumbers
                         /\ k <= f[k]
  /\ \A k, l \in DOMAIN f : k < l => f[k] < l

In(f, x) == \E k \in DOMAIN f : k <= x /\ x <= f[k]

(* A non-empty set of sequence numbers has a greatest element, and Max is  *)
(* it.                                                                     *)
LEMMA MaxExact ==
  ASSUME NEW S, S \subseteq SeqNumbers, S # {}
  PROVE  Max(S) \in S /\ \A s \in S : s <= Max(S)
<1> DEFINE T == {MAX_NUMBER - s : s \in S}
<1>1. T \subseteq Nat /\ T # {}
  <2>1. \A s \in S : MAX_NUMBER - s \in Nat
    BY MaxNumberAssumption DEF SeqNumbers
  <2>2. PICK s \in S : TRUE
    OBVIOUS
  <2>3. MAX_NUMBER - s \in T
    OBVIOUS
  <2> QED BY <2>1, <2>3
<1>2. Min(T) \in T /\ \A t \in T : Min(T) <= t
  BY <1>1, MinExact
<1>3. PICK x \in S : Min(T) = MAX_NUMBER - x
  BY <1>2
<1>4. ASSUME NEW s \in S PROVE s <= x
  <2>1. MAX_NUMBER - s \in T
    OBVIOUS
  <2>2. MAX_NUMBER - x <= MAX_NUMBER - s
    BY <1>2, <1>3, <2>1
  <2> QED BY <2>2, MaxNumberAssumption DEF SeqNumbers
<1>5. \A s \in S : x >= s
  BY <1>4, MaxNumberAssumption DEF SeqNumbers
<1> HIDE DEF T
<1> QED BY <1>5, MaxNumberAssumption DEF Max, SeqNumbers

(* The last range that starts at or before a number (next_back of          *)
(* range(..=n)) is the only one the number can lie in.                     *)
LEMMA LastUpTo ==
  ASSUME NEW f, Ranges(f), NEW n \in SeqNumbers, UpTo(f, n) # {}
  PROVE  /\ Max(UpTo(f, n)) \in DOMAIN f
         /\ Max(UpTo(f, n)) \in SeqNumbers
         /\ Max(UpTo(f, n)) <= n
         /\ \A l \in DOMAIN f : l <= n => l <= Max(UpTo(f, n))
         /\ In(f, n) <=> n <= f[Max(UpTo(f, n))]
<1>1. UpTo(f, n) \subseteq SeqNumbers
  BY DEF UpTo, Ranges
<1> DEFINE key == Max(UpTo(f, n))
<1>2. key \in UpTo(f, n) /\ \A s \in UpTo(f, n) : s <= key
  BY <1>1, MaxExact
<1> HIDE DEF key
<1>3. /\ key \in DOMAIN f /\ key \in SeqNumbers /\ key <= n
      /\ \A l \in DOMAIN f : l <= n => l <= key
  BY <1>1, <1>2 DEF UpTo
<1>4. In(f, n) <=> n <= f[key]
  <2>1. ASSUME n <= f[key] PROVE In(f, n)
    BY <1>3, <2>1 DEF In
  <2>2. ASSUME In(f, n) PROVE n <= f[key]
    <3>1. PICK l \in DOMAIN f : l <= n /\ n <= f[l]
      BY <2>2 DEF In
    <3>2. l \in Int /\ key \in Int /\ f[l] \in Int /\ n \in Int
      BY <1>3, MaxNumberAssumption DEF Ranges, SeqNumbers
    <3>3. l = key \/ l < key
      BY <1>3, <3>1, <3>2
    <3>4. l < key => f[l] < key
      BY <1>3 DEF Ranges
    <3> QED BY <1>3, <3>1, <3>2, <3>3, <3>4
  <2> QED BY <2>1, <2>2
<1> QED BY <1>3, <1>4 DEF key

(* Nothing starts at or before a number: the number is not in a range.     *)
LEMMA NothingUpTo ==
  ASSUME NEW f, NEW n, UpTo(f, n) = {}
  PROVE  /\ ~In(f, n)
         /\ \A k \in DOMAIN f : ~(k <= n)
BY DEF UpTo, In

(* A number lies in a range other than the one that starts at key.         *)
Elsewhere(f, key, x) == \E k \in DOMAIN f : k # key /\ k <= x /\ x <= f[k]

(* A number lies in the range at key or elsewhere.                         *)
LEMMA InSplit ==
  ASSUME NEW f, NEW key, NEW x
  PROVE  /\ key \in DOMAIN f => (In(f, x) <=> (key <= x /\ x <= f[key]) \/ Elsewhere(f, key, x))
         /\ key \notin DOMAIN f => (In(f, x) <=> Elsewhere(f, key, x))
BY DEF In, Elsewhere

(* Putting one range into the map: it has the numbers of that range and    *)
(* those it had elsewhere, and stays a map of disjoint ranges when the     *)
(* range fits between its neighbours.                                      *)
LEMMA InWith ==
  ASSUME NEW f, NEW key, NEW v, NEW x
  PROVE  In(With(f, key, v), x) <=> (key <= x /\ x <= v) \/ Elsewhere(f, key, x)
<1> DEFINE g == With(f, key, v)
<1>1. /\ DOMAIN g = DOMAIN f \cup {key} /\ g[key] = v
      /\ \A k \in DOMAIN f : k # key => g[k] = f[k]
  BY DEF With
<1> HIDE DEF g
<1>2. In(g, x) <=> (key <= x /\ x <= v) \/ Elsewhere(f, key, x)
  BY <1>1 DEF In, Elsewhere
<1> QED BY <1>2 DEF g

(* A map stays one of disjoint ranges when the range put in overlaps none. *)
LEMMA RangesWith ==
  ASSUME NEW f, Ranges(f), NEW key \in SeqNumbers, NEW v \in SeqNumbers, key <= v,
         \A l \in DOMAIN f : (l < key => f[l] < key) /\ (key < l => v < l)
  PROVE  Ranges(With(f, key, v))
<1> DEFINE g == With(f, key, v)
<1>1. /\ DOMAIN g = DOMAIN f \cup {key} /\ g[key] = v
      /\ \A k \in DOMAIN f : k # key => g[k] = f[k]
  BY DEF With
<1>2. g = [k \in DOMAIN g |-> g[k]]
  BY DEF With
<1> HIDE DEF g
<1>3. \A k \in DOMAIN g : k \in SeqNumbers /\ g[k] \in SeqNumbers /\ k <= g[k]
  BY <1>1 DEF Ranges
<1>4. \A k, l \in DOMAIN g : k < l => g[k] < l
  BY <1>1, MaxNumberAssumption DEF Ranges, SeqNumbers
<1> QED BY <1>2, <1>3, <1>4 DEF Ranges, g

(* Taking ranges out of the map.                                           *)
LEMMA WithoutExact ==
  ASSUME NEW f, NEW S, Ranges(f)
  PROVE  /\ DOMAIN Without(f, S) = DOMAIN f \ S
         /\ \A k \in DOMAIN f : k \notin S => Without(f, S)[k] = f[k]
         /\ Ranges(Without(f, S))
<1> DEFINE g == Without(f, S)
<1>1. DOMAIN g = DOMAIN f \ S /\ \A k \in DOMAIN f : k \notin S => g[k] = f[k]
  BY DEF Without
<1>2. g = [k \in DOMAIN g |-> g[k]]
  BY DEF Without
<1> HIDE DEF g
<1>3. Ranges(g)
  BY <1>1, <1>2 DEF Ranges
<1> QED BY <1>1, <1>3 DEF g

(***************************************************************************)
(* remove                                                                  *)
(***************************************************************************)

(* Removing a number takes that number out and no other, and what is left  *)
(* of the range it was in is one or two ranges (loss_list.rs, remove).     *)
LEMMA RemoveExact ==
  ASSUME NEW f, Ranges(f), NEW num \in SeqNumbers
  PROVE  /\ Ranges(Remove(f, num))
         /\ \A x \in SeqNumbers : In(Remove(f, num), x) <=> In(f, x) /\ x # num
<1> DEFINE key == Max(UpTo(f, num))
           end == f[key]
           tail(g) == IF end > num THEN With(g, SeqAdd(num, 1), end) ELSE g
<1>1. CASE UpTo(f, num) = {}
  <2>1. Remove(f, num) = f
    BY <1>1 DEF Remove
  <2>2. ~In(f, num)
    BY <1>1, NothingUpTo
  <2> QED BY <2>1, <2>2
<1>2. CASE UpTo(f, num) # {}
  <2>1. /\ key \in DOMAIN f /\ key \in SeqNumbers /\ key <= num
        /\ end \in SeqNumbers /\ key <= end
        /\ \A l \in DOMAIN f : l <= num => l <= key
        /\ In(f, num) <=> num <= end
    BY <1>2, LastUpTo DEF Ranges
  <2>2. \A l \in DOMAIN f : /\ l \in SeqNumbers /\ f[l] \in SeqNumbers /\ l <= f[l]
                            /\ l < key => f[l] < key
                            /\ key < l => end < l /\ num < l
    BY <2>1, MaxNumberAssumption DEF Ranges, SeqNumbers
  <2>3. \A x \in SeqNumbers : In(f, x) <=> (key <= x /\ x <= end) \/ Elsewhere(f, key, x)
    BY <2>1, InSplit
  <2>4. \A x \in SeqNumbers : Elsewhere(f, key, x) => x < key \/ (num < x /\ end < x)
    BY <2>1, <2>2, MaxNumberAssumption DEF Elsewhere, SeqNumbers
  <2>5. end > num => SeqAdd(num, 1) = num + 1 /\ num + 1 \in SeqNumbers
    BY <2>1, AddExact, MaxNumberAssumption DEF SeqNumbers
  <2>6. key < num => SeqAdd(num, -1) = num - 1 /\ num - 1 \in SeqNumbers
    BY <2>1, AddExact, MaxNumberAssumption DEF SeqNumbers
  <2>7. CASE key # num /\ ~(end >= num)
    <3>1. Remove(f, num) = f
      BY <1>2, <2>7 DEF Remove
    <3> QED BY <2>1, <2>7, <3>1 DEF SeqNumbers
  \* the part of the range before the number, if there is one
  <2> DEFINE g == IF key = num THEN Without(f, {key}) ELSE With(f, key, SeqAdd(num, -1))
  <2>8. CASE key = num \/ end >= num
    <3>1. Remove(f, num) = tail(g)
      BY <1>2, <2>8 DEF Remove
    <3>2. /\ Ranges(g)
          /\ \A l \in DOMAIN g : l \in DOMAIN f /\ (l # key => g[l] = f[l])
          /\ \A l \in DOMAIN g : l = key => key < num /\ g[l] = num - 1
          /\ \A x \in SeqNumbers : In(g, x) <=> (key <= x /\ x < num) \/ Elsewhere(f, key, x)
      <4>1. CASE key = num
        <5>1. g = Without(f, {key})
          BY <4>1
        <5>2. Ranges(g) /\ DOMAIN g = DOMAIN f \ {key} /\ \A k \in DOMAIN f : k # key => g[k] = f[k]
          <6> HIDE DEF g, key, end
          <6>1. Ranges(g)
            BY <5>1, WithoutExact
          <6> QED BY <5>1, <6>1 DEF Without
        <5> HIDE DEF g, key, end
        <5>3. \A x \in SeqNumbers : In(g, x) <=> Elsewhere(f, key, x)
          BY <5>2 DEF In, Elsewhere
        <5> QED BY <4>1, <5>2, <5>3 DEF SeqNumbers
      <4>2. CASE key # num
        <5>0. key < num
          BY <2>1, <4>2 DEF SeqNumbers
        <5>1. g = With(f, key, num - 1)
          BY <2>6, <4>2, <5>0
        <5>2. DOMAIN g = DOMAIN f /\ g[key] = num - 1 /\ \A k \in DOMAIN f : k # key => g[k] = f[k]
          <6> HIDE DEF g, key, end
          <6>1. DOMAIN f \cup {key} = DOMAIN f
            BY <2>1
          <6> QED BY <5>1, <6>1 DEF With
        <5>3. Ranges(g)
          <6>1. key <= num - 1
            BY <2>1, <5>0 DEF SeqNumbers
          <6>2. \A l \in DOMAIN f : key < l => num - 1 < l
            BY <2>1, <2>2 DEF SeqNumbers
          <6> HIDE DEF key, end, g
          <6> QED BY <2>1, <2>2, <2>6, <5>0, <5>1, <6>1, <6>2, RangesWith
        <5>4. \A x \in SeqNumbers : In(g, x) <=> (key <= x /\ x <= num - 1) \/ Elsewhere(f, key, x)
          BY <5>1, InWith
        <5>5. \A x \in SeqNumbers : x <= num - 1 <=> x < num
          BY DEF SeqNumbers
        <5> HIDE DEF key, end, g
        <5> QED BY <5>0, <5>2, <5>3, <5>4, <5>5
      <4> QED BY <4>1, <4>2
    <3>3. CASE end > num
      <4>1. Remove(f, num) = With(g, num + 1, end)
        BY <2>5, <3>1, <3>3
      <4> HIDE DEF g, key, end, tail
      <4>2. \A l \in DOMAIN g : (l < num + 1 => g[l] < num + 1) /\ (num + 1 < l => end < l)
        BY <2>1, <2>2, <3>2 DEF SeqNumbers
      <4>3. Ranges(With(g, num + 1, end))
        <5>1. num + 1 <= end
          BY <2>1, <3>3 DEF SeqNumbers
        <5> QED BY <2>1, <2>5, <3>2, <3>3, <4>2, <5>1, RangesWith
      <4>4. num + 1 \notin DOMAIN g
        BY <2>1, <2>2, <3>2, <3>3 DEF SeqNumbers
      <4>5. \A x \in SeqNumbers : Elsewhere(g, num + 1, x) <=> In(g, x)
        BY <4>4, InSplit
      <4>6. \A x \in SeqNumbers : In(With(g, num + 1, end), x)
                                    <=> (num + 1 <= x /\ x <= end) \/ In(g, x)
        BY <4>5, InWith
      <4>7. \A x \in SeqNumbers : (In(g, x) \/ (num + 1 <= x /\ x <= end)) <=> In(f, x) /\ x # num
        BY <2>1, <2>3, <2>4, <3>2, <3>3 DEF SeqNumbers
      <4> QED BY <4>1, <4>3, <4>6, <4>7
    <3>4. CASE ~(end > num)
      <4>1. Remove(f, num) = g
        BY <3>1, <3>4
      <4> HIDE DEF g, key, end, tail
      <4>2. \A x \in SeqNumbers : In(g, x) <=> In(f, x) /\ x # num
        BY <2>1, <2>3, <2>4, <2>8, <3>2, <3>4 DEF SeqNumbers
      <4> QED BY <3>2, <4>1, <4>2
    <3> QED BY <3>3, <3>4
  <2> QED BY <2>7, <2>8
<1> QED BY <1>1, <1>2

(***************************************************************************)
(* insert                                                                  *)
(***************************************************************************)

(* The greater of two sequence numbers (std::cmp::max).                    *)
LEMMA MaxOfTwo ==
  ASSUME NEW a \in SeqNumbers, NEW b \in SeqNumbers
  PROVE  /\ Max({a, b}) \in SeqNumbers
         /\ a <= Max({a, b}) /\ b <= Max({a, b})
         /\ Max({a, b}) = a \/ Max({a, b}) = b
BY MaxExact

(* The ranges an insert absorbs, and the end of the range it inserts.      *)
Absorbed(f, n1, n2) == {k \in DOMAIN f : n1 + 1 <= k /\ k <= n2}
LastAbsorbed(f, n1, n2) == Max({n2} \cup {f[k] : k \in Absorbed(f, n1, n2)})

(* The end of the inserted range after the ranges that start inside it     *)
(* have been absorbed: it does not reach any range that was not absorbed,  *)
(* and beyond n2 it only covers numbers that were there before.            *)
LEMMA AbsorbExact ==
  ASSUME NEW f, Ranges(f), NEW n1 \in SeqNumbers, NEW n2 \in SeqNumbers, n1 <= n2
  PROVE  /\ LastAbsorbed(f, n1, n2) \in SeqNumbers /\ n2 <= LastAbsorbed(f, n1, n2)
         /\ \A k \in Absorbed(f, n1, n2) : n1 < k /\ k <= n2 /\ f[k] <= LastAbsorbed(f, n1, n2)
         /\ \A l \in DOMAIN f :
              l \notin Absorbed(f, n1, n2) /\ n1 < l => LastAbsorbed(f, n1, n2) < l
         /\ \A x \in SeqNumbers : n2 < x /\ x <= LastAbsorbed(f, n1, n2) => In(f, x)
<1> DEFINE absorbed == Absorbed(f, n1, n2)
           last == LastAbsorbed(f, n1, n2)
           S == {n2} \cup {f[k] : k \in absorbed}
<1>1. S \subseteq SeqNumbers /\ S # {}
  BY DEF Ranges, Absorbed
<1>2. last \in S /\ \A s \in S : s <= last
  BY <1>1, MaxExact DEF LastAbsorbed
<1> USE DEF Absorbed
<1> HIDE DEF last
<1>3. last \in SeqNumbers /\ n2 <= last
  BY <1>1, <1>2
<1>4. \A k \in absorbed : n1 < k /\ k <= n2 /\ f[k] <= last
  BY <1>2 DEF Ranges, SeqNumbers
<1>5. ASSUME NEW l \in DOMAIN f, l \notin absorbed, n1 < l PROVE last < l
  <2>1. n2 < l
    BY <1>5 DEF Ranges, SeqNumbers
  <2>2. ASSUME NEW k \in absorbed PROVE f[k] < l
    <3>1. k \in DOMAIN f /\ k < l
      BY <2>1 DEF Ranges, SeqNumbers
    <3> QED BY <3>1 DEF Ranges
  <2> QED BY <1>2, <2>1, <2>2
<1>6. ASSUME NEW x \in SeqNumbers, n2 < x, x <= last PROVE In(f, x)
  <2>1. last # n2
    BY <1>6 DEF SeqNumbers
  <2>2. PICK k \in absorbed : last = f[k]
    BY <1>2, <2>1
  <2>3. k \in DOMAIN f /\ k <= x /\ x <= f[k]
    BY <1>6, <2>2 DEF Ranges, SeqNumbers
  <2> QED BY <2>3 DEF In
<1> QED BY <1>3, <1>4, <1>5, <1>6 DEF last

(* A number an insert at n1 may lose: the insert starts at zero, where     *)
(* n1 - 1 is MAX_NUMBER, and the number lies in a range that starts at     *)
(* zero and ends before MAX_NUMBER.                                        *)
CutShort(f, n1, x) == n1 = 0 /\ 0 \in DOMAIN f /\ x <= f[0] /\ f[0] < MAX_NUMBER

(* Inserting a range that does not wrap puts every number of it on the     *)
(* list and no number that was not on it.  It keeps the numbers that were  *)
(* there, except those it cuts short, and the new range is in one piece    *)
(* (loss_list.rs, insert).                                                 *)
LEMMA InsertRangeExact ==
  ASSUME NEW f, Ranges(f), NEW n1 \in SeqNumbers, NEW n2 \in SeqNumbers, n1 <= n2
  PROVE  /\ Ranges(InsertRange(f, n1, n2))
         /\ DOMAIN InsertRange(f, n1, n2) \subseteq DOMAIN f \cup {n1}
         /\ \A x \in SeqNumbers : n1 <= x /\ x <= n2 => In(InsertRange(f, n1, n2), x)
         /\ \A x \in SeqNumbers : In(InsertRange(f, n1, n2), x) =>
                                    In(f, x) \/ (n1 <= x /\ x <= n2)
         /\ \A x \in SeqNumbers : In(f, x) =>
              In(InsertRange(f, n1, n2), x) \/ CutShort(f, n1, x)
         /\ \A k \in DOMAIN InsertRange(f, n1, n2) :
              k <= n2 /\ n1 <= InsertRange(f, n1, n2)[k] => n2 <= InsertRange(f, n1, n2)[k]
<1> DEFINE absorbed == {k \in DOMAIN f : n1 + 1 <= k /\ k <= n2}
           last     == Max({n2} \cup {f[k] : k \in absorbed})
           g        == Without(f, absorbed)
           prev     == Max(UpTo(g, n1))
           joins    == UpTo(g, n1) # {} /\ g[prev] >= SeqAdd(n1, -1)
           res      == IF joins THEN With(g, prev, Max({g[prev], last})) ELSE With(g, n1, last)
<1>1. InsertRange(f, n1, n2) = res
  BY DEF InsertRange
<1>2. /\ last \in SeqNumbers /\ n2 <= last
      /\ \A k \in absorbed : n1 < k /\ k <= n2 /\ f[k] <= last
      /\ \A l \in DOMAIN f : l \notin absorbed /\ n1 < l => last < l
      /\ \A x \in SeqNumbers : n2 < x /\ x <= last => In(f, x)
  <2>1. absorbed = Absorbed(f, n1, n2)
    BY DEF Absorbed
  <2>2. last = LastAbsorbed(f, n1, n2)
    BY DEF Absorbed, LastAbsorbed
  <2> HIDE DEF absorbed, last
  <2> QED BY <2>1, <2>2, AbsorbExact
<1>3. /\ DOMAIN g = DOMAIN f \ absorbed /\ Ranges(g)
      /\ \A k \in DOMAIN g : g[k] = f[k]
  <2>1. Ranges(g)
    BY WithoutExact
  <2> HIDE DEF absorbed
  <2> QED BY <2>1 DEF Without
<1> HIDE DEF absorbed, last, g
<1>4. \A l \in DOMAIN g : /\ l \in SeqNumbers /\ g[l] \in SeqNumbers /\ l <= g[l]
                          /\ n1 < l => last < l
  BY <1>2, <1>3 DEF Ranges
<1>5. \A x \in SeqNumbers : In(g, x) => In(f, x)
  BY <1>3 DEF In
<1>6. \A x \in SeqNumbers : In(f, x) => In(g, x) \/ (n1 <= x /\ x <= last)
  <2> SUFFICES ASSUME NEW x \in SeqNumbers, In(f, x), ~In(g, x)
               PROVE  n1 <= x /\ x <= last
    OBVIOUS
  <2>1. PICK k \in DOMAIN f : k <= x /\ x <= f[k]
    BY DEF In
  <2>2. k \in absorbed
    BY <1>3, <2>1 DEF In
  <2> QED BY <1>2, <2>1, <2>2 DEF Ranges, SeqNumbers
<1>7. n1 > 0 => SeqAdd(n1, -1) = n1 - 1
  BY AddExact, MaxNumberAssumption DEF SeqNumbers
<1>8. n1 = 0 => SeqAdd(n1, -1) = MAX_NUMBER
  BY MaxNumberAssumption DEF SeqAdd
<1>9. UpTo(g, n1) # {} =>
        /\ prev \in DOMAIN g /\ prev \in SeqNumbers /\ prev <= n1 /\ g[prev] \in SeqNumbers
        /\ \A l \in DOMAIN g : l <= n1 => l <= prev
        /\ \A l \in DOMAIN g : l < prev => g[l] < prev
        /\ \A l \in DOMAIN g : prev < l => g[prev] < l
  <2>1. UpTo(g, n1) # {} => prev \in DOMAIN g /\ prev \in SeqNumbers /\ prev <= n1
                            /\ \A l \in DOMAIN g : l <= n1 => l <= prev
    BY <1>3, LastUpTo
  <2> HIDE DEF prev
  <2> QED BY <1>3, <1>4, <2>1 DEF Ranges
<1>10. CASE joins
  <2> DEFINE m == Max({g[prev], last})
  <2>1. res = With(g, prev, m)
    BY <1>10
  <2>2. /\ m \in SeqNumbers /\ g[prev] <= m /\ last <= m
        /\ m = g[prev] \/ m = last
    BY <1>2, <1>9, <1>10, MaxOfTwo
  <2>3. UpTo(g, n1) # {} /\ g[prev] >= SeqAdd(n1, -1)
    BY <1>10
  <2> HIDE DEF m, prev, joins, res
  <2>4. \A l \in DOMAIN g : (l < prev => g[l] < prev) /\ (prev < l => m < l)
    <3>1. \A l \in DOMAIN g : prev < l => n1 < l
      BY <1>4, <1>9, <2>3 DEF SeqNumbers
    <3> QED BY <1>4, <1>9, <2>2, <2>3, <3>1
  <2>5. prev <= m
    BY <1>4, <1>9, <2>2, <2>3 DEF SeqNumbers
  <2>6. Ranges(res)
    BY <1>3, <1>9, <2>1, <2>2, <2>3, <2>4, <2>5, RangesWith
  <2>7. DOMAIN res \subseteq DOMAIN f \cup {n1}
    BY <1>3, <1>9, <2>1, <2>3 DEF With
  <2>8. \A x \in SeqNumbers : In(res, x) <=> (prev <= x /\ x <= m) \/ Elsewhere(g, prev, x)
    BY <2>1, InWith
  <2>9. \A x \in SeqNumbers : In(g, x) <=> (prev <= x /\ x <= g[prev]) \/ Elsewhere(g, prev, x)
    BY <1>9, <2>3, InSplit
  <2>10. \A x \in SeqNumbers : n1 <= x /\ x <= last => prev <= x /\ x <= m
    BY <1>2, <1>9, <2>2, <2>3 DEF SeqNumbers
  <2>11. \A x \in SeqNumbers : prev <= x /\ x <= m =>
                                 (prev <= x /\ x <= g[prev]) \/ (n1 <= x /\ x <= last)
    <3>1. CASE n1 > 0
      BY <1>2, <1>7, <1>9, <2>2, <2>3, <3>1 DEF SeqNumbers
    <3>2. CASE n1 = 0
      BY <1>2, <1>8, <1>9, <2>2, <2>3, <3>2, MaxNumberAssumption DEF SeqNumbers
    <3> QED BY <3>1, <3>2 DEF SeqNumbers
  <2>12. \A x \in SeqNumbers : n1 <= x /\ x <= n2 => n1 <= x /\ x <= last
    BY <1>2 DEF SeqNumbers
  <2>13. \A x \in SeqNumbers : n1 <= x /\ x <= last => (n1 <= x /\ x <= n2) \/ In(f, x)
    BY <1>2 DEF SeqNumbers
  <2>14. \A x \in SeqNumbers : x <= g[prev] => x <= m
    BY <1>9, <2>2, <2>3 DEF SeqNumbers
  <2>15. /\ \A x \in SeqNumbers : n1 <= x /\ x <= n2 => In(res, x)
         /\ \A x \in SeqNumbers : In(res, x) => In(f, x) \/ (n1 <= x /\ x <= n2)
         /\ \A x \in SeqNumbers : In(f, x) => In(res, x)
    BY <1>5, <1>6, <2>8, <2>9, <2>10, <2>11, <2>12, <2>13, <2>14
  <2>16. \A k \in DOMAIN res : k <= n2 /\ n1 <= res[k] => n2 <= res[k]
    <3>1. DOMAIN res = DOMAIN g \cup {prev} /\ res[prev] = m
          /\ \A k \in DOMAIN g : k # prev => res[k] = g[k]
      BY <2>1 DEF With
    <3>2. \A k \in DOMAIN g : k # prev /\ k <= n2 => g[k] < n1
      BY <1>2, <1>4, <1>9, <2>3, <2>4 DEF SeqNumbers
    <3>3. n2 <= m
      BY <1>2, <2>2 DEF SeqNumbers
    <3> QED BY <1>4, <3>1, <3>2, <3>3 DEF SeqNumbers
  <2> QED BY <1>1, <2>6, <2>7, <2>15, <2>16
<1>11. CASE ~joins
  <2>1. res = With(g, n1, last)
    BY <1>11
  <2>2. UpTo(g, n1) = {} \/ ~(g[prev] >= SeqAdd(n1, -1))
    BY <1>11
  <2>3. \A l \in DOMAIN g : l <= n1 => UpTo(g, n1) # {}
    BY DEF UpTo
  <2> HIDE DEF prev, joins, res
  <2>4. \A l \in DOMAIN g : l < n1 => g[l] < n1
    <3> SUFFICES ASSUME NEW l \in DOMAIN g, l < n1 PROVE g[l] < n1
      OBVIOUS
    <3>1. n1 > 0 /\ l <= n1
      BY <1>4 DEF SeqNumbers
    <3>2. UpTo(g, n1) # {}
      BY <2>3, <3>1
    <3>3. g[prev] < n1 - 1
      BY <1>7, <1>9, <2>2, <3>1, <3>2 DEF SeqNumbers
    <3>4. l <= prev /\ prev <= g[prev]
      BY <1>4, <1>9, <3>1, <3>2
    <3>5. l = prev \/ g[l] < prev
      BY <1>4, <1>9, <3>2, <3>4 DEF SeqNumbers
    <3> QED BY <1>4, <1>9, <3>2, <3>3, <3>4, <3>5 DEF SeqNumbers
  <2>5. n1 <= last
    BY <1>2 DEF SeqNumbers
  <2>6. Ranges(res)
    BY <1>2, <1>3, <1>4, <2>1, <2>4, <2>5, RangesWith
  <2>7. DOMAIN res \subseteq DOMAIN f \cup {n1}
    BY <1>3, <2>1 DEF With
  <2>8. \A x \in SeqNumbers : In(res, x) <=> (n1 <= x /\ x <= last) \/ Elsewhere(g, n1, x)
    BY <2>1, InWith
  <2>9. \A x \in SeqNumbers : Elsewhere(g, n1, x) => In(g, x)
    BY DEF In, Elsewhere
  <2>10. n1 \in DOMAIN g => n1 = 0 /\ g[n1] < MAX_NUMBER
    <3> SUFFICES ASSUME n1 \in DOMAIN g PROVE n1 = 0 /\ g[n1] < MAX_NUMBER
      OBVIOUS
    <3>1. UpTo(g, n1) # {}
      BY <2>3 DEF SeqNumbers
    <3>2. prev = n1
      BY <1>9, <3>1 DEF SeqNumbers
    <3>3. n1 > 0 => FALSE
      BY <1>4, <1>7, <1>9, <2>2, <3>1, <3>2 DEF SeqNumbers
    <3>4. n1 = 0
      BY <3>3 DEF SeqNumbers
    <3> QED BY <1>4, <1>8, <2>2, <3>1, <3>2, <3>4, MaxNumberAssumption DEF SeqNumbers
  <2>11. \A x \in SeqNumbers : In(g, x) => Elsewhere(g, n1, x) \/ CutShort(f, n1, x)
    <3>1. CASE n1 \notin DOMAIN g
      BY <3>1, InSplit
    <3>2. CASE n1 \in DOMAIN g
      <4>1. \A x \in SeqNumbers : In(g, x) => x <= g[n1] \/ Elsewhere(g, n1, x)
        BY <3>2, InSplit
      <4> QED BY <1>3, <2>10, <3>2, <4>1 DEF CutShort
    <3> QED BY <3>1, <3>2
  <2>12. \A x \in SeqNumbers : n1 <= x /\ x <= n2 => n1 <= x /\ x <= last
    BY <1>2 DEF SeqNumbers
  <2>13. \A x \in SeqNumbers : n1 <= x /\ x <= last => (n1 <= x /\ x <= n2) \/ In(f, x)
    BY <1>2 DEF SeqNumbers
  <2>14. /\ \A x \in SeqNumbers : n1 <= x /\ x <= n2 => In(res, x)
         /\ \A x \in SeqNumbers : In(res, x) => In(f, x) \/ (n1 <= x /\ x <= n2)
    BY <1>5, <2>8, <2>9, <2>12, <2>13
  <2>15. \A x \in SeqNumbers : In(f, x) => In(res, x) \/ CutShort(f, n1, x)
    BY <1>6, <2>8, <2>11
  <2>16. \A k \in DOMAIN res : k <= n2 /\ n1 <= res[k] => n2 <= res[k]
    <3>1. DOMAIN res = DOMAIN g \cup {n1} /\ res[n1] = last
          /\ \A k \in DOMAIN g : k # n1 => res[k] = g[k]
      BY <2>1 DEF With
    <3>2. \A k \in DOMAIN g : k # n1 /\ k <= n2 => g[k] < n1
      BY <1>2, <1>4, <2>4 DEF SeqNumbers
    <3> QED BY <1>2, <1>4, <3>1, <3>2 DEF SeqNumbers
  <2> QED BY <1>1, <2>6, <2>7, <2>14, <2>15, <2>16
<1> QED BY <1>10, <1>11

(* The same for a range that wraps, which is inserted in two halves: the   *)
(* second half never cuts the first one short.                             *)
LEMMA InsertExact ==
  ASSUME NEW f, Ranges(f), NEW n1 \in SeqNumbers, NEW n2 \in SeqNumbers
  PROVE  /\ Ranges(Insert(f, n1, n2))
         /\ \A x \in SeqNumbers : x \in CyclicRange(n1, n2) => In(Insert(f, n1, n2), x)
         /\ \A x \in SeqNumbers : In(Insert(f, n1, n2), x) =>
                                    In(f, x) \/ x \in CyclicRange(n1, n2)
         /\ (n1 # 0 /\ n1 <= n2) \/ 0 \notin DOMAIN f =>
              \A x \in SeqNumbers : In(f, x) => In(Insert(f, n1, n2), x)
<1>1. CASE n1 <= n2
  <2>1. Insert(f, n1, n2) = InsertRange(f, n1, n2)
    BY <1>1 DEF Insert, SeqNumbers
  <2>2. \A x \in SeqNumbers : x \in CyclicRange(n1, n2) <=> n1 <= x /\ x <= n2
    BY <1>1 DEF CyclicRange, SeqNumbers
  <2>3. n1 # 0 \/ 0 \notin DOMAIN f => \A x : ~CutShort(f, n1, x)
    BY DEF CutShort
  <2> QED BY <1>1, <2>1, <2>2, <2>3, InsertRangeExact
<1>2. CASE n1 > n2
  <2> DEFINE g == InsertRange(f, n1, MAX_NUMBER)
             h == InsertRange(g, 0, n2)
  <2>1. Insert(f, n1, n2) = h
    BY <1>2 DEF Insert
  <2>2. n1 # 0 /\ n1 <= MAX_NUMBER /\ MAX_NUMBER \in SeqNumbers /\ 0 \in SeqNumbers /\ 0 <= n2
    BY <1>2, MaxNumberAssumption DEF SeqNumbers
  <2>3. /\ Ranges(g)
        /\ DOMAIN g \subseteq DOMAIN f \cup {n1}
        /\ \A x \in SeqNumbers : n1 <= x /\ x <= MAX_NUMBER => In(g, x)
        /\ \A x \in SeqNumbers : In(g, x) => In(f, x) \/ (n1 <= x /\ x <= MAX_NUMBER)
        /\ \A x \in SeqNumbers : In(f, x) => In(g, x)
        /\ \A k \in DOMAIN g : k <= MAX_NUMBER /\ n1 <= g[k] => MAX_NUMBER <= g[k]
    BY <2>2, InsertRangeExact DEF CutShort
  <2> HIDE DEF g
  <2>4. 0 \notin DOMAIN f => 0 \notin DOMAIN g
    BY <2>2, <2>3
  <2>5. /\ Ranges(h)
        /\ \A x \in SeqNumbers : 0 <= x /\ x <= n2 => In(h, x)
        /\ \A x \in SeqNumbers : In(h, x) => In(g, x) \/ (0 <= x /\ x <= n2)
        /\ \A x \in SeqNumbers : In(g, x) => In(h, x) \/ CutShort(g, 0, x)
    BY <2>2, <2>3, InsertRangeExact
  <2>6. \A x \in SeqNumbers : x \in CyclicRange(n1, n2) <=>
                                (n1 <= x /\ x <= MAX_NUMBER) \/ (0 <= x /\ x <= n2)
    BY <1>2, MaxNumberAssumption DEF CyclicRange, SeqNumbers
  <2>7. ASSUME NEW x \in SeqNumbers, n1 <= x PROVE In(h, x)
    <3>1. In(g, x)
      BY <2>3, <2>7, MaxNumberAssumption DEF SeqNumbers
    <3>2. ~CutShort(g, 0, x)
      <4> SUFFICES ASSUME 0 \in DOMAIN g, x <= g[0], g[0] < MAX_NUMBER PROVE FALSE
        BY DEF CutShort
      <4>1. g[0] \in SeqNumbers /\ n1 <= g[0] /\ 0 <= MAX_NUMBER
        BY <2>3, <2>7, MaxNumberAssumption DEF Ranges, SeqNumbers
      <4> QED BY <2>3, <4>1, MaxNumberAssumption DEF SeqNumbers
    <3> QED BY <2>5, <3>1, <3>2
  <2>8. 0 \notin DOMAIN g => \A x : ~CutShort(g, 0, x)
    BY DEF CutShort
  <2> HIDE DEF h
  <2>9. \A x \in SeqNumbers : n1 <= x /\ x <= MAX_NUMBER => In(h, x)
    BY <2>7
  <2>10. ~(n1 <= n2)
    BY <1>2 DEF SeqNumbers
  <2>11. 0 \notin DOMAIN f => \A x \in SeqNumbers : In(f, x) => In(h, x)
    BY <2>3, <2>4, <2>5, <2>8
  <2>12. \A x \in SeqNumbers : In(h, x) => In(f, x) \/ x \in CyclicRange(n1, n2)
    BY <2>3, <2>5, <2>6
  <2>13. \A x \in SeqNumbers : x \in CyclicRange(n1, n2) => In(h, x)
    BY <2>5, <2>6, <2>9
  <2> QED BY <2>1, <2>5, <2>10, <2>11, <2>12, <2>13
<1> QED BY <1>1, <1>2 DEF SeqNumbers

(***************************************************************************)
(* remove_all                                                              *)
(***************************************************************************)

(* The loop of remove_all, run from n2 down to i: h[j] is the map before   *)
(* the turn of the loop for j - 1.                                         *)
Loop(f, n2, i, h) ==
  h = [j \in i .. (n2 + 1) |-> IF j = n2 + 1 THEN f ELSE Remove(h[j + 1], j)]

(* RemoveRange is what the whole loop leaves.                              *)
LEMMA RemoveRangeIsLoop ==
  ASSUME NEW f, NEW n1, NEW n2
  PROVE  RemoveRange(f, n1, n2) = (CHOOSE h : Loop(f, n2, n1, h))[n1]
BY DEF RemoveRange, Loop

(* Induction downwards from n2 + 1: a set of numbers of turns that is not  *)
(* empty has one that is either zero or follows one outside the set.       *)
LEMMA FirstBadTurn ==
  ASSUME NEW B, B \subseteq Nat, B # {}
  PROVE  \E d \in B : d = 0 \/ (d \in Nat /\ d - 1 \in Nat /\ d - 1 \notin B)
<1>1. Min(B) \in B /\ \A d \in B : Min(B) <= d
  BY MinExact
<1> DEFINE d == Min(B)
<1>2. d \in Nat
  BY <1>1
<1> HIDE DEF d
<1>3. d \in B /\ \A e \in B : d <= e
  BY <1>1 DEF d
<1>4. d # 0 => d - 1 \in Nat /\ d - 1 \notin B
  BY <1>2, <1>3
<1> QED BY <1>2, <1>3, <1>4

(* One more turn of the loop.                                              *)
LEMMA LoopStep ==
  ASSUME NEW f, NEW n2 \in SeqNumbers, NEW i \in SeqNumbers, i <= n2,
         NEW h, Loop(f, n2, i + 1, h)
  PROVE  \E g : Loop(f, n2, i, g)
<1> DEFINE g == [j \in i .. (n2 + 1) |-> IF j = i THEN Remove(h[i + 1], i) ELSE h[j]]
<1>1. \A j \in (i + 1) .. (n2 + 1) : h[j] = IF j = n2 + 1 THEN f ELSE Remove(h[j + 1], j)
  BY DEF Loop
<1>2. \A j \in i .. (n2 + 1) : j = i \/ j \in (i + 1) .. (n2 + 1)
  BY DEF SeqNumbers
<1>3. i \in i .. (n2 + 1) /\ i + 1 \in i .. (n2 + 1) /\ i # n2 + 1 /\ i + 1 # i
  BY DEF SeqNumbers
<1>4. g[i] = Remove(g[i + 1], i)
  BY <1>3
<1>5. ASSUME NEW j \in (i + 1) .. (n2 + 1)
      PROVE  g[j] = IF j = n2 + 1 THEN f ELSE Remove(g[j + 1], j)
  <2>1. j # i /\ j \in i .. (n2 + 1)
    BY DEF SeqNumbers
  <2>2. g[j] = h[j]
    BY <2>1
  <2>3. CASE j = n2 + 1
    BY <1>1, <2>2, <2>3
  <2>4. CASE j # n2 + 1
    <3>1. j + 1 # i /\ j + 1 \in i .. (n2 + 1)
      BY <2>4 DEF SeqNumbers
    <3>2. g[j + 1] = h[j + 1]
      BY <3>1
    <3> HIDE DEF g
    <3> QED BY <1>1, <2>2, <2>4, <3>2
  <2> QED BY <2>3, <2>4
<1>6. g = [j \in i .. (n2 + 1) |-> g[j]]
  OBVIOUS
<1> HIDE DEF g
<1>7. \A j \in i .. (n2 + 1) : g[j] = IF j = n2 + 1 THEN f ELSE Remove(g[j + 1], j)
  BY <1>2, <1>3, <1>4, <1>5
<1>8. [j \in i .. (n2 + 1) |-> g[j]] =
        [j \in i .. (n2 + 1) |-> IF j = n2 + 1 THEN f ELSE Remove(g[j + 1], j)]
  BY <1>7
<1>9. Loop(f, n2, i, g)
  BY <1>6, <1>8 DEF Loop
<1> QED BY <1>9

(* The loop ends, whichever range it runs over.                            *)
LEMMA LoopExists ==
  ASSUME NEW f, NEW n1 \in SeqNumbers, NEW n2 \in SeqNumbers, n1 <= n2
  PROVE  \E h : Loop(f, n2, n1, h)
<1> DEFINE Runs(d) == \E h : Loop(f, n2, n2 + 1 - d, h)
           B == {d \in 0 .. (n2 + 1) : ~Runs(d)}
<1>1. Runs(0)
  <2> DEFINE h == [j \in (n2 + 1) .. (n2 + 1) |-> f]
  <2>1. h = [j \in (n2 + 1) .. (n2 + 1) |-> IF j = n2 + 1 THEN f ELSE Remove(h[j + 1], j)]
    BY DEF SeqNumbers
  <2>2. Loop(f, n2, n2 + 1, h)
    BY <2>1 DEF Loop
  <2>3. n2 + 1 - 0 = n2 + 1
    BY DEF SeqNumbers
  <2> HIDE DEF h
  <2> QED BY <2>2, <2>3
<1>2. ASSUME NEW d \in 0 .. (n2 + 1), d - 1 \in Nat, Runs(d - 1) PROVE Runs(d)
  <2> DEFINE i == n2 + 1 - d
  <2>1. i \in SeqNumbers /\ i <= n2 /\ n2 + 1 - (d - 1) = i + 1
    BY <1>2, MaxNumberAssumption DEF SeqNumbers
  <2>2. PICK h : Loop(f, n2, n2 + 1 - (d - 1), h)
    BY <1>2
  <2> HIDE DEF i
  <2>3. Loop(f, n2, i + 1, h)
    BY <2>1, <2>2
  <2>4. \E g : Loop(f, n2, i, g)
    BY <2>1, <2>3, LoopStep
  <2> QED BY <2>4 DEF i
<1> HIDE DEF Runs
<1>3. B = {}
  <2> SUFFICES ASSUME B # {} PROVE FALSE
    OBVIOUS
  <2>1. B \subseteq Nat
    BY DEF SeqNumbers
  <2>2. PICK d \in B : d = 0 \/ (d \in Nat /\ d - 1 \in Nat /\ d - 1 \notin B)
    BY <2>1, FirstBadTurn
  <2>3. d \in 0 .. (n2 + 1) /\ ~Runs(d)
    OBVIOUS
  <2>4. d # 0
    BY <1>1, <2>3
  <2>5. d - 1 \in Nat /\ d - 1 \in 0 .. (n2 + 1)
    BY <2>2, <2>3, <2>4 DEF SeqNumbers
  <2>6. Runs(d - 1)
    BY <2>2, <2>4, <2>5
  <2> QED BY <1>2, <2>3, <2>5, <2>6
<1>4. n2 + 1 - n1 \in 0 .. (n2 + 1) /\ n2 + 1 - (n2 + 1 - n1) = n1
  BY DEF SeqNumbers
<1>5. Runs(n2 + 1 - n1)
  BY <1>3, <1>4
<1> QED BY <1>4, <1>5 DEF Runs

(* What the loop has removed before each of its turns.                     *)
LEMMA LoopExact ==
  ASSUME NEW f, Ranges(f), NEW n1 \in SeqNumbers, NEW n2 \in SeqNumbers, n1 <= n2,
         NEW h, Loop(f, n2, n1, h)
  PROVE  /\ Ranges(h[n1])
         /\ \A x \in SeqNumbers : In(h[n1], x) <=> In(f, x) /\ ~(n1 <= x /\ x <= n2)
<1> DEFINE Good(j) == /\ Ranges(h[j])
                      /\ \A x \in SeqNumbers : In(h[j], x) <=> In(f, x) /\ ~(j <= x /\ x <= n2)
           B == {d \in 0 .. (n2 + 1 - n1) : ~Good(n2 + 1 - d)}
<1>1. \A j \in n1 .. (n2 + 1) : h[j] = IF j = n2 + 1 THEN f ELSE Remove(h[j + 1], j)
  BY DEF Loop
<1>2. Good(n2 + 1)
  <2>1. h[n2 + 1] = f
    BY <1>1 DEF SeqNumbers
  <2> QED BY <2>1 DEF SeqNumbers
<1>3. ASSUME NEW j \in n1 .. n2, Good(j + 1) PROVE Good(j)
  <2>1. h[j] = Remove(h[j + 1], j) /\ j \in SeqNumbers
    <3>1. j \in n1 .. (n2 + 1) /\ j # n2 + 1 /\ j \in SeqNumbers
      BY MaxNumberAssumption DEF SeqNumbers
    <3> QED BY <1>1, <3>1
  <2>2. Ranges(h[j + 1])
        /\ \A x \in SeqNumbers : In(h[j + 1], x) <=> In(f, x) /\ ~(j + 1 <= x /\ x <= n2)
    BY <1>3
  <2>3. Ranges(h[j]) /\ \A x \in SeqNumbers : In(h[j], x) <=> In(h[j + 1], x) /\ x # j
    BY <2>1, <2>2, RemoveExact
  <2>4. \A x \in SeqNumbers : ~(j + 1 <= x /\ x <= n2) /\ x # j <=> ~(j <= x /\ x <= n2)
    BY DEF SeqNumbers
  <2> QED BY <2>2, <2>3, <2>4
<1> HIDE DEF Good
<1>4. B = {}
  <2> SUFFICES ASSUME B # {} PROVE FALSE
    OBVIOUS
  <2>1. B \subseteq Nat
    BY DEF SeqNumbers
  <2>2. PICK d \in B : d = 0 \/ (d \in Nat /\ d - 1 \in Nat /\ d - 1 \notin B)
    BY <2>1, FirstBadTurn
  <2>3. d \in 0 .. (n2 + 1 - n1) /\ ~Good(n2 + 1 - d)
    OBVIOUS
  <2>4. n2 + 1 - 0 = n2 + 1
    BY DEF SeqNumbers
  <2>5. d # 0
    BY <1>2, <2>3, <2>4
  <2>6. d - 1 \in 0 .. (n2 + 1 - n1)
    BY <2>2, <2>3, <2>5 DEF SeqNumbers
  <2>7. Good(n2 + 1 - (d - 1))
    BY <2>2, <2>5, <2>6
  <2>8. n2 + 1 - (d - 1) = (n2 + 1 - d) + 1 /\ n2 + 1 - d \in n1 .. n2
    BY <2>3, <2>5 DEF SeqNumbers
  <2> QED BY <1>3, <2>3, <2>7, <2>8
<1>5. n2 + 1 - n1 \in 0 .. (n2 + 1 - n1) /\ n2 + 1 - (n2 + 1 - n1) = n1
  BY DEF SeqNumbers
<1>6. Good(n1)
  BY <1>4, <1>5
<1> QED BY <1>6 DEF Good

(* Removing a range takes out its numbers and no others (loss_list.rs,     *)
(* remove_all).                                                            *)
LEMMA RemoveRangeExact ==
  ASSUME NEW f, Ranges(f), NEW n1 \in SeqNumbers, NEW n2 \in SeqNumbers, n1 <= n2
  PROVE  /\ Ranges(RemoveRange(f, n1, n2))
         /\ \A x \in SeqNumbers : In(RemoveRange(f, n1, n2), x) <=>
                                    In(f, x) /\ ~(n1 <= x /\ x <= n2)
<1> DEFINE h == CHOOSE g : Loop(f, n2, n1, g)
<1>1. Loop(f, n2, n1, h)
  BY LoopExists, Zenon
<1>2. RemoveRange(f, n1, n2) = h[n1]
  BY RemoveRangeIsLoop
<1> HIDE DEF h
<1> QED BY <1>1, <1>2, LoopExact

(* The same for a range that passes through zero.                          *)
LEMMA RemoveAllExact ==
  ASSUME NEW f, Ranges(f), NEW n1 \in SeqNumbers, NEW n2 \in SeqNumbers
  PROVE  /\ Ranges(RemoveAll(f, n1, n2))
         /\ \A x \in SeqNumbers : In(RemoveAll(f, n1, n2), x) <=>
                                    In(f, x) /\ x \notin CyclicRange(n1, n2)
<1>1. CASE n1 <= n2
  <2>1. RemoveAll(f, n1, n2) = RemoveRange(f, n1, n2)
    BY <1>1 DEF RemoveAll
  <2>2. \A x \in SeqNumbers : x \in CyclicRange(n1, n2) <=> n1 <= x /\ x <= n2
    BY <1>1 DEF CyclicRange, SeqNumbers
  <2> QED BY <1>1, <2>1, <2>2, RemoveRangeExact
<1>2. CASE ~(n1 <= n2)
  <2> DEFINE g == RemoveRange(f, n1, MAX_NUMBER)
             h == RemoveRange(g, 0, n2)
  <2>1. RemoveAll(f, n1, n2) = h
    BY <1>2 DEF RemoveAll
  <2>2. n1 <= MAX_NUMBER /\ MAX_NUMBER \in SeqNumbers /\ 0 \in SeqNumbers /\ 0 <= n2
    BY MaxNumberAssumption DEF SeqNumbers
  <2>3. /\ Ranges(g)
        /\ \A x \in SeqNumbers : In(g, x) <=> In(f, x) /\ ~(n1 <= x /\ x <= MAX_NUMBER)
    BY <2>2, RemoveRangeExact
  <2> HIDE DEF g
  <2>4. /\ Ranges(h)
        /\ \A x \in SeqNumbers : In(h, x) <=> In(g, x) /\ ~(0 <= x /\ x <= n2)
    BY <2>2, <2>3, RemoveRangeExact
  <2>5. \A x \in SeqNumbers : x \in CyclicRange(n1, n2) <=>
                                (n1 <= x /\ x <= MAX_NUMBER) \/ (0 <= x /\ x <= n2)
    BY <1>2, MaxNumberAssumption DEF CyclicRange, SeqNumbers
  <2> HIDE DEF h
  <2> QED BY <2>1, <2>3, <2>4, <2>5
<1> QED BY <1>1, <1>2

(***************************************************************************)
(* peek_after and pop_after                                                *)
(***************************************************************************)

(* The set of numbers a map of ranges stands for.                          *)
NumbersOf(f) == UNION {k .. f[k] : k \in DOMAIN f}

(* The set that a map of ranges stands for has the numbers that lie in     *)
(* them.                                                                   *)
LEMMA NumbersOfExact ==
  ASSUME NEW f, Ranges(f)
  PROVE  /\ NumbersOf(f) \subseteq SeqNumbers
         /\ \A x \in SeqNumbers : x \in NumbersOf(f) <=> In(f, x)
         /\ NumbersOf(f) = {} <=> DOMAIN f = {}
<1>1. \A k \in DOMAIN f : k \in SeqNumbers /\ f[k] \in SeqNumbers /\ k <= f[k]
  BY DEF Ranges
<1>2. ASSUME NEW x PROVE x \in NumbersOf(f) <=> \E k \in DOMAIN f : x \in k .. f[k]
  BY DEF NumbersOf
<1>3. NumbersOf(f) \subseteq SeqNumbers
  BY <1>1, <1>2, MaxNumberAssumption DEF SeqNumbers
<1>4. \A x \in SeqNumbers : x \in NumbersOf(f) <=> In(f, x)
  BY <1>1, <1>2 DEF In, SeqNumbers
<1>5. \A k \in DOMAIN f : k \in NumbersOf(f)
  BY <1>1, <1>2 DEF SeqNumbers
<1> QED BY <1>2, <1>3, <1>4, <1>5

(* A cyclic range is made of sequence numbers.                             *)
LEMMA CyclicRangeType ==
  ASSUME NEW n1 \in SeqNumbers, NEW n2 \in SeqNumbers
  PROVE  CyclicRange(n1, n2) \subseteq SeqNumbers
BY MaxNumberAssumption DEF CyclicRange, SeqNumbers

(* Min of a set of sequence numbers is the one that is below all others.   *)
LEMMA MinIs ==
  ASSUME NEW S, S \subseteq SeqNumbers, NEW m \in S, \A s \in S : m <= s
  PROVE  Min(S) = m
<1>1. S \subseteq Nat /\ S # {}
  BY DEF SeqNumbers
<1>2. Min(S) \in S /\ Min(S) <= m /\ m <= Min(S)
  BY <1>1, MinExact
<1>3. m \in Nat /\ Min(S) \in Nat
  BY <1>1, <1>2
<1> QED BY <1>2, <1>3

(* A lookup returns the cyclically first number (loss_list.rs,             *)
(* peek_after).                                                            *)
LEMMA PeekAfterExact ==
  ASSUME NEW f, Ranges(f), NEW after \in SeqNumbers
  PROVE  PeekAfter(f, after) =
           IF NumbersOf(f) = {} THEN NoNumber ELSE FirstAfter(NumbersOf(f), after)
<1> DEFINE S == NumbersOf(f)
           later == {s \in S : s >= after}
<1>1. /\ S \subseteq SeqNumbers /\ (S = {} <=> DOMAIN f = {})
      /\ \A x \in SeqNumbers : x \in S <=> In(f, x)
  BY NumbersOfExact
<1>2. CASE DOMAIN f = {}
  BY <1>1, <1>2 DEF PeekAfter
<1>3. CASE DOMAIN f # {}
  <2> HIDE DEF S
  <2>1. \A k \in DOMAIN f : k \in SeqNumbers /\ f[k] \in SeqNumbers /\ k <= f[k] /\ k \in S
    BY <1>1 DEF Ranges, In, SeqNumbers
  <2>2. FirstAfter(S, after) = IF \E s \in S : s >= after THEN Min(later) ELSE Min(S)
    BY DEF FirstAfter
  <2>3. \A s \in S : \E k \in DOMAIN f : k <= s /\ s <= f[k]
    BY <1>1 DEF In
  <2>4. CASE UpTo(f, after) # {} /\ f[Max(UpTo(f, after))] >= after
    <3>1. PeekAfter(f, after) = after
      BY <1>3, <2>4 DEF PeekAfter
    <3>2. UpTo(f, after) # {} /\ after <= f[Max(UpTo(f, after))]
      <4>1. UpTo(f, after) # {}
        BY <2>4
      <4>2. Max(UpTo(f, after)) \in DOMAIN f
        BY <4>1, LastUpTo
      <4> QED BY <2>1, <2>4, <4>1, <4>2 DEF SeqNumbers
    <3>3. In(f, after)
      BY <3>2, LastUpTo
    <3>4. after \in later
      BY <1>1, <3>3 DEF SeqNumbers
    <3>5. Min(later) = after
      <4>1. later \subseteq SeqNumbers /\ \A s \in later : after <= s
        BY <1>1 DEF SeqNumbers
      <4> HIDE DEF later
      <4> QED BY <3>4, <4>1, MinIs
    <3> QED BY <1>1, <2>2, <3>1, <3>4, <3>5 DEF S
  <2>5. CASE ~(UpTo(f, after) # {} /\ f[Max(UpTo(f, after))] >= after)
    <3>1. ~In(f, after)
      <4>1. CASE UpTo(f, after) = {}
        BY <4>1, NothingUpTo
      <4>2. CASE UpTo(f, after) # {}
        <5>1. Max(UpTo(f, after)) \in DOMAIN f /\ (In(f, after) <=> after <= f[Max(UpTo(f, after))])
          BY <4>2, LastUpTo
        <5> QED BY <2>1, <2>5, <4>2, <5>1 DEF SeqNumbers
      <4> QED BY <4>1, <4>2
    <3>2. \A k \in DOMAIN f : k <= after => f[k] < after
      BY <2>1, <3>1 DEF In, SeqNumbers
    <3>3. CASE From(f, after) # {}
      <4>1. PeekAfter(f, after) = Min(From(f, after))
        BY <1>3, <2>5, <3>3 DEF PeekAfter
      <4>2. From(f, after) \subseteq Nat
        BY <2>1 DEF From, SeqNumbers
      <4> DEFINE m == Min(From(f, after))
      <4>3. m \in From(f, after) /\ \A k \in From(f, after) : m <= k
        BY <3>3, <4>2, MinExact
      <4> HIDE DEF m
      <4>4. m \in DOMAIN f /\ m >= after /\ m \in later
        BY <2>1, <4>3 DEF From
      <4>5. ASSUME NEW s \in later PROVE m <= s
        <5>1. s \in SeqNumbers
          BY <1>1
        <5>2. PICK k \in DOMAIN f : k <= s /\ s <= f[k]
          BY <2>3
        <5>3. k >= after
          BY <2>1, <3>2, <5>1, <5>2 DEF SeqNumbers
        <5>4. m <= k
          BY <4>3, <5>3 DEF From
        <5> QED BY <2>1, <4>4, <5>1, <5>2, <5>4 DEF SeqNumbers
      <4>6. later \subseteq SeqNumbers
        BY <1>1
      <4>7. Min(later) = m
        BY <4>4, <4>5, <4>6, MinIs
      <4> QED BY <1>1, <1>3, <2>2, <4>1, <4>4, <4>7 DEF S, m
    <3>4. CASE From(f, after) = {}
      <4>1. PeekAfter(f, after) = Min(DOMAIN f)
        BY <1>3, <2>5, <3>4 DEF PeekAfter
      <4>2. DOMAIN f \subseteq Nat
        BY <2>1 DEF SeqNumbers
      <4> DEFINE m == Min(DOMAIN f)
      <4>3. m \in DOMAIN f /\ \A k \in DOMAIN f : m <= k
        BY <1>3, <4>2, MinExact
      <4> HIDE DEF m
      <4>4. \A k \in DOMAIN f : f[k] < after
        BY <2>1, <3>2, <3>4 DEF From, SeqNumbers
      <4>5. ~\E s \in S : s >= after
        BY <1>1, <2>1, <2>3, <4>4 DEF SeqNumbers
      <4>6. ASSUME NEW s \in S PROVE m <= s
        <5>1. PICK k \in DOMAIN f : k <= s /\ s <= f[k]
          BY <2>3
        <5> QED BY <1>1, <2>1, <4>3, <5>1 DEF SeqNumbers
      <4>7. Min(S) = m
        BY <1>1, <2>1, <4>3, <4>6, MinIs
      <4> QED BY <1>1, <1>3, <2>2, <4>1, <4>5, <4>7 DEF S, m
    <3> QED BY <3>3, <3>4
  <2> QED BY <2>4, <2>5
<1> QED BY <1>2, <1>3

(* What pop_after leaves.                                                  *)
LEMMA PopExact ==
  ASSUME NEW f, Ranges(f), NEW after \in SeqNumbers
  PROVE  /\ NumbersOf(f) = {} <=> PeekAfter(f, after) = NoNumber
         /\ NumbersOf(f) # {} =>
              /\ PeekAfter(f, after) \in SeqNumbers
              /\ Ranges(Remove(f, PeekAfter(f, after)))
              /\ NumbersOf(Remove(f, PeekAfter(f, after))) = NumbersOf(f) \ {PeekAfter(f, after)}
<1> DEFINE S == NumbersOf(f)
           p == PeekAfter(f, after)
<1>1. S \subseteq SeqNumbers /\ \A x \in SeqNumbers : x \in S <=> In(f, x)
  BY NumbersOfExact
<1>2. p = IF S = {} THEN NoNumber ELSE FirstAfter(S, after)
  BY PeekAfterExact
<1> HIDE DEF S, p
<1>3. S # {} => FirstAfter(S, after) \in S
  <2> SUFFICES ASSUME S # {} PROVE FirstAfter(S, after) \in S
    OBVIOUS
  <2>1. S \subseteq Nat
    BY <1>1 DEF SeqNumbers
  <2>2. Min(S) \in S
    BY <2>1, MinExact
  <2>3. (\E s \in S : s >= after) => Min({s \in S : s >= after}) \in S
    <3> DEFINE T == {s \in S : s >= after}
    <3>1. T \subseteq Nat /\ T \subseteq S
      BY <2>1
    <3>2. (\E s \in S : s >= after) => T # {}
      OBVIOUS
    <3> HIDE DEF T
    <3>3. T # {} => Min(T) \in S
      BY <3>1, MinExact
    <3> QED BY <3>2, <3>3 DEF T
  <2> QED BY <2>2, <2>3 DEF FirstAfter
<1>4. S # {} => p \in SeqNumbers
  BY <1>1, <1>2, <1>3
<1>5. S = {} <=> p = NoNumber
  BY <1>2, <1>4, MaxNumberAssumption DEF NoNumber, SeqNumbers
<1>6. ASSUME S # {} PROVE Ranges(Remove(f, p)) /\ NumbersOf(Remove(f, p)) = S \ {p}
  <2>1. Ranges(Remove(f, p)) /\ \A x \in SeqNumbers : In(Remove(f, p), x) <=> In(f, x) /\ x # p
    BY <1>4, <1>6, RemoveExact
  <2>2. /\ NumbersOf(Remove(f, p)) \subseteq SeqNumbers
        /\ \A x \in SeqNumbers : x \in NumbersOf(Remove(f, p)) <=> In(Remove(f, p), x)
    BY <2>1, NumbersOfExact
  <2> QED BY <1>1, <2>1, <2>2
<1> QED BY <1>4, <1>5, <1>6 DEF S, p

(***************************************************************************)
(* The state machine                                                       *)
(***************************************************************************)

(* The empty list.                                                         *)
LEMMA InitRanges == Init => Ranges(sequences) /\ Numbers = {}
BY DEF Init, Ranges, Numbers

(* Every call leaves a map of disjoint ranges.                             *)
LEMMA NextRanges == Ranges(sequences) /\ [Next]_vars => Ranges(sequences)'
<1> SUFFICES ASSUME Ranges(sequences), [Next]_vars PROVE Ranges(sequences')
  BY DEF Ranges
<1>1. ASSUME NEW n1 \in SeqNumbers, NEW n2 \in SeqNumbers, DoInsert(n1, n2)
      PROVE  Ranges(sequences')
  BY <1>1, InsertExact DEF DoInsert
<1>2. ASSUME NEW n1 \in SeqNumbers, NEW n2 \in SeqNumbers, DoRemoveAll(n1, n2)
      PROVE  Ranges(sequences')
  BY <1>2, RemoveAllExact DEF DoRemoveAll
<1>3. ASSUME NEW n \in SeqNumbers, DoRemove(n) PROVE Ranges(sequences')
  BY <1>3, RemoveExact DEF DoRemove
<1>4. ASSUME NEW n \in SeqNumbers, PopAfter(n) PROVE Ranges(sequences')
  BY <1>4, PopExact DEF PopAfter
<1>5. CASE UNCHANGED vars
  BY <1>5 DEF vars
<1> QED BY <1>1, <1>2, <1>3, <1>4, <1>5 DEF Next

(* The inductive invariant.                                                *)
LEMMA RangesAlways == Spec => []Ranges(sequences)
<1>1. Init => Ranges(sequences)
  BY InitRanges
<1> QED BY <1>1, NextRanges, PTL DEF Spec

(* After any sequence of insert, remove, remove_all and pop_after the      *)
(* ranges of the list are non-empty, lie within 0 .. MAX_NUMBER and do not *)
(* overlap, inserts over zero included (loss_list.rs).                     *)
THEOREM LossListRangesDisjoint == Spec => []RangesDisjoint
<1>1. Ranges(sequences) => RangesDisjoint
  BY MaxNumberAssumption DEF Ranges, RangesDisjoint, SeqNumbers
<1> QED BY <1>1, RangesAlways, PTL

(* A lookup returns the cyclically first lost number at every state that   *)
(* calls can reach, for every number looked after (loss_list.rs,           *)
(* peek_after).                                                            *)
THEOREM LossListPeekIsFirst == Spec => []PeekIsFirst
<1>1. Ranges(sequences) => PeekIsFirst
  BY PeekAfterExact DEF PeekIsFirst, Numbers, NumbersOf
<1> QED BY <1>1, RangesAlways, PTL

(* What insert promises whether or not it meets a range at zero: all of    *)
(* the inserted numbers are on the list afterwards, and no number that was *)
(* neither inserted nor there before (loss_list.rs, insert).               *)
InsertsAll ==
  \A n1, n2 \in SeqNumbers :
    DoInsert(n1, n2) => /\ CyclicRange(n1, n2) \subseteq Numbers'
                        /\ Numbers' \subseteq Numbers \cup CyclicRange(n1, n2)

(* Every insert, in every reachable state, adds all of its numbers and no  *)
(* others (loss_list.rs, insert).                                          *)
THEOREM LossListInsertsAll == Spec => [][InsertsAll]_vars
<1>1. ASSUME Ranges(sequences), [Next]_vars PROVE [InsertsAll]_vars
  <2> SUFFICES ASSUME NEW n1 \in SeqNumbers, NEW n2 \in SeqNumbers, DoInsert(n1, n2)
               PROVE  /\ CyclicRange(n1, n2) \subseteq Numbers'
                      /\ Numbers' \subseteq Numbers \cup CyclicRange(n1, n2)
    BY DEF InsertsAll
  <2>1. /\ Ranges(sequences')
        /\ \A x \in SeqNumbers : x \in CyclicRange(n1, n2) => In(sequences', x)
        /\ \A x \in SeqNumbers : In(sequences', x) => In(sequences, x) \/ x \in CyclicRange(n1, n2)
    BY <1>1, InsertExact DEF DoInsert
  <2>2. CyclicRange(n1, n2) \subseteq SeqNumbers
    BY CyclicRangeType
  <2>3. /\ Numbers' \subseteq SeqNumbers
        /\ \A x \in SeqNumbers : x \in Numbers' <=> In(sequences', x)
    BY <2>1, NumbersOfExact DEF Numbers, NumbersOf
  <2>4. /\ Numbers \subseteq SeqNumbers
        /\ \A x \in SeqNumbers : x \in Numbers <=> In(sequences, x)
    BY <1>1, NumbersOfExact DEF Numbers, NumbersOf
  <2> QED BY <2>1, <2>2, <2>3, <2>4
<1> QED BY <1>1, RangesAlways, PTL DEF Spec

(***************************************************************************)
(* The refinement                                                          *)
(***************************************************************************)

(* An insert that meets no range at zero is an insert into the set.        *)
LEMMA AbstractInsert ==
  ASSUME AvoidZeroOverlap, Ranges(sequences),
         NEW n1 \in SeqNumbers, NEW n2 \in SeqNumbers, DoInsert(n1, n2)
  PROVE  Abstract!Insert(n1, n2)
<1>1. (n1 # 0 /\ n1 <= n2) \/ 0 \notin DOMAIN sequences
  BY DEF DoInsert, ZeroOverlap, SeqNumbers
<1>2. /\ Ranges(sequences')
      /\ \A x \in SeqNumbers : In(sequences', x) <=> In(sequences, x) \/ x \in CyclicRange(n1, n2)
  BY <1>1, InsertExact DEF DoInsert
<1>3. /\ Numbers' \subseteq SeqNumbers
      /\ \A x \in SeqNumbers : x \in Numbers' <=> In(sequences', x)
  BY <1>2, NumbersOfExact DEF Numbers, NumbersOf
<1>4. /\ Numbers \subseteq SeqNumbers
      /\ \A x \in SeqNumbers : x \in Numbers <=> In(sequences, x)
  BY NumbersOfExact DEF Numbers, NumbersOf
<1>5. Numbers' = Numbers \cup CyclicRange(n1, n2)
  BY <1>2, <1>3, <1>4, CyclicRangeType
<1> QED BY <1>5 DEF DoInsert, Abstract!Insert, Abstract!CyclicRange, CyclicRange

(* remove_all takes the numbers out of the set.                            *)
LEMMA AbstractRemoveAll ==
  ASSUME Ranges(sequences), NEW n1 \in SeqNumbers, NEW n2 \in SeqNumbers, DoRemoveAll(n1, n2)
  PROVE  Abstract!RemoveAll(n1, n2)
<1>1. /\ Ranges(sequences')
      /\ \A x \in SeqNumbers :
           In(sequences', x) <=> In(sequences, x) /\ x \notin CyclicRange(n1, n2)
  BY RemoveAllExact DEF DoRemoveAll
<1>2. /\ Numbers' \subseteq SeqNumbers
      /\ \A x \in SeqNumbers : x \in Numbers' <=> In(sequences', x)
  BY <1>1, NumbersOfExact DEF Numbers, NumbersOf
<1>3. /\ Numbers \subseteq SeqNumbers
      /\ \A x \in SeqNumbers : x \in Numbers <=> In(sequences, x)
  BY NumbersOfExact DEF Numbers, NumbersOf
<1>4. Numbers' = Numbers \ CyclicRange(n1, n2)
  BY <1>1, <1>2, <1>3
<1> QED BY <1>4 DEF DoRemoveAll, Abstract!RemoveAll, Abstract!CyclicRange, CyclicRange

(* Removing one number is the abstract removal of the range from it to     *)
(* itself.                                                                 *)
LEMMA AbstractRemove ==
  ASSUME Ranges(sequences), NEW n \in SeqNumbers, DoRemove(n)
  PROVE  Abstract!RemoveAll(n, n)
<1>1. /\ Ranges(sequences')
      /\ \A x \in SeqNumbers : In(sequences', x) <=> In(sequences, x) /\ x # n
  BY RemoveExact DEF DoRemove
<1>2. /\ Numbers' \subseteq SeqNumbers
      /\ \A x \in SeqNumbers : x \in Numbers' <=> In(sequences', x)
  BY <1>1, NumbersOfExact DEF Numbers, NumbersOf
<1>3. /\ Numbers \subseteq SeqNumbers
      /\ \A x \in SeqNumbers : x \in Numbers <=> In(sequences, x)
  BY NumbersOfExact DEF Numbers, NumbersOf
<1>4. \A x \in SeqNumbers : x \in CyclicRange(n, n) <=> x = n
  BY DEF CyclicRange, SeqNumbers
<1>5. Numbers' = Numbers \ CyclicRange(n, n)
  BY <1>1, <1>2, <1>3, <1>4
<1> QED BY <1>5 DEF DoRemove, Abstract!RemoveAll, Abstract!CyclicRange, CyclicRange

(* pop_after takes the cyclically first number out of the set.             *)
LEMMA AbstractPop ==
  ASSUME Ranges(sequences), NEW n \in SeqNumbers, PopAfter(n)
  PROVE  Abstract!Pop(n)
<1>1. popped' = PeekAfter(sequences, n)
      /\ sequences' = IF popped' = NoNumber THEN sequences ELSE Remove(sequences, popped')
  BY DEF PopAfter
<1>2. Numbers = {} <=> popped' = NoNumber
  BY <1>1, PopExact DEF Numbers, NumbersOf
<1>3. CASE Numbers = {}
  BY <1>1, <1>2, <1>3 DEF Abstract!Pop, NoNumber, Numbers
<1>4. CASE Numbers # {}
  <2>1. popped' = FirstAfter(Numbers, n)
    BY <1>1, <1>4, PeekAfterExact DEF Numbers, NumbersOf
  <2>2. sequences' = Remove(sequences, popped')
    BY <1>1, <1>2, <1>4
  <2>3. Numbers' = Numbers \ {popped'}
    BY <1>1, <1>4, <2>2, PopExact DEF Numbers, NumbersOf
  <2>4. popped' = Abstract!FirstAfter(Numbers, n)
    BY <2>1 DEF FirstAfter, Abstract!FirstAfter, Min, Abstract!Min
  <2> QED BY <1>4, <2>3, <2>4 DEF Abstract!Pop
<1> QED BY <1>3, <1>4

(* The map of ranges implements the set of lost numbers: every call is the *)
(* corresponding operation on the set, so that none forgets a lost number  *)
(* or invents one, and pop_after returns the cyclically first one.  The    *)
(* inserts at zero over a range at zero, which do forget numbers, are left *)
(* out by AvoidZeroOverlap (loss_list.rs).                                 *)
THEOREM LossListImplementsLossSet ==
  ASSUME AvoidZeroOverlap
  PROVE  Spec => ImplementsLossSet
<1>1. Init => Abstract!Init
  BY InitRanges DEF Init, Abstract!Init, NoNumber
<1>2. Ranges(sequences) /\ [Next]_vars => [Abstract!Next]_(Abstract!vars)
  <2> SUFFICES ASSUME Ranges(sequences), [Next]_vars PROVE [Abstract!Next]_(Abstract!vars)
    OBVIOUS
  <2>1. SeqNumbers = Abstract!SeqNumbers
    BY DEF SeqNumbers, Abstract!SeqNumbers
  <2>2. ASSUME NEW n1 \in SeqNumbers, NEW n2 \in SeqNumbers, DoInsert(n1, n2)
        PROVE  Abstract!Next
    BY <2>1, <2>2, AbstractInsert DEF Abstract!Next
  <2>3. ASSUME NEW n1 \in SeqNumbers, NEW n2 \in SeqNumbers, DoRemoveAll(n1, n2)
        PROVE  Abstract!Next
    BY <2>1, <2>3, AbstractRemoveAll DEF Abstract!Next
  <2>4. ASSUME NEW n \in SeqNumbers, DoRemove(n) PROVE Abstract!Next
    BY <2>1, <2>4, AbstractRemove DEF Abstract!Next
  <2>5. ASSUME NEW n \in SeqNumbers, PopAfter(n) PROVE Abstract!Next
    BY <2>1, <2>5, AbstractPop DEF Abstract!Next
  <2>6. CASE UNCHANGED vars
    BY <2>6 DEF vars, Abstract!vars, Numbers
  <2> QED BY <2>2, <2>3, <2>4, <2>5, <2>6 DEF Next
<1> QED BY <1>1, <1>2, RangesAlways, PTL DEF Spec, ImplementsLossSet, Abstract!Spec

=============================================================================
