---------------------------- MODULE Enumeration_proofs ----------------------------
(***************************************************************************)
(* Lemmas about enumerations in ascending order, for the components that   *)
(* keep their data in sequences.                                           *)
(***************************************************************************)
EXTENDS Enumeration, FiniteSetTheorems, TLAPS

\* A rank is a count of a part of the set; it grows with the number it is the rank of.
LEMMA RanksGrow ==
  ASSUME NEW S \in SUBSET Int, IsFiniteSet(S), NEW x \in Int
  PROVE  /\ Cardinality(S) \in Nat /\ Rank(S, x) \in 0..Cardinality(S)
         /\ x \in S => Rank(S, x) < Cardinality(S)
         /\ \A y \in Int : x <= y => Rank(S, x) <= Rank(S, y)
         /\ \A y \in Int : x \in S /\ x < y => Rank(S, x) < Rank(S, y)
<1> DEFINE below(y) == {j \in S : j < y}
<1>0. \A j \in S : j \in Int
  OBVIOUS
<1>1. \A y \in Int : /\ below(y) \in SUBSET S /\ IsFiniteSet(below(y))
                     /\ Cardinality(below(y)) \in Nat /\ Cardinality(below(y)) <= Cardinality(S)
                     /\ Cardinality(S) = Cardinality(below(y)) => S = below(y)
  BY FS_Subset, FS_CardinalityType
<1>2. Cardinality(S) \in Nat
  BY FS_CardinalityType
<1>3. ASSUME x \in S PROVE Cardinality(below(x)) < Cardinality(S)
  <2>1. x \in S /\ x \notin below(x)
    BY <1>3
  <2>2. below(x) # S
    BY <2>1
  <2> HIDE DEF below
  <2> QED BY <2>2, <1>1, <1>2
<1>4. ASSUME NEW y \in Int, x <= y
      PROVE  /\ below(x) \in SUBSET below(y) /\ Cardinality(below(x)) <= Cardinality(below(y))
             /\ x \in S /\ x < y => Cardinality(below(x)) < Cardinality(below(y))
  <2>1. below(x) \in SUBSET below(y)
    <3>1. \A j \in Int : j < x => j < y
      BY <1>4
    <3> QED BY <1>0, <3>1
  <2>2. /\ Cardinality(below(x)) <= Cardinality(below(y))
        /\ Cardinality(below(y)) = Cardinality(below(x)) => below(y) = below(x)
    BY <2>1, <1>1, FS_Subset
  <2>3. x \in S /\ x < y => x \in below(y) /\ x \notin below(x)
    BY <1>0
  <2>4. Cardinality(below(x)) \in Nat /\ Cardinality(below(y)) \in Nat
    BY <1>1
  <2> HIDE DEF below
  <2> QED BY <2>1, <2>2, <2>3, <2>4
<1>5. /\ Rank(S, x) = Cardinality(below(x)) /\ \A y \in Int : Rank(S, y) = Cardinality(below(y))
  BY DEF Rank
<1> HIDE DEF below
<1> QED BY <1>1, <1>2, <1>3, <1>4, <1>5

\* Every place of the enumeration has its number, every number its place, and
\* they ascend.
LEMMA AscendingEnumerates ==
  ASSUME NEW S \in SUBSET Int, IsFiniteSet(S)
  PROVE  /\ Cardinality(S) \in Nat /\ Ascending(S) \in [1..Cardinality(S) -> S]
         /\ \A n \in 1..Cardinality(S) : Rank(S, Ascending(S)[n]) = n - 1
         /\ \A m, n \in 1..Cardinality(S) : m < n => Ascending(S)[m] < Ascending(S)[n]
         /\ \A k \in S : Rank(S, k) + 1 \in 1..Cardinality(S) /\ Ascending(S)[Rank(S, k) + 1] = k
<1> DEFINE c == Cardinality(S)
           place == [k \in S |-> Rank(S, k) + 1]
<1>1. c \in Nat /\ \A k \in S : Rank(S, k) \in 0..c - 1
  BY RanksGrow, FS_CardinalityType
<1>2. \A j, k \in S : j < k => Rank(S, j) < Rank(S, k)
  BY RanksGrow
<1>3. \A j, k \in S : Rank(S, j) = Rank(S, k) => j = k
  BY <1>1, <1>2
<1>4. place \in Injection(S, 1..c)
  <2>1. place \in [S -> 1..c]
    BY <1>1
  <2>2. \A j, k \in S : place[j] = place[k] => j = k
    BY <1>1, <1>3
  <2> QED BY <2>1, <2>2 DEF Injection, IsInjective
<1>5. IsFiniteSet(1..c) /\ Cardinality(1..c) = c
  <2> HIDE DEF c
  <2>1. IsFiniteSet(1..c) /\ Cardinality(1..c) = IF 1 > c THEN 0 ELSE c - 1 + 1
    BY <1>1, FS_Interval
  <2> QED BY <2>1, <1>1
<1>6. place \in Surjection(S, 1..c)
  BY <1>4, <1>5, FS_Injection
<1>7. ASSUME NEW n \in 1..c PROVE \E k \in S : Rank(S, k) = n - 1
  <2>1. PICK k \in S : place[k] = n
    BY <1>6 DEF Surjection
  <2> QED BY <2>1, <1>1
<1>8. \A n \in 1..c : Ascending(S)[n] \in S /\ Rank(S, Ascending(S)[n]) = n - 1
  BY <1>7 DEF Ascending
<1>9. Ascending(S) \in [1..c -> S]
  BY <1>8 DEF Ascending
<1>10. ASSUME NEW m \in 1..c, NEW n \in 1..c, m < n PROVE Ascending(S)[m] < Ascending(S)[n]
  <2> DEFINE a == Ascending(S)[m]
             b == Ascending(S)[n]
  <2>1. a \in S /\ b \in S /\ a \in Int /\ b \in Int
    BY <1>8
  <2>2. Rank(S, a) = m - 1 /\ Rank(S, b) = n - 1
    BY <1>8
  <2> HIDE DEF a, b, c
  <2>3. Rank(S, a) < Rank(S, b)
    BY <2>2, <1>1, <1>10
  <2>4. ~(b < a) /\ b # a
    BY <2>1, <2>3, <1>1, <1>2
  <2> QED BY <2>1, <2>4 DEF a, b
<1>11. ASSUME NEW k \in S PROVE Rank(S, k) + 1 \in 1..c /\ Ascending(S)[Rank(S, k) + 1] = k
  <2> DEFINE n == Rank(S, k) + 1
  <2>1. n \in 1..c /\ n - 1 = Rank(S, k)
    BY <1>1
  <2> HIDE DEF n, c
  <2>2. Ascending(S)[n] \in S /\ Rank(S, Ascending(S)[n]) = Rank(S, k)
    BY <2>1, <1>8
  <2>3. Ascending(S)[n] = k
    BY <2>2, <1>3
  <2> QED BY <2>1, <2>3 DEF n
<1> QED BY <1>1, <1>8, <1>9, <1>10, <1>11

\* The image of an enumeration without repeats has as many members.
LEMMA ImagesCount ==
  ASSUME NEW n \in Nat, NEW f, DOMAIN f = 1..n, \A i, j \in 1..n : f[i] = f[j] => i = j
  PROVE  Cardinality({f[i] : i \in 1..n}) = n
<1> DEFINE T == {f[i] : i \in 1..n}
           g == [i \in 1..n |-> f[i]]
<1>1. g \in Surjection(1..n, T) /\ g \in Injection(1..n, T)
  BY DEF Surjection, Injection, IsInjective
<1>2. IsFiniteSet(1..n) /\ Cardinality(1..n) = n
  <2>1. IsFiniteSet(1..n) /\ Cardinality(1..n) = IF 1 > n THEN 0 ELSE n - 1 + 1
    BY FS_Interval
  <2> QED BY <2>1
<1> QED BY <1>1, <1>2, FS_Surjection

\* The ranks in two sets that share nothing add up.
LEMMA RanksAdd ==
  ASSUME NEW S \in SUBSET Int, IsFiniteSet(S), NEW T \in SUBSET Int, IsFiniteSet(T),
         S \intersect T = {}, NEW k \in Int
  PROVE  /\ IsFiniteSet(S \union T) /\ Cardinality(S \union T) = Cardinality(S) + Cardinality(T)
         /\ Rank(S \union T, k) = Rank(S, k) + Rank(T, k)
<1> DEFINE s == {j \in S : j < k}
           t == {j \in T : j < k}
           both == {j \in S \union T : j < k}
<1>1. IsFiniteSet(s) /\ IsFiniteSet(t) /\ s \intersect t = {} /\ both = s \union t
  BY FS_Subset
<1>2. Rank(S, k) = Cardinality(s) /\ Rank(T, k) = Cardinality(t) /\ Rank(S \union T, k) = Cardinality(both)
  BY DEF Rank
<1> HIDE DEF s, t, both
<1>3. Cardinality(both) = Cardinality(s) + Cardinality(t)
  <2>1. Cardinality(s \union t) = Cardinality(s) + Cardinality(t) - Cardinality(s \intersect t)
    BY <1>1, FS_Union
  <2>2. Cardinality(s) \in Nat /\ Cardinality(t) \in Nat /\ Cardinality(s \intersect t) = 0
    BY <1>1, FS_EmptySet, FS_CardinalityType
  <2> QED BY <2>1, <2>2, <1>1
<1>4. IsFiniteSet(S \union T) /\ Cardinality(S \union T) = Cardinality(S) + Cardinality(T)
  <2>1. Cardinality(S \union T) = Cardinality(S) + Cardinality(T) - Cardinality(S \intersect T)
    BY FS_Union
  <2>2. Cardinality(S) \in Nat /\ Cardinality(T) \in Nat /\ Cardinality(S \intersect T) = 0
    BY FS_EmptySet, FS_CardinalityType
  <2>3. IsFiniteSet(S \union T)
    BY FS_Union
  <2> QED BY <2>1, <2>2, <2>3
<1> QED BY <1>2, <1>3, <1>4

\* A one-to-one image has as many members, and the rank is kept where the image
\* keeps the order.
LEMMA ImagesAreAsMany ==
  ASSUME NEW S, IsFiniteSet(S), NEW f, \A i, j \in S : f[i] = f[j] => i = j
  PROVE  IsFiniteSet({f[j] : j \in S}) /\ Cardinality({f[j] : j \in S}) = Cardinality(S)
<1> DEFINE T == {f[j] : j \in S}
           g == [j \in S |-> f[j]]
<1>1. g \in Surjection(S, T) /\ g \in Injection(S, T)
  BY DEF Surjection, Injection, IsInjective
<1> QED BY <1>1, FS_Surjection

LEMMA RanksCarry ==
  ASSUME NEW S \in SUBSET Int, IsFiniteSet(S), NEW f, \A i, j \in S : f[i] = f[j] => i = j,
         NEW x, NEW y, \A j \in S : f[j] < y <=> j < x
  PROVE  Rank({f[j] : j \in S}, y) = Rank(S, x)
<1> DEFINE s == {j \in S : j < x}
           T == {f[j] : j \in S}
<1>1. IsFiniteSet(s) /\ \A i, j \in s : f[i] = f[j] => i = j
  BY FS_Subset
<1>2. {j \in T : j < y} = {f[j] : j \in s}
  OBVIOUS
<1> HIDE DEF s
<1>3. Cardinality({f[j] : j \in s}) = Cardinality(s)
  BY <1>1, ImagesAreAsMany
<1> QED BY <1>2, <1>3 DEF Rank, s

\* The part of a set from one bound to another: its size, its ranks and its
\* enumeration, which is a stretch of that of the set.
LEMMA StretchesOfASet ==
  ASSUME NEW S \in SUBSET Int, IsFiniteSet(S), NEW b \in Int, NEW c \in Int, b <= c
  PROVE  LET W == {k \in S : b <= k /\ k < c}
         IN  /\ W \in SUBSET Int /\ IsFiniteSet(W) /\ Cardinality(W) \in Nat
             /\ Rank(S, b) \in Nat /\ Rank(S, c) = Rank(S, b) + Cardinality(W)
             /\ Rank(S, c) \in 0..Cardinality(S)
             /\ \A n \in 1..Cardinality(W) : Ascending(S)[Rank(S, b) + n] = Ascending(W)[n]
<1> DEFINE W == {k \in S : b <= k /\ k < c}
           low == {k \in S : k < b}
<1>0. \A k \in S : k \in Int
  OBVIOUS
<1>1. /\ W \in SUBSET Int /\ IsFiniteSet(W) /\ low \in SUBSET Int /\ IsFiniteSet(low) /\ low \intersect W = {}
      /\ {k \in S : k < c} = low \union W
  <2>1. \A k \in Int : (k < c <=> k < b \/ (b <= k /\ k < c)) /\ ~(k < b /\ b <= k)
    OBVIOUS
  <2>2. W \in SUBSET S /\ low \in SUBSET S
    OBVIOUS
  <2>3. low \intersect W = {} /\ {k \in S : k < c} = low \union W
    BY <1>0, <2>1
  <2>4. IsFiniteSet(W) /\ IsFiniteSet(low)
    BY <2>2, FS_Subset
  <2> HIDE DEF W, low
  <2> QED BY <2>2, <2>3, <2>4
<1>2. Rank(S, b) = Cardinality(low) /\ Rank(S, c) = Cardinality(low \union W)
  BY <1>1 DEF Rank
<1>3. Cardinality(low \union W) = Cardinality(low) + Cardinality(W)
  BY <1>1, RanksAdd
<1>4. ASSUME NEW k \in W PROVE Rank(S, k) = Rank(S, b) + Rank(W, k)
  <2>1. k \in Int /\ b <= k /\ k < c
    BY <1>0
  <2>2. {j \in S : j < k} = low \union {j \in W : j < k}
    <3>1. \A j \in Int : j < k <=> j < b \/ (b <= j /\ j < c /\ j < k)
      BY <2>1
    <3> QED BY <1>0, <3>1
  <2>3. IsFiniteSet({j \in W : j < k}) /\ {j \in W : j < k} \in SUBSET Int /\ low \intersect {j \in W : j < k} = {}
    BY <1>1, FS_Subset
  <2>4. Cardinality(low \union {j \in W : j < k}) = Cardinality(low) + Cardinality({j \in W : j < k})
    BY <1>1, <2>3, RanksAdd
  <2> QED BY <2>2, <2>4, <1>2 DEF Rank
<1> HIDE DEF low
<1>5. W \subseteq S
  OBVIOUS
<1> HIDE DEF W
<1>6. ASSUME NEW n \in 1..Cardinality(W)
      PROVE  Ascending(S)[Rank(S, b) + n] = Ascending(W)[n]
  <2> DEFINE k == Ascending(W)[n]
  <2>1. k \in W /\ Rank(W, k) = n - 1
    BY <1>1, AscendingEnumerates
  <2> HIDE DEF k
  <2>2. Rank(S, k) = Rank(S, b) + (n - 1) /\ k \in S
    BY <2>1, <1>4, <1>5
  <2>3. Rank(S, k) + 1 = Rank(S, b) + n
    BY <2>2, RanksGrow
  <2>4. Ascending(S)[Rank(S, k) + 1] = k
    BY <2>2, AscendingEnumerates
  <2> QED BY <2>3, <2>4 DEF k
<1> QED BY <1>1, <1>2, <1>3, <1>6, RanksGrow DEF W

\* Of two sets: where a number stands in the one, the other and both.
LEMMA RanksOfBoth ==
  ASSUME NEW B \in SUBSET Int, IsFiniteSet(B), NEW C \in SUBSET Int, IsFiniteSet(C), NEW k \in Int
  PROVE  /\ B \union C \in SUBSET Int /\ IsFiniteSet(B \union C) /\ IsFiniteSet(B \ C) /\ IsFiniteSet(B \intersect C)
         /\ Cardinality(B \union C) = Cardinality(B \ C) + Cardinality(C)
         /\ Rank(B, k) \in Nat /\ Rank(C, k) \in Nat /\ Rank(B \ C, k) \in Nat /\ Rank(B \intersect C, k) \in Nat
         /\ Rank(B, k) = Rank(B \intersect C, k) + Rank(B \ C, k)
         /\ Rank(B \union C, k) = Rank(B \ C, k) + Rank(C, k)
<1> DEFINE D == B \ C
           I == B \intersect C
<1>1. /\ D \in SUBSET B /\ I \in SUBSET B /\ D \in SUBSET Int /\ I \in SUBSET Int /\ B \union C \in SUBSET Int
      /\ D \intersect C = {} /\ I \intersect D = {} /\ I \union D = B /\ D \union C = B \union C
  OBVIOUS
<1> HIDE DEF D, I
<1>2. IsFiniteSet(D) /\ IsFiniteSet(I)
  BY <1>1, FS_Subset
<1>3. /\ IsFiniteSet(D \union C) /\ Cardinality(D \union C) = Cardinality(D) + Cardinality(C)
      /\ Rank(D \union C, k) = Rank(D, k) + Rank(C, k)
  BY <1>1, <1>2, RanksAdd
<1>4. Rank(I \union D, k) = Rank(I, k) + Rank(D, k)
  BY <1>1, <1>2, RanksAdd
<1>5. Rank(B, k) \in Nat /\ Rank(C, k) \in Nat /\ Rank(D, k) \in Nat /\ Rank(I, k) \in Nat
  BY <1>1, <1>2, RanksGrow
<1> QED BY <1>1, <1>2, <1>3, <1>4, <1>5 DEF D, I

\* The ranks of members order as the members do.
LEMMA RanksOrder ==
  ASSUME NEW S \in SUBSET Int, IsFiniteSet(S), NEW j \in S, NEW k \in Int
  PROVE  /\ j \in Int /\ Rank(S, j) \in Nat /\ Rank(S, k) \in Nat
         /\ Rank(S, j) < Rank(S, k) <=> j < k
         /\ k \in S /\ Rank(S, j) = Rank(S, k) => j = k
<1>1. j \in Int
  OBVIOUS
<1>2. Rank(S, j) \in Nat /\ Rank(S, k) \in Nat
  BY <1>1, RanksGrow
<1>3. j < k => Rank(S, j) < Rank(S, k)
  BY <1>1, RanksGrow
<1>4. k <= j => Rank(S, k) <= Rank(S, j)
  BY <1>1, RanksGrow
<1>5. k \in S /\ k < j => Rank(S, k) < Rank(S, j)
  BY <1>1, RanksGrow
<1> QED BY <1>1, <1>2, <1>3, <1>4, <1>5

\* What is picked from a list: the entries at those places, in their order.
LEMMA PickedIs ==
  ASSUME NEW n \in Nat, NEW s, NEW P \in SUBSET (1..n)
  PROVE  LET r == Picked(s, P)
             c == Cardinality(P)
         IN  /\ c \in Nat /\ r = [m \in 1..c |-> r[m]]
             /\ \A m \in 1..c : Ascending(P)[m] \in P /\ r[m] = s[Ascending(P)[m]]
             /\ \A m, k \in 1..c : m < k => Ascending(P)[m] < Ascending(P)[k]
             /\ \A i \in P : Rank(P, i) + 1 \in 1..c /\ r[Rank(P, i) + 1] = s[i]
             /\ \A i, j \in P : i < j => Rank(P, i) + 1 < Rank(P, j) + 1
<1> DEFINE c == Cardinality(P)
           at == Ascending(P)
           r == Picked(s, P)
<1>1. P \in SUBSET Int /\ IsFiniteSet(P)
  <2>1. IsFiniteSet(1..n) /\ 1..n \in SUBSET Int
    BY FS_Interval
  <2> QED BY <2>1, FS_Subset
<1>2. r = [m \in 1..c |-> s[at[m]]]
  BY DEF Picked
<1> HIDE DEF c, at, r
<1>3. /\ c \in Nat /\ at \in [1..c -> P]
      /\ \A m, k \in 1..c : m < k => at[m] < at[k]
      /\ \A k \in P : Rank(P, k) + 1 \in 1..c /\ at[Rank(P, k) + 1] = k
  BY <1>1, AscendingEnumerates DEF at, c
<1>4. \A m \in 1..c : at[m] \in P /\ r[m] = s[at[m]]
  BY <1>2, <1>3
<1>5. r = [m \in 1..c |-> r[m]]
  BY <1>2
<1>6. \A i, j \in P : i < j => Rank(P, i) + 1 < Rank(P, j) + 1
  <2>1. ASSUME NEW i \in P, NEW j \in P, i < j PROVE Rank(P, i) + 1 < Rank(P, j) + 1
    <3>1. i \in Int /\ j \in Int
      BY <1>1
    <3>2. Rank(P, i) \in Nat /\ Rank(P, j) \in Nat /\ Rank(P, i) < Rank(P, j)
      BY <1>1, <2>1, <3>1, RanksOrder
    <3> QED BY <3>2
  <2> QED BY <2>1
<1> QED BY <1>3, <1>4, <1>5, <1>6 DEF c, at, r

\* All the numbers from one on rank where they stand.
LEMMA IntervalRanks ==
  ASSUME NEW n \in Nat
  PROVE  Cardinality(1..n) = n /\ \A i \in 1..n : Rank(1..n, i) = i - 1
<1>1. \A k \in Nat : Cardinality(1..k) = k
  <2>1. ASSUME NEW k \in Nat PROVE Cardinality(1..k) = k
    <3>1. Cardinality(1..k) = IF 1 > k THEN 0 ELSE k - 1 + 1
      BY FS_Interval
    <3> QED BY <3>1
  <2> QED BY <2>1
<1>2. ASSUME NEW i \in 1..n PROVE Rank(1..n, i) = i - 1
  <2>1. {j \in 1..n : j < i} = 1..(i - 1) /\ i - 1 \in Nat
    OBVIOUS
  <2> QED BY <2>1, <1>1 DEF Rank
<1> QED BY <1>1, <1>2
=============================================================================
