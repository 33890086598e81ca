--------------------------- MODULE PositionsProofs ---------------------------
(***************************************************************************)
(* What listing a set in order, picking positions of a sequence and        *)
(* filtering it return, for sequences of any length.                       *)
(***************************************************************************)
EXTENDS Positions, FiniteSetTheorems, TLAPS

Increasing(s) == \A i, j \in 1 .. Len(s) : i < j => s[i] < s[j]

Elems(s) == {s[i] : i \in 1 .. Len(s)}

\* Ranks number a finite set of numbers from 1, upwards.
LEMMA Ranks ==
  ASSUME NEW S \in SUBSET Nat, IsFiniteSet(S)
  PROVE  /\ Cardinality(S) \in Nat
         /\ \A e \in S : Rank(S, e) \in 1 .. Cardinality(S)
         /\ \A e, f \in S : e < f => Rank(S, e) < Rank(S, f)
         /\ \A e, f \in S : Rank(S, e) = Rank(S, f) => e = f
<1>. DEFINE Upto(e) == {f \in S : f <= e}
<1>1. Cardinality(S) \in Nat
  BY FS_CardinalityType
<1>2. ASSUME NEW e \in S PROVE IsFiniteSet(Upto(e)) /\ Rank(S, e) \in 1 .. Cardinality(S)
  <2>1. Upto(e) \in SUBSET S /\ e \in Upto(e)
    OBVIOUS
  <2>2. IsFiniteSet(Upto(e)) /\ Cardinality(Upto(e)) <= Cardinality(S)
    BY <2>1, FS_Subset
  <2>3. Cardinality(Upto(e)) \in Nat /\ Cardinality(Upto(e)) # 0
    BY <2>1, <2>2, FS_CardinalityType, FS_EmptySet
  <2>. QED
    BY <1>1, <2>2, <2>3 DEF Rank
<1>3. ASSUME NEW e \in S PROVE e \in Nat /\ Rank(S, e) \in Nat
  <2>1. Rank(S, e) \in 1 .. Cardinality(S)
    BY <1>2
  <2>. HIDE DEF Upto
  <2>. QED
    BY <1>1, <2>1
<1>4. ASSUME NEW e \in S, NEW f \in S, e < f PROVE Rank(S, e) < Rank(S, f)
  <2>1. Upto(e) \in SUBSET Upto(f) /\ f \in Upto(f) /\ f \notin Upto(e)
    <3>1. \A x \in S : x \in Nat
      OBVIOUS
    <3>2. \A x \in S : x <= e => x <= f
      BY <1>4, <3>1
    <3>3. ~(f <= e) /\ f <= f
      BY <1>4, <3>1
    <3>4. Upto(e) \in SUBSET Upto(f)
      BY <3>2
    <3>. QED
      BY <3>3, <3>4
  <2>2. /\ Cardinality(Upto(e)) <= Cardinality(Upto(f))
        /\ Cardinality(Upto(f)) # Cardinality(Upto(e))
    <3>1. IsFiniteSet(Upto(f))
      BY <1>2
    <3>2. Upto(e) # Upto(f)
      BY <2>1
    <3>. HIDE DEF Upto
    <3>. QED
      BY <2>1, <3>1, <3>2, FS_Subset
  <2>3. Rank(S, e) = Cardinality(Upto(e)) /\ Rank(S, f) = Cardinality(Upto(f))
    BY DEF Rank
  <2>4. Rank(S, e) \in Nat /\ Rank(S, f) \in Nat
    BY <1>3
  <2>. HIDE DEF Upto
  <2>. QED
    BY <2>2, <2>3, <2>4
<1>5. ASSUME NEW e \in S, NEW f \in S, Rank(S, e) = Rank(S, f) PROVE e = f
  <2>1. e \in Nat /\ f \in Nat /\ Rank(S, e) \in Nat /\ Rank(S, f) \in Nat
    BY <1>3
  <2>2. ~(e < f) /\ ~(f < e)
    BY <1>4, <1>5, <2>1
  <2>. QED
    BY <2>1, <2>2
<1>. QED
  BY <1>1, <1>2, <1>4, <1>5

\* Every rank is taken.
LEMMA RankTaken ==
  ASSUME NEW S \in SUBSET Nat, IsFiniteSet(S), NEW i \in 1 .. Cardinality(S)
  PROVE  InOrder(S)[i] \in S /\ Rank(S, InOrder(S)[i]) = i
<1>. DEFINE n == Cardinality(S)
            rank == [e \in S |-> Rank(S, e)]
<1>1. /\ n \in Nat
      /\ \A e \in S : Rank(S, e) \in 1 .. n
      /\ \A e, f \in S : Rank(S, e) = Rank(S, f) => e = f
  BY Ranks
<1>2. rank \in Injection(S, 1 .. n)
  BY <1>1 DEF Injection, IsInjective
<1>3. IsFiniteSet(1 .. n) /\ Cardinality(1 .. n) = n
  BY <1>1, FS_Interval
<1>4. rank \in Surjection(S, 1 .. n)
  <2>. HIDE DEF rank
  <2>. QED
    BY <1>2, <1>3, FS_Injection
<1>5. \E e \in S : Rank(S, e) = i
  BY <1>4 DEF Surjection
<1>. QED
  BY <1>5 DEF InOrder

\* A finite set of offsets in order: each of them once, upwards.
LEMMA InOrderFacts ==
  ASSUME NEW S \in SUBSET Nat, IsFiniteSet(S)
  PROVE  /\ InOrder(S) \in Seq(S) /\ Len(InOrder(S)) = Cardinality(S)
         /\ Increasing(InOrder(S)) /\ Elems(InOrder(S)) = S
<1>. DEFINE n == Cardinality(S)
<1>1. /\ n \in Nat
      /\ \A e \in S : Rank(S, e) \in 1 .. n
      /\ \A e, f \in S : e < f => Rank(S, e) < Rank(S, f)
      /\ \A e, f \in S : Rank(S, e) = Rank(S, f) => e = f
  BY Ranks
<1>6. \A i \in 1 .. n : InOrder(S)[i] \in S /\ Rank(S, InOrder(S)[i]) = i
  BY RankTaken
<1>7. InOrder(S) \in Seq(S) /\ Len(InOrder(S)) = n
  <2>1. InOrder(S) \in [1 .. n -> S]
    BY <1>6 DEF InOrder
  <2>. HIDE DEF n
  <2>. QED
    BY <1>1, <2>1
<1>8. Increasing(InOrder(S))
  <2>1. ASSUME NEW i \in 1 .. n, NEW j \in 1 .. n, i < j
        PROVE  InOrder(S)[i] < InOrder(S)[j]
    <3>1. /\ InOrder(S)[i] \in Nat /\ InOrder(S)[j] \in Nat
          /\ InOrder(S)[i] \in S /\ InOrder(S)[j] \in S
          /\ Rank(S, InOrder(S)[i]) = i /\ Rank(S, InOrder(S)[j]) = j
      BY <1>6
    <3>2. InOrder(S)[j] < InOrder(S)[i] => j < i
      BY <1>1, <3>1
    <3>3. InOrder(S)[j] # InOrder(S)[i]
      BY <2>1, <1>1, <3>1
    <3>. QED
      BY <2>1, <1>1, <3>1, <3>2, <3>3
  <2>. QED
    BY <1>7, <2>1 DEF Increasing
<1>9. Elems(InOrder(S)) = S
  <2>1. ASSUME NEW e \in S PROVE e = InOrder(S)[Rank(S, e)] /\ Rank(S, e) \in 1 .. n
    BY <1>1, <1>6
  <2>. QED
    BY <1>6, <1>7, <2>1 DEF Elems
<1>. QED
  BY <1>7, <1>8, <1>9

\* An increasing sequence that leaves no gap in a set is the beginning of the set in
\* order, and all of it when nothing is left.
LEMMA Prefix ==
  ASSUME NEW S \in SUBSET Nat, IsFiniteSet(S), NEW s \in Seq(Nat), Increasing(s),
         Elems(s) \subseteq S,
         \A e \in S, x \in Elems(s) : e <= x => e \in Elems(s)
  PROVE  /\ Len(s) <= Len(InOrder(S)) /\ s = SubSeq(InOrder(S), 1, Len(s))
         /\ Elems(s) = S => s = InOrder(S)
<1>1. ASSUME NEW i \in 1 .. Len(s) PROVE Rank(S, s[i]) = i
  <2>. DEFINE U == {f \in S : f <= s[i]}
              g == [j \in 1 .. i |-> s[j]]
  <2>1. i \in Nat /\ \A j \in 1 .. i : j \in 1 .. Len(s) /\ s[j] \in Nat /\ s[j] \in S
    BY DEF Elems
  <2>2. \A j, k \in 1 .. i : j < k => s[j] < s[k]
    BY <2>1 DEF Increasing
  <2>3. \A j \in 1 .. i : s[j] \in U
    BY <2>1, <2>2
  <2>4. \A f \in U : \E j \in 1 .. i : s[j] = f
    <3>1. SUFFICES ASSUME NEW f \in U PROVE \E j \in 1 .. i : s[j] = f
      OBVIOUS
    <3>2. f \in S /\ f \in Nat /\ f <= s[i] /\ s[i] \in Elems(s)
      BY DEF Elems
    <3>3. PICK j \in 1 .. Len(s) : s[j] = f
      BY <3>2 DEF Elems
    <3>4. ~(i < j)
      BY <2>1, <3>2, <3>3 DEF Increasing
    <3>. QED
      BY <2>1, <3>3, <3>4
  <2>5. \A j, k \in 1 .. i : s[j] = s[k] => j = k
    BY <2>1, <2>2
  <2>6. g \in Bijection(1 .. i, U)
    BY <2>3, <2>4, <2>5 DEF Bijection, Injection, Surjection, IsInjective
  <2>7. IsFiniteSet(1 .. i) /\ Cardinality(1 .. i) = i
    BY <2>1, FS_Interval
  <2>8. Cardinality(U) = i
    <3>1. ExistsBijection(1 .. i, U)
      BY <2>6 DEF ExistsBijection
    <3>. HIDE DEF U, g
    <3>. QED
      BY <2>7, <3>1, FS_Bijection
  <2>. QED
    BY <2>8 DEF Rank
<1>2. /\ Cardinality(S) \in Nat
      /\ \A e \in S : Rank(S, e) \in 1 .. Cardinality(S)
      /\ \A e, f \in S : Rank(S, e) = Rank(S, f) => e = f
  BY Ranks
<1>3. Len(InOrder(S)) = Cardinality(S) /\ InOrder(S) \in Seq(S) /\ Elems(InOrder(S)) = S
  BY InOrderFacts
<1>4. \A i \in 1 .. Len(s) : s[i] \in S /\ i <= Cardinality(S) /\ i \in 1 .. Cardinality(S)
  <2>1. \A i \in 1 .. Len(s) : s[i] \in S
    BY DEF Elems
  <2>. QED
    BY <1>1, <1>2, <2>1
<1>5. Len(s) <= Cardinality(S)
  <2>1. CASE Len(s) = 0
    BY <1>2, <2>1
  <2>2. CASE Len(s) # 0
    BY <1>4, <2>2
  <2>. QED
    BY <2>1, <2>2
<1>6. \A i \in 1 .. Len(s) : InOrder(S)[i] = s[i]
  BY <1>1, <1>2, <1>4 DEF InOrder
<1>7. SubSeq(InOrder(S), 1, Len(s)) \in Seq(S) /\ Len(SubSeq(InOrder(S), 1, Len(s))) = Len(s)
      /\ \A i \in 1 .. Len(s) : SubSeq(InOrder(S), 1, Len(s))[i] = InOrder(S)[i]
  BY <1>2, <1>3, <1>5
<1>8. s = SubSeq(InOrder(S), 1, Len(s))
  BY <1>6, <1>7
<1>9. ASSUME Elems(s) = S PROVE s = InOrder(S)
  <2>1. Len(s) = Cardinality(S)
    <3>2. SUFFICES ASSUME Len(s) < Cardinality(S) PROVE FALSE
      BY <1>2, <1>5
    <3>3. PICK e \in S : Rank(S, e) = Len(s) + 1
      <4>1. Len(s) + 1 \in 1 .. Cardinality(S)
        BY <1>2, <3>2
      <4>. QED
        BY <4>1, RankTaken
    <3>4. PICK i \in 1 .. Len(s) : s[i] = e
      BY <1>9 DEF Elems
    <3>. QED
      BY <1>1, <3>3, <3>4
  <2>. QED
    BY <1>3, <1>6, <2>1
<1>. QED
  BY <1>3, <1>5, <1>8, <1>9

-------------------------------------------------------------------------------
(* Positions of a sequence *)

\* A sequence in which nothing is listed twice
Repeats(s) == \E i, j \in 1 .. Len(s) : i < j /\ s[i] = s[j]

\* positions of a sequence are finitely many
LEMMA SomePositions ==
  ASSUME NEW D, NEW s \in Seq(D), NEW P \in SUBSET (1 .. Len(s))
  PROVE  P \in SUBSET Nat /\ IsFiniteSet(P) /\ Cardinality(P) \in Nat
<1>1. Len(s) \in Nat /\ IsFiniteSet(1 .. Len(s))
  BY FS_Interval
<1>2. \A p \in P : p \in Nat
  BY <1>1
<1>3. IsFiniteSet(P)
  BY <1>1, FS_Subset
<1>. QED
  BY <1>2, <1>3, FS_CardinalityType

\* Picking takes the elements at the positions, each position once, in their order.
LEMMA PickedFacts ==
  ASSUME NEW D, NEW s \in Seq(D), NEW P \in SUBSET (1 .. Len(s))
  PROVE  /\ Picked(s, P) \in Seq(D) /\ Len(Picked(s, P)) = Cardinality(P)
         /\ \A i \in 1 .. Cardinality(P) :
              InOrder(P)[i] \in P /\ Picked(s, P)[i] = s[InOrder(P)[i]]
         /\ \A i, j \in 1 .. Cardinality(P) : i < j => InOrder(P)[i] < InOrder(P)[j]
         /\ \A p \in P : \E i \in 1 .. Cardinality(P) : InOrder(P)[i] = p
         /\ Elems(Picked(s, P)) = {s[p] : p \in P}
<1>. DEFINE n == Cardinality(P)
            t == InOrder(P)
<1>1. P \in SUBSET Nat /\ IsFiniteSet(P) /\ n \in Nat
  BY SomePositions
<1>2. t \in Seq(P) /\ Len(t) = n /\ Increasing(t) /\ Elems(t) = P
  BY <1>1, InOrderFacts
<1>3. Picked(s, P) = [i \in 1 .. n |-> s[t[i]]]
  BY DEF Picked
<1>. HIDE DEF n, t
<1>4. \A i \in 1 .. n : t[i] \in P /\ t[i] \in 1 .. Len(s)
  <2>1. \A i \in 1 .. n : t[i] \in P
    BY <1>2
  <2>. QED
    BY <2>1
<1>5. \A i \in 1 .. n : s[t[i]] \in D
  BY <1>4
<1>6. Picked(s, P) \in Seq(D) /\ Len(Picked(s, P)) = n
      /\ \A i \in 1 .. n : Picked(s, P)[i] = s[t[i]]
  BY <1>1, <1>3, <1>5
<1>7. \A p \in P : \E i \in 1 .. n : t[i] = p
  BY <1>2 DEF Elems
<1>8. \A i, j \in 1 .. n : i < j => t[i] < t[j]
  BY <1>2 DEF Increasing
<1>9. Elems(Picked(s, P)) = {s[p] : p \in P}
  <2>1. Elems(Picked(s, P)) = {s[t[i]] : i \in 1 .. n}
    BY <1>1, <1>6 DEF Elems
  <2>. QED
    BY <1>4, <1>7, <2>1
<1>. QED
  BY <1>4, <1>6, <1>7, <1>8, <1>9 DEF n, t

\* An increasing list of all positions picked tells what is picked.
LEMMA PickedAs ==
  ASSUME NEW D, NEW s \in Seq(D), NEW t \in Seq(D), NEW P \in SUBSET (1 .. Len(s)),
         NEW p \in Seq(Nat), Increasing(p), Elems(p) = P, Len(p) = Len(t),
         \A i \in 1 .. Len(t) : t[i] = s[p[i]]
  PROVE  Picked(s, P) = t
<1>1. P \in SUBSET Nat /\ IsFiniteSet(P)
  BY SomePositions
<1>2. p = InOrder(P)
  BY <1>1, Prefix
<1>3. Len(p) = Cardinality(P)
  BY <1>1, <1>2, InOrderFacts
<1>4. Picked(s, P) = [i \in 1 .. Len(t) |-> t[i]]
  BY <1>2, <1>3 DEF Picked
<1>. QED
  BY <1>4

\* picking every position changes nothing
LEMMA AllPicked ==
  ASSUME NEW D, NEW s \in Seq(D) PROVE Picked(s, 1 .. Len(s)) = s
<1>. DEFINE p == [i \in 1 .. Len(s) |-> i]
<1>1. p \in Seq(Nat) /\ Len(p) = Len(s) /\ \A i \in 1 .. Len(s) : p[i] = i
  OBVIOUS
<1>. HIDE DEF p
<1>2. Increasing(p) /\ Elems(p) = 1 .. Len(s)
  BY <1>1 DEF Increasing, Elems
<1>. QED
  BY <1>1, <1>2, PickedAs

\* picking all but the first position leaves the rest
LEMMA RestPicked ==
  ASSUME NEW D, NEW f \in D, NEW t \in Seq(D)
  PROVE  Picked(<<f>> \o t, 2 .. Len(<<f>> \o t)) = t
<1>. DEFINE s == <<f>> \o t
            p == [i \in 1 .. Len(t) |-> i + 1]
<1>1. /\ s \in Seq(D) /\ Len(s) = Len(t) + 1 /\ Len(t) \in Nat
      /\ \A i \in 1 .. Len(t) : t[i] = s[i + 1]
  OBVIOUS
<1>2. p \in Seq(Nat) /\ Len(p) = Len(t) /\ \A i \in 1 .. Len(t) : p[i] = i + 1
  BY <1>1
<1>. HIDE DEF p, s
<1>3. Increasing(p)
  BY <1>2 DEF Increasing
<1>4. Elems(p) = 2 .. Len(s)
  <2>1. ASSUME NEW k \in 2 .. Len(s) PROVE k - 1 \in 1 .. Len(t) /\ (k - 1) + 1 = k
    BY <1>1
  <2>2. \A i \in 1 .. Len(t) : i + 1 \in 2 .. Len(s)
    BY <1>1
  <2>3. Elems(p) = {i + 1 : i \in 1 .. Len(t)}
    BY <1>2 DEF Elems
  <2>. QED
    BY <2>1, <2>2, <2>3
<1>5. (2 .. Len(s)) \in SUBSET (1 .. Len(s))
  <2>1. \A k \in 2 .. Len(s) : k \in 1 .. Len(s)
    BY <1>1
  <2>. QED
    BY <2>1
<1>6. \A i \in 1 .. Len(t) : t[i] = s[p[i]]
  BY <1>1, <1>2
<1>7. t \in Seq(D) /\ Len(p) = Len(t)
  BY <1>2
<1>8. Picked(s, 2 .. Len(s)) = t
  <2>. DEFINE P == 2 .. Len(s)
  <2>1. P \in SUBSET (1 .. Len(s)) /\ Elems(p) = P
    BY <1>4, <1>5
  <2>. HIDE DEF P
  <2>2. Picked(s, P) = t
    BY <1>1, <1>2, <1>3, <1>6, <1>7, <2>1, PickedAs
  <2>. QED
    BY <2>2 DEF P
<1>. QED
  BY <1>8 DEF s

\* where the first position is picked, its element comes first
LEMMA FirstPicked ==
  ASSUME NEW D, NEW s \in Seq(D), NEW P \in SUBSET (1 .. Len(s)), 1 \in P
  PROVE  Len(Picked(s, P)) >= 1 /\ Picked(s, P)[1] = s[1]
<1>. DEFINE n == Cardinality(P)
<1>1. n \in Nat
  BY SomePositions
<1>2. PICK i \in 1 .. n : InOrder(P)[i] = 1
  BY PickedFacts
<1>3. 1 \in 1 .. n
  BY <1>1
<1>4. ~(1 < i)
  <2>1. InOrder(P)[1] \in P
    BY <1>3, PickedFacts
  <2>2. InOrder(P)[1] \in 1 .. Len(s)
    BY <2>1
  <2>. QED
    BY <1>2, <1>3, <2>2, PickedFacts
<1>5. i = 1
  BY <1>1, <1>4
<1>. QED
  BY <1>1, <1>2, <1>3, <1>5, PickedFacts

\* what is picked repeats nothing unless the sequence does
LEMMA PickedRepeatsNot ==
  ASSUME NEW D, NEW s \in Seq(D), NEW P \in SUBSET (1 .. Len(s)),
         \A p, q \in P : p < q => s[p] # s[q]
  PROVE  ~Repeats(Picked(s, P))
<1>. DEFINE n == Cardinality(P)
<1>1. /\ Len(Picked(s, P)) = n
      /\ \A i \in 1 .. n : InOrder(P)[i] \in P /\ Picked(s, P)[i] = s[InOrder(P)[i]]
      /\ \A i, j \in 1 .. n : i < j => InOrder(P)[i] < InOrder(P)[j]
  BY PickedFacts
<1>2. SUFFICES ASSUME NEW i \in 1 .. n, NEW j \in 1 .. n, i < j,
                      Picked(s, P)[i] = Picked(s, P)[j]
               PROVE  FALSE
  BY <1>1 DEF Repeats
<1>3. InOrder(P)[i] \in P /\ InOrder(P)[j] \in P /\ InOrder(P)[i] < InOrder(P)[j]
  BY <1>1, <1>2
<1>4. s[InOrder(P)[i]] # s[InOrder(P)[j]]
  BY <1>3
<1>5. Picked(s, P)[i] = s[InOrder(P)[i]] /\ Picked(s, P)[j] = s[InOrder(P)[j]]
  BY <1>1
<1>. QED
  BY <1>2, <1>4, <1>5

\* A non-empty set of positions has a first one.
LEMMA FirstPosition ==
  ASSUME NEW D, NEW s \in Seq(D), NEW P \in SUBSET (1 .. Len(s)), NEW q \in P
  PROVE  \E p \in P : p <= q /\ \A r \in P : p <= r
<1>. DEFINE n == Cardinality(P)
<1>1. n \in Nat
  BY SomePositions
<1>0. \A p \in P : \E j \in 1 .. n : InOrder(P)[j] = p
  BY PickedFacts, SMTT(30)
<1>2. PICK i \in 1 .. n : InOrder(P)[i] = q
  BY <1>0
<1>3. 1 \in 1 .. n
  BY <1>1
<1>4. ASSUME NEW r \in P PROVE InOrder(P)[1] <= r
  <2>1. PICK j \in 1 .. n : InOrder(P)[j] = r
    BY <1>0
  <2>2. j = 1 \/ 1 < j
    BY <1>1
  <2>3. 1 < j => InOrder(P)[1] < r
    BY <1>3, <2>1, PickedFacts
  <2>4. InOrder(P)[1] \in P
    BY <1>3, PickedFacts
  <2>5. InOrder(P)[1] \in Nat /\ r \in Nat
    BY <2>4, SomePositions
  <2>. QED
    BY <2>1, <2>2, <2>3, <2>5
<1>. QED
  BY <1>3, <1>4, PickedFacts

-------------------------------------------------------------------------------
(* Filters *)

\* A filter leaves the elements that are in the set, in a sequence of them.
LEMMA KeptFacts ==
  ASSUME NEW D, NEW s \in Seq(D), NEW set
  PROVE  /\ Kept(s, set) \in Seq(D) /\ Len(Kept(s, set)) \in Nat
         /\ Elems(Kept(s, set)) = Elems(s) \cap set
         /\ ~Repeats(s) => ~Repeats(Kept(s, set))
<1>. DEFINE P == {i \in DOMAIN s : s[i] \in set}
<1>1. P \in SUBSET (1 .. Len(s)) /\ DOMAIN s = 1 .. Len(s)
  OBVIOUS
<1>2. Kept(s, set) = Picked(s, P)
  BY DEF Kept
<1>3. {s[p] : p \in P} = Elems(s) \cap set
  BY <1>1 DEF Elems
<1>4. ASSUME ~Repeats(s) PROVE \A p, q \in P : p < q => s[p] # s[q]
  BY <1>1, <1>4 DEF Repeats
<1>. HIDE DEF P
<1>5. ~Repeats(s) => ~Repeats(Picked(s, P))
  BY <1>1, <1>4, PickedRepeatsNot
<1>6. Picked(s, P) \in Seq(D) /\ Len(Picked(s, P)) \in Nat
      /\ Elems(Picked(s, P)) = {s[p] : p \in P}
  BY <1>1, PickedFacts
<1>. QED
  BY <1>2, <1>3, <1>5, <1>6

\* a filter that everything passes changes nothing
LEMMA KeptAll ==
  ASSUME NEW D, NEW s \in Seq(D), NEW set, Elems(s) \subseteq set
  PROVE  Kept(s, set) = s
<1>1. {i \in DOMAIN s : s[i] \in set} = 1 .. Len(s)
  BY DEF Elems
<1>. QED
  BY <1>1, AllPicked DEF Kept

\* a filter that only the first element does not pass drops it
LEMMA KeptRest ==
  ASSUME NEW D, NEW f \in D, NEW t \in Seq(D), NEW set, f \notin set,
         Elems(t) \subseteq set
  PROVE  Kept(<<f>> \o t, set) = t
<1>. DEFINE s == <<f>> \o t
<1>1. /\ s \in Seq(D) /\ Len(s) = Len(t) + 1 /\ Len(t) \in Nat /\ s[1] = f
      /\ DOMAIN s = 1 .. Len(s) /\ \A i \in 2 .. Len(s) : i - 1 \in 1 .. Len(t) /\ s[i] = t[i - 1]
  OBVIOUS
<1>2. Picked(s, 2 .. Len(s)) = t
  BY RestPicked
<1>. HIDE DEF s
<1>3. {i \in DOMAIN s : s[i] \in set} = 2 .. Len(s)
  <2>1. \A i \in 2 .. Len(s) : s[i] \in set
    BY <1>1 DEF Elems
  <2>2. \A i \in 1 .. Len(s) : i = 1 \/ i \in 2 .. Len(s)
    BY <1>1
  <2>3. 1 \notin 2 .. Len(s) /\ \A i \in 2 .. Len(s) : i \in 1 .. Len(s)
    BY <1>1
  <2>. QED
    BY <1>1, <2>1, <2>2, <2>3
<1>4. Kept(s, set) = t
  BY <1>2, <1>3 DEF Kept
<1>. QED
  BY <1>4 DEF s
=============================================================================
