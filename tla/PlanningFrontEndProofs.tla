----------------------- MODULE PlanningFrontEndProofs -----------------------
(***************************************************************************)
(* What the planning front end guarantees for every request.               *)
(***************************************************************************)
EXTENDS PlanningFrontEnd, PositionsProofs


-------------------------------------------------------------------------------
(* Lists without repetitions *)

\* the elements of a sequence, as the model and as the lemmas of Positions write them
LEMMA SameElements == ASSUME NEW D, NEW s \in Seq(D) PROVE ToSet(s) = Elems(s)
BY DEF ToSet, Elems

\* the first element of a list is one of its elements, and only the empty list has none
LEMMA HasFirst ==
  ASSUME NEW D, NEW s \in Seq(D)
  PROVE  /\ s # <<>> <=> Elems(s) # {}
         /\ s # <<>> => /\ Len(s) \in Nat /\ Len(s) >= 1
                        /\ s[1] \in Elems(s) /\ s[1] \in D
         /\ Elems(s) \subseteq D
<1>1. Len(s) \in Nat /\ \A i \in 1 .. Len(s) : s[i] \in D
  OBVIOUS
<1>2. s = <<>> <=> Len(s) = 0
  OBVIOUS
<1>. QED
  BY <1>1, <1>2 DEF Elems

\* The list of first occurrences: the same elements, each once.
LEMMA DistinctFacts ==
  ASSUME NEW D, NEW s \in Seq(D)
  PROVE  /\ Distinct(s) \in Seq(D) /\ ~Repeats(Distinct(s))
         /\ Elems(Distinct(s)) = Elems(s)
<1>. DEFINE P == {i \in DOMAIN s : \A j \in 1 .. (i - 1) : s[j] # s[i]}
<1>1. P \in SUBSET (1 .. Len(s)) /\ DOMAIN s = 1 .. Len(s) /\ Len(s) \in Nat
  OBVIOUS
<1>2. Distinct(s) = Picked(s, P)
  BY DEF Distinct
<1>3. \A p, q \in P : p < q => s[p] # s[q]
  <2>1. ASSUME NEW p \in P, NEW q \in P, p < q PROVE p \in 1 .. (q - 1)
    BY <1>1, <2>1
  <2>. QED
    BY <2>1
<1>4. Elems(s) \subseteq {s[p] : p \in P}
  <2>1. SUFFICES ASSUME NEW q \in 1 .. Len(s) PROVE \E p \in P : s[p] = s[q]
    BY DEF Elems
  <2>. DEFINE Q == {i \in 1 .. Len(s) : s[i] = s[q]}
  <2>2. PICK p \in Q : \A r \in Q : p <= r
    <3>1. Q \in SUBSET (1 .. Len(s)) /\ q \in Q
      OBVIOUS
    <3>. HIDE DEF Q
    <3>. QED
      BY <3>1, FirstPosition
  <2>3. \A j \in 1 .. (p - 1) : j \in 1 .. Len(s) /\ ~(p <= j)
    BY <1>1, <2>2
  <2>4. p \in P
    BY <1>1, <2>2, <2>3
  <2>. QED
    BY <2>2, <2>4
<1>5. {s[p] : p \in P} \subseteq Elems(s)
  BY <1>1 DEF Elems
<1>. HIDE DEF P
<1>6. Picked(s, P) \in Seq(D) /\ Elems(Picked(s, P)) = {s[p] : p \in P}
  BY <1>1, PickedFacts
<1>7. ~Repeats(Picked(s, P))
  BY <1>1, <1>3, PickedRepeatsNot
<1>. QED
  BY <1>2, <1>4, <1>5, <1>6, <1>7

\* nothing is dropped from a list that repeats nothing
LEMMA DistinctSame ==
  ASSUME NEW D, NEW s \in Seq(D), ~Repeats(s) PROVE Distinct(s) = s
<1>1. {i \in DOMAIN s : \A j \in 1 .. (i - 1) : s[j] # s[i]} = 1 .. Len(s)
  <2>1. Len(s) \in Nat /\ DOMAIN s = 1 .. Len(s)
    OBVIOUS
  <2>2. ASSUME NEW i \in 1 .. Len(s), NEW j \in 1 .. (i - 1) PROVE s[j] # s[i]
    <3>1. j \in 1 .. Len(s) /\ j < i
      BY <2>1
    <3>. QED
      BY <3>1 DEF Repeats
  <2>. QED
    BY <2>1, <2>2
<1>. QED
  BY <1>1, AllPicked DEF Distinct

\* an element put before a list that does not have it
LEMMA PutFirst ==
  ASSUME NEW D, NEW f \in D, NEW t \in Seq(D)
  PROVE  /\ <<f>> \o t \in Seq(D) /\ <<f>> \o t # <<>> /\ (<<f>> \o t)[1] = f
         /\ Elems(<<f>> \o t) = {f} \cup Elems(t)
         /\ f \notin Elems(t) /\ ~Repeats(t) => ~Repeats(<<f>> \o t)
<1>. DEFINE s == <<f>> \o t
<1>1. /\ s \in Seq(D) /\ Len(s) = Len(t) + 1 /\ Len(t) \in Nat /\ s[1] = f
      /\ \A i \in 1 .. Len(t) : s[i + 1] = t[i]
      /\ \A i \in 2 .. Len(s) : s[i] = t[i - 1]
  OBVIOUS
<1>. HIDE DEF s
<1>2. \A i \in 1 .. Len(s) : i = 1 \/ (i - 1 \in 1 .. Len(t) /\ i \in 2 .. Len(s))
  BY <1>1
<1>3. \A i \in 1 .. Len(t) : i + 1 \in 1 .. Len(s)
  BY <1>1
<1>4. Elems(s) = {f} \cup Elems(t)
  <2>1. Elems(s) \subseteq {f} \cup Elems(t)
    <3>1. ASSUME NEW i \in 1 .. Len(s) PROVE s[i] \in {f} \cup Elems(t)
      <4>1. CASE i = 1
        BY <1>1, <4>1
      <4>2. CASE i # 1
        BY <1>1, <1>2, <4>2 DEF Elems
      <4>. QED
        BY <4>1, <4>2
    <3>. QED
      BY <3>1 DEF Elems
  <2>2. f \in Elems(s)
    BY <1>1 DEF Elems
  <2>3. Elems(t) \subseteq Elems(s)
    BY <1>1, <1>3 DEF Elems
  <2>. QED
    BY <2>1, <2>2, <2>3
<1>5. ASSUME f \notin Elems(t), ~Repeats(t), NEW i \in 1 .. Len(s), NEW j \in 1 .. Len(s), i < j
      PROVE  s[i] # s[j]
  <2>1. j # 1 /\ j - 1 \in 1 .. Len(t) /\ s[j] = t[j - 1] /\ t[j - 1] \in Elems(t)
    BY <1>1, <1>2, <1>5 DEF Elems
  <2>2. CASE i = 1
    BY <1>1, <1>5, <2>1, <2>2
  <2>3. CASE i # 1
    <3>1. i - 1 \in 1 .. Len(t) /\ s[i] = t[i - 1] /\ i - 1 < j - 1
      BY <1>1, <1>2, <1>5, <2>3
    <3>. QED
      BY <1>5, <2>1, <3>1 DEF Repeats
  <2>. QED
    BY <2>2, <2>3
<1>6. f \notin Elems(t) /\ ~Repeats(t) => ~Repeats(s)
  BY <1>5 DEF Repeats
<1>7. s # <<>>
  BY <1>1
<1>. QED
  BY <1>1, <1>4, <1>6, <1>7 DEF s

\* a list is its first element and the rest
LEMMA TakenApart ==
  ASSUME NEW D, NEW s \in Seq(D), s # <<>>, ~Repeats(s)
  PROVE  /\ Tail(s) \in Seq(D) /\ s = <<s[1]>> \o Tail(s) /\ s[1] \in D
         /\ s[1] \notin Elems(Tail(s)) /\ ~Repeats(Tail(s)) /\ Elems(Tail(s)) \subseteq D
<1>1. /\ Tail(s) \in Seq(D) /\ Len(s) \in Nat /\ Len(s) >= 1 /\ Len(Tail(s)) = Len(s) - 1
      /\ \A i \in 1 .. Len(Tail(s)) : Tail(s)[i] = s[i + 1]
      /\ s[1] \in D
  OBVIOUS
<1>9. PICK f \in D : f = s[1]
  BY <1>1
<1>. DEFINE t == Tail(s)
            u == <<f>> \o t
<1>2. /\ t \in Seq(D) /\ Len(t) = Len(s) - 1
      /\ \A i \in 1 .. Len(t) : t[i] = s[i + 1] /\ i + 1 \in 1 .. Len(s)
  BY <1>1
<1>. HIDE DEF t
<1>3. /\ u \in Seq(D) /\ Len(u) = Len(t) + 1 /\ u[1] = f
      /\ \A i \in 2 .. Len(u) : u[i] = t[i - 1] /\ i - 1 \in 1 .. Len(t)
  <2>1. t \in Seq(D) /\ Len(t) \in Nat
    BY <1>2
  <2>2. u \in Seq(D) /\ Len(u) = Len(t) + 1 /\ u[1] = f
    BY <2>1
  <2>3. ASSUME NEW i \in 2 .. Len(t) + 1 PROVE u[i] = t[i - 1] /\ i - 1 \in 1 .. Len(t)
    BY <2>1
  <2>. QED
    BY <2>2, <2>3
<1>. HIDE DEF u
<1>4. \A i \in 1 .. Len(s) : u[i] = s[i]
  <2>1. SUFFICES ASSUME NEW i \in 1 .. Len(s), i # 1 PROVE u[i] = s[i]
    BY <1>3, <1>9
  <2>2. i \in 2 .. Len(u) /\ (i - 1) + 1 = i
    BY <1>1, <1>2, <1>3, <2>1
  <2>. QED
    BY <1>2, <1>3, <2>2
<1>5. u = s
  <2>1. Len(u) = Len(s)
    BY <1>1, <1>2, <1>3
  <2>. QED
    BY <1>3, <1>4, <2>1
<1>6. s[1] \notin Elems(t)
  <2>1. ASSUME NEW i \in 1 .. Len(t) PROVE s[1] # t[i]
    <3>1. 1 \in 1 .. Len(s) /\ 1 < i + 1 /\ t[i] = s[i + 1] /\ i + 1 \in 1 .. Len(s)
      BY <1>1, <1>2
    <3>. QED
      BY <3>1 DEF Repeats
  <2>. QED
    BY <2>1 DEF Elems
<1>7. ~Repeats(t)
  <2>1. ASSUME NEW i \in 1 .. Len(t), NEW j \in 1 .. Len(t), i < j PROVE t[i] # t[j]
    <3>1. i + 1 < j + 1
      BY <1>1, <1>2, <2>1
    <3>. QED
      BY <1>2, <3>1 DEF Repeats
  <2>. QED
    BY <2>1 DEF Repeats
<1>8. Elems(t) \subseteq D
  BY <1>2 DEF Elems
<1>. QED
  BY <1>1, <1>9, <1>5, <1>6, <1>7, <1>8 DEF t, u


-------------------------------------------------------------------------------
(* Asset policies *)

\* What a normalized policy is: a primary policy whose family is allowed leads the
\* preferred ones; one whose family is not remains only next to the background.
Normal(p) ==
  /\ p = Canonical(p.allowed, p.preferred, p.primary, p.avoid)
  /\ p.allowed \in Seq(AssetFamilies) /\ ~Repeats(p.allowed)
  /\ "background" \in Elems(p.allowed)
  /\ p.preferred \in Seq(AssetFamilies) /\ ~Repeats(p.preferred)
  /\ Elems(p.preferred) \subseteq Elems(p.allowed)
  /\ p.avoid \in Seq(AssetFamilies) /\ ~Repeats(p.avoid)
  /\ p.primary \in VisualPolicies
  /\ PrimaryFamily[p.primary] \in Elems(p.allowed) =>
       p.preferred # <<>> /\ p.preferred[1] = PrimaryFamily[p.primary]
  /\ PrimaryFamily[p.primary] \notin Elems(p.allowed) \cup {Unset} =>
       Elems(p.allowed) = {"background"}

\* The one normalized policy that normalizing changes: balanced, with nothing
\* preferred although something is allowed.
Settled(p) ==
  /\ Normal(p)
  /\ p.primary = "balanced" /\ p.preferred = <<>> => Elems(p.allowed) = {"background"}

\* the policy of each name
LEMMA DefaultFacts ==
  ASSUME NEW m \in VisualPolicies
  PROVE  /\ Settled(DefaultPolicies[m]) /\ DefaultPolicies[m].primary = m
         /\ DefaultPolicies[m].preferred # <<>>
         /\ Elems(DefaultPolicies[m].preferred) \subseteq {"graphic", "photo"}
         /\ m = "balanced" => Elems(DefaultPolicies[m].preferred) = {"graphic", "photo"}
<1>1. /\ DefaultPolicies["graphic_preferred"] = GraphicFirst
      /\ DefaultPolicies["photo_preferred"] = PhotoFirst
      /\ DefaultPolicies["balanced"] = BalancedFamilies
  BY DEF DefaultPolicies
<1>2. ASSUME NEW a \in AssetFamilies PROVE /\ <<a>> \in Seq(AssetFamilies) /\ Elems(<<a>>) = {a}
                                           /\ ~Repeats(<<a>>) /\ <<a>>[1] = a /\ <<a>> # <<>>
  BY DEF Elems, Repeats
<1>3. ASSUME NEW a \in AssetFamilies, NEW b \in AssetFamilies, a # b
      PROVE  /\ <<a, b>> \in Seq(AssetFamilies) /\ Elems(<<a, b>>) = {a, b}
             /\ ~Repeats(<<a, b>>) /\ <<a, b>>[1] = a /\ <<a, b>> # <<>>
  <2>1. Len(<<a, b>>) = 2 /\ 1 .. 2 = {1, 2}
    OBVIOUS
  <2>. QED
    BY <1>3, <2>1 DEF Elems, Repeats
<1>4. ASSUME NEW a \in AssetFamilies, NEW b \in AssetFamilies, NEW c \in AssetFamilies,
             a # b, a # c, b # c
      PROVE  /\ <<a, b, c>> \in Seq(AssetFamilies) /\ Elems(<<a, b, c>>) = {a, b, c}
             /\ ~Repeats(<<a, b, c>>)
  <2>1. Len(<<a, b, c>>) = 3 /\ 1 .. 3 = {1, 2, 3}
    OBVIOUS
  <2>. QED
    BY <1>4, <2>1 DEF Elems, Repeats
<1>5. <<>> \in Seq(AssetFamilies) /\ ~Repeats(<<>>)
  BY DEF Repeats
<1>6. \A a \in {"background", "graphic", "photo"} : a \in AssetFamilies
  BY DEF AssetFamilies
<1>7. CASE m = "graphic_preferred"
  <2>. DEFINE d == GraphicFirst
  <2>1. DefaultPolicies[m] = d
    BY <1>1, <1>7
  <2>2. /\ d = Canonical(d.allowed, d.preferred, d.primary, d.avoid)
        /\ d.allowed = <<"background", "graphic", "photo">> /\ d.preferred = <<"graphic">>
        /\ d.primary = m /\ d.avoid = <<>>
    BY <1>7 DEF GraphicFirst, Canonical, AssetPolicy
  <2>. HIDE DEF d
  <2>3. /\ d.allowed \in Seq(AssetFamilies) /\ ~Repeats(d.allowed)
        /\ Elems(d.allowed) = {"background", "graphic", "photo"}
    BY <1>4, <1>6, <2>2
  <2>4. /\ d.preferred \in Seq(AssetFamilies) /\ ~Repeats(d.preferred) /\ d.preferred # <<>>
        /\ Elems(d.preferred) = {"graphic"} /\ d.preferred[1] = "graphic"
    BY <1>2, <1>3, <1>6, <2>2
  <2>5. PrimaryFamily[m] = "graphic"
    BY <1>7 DEF PrimaryFamily
  <2>6. Normal(d)
    BY <1>5, <1>7, <2>2, <2>3, <2>4, <2>5 DEF Normal, VisualPolicies, Unset
  <2>. QED
    BY <1>7, <2>1, <2>2, <2>4, <2>6 DEF Settled
<1>8. CASE m = "photo_preferred"
  <2>. DEFINE d == PhotoFirst
  <2>1. DefaultPolicies[m] = d
    BY <1>1, <1>8
  <2>2. /\ d = Canonical(d.allowed, d.preferred, d.primary, d.avoid)
        /\ d.allowed = <<"background", "photo", "graphic">> /\ d.preferred = <<"photo", "graphic">>
        /\ d.primary = m /\ d.avoid = <<>>
    BY <1>8 DEF PhotoFirst, Canonical, AssetPolicy
  <2>. HIDE DEF d
  <2>3. /\ d.allowed \in Seq(AssetFamilies) /\ ~Repeats(d.allowed)
        /\ Elems(d.allowed) = {"background", "graphic", "photo"}
    BY <1>4, <1>6, <2>2
  <2>4. /\ d.preferred \in Seq(AssetFamilies) /\ ~Repeats(d.preferred) /\ d.preferred # <<>>
        /\ Elems(d.preferred) = {"photo", "graphic"} /\ d.preferred[1] = "photo"
    BY <1>2, <1>3, <1>6, <2>2
  <2>5. PrimaryFamily[m] = "photo"
    BY <1>8 DEF PrimaryFamily
  <2>6. Normal(d)
    BY <1>5, <1>8, <2>2, <2>3, <2>4, <2>5 DEF Normal, VisualPolicies, Unset
  <2>. QED
    BY <1>8, <2>1, <2>2, <2>4, <2>6 DEF Settled
<1>9. CASE m = "balanced"
  <2>. DEFINE d == BalancedFamilies
  <2>1. DefaultPolicies[m] = d
    BY <1>1, <1>9
  <2>2. /\ d = Canonical(d.allowed, d.preferred, d.primary, d.avoid)
        /\ d.allowed = <<"background", "graphic", "photo">> /\ d.preferred = <<"graphic", "photo">>
        /\ d.primary = m /\ d.avoid = <<>>
    BY <1>9 DEF BalancedFamilies, Canonical, AssetPolicy
  <2>. HIDE DEF d
  <2>3. /\ d.allowed \in Seq(AssetFamilies) /\ ~Repeats(d.allowed)
        /\ Elems(d.allowed) = {"background", "graphic", "photo"}
    BY <1>4, <1>6, <2>2
  <2>4. /\ d.preferred \in Seq(AssetFamilies) /\ ~Repeats(d.preferred) /\ d.preferred # <<>>
        /\ Elems(d.preferred) = {"graphic", "photo"} /\ d.preferred[1] = "graphic"
    BY <1>2, <1>3, <1>6, <2>2
  <2>5. PrimaryFamily[m] = Unset
    BY <1>9 DEF PrimaryFamily
  <2>6. Normal(d)
    BY <1>5, <1>9, <2>2, <2>3, <2>4, <2>5 DEF Normal, VisualPolicies, Unset
  <2>. QED
    BY <1>9, <2>1, <2>2, <2>4, <2>6 DEF Settled
<1>. QED
  BY <1>7, <1>8, <1>9 DEF VisualPolicies

\* the families of the primary policies
LEMMA FamilyFacts ==
  ASSUME NEW m \in VisualPolicies
  PROVE  /\ PrimaryFamily[m] \in {"graphic", "photo", Unset}
         /\ PrimaryFamily[m] = Unset <=> m = "balanced"
         /\ PrimaryFamily[m] # Unset => PrimaryFamily[m] \in AssetFamilies
         /\ PrimaryFamily[m] = "graphic" <=> m = "graphic_preferred"
         /\ PrimaryFamily[m] = "photo" <=> m = "photo_preferred"
BY DEF PrimaryFamily, VisualPolicies, AssetFamilies, Unset

\* What resolveCompatiblePrimaryVisualPolicy answers: a policy whose family is allowed,
\* unless only the background is.
LEMMA CompatibleFacts ==
  ASSUME NEW A \in Seq(AssetFamilies), "background" \in Elems(A),
         NEW P \in Seq(AssetFamilies), Elems(P) \subseteq Elems(A),
         NEW asked \in VisualPolicies \cup {Unset}, NEW default \in VisualPolicies,
         NEW m, m = CompatiblePrimary(asked, A, P, default)
  PROVE  /\ m \in VisualPolicies
         /\ PrimaryFamily[m] \notin Elems(A) \cup {Unset} => Elems(A) = {"background"}
         /\ asked # Unset /\ PrimaryFamily[asked] \in Elems(A) \cup {Unset} => m = asked
         /\ P = <<>> /\ m = "balanced" => asked = "balanced" \/ default = "balanced"
         /\ Elems(A) = {"background"} /\ asked = default => m = default
<1>. DEFINE K == Kept(A, {"graphic", "photo"})
            other == FirstOf(K)
<1>1. ToSet(A) = Elems(A) /\ ToSet(P) = Elems(P)
  BY SameElements
<1>2. K \in Seq(AssetFamilies) /\ Elems(K) = Elems(A) \cap {"graphic", "photo"}
  BY KeptFacts
<1>. HIDE DEF K
<1>3. /\ other \in Elems(A) \cap {"graphic", "photo"} \/ other = Unset
      /\ other = Unset => Elems(A) \cap {"graphic", "photo"} = {}
  <2>1. CASE K = <<>>
    BY <1>2, <2>1, HasFirst DEF FirstOf
  <2>2. CASE K # <<>>
    BY <1>2, <2>2, HasFirst DEF FirstOf, Unset
  <2>. QED
    BY <2>1, <2>2
<1>4. Elems(A) \subseteq AssetFamilies
  BY HasFirst
<1>5. /\ FirstOf(P) \in Elems(P) \/ FirstOf(P) = Unset
      /\ P = <<>> => FirstOf(P) = Unset /\ Elems(P) = {}
  BY HasFirst DEF FirstOf
<1>6. m = IF asked # Unset /\ PrimaryFamily[asked] \in Elems(A) \cup {Unset} THEN asked
          ELSE IF {"graphic", "photo"} \subseteq Elems(P) THEN "balanced"
          ELSE IF FirstOf(P) = "photo" THEN "photo_preferred"
          ELSE IF FirstOf(P) = "graphic" THEN "graphic_preferred"
          ELSE IF other = "photo" THEN "photo_preferred"
          ELSE IF other = "graphic" THEN "graphic_preferred"
          ELSE default
  BY <1>1 DEF CompatiblePrimary, Both, K
<1>. HIDE DEF other
<1>7. /\ PrimaryFamily["balanced"] = Unset /\ PrimaryFamily["photo_preferred"] = "photo"
      /\ PrimaryFamily["graphic_preferred"] = "graphic"
  BY DEF PrimaryFamily
<1>8. Elems(A) \cap {"graphic", "photo"} = {} => Elems(A) = {"background"}
  BY <1>4 DEF AssetFamilies
<1>9. m \in VisualPolicies
  BY <1>6 DEF VisualPolicies
<1>10. PrimaryFamily[m] \notin Elems(A) \cup {Unset} => Elems(A) = {"background"}
  <2>1. SUFFICES ASSUME PrimaryFamily[m] \notin Elems(A) \cup {Unset}, other # Unset
                 PROVE FALSE
    BY <1>3, <1>8
  <2>2. other \in {"graphic", "photo"} /\ other \in Elems(A)
    BY <1>3, <2>1
  <2>3. FirstOf(P) \in {"graphic", "photo"} => FirstOf(P) \in Elems(A)
    BY <1>5 DEF Unset
  <2>. QED
    BY <1>6, <1>7, <2>1, <2>2, <2>3
<1>11. P = <<>> /\ m = "balanced" => asked = "balanced" \/ default = "balanced"
  BY <1>5, <1>6
<1>12. Elems(A) = {"background"} /\ asked = default => m = default
  <2>1. SUFFICES ASSUME Elems(A) = {"background"}, asked = default PROVE m = default
    OBVIOUS
  <2>2. other = Unset /\ FirstOf(P) \notin {"graphic", "photo"}
        /\ ~({"graphic", "photo"} \subseteq Elems(P))
    BY <1>3, <1>5, <2>1 DEF Unset
  <2>. QED
    BY <1>6, <2>1, <2>2 DEF Unset
<1>. QED
  BY <1>6, <1>9, <1>10, <1>11, <1>12

\* What leading the preferred families returns.
LEMMA LeadingFacts ==
  ASSUME NEW A \in Seq(AssetFamilies), NEW P \in Seq(AssetFamilies), ~Repeats(P),
         Elems(P) \subseteq Elems(A), NEW f, NEW L, L = Leading(f, A, P)
  PROVE  /\ L \in Seq(AssetFamilies) /\ ~Repeats(L) /\ Elems(L) \subseteq Elems(A)
         /\ f \in Elems(A) => L # <<>> /\ L[1] = f
         /\ f \notin Elems(A) => L = P
         /\ f \in Elems(A) /\ P # <<>> /\ P[1] = f => L = P
<1>. DEFINE K == Kept(P, AssetFamilies \ {f})
<1>1. ToSet(A) = Elems(A) /\ Elems(A) \subseteq AssetFamilies
  BY SameElements, HasFirst
<1>2. f \notin Elems(A) => L = P
  BY <1>1 DEF Leading
<1>3. f \in Elems(A) => L = <<f>> \o K
  BY <1>1 DEF Leading
<1>4. K \in Seq(AssetFamilies) /\ Elems(K) = Elems(P) \cap (AssetFamilies \ {f}) /\ ~Repeats(K)
  BY KeptFacts
<1>5. ASSUME f \in Elems(A), P # <<>>, P[1] = f PROVE K = Tail(P) /\ P = <<f>> \o Tail(P)
  <2>1. /\ Tail(P) \in Seq(AssetFamilies) /\ P = <<f>> \o Tail(P) /\ f \in AssetFamilies
        /\ f \notin Elems(Tail(P)) /\ Elems(Tail(P)) \subseteq AssetFamilies
    BY <1>5, TakenApart
  <2>2. f \notin AssetFamilies \ {f} /\ Elems(Tail(P)) \subseteq AssetFamilies \ {f}
    BY <2>1
  <2>. DEFINE t == Tail(P)
              rest == AssetFamilies \ {f}
  <2>. HIDE DEF K, t, rest
  <2>3. t \in Seq(AssetFamilies) /\ f \in AssetFamilies /\ f \notin rest /\ Elems(t) \subseteq rest
    BY <2>1, <2>2 DEF t, rest
  <2>4. Kept(<<f>> \o t, rest) = t
    BY <2>3, KeptRest
  <2>. QED
    BY <2>1, <2>4 DEF K, t, rest
<1>. HIDE DEF K
<1>6. ASSUME f \in Elems(A)
      PROVE  /\ L \in Seq(AssetFamilies) /\ L # <<>> /\ L[1] = f
             /\ Elems(L) = {f} \cup Elems(K) /\ ~Repeats(L)
  <2>1. f \in AssetFamilies /\ f \notin Elems(K) /\ L = <<f>> \o K
    BY <1>1, <1>3, <1>4, <1>6
  <2>. QED
    BY <1>4, <2>1, PutFirst
<1>. QED
  BY <1>2, <1>3, <1>4, <1>5, <1>6

\* the parts a structured policy is normalized to
LEMMA NormalizedTo ==
  ASSUME NEW p, p.kind # "legacy",
         NEW d, d = DefaultPolicies[DefaultPrimary(p)],
         NEW A, A = Distinct(WithBackground(OrElse(p.allowed, d.allowed))),
         NEW P, P = Kept(OrElse(p.preferred, d.preferred), ToSet(A)),
         NEW m, m = CompatiblePrimary(p.primary, A, P, d.primary)
  PROVE  NormalizePolicy(p) =
           Canonical(A, Leading(PrimaryFamily[m], A, Distinct(P)), m, Distinct(p.avoid))
BY DEF NormalizePolicy, NormalizedParts

\* a list that has the background is left as it is
LEMMA BackgroundFacts ==
  ASSUME NEW A \in Seq(AssetFamilies)
  PROVE  /\ WithBackground(A) \in Seq(AssetFamilies)
         /\ "background" \in Elems(WithBackground(A))
         /\ "background" \in Elems(A) => WithBackground(A) = A
<1>1. ToSet(A) = Elems(A) /\ "background" \in AssetFamilies
  BY SameElements DEF AssetFamilies
<1>2. /\ <<"background">> \o A \in Seq(AssetFamilies)
      /\ Elems(<<"background">> \o A) = {"background"} \cup Elems(A)
  BY <1>1, PutFirst
<1>. QED
  BY <1>1, <1>2 DEF WithBackground

\* which default a policy starts from
LEMMA DefaultPrimaryFacts ==
  ASSUME NEW p \in AssetPolicies
  PROVE  /\ DefaultPrimary(p) \in VisualPolicies
         /\ p.primary # Unset => DefaultPrimary(p) = p.primary
BY DEF AssetPolicies, DefaultPrimary, VisualPolicies

\* Whatever a planner answers, normalizing gives a normalized policy.
LEMMA NormalizedIsNormal ==
  ASSUME NEW p \in AssetPolicies PROVE Normal(NormalizePolicy(p))
<1>1. CASE p.kind = "legacy"
  <2>1. p.primary \in VisualPolicies
    BY <1>1 DEF AssetPolicies
  <2>. QED
    BY <1>1, <2>1, DefaultFacts DEF NormalizePolicy, Settled
<1>2. CASE p.kind # "legacy"
  <2>. DEFINE d == DefaultPolicies[DefaultPrimary(p)]
              asked == OrElse(p.allowed, d.allowed)
              A == Distinct(WithBackground(asked))
              likes == OrElse(p.preferred, d.preferred)
              P == Kept(likes, ToSet(A))
              m == CompatiblePrimary(p.primary, A, P, d.primary)
              L == Leading(PrimaryFamily[m], A, Distinct(P))
              avoid == Distinct(p.avoid)
  <2>1. d.primary \in VisualPolicies /\ Normal(d)
    BY DefaultPrimaryFacts, DefaultFacts DEF Settled
  <2>2. /\ p.allowed \in Seq(AssetFamilies) /\ p.preferred \in Seq(AssetFamilies)
        /\ p.primary \in VisualPolicies \cup {Unset} /\ p.avoid \in Seq(AssetFamilies)
    BY DEF AssetPolicies
  <2>3. asked \in Seq(AssetFamilies) /\ likes \in Seq(AssetFamilies)
    BY <2>1, <2>2 DEF OrElse, Normal
  <2>4. NormalizePolicy(p) = Canonical(A, L, m, avoid)
    <3>. HIDE DEF d, A, P, m
    <3>. QED
      BY <1>2, NormalizedTo DEF d, A, P, m, L, avoid, asked, likes
  <2>. HIDE DEF d, asked, likes
  <2>5. A \in Seq(AssetFamilies) /\ ~Repeats(A) /\ "background" \in Elems(A)
    BY <2>3, BackgroundFacts, DistinctFacts
  <2>. HIDE DEF A
  <2>6. P \in Seq(AssetFamilies) /\ Elems(P) \subseteq Elems(A)
    BY <2>3, <2>5, KeptFacts, SameElements
  <2>. HIDE DEF P
  <2>7. /\ m \in VisualPolicies
        /\ PrimaryFamily[m] \notin Elems(A) \cup {Unset} => Elems(A) = {"background"}
    <3>. DEFINE given == p.primary
                default == d.primary
    <3>1. /\ given \in VisualPolicies \cup {Unset} /\ default \in VisualPolicies
          /\ m = CompatiblePrimary(given, A, P, default)
      BY <2>1, <2>2
    <3>. HIDE DEF m, given, default
    <3>2. m \in VisualPolicies
      BY <2>5, <2>6, <3>1, CompatibleFacts, SMTT(30)
    <3>3. PrimaryFamily[m] \notin Elems(A) \cup {Unset} => Elems(A) = {"background"}
      BY <2>5, <2>6, <3>1, CompatibleFacts, SMTT(30)
    <3>. QED
      BY <3>2, <3>3
  <2>. HIDE DEF m
  <2>8. /\ Distinct(P) \in Seq(AssetFamilies) /\ ~Repeats(Distinct(P))
        /\ Elems(Distinct(P)) \subseteq Elems(A)
    BY <2>6, DistinctFacts
  <2>9. /\ L \in Seq(AssetFamilies) /\ ~Repeats(L) /\ Elems(L) \subseteq Elems(A)
        /\ PrimaryFamily[m] \in Elems(A) => L # <<>> /\ L[1] = PrimaryFamily[m]
    BY <2>5, <2>8, LeadingFacts
  <2>10. avoid \in Seq(AssetFamilies) /\ ~Repeats(avoid)
    BY <2>2, DistinctFacts
  <2>. HIDE DEF L, avoid
  <2>. QED
    BY <2>4, <2>5, <2>7, <2>9, <2>10 DEF Normal, Canonical, AssetPolicy
<1>. QED
  BY <1>1, <1>2

\* what is normalized may be normalized again
LEMMA NormalIsPolicy == ASSUME NEW p, Normal(p) PROVE p \in AssetPolicies
BY DEF Normal, AssetPolicies, Canonical, AssetPolicy

\* Normalizing changes no settled policy.
LEMMA SettledStays == ASSUME NEW p, Settled(p) PROVE NormalizePolicy(p) = p
<1>. DEFINE d == DefaultPolicies[DefaultPrimary(p)]
            P == Kept(OrElse(p.preferred, d.preferred), ToSet(p.allowed))
            m == CompatiblePrimary(p.primary, p.allowed, P, d.primary)
<1>1. Normal(p) /\ p \in AssetPolicies /\ p.kind = "structured" /\ p.primary \in VisualPolicies
  <2>1. Normal(p)
    BY DEF Settled
  <2>2. p \in AssetPolicies
    BY <2>1, NormalIsPolicy
  <2>. QED
    BY <2>1, <2>2 DEF Normal, Canonical, AssetPolicy
<1>2. /\ p.allowed \in Seq(AssetFamilies) /\ ~Repeats(p.allowed)
      /\ "background" \in Elems(p.allowed) /\ p.allowed # <<>>
      /\ p.preferred \in Seq(AssetFamilies) /\ ~Repeats(p.preferred)
      /\ Elems(p.preferred) \subseteq Elems(p.allowed)
      /\ p.avoid \in Seq(AssetFamilies) /\ ~Repeats(p.avoid)
  BY <1>1, HasFirst DEF Normal
<1>3. d = DefaultPolicies[p.primary] /\ p.primary # Unset
  BY <1>1, DefaultPrimaryFacts DEF VisualPolicies, Unset
<1>. HIDE DEF d
<1>4. /\ Normal(d) /\ d.primary = p.primary /\ d.preferred # <<>>
      /\ Elems(d.preferred) \subseteq {"graphic", "photo"}
      /\ d.preferred \in Seq(AssetFamilies)
  BY <1>1, <1>3, DefaultFacts DEF Settled, Normal
<1>. HIDE DEF d
<1>5. Distinct(WithBackground(OrElse(p.allowed, d.allowed))) = p.allowed
  BY <1>2, BackgroundFacts, DistinctSame DEF OrElse
<1>6. NormalizePolicy(p) =
        Canonical(p.allowed, Leading(PrimaryFamily[m], p.allowed, Distinct(P)), m,
                  Distinct(p.avoid))
  <2>. HIDE DEF P, m
  <2>. QED
    BY <1>1, <1>5, NormalizedTo DEF d, P, m
<1>7. Distinct(p.avoid) = p.avoid
  BY <1>2, DistinctSame
<1>8. ToSet(p.allowed) = Elems(p.allowed)
  BY <1>2, SameElements
<1>9. P = p.preferred
  <2>1. CASE p.preferred # <<>>
    BY <1>2, <1>8, <2>1, KeptAll DEF OrElse
  <2>2. CASE p.preferred = <<>>
    <3>1. Elems(p.allowed) = {"background"}
      <4>1. PrimaryFamily[p.primary] \notin Elems(p.allowed)
        BY <1>1, <2>2 DEF Normal
      <4>2. CASE PrimaryFamily[p.primary] = Unset
        BY <1>1, <2>2, <4>2, FamilyFacts DEF Settled
      <4>3. CASE PrimaryFamily[p.primary] # Unset
        BY <1>1, <4>1, <4>3 DEF Normal
      <4>. QED
        BY <4>2, <4>3
    <3>2. P = Kept(d.preferred, Elems(p.allowed))
      BY <1>8, <2>2 DEF OrElse
    <3>3. P \in Seq(AssetFamilies) /\ Elems(P) = {}
      BY <1>4, <3>1, <3>2, KeptFacts
    <3>. HIDE DEF P
    <3>. QED
      BY <2>2, <3>3, HasFirst
  <2>. QED
    BY <2>1, <2>2
<1>. HIDE DEF P
<1>10. m = p.primary
  <2>1. /\ p.primary # Unset /\ PrimaryFamily[p.primary] \in Elems(p.allowed) \cup {Unset} =>
             m = p.primary
        /\ Elems(p.allowed) = {"background"} /\ p.primary = d.primary => m = d.primary
    <3>1. /\ p.primary \in VisualPolicies \cup {Unset} /\ d.primary \in VisualPolicies
          /\ P \in Seq(AssetFamilies) /\ Elems(P) \subseteq Elems(p.allowed)
      BY <1>1, <1>2, <1>4, <1>9 DEF Normal
    <3>2. m = CompatiblePrimary(p.primary, p.allowed, P, d.primary)
      BY DEF m
    <3>. HIDE DEF m
    <3>. QED
      BY <1>2, <3>1, <3>2, CompatibleFacts
  <2>2. CASE PrimaryFamily[p.primary] \in Elems(p.allowed) \cup {Unset}
    BY <1>3, <2>1, <2>2
  <2>3. CASE PrimaryFamily[p.primary] \notin Elems(p.allowed) \cup {Unset}
    BY <1>1, <1>4, <2>1, <2>3 DEF Normal
  <2>. QED
    BY <2>2, <2>3
<1>. HIDE DEF m
<1>11. Leading(PrimaryFamily[m], p.allowed, Distinct(P)) = p.preferred
  <2>1. Distinct(P) = p.preferred
    BY <1>2, <1>9, DistinctSame
  <2>. DEFINE f == PrimaryFamily[m]
              L == Leading(f, p.allowed, p.preferred)
  <2>2. f \in Elems(p.allowed) => p.preferred # <<>> /\ p.preferred[1] = f
    BY <1>1, <1>10 DEF Normal
  <2>. DEFINE all == p.allowed
              likes == p.preferred
  <2>3. /\ all \in Seq(AssetFamilies) /\ likes \in Seq(AssetFamilies) /\ ~Repeats(likes)
        /\ Elems(likes) \subseteq Elems(all) /\ L = Leading(f, all, likes)
        /\ f \in Elems(all) => likes # <<>> /\ likes[1] = f
    BY <1>2, <2>2
  <2>. HIDE DEF f, L, all, likes
  <2>4. L = likes
    BY <2>3, LeadingFacts
  <2>. QED
    BY <2>1, <2>4 DEF L, f, likes
<1>. QED
  BY <1>1, <1>6, <1>7, <1>10, <1>11 DEF Normal

\* A policy that was normalized twice is settled: normalizing it once may still leave
\* a balanced one with nothing preferred, which is then given what is allowed.
LEMMA TwiceIsSettled ==
  ASSUME NEW p, Normal(p) PROVE Settled(NormalizePolicy(p))
<1>. DEFINE q == NormalizePolicy(p)
            d == DefaultPolicies[DefaultPrimary(p)]
            P == Kept(OrElse(p.preferred, d.preferred), ToSet(p.allowed))
            m == CompatiblePrimary(p.primary, p.allowed, P, d.primary)
            L == Leading(PrimaryFamily[m], p.allowed, Distinct(P))
<1>1. p \in AssetPolicies /\ p.kind = "structured" /\ p.primary \in VisualPolicies
  BY NormalIsPolicy DEF Normal, Canonical, AssetPolicy
<1>2. Normal(q)
  BY <1>1, NormalizedIsNormal
<1>3. SUFFICES ASSUME q.primary = "balanced", q.preferred = <<>>
               PROVE  Elems(q.allowed) = {"background"}
  BY <1>2 DEF Settled
<1>4. /\ p.allowed \in Seq(AssetFamilies) /\ ~Repeats(p.allowed)
      /\ "background" \in Elems(p.allowed) /\ p.allowed # <<>>
      /\ p.preferred \in Seq(AssetFamilies) /\ ~Repeats(p.preferred)
      /\ Elems(p.preferred) \subseteq Elems(p.allowed)
  BY HasFirst DEF Normal
<1>5. d = DefaultPolicies[p.primary] /\ p.primary # Unset
  BY <1>1, DefaultPrimaryFacts DEF VisualPolicies, Unset
<1>6. /\ d.primary = p.primary /\ d.preferred \in Seq(AssetFamilies)
      /\ p.primary = "balanced" => Elems(d.preferred) = {"graphic", "photo"}
  <2>1. PICK v \in VisualPolicies : v = p.primary
    BY <1>1
  <2>2. /\ Settled(DefaultPolicies[v]) /\ DefaultPolicies[v].primary = v
        /\ v = "balanced" => Elems(DefaultPolicies[v].preferred) = {"graphic", "photo"}
    BY DefaultFacts
  <2>3. d = DefaultPolicies[v]
    BY <1>5, <2>1
  <2>. HIDE DEF d
  <2>4. d.preferred \in Seq(AssetFamilies)
    BY <2>2, <2>3 DEF Settled, Normal
  <2>. QED
    BY <2>1, <2>2, <2>3, <2>4
<1>. HIDE DEF d
<1>7. Distinct(WithBackground(OrElse(p.allowed, d.allowed))) = p.allowed
  BY <1>4, BackgroundFacts, DistinctSame DEF OrElse
<1>8. q = Canonical(p.allowed, L, m, Distinct(p.avoid))
  <2>. HIDE DEF P, m
  <2>. QED
    BY <1>1, <1>7, NormalizedTo DEF d, P, m, q, L
<1>. HIDE DEF q
<1>9. q.allowed = p.allowed /\ L = <<>> /\ m = "balanced"
  BY <1>3, <1>8 DEF Canonical, AssetPolicy
<1>10. ToSet(p.allowed) = Elems(p.allowed)
  BY <1>4, SameElements
<1>11. P \in Seq(AssetFamilies) /\ Elems(P) \subseteq Elems(p.allowed)
       /\ (p.preferred = <<>> => Elems(P) = Elems(d.preferred) \cap Elems(p.allowed))
       /\ (p.preferred # <<>> => P = p.preferred)
  BY <1>4, <1>6, <1>10, KeptFacts, KeptAll DEF OrElse
<1>. HIDE DEF P
<1>12. /\ Distinct(P) \in Seq(AssetFamilies) /\ ~Repeats(Distinct(P))
       /\ Elems(Distinct(P)) = Elems(P)
  BY <1>11, DistinctFacts
<1>13. P = <<>> /\ Elems(P) = {}
  <2>. DEFINE f == PrimaryFamily[m]
              once == Distinct(P)
  <2>1. /\ once \in Seq(AssetFamilies) /\ ~Repeats(once) /\ Elems(once) \subseteq Elems(p.allowed)
        /\ L = Leading(f, p.allowed, once)
    BY <1>11, <1>12
  <2>. HIDE DEF f, once, L
  <2>2. (f \in Elems(p.allowed) => L # <<>>) /\ (f \notin Elems(p.allowed) => L = once)
    BY <1>4, <2>1, LeadingFacts
  <2>3. Elems(P) = {}
    <3>1. once = <<>>
      BY <1>9, <2>2
    <3>. QED
      BY <1>12, <2>1, <3>1, HasFirst DEF once
  <2>. QED
    BY <1>11, <2>3, HasFirst
<1>14. p.preferred = <<>>
  BY <1>11, <1>13
<1>15. p.primary = "balanced"
  BY <1>1, <1>4, <1>6, <1>9, <1>11, <1>13, CompatibleFacts
<1>16. Elems(p.allowed) \cap {"graphic", "photo"} = {}
  BY <1>6, <1>11, <1>13, <1>14, <1>15
<1>17. Elems(p.allowed) \subseteq AssetFamilies
  BY <1>4, HasFirst
<1>. QED
  BY <1>4, <1>9, <1>16, <1>17 DEF AssetFamilies


-------------------------------------------------------------------------------
(* Keywords *)

Normalized == Vocabulary \ {"menu!", "--"}

\* the first five of a list
LEMMA FirstFiveFacts ==
  ASSUME NEW D, NEW s \in Seq(D)
  PROVE  /\ FirstFive(s) \in Seq(D) /\ Len(FirstFive(s)) <= 5
         /\ Elems(FirstFive(s)) \subseteq Elems(s)
         /\ s # <<>> => /\ Len(FirstFive(s)) >= 1 /\ FirstFive(s)[1] = s[1]
<1>. DEFINE n == IF Len(s) < 5 THEN Len(s) ELSE 5
<1>1. n \in Nat /\ n <= Len(s) /\ n <= 5 /\ Len(s) \in Nat /\ (s # <<>> => n >= 1)
  OBVIOUS
<1>2. FirstFive(s) = SubSeq(s, 1, n)
  BY DEF FirstFive
<1>. HIDE DEF n
<1>3. /\ SubSeq(s, 1, n) \in Seq(D) /\ Len(SubSeq(s, 1, n)) = n
      /\ \A i \in 1 .. n : SubSeq(s, 1, n)[i] = s[i] /\ i \in 1 .. Len(s)
  BY <1>1
<1>4. Elems(SubSeq(s, 1, n)) \subseteq Elems(s)
  BY <1>3 DEF Elems
<1>. QED
  BY <1>1, <1>2, <1>3, <1>4

\* one list after another
LEMMA JoinedFacts ==
  ASSUME NEW D, NEW s \in Seq(D), NEW t \in Seq(D)
  PROVE  /\ s \o t \in Seq(D) /\ Elems(s) \subseteq Elems(s \o t)
         /\ Elems(t) \subseteq Elems(s \o t)
         /\ s # <<>> => s \o t # <<>> /\ (s \o t)[1] = s[1]
<1>1. /\ s \o t \in Seq(D) /\ Len(s) \in Nat /\ Len(t) \in Nat
      /\ Len(s \o t) = Len(s) + Len(t)
      /\ \A i \in 1 .. Len(s) : (s \o t)[i] = s[i] /\ i \in 1 .. Len(s \o t)
      /\ \A i \in 1 .. Len(t) : (s \o t)[Len(s) + i] = t[i] /\ Len(s) + i \in 1 .. Len(s \o t)
      /\ s # <<>> => 1 \in 1 .. Len(s)
  OBVIOUS
<1>2. s # <<>> => s \o t # <<>>
  BY <1>1
<1>. DEFINE u == s \o t
<1>3. /\ u \in Seq(D)
      /\ \A i \in 1 .. Len(s) : u[i] = s[i] /\ i \in 1 .. Len(u)
      /\ \A i \in 1 .. Len(t) : u[Len(s) + i] = t[i] /\ Len(s) + i \in 1 .. Len(u)
  BY <1>1
<1>4. s # <<>> => u # <<>> /\ u[1] = s[1]
  BY <1>1, <1>2
<1>. HIDE DEF u
<1>5. Elems(s) \subseteq Elems(u)
  BY <1>3 DEF Elems
<1>6. Elems(t) \subseteq Elems(u)
  BY <1>3 DEF Elems
<1>. QED
  BY <1>3, <1>4, <1>5, <1>6 DEF u

\* without its punctuation a list of words is a list of words
LEMMA NormalizedWords ==
  ASSUME NEW s \in Seq(Vocabulary), NEW n, n = [i \in DOMAIN s |-> NormalizeKeyword(s[i])]
  PROVE  /\ n \in Seq(Vocabulary \ {"menu!"})
         /\ "spring" \in Elems(s) => "spring" \in Elems(n)
<1>1. DOMAIN s = 1 .. Len(s) /\ Len(s) \in Nat /\ \A i \in 1 .. Len(s) : s[i] \in Vocabulary
  OBVIOUS
<1>2. ASSUME NEW w \in Vocabulary
      PROVE  /\ NormalizeKeyword(w) \in Vocabulary \ {"menu!"}
             /\ w = "spring" => NormalizeKeyword(w) = "spring"
  BY DEF NormalizeKeyword, Vocabulary
<1>3. /\ n \in Seq(Vocabulary \ {"menu!"}) /\ Len(n) = Len(s)
      /\ \A i \in 1 .. Len(s) : n[i] = NormalizeKeyword(s[i])
  BY <1>1, <1>2
<1>. QED
  BY <1>1, <1>2, <1>3 DEF Elems

\* What the keywords of a repaired intent are: normalized, at most five, none that is
\* blocked, and at least the one for spring.
LEMMA KeywordFacts ==
  ASSUME NEW raw \in Seq(Vocabulary), NEW heuristic \in Seq(Vocabulary),
         NEW extra \in Seq(Vocabulary), NEW blocked,
         "spring" \in Elems(heuristic), "spring" \notin blocked,
         NEW k, k = NormalizedKeywords(raw, heuristic, extra, blocked)
  PROVE  /\ k \in Seq(Vocabulary) /\ Len(k) \in 1 .. 5
         /\ Elems(k) \subseteq Normalized /\ Elems(k) \cap blocked = {}
<1>. DEFINE all == raw \o heuristic \o extra
            n == [i \in DOMAIN all |-> NormalizeKeyword(all[i])]
            free == Vocabulary \ (blocked \cup {"--"})
            kept == Kept(n, free)
            once == Distinct(kept)
<1>1. /\ all \in Seq(Vocabulary) /\ Elems(heuristic) \subseteq Elems(all)
  BY JoinedFacts
<1>. HIDE DEF all
<1>2. /\ n \in Seq(Vocabulary \ {"menu!"}) /\ n \in Seq(Vocabulary)
      /\ "spring" \in Elems(all) => "spring" \in Elems(n)
  <2>1. /\ n \in Seq(Vocabulary \ {"menu!"})
        /\ "spring" \in Elems(all) => "spring" \in Elems(n)
    BY <1>1, NormalizedWords
  <2>. HIDE DEF n
  <2>2. n \in Seq(Vocabulary)
    BY <2>1
  <2>. QED
    BY <2>1, <2>2
<1>3. Elems(n) \subseteq Vocabulary \ {"menu!"}
  BY <1>2, HasFirst
<1>. HIDE DEF n
<1>4. kept \in Seq(Vocabulary) /\ Elems(kept) = Elems(n) \cap free
  BY <1>2, KeptFacts
<1>. HIDE DEF kept
<1>5. once \in Seq(Vocabulary) /\ Elems(once) = Elems(n) \cap free
  BY <1>4, DistinctFacts
<1>. HIDE DEF once
<1>6. k = FirstFive(once)
  BY DEF NormalizedKeywords, once, kept, n, all, free
<1>7. /\ k \in Seq(Vocabulary) /\ Len(k) <= 5 /\ Elems(k) \subseteq Elems(once)
      /\ once # <<>> => Len(k) >= 1
  BY <1>5, <1>6, FirstFiveFacts
<1>8. Len(k) \in Nat
  BY <1>7
<1>9. once # <<>>
  <2>1. "spring" \in Elems(once)
    BY <1>1, <1>2, <1>5 DEF Vocabulary
  <2>. QED
    BY <1>5, <2>1, HasFirst
<1>10. Len(k) \in 1 .. 5
  <2>. DEFINE length == Len(k)
  <2>1. length \in Nat /\ length <= 5 /\ length >= 1
    BY <1>7, <1>8, <1>9
  <2>. HIDE DEF length
  <2>2. length \in 1 .. 5
    BY <2>1
  <2>. QED
    BY <2>2 DEF length
<1>. QED
  BY <1>3, <1>5, <1>7, <1>10 DEF Normalized

-------------------------------------------------------------------------------
(* The drafts of the planners *)

\* The fields of a draft or an intent that are one of a few.
Faceted(i) ==
  /\ i.goalSummary \in Texts
  /\ i.domain \in Domains /\ i.audience \in Audiences
  /\ i.style \in Styles /\ i.campaignGoal \in Goals
  /\ i.templateKind \in Kinds /\ i.layoutIntent \in LayoutIntents
  /\ i.menuType \in MenuTypes /\ i.specificity \in Specificities
  /\ i.seasonality \in {None, "spring"}
  /\ i.keywords \in Seq(Vocabulary)

\* the answers of the tables are facets
LEMMA TableFacts ==
  /\ \A domain \in Domains : Audience[domain] \in Audiences
  /\ \A style \in Styles : CampaignGoal[style] \in Goals /\ KindOf(style) \in Kinds
  /\ \A style \in Styles, menuType \in MenuTypes :
       SpecificityOf(style, menuType) \in Specificities
  /\ \A style \in Styles : CampaignGoal[style] = "menu_discovery" => style = "seasonal_menu_launch"
BY DEF Domains, Audience, Audiences, Styles, CampaignGoal, Goals, KindOf, Kinds, MenuTypes,
       SpecificityOf, Specificities

\* the words of the tables are words
LEMMA TableWords ==
  /\ \A menuType \in MenuTypes : MenuWords[menuType] \in Seq(Vocabulary)
  /\ \A style \in Styles : StyleWords[style] \in Seq(Vocabulary)
  /\ \A domain \in Domains : DomainWord[domain] \in Vocabulary
<1>1. \A w \in Vocabulary : <<w>> \in Seq(Vocabulary)
  OBVIOUS
<1>2. <<>> \in Seq(Vocabulary)
  OBVIOUS
<1>3. {"new-menu", "promotion", "sale", "menu", "drink", "diner", "cafe", "fashion"}
        \subseteq Vocabulary
  BY DEF Vocabulary
<1>7. \A w \in {"new-menu", "promotion", "sale", "menu", "drink"} : <<w>> \in Seq(Vocabulary)
  BY <1>1, <1>3
<1>4. ASSUME NEW menuType \in MenuTypes PROVE MenuWords[menuType] \in Seq(Vocabulary)
  <2>1. MenuWords[menuType] \in {<<>>, <<"menu">>, <<"drink">>}
    BY DEF MenuTypes, MenuWords, None
  <2>. QED
    BY <1>2, <1>7, <2>1
<1>5. ASSUME NEW style \in Styles PROVE StyleWords[style] \in Seq(Vocabulary)
  <2>1. StyleWords[style] \in {<<>>, <<"new-menu">>, <<"promotion">>, <<"sale">>}
    BY DEF Styles, StyleWords
  <2>. QED
    BY <1>2, <1>7, <2>1
<1>6. ASSUME NEW domain \in Domains PROVE DomainWord[domain] \in Vocabulary
  BY <1>3 DEF Domains, DomainWord
<1>. QED
  BY <1>4, <1>5, <1>6

\* the heuristic keywords are words, spring first
LEMMA InferredKeywords ==
  ASSUME NEW words \in Seq(Vocabulary), NEW domain \in Domains, NEW style \in Styles,
         NEW menuType \in MenuTypes, NEW k, k = InferKeywords(words, domain, style, menuType)
  PROVE  k \in Seq(Vocabulary) /\ "spring" \in Elems(k)
<1>. DEFINE n == [i \in DOMAIN words |-> NormalizeKeyword(words[i])]
            tokens == Kept(n, Vocabulary \ {"--", "spring"})
            head == <<"spring", DomainWord[domain]>>
            list == head \o MenuWords[menuType] \o StyleWords[style] \o tokens
            once == Distinct(list)
<1>1. n \in Seq(Vocabulary)
  <2>1. n \in Seq(Vocabulary \ {"menu!"})
    BY NormalizedWords
  <2>. HIDE DEF n
  <2>. QED
    BY <2>1
<1>. HIDE DEF n
<1>2. tokens \in Seq(Vocabulary)
  BY <1>1, KeptFacts
<1>. HIDE DEF tokens
<1>3. head \in Seq(Vocabulary) /\ head # <<>> /\ head[1] = "spring"
  <2>1. "spring" \in Vocabulary /\ DomainWord[domain] \in Vocabulary
    BY TableWords DEF Vocabulary
  <2>. QED
    BY <2>1
<1>. HIDE DEF head
<1>4. list \in Seq(Vocabulary) /\ list # <<>> /\ list[1] = "spring"
  <2>. DEFINE a == head \o MenuWords[menuType]
              b == a \o StyleWords[style]
  <2>1. a \in Seq(Vocabulary) /\ a # <<>> /\ a[1] = "spring"
    BY <1>3, TableWords, JoinedFacts
  <2>. HIDE DEF a
  <2>2. b \in Seq(Vocabulary) /\ b # <<>> /\ b[1] = "spring"
    BY <2>1, TableWords, JoinedFacts
  <2>. HIDE DEF b
  <2>3. b \o tokens \in Seq(Vocabulary) /\ b \o tokens # <<>> /\ (b \o tokens)[1] = "spring"
    BY <1>2, <2>2, JoinedFacts
  <2>. QED
    BY <2>3 DEF a, b
<1>. HIDE DEF list
<1>5. once \in Seq(Vocabulary) /\ once # <<>> /\ once[1] = "spring"
  <2>. DEFINE P == {i \in DOMAIN list : \A j \in 1 .. (i - 1) : list[j] # list[i]}
  <2>1. P \in SUBSET (1 .. Len(list)) /\ 1 \in P
    BY <1>4
  <2>2. once = Picked(list, P)
    BY DEF Distinct
  <2>. HIDE DEF P, once
  <2>3. Len(once) >= 1 /\ once[1] = "spring" /\ once \in Seq(Vocabulary)
    BY <1>4, <2>1, <2>2, FirstPicked, PickedFacts
  <2>4. once # <<>>
    BY <2>3
  <2>. QED
    BY <2>3, <2>4
<1>. HIDE DEF once
<1>6. k = FirstFive(once)
  BY DEF InferKeywords, once, list, head, tokens, n
<1>7. k \in Seq(Vocabulary) /\ Len(k) >= 1 /\ k[1] = "spring"
  BY <1>5, <1>6, FirstFiveFacts
<1>8. k # <<>>
  BY <1>7
<1>. QED
  BY <1>7, <1>8, HasFirst

\* The heuristic planner's draft, of any prompt.
LEMMA HeuristicFacts ==
  ASSUME NEW prompt \in Texts, NEW h, h = HeuristicDraft(prompt)
  PROVE  /\ Faceted(h) /\ Settled(h.assetPolicy) /\ "spring" \in Elems(h.keywords)
         /\ LET s == Signals(prompt.words)
            IN  h.style = InferStyle(prompt.words, s, DomainOr(ExplicitDomain(s), "general_marketing"))
<1>. DEFINE s == Signals(prompt.words)
            domain == DomainOr(ExplicitDomain(s), "general_marketing")
            style == InferStyle(prompt.words, s, domain)
            menuType == InferMenuType(prompt.words, s, domain)
            k == InferKeywords(prompt.words, domain, style, menuType)
<1>1. h = HeuristicDraftOf(prompt, s, domain, style, menuType)
  BY DEF HeuristicDraft
<1>2. prompt.words \in Seq(Vocabulary)
  BY DEF Texts
<1>. HIDE DEF s
<1>3. domain \in Domains
  BY DEF DomainOr, ExplicitDomain, Domains
<1>. HIDE DEF domain
<1>4. style \in Styles /\ menuType \in MenuTypes
  BY DEF InferStyle, Styles, InferMenuType, MenuTypes
<1>. HIDE DEF style, menuType
<1>5. k \in Seq(Vocabulary) /\ "spring" \in Elems(k)
  BY <1>2, <1>3, <1>4, InferredKeywords
<1>. HIDE DEF k
<1>6. Settled(PhotoFirst) /\ Settled(GraphicFirst)
  BY DefaultFacts DEF DefaultPolicies, VisualPolicies
<1>7. InferLayoutIntent(s, domain, style) \in LayoutIntents
  BY DEF InferLayoutIntent, LayoutIntents
<1>8. /\ h.goalSummary = prompt /\ h.domain = domain /\ h.audience = Audience[domain]
      /\ h.campaignGoal = CampaignGoal[style] /\ h.templateKind = KindOf(style)
      /\ h.layoutIntent = InferLayoutIntent(s, domain, style)
      /\ h.assetPolicy \in {PhotoFirst, GraphicFirst}
      /\ h.keywords = k /\ h.seasonality \in {None, "spring"}
      /\ h.menuType = menuType /\ h.style = style
      /\ h.specificity = SpecificityOf(style, menuType)
  BY <1>1 DEF HeuristicDraftOf, k
<1>9. Faceted(h)
  BY <1>3, <1>4, <1>5, <1>7, <1>8, TableFacts DEF Faceted
<1>. QED
  BY <1>5, <1>6, <1>8, <1>9 DEF s, domain, style

\* What a draft in the graph state is: faceted, its policy normalized.
Draftable(c) == Faceted(c) /\ Normal(c.assetPolicy) /\ DraftFits(c)

\* a model's answer, completed
LEMMA AnswerFacts ==
  ASSUME NEW a \in Answers, NEW c, c = CompletedAnswer(a), DraftFits(c)
  PROVE  Draftable(c)
<1>. DEFINE k == IF "spring" \in ToSet(a.keywords) THEN a.keywords
                 ELSE FirstFive(<<"spring">> \o a.keywords)
<1>1. a.keywords \in Seq(Vocabulary) /\ a.assetPolicy \in AssetPolicies
  BY DEF Answers
<1>2. k \in Seq(Vocabulary)
  <2>1. "spring" \in Vocabulary
    BY DEF Vocabulary
  <2>2. <<"spring">> \o a.keywords \in Seq(Vocabulary)
    BY <1>1, <2>1, PutFirst
  <2>3. FirstFive(<<"spring">> \o a.keywords) \in Seq(Vocabulary)
    BY <2>2, FirstFiveFacts
  <2>. QED
    BY <1>1, <2>3
<1>3. Normal(NormalizePolicy(a.assetPolicy))
  BY <1>1, NormalizedIsNormal
<1>4. /\ c.assetPolicy = NormalizePolicy(a.assetPolicy) /\ c.keywords = k
      /\ c.goalSummary = a.goalSummary /\ c.domain = a.domain /\ c.audience = a.audience
      /\ c.campaignGoal = a.campaignGoal /\ c.templateKind = a.templateKind
      /\ c.layoutIntent = a.layoutIntent /\ c.seasonality = a.seasonality
      /\ c.menuType = a.menuType /\ c.style = a.style /\ c.specificity = a.specificity
  BY DEF CompletedAnswer, Answers
<1>. HIDE DEF k
<1>5. /\ a.goalSummary \in Texts /\ a.domain \in Domains /\ a.audience \in Audiences
      /\ a.campaignGoal \in Goals /\ a.templateKind \in Kinds
      /\ a.layoutIntent \in LayoutIntents /\ a.seasonality \in {None, "spring"}
      /\ a.menuType \in MenuTypes /\ a.style \in Styles /\ a.specificity \in Specificities
  BY DEF Answers
<1>. QED
  BY <1>2, <1>3, <1>4, <1>5 DEF Draftable, Faceted



-------------------------------------------------------------------------------
(* The repair *)

\* What a normalized intent is, whatever was drafted.
Repaired(i) ==
  /\ Faceted(i) /\ Settled(i.assetPolicy)
  /\ Elems(i.keywords) \subseteq Normalized /\ Len(i.keywords) \in 1 .. 5
  /\ i.domain = "fashion_retail" =>
       /\ i.menuType = None /\ i.style # "seasonal_menu_launch"
       /\ i.campaignGoal # "menu_discovery"
       /\ Elems(i.keywords) \cap FashionBlockedKeywords = {}

\* What it is besides for a generic promo.
Subjectless(i) ==
  /\ i.domain = "general_marketing" /\ i.menuType = None
  /\ i.style # "seasonal_menu_launch"
  /\ i.assetPolicy.primary = "graphic_preferred"
  /\ Elems(i.keywords) \cap PromoBlockedKeywords = {}

\* The repair of a draft, whatever the planner that made it.
LEMMA RepairFacts ==
  ASSUME NEW prompt \in Texts, NEW c, Draftable(c), NEW s, s = Signals(prompt.words),
         NEW h, h = HeuristicDraft(prompt),
         NEW i, i = Repair(s, PromoFocus(s, c), c, h, prompt)
  PROVE  /\ Repaired(i) /\ Exists(i)
         /\ PromoFocus(s, c) => Subjectless(i)
<1>. DEFINE promo == PromoFocus(s, c)
            domain == RepairedDomain(s, promo, c.domain)
            menuType == RepairedMenuType(s, promo, domain, c.menuType)
            style == RepairedStyle(s, domain, menuType, h.style)
            blocked == Blocked(promo, domain)
            extra == IF promo THEN <<>> ELSE MenuWords[menuType]
            k == NormalizedKeywords(c.keywords, h.keywords, extra, blocked)
            policy == RepairedPolicy(promo, c.assetPolicy)
            summary == RepairedSummary(promo, domain, c.goalSummary, prompt)
<1>1. i = IntentOf(s, promo, domain, menuType, style, c, h, prompt)
  BY DEF Repair
<1>2. /\ Faceted(h) /\ "spring" \in Elems(h.keywords)
      /\ h.style = InferStyle(prompt.words, s, DomainOr(ExplicitDomain(s), "general_marketing"))
  BY HeuristicFacts
<1>3. /\ c.goalSummary \in Texts /\ c.domain \in Domains /\ c.layoutIntent \in LayoutIntents
      /\ c.menuType \in MenuTypes /\ c.seasonality \in {None, "spring"}
      /\ c.keywords \in Seq(Vocabulary) /\ Normal(c.assetPolicy)
  BY DEF Draftable, Faceted
<1>4. h.keywords \in Seq(Vocabulary) /\ h.style \in Styles
  BY <1>2 DEF Faceted
<1>5. promo => /\ ~s.restaurant /\ ~s.cafe /\ ~s.fashion /\ ~s.newness
  BY DEF PromoFocus
<1>. HIDE DEF promo
<1>6. domain \in Domains /\ (promo => domain = "general_marketing")
  BY <1>3, <1>5 DEF RepairedDomain, DomainOr, ExplicitDomain, Domains, None
<1>7. blocked = (IF domain = "fashion_retail" THEN FashionBlockedKeywords ELSE {})
                  \cup (IF promo THEN PromoBlockedKeywords ELSE {})
  BY DEF Blocked
<1>. HIDE DEF domain, blocked
<1>8. menuType \in MenuTypes /\ (promo \/ domain = "fashion_retail" => menuType = None)
  BY <1>3 DEF RepairedMenuType, ExpectedMenuType, MenuTypes, None
<1>. HIDE DEF menuType
<1>9. style \in Styles
  BY <1>4 DEF RepairedStyle, Styles
<1>10. promo \/ domain = "fashion_retail" => style # "seasonal_menu_launch"
  <2>1. ~s.newness => h.style # "seasonal_menu_launch"
    BY <1>2 DEF InferStyle
  <2>. QED
    BY <1>8, <2>1 DEF RepairedStyle
<1>. HIDE DEF style
<1>11. extra \in Seq(Vocabulary)
  BY <1>8, TableWords
<1>. HIDE DEF extra
<1>12. "spring" \notin blocked
  BY <1>7 DEF FashionBlockedKeywords, PromoBlockedKeywords, MenuDrivenKeywords
<1>13. /\ k \in Seq(Vocabulary) /\ Len(k) \in 1 .. 5
       /\ Elems(k) \subseteq Normalized /\ Elems(k) \cap blocked = {}
  <2>. DEFINE raw == c.keywords
              heuristic == h.keywords
  <2>1. /\ raw \in Seq(Vocabulary) /\ heuristic \in Seq(Vocabulary)
        /\ "spring" \in Elems(heuristic) /\ "spring" \notin blocked
        /\ k = NormalizedKeywords(raw, heuristic, extra, blocked)
    BY <1>2, <1>3, <1>4, <1>12
  <2>. HIDE DEF raw, heuristic, k
  <2>2. k \in Seq(Vocabulary) /\ Len(k) \in 1 .. 5
    BY <1>11, <2>1, KeywordFacts
  <2>3. Elems(k) \subseteq Normalized /\ Elems(k) \cap blocked = {}
    BY <1>11, <2>1, KeywordFacts
  <2>. QED
    BY <2>2, <2>3
<1>. HIDE DEF k
<1>14. Settled(policy) /\ (promo => policy.primary = "graphic_preferred")
  <2>1. Settled(GraphicFirst) /\ GraphicFirst.primary = "graphic_preferred"
    BY DefaultFacts DEF DefaultPolicies, VisualPolicies
  <2>2. Settled(NormalizePolicy(c.assetPolicy))
    BY <1>3, TwiceIsSettled
  <2>. QED
    BY <2>1, <2>2 DEF RepairedPolicy
<1>. HIDE DEF policy
<1>15. summary \in Texts
  BY <1>3 DEF RepairedSummary
<1>. HIDE DEF summary
<1>16. /\ i.goalSummary = summary /\ i.domain = domain /\ i.audience = Audience[domain]
       /\ i.campaignGoal = CampaignGoal[style] /\ i.templateKind = KindOf(style)
       /\ i.layoutIntent = (IF s.badge THEN "badge_led" ELSE c.layoutIntent)
       /\ i.assetPolicy = policy /\ i.keywords = k
       /\ i.seasonality = (IF s.spring THEN "spring" ELSE c.seasonality)
       /\ i.menuType = menuType /\ i.style = style
       /\ i.specificity = SpecificityOf(style, menuType)
  BY <1>1 DEF IntentOf, summary, policy, k, extra, blocked
<1>17. Faceted(i)
  BY <1>3, <1>6, <1>8, <1>9, <1>13, <1>15, <1>16, TableFacts DEF Faceted, LayoutIntents
<1>18. i.domain = "fashion_retail" =>
         /\ i.menuType = None /\ i.style # "seasonal_menu_launch"
         /\ i.campaignGoal # "menu_discovery"
         /\ Elems(i.keywords) \cap FashionBlockedKeywords = {}
  BY <1>7, <1>8, <1>9, <1>10, <1>13, <1>16, TableFacts
<1>19. Repaired(i)
  BY <1>13, <1>14, <1>16, <1>17, <1>18 DEF Repaired
<1>20. promo => Subjectless(i)
  BY <1>6, <1>7, <1>8, <1>10, <1>13, <1>14, <1>16 DEF Subjectless
<1>21. Exists(i)
  BY <1>1 DEF IntentOf, Exists, Nothing
<1>. QED
  BY <1>19, <1>20, <1>21 DEF promo

\* the intent of a request that is no create_template
LEMMA DefaultIntentFacts ==
  ASSUME NEW prompt \in Texts, NEW spring, NEW i, i = DefaultIntent(prompt, spring)
  PROVE  Repaired(i) /\ Exists(i)
<1>1. /\ i.goalSummary = prompt /\ i.domain = "general_marketing"
      /\ i.audience = "general_consumers" /\ i.campaignGoal = "promotion_awareness"
      /\ i.templateKind = "promo_banner" /\ i.layoutIntent = "copy_focused"
      /\ i.assetPolicy = GraphicFirst /\ i.keywords = <<"spring">>
      /\ i.seasonality \in {None, "spring"} /\ i.menuType = None
      /\ i.style = "general_campaign" /\ i.specificity = "multi_item"
  BY DEF DefaultIntent
<1>2. Settled(GraphicFirst)
  BY DefaultFacts DEF DefaultPolicies, VisualPolicies
<1>3. "spring" \in Vocabulary /\ "spring" \in Normalized
  BY DEF Vocabulary, Normalized
<1>4. /\ <<"spring">> \in Seq(Vocabulary) /\ Len(<<"spring">>) = 1
      /\ Elems(<<"spring">>) = {"spring"}
  BY <1>3 DEF Elems
<1>5. Faceted(i)
  BY <1>1, <1>4 DEF Faceted, Domains, Audiences, Styles, Goals, Kinds, LayoutIntents, MenuTypes,
                    Specificities
<1>6. Exists(i)
  BY DEF DefaultIntent, Exists, Nothing
<1>. QED
  BY <1>1, <1>2, <1>3, <1>4, <1>5, <1>6 DEF Repaired

-------------------------------------------------------------------------------
(* The search *)

\* a keyword of a query, or none
Words == Vocabulary \cup {None}

\* no word is the absent one
LEMMA NoneIsNoWord == None \notin Vocabulary
BY DEF None, Vocabulary

\* the first keyword of a table, if any
LEMMA FirstFacts ==
  ASSUME NEW k \in Seq(Vocabulary), NEW table
  PROVE  First(k, table) \in (Elems(k) \cap table) \cup {None}
<1>. DEFINE hits == Kept(k, table)
<1>1. hits \in Seq(Vocabulary) /\ Elems(hits) = Elems(k) \cap table
  BY KeptFacts
<1>2. First(k, table) = IF hits = <<>> THEN None ELSE hits[1]
  BY DEF First
<1>. HIDE DEF hits
<1>. QED
  BY <1>1, <1>2, HasFirst

\* the leading keyword, if any
LEMMA FirstKeywordFacts ==
  ASSUME NEW i, i.keywords \in Seq(Vocabulary)
  PROVE  /\ FirstKeyword(i) \in Elems(i.keywords) \cup {None}
         /\ Elems(i.keywords) \subseteq Vocabulary
BY HasFirst DEF FirstKeyword

\* a candidate of the prior that is a keyword, if any
LEMMA PriorOfFacts ==
  ASSUME NEW i, i.keywords \in Seq(Vocabulary), NEW candidates \in Seq(Vocabulary)
  PROVE  PriorOf(i, candidates) \in (Elems(candidates) \cap Elems(i.keywords)) \cup {None}
<1>1. ToSet(i.keywords) = Elems(i.keywords)
  BY SameElements
<1>. QED
  BY <1>1, FirstFacts DEF PriorOf

\* The keyword of the prior is a word; for a generic promo it is a keyword of the
\* intent, "spring" or "sale".
LEMMA PriorFacts ==
  ASSUME NEW i, Faceted(i), NEW q, q = PriorKeyword(i)
  PROVE  /\ q \in Words
         /\ i.domain = "general_marketing" /\ i.menuType = None =>
              q \in Elems(i.keywords) \cup {"spring", "sale", None}
<1>1. i.keywords \in Seq(Vocabulary)
  BY DEF Faceted
<1>2. \A a \in Vocabulary : <<a>> \in Seq(Vocabulary)
  OBVIOUS
<1>3. \A a, b \in Vocabulary : <<a, b>> \in Seq(Vocabulary)
  OBVIOUS
<1>4. \A a, b, c \in Vocabulary : <<a, b, c>> \in Seq(Vocabulary)
  OBVIOUS
<1>5. {"spring", "sale", "coupon", "new-menu", "drink", "latte", "menu", "brunch", "promotion",
       "event", "fashion"} \subseteq Vocabulary
  BY DEF Vocabulary
<1>6. ASSUME NEW candidates \in Seq(Vocabulary)
      PROVE  PriorOf(i, candidates) \in Elems(i.keywords) \cup {None}
  BY <1>1, PriorOfFacts
<1>7. FirstKeyword(i) \in Elems(i.keywords) \cup {None} /\ Elems(i.keywords) \subseteq Vocabulary
  BY <1>1, FirstKeywordFacts
<1>8. SaleWord(i) \in Elems(i.keywords) \cup {"sale"}
  <2>1. PriorOf(i, <<"sale", "coupon">>) \in Elems(i.keywords) \cup {None}
    BY <1>3, <1>5, <1>6
  <2>. QED
    BY <2>1 DEF SaleWord, Or
<1>9. DrinkWord(i) \in Vocabulary
  <2>1. PriorOf(i, <<"new-menu", "drink", "latte">>) \in Elems(i.keywords) \cup {None}
    BY <1>4, <1>5, <1>6
  <2>. QED
    BY <1>5, <1>7, <2>1 DEF DrinkWord, Or
<1>10. FoodWord(i) \in Vocabulary
  <2>1. PriorOf(i, <<"new-menu", "menu", "brunch">>) \in Elems(i.keywords) \cup {None}
    BY <1>4, <1>5, <1>6
  <2>. QED
    BY <1>5, <1>7, <2>1 DEF FoodWord, Or
<1>11. /\ PriorOf(i, <<"promotion", "event">>) \in Elems(i.keywords) \cup {None}
       /\ PriorOf(i, <<"fashion">>) \in Elems(i.keywords) \cup {None}
  BY <1>2, <1>3, <1>5, <1>6
<1>12. q \in Words
  BY <1>5, <1>7, <1>8, <1>9, <1>10, <1>11 DEF PriorKeyword, Or, Words
<1>13. i.domain = "general_marketing" /\ i.menuType = None =>
         q \in Elems(i.keywords) \cup {"spring", "sale", None}
  BY <1>7, <1>8, <1>11 DEF PriorKeyword, Or, None
<1>. QED
  BY <1>12, <1>13

\* What a fashion intent's first queries are about: a sale, a launch, or fashion.
FashionSearch == {"sale", "coupon", "promotion", "new-item", "launch", "launching"}

\* promotion and subject keywords are words
LEMMA KeywordsAreWords ==
  ASSUME NEW i, Faceted(i), NEW contradiction \in BOOLEAN
  PROVE  PromotionKeyword(i, contradiction) \in Words /\ SubjectKeyword(i, contradiction) \in Words
<1>1. i.keywords \in Seq(Vocabulary) /\ i.style \in Styles
  BY DEF Faceted
<1>2. \A table : First(i.keywords, table) \in Words
  BY <1>1, FirstFacts, HasFirst DEF Words
<1>3. {"sale", "promotion", "new-menu", "fashion", "menu", "drink"} \subseteq Words /\ None \in Words
  BY DEF Vocabulary, Words
<1>4. \A a, b \in Words : Or(a, b) \in Words
  BY DEF Or
<1>5. PromotionKeyword(i, contradiction) \in Words
  BY <1>1, <1>2, <1>3, <1>4 DEF PromotionKeyword, Styles
<1>6. SubjectKeyword(i, contradiction) \in Words
  BY <1>2, <1>3, <1>4 DEF SubjectKeyword
<1>. QED
  BY <1>5, <1>6

\* those of a fashion intent
LEMMA FashionKeywords ==
  ASSUME NEW i, Repaired(i), i.domain = "fashion_retail", NEW contradiction \in BOOLEAN
  PROVE  /\ PromotionKeyword(i, contradiction) \in FashionSearch \cup {None}
         /\ SubjectKeyword(i, contradiction) \in FashionWords
<1>1. /\ i.keywords \in Seq(Vocabulary) /\ i.style \in Styles /\ i.menuType = None
      /\ i.style # "seasonal_menu_launch" /\ ~GenericPromo(i)
  BY DEF Repaired, Faceted, GenericPromo
<1>2. \A table : First(i.keywords, table) \in table \cup {None}
  BY <1>1, FirstFacts
<1>3. PromotionKeyword(i, contradiction) \in FashionSearch \cup {None}
  BY <1>1, <1>2 DEF PromotionKeyword, Styles, Or, FashionSearch
<1>4. SubjectKeyword(i, contradiction) \in FashionWords
  BY <1>1, <1>2 DEF SubjectKeyword, Or, FashionWords, None
<1>. QED
  BY <1>3, <1>4

\* those of a generic promo: its keywords, or "promotion"
LEMMA PromoKeywords ==
  ASSUME NEW i, Repaired(i), Subjectless(i)
  PROVE  /\ PromotionKeyword(i, FALSE) \in Elems(i.keywords) \cup {"promotion", None}
         /\ SubjectKeyword(i, FALSE) \in Elems(i.keywords) \cup {None}
<1>1. /\ i.keywords \in Seq(Vocabulary) /\ i.style \in Styles /\ i.menuType = None
      /\ i.style # "seasonal_menu_launch" /\ i.domain = "general_marketing"
      /\ GenericPromo(i) <=> i.style \in {"sale_campaign", "general_campaign"}
  BY DEF Repaired, Faceted, Subjectless, GenericPromo
<1>2. \A table : First(i.keywords, table) \in Elems(i.keywords) \cup {None}
  BY <1>1, FirstFacts
<1>3. PromotionKeyword(i, FALSE) \in Elems(i.keywords) \cup {"promotion", None}
  BY <1>1, <1>2 DEF PromotionKeyword, Styles, Or
<1>4. SubjectKeyword(i, FALSE) \in Elems(i.keywords) \cup {None}
  BY <1>1, <1>2 DEF SubjectKeyword, None
<1>. QED
  BY <1>3, <1>4

Labels ==
  {"shape_primary_keyword", "shape_primary_type_repair", "shape_template_prior_support",
   "shape_subject_fallback", "shape_seasonal_fallback"}
Types == {"bitmap", "vector"}
Queries(words) == [label : Labels, keyword : words, type : Types]

\* the types a graphic ladder asks for
LEMMA TypeLists ==
  ASSUME NEW types \in {<<"bitmap", "vector">>, <<"bitmap">>, <<"vector", "bitmap">>, <<"vector">>}
  PROVE  types \in Seq(Types) /\ types # <<>>
<1>1. /\ <<"bitmap">> \in Seq(Types) /\ <<"vector">> \in Seq(Types)
      /\ <<"bitmap", "vector">> \in Seq(Types) /\ <<"vector", "bitmap">> \in Seq(Types)
  BY DEF Types
<1>2. \A l \in {<<"bitmap">>, <<"vector">>, <<"bitmap", "vector">>, <<"vector", "bitmap">>} :
        l \in Seq(Types)
  BY <1>1, Zenon
<1>3. types # <<>>
  OBVIOUS
<1>. QED
  BY <1>2, <1>3, Zenon

\* what a ladder asks for first
Leads(word, queries) == queries # <<>> /\ queries[1].keyword = word

\* A graphic ladder asks for nothing but its four keywords, the primary one first.
LEMMA ShapeQueryFacts ==
  ASSUME NEW types \in Seq(Types), types # <<>>, NEW words, NEW primary \in words, NEW second \in words, NEW third \in words,
         NEW last \in words,
         NEW l, l = ShapeQueries(types, primary, second, third, last)
  PROVE  l \in Seq(Queries(words)) /\ Len(l) \in Nat /\ Leads(primary, l)
<1>. DEFINE D == Queries(words)
            first == [n \in DOMAIN types |->
                        Query(IF n = 1 THEN "shape_primary_keyword" ELSE "shape_primary_type_repair",
                              primary, types[n])]
            rest == <<Query("shape_template_prior_support", second, types[1]),
                      Query("shape_subject_fallback", third, types[1]),
                      Query("shape_seasonal_fallback", last, types[1])>>
            all == first \o rest
            P == {n \in DOMAIN all : \A j \in 1 .. (n - 1) : \/ all[j].keyword # all[n].keyword
                                                            \/ all[j].type # all[n].type}
<1>1. types \in Seq(Types) /\ types # <<>> /\ Len(types) \in Nat /\ types[1] \in Types
  OBVIOUS
<1>2. \A label \in Labels, word \in words, type \in Types : Query(label, word, type) \in D
  BY DEF Query, Queries
<1>3. first \in Seq(D) /\ first # <<>> /\ first[1].keyword = primary
  <2>1. \A n \in 1 .. Len(types) : types[n] \in Types
    BY <1>1
  <2>2. DOMAIN types = 1 .. Len(types) /\ 1 \in DOMAIN types
    BY <1>1
  <2>3. \A n \in 1 .. Len(types) : first[n] \in D
    <3>1. ASSUME NEW n \in 1 .. Len(types)
          PROVE  /\ (IF n = 1 THEN "shape_primary_keyword" ELSE "shape_primary_type_repair")
                      \in Labels
                 /\ types[n] \in Types
      BY <2>1 DEF Labels
    <3>. QED
      BY <1>2, <2>2, <3>1
  <2>4. first[1].keyword = primary
    BY <2>2 DEF Query
  <2>5. first \in [1 .. Len(types) -> D]
    BY <2>2, <2>3
  <2>. HIDE DEF first, D
  <2>6. first \in Seq(D) /\ Len(first) = Len(types)
    BY <1>1, <2>5
  <2>7. Len(types) # 0
    BY <1>1
  <2>. QED
    BY <2>4, <2>6, <2>7
<1>4. rest \in Seq(D)
  <2>1. /\ Query("shape_template_prior_support", second, types[1]) \in D
        /\ Query("shape_subject_fallback", third, types[1]) \in D
        /\ Query("shape_seasonal_fallback", last, types[1]) \in D
    BY <1>1, <1>2 DEF Labels
  <2>2. \A a, b, c \in D : <<a, b, c>> \in Seq(D)
    OBVIOUS
  <2>. HIDE DEF D
  <2>. QED
    BY <2>1, <2>2
<1>. HIDE DEF first, rest, D
<1>5. all \in Seq(D) /\ all # <<>> /\ all[1] = first[1]
  BY <1>3, <1>4, JoinedFacts
<1>6. l = Picked(all, P)
  BY DEF ShapeQueries, DistinctQueries, all, first, rest
<1>. HIDE DEF all
<1>7. P \in SUBSET (1 .. Len(all)) /\ 1 \in P
  BY <1>5
<1>. HIDE DEF P
<1>8. Picked(all, P) \in Seq(D) /\ Len(Picked(all, P)) >= 1 /\ Picked(all, P)[1] = all[1]
  BY <1>5, <1>7, PickedFacts, FirstPicked
<1>9. l \in Seq(D) /\ l[1] = first[1] /\ Len(l) >= 1 /\ Len(l) \in Nat
  BY <1>5, <1>6, <1>8
<1>10. l # <<>>
  BY <1>9
<1>. QED
  BY <1>3, <1>9, <1>10 DEF D, Leads

\* a picture lane, which has three queries or none
LEMMA PhotoLaneFacts ==
  ASSUME NEW i, Settled(i.assetPolicy), NEW keyword, NEW seasonal,
         NEW l, l = PhotoLane(i, keyword, seasonal)
  PROVE  /\ Len(l) \in Nat
         /\ l # <<>> => /\ l[1].keyword = keyword
                        /\ "photo" \in ToSet(i.assetPolicy.allowed)
<1>1. NormalizePolicy(i.assetPolicy) = i.assetPolicy
  BY SettledStays
<1>2. CASE AllowsFamily(i.assetPolicy, "photo")
  <2>1. l = PhotoQueries(keyword, seasonal, PhotoType(i))
    BY <1>2 DEF PhotoLane
  <2>2. Len(l) = 3 /\ l[1] = Query("photo_primary_keyword", keyword, PhotoType(i))
    BY <2>1 DEF PhotoQueries
  <2>3. "photo" \in ToSet(i.assetPolicy.allowed)
    BY <1>1, <1>2 DEF AllowsFamily
  <2>4. Len(l) \in Nat
    BY <2>2
  <2>. QED
    BY <2>2, <2>3, <2>4 DEF Query
<1>3. CASE ~AllowsFamily(i.assetPolicy, "photo")
  <2>1. l = <<>>
    BY <1>3 DEF PhotoLane
  <2>. QED
    BY <2>1
<1>. QED
  BY <1>2, <1>3

\* What a search profile is, for any flags and any word of the prior.
LEMMA ProfileFacts ==
  ASSUME NEW i, Repaired(i), NEW flags, NEW q \in Words,
         NEW f, f = SearchProfile(i, flags, q)
  PROVE  /\ Exists(f) /\ Len(f.graphic) \in Nat /\ Len(f.photo) \in Nat
         /\ ContractMismatches(i, f) = {}
         /\ f.photo # <<>> => "photo" \in ToSet(i.assetPolicy.allowed)
         /\ i.domain = "fashion_retail" =>
              \A queries \in {f.graphic, f.photo} :
                queries # <<>> => queries[1].keyword \notin MenuSignal
         /\ Subjectless(i) /\ q \in Elems(i.keywords) \cup {"spring", "sale", None} =>
              Keywords(f.graphic) \cap PromoBlockedKeywords = {}
<1>. DEFINE contradiction == RetailContradiction(i, flags)
            promotion == PromotionKeyword(i, contradiction)
            subject == SubjectKeyword(i, contradiction)
            season == IF i.seasonality = "spring" THEN "spring" ELSE None
            types == ShapeTypes(i, SignalWords(i))
            first == FirstKeyword(i)
            background == Or(season, Or(promotion, Or(subject, Or(q, first))))
            primary == Or(promotion, Or(subject, Or(q, Or(season, first))))
            seasonal == Or(season, first)
            picture == PhotoKeyword(i, contradiction, promotion, subject, season, Or(q, background))
            carried == [field \in DOMAIN i \ {"goalSummary", "assetPolicy"} |-> i[field]]
<1>1. f = ProfileWith(i, contradiction, promotion, subject, q, season, SignalWords(i))
  BY DEF SearchProfile
<1>2. /\ f.carried = carried /\ f.assetPolicy = NormalizePolicy(i.assetPolicy)
      /\ f.graphic = ShapeQueries(types, primary, q, subject, seasonal)
      /\ f.photo = PhotoLane(i, picture, seasonal)
      /\ Exists(f)
  <2>. HIDE DEF contradiction, promotion, subject, season
  <2>. QED
    BY <1>1 DEF ProfileWith, Exists, Nothing
<1>3. Faceted(i) /\ Settled(i.assetPolicy) /\ i.keywords \in Seq(Vocabulary)
  BY DEF Repaired, Faceted
<1>4. contradiction \in BOOLEAN
  BY DEF RetailContradiction
<1>5. types \in {<<"bitmap", "vector">>, <<"bitmap">>, <<"vector", "bitmap">>, <<"vector">>}
  BY DEF ShapeTypes
<1>21. types \in Seq(Types) /\ types # <<>>
  <2>. HIDE DEF types
  <2>. QED
    BY <1>5, TypeLists
<1>6. promotion \in Words /\ subject \in Words
  <2>. HIDE DEF contradiction
  <2>. QED
    BY <1>3, <1>4, KeywordsAreWords
<1>7. first \in Elems(i.keywords) \cup {None} /\ Elems(i.keywords) \subseteq Vocabulary
  BY <1>3, FirstKeywordFacts
<1>8. season \in {"spring", None} /\ "spring" \in Vocabulary /\ None \in Words
      /\ Vocabulary \subseteq Words
  BY DEF Vocabulary, Words
<1>9. i.domain = "fashion_retail" =>
        promotion \in FashionSearch \cup {None} /\ subject \in FashionWords
  <2>. HIDE DEF contradiction
  <2>. QED
    BY <1>4, FashionKeywords
<1>10. Subjectless(i) => /\ promotion \in Elems(i.keywords) \cup {"promotion", None}
                         /\ subject \in Elems(i.keywords) \cup {None}
  <2>1. SUFFICES ASSUME Subjectless(i)
                 PROVE  /\ promotion \in Elems(i.keywords) \cup {"promotion", None}
                        /\ subject \in Elems(i.keywords) \cup {None}
    OBVIOUS
  <2>2. contradiction = FALSE
    BY <2>1 DEF RetailContradiction, Subjectless
  <2>. HIDE DEF contradiction
  <2>. QED
    BY <2>1, <2>2, PromoKeywords
<1>11. i.domain = "fashion_retail" => picture \in FashionSearch \cup FashionWords
  <2>1. SUFFICES ASSUME i.domain = "fashion_retail"
                 PROVE  picture \in FashionSearch \cup FashionWords
    OBVIOUS
  <2>2. ~GenericPromo(i)
    BY <2>1 DEF GenericPromo
  <2>3. None \notin FashionSearch \cup FashionWords
    BY DEF None, FashionSearch, FashionWords
  <2>. HIDE DEF contradiction, promotion, subject, season, background
  <2>. QED
    BY <1>9, <2>1, <2>2, <2>3 DEF PhotoKeyword, Or
<1>. HIDE DEF contradiction, promotion, subject, season, types, first, picture
<1>12. primary \in Words /\ seasonal \in Words
  BY <1>6, <1>7, <1>8 DEF Or
<1>13. i.domain = "fashion_retail" => primary \in FashionSearch \cup FashionWords
  BY <1>9 DEF Or, None, FashionWords
<1>14. Subjectless(i) /\ q \in Elems(i.keywords) \cup {"spring", "sale", None} =>
         {primary, q, subject, seasonal}
           \subseteq Elems(i.keywords) \cup {"spring", "sale", "promotion", None}
  BY <1>7, <1>8, <1>10 DEF Or
<1>. HIDE DEF primary, seasonal
<1>15. /\ Len(f.graphic) \in Nat /\ f.graphic # <<>> /\ f.graphic[1].keyword = primary
       /\ f.graphic \in Seq(Queries({primary, q, subject, seasonal}))
  <2>. DEFINE words == {primary, q, subject, seasonal}
              l == f.graphic
  <2>1. /\ primary \in words /\ q \in words /\ subject \in words /\ seasonal \in words
        /\ l = ShapeQueries(types, primary, q, subject, seasonal)
    BY <1>2
  <2>. HIDE DEF words, l
  <2>2. l \in Seq(Queries(words)) /\ Len(l) \in Nat /\ Leads(primary, l)
    BY <1>21, <2>1, ShapeQueryFacts
  <2>. QED
    BY <2>2 DEF words, l, Leads
<1>16. /\ Len(f.photo) \in Nat
       /\ f.photo # <<>> => /\ f.photo[1].keyword = picture
                            /\ "photo" \in ToSet(i.assetPolicy.allowed)
  <2>. DEFINE l == f.photo
  <2>1. l = PhotoLane(i, picture, seasonal)
    BY <1>2
  <2>. HIDE DEF l
  <2>2. /\ Len(l) \in Nat
        /\ l # <<>> => l[1].keyword = picture /\ "photo" \in ToSet(i.assetPolicy.allowed)
    BY <1>3, <2>1, PhotoLaneFacts
  <2>. QED
    BY <2>2 DEF l
<1>17. (FashionSearch \cup FashionWords) \cap MenuSignal = {}
  BY DEF FashionSearch, FashionWords, MenuSignal, MenuStem
<1>18. i.domain = "fashion_retail" =>
         \A queries \in {f.graphic, f.photo} :
           queries # <<>> => queries[1].keyword \notin MenuSignal
  BY <1>11, <1>13, <1>15, <1>16, <1>17
<1>19. ContractMismatches(i, f) = {}
  <2>1. NormalizePolicy(i.assetPolicy) = i.assetPolicy
    BY <1>3, SettledStays
  <2>2. \A field \in DOMAIN f.carried : f.carried[field] = i[field]
    BY <1>2
  <2>. QED
    BY <1>2, <2>1, <2>2 DEF ContractMismatches
<1>20. ASSUME Subjectless(i), q \in Elems(i.keywords) \cup {"spring", "sale", None}
       PROVE  Keywords(f.graphic) \cap PromoBlockedKeywords = {}
  <2>1. \A n \in DOMAIN f.graphic : f.graphic[n].keyword \in {primary, q, subject, seasonal}
    <3>. DEFINE words == {primary, q, subject, seasonal}
                l == f.graphic
    <3>1. l \in Seq(Queries(words))
      BY <1>15
    <3>. HIDE DEF words, l
    <3>2. \A n \in DOMAIN l : l[n] \in Queries(words)
      BY <3>1
    <3>3. \A n \in DOMAIN l : l[n].keyword \in words
      BY <3>2 DEF Queries
    <3>. QED
      BY <3>3 DEF words, l
  <2>2. Keywords(f.graphic) \subseteq Elems(i.keywords) \cup {"spring", "sale", "promotion"}
    BY <1>14, <1>20, <2>1 DEF Keywords
  <2>3. Elems(i.keywords) \cap PromoBlockedKeywords = {}
    BY <1>20 DEF Subjectless
  <2>4. {"spring", "sale", "promotion"} \cap PromoBlockedKeywords = {}
    BY DEF PromoBlockedKeywords, FashionBlockedKeywords, MenuDrivenKeywords
  <2>. QED
    BY <2>2, <2>3, <2>4
<1>. QED
  BY <1>2, <1>15, <1>16, <1>18, <1>19, <1>20

-------------------------------------------------------------------------------
(* The inductive invariant *)

\* The artifacts appear in the order of the nodes, each before the node that reads it.
Control ==
  /\ node \in {"plan_intent_draft", "normalize_intent", "gate_scope",
               "build_template_prior_summary", "build_search_profile",
               "assemble_candidates", "select_composition", "failed"}
  /\ failure \in {None, "planner_draft_invalid", "unsupported", "catalogue_error",
                  "graphic_candidates_empty"}
  /\ (node = "failed") = (failure # None)
  /\ node = "plan_intent_draft" => draft = Nothing
  /\ node \in {"plan_intent_draft", "normalize_intent"} => intent = Nothing
  /\ node \in {"gate_scope", "build_template_prior_summary", "build_search_profile"} =>
       Exists(intent)
  /\ node \in {"plan_intent_draft", "normalize_intent", "gate_scope",
               "build_template_prior_summary"} => prior = Nothing
  /\ node = "build_search_profile" => Exists(prior)
  /\ node \in {"plan_intent_draft", "normalize_intent", "gate_scope",
               "build_template_prior_summary", "build_search_profile"} => profile = Nothing
  /\ Exists(prior) => Exists(intent)
  /\ Exists(profile) => Exists(prior)

DraftPart == Exists(draft) => Draftable(draft.content)

\* what the normalized intent is, of a draft or by default
IntentPart ==
  Exists(intent) =>
    /\ Repaired(intent)
    /\ Exists(draft) /\ PromoFocus(Signals(request.prompt.words), draft.content) =>
         Subjectless(intent)

\* the prior and the profile are those of the intent that the judge reads
PriorPart == Exists(prior) => prior.keyword = PriorKeyword(intent)
ProfilePart == Exists(profile) => profile = SearchProfile(intent, report.flags, prior.keyword)

\* nothing is asked without a profile, nor more than a ladder has
AttemptPart ==
  /\ attempts \in [Surfaces -> Seq({"hit", "empty", "error"})]
  /\ \A surface \in Surfaces :
       /\ attempts[surface] # <<>> => Exists(profile)
       /\ Exists(profile) => Len(attempts[surface]) <= Len(Ladder(surface))

FrontInv ==
  /\ request \in Requests
  /\ Control /\ DraftPart /\ IntentPart /\ PriorPart /\ ProfilePart /\ AttemptPart

\* Every state of a planned run: the profile's facts, from the intent it was built of.
LEMMA ProfileOfIntent ==
  ASSUME FrontInv, Exists(profile)
  PROVE  /\ Repaired(intent) /\ Exists(intent)
         /\ Len(profile.graphic) \in Nat /\ Len(profile.photo) \in Nat
         /\ ContractMismatches(intent, profile) = {}
         /\ profile.photo # <<>> => "photo" \in ToSet(intent.assetPolicy.allowed)
         /\ intent.domain = "fashion_retail" =>
              \A queries \in {profile.graphic, profile.photo} :
                queries # <<>> => queries[1].keyword \notin MenuSignal
         /\ Subjectless(intent) => Keywords(profile.graphic) \cap PromoBlockedKeywords = {}
<1>. DEFINE q == PriorKeyword(intent)
            flags == report.flags
<1>1. /\ Exists(intent) /\ Repaired(intent)
      /\ profile = SearchProfile(intent, flags, q)
  BY DEF FrontInv, Control, IntentPart, PriorPart, ProfilePart
<1>2. Faceted(intent)
  BY <1>1 DEF Repaired
<1>3. /\ q \in Words
      /\ intent.domain = "general_marketing" /\ intent.menuType = None =>
           q \in Elems(intent.keywords) \cup {"spring", "sale", None}
  BY <1>2, PriorFacts
<1>4. Subjectless(intent) => q \in Elems(intent.keywords) \cup {"spring", "sale", None}
  BY <1>3 DEF Subjectless
<1>. HIDE DEF q, flags
<1>5. /\ Len(profile.graphic) \in Nat /\ Len(profile.photo) \in Nat
      /\ ContractMismatches(intent, profile) = {}
      /\ profile.photo # <<>> => "photo" \in ToSet(intent.assetPolicy.allowed)
      /\ intent.domain = "fashion_retail" =>
           \A queries \in {profile.graphic, profile.photo} :
             queries # <<>> => queries[1].keyword \notin MenuSignal
      /\ Subjectless(intent) /\ q \in Elems(intent.keywords) \cup {"spring", "sale", None} =>
           Keywords(profile.graphic) \cap PromoBlockedKeywords = {}
  BY <1>1, <1>3, ProfileFacts
<1>. QED
  BY <1>1, <1>4, <1>5

\* the invariant is what the run may rely on
LEMMA LadderLength ==
  ASSUME FrontInv, Exists(profile), NEW surface \in Surfaces
  PROVE  Len(Ladder(surface)) \in Nat
<1>1. Len(profile.graphic) \in Nat /\ Len(profile.photo) \in Nat
  BY ProfileOfIntent
<1>2. Len(<<>>) \in Nat
  OBVIOUS
<1>. QED
  BY <1>1, <1>2 DEF Ladder

\* a request
LEMMA RequestFacts ==
  ASSUME FrontInv
  PROVE  /\ request.prompt \in Texts /\ request.answer \in Answers \cup {Nothing}
         /\ request \in Requests
BY RequestsAssumption DEF FrontInv

\* before the first node there is no artifact, and nothing was asked
LEMMA InitFront == Init => FrontInv
<1>. SUFFICES ASSUME Init PROVE FrontInv
  OBVIOUS
<1>1. /\ \A surface \in Surfaces : attempts[surface] = <<>>
      /\ attempts \in [Surfaces -> Seq({"hit", "empty", "error"})]
  BY DEF Init
<1>2. Control
  BY DEF Init, Control, Exists, None
<1>. QED
  BY <1>1, <1>2 DEF Init, FrontInv, DraftPart, IntentPart, PriorPart, ProfilePart, AttemptPart,
                    Exists

\* A step of the planner: the draft it leaves is one that the schema accepts.
LEMMA PlannerStep ==
  ASSUME FrontInv, SkipPlanner \/ PlanWithModel \/ PlanWithHeuristic
  PROVE  FrontInv'
<1>. USE DEF Goto, Fail
<1>1. /\ UNCHANGED <<request, intent, report, prior, profile, attempts>>
      /\ node = "plan_intent_draft" /\ node' \in {"normalize_intent", "failed"}
      /\ node' = "normalize_intent" => failure' = failure
      /\ node' = "failed" => failure' = "planner_draft_invalid" /\ draft' = draft
  BY DEF SkipPlanner, PlanWithModel, PlanWithHeuristic
<1>2. intent = Nothing /\ prior = Nothing /\ profile = Nothing /\ failure = None
      /\ draft = Nothing
  BY <1>1 DEF FrontInv, Control
<1>3. Control'
  BY <1>1, <1>2 DEF Control, Exists, None
<1>4. DraftPart'
  <2>1. CASE SkipPlanner
    BY <1>2, <2>1 DEF SkipPlanner, DraftPart, Exists
  <2>2. CASE PlanWithModel
    <3>. DEFINE c == CompletedAnswer(request.answer)
    <3>1. request.answer \in Answers /\ DraftFits(c)
      BY <2>2, RequestFacts DEF PlanWithModel, AnswerUsable
    <3>2. Draftable(c)
      BY <3>1, AnswerFacts
    <3>3. draft'.content = c
      BY <2>2 DEF PlanWithModel, Drafted
    <3>. QED
      BY <3>2, <3>3 DEF DraftPart
  <2>3. CASE PlanWithHeuristic
    <3>. DEFINE h == HeuristicDraft(request.prompt)
    <3>1. CASE DraftFits(h)
      <4>1. Faceted(h) /\ Settled(h.assetPolicy)
        BY RequestFacts, HeuristicFacts
      <4>2. Draftable(h)
        BY <3>1, <4>1 DEF Draftable, Settled
      <4>3. draft'.content = h
        BY <2>3, <3>1 DEF PlanWithHeuristic, Drafted
      <4>. QED
        BY <4>2, <4>3 DEF DraftPart
    <3>2. CASE ~DraftFits(h)
      BY <1>2, <2>3, <3>2 DEF PlanWithHeuristic, DraftPart, Exists
    <3>. QED
      BY <3>1, <3>2
  <2>. QED
    BY <2>1, <2>2, <2>3
<1>5. IntentPart' /\ PriorPart' /\ ProfilePart'
  BY <1>1, <1>2 DEF IntentPart, PriorPart, ProfilePart, Exists
<1>6. AttemptPart'
  BY <1>1, <1>2 DEF FrontInv, AttemptPart, Exists
<1>. QED
  BY <1>1, <1>3, <1>4, <1>5, <1>6 DEF FrontInv

\* The repair, or the defaults of a request that is no create_template.
LEMMA NormalizeStep ==
  ASSUME FrontInv, NormalizeDefaults \/ NormalizeDraft
  PROVE  FrontInv'
<1>. USE DEF Goto
<1>1. /\ UNCHANGED <<request, draft, prior, profile, attempts, failure>>
      /\ node = "normalize_intent" /\ node' = "gate_scope"
  BY DEF NormalizeDefaults, NormalizeDraft
<1>2. prior = Nothing /\ profile = Nothing /\ failure = None
  BY <1>1 DEF FrontInv, Control
<1>3. /\ Repaired(intent') /\ Exists(intent')
      /\ Exists(draft) /\ PromoFocus(Signals(request.prompt.words), draft.content) =>
           Subjectless(intent')
  <2>1. CASE NormalizeDefaults
    <3>1. draft = Nothing
      BY <2>1 DEF NormalizeDefaults
    <3>2. intent' = DefaultIntent(request.prompt, Signals(request.prompt.words).spring)
      BY <2>1 DEF NormalizeDefaults
    <3>3. Repaired(intent') /\ Exists(intent')
      BY <3>2, RequestFacts, DefaultIntentFacts
    <3>. QED
      BY <3>1, <3>3 DEF Exists
  <2>2. CASE NormalizeDraft
    <3>. DEFINE prompt == request.prompt
                c == draft.content
                s == Signals(prompt.words)
                h == HeuristicDraft(prompt)
                i == Repair(s, PromoFocus(s, c), c, h, prompt)
    <3>1. prompt \in Texts /\ Draftable(c) /\ intent' = i
      BY <2>2, RequestFacts DEF NormalizeDraft, FrontInv, DraftPart
    <3>2. s = Signals(prompt.words) /\ h = HeuristicDraft(prompt)
          /\ i = Repair(s, PromoFocus(s, c), c, h, prompt)
      OBVIOUS
    <3>. HIDE DEF prompt, c, s, h, i
    <3>3. Repaired(i) /\ Exists(i) /\ (PromoFocus(s, c) => Subjectless(i))
      BY <3>1, <3>2, RepairFacts
    <3>. QED
      BY <3>1, <3>3 DEF prompt, c, s
  <2>. QED
    BY <2>1, <2>2
<1>4. Control'
  BY <1>1, <1>2, <1>3 DEF FrontInv, Control, Exists
<1>5. DraftPart'
  BY <1>1 DEF FrontInv, DraftPart
<1>6. IntentPart'
  BY <1>1, <1>3 DEF IntentPart
<1>7. PriorPart' /\ ProfilePart'
  BY <1>1, <1>2 DEF PriorPart, ProfilePart, Exists
<1>8. AttemptPart'
  BY <1>1, <1>2 DEF FrontInv, AttemptPart, Exists
<1>. QED
  BY <1>1, <1>4, <1>5, <1>6, <1>7, <1>8 DEF FrontInv

\* the scope gate, which changes nothing but the node
LEMMA GateStep ==
  ASSUME FrontInv, GateScope
  PROVE  FrontInv'
<1>1. /\ UNCHANGED <<request, draft, intent, report, prior, profile, attempts>>
      /\ node = "gate_scope" /\ node' \in {"build_template_prior_summary", "failed"}
      /\ node' = "build_template_prior_summary" => failure' = failure
      /\ node' = "failed" => failure' = "unsupported"
  BY DEF GateScope, Goto, Fail
<1>2. Control'
  BY <1>1 DEF FrontInv, Control, Exists, None
<1>3. DraftPart' /\ IntentPart' /\ PriorPart' /\ ProfilePart'
  BY <1>1 DEF FrontInv, DraftPart, IntentPart, PriorPart, ProfilePart
<1>4. AttemptPart'
  BY <1>1 DEF FrontInv, AttemptPart, Ladder
<1>. QED
  BY <1>1, <1>2, <1>3, <1>4 DEF FrontInv

\* the prior is that of the intent
LEMMA PriorStep ==
  ASSUME FrontInv, BuildTemplatePrior
  PROVE  FrontInv'
<1>1. /\ UNCHANGED <<request, draft, intent, report, profile, attempts, failure>>
      /\ node = "build_template_prior_summary" /\ node' = "build_search_profile"
      /\ prior' = PriorSummary(intent, request.preset)
  BY DEF BuildTemplatePrior, Goto
<1>2. Exists(prior') /\ prior'.keyword = PriorKeyword(intent)
  BY <1>1 DEF PriorSummary, Exists, Nothing
<1>3. Control'
  BY <1>1, <1>2 DEF FrontInv, Control, Exists, None
<1>4. profile = Nothing
  BY <1>1 DEF FrontInv, Control
<1>5. DraftPart' /\ IntentPart' /\ PriorPart' /\ ProfilePart'
  BY <1>1, <1>2, <1>4 DEF FrontInv, DraftPart, IntentPart, PriorPart, ProfilePart, Exists
<1>6. AttemptPart'
  BY <1>1, <1>4 DEF FrontInv, AttemptPart, Exists
<1>. QED
  BY <1>1, <1>3, <1>5, <1>6 DEF FrontInv

\* the profile is that of the intent and the prior, and nothing was asked before it
LEMMA ProfileStep ==
  ASSUME FrontInv, BuildSearchProfile
  PROVE  FrontInv'
<1>1. /\ UNCHANGED <<request, draft, intent, report, prior, attempts, failure>>
      /\ node = "build_search_profile" /\ node' = "assemble_candidates"
      /\ profile' = SearchProfile(intent, report.flags, prior.keyword)
  BY DEF BuildSearchProfile, Goto
<1>2. profile = Nothing /\ Exists(prior) /\ Exists(intent)
  BY <1>1 DEF FrontInv, Control
<1>3. \A surface \in Surfaces : attempts[surface] = <<>>
  BY <1>2 DEF FrontInv, AttemptPart, Exists
<1>4. Control'
  BY <1>1, <1>2 DEF FrontInv, Control, Exists, None
<1>5. DraftPart' /\ IntentPart' /\ PriorPart' /\ ProfilePart'
  BY <1>1, <1>2 DEF FrontInv, DraftPart, IntentPart, PriorPart, ProfilePart
<1>6. Exists(profile')
  <2>1. Repaired(intent) /\ prior.keyword = PriorKeyword(intent)
    BY <1>2 DEF FrontInv, IntentPart, PriorPart
  <2>2. prior.keyword \in Words
    BY <2>1, PriorFacts DEF Repaired
  <2>. DEFINE q == prior.keyword
              flags == report.flags
              f == SearchProfile(intent, flags, q)
  <2>3. q \in Words /\ f = SearchProfile(intent, flags, q) /\ profile' = f
    BY <1>1, <2>2
  <2>. HIDE DEF q, flags, f
  <2>. QED
    BY <2>1, <2>3, ProfileFacts
<1>7. AttemptPart'
  <2>1. (request \in Requests /\ Control /\ DraftPart /\ IntentPart /\ PriorPart
          /\ ProfilePart)'
    BY <1>1, <1>4, <1>5 DEF FrontInv
  <2>2. Len(profile'.graphic) \in Nat /\ Len(profile'.photo) \in Nat
    <3>1. Repaired(intent) /\ prior.keyword = PriorKeyword(intent)
      BY <1>2 DEF FrontInv, IntentPart, PriorPart
    <3>2. prior.keyword \in Words
      BY <3>1, PriorFacts DEF Repaired
    <3>. DEFINE q == prior.keyword
                flags == report.flags
                f == SearchProfile(intent, flags, q)
    <3>3. q \in Words /\ f = SearchProfile(intent, flags, q) /\ profile' = f
      BY <1>1, <3>2
    <3>. HIDE DEF q, flags, f
    <3>4. Len(f.graphic) \in Nat /\ Len(f.photo) \in Nat
      BY <3>1, <3>3, ProfileFacts
    <3>. QED
      BY <3>3, <3>4
  <2>3. \A surface \in Surfaces : Len(Ladder(surface)') \in Nat
    BY <2>2 DEF Ladder
  <2>4. Len(<<>>) = 0
    OBVIOUS
  <2>5. \A n \in Nat : 0 <= n
    OBVIOUS
  <2>6. \A surface \in Surfaces : Len(attempts[surface]) <= Len(Ladder(surface)')
    BY <1>3, <2>3, <2>4, <2>5
  <2>. QED
    BY <1>1, <1>6, <2>6 DEF FrontInv, AttemptPart
<1>. QED
  BY <1>1, <1>4, <1>5, <1>7 DEF FrontInv

\* the end of the search, which changes nothing but the node
LEMMA AssembleStep ==
  ASSUME FrontInv, ListPlaceholders \/ Assemble
  PROVE  FrontInv'
<1>1. /\ UNCHANGED <<request, draft, intent, report, prior, profile, attempts>>
      /\ node = "assemble_candidates" /\ node' \in {"select_composition", "failed"}
      /\ node' = "select_composition" => failure' = failure
      /\ node' = "failed" => failure' = "graphic_candidates_empty"
  BY DEF ListPlaceholders, Assemble, Goto, Fail
<1>2. Control'
  BY <1>1 DEF FrontInv, Control, Exists, None
<1>3. DraftPart' /\ IntentPart' /\ PriorPart' /\ ProfilePart'
  BY <1>1 DEF FrontInv, DraftPart, IntentPart, PriorPart, ProfilePart
<1>4. AttemptPart'
  BY <1>1 DEF FrontInv, AttemptPart, Ladder
<1>. QED
  BY <1>1, <1>2, <1>3, <1>4 DEF FrontInv

\* An answer of the catalogue is one more attempt of a ladder that is not used up.
LEMMA SearchStep ==
  ASSUME FrontInv, NEW surface \in Surfaces, NEW answer \in {"hit", "empty", "error"},
         Search(surface, answer)
  PROVE  FrontInv'
<1>1. /\ UNCHANGED <<request, draft, intent, report, prior, profile>>
      /\ Exists(profile) /\ ~Searched(surface)
      /\ node = "assemble_candidates" \/ failure = "catalogue_error"
      /\ attempts' = [attempts EXCEPT ![surface] = Append(@, answer)]
      /\ \/ node' = "failed" /\ failure' = "catalogue_error"
         \/ node' = node /\ failure' = failure
  BY DEF Search, Fail
<1>2. Control'
  <2>1. node \in {"assemble_candidates", "failed"}
    BY <1>1 DEF FrontInv, Control, None
  <2>. QED
    BY <1>1, <2>1 DEF FrontInv, Control, Exists, None
<1>3. DraftPart' /\ IntentPart' /\ PriorPart' /\ ProfilePart'
  BY <1>1 DEF FrontInv, DraftPart, IntentPart, PriorPart, ProfilePart
<1>4. AttemptPart'
  <2>1. /\ attempts \in [Surfaces -> Seq({"hit", "empty", "error"})]
        /\ \A other \in Surfaces : Len(attempts[other]) <= Len(Ladder(other))
    BY <1>1 DEF FrontInv, AttemptPart
  <2>2. attempts' \in [Surfaces -> Seq({"hit", "empty", "error"})]
    BY <1>1, <2>1
  <2>3. Len(attempts[surface]) # Len(Ladder(surface))
    BY <1>1 DEF Searched
  <2>4. Len(attempts[surface]) \in Nat /\ Len(Ladder(surface)) \in Nat
    BY <1>1, <2>1, LadderLength
  <2>5. Len(attempts'[surface]) = Len(attempts[surface]) + 1
    BY <1>1, <2>1
  <2>6. Len(attempts'[surface]) <= Len(Ladder(surface))
    BY <2>1, <2>3, <2>4, <2>5
  <2>7. \A other \in Surfaces \ {surface} : attempts'[other] = attempts[other]
    BY <1>1, <2>1
  <2>8. \A other \in Surfaces : Len(attempts'[other]) <= Len(Ladder(other))
    BY <2>1, <2>6, <2>7
  <2>9. \A other \in Surfaces : Ladder(other)' = Ladder(other)
    BY <1>1 DEF Ladder
  <2>. QED
    BY <1>1, <2>2, <2>8, <2>9 DEF AttemptPart
<1>. QED
  BY <1>1, <1>2, <1>3, <1>4 DEF FrontInv

\* Every state of the planning satisfies the invariant.
THEOREM InductiveInvariant == Spec => []FrontInv
<1>1. Init => FrontInv
  BY InitFront
<1>2. FrontInv /\ [Next]_vars => FrontInv'
  <2>. SUFFICES ASSUME FrontInv, [Next]_vars PROVE FrontInv'
    OBVIOUS
  <2>1. ASSUME UNCHANGED vars PROVE FrontInv'
    BY <2>1 DEF vars, FrontInv, Control, DraftPart, IntentPart, PriorPart, ProfilePart,
                AttemptPart, Ladder
  <2>2. ASSUME Next PROVE FrontInv'
    BY <2>2, PlannerStep, NormalizeStep, GateStep, PriorStep, ProfileStep, AssembleStep,
       SearchStep DEF Next
  <2>. QED
    BY <2>1, <2>2
<1>. QED
  BY <1>1, <1>2, PTL DEF Spec


-------------------------------------------------------------------------------
(* What the runs check *)

\* A normalized policy is one that its consumers can read.
LEMMA NormalIsReadable == ASSUME NEW p, Normal(p) PROVE PolicyOK(p)
<1>1. /\ p.allowed \in Seq(AssetFamilies) /\ p.preferred \in Seq(AssetFamilies)
      /\ "background" \in Elems(p.allowed) /\ ~Repeats(p.allowed)
      /\ Elems(p.preferred) \subseteq Elems(p.allowed) /\ p.primary \in VisualPolicies
      /\ PrimaryFamily[p.primary] \notin Elems(p.allowed) \cup {Unset} =>
           Elems(p.allowed) = {"background"}
  BY DEF Normal
<1>2. ToSet(p.allowed) = Elems(p.allowed) /\ ToSet(p.preferred) = Elems(p.preferred)
  BY <1>1, SameElements
<1>3. Elems(p.allowed) = {"background"} => p.allowed = <<"background">>
  <2>. DEFINE a == p.allowed
  <2>. SUFFICES ASSUME Elems(a) = {"background"} PROVE a = <<"background">>
    OBVIOUS
  <2>1. a \in Seq(AssetFamilies) /\ a # <<>> /\ Len(a) \in Nat /\ Len(a) >= 1
    BY <1>1, HasFirst
  <2>2. \A n \in 1 .. Len(a) : a[n] = "background"
    BY DEF Elems
  <2>3. ~(2 \in 1 .. Len(a))
    <3>1. ASSUME 2 \in 1 .. Len(a) PROVE FALSE
      <4>1. 1 \in 1 .. Len(a) /\ 1 < 2
        BY <2>1
      <4>2. a[1] # a[2]
        BY <1>1, <3>1, <4>1 DEF Repeats
      <4>. QED
        BY <2>2, <3>1, <4>1, <4>2
    <3>. QED
      BY <3>1
  <2>4. Len(a) = 1
    <3>1. \A n \in Nat : n >= 1 /\ ~(2 \in 1 .. n) => n = 1
      OBVIOUS
    <3>. QED
      BY <2>1, <2>3, <3>1
  <2>5. a[1] = "background"
    BY <2>2, <2>4
  <2>. HIDE DEF a
  <2>. QED
    BY <2>1, <2>4, <2>5
<1>. QED
  BY <1>1, <1>2, <1>3 DEF PolicyOK

\* TypeOK: whatever a planner answered and the repair changed, an intent has one to five
\* normalized keywords, a canonical policy that allows the background, and one value of
\* every facet; no surface of the catalogue is asked more often than its ladder allows.
THEOREM FrontEndTypeCorrect == Spec => []TypeOK
<1>1. FrontInv => TypeOK
  <2>. SUFFICES ASSUME FrontInv PROVE TypeOK
    OBVIOUS
  <2>1. ASSUME Exists(draft) PROVE DraftFits(draft.content)
    BY <2>1 DEF FrontInv, DraftPart, Draftable
  <2>2. ASSUME Exists(intent) PROVE IntentOK
    <3>1. Repaired(intent)
      BY <2>2 DEF FrontInv, IntentPart
    <3>2. PolicyOK(intent.assetPolicy)
      BY <3>1, NormalIsReadable DEF Repaired, Settled
    <3>3. intent.keywords \in Seq(Vocabulary)
      BY <3>1 DEF Repaired, Faceted
    <3>4. ToSet(intent.keywords) = Elems(intent.keywords)
      BY <3>3, SameElements
    <3>. QED
      BY <3>1, <3>2, <3>4 DEF IntentOK, Repaired, Faceted, Normalized
  <2>. QED
    BY <2>1, <2>2 DEF FrontInv, Control, AttemptPart, TypeOK
<1>. QED
  BY <1>1, InductiveInvariant, PTL

\* FashionStaysFashion: whatever was drafted, an intent for fashion retail offers no
\* menu, in its facets, its keywords or the first query of either surface.
THEOREM FashionOffersNoMenu == Spec => []FashionStaysFashion
<1>1. FrontInv => FashionStaysFashion
  <2>. SUFFICES ASSUME FrontInv, Exists(intent), intent.domain = "fashion_retail"
                PROVE  FashionStaysFashion
    BY DEF FashionStaysFashion
  <2>1. Repaired(intent)
    BY DEF FrontInv, IntentPart
  <2>2. ToSet(intent.keywords) = Elems(intent.keywords)
    BY <2>1, SameElements DEF Repaired, Faceted
  <2>3. Exists(profile) => \A queries \in {profile.graphic, profile.photo} :
                             queries # <<>> => queries[1].keyword \notin MenuSignal
    BY ProfileOfIntent
  <2>. QED
    BY <2>1, <2>2, <2>3 DEF FashionStaysFashion, Repaired, SomeKeywords
<1>. QED
  BY <1>1, InductiveInvariant, PTL

\* PromoStaysSubjectless: a prompt that speaks of a sale or an event and of no business
\* gets a graphic-first intent without a subject, and its graphic ladder looks for none.
THEOREM GenericPromoHasNoSubject == Spec => []PromoStaysSubjectless
<1>1. FrontInv => PromoStaysSubjectless
  <2>. SUFFICES ASSUME FrontInv, Exists(intent), Exists(draft),
                       PromoFocus(Signals(request.prompt.words), draft.content)
                PROVE  PromoStaysSubjectless
    BY DEF PromoStaysSubjectless
  <2>1. Repaired(intent) /\ Subjectless(intent)
    BY DEF FrontInv, IntentPart
  <2>2. ToSet(intent.keywords) = Elems(intent.keywords)
    BY <2>1, SameElements DEF Repaired, Faceted
  <2>3. Exists(profile) => Keywords(profile.graphic) \cap PromoBlockedKeywords = {}
    BY <2>1, ProfileOfIntent
  <2>. QED
    BY <2>1, <2>2, <2>3 DEF PromoStaysSubjectless, Subjectless, SomeKeywords
<1>. QED
  BY <1>1, InductiveInvariant, PTL

\* ProfileMatchesIntent: the judge finds no field of the search profile that differs from
\* the intent, and no picture is asked for against its policy.
THEOREM ProfileAgreesWithIntent == Spec => []ProfileMatchesIntent
<1>1. FrontInv => ProfileMatchesIntent
  <2>. SUFFICES ASSUME FrontInv, Exists(profile) PROVE ProfileMatchesIntent
    BY DEF ProfileMatchesIntent
  <2>1. /\ ContractMismatches(intent, profile) = {}
        /\ profile.photo # <<>> => "photo" \in ToSet(intent.assetPolicy.allowed)
    BY ProfileOfIntent
  <2>2. ASSUME attempts["photo"] # <<>> PROVE profile.photo # <<>>
    <3>1. /\ attempts["photo"] \in Seq({"hit", "empty", "error"})
          /\ Len(attempts["photo"]) <= Len(Ladder("photo"))
      BY DEF FrontInv, AttemptPart, Surfaces
    <3>. DEFINE a == attempts["photo"]
                ladder == Ladder("photo")
    <3>2. ladder = <<>> \/ ladder = profile.photo
      BY DEF Ladder
    <3>. HIDE DEF ladder
    <3>3. Len(a) \in Nat /\ Len(a) # 0
      BY <2>2, <3>1
    <3>4. Len(<<>>) = 0 /\ ~(Len(a) <= 0)
      BY <3>3
    <3>5. ladder # <<>>
      BY <3>1, <3>4 DEF ladder
    <3>. QED
      BY <3>2, <3>5
  <2>. QED
    BY <2>1, <2>2 DEF ProfileMatchesIntent
<1>. QED
  BY <1>1, InductiveInvariant, PTL
=============================================================================
