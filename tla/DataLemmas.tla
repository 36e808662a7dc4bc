----------------------------- MODULE DataLemmas -----------------------------
(***************************************************************************)
(* Sums over sets of rows, as cardinalities of disjoint unions of units;   *)
(* induction, as the search for a least counterexample; and the elements   *)
(* of a flattened sequence, which it proves for parts of any number.       *)
(***************************************************************************)
EXTENDS Totals, SequencesExt, FiniteSetTheorems, FunctionTheorems, TLAPS

\* The units of all rows of S.
AllUnits(S, w) == UNION {Units(x, w[x]) : x \in S}

\* A row of amount n has n units.
LEMMA UnitsCount ==
  ASSUME NEW x, NEW n \in Nat
  PROVE  IsFiniteSet(Units(x, n)) /\ Cardinality(Units(x, n)) = n
<1>1. IsFiniteSet(1..n) /\ Cardinality(1..n) = n
  BY FS_Interval
<1> DEFINE f == [i \in 1..n |-> <<x, i>>]
<1>2. f \in Bijection(1..n, Units(x, n))
  BY DEF Units, Bijection, Injection, Surjection, IsInjective
<1>3. ExistsBijection(1..n, Units(x, n))
  BY <1>2 DEF ExistsBijection
<1> QED BY <1>1, <1>3, FS_Bijection

\* Finitely many rows have finitely many units, so their total is a natural number.
LEMMA TotalIsNat ==
  ASSUME NEW S, IsFiniteSet(S), NEW w, \A x \in S : w[x] \in Nat
  PROVE  IsFiniteSet(AllUnits(S, w)) /\ Total(S, w) \in Nat
<1> DEFINE T == {Units(x, w[x]) : x \in S}
           f == [x \in S |-> Units(x, w[x])]
<1>1. f \in Surjection(S, T)
  BY DEF Surjection
<1>2. IsFiniteSet(T)
  BY <1>1, FS_Surjection
<1>3. \A U \in T : IsFiniteSet(U)
  BY UnitsCount
<1>4. IsFiniteSet(UNION T)
  BY <1>2, <1>3, FS_UNION
<1> QED BY <1>4, FS_CardinalityType DEF Total, AllUnits

\* Nothing adds up to nothing.
LEMMA TotalEmpty == ASSUME NEW w PROVE Total({}, w) = 0
<1>1. UNION {Units(x, w[x]) : x \in {}} = {}
  OBVIOUS
<1> QED BY <1>1, FS_EmptySet DEF Total

\* A total depends on the amounts of its rows alone.
LEMMA TotalSame ==
  ASSUME NEW S, NEW w, NEW v, \A x \in S : w[x] = v[x]
  PROVE  Total(S, w) = Total(S, v)
<1>1. {Units(x, w[x]) : x \in S} = {Units(x, v[x]) : x \in S}
  OBVIOUS
<1> QED BY <1>1 DEF Total

\* A new row adds its amount.
LEMMA TotalAdd ==
  ASSUME NEW S, IsFiniteSet(S), NEW w, \A x \in S : w[x] \in Nat,
         NEW k, k \notin S, w[k] \in Nat
  PROVE  Total(S \cup {k}, w) = Total(S, w) + w[k]
<1>1. AllUnits(S \cup {k}, w) = AllUnits(S, w) \cup Units(k, w[k])
  BY DEF AllUnits
<1>2. AllUnits(S, w) \cap Units(k, w[k]) = {}
  <2>1. ASSUME NEW p, p \in AllUnits(S, w), p \in Units(k, w[k]) PROVE FALSE
    <3>1. PICK x \in S : p \in Units(x, w[x])
      BY <2>1 DEF AllUnits
    <3>2. p[1] = x /\ p[1] = k
      BY <2>1, <3>1 DEF Units
    <3> QED BY <3>2
  <2> QED BY <2>1
<1>3. IsFiniteSet(AllUnits(S, w)) /\ Cardinality(AllUnits(S, w)) \in Nat
  BY TotalIsNat, FS_CardinalityType
<1>4. IsFiniteSet(Units(k, w[k])) /\ Cardinality(Units(k, w[k])) = w[k]
  BY UnitsCount
<1>5. Cardinality(AllUnits(S, w) \cup Units(k, w[k]))
        = Cardinality(AllUnits(S, w)) + w[k]
  <2>1. Cardinality(AllUnits(S, w) \cup Units(k, w[k]))
          = Cardinality(AllUnits(S, w)) + Cardinality(Units(k, w[k])) - Cardinality({})
    BY <1>2, <1>3, <1>4, FS_Union
  <2>2. Cardinality({}) = 0
    BY FS_EmptySet
  <2> QED BY <1>3, <1>4, <2>1, <2>2
<1>6. /\ Total(S \cup {k}, w) = Cardinality(AllUnits(S \cup {k}, w))
      /\ Total(S, w) = Cardinality(AllUnits(S, w))
  BY DEF Total, AllUnits
<1> QED BY <1>1, <1>5, <1>6

\* A row that goes takes its amount with it.
LEMMA TotalRemove ==
  ASSUME NEW S, IsFiniteSet(S), NEW w, \A x \in S : w[x] \in Nat, NEW k \in S
  PROVE  Total(S, w) = Total(S \ {k}, w) + w[k]
<1>1. IsFiniteSet(S \ {k}) /\ S = (S \ {k}) \cup {k}
  BY FS_RemoveElement
<1> QED BY <1>1, TotalAdd

\* Fewer rows have a smaller total.
LEMMA TotalMonotone ==
  ASSUME NEW S, IsFiniteSet(S), NEW w, \A x \in S : w[x] \in Nat, NEW R \in SUBSET S
  PROVE  Total(R, w) <= Total(S, w)
<1>1. AllUnits(R, w) \in SUBSET AllUnits(S, w)
  BY DEF AllUnits
<1> QED BY <1>1, TotalIsNat, FS_Subset DEF Total, AllUnits
\* The totals of disjoint sets of rows add up.
LEMMA TotalDisjoint ==
  ASSUME NEW S, IsFiniteSet(S), NEW R, IsFiniteSet(R), S \cap R = {},
         NEW w, \A x \in S \cup R : w[x] \in Nat
  PROVE  Total(S \cup R, w) = Total(S, w) + Total(R, w)
<1>1. AllUnits(S \cup R, w) = AllUnits(S, w) \cup AllUnits(R, w)
  BY DEF AllUnits
<1>2. AllUnits(S, w) \cap AllUnits(R, w) = {}
  <2>1. ASSUME NEW p, p \in AllUnits(S, w), p \in AllUnits(R, w) PROVE FALSE
    <3>1. PICK x \in S : p \in Units(x, w[x])
      BY <2>1 DEF AllUnits
    <3>2. PICK y \in R : p \in Units(y, w[y])
      BY <2>1 DEF AllUnits
    <3>3. p[1] = x /\ p[1] = y
      BY <3>1, <3>2 DEF Units
    <3> QED BY <3>3
  <2> QED BY <2>1
<1>3. /\ IsFiniteSet(AllUnits(S, w)) /\ Cardinality(AllUnits(S, w)) \in Nat
      /\ IsFiniteSet(AllUnits(R, w)) /\ Cardinality(AllUnits(R, w)) \in Nat
  BY TotalIsNat, FS_CardinalityType
<1>4. Cardinality(AllUnits(S, w) \cup AllUnits(R, w))
        = Cardinality(AllUnits(S, w)) + Cardinality(AllUnits(R, w)) - Cardinality({})
  BY <1>2, <1>3, FS_Union
<1>5. Cardinality({}) = 0
  BY FS_EmptySet
<1>6. /\ Total(S \cup R, w) = Cardinality(AllUnits(S \cup R, w))
      /\ Total(S, w) = Cardinality(AllUnits(S, w))
      /\ Total(R, w) = Cardinality(AllUnits(R, w))
  BY DEF Total, AllUnits
<1>7. Cardinality(AllUnits(S, w) \cup AllUnits(R, w))
        = Cardinality(AllUnits(S, w)) + Cardinality(AllUnits(R, w))
  BY <1>3, <1>4, <1>5
<1> QED BY <1>1, <1>6, <1>7

\* Rows that are each matched with a row of the same amount have no larger total.
LEMMA TotalInjection ==
  ASSUME NEW S, NEW R, IsFiniteSet(R), NEW f \in Injection(S, R),
         NEW w, NEW v, \A y \in R : v[y] \in Nat, \A x \in S : w[x] = v[f[x]]
  PROVE  Total(S, w) <= Total(R, v)
<1> DEFINE h == [p \in AllUnits(S, w) |-> <<f[p[1]], p[2]>>]
<1>1. ASSUME NEW p \in AllUnits(S, w)
      PROVE  /\ p[1] \in S /\ p[2] \in 1..w[p[1]] /\ p = <<p[1], p[2]>>
             /\ h[p] \in AllUnits(R, v)
  <2>1. PICK x \in S : p \in Units(x, w[x])
    BY DEF AllUnits
  <2>2. p[1] = x /\ p[2] \in 1..w[x] /\ p = <<p[1], p[2]>>
    BY <2>1 DEF Units
  <2>3. f[x] \in R /\ w[x] = v[f[x]]
    BY <2>1 DEF Injection
  <2>4. <<f[x], p[2]>> \in Units(f[x], v[f[x]])
    BY <2>2, <2>3 DEF Units
  <2> QED BY <2>2, <2>3, <2>4 DEF AllUnits
<1>2. ASSUME NEW p \in AllUnits(S, w), NEW q \in AllUnits(S, w), h[p] = h[q]
      PROVE  p = q
  <2>1. f[p[1]] = f[q[1]] /\ p[2] = q[2]
    BY <1>2
  <2>2. p[1] = q[1]
    BY <1>1, <2>1 DEF Injection, IsInjective
  <2> QED BY <1>1, <2>1, <2>2
<1>3. h \in Injection(AllUnits(S, w), AllUnits(R, v))
  <2>1. h \in [AllUnits(S, w) -> AllUnits(R, v)]
    BY <1>1
  <2>2. IsInjective(h)
    BY <1>2 DEF IsInjective
  <2> QED BY <2>1, <2>2 DEF Injection
<1>4. IsFiniteSet(AllUnits(R, v))
  BY TotalIsNat
<1>5. Cardinality(AllUnits(S, w)) <= Cardinality(AllUnits(R, v))
  BY <1>3, <1>4, FS_Injection
<1> QED BY <1>5 DEF Total, AllUnits

-----------------------------------------------------------------------------
(***************************************************************************)
(* Induction without an operator for the property: a set of natural        *)
(* numbers has a least one, so a set of counterexamples is empty.          *)
(***************************************************************************)
LEMMA Least == ASSUME NEW T, T \subseteq Nat, T # {} PROVE \E x \in T : \A y \in T : x <= y
<1> DEFINE R == {ss \in Nat \X Nat : ss[1] < ss[2]}
<1>1. IsWellFoundedOn(R, Nat)
  BY NatLessThanWellFounded DEF OpToRel
<1>2. PICK x \in T : \A y \in T : ~(<<y, x>> \in R)
  <2> HIDE DEF R
  <2> QED BY <1>1, WFMin
<1>3. \A y \in T : ~(y < x)
  BY <1>2
<1> QED BY <1>3

\* f[n] is what the first n sequences of ss make, one after the other.
Prefixed(ss, n, f) ==
  /\ f \in [1..n -> {f[i] : i \in 1..n}]
  /\ \A i \in 1..n : f[i] = IF i = 1 THEN ss[i] ELSE f[i - 1] \o ss[i]

\* There is one such function, or there would be a least n without one.
LEMMA FlattenExists ==
  ASSUME NEW ss, NEW m \in Nat
  PROVE  \E f : Prefixed(ss, m, f)
<1> DEFINE T == {n \in Nat : ~\E f : Prefixed(ss, n, f)}
<1> SUFFICES ASSUME T # {} PROVE FALSE
  OBVIOUS
<1>1. PICK n \in T : \A y \in T : n <= y
  <2> HIDE DEF T
  <2>1. T \subseteq Nat
    BY DEF T
  <2> QED BY <2>1, Least
<1>2. n # 0
  <2>1. Prefixed(ss, 0, [i \in 1..0 |-> ss])
    BY DEF Prefixed
  <2> QED BY <2>1
<1>3. n - 1 \in Nat /\ n - 1 \notin T
  BY <1>1, <1>2
<1>4. PICK f : Prefixed(ss, n - 1, f)
  BY <1>3
<1> DEFINE g == [i \in 1..n |-> IF i = n THEN IF n = 1 THEN ss[1] ELSE f[n - 1] \o ss[n] ELSE f[i]]
<1>5. g \in [1..n -> {g[i] : i \in 1..n}]
  OBVIOUS
<1>6. ASSUME NEW i \in 1..n PROVE g[i] = IF i = 1 THEN ss[i] ELSE g[i - 1] \o ss[i]
  <2>1. CASE i = n
    BY <1>3, <2>1
  <2>2. CASE i # n
    <3>1. i \in 1..(n - 1) /\ g[i] = f[i] /\ (i # 1 => i - 1 \in 1..n /\ i - 1 # n)
      BY <1>3, <2>2
    <3>2. i # 1 => g[i - 1] = f[i - 1]
      BY <3>1
    <3> HIDE DEF g
    <3> QED BY <1>4, <3>1, <3>2 DEF Prefixed
  <2> QED BY <2>1, <2>2
<1>7. Prefixed(ss, n, g)
  <2> HIDE DEF g
  <2> QED BY <1>5, <1>6 DEF Prefixed
<1> QED BY <1>1, <1>7

\* FlattenSeq computes it.
LEMMA FlattenIs ==
  ASSUME NEW ss, Len(ss) \in Nat, Len(ss) # 0
  PROVE  \E f : Prefixed(ss, Len(ss), f) /\ FlattenSeq(ss) = f[Len(ss)]
<1> DEFINE IsFlat(f) == f = [i \in 1..Len(ss) |-> IF i = 1 THEN ss[i] ELSE f[i - 1] \o ss[i]]
           flat == CHOOSE f : IsFlat(f)
<1>1. PICK f : Prefixed(ss, Len(ss), f)
  BY FlattenExists
<1>2. IsFlat(f)
  BY <1>1 DEF Prefixed
<1>3. IsFlat(flat)
  <2> HIDE DEF IsFlat
  <2> QED BY <1>2
<1>4. FlattenSeq(ss) = flat[Len(ss)]
  BY DEF FlattenSeq
<1>5. Prefixed(ss, Len(ss), flat)
  <2> HIDE DEF flat
  <2> QED BY <1>3 DEF Prefixed
<1> QED BY <1>4, <1>5

\* Each element of it is an element of a part, right after the one before in its part.
Comes(F, ss, n, k) ==
  \E a \in 1..n : \E j \in 1..Len(ss[a]) :
    F[k] = ss[a][j] /\ (j > 1 => k > 1 /\ F[k - 1] = ss[a][j - 1])

\* A concatenation has the elements of the one, then those of the other.
LEMMA Concatenated ==
  ASSUME NEW S, NEW a \in Seq(S), NEW b \in Seq(S)
  PROVE  /\ a \o b \in Seq(S) /\ Len(a \o b) = Len(a) + Len(b)
         /\ Len(a) \in Nat /\ Len(b) \in Nat
         /\ \A k \in 1..Len(a) : (a \o b)[k] = a[k]
         /\ \A k \in 1..Len(b) : (a \o b)[Len(a) + k] = b[k]
  OBVIOUS

\* What holds of every part, and of each element in its part, holds of the whole.
LEMMA ComesOn ==
  ASSUME NEW S, NEW ss, NEW n \in Nat, n > 1, NEW F \in Seq(S), ss[n] \in Seq(S),
         \A k \in 1..Len(F) : Comes(F, ss, n - 1, k)
  PROVE  \A k \in 1..Len(F \o ss[n]) : Comes(F \o ss[n], ss, n, k)
<1> DEFINE G == F \o ss[n]
<1>1. /\ Len(G) = Len(F) + Len(ss[n]) /\ Len(F) \in Nat /\ Len(ss[n]) \in Nat
      /\ \A k \in 1..Len(F) : G[k] = F[k]
      /\ \A k \in 1..Len(ss[n]) : G[Len(F) + k] = ss[n][k]
  BY Concatenated
<1> HIDE DEF G
<1> SUFFICES ASSUME NEW k \in 1..Len(G) PROVE Comes(G, ss, n, k)
  BY DEF G
<1>2. CASE k \in 1..Len(F)
  <2> PICK a \in 1..(n - 1) : \E j \in 1..Len(ss[a]) :
          F[k] = ss[a][j] /\ (j > 1 => k > 1 /\ F[k - 1] = ss[a][j - 1])
    BY <1>2 DEF Comes
  <2>1. PICK j \in 1..Len(ss[a]) : F[k] = ss[a][j] /\ (j > 1 => k > 1 /\ F[k - 1] = ss[a][j - 1])
    OBVIOUS
  <2>2. G[k] = F[k] /\ (k > 1 => G[k - 1] = F[k - 1])
    <3>1. k \in Int /\ (k > 1 => k - 1 \in 1..Len(F))
      BY <1>1, <1>2
    <3> QED BY <1>1, <1>2, <3>1
  <2>3. a \in 1..n
    OBVIOUS
  <2> QED BY <2>1, <2>2, <2>3 DEF Comes
<1>3. CASE k \notin 1..Len(F)
  <2>1. PICK j \in 1..Len(ss[n]) : k = Len(F) + j
    <3>1. k - Len(F) \in 1..Len(ss[n]) /\ k = Len(F) + (k - Len(F))
      BY <1>1, <1>3
    <3> QED BY <3>1
  <2>2. G[k] = ss[n][j]
    BY <1>1, <2>1
  <2>3. ASSUME j > 1 PROVE k > 1 /\ G[k - 1] = ss[n][j - 1]
    <3>1. j - 1 \in 1..Len(ss[n]) /\ k - 1 = Len(F) + (j - 1) /\ k > 1
      BY <1>1, <2>1, <2>3
    <3> QED BY <1>1, <3>1
  <2>4. n \in 1..n
    OBVIOUS
  <2> QED BY <2>2, <2>3, <2>4 DEF Comes
<1> QED BY <1>2, <1>3

\* Every element of a flattened sequence is one of a part, right after its predecessor there.
LEMMA FlattenParts ==
  ASSUME NEW S, NEW ss \in Seq(Seq(S))
  PROVE  /\ FlattenSeq(ss) \in Seq(S)
         /\ \A k \in 1..Len(FlattenSeq(ss)) : Comes(FlattenSeq(ss), ss, Len(ss), k)
<1>1. CASE Len(ss) = 0
  <2>1. FlattenSeq(ss) = ss /\ ss = <<>>
    BY <1>1 DEF FlattenSeq
  <2> QED BY <2>1
<1>2. CASE Len(ss) # 0
  <2>1. PICK f : Prefixed(ss, Len(ss), f) /\ FlattenSeq(ss) = f[Len(ss)]
    BY <1>2, FlattenIs
  <2> DEFINE Good(n) == f[n] \in Seq(S) /\ \A k \in 1..Len(f[n]) : Comes(f[n], ss, n, k)
             T == {n \in 1..Len(ss) : ~Good(n)}
  <2>2. \A n \in 1..Len(ss) : ss[n] \in Seq(S)
    OBVIOUS
  <2>3. Len(ss) \in Nat
    OBVIOUS
  <2>4. ASSUME NEW n \in 1..Len(ss), n = 1 PROVE Good(n)
    <3>1. f[1] = ss[1]
      BY <2>1, <2>4 DEF Prefixed
    <3>2. \A k \in 1..Len(ss[1]) : Comes(ss[1], ss, 1, k)
      <4> SUFFICES ASSUME NEW k \in 1..Len(ss[1]) PROVE Comes(ss[1], ss, 1, k)
        OBVIOUS
      <4>1. Len(ss[1]) \in Nat /\ 1 \in 1..1
        BY <2>2, <2>4
      <4> QED BY <4>1 DEF Comes
    <3> QED BY <2>2, <2>4, <3>1, <3>2
  <2>5. ASSUME NEW n \in 1..Len(ss), n # 1, Good(n - 1) PROVE Good(n)
    <3>1. f[n] = f[n - 1] \o ss[n]
      BY <2>1, <2>5 DEF Prefixed
    <3>2. n \in Nat /\ n > 1 /\ f[n - 1] \in Seq(S) /\ ss[n] \in Seq(S)
      BY <2>2, <2>3, <2>5
    <3>3. f[n] \in Seq(S)
      BY <3>1, <3>2, Concatenated
    <3>4. \A k \in 1..Len(f[n]) : Comes(f[n], ss, n, k)
      BY <2>5, <3>1, <3>2, ComesOn
    <3> QED BY <3>3, <3>4
  <2> HIDE DEF Good
  <2>6. T = {}
    <3> SUFFICES ASSUME T # {} PROVE FALSE
      OBVIOUS
    <3>1. T \subseteq Nat
      BY <2>3
    <3>2. PICK n \in T : \A y \in T : n <= y
      <4> HIDE DEF T
      <4> QED BY <3>1, Least
    <3>3. n \in 1..Len(ss) /\ ~Good(n)
      OBVIOUS
    <3>4. n - 1 \notin T
      BY <2>3, <3>2, <3>3
    <3> QED BY <2>3, <2>4, <2>5, <3>3, <3>4
  <2>7. Good(Len(ss))
    BY <1>2, <2>3, <2>6
  <2> QED BY <2>1, <2>7 DEF Good
<1> QED BY <1>1, <1>2

\* Every element of the concatenation F of the first n parts has its part and its place in
\* it, in the order of parts and places, and each part is there in whole.
Placed(F, ss, n, part, place) ==
  /\ part \in [1..Len(F) -> 1..n] /\ place \in [1..Len(F) -> Nat \ {0}]
  /\ \A k \in 1..Len(F) : place[k] \in 1..Len(ss[part[k]]) /\ F[k] = ss[part[k]][place[k]]
  /\ \A k, l \in 1..Len(F) : k < l => part[k] < part[l] \/ (part[k] = part[l] /\ place[k] < place[l])
  /\ \A a \in 1..n : \A j \in 1..Len(ss[a]) : \E k \in 1..Len(F) : part[k] = a /\ place[k] = j

\* One more part takes the places after the others.
LEMMA PlacedOn ==
  ASSUME NEW S, NEW ss, NEW n \in Nat, n > 0, NEW F \in Seq(S), ss[n] \in Seq(S),
         NEW part, NEW place, Placed(F, ss, n - 1, part, place)
  PROVE  \E p, q : Placed(F \o ss[n], ss, n, p, q)
<1> DEFINE G == F \o ss[n]
           m == Len(F)
           p == [k \in 1..Len(G) |-> IF k \in 1..m THEN part[k] ELSE n]
           q == [k \in 1..Len(G) |-> IF k \in 1..m THEN place[k] ELSE k - m]
<1>1. /\ Len(G) = m + Len(ss[n]) /\ m \in Nat /\ Len(ss[n]) \in Nat
      /\ \A k \in 1..m : G[k] = F[k]
      /\ \A k \in 1..Len(ss[n]) : G[m + k] = ss[n][k]
  BY Concatenated
<1>2. /\ part \in [1..m -> 1..(n - 1)] /\ place \in [1..m -> Nat \ {0}]
      /\ \A k \in 1..m : place[k] \in 1..Len(ss[part[k]]) /\ F[k] = ss[part[k]][place[k]]
      /\ \A k, l \in 1..m : k < l => part[k] < part[l] \/ (part[k] = part[l] /\ place[k] < place[l])
      /\ \A a \in 1..(n - 1) : \A j \in 1..Len(ss[a]) : \E k \in 1..m : part[k] = a /\ place[k] = j
  BY DEF Placed
<1> HIDE DEF G, m
<1>3. \A k \in 1..Len(G) : \/ k \in 1..m /\ p[k] = part[k] /\ q[k] = place[k] /\ G[k] = F[k]
                           \/ /\ k \notin 1..m /\ p[k] = n /\ q[k] = k - m
                              /\ q[k] \in 1..Len(ss[n]) /\ G[k] = ss[n][q[k]]
  <2> SUFFICES ASSUME NEW k \in 1..Len(G), k \notin 1..m
               PROVE  k - m \in 1..Len(ss[n]) /\ G[k] = ss[n][k - m]
    BY <1>1
  <2>1. k - m \in 1..Len(ss[n]) /\ k = m + (k - m)
    BY <1>1
  <2> QED BY <1>1, <2>1
<1>4. p \in [1..Len(G) -> 1..n] /\ q \in [1..Len(G) -> Nat \ {0}]
  BY <1>1, <1>2
<1> HIDE DEF p, q
<1>5. \A k \in 1..Len(G) : q[k] \in 1..Len(ss[p[k]]) /\ G[k] = ss[p[k]][q[k]]
  BY <1>2, <1>3
<1>6. ASSUME NEW k \in 1..Len(G), NEW l \in 1..Len(G), k < l
      PROVE  p[k] < p[l] \/ (p[k] = p[l] /\ q[k] < q[l])
  <2>1. CASE l \in 1..m
    <3>1. k \in 1..m
      BY <1>1, <1>6, <2>1
    <3> QED BY <1>2, <1>3, <1>6, <2>1, <3>1
  <2>2. CASE l \notin 1..m
    <3>1. CASE k \in 1..m
      <4>1. p[k] = part[k] /\ part[k] \in 1..(n - 1) /\ p[l] = n
        BY <1>2, <1>3, <2>2, <3>1
      <4> QED BY <4>1
    <3>2. CASE k \notin 1..m
      BY <1>1, <1>3, <1>6, <2>2, <3>2
    <3> QED BY <3>1, <3>2
  <2> QED BY <2>1, <2>2
<1>7. ASSUME NEW a \in 1..n, NEW j \in 1..Len(ss[a])
      PROVE  \E k \in 1..Len(G) : p[k] = a /\ q[k] = j
  <2>1. CASE a = n
    <3>1. m + j \in 1..Len(G) /\ m + j \notin 1..m
      BY <1>1, <2>1
    <3> QED BY <1>1, <1>3, <2>1, <3>1
  <2>2. CASE a # n
    <3>1. PICK k \in 1..m : part[k] = a /\ place[k] = j
      BY <1>2, <2>2
    <3>2. k \in 1..Len(G)
      BY <1>1
    <3> QED BY <1>3, <3>1, <3>2
  <2> QED BY <2>1, <2>2
<1>8. Placed(G, ss, n, p, q)
  BY <1>4, <1>5, <1>6, <1>7 DEF Placed
<1> QED BY <1>8 DEF G

\* So a flattened sequence has its parts in order, each in whole.
LEMMA FlattenOrder ==
  ASSUME NEW S, NEW ss \in Seq(Seq(S))
  PROVE  /\ FlattenSeq(ss) \in Seq(S)
         /\ \E part, place : Placed(FlattenSeq(ss), ss, Len(ss), part, place)
<1>0. Placed(<<>>, ss, 0, <<>>, <<>>)
  BY DEF Placed
<1>1. CASE Len(ss) = 0
  <2>1. FlattenSeq(ss) = ss /\ ss = <<>>
    BY <1>1 DEF FlattenSeq
  <2> QED BY <1>0, <1>1, <2>1
<1>2. CASE Len(ss) # 0
  <2>1. PICK f : Prefixed(ss, Len(ss), f) /\ FlattenSeq(ss) = f[Len(ss)]
    BY <1>2, FlattenIs
  <2> DEFINE Good(n) == f[n] \in Seq(S) /\ \E part, place : Placed(f[n], ss, n, part, place)
             T == {n \in 1..Len(ss) : ~Good(n)}
  <2>2. \A n \in 1..Len(ss) : ss[n] \in Seq(S)
    OBVIOUS
  <2>3. Len(ss) \in Nat
    OBVIOUS
  <2>4. ASSUME NEW n \in 1..Len(ss), n = 1 PROVE Good(n)
    <3>1. f[n] = <<>> \o ss[n] /\ f[n] \in Seq(S) /\ <<>> \in Seq(S)
      <4>1. f[n] = ss[n] /\ ss[n] \in Seq(S)
        BY <2>1, <2>2, <2>4 DEF Prefixed
      <4>2. \A s \in Seq(S) : s = <<>> \o s
        OBVIOUS
      <4> QED BY <4>1, <4>2
    <3>2. \E part, place : Placed(<<>> \o ss[n], ss, n, part, place)
      <4>1. n \in Nat /\ n > 0 /\ Placed(<<>>, ss, n - 1, <<>>, <<>>)
        BY <1>0, <2>4
      <4> QED BY <2>2, <3>1, <4>1, PlacedOn
    <3> QED BY <3>1, <3>2
  <2>5. ASSUME NEW n \in 1..Len(ss), n # 1, Good(n - 1) PROVE Good(n)
    <3>1. f[n] = f[n - 1] \o ss[n]
      BY <2>1, <2>5 DEF Prefixed
    <3>2. n \in Nat /\ n > 0 /\ f[n - 1] \in Seq(S) /\ ss[n] \in Seq(S)
      BY <2>2, <2>3, <2>5
    <3>3. f[n] \in Seq(S)
      BY <3>1, <3>2, Concatenated
    <3>4. PICK part, place : Placed(f[n - 1], ss, n - 1, part, place)
      BY <2>5
    <3>5. \E p, q : Placed(f[n], ss, n, p, q)
      BY <3>1, <3>2, <3>4, PlacedOn
    <3> QED BY <3>3, <3>5
  <2> HIDE DEF Good
  <2>6. T = {}
    <3> SUFFICES ASSUME T # {} PROVE FALSE
      OBVIOUS
    <3>1. T \subseteq Nat
      BY <2>3
    <3>2. PICK n \in T : \A y \in T : n <= y
      <4> HIDE DEF T
      <4> QED BY <3>1, Least
    <3>3. n \in 1..Len(ss) /\ ~Good(n)
      OBVIOUS
    <3>4. n - 1 \notin T
      BY <2>3, <3>2, <3>3
    <3> QED BY <2>3, <2>4, <2>5, <3>3, <3>4
  <2>7. Good(Len(ss))
    BY <1>2, <2>3, <2>6
  <2> QED BY <2>1, <2>7 DEF Good
<1> QED BY <1>1, <1>2

\* Of two elements of a concatenation between whose places there is none, one follows the other.
LEMMA PlacesFollow ==
  ASSUME NEW F, NEW ss, NEW n, NEW part, NEW place, Len(F) \in Nat, n \in Nat,
         Placed(F, ss, n, part, place),
         NEW k \in 1..Len(F), NEW l \in 1..Len(F),
         part[k] < part[l] \/ (part[k] = part[l] /\ place[k] < place[l]),
         \A m \in 1..Len(F) :
           ~ /\ part[k] < part[m] \/ (part[k] = part[m] /\ place[k] < place[m])
             /\ part[m] < part[l] \/ (part[m] = part[l] /\ place[m] < place[l])
  PROVE  l = k + 1
<1>1. /\ \A m \in 1..Len(F) : part[m] \in Nat /\ place[m] \in Nat
      /\ \A x, y \in 1..Len(F) : x < y => part[x] < part[y] \/ (part[x] = part[y] /\ place[x] < place[y])
  BY DEF Placed
<1>2. k < l
  <2>1. k # l
    BY <1>1
  <2>2. ~(l < k)
    BY <1>1
  <2> QED BY <2>1, <2>2
<1>3. ASSUME k + 1 < l PROVE FALSE
  <2>1. k + 1 \in 1..Len(F) /\ k < k + 1
    BY <1>3
  <2>2. part[k] < part[k + 1] \/ (part[k] = part[k + 1] /\ place[k] < place[k + 1])
    BY <1>1, <2>1
  <2>3. part[k + 1] < part[l] \/ (part[k + 1] = part[l] /\ place[k + 1] < place[l])
    BY <1>1, <1>3, <2>1
  <2> QED BY <2>1, <2>2, <2>3
<1> QED BY <1>2, <1>3
=============================================================================
