------------------------- MODULE HomeOperatorProofs -------------------------
(***************************************************************************)
(* Lemmas about finite sets, recursion and lists, and what they give for   *)
(* the operators of the home mixer: what the ads blenders make of posts    *)
(* and ads, and what filters, hydrators, sources, scorers and selectors    *)
(* make of candidates.                                                     *)
(***************************************************************************)
EXTENDS HomeEffects, TLAPS, FiniteSetTheorems, WellFoundedInduction

(* Finite sets in their order *)

\* Every set of numbers has a least: what inductions here start from.
LEMMA Smallest ==
    ASSUME NEW T, T \subseteq Nat, T # {}
    PROVE  \E n \in T : \A m \in T : n <= m
<1> DEFINE R == OpToRel(<, Nat)
<1>1. IsWellFoundedOn(R, Nat)
  BY NatLessThanWellFounded
<1>2. \A x, y \in Nat : y < x => <<y, x>> \in R
  BY DEF OpToRel
<1> HIDE DEF R
<1>3. PICK n \in T : \A m \in T : <<m, n>> \notin R
  BY <1>1, WFMin
<1>4. ASSUME NEW m \in T PROVE n <= m
  <2>1. m \in Nat /\ n \in Nat
    OBVIOUS
  <2>2. ~(m < n)
    BY <1>2, <1>3, <2>1
  <2> QED BY <2>1, <2>2
<1> QED BY <1>4

\* A function on the numbers from 1 is a sequence.
LEMMA AsSequence ==
    ASSUME NEW T, NEW n \in Nat, NEW f \in [1 .. n -> T]
    PROVE  f \in Seq(T) /\ Len(f) = n
OBVIOUS

\* Where an element of a finite set with a strict total order stands in it.
Below(S, R, x) == {y \in S : y = x \/ <<y, x>> \in R}
TotalOrder(S, R) ==
    /\ \A x \in S : <<x, x>> \notin R
    /\ \A x, y \in S : x # y => (<<x, y>> \in R <=> <<y, x>> \notin R)
    /\ \A x, y, z \in S : <<x, y>> \in R /\ <<y, z>> \in R => <<x, z>> \in R

\* A rank is one of as many numbers as there are elements, and grows along the order.
LEMMA RankRange ==
    ASSUME NEW S, IsFiniteSet(S), NEW R, TotalOrder(S, R), NEW x \in S
    PROVE  /\ IsFiniteSet(Below(S, R, x)) /\ Cardinality(Below(S, R, x)) \in 1 .. Cardinality(S)
           /\ \A y \in S : <<y, x>> \in R
                 => Cardinality(Below(S, R, y)) < Cardinality(Below(S, R, x))
<1>1. Below(S, R, x) \in SUBSET S /\ x \in Below(S, R, x)
  BY DEF Below
<1>2. /\ IsFiniteSet(Below(S, R, x)) /\ Cardinality(Below(S, R, x)) \in Nat
      /\ Cardinality(S) \in Nat /\ Cardinality(Below(S, R, x)) <= Cardinality(S)
  BY <1>1, FS_Subset, FS_CardinalityType
<1>3. Cardinality(Below(S, R, x)) # 0
  BY <1>1, <1>2, FS_EmptySet
<1>4. ASSUME NEW y \in S, <<y, x>> \in R
      PROVE  Cardinality(Below(S, R, y)) < Cardinality(Below(S, R, x))
  <2>1. Below(S, R, y) \in SUBSET Below(S, R, x)
    BY <1>4 DEF Below, TotalOrder
  <2>2. x \notin Below(S, R, y)
    BY <1>4 DEF Below, TotalOrder
  <2>3. /\ Cardinality(Below(S, R, y)) <= Cardinality(Below(S, R, x))
        /\ Cardinality(Below(S, R, y)) # Cardinality(Below(S, R, x))
    BY <1>1, <1>2, <2>1, <2>2, FS_Subset
  <2>4. Cardinality(Below(S, R, y)) \in Nat
    BY <1>2, <2>1, FS_Subset, FS_CardinalityType
  <2> QED BY <1>2, <2>3, <2>4
<1> QED BY <1>2, <1>3, <1>4

\* So ranks number the elements from 1, each once, in their order.
LEMMA RanksNumber ==
    ASSUME NEW S, IsFiniteSet(S), NEW R, TotalOrder(S, R)
    PROVE  /\ Cardinality(S) \in Nat
           /\ \A k \in 1 .. Cardinality(S) : \E x \in S : Cardinality(Below(S, R, x)) = k
           /\ \A x, y \in S : x # y => Cardinality(Below(S, R, x)) # Cardinality(Below(S, R, y))
           /\ \A x, y \in S : Cardinality(Below(S, R, x)) < Cardinality(Below(S, R, y))
                                 <=> <<x, y>> \in R
<1> DEFINE n == Cardinality(S)
           rank == [x \in S |-> Cardinality(Below(S, R, x))]
<1>1. n \in Nat
  BY FS_CardinalityType
<1>2. \A x \in S : rank[x] \in 1 .. n
  BY RankRange
<1>3. \A x, y \in S : <<x, y>> \in R => rank[x] < rank[y]
  BY RankRange
<1>4. \A x, y \in S : x # y => <<x, y>> \in R \/ <<y, x>> \in R
  BY DEF TotalOrder
<1> HIDE DEF n
<1>5. \A x, y \in S : x # y => rank[x] # rank[y]
  <2> SUFFICES ASSUME NEW x \in S, NEW y \in S, x # y PROVE rank[x] # rank[y]
    OBVIOUS
  <2>1. rank[x] \in 1 .. n /\ rank[y] \in 1 .. n
    BY <1>2
  <2>2. rank[x] < rank[y] \/ rank[y] < rank[x]
    BY <1>3, <1>4
  <2> QED BY <1>1, <2>1, <2>2
<1>6. rank \in Injection(S, 1 .. n)
  <2>1. rank \in [S -> 1 .. n]
    BY <1>2
  <2> QED BY <1>5, <2>1 DEF Injection, IsInjective
<1>7. IsFiniteSet(1 .. n) /\ Cardinality(1 .. n) = n
  BY <1>1, FS_Interval
<1>8. rank \in Surjection(S, 1 .. n)
  BY <1>6, <1>7, FS_Injection DEF n
<1>9. \A k \in 1 .. n : \E x \in S : rank[x] = k
  BY <1>8 DEF Surjection
<1>10. \A x, y \in S : rank[x] < rank[y] <=> <<x, y>> \in R
  <2> SUFFICES ASSUME NEW x \in S, NEW y \in S PROVE rank[x] < rank[y] <=> <<x, y>> \in R
    OBVIOUS
  <2>1. rank[x] \in 1 .. n /\ rank[y] \in 1 .. n
    BY <1>2
  <2>2. <<x, y>> \notin R => x = y \/ rank[y] < rank[x]
    BY <1>3, <1>4
  <2> QED BY <1>1, <1>3, <2>1, <2>2
<1> QED BY <1>1, <1>5, <1>9, <1>10 DEF n

\* A finite set of numbers, in its order.
LEMMA AscendingSorts ==
    ASSUME NEW S, S \subseteq Int, IsFiniteSet(S)
    PROVE  /\ Cardinality(S) \in Nat
           /\ Ascending(S) \in [1 .. Cardinality(S) -> S]
           /\ \A n \in S : \E k \in 1 .. Cardinality(S) : Ascending(S)[k] = n
           /\ \A j, k \in 1 .. Cardinality(S) : j < k => Ascending(S)[j] < Ascending(S)[k]
<1> DEFINE R == {p \in S \X S : p[1] < p[2]}
           a == Ascending(S)
<1>1. \A x, y \in S : <<x, y>> \in R <=> x < y
  OBVIOUS
<1>2. \A x \in S : Below(S, R, x) = {m \in S : m <= x}
  <2> SUFFICES ASSUME NEW x \in S PROVE Below(S, R, x) = {m \in S : m <= x}
    OBVIOUS
  <2>1. \A m \in S : (m = x \/ <<m, x>> \in R) <=> m <= x
    BY <1>1
  <2> QED BY <2>1 DEF Below
<1>3. TotalOrder(S, R)
  BY <1>1 DEF TotalOrder
<1> HIDE DEF R
<1>4. Cardinality(S) \in Nat
  BY FS_CardinalityType
<1>5. \A k \in 1 .. Cardinality(S) : a[k] \in S /\ Cardinality(Below(S, R, a[k])) = k
  <2> SUFFICES ASSUME NEW k \in 1 .. Cardinality(S)
               PROVE  a[k] \in S /\ Cardinality(Below(S, R, a[k])) = k
    OBVIOUS
  <2>1. \E n \in S : Cardinality({m \in S : m <= n}) = k
    <3>1. PICK n \in S : Cardinality(Below(S, R, n)) = k
      BY <1>3, RanksNumber
    <3> QED BY <1>2, <3>1
  <2>2. Nth(S, k) \in S /\ Cardinality({m \in S : m <= Nth(S, k)}) = k
    BY <2>1 DEF Nth
  <2> QED BY <1>2, <2>2 DEF Ascending
<1>6. \A n \in S : Cardinality(Below(S, R, n)) \in 1 .. Cardinality(S)
  BY <1>3, RankRange
<1>7. \A n \in S : a[Cardinality(Below(S, R, n))] = n
  BY <1>3, <1>5, <1>6, RanksNumber
<1>8. \A j, k \in 1 .. Cardinality(S) : j < k => a[j] < a[k]
  <2> SUFFICES ASSUME NEW j \in 1 .. Cardinality(S), NEW k \in 1 .. Cardinality(S), j < k
               PROVE  a[j] < a[k]
    OBVIOUS
  <2>1. Cardinality(Below(S, R, a[j])) < Cardinality(Below(S, R, a[k]))
    BY <1>5
  <2>2. <<a[j], a[k]>> \in R
    BY <1>3, <1>5, <2>1, RanksNumber
  <2> QED BY <1>1, <1>5, <2>2
<1>9. a \in [1 .. Cardinality(S) -> S]
  BY <1>5 DEF Ascending
<1> QED BY <1>4, <1>6, <1>7, <1>8, <1>9
-----------------------------------------------------------------------------
(* Recursion *)

\* Recursion along the numbers gives a function.
Runs(f, T, n, base, step) ==
    f \in [0 .. n -> T] /\ f[0] = base /\ \A k \in 1 .. n : f[k] = step[<<k, f[k - 1]>>]
Steps(T, n, base, step) ==
    n \in Nat /\ base \in T /\ step \in [(1 .. n) \X T -> T]

\* A recursion on 0 .. n with steps inside T has a value: the prover knows a
\* recursive function only once one is known to exist.
LEMMA Iterates ==
    ASSUME NEW T, NEW n, NEW base, NEW step, Steps(T, n, base, step)
    PROVE  \E f : Runs(f, T, n, base, step)
<1> USE DEF Steps, Runs
<1> DEFINE Is(f, m) == f[0] = base /\ \A k \in 1 .. m : f[k] = step[<<k, f[k - 1]>>]
           Missing == {m \in 0 .. n : ~\E f \in [0 .. m -> T] : Is(f, m)}
<1>1. SUFFICES ASSUME Missing # {} PROVE FALSE
  <2>1. n \in 0 .. n
    OBVIOUS
  <2> QED BY <1>1, <2>1
<1>2. PICK m \in Missing : \A x \in Missing : m <= x
  <2>1. Missing \subseteq Nat
    OBVIOUS
  <2> HIDE DEF Missing
  <2> QED BY <1>1, <2>1, Smallest
<1>3. m \in 0 .. n /\ ~\E f \in [0 .. m -> T] : Is(f, m)
  OBVIOUS
<1>4. CASE m = 0
  <2>1. [k \in 0 .. 0 |-> base] \in [0 .. 0 -> T] /\ Is([k \in 0 .. 0 |-> base], 0)
    OBVIOUS
  <2> QED BY <1>3, <1>4, <2>1
<1>5. CASE m # 0
  <2>1. m - 1 \in 0 .. n /\ m - 1 \notin Missing
    BY <1>2, <1>3, <1>5
  <2>2. PICK f \in [0 .. m - 1 -> T] : Is(f, m - 1)
    BY <2>1
  <2> DEFINE g == [k \in 0 .. m |-> IF k = m THEN step[<<m, f[m - 1]>>] ELSE f[k]]
  <2>3. m \in 1 .. n /\ f[m - 1] \in T
    BY <1>3, <1>5
  <2>4. step[<<m, f[m - 1]>>] \in T
    BY <2>3
  <2>5. g \in [0 .. m -> T]
    BY <2>3, <2>4
  <2>6. \A k \in 1 .. m : g[k] = step[<<k, g[k - 1]>>]
    <3> SUFFICES ASSUME NEW k \in 1 .. m PROVE g[k] = step[<<k, g[k - 1]>>]
      OBVIOUS
    <3>1. g[k - 1] = f[k - 1] /\ k \in 0 .. m /\ g[k] = IF k = m THEN step[<<m, f[m - 1]>>] ELSE f[k]
      BY <2>3
    <3>2. CASE k = m
      <4>1. g[k] = step[<<m, f[m - 1]>>] /\ g[k - 1] = f[m - 1]
        BY <3>1, <3>2
      <4> QED BY <3>2, <4>1
    <3>3. CASE k # m
      <4>1. k \in 1 .. m - 1
        BY <2>3, <3>3
      <4>2. f[k] = step[<<k, f[k - 1]>>]
        BY <2>2, <4>1
      <4> QED BY <3>1, <3>3, <4>2
    <3> QED BY <3>2, <3>3
  <2>7. g[0] = base
    BY <2>2, <2>3
  <2> QED BY <1>3, <2>5, <2>6, <2>7
<1> QED BY <1>4, <1>5

\* What a recursion starts in and no step leaves, it ends in.
LEMMA StaysIn ==
    ASSUME NEW T, NEW n \in Nat, NEW g, g[0] \in T,
           \A k \in 1 .. n : g[k - 1] \in T => g[k] \in T
    PROVE  \A k \in 0 .. n : g[k] \in T
<1> DEFINE Out == {k \in 0 .. n : g[k] \notin T}
<1> SUFFICES ASSUME Out # {} PROVE FALSE
  OBVIOUS
<1>1. PICK k \in Out : \A x \in Out : k <= x
  <2>1. Out \subseteq Nat
    OBVIOUS
  <2> HIDE DEF Out
  <2> QED BY <2>1, Smallest
<1>2. k \in 1 .. n /\ k - 1 \in 0 .. n /\ k - 1 \notin Out
  BY <1>1
<1> QED BY <1>1, <1>2

-----------------------------------------------------------------------------
(* What the stages make of lists *)

\* Picking places of a sequence keeps their order.
LEMMA Picked ==
    ASSUME NEW T, NEW s \in Seq(T), NEW places, places \subseteq DOMAIN s
    PROVE  LET p == PickAt(s, places)
               a == Ascending(places)
           IN  /\ p \in Seq(T) /\ Len(p) = Cardinality(places) /\ a \in Seq(places) /\ Len(a) = Len(p)
               /\ \A i \in 1 .. Len(p) : a[i] \in places /\ p[i] = s[a[i]]
               /\ \A i, j \in 1 .. Len(p) : i < j => a[i] < a[j]
               /\ \A m \in places : \E i \in 1 .. Len(p) : a[i] = m
<1> DEFINE p == PickAt(s, places)
           a == Ascending(places)
           n == Cardinality(places)
<1>1. places \subseteq Int /\ IsFiniteSet(places)
  <2>1. DOMAIN s = 1 .. Len(s) /\ Len(s) \in Nat
    OBVIOUS
  <2>2. IsFiniteSet(1 .. Len(s))
    BY <2>1, FS_Interval
  <2> QED BY <2>1, <2>2, FS_Subset
<1>2. /\ n \in Nat /\ a \in [1 .. n -> places]
      /\ \A m \in places : \E i \in 1 .. n : a[i] = m
      /\ \A i, j \in 1 .. n : i < j => a[i] < a[j]
  BY <1>1, AscendingSorts
<1> HIDE DEF a, n
<1>3. a \in Seq(places) /\ Len(a) = n
  BY <1>2, AsSequence
<1>4. p = [i \in 1 .. n |-> s[a[i]]]
  BY <1>3 DEF PickAt, MapSeq, a
<1> HIDE DEF p
<1>5. \A i \in 1 .. n : a[i] \in places /\ s[a[i]] \in T
  BY <1>2
<1>6. p \in [1 .. n -> T]
  BY <1>4, <1>5
<1>7. p \in Seq(T) /\ Len(p) = n
  BY <1>2, <1>6, AsSequence
<1> QED BY <1>2, <1>3, <1>4, <1>5, <1>7 DEF p, a, n

\* The front and the rest of a sequence.
LEMMA Cut ==
    ASSUME NEW T, NEW s \in Seq(T), NEW n \in Nat
    PROVE  /\ Take(s, n) \in Seq(T) /\ Skip(s, n) \in Seq(T)
           /\ Len(Take(s, n)) <= Len(s) /\ Len(Take(s, n)) <= n
           /\ \A i \in 1 .. Len(Take(s, n)) : Take(s, n)[i] = s[i]
           /\ \A i \in 1 .. Len(Skip(s, n)) : n + i \in 1 .. Len(s) /\ Skip(s, n)[i] = s[n + i]
<1>1. Len(s) \in Nat /\ Least(n, Len(s)) \in 0 .. Len(s) /\ Least(n, Len(s)) <= n
  BY DEF Least
<1>2. Take(s, n) = SubSeq(s, 1, Least(n, Len(s))) /\ Skip(s, n) = SubSeq(s, n + 1, Len(s))
  BY DEF Take, Skip
<1>3. Take(s, n) \in Seq(T) /\ Len(Take(s, n)) = Least(n, Len(s))
  BY <1>1, <1>2
<1>4. Skip(s, n) \in Seq(T)
  BY <1>1, <1>2
<1>5. \A i \in 1 .. Len(Take(s, n)) : Take(s, n)[i] = s[i]
  BY <1>1, <1>2, <1>3
<1>6. \A i \in 1 .. Len(Skip(s, n)) : n + i \in 1 .. Len(s) /\ Skip(s, n)[i] = s[n + i]
  BY <1>1, <1>2
<1> QED BY <1>1, <1>3, <1>4, <1>5, <1>6

\* A list is another in the order of its scores, from the highest.
SortedBy(s, cs, scores) ==
    \E at \in [1 .. Len(cs) -> 1 .. Len(cs)] :
        /\ \A k \in 1 .. Len(cs) : s[k] = cs[at[k]]
        /\ \A j, k \in 1 .. Len(cs) : j # k => at[j] # at[k]
        /\ \A j, k \in 1 .. Len(cs) : j < k => scores[at[j]] >= scores[at[k]]
        /\ \A i \in 1 .. Len(cs) : \E k \in 1 .. Len(cs) : at[k] = i

\* Sorting puts every candidate at one place.
LEMMA Sorted ==
    ASSUME NEW T, NEW cs \in Seq(T), NEW scores, \A i \in 1 .. Len(cs) : scores[i] \in Int
    PROVE  LET s == SortByScore(cs, scores)
           IN  s \in Seq(T) /\ Len(s) = Len(cs) /\ SortedBy(s, cs, scores)
<1> DEFINE n == Len(cs)
           S == 1 .. n
           R == {p \in S \X S : \/ scores[p[1]] > scores[p[2]]
                                \/ scores[p[1]] = scores[p[2]] /\ p[1] < p[2]}
           Place(i) == Cardinality({j \in DOMAIN cs :
                                      scores[j] > scores[i] \/ (scores[j] = scores[i] /\ j <= i)})
           at == [k \in S |-> CHOOSE i \in DOMAIN cs : Place(i) = k]
           s == SortByScore(cs, scores)
<1>0. n \in Nat /\ DOMAIN cs = S
  OBVIOUS
<1> HIDE DEF n
<1>1. n \in Nat /\ DOMAIN cs = S /\ IsFiniteSet(S) /\ Cardinality(S) = n
  <2>1. IsFiniteSet(1 .. n) /\ Cardinality(1 .. n) = IF 1 > n THEN 0 ELSE n - 1 + 1
    BY <1>0, FS_Interval
  <2> QED BY <1>0, <2>1
<1>2. \A x, y \in S : <<x, y>> \in R <=> (scores[x] > scores[y] \/ (scores[x] = scores[y] /\ x < y))
  OBVIOUS
<1>3. S \subseteq Int /\ \A i \in S : scores[i] \in Int
  BY DEF n
<1> HIDE DEF S, R
<1>4. TotalOrder(S, R)
  <2>1. \A x \in S : <<x, x>> \notin R
    BY <1>2, <1>3
  <2>2. \A x, y \in S : x # y => (<<x, y>> \in R <=> <<y, x>> \notin R)
    BY <1>2, <1>3
  <2>3. \A x, y, z \in S : <<x, y>> \in R /\ <<y, z>> \in R => <<x, z>> \in R
    <3> SUFFICES ASSUME NEW x \in S, NEW y \in S, NEW z \in S, <<x, y>> \in R, <<y, z>> \in R
                 PROVE  <<x, z>> \in R
      OBVIOUS
    <3>1. x \in Int /\ y \in Int /\ z \in Int /\ scores[x] \in Int /\ scores[y] \in Int /\ scores[z] \in Int
      BY <1>3
    <3>2. scores[x] > scores[z] \/ (scores[x] = scores[z] /\ x < z)
      BY <1>2, <3>1
    <3> QED BY <1>2, <3>2
  <2> QED BY <2>1, <2>2, <2>3 DEF TotalOrder
<1>5. \A i \in S : Place(i) = Cardinality(Below(S, R, i))
  <2> SUFFICES ASSUME NEW i \in S PROVE Place(i) = Cardinality(Below(S, R, i))
    OBVIOUS
  <2>1. \A j \in S : (scores[j] > scores[i] \/ (scores[j] = scores[i] /\ j <= i))
                        <=> (j = i \/ <<j, i>> \in R)
    BY <1>2, <1>3
  <2>2. {j \in DOMAIN cs : scores[j] > scores[i] \/ (scores[j] = scores[i] /\ j <= i)} = Below(S, R, i)
    BY <1>1, <2>1 DEF Below
  <2> QED BY <2>2
<1> HIDE DEF Place
<1>6. \A k \in S : at[k] \in S /\ Place(at[k]) = k
  <2> SUFFICES ASSUME NEW k \in S PROVE at[k] \in S /\ Place(at[k]) = k
    OBVIOUS
  <2>1. k \in 1 .. Cardinality(S)
    BY <1>1 DEF S
  <2>2. \E i \in S : Cardinality(Below(S, R, i)) = k
    BY <1>1, <1>4, <2>1, RanksNumber
  <2>3. \E i \in DOMAIN cs : Place(i) = k
    BY <1>1, <1>5, <2>2
  <2> QED BY <1>1, <2>3
<1>7. at \in [S -> S]
  BY <1>6
<1>8. \A j, k \in S : j < k => scores[at[j]] >= scores[at[k]]
  <2> SUFFICES ASSUME NEW j \in S, NEW k \in S, j < k PROVE scores[at[j]] >= scores[at[k]]
    OBVIOUS
  <2>1. /\ at[j] \in S /\ at[k] \in S
        /\ Cardinality(Below(S, R, at[j])) = j /\ Cardinality(Below(S, R, at[k])) = k
    BY <1>5, <1>6
  <2>2. <<at[j], at[k]>> \in R
    <3>1. Cardinality(Below(S, R, at[j])) < Cardinality(Below(S, R, at[k]))
      BY <2>1
    <3>2. \A x, y \in S : Cardinality(Below(S, R, x)) < Cardinality(Below(S, R, y)) => <<x, y>> \in R
      BY <1>1, <1>4, RanksNumber
    <3> HIDE DEF at
    <3> QED BY <2>1, <3>1, <3>2
  <2>3. scores[at[j]] \in Int /\ scores[at[k]] \in Int
    BY <1>3, <2>1
  <2>4. scores[at[j]] > scores[at[k]] \/ scores[at[j]] = scores[at[k]]
    BY <1>2, <2>1, <2>2
  <2> QED BY <2>3, <2>4
<1>9. \A i \in S : \E k \in S : at[k] = i
  <2> SUFFICES ASSUME NEW i \in S PROVE \E k \in S : at[k] = i
    OBVIOUS
  <2>1. Cardinality(Below(S, R, i)) \in 1 .. Cardinality(S)
    BY <1>1, <1>4, RankRange
  <2>2. Place(i) \in S
    BY <1>1, <1>5, <2>1 DEF S
  <2>3. at[Place(i)] \in S /\ Cardinality(Below(S, R, at[Place(i)])) = Cardinality(Below(S, R, i))
    BY <1>5, <1>6, <2>2
  <2>4. at[Place(i)] = i
    BY <1>1, <1>4, <2>3, RanksNumber
  <2> QED BY <2>2, <2>4
<1>10. \A j, k \in S : j # k => at[j] # at[k]
  BY <1>6
<1>11. s = [k \in S |-> cs[at[k]]]
  <2>1. s = [k \in S |-> cs[CHOOSE i \in DOMAIN cs : Place(i) = k]]
    BY DEF SortByScore, S, n, Place
  <2> QED BY <2>1
<1> HIDE DEF at, s
<1>12. \A k \in S : cs[at[k]] \in T
  BY <1>1, <1>7
<1>13. s \in Seq(T) /\ Len(s) = n
  <2>1. s \in [1 .. n -> T]
    BY <1>11, <1>12 DEF S
  <2> QED BY <1>1, <2>1, AsSequence
<1>14. SortedBy(s, cs, scores)
  <2>1. \A k \in S : s[k] = cs[at[k]]
    BY <1>11
  <2> QED BY <1>7, <1>8, <1>9, <1>10, <2>1 DEF SortedBy, S, n
<1> QED BY <1>13, <1>14 DEF s, n

\* Joining sequences is a recursion along them.
LEMMA FlattenSteps ==
    ASSUME NEW T, NEW seqs \in Seq(Seq(T))
    PROVE  \E h : /\ h[0] = <<>> /\ h[0] \in Seq(T)
                  /\ \A k \in 1 .. Len(seqs) : h[k - 1] \in Seq(T) => h[k] = h[k - 1] \o seqs[k] /\ h[k] \in Seq(T)
                  /\ FlattenSeq(seqs) = h[Len(seqs)]
<1> DEFINE n == Len(seqs)
           L == Seq(T)
           joining == [p \in (1 .. n) \X L |-> IF p[1] = 1 THEN seqs[p[1]] ELSE p[2] \o seqs[p[1]]]
           flatten[i \in 1..n] == IF i = 1 THEN seqs[i] ELSE flatten[i - 1] \o seqs[i]
<1>1. n \in Nat /\ \A i \in 1 .. n : seqs[i] \in L
  OBVIOUS
<1>2. \A t, u \in L : t \o u \in L
  OBVIOUS
<1>3. <<>> \in L
  OBVIOUS
<1>4. FlattenSeq(seqs) = IF n = 0 THEN seqs ELSE flatten[n]
  BY DEF FlattenSeq
<1>5. n = 0 => seqs = <<>>
  OBVIOUS
<1> HIDE DEF n, L
<1>6. joining \in [(1 .. n) \X L -> L]
  BY <1>1, <1>2
<1>7. Steps(L, n, <<>>, joining)
  BY <1>1, <1>3, <1>6 DEF Steps
<1> HIDE DEF joining
<1>8. PICK f : Runs(f, L, n, <<>>, joining)
  BY <1>7, Iterates
<1>9. \A k \in 1 .. n : f[k] = IF k = 1 THEN seqs[k] ELSE f[k - 1] \o seqs[k]
  <2> SUFFICES ASSUME NEW k \in 1 .. n PROVE f[k] = IF k = 1 THEN seqs[k] ELSE f[k - 1] \o seqs[k]
    OBVIOUS
  <2>1. f[k - 1] \in L
    BY <1>1, <1>8 DEF Runs
  <2>2. <<k, f[k - 1]>> \in (1 .. n) \X L
    BY <2>1
  <2>3. joining[<<k, f[k - 1]>>] = IF k = 1 THEN seqs[k] ELSE f[k - 1] \o seqs[k]
    BY <2>2 DEF joining
  <2> QED BY <1>8, <2>3 DEF Runs
<1> DEFINE g == [k \in 1 .. n |-> f[k]]
<1>10. g = [i \in 1 .. n |-> IF i = 1 THEN seqs[i] ELSE g[i - 1] \o seqs[i]]
  <2>1. \A k \in 1 .. n : k # 1 => k - 1 \in 1 .. n /\ g[k - 1] = f[k - 1]
    BY <1>1
  <2>2. \A k \in 1 .. n : g[k] = IF k = 1 THEN seqs[k] ELSE g[k - 1] \o seqs[k]
    BY <1>9, <2>1
  <2> QED BY <2>2
<1> HIDE DEF g
<1>11. flatten = [i \in 1 .. n |-> IF i = 1 THEN seqs[i] ELSE flatten[i - 1] \o seqs[i]]
  BY <1>10
<1> HIDE DEF flatten
<1>12. \A i \in 1 .. n : flatten[i] = IF i = 1 THEN seqs[i] ELSE flatten[i - 1] \o seqs[i]
  BY <1>11
<1> DEFINE h == [k \in 0 .. n |-> IF k = 0 THEN <<>> ELSE flatten[k]]
<1>13. h[0] = <<>> /\ h[0] \in L
  BY <1>1, <1>3
<1>14. \A k \in 1 .. n : h[k - 1] \in L => h[k] = h[k - 1] \o seqs[k] /\ h[k] \in L
  <2> SUFFICES ASSUME NEW k \in 1 .. n, h[k - 1] \in L PROVE h[k] = h[k - 1] \o seqs[k] /\ h[k] \in L
    OBVIOUS
  <2>1. k \in 0 .. n /\ k - 1 \in 0 .. n /\ h[k] = flatten[k] /\ seqs[k] \in L
    BY <1>1
  <2>2. h[k] = h[k - 1] \o seqs[k]
    <3>1. CASE k = 1
      <4>1. h[k - 1] = <<>> /\ h[k] = seqs[k]
        BY <1>12, <2>1, <3>1
      <4>2. <<>> \o seqs[k] = seqs[k]
        BY <2>1 DEF L
      <4> QED BY <4>1, <4>2
    <3>2. CASE k # 1
      <4>1. h[k - 1] = flatten[k - 1]
        BY <1>1, <2>1, <3>2
      <4>2. flatten[k] = flatten[k - 1] \o seqs[k]
        BY <1>12, <3>2
      <4> QED BY <2>1, <4>1, <4>2
    <3> QED BY <3>1, <3>2
  <2> QED BY <1>2, <2>1, <2>2
<1>15. FlattenSeq(seqs) = h[n]
  BY <1>1, <1>4, <1>5
<1> HIDE DEF h
<1> QED BY <1>13, <1>14, <1>15 DEF L, n

\* Joining sequences over T gives one over T.
LEMMA Flattened ==
    ASSUME NEW T, NEW seqs \in Seq(Seq(T))
    PROVE  FlattenSeq(seqs) \in Seq(T)
<1>1. PICK h : /\ h[0] = <<>> /\ h[0] \in Seq(T)
               /\ \A k \in 1 .. Len(seqs) : h[k - 1] \in Seq(T) => h[k] = h[k - 1] \o seqs[k] /\ h[k] \in Seq(T)
               /\ FlattenSeq(seqs) = h[Len(seqs)]
  BY FlattenSteps
<1>2. Len(seqs) \in Nat /\ Len(seqs) \in 0 .. Len(seqs)
  OBVIOUS
<1>3. \A k \in 1 .. Len(seqs) : h[k - 1] \in Seq(T) => h[k] \in Seq(T)
  BY <1>1
<1>4. \A k \in 0 .. Len(seqs) : h[k] \in Seq(T)
  BY <1>1, <1>2, <1>3, StaysIn
<1> QED BY <1>1, <1>2, <1>4

\* A list of whatever it holds.
Listed(s) == s \in Seq(Range1(s))

\* What is in an option.
LEMMA Gets == \A v, d : Get(Some(v), d) = v /\ Get(None, d) = d /\ Some(v) # None
BY DEF Get, Some, None

\* A sequence over T is a list of elements of T.
LEMMA ListOf ==
    ASSUME NEW T, NEW s \in Seq(T)
    PROVE  Listed(s) /\ Range1(s) \subseteq T
BY DEF Listed, Range1

\* Keys that differ.
Apart(keys) == \A i, j \in 1 .. Len(keys) : i # j => keys[i] # keys[j]

\* The elements of a part are those of a list at different places.
Drawn(part, s) ==
    \E at \in [1 .. Len(part) -> 1 .. Len(s)] :
        /\ \A k \in 1 .. Len(part) : part[k] = s[at[k]]
        /\ \A j, k \in 1 .. Len(part) : j # k => at[j] # at[k]

\* Drawing twice is drawing.
LEMMA DrawnTwice ==
    ASSUME NEW s, NEW t, NEW u, Drawn(t, s), Drawn(u, t)
    PROVE  Drawn(u, s)
<1>1. PICK f \in [1 .. Len(t) -> 1 .. Len(s)] :
          /\ \A k \in 1 .. Len(t) : t[k] = s[f[k]]
          /\ \A j, k \in 1 .. Len(t) : j # k => f[j] # f[k]
  BY DEF Drawn
<1>2. PICK g \in [1 .. Len(u) -> 1 .. Len(t)] :
          /\ \A k \in 1 .. Len(u) : u[k] = t[g[k]]
          /\ \A j, k \in 1 .. Len(u) : j # k => g[j] # g[k]
  BY DEF Drawn
<1> DEFINE h == [k \in 1 .. Len(u) |-> f[g[k]]]
<1>3. \A k \in 1 .. Len(u) : g[k] \in 1 .. Len(t) /\ f[g[k]] \in 1 .. Len(s)
  BY <1>1, <1>2
<1>4. h \in [1 .. Len(u) -> 1 .. Len(s)] /\ \A k \in 1 .. Len(u) : h[k] = f[g[k]]
  BY <1>3
<1> HIDE DEF h
<1>5. \A k \in 1 .. Len(u) : u[k] = s[h[k]]
  BY <1>1, <1>2, <1>3, <1>4
<1>6. \A j, k \in 1 .. Len(u) : j # k => h[j] # h[k]
  BY <1>1, <1>2, <1>3, <1>4
<1> QED BY <1>4, <1>5, <1>6 DEF Drawn

\* A list is drawn from itself.
LEMMA DrawnWhole == \A s : Drawn(s, s)
<1> SUFFICES ASSUME NEW s PROVE Drawn(s, s)
  OBVIOUS
<1> DEFINE at == [k \in 1 .. Len(s) |-> k]
<1>1. at \in [1 .. Len(s) -> 1 .. Len(s)] /\ \A k \in 1 .. Len(s) : at[k] = k
  OBVIOUS
<1> HIDE DEF at
<1>2. \A k \in 1 .. Len(s) : s[k] = s[at[k]]
  BY <1>1
<1>3. \A j, k \in 1 .. Len(s) : j # k => at[j] # at[k]
  BY <1>1
<1> QED BY <1>1, <1>2, <1>3 DEF Drawn

\* What is picked at some places is drawn, and shares no id with the rest.
LEMMA PickedDrawn ==
    ASSUME NEW s, Listed(s), NEW places, places \subseteq DOMAIN s
    PROVE  LET p == PickAt(s, places)
           IN  /\ Listed(p) /\ Drawn(p, s)
               /\ \A i \in 1 .. Len(p) : \E m \in places : p[i] = s[m]
<1> DEFINE T == Range1(s)
           p == PickAt(s, places)
           a == Ascending(places)
<1>1. s \in Seq(T)
  BY DEF Listed
<1> HIDE DEF T
<1>2. /\ p \in Seq(T)
      /\ \A i \in 1 .. Len(p) : a[i] \in places /\ p[i] = s[a[i]]
      /\ \A i, j \in 1 .. Len(p) : i < j => a[i] < a[j]
  <2>1. p \in Seq(T)
    BY <1>1, Picked
  <2>2. \A i \in 1 .. Len(p) : a[i] \in places /\ p[i] = s[a[i]]
    BY <1>1, Picked
  <2>3. \A i, j \in 1 .. Len(p) : i < j => a[i] < a[j]
    BY <1>1, Picked
  <2> QED BY <2>1, <2>2, <2>3
<1> HIDE DEF p, a
<1>3. Listed(p) /\ Len(p) \in Nat
  BY <1>2, ListOf
<1>4. \A i \in 1 .. Len(p) : a[i] \in 1 .. Len(s)
  BY <1>1, <1>2
<1> DEFINE at == [i \in 1 .. Len(p) |-> a[i]]
<1>5. at \in [1 .. Len(p) -> 1 .. Len(s)] /\ \A i \in 1 .. Len(p) : at[i] = a[i]
  BY <1>4
<1> HIDE DEF at
<1>6. \A i, j \in 1 .. Len(p) : i # j => at[i] # at[j]
  <2> SUFFICES ASSUME NEW i \in 1 .. Len(p), NEW j \in 1 .. Len(p), i # j PROVE at[i] # at[j]
    OBVIOUS
  <2>1. at[i] = a[i] /\ at[j] = a[j] /\ a[i] \in Int /\ a[j] \in Int
    BY <1>4, <1>5
  <2>2. CASE i < j
    BY <1>2, <2>1, <2>2
  <2>3. CASE j < i
    BY <1>2, <2>1, <2>3
  <2> QED BY <2>2, <2>3
<1>7. Drawn(p, s)
  BY <1>2, <1>5, <1>6 DEF Drawn
<1> QED BY <1>2, <1>3, <1>7 DEF p

\* Sorting draws all.
LEMMA SortedDrawn ==
    ASSUME NEW cs, Listed(cs), NEW scores, \A i \in 1 .. Len(cs) : scores[i] \in Int
    PROVE  Listed(SortByScore(cs, scores)) /\ Drawn(SortByScore(cs, scores), cs)
<1>1. cs \in Seq(Range1(cs))
  BY DEF Listed
<1> DEFINE s == SortByScore(cs, scores)
<1>2. Len(s) = Len(cs) /\ s \in Seq(Range1(cs)) /\ SortedBy(s, cs, scores)
  BY <1>1, Sorted
<1> HIDE DEF s
<1>4. PICK at \in [1 .. Len(cs) -> 1 .. Len(cs)] :
          /\ \A k \in 1 .. Len(cs) : s[k] = cs[at[k]]
          /\ \A j, k \in 1 .. Len(cs) : j # k => at[j] # at[k]
  BY <1>2 DEF SortedBy
<1>5. at \in [1 .. Len(s) -> 1 .. Len(cs)]
  BY <1>2
<1>6. Drawn(s, cs)
  BY <1>2, <1>4, <1>5 DEF Drawn
<1>7. Listed(s)
  BY <1>2, ListOf
<1> QED BY <1>6, <1>7 DEF s

\* What holds at 0 and is handed on, holds up to n.
LEMMA Counting ==
    ASSUME NEW n \in Nat, NEW S, 0 \in S, \A k \in 1 .. n : k - 1 \in S => k \in S
    PROVE  \A k \in 0 .. n : k \in S
<1> DEFINE same == [k \in 0 .. n |-> k]
<1>1. \A k \in 0 .. n : same[k] = k
  OBVIOUS
<1> HIDE DEF same
<1>2. same[0] \in S
  BY <1>1
<1>3. \A k \in 1 .. n : same[k - 1] \in S => same[k] \in S
  <2> SUFFICES ASSUME NEW k \in 1 .. n, same[k - 1] \in S PROVE same[k] \in S
    OBVIOUS
  <2>1. k \in 0 .. n /\ k - 1 \in 0 .. n
    OBVIOUS
  <2>2. k - 1 \in S
    BY <1>1, <2>1
  <2> QED BY <1>1, <2>1, <2>2
<1>4. \A k \in 0 .. n : same[k] \in S
  BY <1>2, <1>3, StaysIn
<1> QED BY <1>1, <1>4

\* A set has one ascending order.
LEMMA AscendingIs ==
    ASSUME NEW S, S \subseteq Int, NEW n \in Nat, NEW f \in [1 .. n -> S],
           \A j, k \in 1 .. n : j < k => f[j] < f[k],
           \A m \in S : \E k \in 1 .. n : f[k] = m
    PROVE  IsFiniteSet(S) /\ Cardinality(S) = n /\ Ascending(S) = f
<1> DEFINE a == Ascending(S)
<1>1. \A j, k \in 1 .. n : j # k => f[j] # f[k]
  <2> SUFFICES ASSUME NEW j \in 1 .. n, NEW k \in 1 .. n, j # k PROVE f[j] # f[k]
    OBVIOUS
  <2>1. f[j] \in S /\ f[k] \in S /\ (j < k \/ k < j)
    OBVIOUS
  <2>2. f[j] \in Int /\ f[k] \in Int
    BY <2>1
  <2> QED BY <2>1, <2>2
<1>2. f \in Bijection(1 .. n, S)
  BY <1>1 DEF Bijection, Injection, IsInjective, Surjection
<1>3. IsFiniteSet(1 .. n) /\ Cardinality(1 .. n) = n
  BY FS_Interval
<1>4. IsFiniteSet(S) /\ Cardinality(S) = n
  BY <1>2, <1>3, FS_Bijection, FS_Surjection DEF Bijection
<1>5. /\ a \in [1 .. n -> S]
      /\ \A m \in S : \E k \in 1 .. n : a[k] = m
      /\ \A j, k \in 1 .. n : j < k => a[j] < a[k]
  BY <1>4, AscendingSorts
<1> HIDE DEF a
<1> DEFINE Same == {k \in 0 .. n : \A j \in 1 .. k : f[j] = a[j]}
<1>6. 0 \in Same
  OBVIOUS
<1>7. ASSUME NEW k \in 1 .. n, k - 1 \in Same PROVE k \in Same
  <2>1. \A j \in 1 .. k - 1 : f[j] = a[j] /\ j \in 1 .. n
    BY <1>7
  <2>2. f[k] \in S /\ a[k] \in S /\ f[k] \in Int /\ a[k] \in Int
    BY <1>5
  <2>3. ~(f[k] < a[k])
    <3> SUFFICES ASSUME f[k] < a[k] PROVE FALSE
      OBVIOUS
    <3>1. PICK j \in 1 .. n : a[j] = f[k]
      BY <1>5, <2>2
    <3>2. j < k
      <4> SUFFICES ASSUME ~(j < k) PROVE FALSE
        OBVIOUS
      <4>1. j = k \/ k < j
        OBVIOUS
      <4>2. a[j] \in Int
        BY <2>2, <3>1
      <4> QED BY <1>5, <2>2, <3>1, <4>1, <4>2
    <3>3. f[j] = f[k]
      BY <2>1, <3>1, <3>2
    <3> QED BY <1>1, <3>2, <3>3
  <2>4. ~(a[k] < f[k])
    <3> SUFFICES ASSUME a[k] < f[k] PROVE FALSE
      OBVIOUS
    <3>1. PICK j \in 1 .. n : f[j] = a[k]
      BY <2>2
    <3>2. j < k
      <4> SUFFICES ASSUME ~(j < k) PROVE FALSE
        OBVIOUS
      <4>1. j = k \/ k < j
        OBVIOUS
      <4>2. f[j] \in Int
        BY <2>2, <3>1
      <4> QED BY <2>2, <3>1, <4>1, <4>2
    <3>3. a[j] = a[k]
      BY <2>1, <3>1, <3>2
    <3>4. a[j] < a[k]
      BY <1>5, <3>2
    <3> QED BY <2>2, <3>3, <3>4
  <2>5. f[k] = a[k]
    BY <2>2, <2>3, <2>4
  <2> QED BY <2>1, <2>5
<1> HIDE DEF Same
<1>8. \A k \in 0 .. n : k \in Same
  BY <1>6, <1>7, Counting
<1>9. n \in Same
  BY <1>8
<1>10. f = a
  BY <1>5, <1>9 DEF Same
<1> QED BY <1>4, <1>10 DEF a

\* Two lists joined: what stands where.
LEMMA Join ==
    ASSUME NEW T, NEW s \in Seq(T), NEW t \in Seq(T)
    PROVE  /\ s \o t \in Seq(T) /\ Len(s \o t) = Len(s) + Len(t)
           /\ \A i \in 1 .. Len(s) : i \in 1 .. Len(s \o t) /\ (s \o t)[i] = s[i]
           /\ \A i \in 1 .. Len(t) : Len(s) + i \in 1 .. Len(s \o t) /\ (s \o t)[Len(s) + i] = t[i]
           /\ \A i \in 1 .. Len(s \o t) : i \in 1 .. Len(s) \/ \E j \in 1 .. Len(t) : i = Len(s) + j
<1>1. Len(s) \in Nat /\ Len(t) \in Nat /\ s \o t \in Seq(T) /\ Len(s \o t) = Len(s) + Len(t)
  OBVIOUS
<1>2. \A i \in 1 .. Len(s) : i \in 1 .. Len(s \o t) /\ (s \o t)[i] = s[i]
  BY <1>1
<1>3. \A i \in 1 .. Len(t) : Len(s) + i \in 1 .. Len(s \o t) /\ (s \o t)[Len(s) + i] = t[i]
  BY <1>1
<1>4. ASSUME NEW i \in 1 .. Len(s \o t) PROVE i \in 1 .. Len(s) \/ \E j \in 1 .. Len(t) : i = Len(s) + j
  <2>1. CASE i <= Len(s)
    BY <1>1, <2>1
  <2>2. CASE i > Len(s)
    <3>1. i - Len(s) \in 1 .. Len(t) /\ i = Len(s) + (i - Len(s))
      BY <1>1, <2>2
    <3> QED BY <3>1
  <2> QED BY <1>1, <2>1, <2>2
<1> QED BY <1>1, <1>2, <1>3, <1>4

\* Lists with the same elements at the same places are the same.
LEMMA SameList ==
    ASSUME NEW T, NEW s \in Seq(T), NEW t \in Seq(T), Len(s) = Len(t),
           \A i \in 1 .. Len(s) : s[i] = t[i]
    PROVE  s = t
OBVIOUS

\* The same, part by part.
LEMMA PickedPlaces ==
    ASSUME NEW T, NEW s \in Seq(T), NEW places, places \subseteq DOMAIN s
    PROVE  /\ PickAt(s, places) \in Seq(T) /\ Len(PickAt(s, places)) \in Nat
           /\ Len(PickAt(s, places)) = Cardinality(places)
           /\ \A i \in 1 .. Len(PickAt(s, places)) :
                 Ascending(places)[i] \in places /\ PickAt(s, places)[i] = s[Ascending(places)[i]]
           /\ \A i, j \in 1 .. Len(PickAt(s, places)) :
                 i < j => Ascending(places)[i] < Ascending(places)[j]
           /\ \A m \in places : \E i \in 1 .. Len(PickAt(s, places)) : Ascending(places)[i] = m
<1> DEFINE p == PickAt(s, places)
           a == Ascending(places)
<1>1. /\ p \in Seq(T) /\ Len(p) = Cardinality(places)
      /\ \A i \in 1 .. Len(p) : a[i] \in places /\ p[i] = s[a[i]]
      /\ \A i, j \in 1 .. Len(p) : i < j => a[i] < a[j]
      /\ \A m \in places : \E i \in 1 .. Len(p) : a[i] = m
  BY Picked
<1> HIDE DEF p, a
<1>2. Len(p) \in Nat
  BY <1>1
<1> QED BY <1>1, <1>2 DEF p, a

\* Places in one list, and those in another behind its n elements.
Behind(P, n, Q) == P \cup {n + q : q \in Q}

\* What is picked from two lists joined is what is picked from each.
LEMMA PickJoined ==
    ASSUME NEW T, NEW s \in Seq(T), NEW t \in Seq(T), NEW P, P \subseteq DOMAIN s,
           NEW Q, Q \subseteq DOMAIN t
    PROVE  PickAt(s \o t, Behind(P, Len(s), Q)) = PickAt(s, P) \o PickAt(t, Q)
<1> DEFINE R == P \cup {Len(s) + q : q \in Q}
           u == s \o t
           p == PickAt(s, P)
           q == PickAt(t, Q)
           a == Ascending(P)
           b == Ascending(Q)
           n == Len(p)
           f == [k \in 1 .. n + Len(q) |-> IF k <= n THEN a[k] ELSE Len(s) + b[k - n]]
<1>1. Len(s) \in Nat /\ Len(t) \in Nat /\ DOMAIN s = 1 .. Len(s) /\ DOMAIN t = 1 .. Len(t)
  OBVIOUS
<1>2. /\ u \in Seq(T) /\ Len(u) = Len(s) + Len(t)
      /\ \A i \in 1 .. Len(s) : i \in 1 .. Len(u) /\ u[i] = s[i]
      /\ \A i \in 1 .. Len(t) : Len(s) + i \in 1 .. Len(u) /\ u[Len(s) + i] = t[i]
  BY Join
<1> HIDE DEF u
<1>3. /\ p \in Seq(T) /\ n \in Nat
      /\ \A i \in 1 .. n : a[i] \in P /\ p[i] = s[a[i]]
      /\ \A i, j \in 1 .. n : i < j => a[i] < a[j]
      /\ \A m \in P : \E i \in 1 .. n : a[i] = m
  BY PickedPlaces
<1>4. /\ q \in Seq(T) /\ Len(q) \in Nat
      /\ \A i \in 1 .. Len(q) : b[i] \in Q /\ q[i] = t[b[i]]
      /\ \A i, j \in 1 .. Len(q) : i < j => b[i] < b[j]
      /\ \A m \in Q : \E i \in 1 .. Len(q) : b[i] = m
  BY PickedPlaces
<1> HIDE DEF p, q, a, b, n
<1>5. \A i \in 1 .. n : a[i] \in 1 .. Len(s)
  BY <1>1, <1>3
<1>6. \A i \in 1 .. Len(q) : b[i] \in 1 .. Len(t)
  BY <1>1, <1>4
<1>7. ASSUME NEW k \in 1 .. n + Len(q)
      PROVE  \/ k \in 1 .. n /\ f[k] = a[k]
             \/ k > n /\ k - n \in 1 .. Len(q) /\ f[k] = Len(s) + b[k - n]
  BY <1>3, <1>4
<1>8. \A k \in 1 .. n + Len(q) : f[k] \in R /\ f[k] \in 1 .. Len(u)
  <2> SUFFICES ASSUME NEW k \in 1 .. n + Len(q) PROVE f[k] \in R /\ f[k] \in 1 .. Len(u)
    OBVIOUS
  <2>1. CASE k \in 1 .. n /\ f[k] = a[k]
    BY <1>2, <1>3, <1>5, <2>1
  <2>2. CASE k > n /\ k - n \in 1 .. Len(q) /\ f[k] = Len(s) + b[k - n]
    BY <1>2, <1>4, <1>6, <2>2
  <2> HIDE DEF f
  <2> QED BY <1>7, <2>1, <2>2
<1>9. f \in [1 .. n + Len(q) -> R]
  BY <1>8
<1>10. R \subseteq 1 .. Len(u)
  BY <1>1, <1>2
<1>11. \A j, k \in 1 .. n + Len(q) : j < k => f[j] < f[k]
  <2> SUFFICES ASSUME NEW j \in 1 .. n + Len(q), NEW k \in 1 .. n + Len(q), j < k PROVE f[j] < f[k]
    OBVIOUS
  <2>1. CASE k <= n
    <3>1. j \in 1 .. n /\ k \in 1 .. n
      BY <1>3, <2>1
    <3> QED BY <1>3, <1>4, <3>1
  <2>2. CASE j > n
    <3>1. j - n \in 1 .. Len(q) /\ k - n \in 1 .. Len(q) /\ j - n < k - n
      BY <1>3, <1>4, <2>2
    <3>2. b[j - n] < b[k - n] /\ b[j - n] \in Int /\ b[k - n] \in Int
      BY <1>4, <1>6, <3>1
    <3>3. f[j] = Len(s) + b[j - n] /\ f[k] = Len(s) + b[k - n]
      BY <1>3, <2>2
    <3> HIDE DEF f
    <3> QED BY <1>1, <3>2, <3>3
  <2>3. CASE j <= n /\ k > n
    <3>1. j \in 1 .. n /\ k - n \in 1 .. Len(q)
      BY <1>3, <1>4, <2>3
    <3>2. f[j] = a[j] /\ f[k] = Len(s) + b[k - n]
      BY <1>3, <2>3
    <3>3. a[j] \in 1 .. Len(s) /\ b[k - n] \in 1 .. Len(t)
      BY <1>5, <1>6, <3>1
    <3> HIDE DEF f
    <3> QED BY <1>1, <3>2, <3>3
  <2> QED BY <1>3, <2>1, <2>2, <2>3
<1>12. \A m \in R : \E k \in 1 .. n + Len(q) : f[k] = m
  <2> SUFFICES ASSUME NEW m \in R PROVE \E k \in 1 .. n + Len(q) : f[k] = m
    OBVIOUS
  <2>1. CASE m \in P
    <3>1. PICK i \in 1 .. n : a[i] = m
      BY <1>3, <2>1
    <3>2. i \in 1 .. n + Len(q) /\ f[i] = a[i]
      BY <1>3, <1>4
    <3> QED BY <3>1, <3>2
  <2>2. CASE m \in {Len(s) + x : x \in Q}
    <3>1. PICK x \in Q : m = Len(s) + x
      BY <2>2
    <3>2. PICK i \in 1 .. Len(q) : b[i] = x
      BY <1>4
    <3>3. n + i \in 1 .. n + Len(q) /\ f[n + i] = Len(s) + b[i]
      BY <1>3, <1>4
    <3> QED BY <3>1, <3>2, <3>3
  <2> QED BY <2>1, <2>2
<1> HIDE DEF f, R
<1>13. Cardinality(R) = n + Len(q) /\ Ascending(R) = f
  <2>1. R \subseteq Int /\ n + Len(q) \in Nat
    BY <1>3, <1>4, <1>10
  <2> QED BY <1>9, <1>11, <1>12, <2>1, AscendingIs
<1>14. /\ PickAt(u, R) \in Seq(T) /\ Len(PickAt(u, R)) = n + Len(q)
       /\ \A k \in 1 .. n + Len(q) : PickAt(u, R)[k] = u[f[k]]
  <2>1. R \subseteq DOMAIN u
    BY <1>2, <1>10
  <2>2. PickAt(u, R) \in Seq(T)
    BY <1>2, <2>1, Picked
  <2>3. Len(PickAt(u, R)) = n + Len(q)
    BY <1>2, <1>13, <2>1, Picked
  <2>4. \A k \in 1 .. Len(PickAt(u, R)) : PickAt(u, R)[k] = u[Ascending(R)[k]]
    BY <1>2, <2>1, Picked
  <2> QED BY <1>13, <2>2, <2>3, <2>4
<1>15. /\ p \o q \in Seq(T) /\ Len(p \o q) = n + Len(q)
       /\ \A i \in 1 .. n : (p \o q)[i] = p[i]
       /\ \A i \in 1 .. Len(q) : (p \o q)[n + i] = q[i]
  BY <1>3, <1>4, Join DEF n
<1>16. ASSUME NEW k \in 1 .. n + Len(q) PROVE u[f[k]] = (p \o q)[k]
  <2>1. CASE k \in 1 .. n /\ f[k] = a[k]
    <3>1. a[k] \in 1 .. Len(s) /\ p[k] = s[a[k]]
      BY <1>3, <1>5, <2>1
    <3> QED BY <1>2, <1>15, <2>1, <3>1
  <2>2. CASE k > n /\ k - n \in 1 .. Len(q) /\ f[k] = Len(s) + b[k - n]
    <3>1. b[k - n] \in 1 .. Len(t) /\ q[k - n] = t[b[k - n]] /\ n + (k - n) = k
      BY <1>3, <1>4, <1>6, <2>2
    <3>2. (p \o q)[n + (k - n)] = q[k - n]
      BY <1>15, <2>2
    <3> QED BY <1>2, <2>2, <3>1, <3>2
  <2> QED BY <1>7, <2>1, <2>2
<1>17. PickAt(u, R) = p \o q
  BY <1>14, <1>15, <1>16, SameList
<1> QED BY <1>17 DEF u, R, p, q, Behind

\* Where the lists start that make up f, and what stands where in it.
Starts(start, seqs, f) ==
    /\ start \in [0 .. Len(seqs) -> Nat] /\ start[0] = 0 /\ start[Len(seqs)] = Len(f)
    /\ \A n \in 1 .. Len(seqs) : start[n] = start[n - 1] + Len(seqs[n])
    /\ \A n \in 1 .. Len(seqs) : \A m \in 1 .. Len(seqs[n]) :
          start[n - 1] + m \in 1 .. Len(f) /\ f[start[n - 1] + m] = seqs[n][m]
    /\ \A i \in 1 .. Len(f) :
          \E n \in 1 .. Len(seqs) : \E m \in 1 .. Len(seqs[n]) : i = start[n - 1] + m

\* What stands where in lists joined.
LEMMA FlattenPlaces ==
    ASSUME NEW T, NEW seqs \in Seq(Seq(T))
    PROVE  FlattenSeq(seqs) \in Seq(T) /\ \E start : Starts(start, seqs, FlattenSeq(seqs))
<1> DEFINE N == Len(seqs)
<1>1. PICK h : /\ h[0] = <<>> /\ h[0] \in Seq(T)
               /\ \A k \in 1 .. N : h[k - 1] \in Seq(T) => h[k] = h[k - 1] \o seqs[k] /\ h[k] \in Seq(T)
               /\ FlattenSeq(seqs) = h[N]
  BY FlattenSteps
<1>2. N \in Nat /\ \A k \in 1 .. N : seqs[k] \in Seq(T) /\ Len(seqs[k]) \in Nat
  OBVIOUS
<1> HIDE DEF N
<1>3. \A k \in 0 .. N : h[k] \in Seq(T)
  <2>1. \A k \in 1 .. N : h[k - 1] \in Seq(T) => h[k] \in Seq(T)
    BY <1>1
  <2> QED BY <1>1, <1>2, <2>1, StaysIn
<1>4. \A k \in 1 .. N : k - 1 \in 0 .. N /\ h[k - 1] \in Seq(T) /\ h[k] = h[k - 1] \o seqs[k]
  <2> SUFFICES ASSUME NEW k \in 1 .. N PROVE k - 1 \in 0 .. N /\ h[k - 1] \in Seq(T) /\ h[k] = h[k - 1] \o seqs[k]
    OBVIOUS
  <2>1. k - 1 \in 0 .. N
    BY <1>2
  <2> QED BY <1>1, <1>3, <2>1
<1> DEFINE start == [k \in 0 .. N |-> Len(h[k])]
<1>5. \A k \in 0 .. N : start[k] = Len(h[k]) /\ start[k] \in Nat
  BY <1>3
<1>6. start \in [0 .. N -> Nat]
  BY <1>5
<1> HIDE DEF start
<1> DEFINE Done == {n \in 0 .. N :
               /\ \A k \in 1 .. n : \A m \in 1 .. Len(seqs[k]) :
                     start[k - 1] + m \in 1 .. Len(h[n]) /\ h[n][start[k - 1] + m] = seqs[k][m]
               /\ \A i \in 1 .. Len(h[n]) :
                     \E k \in 1 .. n : \E m \in 1 .. Len(seqs[k]) : i = start[k - 1] + m}
<1>7. 0 \in Done
  BY <1>1, <1>2
<1>8. ASSUME NEW n \in 1 .. N, n - 1 \in Done PROVE n \in Done
  <2> DEFINE a == h[n - 1]
             b == seqs[n]
             c == h[n]
  <2>0. n \in Nat /\ n - 1 \in 0 .. N
    BY <1>2
  <2>1. a \in Seq(T) /\ b \in Seq(T) /\ c = a \o b /\ start[n - 1] = Len(a)
    BY <1>2, <1>4, <1>5
  <2>2. /\ \A k \in 1 .. n - 1 : \A m \in 1 .. Len(seqs[k]) :
              start[k - 1] + m \in 1 .. Len(a) /\ a[start[k - 1] + m] = seqs[k][m]
        /\ \A i \in 1 .. Len(a) :
              \E k \in 1 .. n - 1 : \E m \in 1 .. Len(seqs[k]) : i = start[k - 1] + m
    BY <1>8
  <2> HIDE DEF a, b, c
  <2>3. /\ \A i \in 1 .. Len(a) : i \in 1 .. Len(c) /\ c[i] = a[i]
        /\ \A i \in 1 .. Len(b) : Len(a) + i \in 1 .. Len(c) /\ c[Len(a) + i] = b[i]
        /\ \A i \in 1 .. Len(c) : i \in 1 .. Len(a) \/ \E j \in 1 .. Len(b) : i = Len(a) + j
    BY <2>1, Join
  <2> USE <2>0
  <2>4. ASSUME NEW k \in 1 .. n, NEW m \in 1 .. Len(seqs[k])
        PROVE  start[k - 1] + m \in 1 .. Len(c) /\ c[start[k - 1] + m] = seqs[k][m]
    <3>1. CASE k = n
      BY <2>1, <2>3, <3>1 DEF b
    <3>2. CASE k # n
      <4>1. k \in 1 .. n - 1
        BY <2>1, <3>2
      <4> QED BY <2>2, <2>3, <4>1
    <3> QED BY <3>1, <3>2
  <2>5. ASSUME NEW i \in 1 .. Len(c)
        PROVE  \E k \in 1 .. n : \E m \in 1 .. Len(seqs[k]) : i = start[k - 1] + m
    <3>1. CASE i \in 1 .. Len(a)
      <4>1. PICK k \in 1 .. n - 1 : \E m \in 1 .. Len(seqs[k]) : i = start[k - 1] + m
        BY <2>2, <3>1
      <4>2. k \in 1 .. n
        BY <2>1
      <4> QED BY <4>1, <4>2
    <3>2. CASE \E j \in 1 .. Len(b) : i = Len(a) + j
      <4>1. n \in 1 .. n
        BY <2>1
      <4> QED BY <2>1, <3>2, <4>1 DEF b
    <3> QED BY <2>3, <3>1, <3>2
  <2> QED BY <2>4, <2>5 DEF c
<1> HIDE DEF Done
<1>9. \A n \in 0 .. N : n \in Done
  BY <1>2, <1>7, <1>8, Counting
<1>10. N \in Done
  BY <1>2, <1>9
<1>11. \A n \in 1 .. N : start[n] = start[n - 1] + Len(seqs[n])
  <2> SUFFICES ASSUME NEW n \in 1 .. N PROVE start[n] = start[n - 1] + Len(seqs[n])
    OBVIOUS
  <2>1. n \in 0 .. N /\ n - 1 \in 0 .. N
    BY <1>2
  <2>2. h[n - 1] \in Seq(T) /\ seqs[n] \in Seq(T) /\ h[n] = h[n - 1] \o seqs[n]
    BY <1>2, <1>4
  <2>3. Len(h[n]) = Len(h[n - 1]) + Len(seqs[n])
    BY <2>2
  <2> QED BY <1>5, <2>1, <2>3
<1>12. start[0] = 0 /\ start[N] = Len(h[N])
  BY <1>1, <1>2, <1>5
<1>13. FlattenSeq(seqs) \in Seq(T)
  BY <1>1, <1>2, <1>3
<1>14. Starts(start, seqs, FlattenSeq(seqs))
  BY <1>1, <1>6, <1>10, <1>11, <1>12 DEF Starts, Done, N
<1> QED BY <1>13, <1>14

\* A later list starts behind an earlier one.
LEMMA StartsGrow ==
    ASSUME NEW T, NEW seqs \in Seq(Seq(T)), NEW f, NEW start, Starts(start, seqs, f)
    PROVE  \A m, n \in 0 .. Len(seqs) : m <= n => start[m] <= start[n]
<1> DEFINE N == Len(seqs)
<1>1. N \in Nat /\ \A n \in 1 .. N : Len(seqs[n]) \in Nat
  OBVIOUS
<1>2. /\ start \in [0 .. N -> Nat]
      /\ \A n \in 1 .. N : start[n] = start[n - 1] + Len(seqs[n])
  BY DEF Starts
<1> HIDE DEF N
<1>3. ASSUME NEW m \in 0 .. N PROVE \A n \in 0 .. N : m <= n => start[m] <= start[n]
  <2> DEFINE S == {n \in 0 .. N : m <= n => start[m] <= start[n]}
  <2>1. 0 \in S
    BY <1>1, <1>2
  <2>2. ASSUME NEW n \in 1 .. N, n - 1 \in S PROVE n \in S
    <3>1. n - 1 \in 0 .. N /\ start[n - 1] \in Nat /\ start[n] \in Nat /\ start[m] \in Nat
          /\ start[n] = start[n - 1] + Len(seqs[n]) /\ Len(seqs[n]) \in Nat
      BY <1>1, <1>2
    <3>2. m <= n - 1 => start[m] <= start[n - 1]
      BY <2>2
    <3>3. m <= n => m <= n - 1 \/ m = n
      OBVIOUS
    <3> QED BY <3>1, <3>2, <3>3
  <2> HIDE DEF S
  <2>3. \A n \in 0 .. N : n \in S
    BY <1>1, <2>1, <2>2, Counting
  <2> QED BY <2>3 DEF S
<1> QED BY <1>3 DEF N

(* ---------- Items of a kind ---------------------------------------------- *)

PlacesOf(x, kinds) == {i \in DOMAIN x : x[i].kind \in kinds}

\* A list of items.
IsItem(e) == DOMAIN e = {"kind", "body", "position"}
Feed(x) == Listed(x) /\ \A i \in 1 .. Len(x) : IsItem(x[i])

\* The same items, whatever their positions.
Alike(x, y) == Len(x) = Len(y) /\ \A i \in 1 .. Len(x) : x[i].kind = y[i].kind /\ x[i].body = y[i].body

\* A list is a sequence of its own elements.
LEMMA ListedOver == \A s : Listed(s) => /\ s \in Seq(Range1(s)) /\ Len(s) \in Nat /\ DOMAIN s = 1 .. Len(s)
                                        /\ \A i \in 1 .. Len(s) : s[i] \in Range1(s)
BY DEF Listed, Range1

\* The items of some kinds are those at their places.
LEMMA KindsAre == \A x, kinds : OfKinds(x, kinds) = PickAt(x, PlacesOf(x, kinds))
BY DEF OfKinds, Those, PlacesOf

\* What is of some kinds, and where it stands.
LEMMA KindsPlaced ==
    ASSUME NEW x, Listed(x), NEW kinds
    PROVE  LET p == OfKinds(x, kinds)
               a == Ascending(PlacesOf(x, kinds))
           IN  /\ Listed(p) /\ Len(p) \in Nat /\ Len(p) = Cardinality(PlacesOf(x, kinds))
               /\ \A i \in 1 .. Len(p) : a[i] \in 1 .. Len(x) /\ x[a[i]].kind \in kinds /\ p[i] = x[a[i]]
               /\ \A i, j \in 1 .. Len(p) : i < j => a[i] < a[j]
               /\ \A m \in PlacesOf(x, kinds) : \E i \in 1 .. Len(p) : a[i] = m
<1> DEFINE T == Range1(x)
           P == PlacesOf(x, kinds)
           p == OfKinds(x, kinds)
           a == Ascending(P)
<1>1. x \in Seq(T) /\ DOMAIN x = 1 .. Len(x) /\ P \subseteq DOMAIN x /\ p = PickAt(x, P)
  BY KindsAre, ListedOver DEF PlacesOf
<1> HIDE DEF T, p
<1>2. /\ p \in Seq(T) /\ Len(p) \in Nat /\ Len(p) = Cardinality(P)
      /\ \A i \in 1 .. Len(p) : a[i] \in P /\ p[i] = x[a[i]]
      /\ \A i, j \in 1 .. Len(p) : i < j => a[i] < a[j]
      /\ \A m \in P : \E i \in 1 .. Len(p) : a[i] = m
  <2> HIDE DEF P
  <2> QED BY <1>1, PickedPlaces
<1> HIDE DEF a
<1>3. \A m \in P : m \in 1 .. Len(x) /\ x[m].kind \in kinds
  BY <1>1 DEF PlacesOf
<1>4. Listed(p)
  BY <1>2, ListOf
<1> HIDE DEF P
<1> QED BY <1>2, <1>3, <1>4 DEF p, P, a

\* f are the n places in x, in order, where something of the kinds stands.
Places(f, n, x, kinds) ==
    /\ n \in Nat /\ f \in [1 .. n -> 1 .. Len(x)]
    /\ \A k \in 1 .. n : x[f[k]].kind \in kinds
    /\ \A j, k \in 1 .. n : j < k => f[j] < f[k]
    /\ \A i \in 1 .. Len(x) : x[i].kind \in kinds => \E k \in 1 .. n : f[k] = i

\* Places in order that hold exactly the items of some kinds give those items.
LEMMA KindsListed ==
    ASSUME NEW x, Listed(x), NEW kinds, NEW n, NEW f, Places(f, n, x, kinds)
    PROVE  /\ Len(OfKinds(x, kinds)) = n /\ Listed(OfKinds(x, kinds))
           /\ \A k \in 1 .. n : OfKinds(x, kinds)[k] = x[f[k]]
<1> USE DEF Places
<1> DEFINE P == PlacesOf(x, kinds)
<1>1. DOMAIN x = 1 .. Len(x) /\ P = {i \in 1 .. Len(x) : x[i].kind \in kinds}
  BY ListedOver DEF PlacesOf
<1>2. P \subseteq Int /\ f \in [1 .. n -> P] /\ \A m \in P : \E k \in 1 .. n : f[k] = m
  BY <1>1
<1> HIDE DEF P
<1>3. Ascending(P) = f
  BY <1>2, AscendingIs
<1>4. f \in Seq(P) /\ Len(f) = n
  BY <1>2
<1>5. OfKinds(x, kinds) = [k \in 1 .. n |-> x[f[k]]]
  BY <1>3, <1>4, KindsAre DEF PickAt, MapSeq, P
<1>6. [k \in 1 .. n |-> x[f[k]]] \in [1 .. n -> Range1(x)]
  BY DEF Range1
<1>7. Len([k \in 1 .. n |-> x[f[k]]]) = n
  BY <1>6, AsSequence
<1>8. Listed(OfKinds(x, kinds))
  BY KindsPlaced
<1> QED BY <1>5, <1>7, <1>8

\* A list of nothing else than some kinds is what it has of them.
LEMMA AllOfKinds ==
    ASSUME NEW x, Listed(x), NEW kinds, \A i \in 1 .. Len(x) : x[i].kind \in kinds
    PROVE  OfKinds(x, kinds) = x
<1> DEFINE n == Len(x)
           f == [k \in 1 .. n |-> k]
<1>1. n \in Nat /\ x = [k \in 1 .. n |-> x[k]]
  BY ListedOver
<1>2. f \in [1 .. n -> 1 .. Len(x)] /\ \A k \in 1 .. n : f[k] = k
  OBVIOUS
<1>3. \A k \in 1 .. n : x[f[k]] = x[k] /\ x[f[k]].kind \in kinds
  OBVIOUS
<1>4. \A j, k \in 1 .. n : j < k => f[j] < f[k]
  OBVIOUS
<1>5. \A i \in 1 .. Len(x) : x[i].kind \in kinds => \E k \in 1 .. n : f[k] = i
  BY <1>2
<1>a. Places(f, n, x, kinds)
  BY <1>1, <1>2, <1>3, <1>4, <1>5 DEF Places
<1> HIDE DEF f, n
<1> DEFINE p == OfKinds(x, kinds)
<1>6. Len(p) = n /\ Listed(p) /\ \A k \in 1 .. n : p[k] = x[f[k]]
  BY <1>a, KindsListed
<1> HIDE DEF p
<1>7. p = [k \in 1 .. n |-> p[k]]
  BY <1>6, ListedOver
<1>8. p = x
  BY <1>1, <1>3, <1>6, <1>7
<1> QED BY <1>8 DEF p

\* A list without some kinds has nothing of them.
LEMMA NoneOfKinds ==
    ASSUME NEW x, Listed(x), NEW kinds, \A i \in 1 .. Len(x) : x[i].kind \notin kinds
    PROVE  OfKinds(x, kinds) = <<>>
<1> DEFINE p == OfKinds(x, kinds)
           a == Ascending(PlacesOf(x, kinds))
<1>1. /\ Listed(p) /\ Len(p) \in Nat
      /\ \A i \in 1 .. Len(p) : a[i] \in 1 .. Len(x) /\ x[a[i]].kind \in kinds
  BY KindsPlaced
<1> HIDE DEF p, a
<1>2. Len(p) = 0
  <2>1. 1 \notin 1 .. Len(p)
    BY <1>1
  <2> QED BY <1>1, <2>1
<1>3. p \in Seq(Range1(p))
  BY <1>1 DEF Listed
<1>4. p = <<>>
  BY <1>2, <1>3
<1> QED BY <1>4 DEF p

\* One list behind another.
Joins(u, s, t) ==
    /\ Len(u) = Len(s) + Len(t)
    /\ \A i \in 1 .. Len(s) : i \in 1 .. Len(u) /\ u[i] = s[i]
    /\ \A i \in 1 .. Len(t) : Len(s) + i \in 1 .. Len(u) /\ u[Len(s) + i] = t[i]
    /\ \A i \in 1 .. Len(u) : i \in 1 .. Len(s) \/ \E j \in 1 .. Len(t) : i = Len(s) + j

\* One list behind another.
LEMMA ListsJoined ==
    ASSUME NEW s, Listed(s), NEW t, Listed(t)
    PROVE  Listed(s \o t) /\ Joins(s \o t, s, t)
<1> DEFINE T == Range1(s) \cup Range1(t)
<1>1. s \in Seq(T) /\ t \in Seq(T)
  BY DEF Listed
<1> HIDE DEF T
<1>2. /\ s \o t \in Seq(T) /\ Len(s \o t) = Len(s) + Len(t)
      /\ \A i \in 1 .. Len(s) : i \in 1 .. Len(s \o t) /\ (s \o t)[i] = s[i]
      /\ \A i \in 1 .. Len(t) : Len(s) + i \in 1 .. Len(s \o t) /\ (s \o t)[Len(s) + i] = t[i]
      /\ \A i \in 1 .. Len(s \o t) : i \in 1 .. Len(s) \/ \E j \in 1 .. Len(t) : i = Len(s) + j
  BY <1>1, Join
<1>3. Listed(s \o t)
  BY <1>2, ListOf
<1> QED BY <1>2, <1>3 DEF Joins

\* What two lists have of some kinds, joined, is what the joined list has.
LEMMA KindsJoined ==
    ASSUME NEW s, Listed(s), NEW t, Listed(t), NEW kinds
    PROVE  OfKinds(s \o t, kinds) = OfKinds(s, kinds) \o OfKinds(t, kinds)
<1> DEFINE T == Range1(s) \cup Range1(t)
           u == s \o t
           P == PlacesOf(s, kinds)
           Q == PlacesOf(t, kinds)
           R == PlacesOf(u, kinds)
           S == Behind(P, Len(s), Q)
<1>0. Listed(u) /\ Joins(u, s, t)
  BY ListsJoined
<1>a. s \in Seq(T) /\ t \in Seq(T)
  BY DEF Listed
<1> HIDE DEF u, T
<1>1. /\ Len(u) = Len(s) + Len(t)
      /\ \A i \in 1 .. Len(s) : i \in 1 .. Len(u) /\ u[i] = s[i]
      /\ \A i \in 1 .. Len(t) : Len(s) + i \in 1 .. Len(u) /\ u[Len(s) + i] = t[i]
      /\ \A i \in 1 .. Len(u) : i \in 1 .. Len(s) \/ \E j \in 1 .. Len(t) : i = Len(s) + j
  BY <1>0 DEF Joins
<1>2. /\ DOMAIN s = 1 .. Len(s) /\ DOMAIN t = 1 .. Len(t) /\ DOMAIN u = 1 .. Len(u)
      /\ P = {i \in 1 .. Len(s) : s[i].kind \in kinds}
      /\ Q = {i \in 1 .. Len(t) : t[i].kind \in kinds}
      /\ R = {i \in 1 .. Len(u) : u[i].kind \in kinds}
  BY <1>0, ListedOver DEF PlacesOf
<1>3. P \subseteq DOMAIN s /\ Q \subseteq DOMAIN t
  BY <1>2
<1> HIDE DEF P, Q, R
<1>4. S \subseteq R
  <2> USE DEF Behind
  <2>1. \A i \in P : i \in R
    BY <1>1, <1>2
  <2>2. \A i \in Q : Len(s) + i \in R
    BY <1>1, <1>2
  <2> QED BY <2>1, <2>2
<1>5. R \subseteq S
  <2> USE DEF Behind
  <2> SUFFICES ASSUME NEW i \in R PROVE i \in S
    OBVIOUS
  <2>1. i \in 1 .. Len(u) /\ u[i].kind \in kinds
    BY <1>2
  <2>2. CASE i \in 1 .. Len(s)
    BY <1>1, <1>2, <2>1, <2>2
  <2>3. CASE \E j \in 1 .. Len(t) : i = Len(s) + j
    <3>1. PICK j \in 1 .. Len(t) : i = Len(s) + j
      BY <2>3
    <3>2. t[j].kind \in kinds
      BY <1>1, <2>1, <3>1
    <3>3. j \in Q
      BY <1>2, <3>2
    <3> QED BY <3>1, <3>3
  <2> QED BY <1>1, <2>1, <2>2, <2>3
<1>6. R = S
  BY <1>4, <1>5
<1>7. PickAt(u, S) = PickAt(s, P) \o PickAt(t, Q)
  <2> HIDE DEF P, Q
  <2> QED BY <1>a, <1>3, PickJoined DEF u
<1> QED BY <1>6, <1>7, KindsAre DEF P, Q, R, u

\* Lists alike have the same kinds at the same places.
LEMMA AlikePlaces ==
    ASSUME NEW x, Listed(x), NEW y, Listed(y), Alike(x, y), NEW kinds
    PROVE  /\ PlacesOf(x, kinds) = PlacesOf(y, kinds)
           /\ Bodies(OfKinds(x, kinds)) = Bodies(OfKinds(y, kinds))
<1> DEFINE P == PlacesOf(x, kinds)
           a == Ascending(P)
           p == OfKinds(x, kinds)
           q == OfKinds(y, kinds)
<1>1. PlacesOf(x, kinds) = PlacesOf(y, kinds)
  BY ListedOver DEF Alike, PlacesOf
<1>2. /\ Len(p) = Cardinality(P)
      /\ \A i \in 1 .. Len(p) : a[i] \in 1 .. Len(x) /\ p[i] = x[a[i]]
  BY KindsPlaced
<1>3. /\ Len(q) = Cardinality(P)
      /\ \A i \in 1 .. Len(q) : a[i] \in 1 .. Len(y) /\ q[i] = y[a[i]]
  BY <1>1, KindsPlaced
<1> HIDE DEF P, a, p, q
<1>4. Bodies(p) = [i \in 1 .. Len(p) |-> p[i].body] /\ Bodies(q) = [i \in 1 .. Len(q) |-> q[i].body]
  BY DEF Bodies, MapSeq
<1>5. \A i \in 1 .. Len(p) : p[i].body = q[i].body
  BY <1>2, <1>3 DEF Alike
<1>6. Bodies(p) = Bodies(q)
  BY <1>2, <1>3, <1>4, <1>5
<1> QED BY <1>1, <1>6 DEF p, q, P

\* The bodies of a list stand at the places of its items.
LEMMA BodiesOver ==
    \A s : Listed(s) => /\ Listed(Bodies(s)) /\ Len(Bodies(s)) = Len(s)
                        /\ \A i \in 1 .. Len(s) : Bodies(s)[i] = s[i].body
<1> SUFFICES ASSUME NEW s, Listed(s)
             PROVE  /\ Listed(Bodies(s)) /\ Len(Bodies(s)) = Len(s)
                    /\ \A i \in 1 .. Len(s) : Bodies(s)[i] = s[i].body
  OBVIOUS
<1> DEFINE n == Len(s)
           b == Bodies(s)
           T == {s[i].body : i \in 1 .. n}
<1>1. n \in Nat /\ b = [i \in 1 .. n |-> s[i].body]
  BY ListedOver DEF Bodies, MapSeq
<1>2. b \in [1 .. n -> T]
  BY <1>1
<1> HIDE DEF T
<1>3. b \in Seq(T) /\ Len(b) = n
  BY <1>1, <1>2, AsSequence
<1>4. Listed(b)
  BY <1>3, ListOf
<1> QED BY <1>1, <1>3, <1>4

\* The bodies of two lists joined are those of the joined list.
LEMMA BodiesJoined ==
    ASSUME NEW s, Listed(s), NEW t, Listed(t)
    PROVE  Bodies(s \o t) = Bodies(s) \o Bodies(t)
<1> DEFINE u == s \o t
           b == Bodies(s)
           c == Bodies(t)
           d == Bodies(u)
           v == b \o c
<1>1. Listed(u) /\ Joins(u, s, t)
  BY ListsJoined
<1> HIDE DEF u
<1>2. /\ Listed(b) /\ Len(b) = Len(s) /\ \A i \in 1 .. Len(s) : b[i] = s[i].body
      /\ Listed(c) /\ Len(c) = Len(t) /\ \A i \in 1 .. Len(t) : c[i] = t[i].body
      /\ Listed(d) /\ Len(d) = Len(u) /\ \A i \in 1 .. Len(u) : d[i] = u[i].body
  BY <1>1, BodiesOver
<1> HIDE DEF b, c, d
<1>3. Listed(v) /\ Joins(v, b, c)
  BY <1>2, ListsJoined
<1> HIDE DEF v
<1>4. \A i \in 1 .. Len(u) : d[i] = v[i]
  <2> SUFFICES ASSUME NEW i \in 1 .. Len(u) PROVE d[i] = v[i]
    OBVIOUS
  <2>1. CASE i \in 1 .. Len(s)
    BY <1>1, <1>2, <1>3, <2>1 DEF Joins
  <2>2. CASE \E j \in 1 .. Len(t) : i = Len(s) + j
    <3>1. PICK j \in 1 .. Len(t) : i = Len(s) + j
      BY <2>2
    <3>2. u[Len(s) + j] = t[j] /\ v[Len(s) + j] = c[j] /\ c[j] = t[j].body
      BY <1>1, <1>2, <1>3 DEF Joins
    <3>3. d[i] = u[i].body
      BY <1>2
    <3> QED BY <3>1, <3>2, <3>3
  <2> QED BY <1>1, <2>1, <2>2 DEF Joins
<1>5. d = [i \in 1 .. Len(d) |-> d[i]] /\ v = [i \in 1 .. Len(v) |-> v[i]]
  BY <1>2, <1>3, ListedOver
<1>6. Len(d) = Len(v)
  BY <1>1, <1>2, <1>3 DEF Joins
<1>7. d = v
  BY <1>2, <1>4, <1>5, <1>6
<1> QED BY <1>7 DEF b, c, d, u, v

(* ---------- Where the safe-gap blender puts ads --------------------------- *)

Positioned(ads) == Listed(ads) /\ \A i \in 1 .. Len(ads) : ads[i].insert_position \in Int

\* The spacing is at least one post.
LEMMA Spaced ==
    ASSUME NEW ads, Positioned(ads)
    PROVE  ComputeSpacing(ads) \in [requested : Nat \ {0}, min : Nat \ {0}]
<1> DEFINE positions == {ads[i].insert_position : i \in 1 .. Len(ads) \cap 1 .. 4}
           diffs == {d \in {p - q : p, q \in positions} : d > 0}
           requested == CHOOSE d \in diffs : \A e \in diffs : d <= e
<1>1. positions \subseteq Int
  BY ListedOver DEF Positioned
<1> HIDE DEF positions
<1>2. \A p, q \in positions : p - q \in Int
  BY <1>1
<1>3. diffs \subseteq Nat \ {0}
  <2> SUFFICES ASSUME NEW d \in diffs PROVE d \in Nat \ {0}
    OBVIOUS
  <2>1. PICK p \in positions, q \in positions : d = p - q /\ d > 0
    OBVIOUS
  <2> QED BY <1>2, <2>1
<1> HIDE DEF diffs
<1>4. diffs # {} => requested \in Nat \ {0}
  <2> SUFFICES ASSUME diffs # {} PROVE requested \in Nat \ {0}
    OBVIOUS
  <2>1. \E d \in diffs : \A e \in diffs : d <= e
    BY <1>3, Smallest
  <2>2. requested \in diffs
    BY <2>1
  <2> QED BY <1>3, <2>2
<1> HIDE DEF requested
<1>5. requested \in Nat \ {0} => (requested + 1) \div 2 \in Nat \ {0}
  OBVIOUS
<1>6. ComputeSpacing(ads) = IF diffs # {} /\ requested >= MinRequestedGap
                            THEN [requested |-> requested, min |-> (requested + 1) \div 2]
                            ELSE DefaultSpacing
  BY DEF ComputeSpacing, requested, diffs, positions
<1> QED BY <1>4, <1>5, <1>6, BlenderAssumption

\* A gap found is one of those offered, and not below the least.
LEMMA GapFound ==
    ASSUME NEW gaps, NEW ideal, NEW min, FindBestGap(gaps, ideal, min) # {}
    PROVE  LET g == CHOOSE h \in FindBestGap(gaps, ideal, min) : TRUE
           IN  g \in gaps /\ g >= min
BY DEF FindBestGap

\* Gaps that are far enough from each other.
FarApart(p) == \A i, j \in 1 .. Len(p) : i < j => p[j] - p[i] >= DefaultSpacing.min
Placing(gaps) == {acc \in [placed : Seq(gaps), ideal : Int, stop : BOOLEAN] : FarApart(acc.placed)}

\* One ad more.
LEMMA PlacingGoesOn ==
    ASSUME NEW gaps, gaps \subseteq Nat, NEW spacing \in [requested : Nat \ {0}, min : Nat \ {0}],
           NEW first \in Int, NEW acc \in Placing(gaps)
    PROVE  /\ PlaceAd(acc, gaps, spacing, first) \in Placing(gaps)
           /\ Len(PlaceAd(acc, gaps, spacing, first).placed) <= Len(acc.placed) + 1
<1> DEFINE p == acc.placed
           last == Last(p)
           ideal == IF p = <<>> THEN first ELSE acc.ideal + spacing.requested
           low == IF p = <<>> THEN 1 ELSE Greatest(acc.ideal + spacing.min, last + DefaultSpacing.min)
           open == {g \in gaps : p = <<>> \/ g > last}
           best == FindBestGap(open, ideal, low)
           g == CHOOSE h \in best : TRUE
           next == PlaceAd(acc, gaps, spacing, first)
<1>1. /\ p \in Seq(gaps) /\ Len(p) \in Nat /\ acc.ideal \in Int /\ acc.stop \in BOOLEAN /\ FarApart(p)
      /\ acc = [placed |-> p, ideal |-> acc.ideal, stop |-> acc.stop]
  BY DEF Placing
<1>2. next = IF acc.stop \/ best = {} THEN [acc EXCEPT !.stop = TRUE]
             ELSE [placed |-> Append(p, g), ideal |-> ideal, stop |-> FALSE]
  BY DEF PlaceAd
<1>3. ideal \in Int /\ DefaultSpacing.min \in Nat \ {0} /\ spacing.min \in Int
  BY <1>1, BlenderAssumption
<1>4. p # <<>> => last = p[Len(p)] /\ last \in Nat /\ low \in Int /\ low >= last + DefaultSpacing.min
  <2> SUFFICES ASSUME p # <<>> PROVE last = p[Len(p)] /\ last \in Nat /\ low \in Int /\ low >= last + DefaultSpacing.min
    OBVIOUS
  <2>1. last = p[Len(p)] /\ last \in gaps
    BY <1>1 DEF Last
  <2>2. last \in Nat
    BY <2>1
  <2>3. acc.ideal + spacing.min \in Int /\ last + DefaultSpacing.min \in Int
    BY <1>1, <1>3, <2>2
  <2>4. low = Greatest(acc.ideal + spacing.min, last + DefaultSpacing.min)
    OBVIOUS
  <2> HIDE DEF low, last
  <2>5. low \in Int /\ low >= last + DefaultSpacing.min
    BY <2>3, <2>4 DEF Greatest
  <2> QED BY <2>1, <2>2, <2>5 DEF last
<1> HIDE DEF low, last, ideal
<1>5. best # {} => g \in open /\ g >= low
  <2> HIDE DEF open
  <2> QED BY GapFound
<1> HIDE DEF best, g, next
<1>6. CASE acc.stop \/ best = {}
  <2>1. next = [placed |-> p, ideal |-> acc.ideal, stop |-> TRUE]
    BY <1>1, <1>2, <1>6
  <2>2. next.placed = p
    BY <2>1
  <2> HIDE DEF p
  <2>3. next \in Placing(gaps)
    BY <1>1, <2>1 DEF Placing
  <2> QED BY <1>1, <2>2, <2>3 DEF next, p
<1>7. CASE ~(acc.stop \/ best = {})
  <2>1. next = [placed |-> Append(p, g), ideal |-> ideal, stop |-> FALSE] /\ g \in gaps /\ g \in Nat
    BY <1>2, <1>5, <1>7
  <2> HIDE DEF p
  <2> DEFINE a == Append(p, g)
  <2>2. /\ a \in Seq(gaps) /\ Len(a) = Len(p) + 1 /\ a[Len(p) + 1] = g
        /\ \A i \in 1 .. Len(p) : a[i] = p[i] /\ p[i] \in Nat
    BY <1>1, <2>1
  <2> HIDE DEF a
  <2>3. FarApart(a)
    <3> SUFFICES ASSUME NEW i \in 1 .. Len(a), NEW j \in 1 .. Len(a), i < j
                 PROVE  a[j] - a[i] >= DefaultSpacing.min
      BY DEF FarApart
    <3>1. CASE j <= Len(p)
      <4>1. i \in 1 .. Len(p) /\ j \in 1 .. Len(p)
        BY <1>1, <2>2, <3>1
      <4> QED BY <1>1, <2>2, <4>1 DEF FarApart
    <3>2. CASE j > Len(p)
      <4>1. j = Len(p) + 1 /\ i \in 1 .. Len(p) /\ Len(p) \in 1 .. Len(p)
        BY <1>1, <2>2, <3>2
      <4>2. p # <<>>
        BY <1>1, <4>1
      <4>3. g >= p[Len(p)] + DefaultSpacing.min /\ p[Len(p)] \in Nat
        BY <1>3, <1>4, <1>5, <1>7, <2>1, <4>2
      <4>4. p[i] \in Nat /\ p[i] <= p[Len(p)]
        <5>1. CASE i = Len(p)
          BY <2>2, <4>1, <5>1
        <5>2. CASE i # Len(p)
          <6>1. i < Len(p)
            BY <4>1, <5>2
          <6>2. p[Len(p)] - p[i] >= DefaultSpacing.min
            BY <1>1, <4>1, <6>1 DEF FarApart
          <6> QED BY <1>3, <2>2, <4>1, <4>3, <6>2
        <5> QED BY <5>1, <5>2
      <4> QED BY <1>3, <2>1, <2>2, <4>1, <4>3, <4>4
    <3> QED BY <1>1, <3>1, <3>2
  <2>4. next.placed = a /\ next \in Placing(gaps)
    BY <1>3, <2>1, <2>2, <2>3 DEF Placing, a
  <2> QED BY <1>1, <2>2, <2>4 DEF next, p
<1> QED BY <1>6, <1>7

\* Ads are placed in some of the gaps, far enough from each other, and not more than there are.
LEMMA AdsPlaced ==
    ASSUME NEW gaps, gaps \subseteq Nat, NEW spacing \in [requested : Nat \ {0}, min : Nat \ {0}],
           NEW first \in Int, NEW n \in Nat
    PROVE  LET p == AssignAdsToGaps(gaps, n, spacing, first)
           IN  p \in Seq(gaps) /\ Len(p) <= n /\ FarApart(p)
<1> DEFINE T == Placing(gaps)
           base == [placed |-> <<>>, ideal |-> first, stop |-> FALSE]
           step == [x \in (1 .. n) \X T |-> PlaceAd(x[2], gaps, spacing, first)]
           after[k \in 0 .. n] == IF k = 0 THEN base ELSE PlaceAd(after[k - 1], gaps, spacing, first)
<1>1. base \in T
  <2>1. <<>> \in Seq(gaps) /\ Len(<<>>) = 0
    OBVIOUS
  <2>2. FarApart(<<>>)
    BY DEF FarApart
  <2> QED BY <2>1, <2>2 DEF Placing
<1>2. \A acc \in T : /\ PlaceAd(acc, gaps, spacing, first) \in T
                     /\ Len(PlaceAd(acc, gaps, spacing, first).placed) <= Len(acc.placed) + 1
  BY PlacingGoesOn
<1>3. AssignAdsToGaps(gaps, n, spacing, first) = after[n].placed
  BY DEF AssignAdsToGaps
<1>4. base.placed = <<>>
  OBVIOUS
<1> HIDE DEF T, base
<1>5. step \in [(1 .. n) \X T -> T]
  BY <1>2
<1>6. Steps(T, n, base, step)
  BY <1>1, <1>5 DEF Steps
<1>7. \A k \in 1 .. n, acc \in T : step[<<k, acc>>] = PlaceAd(acc, gaps, spacing, first)
  OBVIOUS
<1> HIDE DEF step
<1>8. PICK f : Runs(f, T, n, base, step)
  BY <1>6, Iterates
<1>9. \A k \in 0 .. n : f[k] \in T
  BY <1>8 DEF Runs
<1>10. \A k \in 1 .. n : f[k - 1] \in T /\ f[k] = PlaceAd(f[k - 1], gaps, spacing, first)
  <2> SUFFICES ASSUME NEW k \in 1 .. n
               PROVE  f[k - 1] \in T /\ f[k] = PlaceAd(f[k - 1], gaps, spacing, first)
    OBVIOUS
  <2>1. k - 1 \in 0 .. n
    OBVIOUS
  <2> QED BY <1>7, <1>8, <1>9, <2>1 DEF Runs
<1>11. f = [k \in 0 .. n |-> IF k = 0 THEN base ELSE PlaceAd(f[k - 1], gaps, spacing, first)]
  <2>1. \A k \in 0 .. n : k # 0 => k \in 1 .. n
    OBVIOUS
  <2>2. f = [k \in 0 .. n |-> f[k]]
    BY <1>8 DEF Runs
  <2>3. \A k \in 0 .. n : f[k] = IF k = 0 THEN base ELSE PlaceAd(f[k - 1], gaps, spacing, first)
    BY <1>8, <1>10, <2>1 DEF Runs
  <2> QED BY <2>2, <2>3
<1>12. after = [k \in 0 .. n |-> IF k = 0 THEN base ELSE PlaceAd(after[k - 1], gaps, spacing, first)]
  BY <1>11
<1> HIDE DEF after
<1> DEFINE Good == {k \in 0 .. n : after[k] \in T /\ Len(after[k].placed) <= k}
<1>13. 0 \in Good
  <2>1. after[0] = base /\ Len(base.placed) = 0
    BY <1>4, <1>12
  <2> QED BY <1>1, <2>1
<1>14. ASSUME NEW k \in 1 .. n, k - 1 \in Good PROVE k \in Good
  <2>1. after[k] = PlaceAd(after[k - 1], gaps, spacing, first) /\ k \in 0 .. n
    BY <1>12
  <2>2. after[k - 1] \in T /\ Len(after[k - 1].placed) <= k - 1
    BY <1>14
  <2>3. after[k] \in T /\ Len(after[k].placed) <= Len(after[k - 1].placed) + 1
    BY <1>2, <2>1, <2>2
  <2>4. after[k].placed \in Seq(gaps) /\ after[k - 1].placed \in Seq(gaps)
    BY <2>2, <2>3 DEF T, Placing
  <2>5. Len(after[k].placed) \in Nat /\ Len(after[k - 1].placed) \in Nat
    BY <2>4
  <2> QED BY <2>1, <2>2, <2>3, <2>5
<1> HIDE DEF Good
<1>15. \A k \in 0 .. n : k \in Good
  BY <1>13, <1>14, Counting
<1>16. after[n] \in T /\ Len(after[n].placed) <= n
  BY <1>15 DEF Good
<1> QED BY <1>3, <1>16 DEF T, Placing

\* What is reached from n numbers is not more than n.
LEMMA AtMost ==
    ASSUME NEW n \in Nat, NEW f, NEW S, \A x \in S : \E k \in 1 .. n : f[k] = x
    PROVE  IsFiniteSet(S) /\ Cardinality(S) \in Nat /\ Cardinality(S) <= n
<1> DEFINE g == [x \in S |-> CHOOSE k \in 1 .. n : f[k] = x]
<1>1. \A x \in S : g[x] \in 1 .. n /\ f[g[x]] = x
  OBVIOUS
<1>2. g \in [S -> 1 .. n]
  BY <1>1
<1> HIDE DEF g
<1>3. g \in Injection(S, 1 .. n)
  BY <1>1, <1>2 DEF Injection, IsInjective
<1>4. IsFiniteSet(1 .. n) /\ Cardinality(1 .. n) = n
  BY FS_Interval
<1>5. IsFiniteSet(S) /\ Cardinality(S) <= n
  BY <1>3, <1>4, FS_Injection
<1> QED BY <1>5, FS_CardinalityType

\* With none of the lists empty, a list starts behind as many elements as lists.
LEMMA RowsGrow ==
    ASSUME NEW T, NEW seqs \in Seq(Seq(T)), NEW f, NEW start, Starts(start, seqs, f),
           \A n \in 1 .. Len(seqs) : Len(seqs[n]) >= 1
    PROVE  \A m, n \in 0 .. Len(seqs) : m <= n => start[m] + (n - m) <= start[n]
<1> DEFINE N == Len(seqs)
<1>1. N \in Nat /\ \A n \in 1 .. N : Len(seqs[n]) \in Nat
  OBVIOUS
<1>2. /\ start \in [0 .. N -> Nat]
      /\ \A n \in 1 .. N : start[n] = start[n - 1] + Len(seqs[n])
  BY DEF Starts
<1> HIDE DEF N
<1>3. ASSUME NEW m \in 0 .. N PROVE \A n \in 0 .. N : m <= n => start[m] + (n - m) <= start[n]
  <2> DEFINE S == {n \in 0 .. N : m <= n => start[m] + (n - m) <= start[n]}
  <2>1. 0 \in S
    BY <1>1, <1>2
  <2>2. ASSUME NEW n \in 1 .. N, n - 1 \in S PROVE n \in S
    <3>0. n - 1 \in 0 .. N /\ n \in 0 .. N /\ Len(seqs[n]) >= 1
      BY <1>1 DEF N
    <3>1. start[n - 1] \in Nat /\ start[n] \in Nat /\ start[m] \in Nat
          /\ start[n] = start[n - 1] + Len(seqs[n]) /\ Len(seqs[n]) \in Nat
      BY <1>1, <1>2, <3>0
    <3>2. m <= n - 1 => start[m] + ((n - 1) - m) <= start[n - 1]
      BY <2>2
    <3>3. m <= n => m <= n - 1 \/ m = n
      OBVIOUS
    <3> QED BY <3>0, <3>1, <3>2, <3>3
  <2> HIDE DEF S
  <2>3. \A n \in 0 .. N : n \in S
    BY <1>1, <2>1, <2>2, Counting
  <2> QED BY <2>3 DEF S
<1> QED BY <1>3 DEF N

(* ---------- What a blender puts together ---------------------------------- *)

\* A feed of posts and ads.
Mixed(x) == Feed(x) /\ \A i \in 1 .. Len(x) : x[i].kind \in {"post", "ad"}

\* The posts at two places leave an ad between them.
Neighbours(x, i, strict) ==
    /\ x[i - 1].kind = "post" /\ x[i + 1].kind = "post"
    /\ ~HasAvoid(x[i - 1].body) /\ ~HasAvoid(x[i + 1].body)
    /\ strict => ~Clashes(x[i].body, x[i - 1].body, x[i + 1].body)
Guarded(x, strict) ==
    \A i \in 1 .. Len(x) : x[i].kind = "ad" => 1 < i /\ i < Len(x) /\ Neighbours(x, i, strict)
SpacedBy(x, gap) ==
    \A i, j \in 1 .. Len(x) : (x[i].kind = "ad" /\ x[j].kind = "ad" /\ i < j) => j - i > gap

ShownOf(x) == Bodies(OfKind(x, "post"))

\* All posts between some of the ads.
Laid(x, posts, ads, gap, strict, ordered) ==
    /\ Mixed(x) /\ Guarded(x, strict) /\ SpacedBy(x, gap)
    /\ Len(OfKind(x, "ad")) <= Len(ads)
    /\ Len(ShownOf(x)) = Len(posts) /\ Drawn(ShownOf(x), posts)
    /\ ordered => ShownOf(x) = posts

\* The ad that goes above a post, if any, and the post.
AdRow(posts, ads, p, i) ==
    (IF {k \in 1 .. Len(p) : p[k] = i - 1} = {} THEN <<>>
     ELSE <<Item("ad", ads[CHOOSE k \in {k \in 1 .. Len(p) : p[k] = i - 1} : TRUE])>>)
    \o <<Item("post", posts[i])>>
AdRows(posts, ads, p) == [i \in 1 .. Len(posts) |-> AdRow(posts, ads, p, i)]

\* InterleaveAndFinalize in terms of the rows.
LEMMA InterleaveIs ==
    \A posts, ads, p : InterleaveAndFinalize(posts, ads, p) = Finish(FlattenSeq(AdRows(posts, ads, p)))
BY DEF InterleaveAndFinalize, AdRows, AdRow

Mixture(posts, ads) ==
    {Item("post", b) : b \in Range1(posts)} \cup {Item("ad", b) : b \in Range1(ads)}

\* An item and its parts.
LEMMA ItemIs == \A k, b : IsItem(Item(k, b)) /\ Item(k, b).kind = k /\ Item(k, b).body = b
BY DEF Item, IsItem

\* An item of a post or of an ad.
LEMMA MixtureIs ==
    ASSUME NEW posts, NEW ads, NEW e \in Mixture(posts, ads)
    PROVE  /\ IsItem(e)
           /\ \/ e.kind = "post" /\ e = Item("post", e.body) /\ e.body \in Range1(posts)
              \/ e.kind = "ad" /\ e = Item("ad", e.body) /\ e.body \in Range1(ads)
<1>1. CASE e \in {Item("post", b) : b \in Range1(posts)}
  BY <1>1, ItemIs
<1>2. CASE e \in {Item("ad", b) : b \in Range1(ads)}
  BY <1>2, ItemIs
<1> QED BY <1>1, <1>2 DEF Mixture

\* A sequence of posts and ads is a mixed feed.
LEMMA MixtureMixed ==
    ASSUME NEW posts, NEW ads, NEW x \in Seq(Mixture(posts, ads))
    PROVE  Mixed(x) /\ \A i \in 1 .. Len(x) :
              x[i].kind = "post" => x[i].body \in Range1(posts) /\ x[i] = Item("post", x[i].body)
<1> DEFINE M == Mixture(posts, ads)
<1>1. Listed(x)
  BY ListOf
<1>2. \A i \in 1 .. Len(x) : x[i] \in M
  OBVIOUS
<1> HIDE DEF M
<1>3. \A i \in 1 .. Len(x) : /\ IsItem(x[i])
           /\ \/ x[i].kind = "post" /\ x[i] = Item("post", x[i].body) /\ x[i].body \in Range1(posts)
              \/ x[i].kind = "ad" /\ x[i] = Item("ad", x[i].body) /\ x[i].body \in Range1(ads)
  BY <1>2, MixtureIs DEF M
<1>4. Mixed(x)
  BY <1>1, <1>3 DEF Mixed, Feed
<1>5. \A i \in 1 .. Len(x) : x[i].kind = "post" => x[i].body \in Range1(posts) /\ x[i] = Item("post", x[i].body)
  BY <1>3
<1> QED BY <1>4, <1>5

\* A row is a post, with at most one ad above it.
LEMMA RowIs ==
    ASSUME NEW posts, Listed(posts), NEW ads, Listed(ads), NEW S, NEW p \in Seq(S),
           Len(p) <= Len(ads), NEW i \in 1 .. Len(posts)
    PROVE  LET row == AdRow(posts, ads, p, i)
           IN  /\ row \in Seq(Mixture(posts, ads))
               /\ \/ Len(row) = 1
                  \/ /\ Len(row) = 2 /\ row[1].kind = "ad"
                     /\ \E k \in 1 .. Len(p) : p[k] = i - 1
               /\ row[Len(row)] = Item("post", posts[i])
<1> DEFINE row == AdRow(posts, ads, p, i)
           at == {k \in 1 .. Len(p) : p[k] = i - 1}
           k == CHOOSE j \in at : TRUE
           post == Item("post", posts[i])
           ad == Item("ad", ads[k])
           M == Mixture(posts, ads)
<1>1. row = (IF at = {} THEN <<>> ELSE <<ad>>) \o <<post>>
  BY DEF AdRow
<1>2. post \in M
  BY ListedOver DEF Mixture, Range1
<1>3. at # {} => k \in 1 .. Len(p) /\ p[k] = i - 1 /\ ad \in M /\ ad.kind = "ad"
  <2> SUFFICES ASSUME at # {} PROVE k \in 1 .. Len(p) /\ p[k] = i - 1 /\ ad \in M /\ ad.kind = "ad"
    OBVIOUS
  <2>1. k \in 1 .. Len(p) /\ p[k] = i - 1
    OBVIOUS
  <2>2. k \in 1 .. Len(ads)
    BY <2>1, ListedOver
  <2> HIDE DEF k, at
  <2> QED BY <2>1, <2>2, ItemIs DEF Mixture, Range1
<1> HIDE DEF post, ad, M, at, k, row
<1>4. CASE at = {}
  <2>1. row = <<>> \o <<post>> /\ <<>> \o <<post>> = <<post>>
    BY <1>1, <1>2, <1>4
  <2>2. row = <<post>>
    BY <2>1
  <2>3. row \in Seq(M) /\ Len(row) = 1 /\ row[1] = post
    BY <1>2, <2>2
  <2> QED BY <2>3 DEF row, M, post
<1>5. CASE at # {}
  <2>1. row = <<ad>> \o <<post>>
    BY <1>1, <1>5
  <2>2. <<ad>> \in Seq(M) /\ <<post>> \in Seq(M)
    BY <1>2, <1>3, <1>5
  <2> DEFINE s == <<ad>>
             u == <<post>>
  <2>5. s \in Seq(M) /\ u \in Seq(M) /\ Len(s) = 1 /\ Len(u) = 1 /\ s[1] = ad /\ u[1] = post
    BY <2>2
  <2>6. row = s \o u
    BY <2>1
  <2> HIDE DEF s, u
  <2>7. Listed(s) /\ Listed(u) /\ row \in Seq(M)
    BY <2>5, <2>6, ListOf
  <2>8. Joins(row, s, u)
    BY <2>6, <2>7, ListsJoined
  <2>9. Len(row) = 2 /\ row[1] = s[1] /\ row[1 + 1] = u[1]
    BY <2>5, <2>8 DEF Joins
  <2>3. row \in Seq(M) /\ Len(row) = 2 /\ row[1] = ad /\ row[2] = post
    BY <2>5, <2>7, <2>9
  <2>4. /\ row \in Seq(M) /\ Len(row) = 2 /\ row[1].kind = "ad" /\ row[Len(row)] = post
        /\ \E j \in 1 .. Len(p) : p[j] = i - 1
    BY <1>3, <1>5, <2>3
  <2> QED BY <2>4 DEF row, M, post
<1> QED BY <1>4, <1>5

\* A list is drawn from itself.
LEMMA LaidWhole == \A x : Listed(x) => Drawn(x, x) /\ Len(x) = Len(x)
BY DrawnWhole

\* The safe-gap blender's feed before it is cut.
LEMMA Interleaved ==
    ASSUME NEW posts, Listed(posts), NEW ads, Listed(ads), NEW p \in Seq(FindSafeGaps(posts)),
           Len(p) <= Len(ads), FarApart(p)
    PROVE  LET x == FlattenSeq(AdRows(posts, ads, p))
           IN  x \in Seq(Mixture(posts, ads)) /\ Laid(x, posts, ads, DefaultSpacing.min, FALSE, TRUE)
<1> DEFINE N == Len(posts)
           M == Mixture(posts, ads)
           rows == AdRows(posts, ads, p)
           x == FlattenSeq(rows)
<1>1. N \in Nat /\ Len(p) \in Nat /\ Len(ads) \in Nat
  BY ListedOver
<1>2. \A k \in 1 .. Len(p) : /\ p[k] \in 1 .. N - 1 /\ p[k] \in Nat
                             /\ ~HasAvoid(posts[p[k]]) /\ ~HasAvoid(posts[p[k] + 1])
  <2> SUFFICES ASSUME NEW k \in 1 .. Len(p)
               PROVE  /\ p[k] \in 1 .. N - 1 /\ p[k] \in Nat
                      /\ ~HasAvoid(posts[p[k]]) /\ ~HasAvoid(posts[p[k] + 1])
    OBVIOUS
  <2> DEFINE G == FindSafeGaps(posts)
             at == p[k]
  <2>1. at \in G
    <3>1. p \in Seq(G)
      OBVIOUS
    <3> HIDE DEF G
    <3> QED BY <1>1, <3>1
  <2> HIDE DEF at
  <2>2. /\ at \in {i \in 1 .. N - 1 : ~HasAvoid(posts[i]) /\ ~HasAvoid(posts[i + 1])}
    BY ONLY <2>1 DEF FindSafeGaps, G, N
  <2>3. at \in 1 .. N - 1 /\ ~HasAvoid(posts[at]) /\ ~HasAvoid(posts[at + 1])
    BY ONLY <2>2
  <2>4. at \in Nat
    <3> HIDE DEF N
    <3> QED BY ONLY <1>1, <2>3
  <2> QED BY <2>3, <2>4 DEF at
<1>3. ASSUME NEW i \in 1 .. N
      PROVE  /\ rows[i] \in Seq(M)
             /\ \/ Len(rows[i]) = 1
                \/ Len(rows[i]) = 2 /\ rows[i][1].kind = "ad" /\ \E k \in 1 .. Len(p) : p[k] = i - 1
             /\ rows[i][Len(rows[i])] = Item("post", posts[i])
  <2>1. rows[i] = AdRow(posts, ads, p, i)
    BY DEF AdRows
  <2> HIDE DEF rows, M
  <2> QED BY <2>1, RowIs DEF M
<1>4. rows \in [1 .. N -> Seq(M)]
  BY <1>3 DEF AdRows
<1> HIDE DEF M, rows
<1> DEFINE len == [i \in 1 .. N |-> Len(rows[i])]
<1>a. \A i \in 1 .. N : Len(rows[i]) = len[i]
  OBVIOUS
<1>b. len \in [1 .. N -> 1 .. 2]
  <2> SUFFICES ASSUME NEW i \in 1 .. N PROVE Len(rows[i]) \in 1 .. 2
    OBVIOUS
  <2>1. Len(rows[i]) = 1 \/ Len(rows[i]) = 2
    BY <1>3
  <2> QED BY <2>1
<1> HIDE DEF len
<1>c. ASSUME NEW i \in 1 .. N, len[i] = 2
      PROVE  rows[i][1].kind = "ad" /\ \E k \in 1 .. Len(p) : p[k] = i - 1
  BY <1>3, <1>a, <1>c
<1>d. \A i \in 1 .. N : rows[i][len[i]].kind = "post" /\ rows[i][len[i]] = Item("post", posts[i])
  BY <1>3, <1>a, ItemIs
<1>5. rows \in Seq(Seq(M)) /\ Len(rows) = N
  BY <1>1, <1>4, AsSequence
<1>6. PICK start : x \in Seq(M) /\ Starts(start, rows, x)
  BY <1>5, FlattenPlaces
<1> HIDE DEF x, N
<1>7. /\ start \in [0 .. N -> Nat] /\ start[0] = 0 /\ start[N] = Len(x)
      /\ \A n \in 1 .. N : start[n] = start[n - 1] + len[n]
      /\ \A n \in 1 .. N : \A m \in 1 .. len[n] :
            start[n - 1] + m \in 1 .. Len(x) /\ x[start[n - 1] + m] = rows[n][m]
      /\ \A i \in 1 .. Len(x) :
            \E n \in 1 .. N : \E m \in 1 .. len[n] : i = start[n - 1] + m
  <2>1. /\ start \in [0 .. N -> Nat] /\ start[0] = 0 /\ start[N] = Len(x)
        /\ \A n \in 1 .. N : start[n] = start[n - 1] + Len(rows[n])
    BY <1>5, <1>6 DEF Starts
  <2>2. \A n \in 1 .. N : \A m \in 1 .. Len(rows[n]) :
            start[n - 1] + m \in 1 .. Len(x) /\ x[start[n - 1] + m] = rows[n][m]
    BY <1>5, <1>6 DEF Starts
  <2>3. \A i \in 1 .. Len(x) :
            \E n \in 1 .. N : \E m \in 1 .. Len(rows[n]) : i = start[n - 1] + m
    BY <1>5, <1>6 DEF Starts
  <2>4. \A n \in 1 .. N : start[n] = start[n - 1] + len[n]
    BY <1>a, <2>1
  <2>5. \A n \in 1 .. N : \A m \in 1 .. len[n] :
            start[n - 1] + m \in 1 .. Len(x) /\ x[start[n - 1] + m] = rows[n][m]
    BY <1>a, <2>2
  <2>6. \A i \in 1 .. Len(x) :
            \E n \in 1 .. N : \E m \in 1 .. len[n] : i = start[n - 1] + m
    BY <1>a, <2>3
  <2> QED BY <2>1, <2>4, <2>5, <2>6
<1>e. \A n \in 0 .. N : start[n] \in Nat
  BY <1>7
<1>8. \A m, n \in 0 .. N : m <= n => start[m] + (n - m) <= start[n]
  <2>1. \A n \in 1 .. N : len[n] >= 1
    BY <1>b
  <2>2. \A n \in 1 .. Len(rows) : Len(rows[n]) >= 1
    BY <1>5, <1>a, <2>1
  <2> QED BY <1>5, <1>6, <2>2, RowsGrow
<1>9. Len(x) \in Nat
  BY <1>6
\* a post stands at the end of its row
<1>10. \A n \in 1 .. N : start[n] \in 1 .. Len(x) /\ x[start[n]] = Item("post", posts[n])
  <2> SUFFICES ASSUME NEW n \in 1 .. N PROVE start[n] \in 1 .. Len(x) /\ x[start[n]] = Item("post", posts[n])
    OBVIOUS
  <2>1. len[n] \in 1 .. len[n]
    BY <1>b
  <2>2. start[n] = start[n - 1] + len[n]
    BY <1>7
  <2>3. start[n - 1] + len[n] \in 1 .. Len(x) /\ x[start[n - 1] + len[n]] = rows[n][len[n]]
    BY <1>7, <2>1
  <2> QED BY <1>d, <2>2, <2>3
\* and what stands elsewhere is an ad above it
<1>f. ASSUME NEW i \in 1 .. Len(x)
      PROVE  \E n \in 1 .. N :
                \/ i = start[n]
                \/ /\ i = start[n - 1] + 1 /\ start[n] = i + 1 /\ x[i].kind = "ad"
                   /\ \E k \in 1 .. Len(p) : p[k] = n - 1
  <2>1. PICK n \in 1 .. N : \E m \in 1 .. len[n] : i = start[n - 1] + m
    BY <1>7
  <2>2. PICK m \in 1 .. len[n] : i = start[n - 1] + m
    BY <2>1
  <2>3. x[i] = rows[n][m]
    BY <1>7, <2>2
  <2>4. len[n] \in 1 .. 2 /\ start[n] = start[n - 1] + len[n]
    BY <1>b, <1>7
  <2>5. n - 1 \in 0 .. N
    BY <1>1
  <2>6. start[n - 1] \in Nat
    BY <1>e, <2>5
  <2>7. CASE m = len[n]
    BY <2>2, <2>4, <2>7
  <2>8. CASE m # len[n]
    <3>1. m = 1 /\ len[n] = 2
      BY <2>4, <2>8
    <3>2. i = start[n - 1] + 1 /\ start[n] = i + 1
      BY <2>2, <2>4, <2>6, <3>1
    <3>3. x[i].kind = "ad" /\ \E k \in 1 .. Len(p) : p[k] = n - 1
      BY <1>c, <2>3, <3>1
    <3> QED BY <3>2, <3>3
  <2> QED BY <2>7, <2>8
\* an ad stands behind the last row above its gap
<1>11. ASSUME NEW i \in 1 .. Len(x), x[i].kind = "ad"
       PROVE  \E k \in 1 .. Len(p), g \in 1 .. N - 1 : g = p[k] /\ i = start[g] + 1 /\ start[g + 1] = i + 1
  <2>1. PICK n \in 1 .. N :
                \/ i = start[n]
                \/ /\ i = start[n - 1] + 1 /\ start[n] = i + 1 /\ x[i].kind = "ad"
                   /\ \E k \in 1 .. Len(p) : p[k] = n - 1
    BY <1>f
  <2>2. i # start[n]
    BY <1>10, <1>11, ItemIs
  <2>3. PICK k \in 1 .. Len(p) : p[k] = n - 1
    BY <2>1, <2>2
  <2>4. n - 1 \in 1 .. N - 1
    BY <1>2, <2>3
  <2>5. (n - 1) + 1 = n
    OBVIOUS
  <2> QED BY <2>1, <2>2, <2>3, <2>4, <2>5
<1>12. Mixed(x)
  BY <1>6, MixtureMixed DEF M
<1>13. Guarded(x, FALSE)
  <2> SUFFICES ASSUME NEW i \in 1 .. Len(x), x[i].kind = "ad"
               PROVE  1 < i /\ i < Len(x) /\ Neighbours(x, i, FALSE)
    BY DEF Guarded
  <2>1. PICK k \in 1 .. Len(p), g \in 1 .. N - 1 : g = p[k] /\ i = start[g] + 1 /\ start[g + 1] = i + 1
    BY <1>11
  <2>2. g \in 1 .. N /\ g + 1 \in 1 .. N
    BY <1>1
  <2>3. /\ start[g] \in 1 .. Len(x) /\ x[start[g]] = Item("post", posts[g])
        /\ start[g + 1] \in 1 .. Len(x) /\ x[start[g + 1]] = Item("post", posts[g + 1])
    BY <1>10, <2>2
  <2>4. i - 1 = start[g] /\ i + 1 = start[g + 1] /\ 1 < i /\ i < Len(x)
    <3>1. start[g] \in Nat /\ start[g] >= 1 /\ start[g + 1] <= Len(x)
      BY <1>9, <2>3
    <3> QED BY <1>9, <2>1, <3>1
  <2>5. /\ x[i - 1].kind = "post" /\ x[i - 1].body = posts[g]
        /\ x[i + 1].kind = "post" /\ x[i + 1].body = posts[g + 1]
    BY <2>3, <2>4, ItemIs
  <2> QED BY <1>2, <2>1, <2>4, <2>5 DEF Neighbours
<1>14. SpacedBy(x, DefaultSpacing.min)
  <2> SUFFICES ASSUME NEW i \in 1 .. Len(x), NEW j \in 1 .. Len(x),
                      x[i].kind = "ad", x[j].kind = "ad", i < j
               PROVE  j - i > DefaultSpacing.min
    BY DEF SpacedBy
  <2>1. PICK k \in 1 .. Len(p), g \in 1 .. N - 1 : g = p[k] /\ i = start[g] + 1 /\ start[g + 1] = i + 1
    BY <1>11
  <2>2. PICK l \in 1 .. Len(p), h \in 1 .. N - 1 : h = p[l] /\ j = start[h] + 1 /\ start[h + 1] = j + 1
    BY <1>11
  <2>0. i \in Nat /\ j \in Nat
    <3>1. Len(x) \in Nat
      BY <1>12, ListedOver DEF Mixed, Feed
    <3> QED BY <3>1
  <2>3. g \in 0 .. N /\ g + 1 \in 0 .. N /\ h \in 0 .. N
    BY <1>1
  <2>4. start[g] \in Nat /\ start[g + 1] \in Nat /\ start[h] \in Nat
    BY <1>e, <2>3
  <2>a. i = start[g] + 1 /\ j = start[h] + 1
    BY <2>1, <2>2
  <2>b. start[g + 1] = i + 1
    BY <2>1
  <2> DEFINE a == start[g]
             b == start[h]
             c == start[g + 1]
  <2>c. a \in Nat /\ b \in Nat /\ c \in Nat /\ i = a + 1 /\ j = b + 1 /\ c = i + 1
    BY <2>4, <2>a, <2>b
  <2>d. a < b /\ j - i = b - a /\ c = a + 2
    <3> HIDE DEF a, b, c
    <3> QED BY <2>0, <2>c
  <2>5. g < h
    <3> SUFFICES ASSUME ~(g < h) PROVE FALSE
      OBVIOUS
    <3>1. h <= g
      OBVIOUS
    <3>2. start[h] + (g - h) <= start[g]
      BY <1>8, <2>3, <3>1
    <3>3. start[g] < start[h]
      BY <2>d
    <3> QED BY <2>4, <3>1, <3>2, <3>3
  <2>6. k < l
    <3> SUFFICES ASSUME ~(k < l) PROVE FALSE
      OBVIOUS
    <3>1. l = k \/ l < k
      OBVIOUS
    <3>2. l < k => p[k] - p[l] >= DefaultSpacing.min
      BY DEF FarApart
    <3> QED BY <2>1, <2>2, <2>5, <3>1, <3>2, BlenderAssumption
  <2>7. h - g >= DefaultSpacing.min
    BY <2>1, <2>2, <2>6 DEF FarApart
  <2>8. g + 1 <= h
    BY <2>5
  <2>9. start[g + 1] + (h - (g + 1)) <= start[h]
    BY <1>8, <2>3, <2>8
  <2>10. (start[g] + 2) + (h - (g + 1)) <= start[h]
    <3>1. start[g + 1] = start[g] + 2
      BY <2>d
    <3> QED BY <2>9, <3>1
  <2>11. j - i = start[h] - start[g]
    BY <2>d
  <2>12. DefaultSpacing.min \in Nat
    BY BlenderAssumption
  <2>13. a + 2 + (h - (g + 1)) <= b
    BY <2>10
  <2> HIDE DEF a, b, c
  <2>14. b - a >= 1 + DefaultSpacing.min
    BY <2>3, <2>c, <2>7, <2>12, <2>13
  <2> QED BY <2>0, <2>c, <2>12, <2>14
<1>15. Len(OfKind(x, "ad")) <= Len(ads)
  <2> DEFINE f == [k \in 1 .. Len(p) |-> start[p[k]] + 1]
             A == PlacesOf(x, {"ad"})
  <2>1. Listed(x)
    BY <1>12 DEF Mixed, Feed
  <2>2. \A i \in A : \E k \in 1 .. Len(p) : f[k] = i
    <3> SUFFICES ASSUME NEW i \in A PROVE \E k \in 1 .. Len(p) : f[k] = i
      OBVIOUS
    <3>1. i \in 1 .. Len(x) /\ x[i].kind = "ad"
      BY <2>1, ListedOver DEF PlacesOf
    <3>2. PICK k \in 1 .. Len(p) : i = start[p[k]] + 1
      BY <1>11, <3>1
    <3> QED BY <3>2
  <2> HIDE DEF f
  <2>3. Cardinality(A) \in Nat /\ Cardinality(A) <= Len(p)
    <3> HIDE DEF A
    <3> QED BY <1>1, <2>2, AtMost
  <2>4. Len(OfKind(x, "ad")) = Cardinality(A)
    BY <2>1, KindsPlaced DEF OfKind
  <2> QED BY <1>1, <2>3, <2>4
<1>16. ShownOf(x) = posts
  <2> DEFINE f == [k \in 1 .. N |-> start[k]]
             o == OfKinds(x, {"post"})
             b == Bodies(o)
  <2>1. \A k \in 1 .. N : f[k] = start[k]
    OBVIOUS
  <2> HIDE DEF f
  <2>2. f \in [1 .. N -> 1 .. Len(x)]
    BY <1>10 DEF f
  <2>3. \A k \in 1 .. N : x[f[k]].kind \in {"post"}
    BY <1>10, <2>1, ItemIs
  <2>4. \A j, k \in 1 .. N : j < k => f[j] < f[k]
    <3> SUFFICES ASSUME NEW j \in 1 .. N, NEW k \in 1 .. N, j < k PROVE f[j] < f[k]
      OBVIOUS
    <3>1. j \in 0 .. N /\ k \in 0 .. N
      BY <1>1
    <3>2. start[j] + (k - j) <= start[k]
      BY <1>8, <3>1
    <3>3. start[j] \in Nat /\ start[k] \in Nat
      BY <1>e, <3>1
    <3> QED BY <2>1, <3>2, <3>3
  <2>5. ASSUME NEW i \in 1 .. Len(x), x[i].kind \in {"post"} PROVE \E k \in 1 .. N : f[k] = i
    <3>1. PICK n \in 1 .. N : i = start[n]
      BY <1>f, <2>5
    <3> QED BY <2>1, <3>1
  <2>6. N \in Nat /\ Listed(x)
    BY <1>1, <1>12 DEF Mixed, Feed
  <2>7. Places(f, N, x, {"post"})
    BY <2>2, <2>3, <2>4, <2>5, <2>6 DEF Places
  <2>8. Len(o) = N /\ Listed(o) /\ \A k \in 1 .. N : o[k] = x[f[k]]
    BY <2>6, <2>7, KindsListed
  <2> HIDE DEF o
  <2>9. Listed(b) /\ Len(b) = N /\ \A k \in 1 .. N : b[k] = o[k].body
    BY <2>8, BodiesOver
  <2> HIDE DEF b
  <2>10. \A k \in 1 .. N : b[k] = posts[k]
    BY <1>10, <2>1, <2>8, <2>9, ItemIs
  <2>11. b = [k \in 1 .. N |-> b[k]] /\ posts = [k \in 1 .. N |-> posts[k]]
    BY <2>9, ListedOver DEF N
  <2>12. b = posts
    BY <2>10, <2>11
  <2> QED BY <2>12 DEF ShownOf, OfKind, b, o
<1>17. Laid(x, posts, ads, DefaultSpacing.min, FALSE, TRUE)
  BY <1>12, <1>13, <1>14, <1>15, <1>16, LaidWhole DEF Laid
<1> QED BY <1>6, <1>17 DEF x, rows, M

(* ---------- The end of a feed -------------------------------------------- *)

\* A feed that starts as another, whatever the positions.
Begins(y, x) == Len(y) <= Len(x) /\ \A i \in 1 .. Len(y) : y[i].kind = x[i].kind /\ y[i].body = x[i].body

\* Numbering changes positions only.
LEMMA NumberedAlike ==
    ASSUME NEW x, Feed(x)
    PROVE  Feed(Numbered(x)) /\ Alike(Numbered(x), x)
<1> DEFINE y == Numbered(x)
           n == Len(x)
           T == {y[i] : i \in 1 .. n}
<1>1. n \in Nat /\ \A i \in 1 .. n : DOMAIN x[i] = {"kind", "body", "position"}
  BY ListedOver DEF Feed, IsItem
<1>2. y = [i \in 1 .. n |-> [x[i] EXCEPT !.position = i - 1]]
  BY DEF Numbered
<1>3. \A i \in 1 .. n : y[i] = [x[i] EXCEPT !.position = i - 1]
  BY <1>2
<1>4. \A i \in 1 .. n : IsItem(y[i]) /\ y[i].kind = x[i].kind /\ y[i].body = x[i].body
  BY <1>1, <1>3 DEF IsItem
<1>5. y \in [1 .. n -> T]
  BY <1>2
<1> HIDE DEF y, T, n
<1>6. y \in Seq(T) /\ Len(y) = n
  BY <1>1, <1>5, AsSequence
<1>7. Listed(y)
  BY <1>6, ListOf
<1> QED BY <1>4, <1>6, <1>7 DEF Feed, Alike, n, y

\* A mixed feed has posts and ads and nothing else.
LEMMA MixedCounts ==
    ASSUME NEW x, Mixed(x)
    PROVE  Len(x) = Len(OfKind(x, "post")) + Len(OfKind(x, "ad"))
<1> DEFINE P == PlacesOf(x, {"post"})
           A == PlacesOf(x, {"ad"})
<1>1. Listed(x) /\ Len(x) \in Nat /\ DOMAIN x = 1 .. Len(x)
  BY ListedOver DEF Mixed, Feed
<1>2. P \cup A = 1 .. Len(x) /\ P \cap A = {}
  BY <1>1 DEF Mixed, PlacesOf
<1> DEFINE n == Len(x)
<1>3. IsFiniteSet(1 .. n) /\ Cardinality(1 .. n) = n /\ n \in Nat
  <2>1. 1 \in Int /\ n \in Int /\ n \in Nat
    BY <1>1
  <2> HIDE DEF n
  <2>2. IsFiniteSet(1 .. n) /\ Cardinality(1 .. n) = IF 1 > n THEN 0 ELSE n - 1 + 1
    BY <2>1, FS_Interval
  <2> QED BY <2>1, <2>2
<1> HIDE DEF P, A
<1>4. IsFiniteSet(P) /\ IsFiniteSet(A) /\ P \subseteq 1 .. Len(x) /\ A \subseteq 1 .. Len(x)
  BY <1>2, <1>3, FS_Subset
<1>5. IsFiniteSet(P \cap A) /\ Cardinality(P \cap A) = 0
  BY <1>2, FS_EmptySet
<1>6. Cardinality(P \cup A) = Cardinality(P) + Cardinality(A) - Cardinality(P \cap A)
  BY <1>4, FS_Union
<1>7. Cardinality(P) \in Nat /\ Cardinality(A) \in Nat
  BY <1>4, FS_CardinalityType
<1>8. Len(OfKind(x, "post")) = Cardinality(P) /\ Len(OfKind(x, "ad")) = Cardinality(A)
  BY <1>1, KindsPlaced DEF OfKind, P, A
<1>9. P \cup A = 1 .. n
  BY <1>2
<1> HIDE DEF n
<1>10. n = Cardinality(P) + Cardinality(A)
  <2>1. Cardinality(P \cup A) = n
    BY <1>3, <1>9
  <2> DEFINE p == Cardinality(P)
             a == Cardinality(A)
             c == Cardinality(P \cup A)
             d == Cardinality(P \cap A)
  <2>2. c = p + a - d /\ d = 0 /\ c = n /\ p \in Nat /\ a \in Nat
    BY <1>5, <1>6, <1>7, <2>1
  <2> HIDE DEF p, a, c, d
  <2>3. n = p + a
    BY <1>3, <2>2
  <2> QED BY <2>3 DEF p, a
<1> QED BY <1>8, <1>10 DEF n

\* What is taken of two joined lists, as long as the first, is the first.
LEMMA FirstTaken ==
    ASSUME NEW s, Listed(s), NEW t, Listed(t)
    PROVE  Take(s \o t, Len(s)) = s /\ Drawn(s, s \o t)
<1> DEFINE u == s \o t
           T == Range1(s) \cup Range1(t)
           a == Take(u, Len(s))
<1>1. s \in Seq(T) /\ t \in Seq(T) /\ Len(s) \in Nat /\ Len(t) \in Nat
  BY DEF Listed
<1>2. Joins(u, s, t) /\ Listed(u)
  BY ListsJoined
<1>3. u \in Seq(T)
  BY <1>1
<1> HIDE DEF u, T
<1>4. Len(u) = Len(s) + Len(t) /\ \A i \in 1 .. Len(s) : i \in 1 .. Len(u) /\ u[i] = s[i]
  BY <1>2 DEF Joins
<1>5. a \in Seq(T) /\ \A i \in 1 .. Len(a) : a[i] = u[i]
  BY <1>1, <1>3, Cut
<1>6. Least(Len(s), Len(u)) = Len(s)
  BY <1>1, <1>4 DEF Least
<1>7. Len(a) = Len(s)
  BY <1>1, <1>3, <1>4, <1>6 DEF Take
<1>8. \A i \in 1 .. Len(a) : a[i] = s[i]
  BY <1>4, <1>5, <1>7
<1> HIDE DEF a
<1>9. a = s
  BY <1>1, <1>5, <1>7, <1>8, SameList
<1>10. Drawn(s, u)
  <2> DEFINE f == [k \in 1 .. Len(s) |-> k]
  <2>1. f \in [1 .. Len(s) -> 1 .. Len(u)] /\ \A k \in 1 .. Len(s) : f[k] = k
    BY <1>4
  <2> HIDE DEF f
  <2>2. /\ \A k \in 1 .. Len(s) : s[k] = u[f[k]]
        /\ \A j, k \in 1 .. Len(s) : j # k => f[j] # f[k]
    BY <1>4, <2>1
  <2> QED BY <2>1, <2>2 DEF Drawn
<1> QED BY <1>9, <1>10 DEF a, u

\* A list is its first part and the rest.
LEMMA CutInTwo ==
    ASSUME NEW s, Listed(s), NEW n \in Nat
    PROVE  LET a == Take(s, n)
               b == Skip(s, n)
           IN  Listed(a) /\ Listed(b) /\ s = a \o b /\ Len(a) = Least(n, Len(s))
<1> DEFINE T == Range1(s)
           a == Take(s, n)
           b == Skip(s, n)
           m == Least(n, Len(s))
<1>1. s \in Seq(T) /\ Len(s) \in Nat
  BY DEF Listed
<1> HIDE DEF T
<1>2. a \in Seq(T) /\ b \in Seq(T) /\ \A i \in 1 .. Len(a) : a[i] = s[i]
  BY <1>1, Cut
<1>3. \A i \in 1 .. Len(b) : n + i \in 1 .. Len(s) /\ b[i] = s[n + i]
  BY <1>1, Cut
<1>4. m \in 0 .. Len(s) /\ m <= n /\ (m = n \/ m = Len(s))
  BY <1>1 DEF Least
<1>5. Len(a) = m
  BY <1>1, <1>4 DEF Take
<1>6. Len(b) = IF n <= Len(s) THEN Len(s) - n ELSE 0
  BY <1>1 DEF Skip
<1>7. Len(b) = Len(s) - m /\ (Len(b) > 0 => m = n)
  <2> DEFINE l == Len(s)
             k == Len(b)
  <2>1. l \in Nat /\ k = (IF n <= l THEN l - n ELSE 0) /\ m = (IF n < l THEN n ELSE l)
    BY <1>1, <1>6 DEF Least
  <2> HIDE DEF l, k, m
  <2>2. k = l - m /\ (k > 0 => m = n)
    BY <2>1
  <2> QED BY <2>2 DEF l, k
<1> HIDE DEF a, b, m
<1> DEFINE u == a \o b
<1>8. Joins(u, a, b) /\ u \in Seq(T) /\ Listed(a) /\ Listed(b)
  BY <1>2, ListOf, ListsJoined
<1> HIDE DEF u
<1>9. Len(u) = Len(s)
  BY <1>1, <1>4, <1>5, <1>7, <1>8 DEF Joins
<1>10. \A i \in 1 .. Len(u) : u[i] = s[i]
  <2> SUFFICES ASSUME NEW i \in 1 .. Len(u) PROVE u[i] = s[i]
    OBVIOUS
  <2>1. CASE i \in 1 .. Len(a)
    BY <1>2, <1>8, <2>1 DEF Joins
  <2>2. CASE \E j \in 1 .. Len(b) : i = Len(a) + j
    <3>1. PICK j \in 1 .. Len(b) : i = Len(a) + j
      BY <2>2
    <3>2. m = n
      BY <1>2, <1>7, <3>1
    <3>3. i = n + j
      BY <1>5, <3>1, <3>2
    <3>4. u[i] = b[j]
      BY <1>8, <3>1 DEF Joins
    <3>5. b[j] = s[n + j]
      BY <1>3, <3>1
    <3> QED BY <3>3, <3>4, <3>5
  <2> QED BY <1>8, <2>1, <2>2 DEF Joins
<1>11. u = s
  BY <1>1, <1>8, <1>9, <1>10, SameList
<1> QED BY <1>5, <1>8, <1>11 DEF u, a, b, m

\* Three lists joined.
LEMMA JoinThree ==
    ASSUME NEW T, NEW s \in Seq(T), NEW t \in Seq(T), NEW u \in Seq(T)
    PROVE  (s \o t) \o u = s \o (t \o u)
OBVIOUS

\* What a blender makes of posts and ads.
Blended(x, posts, ads, gap, strict, ordered) ==
    /\ Mixed(x) /\ Guarded(x, strict) /\ SpacedBy(x, gap)
    /\ Drawn(ShownOf(x), posts)
    /\ Len(ShownOf(x)) + Len(ads) < ResultSize => Len(ShownOf(x)) = Len(posts)
    /\ ordered => ShownOf(x) = Take(posts, Len(ShownOf(x)))

\* Truncating and popping: the feed in two parts, the first of which is left.
LEMMA FinishParts ==
    ASSUME NEW x, Mixed(x), Guarded(x, FALSE)
    PROVE  \E g, t : /\ Listed(g) /\ Listed(t) /\ x = g \o t /\ Finish(x) = Numbered(g)
                     /\ Len(g) > 0 => g[Len(g)].kind = "post"
                     /\ \/ Len(t) = 0
                        \/ Len(g) = ResultSize
                        \/ Len(g) = ResultSize - 1 /\ Len(t) > 0 /\ t[1].kind = "ad"
<1> DEFINE c == Take(x, ResultSize)
           d == Skip(x, ResultSize)
<1>1. Listed(x) /\ Len(x) \in Nat /\ ResultSize \in Nat /\ ResultSize > 0
  BY ListedOver, BlenderAssumption DEF Mixed, Feed
<1>2. Listed(c) /\ Listed(d) /\ x = c \o d /\ Len(c) = Least(ResultSize, Len(x))
  BY <1>1, CutInTwo
<1>3. Joins(x, c, d) /\ Len(c) \in Nat /\ Len(d) \in Nat
  BY <1>2, ListsJoined, ListedOver
<1>4. \A i \in 1 .. Len(c) : i \in 1 .. Len(x) /\ x[i] = c[i]
  BY <1>3 DEF Joins
<1>5. \A i \in 1 .. Len(c) : c[i].kind \in {"post", "ad"}
  BY <1>4 DEF Mixed
<1>6. Finish(x) = Numbered(IF c # <<>> /\ Last(c).kind = "ad" THEN Front(c) ELSE c)
  BY DEF Finish
<1>7. Len(d) = 0 \/ Len(c) = ResultSize
  BY <1>1, <1>2, <1>3 DEF Joins, Least
<1> HIDE DEF c, d
<1>8. c # <<>> <=> Len(c) > 0
  BY <1>2, <1>3, ListedOver
<1>9. c # <<>> => Last(c) = c[Len(c)]
  BY DEF Last
<1>10. CASE ~(c # <<>> /\ Last(c).kind = "ad")
  <2>1. Len(c) > 0 => c[Len(c)].kind = "post"
    BY <1>3, <1>5, <1>8, <1>9, <1>10
  <2>2. Finish(x) = Numbered(c)
    BY <1>6, <1>10
  <2> QED BY <1>2, <1>7, <2>1, <2>2
<1>11. CASE c # <<>> /\ Last(c).kind = "ad"
  <2> DEFINE n == Len(c)
             g == Front(c)
             a == <<c[n]>>
             t == a \o d
             T == Range1(c)
  <2>1. n \in Nat /\ n > 0 /\ c[n].kind = "ad" /\ x[n] = c[n] /\ n \in 1 .. Len(x)
    BY <1>3, <1>4, <1>8, <1>9, <1>11
  <2>2. n < Len(x)
    BY <2>1 DEF Guarded
  <2>3. Len(d) > 0
    BY <1>1, <1>3, <2>1, <2>2 DEF Joins
  <2>4. n = ResultSize
    BY <1>7, <2>3
  <2>5. c \in Seq(T)
    BY <1>2 DEF Listed
  <2>6. c[n] \in T
    BY <2>1 DEF Range1
  <2> HIDE DEF T
  <2>7. g = SubSeq(c, 1, n - 1)
    BY DEF Front
  <2>8. g \in Seq(T) /\ Len(g) = n - 1 /\ \A i \in 1 .. Len(g) : g[i] = c[i]
    <3> DEFINE m == n - 1
    <3>1. m \in Nat /\ m <= Len(c) /\ m <= n
      BY <2>1
    <3>2. g = SubSeq(c, 1, m)
      BY <2>7
    <3> HIDE DEF m, g
    <3>3. g \in Seq(T) /\ Len(g) = m
      BY <2>5, <3>1, <3>2
    <3>4. \A i \in 1 .. m : g[i] = c[i]
      BY <2>5, <3>1, <3>2
    <3> QED BY <3>3, <3>4 DEF m
  <2>9. a \in Seq(T) /\ Len(a) = 1 /\ a[1] = c[n]
    BY <2>6
  <2> HIDE DEF g, a
  <2>10. Listed(g) /\ Listed(a) /\ Listed(t) /\ Joins(t, a, d)
    BY <1>2, <2>8, <2>9, ListOf, ListsJoined
  <2> DEFINE e == g \o a
  <2>11. e \in Seq(T) /\ Joins(e, g, a)
    BY <2>8, <2>9, <2>10, ListsJoined
  <2> HIDE DEF e
  <2>12. Len(e) = n
    BY <2>1, <2>8, <2>9, <2>11 DEF Joins
  <2>13. \A i \in 1 .. Len(e) : e[i] = c[i]
    <3> SUFFICES ASSUME NEW i \in 1 .. Len(e) PROVE e[i] = c[i]
      OBVIOUS
    <3>1. CASE i \in 1 .. Len(g)
      BY <2>8, <2>11, <3>1 DEF Joins
    <3>2. CASE i = n
      <4>1. 1 \in 1 .. Len(a) /\ Len(g) + 1 = n
        BY <2>1, <2>8, <2>9
      <4>2. e[Len(g) + 1] = a[1]
        BY <2>11, <4>1 DEF Joins
      <4> QED BY <2>9, <3>2, <4>1, <4>2
    <3> QED BY <2>1, <2>8, <2>12, <3>1, <3>2
  <2>14. e = c
    BY <2>1, <2>5, <2>11, <2>12, <2>13, SameList
  <2>15. x = (g \o a) \o d
    BY <1>2, <2>14 DEF e
  <2>16. x = g \o t
    <3> DEFINE U == Range1(g) \cup Range1(a) \cup Range1(d)
    <3>1. g \in Seq(U) /\ a \in Seq(U) /\ d \in Seq(U)
      BY <1>2, <2>10 DEF Listed
    <3> HIDE DEF U
    <3>2. (g \o a) \o d = g \o (a \o d)
      BY <3>1, JoinThree
    <3> QED BY <2>15, <3>2
  <2>17. Finish(x) = Numbered(g)
    BY <1>6, <1>11 DEF g
  <2> HIDE DEF t
  <2>18. Len(t) > 0 /\ t[1] = c[n]
    <3>1. 1 \in 1 .. Len(a)
      BY <2>9
    <3> QED BY <1>3, <2>9, <2>10, <3>1 DEF Joins
  <2>19. Len(g) > 0 => g[Len(g)].kind = "post"
    <3> SUFFICES ASSUME Len(g) > 0 PROVE g[Len(g)].kind = "post"
      OBVIOUS
    <3>1. n - 1 \in 1 .. Len(c) /\ g[n - 1] = c[n - 1] /\ Len(g) = n - 1
      BY <2>1, <2>8
    <3>2. x[n - 1].kind = "post"
      BY <2>1 DEF Guarded, Neighbours
    <3> QED BY <1>4, <3>1, <3>2
  <2> QED BY <2>1, <2>4, <2>8, <2>10, <2>16, <2>17, <2>18, <2>19
<1> QED BY <1>10, <1>11

Parts(x, g, t) == Listed(g) /\ Listed(t) /\ x = g \o t

\* The first of two parts, with its positions, is how the whole begins.
LEMMA PartBegins ==
    ASSUME NEW x, Feed(x), NEW g, NEW t, Parts(x, g, t)
    PROVE  /\ Feed(g) /\ Feed(Numbered(g)) /\ Alike(Numbered(g), g) /\ Begins(Numbered(g), x)
           /\ Joins(x, g, t)
<1>1. Joins(x, g, t) /\ Len(g) \in Nat /\ Len(t) \in Nat
  BY ListsJoined, ListedOver DEF Parts
<1>2. /\ Len(x) = Len(g) + Len(t) /\ \A i \in 1 .. Len(g) : i \in 1 .. Len(x) /\ x[i] = g[i]
  BY <1>1 DEF Joins
<1>3. Feed(g)
  BY <1>2 DEF Feed, Parts
<1>4. Feed(Numbered(g)) /\ Alike(Numbered(g), g)
  BY <1>3, NumberedAlike
<1>5. Begins(Numbered(g), x)
  BY <1>1, <1>2, <1>4 DEF Alike, Begins
<1> QED BY <1>1, <1>3, <1>4, <1>5

\* What holds between neighbours holds in the beginning of a feed, but at its end.
LEMMA BeginsGuarded ==
    ASSUME NEW x, Listed(x), NEW y, Listed(y), Begins(y, x), NEW strict, Guarded(x, strict),
           NEW i \in 1 .. Len(y), y[i].kind = "ad"
    PROVE  /\ 1 < i /\ i - 1 \in 1 .. Len(y) /\ y[i - 1].kind = "post" /\ ~HasAvoid(y[i - 1].body)
           /\ i < Len(y) => Neighbours(y, i, strict)
<1>1. Len(x) \in Nat /\ Len(y) \in Nat /\ Len(y) <= Len(x)
  BY ListedOver DEF Begins
<1>2. i \in 1 .. Len(x) /\ y[i].kind = x[i].kind /\ y[i].body = x[i].body
  BY <1>1 DEF Begins
<1>3. 1 < i /\ i < Len(x) /\ Neighbours(x, i, strict)
  BY <1>2 DEF Guarded
<1>4. i - 1 \in 1 .. Len(y) /\ (i < Len(y) => i + 1 \in 1 .. Len(y))
  BY <1>1, <1>3
<1>5. y[i - 1].kind = x[i - 1].kind /\ y[i - 1].body = x[i - 1].body
  BY <1>4 DEF Begins
<1>6. i < Len(y) => y[i + 1].kind = x[i + 1].kind /\ y[i + 1].body = x[i + 1].body
  BY <1>4 DEF Begins
<1>7. y[i - 1].kind = "post" /\ ~HasAvoid(y[i - 1].body)
  BY <1>3, <1>5 DEF Neighbours
<1>8. i < Len(y) => Neighbours(y, i, strict)
  BY <1>2, <1>3, <1>5, <1>6 DEF Neighbours
<1> QED BY <1>3, <1>4, <1>7, <1>8

\* The ads of the beginning of a feed are as far apart as in the feed.
LEMMA BeginsSpaced ==
    ASSUME NEW x, Listed(x), NEW y, Listed(y), Begins(y, x), NEW gap, SpacedBy(x, gap)
    PROVE  SpacedBy(y, gap)
<1>1. Len(x) \in Nat /\ Len(y) \in Nat /\ Len(y) <= Len(x)
  BY ListedOver DEF Begins
<1>2. \A i \in 1 .. Len(y) : i \in 1 .. Len(x) /\ y[i].kind = x[i].kind
  BY <1>1 DEF Begins
<1> QED BY <1>2 DEF SpacedBy

\* The bodies of the posts of two parts are those of both.
LEMMA PostsShown ==
    ASSUME NEW g, Feed(g), NEW y, Feed(y), Alike(y, g)
    PROVE  /\ Listed(ShownOf(y)) /\ Len(ShownOf(y)) \in Nat /\ ShownOf(y) = ShownOf(g)
           /\ Len(ShownOf(y)) = Len(OfKind(y, "post"))
<1>1. Listed(OfKind(y, "post")) /\ Len(OfKind(y, "post")) \in Nat
  BY KindsPlaced DEF OfKind, Feed
<1>2. Listed(ShownOf(y)) /\ Len(ShownOf(y)) = Len(OfKind(y, "post"))
  BY <1>1, BodiesOver DEF ShownOf
<1>3. ShownOf(y) = ShownOf(g)
  BY AlikePlaces DEF ShownOf, OfKind, Feed
<1> QED BY <1>1, <1>2, <1>3

\* A list is like itself.
LEMMA AlikeSelf == \A x : Alike(x, x)
BY DEF Alike

\* Cutting a laid-out feed, popping an ad at its end and numbering it leaves what a blender may return.
LEMMA Finished ==
    ASSUME NEW x, NEW posts, Listed(posts), NEW ads, Listed(ads), NEW gap, NEW strict \in BOOLEAN,
           NEW ordered \in BOOLEAN, Laid(x, posts, ads, gap, strict, ordered)
    PROVE  Blended(Finish(x), posts, ads, gap, strict, ordered)
<1> DEFINE y == Finish(x)
<1>1. /\ Mixed(x) /\ Guarded(x, strict) /\ SpacedBy(x, gap) /\ Feed(x) /\ Listed(x)
      /\ Len(OfKind(x, "ad")) <= Len(ads)
      /\ Len(ShownOf(x)) = Len(posts) /\ Drawn(ShownOf(x), posts)
      /\ ordered => ShownOf(x) = posts
  BY DEF Laid, Mixed, Feed
<1>2. Guarded(x, FALSE)
  BY <1>1 DEF Guarded, Neighbours
<1>3. PICK g, t : /\ Listed(g) /\ Listed(t) /\ x = g \o t /\ y = Numbered(g)
                  /\ Len(g) > 0 => g[Len(g)].kind = "post"
                  /\ \/ Len(t) = 0
                     \/ Len(g) = ResultSize
                     \/ Len(g) = ResultSize - 1 /\ Len(t) > 0 /\ t[1].kind = "ad"
  BY <1>1, <1>2, FinishParts
<1> HIDE DEF y
<1>4. /\ Feed(g) /\ Feed(y) /\ Alike(y, g) /\ Begins(y, x)
      /\ Len(x) = Len(g) + Len(t) /\ \A i \in 1 .. Len(g) : i \in 1 .. Len(x) /\ x[i] = g[i]
  <2>1. Feed(x) /\ Parts(x, g, t) /\ y = Numbered(g)
    BY <1>1, <1>3 DEF Parts
  <2>2. /\ Feed(g) /\ Feed(Numbered(g)) /\ Alike(Numbered(g), g) /\ Begins(Numbered(g), x)
        /\ Joins(x, g, t)
    BY <2>1, PartBegins
  <2> QED BY <2>1, <2>2 DEF Joins
<1>5. Len(y) = Len(g) /\ Len(g) \in Nat /\ Len(t) \in Nat /\ Listed(y)
  BY <1>3, <1>4, ListedOver DEF Alike, Feed
<1>6. Mixed(y) /\ Mixed(g)
  BY <1>1, <1>4, <1>5 DEF Mixed, Alike
<1>7. Guarded(y, strict)
  <2> SUFFICES ASSUME NEW i \in 1 .. Len(y), y[i].kind = "ad"
               PROVE  1 < i /\ i < Len(y) /\ Neighbours(y, i, strict)
    BY DEF Guarded
  <2>1. i < Len(y)
    <3> SUFFICES ASSUME ~(i < Len(y)) PROVE FALSE
      OBVIOUS
    <3>1. i = Len(g) /\ Len(g) > 0
      BY <1>5
    <3>2. y[i].kind = g[i].kind
      BY <1>4 DEF Alike
    <3> QED BY <1>3, <3>1, <3>2
  <2> QED BY <1>1, <1>4, <1>5, <2>1, BeginsGuarded
<1>8. SpacedBy(y, gap)
  BY <1>1, <1>4, <1>5, BeginsSpaced
<1>9. /\ Listed(ShownOf(y)) /\ ShownOf(y) = ShownOf(g) /\ Len(ShownOf(y)) \in Nat
      /\ Len(ShownOf(g)) = Len(OfKind(g, "post"))
  <2>1. Listed(ShownOf(y)) /\ ShownOf(y) = ShownOf(g) /\ Len(ShownOf(y)) \in Nat
    BY <1>4, PostsShown
  <2>2. Len(ShownOf(g)) = Len(OfKind(g, "post"))
    BY <1>4, AlikeSelf, PostsShown
  <2> QED BY <2>1, <2>2
<1> DEFINE rest == OfKind(t, "post")
           more == OfKind(t, "ad")
<1>10. /\ Listed(rest) /\ OfKind(x, "post") = OfKind(g, "post") \o rest /\ Listed(OfKind(g, "post"))
       /\ Listed(more) /\ OfKind(x, "ad") = OfKind(g, "ad") \o more /\ Listed(OfKind(g, "ad"))
  <2>1. \A kinds : OfKinds(x, kinds) = OfKinds(g, kinds) \o OfKinds(t, kinds)
    BY <1>3, KindsJoined
  <2>2. \A kinds : Listed(OfKinds(g, kinds)) /\ Listed(OfKinds(t, kinds))
    BY <1>3, KindsPlaced
  <2> QED BY <2>1, <2>2 DEF OfKind
<1>11. ShownOf(x) = ShownOf(y) \o Bodies(rest) /\ Listed(Bodies(rest)) /\ Len(Bodies(rest)) \in Nat
  <2>1. Listed(Bodies(rest))
    BY <1>10, BodiesOver
  <2> QED BY <1>9, <1>10, <2>1, BodiesJoined, ListedOver DEF ShownOf
<1>12. Len(OfKind(x, "ad")) = Len(OfKind(g, "ad")) + Len(more) /\ Len(more) \in Nat /\ Len(OfKind(g, "ad")) \in Nat
  <2>1. Joins(OfKind(x, "ad"), OfKind(g, "ad"), more)
    BY <1>10, ListsJoined
  <2> QED BY <1>10, <2>1, ListedOver DEF Joins
<1>13. Len(ShownOf(x)) = Len(ShownOf(y)) + Len(Bodies(rest))
  <2>1. Joins(ShownOf(x), ShownOf(y), Bodies(rest))
    BY <1>9, <1>11, ListsJoined
  <2> QED BY <2>1 DEF Joins
<1>14. Drawn(ShownOf(y), posts)
  BY <1>1, <1>9, <1>11, FirstTaken, DrawnTwice
<1>15. ordered => ShownOf(y) = Take(posts, Len(ShownOf(y)))
  BY <1>1, <1>9, <1>11, FirstTaken
<1>16. Len(g) = Len(ShownOf(y)) + Len(OfKind(g, "ad"))
  BY <1>6, <1>9, MixedCounts
<1>17. Len(t) > 0 /\ t[1].kind = "ad" => Len(more) > 0
  <2> SUFFICES ASSUME Len(t) > 0, t[1].kind = "ad" PROVE Len(more) > 0
    OBVIOUS
  <2>1. 1 \in PlacesOf(t, {"ad"})
    BY <1>3, <1>5, ListedOver DEF PlacesOf
  <2>2. \E i \in 1 .. Len(more) : TRUE
    BY <1>3, <2>1, KindsPlaced DEF OfKind
  <2> QED BY <1>12, <2>2
<1>18. Len(ShownOf(y)) + Len(ads) < ResultSize => Len(ShownOf(y)) = Len(posts)
  <2> DEFINE s == Len(ShownOf(y))
             n == Len(OfKind(g, "ad"))
             m == Len(more)
             a == Len(ads)
             h == Len(g)
  <2>1. /\ s \in Nat /\ n \in Nat /\ m \in Nat /\ h = s + n /\ n + m <= a /\ a \in Nat
        /\ h \in Nat /\ ResultSize \in Nat
        /\ Len(t) = 0 \/ h = ResultSize \/ (h = ResultSize - 1 /\ m > 0)
    <3>1. Len(OfKind(x, "ad")) <= Len(ads)
      BY <1>1
    <3>2. n + m <= a
      BY <1>12, <3>1
    <3>3. Len(t) = 0 \/ h = ResultSize \/ (h = ResultSize - 1 /\ m > 0)
      BY <1>3, <1>17
    <3>4. a \in Nat /\ ResultSize \in Nat
      BY ListedOver, BlenderAssumption
    <3> QED BY <1>5, <1>9, <1>12, <1>16, <3>2, <3>3, <3>4
  <2>2. Len(t) = 0 => s = Len(posts)
    <3> SUFFICES ASSUME Len(t) = 0 PROVE s = Len(posts)
      OBVIOUS
    <3>1. Len(rest) = 0
      <4> SUFFICES ASSUME Len(rest) # 0 PROVE FALSE
        OBVIOUS
      <4>1. Len(rest) \in Nat /\ 1 \in 1 .. Len(rest)
        BY <1>10, ListedOver
      <4>2. \E i \in 1 .. Len(t) : TRUE
        BY <1>3, <4>1, KindsPlaced DEF OfKind
      <4> QED BY <4>2
    <3>2. Len(Bodies(rest)) = 0
      BY <1>10, <3>1, BodiesOver
    <3> QED BY <1>1, <1>9, <1>13, <3>2
  <2> HIDE DEF s, n, m, a, h
  <2>3. s + a < ResultSize => s = Len(posts)
    BY <2>1, <2>2
  <2> QED BY <2>3 DEF s, a
<1> QED BY <1>6, <1>7, <1>8, <1>14, <1>15, <1>18 DEF Blended, y

\* A feed of posts alone.
LEMMA PlainBlended ==
    ASSUME NEW posts, Listed(posts), NEW ps, Listed(ps), Drawn(ps, posts), Len(ps) = Len(posts), NEW ads,
           NEW gap, NEW strict \in BOOLEAN, NEW ordered \in BOOLEAN, ordered => ps = posts
    PROVE  Blended(PostsToFeedItems(ps), posts, ads, gap, strict, ordered)
<1> DEFINE x == MapSeq(ps, LAMBDA p : Item("post", p))
           y == PostsToFeedItems(ps)
           n == Len(ps)
           T == {Item("post", ps[i]) : i \in 1 .. n}
<1>1. n \in Nat /\ x = [i \in 1 .. n |-> Item("post", ps[i])] /\ y = Numbered(x)
  BY ListedOver DEF MapSeq, PostsToFeedItems
<1> HIDE DEF y
<1>2. x \in [1 .. n -> T]
  BY <1>1
<1>3. \A i \in 1 .. n : x[i] = Item("post", ps[i])
  BY <1>1
<1> HIDE DEF x, T
<1>4. x \in Seq(T) /\ Len(x) = n
  BY <1>1, <1>2, AsSequence
<1>5. Feed(x) /\ \A i \in 1 .. n : x[i].kind = "post" /\ x[i].body = ps[i]
  BY <1>3, <1>4, ItemIs, ListOf DEF Feed
<1>6. Feed(y) /\ Alike(y, x)
  BY <1>1, <1>5, NumberedAlike
<1>7. Len(y) = n /\ Listed(y) /\ Listed(x) /\ \A i \in 1 .. n : y[i].kind = "post" /\ y[i].body = ps[i]
  BY <1>4, <1>5, <1>6 DEF Alike, Feed
<1>8. OfKind(y, "post") = y
  BY <1>7, AllOfKinds DEF OfKind
<1>9. ShownOf(y) = ps
  <2>1. Listed(Bodies(y)) /\ Len(Bodies(y)) = n /\ \A i \in 1 .. n : Bodies(y)[i] = ps[i]
    BY <1>7, BodiesOver
  <2> DEFINE b == Bodies(y)
             U == Range1(b) \cup Range1(ps)
  <2>2. b \in Seq(U) /\ ps \in Seq(U)
    BY <2>1 DEF Listed
  <2> HIDE DEF b, U
  <2>3. b = ps
    BY <2>1, <2>2, SameList DEF b
  <2> QED BY <1>8, <2>3 DEF ShownOf, b
<1>10. Mixed(y) /\ Guarded(y, strict) /\ SpacedBy(y, gap)
  BY <1>6, <1>7 DEF Mixed, Guarded, SpacedBy
<1>11. Take(ps, Len(ps)) = ps
  <2> DEFINE U == Range1(ps)
  <2>1. ps \in Seq(U) /\ Least(n, n) = n
    BY DEF Listed, Least
  <2> HIDE DEF U
  <2>2. SubSeq(ps, 1, n) = ps
    BY <1>1, <2>1
  <2> QED BY <2>1, <2>2 DEF Take
<1> QED BY <1>9, <1>10, <1>11 DEF Blended, y

\* What the safe-gap blender makes of posts and ads.
THEOREM SafeGapBlended ==
    ASSUME NEW posts, Listed(posts), NEW ads, Positioned(ads)
    PROVE  Blended(SafeGapBlend(posts, ads), posts, ads, DefaultSpacing.min, FALSE, TRUE)
<1>1. CASE ads = <<>> \/ Len(posts) < MinPostsForAds
  <2>1. SafeGapBlend(posts, ads) = PostsToFeedItems(posts)
    BY <1>1 DEF SafeGapBlend
  <2> QED BY <2>1, DrawnWhole, PlainBlended
<1>2. CASE ~(ads = <<>> \/ Len(posts) < MinPostsForAds)
  <2> DEFINE asked == ads[1].insert_position
             first == IF asked < 0 THEN 0 ELSE asked
             gaps == FindSafeGaps(posts)
             spacing == ComputeSpacing(ads)
             p == AssignAdsToGaps(gaps, Len(ads), spacing, first)
  <2>1. SafeGapBlend(posts, ads) = InterleaveAndFinalize(posts, ads, p)
    BY <1>2 DEF SafeGapBlend
  <2>2. Listed(ads) /\ Len(ads) \in Nat /\ Len(posts) \in Nat /\ Len(ads) # 0
    BY <1>2, ListedOver DEF Positioned
  <2>3. first \in Int
    BY <2>2 DEF Positioned
  <2>4. gaps \subseteq Nat
    BY <2>2 DEF FindSafeGaps
  <2>5. spacing \in [requested : Nat \ {0}, min : Nat \ {0}]
    BY Spaced
  <2> HIDE DEF asked, first, spacing
  <2>6. p \in Seq(gaps) /\ Len(p) <= Len(ads) /\ FarApart(p)
    <3> HIDE DEF gaps
    <3> QED BY <2>2, <2>3, <2>4, <2>5, AdsPlaced
  <2> DEFINE x == FlattenSeq(AdRows(posts, ads, p))
  <2> HIDE DEF p
  <2>7. Laid(x, posts, ads, DefaultSpacing.min, FALSE, TRUE)
    BY <2>2, <2>6, Interleaved
  <2> HIDE DEF x
  <2>8. Blended(Finish(x), posts, ads, DefaultSpacing.min, FALSE, TRUE)
    BY <2>2, <2>7, Finished
  <2> QED BY <2>1, <2>8, InterleaveIs DEF x
<1> QED BY <1>1, <1>2

(* ---------- What stands around a blended feed ----------------------------- *)

Blends == {"post", "ad"}

\* An item the blender puts out; who it recommends to follow is in S.
Suits(e, S) ==
    /\ e.kind \in {"post", "ad", "wtf", "prompt", "pth"}
    /\ e.kind = "wtf" => e.body \in S

\* A list of such items with the posts and ads of b.
Retains(v, b, S) ==
    /\ Feed(v) /\ OfKinds(v, Blends) = b
    /\ \A i \in 1 .. Len(v) : Suits(v[i], S)

\* A feed retains itself.
LEMMA MixedRetains == ASSUME NEW b, Mixed(b), NEW S PROVE Retains(b, b, S)
<1>1. Feed(b) /\ Listed(b) /\ \A i \in 1 .. Len(b) : b[i].kind \in Blends
  BY DEF Mixed, Feed, Blends
<1>2. OfKinds(b, Blends) = b
  BY <1>1, AllOfKinds
<1>3. \A i \in 1 .. Len(b) : Suits(b[i], S)
  BY <1>1 DEF Blends, Suits
<1> QED BY <1>1, <1>2, <1>3 DEF Retains

\* What two lists retain, both joined retain.
LEMMA RetainsJoined ==
    ASSUME NEW S, NEW v, NEW b, Retains(v, b, S), NEW w, NEW c, Retains(w, c, S)
    PROVE  Retains(v \o w, b \o c, S)
<1> DEFINE u == v \o w
<1>1. Listed(v) /\ Listed(w) /\ Feed(v) /\ Feed(w)
  BY DEF Retains, Feed
<1>2. Listed(u) /\ Joins(u, v, w)
  BY <1>1, ListsJoined
<1>3. OfKinds(u, Blends) = OfKinds(v, Blends) \o OfKinds(w, Blends)
  BY <1>1, KindsJoined
<1> HIDE DEF u
<1>4. \A i \in 1 .. Len(u) : IsItem(u[i]) /\ Suits(u[i], S)
  <2> SUFFICES ASSUME NEW i \in 1 .. Len(u)
               PROVE  IsItem(u[i]) /\ Suits(u[i], S)
    OBVIOUS
  <2>1. CASE i \in 1 .. Len(v)
    BY <1>2, <2>1 DEF Joins, Retains, Feed
  <2>2. CASE \E j \in 1 .. Len(w) : i = Len(v) + j
    BY <1>2, <2>2 DEF Joins, Retains, Feed
  <2> QED BY <1>2, <2>1, <2>2 DEF Joins
<1> QED BY <1>2, <1>3, <1>4 DEF Retains, Feed, u

\* The same, when a list is split.
LEMMA RetainsSplit ==
    ASSUME NEW S, NEW v, NEW b, Retains(v, b, S), NEW s, NEW t, Parts(v, s, t)
    PROVE  Retains(s, OfKinds(s, Blends), S) /\ Retains(t, OfKinds(t, Blends), S)
           /\ Parts(b, OfKinds(s, Blends), OfKinds(t, Blends))
<1>1. Joins(v, s, t) /\ Listed(s) /\ Listed(t)
  BY ListsJoined DEF Parts
<1>2. OfKinds(v, Blends) = OfKinds(s, Blends) \o OfKinds(t, Blends)
  BY KindsJoined DEF Parts
<1>3. Listed(OfKinds(s, Blends)) /\ Listed(OfKinds(t, Blends))
  BY <1>1, KindsPlaced
<1>4. Parts(b, OfKinds(s, Blends), OfKinds(t, Blends))
  BY <1>2, <1>3 DEF Parts, Retains
<1>5. \A i \in 1 .. Len(s) : IsItem(s[i]) /\ Suits(s[i], S)
  BY <1>1 DEF Joins, Retains, Feed
<1>6. \A i \in 1 .. Len(t) : IsItem(t[i]) /\ Suits(t[i], S)
  BY <1>1 DEF Joins, Retains, Feed
<1> QED BY <1>1, <1>4, <1>5, <1>6 DEF Retains, Feed

\* What is neither a post nor an ad adds nothing.
LEMMA RetainsNone ==
    ASSUME NEW a, Feed(a), NEW S,
           \A i \in 1 .. Len(a) : a[i].kind \notin Blends /\ Suits(a[i], S)
    PROVE  Retains(a, <<>>, S)
BY NoneOfKinds DEF Retains, Feed

\* Nothing in front of a list.
LEMMA EmptyJoined == \A b : Listed(b) => <<>> \o b = b
<1> SUFFICES ASSUME NEW b, Listed(b) PROVE <<>> \o b = b
  OBVIOUS
<1> DEFINE T == Range1(b)
<1>1. b \in Seq(T)
  BY DEF Listed
<1> HIDE DEF T
<1> QED BY <1>1

\* Items of other kinds in front of a feed change nothing of what it retains.
LEMMA InFront ==
    ASSUME NEW a, Feed(a), NEW S, NEW v, NEW b, Retains(v, b, S),
           \A i \in 1 .. Len(a) : a[i].kind \notin Blends /\ Suits(a[i], S)
    PROVE  Retains(a \o v, b, S)
<1>1. Retains(a, <<>>, S)
  BY RetainsNone
<1>2. Retains(a \o v, <<>> \o b, S)
  BY <1>1, RetainsJoined
<1>3. Listed(b)
  BY KindsPlaced DEF Retains, Feed
<1> QED BY <1>2, <1>3, EmptyJoined

\* A list of one item.
LEMMA OneItem ==
    ASSUME NEW e, IsItem(e) PROVE Feed(<<e>>) /\ Len(<<e>>) = 1 /\ <<e>>[1] = e
<1>1. <<e>> \in Seq({e}) /\ Len(<<e>>) = 1 /\ <<e>>[1] = e
  OBVIOUS
<1>2. Listed(<<e>>)
  BY <1>1, ListOf
<1> DEFINE a == <<e>>
<1> HIDE DEF a
<1>3. \A i \in 1 .. Len(a) : IsItem(a[i])
  <2>1. Len(a) = 1 /\ a[1] = e
    BY <1>1 DEF a
  <2> QED BY <2>1
<1> QED BY <1>1, <1>2, <1>3 DEF Feed, a

\* An item of another kind inserted changes nothing of what a feed retains.
LEMMA Inserted1 ==
    ASSUME NEW S, NEW v, NEW b, Retains(v, b, S), NEW m \in Nat, m <= Len(v),
           NEW e, IsItem(e), e.kind \notin Blends, Suits(e, S)
    PROVE  Retains(InsertAt(v, m + 1, e), b, S)
<1> DEFINE s == Take(v, m)
           t == Skip(v, m)
           c == OfKinds(s, Blends)
           d == OfKinds(t, Blends)
           a == <<e>>
<1>1. Listed(v) /\ Len(v) \in Nat
  BY ListedOver DEF Retains, Feed
<1>2. Parts(v, s, t)
  BY <1>1, CutInTwo DEF Parts
<1>3. s = SubSeq(v, 1, (m + 1) - 1) /\ t = SubSeq(v, m + 1, Len(v))
  <2>1. Least(m, Len(v)) = m /\ (m + 1) - 1 = m
    BY <1>1 DEF Least
  <2> QED BY <2>1 DEF Take, Skip
<1>4. InsertAt(v, m + 1, e) = (s \o a) \o t
  BY <1>3 DEF InsertAt
<1> HIDE DEF s, t
<1>5. Retains(s, c, S) /\ Retains(t, d, S) /\ Parts(b, c, d)
  BY <1>2, RetainsSplit
<1>6. Retains(a, <<>>, S)
  <2>1. Feed(a) /\ Len(a) = 1 /\ a[1] = e
    BY OneItem
  <2> HIDE DEF a
  <2>2. \A i \in 1 .. Len(a) : a[i].kind \notin Blends /\ Suits(a[i], S)
    BY <2>1
  <2> QED BY <2>1, <2>2, RetainsNone
<1> HIDE DEF a, c, d
<1>7. Retains(s \o a, c \o <<>>, S)
  BY <1>5, <1>6, RetainsJoined
<1>8. c \o <<>> = c
  <2> DEFINE T == Range1(c)
  <2>1. c \in Seq(T)
    BY <1>5 DEF Parts, Listed
  <2> HIDE DEF T
  <2> QED BY <2>1
<1>9. Retains((s \o a) \o t, c \o d, S)
  BY <1>5, <1>7, <1>8, RetainsJoined
<1> QED BY <1>4, <1>5, <1>9 DEF Parts

Recommended(items) == {items[i].body : i \in {j \in 1 .. Len(items) : items[j].kind = "wtf"}}

\* The items of one kind.
LEMMA OneKind ==
    ASSUME NEW items, Feed(items), NEW kind
    PROVE  LET p == OfKind(items, kind)
           IN  /\ Feed(p) /\ Len(p) \in Nat
               /\ \A i \in 1 .. Len(p) : p[i].kind = kind
               /\ kind = "wtf" => \A i \in 1 .. Len(p) : p[i].body \in Recommended(items)
<1> DEFINE p == OfKind(items, kind)
           a == Ascending(PlacesOf(items, {kind}))
<1>1. /\ Listed(p) /\ Len(p) \in Nat
      /\ \A i \in 1 .. Len(p) : a[i] \in 1 .. Len(items) /\ items[a[i]].kind \in {kind} /\ p[i] = items[a[i]]
  BY KindsPlaced DEF OfKind, Feed
<1> HIDE DEF p, a
<1>2. \A i \in 1 .. Len(p) : IsItem(p[i]) /\ p[i].kind = kind
  BY <1>1 DEF Feed
<1>3. kind = "wtf" => \A i \in 1 .. Len(p) : p[i].body \in Recommended(items)
  BY <1>1, <1>2 DEF Recommended
<1> QED BY <1>1, <1>2, <1>3 DEF Feed, p

\* An item at another position is of the same kind.
LEMMA Moved ==
    ASSUME NEW e, IsItem(e), NEW n
    PROVE  LET f == [e EXCEPT !.position = n] IN IsItem(f) /\ f.kind = e.kind /\ f.body = e.body
BY DEF IsItem

\* InsertPrompts retains the blended feed.
LEMMA WithPrompts ==
    ASSUME NEW items, Feed(items), NEW S, NEW v, NEW b, Retains(v, b, S)
    PROVE  Retains(InsertPrompts(v, OfKind(items, "prompt")), b, S)
<1> DEFINE p == OfKind(items, "prompt")
           n == Len(p)
           a == [i \in 1 .. n |-> [p[i] EXCEPT !.position = PromptsPosition]]
           T == {[p[i] EXCEPT !.position = PromptsPosition] : i \in 1 .. n}
<1>1. Feed(p) /\ n \in Nat /\ \A i \in 1 .. n : p[i].kind = "prompt"
  BY OneKind
<1>2. InsertPrompts(v, p) = a \o v
  BY DEF InsertPrompts
<1> HIDE DEF p, n
<1>3. a \in [1 .. n -> T] /\ \A i \in 1 .. n : a[i] = [p[i] EXCEPT !.position = PromptsPosition]
  OBVIOUS
<1> HIDE DEF a, T
<1>4. a \in Seq(T) /\ Len(a) = n
  BY <1>1, <1>3, AsSequence
<1>5. \A i \in 1 .. n : IsItem(p[i])
  BY <1>1 DEF Feed, n
<1>6. \A i \in 1 .. n : IsItem(a[i]) /\ a[i].kind = "prompt"
  <2> SUFFICES ASSUME NEW i \in 1 .. n PROVE IsItem(a[i]) /\ a[i].kind = "prompt"
    OBVIOUS
  <2> DEFINE e == p[i]
             f == [e EXCEPT !.position = PromptsPosition]
  <2>1. IsItem(e) /\ e.kind = "prompt" /\ a[i] = f
    BY <1>1, <1>3, <1>5
  <2> HIDE DEF e
  <2>2. IsItem(f) /\ f.kind = e.kind
    BY <2>1, Moved
  <2> QED BY <2>1, <2>2
<1>7. Feed(a)
  BY <1>4, <1>6, ListOf DEF Feed
<1>8. \A i \in 1 .. Len(a) : a[i].kind \notin Blends /\ Suits(a[i], S)
  BY <1>4, <1>6 DEF Blends, Suits
<1>9. Retains(a \o v, b, S)
  BY <1>7, <1>8, InFront
<1> QED BY <1>2, <1>9 DEF p

\* InsertWhoToFollow retains the blended feed and adds a recommended module.
LEMMA WithWhoToFollow ==
    ASSUME NEW items, Feed(items), NEW v, NEW b, Retains(v, b, Recommended(items))
    PROVE  Retains(InsertWhoToFollow(v, OfKind(items, "wtf")), b, Recommended(items))
<1> DEFINE p == OfKind(items, "wtf")
           at == IF WhoToFollowPosition = 0 THEN 0 ELSE WhoToFollowPosition - 1
           m == IF at < Len(v) THEN at ELSE Len(v)
           e == [Head(p) EXCEPT !.position = WhoToFollowPosition]
           S == Recommended(items)
<1>1. /\ Feed(p) /\ Len(p) \in Nat
      /\ \A i \in 1 .. Len(p) : p[i].kind = "wtf" /\ p[i].body \in S
  BY OneKind
<1>2. InsertWhoToFollow(v, p) = IF p = <<>> THEN v ELSE InsertAt(v, m + 1, e)
  BY DEF InsertWhoToFollow
<1>3. Len(v) \in Nat /\ at \in Nat
  BY ListedOver, BlenderAssumption DEF Retains, Feed
<1>4. m \in Nat /\ m <= Len(v)
  BY <1>3
<1> HIDE DEF m, S, p
<1>5. CASE p = <<>>
  BY <1>2, <1>5 DEF p, S
<1>6. CASE p # <<>>
  <2>1. Listed(p) /\ Len(p) # 0
    <3> DEFINE T == Range1(p)
    <3>1. p \in Seq(T)
      BY <1>1 DEF Feed, Listed
    <3> HIDE DEF T
    <3>2. Len(p) # 0
      BY <1>6, <3>1
    <3> QED BY <1>1, <3>2 DEF Feed
  <2>2. Head(p) = p[1] /\ 1 \in 1 .. Len(p)
    BY <1>1, <2>1, ListedOver
  <2>3. IsItem(Head(p)) /\ Head(p).kind = "wtf" /\ Head(p).body \in S
    BY <1>1, <2>2 DEF Feed
  <2>4. IsItem(e) /\ e.kind = "wtf" /\ e.body \in S
    BY <2>3, Moved
  <2> HIDE DEF e
  <2>5. Retains(v, b, S) /\ e.kind \notin Blends /\ Suits(e, S)
    BY <2>4 DEF S, Blends, Suits
  <2>6. Retains(InsertAt(v, m + 1, e), b, S)
    BY <1>4, <2>4, <2>5, Inserted1
  <2>7. InsertWhoToFollow(v, p) = InsertAt(v, m + 1, e)
    BY <1>2, <1>6 DEF e
  <2> QED BY <2>6, <2>7 DEF p, S
<1> QED BY <1>5, <1>6

\* PinPushToHome retains the blended feed.
LEMMA WithPushToHome ==
    ASSUME NEW items, Feed(items), NEW S, NEW v, NEW b, Retains(v, b, S)
    PROVE  Retains(PinPushToHome(v, OfKind(items, "pth")), b, S)
<1> DEFINE p == OfKind(items, "pth")
           e == Last(p)
           a == <<e>>
<1>1. Feed(p) /\ Len(p) \in Nat /\ \A i \in 1 .. Len(p) : p[i].kind = "pth"
  BY OneKind
<1>2. PinPushToHome(v, p) = IF p = <<>> THEN v ELSE a \o v
  BY DEF PinPushToHome
<1> HIDE DEF p
<1>3. CASE p = <<>>
  BY <1>2, <1>3 DEF p
<1>4. CASE p # <<>>
  <2>1. Len(p) # 0
    <3> DEFINE T == Range1(p)
    <3>1. p \in Seq(T)
      BY <1>1 DEF Feed, Listed
    <3> HIDE DEF T
    <3> QED BY <1>4, <3>1
  <2>2. e = p[Len(p)] /\ Len(p) \in 1 .. Len(p)
    BY <1>1, <2>1 DEF Last
  <2>3. IsItem(e) /\ e.kind = "pth"
    BY <1>1, <2>2 DEF Feed
  <2> HIDE DEF e
  <2>4. Feed(a) /\ Len(a) = 1 /\ a[1] = e
    BY <2>3, OneItem
  <2> HIDE DEF a
  <2>5. \A i \in 1 .. Len(a) : a[i].kind \notin Blends /\ Suits(a[i], S)
    BY <2>3, <2>4 DEF Blends, Suits
  <2>6. Retains(a \o v, b, S)
    BY <2>4, <2>5, InFront
  <2> QED BY <1>2, <1>4, <2>6 DEF p
<1> QED BY <1>3, <1>4

\* The beginning of what a For You request answers with: the blended feed, or
\* the beginning of it if the answer was cut.
LEMMA Arranged ==
    ASSUME NEW items, Feed(items), NEW b, Mixed(b), NEW n \in Nat
    PROVE  LET S == Recommended(items)
               s == Take(Arrange(items, b).selected, n)
               strip == OfKinds(s, Blends)
           IN  /\ Retains(s, strip, S)
               /\ \E t : Parts(b, strip, t) /\ (Len(s) # n => Len(t) = 0)
<1> DEFINE S == Recommended(items)
           sel == Arrange(items, b).selected
           s == Take(sel, n)
           r == Skip(sel, n)
           strip == OfKinds(s, Blends)
           t == OfKinds(r, Blends)
<1>1. Retains(sel, b, S)
  <2> DEFINE v == InsertPrompts(b, OfKind(items, "prompt"))
             w == InsertWhoToFollow(v, OfKind(items, "wtf"))
  <2>1. sel = PinPushToHome(w, OfKind(items, "pth"))
    BY DEF Arrange
  <2>2. Retains(b, b, S)
    BY MixedRetains
  <2>3. Retains(v, b, S)
    BY <2>2, WithPrompts
  <2> HIDE DEF v
  <2>4. Retains(w, b, S)
    BY <2>3, WithWhoToFollow
  <2> HIDE DEF w
  <2> QED BY <2>1, <2>4, WithPushToHome
<1> HIDE DEF sel, S
<1>2. Listed(sel) /\ Len(sel) \in Nat
  BY <1>1, ListedOver DEF Retains, Feed
<1>3. Parts(sel, s, r) /\ Len(s) = Least(n, Len(sel))
  BY <1>2, CutInTwo DEF Parts
<1>4. Joins(sel, s, r) /\ Len(s) \in Nat /\ Len(r) \in Nat
  BY <1>3, ListsJoined, ListedOver DEF Parts
<1> HIDE DEF s, r
<1>5. Retains(s, strip, S) /\ Parts(b, strip, t)
  BY <1>1, <1>3, RetainsSplit
<1>6. ASSUME Len(s) # n PROVE Len(t) = 0
  <2>1. Len(r) = 0
    BY <1>2, <1>3, <1>4, <1>6 DEF Joins, Least
  <2>2. Listed(r) /\ \A i \in 1 .. Len(r) : r[i].kind \notin Blends
    BY <1>3, <2>1 DEF Parts
  <2>3. t = <<>>
    BY <2>2, NoneOfKinds
  <2> QED BY <2>3
<1> QED BY <1>5, <1>6 DEF s, S, sel

\* Multiplication of natural numbers, as far as the proofs need it.
LEMMA Times ==
    /\ \A a, s \in Nat : (a + 1) * s = a * s + s /\ a * s \in Nat /\ a * s = s * a
    /\ \A a, b, s \in Nat : a <= b => a * s <= b * s
OBVIOUS

\* A multiple more is at least the factor more.
LEMMA TimesLess == \A a, b, s \in Nat : a < b => a * s + s <= b * s
<1> SUFFICES ASSUME NEW a \in Nat, NEW b \in Nat, NEW s \in Nat, a < b PROVE a * s + s <= b * s
  OBVIOUS
<1>1. (a + 1) * s <= b * s
  BY Times
<1>2. (a + 1) * s = a * s + s
  BY Times
<1> QED BY <1>1, <1>2

\* Division with its rest.
LEMMA Divided ==
    ASSUME NEW a \in Nat, NEW b \in Nat \ {0}
    PROVE  /\ a \div b \in Nat /\ a % b \in 0 .. b - 1
           /\ a = b * (a \div b) + (a % b)
OBVIOUS

\* Dividing a smaller number gives no more.
LEMMA DividedMeans ==
    ASSUME NEW a \in Nat, NEW b \in Nat \ {0}, NEW c \in Nat
    PROVE  c <= a \div b <=> c * b <= a
OBVIOUS

\* The least of three numbers.
LEMMA LeastOfThree ==
    ASSUME NEW a \in Int, NEW b \in Int, NEW c \in Int
    PROVE  LET S == {a, b, c}
               m == CHOOSE n \in S : \A k \in S : n <= k
           IN  m \in S /\ m <= a /\ m <= b /\ m <= c
<1> DEFINE S == {a, b, c}
           m == CHOOSE n \in S : \A k \in S : n <= k
<1>1. \E n \in S : \A k \in S : n <= k
  <2>1. CASE a <= b /\ a <= c
    BY <2>1
  <2>2. CASE b <= a /\ b <= c
    BY <2>2
  <2>3. CASE c <= a /\ c <= b
    BY <2>3
  <2> QED BY <2>1, <2>2, <2>3
<1>2. m \in S /\ \A k \in S : m <= k
  BY <1>1
<1> QED BY <1>2

SafePlaces(posts) == {i \in DOMAIN posts : ~HasAvoid(posts[i])}

\* No more ads than fit between the posts, and two safe posts for each.
LEMMA ActualFits ==
    ASSUME NEW posts, Listed(posts), Len(posts) > 0, NEW ads, Positioned(ads)
    PROVE  LET m == ActualAds(posts, ads)
               gap == ComputeSpacing(ads).requested
           IN  /\ m \in Nat /\ m <= Len(ads) /\ gap \in Nat \ {0}
               /\ m * gap <= Len(posts) - 1
               /\ 2 * m <= Cardinality(SafePlaces(posts))
<1> DEFINE m == ActualAds(posts, ads)
           gap == ComputeSpacing(ads).requested
           n == Len(posts) - 1
           c == Cardinality({i \in 1 .. Len(posts) : ~HasAvoid(posts[i])})
           a == Len(ads)
           q == n \div gap
           h == c \div 2
<1>1. gap \in Nat \ {0} /\ n \in Nat /\ a \in Nat
  BY Spaced, ListedOver DEF Positioned
<1>2. c = Cardinality(SafePlaces(posts))
  BY ListedOver DEF SafePlaces
<1>3. c \in Nat
  <2> DEFINE P == {i \in 1 .. Len(posts) : ~HasAvoid(posts[i])}
  <2>1. P \subseteq 1 .. Len(posts)
    OBVIOUS
  <2>2. IsFiniteSet(1 .. Len(posts))
    BY ListedOver, FS_Interval
  <2> HIDE DEF P
  <2>3. IsFiniteSet(P)
    BY <2>1, <2>2, FS_Subset
  <2> QED BY <2>3, FS_CardinalityType DEF P
<1>4. m = CHOOSE b \in {a, q, h} : \A d \in {a, q, h} : b <= d
  BY DEF ActualAds
<1> HIDE DEF gap, n, c, a, m
<1>5. q \in Nat /\ h \in Nat
  <2>1. q \in Nat
    BY <1>1, Divided
  <2>2. 2 \in Nat \ {0}
    OBVIOUS
  <2>3. h \in Nat
    BY <1>3, <2>2, Divided
  <2> QED BY <2>1, <2>3
<1> HIDE DEF q, h
<1>6. m \in {a, q, h} /\ m <= a /\ m <= q /\ m <= h
  BY <1>1, <1>4, <1>5, LeastOfThree
<1>7. m \in Nat
  BY <1>1, <1>5, <1>6
<1>8. m * gap <= n
  BY <1>1, <1>6, <1>7, DividedMeans DEF q
<1>9. 2 * m <= c
  BY <1>3, <1>6, <1>7 DEF h
<1> QED BY <1>1, <1>2, <1>6, <1>7, <1>8, <1>9 DEF n, a, m, gap

(* ---------- The pairs of safe posts -------------------------------------- *)

\* The first k pairs: the ad of each does not clash with its posts.
PairOf(e, safe, ads, at) ==
    /\ DOMAIN e = {"ad", "above", "below"}
    /\ e.ad \in Range1(ads) /\ e.above = safe[at + 1] /\ e.below = safe[at + 2]
    /\ ~Clashes(e.ad, e.above, e.below)
Paired(done, safe, ads, size, k) ==
    /\ Listed(done) /\ Len(done) \in Nat /\ Len(done) <= k
    /\ \A i \in 1 .. Len(done) : PairOf(done[i], safe, ads, (i - 1) * size)

\* One element more.
LEMMA AppendedTo ==
    ASSUME NEW s, Listed(s), NEW e
    PROVE  /\ Listed(Append(s, e)) /\ Len(Append(s, e)) = Len(s) + 1
           /\ \A i \in 1 .. Len(s) : Append(s, e)[i] = s[i]
           /\ Append(s, e)[Len(s) + 1] = e
<1> DEFINE T == Range1(s) \cup {e}
           u == Append(s, e)
<1>1. s \in Seq(T) /\ e \in T
  BY DEF Listed
<1> HIDE DEF T
<1>2. u \in Seq(T)
  BY <1>1
<1>3. Listed(u)
  BY <1>2, ListOf
<1> QED BY <1>1, <1>3

\* One ad tried: the triples stay on their pairs.
LEMMA PairTried ==
    ASSUME NEW safe, Listed(safe), NEW ads, NEW ad \in Range1(ads), NEW actual \in Nat \ {0}, NEW done,
           Paired(done, safe, ads, Len(safe) \div actual, actual)
    PROVE  LET next == TryPair(done, ad, safe, actual)
           IN  Paired(next, safe, ads, Len(safe) \div actual, actual) /\ Len(next) <= Len(done) + 1
<1> DEFINE size == Len(safe) \div actual
           at == Len(done) * size
           e == [ad |-> ad, above |-> safe[at + 1], below |-> safe[at + 2]]
           next == TryPair(done, ad, safe, actual)
           stays == Len(done) >= actual \/ Clashes(ad, safe[at + 1], safe[at + 2])
<1>1. next = IF stays THEN done ELSE Append(done, e)
  BY DEF TryPair
<1>2. Paired(done, safe, ads, size, actual) /\ Len(done) \in Nat
  BY DEF Paired
<1>3. ~stays => PairOf(e, safe, ads, at) /\ Len(done) < actual
  BY <1>2 DEF PairOf, Paired
<1> HIDE DEF stays, e, next, size
<1>4. CASE stays
  BY <1>1, <1>2, <1>4 DEF next, size
<1>5. CASE ~stays
  <2>1. /\ Listed(next) /\ Len(next) = Len(done) + 1
        /\ \A i \in 1 .. Len(done) : next[i] = done[i]
        /\ next[Len(done) + 1] = e
    BY <1>1, <1>2, <1>5, AppendedTo DEF Paired
  <2>2. Len(done) \in Nat /\ Len(done) < actual
    BY <1>2, <1>3, <1>5
  <2>3. \A i \in 1 .. Len(next) : PairOf(next[i], safe, ads, (i - 1) * size)
    <3> SUFFICES ASSUME NEW i \in 1 .. Len(next) PROVE PairOf(next[i], safe, ads, (i - 1) * size)
      OBVIOUS
    <3>1. CASE i \in 1 .. Len(done)
      BY <1>2, <2>1, <3>1 DEF Paired
    <3>2. CASE i = Len(done) + 1
      <4>1. i - 1 = Len(done)
        BY <2>2, <3>2
      <4> QED BY <1>3, <1>5, <2>1, <3>2, <4>1
    <3> QED BY <2>1, <2>2, <3>1, <3>2
  <2>4. Len(next) \in Nat /\ Len(next) <= actual /\ Len(next) <= Len(done) + 1
    BY <2>1, <2>2
  <2> QED BY <2>1, <2>3, <2>4 DEF Paired, next, size
<1> QED BY <1>4, <1>5

\* The triples are on pairs of safe posts, no more than wanted and no more than there are ads.
LEMMA TriplesPaired ==
    ASSUME NEW safe, Listed(safe), NEW ads, Listed(ads), NEW actual \in Nat \ {0}
    PROVE  LET t == Triples(safe, ads, actual)
           IN  Paired(t, safe, ads, Len(safe) \div actual, actual) /\ Len(t) <= Len(ads)
<1> DEFINE N == Len(ads)
           size == Len(safe) \div actual
           A == {safe[i] : i \in Int}
           E == [ad : Range1(ads), above : A, below : A]
           T == {d \in Seq(E) : Paired(d, safe, ads, size, actual)}
           base == <<>>
           step == [x \in (1 .. N) \X T |-> TryPair(x[2], ads[x[1]], safe, actual)]
           tried[n \in 0 .. N] == IF n = 0 THEN base ELSE TryPair(tried[n - 1], ads[n], safe, actual)
<1>a. N \in Nat /\ \A n \in 1 .. N : ads[n] \in Range1(ads)
  BY ListedOver
<1>b. size \in Int
  BY ListedOver, Divided
<1>1. base \in T
  <2>1. base \in Seq(E) /\ Len(base) = 0 /\ Listed(base)
    BY DEF Listed, Range1
  <2> HIDE DEF E, base, size
  <2>2. Paired(base, safe, ads, size, actual)
    BY <2>1 DEF Paired
  <2> QED BY <2>1, <2>2
<1>2. \A d \in T, ad \in Range1(ads) :
          TryPair(d, ad, safe, actual) \in T /\ Len(TryPair(d, ad, safe, actual)) <= Len(d) + 1
  <2> SUFFICES ASSUME NEW d \in T, NEW ad \in Range1(ads)
               PROVE  TryPair(d, ad, safe, actual) \in T /\ Len(TryPair(d, ad, safe, actual)) <= Len(d) + 1
    OBVIOUS
  <2> DEFINE at == Len(d) * size
             e == [ad |-> ad, above |-> safe[at + 1], below |-> safe[at + 2]]
             next == TryPair(d, ad, safe, actual)
  <2>1. Paired(next, safe, ads, size, actual) /\ Len(next) <= Len(d) + 1
    BY PairTried
  <2>2. next = d \/ next = Append(d, e)
    BY DEF TryPair
  <2>3. at + 1 \in Int /\ at + 2 \in Int
    <3>1. Len(d) \in Int
      OBVIOUS
    <3> HIDE DEF size
    <3> QED BY <1>b, <3>1
  <2> HIDE DEF at, next
  <2>4. e \in E
    BY <2>3
  <2> HIDE DEF e, E
  <2>5. next \in Seq(E)
    BY <2>2, <2>4
  <2> QED BY <2>1, <2>5 DEF next
<1>3. Triples(safe, ads, actual) = tried[N]
  BY DEF Triples
<1>4. base = <<>>
  OBVIOUS
<1> HIDE DEF T, base, N
<1>5. step \in [(1 .. N) \X T -> T]
  BY <1>2, <1>a
<1>6. Steps(T, N, base, step)
  BY <1>1, <1>5, <1>a DEF Steps
<1>7. \A k \in 1 .. N, d \in T : step[<<k, d>>] = TryPair(d, ads[k], safe, actual)
  OBVIOUS
<1> HIDE DEF step
<1>8. PICK f : Runs(f, T, N, base, step)
  BY <1>6, Iterates
<1>9. \A k \in 0 .. N : f[k] \in T
  BY <1>8 DEF Runs
<1>10. \A k \in 1 .. N : f[k - 1] \in T /\ f[k] = TryPair(f[k - 1], ads[k], safe, actual)
  <2> SUFFICES ASSUME NEW k \in 1 .. N
               PROVE  f[k - 1] \in T /\ f[k] = TryPair(f[k - 1], ads[k], safe, actual)
    OBVIOUS
  <2>1. k - 1 \in 0 .. N
    BY <1>a
  <2> QED BY <1>7, <1>8, <1>9, <2>1 DEF Runs
<1>11. f = [k \in 0 .. N |-> IF k = 0 THEN base ELSE TryPair(f[k - 1], ads[k], safe, actual)]
  <2>1. \A k \in 0 .. N : k # 0 => k \in 1 .. N
    BY <1>a
  <2>2. f = [k \in 0 .. N |-> f[k]]
    BY <1>8 DEF Runs
  <2>3. \A k \in 0 .. N : f[k] = IF k = 0 THEN base ELSE TryPair(f[k - 1], ads[k], safe, actual)
    BY <1>8, <1>10, <2>1 DEF Runs
  <2> QED BY <2>2, <2>3
<1>12. tried = [k \in 0 .. N |-> IF k = 0 THEN base ELSE TryPair(tried[k - 1], ads[k], safe, actual)]
  BY <1>11
<1> HIDE DEF tried
<1> DEFINE Good == {k \in 0 .. N : tried[k] \in T /\ Len(tried[k]) <= k}
<1>13. 0 \in Good
  <2>1. tried[0] = base /\ Len(base) = 0
    BY <1>4, <1>12, <1>a
  <2> QED BY <1>1, <1>a, <2>1
<1>14. ASSUME NEW k \in 1 .. N, k - 1 \in Good PROVE k \in Good
  <2>1. tried[k] = TryPair(tried[k - 1], ads[k], safe, actual) /\ k \in 0 .. N
    BY <1>12, <1>a
  <2>2. tried[k - 1] \in T /\ Len(tried[k - 1]) <= k - 1
    BY <1>14
  <2>3. tried[k] \in T /\ Len(tried[k]) <= Len(tried[k - 1]) + 1
    BY <1>2, <1>a, <2>1, <2>2
  <2>4. Len(tried[k]) \in Nat /\ Len(tried[k - 1]) \in Nat
    BY <2>2, <2>3 DEF T
  <2> QED BY <1>a, <2>1, <2>2, <2>3, <2>4
<1> HIDE DEF Good
<1>15. \A k \in 0 .. N : k \in Good
  BY <1>13, <1>14, <1>a, Counting
<1>16. tried[N] \in T /\ Len(tried[N]) <= N
  BY <1>15, <1>a DEF Good
<1> QED BY <1>3, <1>16 DEF T, N

(* ---------- Lists without repetition -------------------------------------- *)

\* A list of some of the posts, each once.
Among(u, posts) == Listed(u) /\ Apart(u) /\ \A i \in 1 .. Len(u) : u[i] \in Range1(posts)

\* A list of some of the posts, each once, is drawn from them.
LEMMA AmongDrawn ==
    ASSUME NEW u, NEW posts, Among(u, posts)
    PROVE  Drawn(u, posts)
<1> DEFINE at == [i \in 1 .. Len(u) |-> CHOOSE j \in 1 .. Len(posts) : posts[j] = u[i]]
<1>1. \A i \in 1 .. Len(u) : \E j \in 1 .. Len(posts) : posts[j] = u[i]
  BY DEF Among, Range1
<1>2. \A i \in 1 .. Len(u) : at[i] \in 1 .. Len(posts) /\ u[i] = posts[at[i]]
  BY <1>1
<1>3. at \in [1 .. Len(u) -> 1 .. Len(posts)]
  BY <1>2
<1> HIDE DEF at
<1>4. \A i, j \in 1 .. Len(u) : i # j => at[i] # at[j]
  BY <1>2 DEF Among, Apart
<1> QED BY <1>2, <1>3, <1>4 DEF Drawn

\* What is drawn from some of the posts is some of the posts.
LEMMA DrawnAmong ==
    ASSUME NEW u, Listed(u), NEW s, Drawn(u, s), NEW posts, Among(s, posts)
    PROVE  Among(u, posts) /\ \A i \in 1 .. Len(u) : \E j \in 1 .. Len(s) : u[i] = s[j]
<1>1. PICK at \in [1 .. Len(u) -> 1 .. Len(s)] :
          /\ \A k \in 1 .. Len(u) : u[k] = s[at[k]]
          /\ \A j, k \in 1 .. Len(u) : j # k => at[j] # at[k]
  BY DEF Drawn
<1>2. Apart(u)
  BY <1>1 DEF Apart, Among
<1> QED BY <1>1, <1>2 DEF Among

\* All the posts are some of them.
LEMMA WholeAmong == \A posts : Listed(posts) /\ Apart(posts) => Among(posts, posts)
BY ListedOver DEF Among

\* Two lists that share nothing.
LEMMA AmongJoined ==
    ASSUME NEW posts, NEW s, Among(s, posts), NEW t, Among(t, posts),
           \A i \in 1 .. Len(s), j \in 1 .. Len(t) : s[i] # t[j]
    PROVE  Among(s \o t, posts) /\ Len(s \o t) = Len(s) + Len(t)
<1> DEFINE u == s \o t
<1>1. Listed(u) /\ Joins(u, s, t) /\ Len(s) \in Nat /\ Len(t) \in Nat
  BY ListsJoined, ListedOver DEF Among
<1> HIDE DEF u
<1>2. \A i \in 1 .. Len(u) : u[i] \in Range1(posts)
  BY <1>1 DEF Among, Joins
<1>3. ASSUME NEW i \in 1 .. Len(u), NEW j \in 1 .. Len(u), i # j PROVE u[i] # u[j]
  <2>1. CASE i \in 1 .. Len(s) /\ j \in 1 .. Len(s)
    BY <1>1, <1>3, <2>1 DEF Among, Apart, Joins
  <2>2. CASE i \in 1 .. Len(s) /\ \E m \in 1 .. Len(t) : j = Len(s) + m
    BY <1>1, <2>2 DEF Joins
  <2>3. CASE j \in 1 .. Len(s) /\ \E m \in 1 .. Len(t) : i = Len(s) + m
    BY <1>1, <2>3 DEF Joins
  <2>4. ASSUME NEW m \in 1 .. Len(t), i = Len(s) + m, NEW l \in 1 .. Len(t), j = Len(s) + l
        PROVE  u[i] # u[j]
    <3>1. u[i] = t[m] /\ u[j] = t[l] /\ m # l
      BY <1>1, <1>3, <2>4 DEF Joins
    <3> QED BY <3>1 DEF Among, Apart
  <2> QED BY <1>1, <2>1, <2>2, <2>3, <2>4 DEF Joins
<1>4. Apart(u)
  BY <1>3 DEF Apart
<1> QED BY <1>1, <1>2, <1>4 DEF Among, Joins, u

\* What is picked from a list without repetition.
LEMMA PickedAmong ==
    ASSUME NEW posts, NEW s, Among(s, posts), NEW places, places \subseteq DOMAIN s
    PROVE  LET p == PickAt(s, places)
           IN  /\ Among(p, posts) /\ Len(p) = Cardinality(places)
               /\ \A i \in 1 .. Len(p) : \E m \in places : p[i] = s[m]
<1> DEFINE p == PickAt(s, places)
<1>1. Listed(s) /\ s \in Seq(Range1(s))
  BY DEF Among, Listed
<1>2. Listed(p) /\ Drawn(p, s) /\ \A i \in 1 .. Len(p) : \E m \in places : p[i] = s[m]
  BY <1>1, PickedDrawn
<1>3. Len(p) = Cardinality(places)
  BY <1>1, Picked
<1> HIDE DEF p
<1>4. Among(p, posts)
  BY <1>2, DrawnAmong
<1> QED BY <1>2, <1>3, <1>4 DEF p

\* The places of a list, in two parts.
LEMMA TwoShares ==
    ASSUME NEW s, Listed(s), NEW P, NEW Q, P \cup Q = DOMAIN s, P \cap Q = {}
    PROVE  /\ Cardinality(P) \in Nat /\ Cardinality(Q) \in Nat
           /\ Cardinality(P) + Cardinality(Q) = Len(s)
<1> DEFINE n == Len(s)
           p == Cardinality(P)
           q == Cardinality(Q)
           c == Cardinality(P \cup Q)
           d == Cardinality(P \cap Q)
<1>1. n \in Nat /\ DOMAIN s = 1 .. n
  BY ListedOver
<1>2. IsFiniteSet(1 .. n) /\ Cardinality(1 .. n) = n
  <2>1. 1 \in Int /\ n \in Int /\ n \in Nat
    BY <1>1
  <2> HIDE DEF n
  <2>2. IsFiniteSet(1 .. n) /\ Cardinality(1 .. n) = IF 1 > n THEN 0 ELSE n - 1 + 1
    BY <2>1, FS_Interval
  <2> QED BY <2>1, <2>2
<1>3. P \subseteq 1 .. n /\ Q \subseteq 1 .. n
  BY <1>1
<1>4. IsFiniteSet(P) /\ IsFiniteSet(Q)
  BY <1>2, <1>3, FS_Subset
<1>5. p \in Nat /\ q \in Nat /\ c = p + q - d
  BY <1>4, FS_CardinalityType, FS_Union
<1>6. d = 0
  BY FS_EmptySet
<1>7. c = n
  BY <1>1, <1>2
<1> HIDE DEF p, q, c, d, n
<1>8. p + q = n
  BY <1>1, <1>5, <1>6, <1>7
<1> QED BY <1>5, <1>8 DEF p, q, n

(* ---------- Who is set aside for the ads ----------------------------------- *)

PairsAt(f, t, safe) ==
    /\ f \in [1 .. Len(t) -> 1 .. Len(safe) - 1]
    /\ \A i \in 1 .. Len(t) : t[i].above = safe[f[i]] /\ t[i].below = safe[f[i] + 1]
    /\ \A i, j \in 1 .. Len(t) : i < j => f[i] + 2 <= f[j]

\* The places of the pairs.
LEMMA PairPlaces ==
    ASSUME NEW safe, Listed(safe), NEW ads, NEW actual \in Nat \ {0}, 2 * actual <= Len(safe),
           NEW t, Paired(t, safe, ads, Len(safe) \div actual, actual)
    PROVE  \E f : PairsAt(f, t, safe)
<1> DEFINE size == Len(safe) \div actual
           k == Len(t)
           n == Len(safe)
           f == [i \in 1 .. k |-> (i - 1) * size + 1]
<1>1. n \in Nat /\ k \in Nat /\ k <= actual
  BY ListedOver DEF Paired
<1>2. \A i \in 1 .. k : t[i].above = safe[(i - 1) * size + 1] /\ t[i].below = safe[(i - 1) * size + 2]
  BY DEF Paired, PairOf
<1>3. size \in Nat /\ 2 <= size /\ actual * size <= n
  <2>1. size \in Nat
    BY <1>1, Divided
  <2>2. 2 <= size
    BY <1>1, DividedMeans
  <2>3. size * actual <= n
    BY <1>1, <2>1, DividedMeans
  <2>4. size * actual = actual * size
    BY <2>1, Times
  <2> QED BY <2>1, <2>2, <2>3, <2>4
<1> HIDE DEF size, n
<1>4. ASSUME NEW i \in 1 .. k
      PROVE  /\ (i - 1) * size \in Nat /\ (i - 1) * size + size <= n
             /\ \A j \in 1 .. k : i < j => (i - 1) * size + size <= (j - 1) * size
  <2>0. i \in Nat /\ i - 1 \in Nat /\ i - 1 < actual /\ actual \in Nat
    BY <1>1
  <2>1. (i - 1) * size \in Nat
    BY <1>3, <2>0, Times
  <2>2. (i - 1) * size + size <= actual * size
    BY <1>3, <2>0, TimesLess
  <2>3. \A j \in 1 .. k : i < j => (i - 1) * size + size <= (j - 1) * size
    <3> SUFFICES ASSUME NEW j \in 1 .. k, i < j PROVE (i - 1) * size + size <= (j - 1) * size
      OBVIOUS
    <3>1. j - 1 \in Nat /\ i - 1 < j - 1
      BY <1>1, <2>0
    <3> QED BY <1>3, <2>0, <3>1, TimesLess
  <2>4. actual * size \in Nat
    BY <1>3, <2>0, Times
  <2>5. (i - 1) * size + size <= n
    <3> DEFINE a == (i - 1) * size
               b == actual * size
    <3>1. a \in Nat /\ b \in Nat /\ a + size <= b /\ b <= n
      BY <1>3, <2>1, <2>2, <2>4
    <3> HIDE DEF a, b
    <3>2. a + size <= n
      BY <1>1, <1>3, <3>1
    <3> QED BY <3>2 DEF a
  <2> QED BY <2>1, <2>3, <2>5
<1>5. \A i \in 1 .. k : f[i] = (i - 1) * size + 1
  OBVIOUS
<1> DEFINE g == [i \in 1 .. k |-> (i - 1) * size]
<1>6. /\ g \in [1 .. k -> Nat] /\ \A i \in 1 .. k : g[i] = (i - 1) * size
      /\ \A i \in 1 .. k : g[i] + size <= n
      /\ \A i, j \in 1 .. k : i < j => g[i] + size <= g[j]
  BY <1>4
<1>7. \A i \in 1 .. k : f[i] = g[i] + 1 /\ f[i] \in 1 .. n - 1 /\ f[i] + 1 = g[i] + 2
  <2> SUFFICES ASSUME NEW i \in 1 .. k
               PROVE  f[i] = g[i] + 1 /\ f[i] \in 1 .. n - 1 /\ f[i] + 1 = g[i] + 2
    OBVIOUS
  <2>1. f[i] = g[i] + 1 /\ g[i] \in Nat /\ g[i] + size <= n
    BY <1>5, <1>6
  <2> HIDE DEF f, g
  <2> QED BY <1>1, <1>3, <2>1
<1>8. f \in [1 .. k -> 1 .. n - 1]
  BY <1>7
<1>9. \A i \in 1 .. k : t[i].above = safe[f[i]] /\ t[i].below = safe[f[i] + 1]
  <2> SUFFICES ASSUME NEW i \in 1 .. k PROVE t[i].above = safe[f[i]] /\ t[i].below = safe[f[i] + 1]
    OBVIOUS
  <2>1. t[i].above = safe[g[i] + 1] /\ t[i].below = safe[g[i] + 2]
    BY <1>2
  <2> QED BY <1>7, <2>1
<1> HIDE DEF f, g
<1>10. \A i, j \in 1 .. k : i < j => f[i] + 2 <= f[j]
  <2> SUFFICES ASSUME NEW i \in 1 .. k, NEW j \in 1 .. k, i < j PROVE f[i] + 2 <= f[j]
    OBVIOUS
  <2>1. g[i] \in Nat /\ g[j] \in Nat /\ g[i] + size <= g[j] /\ f[i] = g[i] + 1 /\ f[j] = g[j] + 1
    BY <1>6, <1>7
  <2> DEFINE a == g[i]
             b == g[j]
             c == f[i]
             d == f[j]
  <2>2. a \in Nat /\ b \in Nat /\ a + size <= b /\ c = a + 1 /\ d = b + 1
    BY <2>1
  <2> HIDE DEF a, b, c, d
  <2>3. c + 2 <= d
    BY <1>3, <2>2
  <2> QED BY <2>3 DEF c, d
<1> QED BY <1>8, <1>9, <1>10 DEF n, k, PairsAt

\* Triples of an ad and the two posts beside it, each post in one of them.
Beside(t, posts, ads) ==
    /\ Listed(t) /\ Len(t) \in Nat
    /\ \A i \in 1 .. Len(t) :
          /\ t[i].ad \in Range1(ads)
          /\ t[i].above \in Range1(posts) /\ ~HasAvoid(t[i].above)
          /\ t[i].below \in Range1(posts) /\ ~HasAvoid(t[i].below)
          /\ ~Clashes(t[i].ad, t[i].above, t[i].below)
    /\ \A i, j \in 1 .. Len(t) :
          /\ t[i].above # t[j].below
          /\ i # j => t[i].above # t[j].above /\ t[i].below # t[j].below

\* The other posts.
Filling(F, posts, t) ==
    /\ Among(F, posts) /\ Len(F) + 2 * Len(t) = Len(posts)
    /\ \A m \in 1 .. Len(F) : \A i \in 1 .. Len(t) : F[m] # t[i].above /\ F[m] # t[i].below

PairPosts(t) == UNION {{t[i].above, t[i].below} : i \in 1 .. Len(t)}

\* The pairs of the triples are apart from one another, and the rest of the safe posts is what they leave.
LEMMA SetAside ==
    ASSUME NEW posts, NEW safe, Among(safe, posts), \A i \in 1 .. Len(safe) : ~HasAvoid(safe[i]),
           NEW ads, NEW actual \in Nat \ {0}, 2 * actual <= Len(safe),
           NEW t, Paired(t, safe, ads, Len(safe) \div actual, actual)
    PROVE  /\ Beside(t, posts, ads)
           /\ Cardinality({i \in DOMAIN safe : safe[i] \notin PairPosts(t)}) + 2 * Len(t) = Len(safe)
<1> DEFINE k == Len(t)
           n == Len(safe)
<1>1. /\ n \in Nat /\ k \in Nat /\ Listed(safe) /\ DOMAIN safe = 1 .. n /\ Apart(safe)
      /\ Listed(t)
  BY ListedOver DEF Among, Paired
<1>a. PICK f : PairsAt(f, t, safe)
  BY <1>1, PairPlaces
<1>2. /\ f \in [1 .. k -> 1 .. n - 1]
      /\ \A i \in 1 .. k : t[i].above = safe[f[i]] /\ t[i].below = safe[f[i] + 1]
      /\ \A i, j \in 1 .. k : i < j => f[i] + 2 <= f[j]
  BY <1>a DEF PairsAt
<1>3. \A i \in 1 .. k : t[i].ad \in Range1(ads) /\ ~Clashes(t[i].ad, t[i].above, t[i].below)
  BY DEF Paired, PairOf
<1> HIDE DEF k, n
<1>4. \A i \in 1 .. k : /\ f[i] \in 1 .. n /\ f[i] + 1 \in 1 .. n /\ f[i] \in Nat
  <2> SUFFICES ASSUME NEW i \in 1 .. k PROVE f[i] \in 1 .. n /\ f[i] + 1 \in 1 .. n /\ f[i] \in Nat
    OBVIOUS
  <2>1. f[i] \in 1 .. n - 1
    BY <1>2
  <2> QED BY <1>1, <2>1
<1>5. \A i, j \in 1 .. k : f[i] # f[j] + 1 /\ (i # j => f[i] # f[j])
  <2> SUFFICES ASSUME NEW i \in 1 .. k, NEW j \in 1 .. k PROVE f[i] # f[j] + 1 /\ (i # j => f[i] # f[j])
    OBVIOUS
  <2> DEFINE a == f[i]
             b == f[j]
  <2>1. /\ a \in Nat /\ b \in Nat
        /\ (i < j => a + 2 <= b) /\ (j < i => b + 2 <= a) /\ (i = j => a = b)
    BY <1>2, <1>4
  <2>2. i < j \/ j < i \/ i = j
    BY <1>1
  <2> HIDE DEF a, b
  <2>3. a # b + 1 /\ (i # j => a # b)
    BY <1>1, <2>1, <2>2
  <2> QED BY <2>3 DEF a, b
<1>6. \A p, q \in 1 .. n : p # q => safe[p] # safe[q]
  BY <1>1 DEF Apart, n
<1>7. \A p \in 1 .. n : safe[p] \in Range1(posts) /\ ~HasAvoid(safe[p])
  BY <1>1 DEF Among, n
<1>8. Beside(t, posts, ads)
  <2>1. ASSUME NEW i \in 1 .. k
        PROVE  /\ t[i].ad \in Range1(ads)
               /\ t[i].above \in Range1(posts) /\ ~HasAvoid(t[i].above)
               /\ t[i].below \in Range1(posts) /\ ~HasAvoid(t[i].below)
               /\ ~Clashes(t[i].ad, t[i].above, t[i].below)
    BY <1>2, <1>3, <1>4, <1>7
  <2>2. ASSUME NEW i \in 1 .. k, NEW j \in 1 .. k
        PROVE  /\ t[i].above # t[j].below
               /\ i # j => t[i].above # t[j].above /\ t[i].below # t[j].below
    <3> DEFINE a == f[i]
               b == f[j]
               c == f[i] + 1
               d == f[j] + 1
    <3>1. a \in 1 .. n /\ b \in 1 .. n /\ c \in 1 .. n /\ d \in 1 .. n
      BY <1>4
    <3>2. a # d /\ (i # j => a # b /\ c # d)
      BY <1>4, <1>5
    <3>3. t[i].above = safe[a] /\ t[j].above = safe[b] /\ t[i].below = safe[c] /\ t[j].below = safe[d]
      BY <1>2
    <3> HIDE DEF a, b, c, d
    <3> QED BY <1>6, <3>1, <3>2, <3>3
  <2> QED BY <1>1, <2>1, <2>2 DEF Beside, k
<1> DEFINE A == {f[i] : i \in 1 .. k}
           B == {f[i] + 1 : i \in 1 .. k}
           C == {p \in DOMAIN safe : safe[p] \in PairPosts(t)}
           D == {p \in DOMAIN safe : safe[p] \notin PairPosts(t)}
           g == [i \in 1 .. k |-> f[i] + 1]
<1>9. IsFiniteSet(A) /\ Cardinality(A) = k
  <2>1. A \subseteq Int /\ f \in [1 .. k -> A]
    BY <1>2, <1>4
  <2>2. \A i, j \in 1 .. k : i < j => f[i] < f[j]
    <3> SUFFICES ASSUME NEW i \in 1 .. k, NEW j \in 1 .. k, i < j PROVE f[i] < f[j]
      OBVIOUS
    <3>1. f[i] + 2 <= f[j] /\ f[i] \in Nat /\ f[j] \in Nat
      BY <1>2, <1>4
    <3> QED BY <3>1
  <2>3. \A m \in A : \E i \in 1 .. k : f[i] = m
    OBVIOUS
  <2> HIDE DEF A
  <2> QED BY <1>1, <2>1, <2>2, <2>3, AscendingIs
<1>10. IsFiniteSet(B) /\ Cardinality(B) = k
  <2>1. B \subseteq Int /\ g \in [1 .. k -> B]
    BY <1>4
  <2>2. \A i \in 1 .. k : g[i] = f[i] + 1
    OBVIOUS
  <2>3. \A m \in B : \E i \in 1 .. k : g[i] = m
    OBVIOUS
  <2> HIDE DEF B, g
  <2>4. \A i, j \in 1 .. k : i < j => g[i] < g[j]
    <3> SUFFICES ASSUME NEW i \in 1 .. k, NEW j \in 1 .. k, i < j PROVE g[i] < g[j]
      OBVIOUS
    <3>1. f[i] + 2 <= f[j] /\ f[i] \in Nat /\ f[j] \in Nat /\ g[i] = f[i] + 1 /\ g[j] = f[j] + 1
      BY <1>2, <1>4, <2>2
    <3> QED BY <3>1
  <2> QED BY <1>1, <2>1, <2>3, <2>4, AscendingIs
<1>11. A \cap B = {}
  BY <1>5
<1>12. A \cup B = C
  <2>1. ASSUME NEW i \in 1 .. k PROVE f[i] \in C /\ f[i] + 1 \in C
    <3>1. t[i].above \in PairPosts(t) /\ t[i].below \in PairPosts(t)
      BY DEF PairPosts, k
    <3> QED BY <1>1, <1>2, <1>4, <3>1
  <2>2. ASSUME NEW p \in C PROVE p \in A \cup B
    <3>1. PICK i \in 1 .. k : safe[p] \in {t[i].above, t[i].below}
      BY DEF PairPosts, k
    <3>2. p \in 1 .. n
      BY <1>1
    <3>3. p = f[i] \/ p = f[i] + 1
      BY <1>2, <1>4, <1>6, <3>1, <3>2
    <3> QED BY <3>3
  <2>3. A \cup B \subseteq C
    BY <2>1
  <2>4. C \subseteq A \cup B
    BY <2>2
  <2> QED BY <2>3, <2>4
<1>13. C \cup D = DOMAIN safe /\ C \cap D = {}
  OBVIOUS
<1> HIDE DEF A, B, C, D
<1>14. Cardinality(C) \in Nat /\ Cardinality(D) \in Nat /\ Cardinality(C) + Cardinality(D) = n
  BY <1>1, <1>13, TwoShares DEF n
<1>15. Cardinality(C) = 2 * k
  <2> DEFINE a == Cardinality(A)
             b == Cardinality(B)
             c == Cardinality(A \cup B)
             d == Cardinality(A \cap B)
  <2>1. c = a + b - d
    BY <1>9, <1>10, FS_Union
  <2>2. d = 0
    BY <1>11, FS_EmptySet
  <2>3. a = k /\ b = k
    BY <1>9, <1>10
  <2> HIDE DEF a, b, c, d
  <2>4. c = 2 * k
    BY <1>1, <2>1, <2>2, <2>3
  <2> QED BY <1>12, <2>4 DEF c
<1>16. Cardinality(D) + 2 * k = n
  <2> DEFINE c == Cardinality(C)
             d == Cardinality(D)
  <2>1. c \in Nat /\ d \in Nat /\ c + d = n /\ c = 2 * k
    BY <1>14, <1>15
  <2> HIDE DEF c, d
  <2>2. d + 2 * k = n
    BY <1>1, <2>1
  <2> QED BY <2>2 DEF d
<1> QED BY <1>8, <1>16 DEF D, k, n

\* Posts of the pipeline: none twice, each with a score.
Ranked(posts) == Listed(posts) /\ Apart(posts) /\ \A i \in 1 .. Len(posts) : posts[i].score \in Int

SafePosts(posts) == PickAt(posts, SafePlaces(posts))
OtherPosts(posts) == PickAt(posts, {i \in DOMAIN posts : HasAvoid(posts[i])})

\* The posts are split into those an ad may stand beside and the others.
LEMMA SafeAndOthers ==
    ASSUME NEW posts, Ranked(posts)
    PROVE  /\ Among(SafePosts(posts), posts) /\ Among(OtherPosts(posts), posts)
           /\ \A i \in 1 .. Len(SafePosts(posts)) : ~HasAvoid(SafePosts(posts)[i])
           /\ \A i \in 1 .. Len(OtherPosts(posts)) : HasAvoid(OtherPosts(posts)[i])
           /\ Len(SafePosts(posts)) = Cardinality(SafePlaces(posts))
           /\ Len(SafePosts(posts)) \in Nat /\ Len(OtherPosts(posts)) \in Nat
           /\ Len(SafePosts(posts)) + Len(OtherPosts(posts)) = Len(posts)
<1> DEFINE P == SafePlaces(posts)
           Q == {i \in DOMAIN posts : HasAvoid(posts[i])}
           s == SafePosts(posts)
           o == OtherPosts(posts)
<1>1. Among(posts, posts) /\ Listed(posts)
  BY WholeAmong DEF Ranked
<1>2. P \subseteq DOMAIN posts /\ Q \subseteq DOMAIN posts /\ P \cup Q = DOMAIN posts /\ P \cap Q = {}
  BY DEF SafePlaces
<1>3. /\ \A m \in P : ~HasAvoid(posts[m])
      /\ \A m \in Q : HasAvoid(posts[m])
  BY DEF SafePlaces
<1>4. s = PickAt(posts, P) /\ o = PickAt(posts, Q)
  BY DEF SafePosts, OtherPosts
<1> HIDE DEF P, Q, s, o
<1>5. /\ Among(s, posts) /\ Len(s) = Cardinality(P)
      /\ \A i \in 1 .. Len(s) : \E m \in P : s[i] = posts[m]
  BY <1>1, <1>2, <1>4, PickedAmong
<1>6. /\ Among(o, posts) /\ Len(o) = Cardinality(Q)
      /\ \A i \in 1 .. Len(o) : \E m \in Q : o[i] = posts[m]
  BY <1>1, <1>2, <1>4, PickedAmong
<1>7. /\ Cardinality(P) \in Nat /\ Cardinality(Q) \in Nat
      /\ Cardinality(P) + Cardinality(Q) = Len(posts)
  BY <1>1, <1>2, TwoShares
<1>8. /\ \A i \in 1 .. Len(s) : ~HasAvoid(s[i])
      /\ \A i \in 1 .. Len(o) : HasAvoid(o[i])
  BY <1>3, <1>5, <1>6
<1> QED BY <1>5, <1>6, <1>7, <1>8 DEF P, s, o

\* Some of the posts have scores.
LEMMA Scored1 == \A posts, u : Ranked(posts) /\ Among(u, posts) => \A i \in 1 .. Len(u) : u[i].score \in Int
BY DEF Ranked, Among, Range1

OnlyOf(s, u) == \A i \in 1 .. Len(s) : \E j \in 1 .. Len(u) : s[i] = u[j]
OfOrAvoided(s, u) == \A i \in 1 .. Len(s) : HasAvoid(s[i]) \/ \E j \in 1 .. Len(u) : s[i] = u[j]

\* Sorting by the score repeats and loses nothing.
LEMMA ScoreSorted ==
    ASSUME NEW posts, Ranked(posts), NEW u, Among(u, posts)
    PROVE  LET s == ByScore(u)
           IN  Among(s, posts) /\ Len(s) = Len(u) /\ OnlyOf(s, u)
<1> DEFINE scores == MapSeq(u, LAMBDA p : p.score)
           s == ByScore(u)
           T == Range1(u)
<1>1. Listed(u) /\ u \in Seq(T)
  BY DEF Among, Listed
<1>2. s = SortByScore(u, scores)
  BY DEF ByScore
<1>3. \A i \in 1 .. Len(u) : scores[i] \in Int
  BY Scored1 DEF MapSeq
<1> HIDE DEF s, scores, T
<1>4. Listed(s) /\ Drawn(s, u)
  BY <1>1, <1>2, <1>3, SortedDrawn
<1>5. Len(s) = Len(u)
  BY <1>1, <1>2, <1>3, Sorted
<1>6. /\ Among(s, posts) /\ OnlyOf(s, u)
  BY <1>4, DrawnAmong DEF OnlyOf
<1> QED BY <1>5, <1>6 DEF s

\* The posts that are not set aside, by their score.
LEMMA Filled ==
    ASSUME NEW posts, Ranked(posts), NEW S, Among(S, posts), \A i \in 1 .. Len(S) : ~HasAvoid(S[i]),
           NEW m \in Nat, Len(S) + m = Len(SafePosts(posts))
    PROVE  LET F == ByScore(S \o OtherPosts(posts))
           IN  Among(F, posts) /\ Len(F) + m = Len(posts) /\ OfOrAvoided(F, S)
<1> DEFINE o == OtherPosts(posts)
           safe == SafePosts(posts)
           u == S \o o
           F == ByScore(u)
<1>1. /\ Among(o, posts) /\ \A i \in 1 .. Len(o) : HasAvoid(o[i])
      /\ Len(safe) \in Nat /\ Len(o) \in Nat /\ Len(safe) + Len(o) = Len(posts)
  BY SafeAndOthers
<1> HIDE DEF o, safe
<1>2. \A i \in 1 .. Len(S), j \in 1 .. Len(o) : S[i] # o[j]
  BY <1>1
<1>3. Among(u, posts) /\ Len(u) = Len(S) + Len(o)
  BY <1>1, <1>2, AmongJoined
<1>4. Joins(u, S, o) /\ Len(S) \in Nat
  BY <1>1, ListsJoined, ListedOver DEF Among
<1> HIDE DEF u
<1>5. Among(F, posts) /\ Len(F) = Len(u) /\ OnlyOf(F, u)
  BY <1>3, ScoreSorted
<1> HIDE DEF F
<1>6. Len(F) + m = Len(posts)
  <2> DEFINE a == Len(S)
             b == Len(o)
             c == Len(u)
             d == Len(posts)
  <2>a. a \in Nat /\ b \in Nat /\ c = a + b /\ (a + m) + b = d
    BY <1>1, <1>3, <1>4 DEF safe
  <2> HIDE DEF a, b, c, d
  <2>b. c + m = d
    BY <2>a
  <2>1. Len(u) + m = Len(posts)
    BY <2>b DEF c, d
  <2> QED BY <1>5, <2>1
<1>7. \A j \in 1 .. Len(u) : HasAvoid(u[j]) \/ \E i \in 1 .. Len(S) : u[j] = S[i]
  BY <1>1, <1>4 DEF Joins
<1>8. OfOrAvoided(F, S)
  BY <1>5, <1>7 DEF OnlyOf, OfOrAvoided
<1> QED BY <1>5, <1>6, <1>8 DEF F, u, o

\* The fillers of a feed with these triples.
LEMMA FillerIs ==
    ASSUME NEW posts, Ranked(posts), NEW ads, NEW actual \in Nat \ {0},
           2 * actual <= Len(SafePosts(posts)),
           NEW t, Paired(t, SafePosts(posts), ads, Len(SafePosts(posts)) \div actual, actual)
    PROVE  LET safe == SafePosts(posts)
               left == PickAt(safe, {i \in DOMAIN safe : safe[i] \notin PairPosts(t)})
           IN  Beside(t, posts, ads) /\ Filling(ByScore(left \o OtherPosts(posts)), posts, t)
<1> DEFINE safe == SafePosts(posts)
           K == {i \in DOMAIN safe : safe[i] \notin PairPosts(t)}
           left == PickAt(safe, K)
           F == ByScore(left \o OtherPosts(posts))
           m == 2 * Len(t)
<1>1. Among(safe, posts) /\ \A i \in 1 .. Len(safe) : ~HasAvoid(safe[i])
  BY SafeAndOthers
<1>2. DOMAIN safe = 1 .. Len(safe)
  BY <1>1, ListedOver DEF Among
<1>3. Beside(t, posts, ads) /\ Cardinality(K) + m = Len(safe)
  <2> HIDE DEF safe
  <2>1. /\ Beside(t, posts, ads)
        /\ Cardinality({i \in DOMAIN safe : safe[i] \notin PairPosts(t)}) + 2 * Len(t) = Len(safe)
    BY <1>1, SetAside DEF safe
  <2> QED BY <2>1
<1>4. K \subseteq DOMAIN safe /\ \A i \in K : safe[i] \notin PairPosts(t)
  OBVIOUS
<1> HIDE DEF safe, K
<1>5. /\ Among(left, posts) /\ Len(left) = Cardinality(K)
      /\ \A i \in 1 .. Len(left) : \E p \in K : left[i] = safe[p]
  BY <1>1, <1>4, PickedAmong
<1> HIDE DEF left
<1>6. /\ \A i \in 1 .. Len(left) : ~HasAvoid(left[i]) /\ left[i] \notin PairPosts(t)
  BY <1>1, <1>2, <1>4, <1>5
<1>7. m \in Nat /\ Len(t) \in Nat
  BY <1>3 DEF Beside
<1>8. Len(left) + m = Len(SafePosts(posts))
  BY <1>3, <1>5 DEF safe
<1> HIDE DEF m
<1>9. Among(F, posts) /\ Len(F) + m = Len(posts) /\ OfOrAvoided(F, left)
  BY <1>5, <1>6, <1>7, <1>8, Filled
<1> HIDE DEF F
<1>10. \A p \in 1 .. Len(F) : \A i \in 1 .. Len(t) : F[p] # t[i].above /\ F[p] # t[i].below
  <2> SUFFICES ASSUME NEW p \in 1 .. Len(F), NEW i \in 1 .. Len(t)
               PROVE  F[p] # t[i].above /\ F[p] # t[i].below
    OBVIOUS
  <2>1. CASE HasAvoid(F[p])
    BY <1>3, <2>1 DEF Beside
  <2>2. CASE \E j \in 1 .. Len(left) : F[p] = left[j]
    <3>1. F[p] \notin PairPosts(t)
      BY <1>6, <2>2
    <3> QED BY <3>1 DEF PairPosts
  <2> QED BY <1>9, <2>1, <2>2 DEF OfOrAvoided
<1>11. Filling(F, posts, t)
  BY <1>9, <1>10 DEF Filling, m
<1> QED BY <1>3, <1>11 DEF F, left, K, safe

(* ---------- Laying out triples and fillers --------------------------------- *)

\* How many of l fillers go above the i-th of k groups.
AboveOf(l, k, i) ==
    (i - 1) * (l \div k) + (IF i > k - (l % k) THEN i - 1 - (k - (l % k)) ELSE 0)
GroupOf(t, F, i) ==
    <<Item("post", t[i].above), Item("ad", t[i].ad), Item("post", t[i].below)>>
    \o [j \in 1 .. AboveOf(Len(F), Len(t), i + 1) - AboveOf(Len(F), Len(t), i)
           |-> Item("post", F[AboveOf(Len(F), Len(t), i) + j])]
GroupsOf(t, F) == [i \in 1 .. Len(t) |-> GroupOf(t, F, i)]

\* LayOut in terms of the groups.
LEMMA LayOutIs == \A t, F : LayOut(t, F) = Finish(FlattenSeq(GroupsOf(t, F)))
BY DEF LayOut, GroupsOf, GroupOf, AboveOf

\* All fillers go into the groups, about as many into each.
Shares(A, l, k, p) ==
    /\ A \in [1 .. k + 1 -> 0 .. l] /\ A[1] = 0 /\ A[k + 1] = l
    /\ \A i \in 1 .. k : A[i + 1] - A[i] \in {p, p + 1}
    /\ \A i, j \in 1 .. k + 1 : i <= j => A[i] <= A[j]

\* AboveOf shares the fillers out.
LEMMA Shared ==
    ASSUME NEW l \in Nat, NEW k \in Nat \ {0}
    PROVE  Shares([i \in 1 .. k + 1 |-> AboveOf(l, k, i)], l, k, l \div k)
<1> DEFINE p == l \div k
           r == l % k
           A == [i \in 1 .. k + 1 |-> AboveOf(l, k, i)]
           m == [i \in 1 .. k + 1 |-> (i - 1) * p]
           e == [i \in 1 .. k + 1 |-> IF i > k - r THEN i - 1 - (k - r) ELSE 0]
<1>1. p \in Nat /\ r \in 0 .. k - 1 /\ l = k * p + r
  BY Divided
<1>2. \A i \in 1 .. k + 1 : A[i] = (i - 1) * p + (IF i > k - r THEN i - 1 - (k - r) ELSE 0)
  BY DEF AboveOf
<1>3. A = [i \in 1 .. k + 1 |-> A[i]]
  OBVIOUS
<1> HIDE DEF p, r, A
<1>4. m \in [1 .. k + 1 -> Nat] /\ m[1] = 0 /\ m[k + 1] = k * p
      /\ (\A i \in 1 .. k : m[i + 1] = m[i] + p)
      /\ (\A i, j \in 1 .. k + 1 : i <= j => m[i] <= m[j])
  <2>1. \A i \in 1 .. k + 1 : i - 1 \in Nat /\ m[i] = (i - 1) * p
    OBVIOUS
  <2>2. m \in [1 .. k + 1 -> Nat]
    <3>1. \A i \in 1 .. k + 1 : (i - 1) * p \in Nat
      BY <1>1, <2>1, Times
    <3> QED BY <3>1
  <2>3. m[1] = 0
    BY <1>1, <2>1
  <2>4. m[k + 1] = k * p
    <3>1. k + 1 \in 1 .. k + 1 /\ (k + 1) - 1 = k
      OBVIOUS
    <3> QED BY <2>1, <3>1
  <2>5. \A i \in 1 .. k : m[i + 1] = m[i] + p
    <3> SUFFICES ASSUME NEW i \in 1 .. k PROVE m[i + 1] = m[i] + p
      OBVIOUS
    <3>1. i + 1 \in 1 .. k + 1 /\ i \in 1 .. k + 1 /\ (i + 1) - 1 = (i - 1) + 1 /\ i - 1 \in Nat
      OBVIOUS
    <3>2. m[i + 1] = ((i - 1) + 1) * p /\ m[i] = (i - 1) * p
      BY <2>1, <3>1
    <3>3. ((i - 1) + 1) * p = (i - 1) * p + p
      BY <1>1, <3>1, Times
    <3> QED BY <3>2, <3>3
  <2>6. \A i, j \in 1 .. k + 1 : i <= j => m[i] <= m[j]
    <3> SUFFICES ASSUME NEW i \in 1 .. k + 1, NEW j \in 1 .. k + 1, i <= j PROVE m[i] <= m[j]
      OBVIOUS
    <3>1. i - 1 \in Nat /\ j - 1 \in Nat /\ i - 1 <= j - 1
      OBVIOUS
    <3>2. (i - 1) * p <= (j - 1) * p
      BY <1>1, <3>1, Times
    <3> QED BY <2>1, <3>2
  <2> QED BY <2>2, <2>3, <2>4, <2>5, <2>6
<1>5. \A i \in 1 .. k + 1 : e[i] = IF i > k - r THEN i - 1 - (k - r) ELSE 0
  OBVIOUS
<1>6. \A i \in 1 .. k + 1 : A[i] = m[i] + e[i]
  BY <1>2
<1> HIDE DEF m, e
<1>7. \A i \in 1 .. k + 1 : e[i] \in 0 .. r
  BY <1>1, <1>5
<1>8. e[1] = 0 /\ e[k + 1] = r
  BY <1>1, <1>5
<1>9. \A i, j \in 1 .. k + 1 : i <= j => e[i] <= e[j]
  BY <1>1, <1>5
<1>10. \A i \in 1 .. k : e[i + 1] = e[i] \/ e[i + 1] = e[i] + 1
  BY <1>1, <1>5
<1>11. ASSUME NEW i \in 1 .. k + 1 PROVE A[i] \in 0 .. l
  <2> DEFINE a == m[i]
             b == e[i]
             c == k * p
  <2>1. k + 1 \in 1 .. k + 1 /\ i <= k + 1
    OBVIOUS
  <2>2. a \in Nat /\ a <= c /\ b \in 0 .. r /\ A[i] = a + b /\ c \in Nat
    BY <1>4, <1>6, <1>7, <2>1
  <2> HIDE DEF a, b, c
  <2>3. l = c + r
    BY <1>1 DEF c
  <2>4. a + b \in 0 .. l
    BY <1>1, <2>2, <2>3
  <2> QED BY <2>2, <2>4
<1>12. A \in [1 .. k + 1 -> 0 .. l]
  BY <1>3, <1>11
<1>13. A[1] = 0
  <2>1. 1 \in 1 .. k + 1
    OBVIOUS
  <2> QED BY <1>4, <1>6, <1>8, <2>1
<1>14. A[k + 1] = l
  <2>1. k + 1 \in 1 .. k + 1
    OBVIOUS
  <2> QED BY <1>1, <1>4, <1>6, <1>8, <2>1
<1>15. ASSUME NEW i \in 1 .. k PROVE A[i + 1] - A[i] \in {p, p + 1}
  <2> DEFINE a == m[i]
             b == e[i]
             c == m[i + 1]
             d == e[i + 1]
  <2>1. i \in 1 .. k + 1 /\ i + 1 \in 1 .. k + 1
    OBVIOUS
  <2>2. a \in Nat /\ b \in Nat /\ c = a + p /\ (d = b \/ d = b + 1)
        /\ A[i] = a + b /\ A[i + 1] = c + d
    BY <1>1, <1>4, <1>6, <1>7, <1>10, <2>1
  <2> HIDE DEF a, b, c, d
  <2> QED BY <1>1, <2>2
<1>16. ASSUME NEW i \in 1 .. k + 1, NEW j \in 1 .. k + 1, i <= j PROVE A[i] <= A[j]
  <2> DEFINE a == m[i]
             b == e[i]
             c == m[j]
             d == e[j]
  <2>2. a \in Nat /\ b \in Nat /\ c \in Nat /\ d \in Nat /\ a <= c /\ b <= d
        /\ A[i] = a + b /\ A[j] = c + d
    BY <1>1, <1>4, <1>6, <1>7, <1>9, <1>16
  <2> HIDE DEF a, b, c, d
  <2> QED BY <2>2
<1> QED BY <1>12, <1>13, <1>14, <1>15, <1>16 DEF Shares, p, A

\* One group.
LEMMA GroupIs ==
    ASSUME NEW posts, NEW ads, NEW t, Beside(t, posts, ads), NEW F, Filling(F, posts, t),
           NEW A, NEW p \in Nat, Shares(A, Len(F), Len(t), p), NEW i \in 1 .. Len(t),
           A[i] = AboveOf(Len(F), Len(t), i), A[i + 1] = AboveOf(Len(F), Len(t), i + 1)
    PROVE  LET g == GroupOf(t, F, i)
               n == A[i + 1] - A[i]
           IN  /\ n \in Nat /\ n >= p /\ A[i] + n <= Len(F)
               /\ g \in Seq(Mixture(posts, ads)) /\ Len(g) = 3 + n
               /\ g[1] = Item("post", t[i].above) /\ g[2] = Item("ad", t[i].ad)
               /\ g[3] = Item("post", t[i].below)
               /\ \A j \in 1 .. n : g[3 + j] = Item("post", F[A[i] + j])
<1> DEFINE n == A[i + 1] - A[i]
           M == Mixture(posts, ads)
           h == <<Item("post", t[i].above), Item("ad", t[i].ad), Item("post", t[i].below)>>
           f == [j \in 1 .. n |-> Item("post", F[A[i] + j])]
           g == h \o f
<1>1. GroupOf(t, F, i) = g
  BY DEF GroupOf
<1>2. Len(t) \in Nat /\ Len(F) \in Nat
  BY ListedOver DEF Beside, Filling, Among
<1>3. A[i] \in 0 .. Len(F) /\ A[i + 1] \in 0 .. Len(F) /\ n \in {p, p + 1}
  <2>1. i \in 1 .. Len(t) + 1 /\ i + 1 \in 1 .. Len(t) + 1
    BY <1>2
  <2> QED BY <2>1 DEF Shares
<1>4. n \in Nat /\ n >= p /\ A[i] + n <= Len(F)
  BY <1>2, <1>3
<1>5. Item("post", t[i].above) \in M /\ Item("ad", t[i].ad) \in M /\ Item("post", t[i].below) \in M
  BY DEF Beside, Mixture
<1>6. \A j \in 1 .. n : Item("post", F[A[i] + j]) \in M
  <2> SUFFICES ASSUME NEW j \in 1 .. n PROVE Item("post", F[A[i] + j]) \in M
    OBVIOUS
  <2>1. A[i] + j \in 1 .. Len(F)
    BY <1>2, <1>3
  <2>2. F[A[i] + j] \in Range1(posts)
    BY <2>1 DEF Filling, Among
  <2> QED BY <2>2 DEF Mixture
<1>7. f \in [1 .. n -> M] /\ \A j \in 1 .. n : f[j] = Item("post", F[A[i] + j])
  BY <1>6
<1>8. /\ h \in Seq(M) /\ Len(h) = 3 /\ h[1] = Item("post", t[i].above) /\ h[2] = Item("ad", t[i].ad)
      /\ h[3] = Item("post", t[i].below)
  BY <1>5
<1> HIDE DEF M, n, f, h
<1>9. f \in Seq(M) /\ Len(f) = n
  BY <1>4, <1>7, AsSequence
<1>10. g \in Seq(M) /\ Joins(g, h, f)
  BY <1>8, <1>9, ListOf, ListsJoined
<1> HIDE DEF g
<1>11. Len(g) = 3 + n
  BY <1>8, <1>9, <1>10 DEF Joins
<1>12. g[1] = h[1] /\ g[2] = h[2] /\ g[3] = h[3]
  <2>1. 1 \in 1 .. Len(h) /\ 2 \in 1 .. Len(h) /\ 3 \in 1 .. Len(h)
    BY <1>8
  <2> QED BY <1>10, <2>1 DEF Joins
<1>13. \A j \in 1 .. n : g[3 + j] = f[j]
  BY <1>8, <1>9, <1>10 DEF Joins
<1> QED BY <1>1, <1>4, <1>7, <1>8, <1>10, <1>11, <1>12, <1>13 DEF n, M

\* The groups stand one behind the other: the i-th behind B[i] items.
LaidOut(x, t, F, A, B) ==
    /\ B \in [1 .. Len(t) -> Nat]
    /\ \A i \in 1 .. Len(t) : B[i] = 3 * (i - 1) + A[i]
    /\ Len(x) = 3 * Len(t) + Len(F)
    /\ \A i \in 1 .. Len(t) :
          /\ B[i] + 1 \in 1 .. Len(x) /\ x[B[i] + 1] = Item("post", t[i].above)
          /\ B[i] + 2 \in 1 .. Len(x) /\ x[B[i] + 2] = Item("ad", t[i].ad)
          /\ B[i] + 3 \in 1 .. Len(x) /\ x[B[i] + 3] = Item("post", t[i].below)
    /\ \A i \in 1 .. Len(t) : \A j \in 1 .. A[i + 1] - A[i] :
          B[i] + 3 + j \in 1 .. Len(x) /\ x[B[i] + 3 + j] = Item("post", F[A[i] + j])
    /\ \A m \in 1 .. Len(x) : \E i \in 1 .. Len(t) :
          \/ m = B[i] + 1 \/ m = B[i] + 2 \/ m = B[i] + 3
          \/ \E j \in 1 .. A[i + 1] - A[i] : m = B[i] + 3 + j

\* The fillers of the groups are laid out evenly.
Spread(x, t, F) == \E A, B : Shares(A, Len(F), Len(t), Len(F) \div Len(t)) /\ LaidOut(x, t, F, A, B)

\* The groups joined stand behind one another, with their ads between their pairs.
LEMMA GroupsLaidOut ==
    ASSUME NEW posts, NEW ads, NEW t, Beside(t, posts, ads), Len(t) > 0, NEW F, Filling(F, posts, t)
    PROVE  LET x == FlattenSeq(GroupsOf(t, F))
           IN  x \in Seq(Mixture(posts, ads)) /\ Spread(x, t, F)
<1> DEFINE k == Len(t)
           l == Len(F)
           p == l \div k
           M == Mixture(posts, ads)
           rows == GroupsOf(t, F)
           x == FlattenSeq(rows)
           A == [i \in 1 .. k + 1 |-> AboveOf(l, k, i)]
           n == [i \in 1 .. k |-> A[i + 1] - A[i]]
           B == [i \in 1 .. k |-> 3 * (i - 1) + A[i]]
<1>1. k \in Nat \ {0} /\ l \in Nat
  BY ListedOver DEF Beside, Filling, Among
<1>2. Shares(A, l, k, p) /\ p \in Nat
  BY <1>1, Shared, Divided
<1>3. \A i \in 1 .. k + 1 : A[i] = AboveOf(l, k, i)
  OBVIOUS
<1> HIDE DEF A, p, M
<1>4. ASSUME NEW i \in 1 .. k
      PROVE  LET g == GroupOf(t, F, i)
             IN  /\ n[i] \in Nat
                 /\ g \in Seq(M) /\ Len(g) = 3 + n[i]
                 /\ g[1] = Item("post", t[i].above) /\ g[2] = Item("ad", t[i].ad)
                 /\ g[3] = Item("post", t[i].below)
                 /\ \A j \in 1 .. n[i] : g[3 + j] = Item("post", F[A[i] + j])
  <2> DEFINE g == GroupOf(t, F, i)
             d == A[i + 1] - A[i]
  <2>1. i \in 1 .. k + 1 /\ i + 1 \in 1 .. k + 1
    BY <1>1
  <2>2. A[i] = AboveOf(Len(F), Len(t), i) /\ A[i + 1] = AboveOf(Len(F), Len(t), i + 1)
    BY <1>3, <2>1
  <2>3. n[i] = d
    OBVIOUS
  <2> HIDE DEF g
  <2>4. /\ d \in Nat /\ g \in Seq(Mixture(posts, ads)) /\ Len(g) = 3 + d
        /\ g[1] = Item("post", t[i].above) /\ g[2] = Item("ad", t[i].ad)
        /\ g[3] = Item("post", t[i].below)
        /\ \A j \in 1 .. d : g[3 + j] = Item("post", F[A[i] + j])
    BY <1>2, <2>2, GroupIs DEF g
  <2> HIDE DEF d, n
  <2> QED BY <2>3, <2>4 DEF g, M
<1>5. n \in [1 .. k -> Nat]
  BY <1>4
<1>6. \A i \in 1 .. k : n[i] = A[i + 1] - A[i] /\ B[i] = 3 * (i - 1) + A[i]
  OBVIOUS
<1> HIDE DEF n
<1>7. rows = [i \in 1 .. k |-> rows[i]] /\ \A i \in 1 .. k : rows[i] = GroupOf(t, F, i)
  BY DEF GroupsOf
<1> HIDE DEF rows
<1>8. /\ \A i \in 1 .. k : rows[i] \in Seq(M) /\ Len(rows[i]) = 3 + n[i]
      /\ \A i \in 1 .. k : /\ rows[i][1] = Item("post", t[i].above) /\ rows[i][2] = Item("ad", t[i].ad)
                           /\ rows[i][3] = Item("post", t[i].below)
      /\ \A i \in 1 .. k : \A j \in 1 .. n[i] : rows[i][3 + j] = Item("post", F[A[i] + j])
  <2>1. ASSUME NEW i \in 1 .. k PROVE rows[i] \in Seq(M) /\ Len(rows[i]) = 3 + n[i]
    BY <1>4, <1>7
  <2>2. ASSUME NEW i \in 1 .. k
        PROVE  /\ rows[i][1] = Item("post", t[i].above) /\ rows[i][2] = Item("ad", t[i].ad)
               /\ rows[i][3] = Item("post", t[i].below)
    BY <1>4, <1>7
  <2>3. ASSUME NEW i \in 1 .. k, NEW j \in 1 .. n[i] PROVE rows[i][3 + j] = Item("post", F[A[i] + j])
    BY <1>4, <1>7
  <2> QED BY <2>1, <2>2, <2>3
<1>9. rows \in Seq(Seq(M)) /\ Len(rows) = k
  <2>1. rows \in [1 .. k -> Seq(M)]
    BY <1>7, <1>8
  <2> QED BY <1>1, <2>1, AsSequence
<1>10. PICK start : x \in Seq(M) /\ Starts(start, rows, x)
  BY <1>9, FlattenPlaces
<1> HIDE DEF x, k, l, B
<1>11. /\ start \in [0 .. k -> Nat] /\ start[0] = 0 /\ start[k] = Len(x)
       /\ \A i \in 1 .. k : start[i] = start[i - 1] + (3 + n[i])
       /\ \A i \in 1 .. k : \A m \in 1 .. 3 + n[i] :
            start[i - 1] + m \in 1 .. Len(x) /\ x[start[i - 1] + m] = rows[i][m]
       /\ \A m \in 1 .. Len(x) : \E i \in 1 .. k : \E j \in 1 .. 3 + n[i] : m = start[i - 1] + j
  <2>1. /\ start \in [0 .. k -> Nat] /\ start[0] = 0 /\ start[k] = Len(x)
        /\ \A i \in 1 .. k : start[i] = start[i - 1] + Len(rows[i])
    BY <1>9, <1>10 DEF Starts
  <2>2. \A i \in 1 .. k : \A m \in 1 .. Len(rows[i]) :
            start[i - 1] + m \in 1 .. Len(x) /\ x[start[i - 1] + m] = rows[i][m]
    BY <1>9, <1>10 DEF Starts
  <2>3. \A m \in 1 .. Len(x) : \E i \in 1 .. k : \E j \in 1 .. Len(rows[i]) : m = start[i - 1] + j
    BY <1>9, <1>10 DEF Starts
  <2>4. \A i \in 1 .. k : Len(rows[i]) = 3 + n[i]
    BY <1>8
  <2>5. \A i \in 1 .. k : start[i] = start[i - 1] + (3 + n[i])
    BY <2>1, <2>4
  <2>6. \A i \in 1 .. k : \A m \in 1 .. 3 + n[i] :
            start[i - 1] + m \in 1 .. Len(x) /\ x[start[i - 1] + m] = rows[i][m]
    BY <2>2, <2>4
  <2>7. \A m \in 1 .. Len(x) : \E i \in 1 .. k : \E j \in 1 .. 3 + n[i] : m = start[i - 1] + j
    BY <2>3, <2>4
  <2> QED BY <2>1, <2>5, <2>6, <2>7
<1>12. A \in [1 .. k + 1 -> 0 .. l] /\ A[1] = 0 /\ A[k + 1] = l
  BY <1>2 DEF Shares
<1>13. \A i \in 0 .. k : start[i] = 3 * i + A[i + 1]
  <2> DEFINE S == {i \in 0 .. k : start[i] = 3 * i + A[i + 1]}
  <2>1. 0 \in S
    BY <1>1, <1>11, <1>12
  <2>2. ASSUME NEW i \in 1 .. k, i - 1 \in S PROVE i \in S
    <3>1. start[i - 1] = 3 * (i - 1) + A[(i - 1) + 1] /\ (i - 1) + 1 = i
      BY <1>1, <2>2
    <3>2. start[i] = start[i - 1] + (3 + n[i]) /\ n[i] = A[i + 1] - A[i]
      BY <1>6, <1>11
    <3>3. i \in 1 .. k + 1 /\ i + 1 \in 1 .. k + 1 /\ i \in 0 .. k
      BY <1>1
    <3>4. A[i] \in Nat /\ A[i + 1] \in Nat
      BY <1>1, <1>12, <3>3
    <3> DEFINE a == A[i]
               b == A[i + 1]
               c == start[i - 1]
               d == start[i]
    <3>5. c = 3 * (i - 1) + a /\ d = c + (3 + (b - a)) /\ a \in Nat /\ b \in Nat /\ i \in Nat
      BY <1>1, <3>1, <3>2, <3>4
    <3> HIDE DEF a, b, c, d
    <3>6. d = 3 * i + b
      BY <3>5
    <3> QED BY <3>3, <3>6 DEF d, b
  <2> HIDE DEF S
  <2>3. \A i \in 0 .. k : i \in S
    BY <1>1, <2>1, <2>2, Counting
  <2> QED BY <2>3 DEF S
<1>14. \A i \in 1 .. k : start[i - 1] = B[i] /\ B[i] \in Nat /\ B[i] = 3 * (i - 1) + A[i]
  <2> SUFFICES ASSUME NEW i \in 1 .. k
               PROVE  start[i - 1] = B[i] /\ B[i] \in Nat /\ B[i] = 3 * (i - 1) + A[i]
    OBVIOUS
  <2>1. i - 1 \in 0 .. k /\ (i - 1) + 1 = i
    BY <1>1
  <2>2. start[i - 1] = 3 * (i - 1) + A[i] /\ start[i - 1] \in Nat
    BY <1>11, <1>13, <2>1
  <2>3. B[i] = 3 * (i - 1) + A[i]
    BY <1>6
  <2> QED BY <2>2, <2>3
<1>15. B \in [1 .. k -> Nat]
  <2>1. B = [i \in 1 .. k |-> B[i]]
    BY DEF B
  <2> QED BY <1>14, <2>1
<1>16. Len(x) = 3 * k + l
  BY <1>1, <1>11, <1>12, <1>13
<1>17. ASSUME NEW i \in 1 .. k
       PROVE  /\ B[i] + 1 \in 1 .. Len(x) /\ x[B[i] + 1] = Item("post", t[i].above)
              /\ B[i] + 2 \in 1 .. Len(x) /\ x[B[i] + 2] = Item("ad", t[i].ad)
              /\ B[i] + 3 \in 1 .. Len(x) /\ x[B[i] + 3] = Item("post", t[i].below)
  <2>1. n[i] \in Nat
    BY <1>5
  <2>2. 1 \in 1 .. 3 + n[i] /\ 2 \in 1 .. 3 + n[i] /\ 3 \in 1 .. 3 + n[i]
    BY <2>1
  <2>3. \A m \in 1 .. 3 + n[i] : B[i] + m \in 1 .. Len(x) /\ x[B[i] + m] = rows[i][m]
    BY <1>11, <1>14
  <2> QED BY <1>8, <2>2, <2>3
<1>18. ASSUME NEW i \in 1 .. k, NEW j \in 1 .. n[i]
       PROVE  B[i] + 3 + j \in 1 .. Len(x) /\ x[B[i] + 3 + j] = Item("post", F[A[i] + j])
  <2>1. n[i] \in Nat /\ B[i] \in Nat
    BY <1>5, <1>14
  <2>2. 3 + j \in 1 .. 3 + n[i] /\ B[i] + (3 + j) = B[i] + 3 + j
    BY <2>1
  <2>3. \A m \in 1 .. 3 + n[i] : B[i] + m \in 1 .. Len(x) /\ x[B[i] + m] = rows[i][m]
    BY <1>11, <1>14
  <2>4. B[i] + (3 + j) \in 1 .. Len(x) /\ x[B[i] + (3 + j)] = rows[i][3 + j]
    BY <2>2, <2>3
  <2> QED BY <1>8, <2>2, <2>4
<1>19. ASSUME NEW m \in 1 .. Len(x)
       PROVE  \E i \in 1 .. k :
                 \/ m = B[i] + 1 \/ m = B[i] + 2 \/ m = B[i] + 3
                 \/ \E j \in 1 .. n[i] : m = B[i] + 3 + j
  <2>1. PICK i \in 1 .. k : \E j \in 1 .. 3 + n[i] : m = start[i - 1] + j
    BY <1>11
  <2>11. PICK j \in 1 .. 3 + n[i] : m = start[i - 1] + j
    BY <2>1
  <2>2. m = B[i] + j /\ B[i] \in Nat /\ n[i] \in Nat
    BY <1>5, <1>14, <2>11
  <2>3. CASE j <= 3
    <3>1. j = 1 \/ j = 2 \/ j = 3
      BY <2>3
    <3>2. m = B[i] + 1 \/ m = B[i] + 2 \/ m = B[i] + 3
      BY <2>2, <3>1
    <3> QED BY <3>2
  <2>4. CASE j > 3
    <3>1. j - 3 \in 1 .. n[i] /\ m = B[i] + 3 + (j - 3)
      BY <2>2, <2>4
    <3> QED BY <3>1
  <2>5. j \in Nat
    BY <2>2
  <2>6. j <= 3 \/ j > 3
    BY <2>5
  <2> QED BY <2>3, <2>4, <2>6
<1>20. LaidOut(x, t, F, A, B)
  <2>1. \A i \in 1 .. k : n[i] = A[i + 1] - A[i] /\ B[i] = 3 * (i - 1) + A[i]
    BY <1>6
  <2>2. \A i \in 1 .. k :
          /\ B[i] + 1 \in 1 .. Len(x) /\ x[B[i] + 1] = Item("post", t[i].above)
          /\ B[i] + 2 \in 1 .. Len(x) /\ x[B[i] + 2] = Item("ad", t[i].ad)
          /\ B[i] + 3 \in 1 .. Len(x) /\ x[B[i] + 3] = Item("post", t[i].below)
    BY <1>17
  <2>3. \A i \in 1 .. k : \A j \in 1 .. A[i + 1] - A[i] :
          B[i] + 3 + j \in 1 .. Len(x) /\ x[B[i] + 3 + j] = Item("post", F[A[i] + j])
    BY <1>18, <2>1
  <2>4. \A m \in 1 .. Len(x) : \E i \in 1 .. k :
          \/ m = B[i] + 1 \/ m = B[i] + 2 \/ m = B[i] + 3
          \/ \E j \in 1 .. A[i + 1] - A[i] : m = B[i] + 3 + j
    BY <1>19, <2>1
  <2>5. \A i \in 1 .. k : B[i] = 3 * (i - 1) + A[i]
    BY <2>1
  <2> QED BY <1>15, <1>16, <2>2, <2>3, <2>4, <2>5 DEF LaidOut, k, l
<1>21. Spread(x, t, F)
  <2>1. Shares(A, Len(F), Len(t), Len(F) \div Len(t))
    BY <1>2 DEF k, l, p
  <2> HIDE DEF LaidOut
  <2> QED BY <1>20, <2>1 DEF Spread
<1>22. x \in Seq(M)
  BY <1>10
<1> QED BY <1>21, <1>22 DEF x, M, rows

\* Between two groups are the three items of the first and its fillers.
LEMMA GroupsApart ==
    ASSUME NEW k \in Nat, NEW l \in Nat, NEW p \in Nat, NEW A, Shares(A, l, k, p),
           NEW i \in 1 .. k, NEW j \in 1 .. k, i < j
    PROVE  /\ A[i] \in Nat /\ A[i + 1] \in Nat /\ A[j] \in Nat
           /\ A[i] + p <= A[i + 1] /\ A[i + 1] <= A[j]
<1>1. i \in 1 .. k + 1 /\ i + 1 \in 1 .. k + 1 /\ j \in 1 .. k + 1 /\ i + 1 <= j
  OBVIOUS
<1>2. A[i] \in 0 .. l /\ A[i + 1] \in 0 .. l /\ A[j] \in 0 .. l
  BY <1>1 DEF Shares
<1>3. A[i + 1] - A[i] \in {p, p + 1} /\ A[i + 1] <= A[j]
  BY <1>1 DEF Shares
<1> DEFINE a == A[i]
           b == A[i + 1]
           c == A[j]
<1>4. a \in Nat /\ b \in Nat /\ c \in Nat /\ (b - a = p \/ b - a = p + 1) /\ b <= c
  BY <1>2, <1>3
<1> HIDE DEF a, b, c
<1>5. a + p <= b
  BY <1>4
<1> QED BY <1>4, <1>5 DEF a, b, c

\* What stands at a place, and the group it belongs to.
HeldAt(x, t, F, A, B, m, i) ==
    \/ m = B[i] + 1 /\ x[m] = Item("post", t[i].above)
    \/ m = B[i] + 2 /\ x[m] = Item("ad", t[i].ad)
    \/ m = B[i] + 3 /\ x[m] = Item("post", t[i].below)
    \/ \E j \in 1 .. A[i + 1] - A[i] : m = B[i] + 3 + j /\ x[m] = Item("post", F[A[i] + j])

\* Every place belongs to a group.
LEMMA EachHeld ==
    ASSUME NEW x, NEW t, NEW F, NEW A, NEW B, LaidOut(x, t, F, A, B), NEW m \in 1 .. Len(x)
    PROVE  \E i \in 1 .. Len(t) : HeldAt(x, t, F, A, B, m, i)
<1>1. PICK i \in 1 .. Len(t) :
          \/ m = B[i] + 1 \/ m = B[i] + 2 \/ m = B[i] + 3
          \/ \E j \in 1 .. A[i + 1] - A[i] : m = B[i] + 3 + j
  BY DEF LaidOut
<1>2. /\ x[B[i] + 1] = Item("post", t[i].above) /\ x[B[i] + 2] = Item("ad", t[i].ad)
      /\ x[B[i] + 3] = Item("post", t[i].below)
  BY DEF LaidOut
<1>3. \A j \in 1 .. A[i + 1] - A[i] : x[B[i] + 3 + j] = Item("post", F[A[i] + j])
  BY DEF LaidOut
<1>4. CASE m = B[i] + 1
  BY <1>2, <1>4 DEF HeldAt
<1>5. CASE m = B[i] + 2
  BY <1>2, <1>5 DEF HeldAt
<1>6. CASE m = B[i] + 3
  BY <1>2, <1>6 DEF HeldAt
<1>7. CASE \E j \in 1 .. A[i + 1] - A[i] : m = B[i] + 3 + j
  BY <1>3, <1>7 DEF HeldAt
<1> QED BY <1>1, <1>4, <1>5, <1>6, <1>7

\* The post at a place is not the one of another.
LEMMA HeldApart ==
    ASSUME NEW posts, NEW ads, NEW t, Beside(t, posts, ads), NEW F, Filling(F, posts, t),
           NEW A, NEW p \in Nat, Shares(A, Len(F), Len(t), p),
           NEW x, NEW B, NEW i \in 1 .. Len(t), NEW j \in 1 .. Len(t), NEW m, NEW q,
           HeldAt(x, t, F, A, B, m, i), HeldAt(x, t, F, A, B, q, j), m # q,
           x[m].kind = "post", x[q].kind = "post"
    PROVE  x[m].body # x[q].body
<1>1. Len(t) \in Nat /\ Len(F) \in Nat
  BY ListedOver DEF Beside, Filling, Among
<1>2. \A g \in 1 .. Len(t) : A[g] \in 0 .. Len(F) /\ A[g + 1] \in 0 .. Len(F)
  <2> SUFFICES ASSUME NEW g \in 1 .. Len(t) PROVE A[g] \in 0 .. Len(F) /\ A[g + 1] \in 0 .. Len(F)
    OBVIOUS
  <2>1. g \in 1 .. Len(t) + 1 /\ g + 1 \in 1 .. Len(t) + 1
    BY <1>1
  <2> QED BY <2>1 DEF Shares
<1>3. \A g \in 1 .. Len(t) : \A n \in 1 .. A[g + 1] - A[g] : A[g] + n \in 1 .. Len(F)
  <2> SUFFICES ASSUME NEW g \in 1 .. Len(t), NEW n \in 1 .. A[g + 1] - A[g]
               PROVE  A[g] + n \in 1 .. Len(F)
    OBVIOUS
  <2> DEFINE a == A[g]
             b == A[g + 1]
             l == Len(F)
  <2>1. a \in 0 .. l /\ b \in 0 .. l /\ n \in 1 .. b - a /\ l \in Nat
    BY <1>1, <1>2
  <2> HIDE DEF a, b, l
  <2>2. a + n \in 1 .. l
    BY <2>1
  <2> QED BY <2>2 DEF a, l
<1>4. \/ x[m].body = t[i].above /\ m = B[i] + 1
      \/ x[m].body = t[i].below /\ m = B[i] + 3
      \/ \E n \in 1 .. A[i + 1] - A[i] : m = B[i] + 3 + n /\ x[m].body = F[A[i] + n]
  BY ItemIs DEF HeldAt
<1>5. \/ x[q].body = t[j].above /\ q = B[j] + 1
      \/ x[q].body = t[j].below /\ q = B[j] + 3
      \/ \E n \in 1 .. A[j + 1] - A[j] : q = B[j] + 3 + n /\ x[q].body = F[A[j] + n]
  BY ItemIs DEF HeldAt
<1>6. \A u, v \in 1 .. Len(t) : /\ t[u].above # t[v].below
                                /\ u # v => t[u].above # t[v].above /\ t[u].below # t[v].below
  BY DEF Beside
<1>7. \A u \in 1 .. Len(F) : \A v \in 1 .. Len(t) : F[u] # t[v].above /\ F[u] # t[v].below
  BY DEF Filling
<1>8. \A u, v \in 1 .. Len(F) : u # v => F[u] # F[v]
  BY DEF Filling, Among, Apart
<1>9. CASE x[m].body = t[i].above /\ m = B[i] + 1
  BY <1>3, <1>5, <1>6, <1>7, <1>9
<1>10. CASE x[m].body = t[i].below /\ m = B[i] + 3
  BY <1>3, <1>5, <1>6, <1>7, <1>10
<1>11. ASSUME NEW n \in 1 .. A[i + 1] - A[i], m = B[i] + 3 + n, x[m].body = F[A[i] + n]
       PROVE  x[m].body # x[q].body
  <2>1. CASE x[q].body = t[j].above \/ x[q].body = t[j].below
    BY <1>3, <1>7, <1>11, <2>1
  <2>2. ASSUME NEW o \in 1 .. A[j + 1] - A[j], q = B[j] + 3 + o, x[q].body = F[A[j] + o]
        PROVE  x[m].body # x[q].body
    <3> DEFINE a == A[i]
               b == A[i + 1]
               c == A[j]
               d == A[j + 1]
    <3>1. i = j => a = c
      OBVIOUS
    <3>2. (i < j => b <= c) /\ (j < i => d <= a)
      BY <1>1, GroupsApart
    <3>3. a \in Nat /\ b \in Nat /\ c \in Nat /\ d \in Nat
      BY <1>1, <1>2
    <3>4. n \in 1 .. b - a /\ o \in 1 .. d - c
      BY <2>2
    <3>5. i = j => n # o
      BY <1>11, <2>2
    <3> HIDE DEF a, b, c, d
    <3>6. i = j \/ i < j \/ j < i
      BY <1>1
    <3>7. a + n # c + o
      BY <3>1, <3>2, <3>3, <3>4, <3>5, <3>6
    <3>8. A[i] + n \in 1 .. Len(F) /\ A[j] + o \in 1 .. Len(F) /\ A[i] + n # A[j] + o
      BY <1>3, <2>2, <3>7 DEF a, c
    <3> QED BY <1>8, <1>11, <2>2, <3>8
  <2> QED BY <1>5, <2>1, <2>2
<1> QED BY <1>4, <1>9, <1>10, <1>11

\* The groups behind one another are a feed the blender may show.
LEMMA GroupsLaid ==
    ASSUME NEW posts, Listed(posts), Apart(posts), NEW ads, Listed(ads),
           NEW t, Beside(t, posts, ads), Len(t) > 0, Len(t) <= Len(ads),
           NEW F, Filling(F, posts, t),
           NEW gap \in Nat \ {0}, Len(t) * gap <= Len(posts) - 1,
           NEW x \in Seq(Mixture(posts, ads)), Spread(x, t, F)
    PROVE  Laid(x, posts, ads, gap, TRUE, FALSE)
<1> DEFINE k == Len(t)
           l == Len(F)
           p == l \div k
<1>1. k \in Nat \ {0} /\ l \in Nat
  BY ListedOver DEF Beside, Filling, Among
<1>2. p \in Nat /\ (\A c \in Nat : c <= p <=> c * k <= l)
  BY <1>1, Divided, DividedMeans
<1>3. PICK A, B : Shares(A, l, k, p) /\ LaidOut(x, t, F, A, B)
  BY DEF Spread
<1>4. Mixed(x) /\ Listed(x) /\ Len(x) \in Nat
      /\ \A i \in 1 .. Len(x) : x[i].kind = "post" => x[i].body \in Range1(posts)
  BY MixtureMixed, ListedOver DEF Mixed, Feed
<1> HIDE DEF k, l, p
<1>5. /\ B \in [1 .. k -> Nat] /\ Len(x) = 3 * k + l
      /\ \A i \in 1 .. k : B[i] = 3 * (i - 1) + A[i]
      /\ \A i \in 1 .. k : /\ B[i] + 1 \in 1 .. Len(x) /\ x[B[i] + 1] = Item("post", t[i].above)
                           /\ B[i] + 2 \in 1 .. Len(x) /\ x[B[i] + 2] = Item("ad", t[i].ad)
                           /\ B[i] + 3 \in 1 .. Len(x) /\ x[B[i] + 3] = Item("post", t[i].below)
  BY <1>3 DEF LaidOut, k, l
<1>6. \A m \in 1 .. Len(x) : \E i \in 1 .. k : HeldAt(x, t, F, A, B, m, i)
  BY <1>3, EachHeld DEF k
<1>7. ASSUME NEW m \in 1 .. Len(x), x[m].kind = "ad" PROVE \E i \in 1 .. k : m = B[i] + 2
  <2>1. PICK i \in 1 .. k : HeldAt(x, t, F, A, B, m, i)
    BY <1>6
  <2>2. m = B[i] + 2
    BY <1>7, <2>1, ItemIs DEF HeldAt
  <2> QED BY <2>2
<1>8. Guarded(x, TRUE)
  <2> SUFFICES ASSUME NEW m \in 1 .. Len(x), x[m].kind = "ad"
               PROVE  1 < m /\ m < Len(x) /\ Neighbours(x, m, TRUE)
    BY DEF Guarded
  <2>1. PICK i \in 1 .. k : m = B[i] + 2
    BY <1>7
  <2> DEFINE b == B[i]
             n == Len(x)
  <2>2. b \in Nat /\ n \in Nat /\ b + 3 <= n /\ m = b + 2
    BY <1>4, <1>5, <2>1
  <2> HIDE DEF b, n
  <2>3. m - 1 = b + 1 /\ m + 1 = b + 3 /\ 1 < m /\ m < n
    BY <2>2
  <2>4. /\ x[m].body = t[i].ad /\ x[m - 1].kind = "post" /\ x[m - 1].body = t[i].above
        /\ x[m + 1].kind = "post" /\ x[m + 1].body = t[i].below
    <3>1. x[m - 1] = Item("post", t[i].above) /\ x[m + 1] = Item("post", t[i].below)
      BY <1>5, <2>3 DEF b
    <3>2. x[m] = Item("ad", t[i].ad)
      BY <1>5, <2>1
    <3> QED BY <3>1, <3>2, ItemIs
  <2>5. /\ ~HasAvoid(t[i].above) /\ ~HasAvoid(t[i].below)
        /\ ~Clashes(t[i].ad, t[i].above, t[i].below)
    BY DEF Beside, k
  <2> QED BY <2>3, <2>4, <2>5 DEF Neighbours, n
<1>9. ASSUME NEW i \in 1 .. k, NEW j \in 1 .. k, i < j PROVE B[j] - B[i] >= 3 + p
  <2> DEFINE a == A[i]
             b == A[i + 1]
             c == A[j]
             d == B[i]
             e == B[j]
  <2>1. a \in Nat /\ b \in Nat /\ c \in Nat /\ a + p <= b /\ b <= c
    BY <1>1, <1>2, <1>3, <1>9, GroupsApart
  <2>2. d = 3 * (i - 1) + a /\ e = 3 * (j - 1) + c
    BY <1>5
  <2> HIDE DEF a, b, c, d, e
  <2>3. e - d >= 3 + p
    BY <1>1, <1>2, <1>9, <2>1, <2>2
  <2> QED BY <2>3 DEF d, e
<1>10. gap < 3 + p
  <2> DEFINE n == Len(posts)
  <2>1. l + 2 * k = n /\ k * gap <= n - 1
    BY DEF Filling, k, l
  <2> HIDE DEF n
  <2>2. CASE gap < 2
    BY <1>2, <2>2
  <2>3. CASE gap >= 2
    <3> DEFINE c == gap - 2
    <3>1. c \in Nat /\ gap = c + 2
      BY <2>3
    <3> HIDE DEF c
    <3>2. (c + 1) * k = c * k + k /\ ((c + 1) + 1) * k = (c + 1) * k + k /\ c * k \in Nat
      BY <1>1, <3>1, Times
    <3>3. k * gap = gap * k /\ gap * k \in Nat
      BY <1>1, Times
    <3>4. (c + 1) + 1 = gap
      BY <3>1
    <3>5. gap * k = c * k + k + k
      <4>1. gap * k = (c + 1) * k + k
        BY <3>2, <3>4
      <4> QED BY <3>2, <4>1
    <3> DEFINE u == c * k
               v == gap * k
    <3>6. v = u + k + k /\ u \in Nat /\ v <= n - 1 /\ l + 2 * k = n
      BY <2>1, <3>2, <3>3, <3>5
    <3> HIDE DEF u, v
    <3>7. u <= l
      BY <1>1, <3>6
    <3>8. c <= p
      BY <1>2, <3>1, <3>7 DEF u
    <3> QED BY <1>2, <3>1, <3>8
  <2> QED BY <2>2, <2>3
<1>11. SpacedBy(x, gap)
  <2> SUFFICES ASSUME NEW m \in 1 .. Len(x), NEW q \in 1 .. Len(x),
                      x[m].kind = "ad", x[q].kind = "ad", m < q
               PROVE  q - m > gap
    BY DEF SpacedBy
  <2>1. PICK i \in 1 .. k : m = B[i] + 2
    BY <1>7
  <2>2. PICK j \in 1 .. k : q = B[j] + 2
    BY <1>7
  <2> DEFINE d == B[i]
             e == B[j]
  <2>3. /\ d \in Nat /\ e \in Nat /\ m = d + 2 /\ q = e + 2
        /\ (i < j => e - d >= 3 + p) /\ (j < i => d - e >= 3 + p) /\ (i = j => d = e)
    BY <1>5, <1>9, <2>1, <2>2
  <2>4. i < j \/ j < i \/ i = j
    BY <1>1
  <2> HIDE DEF d, e
  <2> QED BY <1>2, <1>10, <2>3, <2>4
<1>12. Len(OfKind(x, "ad")) = k
  <2> DEFINE f == [i \in 1 .. k |-> B[i] + 2]
  <2>1. \A i \in 1 .. k : f[i] = B[i] + 2
    OBVIOUS
  <2>2. f \in [1 .. k -> 1 .. Len(x)]
    BY <1>5
  <2> HIDE DEF f
  <2>3. \A i \in 1 .. k : x[f[i]].kind \in {"ad"}
    BY <1>5, <2>1, ItemIs
  <2>4. \A i, j \in 1 .. k : i < j => f[i] < f[j]
    <3> SUFFICES ASSUME NEW i \in 1 .. k, NEW j \in 1 .. k, i < j PROVE f[i] < f[j]
      OBVIOUS
    <3>1. B[i] \in Nat /\ B[j] \in Nat /\ B[j] - B[i] >= 3 + p
      BY <1>5, <1>9
    <3> QED BY <1>2, <2>1, <3>1
  <2>5. \A m \in 1 .. Len(x) : x[m].kind \in {"ad"} => \E i \in 1 .. k : f[i] = m
    BY <1>7, <2>1
  <2>6. Places(f, k, x, {"ad"})
    BY <1>1, <2>2, <2>3, <2>4, <2>5 DEF Places
  <2> QED BY <1>4, <2>6, KindsListed DEF OfKind
<1>13. Len(ShownOf(x)) = Len(posts) /\ Among(ShownOf(x), posts)
  <2> DEFINE P == PlacesOf(x, {"post"})
             a == Ascending(P)
             o == OfKinds(x, {"post"})
             b == Bodies(o)
  <2>1. /\ Listed(o) /\ Len(o) \in Nat
        /\ \A i \in 1 .. Len(o) : a[i] \in 1 .. Len(x) /\ x[a[i]].kind \in {"post"} /\ o[i] = x[a[i]]
        /\ \A i, j \in 1 .. Len(o) : i < j => a[i] < a[j]
    BY <1>4, KindsPlaced
  <2>2. ShownOf(x) = b
    BY DEF ShownOf, OfKind
  <2>3. Len(x) = Len(o) + k
    BY <1>4, <1>12, MixedCounts DEF OfKind
  <2> HIDE DEF a, P, o
  <2>4. Listed(b) /\ Len(b) = Len(o) /\ \A i \in 1 .. Len(o) : b[i] = o[i].body
    BY <2>1, BodiesOver
  <2> HIDE DEF b
  <2>5. Len(b) = Len(posts)
    <3>1. l + 2 * k = Len(posts)
      BY DEF Filling, k, l
    <3> DEFINE u == Len(x)
               v == Len(o)
               w == Len(b)
               z == Len(posts)
    <3>2. u \in Nat /\ v \in Nat /\ u = v + k /\ u = 3 * k + l /\ w = v /\ l + 2 * k = z
      BY <1>4, <1>5, <2>1, <2>3, <2>4, <3>1
    <3> HIDE DEF u, v, w, z
    <3>3. w = z
      BY <1>1, <3>2
    <3> QED BY <3>3 DEF w, z
  <2>6. \A i \in 1 .. Len(b) : b[i] \in Range1(posts)
    BY <1>4, <2>1, <2>4
  <2>7. \A i, j \in 1 .. Len(b) : i # j => b[i] # b[j]
    <3> SUFFICES ASSUME NEW i \in 1 .. Len(b), NEW j \in 1 .. Len(b), i # j PROVE b[i] # b[j]
      OBVIOUS
    <3> DEFINE m == a[i]
               q == a[j]
    <3>1. /\ m \in 1 .. Len(x) /\ x[m].kind = "post" /\ b[i] = x[m].body
          /\ q \in 1 .. Len(x) /\ x[q].kind = "post" /\ b[j] = x[q].body
      BY <2>1, <2>4
    <3>2. (i < j => m < q) /\ (j < i => q < m)
      BY <2>1, <2>4
    <3>3. i < j \/ j < i
      BY <2>1, <2>4
    <3> HIDE DEF m, q
    <3>4. m # q
      BY <1>4, <3>1, <3>2, <3>3
    <3>5. PICK g \in 1 .. k : HeldAt(x, t, F, A, B, m, g)
      BY <1>6, <3>1
    <3>6. PICK h \in 1 .. k : HeldAt(x, t, F, A, B, q, h)
      BY <1>6, <3>1
    <3>7. x[m].body # x[q].body
      BY <1>2, <1>3, <3>1, <3>4, <3>5, <3>6, HeldApart DEF k, l
    <3> QED BY <3>1, <3>7
  <2>8. Among(b, posts)
    BY <2>4, <2>6, <2>7 DEF Among, Apart
  <2> QED BY <2>2, <2>5, <2>8
<1>14. Drawn(ShownOf(x), posts)
  BY <1>13, AmongDrawn
<1> QED BY <1>4, <1>8, <1>11, <1>12, <1>13, <1>14 DEF Laid, k

\* The two halves of the posts, as the blender picks them.
LEMMA SplitByAvoid ==
    \A posts : /\ Those(posts, LAMBDA p : ~HasAvoid(p)) = SafePosts(posts)
               /\ Those(posts, HasAvoid) = OtherPosts(posts)
BY DEF Those, SafePosts, OtherPosts, SafePlaces

\* PartitionWith in terms of the places it picks.
LEMMA PartitionWithIs ==
    \A safe, unsafe, t :
       PartitionWith(safe, unsafe, t) =
          IF t = <<>> THEN PostsToFeedItems(ByScore(safe \o unsafe))
          ELSE LayOut(t, ByScore(PickAt(safe, {i \in DOMAIN safe : safe[i] \notin PairPosts(t)}) \o unsafe))
BY DEF PartitionWith, PairPosts, Those

\* With the pairs laid out.
LEMMA TriplesBlended ==
    ASSUME NEW posts, Ranked(posts), NEW ads, Listed(ads),
           NEW actual \in Nat \ {0}, 2 * actual <= Len(SafePosts(posts)),
           NEW gap \in Nat \ {0}, actual * gap <= Len(posts) - 1,
           NEW t, Paired(t, SafePosts(posts), ads, Len(SafePosts(posts)) \div actual, actual),
           Len(t) <= Len(ads), Len(t) > 0
    PROVE  LET safe == SafePosts(posts)
               left == PickAt(safe, {i \in DOMAIN safe : safe[i] \notin PairPosts(t)})
           IN  Blended(LayOut(t, ByScore(left \o OtherPosts(posts))), posts, ads, gap, TRUE, FALSE)
<1> DEFINE safe == SafePosts(posts)
           left == PickAt(safe, {i \in DOMAIN safe : safe[i] \notin PairPosts(t)})
           F == ByScore(left \o OtherPosts(posts))
           x == FlattenSeq(GroupsOf(t, F))
<1>1. Beside(t, posts, ads) /\ Filling(F, posts, t)
  BY FillerIs
<1> HIDE DEF F
<1>2. x \in Seq(Mixture(posts, ads)) /\ Spread(x, t, F)
  BY <1>1, GroupsLaidOut
<1>3. Listed(posts) /\ Apart(posts) /\ Len(posts) \in Nat
  BY ListedOver DEF Ranked
<1>4. Len(t) * gap <= Len(posts) - 1
  <2> DEFINE k == Len(t)
             n == Len(posts) - 1
             u == actual * gap
             v == k * gap
  <2>1. k \in Nat /\ k <= actual
    BY DEF Paired
  <2>2. v <= u /\ v \in Nat /\ u \in Nat
    <3> HIDE DEF k
    <3> QED BY <2>1, Times
  <2>3. u <= n /\ n \in Int
    BY <1>3
  <2> HIDE DEF u, v, n, k
  <2>4. v <= n
    BY <2>2, <2>3
  <2> QED BY <2>4 DEF v, n, k
<1> HIDE DEF x
<1>5. Laid(x, posts, ads, gap, TRUE, FALSE)
  BY <1>1, <1>2, <1>3, <1>4, GroupsLaid
<1>6. Blended(Finish(x), posts, ads, gap, TRUE, FALSE)
  BY <1>3, <1>5, Finished
<1>7. LayOut(t, F) = Finish(x)
  BY LayOutIs DEF x
<1> QED BY <1>6, <1>7 DEF F

\* What the partition blender makes of posts and ads: the posts are drawn
\* without repetition, no ad is beside a post it clashes with or one that is not
\* brand-safe, and the ads are as far apart as the first four ask for.
THEOREM PartitionBlended ==
    ASSUME NEW posts, Ranked(posts), NEW ads, Positioned(ads)
    PROVE  Blended(PartitionOrganicBlend(posts, ads), posts, ads,
                   ComputeSpacing(ads).requested, TRUE, FALSE)
<1> DEFINE gap == ComputeSpacing(ads).requested
           actual == ActualAds(posts, ads)
           safe == SafePosts(posts)
           t == Triples(safe, ads, actual)
<1>1. Listed(posts) /\ Listed(ads) /\ Len(posts) \in Nat
  BY ListedOver DEF Ranked, Positioned
<1>2. CASE ads = <<>> \/ Len(posts) < MinPostsForAds \/ actual = 0
  <2>1. PartitionOrganicBlend(posts, ads) = PostsToFeedItems(posts)
    BY <1>2 DEF PartitionOrganicBlend
  <2> QED BY <1>1, <2>1, DrawnWhole, PlainBlended
<1>3. CASE ~(ads = <<>> \/ Len(posts) < MinPostsForAds \/ actual = 0)
  <2>1. Len(posts) > 0
    BY <1>1, <1>3, BlenderAssumption
  <2>2. /\ actual \in Nat \ {0} /\ gap \in Nat \ {0} /\ actual * gap <= Len(posts) - 1
        /\ 2 * actual <= Cardinality(SafePlaces(posts))
    BY <1>1, <1>3, <2>1, ActualFits
  <2>3. PartitionOrganicBlend(posts, ads) = PartitionWith(safe, OtherPosts(posts), t)
    BY <1>3, SplitByAvoid DEF PartitionOrganicBlend
  <2> HIDE DEF actual, gap
  <2>4. Among(safe, posts) /\ Len(safe) = Cardinality(SafePlaces(posts)) /\ Listed(safe)
        /\ \A i \in 1 .. Len(safe) : ~HasAvoid(safe[i])
    BY SafeAndOthers DEF Among
  <2>5. Paired(t, safe, ads, Len(safe) \div actual, actual) /\ Len(t) <= Len(ads)
    <3> HIDE DEF safe
    <3> QED BY <1>1, <2>2, <2>4, TriplesPaired
  <2>6. Listed(t) /\ Len(t) \in Nat
    BY <2>5 DEF Paired
  <2>7. CASE t = <<>>
    <3> DEFINE F == ByScore(safe \o OtherPosts(posts))
    <3>1. Among(F, posts) /\ Len(F) + 0 = Len(posts)
      <4>1. Len(safe) \in Nat /\ 0 \in Nat
        BY <2>4, ListedOver
      <4>2. Len(safe) + 0 = Len(SafePosts(posts))
        <5> DEFINE u == Len(safe)
        <5>1. u \in Nat
          BY <4>1
        <5> HIDE DEF u
        <5>2. u + 0 = u
          BY <5>1
        <5> QED BY <5>2 DEF u
      <4> HIDE DEF safe
      <4> QED BY <2>4, <4>1, <4>2, Filled
    <3> HIDE DEF F
    <3>2. Len(F) = Len(posts) /\ Listed(F)
      <4>1. Len(F) \in Nat /\ Listed(F)
        BY <3>1, ListedOver DEF Among
      <4> DEFINE u == Len(F)
                 v == Len(posts)
      <4>2. u \in Nat /\ u + 0 = v
        BY <3>1, <4>1
      <4> HIDE DEF u, v
      <4>3. u = v
        BY <4>2
      <4> QED BY <4>1, <4>3 DEF u, v
    <3>3. Drawn(F, posts)
      BY <3>1, AmongDrawn
    <3>4. PartitionOrganicBlend(posts, ads) = PostsToFeedItems(F)
      BY <2>3, <2>7, PartitionWithIs DEF F
    <3>5. Blended(PostsToFeedItems(F), posts, ads, gap, TRUE, FALSE)
      BY <1>1, <3>2, <3>3, PlainBlended
    <3> QED BY <3>4, <3>5 DEF gap
  <2>8. CASE t # <<>>
    <3>1. Len(t) > 0
      <4>1. t \in Seq(Range1(t))
        BY <2>6 DEF Listed
      <4> HIDE DEF t
      <4> QED BY <2>6, <2>8, <4>1
    <3> DEFINE left == PickAt(safe, {i \in DOMAIN safe : safe[i] \notin PairPosts(t)})
               F == ByScore(left \o OtherPosts(posts))
    <3>2. PartitionOrganicBlend(posts, ads) = LayOut(t, F)
      BY <2>3, <2>8, PartitionWithIs
    <3>3. 2 * actual <= Len(safe)
      BY <2>2, <2>4
    <3> HIDE DEF t
    <3>4. Blended(LayOut(t, F), posts, ads, gap, TRUE, FALSE)
      BY <1>1, <2>2, <2>5, <3>1, <3>3, TriplesBlended
    <3> QED BY <3>2, <3>4 DEF gap
  <2> QED BY <2>7, <2>8
<1> QED BY <1>2, <1>3

(* ---------- The history of the viewer ----------------------------------- *)

\* What a request consists of.
Fields == {"stage", "scenario", "outer", "query", "found", "retrieved", "shortlist", "candidates",
           "filtered", "non_selected", "posts", "items", "pending", "published"}

\* Responses out of those recorded, the newest first.
NewestFirst(h, recorded) ==
    /\ h \in Seq({h[i] : i \in 1 .. Len(h)})
    /\ \A i \in 1 .. Len(h) : h[i].time \in recorded
    /\ \A i, j \in 1 .. Len(h) : i < j => h[i].time > h[j].time

\* The last responses are behind n newer ones.
LEMMA SkippedAreOld ==
    ASSUME NEW recorded, recorded \subseteq Nat, IsFiniteSet(recorded),
           NEW h, NewestFirst(h, recorded), NEW n \in Nat, NEW e \in Range1(Skip(h, n))
    PROVE  ~(Cardinality({u \in recorded : u > e.time}) < n)
<1> DEFINE T == {h[i] : i \in 1 .. Len(h)}
           U == {u \in recorded : u > e.time}
<1>1. h \in Seq(T) /\ Len(h) \in Nat
  BY DEF NewestFirst
<1> HIDE DEF T
<1>2. PICK i \in n + 1 .. Len(h) : e = h[i]
  <2>1. PICK k \in 1 .. Len(Skip(h, n)) : e = Skip(h, n)[k]
    BY DEF Range1
  <2>2. Skip(h, n) = SubSeq(h, n + 1, Len(h))
    BY DEF Skip
  <2>3. k + n \in n + 1 .. Len(h) /\ e = h[k + n]
    BY <1>1, <2>1, <2>2
  <2> QED BY <2>3
<1>3. \A k \in 1 .. n : h[k].time \in U
  BY <1>1, <1>2 DEF NewestFirst
<1>4. \A j, k \in 1 .. n : j < k => h[j].time # h[k].time
  <2> SUFFICES ASSUME NEW j \in 1 .. n, NEW k \in 1 .. n, j < k PROVE h[j].time # h[k].time
    OBVIOUS
  <2>1. j \in 1 .. Len(h) /\ k \in 1 .. Len(h)
    BY <1>1, <1>2
  <2>2. h[j].time \in recorded /\ h[k].time \in recorded /\ h[j].time > h[k].time
    BY <2>1 DEF NewestFirst
  <2>3. h[j].time \in Nat /\ h[k].time \in Nat
    BY <2>2
  <2> QED BY <2>2, <2>3
<1>5. \A j, k \in 1 .. n : j # k => h[j].time # h[k].time
  <2> SUFFICES ASSUME NEW j \in 1 .. n, NEW k \in 1 .. n, j # k PROVE h[j].time # h[k].time
    OBVIOUS
  <2>1. j < k \/ k < j
    OBVIOUS
  <2> QED BY <1>4, <2>1
<1>6. IsFiniteSet(U) /\ Cardinality(U) \in Nat
  BY FS_Subset, FS_CardinalityType
<1> HIDE DEF U
<1>7. [k \in 1 .. n |-> h[k].time] \in Injection(1 .. n, U)
  BY <1>3, <1>5 DEF Injection, IsInjective
<1>8. IsFiniteSet(1 .. n) /\ Cardinality(1 .. n) = n
  BY FS_Interval
<1>9. n <= Cardinality(U)
  BY <1>6, <1>7, <1>8, FS_Injection
<1> QED BY <1>6, <1>9 DEF U

\* What is recorded later does not disturb what was read.
LEMMA NewestFirstGrows ==
    ASSUME NEW h, NEW recorded, NewestFirst(h, recorded), NEW more, recorded \subseteq more
    PROVE  NewestFirst(h, more)
BY DEF NewestFirst

\* The greatest of a finite set of numbers.
LEMMA Largest ==
    ASSUME NEW S, S \subseteq Int, IsFiniteSet(S), S # {}
    PROVE  Max(S) \in S /\ \A n \in S : Max(S) >= n
<1> DEFINE k == Cardinality(S)
           a == Ascending(S)
<1>1. /\ k \in Nat /\ a \in [1 .. k -> S]
      /\ \A n \in S : \E i \in 1 .. k : a[i] = n
      /\ \A i, j \in 1 .. k : i < j => a[i] < a[j]
  BY AscendingSorts
<1> HIDE DEF k, a
<1>2. k \in 1 .. k
  <2>1. PICK n \in S : TRUE
    OBVIOUS
  <2>2. PICK i \in 1 .. k : a[i] = n
    BY <1>1
  <2> QED BY <1>1, <2>2
<1>3. \A n \in S : a[k] >= n
  <2> SUFFICES ASSUME NEW n \in S PROVE a[k] >= n
    OBVIOUS
  <2>1. PICK i \in 1 .. k : a[i] = n
    BY <1>1
  <2>2. i = k \/ a[i] < a[k]
    BY <1>1, <1>2
  <2>3. a[k] \in Int /\ n \in Int
    BY <1>1, <1>2
  <2> QED BY <2>1, <2>2, <2>3
<1>4. a[k] \in S
  BY <1>1, <1>2
<1> QED BY <1>3, <1>4 DEF Max

\* A field of what was merged is the record's or one of the answers'.
LEMMA MergedField ==
    ASSUME NEW record, NEW answers, DOMAIN answers \subseteq Int, IsFiniteSet(DOMAIN answers),
           NEW f \in DOMAIN record
    PROVE  /\ DOMAIN Merged(record, answers) = DOMAIN record
           /\ \/ /\ \A i \in DOMAIN answers : f \notin DOMAIN Get(answers[i], <<>>)
                 /\ Merged(record, answers)[f] = record[f]
              \/ \E i \in DOMAIN answers : /\ f \in DOMAIN Get(answers[i], <<>>)
                                           /\ Merged(record, answers)[f] = Get(answers[i], <<>>)[f]
<1> DEFINE Having == {i \in DOMAIN answers : f \in DOMAIN Get(answers[i], <<>>)}
<1>1. /\ DOMAIN Merged(record, answers) = DOMAIN record
      /\ Merged(record, answers)[f] =
            IF Having = {} THEN record[f] ELSE Get(answers[Max(Having)], <<>>)[f]
  BY DEF Merged
<1>2. IsFiniteSet(Having) /\ Having \subseteq Int
  BY FS_Subset
<1>3. CASE Having = {}
  BY <1>1, <1>3
<1>4. CASE Having # {}
  <2>1. Max(Having) \in Having
    BY <1>2, <1>4, Largest
  <2> QED BY <1>1, <1>4, <2>1
<1> QED BY <1>3, <1>4

\* A component answers with its value or, disabled or failed, with nothing.
LEMMA Answers ==
    ASSUME NEW faults, NEW call, NEW value, NEW enabled
    PROVE  Get(When(enabled, Answered(faults, call, value)), <<>>) \in {<<>>, value}
BY DEF Get, When, Answered, AnsweredFor, None, Some

\* What a query learns from a history.
ReadFrom(q, read) ==
    /\ q.served_history = read
    /\ q.served_ids = RecentlyServedIds(read, q.request_time)
    /\ q.wtf_eligible = IsModuleEligible(read, "who_to_follow", q.request_time)

(* ---------- Powers -------------------------------------------------------- *)

\* Powers are numbers, and none is zero but of zero.
LEMMA PowerType ==
    ASSUME NEW base \in Nat, NEW exponent \in Nat
    PROVE  /\ Power(base, exponent) \in Nat
           /\ base # 0 => Power(base, exponent) # 0
<1> DEFINE V == {t \in Nat : base # 0 => t # 0}
           times == [p \in (1 .. exponent) \X V |-> base * p[2]]
           power[n \in 0..exponent] == IF n = 0 THEN 1 ELSE base * power[n - 1]
<1>1. \A t \in V : base * t \in V
  OBVIOUS
<1>2. Steps(V, exponent, 1, times)
  BY <1>1 DEF Steps
<1> HIDE DEF V
<1> HIDE DEF times
<1>3. PICK f : Runs(f, V, exponent, 1, times)
  BY <1>2, Iterates
<1>4. \A k \in 1 .. exponent : f[k] = base * f[k - 1]
  <2> SUFFICES ASSUME NEW k \in 1 .. exponent PROVE f[k] = base * f[k - 1]
    OBVIOUS
  <2>1. f[k - 1] \in V
    BY <1>3 DEF Runs
  <2>2. <<k, f[k - 1]>> \in (1 .. exponent) \X V
    BY <2>1
  <2>3. times[<<k, f[k - 1]>>] = base * <<k, f[k - 1]>>[2]
    BY <2>2 DEF times
  <2> QED BY <1>3, <2>3 DEF Runs
<1>5. f = [n \in 0..exponent |-> IF n = 0 THEN 1 ELSE base * f[n - 1]]
  BY <1>3, <1>4 DEF Runs
<1>6. power = [n \in 0..exponent |-> IF n = 0 THEN 1 ELSE base * power[n - 1]]
  BY <1>5
<1>7. Power(base, exponent) = power[exponent]
  BY DEF Power
<1> HIDE DEF power
<1>8. power[0] = 1 /\ \A k \in 1 .. exponent : power[k] = base * power[k - 1]
  BY <1>6
<1>9. \A k \in 0 .. exponent : power[k] \in V
  BY <1>1, <1>2, <1>8, StaysIn DEF Steps
<1> QED BY <1>7, <1>9 DEF V

(* ---------- Filters ----------------------------------------------------- *)

\* What a filter keeps and what it removes.
Sifted(f, T) == f = [kept |-> f.kept, removed |-> f.removed] /\ f.kept \in Seq(T) /\ f.removed \in Seq(T)

\* A filter that judges candidates by themselves sifts.
LEMMA Partitioned ==
    ASSUME NEW T, NEW cs \in Seq(T), NEW places, places \subseteq DOMAIN cs
    PROVE  Sifted(Partition(cs, places), T)
<1>1. PickAt(cs, places) \in Seq(T)
  BY Picked
<1>2. PickAt(cs, DOMAIN cs \ places) \in Seq(T)
  <2> DEFINE rest == DOMAIN cs \ places
  <2>1. rest \subseteq DOMAIN cs
    OBVIOUS
  <2> HIDE DEF rest
  <2>2. PickAt(cs, rest) \in Seq(T)
    BY <2>1, Picked
  <2> QED BY <2>2 DEF rest
<1> QED BY <1>1, <1>2 DEF Partition, Sifted

\* What the filter of conversations makes of the next candidate.
See(acc, c) ==
    LET at == {i \in 1..Len(acc.kept) : ConversationId(acc.kept[i]) = ConversationId(c)}
        i  == CHOOSE j \in at : TRUE
    IN  IF at = {} THEN [acc EXCEPT !.kept = Append(@, c)]
        ELSE IF Outranks(c, acc.kept[i])
        THEN [kept |-> [acc.kept EXCEPT ![i] = c],
              removed |-> Append(acc.removed, acc.kept[i])]
        ELSE [acc EXCEPT !.removed = Append(@, c)]

Sees(seen, cs, T) ==
    /\ seen[0] = KeepAll(<<>>)
    /\ \A k \in 1 .. Len(cs) : seen[k] = See(seen[k - 1], cs[k])
    /\ \A k \in 0 .. Len(cs) : seen[k] \in [kept : Seq(T), removed : Seq(T)]
    /\ DedupConversation(cs) = seen[Len(cs)]

\* It keeps the best of a conversation along all candidates, and sifts them.
LEMMA DedupSteps ==
    ASSUME NEW T, NEW cs \in Seq(T)
    PROVE  \E seen : Sees(seen, cs, T)
<1> DEFINE n == Len(cs)
           A == [kept : Seq(T), removed : Seq(T)]
           seeing == [p \in (1 .. n) \X A |-> See(p[2], cs[p[1]])]
           seen[k \in 0..n] == IF k = 0 THEN KeepAll(<<>>) ELSE See(seen[k - 1], cs[k])
<1>1. n \in Nat /\ \A i \in 1 .. n : cs[i] \in T
  OBVIOUS
<1>2. DedupConversation(cs) = seen[n]
  BY DEF DedupConversation, See
<1>3. ASSUME NEW acc \in A, NEW c \in T PROVE See(acc, c) \in A
  <2> DEFINE at == {i \in 1..Len(acc.kept) : ConversationId(acc.kept[i]) = ConversationId(c)}
             i == CHOOSE j \in at : TRUE
  <2>1. acc.kept \in Seq(T) /\ acc.removed \in Seq(T)
    OBVIOUS
  <2>2. at # {} => i \in 1 .. Len(acc.kept)
    OBVIOUS
  <2>3. See(acc, c) = IF at = {} THEN [acc EXCEPT !.kept = Append(@, c)]
                      ELSE IF Outranks(c, acc.kept[i])
                      THEN [kept |-> [acc.kept EXCEPT ![i] = c],
                            removed |-> Append(acc.removed, acc.kept[i])]
                      ELSE [acc EXCEPT !.removed = Append(@, c)]
    BY DEF See
  <2> HIDE DEF at, i
  <2>4. [acc EXCEPT !.kept = Append(@, c)] \in A /\ [acc EXCEPT !.removed = Append(@, c)] \in A
    <3>1. Append(acc.kept, c) \in Seq(T) /\ Append(acc.removed, c) \in Seq(T)
      BY <2>1
    <3>2. acc \in [kept : Seq(T), removed : Seq(T)]
      OBVIOUS
    <3> QED BY <3>1, <3>2
  <2>5. at # {} => [kept |-> [acc.kept EXCEPT ![i] = c],
                    removed |-> Append(acc.removed, acc.kept[i])] \in A
    <3> SUFFICES ASSUME at # {} PROVE /\ [acc.kept EXCEPT ![i] = c] \in Seq(T)
                                      /\ Append(acc.removed, acc.kept[i]) \in Seq(T)
      OBVIOUS
    <3>1. acc.kept[i] \in T
      BY <2>1, <2>2
    <3> QED BY <2>1, <2>2, <3>1
  <2> QED BY <2>3, <2>4, <2>5
<1>4. KeepAll(<<>>) \in A
  BY DEF KeepAll
<1> HIDE DEF n, A
<1>5. Steps(A, n, KeepAll(<<>>), seeing)
  BY <1>1, <1>3, <1>4 DEF Steps
<1> HIDE DEF seeing
<1>6. PICK f : Runs(f, A, n, KeepAll(<<>>), seeing)
  BY <1>5, Iterates
<1>7. \A k \in 1 .. n : f[k] = See(f[k - 1], cs[k])
  <2> SUFFICES ASSUME NEW k \in 1 .. n PROVE f[k] = See(f[k - 1], cs[k])
    OBVIOUS
  <2>1. f[k - 1] \in A
    BY <1>1, <1>6 DEF Runs
  <2>2. <<k, f[k - 1]>> \in (1 .. n) \X A
    BY <2>1
  <2>3. seeing[<<k, f[k - 1]>>] = See(f[k - 1], cs[k])
    BY <2>2 DEF seeing
  <2> QED BY <1>6, <2>3 DEF Runs
<1>8. f = [k \in 0..n |-> IF k = 0 THEN KeepAll(<<>>) ELSE See(f[k - 1], cs[k])]
  BY <1>6, <1>7 DEF Runs
<1>9. seen = [k \in 0..n |-> IF k = 0 THEN KeepAll(<<>>) ELSE See(seen[k - 1], cs[k])]
  BY <1>8
<1> HIDE DEF seen
<1>10. seen[0] = KeepAll(<<>>) /\ \A k \in 1 .. n : seen[k] = See(seen[k - 1], cs[k])
  BY <1>1, <1>9
<1>11. \A k \in 0 .. n : seen[k] \in A
  BY <1>1, <1>3, <1>4, <1>10, StaysIn
<1> QED BY <1>2, <1>10, <1>11 DEF A, n, Sees

\* So it sifts.
LEMMA Deduplicated ==
    ASSUME NEW T, NEW cs \in Seq(T)
    PROVE  Sifted(DedupConversation(cs), T)
<1>1. PICK seen : Sees(seen, cs, T)
  BY DedupSteps
<1>2. DedupConversation(cs) \in [kept : Seq(T), removed : Seq(T)]
  BY <1>1 DEF Sees
<1> QED BY <1>2 DEF Sifted

\* A filter, enabled or not, sifts.
LEMMA FilterSifts ==
    ASSUME NEW q, NEW time, NEW filter, NEW T, NEW cs \in Seq(T)
    PROVE  Sifted(RunFilter(q, time, filter, cs), T)
<1>1. Sifted(KeepAll(cs), T)
  BY DEF Sifted, KeepAll
<1>2. \A keys : Sifted(FirstOfEach(cs, keys), T)
  <2> SUFFICES ASSUME NEW keys PROVE Sifted(FirstOfEach(cs, keys), T)
    OBVIOUS
  <2> DEFINE places == {i \in DOMAIN cs : \A j \in 1..i - 1 : keys[j] # keys[i]}
  <2>1. places \subseteq DOMAIN cs
    OBVIOUS
  <2>2. FirstOfEach(cs, keys) = Partition(cs, places)
    BY DEF FirstOfEach
  <2> HIDE DEF places
  <2> QED BY <2>1, <2>2, Partitioned
<1>3. Sifted(TopicIdsFilter(q, cs), T)
  <2> DEFINE asking == {i \in DOMAIN cs : IF IsBulkTopicRequest(q)
                                          THEN BulkTopicKept(q, cs[i])
                                          ELSE TopicKept(q, cs[i])}
             asked == IF ~IsTopicRequest(q) THEN KeepAll(cs) ELSE Partition(cs, asking)
             places == {i \in DOMAIN asked.kept : SnoozedKept(q, asked.kept[i])}
             snoozed == Partition(asked.kept, places)
  <2>1. TopicIdsFilter(q, cs) = IF ~HasExcludedTopics(q) THEN asked
            ELSE [kept |-> snoozed.kept, removed |-> asked.removed \o snoozed.removed]
    BY DEF TopicIdsFilter
  <2>2. Sifted(asked, T)
    <3>1. asking \subseteq DOMAIN cs
      OBVIOUS
    <3> HIDE DEF asking
    <3> QED BY <1>1, <3>1, Partitioned
  <2> HIDE DEF asked
  <2>3. Sifted(snoozed, T)
    <3>1. places \subseteq DOMAIN asked.kept /\ asked.kept \in Seq(T)
      BY <2>2 DEF Sifted
    <3> HIDE DEF places
    <3> QED BY <3>1, Partitioned
  <2> HIDE DEF snoozed
  <2>4. asked.removed \o snoozed.removed \in Seq(T) /\ snoozed.kept \in Seq(T)
    BY <2>2, <2>3 DEF Sifted
  <2>5. \A kept, removed \in Seq(T) : Sifted([kept |-> kept, removed |-> removed], T)
    BY DEF Sifted
  <2>6. Sifted([kept |-> snoozed.kept, removed |-> asked.removed \o snoozed.removed], T)
    BY <2>4, <2>5
  <2> QED BY <2>1, <2>2, <2>6
<1>4. Sifted(Partition(cs, {i \in DOMAIN cs : Keeps(q, time, filter, cs[i])}), T)
  <2> DEFINE places == {i \in DOMAIN cs : Keeps(q, time, filter, cs[i])}
  <2>1. places \subseteq DOMAIN cs
    OBVIOUS
  <2> HIDE DEF places
  <2>2. Sifted(Partition(cs, places), T)
    BY <2>1, Partitioned
  <2> QED BY <2>2 DEF places
<1>5. Sifted(DropDuplicates(cs), T) /\ Sifted(RetweetDeduplication(cs), T)
  BY <1>2 DEF DropDuplicates, RetweetDeduplication
<1>6. Sifted(DedupConversation(cs), T)
  BY Deduplicated
<1> QED BY <1>1, <1>3, <1>4, <1>5, <1>6 DEF RunFilter

\* Each filter of a row gets what those before it kept.
Pass(q, time, acc, filter) ==
    [RunFilter(q, time, filter, acc.kept) EXCEPT !.removed = acc.removed \o @]

Passes(passed, q, time, filters, cs, T) ==
    /\ passed[0] = KeepAll(cs)
    /\ \A k \in 1 .. Len(filters) : passed[k] = Pass(q, time, passed[k - 1], filters[k])
    /\ \A k \in 0 .. Len(filters) : passed[k] \in [kept : Seq(T), removed : Seq(T)]
    /\ RunFilters(q, time, filters, cs) = passed[Len(filters)]

\* A pass over the filters is one filter after the other.
LEMMA FilterSteps ==
    ASSUME NEW q, NEW time, NEW filters, Len(filters) \in Nat, NEW T, NEW cs \in Seq(T)
    PROVE  \E passed : Passes(passed, q, time, filters, cs, T)
<1> DEFINE n == Len(filters)
           A == [kept : Seq(T), removed : Seq(T)]
           passing == [p \in (1 .. n) \X A |-> Pass(q, time, p[2], filters[p[1]])]
           passed[k \in 0..n] == IF k = 0 THEN KeepAll(cs) ELSE Pass(q, time, passed[k - 1], filters[k])
<1>1. RunFilters(q, time, filters, cs) = passed[n]
  BY DEF RunFilters, Pass
<1>2. n \in Nat
  OBVIOUS
<1>3. ASSUME NEW acc \in A, NEW filter PROVE Pass(q, time, acc, filter) \in A
  <2> DEFINE ran == RunFilter(q, time, filter, acc.kept)
  <2>1. acc.kept \in Seq(T) /\ acc.removed \in Seq(T)
    OBVIOUS
  <2>2. Sifted(ran, T)
    BY <2>1, FilterSifts
  <2> HIDE DEF ran
  <2>3. [ran EXCEPT !.removed = acc.removed \o @] \in A
    <3>1. ran \in A
      BY <2>2 DEF Sifted
    <3>2. acc.removed \o ran.removed \in Seq(T)
      BY <2>1, <3>1
    <3> QED BY <3>1, <3>2
  <2> QED BY <2>3 DEF ran, Pass
<1>4. KeepAll(cs) \in A
  BY DEF KeepAll
<1> HIDE DEF n, A
<1>5. Steps(A, n, KeepAll(cs), passing)
  BY <1>2, <1>3, <1>4 DEF Steps
<1> HIDE DEF passing
<1>6. PICK f : Runs(f, A, n, KeepAll(cs), passing)
  BY <1>5, Iterates
<1>7. \A k \in 1 .. n : f[k] = Pass(q, time, f[k - 1], filters[k])
  <2> SUFFICES ASSUME NEW k \in 1 .. n PROVE f[k] = Pass(q, time, f[k - 1], filters[k])
    OBVIOUS
  <2>1. f[k - 1] \in A
    BY <1>2, <1>6 DEF Runs
  <2>2. <<k, f[k - 1]>> \in (1 .. n) \X A
    BY <2>1
  <2>3. passing[<<k, f[k - 1]>>] = Pass(q, time, f[k - 1], filters[k])
    BY <2>2 DEF passing
  <2> QED BY <1>6, <2>3 DEF Runs
<1>8. f = [k \in 0..n |-> IF k = 0 THEN KeepAll(cs) ELSE Pass(q, time, f[k - 1], filters[k])]
  BY <1>6, <1>7 DEF Runs
<1>9. passed = [k \in 0..n |-> IF k = 0 THEN KeepAll(cs) ELSE Pass(q, time, passed[k - 1], filters[k])]
  BY <1>8
<1> HIDE DEF passed
<1>10. passed[0] = KeepAll(cs) /\ \A k \in 1 .. n : passed[k] = Pass(q, time, passed[k - 1], filters[k])
  BY <1>2, <1>9
<1>11. \A k \in 0 .. n : passed[k] \in A
  BY <1>2, <1>3, <1>4, <1>10, StaysIn
<1> QED BY <1>1, <1>10, <1>11 DEF A, n, Passes

\* So a row of filters sifts.
LEMMA FiltersSift ==
    ASSUME NEW q, NEW time, NEW filters, Len(filters) \in Nat, NEW T, NEW cs \in Seq(T)
    PROVE  Sifted(RunFilters(q, time, filters, cs), T)
<1>1. Len(filters) \in 0 .. Len(filters)
  OBVIOUS
<1>2. PICK passed : Passes(passed, q, time, filters, cs, T)
  BY FilterSteps
<1>3. RunFilters(q, time, filters, cs) \in [kept : Seq(T), removed : Seq(T)]
  BY <1>1, <1>2 DEF Passes
<1> QED BY <1>3 DEF Sifted

(* ---------- Candidates through hydrators, sources, scorers and selectors  *)

Maybe(S) == {None} \cup {Some(v) : v \in S}

Candidate(prediction, c) ==
    /\ DOMAIN c = DOMAIN NoCandidate
    /\ c.tweet_id \in DOMAIN World.posts /\ c.retweeted_id \in Maybe(DOMAIN World.posts)
    /\ c.phoenix_score \in Maybe(Int) /\ c.weighted \in Maybe(Int) /\ c.score \in Maybe(Int)
    /\ c.prediction \in {None, Some(prediction)}

Candidates(prediction, s) == \A i \in 1 .. Len(s) : Candidate(prediction, s[i])

\* What a hydrator of candidates may answer: it names no other post and scores nothing.
Harmless(e) ==
    /\ DOMAIN e \cap {"tweet_id", "phoenix_score", "weighted", "score", "prediction"} = {}
    /\ "retweeted_id" \in DOMAIN e => e.retweeted_id \in Maybe(DOMAIN World.posts)

Answering(results, n) == \A i \in 1 .. n : Harmless(Get(results[i], <<>>))

HarmlessCache(cache) == \A k \in DOMAIN cache : Harmless(cache[k])

\* Part of a list is as good as the list.
LEMMA PartOf ==
    ASSUME NEW s, NEW part \in Seq(Range1(s)), NEW p
    PROVE  /\ Listed(part) /\ Range1(part) \subseteq Range1(s)
           /\ Candidates(p, s) => Candidates(p, part)
<1>1. Listed(part) /\ Range1(part) \subseteq Range1(s)
  BY ListOf
<1>2. \A i \in 1 .. Len(part) : part[i] \in Range1(part)
  BY DEF Range1
<1>3. \A c \in Range1(s) : \E i \in 1 .. Len(s) : c = s[i]
  BY DEF Range1
<1> QED BY <1>1, <1>2, <1>3 DEF Candidates

\* Two lists joined are as good as both.
LEMMA Joined ==
    ASSUME NEW s, NEW t, Listed(s), Listed(t), NEW p
    PROVE  /\ Listed(s \o t) /\ Range1(s \o t) = Range1(s) \cup Range1(t)
           /\ Candidates(p, s) /\ Candidates(p, t) => Candidates(p, s \o t)
<1> DEFINE T == Range1(s) \cup Range1(t)
<1>1. s \in Seq(T) /\ t \in Seq(T)
  BY DEF Listed
<1> HIDE DEF T
<1>2. Len(s) \in Nat /\ Len(t) \in Nat /\ s \o t \in Seq(T) /\ Len(s \o t) = Len(s) + Len(t)
  BY <1>1
<1>3. \A i \in 1 .. Len(s) : (s \o t)[i] = s[i]
  BY <1>1
<1>4. \A i \in Len(s) + 1 .. Len(s) + Len(t) : (s \o t)[i] = t[i - Len(s)] /\ i - Len(s) \in 1 .. Len(t)
  BY <1>1, <1>2
<1>5. \A i \in 1 .. Len(s \o t) : i \in 1 .. Len(s) \/ i \in Len(s) + 1 .. Len(s) + Len(t)
  BY <1>2
<1>6. \A i \in 1 .. Len(s) : i \in 1 .. Len(s \o t)
  BY <1>2
<1>7. \A i \in 1 .. Len(t) : i + Len(s) \in 1 .. Len(s \o t) /\ (s \o t)[i + Len(s)] = t[i]
  BY <1>2, <1>4
<1>8. Range1(s \o t) = Range1(s) \cup Range1(t)
  <2>1. Range1(s \o t) \subseteq Range1(s) \cup Range1(t)
    BY <1>3, <1>4, <1>5 DEF Range1
  <2>2. Range1(s) \subseteq Range1(s \o t)
    BY <1>3, <1>6 DEF Range1
  <2>3. Range1(t) \subseteq Range1(s \o t)
    BY <1>7 DEF Range1
  <2> QED BY <2>1, <2>2, <2>3
<1>9. Candidates(p, s) /\ Candidates(p, t) => Candidates(p, s \o t)
  BY <1>3, <1>4, <1>5 DEF Candidates
<1> QED BY <1>2, <1>8, <1>9, ListOf

\* The fields these proofs are about are fields of every candidate.
LEMMA FieldsOfACandidate ==
    {"tweet_id", "retweeted_id", "phoenix_score", "weighted", "score", "prediction"}
        \subseteq DOMAIN NoCandidate
BY DEF NoCandidate

\* Candidates of the same posts with the same scores, in the same order.
Spared(s, t) ==
    /\ Len(t) = Len(s)
    /\ \A i \in 1 .. Len(s) : t[i].tweet_id = s[i].tweet_id /\ t[i].score = s[i].score

\* A candidate stays its owner's when harmless answers are merged into it.
LEMMA MergingKeeps ==
    ASSUME NEW p, NEW c, Candidate(p, c), NEW answers,
           DOMAIN answers \subseteq Int, IsFiniteSet(DOMAIN answers),
           \A i \in DOMAIN answers : Harmless(Get(answers[i], <<>>))
    PROVE  /\ Candidate(p, Merged(c, answers))
           /\ Merged(c, answers).tweet_id = c.tweet_id /\ Merged(c, answers).score = c.score
<1> DEFINE m == Merged(c, answers)
           Scored == {"tweet_id", "phoenix_score", "weighted", "score", "prediction"}
<1>1. DOMAIN c = DOMAIN NoCandidate /\ Scored \cup {"retweeted_id"} \subseteq DOMAIN c
  BY FieldsOfACandidate DEF Candidate
<1>2. \A f \in Scored : m[f] = c[f]
  <2> SUFFICES ASSUME NEW f \in Scored PROVE m[f] = c[f]
    OBVIOUS
  <2>1. \A i \in DOMAIN answers : f \notin DOMAIN Get(answers[i], <<>>)
    BY DEF Harmless
  <2>2. f \in DOMAIN c
    BY <1>1
  <2> QED BY <2>1, <2>2, MergedField
<1>3. m.retweeted_id \in Maybe(DOMAIN World.posts)
  <2>1. \/ m.retweeted_id = c.retweeted_id
        \/ \E i \in DOMAIN answers : /\ "retweeted_id" \in DOMAIN Get(answers[i], <<>>)
                                     /\ m.retweeted_id = Get(answers[i], <<>>).retweeted_id
    BY <1>1, MergedField
  <2> QED BY <2>1 DEF Harmless, Candidate
<1>4. DOMAIN m = DOMAIN c
  BY <1>1, MergedField
<1> HIDE DEF m
<1> QED BY <1>1, <1>2, <1>3, <1>4 DEF Candidate, m

\* So do all candidates when every hydrator answers harmlessly.
LEMMA HydratorsKeep ==
    ASSUME NEW cs, Listed(cs), NEW answers, NEW n \in Nat, DOMAIN answers = 1 .. n, Len(answers) = n,
           \A a \in 1 .. n : Answering(answers[a], Len(cs)), NEW p
    PROVE  /\ Listed(RunHydrators(cs, answers))
           /\ Candidates(p, cs) => /\ Candidates(p, RunHydrators(cs, answers))
                                   /\ Spared(cs, RunHydrators(cs, answers))
<1> DEFINE of(i) == MapSeq(answers, LAMBDA results : results[i])
           ran == RunHydrators(cs, answers)
<1>1. Len(cs) \in Nat
  BY DEF Listed
<1>2. ran = [i \in 1 .. Len(cs) |-> Merged(cs[i], of(i))]
  BY DEF RunHydrators
<1>3. \A i : of(i) = [a \in 1 .. n |-> answers[a][i]]
  BY DEF MapSeq
<1>4. IsFiniteSet(1 .. n) /\ 1 .. n \subseteq Int
  <2>1. IsFiniteSet(1 .. n)
    BY FS_Interval
  <2> QED BY <2>1
<1> HIDE DEF of, ran
<1>5. Listed(ran) /\ Len(ran) = Len(cs)
  <2>1. ran \in [1 .. Len(cs) -> {ran[i] : i \in 1 .. Len(cs)}]
    BY <1>2
  <2>2. ran \in Seq({ran[i] : i \in 1 .. Len(cs)}) /\ Len(ran) = Len(cs)
    BY <1>1, <2>1, AsSequence
  <2> QED BY <2>2 DEF Listed, Range1
<1>6. ASSUME Candidates(p, cs), NEW i \in 1 .. Len(cs)
      PROVE  Candidate(p, ran[i]) /\ ran[i].tweet_id = cs[i].tweet_id /\ ran[i].score = cs[i].score
  <2>1. DOMAIN of(i) = 1 .. n /\ \A a \in 1 .. n : of(i)[a] = answers[a][i]
    BY <1>3
  <2>2. \A a \in DOMAIN of(i) : Harmless(Get(of(i)[a], <<>>))
    BY <2>1 DEF Answering
  <2>3. Candidate(p, cs[i])
    BY <1>6 DEF Candidates
  <2>4. /\ Candidate(p, Merged(cs[i], of(i)))
        /\ Merged(cs[i], of(i)).tweet_id = cs[i].tweet_id /\ Merged(cs[i], of(i)).score = cs[i].score
    BY <1>4, <2>1, <2>2, <2>3, MergingKeeps
  <2> QED BY <1>2, <2>4
<1> QED BY <1>5, <1>6 DEF Candidates, Spared, ran

(* What the hydrators answer *)

\* A post that is no retweet names no source, and any other names a post.
LEMMA NonZeroPost ==
    ASSUME NEW id \in DOMAIN World.posts
    PROVE  NonZero(Post(id).source) \in Maybe(DOMAIN World.posts)
BY WorldAssumption DEF NonZero, Post, Maybe

\* The answers of the hydrators are harmless, field by field,
LEMMA HarmlessRecords ==
    /\ Harmless(<<>>)
    /\ \A v : Harmless([in_network |-> v])
    /\ \A v : Harmless([blocks_viewer |-> v])
    /\ \A v : Harmless([subscription |-> v])
    /\ \A v : Harmless([video |-> v])
    /\ \A v : Harmless([verdict |-> v])
    /\ \A v : Harmless([replied |-> v])
    /\ \A v, w : Harmless([quoted_id |-> v, quoted_user |-> w])
    /\ \A v, w : Harmless([quoted_blocks_viewer |-> v, quoted_video |-> w])
    /\ \A v, w : Harmless([topics |-> v, unfiltered |-> w])
    /\ \A v, w : Harmless([visibility |-> v, drop_ancillary |-> w])
    /\ \A v, w, x, y : x \in Maybe(DOMAIN World.posts)
          => Harmless([tweet_text |-> v, in_reply_to |-> w, retweeted_id |-> x, retweeted_user |-> y])
<1>1. DOMAIN <<>> = {}
  OBVIOUS
<1>2. Harmless(<<>>)
  BY <1>1 DEF Harmless
<1> QED BY <1>2 DEF Harmless

\* and so are they when a component may have failed,
LEMMA HarmlessAnswers ==
    /\ Harmless(Get(None, <<>>))
    /\ \A e : Harmless(e) => Harmless(Get(Some(e), <<>>))
    /\ \A v : Harmless(Get(Some([in_network |-> v]), <<>>))
    /\ \A v : Harmless(Get(Some([blocks_viewer |-> v]), <<>>))
    /\ \A v : Harmless(Get(Some([subscription |-> v]), <<>>))
    /\ \A v : Harmless(Get(Some([video |-> v]), <<>>))
    /\ \A v : Harmless(Get(Some([verdict |-> v]), <<>>))
    /\ \A v : Harmless(Get(Some([replied |-> v]), <<>>))
    /\ \A v, w : Harmless(Get(Some([topics |-> v, unfiltered |-> w]), <<>>))
    /\ \A v, w : Harmless(Get(Some([visibility |-> v, drop_ancillary |-> w]), <<>>))
<1>1. Harmless(Get(None, <<>>)) /\ \A e : Harmless(e) => Harmless(Get(Some(e), <<>>))
  BY Gets, HarmlessRecords
<1> QED BY <1>1, HarmlessRecords

\* and so is one harmless answer over another.
LEMMA HarmlessOver ==
    ASSUME NEW e, NEW f, Harmless(e), Harmless(f)
    PROVE  Harmless(Over(e, f))
<1>1. DOMAIN Over(e, f) = DOMAIN e \cup DOMAIN f
  BY DEF Over
<1>2. "retweeted_id" \in DOMAIN Over(e, f)
         => Over(e, f).retweeted_id = IF "retweeted_id" \in DOMAIN e THEN e.retweeted_id ELSE f.retweeted_id
  BY DEF Over
<1> QED BY <1>1, <1>2 DEF Harmless

\* A hydrator that answers each candidate with something harmless, or not.
LEMMA EachHarmless ==
    ASSUME NEW enabled, NEW n \in Nat, NEW answers, DOMAIN answers = 1 .. n,
           \A i \in 1 .. n : Harmless(Get(answers[i], <<>>))
    PROVE  Answering(HydrateEach(enabled, answers), n)
BY Gets, HarmlessRecords DEF HydrateEach, Answering

\* A cached hydrator answers with what the client answers or the cache holds,
\* and puts into the cache what the client answers.
FoundOrAsked(h, n, found, client) ==
    /\ \A i \in 1 .. n : \/ Get(h.results[i], <<>>) \in {<<>>, Get(client[i], <<>>)}
                        \/ \E k \in DOMAIN found : Get(h.results[i], <<>>) = found[k]
    /\ \A k \in DOMAIN h.inserts : \E i \in 1 .. n : h.inserts[k] = Get(client[i], <<>>)

\* What a cached hydrator answers is in its cache or comes from the client.
LEMMA CachedAnswers ==
    ASSUME NEW enabled, NEW n \in Nat, NEW found, NEW keys, DOMAIN keys = 1 .. n, NEW client
    PROVE  FoundOrAsked(CachedHydrate(enabled, found, keys, client), n, found, client)
<1> DEFINE missed == {i \in DOMAIN keys : enabled /\ keys[i] \notin DOMAIN found}
           fetched == {i \in missed : client[i] # None}
           LastOf(k) == CHOOSE i \in fetched :
                           keys[i] = k /\ \A j \in fetched : keys[j] = k => j <= i
           answers == [i \in DOMAIN keys |-> IF keys[i] \in DOMAIN found THEN Some(found[keys[i]])
                                             ELSE client[i]]
           inserts == [k \in {keys[i] : i \in fetched} |-> Get(client[LastOf(k)], <<>>)]
           h == CachedHydrate(enabled, found, keys, client)
<1>1. h.results = HydrateEach(enabled, answers) /\ h.inserts = inserts
  BY DEF CachedHydrate
<1>2. ASSUME NEW i \in 1 .. n
      PROVE  LET e == Get(HydrateEach(enabled, answers)[i], <<>>)
             IN  e \in {<<>>, Get(client[i], <<>>)} \/ \E k \in DOMAIN found : e = found[k]
  <2> DEFINE e == Get(HydrateEach(enabled, answers)[i], <<>>)
  <2>1. HydrateEach(enabled, answers)[i] = IF enabled THEN answers[i] ELSE None
    BY DEF HydrateEach
  <2>2. answers[i] = IF keys[i] \in DOMAIN found THEN Some(found[keys[i]]) ELSE client[i]
    OBVIOUS
  <2> HIDE DEF answers
  <2>3. e = <<>> \/ e = Get(client[i], <<>>) \/ (keys[i] \in DOMAIN found /\ e = found[keys[i]])
    BY <2>1, <2>2, Gets
  <2> HIDE DEF e
  <2>4. e \in {<<>>, Get(client[i], <<>>)} \/ \E k \in DOMAIN found : e = found[k]
    BY <2>3
  <2> QED BY <2>4 DEF e
<1>3. fetched \subseteq 1 .. n /\ IsFiniteSet(1 .. n)
  BY FS_Interval
<1> HIDE DEF fetched
<1>4. ASSUME NEW k \in {keys[i] : i \in fetched} PROVE LastOf(k) \in fetched
  <2> DEFINE S == {i \in fetched : keys[i] = k}
  <2>1. S # {} /\ S \subseteq 1 .. n
    BY <1>3, <1>4
  <2>2. IsFiniteSet(S) /\ S \subseteq Int
    <3>1. 1 .. n \subseteq Int
      OBVIOUS
    <3> QED BY <1>3, <2>1, <3>1, FS_Subset
  <2>3. Max(S) \in S /\ \A j \in S : Max(S) >= j
    <3> HIDE DEF S
    <3> QED BY <2>1, <2>2, Largest
  <2>4. \A j \in S : j <= Max(S)
    BY <2>2, <2>3
  <2>5. \E i \in fetched : keys[i] = k /\ \A j \in fetched : keys[j] = k => j <= i
    BY <2>3, <2>4
  <2> QED BY <2>5
<1>5. \A k \in DOMAIN inserts : \E i \in 1 .. n : inserts[k] = Get(client[i], <<>>)
  BY <1>3, <1>4
<1> HIDE DEF answers, inserts, h
<1> QED BY <1>1, <1>2, <1>5 DEF h, FoundOrAsked

\* A cached hydrator answers harmlessly and caches nothing else, if its client and
\* its cache are harmless.
LEMMA CachedHarmless ==
    ASSUME NEW enabled, NEW n \in Nat, NEW found, HarmlessCache(found),
           NEW keys, DOMAIN keys = 1 .. n,
           NEW client, Answering(client, n)
    PROVE  LET h == CachedHydrate(enabled, found, keys, client)
           IN  Answering(h.results, n) /\ HarmlessCache(h.inserts)
<1> DEFINE h == CachedHydrate(enabled, found, keys, client)
<1>1. FoundOrAsked(h, n, found, client)
  BY CachedAnswers
<1>2. Harmless(<<>>)
  BY HarmlessRecords
<1> HIDE DEF h
<1>3. Answering(h.results, n)
  BY <1>1, <1>2 DEF Answering, HarmlessCache, FoundOrAsked
<1>4. HarmlessCache(h.inserts)
  BY <1>1 DEF Answering, HarmlessCache, FoundOrAsked
<1> QED BY <1>3, <1>4 DEF h

\* The hydrators before the filters leave every candidate its owner's, and put
\* only harmless answers into the caches.
LEMMA StageAnswers ==
    ASSUME NEW q, NEW faults, NEW cs, Listed(cs), NEW cached, DOMAIN cached = CacheNames,
           \A n \in CacheNames \ {"brand"} : HarmlessCache(cached[n]), NEW p
    PROVE  LET h == HydrateCandidates(q, faults, cs, cached)
           IN  /\ Listed(h.candidates)
               /\ Candidates(p, cs) => Candidates(p, h.candidates) /\ Spared(cs, h.candidates)
               /\ DOMAIN h.inserts = CacheNames
               /\ \A n \in CacheNames : HarmlessCache(h.inserts[n])
               /\ h.inserts.brand = <<>>
<1> DEFINE n == Len(cs)
           core == CoreDataHydrator(q, faults, cs, cached.core)
           quote == QuoteHydrator(q, faults, cs, cached.quote)
           video == VideoDurationHydrator(q, faults, cs, cached.video)
           subs == SubscriptionHydrator(q, faults, cs, cached.subscription)
           network == InNetworkHydrator(q, cs)
           blocked == BlockedByHydrator(q, faults, cs)
           topics == FilteredTopicsHydrator(q, faults, cs)
           answers == <<network, core.results, quote.results, video.results, subs.results, blocked, topics>>
           h == HydrateCandidates(q, faults, cs, cached)
<1>1. n \in Nat
  BY DEF Listed
<1>2. /\ HarmlessCache(cached.core) /\ HarmlessCache(cached.quote)
      /\ HarmlessCache(cached.video) /\ HarmlessCache(cached.subscription)
  BY DEF CacheNames
<1>3. h.candidates = RunHydrators(cs, answers)
  BY DEF HydrateCandidates
<1>4. h.inserts = [core |-> core.inserts, quote |-> quote.inserts, video |-> video.inserts,
                   subscription |-> subs.inserts, brand |-> <<>>]
  BY DEF HydrateCandidates
<1>5. Answering(network, n)
  <2> DEFINE f == MapSeq(cs, LAMBDA c : Some([in_network |-> Some(c.author_id = Viewer \/ c.author_id \in q.followed)]))
  <2>1. DOMAIN f = 1 .. n /\ \A i \in 1 .. n : \E v : f[i] = Some([in_network |-> v])
    BY DEF MapSeq
  <2>2. network = HydrateEach(Fresh(q), f)
    BY DEF InNetworkHydrator
  <2> HIDE DEF f, network
  <2>3. \A i \in 1 .. n : Harmless(Get(f[i], <<>>))
    BY <2>1, HarmlessAnswers
  <2> QED BY <1>1, <2>1, <2>2, <2>3, EachHarmless
<1>6. Answering(blocked, n)
  <2> DEFINE f == MapSeq(cs, LAMBDA c : Answered(faults, "blocked_by", [blocks_viewer |-> Some(c.author_id \in World.blocks_viewer)]))
  <2>1. DOMAIN f = 1 .. n /\ \A i \in 1 .. n : f[i] = None \/ \E v : f[i] = Some([blocks_viewer |-> v])
    BY DEF MapSeq, Answered, AnsweredFor
  <2>2. blocked = HydrateEach(Fresh(q), f)
    BY DEF BlockedByHydrator
  <2> HIDE DEF f, blocked
  <2>3. \A i \in 1 .. n : Harmless(Get(f[i], <<>>))
    BY <2>1, HarmlessAnswers
  <2> QED BY <1>1, <2>1, <2>2, <2>3, EachHarmless
<1>7. Answering(topics, n)
  <2> DEFINE f == MapSeq(cs, LAMBDA c : Some(FilteredTopics(q, faults, c)))
             enabled == \/ IsTopicRequest(q) \/ HasExcludedTopics(q)
                        \/ q.params.new_user_filtering /\ HasNewUserTopicIds(q)
  <2>1. DOMAIN f = 1 .. n /\ \A i \in 1 .. n : \E v, w : f[i] = Some([topics |-> v, unfiltered |-> w])
    BY DEF MapSeq, FilteredTopics
  <2>2. topics = HydrateEach(enabled, f)
    BY DEF FilteredTopicsHydrator
  <2> HIDE DEF f, topics, enabled
  <2>3. \A i \in 1 .. n : Harmless(Get(f[i], <<>>))
    BY <2>1, HarmlessAnswers
  <2> QED BY <1>1, <2>1, <2>2, <2>3, EachHarmless
<1>8. DOMAIN TweetIds(cs) = 1 .. n /\ DOMAIN OriginalTweetIds(cs) = 1 .. n
      /\ Len(TweetIds(cs)) = n /\ Len(OriginalTweetIds(cs)) = n
  BY <1>1 DEF TweetIds, OriginalTweetIds, MapSeq
<1>9. Answering(core.results, n) /\ HarmlessCache(core.inserts)
  <2> DEFINE client == MapSeq(TweetIds(cs), LAMBDA id : AnsweredFor(faults, "tes_core", id, CoreData(id, faults)))
  <2>1. \A id : Harmless(CoreData(id, faults))
    <3> SUFFICES ASSUME NEW id PROVE Harmless(CoreData(id, faults))
      OBVIOUS
    <3>1. CASE Known(id) /\ ~Fails(faults, "tes_missing", id)
      <4>1. NonZero(Post(id).source) \in Maybe(DOMAIN World.posts)
        BY <3>1, NonZeroPost DEF Known
      <4> QED BY <3>1, <4>1, HarmlessRecords DEF CoreData
    <3>2. CASE ~(Known(id) /\ ~Fails(faults, "tes_missing", id))
      <4>1. None \in Maybe(DOMAIN World.posts)
        BY DEF Maybe
      <4>2. CoreData(id, faults) = [tweet_text |-> {}, in_reply_to |-> None, retweeted_id |-> None, retweeted_user |-> None]
        BY <3>2 DEF CoreData
      <4> QED BY <4>1, <4>2, HarmlessRecords
    <3> QED BY <3>1, <3>2
  <2>2. \A i \in 1 .. n : \E id : client[i] \in {None, Some(CoreData(id, faults))}
    BY <1>8 DEF MapSeq, AnsweredFor
  <2>3. core = CachedHydrate(Fresh(q), cached.core, TweetIds(cs), client)
    BY DEF CoreDataHydrator
  <2> HIDE DEF client, core
  <2>4. Answering(client, n)
    BY <2>1, <2>2, HarmlessAnswers DEF Answering
  <2> QED BY <1>1, <1>2, <1>8, <2>3, <2>4, CachedHarmless
<1>10. Answering(subs.results, n) /\ HarmlessCache(subs.inserts)
  <2> DEFINE client == MapSeq(TweetIds(cs), LAMBDA id :
                         AnsweredFor(faults, "tes_subscription", id, [subscription |-> NonZero(Post(id).subscription)]))
  <2>1. \A i \in 1 .. n : client[i] = None \/ \E v : client[i] = Some([subscription |-> v])
    BY <1>8 DEF MapSeq, AnsweredFor
  <2>2. subs = CachedHydrate(Fresh(q), cached.subscription, TweetIds(cs), client)
    BY DEF SubscriptionHydrator
  <2> HIDE DEF client, subs
  <2>3. Answering(client, n)
    BY <2>1, HarmlessAnswers DEF Answering
  <2> QED BY <1>1, <1>2, <1>8, <2>2, <2>3, CachedHarmless
<1>11. Answering(video.results, n) /\ HarmlessCache(video.inserts)
  <2> DEFINE client == MapSeq(OriginalTweetIds(cs), LAMBDA id :
                         AnsweredFor(faults, "tes_video", id, [video |-> NonZero(Post(id).video)]))
  <2>1. \A i \in 1 .. n : client[i] = None \/ \E v : client[i] = Some([video |-> v])
    BY <1>8 DEF MapSeq, AnsweredFor
  <2>2. video = CachedHydrate(Fresh(q), cached.video, OriginalTweetIds(cs), client)
    BY DEF VideoDurationHydrator
  <2> HIDE DEF client, video
  <2>3. Answering(client, n)
    BY <2>1, HarmlessAnswers DEF Answering
  <2> QED BY <1>1, <1>2, <1>8, <2>2, <2>3, CachedHarmless
<1>12. Answering(quote.results, n) /\ HarmlessCache(quote.inserts)
  <2> DEFINE found == cached.quote
             missed == {c.tweet_id : c \in Range1(cs)} \ DOMAIN found
             Of(id) == IF id \in missed THEN Quote(id, faults) ELSE found[id]
             Blocks(user) == user \in World.blocks_viewer /\ ~Fails(faults, "quoted_blocked_by", 0)
             Extra(c) == [quoted_blocks_viewer |-> Some(\E u \in Of(c.tweet_id).quoted_user : Blocks(u)),
                          quoted_video |-> UNION {QuotedVideo(q, faults, id) : id \in Of(c.tweet_id).quoted_id}]
             Answer(c) == Over(Extra(c), Of(c.tweet_id))
             f == [i \in 1 .. n |-> Some(Answer(cs[i]))]
  <2>1. quote.results = HydrateEach(Fresh(q), f)
    BY DEF QuoteHydrator, MapSeq
  <2>2. quote.inserts = [id \in IF Fresh(q) THEN missed ELSE {} |-> Quote(id, faults)]
    BY DEF QuoteHydrator
  <2>3. \A id : Harmless(Quote(id, faults))
    BY HarmlessRecords DEF Quote
  <2>4. \A c : Harmless(Extra(c))
    BY HarmlessRecords
  <2>5. \A i \in 1 .. n : Harmless(Of(cs[i].tweet_id))
    <3> SUFFICES ASSUME NEW i \in 1 .. n PROVE Harmless(Of(cs[i].tweet_id))
      OBVIOUS
    <3>1. cs[i].tweet_id \in missed \/ cs[i].tweet_id \in DOMAIN found
      BY DEF Range1
    <3> QED BY <1>2, <2>3, <3>1 DEF HarmlessCache
  <2> HIDE DEF Of, Extra, quote, missed
  <2>6. \A i \in 1 .. n : Harmless(Answer(cs[i]))
    BY <2>4, <2>5, HarmlessOver
  <2> HIDE DEF Answer
  <2>7. \A i \in 1 .. n : Harmless(Get(f[i], <<>>))
    BY <2>6, Gets
  <2>8. DOMAIN f = 1 .. n
    OBVIOUS
  <2> HIDE DEF f
  <2>9. Answering(quote.results, n)
    BY <1>1, <2>1, <2>7, <2>8, EachHarmless
  <2> QED BY <2>2, <2>3, <2>9 DEF HarmlessCache
<1> HIDE DEF core, quote, video, subs, network, blocked, topics, h
<1>13. /\ DOMAIN answers = 1 .. 7 /\ Len(answers) = 7 /\ 7 \in Nat
       /\ \A a \in 1 .. 7 : Answering(answers[a], n)
  BY <1>5, <1>6, <1>7, <1>9, <1>10, <1>11, <1>12
<1> HIDE DEF answers
<1>14. Listed(h.candidates) /\ (Candidates(p, cs) => Candidates(p, h.candidates) /\ Spared(cs, h.candidates))
  BY <1>3, <1>13, HydratorsKeep
<1>15. DOMAIN h.inserts = CacheNames /\ h.inserts.brand = <<>> /\ \A m \in CacheNames : HarmlessCache(h.inserts[m])
  <2>1. HarmlessCache(<<>>)
    BY DEF HarmlessCache
  <2> QED BY <1>4, <1>9, <1>10, <1>11, <1>12, <2>1 DEF CacheNames
<1> QED BY <1>14, <1>15 DEF h

\* The same of the hydrators behind the selection.
LEMMA PostSelectionAnswers ==
    ASSUME NEW q, NEW faults, NEW cs, Listed(cs), NEW cached, HarmlessCache(cached.brand), NEW p
    PROVE  LET h == HydratePostSelection(q, faults, cs, cached)
           IN  /\ Listed(h.candidates)
               /\ Candidates(p, cs) => Candidates(p, h.candidates) /\ Spared(cs, h.candidates)
               /\ DOMAIN h.inserts = CacheNames
               /\ \A n \in CacheNames : HarmlessCache(h.inserts[n])
<1> DEFINE n == Len(cs)
           brand == AdsBrandSafetyHydrator(q, faults, cs, cached.brand)
           visible == VFHydrator(faults, cs)
           brandVf == AdsBrandSafetyVfHydrator(q, faults, cs)
           replied == FollowingRepliedUsers(q, cs)
           answers == <<visible, brand.results, brandVf, replied>>
           h == HydratePostSelection(q, faults, cs, cached)
<1>1. n \in Nat
  BY DEF Listed
<1>2. /\ h.candidates = RunHydrators(cs, answers)
      /\ h.inserts = [m \in CacheNames |-> IF m = "brand" THEN brand.inserts ELSE <<>>]
  BY DEF HydratePostSelection
<1>3. Answering(visible, n)
  <2>1. \A i \in 1 .. n : \/ visible[i] = None
                          \/ \E v, w : visible[i] = Some([visibility |-> v, drop_ancillary |-> w])
    BY DEF VFHydrator, MapSeq
  <2> HIDE DEF visible
  <2> QED BY <2>1, HarmlessAnswers DEF Answering
<1>4. \A call, c : \/ BrandSafety(call, faults, c) = None
                   \/ \E v : BrandSafety(call, faults, c) = Some([verdict |-> v])
  BY DEF BrandSafety
<1>5. \A call, c : Harmless(Get(BrandSafety(call, faults, c), <<>>))
  BY <1>4, HarmlessAnswers
<1>6. Answering(brandVf, n)
  <2> DEFINE f == MapSeq(cs, LAMBDA c : BrandSafety("vf_labels", faults, c))
  <2>1. DOMAIN f = 1 .. n /\ \A i \in 1 .. n : f[i] = BrandSafety("vf_labels", faults, cs[i])
    BY DEF MapSeq
  <2>2. brandVf = HydrateEach(q.params.brand_safety = "vf", f)
    BY DEF AdsBrandSafetyVfHydrator
  <2> HIDE DEF f, brandVf
  <2> QED BY <1>1, <1>5, <2>1, <2>2, EachHarmless
<1>7. Answering(brand.results, n) /\ HarmlessCache(brand.inserts)
  <2> DEFINE client == MapSeq(cs, LAMBDA c : BrandSafety("labels", faults, c))
  <2>1. \A i \in 1 .. n : client[i] = BrandSafety("labels", faults, cs[i])
    BY DEF MapSeq
  <2>2. DOMAIN TweetIds(cs) = 1 .. n
    BY DEF TweetIds, MapSeq
  <2>3. brand = CachedHydrate(q.params.brand_safety = "labels", cached.brand, TweetIds(cs), client)
    BY DEF AdsBrandSafetyHydrator
  <2> HIDE DEF client, brand
  <2>4. Answering(client, n)
    BY <1>5, <2>1 DEF Answering
  <2> QED BY <1>1, <2>2, <2>3, <2>4, CachedHarmless
<1>8. Answering(replied, n)
  <2>1. \A i \in 1 .. n : replied[i] = None \/ \E v : replied[i] = Some([replied |-> v])
    BY DEF FollowingRepliedUsers
  <2> HIDE DEF replied
  <2> QED BY <2>1, HarmlessAnswers DEF Answering
<1> HIDE DEF brand, visible, brandVf, replied, h
<1>9. /\ DOMAIN answers = 1 .. 4 /\ Len(answers) = 4 /\ 4 \in Nat
      /\ \A a \in 1 .. 4 : Answering(answers[a], n)
  BY <1>3, <1>6, <1>7, <1>8
<1> HIDE DEF answers
<1>10. Listed(h.candidates) /\ (Candidates(p, cs) => Candidates(p, h.candidates) /\ Spared(cs, h.candidates))
  <2>1. /\ Listed(RunHydrators(cs, answers))
        /\ Candidates(p, cs) => Candidates(p, RunHydrators(cs, answers)) /\ Spared(cs, RunHydrators(cs, answers))
    BY <1>9, HydratorsKeep
  <2> QED BY <1>2, <2>1
<1>11. DOMAIN h.inserts = CacheNames /\ \A m \in CacheNames : HarmlessCache(h.inserts[m])
  <2>1. HarmlessCache(<<>>)
    BY DEF HarmlessCache
  <2> QED BY <1>2, <1>7, <2>1
<1> QED BY <1>10, <1>11 DEF h

(* What the sources deliver to a request that works for itself *)

\* The post whose video is looked up: the original, if the source knows of it.
Watched(c) ==
    IF c.served_type = "tweet_mixer" \/ Post(c.tweet_id).source = 0 THEN c.tweet_id ELSE Post(c.tweet_id).source

\* A candidate of a post.
Formed(c) ==
    /\ DOMAIN c = DOMAIN NoCandidate /\ Known(c.tweet_id) /\ c.ancestors \in Seq(Nat)
    /\ c.retweeted_id \in {None, NonZero(Post(c.tweet_id).source)}

\* A candidate of which nothing but its source is known.
Novel(c) ==
    /\ Formed(c) /\ OriginalTweetId(c) = Watched(c)
    /\ c.quoted_id = None /\ c.video = None /\ c.verdict = None

\* Candidates nobody has scored or hydrated yet.
NewCandidates(prediction, s) ==
    Candidates(prediction, s) /\ \A i \in 1 .. Len(s) : s[i].score = None /\ Novel(s[i])

\* Candidates of several sources are whose the sources' are.
LEMMA FetchedList ==
    ASSUME NEW results, NEW n \in Nat, DOMAIN results = 1 .. n, Len(results) = n,
           \A k \in 1 .. n : Listed(Get(results[k], <<>>)), NEW p
    PROVE  /\ Listed(FetchCandidates(results))
           /\ \A c \in Range1(FetchCandidates(results)) : \E k \in 1 .. n : c \in Range1(Get(results[k], <<>>))
           /\ (\A k \in 1 .. n : NewCandidates(p, Get(results[k], <<>>)))
                 => NewCandidates(p, FetchCandidates(results))
<1> DEFINE F == MapSeq(results, LAMBDA r : Get(r, <<>>))
           T == UNION {Range1(F[k]) : k \in 1 .. n}
<1>1. F = [k \in 1 .. n |-> Get(results[k], <<>>)] /\ FetchCandidates(results) = FlattenSeq(F)
  BY DEF FetchCandidates, MapSeq
<1> HIDE DEF F
<1>2. \A k \in 1 .. n : F[k] \in Seq(T)
  <2> SUFFICES ASSUME NEW k \in 1 .. n PROVE F[k] \in Seq(T)
    OBVIOUS
  <2>1. F[k] \in Seq(Range1(F[k]))
    BY <1>1 DEF Listed
  <2>2. Range1(F[k]) \subseteq T
    OBVIOUS
  <2> HIDE DEF T
  <2> QED BY <2>1, <2>2
<1> HIDE DEF T
<1>3. F \in Seq(Seq(T))
  <2>1. F \in [1 .. n -> Seq(T)]
    BY <1>1, <1>2
  <2> QED BY <2>1, AsSequence
<1>4. FlattenSeq(F) \in Seq(T)
  BY <1>3, Flattened
<1>5. Listed(FlattenSeq(F)) /\ Range1(FlattenSeq(F)) \subseteq T
  BY <1>4, ListOf
<1>6. ASSUME \A k \in 1 .. n : NewCandidates(p, Get(results[k], <<>>)), NEW i \in 1 .. Len(FlattenSeq(F))
      PROVE  Candidate(p, FlattenSeq(F)[i]) /\ FlattenSeq(F)[i].score = None /\ Novel(FlattenSeq(F)[i])
  <2>1. FlattenSeq(F)[i] \in T
    BY <1>5 DEF Range1
  <2>2. PICK k \in 1 .. n : FlattenSeq(F)[i] \in Range1(F[k])
    BY <2>1 DEF T
  <2>3. F[k] = Get(results[k], <<>>)
    BY <1>1
  <2> QED BY <1>6, <2>2, <2>3 DEF NewCandidates, Candidates, Range1
<1>7. \A c \in Range1(FlattenSeq(F)) : \E k \in 1 .. n : c \in Range1(Get(results[k], <<>>))
  BY <1>1, <1>5 DEF T
<1> QED BY <1>1, <1>5, <1>6, <1>7 DEF NewCandidates, Candidates

\* A candidate as a source makes it.
Sourced(c, id) ==
    /\ DOMAIN c = DOMAIN NoCandidate /\ c.tweet_id = id
    /\ c.retweeted_id \in {None, NonZero(Post(id).source)} /\ c.ancestors \in Seq(Nat)
    /\ OriginalTweetId(c) = Watched(c) /\ c.quoted_id = None /\ c.video = None /\ c.verdict = None
    /\ c.phoenix_score = None /\ c.weighted = None /\ c.score = None /\ c.prediction = None

\* A source makes candidates that nobody has scored yet.
LEMMA SourcedList ==
    ASSUME NEW ids \in Seq(DOMAIN World.posts), NEW s, DOMAIN s = 1 .. Len(ids),
           s = [i \in 1 .. Len(ids) |-> s[i]],
           \A i \in 1 .. Len(ids) : Sourced(s[i], ids[i]), NEW p
    PROVE  Listed(s) /\ NewCandidates(p, s)
<1>1. s \in [1 .. Len(ids) -> {s[i] : i \in 1 .. Len(ids)}] /\ Len(ids) \in Nat
  OBVIOUS
<1>2. s \in Seq({s[i] : i \in 1 .. Len(ids)}) /\ Len(s) = Len(ids)
  BY <1>1, AsSequence
<1>3. Listed(s)
  BY <1>2 DEF Listed, Range1
<1>4. \A i \in 1 .. Len(ids) : Candidate(p, s[i])
  <2> SUFFICES ASSUME NEW i \in 1 .. Len(ids) PROVE Candidate(p, s[i])
    OBVIOUS
  <2>1. ids[i] \in DOMAIN World.posts
    OBVIOUS
  <2>2. NonZero(Post(ids[i]).source) \in Maybe(DOMAIN World.posts) /\ None \in Maybe(DOMAIN World.posts)
    BY <2>1, NonZeroPost DEF Maybe
  <2>3. None \in Maybe(Int)
    BY DEF Maybe
  <2> QED BY <2>1, <2>2, <2>3 DEF Sourced, Candidate
<1>5. \A i \in 1 .. Len(ids) : Novel(s[i])
  BY DEF Sourced, Novel, Formed, Known
<1> QED BY <1>2, <1>3, <1>4, <1>5 DEF NewCandidates, Candidates, Sourced

\* What the services hold for a source is a list of posts.
LEMMA SourceNamesList ==
    ASSUME NEW name \in SourceNames
    PROVE  World.sources[name] \in Seq(DOMAIN World.posts)
BY WorldAssumption

\* What a source may answer: nothing, or a list.
LEMMA Delivers ==
    ASSUME NEW enabled, NEW faults, NEW call, NEW s, NEW p, Listed(s), NewCandidates(p, s)
    PROVE  LET answer == Get(When(enabled, Answered(faults, call, s)), <<>>)
           IN  Listed(answer) /\ NewCandidates(p, answer)
<1>1. Listed(<<>>) /\ NewCandidates(p, <<>>)
  BY DEF Listed, NewCandidates, Candidates, Range1
<1> QED BY <1>1, Answers

\* The original a source names: the post itself if that is no retweet.
LEMMA SourceOf ==
    \A id, other : Get(NonZero(id), other) = IF id = 0 THEN other ELSE id
BY Gets DEF NonZero

\* Retrieval delivers candidates nobody has scored.
LEMMA PhoenixDelivers ==
    ASSUME NEW ids \in Seq(DOMAIN World.posts), NEW type, type # "tweet_mixer", NEW p
    PROVE  Listed(PhoenixCandidates(ids, type)) /\ NewCandidates(p, PhoenixCandidates(ids, type))
<1> DEFINE s == PhoenixCandidates(ids, type)
           made(id) == [NoCandidate EXCEPT
                            !.tweet_id = id, !.author_id = Post(id).author,
                            !.in_reply_to = Some(Post(id).reply_to),
                            !.retweeted_id = NonZero(Post(id).source),
                            !.served_type = type]
<1>1. s = [i \in 1 .. Len(ids) |-> made(ids[i])]
  BY DEF PhoenixCandidates, MapSeq
<1>2. \A id : Sourced(made(id), id)
  <2> SUFFICES ASSUME NEW id PROVE Sourced(made(id), id)
    OBVIOUS
  <2> DEFINE c == made(id)
  <2>1. /\ DOMAIN c = DOMAIN NoCandidate /\ c.tweet_id = id /\ c.served_type = type
        /\ c.retweeted_id = NonZero(Post(id).source) /\ c.ancestors = <<>>
        /\ c.quoted_id = None /\ c.video = None /\ c.verdict = None
        /\ c.phoenix_score = None /\ c.weighted = None /\ c.score = None /\ c.prediction = None
    BY DEF NoCandidate
  <2> HIDE DEF c
  <2>2. OriginalTweetId(c) = Watched(c)
    BY <2>1, SourceOf DEF OriginalTweetId, Watched
  <2>3. Sourced(c, id)
    BY <2>1, <2>2 DEF Sourced
  <2> QED BY <2>3 DEF c
<1> HIDE DEF s, made
<1>3. \A i \in 1 .. Len(ids) : Sourced(s[i], ids[i])
  BY <1>1, <1>2
<1>4. DOMAIN s = 1 .. Len(ids) /\ s = [i \in 1 .. Len(ids) |-> s[i]]
  BY <1>1
<1> QED BY <1>3, <1>4, SourcedList DEF s

\* What Thunder delivers is by those the query follows.
LEMMA ThunderDelivers ==
    ASSUME NEW q, NEW faults, NEW p
    PROVE  LET answer == Get(ThunderSource(q, faults), <<>>)
           IN  /\ Listed(answer) /\ NewCandidates(p, answer)
               /\ \A c \in Range1(answer) : c.author_id \in q.followed
<1> DEFINE thunder == ThunderSource(q, faults)
           places == {i \in DOMAIN World.sources.thunder : Post(World.sources.thunder[i]).author \in q.followed /\ World.sources.thunder[i] \notin q.seen_ids}
           ids == GetInNetworkPosts(q)
           type == IF q.in_network_only THEN "ranked_following" ELSE "in_network"
           made(id) == [NoCandidate EXCEPT
               !.tweet_id = id, !.author_id = Post(id).author,
               !.in_reply_to = NonZero(Post(id).reply_to),
               !.retweeted_id = NonZero(Post(id).source),
               !.ancestors = ThunderAncestors(id),
               !.served_type = type]
           s == [i \in 1 .. Len(ids) |-> made(ids[i])]
<1>1. ids = PickAt(World.sources.thunder, places)
  BY DEF GetInNetworkPosts, Those
<1>2. places \subseteq DOMAIN World.sources.thunder
  OBVIOUS
<1>3. thunder = When(FromNetwork(q), Answered(faults, "thunder", s))
  BY DEF ThunderSource, MapSeq
<1>4. World.sources.thunder \in Seq(DOMAIN World.posts)
  BY SourceNamesList DEF SourceNames
<1>5. \A i \in places : Post(World.sources.thunder[i]).author \in q.followed
  OBVIOUS
<1> HIDE DEF places
<1>6. ids \in Seq(DOMAIN World.posts) /\ \A i \in 1 .. Len(ids) : \E j \in places : ids[i] = World.sources.thunder[j]
  <2> DEFINE picked == PickAt(World.sources.thunder, places)
             at == Ascending(places)
  <2>1. /\ picked \in Seq(DOMAIN World.posts)
        /\ \A i \in 1 .. Len(picked) : at[i] \in places /\ picked[i] = World.sources.thunder[at[i]]
    <3> DEFINE src == World.sources.thunder
               T == DOMAIN World.posts
    <3>1. src \in Seq(T) /\ places \subseteq DOMAIN src
      BY <1>2, <1>4
    <3> HIDE DEF ids, src, T
    <3>2. LET picks == PickAt(src, places)
          IN  picks \in Seq(T) /\ \A i \in 1 .. Len(picks) : Ascending(places)[i] \in places /\ picks[i] = src[Ascending(places)[i]]
      BY <3>1, Picked
    <3> QED BY <3>2 DEF src, T
  <2>2. ids = picked
    BY <1>1
  <2> HIDE DEF ids, picked, at
  <2> QED BY <2>1, <2>2
<1> HIDE DEF ids
<1>7. \A i \in 1 .. Len(ids) : ids[i] \in DOMAIN World.posts /\ Post(ids[i]).author \in q.followed
  BY <1>5, <1>6
<1>8. ids \in Seq(DOMAIN World.posts)
  BY <1>6
<1>9. type # "tweet_mixer"
  OBVIOUS
<1> HIDE DEF type
<1>10. \A id \in DOMAIN World.posts : Sourced(made(id), id) /\ made(id).author_id = Post(id).author
  <2> SUFFICES ASSUME NEW id \in DOMAIN World.posts
               PROVE  Sourced(made(id), id) /\ made(id).author_id = Post(id).author
    OBVIOUS
  <2> DEFINE c == made(id)
  <2>1. /\ DOMAIN c = DOMAIN NoCandidate /\ c.tweet_id = id /\ c.served_type = type
        /\ c.retweeted_id = NonZero(Post(id).source) /\ c.ancestors = ThunderAncestors(id)
        /\ c.quoted_id = None /\ c.video = None /\ c.verdict = None
        /\ c.phoenix_score = None /\ c.weighted = None /\ c.score = None /\ c.prediction = None
        /\ c.author_id = Post(id).author
    BY DEF NoCandidate
  <2> HIDE DEF c
  <2>2. OriginalTweetId(c) = Watched(c)
    BY <1>9, <2>1, SourceOf DEF OriginalTweetId, Watched
  <2>3. ThunderAncestors(id) \in Seq(Nat)
    <3>1. Post(id).reply_to \in Nat /\ Post(id).root \in Nat
      BY WorldAssumption DEF Post
    <3> QED BY <3>1 DEF ThunderAncestors
  <2>4. Sourced(c, id)
    BY <2>1, <2>2, <2>3 DEF Sourced
  <2> QED BY <2>1, <2>4 DEF c
<1> HIDE DEF made
<1>11. DOMAIN s = 1 .. Len(ids) /\ \A i \in 1 .. Len(ids) : Sourced(s[i], ids[i]) /\ s[i].author_id \in q.followed
  BY <1>7, <1>10
<1>12. s = [i \in 1 .. Len(ids) |-> s[i]] /\ Len(s) = Len(ids)
  <2>1. Len(ids) \in Nat
    BY <1>8
  <2> QED BY <2>1
<1> HIDE DEF s, thunder
<1>13. Listed(s) /\ NewCandidates(p, s)
  BY <1>8, <1>11, <1>12, SourcedList
<1>14. Get(thunder, <<>>) \in {<<>>, s}
  BY <1>3, Answers
<1>15. (\A c \in Range1(s) : c.author_id \in q.followed) /\ Range1(<<>>) = {}
  BY <1>11, <1>12 DEF Range1
<1>16. Listed(Get(thunder, <<>>)) /\ NewCandidates(p, Get(thunder, <<>>))
  BY <1>3, <1>13, Delivers
<1> QED BY <1>14, <1>15, <1>16 DEF thunder

\* What all sources bring, if nothing comes from the cache, is the request's own.
LEMMA Fetched ==
    ASSUME NEW q, NEW faults, NEW time, NEW p, q.has_cached_posts => Listed(q.cached_posts)
    PROVE  /\ Listed(PhoenixCandidatesOf(q, faults, time))
           /\ ~q.has_cached_posts => NewCandidates(p, PhoenixCandidatesOf(q, faults, time))
<1> DEFINE thunder == ThunderSource(q, faults)
           mixer == TweetMixerSource(q, faults, time)
           phoenix == PhoenixSource(q, faults)
           topics == PhoenixTopicsSource(q, faults)
           moe == PhoenixMOESource(q, faults)
           cachedPosts == CachedPostsSource(q)
           results == <<thunder, mixer, phoenix, topics, moe, cachedPosts>>
           Good(result) == Listed(Get(result, <<>>)) /\ NewCandidates(p, Get(result, <<>>))
<1>1. PhoenixCandidatesOf(q, faults, time) = FetchCandidates(results)
  BY DEF PhoenixCandidatesOf
<1>2. Good(thunder)
  BY ThunderDelivers
<1>3. Good(mixer)
  <2> DEFINE places == {i \in DOMAIN World.sources.tweet_mixer : World.sources.tweet_mixer[i] \notin q.seen_ids /\ WithinAge(World.sources.tweet_mixer[i], time)}
             ids == PickAt(World.sources.tweet_mixer, places)
             made(id) == [NoCandidate EXCEPT
                !.tweet_id = id,
                !.author_id = IF Fails(faults, "mixer_author", id) THEN 0 ELSE Post(id).author,
                !.in_reply_to = NonZero(Post(id).reply_to),
                !.served_type = "tweet_mixer"]
             s == [i \in 1 .. Len(ids) |-> made(ids[i])]
  <2>2. places \subseteq DOMAIN World.sources.tweet_mixer
    OBVIOUS
  <2>3. mixer = When(Wide(q), Answered(faults, "tweet_mixer", s))
    BY DEF TweetMixerSource, MapSeq, Those
  <2>4. \A id : Sourced(made(id), id)
    <3> SUFFICES ASSUME NEW id PROVE Sourced(made(id), id)
      OBVIOUS
    <3> DEFINE c == made(id)
    <3>1. /\ DOMAIN c = DOMAIN NoCandidate /\ c.tweet_id = id /\ c.served_type = "tweet_mixer"
          /\ c.retweeted_id = None /\ c.ancestors = <<>>
          /\ c.quoted_id = None /\ c.video = None /\ c.verdict = None
          /\ c.phoenix_score = None /\ c.weighted = None /\ c.score = None /\ c.prediction = None
      BY DEF NoCandidate
    <3> HIDE DEF c
    <3>2. OriginalTweetId(c) = Watched(c)
      BY <3>1, Gets DEF OriginalTweetId, Watched
    <3>3. Sourced(c, id)
      BY <3>1, <3>2 DEF Sourced
    <3> QED BY <3>3 DEF c
  <2>5. World.sources.tweet_mixer \in Seq(DOMAIN World.posts)
    BY SourceNamesList DEF SourceNames
  <2> HIDE DEF places, made, mixer
  <2>6. ids \in Seq(DOMAIN World.posts)
    BY <2>2, <2>5, Picked
  <2> HIDE DEF ids
  <2>7. DOMAIN s = 1 .. Len(ids) /\ \A i \in 1 .. Len(ids) : Sourced(s[i], ids[i])
    BY <2>4
  <2>8. s = [i \in 1 .. Len(ids) |-> s[i]]
    OBVIOUS
  <2> HIDE DEF s
  <2>9. Listed(s) /\ NewCandidates(p, s)
    BY <2>6, <2>7, <2>8, SourcedList
  <2> QED BY <2>3, <2>9, Delivers
<1>4. ASSUME NEW enabled, NEW call, NEW ids \in Seq(DOMAIN World.posts),
             NEW type, type # "tweet_mixer"
      PROVE  Good(When(enabled, Retrieve(q, faults, call, PhoenixCandidates(ids, type))))
  <2> DEFINE s == PhoenixCandidates(ids, type)
             answer == When(enabled, Retrieve(q, faults, call, s))
  <2>1. Listed(s) /\ NewCandidates(p, s)
    BY <1>4, PhoenixDelivers
  <2> HIDE DEF s
  <2>2. \/ answer = When(enabled, Answered(faults, call, s))
        \/ answer = When(FALSE, Answered(faults, call, s))
    BY DEF Retrieve, When
  <2> QED BY <2>1, <2>2, Delivers DEF s
<1>5. Good(phoenix) /\ Good(moe)
  <2>1. World.sources.phoenix \in Seq(DOMAIN World.posts) /\ World.sources.moe \in Seq(DOMAIN World.posts)
    BY SourceNamesList DEF SourceNames
  <2> HIDE DEF Good
  <2> QED BY <1>4, <2>1 DEF PhoenixSource, PhoenixMOESource
<1>6. Good(topics)
  <2> DEFINE places == {i \in DOMAIN World.sources.topics : Post(World.sources.topics[i]).topics \cap EffectiveTopicIds(q) # {}}
             ids == PickAt(World.sources.topics, places)
             enabled == /\ \/ IsTopicRequest(q) /\ ~IsBulkTopicRequest(q)
                           \/ q.params.new_user_retrieval /\ HasNewUserTopicIds(q)
                        /\ Wide(q)
  <2>1. places \subseteq DOMAIN World.sources.topics
    OBVIOUS
  <2>2. topics = When(enabled, Retrieve(q, faults, "topics", PhoenixCandidates(ids, "phoenix")))
    BY DEF PhoenixTopicsSource, Those
  <2>3. World.sources.topics \in Seq(DOMAIN World.posts)
    BY SourceNamesList DEF SourceNames
  <2> HIDE DEF places, enabled, topics, Good
  <2>4. ids \in Seq(DOMAIN World.posts)
    BY <2>1, <2>3, Picked
  <2> HIDE DEF ids
  <2> QED BY <1>4, <2>2, <2>4
<1>7. Listed(Get(cachedPosts, <<>>)) /\ (~q.has_cached_posts => NewCandidates(p, Get(cachedPosts, <<>>)))
  <2>1. Get(cachedPosts, <<>>) = IF q.has_cached_posts THEN q.cached_posts ELSE <<>>
    BY Gets DEF CachedPostsSource, When
  <2>2. Listed(<<>>) /\ NewCandidates(p, <<>>)
    BY DEF Listed, NewCandidates, Candidates, Range1
  <2> HIDE DEF cachedPosts
  <2> QED BY <2>1, <2>2
<1> HIDE DEF thunder, mixer, phoenix, topics, moe, cachedPosts
<1>8. /\ DOMAIN results = 1 .. 6 /\ Len(results) = 6
      /\ \A k \in 1 .. 6 : Listed(Get(results[k], <<>>))
      /\ ~q.has_cached_posts => \A k \in 1 .. 6 : NewCandidates(p, Get(results[k], <<>>))
  BY <1>2, <1>3, <1>5, <1>6, <1>7
<1> HIDE DEF results
<1>9. /\ Listed(FetchCandidates(results))
      /\ (\A k \in 1 .. 6 : NewCandidates(p, Get(results[k], <<>>)))
             => NewCandidates(p, FetchCandidates(results))
  BY <1>8, FetchedList
<1> QED BY <1>1, <1>8, <1>9

(* What the scorers and the selector make of the candidates *)

\* A scorer's results land on the candidates they are for, in their order.
LEMMA Updated ==
    ASSUME NEW cs, Listed(cs), NEW results
    PROVE  /\ Listed(UpdateAll(cs, results)) /\ Len(UpdateAll(cs, results)) = Len(cs)
           /\ \A i \in 1 .. Len(cs) : UpdateAll(cs, results)[i] = Over(Get(results[i], <<>>), cs[i])
<1> DEFINE s == UpdateAll(cs, results)
<1>1. s = [i \in 1 .. Len(cs) |-> Over(Get(results[i], <<>>), cs[i])] /\ Len(cs) \in Nat
  BY DEF UpdateAll, Listed
<1> HIDE DEF s
<1>2. s \in [1 .. Len(cs) -> {s[i] : i \in 1 .. Len(cs)}]
  BY <1>1
<1>3. s \in Seq({s[i] : i \in 1 .. Len(cs)}) /\ Len(s) = Len(cs)
  BY <1>1, <1>2, AsSequence
<1>4. Listed(s)
  BY <1>3 DEF Listed, Range1
<1> QED BY <1>1, <1>3, <1>4 DEF s

\* A scorer's answer for a candidate.
Scores(prediction, e) ==
    /\ DOMAIN e \subseteq {"phoenix_score", "prediction", "last_scored_at", "weighted", "score"}
    /\ "phoenix_score" \in DOMAIN e => e.phoenix_score \in Maybe(Int)
    /\ "prediction" \in DOMAIN e => e.prediction \in {None, Some(prediction)}
    /\ "weighted" \in DOMAIN e => e.weighted \in Maybe(Int)
    /\ "score" \in DOMAIN e => e.score \in Maybe(Int)

\* Candidates of the same posts in the same order.
SamePosts(s, t) ==
    /\ Len(t) = Len(s)
    /\ \A i \in 1 .. Len(s) : t[i].tweet_id = s[i].tweet_id /\ t[i].retweeted_id = s[i].retweeted_id

\* Scoring under a prediction leaves the candidates to its owner.
LEMMA ScoringKeeps ==
    ASSUME NEW p, NEW cs, Listed(cs), Candidates(p, cs), NEW results,
           \A i \in 1 .. Len(cs) : Scores(p, Get(results[i], <<>>))
    PROVE  Candidates(p, UpdateAll(cs, results)) /\ SamePosts(cs, UpdateAll(cs, results))
<1> DEFINE s == UpdateAll(cs, results)
<1> SUFFICES ASSUME NEW i \in 1 .. Len(cs)
             PROVE  /\ Candidate(p, s[i])
                    /\ s[i].tweet_id = cs[i].tweet_id /\ s[i].retweeted_id = cs[i].retweeted_id
  BY Updated DEF Candidates, SamePosts
<1> DEFINE e == Get(results[i], <<>>)
<1>1. Scores(p, e) /\ Candidate(p, cs[i]) /\ s[i] = Over(e, cs[i])
  BY Updated DEF Candidates
<1> HIDE DEF e
<1>2. {"phoenix_score", "prediction", "last_scored_at", "weighted", "score", "tweet_id", "retweeted_id"}
         \subseteq DOMAIN NoCandidate
  BY DEF NoCandidate
<1>3. DOMAIN s[i] = DOMAIN NoCandidate
  BY <1>1, <1>2 DEF Over, Scores, Candidate
<1>4. \A f \in DOMAIN NoCandidate : s[i][f] = IF f \in DOMAIN e THEN e[f] ELSE cs[i][f]
  BY <1>1 DEF Over, Candidate
<1>5. s[i].tweet_id = cs[i].tweet_id /\ s[i].retweeted_id = cs[i].retweeted_id
  BY <1>1, <1>2, <1>4 DEF Scores
<1> HIDE DEF s
<1> QED BY <1>1, <1>2, <1>3, <1>4, <1>5 DEF Scores, Candidate

\* Options of numbers.
LEMMA MaybeInt ==
    /\ None \in Maybe(Int)
    /\ \A n \in Int : Some(n) \in Maybe(Int)
    /\ \A m \in Maybe(Int) : Get(m, 0) \in Int
    /\ \A m \in Maybe(Int) : {0 - n : n \in m} \in Maybe(Int)
<1>1. None \in Maybe(Int) /\ \A n \in Int : Some(n) \in Maybe(Int)
  BY DEF Maybe
<1>2. ASSUME NEW m \in Maybe(Int) PROVE Get(m, 0) \in Int /\ {0 - n : n \in m} \in Maybe(Int)
  <2>1. CASE m = None
    <3>1. {0 - n : n \in m} = None
      BY <2>1 DEF None
    <3> QED BY <1>1, <2>1, <3>1, Gets
  <2>2. CASE m # None
    <3>1. PICK k \in Int : m = Some(k)
      BY <2>2 DEF Maybe
    <3>2. {0 - n : n \in m} = Some(0 - k)
      BY <3>1 DEF Some
    <3>3. 0 - k \in Int
      OBVIOUS
    <3> QED BY <1>1, <3>1, <3>2, <3>3, Gets
  <2> QED BY <2>1, <2>2
<1> QED BY <1>1, <1>2

\* The selection and the rest are parts of what was sorted.
LEMMA SplitKeeps ==
    ASSUME NEW cs, Listed(cs), NEW n \in Nat, NEW p
    PROVE  LET s == SplitOff(cs, n)
           IN  /\ Listed(s.selected) /\ Listed(s.non_selected)
               /\ Range1(s.selected) \subseteq Range1(cs) /\ Range1(s.non_selected) \subseteq Range1(cs)
               /\ Candidates(p, cs) => Candidates(p, s.selected) /\ Candidates(p, s.non_selected)
<1>1. Take(cs, n) \in Seq(Range1(cs)) /\ Skip(cs, n) \in Seq(Range1(cs))
  BY Cut DEF Listed
<1> QED BY <1>1, PartOf DEF SplitOff

\* Sorting by numbers rearranges.
LEMMA SortKeeps ==
    ASSUME NEW cs, Listed(cs), NEW scores, \A i \in 1 .. Len(cs) : scores[i] \in Int
    PROVE  SortByScore(cs, scores) \in Seq(Range1(cs))
BY Sorted DEF Listed

\* The selector neither invents nor changes a candidate.
LEMMA Chosen ==
    ASSUME NEW cs, Listed(cs), NEW p
    PROVE  LET s == TopK(cs)
           IN  /\ Listed(s.selected) /\ Listed(s.non_selected)
               /\ Candidates(p, cs) => Candidates(p, s.selected) /\ Candidates(p, s.non_selected)
<1> DEFINE scores == MapSeq(cs, LAMBDA c : Get(c.score, 0))
           sorted == SortByScore(cs, scores)
<1>1. TopK(cs) = SplitOff(sorted, Limits.top_k) /\ Limits.top_k \in Nat
  BY LimitsAssumption DEF TopK, Select
<1>2. Listed(sorted)
  <2>1. sorted = [k \in 1 .. Len(cs) |-> sorted[k]] /\ Len(cs) \in Nat
    BY DEF SortByScore, Listed
  <2> HIDE DEF sorted
  <2>2. sorted \in [1 .. Len(cs) -> {sorted[k] : k \in 1 .. Len(cs)}]
    BY <2>1
  <2>3. sorted \in Seq({sorted[k] : k \in 1 .. Len(cs)}) /\ Len(sorted) = Len(cs)
    BY <2>1, <2>2, AsSequence
  <2> QED BY <2>3 DEF Listed, Range1
<1>3. Candidates(p, cs) => Candidates(p, sorted)
  <2> SUFFICES ASSUME Candidates(p, cs) PROVE Candidates(p, sorted)
    OBVIOUS
  <2>1. \A i \in 1 .. Len(cs) : scores[i] \in Int
    BY MaybeInt DEF MapSeq, Candidates, Candidate
  <2> HIDE DEF scores
  <2>2. sorted \in Seq(Range1(cs))
    BY <2>1, SortKeeps
  <2> HIDE DEF sorted
  <2> QED BY <2>2, PartOf
<1> HIDE DEF sorted
<1> QED BY <1>1, <1>2, <1>3, SplitKeeps

\* Neither do the filters.
LEMMA FilterKeeps ==
    ASSUME NEW q, NEW time, NEW cs, Listed(cs), NEW p
    PROVE  /\ Listed(Filter(q, time, cs).kept) /\ Listed(FilterPostSelection(q, time, cs).kept)
           /\ Candidates(p, cs) => /\ Candidates(p, Filter(q, time, cs).kept)
                                   /\ Candidates(p, FilterPostSelection(q, time, cs).kept)
<1>1. Len(PhoenixFilters) \in Nat /\ Len(PostSelectionFilters) \in Nat
  BY DEF PhoenixFilters, PostSelectionFilters
<1>2. cs \in Seq(Range1(cs))
  BY DEF Listed
<1>3. Filter(q, time, cs).kept \in Seq(Range1(cs)) /\ FilterPostSelection(q, time, cs).kept \in Seq(Range1(cs))
  BY <1>1, <1>2, FiltersSift DEF Filter, FilterPostSelection, Sifted
<1> QED BY <1>3, PartOf

\* What goes into Redis is out of what was selected and what was not.
LEMMA CachedAreKnown ==
    ASSUME NEW selected, NEW others, Listed(selected), Listed(others), NEW p,
           Candidates(p, selected), Candidates(p, others)
    PROVE  /\ Listed(CandidatesToCache(selected, others))
           /\ Range1(CandidatesToCache(selected, others)) \subseteq Range1(selected \o others)
<1> DEFINE all == selected \o others
           places == {i \in DOMAIN all : Get(all[i].weighted, 0) > 0}
           weighed == PickAt(all, places)
           scores == MapSeq(weighed, LAMBDA c : Get(c.weighted, 0))
           sorted == SortByScore(weighed, scores)
<1>1. CandidatesToCache(selected, others) = Take(sorted, Limits.max_cached)
  BY DEF CandidatesToCache, Those
<1>2. Listed(all) /\ Candidates(p, all)
  BY Joined
<1>3. places \subseteq DOMAIN all
  OBVIOUS
<1> HIDE DEF all, places
<1>4. weighed \in Seq(Range1(all))
  BY <1>2, <1>3, Picked DEF Listed
<1> HIDE DEF weighed
<1>5. Listed(weighed) /\ Range1(weighed) \subseteq Range1(all) /\ Candidates(p, weighed)
  BY <1>2, <1>4, PartOf
<1>6. \A i \in 1 .. Len(weighed) : scores[i] \in Int
  BY <1>5, MaybeInt DEF MapSeq, Candidates, Candidate
<1> HIDE DEF scores
<1>7. sorted \in Seq(Range1(weighed))
  BY <1>5, <1>6, SortKeeps
<1> HIDE DEF sorted
<1>8. Listed(sorted) /\ Range1(sorted) \subseteq Range1(weighed)
  BY <1>7, PartOf
<1>9. Limits.max_cached \in Nat
  BY LimitsAssumption
<1>10. Take(sorted, Limits.max_cached) \in Seq(Range1(sorted))
  BY <1>8, <1>9, Cut DEF Listed
<1>11. Listed(Take(sorted, Limits.max_cached)) /\ Range1(Take(sorted, Limits.max_cached)) \subseteq Range1(sorted)
  BY <1>10, PartOf
<1> QED BY <1>1, <1>5, <1>8, <1>11 DEF all

(* ---------- The posts in Redis ------------------------------------------ *)

Ended == {"selected", "answered"}

\* A query for which everything below can be asked.
QueryFields == {"params", "prediction", "topic_ids", "in_network_only", "exclude_videos",
                "cached_posts", "has_cached_posts"}

\* Candidates of a query: nobody else's, unless it is served from the cache.
Own(q, cs) == Listed(cs) /\ (~q.has_cached_posts => Candidates(q.prediction, cs))

CachesHarmless(cs) ==
    /\ DOMAIN cs = CacheNames
    /\ \A n \in CacheNames \ {"brand"} : HarmlessCache(cs[n])
    /\ \A k \in DOMAIN cs.brand : Harmless(cs.brand[k].fields)

\* and a request inserts what its hydrators answered.
LEMMA InsertsHarmless ==
    ASSUME NEW cs, CachesHarmless(cs), NEW inserts, CachesHarmless(inserts)
    PROVE  CachesHarmless(Inserted(cs, inserts))
<1> DEFINE new == Inserted(cs, inserts)
<1>1. DOMAIN new = CacheNames /\ \A n \in CacheNames : new[n] = Over(inserts[n], cs[n])
  BY DEF Inserted
<1>2. \A n \in CacheNames : /\ DOMAIN new[n] = DOMAIN inserts[n] \cup DOMAIN cs[n]
                            /\ \A k \in DOMAIN new[n] : new[n][k] = IF k \in DOMAIN inserts[n] THEN inserts[n][k]
                                                                    ELSE cs[n][k]
  BY <1>1 DEF Over
<1> HIDE DEF new
<1>3. \A n \in CacheNames \ {"brand"} : HarmlessCache(new[n])
  BY <1>2 DEF CachesHarmless, HarmlessCache
<1>4. \A k \in DOMAIN new.brand : Harmless(new.brand[k].fields)
  <2>1. "brand" \in CacheNames
    BY DEF CacheNames
  <2> QED BY <1>2, <2>1 DEF CachesHarmless
<1> QED BY <1>1, <1>3, <1>4 DEF CachesHarmless, new

\* What the Phoenix pipeline learns of its query.
Learned == {"scoring_sequence", "retrieval_sequence", "blocked", "muted", "followed", "subscribed",
            "bloom", "new_user_topic_ids", "cached_posts", "has_cached_posts"}

(* ---------- Posts that differ --------------------------------------------- *)

NoneShared(s, t) == \A c \in Range1(s), d \in Range1(t) : c.tweet_id # d.tweet_id

\* The ids of a list are as many as its candidates.
LEMMA KeysOf ==
    ASSUME NEW cs, Listed(cs)
    PROVE  /\ Len(cs) \in Nat
           /\ Len(TweetIds(cs)) = Len(cs) /\ Len(OriginalTweetIds(cs)) = Len(cs)
           /\ \A i \in 1 .. Len(cs) : /\ TweetIds(cs)[i] = cs[i].tweet_id
                                      /\ OriginalTweetIds(cs)[i] = OriginalTweetId(cs[i])
                                      /\ cs[i] \in Range1(cs)
           /\ \A c \in Range1(cs) : \E i \in 1 .. Len(cs) : c = cs[i]
<1>1. Len(cs) \in Nat
  BY DEF Listed
<1>2. \A i \in 1 .. Len(cs) : /\ TweetIds(cs)[i] = cs[i].tweet_id
                              /\ OriginalTweetIds(cs)[i] = OriginalTweetId(cs[i])
  BY DEF TweetIds, OriginalTweetIds, MapSeq
<1>3. TweetIds(cs) = [i \in 1 .. Len(cs) |-> cs[i].tweet_id]
  BY DEF TweetIds, MapSeq
<1>4. OriginalTweetIds(cs) = [i \in 1 .. Len(cs) |-> OriginalTweetId(cs[i])]
  BY DEF OriginalTweetIds, MapSeq
<1>5. Len(TweetIds(cs)) = Len(cs)
  <2>1. TweetIds(cs) \in [1 .. Len(cs) -> {cs[i].tweet_id : i \in 1 .. Len(cs)}]
    BY <1>3
  <2> QED BY <1>1, <2>1, AsSequence
<1>6. Len(OriginalTweetIds(cs)) = Len(cs)
  <2>1. OriginalTweetIds(cs) \in [1 .. Len(cs) -> {OriginalTweetId(cs[i]) : i \in 1 .. Len(cs)}]
    BY <1>4
  <2> QED BY <1>1, <2>1, AsSequence
<1> QED BY <1>1, <1>2, <1>5, <1>6 DEF Range1

\* What is drawn from a list differs as the list does.
LEMMA DrawnDiffers ==
    ASSUME NEW s, Listed(s), NEW part, Listed(part), Drawn(part, s)
    PROVE  /\ Range1(part) \subseteq Range1(s)
           /\ Apart(TweetIds(s)) => Apart(TweetIds(part))
           /\ Apart(OriginalTweetIds(s)) => Apart(OriginalTweetIds(part))
<1>1. PICK at \in [1 .. Len(part) -> 1 .. Len(s)] :
          /\ \A k \in 1 .. Len(part) : part[k] = s[at[k]]
          /\ \A j, k \in 1 .. Len(part) : j # k => at[j] # at[k]
  BY DEF Drawn
<1>2. \A k \in 1 .. Len(part) : at[k] \in 1 .. Len(s)
  OBVIOUS
<1>3. Range1(part) \subseteq Range1(s)
  BY <1>1, <1>2 DEF Range1
<1>4. /\ Len(TweetIds(part)) = Len(part) /\ Len(OriginalTweetIds(part)) = Len(part)
      /\ \A k \in 1 .. Len(part) : /\ TweetIds(part)[k] = part[k].tweet_id
                                  /\ OriginalTweetIds(part)[k] = OriginalTweetId(part[k])
  BY KeysOf
<1>5. /\ Len(TweetIds(s)) = Len(s) /\ Len(OriginalTweetIds(s)) = Len(s)
      /\ \A k \in 1 .. Len(s) : /\ TweetIds(s)[k] = s[k].tweet_id
                               /\ OriginalTweetIds(s)[k] = OriginalTweetId(s[k])
  BY KeysOf
<1>6. \A k \in 1 .. Len(part) : /\ TweetIds(part)[k] = TweetIds(s)[at[k]]
                               /\ OriginalTweetIds(part)[k] = OriginalTweetIds(s)[at[k]]
  BY <1>1, <1>2, <1>4, <1>5
<1>7. Apart(TweetIds(s)) => Apart(TweetIds(part))
  BY <1>1, <1>2, <1>4, <1>5, <1>6 DEF Apart
<1>8. Apart(OriginalTweetIds(s)) => Apart(OriginalTweetIds(part))
  BY <1>1, <1>2, <1>4, <1>5, <1>6 DEF Apart
<1> QED BY <1>3, <1>7, <1>8

\* What two disjoint sets of places hold shares no id, if the ids differ.
LEMMA PartsShareNothing ==
    ASSUME NEW s, Listed(s), NEW places, places \subseteq DOMAIN s, Apart(TweetIds(s))
    PROVE  NoneShared(PickAt(s, DOMAIN s \ places), PickAt(s, places))
<1> DEFINE rest == DOMAIN s \ places
<1>1. rest \subseteq DOMAIN s /\ \A m \in rest, n \in places : m # n
  OBVIOUS
<1> HIDE DEF rest
<1>2. DOMAIN s = 1 .. Len(s)
  BY DEF Listed
<1>3. \A m \in rest, n \in places : s[m].tweet_id # s[n].tweet_id
  BY <1>1, <1>2, KeysOf DEF Apart
<1>4. \A c \in Range1(PickAt(s, rest)) : \E m \in rest : c = s[m]
  BY <1>1, PickedDrawn DEF Range1
<1>5. \A c \in Range1(PickAt(s, places)) : \E m \in places : c = s[m]
  BY PickedDrawn DEF Range1
<1> QED BY <1>3, <1>4, <1>5 DEF NoneShared, rest

\* The two sides of a cut are drawn and share nothing.
LEMMA SplitDrawn ==
    ASSUME NEW s, Listed(s), NEW n \in Nat
    PROVE  LET cut == SplitOff(s, n)
           IN  /\ Listed(cut.selected) /\ Listed(cut.non_selected)
               /\ Drawn(cut.selected, s) /\ Drawn(cut.non_selected, s)
               /\ Apart(TweetIds(s)) => NoneShared(cut.selected, cut.non_selected)
<1> DEFINE T == Range1(s)
           a == Take(s, n)
           b == Skip(s, n)
<1>1. s \in Seq(T) /\ Len(s) \in Nat
  BY DEF Listed
<1> HIDE DEF T
<1>2. a \in Seq(T) /\ Len(a) <= Len(s) /\ Len(a) <= n
  BY <1>1, Cut
<1>3. \A i \in 1 .. Len(a) : a[i] = s[i]
  BY <1>1, Cut
<1>4. b \in Seq(T)
  BY <1>1, Cut
<1>5. \A i \in 1 .. Len(b) : n + i \in 1 .. Len(s) /\ b[i] = s[n + i]
  BY <1>1, Cut
<1>6. SplitOff(s, n).selected = a /\ SplitOff(s, n).non_selected = b
  BY DEF SplitOff
<1> HIDE DEF a, b
<1>7. Listed(a) /\ Listed(b) /\ Len(a) \in Nat /\ Len(b) \in Nat
  BY <1>2, <1>4, ListOf
<1>8. \A i \in 1 .. Len(a) : i \in 1 .. Len(s) /\ i <= n
  BY <1>1, <1>2, <1>7
<1>9. Drawn(a, s)
  <2> DEFINE at == [i \in 1 .. Len(a) |-> i]
  <2>1. at \in [1 .. Len(a) -> 1 .. Len(s)] /\ \A i \in 1 .. Len(a) : at[i] = i
    BY <1>8
  <2> HIDE DEF at
  <2>2. \A i \in 1 .. Len(a) : a[i] = s[at[i]]
    BY <1>3, <2>1
  <2>3. \A i, j \in 1 .. Len(a) : i # j => at[i] # at[j]
    BY <2>1
  <2> QED BY <2>1, <2>2, <2>3 DEF Drawn
<1>10. Drawn(b, s)
  <2> DEFINE at == [i \in 1 .. Len(b) |-> n + i]
  <2>1. at \in [1 .. Len(b) -> 1 .. Len(s)] /\ \A i \in 1 .. Len(b) : at[i] = n + i
    BY <1>5
  <2> HIDE DEF at
  <2>2. \A i \in 1 .. Len(b) : b[i] = s[at[i]]
    BY <1>5, <2>1
  <2>3. \A i, j \in 1 .. Len(b) : i # j => at[i] # at[j]
    BY <2>1
  <2> QED BY <2>1, <2>2, <2>3 DEF Drawn
<1>11. ASSUME Apart(TweetIds(s)) PROVE NoneShared(a, b)
  <2> SUFFICES ASSUME NEW i \in 1 .. Len(a), NEW j \in 1 .. Len(b) PROVE a[i].tweet_id # b[j].tweet_id
    BY DEF NoneShared, Range1
  <2>1. i \in 1 .. Len(s) /\ n + j \in 1 .. Len(s) /\ i # n + j
    BY <1>5, <1>8
  <2>2. s[i].tweet_id # s[n + j].tweet_id
    BY <1>11, <2>1, KeysOf DEF Apart
  <2> QED BY <1>3, <1>5, <2>2
<1> QED BY <1>6, <1>7, <1>9, <1>10, <1>11

\* Two lists that differ and share nothing make one that differs.
LEMMA JoinedDiffers ==
    ASSUME NEW s, Listed(s), NEW t, Listed(t),
           Apart(TweetIds(s)), Apart(TweetIds(t)), NoneShared(s, t)
    PROVE  Apart(TweetIds(s \o t))
<1> DEFINE T == Range1(s) \cup Range1(t)
           u == s \o t
<1>1. s \in Seq(T) /\ t \in Seq(T)
  BY DEF Listed
<1> HIDE DEF T
<1>2. Len(s) \in Nat /\ Len(t) \in Nat /\ u \in Seq(T) /\ Len(u) = Len(s) + Len(t)
  BY <1>1
<1>3. \A i \in 1 .. Len(s) : u[i] = s[i]
  BY <1>1
<1>4. \A i \in Len(s) + 1 .. Len(s) + Len(t) : u[i] = t[i - Len(s)] /\ i - Len(s) \in 1 .. Len(t)
  BY <1>1, <1>2
<1>5. Listed(u)
  <2> HIDE DEF u
  <2> QED BY <1>2, ListOf
<1> HIDE DEF u
<1>keys. Len(TweetIds(u)) = Len(u) /\ \A k \in 1 .. Len(u) : TweetIds(u)[k] = u[k].tweet_id
  BY <1>5, KeysOf
<1>goal. SUFFICES ASSUME NEW i \in 1 .. Len(u), NEW j \in 1 .. Len(u), i # j
                  PROVE  u[i].tweet_id # u[j].tweet_id
  <2>1. (\A i, j \in 1 .. Len(u) : i # j => u[i].tweet_id # u[j].tweet_id) => Apart(TweetIds(u))
    BY <1>keys DEF Apart
  <2> QED BY <2>1 DEF u
<1>6. \A k \in 1 .. Len(u) : k \in 1 .. Len(s) \/ k \in Len(s) + 1 .. Len(s) + Len(t)
  BY <1>2
<1>7. \A k, l \in 1 .. Len(s) : k # l => s[k].tweet_id # s[l].tweet_id
  BY KeysOf DEF Apart
<1>8. \A k, l \in 1 .. Len(t) : k # l => t[k].tweet_id # t[l].tweet_id
  BY KeysOf DEF Apart
<1>9. \A k \in 1 .. Len(s), l \in 1 .. Len(t) : s[k].tweet_id # t[l].tweet_id
  BY DEF NoneShared, Range1
<1>10. CASE i \in 1 .. Len(s) /\ j \in 1 .. Len(s)
  BY <1>3, <1>7, <1>10, <1>goal
<1>11. CASE i \in 1 .. Len(s) /\ j \in Len(s) + 1 .. Len(s) + Len(t)
  BY <1>3, <1>4, <1>9, <1>11
<1>12. CASE i \in Len(s) + 1 .. Len(s) + Len(t) /\ j \in 1 .. Len(s)
  BY <1>3, <1>4, <1>9, <1>12
<1>13. CASE i \in Len(s) + 1 .. Len(s) + Len(t) /\ j \in Len(s) + 1 .. Len(s) + Len(t)
  <2>1. i - Len(s) # j - Len(s)
    BY <1>2, <1>13, <1>goal
  <2> QED BY <1>4, <1>8, <1>13, <2>1
<1> QED BY <1>6, <1>10, <1>11, <1>12, <1>13

\* Candidates of the same posts differ alike.
LEMMA SameDiffers ==
    ASSUME NEW s, Listed(s), NEW t, Listed(t), SamePosts(s, t)
    PROVE  /\ Apart(TweetIds(s)) => Apart(TweetIds(t))
           /\ Apart(OriginalTweetIds(s)) => Apart(OriginalTweetIds(t))
           /\ \A u : NoneShared(s, u) => NoneShared(t, u)
<1>1. /\ Len(TweetIds(s)) = Len(s) /\ Len(OriginalTweetIds(s)) = Len(s)
      /\ \A k \in 1 .. Len(s) : /\ TweetIds(s)[k] = s[k].tweet_id
                               /\ OriginalTweetIds(s)[k] = OriginalTweetId(s[k])
  BY KeysOf
<1>2. /\ Len(TweetIds(t)) = Len(t) /\ Len(OriginalTweetIds(t)) = Len(t)
      /\ \A k \in 1 .. Len(t) : /\ TweetIds(t)[k] = t[k].tweet_id
                               /\ OriginalTweetIds(t)[k] = OriginalTweetId(t[k])
  BY KeysOf
<1>3. Len(t) = Len(s) /\ \A k \in 1 .. Len(s) : /\ t[k].tweet_id = s[k].tweet_id
                                               /\ t[k].retweeted_id = s[k].retweeted_id
  BY DEF SamePosts
<1>4. \A k \in 1 .. Len(s) : OriginalTweetId(t[k]) = OriginalTweetId(s[k])
  BY <1>3 DEF OriginalTweetId
<1>5. Apart(TweetIds(s)) => Apart(TweetIds(t))
  BY <1>1, <1>2, <1>3 DEF Apart
<1>6. Apart(OriginalTweetIds(s)) => Apart(OriginalTweetIds(t))
  BY <1>1, <1>2, <1>3, <1>4 DEF Apart
<1>7. \A u : NoneShared(s, u) => NoneShared(t, u)
  BY <1>3 DEF NoneShared, Range1
<1> QED BY <1>5, <1>6, <1>7

\* A filter parts the candidates: what it keeps is drawn from them, and what
\* it removes it does not keep as well.
Parted(f, cs) ==
    /\ Listed(f.kept) /\ Listed(f.removed)
    /\ Drawn(f.kept, cs) /\ Range1(f.removed) \subseteq Range1(cs)
    /\ Apart(TweetIds(cs)) => NoneShared(f.removed, f.kept)

\* A filter that judges candidates by themselves does,
LEMMA PartitionParts ==
    ASSUME NEW cs, Listed(cs), NEW places, places \subseteq DOMAIN cs
    PROVE  Parted(Partition(cs, places), cs)
<1> DEFINE rest == DOMAIN cs \ places
           a == PickAt(cs, places)
           b == PickAt(cs, rest)
<1>1. Partition(cs, places).kept = a /\ Partition(cs, places).removed = b
  BY DEF Partition
<1>2. Listed(a) /\ Drawn(a, cs)
  BY PickedDrawn
<1>3. Listed(b) /\ Drawn(b, cs)
  <2>1. rest \subseteq DOMAIN cs
    OBVIOUS
  <2> HIDE DEF rest
  <2> QED BY <2>1, PickedDrawn
<1>4. Apart(TweetIds(cs)) => NoneShared(b, a)
  BY PartsShareNothing
<1> HIDE DEF a, b
<1>5. Range1(b) \subseteq Range1(cs)
  BY <1>3, DrawnDiffers
<1> QED BY <1>1, <1>2, <1>3, <1>4, <1>5 DEF Parted

\* and so does one that keeps all.
LEMMA KeepAllParts ==
    ASSUME NEW cs, Listed(cs)
    PROVE  Parted(KeepAll(cs), cs)
<1>1. KeepAll(cs).kept = cs /\ KeepAll(cs).removed = <<>>
  BY DEF KeepAll
<1>2. Range1(<<>>) = {} /\ Listed(<<>>)
  BY DEF Range1, Listed
<1>3. \A u : NoneShared(<<>>, u)
  BY <1>2 DEF NoneShared
<1> QED BY <1>1, <1>2, <1>3, DrawnWhole DEF Parted

\* Filters one behind the other do.
LEMMA PartedTwice ==
    ASSUME NEW cs, Listed(cs), NEW f, Parted(f, cs), NEW g, Parted(g, f.kept)
    PROVE  Parted([kept |-> g.kept, removed |-> f.removed \o g.removed], cs)
<1> DEFINE r == f.removed \o g.removed
<1>1. Listed(f.kept) /\ Listed(f.removed) /\ Listed(g.kept) /\ Listed(g.removed)
  BY DEF Parted
<1>2. Drawn(g.kept, cs)
  BY DrawnTwice DEF Parted
<1>3. Listed(r) /\ Range1(r) = Range1(f.removed) \cup Range1(g.removed)
  BY <1>1, Joined
<1>4. Range1(f.kept) \subseteq Range1(cs) /\ Range1(g.kept) \subseteq Range1(f.kept)
  BY <1>1, DrawnDiffers DEF Parted
<1>5. Range1(r) \subseteq Range1(cs)
  BY <1>3, <1>4 DEF Parted
<1>6. ASSUME Apart(TweetIds(cs)) PROVE NoneShared(r, g.kept)
  <2>1. Apart(TweetIds(f.kept))
    BY <1>1, <1>6, DrawnDiffers DEF Parted
  <2>2. NoneShared(f.removed, f.kept) /\ NoneShared(g.removed, g.kept)
    BY <1>6, <2>1 DEF Parted
  <2> QED BY <1>3, <1>4, <2>2 DEF NoneShared
<1> HIDE DEF r
<1>7. \A kept, removed : Listed(kept) /\ Listed(removed) /\ Drawn(kept, cs) /\ Range1(removed) \subseteq Range1(cs)
                         /\ (Apart(TweetIds(cs)) => NoneShared(removed, kept))
                         => Parted([kept |-> kept, removed |-> removed], cs)
  BY DEF Parted
<1> QED BY <1>1, <1>2, <1>3, <1>5, <1>6, <1>7 DEF r

\* The first of each key differ in their keys.
LEMMA FirstsDiffer ==
    ASSUME NEW cs, Listed(cs), NEW keys
    PROVE  LET f == FirstOfEach(cs, keys)
           IN  /\ Parted(f, cs)
               /\ keys = TweetIds(cs) => Apart(TweetIds(f.kept))
               /\ keys = OriginalTweetIds(cs) => Apart(OriginalTweetIds(f.kept))
<1> DEFINE places == {i \in DOMAIN cs : \A j \in 1..i - 1 : keys[j] # keys[i]}
           p == PickAt(cs, places)
           a == Ascending(places)
           f == FirstOfEach(cs, keys)
<1>1. f = Partition(cs, places) /\ f.kept = p
  BY DEF FirstOfEach, Partition
<1>2. places \subseteq DOMAIN cs /\ \A i \in places, j \in Nat \ {0} : j < i => keys[j] # keys[i]
  <2>1. DOMAIN cs = 1 .. Len(cs) /\ Len(cs) \in Nat
    BY DEF Listed
  <2> QED BY <2>1
<1> HIDE DEF places, f
<1>3. Parted(f, cs)
  BY <1>1, <1>2, PartitionParts
<1>4. cs \in Seq(Range1(cs))
  BY DEF Listed
<1>5. \A i \in 1 .. Len(p) : a[i] \in places /\ p[i] = cs[a[i]]
  BY <1>2, <1>4, Picked
<1>6. \A i, j \in 1 .. Len(p) : i < j => a[i] < a[j]
  BY <1>2, <1>4, Picked
<1>7. Listed(p)
  BY <1>2, PickedDrawn
<1> HIDE DEF p, a
<1>8. \A i \in 1 .. Len(p) : a[i] \in 1 .. Len(cs) /\ a[i] \in Nat \ {0} /\ a[i] \in Int
  <2>1. DOMAIN cs = 1 .. Len(cs) /\ Len(cs) \in Nat
    BY DEF Listed
  <2> QED BY <1>2, <1>5, <2>1
<1>9. Len(p) \in Nat
  BY <1>7, KeysOf
<1>10. \A i, j \in 1 .. Len(p) : i # j => keys[a[i]] # keys[a[j]]
  <2> SUFFICES ASSUME NEW i \in 1 .. Len(p), NEW j \in 1 .. Len(p), i # j PROVE keys[a[i]] # keys[a[j]]
    OBVIOUS
  <2>1. CASE i < j
    BY <1>2, <1>5, <1>6, <1>8, <2>1
  <2>2. CASE j < i
    BY <1>2, <1>5, <1>6, <1>8, <2>2
  <2> QED BY <1>9, <2>1, <2>2
<1>11. /\ Len(TweetIds(p)) = Len(p) /\ Len(OriginalTweetIds(p)) = Len(p)
       /\ \A k \in 1 .. Len(p) : /\ TweetIds(p)[k] = p[k].tweet_id
                                 /\ OriginalTweetIds(p)[k] = OriginalTweetId(p[k])
  BY <1>7, KeysOf
<1>12. \A k \in 1 .. Len(cs) : /\ TweetIds(cs)[k] = cs[k].tweet_id
                               /\ OriginalTweetIds(cs)[k] = OriginalTweetId(cs[k])
  BY KeysOf
<1>13. \A k \in 1 .. Len(p) : /\ TweetIds(p)[k] = TweetIds(cs)[a[k]]
                              /\ OriginalTweetIds(p)[k] = OriginalTweetIds(cs)[a[k]]
  BY <1>5, <1>8, <1>11, <1>12
<1>14. keys = TweetIds(cs) => Apart(TweetIds(p))
  BY <1>10, <1>11, <1>13 DEF Apart
<1>15. keys = OriginalTweetIds(cs) => Apart(OriginalTweetIds(p))
  BY <1>10, <1>11, <1>13 DEF Apart
<1> QED BY <1>1, <1>3, <1>14, <1>15 DEF f, p

\* Every filter before the selection parts the candidates.
LEMMA FilterParts ==
    ASSUME NEW q, NEW time, NEW filter, filter # "dedup_conversation", NEW cs, Listed(cs)
    PROVE  Parted(RunFilter(q, time, filter, cs), cs)
<1>1. Parted(KeepAll(cs), cs)
  BY KeepAllParts
<1>2. \A keys : Parted(FirstOfEach(cs, keys), cs)
  BY FirstsDiffer
<1>3. Parted(TopicIdsFilter(q, cs), cs)
  <2> DEFINE asking == {i \in DOMAIN cs : IF IsBulkTopicRequest(q)
                                          THEN BulkTopicKept(q, cs[i])
                                          ELSE TopicKept(q, cs[i])}
             asked == IF ~IsTopicRequest(q) THEN KeepAll(cs) ELSE Partition(cs, asking)
             places == {i \in DOMAIN asked.kept : SnoozedKept(q, asked.kept[i])}
             snoozed == Partition(asked.kept, places)
  <2>1. TopicIdsFilter(q, cs) = IF ~HasExcludedTopics(q) THEN asked
            ELSE [kept |-> snoozed.kept, removed |-> asked.removed \o snoozed.removed]
    BY DEF TopicIdsFilter
  <2>2. Parted(asked, cs)
    <3>1. asking \subseteq DOMAIN cs
      OBVIOUS
    <3> HIDE DEF asking
    <3> QED BY <1>1, <3>1, PartitionParts
  <2> HIDE DEF asked
  <2>3. Parted(snoozed, asked.kept)
    <3>1. places \subseteq DOMAIN asked.kept /\ Listed(asked.kept)
      BY <2>2 DEF Parted
    <3> HIDE DEF places
    <3> QED BY <3>1, PartitionParts
  <2> HIDE DEF snoozed
  <2>4. Parted([kept |-> snoozed.kept, removed |-> asked.removed \o snoozed.removed], cs)
    BY <2>2, <2>3, PartedTwice
  <2> QED BY <2>1, <2>2, <2>4
<1>4. Parted(Partition(cs, {i \in DOMAIN cs : Keeps(q, time, filter, cs[i])}), cs)
  <2> DEFINE places == {i \in DOMAIN cs : Keeps(q, time, filter, cs[i])}
  <2>1. places \subseteq DOMAIN cs
    OBVIOUS
  <2> HIDE DEF places
  <2>2. Parted(Partition(cs, places), cs)
    BY <2>1, PartitionParts
  <2> QED BY <2>2 DEF places
<1>5. Parted(DropDuplicates(cs), cs) /\ Parted(RetweetDeduplication(cs), cs)
  BY <1>2 DEF DropDuplicates, RetweetDeduplication
<1> QED BY <1>1, <1>3, <1>4, <1>5 DEF RunFilter

\* Duplicates of a post and of an original go whatever the request.
LEMMA AlwaysDeduplicates ==
    ASSUME NEW q, NEW time, NEW cs
    PROVE  /\ RunFilter(q, time, "drop_duplicates", cs) = FirstOfEach(cs, TweetIds(cs))
           /\ RunFilter(q, time, "retweet_dedup", cs) = FirstOfEach(cs, OriginalTweetIds(cs))
BY DEF RunFilter, FilterEnabled, DropDuplicates, RetweetDeduplication

\* What a filter of a row makes of what those before it kept and removed.
LEMMA PassMeans ==
    ASSUME NEW q, NEW time, NEW filter, NEW acc, Listed(acc.kept)
    PROVE  LET ran == RunFilter(q, time, filter, acc.kept)
           IN  Pass(q, time, acc, filter) = [kept |-> ran.kept, removed |-> acc.removed \o ran.removed]
<1> DEFINE ran == RunFilter(q, time, filter, acc.kept)
           all == acc.removed \o ran.removed
<1>1. acc.kept \in Seq(Range1(acc.kept))
  BY DEF Listed
<1>2. ran = [kept |-> ran.kept, removed |-> ran.removed]
  BY <1>1, FilterSifts DEF Sifted
<1>3. Pass(q, time, acc, filter) = [ran EXCEPT !.removed = all]
  BY DEF Pass
<1> HIDE DEF ran, all
<1>4. [ran EXCEPT !.removed = all] = [kept |-> ran.kept, removed |-> all]
  BY <1>2
<1> QED BY <1>3, <1>4 DEF ran, all

\* One filter more parts the candidates still.
LEMMA PassParts ==
    ASSUME NEW q, NEW time, NEW filter, NEW cs, Listed(cs), NEW acc, Parted(acc, cs),
           Parted(RunFilter(q, time, filter, acc.kept), acc.kept)
    PROVE  /\ Parted(Pass(q, time, acc, filter), cs)
           /\ Pass(q, time, acc, filter).kept = RunFilter(q, time, filter, acc.kept).kept
<1> DEFINE ran == RunFilter(q, time, filter, acc.kept)
           all == acc.removed \o ran.removed
<1>1. Listed(acc.kept)
  BY DEF Parted
<1>2. Pass(q, time, acc, filter) = [kept |-> ran.kept, removed |-> all]
  BY <1>1, PassMeans
<1> HIDE DEF ran
<1>3. Parted([kept |-> ran.kept, removed |-> all], cs)
  BY PartedTwice DEF ran
<1> HIDE DEF all
<1>4. [kept |-> ran.kept, removed |-> all].kept = ran.kept
  OBVIOUS
<1> QED BY <1>2, <1>3, <1>4 DEF ran

\* The filters before the selection part the candidates, and what they keep
\* differs in posts and in originals.
LEMMA Filtered ==
    ASSUME NEW q, NEW time, NEW cs, Listed(cs)
    PROVE  LET f == Filter(q, time, cs)
           IN  Parted(f, cs) /\ Apart(TweetIds(f.kept)) /\ Apart(OriginalTweetIds(f.kept))
<1> DEFINE n == Len(PhoenixFilters)
<1>1. n = 14 /\ \A k \in 1 .. 14 : PhoenixFilters[k] # "dedup_conversation"
  BY DEF PhoenixFilters
<1>2. PhoenixFilters[1] = "drop_duplicates" /\ PhoenixFilters[5] = "retweet_dedup"
  BY DEF PhoenixFilters
<1> DEFINE S == Range1(cs)
<1>3. cs \in Seq(S) /\ Len(PhoenixFilters) \in Nat
  BY <1>1 DEF Listed
<1> HIDE DEF S
<1>4. PICK passed : Passes(passed, q, time, PhoenixFilters, cs, S)
  BY <1>3, FilterSteps
<1> HIDE DEF n
<1> DEFINE Holds(k) == /\ Parted(passed[k], cs)
                       /\ k >= 1 => Apart(TweetIds(passed[k].kept))
                       /\ k >= 5 => Apart(OriginalTweetIds(passed[k].kept))
           T == {k \in 0 .. 14 : Holds(k)}
           g == [k \in 0 .. 14 |-> k]
<1>5. g[0] \in T
  BY <1>4, KeepAllParts DEF Passes
<1>6. ASSUME NEW k \in 1 .. 14, g[k - 1] \in T PROVE g[k] \in T
  <2> DEFINE acc == passed[k - 1]
             filter == PhoenixFilters[k]
             ran == RunFilter(q, time, filter, acc.kept)
  <2>1. k - 1 \in 0 .. 14 /\ k \in 0 .. 14 /\ k \in 1 .. Len(PhoenixFilters)
    BY <1>1 DEF n
  <2>2. Parted(acc, cs) /\ (k - 1 >= 1 => Apart(TweetIds(acc.kept)))
        /\ (k - 1 >= 5 => Apart(OriginalTweetIds(acc.kept)))
    BY <1>6, <2>1
  <2>3. filter # "dedup_conversation" /\ Listed(acc.kept)
    BY <1>1, <2>2 DEF Parted
  <2>4. passed[k] = Pass(q, time, acc, filter)
    BY <1>4, <2>1 DEF Passes
  <2>5. Parted(ran, acc.kept)
    BY <2>3, FilterParts
  <2>6. Parted(passed[k], cs) /\ passed[k].kept = ran.kept
    <3> HIDE DEF acc, filter
    <3>1. Parted(acc, cs) /\ Parted(RunFilter(q, time, filter, acc.kept), acc.kept)
      BY <2>2, <2>5
    <3>2. Parted(Pass(q, time, acc, filter), cs)
      BY <3>1, PassParts
    <3>3. Pass(q, time, acc, filter).kept = RunFilter(q, time, filter, acc.kept).kept
      BY <3>1, PassParts
    <3> QED BY <2>4, <3>2, <3>3
  <2>7. Listed(ran.kept) /\ Drawn(ran.kept, acc.kept)
    BY <2>5 DEF Parted
  <2>8. /\ Apart(TweetIds(acc.kept)) => Apart(TweetIds(ran.kept))
        /\ Apart(OriginalTweetIds(acc.kept)) => Apart(OriginalTweetIds(ran.kept))
    BY <2>3, <2>7, DrawnDiffers
  <2>9. k = 1 => Apart(TweetIds(ran.kept))
    BY <1>2, <2>3, AlwaysDeduplicates, FirstsDiffer
  <2>10. k = 5 => Apart(OriginalTweetIds(ran.kept))
    BY <1>2, <2>3, AlwaysDeduplicates, FirstsDiffer
  <2> HIDE DEF ran, acc
  <2>11. Apart(TweetIds(passed[k].kept)) /\ (k >= 5 => Apart(OriginalTweetIds(passed[k].kept)))
    BY <2>2, <2>6, <2>8, <2>9, <2>10
  <2> QED BY <2>1, <2>6, <2>11
<1> HIDE DEF T, g
<1>7. \A k \in 0 .. 14 : g[k] \in T
  <2>1. 14 \in Nat
    OBVIOUS
  <2> QED BY <1>5, <1>6, <2>1, StaysIn
<1>8. Holds(14)
  BY <1>7 DEF g, T
<1>9. Filter(q, time, cs) = passed[14]
  BY <1>1, <1>4 DEF Filter, n, Passes
<1> QED BY <1>8, <1>9

\* Two candidates of a conversation, the second the better or as good.
Under(c, d) == ConversationId(c) = ConversationId(d) /\ Get(c.score, 0) <= Get(d.score, 0)

Differing(s) == \A i, j \in 1 .. Len(s) : i # j => ConversationId(s[i]) # ConversationId(s[j])

BestKept(acc) ==
    /\ Differing(acc.kept)
    /\ \A c \in Range1(acc.removed) : \E d \in Range1(acc.kept) : Under(c, d)

\* The ends of a list that grows.
LEMMA Appended ==
    ASSUME NEW T, NEW s \in Seq(T), NEW c \in T
    PROVE  /\ Append(s, c) \in Seq(T) /\ Len(s) \in Nat /\ Len(Append(s, c)) = Len(s) + 1
           /\ \A i \in 1 .. Len(s) : Append(s, c)[i] = s[i]
           /\ Append(s, c)[Len(s) + 1] = c
           /\ Range1(Append(s, c)) = Range1(s) \cup {c}
<1>1. /\ Append(s, c) \in Seq(T) /\ Len(s) \in Nat /\ Len(Append(s, c)) = Len(s) + 1
      /\ \A i \in 1 .. Len(s) : Append(s, c)[i] = s[i]
      /\ Append(s, c)[Len(s) + 1] = c
  OBVIOUS
<1> DEFINE t == Append(s, c)
<1> HIDE DEF t
<1>2. Range1(t) \subseteq Range1(s) \cup {c}
  <2> SUFFICES ASSUME NEW i \in 1 .. Len(t) PROVE t[i] \in Range1(s) \cup {c}
    BY DEF Range1
  <2>1. i \in 1 .. Len(s) \/ i = Len(s) + 1
    BY <1>1 DEF t
  <2> QED BY <1>1, <2>1 DEF Range1, t
<1>3. Range1(s) \cup {c} \subseteq Range1(t)
  <2>1. \A i \in 1 .. Len(s) : i \in 1 .. Len(t) /\ t[i] = s[i]
    BY <1>1 DEF t
  <2>2. Len(s) + 1 \in 1 .. Len(t) /\ t[Len(s) + 1] = c
    BY <1>1 DEF t
  <2> QED BY <2>1, <2>2 DEF Range1
<1> QED BY <1>1, <1>2, <1>3 DEF t

\* Seeing one candidate more keeps the best of each conversation.
LEMMA SeeKeeps ==
    ASSUME NEW T, \A c \in T : Get(c.score, 0) \in Int,
           NEW kept \in Seq(T), NEW removed \in Seq(T), NEW c \in T,
           BestKept([kept |-> kept, removed |-> removed])
    PROVE  BestKept(See([kept |-> kept, removed |-> removed], c))
<1> DEFINE acc == [kept |-> kept, removed |-> removed]
           at == {i \in 1 .. Len(kept) : ConversationId(kept[i]) = ConversationId(c)}
           i == CHOOSE j \in at : TRUE
<1>1. See(acc, c) = IF at = {} THEN [kept |-> Append(kept, c), removed |-> removed]
                    ELSE IF Outranks(c, kept[i])
                    THEN [kept |-> [kept EXCEPT ![i] = c], removed |-> Append(removed, kept[i])]
                    ELSE [kept |-> kept, removed |-> Append(removed, c)]
  <2>1. acc.kept = kept /\ acc.removed = removed
    OBVIOUS
  <2>2. \A x : [acc EXCEPT !.kept = x] = [kept |-> x, removed |-> removed]
    OBVIOUS
  <2>3. \A x : [acc EXCEPT !.removed = x] = [kept |-> kept, removed |-> x]
    OBVIOUS
  <2> DEFINE more == Append(kept, c)
             gone == Append(removed, c)
  <2>4. See(acc, c) = IF at = {} THEN [acc EXCEPT !.kept = more]
                      ELSE IF Outranks(c, kept[i])
                      THEN [kept |-> [kept EXCEPT ![i] = c], removed |-> Append(removed, kept[i])]
                      ELSE [acc EXCEPT !.removed = gone]
    BY DEF See
  <2> HIDE DEF acc, at, i, more, gone
  <2> QED BY <2>2, <2>3, <2>4 DEF more, gone
<1>2. /\ Differing(kept)
      /\ \A x \in Range1(removed) : \E d \in Range1(kept) : Under(x, d)
  BY DEF BestKept
<1>3. at # {} => i \in 1 .. Len(kept) /\ ConversationId(kept[i]) = ConversationId(c)
  OBVIOUS
<1>4. \A j \in 1 .. Len(kept) : j \notin at => ConversationId(kept[j]) # ConversationId(c)
  OBVIOUS
<1>5. \A k, x : Differing(k) /\ (\A e \in Range1(x) : \E d \in Range1(k) : Under(e, d))
                => BestKept([kept |-> k, removed |-> x])
  BY DEF BestKept
<1> HIDE DEF acc, at, i
<1>6. Len(kept) \in Nat
  OBVIOUS
<1>7. CASE at = {}
  <2> DEFINE k == Append(kept, c)
  <2>1. /\ Len(k) = Len(kept) + 1 /\ k[Len(kept) + 1] = c /\ Range1(k) = Range1(kept) \cup {c}
        /\ \A j \in 1 .. Len(kept) : k[j] = kept[j]
    BY Appended
  <2> HIDE DEF k
  <2>2. \A m \in 1 .. Len(k) : m \in 1 .. Len(kept) \/ m = Len(kept) + 1
    BY <1>6, <2>1
  <2>3. Differing(k)
    BY <1>2, <1>4, <1>7, <2>1, <2>2 DEF Differing
  <2>4. \A e \in Range1(removed) : \E d \in Range1(k) : Under(e, d)
    BY <1>2, <2>1
  <2>5. BestKept([kept |-> k, removed |-> removed])
    BY <1>5, <2>3, <2>4
  <2> QED BY <1>1, <1>7, <2>5 DEF acc, k
<1>8. CASE at # {} /\ Outranks(c, kept[i])
  <2> DEFINE k == [kept EXCEPT ![i] = c]
             x == Append(removed, kept[i])
  <2>1. i \in 1 .. Len(kept) /\ ConversationId(kept[i]) = ConversationId(c) /\ kept[i] \in T
    BY <1>3, <1>8
  <2>2. Len(k) = Len(kept) /\ k[i] = c /\ \A j \in 1 .. Len(kept) : j # i => k[j] = kept[j]
    BY <2>1
  <2>3. Range1(x) = Range1(removed) \cup {kept[i]}
    BY <2>1, Appended
  <2> HIDE DEF k, x
  <2>4. \A j \in 1 .. Len(kept) : ConversationId(k[j]) = ConversationId(kept[j])
    BY <2>1, <2>2
  <2>5. Differing(k)
    BY <1>2, <2>2, <2>4 DEF Differing
  <2>6. Under(kept[i], c) /\ c \in Range1(k)
    <3>1. Get(kept[i].score, 0) \in Int /\ Get(c.score, 0) \in Int
      BY <2>1
    <3>2. Get(kept[i].score, 0) <= Get(c.score, 0)
      BY <1>8, <3>1 DEF Outranks
    <3> QED BY <2>1, <2>2, <3>2 DEF Under, Range1
  <2>7. ASSUME NEW e \in Range1(removed) PROVE \E d \in Range1(k) : Under(e, d)
    <3>1. PICK j \in 1 .. Len(kept) : Under(e, kept[j])
      BY <1>2 DEF Range1
    <3>2. CASE j = i
      <4>1. e \in T /\ Get(e.score, 0) \in Int /\ Get(kept[i].score, 0) \in Int /\ Get(c.score, 0) \in Int
        BY <2>1 DEF Range1
      <4>2. Under(e, c)
        BY <2>6, <3>1, <3>2, <4>1 DEF Under
      <4> QED BY <2>6, <4>2
    <3>3. CASE j # i
      BY <2>2, <3>1, <3>3 DEF Range1
    <3> QED BY <3>2, <3>3
  <2>8. \A e \in Range1(x) : \E d \in Range1(k) : Under(e, d)
    BY <2>3, <2>6, <2>7
  <2>9. BestKept([kept |-> k, removed |-> x])
    BY <1>5, <2>5, <2>8
  <2> QED BY <1>1, <1>8, <2>9 DEF acc, k, x
<1>9. CASE at # {} /\ ~Outranks(c, kept[i])
  <2> DEFINE x == Append(removed, c)
  <2>1. Range1(x) = Range1(removed) \cup {c}
    BY Appended
  <2> HIDE DEF x
  <2>2. i \in 1 .. Len(kept) /\ ConversationId(kept[i]) = ConversationId(c) /\ kept[i] \in T
    BY <1>3, <1>9
  <2>3. Under(c, kept[i]) /\ kept[i] \in Range1(kept)
    <3>1. Get(kept[i].score, 0) \in Int /\ Get(c.score, 0) \in Int
      BY <2>2
    <3>2. Get(c.score, 0) <= Get(kept[i].score, 0)
      BY <1>9, <3>1 DEF Outranks
    <3> QED BY <2>2, <3>2 DEF Under, Range1
  <2>4. \A e \in Range1(x) : \E d \in Range1(kept) : Under(e, d)
    BY <1>2, <2>1, <2>3
  <2>5. BestKept([kept |-> kept, removed |-> x])
    BY <1>2, <1>5, <2>4
  <2> QED BY <1>1, <1>9, <2>5 DEF acc, x
<1> QED BY <1>7, <1>8, <1>9 DEF acc

\* What differs in its conversations is drawn once.
LEMMA DifferingDrawn ==
    ASSUME NEW cs, Listed(cs), NEW part \in Seq(Range1(cs)), Differing(part)
    PROVE  Drawn(part, cs)
<1> DEFINE at == [k \in 1 .. Len(part) |-> CHOOSE i \in 1 .. Len(cs) : cs[i] = part[k]]
<1>1. \A k \in 1 .. Len(part) : \E i \in 1 .. Len(cs) : cs[i] = part[k]
  BY DEF Range1
<1>2. \A k \in 1 .. Len(part) : at[k] \in 1 .. Len(cs) /\ cs[at[k]] = part[k]
  BY <1>1
<1>3. at \in [1 .. Len(part) -> 1 .. Len(cs)]
  BY <1>2
<1> HIDE DEF at
<1>4. \A j, k \in 1 .. Len(part) : j # k => at[j] # at[k]
  BY <1>2 DEF Differing
<1> QED BY <1>2, <1>3, <1>4 DEF Drawn

\* Of each conversation one candidate stays, the best of it.
LEMMA BestStays ==
    ASSUME NEW cs, Listed(cs), NEW p, Candidates(p, cs)
    PROVE  LET f == DedupConversation(cs)
           IN  /\ Listed(f.kept) /\ Listed(f.removed)
               /\ Drawn(f.kept, cs) /\ Range1(f.removed) \subseteq Range1(cs)
               /\ BestKept(f)
<1> DEFINE T == Range1(cs)
           f == DedupConversation(cs)
<1>1. cs \in Seq(T) /\ Len(cs) \in Nat
  BY DEF Listed
<1>2. \A c \in T : Get(c.score, 0) \in Int
  BY MaybeInt DEF Range1, Candidates, Candidate
<1>3. \A k \in 1 .. Len(cs) : cs[k] \in T
  BY DEF Range1
<1> HIDE DEF T
<1>4. PICK seen : Sees(seen, cs, T)
  BY <1>1, DedupSteps
<1>5. /\ seen[0] = KeepAll(<<>>) /\ f = seen[Len(cs)]
      /\ \A k \in 1 .. Len(cs) : seen[k] = See(seen[k - 1], cs[k])
      /\ \A k \in 0 .. Len(cs) : seen[k] \in [kept : Seq(T), removed : Seq(T)]
  BY <1>4 DEF Sees
<1> HIDE DEF f
<1> DEFINE G == {k \in 0 .. Len(cs) : BestKept(seen[k])}
           g == [k \in 0 .. Len(cs) |-> k]
<1>6. g[0] \in G
  <2>1. seen[0].kept = <<>> /\ seen[0].removed = <<>>
    BY <1>5 DEF KeepAll
  <2>2. Range1(<<>>) = {}
    BY DEF Range1
  <2>3. BestKept(seen[0])
    BY <2>1, <2>2 DEF BestKept, Differing
  <2> QED BY <1>1, <2>3
<1>7. ASSUME NEW k \in 1 .. Len(cs), g[k - 1] \in G PROVE g[k] \in G
  <2>1. k - 1 \in 0 .. Len(cs) /\ k \in 0 .. Len(cs)
    BY <1>1
  <2>2. BestKept(seen[k - 1])
    BY <1>7, <2>1
  <2>3. PICK kept \in Seq(T), removed \in Seq(T) : seen[k - 1] = [kept |-> kept, removed |-> removed]
    BY <1>5, <2>1
  <2>4. BestKept(See([kept |-> kept, removed |-> removed], cs[k]))
    BY <1>2, <1>3, <2>2, <2>3, SeeKeeps
  <2>5. BestKept(seen[k])
    BY <1>5, <2>3, <2>4
  <2> QED BY <2>1, <2>5
<1> HIDE DEF G, g
<1>8. \A k \in 0 .. Len(cs) : g[k] \in G
  BY <1>1, <1>6, <1>7, StaysIn
<1>9. BestKept(f)
  <2>1. Len(cs) \in 0 .. Len(cs)
    BY <1>1
  <2> QED BY <1>5, <1>8, <2>1 DEF g, G
<1>10. f.kept \in Seq(T) /\ f.removed \in Seq(T)
  <2>1. Len(cs) \in 0 .. Len(cs)
    BY <1>1
  <2> QED BY <1>5, <2>1
<1>11. Drawn(f.kept, cs)
  BY <1>9, <1>10, DifferingDrawn DEF T, BestKept
<1>12. Listed(f.kept) /\ Listed(f.removed) /\ Range1(f.removed) \subseteq T
  BY <1>10, ListOf
<1> QED BY <1>9, <1>11, <1>12 DEF T, f

\* A candidate the visibility filters hide.
Hidden(c) == ShouldDropReason(c.visibility) \/ Get(c.drop_ancillary, FALSE)

\* A filter of visibility removes what is hidden.
LEMMA HidingParts ==
    ASSUME NEW q, NEW time, NEW filter \in {"vf", "ancillary_vf"}, NEW cs, Listed(cs)
    PROVE  /\ Parted(RunFilter(q, time, filter, cs), cs)
           /\ \A c \in Range1(RunFilter(q, time, filter, cs).removed) : Hidden(c)
<1> DEFINE places == {i \in DOMAIN cs : Keeps(q, time, filter, cs[i])}
           rest == DOMAIN cs \ places
<1>1. RunFilter(q, time, filter, cs) = Partition(cs, places)
  BY DEF RunFilter, FilterEnabled
<1>2. \A c : ~Keeps(q, time, filter, c) => Hidden(c)
  BY DEF Keeps, Hidden
<1>3. rest \subseteq DOMAIN cs /\ places \subseteq DOMAIN cs
  OBVIOUS
<1>4. \A m \in rest : Hidden(cs[m])
  BY <1>2
<1> HIDE DEF places, rest
<1>5. \A c \in Range1(PickAt(cs, rest)) : \E m \in rest : c = cs[m]
  BY <1>3, PickedDrawn DEF Range1
<1>6. Partition(cs, places).removed = PickAt(cs, rest)
  BY DEF Partition, rest
<1>7. Parted(Partition(cs, places), cs)
  BY <1>3, PartitionParts
<1>8. \A c \in Range1(Partition(cs, places).removed) : Hidden(c)
  BY <1>4, <1>5, <1>6
<1> QED BY <1>1, <1>7, <1>8

\* Behind the selection a candidate goes if it is hidden, or if one that stays
\* outranks it.
LEMMA PostSelected ==
    ASSUME NEW q, NEW time, NEW cs, Listed(cs), NEW p, Candidates(p, cs)
    PROVE  LET f == FilterPostSelection(q, time, cs)
           IN  /\ Listed(f.kept) /\ Listed(f.removed)
               /\ Drawn(f.kept, cs) /\ Range1(f.removed) \subseteq Range1(cs)
               /\ Differing(f.kept)
               /\ \A c \in Range1(f.removed) : Hidden(c) \/ \E d \in Range1(f.kept) : Under(c, d)
<1> DEFINE S == Range1(cs)
           f == FilterPostSelection(q, time, cs)
<1>1. /\ Len(PostSelectionFilters) = 3 /\ PostSelectionFilters[1] = "vf"
      /\ PostSelectionFilters[2] = "ancillary_vf" /\ PostSelectionFilters[3] = "dedup_conversation"
  BY DEF PostSelectionFilters
<1>2. cs \in Seq(S) /\ Len(PostSelectionFilters) \in Nat
  BY <1>1 DEF Listed
<1> HIDE DEF S
<1>3. PICK passed : Passes(passed, q, time, PostSelectionFilters, cs, S)
  BY <1>2, FilterSteps
<1>4. /\ passed[0] = KeepAll(cs) /\ f = passed[3]
      /\ \A k \in 1 .. 3 : passed[k] = Pass(q, time, passed[k - 1], PostSelectionFilters[k])
  BY <1>1, <1>3 DEF Passes, FilterPostSelection
<1> HIDE DEF f
<1> DEFINE vf == RunFilter(q, time, "vf", cs)
           anc == RunFilter(q, time, "ancillary_vf", vf.kept)
           best == DedupConversation(anc.kept)
           hid == vf.removed \o anc.removed
<1>5. Parted(vf, cs) /\ \A c \in Range1(vf.removed) : Hidden(c)
  BY HidingParts
<1>6. Parted(anc, vf.kept) /\ \A c \in Range1(anc.removed) : Hidden(c)
  <2> HIDE DEF vf
  <2> QED BY <1>5, HidingParts DEF Parted
<1>7. passed[1] = [kept |-> vf.kept, removed |-> <<>> \o vf.removed]
  <2>1. passed[0].kept = cs /\ passed[0].removed = <<>>
    BY <1>4 DEF KeepAll
  <2>2. passed[1] = Pass(q, time, passed[0], "vf")
    BY <1>1, <1>4
  <2> DEFINE acc == passed[0]
             ran == RunFilter(q, time, "vf", acc.kept)
  <2>3. Pass(q, time, acc, "vf") = [kept |-> ran.kept, removed |-> acc.removed \o ran.removed]
    <3>1. Listed(acc.kept)
      BY <2>1
    <3> HIDE DEF acc
    <3> QED BY <3>1, PassMeans
  <2>4. ran = vf /\ acc.removed = <<>>
    BY <2>1
  <2> HIDE DEF acc, ran, vf
  <2> QED BY <2>2, <2>3, <2>4 DEF acc
<1>8. <<>> \o vf.removed = vf.removed
  BY <1>5 DEF Parted, Listed
<1>9. passed[2] = [kept |-> anc.kept, removed |-> hid]
  <2>1. passed[2] = Pass(q, time, passed[1], "ancillary_vf")
    BY <1>1, <1>4
  <2> HIDE DEF vf
  <2>2. passed[1].kept = vf.kept /\ passed[1].removed = vf.removed /\ Listed(vf.kept)
    BY <1>5, <1>7, <1>8 DEF Parted
  <2> QED BY <2>1, <2>2, PassMeans
<1>10. RunFilter(q, time, "dedup_conversation", anc.kept) = best
  BY DEF RunFilter, FilterEnabled
<1>11. f = [kept |-> best.kept, removed |-> hid \o best.removed]
  <2>1. passed[3] = Pass(q, time, passed[2], "dedup_conversation")
    BY <1>1, <1>4
  <2> HIDE DEF anc, hid, best
  <2>2. passed[2].kept = anc.kept /\ passed[2].removed = hid /\ Listed(anc.kept)
    BY <1>6, <1>9 DEF Parted
  <2> DEFINE acc == passed[2]
             ran == RunFilter(q, time, "dedup_conversation", acc.kept)
  <2>3. Pass(q, time, acc, "dedup_conversation") = [kept |-> ran.kept, removed |-> acc.removed \o ran.removed]
    <3>1. Listed(acc.kept)
      BY <2>2
    <3> HIDE DEF acc
    <3> QED BY <3>1, PassMeans
  <2>4. ran = best /\ acc.removed = hid
    BY <1>10, <2>2
  <2> HIDE DEF acc, ran
  <2> QED BY <1>4, <2>1, <2>3, <2>4 DEF acc
<1> HIDE DEF vf, anc
<1>12. Listed(vf.kept) /\ Listed(vf.removed) /\ Listed(anc.kept) /\ Listed(anc.removed)
  BY <1>5, <1>6 DEF Parted
<1>13. Drawn(anc.kept, cs)
  BY <1>5, <1>6, DrawnTwice DEF Parted
<1>14. /\ Range1(vf.kept) \subseteq Range1(cs) /\ Range1(anc.kept) \subseteq Range1(cs)
  BY <1>5, <1>12, <1>13, DrawnDiffers DEF Parted
<1>15. Candidates(p, anc.kept)
  <2>1. anc.kept \in Seq(Range1(anc.kept))
    BY <1>12 DEF Listed
  <2> QED BY <1>14 DEF Candidates, Range1
<1>16. /\ Listed(best.kept) /\ Listed(best.removed)
       /\ Drawn(best.kept, anc.kept) /\ Range1(best.removed) \subseteq Range1(anc.kept)
       /\ BestKept(best)
  BY <1>12, <1>15, BestStays
<1> HIDE DEF best
<1>17. Drawn(best.kept, cs)
  BY <1>13, <1>16, DrawnTwice
<1>18. Listed(hid) /\ Range1(hid) = Range1(vf.removed) \cup Range1(anc.removed)
  BY <1>12, Joined
<1> HIDE DEF hid
<1>19. Listed(hid \o best.removed) /\ Range1(hid \o best.removed) = Range1(hid) \cup Range1(best.removed)
  BY <1>16, <1>18, Joined
<1> DEFINE gone == hid \o best.removed
<1> HIDE DEF gone
<1>20. f.kept = best.kept /\ f.removed = gone
  BY <1>11 DEF gone
<1>21. Range1(gone) \subseteq Range1(cs)
  BY <1>5, <1>6, <1>14, <1>16, <1>18, <1>19 DEF Parted, gone
<1>22. \A c \in Range1(gone) : Hidden(c) \/ \E d \in Range1(best.kept) : Under(c, d)
  BY <1>5, <1>6, <1>16, <1>18, <1>19 DEF gone, BestKept
<1>23. Differing(best.kept)
  BY <1>16 DEF BestKept
<1> QED BY <1>16, <1>17, <1>19, <1>20, <1>21, <1>22, <1>23 DEF f, gone

\* An answer that says nothing of what a post retweets.
Quiet(e) == "retweeted_id" \notin DOMAIN e

QuietCache(cache) == \A k \in DOMAIN cache : Quiet(cache[k])

\* The hydrators behind the selection leave every candidate its post, its
\* original and its score, if the verdicts in the cache do.
LEMMA PostSelectionSpares ==
    ASSUME NEW q, NEW faults, NEW cs, Listed(cs), NEW cached, HarmlessCache(cached.brand),
           QuietCache(cached.brand), NEW p, Candidates(p, cs)
    PROVE  LET h == HydratePostSelection(q, faults, cs, cached)
           IN  /\ Listed(h.candidates) /\ Candidates(p, h.candidates)
               /\ SamePosts(cs, h.candidates) /\ Spared(cs, h.candidates)
               /\ QuietCache(h.inserts.brand)
<1> DEFINE n == Len(cs)
           brand == AdsBrandSafetyHydrator(q, faults, cs, cached.brand)
           visible == VFHydrator(faults, cs)
           brandVf == AdsBrandSafetyVfHydrator(q, faults, cs)
           replied == FollowingRepliedUsers(q, cs)
           answers == <<visible, brand.results, brandVf, replied>>
           of(i) == MapSeq(answers, LAMBDA results : results[i])
           h == HydratePostSelection(q, faults, cs, cached)
<1>1. /\ h.candidates = RunHydrators(cs, answers)
      /\ h.inserts = [m \in CacheNames |-> IF m = "brand" THEN brand.inserts ELSE <<>>]
  BY DEF HydratePostSelection
<1>2. /\ Quiet(<<>>)
      /\ \A v : Quiet([verdict |-> v])
      /\ \A v : Quiet([replied |-> v])
      /\ \A v, w : Quiet([visibility |-> v, drop_ancillary |-> w])
  BY DEF Quiet
<1>a. Quiet(Get(None, <<>>))
  BY <1>2, Gets
<1>b. \A e : Quiet(e) => Quiet(Get(Some(e), <<>>))
  BY Gets
<1>c. \A v : Quiet(Get(Some([verdict |-> v]), <<>>))
  BY <1>2, <1>b
<1>d. \A v : Quiet(Get(Some([replied |-> v]), <<>>))
  BY <1>2, <1>b
<1>e. \A v, w : Quiet(Get(Some([visibility |-> v, drop_ancillary |-> w]), <<>>))
  BY <1>2, <1>b
<1>3. \A call, c : Quiet(Get(BrandSafety(call, faults, c), <<>>))
  <2>1. \A call, c : \/ BrandSafety(call, faults, c) = None
                     \/ \E v : BrandSafety(call, faults, c) = Some([verdict |-> v])
    BY DEF BrandSafety
  <2> QED BY <1>a, <1>c, <2>1
<1>4. \A i \in 1 .. n : Quiet(Get(visible[i], <<>>))
  <2>1. \A i \in 1 .. n : \/ visible[i] = None
                          \/ \E v, w : visible[i] = Some([visibility |-> v, drop_ancillary |-> w])
    BY DEF VFHydrator, MapSeq
  <2> HIDE DEF visible
  <2> QED BY <1>a, <1>e, <2>1
<1>5. \A i \in 1 .. n : Quiet(Get(replied[i], <<>>))
  <2>1. \A i \in 1 .. n : replied[i] = None \/ \E v : replied[i] = Some([replied |-> v])
    BY DEF FollowingRepliedUsers
  <2> HIDE DEF replied
  <2> QED BY <1>a, <1>d, <2>1
<1>6. \A i \in 1 .. n : Quiet(Get(brandVf[i], <<>>))
  <2>1. \A i \in 1 .. n : brandVf[i] = IF q.params.brand_safety = "vf"
                                       THEN BrandSafety("vf_labels", faults, cs[i]) ELSE None
    BY DEF AdsBrandSafetyVfHydrator, HydrateEach, MapSeq
  <2> HIDE DEF brandVf
  <2> QED BY <1>a, <1>3, <2>1
<1>7. (\A i \in 1 .. n : Quiet(Get(brand.results[i], <<>>))) /\ QuietCache(brand.inserts)
  <2> DEFINE client == MapSeq(cs, LAMBDA c : BrandSafety("labels", faults, c))
  <2>1. \A i \in 1 .. n : client[i] = BrandSafety("labels", faults, cs[i])
    BY DEF MapSeq
  <2>2. DOMAIN TweetIds(cs) = 1 .. n /\ n \in Nat
    BY DEF TweetIds, MapSeq, Listed
  <2>3. brand = CachedHydrate(q.params.brand_safety = "labels", cached.brand, TweetIds(cs), client)
    BY DEF AdsBrandSafetyHydrator
  <2> HIDE DEF client, brand
  <2>4. FoundOrAsked(brand, n, cached.brand, client)
    BY <2>2, <2>3, CachedAnswers
  <2>5. \A i \in 1 .. n : Quiet(Get(client[i], <<>>))
    BY <1>3, <2>1
  <2> QED BY <1>2, <2>4, <2>5 DEF FoundOrAsked, QuietCache
<1>8. QuietCache(h.inserts.brand)
  <2>1. "brand" \in CacheNames
    BY DEF CacheNames
  <2> HIDE DEF h, brand
  <2> QED BY <1>1, <1>7, <2>1
<1>9. /\ Listed(h.candidates) /\ Candidates(p, h.candidates) /\ Spared(cs, h.candidates)
  BY PostSelectionAnswers
<1>10. ASSUME NEW i \in 1 .. n PROVE h.candidates[i].retweeted_id = cs[i].retweeted_id
  <2>1. of(i) = [a \in 1 .. 4 |-> answers[a][i]]
    BY DEF MapSeq
  <2>2. h.candidates[i] = Merged(cs[i], of(i))
    BY <1>1 DEF RunHydrators
  <2> HIDE DEF brand, visible, brandVf, replied, h
  <2>3. \A a \in 1 .. 4 : Quiet(Get(answers[a][i], <<>>))
    BY <1>4, <1>5, <1>6, <1>7
  <2> HIDE DEF answers
  <2>4. \A a \in DOMAIN of(i) : "retweeted_id" \notin DOMAIN Get(of(i)[a], <<>>)
    BY <2>1, <2>3 DEF Quiet
  <2>5. DOMAIN of(i) \subseteq Int /\ IsFiniteSet(DOMAIN of(i))
    <3>1. DOMAIN of(i) = 1 .. 4
      BY <2>1
    <3> HIDE DEF of
    <3>2. 1 \in Int /\ 4 \in Int
      OBVIOUS
    <3>3. IsFiniteSet(1 .. 4)
      BY ONLY <3>2, FS_Interval
    <3> QED BY <3>1, <3>3
  <2>6. "retweeted_id" \in DOMAIN cs[i]
    BY FieldsOfACandidate DEF Candidates, Candidate
  <2> HIDE DEF of
  <2>7. Merged(cs[i], of(i))["retweeted_id"] = cs[i]["retweeted_id"]
    BY <2>4, <2>5, <2>6, MergedField
  <2> QED BY <2>2, <2>7
<1> HIDE DEF h
<1>11. SamePosts(cs, h.candidates)
  BY <1>9, <1>10 DEF SamePosts, Spared
<1> QED BY <1>8, <1>9, <1>11 DEF h

\* A request served from the cache gets the cached posts alone, as they are.
LEMMA CachedFetched ==
    ASSUME NEW q, NEW faults, NEW time, q.has_cached_posts, Listed(q.cached_posts)
    PROVE  PhoenixCandidatesOf(q, faults, time) = q.cached_posts
<1> DEFINE results == <<ThunderSource(q, faults), TweetMixerSource(q, faults, time),
                        PhoenixSource(q, faults), PhoenixTopicsSource(q, faults),
                        PhoenixMOESource(q, faults), CachedPostsSource(q)>>
           F == MapSeq(results, LAMBDA r : Get(r, <<>>))
           T == Range1(q.cached_posts)
<1>1. PhoenixCandidatesOf(q, faults, time) = FlattenSeq(F)
  BY DEF PhoenixCandidatesOf, FetchCandidates
<1>2. /\ ThunderSource(q, faults) = None /\ TweetMixerSource(q, faults, time) = None
      /\ PhoenixSource(q, faults) = None /\ PhoenixTopicsSource(q, faults) = None
      /\ PhoenixMOESource(q, faults) = None /\ CachedPostsSource(q) = Some(q.cached_posts)
  BY DEF ThunderSource, TweetMixerSource, PhoenixSource, PhoenixTopicsSource, PhoenixMOESource,
         CachedPostsSource, FromNetwork, Wide, When
<1>3. F = [k \in 1 .. 6 |-> Get(results[k], <<>>)]
  BY DEF MapSeq
<1>4. (\A k \in 1 .. 5 : F[k] = <<>>) /\ F[6] = q.cached_posts
  <2>1. (\A k \in 1 .. 5 : results[k] = None) /\ results[6] = Some(q.cached_posts)
    BY <1>2
  <2> HIDE DEF results, F
  <2> QED BY <1>3, <2>1, Gets
<1> HIDE DEF F, results
<1>5. q.cached_posts \in Seq(T)
  BY DEF Listed
<1> HIDE DEF T
<1>6. F \in Seq(Seq(T)) /\ Len(F) = 6
  <2>1. \A k \in 1 .. 6 : F[k] \in Seq(T)
    <3>1. \A k \in 1 .. 6 : k \in 1 .. 5 \/ k = 6
      OBVIOUS
    <3>2. <<>> \in Seq(T)
      OBVIOUS
    <3> QED BY <1>4, <1>5, <3>1, <3>2
  <2>2. F \in [1 .. 6 -> Seq(T)]
    BY <1>3, <2>1
  <2> QED BY <2>2, AsSequence
<1>7. PICK joined : /\ joined[0] = <<>> /\ joined[0] \in Seq(T)
                    /\ \A k \in 1 .. Len(F) : joined[k - 1] \in Seq(T)
                          => joined[k] = joined[k - 1] \o F[k] /\ joined[k] \in Seq(T)
                    /\ FlattenSeq(F) = joined[Len(F)]
  BY <1>6, FlattenSteps
<1> DEFINE E == {<<>>}
<1>8. \A k \in 0 .. 5 : joined[k] \in E
  <2>1. joined[0] \in E /\ 5 \in Nat
    BY <1>7
  <2>2. ASSUME NEW k \in 1 .. 5, joined[k - 1] \in E PROVE joined[k] \in E
    <3>0. joined[k - 1] = <<>> /\ <<>> \in Seq(T)
      BY <2>2
    <3>1. joined[k - 1] = <<>> /\ joined[k - 1] \in Seq(T) /\ k \in 1 .. Len(F)
      BY <1>6, <3>0
    <3>2. joined[k] = joined[k - 1] \o F[k] /\ F[k] = <<>>
      BY <1>4, <1>7, <3>1
    <3>3. <<>> \o <<>> = <<>>
      OBVIOUS
    <3> QED BY <3>1, <3>2, <3>3
  <2> HIDE DEF E
  <2> QED BY <2>1, <2>2, StaysIn
<1>9. joined[5] = <<>> /\ joined[5] \in Seq(T)
  <2>1. 5 \in 0 .. 5 /\ <<>> \in Seq(T)
    OBVIOUS
  <2>2. joined[5] \in E
    BY <1>8, <2>1
  <2> QED BY <2>1, <2>2
<1>10. joined[6] = <<>> \o F[6]
  <2>1. 6 \in 1 .. Len(F) /\ 6 - 1 = 5
    BY <1>6
  <2> QED BY <1>7, <1>9, <2>1
<1>11. <<>> \o q.cached_posts = q.cached_posts
  BY <1>5
<1> QED BY <1>1, <1>4, <1>6, <1>7, <1>10, <1>11

\* What a request puts into Redis is drawn from its candidates.
LEMMA CacheDrawn ==
    ASSUME NEW selected, NEW others, Listed(selected), Listed(others), NEW p,
           Candidates(p, selected), Candidates(p, others)
    PROVE  /\ Listed(CandidatesToCache(selected, others))
           /\ Drawn(CandidatesToCache(selected, others), selected \o others)
<1> DEFINE all == selected \o others
           places == {i \in DOMAIN all : Get(all[i].weighted, 0) > 0}
           weighed == PickAt(all, places)
           scores == MapSeq(weighed, LAMBDA c : Get(c.weighted, 0))
           sorted == SortByScore(weighed, scores)
           max == Limits.max_cached
<1>1. CandidatesToCache(selected, others) = SplitOff(sorted, max).selected
  BY DEF CandidatesToCache, Those, SplitOff
<1>2. Listed(all) /\ Candidates(p, all)
  BY Joined
<1>3. places \subseteq DOMAIN all
  OBVIOUS
<1> HIDE DEF all, places
<1>4. Listed(weighed) /\ Drawn(weighed, all)
  BY <1>2, <1>3, PickedDrawn
<1> HIDE DEF weighed
<1>5. \A c \in Range1(weighed) : Get(c.weighted, 0) \in Int
  <2>1. Range1(weighed) \subseteq Range1(all)
    BY <1>2, <1>4, DrawnDiffers
  <2> QED BY <1>2, <2>1, MaybeInt DEF Range1, Candidates, Candidate
<1>6. \A i \in 1 .. Len(weighed) : scores[i] \in Int
  BY <1>5 DEF MapSeq, Range1
<1> HIDE DEF scores
<1>7. Listed(sorted) /\ Drawn(sorted, weighed)
  BY <1>4, <1>6, SortedDrawn
<1> HIDE DEF sorted
<1>8. max \in Nat
  BY LimitsAssumption
<1> HIDE DEF max
<1>9. Listed(SplitOff(sorted, max).selected) /\ Drawn(SplitOff(sorted, max).selected, sorted)
  BY <1>7, <1>8, SplitDrawn
<1>10. Drawn(SplitOff(sorted, max).selected, weighed)
  BY <1>7, <1>9, DrawnTwice
<1>11. Drawn(SplitOff(sorted, max).selected, all)
  BY <1>4, <1>10, DrawnTwice
<1> QED BY <1>1, <1>9, <1>11 DEF all

(* ---------- Candidates of a request --------------------------------------- *)

\* Candidates that somebody's prediction was for.
Typed(cs) == \E p : Candidates(p, cs)

\* A post that comes twice has not been scored yet.
Once(cs) == (\A i \in 1 .. Len(cs) : cs[i].score = None) \/ Apart(TweetIds(cs))

\* The selected and the others are different posts.
TwoParts(s, t) == Apart(TweetIds(s)) /\ Apart(TweetIds(t)) /\ NoneShared(s, t)

\* What was filtered out before the selection is not a scored candidate of it.
Out(filtered, shortlist) ==
    \A c \in Range1(filtered) : c.score = None \/ c.tweet_id \notin Range1(shortlist)

\* The claim, of one request.
BestShown(v) ==
    /\ Differing(v.candidates)
    /\ \A i, j \in 1 .. Len(v.candidates) : i # j =>
          OriginalTweetId(v.candidates[i]) # OriginalTweetId(v.candidates[j])
    /\ \A c \in Range1(v.filtered), d \in Range1(v.candidates) :
          (/\ c.tweet_id \in Range1(v.shortlist) /\ c.score # None
           /\ ConversationId(c) = ConversationId(d) /\ ~Hidden(c))
          => Get(c.score, 0) <= Get(d.score, 0)

\* What the posts of a request are like, as far as it is.
Sorts(v) ==
    /\ v.stage \in {"fetched", "enriched"} => Typed(v.candidates) /\ Once(v.candidates)
    /\ v.stage = "ranked" => /\ Typed(v.candidates) /\ Apart(OriginalTweetIds(v.candidates))
                             /\ Listed(v.filtered) /\ Out(v.filtered, v.shortlist)
                             /\ QuietCache(v.found.brand)
    /\ v.stage \in {"ranked"} \cup Ended /\ ~v.query.has_cached_posts
          => TwoParts(v.candidates, v.non_selected)
    /\ v.stage \in Ended => BestShown(v)
    /\ v.stage \notin {"idle", "built", "asked"} /\ v.query.has_cached_posts
          => Apart(TweetIds(v.query.cached_posts))

QuietEntries(cs) == \A k \in DOMAIN cs.brand : Quiet(cs.brand[k].fields)

\* What a stage inserts into the other caches leaves the cache of verdicts.
LEMMA InsertsQuiet ==
    ASSUME NEW cs, DOMAIN cs = CacheNames, QuietEntries(cs), NEW inserts, QuietEntries(inserts)
    PROVE  QuietEntries(Inserted(cs, inserts))
<1> DEFINE new == Inserted(cs, inserts)
<1>1. "brand" \in CacheNames
  BY DEF CacheNames
<1>2. new.brand = Over(inserts.brand, cs.brand)
  BY <1>1 DEF Inserted
<1> HIDE DEF new
<1>3. \A k \in DOMAIN new.brand : /\ k \in DOMAIN inserts.brand \/ k \in DOMAIN cs.brand
                                  /\ new.brand[k] = IF k \in DOMAIN inserts.brand THEN inserts.brand[k]
                                                    ELSE cs.brand[k]
  BY <1>2 DEF Over
<1> QED BY <1>3 DEF QuietEntries, new

\* Candidates are typed by the prediction of their query, unless the query is
\* served from the cache.
LEMMA PredictionOf ==
    ASSUME NEW q, NEW cs, Own(q, cs), Typed(cs)
    PROVE  \E p : Candidates(p, cs) /\ (Fresh(q) => p = q.prediction)
BY DEF Own, Typed, Fresh

\* Hydration leaves posts and scores.
LEMMA SparedOnce ==
    ASSUME NEW s, Listed(s), NEW t, Listed(t), Spared(s, t), Once(s)
    PROVE  Once(t)
<1>1. /\ Len(s) \in Nat /\ Len(t) = Len(s) /\ Len(TweetIds(s)) = Len(s) /\ Len(TweetIds(t)) = Len(s)
      /\ \A i \in 1 .. Len(s) : TweetIds(s)[i] = s[i].tweet_id
      /\ \A i \in 1 .. Len(t) : TweetIds(t)[i] = t[i].tweet_id
  BY KeysOf DEF Spared
<1>2. \A i \in 1 .. Len(s) : t[i].tweet_id = s[i].tweet_id /\ t[i].score = s[i].score
  BY DEF Spared
<1>3. CASE \A i \in 1 .. Len(s) : s[i].score = None
  BY <1>1, <1>2, <1>3 DEF Once
<1>4. CASE Apart(TweetIds(s))
  <2>1. Apart(TweetIds(t))
    BY <1>1, <1>2, <1>4 DEF Apart
  <2> QED BY <2>1 DEF Once
<1> QED BY <1>3, <1>4 DEF Once

\* Whoever shares nothing with a list shares nothing with a part of it.
LEMMA NoneSharedWithParts ==
    ASSUME NEW s, NEW t, NoneShared(s, t)
    PROVE  /\ NoneShared(t, s)
           /\ \A u : Range1(u) \subseteq Range1(s) => NoneShared(u, t)
           /\ \A u : Range1(u) \subseteq Range1(t) => NoneShared(s, u)
BY DEF NoneShared

\* The selector parts what differs.
LEMMA Selected ==
    ASSUME NEW cs, Listed(cs), NEW p, Candidates(p, cs), Apart(TweetIds(cs)), Apart(OriginalTweetIds(cs))
    PROVE  LET s == TopK(cs)
           IN  /\ Listed(s.selected) /\ Listed(s.non_selected)
               /\ Drawn(s.selected, cs) /\ Drawn(s.non_selected, cs)
               /\ TwoParts(s.selected, s.non_selected) /\ Apart(OriginalTweetIds(s.selected))
<1> DEFINE scores == MapSeq(cs, LAMBDA c : Get(c.score, 0))
           sorted == SortByScore(cs, scores)
           s == SplitOff(sorted, Limits.top_k)
<1>1. TopK(cs) = s
  BY DEF TopK, Select
<1>2. \A i \in 1 .. Len(cs) : scores[i] \in Int
  BY MaybeInt DEF MapSeq, Candidates, Candidate
<1> HIDE DEF scores
<1>3. Listed(sorted) /\ Drawn(sorted, cs)
  BY <1>2, SortedDrawn
<1>4. Apart(TweetIds(sorted))
  BY <1>3, DrawnDiffers
<1> HIDE DEF sorted
<1>5. Limits.top_k \in Nat
  BY LimitsAssumption
<1>6. /\ Listed(s.selected) /\ Listed(s.non_selected)
      /\ Drawn(s.selected, sorted) /\ Drawn(s.non_selected, sorted)
      /\ NoneShared(s.selected, s.non_selected)
  BY <1>3, <1>4, <1>5, SplitDrawn
<1> HIDE DEF s
<1>7. Drawn(s.selected, cs) /\ Drawn(s.non_selected, cs)
  BY <1>3, <1>6, DrawnTwice
<1>8. /\ Apart(TweetIds(s.selected)) /\ Apart(TweetIds(s.non_selected))
      /\ Apart(OriginalTweetIds(s.selected))
  BY <1>6, <1>7, DrawnDiffers
<1> QED BY <1>1, <1>6, <1>7, <1>8 DEF TwoParts

\* The best of a conversation is above what was removed after the selection,
\* and what was removed before is not of the selection.
LEMMA BestAfterFilters ==
    ASSUME NEW kept, Listed(kept), Differing(kept), Apart(OriginalTweetIds(kept)),
           NEW shown, Listed(shown), Drawn(shown, kept),
           NEW early, Listed(early), NEW late, Listed(late), NEW shortlist, Out(early, shortlist),
           \A c \in Range1(late) : Hidden(c) \/ \E d \in Range1(kept) : Under(c, d)
    PROVE  BestShown([candidates |-> shown, filtered |-> early \o late, shortlist |-> shortlist])
<1>1. PICK at \in [1 .. Len(shown) -> 1 .. Len(kept)] :
          /\ \A k \in 1 .. Len(shown) : shown[k] = kept[at[k]]
          /\ \A j, k \in 1 .. Len(shown) : j # k => at[j] # at[k]
  BY DEF Drawn
<1>2. Differing(shown)
  <2> SUFFICES ASSUME NEW i \in 1 .. Len(shown), NEW j \in 1 .. Len(shown), i # j
               PROVE  ConversationId(shown[i]) # ConversationId(shown[j])
    BY DEF Differing
  <2>1. at[i] \in 1 .. Len(kept) /\ at[j] \in 1 .. Len(kept) /\ at[i] # at[j]
    BY <1>1
  <2>2. ConversationId(kept[at[i]]) # ConversationId(kept[at[j]])
    BY <2>1 DEF Differing
  <2> QED BY <1>1, <2>2
<1>3. Apart(OriginalTweetIds(shown)) /\ Range1(shown) \subseteq Range1(kept)
  BY DrawnDiffers
<1>4. \A i, j \in 1 .. Len(shown) : i # j => OriginalTweetId(shown[i]) # OriginalTweetId(shown[j])
  <2>1. /\ Len(OriginalTweetIds(shown)) = Len(shown)
        /\ \A i \in 1 .. Len(shown) : OriginalTweetIds(shown)[i] = OriginalTweetId(shown[i])
    BY KeysOf
  <2> QED BY <1>3, <2>1 DEF Apart
<1>5. ASSUME NEW c \in Range1(early \o late), NEW d \in Range1(shown),
             c.tweet_id \in Range1(shortlist), c.score # None,
             ConversationId(c) = ConversationId(d), ~Hidden(c)
      PROVE  Get(c.score, 0) <= Get(d.score, 0)
  <2>1. c \in Range1(early) \/ c \in Range1(late)
    BY Joined
  <2>2. c \notin Range1(early)
    BY <1>5 DEF Out
  <2>3. PICK b \in Range1(kept) : Under(c, b)
    BY <1>5, <2>1, <2>2
  <2>4. d \in Range1(kept) /\ ConversationId(b) = ConversationId(d)
    BY <1>3, <1>5, <2>3 DEF Under
  <2>5. b = d
    BY <2>4 DEF Differing, Range1
  <2> QED BY <2>3, <2>5 DEF Under
<1> DEFINE v == [candidates |-> shown, filtered |-> early \o late, shortlist |-> shortlist]
<1>6. v.candidates = shown /\ v.filtered = early \o late /\ v.shortlist = shortlist
  OBVIOUS
<1> HIDE DEF v
<1>7. BestShown(v)
  BY <1>2, <1>4, <1>5, <1>6 DEF BestShown
<1> QED BY <1>7 DEF v

\* What is cut off behind the selection joins what was not selected.
LEMMA PartsJoin ==
    ASSUME NEW cs, Listed(cs), NEW others, Listed(others), TwoParts(cs, others),
           NEW kept, Listed(kept), Drawn(kept, cs), NEW n \in Nat
    PROVE  LET s == SplitOff(kept, n)
           IN  TwoParts(s.selected, others \o s.non_selected)
<1> DEFINE s == SplitOff(kept, n)
           rest == others \o s.non_selected
<1>1. Apart(TweetIds(kept)) /\ Range1(kept) \subseteq Range1(cs)
  BY DrawnDiffers DEF TwoParts
<1>2. /\ Listed(s.selected) /\ Listed(s.non_selected)
      /\ Drawn(s.selected, kept) /\ Drawn(s.non_selected, kept)
      /\ NoneShared(s.selected, s.non_selected)
  BY <1>1, SplitDrawn
<1> HIDE DEF s
<1>3. /\ Apart(TweetIds(s.selected)) /\ Apart(TweetIds(s.non_selected))
      /\ Range1(s.selected) \subseteq Range1(cs) /\ Range1(s.non_selected) \subseteq Range1(cs)
  BY <1>1, <1>2, DrawnDiffers
<1>4. NoneShared(cs, others) /\ Apart(TweetIds(others))
  BY DEF TwoParts
<1>5. NoneShared(s.selected, others) /\ NoneShared(others, s.non_selected)
  BY <1>3, <1>4, NoneSharedWithParts
<1>6. Apart(TweetIds(rest))
  BY <1>2, <1>3, <1>4, <1>5, JoinedDiffers
<1>7. Range1(rest) = Range1(others) \cup Range1(s.non_selected)
  BY <1>2, Joined
<1> HIDE DEF rest
<1>8. NoneShared(s.selected, rest)
  BY <1>2, <1>5, <1>7 DEF NoneShared
<1> QED BY <1>3, <1>6, <1>8 DEF TwoParts, s, rest

(* The feed of a For You request *)

\* Items of one kind.
OneSort(x, kind) == Feed(x) /\ \A i \in 1 .. Len(x) : x[i].kind = kind

\* Nothing but items of a kind is all of that kind, and nothing of another.
LEMMA SortedOut ==
    ASSUME NEW x, NEW kind, OneSort(x, kind), NEW other
    PROVE  OfKind(x, other) = IF other = kind THEN x ELSE <<>>
<1>1. Listed(x)
  BY DEF OneSort, Feed
<1>2. CASE other = kind
  <2>1. OfKinds(x, {kind}) = x
    BY <1>1, AllOfKinds DEF OneSort
  <2> QED BY <1>2, <2>1 DEF OfKind
<1>3. CASE other # kind
  <2>1. OfKinds(x, {other}) = <<>>
    BY <1>1, <1>3, NoneOfKinds DEF OneSort
  <2> QED BY <1>3, <2>1 DEF OfKind
<1> QED BY <1>2, <1>3

\* The items of bodies.
LEMMA ItemsOfBodies ==
    ASSUME NEW kind, NEW bodies, Listed(bodies)
    PROVE  OneSort(Items(kind, bodies), kind) /\ Bodies(Items(kind, bodies)) = bodies
<1> DEFINE n == Len(bodies)
           x == Items(kind, bodies)
           T == {Item(kind, bodies[i]) : i \in 1 .. n}
<1>1. n \in Nat /\ x = [i \in 1 .. n |-> Item(kind, bodies[i])]
  BY ListedOver DEF Items, MapSeq
<1> HIDE DEF x
<1>2. x \in [1 .. n -> T] /\ \A i \in 1 .. n : x[i] = Item(kind, bodies[i])
  BY <1>1
<1> HIDE DEF T
<1>3. x \in Seq(T) /\ Len(x) = n
  BY <1>1, <1>2, AsSequence
<1>4. Listed(x)
  BY <1>3, ListOf
<1>5. OneSort(x, kind)
  BY <1>2, <1>3, <1>4, ItemIs DEF OneSort, Feed
<1>6. Listed(Bodies(x)) /\ Len(Bodies(x)) = n /\ \A i \in 1 .. n : Bodies(x)[i] = bodies[i]
  BY <1>2, <1>3, <1>4, BodiesOver, ItemIs
<1> DEFINE b == Bodies(x)
           U == Range1(b) \cup Range1(bodies)
<1>7. b \in Seq(U) /\ bodies \in Seq(U)
  BY <1>6 DEF Listed
<1> HIDE DEF b, U
<1>8. b = bodies
  BY <1>6, <1>7, SameList DEF b
<1> QED BY <1>5, <1>8 DEF x, b

\* A list of nothing is a feed, of every kind.
LEMMA NoItems == \A kind : OneSort(<<>>, kind) /\ Bodies(<<>>) = <<>>
<1> SUFFICES ASSUME NEW kind PROVE OneSort(<<>>, kind) /\ Bodies(<<>>) = <<>>
  OBVIOUS
<1>1. Listed(<<>>) /\ Len(<<>>) = 0
  BY DEF Listed
<1>2. OneSort(<<>>, kind)
  BY <1>1 DEF OneSort, Feed
<1>3. Listed(Bodies(<<>>)) /\ Len(Bodies(<<>>)) = 0
  BY <1>1, BodiesOver
<1> DEFINE b == Bodies(<<>>)
<1>4. b \in Seq(Range1(b)) /\ Len(b) = 0
  BY <1>3 DEF Listed
<1> HIDE DEF b
<1>5. b = <<>>
  BY <1>4
<1> QED BY <1>2, <1>5 DEF b

\* One item.
LEMMA LoneItem == \A kind, body : OneSort(<<Item(kind, body)>>, kind)
<1> SUFFICES ASSUME NEW kind, NEW body PROVE OneSort(<<Item(kind, body)>>, kind)
  OBVIOUS
<1>1. Feed(<<Item(kind, body)>>) /\ Len(<<Item(kind, body)>>) = 1
  BY OneItem, ItemIs
<1> QED BY <1>1, ItemIs DEF OneSort

Five(a, b, c, d, e) == <<a, b, c, d, e>>

\* Five lists one behind the other.
LEMMA FiveFlattened ==
    ASSUME NEW a, NEW b, NEW c, NEW d, NEW e, Listed(a), Listed(b), Listed(c), Listed(d), Listed(e)
    PROVE  FlattenSeq(Five(a, b, c, d, e)) = (((a \o b) \o c) \o d) \o e
<1> DEFINE T == (((Range1(a) \cup Range1(b)) \cup Range1(c)) \cup Range1(d)) \cup Range1(e)
           F == <<a, b, c, d, e>>
<1>1. a \in Seq(T) /\ b \in Seq(T) /\ c \in Seq(T) /\ d \in Seq(T) /\ e \in Seq(T)
  BY DEF Listed
<1> HIDE DEF T
<1>2. F \in Seq(Seq(T)) /\ Len(F) = 5
      /\ F[1] = a /\ F[2] = b /\ F[3] = c /\ F[4] = d /\ F[5] = e
  BY <1>1
<1> HIDE DEF F
<1>3. PICK h : /\ h[0] = <<>> /\ h[0] \in Seq(T)
               /\ \A k \in 1 .. Len(F) : h[k - 1] \in Seq(T) => h[k] = h[k - 1] \o F[k] /\ h[k] \in Seq(T)
               /\ FlattenSeq(F) = h[Len(F)]
  BY <1>2, FlattenSteps
<1>4. \A k \in 1 .. 5 : h[k - 1] \in Seq(T) => h[k] = h[k - 1] \o F[k] /\ h[k] \in Seq(T)
  BY <1>2, <1>3
<1>5. h[1] = a /\ h[1] \in Seq(T)
  <2>1. 1 \in 1 .. 5 /\ 1 - 1 = 0
    OBVIOUS
  <2>2. h[1] = h[0] \o F[1] /\ h[1] \in Seq(T)
    BY <1>3, <1>4, <2>1
  <2> QED BY <1>2, <1>3, <2>2, EmptyJoined
<1>6. h[2] = a \o b /\ h[2] \in Seq(T)
  <2>1. 2 \in 1 .. 5 /\ 2 - 1 = 1
    OBVIOUS
  <2>2. h[2] = h[1] \o F[2] /\ h[2] \in Seq(T)
    BY <1>4, <1>5, <2>1
  <2> QED BY <1>2, <1>5, <2>2
<1>7. h[3] = (a \o b) \o c /\ h[3] \in Seq(T)
  <2>1. 3 \in 1 .. 5 /\ 3 - 1 = 2
    OBVIOUS
  <2>2. h[3] = h[2] \o F[3] /\ h[3] \in Seq(T)
    BY <1>4, <1>6, <2>1
  <2> QED BY <1>2, <1>6, <2>2
<1>8. h[4] = ((a \o b) \o c) \o d /\ h[4] \in Seq(T)
  <2>1. 4 \in 1 .. 5 /\ 4 - 1 = 3
    OBVIOUS
  <2>2. h[4] = h[3] \o F[4] /\ h[4] \in Seq(T)
    BY <1>4, <1>7, <2>1
  <2> QED BY <1>2, <1>7, <2>2
<1>9. h[5] = (((a \o b) \o c) \o d) \o e /\ h[5] \in Seq(T)
  <2>1. 5 \in 1 .. 5 /\ 5 - 1 = 4
    OBVIOUS
  <2>2. h[5] = h[4] \o F[5] /\ h[5] \in Seq(T)
    BY <1>4, <1>8, <2>1
  <2> QED BY <1>2, <1>8, <2>2
<1>10. FlattenSeq(F) = h[5]
  BY <1>2, <1>3
<1> QED BY <1>9, <1>10 DEF F, Five

\* What the source of ads delivers.
AdsOf(q, faults, ads) == IF q.params.ads /\ ~q.is_preview /\ ~Fails(faults, "ads", 0) THEN ads ELSE <<>>

\* The five sources of the feed, each with items of its own kind.
LEMMA SourcesOfTheFeed ==
    ASSUME NEW q, NEW faults, NEW ps, Listed(ps), NEW ads, Listed(ads)
    PROVE  LET a == Get(ScoredPostsSource(Some(ps)), <<>>)
               b == Get(AdsSource(q, faults, ads), <<>>)
               c == Get(WhoToFollowSource(q, faults), <<>>)
               d == Get(PromptsSource(q, faults), <<>>)
               e == Get(PushToHomeSource(q, faults), <<>>)
           IN  /\ OneSort(a, "post") /\ Bodies(a) = ps
               /\ OneSort(b, "ad") /\ Bodies(b) = AdsOf(q, faults, ads)
               /\ OneSort(c, "wtf")
               /\ \A i \in 1 .. Len(c) : q.wtf_eligible /\ c[i].body # <<>>
               /\ OneSort(d, "prompt") /\ OneSort(e, "pth")
<1> DEFINE a == Get(ScoredPostsSource(Some(ps)), <<>>)
           b == Get(AdsSource(q, faults, ads), <<>>)
           c == Get(WhoToFollowSource(q, faults), <<>>)
           d == Get(PromptsSource(q, faults), <<>>)
           e == Get(PushToHomeSource(q, faults), <<>>)
           adItems == Items("ad", ads)
<1>1. \A call, value : Answered(faults, call, value) = IF Fails(faults, call, 0) THEN None ELSE Some(value)
  BY DEF Answered, AnsweredFor
<1>2. OneSort(a, "post") /\ Bodies(a) = ps
  <2>1. ScoredPostsSource(Some(ps)) = Some(Items("post", ps))
    BY Gets DEF ScoredPostsSource
  <2>2. a = Items("post", ps)
    BY <2>1, Gets
  <2> QED BY <2>2, ItemsOfBodies
<1>3. OneSort(b, "ad") /\ Bodies(b) = AdsOf(q, faults, ads)
  <2>1. OneSort(adItems, "ad") /\ Bodies(adItems) = ads
    BY ItemsOfBodies
  <2> HIDE DEF adItems
  <2>2. AdsSource(q, faults, ads) =
            IF q.params.ads /\ ~q.is_preview /\ ~Fails(faults, "ads", 0) THEN Some(adItems) ELSE None
    BY <1>1 DEF AdsSource, When, adItems
  <2>3. b = IF q.params.ads /\ ~q.is_preview /\ ~Fails(faults, "ads", 0) THEN adItems ELSE <<>>
    BY <2>2, Gets
  <2> QED BY <2>1, <2>3, NoItems DEF AdsOf
<1>4. OneSort(c, "wtf") /\ \A i \in 1 .. Len(c) : q.wtf_eligible /\ c[i].body # <<>>
  <2> DEFINE users == Take(Those(World.recommended, LAMBDA u : u \notin ExcludedUserIds(q)), Limits.max_wtf)
             made == IF users = <<>> THEN <<>> ELSE <<Item("wtf", users)>>
  <2>1. c = <<>> \/ (q.wtf_eligible /\ c = made)
    <3>1. WhoToFollowSource(q, faults) = When(q.params.wtf /\ q.wtf_eligible, Answered(faults, "wtf", made))
      BY DEF WhoToFollowSource
    <3> HIDE DEF made
    <3>2. \/ WhoToFollowSource(q, faults) = None
          \/ q.wtf_eligible /\ WhoToFollowSource(q, faults) = Some(made)
      BY <1>1, <3>1 DEF When
    <3> QED BY <3>2, Gets
  <2> HIDE DEF users
  <2>2. c = <<>> \/ (q.wtf_eligible /\ users # <<>> /\ c = <<Item("wtf", users)>>)
    BY <2>1
  <2>3. CASE c = <<>>
    <3>1. OneSort(<<>>, "wtf") /\ Len(<<>>) = 0
      BY NoItems
    <3> QED BY <2>3, <3>1
  <2>4. CASE q.wtf_eligible /\ users # <<>> /\ c = <<Item("wtf", users)>>
    <3> DEFINE x == <<Item("wtf", users)>>
    <3>1. OneSort(x, "wtf") /\ Len(x) = 1 /\ x[1] = Item("wtf", users)
      BY LoneItem
    <3> HIDE DEF x
    <3>2. \A i \in 1 .. Len(x) : x[i].body # <<>>
      BY <2>4, <3>1, ItemIs
    <3>3. c = x
      BY <2>4 DEF x
    <3> QED BY <2>4, <3>1, <3>2, <3>3
  <2> QED BY <2>2, <2>3, <2>4
<1>5. OneSort(d, "prompt")
  <2> DEFINE x == Items("prompt", World.prompts)
  <2>1. OneSort(x, "prompt")
    BY WorldAssumption, ItemsOfBodies DEF Listed
  <2> HIDE DEF x
  <2>2. PromptsSource(q, faults) = None \/ PromptsSource(q, faults) = Some(x)
    BY <1>1 DEF PromptsSource, When, x
  <2>3. d = <<>> \/ d = x
    BY <2>2, Gets
  <2> QED BY <2>1, <2>3, NoItems
<1>6. OneSort(e, "pth")
  <2> DEFINE id == Get(q.push_to_home, 0)
             body == [id |-> id, author |-> Post(id).author, reply_to |-> Post(id).reply_to,
                      facepile |-> IF Post(id).reply_to = 0 THEN FetchTopRepliers(id, faults) ELSE <<>>]
             x == <<Item("pth", body)>>
  <2>1. PushToHomeSource(q, faults) \in {None, Some(<<>>), Some(x)}
    BY DEF PushToHomeSource
  <2>2. OneSort(x, "pth")
    <3> HIDE DEF body
    <3> QED BY LoneItem
  <2> HIDE DEF x
  <2>3. e = <<>> \/ e = x
    BY <2>1, Gets
  <2> QED BY <2>2, <2>3, NoItems
<1> QED BY <1>2, <1>3, <1>4, <1>5, <1>6

\* What a joined list has of a kind, if its first part has all of it or nothing.
LEMMA JoinedKinds ==
    ASSUME NEW s, Feed(s), NEW t, Feed(t)
    PROVE  /\ Feed(s \o t)
           /\ \A kind : OfKind(s \o t, kind) = OfKind(s, kind) \o OfKind(t, kind)
<1>1. Listed(s) /\ Listed(t)
  BY DEF Feed
<1>2. Listed(s \o t) /\ Joins(s \o t, s, t)
  BY <1>1, ListsJoined
<1> DEFINE u == s \o t
<1>3. Feed(u)
  <2> HIDE DEF u
  <2> SUFFICES ASSUME NEW i \in 1 .. Len(u) PROVE IsItem(u[i])
    BY <1>2 DEF Feed, u
  <2> QED BY <1>2 DEF Joins, Feed, u
<1>4. \A kind : OfKinds(s \o t, {kind}) = OfKinds(s, {kind}) \o OfKinds(t, {kind})
  BY <1>1, KindsJoined
<1> QED BY <1>3, <1>4 DEF OfKind

\* What the For You pipeline has to blend.
LEMMA Gathered ==
    ASSUME NEW q, NEW faults, NEW ps, Listed(ps), NEW ads, Listed(ads)
    PROVE  LET items == ForYouCandidates(q, faults, Some(ps), ads)
           IN  /\ Feed(items)
               /\ Bodies(OfKind(items, "post")) = ps
               /\ Bodies(OfKind(items, "ad")) = AdsOf(q, faults, ads)
               /\ \A body \in Recommended(items) : q.wtf_eligible /\ body # <<>>
<1> DEFINE a == Get(ScoredPostsSource(Some(ps)), <<>>)
           b == Get(AdsSource(q, faults, ads), <<>>)
           c == Get(WhoToFollowSource(q, faults), <<>>)
           d == Get(PromptsSource(q, faults), <<>>)
           e == Get(PushToHomeSource(q, faults), <<>>)
           items == ForYouCandidates(q, faults, Some(ps), ads)
           ab == a \o b
           abc == ab \o c
           abcd == abc \o d
<1>1. /\ OneSort(a, "post") /\ Bodies(a) = ps
      /\ OneSort(b, "ad") /\ Bodies(b) = AdsOf(q, faults, ads)
      /\ OneSort(c, "wtf")
      /\ \A i \in 1 .. Len(c) : q.wtf_eligible /\ c[i].body # <<>>
      /\ OneSort(d, "prompt") /\ OneSort(e, "pth")
  BY SourcesOfTheFeed
<1>2. items = FlattenSeq(<<a, b, c, d, e>>)
  <2> DEFINE results == <<ScoredPostsSource(Some(ps)), AdsSource(q, faults, ads), WhoToFollowSource(q, faults),
                          PromptsSource(q, faults), PushToHomeSource(q, faults)>>
             F == MapSeq(results, LAMBDA r : Get(r, <<>>))
  <2>1. F = <<a, b, c, d, e>>
    <3>1. F = [i \in 1 .. 5 |-> Get(results[i], <<>>)]
      BY DEF MapSeq
    <3>2. results[1] = ScoredPostsSource(Some(ps)) /\ results[2] = AdsSource(q, faults, ads)
          /\ results[3] = WhoToFollowSource(q, faults) /\ results[4] = PromptsSource(q, faults)
          /\ results[5] = PushToHomeSource(q, faults)
      OBVIOUS
    <3> HIDE DEF results, F
    <3>3. F[1] = a /\ F[2] = b /\ F[3] = c /\ F[4] = d /\ F[5] = e
      BY <3>1, <3>2
    <3> HIDE DEF a, b, c, d, e
    <3>4. F = <<F[1], F[2], F[3], F[4], F[5]>>
      BY <3>1
    <3> QED BY <3>3, <3>4
  <2>2. items = FlattenSeq(F)
    BY DEF ForYouCandidates, FetchCandidates
  <2> QED BY <2>1, <2>2
<1> HIDE DEF a, b, c, d, e
<1>3. Feed(a) /\ Feed(b) /\ Feed(c) /\ Feed(d) /\ Feed(e)
  BY <1>1 DEF OneSort
<1>4. Listed(a) /\ Listed(b) /\ Listed(c) /\ Listed(d) /\ Listed(e)
  BY <1>3 DEF Feed
<1>5. items = abcd \o e
  <2>1. items = FlattenSeq(Five(a, b, c, d, e))
    BY <1>2 DEF Five
  <2> HIDE DEF items
  <2> QED BY <1>4, <2>1, FiveFlattened
<1> HIDE DEF items, ab, abc, abcd
<1>6. Feed(ab) /\ \A kind : OfKind(ab, kind) = OfKind(a, kind) \o OfKind(b, kind)
  BY <1>3, JoinedKinds DEF ab
<1>7. Feed(abc) /\ \A kind : OfKind(abc, kind) = OfKind(ab, kind) \o OfKind(c, kind)
  BY <1>3, <1>6, JoinedKinds DEF abc
<1>8. Feed(abcd) /\ \A kind : OfKind(abcd, kind) = OfKind(abc, kind) \o OfKind(d, kind)
  BY <1>3, <1>7, JoinedKinds DEF abcd
<1>9. Feed(items) /\ \A kind : OfKind(items, kind) = OfKind(abcd, kind) \o OfKind(e, kind)
  BY <1>3, <1>5, <1>8, JoinedKinds
<1>10. \A kind : OfKind(items, kind) =
            (((OfKind(a, kind) \o OfKind(b, kind)) \o OfKind(c, kind)) \o OfKind(d, kind)) \o OfKind(e, kind)
  BY <1>6, <1>7, <1>8, <1>9
<1>11. \A kind : /\ OfKind(a, kind) = IF kind = "post" THEN a ELSE <<>>
                 /\ OfKind(b, kind) = IF kind = "ad" THEN b ELSE <<>>
                 /\ OfKind(c, kind) = IF kind = "wtf" THEN c ELSE <<>>
                 /\ OfKind(d, kind) = IF kind = "prompt" THEN d ELSE <<>>
                 /\ OfKind(e, kind) = IF kind = "pth" THEN e ELSE <<>>
  BY <1>1, SortedOut
<1>12. \A x : Listed(x) => <<>> \o x = x /\ x \o <<>> = x
  <2> SUFFICES ASSUME NEW x, Listed(x) PROVE <<>> \o x = x /\ x \o <<>> = x
    OBVIOUS
  <2> DEFINE T == Range1(x)
  <2>1. x \in Seq(T)
    BY DEF Listed
  <2> HIDE DEF T
  <2> QED BY <2>1
<1>13. Listed(<<>>) /\ <<>> \o <<>> = <<>>
  BY DEF Listed
<1>14. OfKind(items, "post") = a
  <2>1. OfKind(items, "post") = (((a \o <<>>) \o <<>>) \o <<>>) \o <<>>
    BY <1>10, <1>11
  <2> QED BY <2>1, <1>4, <1>12
<1>15. OfKind(items, "ad") = b
  <2>1. OfKind(items, "ad") = (((<<>> \o b) \o <<>>) \o <<>>) \o <<>>
    BY <1>10, <1>11
  <2> QED BY <2>1, <1>4, <1>12
<1>16. OfKind(items, "wtf") = c
  <2>1. OfKind(items, "wtf") = (((<<>> \o <<>>) \o c) \o <<>>) \o <<>>
    BY <1>10, <1>11
  <2> QED BY <2>1, <1>4, <1>12, <1>13
<1>17. ASSUME NEW body \in Recommended(items) PROVE q.wtf_eligible /\ body # <<>>
  <2>1. PICK j \in 1 .. Len(items) : items[j].kind = "wtf" /\ body = items[j].body
    BY DEF Recommended
  <2>2. Listed(items) /\ j \in PlacesOf(items, {"wtf"})
    BY <1>9, <2>1, ListedOver DEF Feed, PlacesOf
  <2>3. PICK i \in 1 .. Len(OfKinds(items, {"wtf"})) : OfKinds(items, {"wtf"})[i] = items[j]
    BY <2>2, KindsPlaced
  <2>4. i \in 1 .. Len(c) /\ c[i] = items[j]
    BY <1>16, <2>3 DEF OfKind
  <2> QED BY <1>1, <2>1, <2>4
<1> QED BY <1>1, <1>9, <1>14, <1>15, <1>17 DEF items

\* What a request asks that comes in at a time.
AskedAt(sc, time) ==
    LET data == FetchViewerData(sc.faults, sc.data)
        query == [NewQuery(sc.request, sc.params, data, time) EXCEPT !.shadow = sc.shadow]
    IN  IF sc.surface = "for_you_urt" THEN UrtQuery(query, sc.request) ELSE query

\* The items of a For You request.
Feeds(v) ==
    SplitOff(BlenderSelect(v.scenario.blender,
                           ForYouCandidates(v.outer, v.scenario.faults, v.posts, v.scenario.ads)).selected,
             Limits.for_you_size).selected

\* The posts of a response are different, and have a rank.
LEMMA ShownRanked ==
    ASSUME NEW cs, Listed(cs), Typed(cs), Differing(cs)
    PROVE  Ranked(MapSeq(cs, ToScoredPost))
<1> DEFINE n == Len(cs)
           ps == MapSeq(cs, ToScoredPost)
           T == {ToScoredPost(cs[i]) : i \in 1 .. n}
<1>1. n \in Nat /\ ps = [i \in 1 .. n |-> ToScoredPost(cs[i])]
  BY ListedOver DEF MapSeq
<1> HIDE DEF ps
<1>2. ps \in [1 .. n -> T] /\ \A i \in 1 .. n : ps[i] = ToScoredPost(cs[i])
  BY <1>1
<1> HIDE DEF T
<1>3. ps \in Seq(T) /\ Len(ps) = n
  BY <1>1, <1>2, AsSequence
<1>4. Listed(ps)
  BY <1>3, ListOf
<1>5. \A i \in 1 .. n : /\ ps[i].id = cs[i].tweet_id /\ ps[i].ancestors = cs[i].ancestors
                        /\ ps[i].score = Get(cs[i].score, 0)
  <2>1. \A c : /\ ToScoredPost(c).id = c.tweet_id /\ ToScoredPost(c).ancestors = c.ancestors
               /\ ToScoredPost(c).score = Get(c.score, 0)
    BY DEF ToScoredPost
  <2> QED BY <1>2, <2>1
<1>6. Apart(ps)
  <2> SUFFICES ASSUME NEW i \in 1 .. n, NEW j \in 1 .. n, i # j PROVE ps[i] # ps[j]
    BY <1>3 DEF Apart
  <2>1. ConversationId(cs[i]) # ConversationId(cs[j])
    BY DEF Differing
  <2>2. \A c, d : c.tweet_id = d.tweet_id /\ c.ancestors = d.ancestors => ConversationId(c) = ConversationId(d)
    BY DEF ConversationId
  <2>3. cs[i].tweet_id # cs[j].tweet_id \/ cs[i].ancestors # cs[j].ancestors
    BY <2>1, <2>2
  <2> QED BY <1>5, <2>3
<1>7. \A i \in 1 .. n : ps[i].score \in Int
  BY <1>5, MaybeInt DEF Typed, Candidates, Candidate
<1> QED BY <1>3, <1>4, <1>6, <1>7 DEF Ranked, ps

\* The first of two parts of a feed.
LEMMA StripOf ==
    ASSUME NEW b, Mixed(b), NEW strip, NEW t, Parts(b, strip, t)
    PROVE  /\ Listed(b) /\ Listed(strip) /\ Len(strip) \in Nat /\ Feed(strip) /\ Begins(strip, b)
           /\ Len(t) = 0 => Len(strip) = Len(b)
           /\ \A i \in 1 .. Len(strip) : strip[i].kind \in {"post", "ad"}
<1>1. Feed(b) /\ Listed(b) /\ Listed(strip) /\ Listed(t)
  BY DEF Mixed, Feed, Parts
<1>2. Joins(b, strip, t) /\ Feed(strip)
  BY <1>1, PartBegins
<1>3. Len(b) \in Nat /\ Len(strip) \in Nat /\ Len(t) \in Nat
  BY <1>1, ListedOver
<1>4. Begins(strip, b)
  BY <1>2, <1>3 DEF Joins, Begins
<1>5. Len(t) = 0 => Len(strip) = Len(b)
  BY <1>2, <1>3 DEF Joins
<1>6. \A i \in 1 .. Len(strip) : strip[i].kind \in {"post", "ad"}
  BY <1>2 DEF Joins, Mixed
<1> QED BY <1>1, <1>2, <1>3, <1>4, <1>5, <1>6

\* The beginning of a beginning.
LEMMA TakenTwice ==
    ASSUME NEW s, Listed(s), NEW m, NEW k, k <= m, m \in Nat, k \in Nat, m <= Len(s)
    PROVE  Take(Take(s, m), k) = Take(s, k)
<1> DEFINE T == Range1(s)
           n == Len(s)
           x == SubSeq(s, 1, m)
<1>1. s \in Seq(T) /\ n \in Nat
  BY DEF Listed
<1> HIDE DEF T
<1>2. Take(s, m) = x /\ Take(s, k) = SubSeq(s, 1, k)
  <2>1. Least(m, n) = m /\ Least(k, n) = k
    BY <1>1 DEF Least
  <2> QED BY <2>1 DEF Take
<1>3. x \in Seq(T) /\ Len(x) = m /\ \A i \in 1 .. m : x[i] = s[i]
  BY <1>1
<1> HIDE DEF x
<1>4. Take(x, k) = SubSeq(x, 1, k)
  <2>1. Least(k, m) = k
    BY DEF Least
  <2> QED BY <1>3, <2>1 DEF Take
<1>5. SubSeq(x, 1, k) = SubSeq(s, 1, k)
  <2>1. /\ SubSeq(x, 1, k) \in Seq(T) /\ Len(SubSeq(x, 1, k)) = k
        /\ \A i \in 1 .. k : SubSeq(x, 1, k)[i] = x[i]
    BY <1>3
  <2>2. /\ SubSeq(s, 1, k) \in Seq(T) /\ Len(SubSeq(s, 1, k)) = k
        /\ \A i \in 1 .. k : SubSeq(s, 1, k)[i] = s[i]
    BY <1>1
  <2> DEFINE y == SubSeq(x, 1, k)
             z == SubSeq(s, 1, k)
  <2>3. \A i \in 1 .. k : y[i] = z[i]
    BY <1>3, <2>1, <2>2
  <2> HIDE DEF y, z
  <2>4. y \in Seq(T) /\ z \in Seq(T) /\ Len(y) = k /\ Len(z) = k
    BY <2>1, <2>2 DEF y, z
  <2>5. y = z
    BY <2>3, <2>4, SameList
  <2> QED BY <2>5 DEF y, z
<1> QED BY <1>2, <1>4, <1>5

\* The posts of the strip begin those of the blended feed.
LEMMA StripShows ==
    ASSUME NEW b, Mixed(b), NEW strip, NEW t, Parts(b, strip, t)
    PROVE  LET shown == ShownOf(strip)
               all == ShownOf(b)
           IN  /\ Listed(shown) /\ Listed(all) /\ Len(shown) \in Nat /\ Len(all) \in Nat
               /\ Len(shown) <= Len(all) /\ Drawn(shown, all) /\ shown = Take(all, Len(shown))
<1> DEFINE shown == ShownOf(strip)
           all == ShownOf(b)
           rest == Bodies(OfKind(t, "post"))
<1>1. Listed(b) /\ Listed(strip) /\ Listed(t) /\ b = strip \o t
  BY DEF Mixed, Feed, Parts
<1>2. OfKind(b, "post") = OfKind(strip, "post") \o OfKind(t, "post")
  BY <1>1, KindsJoined DEF OfKind
<1>3. Listed(OfKind(strip, "post")) /\ Listed(OfKind(t, "post"))
  BY <1>1, KindsPlaced DEF OfKind
<1>4. Listed(shown) /\ Listed(rest)
  BY <1>3, BodiesOver DEF ShownOf
<1>5. all = shown \o rest
  BY <1>2, <1>3, BodiesJoined DEF ShownOf
<1>6. Listed(all) /\ Joins(all, shown, rest)
  BY <1>4, <1>5, ListsJoined
<1>7. Len(shown) \in Nat /\ Len(rest) \in Nat /\ Len(all) \in Nat
  BY <1>4, <1>6, ListedOver
<1> HIDE DEF shown, all, rest
<1>8. Len(shown) <= Len(all)
  BY <1>6, <1>7 DEF Joins
<1>9. Take(all, Len(shown)) = shown /\ Drawn(shown, all)
  BY <1>4, <1>5, FirstTaken
<1> QED BY <1>4, <1>6, <1>7, <1>8, <1>9 DEF shown, all
=============================================================================
