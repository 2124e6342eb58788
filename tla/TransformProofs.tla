-------------------------- MODULE TransformProofs --------------------------
(***************************************************************************)
(* What the operators of Transforms compute, for every composition: the    *)
(* transforms reached in some steps, those that lower within some levels,  *)
(* and the sealed forms.                                                   *)
(***************************************************************************)
EXTENDS Transforms, Recursion, FiniteSetTheorems

-----------------------------------------------------------------------------
(* What is reached.                                                        *)

\* One step more adds what those already reached lead to.
LEMMA SpreadUnfolds ==
  ASSUME NEW from, NEW next
  PROVE  /\ Spread(from, next, 0) = from
         /\ \A n \in Nat : Spread(from, next, n + 1) = Onward(Spread(from, next, n), next)
<1> DEFINE All == from \union UNION {next[x] : x \in DOMAIN next}
           wider == [v \in SUBSET All |-> Onward(v, next)]
           step == [n \in Nat |-> wider]
           Is(f) == f = [k \in Nat |-> IF k = 0 THEN from ELSE Onward(f[k - 1], next)]
           reached == CHOOSE f : Is(f)
<1>1. wider \in [SUBSET All -> SUBSET All]
  BY DEF Onward
<1>2. step \in [Nat -> [SUBSET All -> SUBSET All]]
  <2> HIDE DEF wider
  <2>1. QED
    BY <1>1
<1>3. from \in SUBSET All
  OBVIOUS
<1>4. PICK f \in [Nat -> SUBSET All] : f = [n \in Nat |-> IF n = 0 THEN from ELSE step[n][f[n - 1]]]
  <2> DEFINE V == SUBSET All
  <2>1. from \in V /\ step \in [Nat -> [V -> V]]
    BY <1>2, <1>3
  <2> HIDE DEF step, V
  <2>2. \E f \in [Nat -> V] : f = [n \in Nat |-> IF n = 0 THEN from ELSE step[n][f[n - 1]]]
    BY <2>1, PrimitiveRecursion
  <2>3. QED
    BY <2>2 DEF V
<1>5. \A n \in Nat : f[n] = IF n = 0 THEN from ELSE Onward(f[n - 1], next)
  <2>1. SUFFICES ASSUME NEW n \in Nat
                 PROVE  f[n] = IF n = 0 THEN from ELSE Onward(f[n - 1], next)
    OBVIOUS
  <2>2. f[n] = IF n = 0 THEN from ELSE step[n][f[n - 1]]
    BY <1>4
  <2>3. n # 0 => n - 1 \in Nat
    OBVIOUS
  <2>4. n # 0 => f[n - 1] \in SUBSET All
    BY <2>3
  <2>5. n # 0 => step[n][f[n - 1]] = Onward(f[n - 1], next)
    BY <2>4
  <2>6. QED
    BY <2>2, <2>5
<1>6. Is(f)
  <2>1. f = [n \in Nat |-> f[n]]
    OBVIOUS
  <2> HIDE DEF step, wider, All
  <2>2. [n \in Nat |-> f[n]] = [n \in Nat |-> IF n = 0 THEN from ELSE Onward(f[n - 1], next)]
    BY <1>5
  <2>3. QED
    BY <2>1, <2>2
<1>7. Is(reached)
  <2> HIDE DEF Is
  <2>1. QED
    BY <1>6
<1>8. \A n \in Nat : Spread(from, next, n) = reached[n]
  BY DEF Spread
<1>9. \A n \in Nat : reached[n] = IF n = 0 THEN from ELSE Onward(reached[n - 1], next)
  <2> HIDE DEF reached
  <2>1. QED
    BY <1>7
<1> HIDE DEF reached, Is, step, wider, All
<1>10. Spread(from, next, 0) = from
  BY <1>8, <1>9
<1>11. ASSUME NEW n \in Nat
       PROVE  Spread(from, next, n + 1) = Onward(Spread(from, next, n), next)
  <2>1. n + 1 \in Nat /\ n + 1 # 0 /\ (n + 1) - 1 = n
    OBVIOUS
  <2>2. reached[n + 1] = Onward(reached[n], next)
    BY <1>9, <2>1
  <2>3. QED
    BY <1>8, <2>1, <2>2
<1>12. QED
  BY <1>10, <1>11

\* What is reached stays reached.
LEMMA SpreadGrows ==
  ASSUME NEW from, NEW next, NEW n \in Nat
  PROVE  from \subseteq Spread(from, next, n)
<1> DEFINE Good == {k \in Nat : from \subseteq Spread(from, next, k)}
<1>1. 0 \in Good
  BY SpreadUnfolds
<1>2. ASSUME NEW k \in Nat, k \in Good
      PROVE  k + 1 \in Good
  <2>1. Spread(from, next, k + 1) = Onward(Spread(from, next, k), next)
    BY SpreadUnfolds
  <2>2. QED
    BY <1>2, <2>1 DEF Onward
<1> HIDE DEF Good
<1>3. n \in Good
  BY <1>1, <1>2, SetInduction
<1>4. QED
  BY <1>3 DEF Good

\* A set that holds the start and is closed holds all that is reached.
LEMMA SpreadWithin ==
  ASSUME NEW from, NEW next, NEW n \in Nat, NEW U, from \subseteq U,
         \A x \in U \intersect DOMAIN next : next[x] \subseteq U
  PROVE  Spread(from, next, n) \subseteq U
<1> DEFINE Good == {k \in Nat : Spread(from, next, k) \subseteq U}
<1>1. 0 \in Good
  BY SpreadUnfolds
<1>2. ASSUME NEW k \in Nat, k \in Good
      PROVE  k + 1 \in Good
  <2>1. Spread(from, next, k) \subseteq U
    BY <1>2
  <2>2. Spread(from, next, k + 1) = Onward(Spread(from, next, k), next)
    BY SpreadUnfolds
  <2>3. Spread(from, next, k + 1) \subseteq U
    BY <2>1, <2>2 DEF Onward
  <2>4. QED
    BY <2>3
<1> HIDE DEF Good
<1>3. n \in Good
  BY <1>1, <1>2, SetInduction
<1>4. QED
  BY <1>3 DEF Good

\* Where one relation leads, a wider one leads too.
LEMMA SpreadFollows ==
  ASSUME NEW from, NEW next, NEW wideFrom, NEW wide, NEW n \in Nat,
         from \subseteq wideFrom,
         \A x \in DOMAIN next \intersect Spread(from, next, n) :
           x \in DOMAIN wide /\ next[x] \subseteq wide[x]
  PROVE  Spread(from, next, n) \subseteq Spread(wideFrom, wide, n)
<1> DEFINE Good == {k \in Nat : \A x \in DOMAIN next \intersect Spread(from, next, k) :
                                  x \in DOMAIN wide /\ next[x] \subseteq wide[x]}
           Below == {k \in Nat : k \in Good => Spread(from, next, k) \subseteq Spread(wideFrom, wide, k)}
<1>1. 0 \in Below
  BY SpreadUnfolds
<1>2. ASSUME NEW k \in Nat, k \in Below
      PROVE  k + 1 \in Below
  <2>1. SUFFICES ASSUME k + 1 \in Good
                 PROVE  Spread(from, next, k + 1) \subseteq Spread(wideFrom, wide, k + 1)
    OBVIOUS
  <2>2. /\ Spread(from, next, k + 1) = Onward(Spread(from, next, k), next)
        /\ Spread(wideFrom, wide, k + 1) = Onward(Spread(wideFrom, wide, k), wide)
    BY SpreadUnfolds
  <2>3. k \in Good
    BY <2>1, <2>2 DEF Onward
  <2>4. Spread(from, next, k) \subseteq Spread(wideFrom, wide, k)
    BY <1>2, <2>3
  <2>5. QED
    BY <2>2, <2>3, <2>4 DEF Onward
<1>3. n \in Below
  <2> HIDE DEF Below
  <2>1. QED
    BY <1>1, <1>2, SetInduction
<1>4. n \in Good
  OBVIOUS
<1>5. QED
  BY <1>3, <1>4

\* Within a finite set, as many steps as it has elements reach all there is to reach.
LEMMA SpreadCloses ==
  ASSUME NEW from, NEW next, NEW U, IsFiniteSet(U), from \subseteq U,
         \A x \in DOMAIN next : next[x] \subseteq U
  PROVE  \A x \in Spread(from, next, Cardinality(U)) \intersect DOMAIN next :
           next[x] \subseteq Spread(from, next, Cardinality(U))
<1> DEFINE S(n) == Spread(from, next, n)
           Still == {n \in Nat : S(n + 1) = S(n)}
           Full == {n \in Nat : (\A k \in 0..n : k \notin Still) => Cardinality(S(n + 1)) >= n + 1}
<1>1. \A n \in Nat : S(n) \subseteq U
  <2>1. ASSUME NEW n \in Nat
        PROVE  S(n) \subseteq U
    BY SpreadWithin
  <2>2. QED
    BY <2>1
<1>2. \A n \in Nat : S(n + 1) = Onward(S(n), next) /\ S(n) \subseteq S(n + 1)
  <2>1. \A n \in Nat : S(n + 1) = Onward(S(n), next)
    BY SpreadUnfolds
  <2> HIDE DEF S
  <2>2. QED
    BY <2>1 DEF Onward
<1>3. \A n \in Nat : IsFiniteSet(S(n)) /\ Cardinality(S(n)) \in Nat /\ Cardinality(S(n)) <= Cardinality(U)
  BY <1>1, FS_Subset, FS_CardinalityType
<1>4. \A n \in Nat : n \notin Still => Cardinality(S(n)) + 1 <= Cardinality(S(n + 1))
  <2>1. SUFFICES ASSUME NEW n \in Nat, S(n) # S(n + 1)
                 PROVE  Cardinality(S(n)) + 1 <= Cardinality(S(n + 1))
    OBVIOUS
  <2>2. n + 1 \in Nat
    OBVIOUS
  <2>3. S(n) \subseteq S(n + 1) /\ IsFiniteSet(S(n + 1))
    BY <1>2, <1>3, <2>2
  <2>4. Cardinality(S(n)) < Cardinality(S(n + 1))
    <3> HIDE DEF S
    <3>1. S(n) \in SUBSET S(n + 1)
      BY <2>3
    <3>2. Cardinality(S(n)) <= Cardinality(S(n + 1)) /\ Cardinality(S(n)) # Cardinality(S(n + 1))
      BY <2>1, <2>3, <3>1, FS_Subset
    <3>3. QED
      BY <1>3, <2>2, <3>2
  <2>5. Cardinality(S(n)) \in Nat /\ Cardinality(S(n + 1)) \in Nat
    BY <1>3, <2>2
  <2> HIDE DEF S
  <2>6. QED
    BY <2>4, <2>5
<1> HIDE DEF S
<1>5. \A n \in Nat : n \in Full
  <2>1. 0 \in Full
    <3>1. SUFFICES ASSUME 0 \notin Still
                   PROVE  Cardinality(S(0 + 1)) >= 0 + 1
      OBVIOUS
    <3>2. Cardinality(S(0)) + 1 <= Cardinality(S(0 + 1))
      BY <1>4, <3>1
    <3>3. Cardinality(S(0)) \in Nat /\ Cardinality(S(0 + 1)) \in Nat
      BY <1>3
    <3>4. QED
      BY <3>2, <3>3
  <2>2. ASSUME NEW n \in Nat, n \in Full
        PROVE  n + 1 \in Full
    <3>1. SUFFICES ASSUME \A k \in 0..(n + 1) : k \notin Still
                   PROVE  Cardinality(S((n + 1) + 1)) >= (n + 1) + 1
      OBVIOUS
    <3>2. Cardinality(S(n + 1)) >= n + 1
      BY <2>2, <3>1
    <3>3. n + 1 \in Nat /\ n + 1 \notin Still
      BY <3>1
    <3>4. Cardinality(S(n + 1)) + 1 <= Cardinality(S((n + 1) + 1))
      BY <1>4, <3>3
    <3>5. Cardinality(S(n + 1)) \in Nat /\ Cardinality(S((n + 1) + 1)) \in Nat
      BY <1>3
    <3>6. QED
      BY <3>2, <3>4, <3>5
  <2> HIDE DEF Full
  <2>3. QED
    BY <2>1, <2>2, SetInduction
<1> DEFINE c == Cardinality(U)
<1>6. c \in Nat
  BY FS_CardinalityType
<1>7. PICK k \in 0..c : k \in Still
  <2>1. SUFFICES ASSUME \A k \in 0..c : k \notin Still
                 PROVE  FALSE
    OBVIOUS
  <2>2. Cardinality(S(c + 1)) >= c + 1
    BY <1>5, <1>6, <2>1
  <2>3. Cardinality(S(c + 1)) \in Nat /\ Cardinality(S(c + 1)) <= c
    BY <1>3, <1>6
  <2>4. QED
    BY <1>6, <2>2, <2>3
<1>8. \A n \in Nat : n >= k => n \in Still
  <2> DEFINE Later == {n \in Nat : n >= k => n \in Still}
  <2>1. 0 \in Later
    BY <1>7
  <2>2. ASSUME NEW n \in Nat, n \in Later
        PROVE  n + 1 \in Later
    <3>1. SUFFICES ASSUME n + 1 >= k
                   PROVE  n + 1 \in Still
      OBVIOUS
    <3>2. CASE n + 1 = k
      BY <1>7, <3>2
    <3>3. CASE n >= k
      <4>1. S(n + 1) = S(n)
        BY <2>2, <3>3
      <4>2. n + 1 \in Nat
        OBVIOUS
      <4>3. S((n + 1) + 1) = Onward(S(n + 1), next)
        BY <1>2, <4>2
      <4>4. S(n + 1) = Onward(S(n), next)
        BY <1>2
      <4>5. S((n + 1) + 1) = S(n + 1)
        BY <4>1, <4>3, <4>4
      <4>6. QED
        BY <4>2, <4>5
    <3>4. QED
      BY <1>6, <3>1, <3>2, <3>3
  <2> HIDE DEF Later
  <2>3. \A n \in Nat : n \in Later
    BY <2>1, <2>2, SetInduction
  <2>4. QED
    BY <2>3 DEF Later
<1>9. S(c + 1) = S(c)
  BY <1>6, <1>7, <1>8
<1>10. S(c + 1) = Onward(S(c), next)
  BY <1>2, <1>6
<1>11. QED
  BY <1>9, <1>10 DEF S, Onward

-----------------------------------------------------------------------------
(* Names.                                                                  *)

\* Of transforms that are not none, one stands last in the graph.
LEMMA LastOfBelongs ==
  ASSUME NEW S, S \subseteq Transform, IsFiniteSet(S), S # {}
  PROVE  LastOf(S) \in S
<1>1. PICK seq \in Seq(S) : \A s \in S : \E n \in 1..Len(seq) : seq[n] = s
  BY DEF IsFiniteSet
<1> DEFINE Late(k, n) == \A j \in 1..n : Order[seq[j]] <= Order[seq[k]]
           Good == {n \in Nat : n \in 1..Len(seq) => \E k \in 1..n : Late(k, n)}
<1>2. \A k \in 1..Len(seq) : seq[k] \in S /\ Order[seq[k]] \in Nat
  BY TransformsAssumption
<1>3. 0 \in Good
  OBVIOUS
<1>4. ASSUME NEW n \in Nat, n \in Good
      PROVE  n + 1 \in Good
  <2>1. SUFFICES ASSUME n + 1 \in 1..Len(seq)
                 PROVE  \E k \in 1..(n + 1) : Late(k, n + 1)
    OBVIOUS
  <2>2. CASE n = 0
    <3>1. Late(1, 1)
      BY <1>2, <2>1, <2>2
    <3>2. QED
      BY <2>2, <3>1
  <2>3. CASE n # 0
    <3>1. PICK k \in 1..n : Late(k, n)
      BY <1>4, <2>1, <2>3
    <3>2. Order[seq[k]] \in Nat /\ Order[seq[n + 1]] \in Nat
      BY <1>2, <2>1
    <3>3. CASE Order[seq[n + 1]] <= Order[seq[k]]
      <4>1. Late(k, n + 1)
        BY <3>1, <3>3
      <4>2. QED
        BY <4>1
    <3>4. CASE Order[seq[k]] <= Order[seq[n + 1]]
      <4>1. \A j \in 1..(n + 1) : Order[seq[j]] \in Nat
        BY <1>2, <2>1
      <4>2. Late(n + 1, n + 1)
        BY <3>1, <3>2, <3>4, <4>1
      <4>3. QED
        BY <4>2
    <3> HIDE DEF Late
    <3>5. Order[seq[n + 1]] <= Order[seq[k]] \/ Order[seq[k]] <= Order[seq[n + 1]]
      BY <3>2
    <3>6. QED
      BY <3>3, <3>4, <3>5
  <2>4. QED
    BY <2>2, <2>3
<1>5. Len(seq) \in Good
  <2> HIDE DEF Good
  <2>1. QED
    BY <1>3, <1>4, SetInduction
<1>6. Len(seq) \in 1..Len(seq)
  BY <1>1
<1>7. PICK k \in 1..Len(seq) : Late(k, Len(seq))
  BY <1>5, <1>6
<1>8. \A u \in S : Order[u] <= Order[seq[k]]
  BY <1>1, <1>7
<1>9. QED
  BY <1>2, <1>8 DEF LastOf

\* Of transforms that are not none, one stands first.
LEMMA FirstOfBelongs ==
  ASSUME NEW S, S \subseteq Transform, S # {}
  PROVE  FirstOf(S) \in S
<1> DEFINE At == {Order[t] : t \in S}
<1>1. At \subseteq Nat /\ At # {}
  BY TransformsAssumption
<1>2. PICK x \in At : \A y \in At : x <= y
  <2> HIDE DEF At
  <2>1. QED
    BY <1>1, LeastElement
<1>3. PICK t \in S : x = Order[t]
  OBVIOUS
<1>4. \A u \in S : Order[t] <= Order[u]
  BY <1>2, <1>3
<1>5. QED
  BY <1>4 DEF FirstOf

\* What a name is resolved to is of the composition, whichever stage resolves it.
LEMMA NamesLeadInside ==
  ASSUME NEW lib, IsLibrary(lib), NEW name
  PROVE  /\ Resolved(lib, name) \in DOMAIN lib \union {None}
         /\ Lowered(lib, name) \in DOMAIN lib \union {None}
<1>1. \A c : Bearers(lib, c) \subseteq DOMAIN lib /\ Bearers(lib, c) \subseteq Transform /\ IsFiniteSet(Bearers(lib, c))
  BY FS_Subset DEF IsLibrary, Bearers
<1>2. Resolved(lib, name) \in DOMAIN lib \union {None}
  <2>1. Bearers(lib, name) # {} => FirstOf(Bearers(lib, name)) \in Bearers(lib, name)
    BY <1>1, FirstOfBelongs
  <2>2. QED
    BY <1>1, <2>1 DEF Resolved
<1>3. Lowered(lib, name) \in DOMAIN lib \union {None}
  <2> DEFINE S == Bearers(lib, IF name \in Transform THEN CodeOf[name] ELSE name)
  <2>1. S \subseteq DOMAIN lib /\ S \subseteq Transform /\ IsFiniteSet(S)
    BY <1>1
  <2>2. Lowered(lib, name) = IF S = {} THEN None ELSE LastOf(S)
    BY DEF Lowered
  <2> HIDE DEF S
  <2>3. QED
    BY <2>1, <2>2, LastOfBelongs
<1>4. QED
  BY <1>2, <1>3

\* Where no code is borne twice, S5 lowers the very transform S4 judged.
LEMMA LoweredIsResolved ==
  ASSUME NEW lib, IsLibrary(lib), Unambiguous(lib), NEW name \in Transform \union Code,
         Resolved(lib, name) # None
  PROVE  Lowered(lib, name) = Resolved(lib, name)
<1>1. DOMAIN lib \subseteq Transform /\ IsFiniteSet(DOMAIN lib)
  BY DEF IsLibrary
<1>2. Resolved(lib, name) \in DOMAIN lib
  BY NamesLeadInside
<1> DEFINE t == Resolved(lib, name)
           c == IF name \in Transform THEN CodeOf[name] ELSE name
<1>3. CodeOf[t] = c
  <2>1. CASE name \in DOMAIN lib
    BY <1>1, <2>1 DEF Resolved
  <2>2. CASE name \notin DOMAIN lib
    <3>1. name \in Code /\ Bearers(lib, name) # {} /\ t = FirstOf(Bearers(lib, name))
      BY <2>2 DEF Resolved
    <3>2. t \in Bearers(lib, name)
      BY <1>1, <3>1, FirstOfBelongs DEF Bearers
    <3>3. name \notin Transform
      BY <3>1, TransformsAssumption
    <3>4. QED
      BY <3>2, <3>3 DEF Bearers
  <2>3. QED
    BY <2>1, <2>2
<1> HIDE DEF t, c
<1>4. Bearers(lib, c) = {t}
  BY <1>2, <1>3 DEF Bearers, Unambiguous, t
<1>5. LastOf({t}) = t
  <2>1. t \in Transform /\ Order[t] \in Nat
    BY <1>1, <1>2, TransformsAssumption DEF t
  <2>2. LastOf({t}) \in {t}
    BY <2>1, FS_Singleton, LastOfBelongs
  <2>3. QED
    BY <2>2
<1>6. QED
  BY <1>4, <1>5 DEF Lowered, c, t

-----------------------------------------------------------------------------
(* Lowering.                                                               *)

\* What lowers within one level more.
LEMMA FitsUnfolds ==
  ASSUME NEW lib
  PROVE  /\ Fits(lib, 0) = {}
         /\ \A n \in Nat : Fits(lib, n + 1) = {t \in DOMAIN lib : LowersOver(lib, t, Fits(lib, n))}
<1> DEFINE Over(v) == {t \in DOMAIN lib : LowersOver(lib, t, v)}
           over == [v \in SUBSET DOMAIN lib |-> Over(v)]
           step == [n \in Nat |-> over]
           V == SUBSET DOMAIN lib
           Is(f) == f = [k \in Nat |-> IF k = 0 THEN {}
                                       ELSE LET bodies == f[k - 1]
                                            IN  {t \in DOMAIN lib : LowersOver(lib, t, bodies)}]
           fits == CHOOSE f : Is(f)
<1>1. {} \in V /\ step \in [Nat -> [V -> V]]
  <2>1. over \in [V -> V]
    OBVIOUS
  <2> HIDE DEF over
  <2>2. QED
    BY <2>1
<1>2. PICK f \in [Nat -> V] : f = [n \in Nat |-> IF n = 0 THEN {} ELSE step[n][f[n - 1]]]
  <2> DEFINE start == {}
  <2>1. start \in V /\ step \in [Nat -> [V -> V]]
    BY <1>1
  <2> HIDE DEF step, V, start
  <2>2. \E f \in [Nat -> V] : f = [n \in Nat |-> IF n = 0 THEN start ELSE step[n][f[n - 1]]]
    BY <2>1, PrimitiveRecursion
  <2>3. QED
    BY <2>2 DEF start
<1>3. \A n \in Nat : f[n] = IF n = 0 THEN {} ELSE Over(f[n - 1])
  <2>1. SUFFICES ASSUME NEW n \in Nat
                 PROVE  f[n] = IF n = 0 THEN {} ELSE Over(f[n - 1])
    OBVIOUS
  <2>2. f[n] = IF n = 0 THEN {} ELSE step[n][f[n - 1]]
    BY <1>2
  <2>3. n # 0 => f[n - 1] \in V
    OBVIOUS
  <2>4. n # 0 => step[n][f[n - 1]] = Over(f[n - 1])
    BY <2>3
  <2>5. QED
    BY <2>2, <2>4
<1>4. Is(f)
  <2>1. f = [n \in Nat |-> f[n]]
    OBVIOUS
  <2> HIDE DEF step, over, V
  <2>2. [n \in Nat |-> f[n]] = [n \in Nat |-> IF n = 0 THEN {} ELSE Over(f[n - 1])]
    BY <1>3
  <2>3. QED
    BY <2>1, <2>2
<1>5. Is(fits)
  <2> HIDE DEF Is
  <2>1. QED
    BY <1>4
<1>6. \A n \in Nat : Fits(lib, n) = fits[n]
  BY DEF Fits
<1>7. \A n \in Nat : fits[n] = IF n = 0 THEN {} ELSE Over(fits[n - 1])
  <2> HIDE DEF fits
  <2>1. QED
    BY <1>5
<1> HIDE DEF fits, Is, step, over, V
<1>8. Fits(lib, 0) = {}
  BY <1>6, <1>7
<1>9. ASSUME NEW n \in Nat
      PROVE  Fits(lib, n + 1) = {t \in DOMAIN lib : LowersOver(lib, t, Fits(lib, n))}
  <2>1. n + 1 \in Nat /\ n + 1 # 0 /\ (n + 1) - 1 = n
    OBVIOUS
  <2>2. fits[n + 1] = Over(fits[n])
    BY <1>7, <2>1
  <2>3. Fits(lib, n + 1) = fits[n + 1] /\ Fits(lib, n) = fits[n]
    BY <1>6, <2>1
  <2>4. QED
    BY <2>2, <2>3
<1>10. QED
  BY <1>8, <1>9

\* What lowers within some levels lowers within one more.
LEMMA FitsGrows ==
  ASSUME NEW lib, NEW n \in Nat
  PROVE  Fits(lib, n) \subseteq Fits(lib, n + 1)
<1> DEFINE Good == {k \in Nat : Fits(lib, k) \subseteq Fits(lib, k + 1)}
<1>1. 0 \in Good
  BY FitsUnfolds
<1>2. ASSUME NEW k \in Nat, k \in Good
      PROVE  k + 1 \in Good
  <2>1. /\ Fits(lib, k + 1) = {t \in DOMAIN lib : LowersOver(lib, t, Fits(lib, k))}
        /\ Fits(lib, (k + 1) + 1) = {t \in DOMAIN lib : LowersOver(lib, t, Fits(lib, k + 1))}
    <3>1. k + 1 \in Nat
      OBVIOUS
    <3>2. QED
      BY <3>1, FitsUnfolds
  <2>2. \A t : LowersOver(lib, t, Fits(lib, k)) => LowersOver(lib, t, Fits(lib, k + 1))
    BY <1>2 DEF LowersOver
  <2>3. QED
    BY <2>1, <2>2
<1> HIDE DEF Good
<1>3. n \in Good
  BY <1>1, <1>2, SetInduction
<1>4. QED
  BY <1>3 DEF Good
-----------------------------------------------------------------------------
(* Sealed forms.                                                           *)

\* The form of a transform depends on the forms of the bodies its steps run, and on nothing else.
LEMMA FormOverBodies ==
  ASSUME NEW lib, NEW t, NEW f, NEW g,
         \A s \in Steps(lib, t) : s.kind # "atom" => f[Lowered(lib, s.names)] = g[Lowered(lib, s.names)]
  PROVE  FormOver(lib, t, f) = FormOver(lib, t, g)
<1> DEFINE Line(h, k) == LET s == lib[t].stream[k]
                             u == Lowered(lib, s.names)
                         IN  [kind |-> s.kind, runs |-> u, as |-> s.as,
                              purity |-> SealedPurity(lib, t, u),
                              body |-> IF s.kind = "atom" THEN NoBody ELSE h[u]]
           Lines(h) == [k \in DOMAIN lib[t].stream |-> Line(h, k)]
<1>1. ASSUME NEW k \in DOMAIN lib[t].stream
      PROVE  Line(f, k) = Line(g, k)
  <2>1. lib[t].stream[k] \in Steps(lib, t)
    BY DEF Steps, Range
  <2>2. QED
    BY <2>1
<1>2. /\ FormOver(lib, t, f) = IF lib[t].kind = "atom" THEN FormOver(lib, t, f)
                               ELSE [stream |-> Lines(f), emit |-> CHOOSE symbol \in lib[t].emit : TRUE]
      /\ FormOver(lib, t, g) = IF lib[t].kind = "atom" THEN FormOver(lib, t, g)
                               ELSE [stream |-> Lines(g), emit |-> CHOOSE symbol \in lib[t].emit : TRUE]
  BY DEF FormOver
<1>3. lib[t].kind = "atom" => FormOver(lib, t, f) = FormOver(lib, t, g)
  BY DEF FormOver
<1>4. Lines(f) = Lines(g)
  <2> HIDE DEF Line
  <2>1. QED
    BY <1>1
<1> HIDE DEF Lines
<1>5. QED
  BY <1>2, <1>3, <1>4

\* Of a composition that lowers, every transform has its sealed form over those of the others.
LEMMA FormsUnfold ==
  ASSUME NEW lib, Lowers(lib)
  PROVE  Forms(lib) = [t \in DOMAIN lib |-> FormOver(lib, t, Forms(lib))]
<1> DEFINE Over(f) == [t \in DOMAIN lib |-> FormOver(lib, t, f)]
           Formed(n) == {t \in DOMAIN lib : lib[t].kind = "atom" \/ t \in Fits(lib, n)}
           Good == {n \in Nat : \E f : \A t \in Formed(n) : Over(f)[t] = FormOver(lib, t, Over(f))}
<1>1. ASSUME NEW t \in DOMAIN lib, lib[t].kind = "atom", NEW f, NEW g
      PROVE  FormOver(lib, t, f) = FormOver(lib, t, g)
  BY <1>1 DEF FormOver
<1>2. 0 \in Good
  <2>1. \A t \in Formed(0) : lib[t].kind = "atom"
    BY FitsUnfolds
  <2> DEFINE f == Over(<<>>)
  <2>2. ASSUME NEW t \in Formed(0)
        PROVE  Over(<<>>)[t] = FormOver(lib, t, f)
    BY <1>1, <2>1
  <2>3. QED
    BY <2>2
<1>3. ASSUME NEW n \in Nat, n \in Good
      PROVE  n + 1 \in Good
  <2>1. PICK f : \A t \in Formed(n) : Over(f)[t] = FormOver(lib, t, Over(f))
    BY <1>3
  <2> DEFINE g == Over(f)
  <2>2. ASSUME NEW t \in Formed(n + 1)
        PROVE  Over(g)[t] = FormOver(lib, t, Over(g))
    <3>1. CASE lib[t].kind = "atom"
      <4>1. t \in DOMAIN lib
        OBVIOUS
      <4> HIDE DEF g
      <4>2. FormOver(lib, t, g) = FormOver(lib, t, Over(g))
        BY <1>1, <3>1, <4>1
      <4>3. QED
        BY <4>1, <4>2
    <3>2. CASE lib[t].kind # "atom"
      <4>1. t \in DOMAIN lib /\ LowersOver(lib, t, Fits(lib, n))
        BY <3>2, FitsUnfolds
      <4>2. Fits(lib, n) \subseteq DOMAIN lib
        <5>1. Fits(lib, n) \subseteq Fits(lib, n + 1)
          BY FitsGrows
        <5>2. QED
          BY <5>1, FitsUnfolds
      <4>3. ASSUME NEW s \in Steps(lib, t), s.kind # "atom"
            PROVE  g[Lowered(lib, s.names)] = Over(g)[Lowered(lib, s.names)]
        <5>1. Lowered(lib, s.names) \in Fits(lib, n)
          BY <4>1, <4>3 DEF LowersOver
        <5>2. Lowered(lib, s.names) \in Formed(n) /\ Lowered(lib, s.names) \in DOMAIN lib
          BY <4>2, <5>1
        <5>3. Over(g)[Lowered(lib, s.names)] = FormOver(lib, Lowered(lib, s.names), g)
          BY <5>2
        <5>4. QED
          BY <2>1, <5>2, <5>3
      <4> HIDE DEF g
      <4>4. FormOver(lib, t, g) = FormOver(lib, t, Over(g))
        <5> DEFINE h == Over(g)
        <5>1. \A s \in Steps(lib, t) : s.kind # "atom" => g[Lowered(lib, s.names)] = h[Lowered(lib, s.names)]
          BY <4>3
        <5> HIDE DEF h
        <5>2. FormOver(lib, t, g) = FormOver(lib, t, h)
          BY <5>1, FormOverBodies
        <5>3. QED
          BY <5>2 DEF h
      <4>5. QED
        BY <4>1, <4>4
    <3>3. QED
      BY <3>1, <3>2
  <2>3. QED
    BY <2>2
<1>4. MaxDepth + 1 \in Nat
  BY TransformsAssumption
<1>5. MaxDepth + 1 \in Good
  <2> HIDE DEF Good
  <2>1. QED
    BY <1>2, <1>3, <1>4, SetInduction
<1>6. PICK f : \A t \in Formed(MaxDepth + 1) : Over(f)[t] = FormOver(lib, t, Over(f))
  BY <1>5
<1>7. Formed(MaxDepth + 1) = DOMAIN lib
  BY DEF Lowers
<1> DEFINE Is(form) == form = [t \in DOMAIN lib |-> FormOver(lib, t, form)]
<1>8. Is(Over(f))
  <2> DEFINE g == Over(f)
  <2>1. g = [t \in DOMAIN lib |-> g[t]]
    OBVIOUS
  <2>2. \A t \in DOMAIN lib : g[t] = FormOver(lib, t, g)
    BY <1>6, <1>7
  <2> HIDE DEF g
  <2>3. Is(g)
    BY <2>1, <2>2
  <2>4. QED
    BY <2>3 DEF g
<1>9. Forms(lib) = CHOOSE form : Is(form)
  BY DEF Forms
<1>10. Is(CHOOSE form : Is(form))
  <2> HIDE DEF Is
  <2>1. QED
    BY <1>8
<1>11. QED
  BY <1>9, <1>10

\* What the sealed form of a transform that lowers is made of: of an atom, the one step that runs it;
\* of a molecule, its steps, each lowered, with its own purity and with the form of its body.
LEMMA FormLines ==
  ASSUME NEW lib, IsLibrary(lib), Lowers(lib), NEW t \in DOMAIN lib
  PROVE  LET form == Forms(lib)[t] IN
         /\ Len(form.stream) \in Nat /\ DOMAIN form.stream = 1..Len(form.stream)
         /\ lib[t].kind = "atom" =>
              /\ Len(form.stream) = 1
              /\ form.stream[1].kind = "atom" /\ form.stream[1].runs = t
              /\ form.stream[1].purity = lib[t].purity /\ form.stream[1].as = AtomResult
              /\ form.emit = AtomResult
         /\ lib[t].kind # "atom" =>
              /\ t \in Molecules(lib) /\ t \in Fits(lib, MaxDepth + 1)
              /\ form.emit = CHOOSE symbol \in lib[t].emit : TRUE
              /\ DOMAIN form.stream = DOMAIN lib[t].stream
              /\ \A k \in DOMAIN form.stream :
                   /\ form.stream[k].kind = lib[t].stream[k].kind /\ form.stream[k].as = lib[t].stream[k].as
                   /\ form.stream[k].runs = Lowered(lib, lib[t].stream[k].names)
                   /\ form.stream[k].runs \in DOMAIN lib
                   /\ form.stream[k].purity = lib[form.stream[k].runs].purity
                   /\ form.stream[k].kind # "atom" => form.stream[k].body = Forms(lib)[form.stream[k].runs]
<1> DEFINE form == Forms(lib)[t]
<1>1. form = FormOver(lib, t, Forms(lib))
  BY FormsUnfold
<1>2. CASE lib[t].kind = "atom"
  <2>1. form = [stream |-> <<[kind |-> "atom", runs |-> t, as |-> AtomResult,
                              purity |-> lib[t].purity, body |-> NoBody]>>,
                emit   |-> AtomResult]
    BY <1>1, <1>2 DEF FormOver, SealedPurity
  <2> HIDE DEF form
  <2>2. QED
    BY <1>2, <2>1 DEF form
<1>3. CASE lib[t].kind # "atom"
  <2> DEFINE Line(k) == LET s == lib[t].stream[k]
                            u == Lowered(lib, s.names)
                        IN  [kind |-> s.kind, runs |-> u, as |-> s.as, purity |-> lib[u].purity,
                             body |-> IF s.kind = "atom" THEN NoBody ELSE Forms(lib)[u]]
  <2>1. form = [stream |-> [k \in DOMAIN lib[t].stream |-> Line(k)],
                emit |-> CHOOSE symbol \in lib[t].emit : TRUE]
    BY <1>1, <1>3 DEF FormOver, SealedPurity
  <2>2. lib[t].kind = "molecule" /\ t \in Fits(lib, MaxDepth + 1)
    BY <1>3 DEF Lowers
  <2>3. LowersOver(lib, t, Fits(lib, MaxDepth))
    <3>1. MaxDepth \in Nat
      BY TransformsAssumption
    <3>2. QED
      BY <2>2, <3>1, FitsUnfolds
  <2>4. ASSUME NEW k \in DOMAIN lib[t].stream
        PROVE  Line(k).runs \in DOMAIN lib
    <3>1. lib[t].stream[k] \in Steps(lib, t)
      BY DEF Steps, Range
    <3>2. Lowered(lib, lib[t].stream[k].names) # None
      BY <2>3, <3>1 DEF LowersOver
    <3>3. QED
      BY <3>2, NamesLeadInside
  <2>5. Len(lib[t].stream) \in Nat /\ DOMAIN lib[t].stream = 1..Len(lib[t].stream)
    BY DEF IsLibrary, IsSequence
  <2>6. form.stream = [k \in 1..Len(lib[t].stream) |-> Line(k)]
    BY <2>1, <2>5
  <2>7. DOMAIN form.stream = 1..Len(lib[t].stream) /\ Len(form.stream) = Len(lib[t].stream)
    <3> HIDE DEF form, Line
    <3>1. form.stream \in Seq({Line(k) : k \in 1..Len(lib[t].stream)})
      BY <2>5, <2>6
    <3>2. DOMAIN form.stream = 1..Len(lib[t].stream)
      BY <2>6
    <3>3. QED
      BY <2>5, <3>1, <3>2
  <2>8. \A k \in DOMAIN form.stream : form.stream[k] = Line(k)
    <3> HIDE DEF form, Line
    <3>1. QED
      BY <2>6
  <2>9. form.emit = CHOOSE symbol \in lib[t].emit : TRUE
    BY <2>1
  <2>10. ASSUME NEW k \in DOMAIN form.stream
         PROVE  /\ form.stream[k].kind = lib[t].stream[k].kind /\ form.stream[k].as = lib[t].stream[k].as
                /\ form.stream[k].runs = Lowered(lib, lib[t].stream[k].names)
                /\ form.stream[k].runs \in DOMAIN lib
                /\ form.stream[k].purity = lib[form.stream[k].runs].purity
                /\ form.stream[k].kind # "atom" => form.stream[k].body = Forms(lib)[form.stream[k].runs]
    <3>1. form.stream[k] = Line(k) /\ k \in DOMAIN lib[t].stream
      BY <2>5, <2>7, <2>8
    <3> HIDE DEF form
    <3>2. QED
      BY <2>4, <3>1
  <2> HIDE DEF form
  <2>11. QED
    BY <1>3, <2>2, <2>5, <2>7, <2>9, <2>10 DEF Molecules, form
<1>4. QED
  BY <1>2, <1>3

-----------------------------------------------------------------------------
(* Paths of records.                                                       *)

\* The first step of m to bear a symbol.
FirstBearing(lib, m, symbol) ==
  LET at == {k \in DOMAIN lib[m].stream : lib[m].stream[k].as = symbol}
  IN  CHOOSE k \in at : \A j \in at : k <= j

\* The molecules whose steps are run when t is.
Inside(lib, t) == {t} \union (Reachable(lib, t) \intersect Molecules(lib))

\* A segment that leads anywhere leads from a molecule, by the first step that bears its symbol.
LEMMA SegmentLeads ==
  ASSUME NEW lib, IsLibrary(lib), NEW m, NEW symbol, NEW pass, Segment(lib, m, symbol, pass) # None
  PROVE  LET k == FirstBearing(lib, m, symbol) IN
         /\ m \in Molecules(lib) /\ k \in DOMAIN lib[m].stream /\ lib[m].stream[k] \in Steps(lib, m)
         /\ lib[m].stream[k].as = symbol /\ (lib[m].stream[k].kind = "loop") = (pass > 0)
         /\ Segment(lib, m, symbol, pass) = Resolved(lib, lib[m].stream[k].names)
         /\ Segment(lib, m, symbol, pass) \in DOMAIN lib
<1> DEFINE at == {k \in DOMAIN lib[m].stream : lib[m].stream[k].as = symbol}
           k == FirstBearing(lib, m, symbol)
<1>1. m \in Molecules(lib)
  BY DEF Segment
<1>2. at # {} /\ k = CHOOSE n \in at : \A j \in at : n <= j
  BY <1>1 DEF Segment, FirstBearing
<1>3. DOMAIN lib[m].stream = 1..Len(lib[m].stream)
  BY <1>1 DEF IsLibrary, IsSequence, Molecules
<1>4. k \in at
  <2>1. at \subseteq Nat
    BY <1>3
  <2>2. \E n \in at : \A j \in at : n <= j
    <3> HIDE DEF at
    <3>1. QED
      BY <1>2, <2>1, LeastElement
  <2>3. QED
    BY <1>2, <2>2
<1>5. /\ (lib[m].stream[k].kind = "loop") = (pass > 0)
      /\ Segment(lib, m, symbol, pass) = Resolved(lib, lib[m].stream[k].names)
  <2> DEFINE bears == IF m \in Molecules(lib) THEN at ELSE {}
             s == lib[m].stream[CHOOSE n \in bears : \A j \in bears : n <= j]
  <2>1. Segment(lib, m, symbol, pass) =
          IF bears # {} /\ (s.kind = "loop") = (pass > 0) THEN Resolved(lib, s.names) ELSE None
    BY DEF Segment
  <2>2. s = lib[m].stream[k]
    BY <1>1, <1>2
  <2> HIDE DEF s, bears
  <2>3. QED
    BY <2>1, <2>2
<1>6. lib[m].stream[k] \in Steps(lib, m)
  BY <1>4 DEF Steps, Range
<1>7. Segment(lib, m, symbol, pass) \in DOMAIN lib
  BY <1>5, NamesLeadInside
<1>8. QED
  BY <1>1, <1>4, <1>5, <1>6, <1>7

\* Where a path leads to in one segment more.
Unfolds(lib, t, path) ==
  /\ Along(lib, t, path, 0) = t
  /\ \A n \in Nat :
       Along(lib, t, path, n + 1) = Segment(lib, Along(lib, t, path, n), path[n + 1][1], path[n + 1][2])

\* A path leads where its last segment leads from where the others do.
LEMMA AlongUnfolds ==
  ASSUME NEW lib, IsLibrary(lib), NEW t, NEW path
  PROVE  Unfolds(lib, t, path)
<1> DEFINE By(k, m) == Segment(lib, m, path[k][1], path[k][2])
           V == DOMAIN lib \union {None, t}
           one == [k \in Nat |-> [m \in V |-> By(k, m)]]
           Is(f) == f = [k \in Nat |-> IF k = 0 THEN t ELSE By(k, f[k - 1])]
           at == CHOOSE f : Is(f)
<1>1. \A k, m : By(k, m) \in V
  BY SegmentLeads
<1>2. t \in V /\ one \in [Nat -> [V -> V]]
  <2> HIDE DEF By
  <2>1. \A k \in Nat : [m \in V |-> By(k, m)] \in [V -> V]
    BY <1>1
  <2>2. QED
    BY <2>1
<1>3. PICK f \in [Nat -> V] : f = [n \in Nat |-> IF n = 0 THEN t ELSE one[n][f[n - 1]]]
  <2> HIDE DEF one, V
  <2>1. QED
    BY <1>2, PrimitiveRecursion
<1> HIDE DEF By
<1>4. \A n \in Nat : f[n] = IF n = 0 THEN t ELSE By(n, f[n - 1])
  <2>1. SUFFICES ASSUME NEW n \in Nat
                 PROVE  f[n] = IF n = 0 THEN t ELSE By(n, f[n - 1])
    OBVIOUS
  <2>2. f[n] = IF n = 0 THEN t ELSE one[n][f[n - 1]]
    BY <1>3
  <2>3. n # 0 => f[n - 1] \in V
    <3> HIDE DEF V
    <3>1. QED
      OBVIOUS
  <2>4. n # 0 => one[n][f[n - 1]] = By(n, f[n - 1])
    <3> HIDE DEF V
    <3>1. QED
      BY <2>3
  <2>5. QED
    BY <2>2, <2>4
<1>5. Is(f)
  <2>1. f = [n \in Nat |-> f[n]]
    <3> HIDE DEF V
    <3>1. QED
      OBVIOUS
  <2> HIDE DEF one, V
  <2>2. [n \in Nat |-> f[n]] = [n \in Nat |-> IF n = 0 THEN t ELSE By(n, f[n - 1])]
    BY <1>4
  <2>3. QED
    BY <2>1, <2>2
<1>6. Is(at)
  <2> HIDE DEF Is
  <2>1. QED
    BY <1>5
<1>7. \A n \in Nat : Along(lib, t, path, n) = at[n]
  BY DEF Along, By
<1>8. \A n \in Nat : at[n] = IF n = 0 THEN t ELSE By(n, at[n - 1])
  <2> HIDE DEF at
  <2>1. QED
    BY <1>6
<1> HIDE DEF at, Is, one, V
<1>9. ASSUME NEW n \in Nat
      PROVE  Along(lib, t, path, n + 1) = By(n + 1, Along(lib, t, path, n))
  <2>1. n + 1 \in Nat /\ n + 1 # 0 /\ (n + 1) - 1 = n
    OBVIOUS
  <2>2. QED
    BY <1>7, <1>8, <2>1
<1>10. QED
  BY <1>7, <1>8, <1>9 DEF By, Unfolds

\* The segment leads from m to u, by the first step to bear its symbol.
LeadsOn(lib, m, segment, u) ==
  LET k == FirstBearing(lib, m, segment[1])
  IN  /\ m \in Molecules(lib) /\ k \in DOMAIN lib[m].stream /\ lib[m].stream[k] \in Steps(lib, m)
      /\ lib[m].stream[k].as = segment[1] /\ (lib[m].stream[k].kind = "loop") = (segment[2] > 0)
      /\ u = Resolved(lib, lib[m].stream[k].names) /\ u \in DOMAIN lib

\* A path that leads somewhere leads through molecules all the way.
LEMMA AlongLeads ==
  ASSUME NEW lib, IsLibrary(lib), NEW t, NEW path, NEW n \in Nat, Along(lib, t, path, n) # None
  PROVE  \A k \in 1..n : LeadsOn(lib, Along(lib, t, path, k - 1), path[k], Along(lib, t, path, k))
<1> DEFINE at(k) == Along(lib, t, path, k)
           Back == {j \in Nat : j <= n => at(n - j) # None}
<1>0. Unfolds(lib, t, path)
  BY AlongUnfolds
<1>1. ASSUME NEW k \in Nat, at(k + 1) # None
      PROVE  LeadsOn(lib, at(k), path[k + 1], at(k + 1)) /\ at(k) # None
  <2>1. at(k + 1) = Segment(lib, at(k), path[k + 1][1], path[k + 1][2])
    BY <1>0 DEF Unfolds
  <2> DEFINE m == at(k)
             seg == path[k + 1]
             f == FirstBearing(lib, m, seg[1])
  <2> HIDE DEF at, m, seg
  <2>2. Segment(lib, m, seg[1], seg[2]) # None
    BY <1>1, <2>1 DEF m, seg
  <2>3. /\ m \in Molecules(lib) /\ f \in DOMAIN lib[m].stream /\ lib[m].stream[f] \in Steps(lib, m)
        /\ lib[m].stream[f].as = seg[1] /\ (lib[m].stream[f].kind = "loop") = (seg[2] > 0)
        /\ Segment(lib, m, seg[1], seg[2]) = Resolved(lib, lib[m].stream[f].names)
        /\ Segment(lib, m, seg[1], seg[2]) \in DOMAIN lib
    BY <2>2, SegmentLeads
  <2>4. LeadsOn(lib, m, seg, Segment(lib, m, seg[1], seg[2]))
    BY <2>3 DEF LeadsOn
  <2>5. m # None
    BY <2>3, TransformsAssumption DEF Molecules, IsLibrary
  <2>6. QED
    BY <2>1, <2>4, <2>5 DEF m, seg
<1> HIDE DEF at
<1>2. 0 \in Back
  BY DEF at
<1>3. ASSUME NEW j \in Nat, j \in Back
      PROVE  j + 1 \in Back
  <2>1. SUFFICES ASSUME j + 1 <= n
                 PROVE  at(n - (j + 1)) # None
    OBVIOUS
  <2> DEFINE k == n - (j + 1)
  <2>2. k \in Nat /\ k + 1 = n - j /\ j <= n
    BY <2>1
  <2> HIDE DEF k
  <2>3. at(k + 1) # None
    BY <1>3, <2>2
  <2>4. at(k) # None
    BY <1>1, <2>2, <2>3
  <2>5. QED
    BY <2>4 DEF k
<1>4. \A j \in Nat : j \in Back
  <2> HIDE DEF Back
  <2>1. QED
    BY <1>2, <1>3, SetInduction
<1>5. ASSUME NEW k \in 1..n
      PROVE  LeadsOn(lib, at(k - 1), path[k], at(k))
  <2>1. n - k \in Nat /\ n - k <= n /\ n - (n - k) = k
    OBVIOUS
  <2>2. at(k) # None
    BY <1>4, <2>1
  <2> DEFINE j == k - 1
  <2>3. j \in Nat /\ j + 1 = k
    OBVIOUS
  <2> HIDE DEF j
  <2>4. LeadsOn(lib, at(j), path[j + 1], at(j + 1))
    BY <1>1, <2>2, <2>3
  <2>5. QED
    BY <2>3, <2>4 DEF j
<1>6. QED
  BY <1>5 DEF at

\* What the steps of a molecule inside t run is reached from t.
LEMMA InsideCloses ==
  ASSUME NEW lib, IsLibrary(lib), NEW t \in Molecules(lib), NEW m \in Inside(lib, t),
         NEW s \in Steps(lib, m), Resolved(lib, s.names) \in DOMAIN lib
  PROVE  Resolved(lib, s.names) \in Reachable(lib, t)
<1> DEFINE next == [x \in Molecules(lib) |-> Runs(lib, x)]
           n == Cardinality(DOMAIN lib)
           u == Resolved(lib, s.names)
<1>1. IsFiniteSet(DOMAIN lib) /\ n \in Nat
  BY FS_CardinalityType DEF IsLibrary
<1>2. u \in Runs(lib, m)
  BY TransformsAssumption DEF Runs, IsLibrary
<1>3. \A x : Runs(lib, x) \subseteq DOMAIN lib
  BY NamesLeadInside DEF Runs
<1>4. Reachable(lib, t) = Spread(Runs(lib, t), next, n)
  BY DEF Reachable
<1>5. CASE m = t
  <2> HIDE DEF next, n
  <2>1. Runs(lib, t) \subseteq Spread(Runs(lib, t), next, n)
    BY <1>1, SpreadGrows
  <2>2. QED
    BY <1>2, <1>4, <1>5, <2>1
<1>6. CASE m # t
  <2>1. m \in Spread(Runs(lib, t), next, n) /\ m \in DOMAIN next
    BY <1>4, <1>6 DEF Inside
  <2>2. \A x \in DOMAIN next : next[x] \subseteq DOMAIN lib
    BY <1>3
  <2>3. next[m] = Runs(lib, m)
    BY <2>1
  <2> HIDE DEF next
  <2>4. \A x \in Spread(Runs(lib, t), next, n) \intersect DOMAIN next : next[x] \subseteq Spread(Runs(lib, t), next, n)
    BY <1>1, <1>3, <2>2, SpreadCloses
  <2>5. QED
    BY <1>2, <1>4, <2>1, <2>3, <2>4
<1>7. QED
  BY <1>5, <1>6

\* The places inside t at which m stands.
Places(lib, t, m) ==
  UNION {{<<n, k>> : k \in {k \in DOMAIN lib[n].stream : Resolved(lib, lib[n].stream[k].names) = m}} :
         n \in Inside(lib, t)}

\* Where there is one place only, two places are the same.
LEMMA OnePlace ==
  ASSUME NEW lib, IsLibrary(lib), NEW t \in DOMAIN lib, NEW m, Cardinality(Places(lib, t, m)) = 1,
         NEW x \in Inside(lib, t), NEW j \in DOMAIN lib[x].stream, Resolved(lib, lib[x].stream[j].names) = m,
         NEW y \in Inside(lib, t), NEW k \in DOMAIN lib[y].stream, Resolved(lib, lib[y].stream[k].names) = m
  PROVE  x = y /\ j = k
<1> DEFINE row == [n \in Inside(lib, t) |->
                     {<<n, i>> : i \in {i \in DOMAIN lib[n].stream : Resolved(lib, lib[n].stream[i].names) = m}}]
           rows == {row[n] : n \in Inside(lib, t)}
<1>1. Inside(lib, t) \subseteq DOMAIN lib
  BY DEF Inside, Molecules
<1>2. IsFiniteSet(Inside(lib, t))
  BY <1>1, FS_Subset DEF IsLibrary
<1>3. ASSUME NEW n \in Inside(lib, t)
      PROVE  IsFiniteSet(row[n])
  <2>1. Len(lib[n].stream) \in Nat /\ DOMAIN lib[n].stream = 1..Len(lib[n].stream)
    BY <1>1 DEF IsLibrary, IsSequence
  <2> DEFINE N == 1..Len(lib[n].stream)
  <2>2. IsFiniteSet(N) /\ IsFiniteSet({n})
    <3> DEFINE b == Len(lib[n].stream)
    <3>1. 1 \in Int /\ b \in Int
      BY <2>1
    <3> HIDE DEF b
    <3>2. IsFiniteSet(1..b)
      BY ONLY <3>1, FS_Interval
    <3>3. QED
      BY <3>2, FS_Singleton DEF b
  <2>3. row[n] \subseteq {n} \X N
    BY <2>1
  <2> HIDE DEF N, row
  <2>4. IsFiniteSet({n} \X N)
    BY <2>2, FS_Product
  <2>5. QED
    BY <2>3, <2>4, FS_Subset
<1>4. IsFiniteSet(rows)
  <2>1. DOMAIN row = Inside(lib, t)
    OBVIOUS
  <2> HIDE DEF row
  <2>2. QED
    BY <1>2, <2>1, FiniteImage
<1>5. Places(lib, t, m) = UNION rows
  BY DEF Places
<1>6. IsFiniteSet(Places(lib, t, m))
  <2> HIDE DEF row
  <2>1. \A T \in rows : IsFiniteSet(T)
    BY <1>3
  <2> HIDE DEF rows
  <2>2. QED
    BY <1>4, <1>5, <2>1, FS_UNION
<1>7. <<x, j>> \in Places(lib, t, m) /\ <<y, k>> \in Places(lib, t, m)
  BY DEF Places
<1>8. PICK e : Places(lib, t, m) = {e}
  BY <1>6, FS_Singleton
<1>9. <<x, j>> = <<y, k>>
  BY <1>7, <1>8
<1>10. QED
  BY <1>9

\* What a path leads through, from a molecule, is inside it and, past the start, reached from it.
LEMMA AlongInside ==
  ASSUME NEW lib, IsLibrary(lib), NEW t \in Molecules(lib), NEW path, NEW n \in Nat, Along(lib, t, path, n) # None
  PROVE  \A k \in Nat : k < n =>
           /\ Along(lib, t, path, k) \in Molecules(lib) /\ Along(lib, t, path, k) \in Inside(lib, t)
           /\ k > 0 => Along(lib, t, path, k) \in Reachable(lib, t)
<1> DEFINE at(k) == Along(lib, t, path, k)
           Good == {k \in Nat : k < n => at(k) \in Inside(lib, t) /\ (k > 0 => at(k) \in Reachable(lib, t))}
<1>1. \A k \in 1..n : LeadsOn(lib, at(k - 1), path[k], at(k))
  BY AlongLeads
<1>2. at(0) = t
  BY AlongUnfolds DEF Unfolds
<1> HIDE DEF at
<1>3. ASSUME NEW k \in Nat, k < n
      PROVE  LeadsOn(lib, at(k), path[k + 1], at(k + 1)) /\ at(k) \in Molecules(lib)
  <2>1. k + 1 \in 1..n /\ (k + 1) - 1 = k
    BY <1>3
  <2>2. LeadsOn(lib, at(k), path[k + 1], at(k + 1))
    BY <1>1, <2>1
  <2>3. QED
    BY <2>2 DEF LeadsOn
<1>4. 0 \in Good
  BY <1>2 DEF Inside
<1>5. ASSUME NEW k \in Nat, k \in Good
      PROVE  k + 1 \in Good
  <2>1. SUFFICES ASSUME k + 1 < n
                 PROVE  at(k + 1) \in Inside(lib, t) /\ at(k + 1) \in Reachable(lib, t)
    OBVIOUS
  <2>2. LeadsOn(lib, at(k), path[k + 1], at(k + 1)) /\ at(k) \in Inside(lib, t)
    BY <1>3, <1>5, <2>1
  <2> DEFINE s == lib[at(k)].stream[FirstBearing(lib, at(k), path[k + 1][1])]
  <2>3. s \in Steps(lib, at(k)) /\ at(k + 1) = Resolved(lib, s.names) /\ at(k + 1) \in DOMAIN lib
    BY <2>2 DEF LeadsOn
  <2> HIDE DEF s
  <2>4. at(k + 1) \in Reachable(lib, t)
    BY <2>2, <2>3, InsideCloses
  <2>5. at(k + 1) \in Molecules(lib)
    BY <1>3, <2>1
  <2>6. QED
    BY <2>4, <2>5 DEF Inside
<1>6. \A k \in Nat : k \in Good
  <2> HIDE DEF Good
  <2>1. QED
    BY <1>4, <1>5, SetInduction
<1>7. QED
  BY <1>3, <1>6 DEF at
=============================================================================
