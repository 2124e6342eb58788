----------------------------- MODULE Recursion -----------------------------
(***************************************************************************)
(* Induction and recursion over the naturals, stated of sets and functions *)
(* instead of operators, so that the lemmas can be cited with the sets and *)
(* functions at hand as instances.                                         *)
(***************************************************************************)
EXTENDS Listing, WellFoundedInduction, FiniteSetTheorems, SequenceTheorems, TLAPS

\* A set of naturals that is not empty has a least element.
LEMMA LeastElement ==
  ASSUME NEW S, S \subseteq Nat, S # {}
  PROVE  \E x \in S : \A y \in S : x <= y
<1> DEFINE R == OpToRel(<, Nat)
<1>1. IsWellFoundedOn(R, Nat)
  BY NatLessThanWellFounded
<1>2. \A x, y \in S : y < x => <<y, x>> \in R
  BY DEF OpToRel
<1> HIDE DEF R
<1>3. PICK x \in S : \A y \in S : ~(<<y, x>> \in R)
  BY <1>1, WFMin
<1>4. ASSUME NEW y \in S
      PROVE  x <= y
  <2>1. ~(y < x)
    BY <1>2, <1>3
  <2>2. x \in Nat /\ y \in Nat
    OBVIOUS
  <2>3. QED
    BY <2>1, <2>2
<1>5. QED
  BY <1>4

\* A set that holds 0, and n + 1 whenever it holds n, holds every natural number.
LEMMA SetInduction ==
  ASSUME NEW S, 0 \in S, \A n \in Nat : n \in S => n + 1 \in S
  PROVE  \A n \in Nat : n \in S
<1> DEFINE Out == {n \in Nat : n \notin S}
<1>1. SUFFICES ASSUME Out # {}
               PROVE  FALSE
  OBVIOUS
<1>2. PICK m \in Out : \A k \in Out : m <= k
  <2>1. Out \subseteq Nat
    OBVIOUS
  <2> HIDE DEF Out
  <2>2. QED
    BY <1>1, <2>1, LeastElement
<1>3. m \in Nat /\ m # 0 /\ m - 1 \in Nat
  OBVIOUS
<1>4. m - 1 \in S
  <2>1. ~(m <= m - 1)
    BY <1>3
  <2>2. m - 1 \notin Out
    BY <1>2, <2>1
  <2>3. QED
    BY <1>3, <2>2
<1>5. (m - 1) + 1 = m
  BY <1>3
<1>6. m \in S
  BY <1>3, <1>4, <1>5
<1>7. QED
  BY <1>6

\* The image of a finite set.
LEMMA FiniteImage ==
  ASSUME NEW S, IsFiniteSet(S), NEW f, DOMAIN f = S
  PROVE  IsFiniteSet({f[x] : x \in S})
<1> DEFINE T == {f[x] : x \in S}
           g == [x \in S |-> f[x]]
<1>1. g \in Surjection(S, T) /\ IsFiniteSet(S)
  BY DEF Surjection
<1> HIDE DEF T, g
<1>2. IsFiniteSet(T)
  BY ONLY <1>1, FS_Surjection
<1>3. QED
  BY <1>2 DEF T

\* A function that starts at a value and whose value at each further place is what the step of that
\* place makes of the one before exists.
LEMMA PrimitiveRecursion ==
  ASSUME NEW S, NEW start \in S, NEW step \in [Nat -> [S -> S]]
  PROVE  \E f \in [Nat -> S] : f = [n \in Nat |-> IF n = 0 THEN start ELSE step[n][f[n - 1]]]
<1> DEFINE Begins(g, n) == /\ g \in [0..n -> S]
                           /\ g[0] = start
                           /\ \A k \in 1..n : g[k] = step[k][g[k - 1]]
           Some == {n \in Nat : \E g : Begins(g, n)}
<1>1. \A n \in Nat : n \in Some
  <2>1. 0 \in Some
    <3>1. Begins([k \in 0..0 |-> start], 0)
      OBVIOUS
    <3>2. QED
      BY <3>1
  <2>2. ASSUME NEW n \in Nat, n \in Some
        PROVE  n + 1 \in Some
    <3>1. PICK g : Begins(g, n)
      BY <2>2
    <3> DEFINE h == [k \in 0..(n + 1) |-> IF k = n + 1 THEN step[n + 1][g[n]] ELSE g[k]]
    <3>2. h \in [0..(n + 1) -> S]
      <4>1. step[n + 1][g[n]] \in S
        BY <3>1
      <4>2. \A k \in 0..(n + 1) : k # n + 1 => g[k] \in S
        BY <3>1
      <4>3. QED
        BY <4>1, <4>2
    <3>3. h[0] = start
      BY <3>1
    <3>4. ASSUME NEW k \in 1..(n + 1)
          PROVE  h[k] = step[k][h[k - 1]]
      <4>1. k - 1 \in 0..(n + 1) /\ k - 1 # n + 1
        OBVIOUS
      <4>2. h[k - 1] = g[k - 1]
        BY <4>1
      <4>3. CASE k = n + 1
        BY <4>2, <4>3
      <4>4. CASE k # n + 1
        <5>1. k \in 1..n
          BY <4>4
        <5>2. g[k] = step[k][g[k - 1]]
          BY <3>1, <5>1
        <5>3. QED
          BY <4>2, <4>4, <5>2
      <4>5. QED
        BY <4>3, <4>4
    <3>5. Begins(h, n + 1)
      BY <3>2, <3>3, <3>4
    <3> HIDE DEF h, Begins
    <3>6. QED
      BY <3>5
  <2> HIDE DEF Some
  <2>3. QED
    BY <2>1, <2>2, SetInduction
<1>2. \A m \in Nat : \A g, h : \A n \in Nat : Begins(g, m) /\ Begins(h, n) /\ m <= n => g[m] = h[m]
  <2> DEFINE Agree == {m \in Nat : \A g, h : \A n \in Nat : Begins(g, m) /\ Begins(h, n) /\ m <= n => g[m] = h[m]}
  <2>1. 0 \in Agree
    OBVIOUS
  <2>2. ASSUME NEW m \in Nat, m \in Agree
        PROVE  m + 1 \in Agree
    <3>1. SUFFICES ASSUME NEW g, NEW h, NEW n \in Nat, Begins(g, m + 1), Begins(h, n), m + 1 <= n
                   PROVE  g[m + 1] = h[m + 1]
      <4> HIDE DEF Begins
      <4>1. QED
        OBVIOUS
    <3> DEFINE gg == [k \in 0..m |-> g[k]]
    <3>2. Begins(gg, m)
      <4>1. gg \in [0..m -> S]
        BY <3>1
      <4>2. gg[0] = start
        BY <3>1
      <4>3. ASSUME NEW k \in 1..m
            PROVE  gg[k] = step[k][gg[k - 1]]
        <5>1. k \in 1..(m + 1) /\ k \in 0..m /\ k - 1 \in 0..m
          OBVIOUS
        <5>2. g[k] = step[k][g[k - 1]]
          BY <3>1, <5>1
        <5>3. QED
          BY <5>1, <5>2
      <4>4. QED
        BY <4>1, <4>2, <4>3
    <3>3. gg[m] = h[m]
      <4>1. m <= n
        BY <3>1
      <4> HIDE DEF gg, Begins
      <4>2. QED
        BY <2>2, <3>1, <3>2, <4>1
    <3>4. g[m + 1] = step[m + 1][g[m]]
      <4>1. m + 1 \in 1..(m + 1) /\ (m + 1) - 1 = m
        OBVIOUS
      <4>2. QED
        BY <3>1, <4>1
    <3>5. h[m + 1] = step[m + 1][h[m]]
      <4>1. m + 1 \in 1..n /\ (m + 1) - 1 = m
        BY <3>1
      <4>2. QED
        BY <3>1, <4>1
    <3>6. gg[m] = g[m]
      OBVIOUS
    <3>7. QED
      BY <3>3, <3>4, <3>5, <3>6
  <2>3. \A m \in Nat : m \in Agree
    <3> HIDE DEF Agree
    <3>1. QED
      BY <2>1, <2>2, SetInduction
  <2>4. QED
    BY <2>3
<1> DEFINE pick == [n \in Nat |-> CHOOSE g : Begins(g, n)]
           f == [n \in Nat |-> pick[n][n]]
<1>3. \A n \in Nat : Begins(pick[n], n)
  <2> HIDE DEF Begins
  <2>1. QED
    BY <1>1
<1>4. f \in [Nat -> S]
  <2>1. ASSUME NEW n \in Nat
        PROVE  pick[n][n] \in S
    <3> HIDE DEF pick
    <3>1. QED
      BY <1>3
  <2>2. QED
    BY <2>1
<1>5. ASSUME NEW n \in Nat
      PROVE  f[n] = IF n = 0 THEN start ELSE step[n][f[n - 1]]
  <2>1. Begins(pick[n], n)
    BY <1>3
  <2>2. f[n] = pick[n][n]
    OBVIOUS
  <2> HIDE DEF f, pick
  <2>3. CASE n = 0
    BY <2>1, <2>2, <2>3
  <2>4. CASE n # 0
    <3>1. n - 1 \in Nat /\ n - 1 <= n /\ n \in 1..n
      BY <2>4
    <3>2. Begins(pick[n - 1], n - 1)
      BY <1>3, <3>1
    <3>3. pick[n - 1][n - 1] = pick[n][n - 1]
      <4> HIDE DEF Begins
      <4>1. QED
        BY <1>2, <2>1, <3>1, <3>2
    <3>4. f[n - 1] = pick[n - 1][n - 1]
      BY <3>1 DEF f
    <3>5. pick[n][n] = step[n][pick[n][n - 1]]
      BY <2>1, <3>1
    <3>6. QED
      BY <2>2, <2>4, <3>3, <3>4, <3>5
  <2>5. QED
    BY <2>3, <2>4
<1>6. f = [n \in Nat |-> IF n = 0 THEN start ELSE step[n][f[n - 1]]]
  <2> HIDE DEF pick
  <2>1. f = [n \in Nat |-> f[n]]
    OBVIOUS
  <2> HIDE DEF f
  <2>2. QED
    BY <1>5, <2>1
<1> HIDE DEF f
<1>7. QED
  BY <1>4, <1>6

\* A function that begins with start and goes on by these steps up to a bound.
Unrolls(g, n, S, start, step) ==
  /\ g \in [0..n -> S]
  /\ g[0] = start
  /\ \A k \in 1..n : g[k] = step[k][g[k - 1]]

\* The same up to a bound.
LEMMA BoundedRecursion ==
  ASSUME NEW n \in Nat, NEW S, NEW start \in S, NEW step \in [Nat -> [S -> S]]
  PROVE  \E g : Unrolls(g, n, S, start, step)
<1>1. PICK f \in [Nat -> S] : f = [k \in Nat |-> IF k = 0 THEN start ELSE step[k][f[k - 1]]]
  BY PrimitiveRecursion
<1> DEFINE g == [k \in 0..n |-> f[k]]
<1>2. g \in [0..n -> S] /\ 0 \in 0..n
  OBVIOUS
<1>3. g[0] = start
  BY <1>1, <1>2
<1>4. ASSUME NEW k \in 1..n
      PROVE  g[k] = step[k][g[k - 1]]
  <2>1. k \in 0..n /\ k - 1 \in 0..n /\ k # 0 /\ k \in Nat
    OBVIOUS
  <2>2. f[k] = step[k][f[k - 1]]
    BY <1>1, <2>1
  <2>3. QED
    BY <2>1, <2>2
<1> HIDE DEF g
<1>5. Unrolls(g, n, S, start, step)
  BY <1>2, <1>3, <1>4 DEF Unrolls
<1>6. QED
  BY <1>5

-----------------------------------------------------------------------------
(* Sequences that list a set.                                              *)

\* One element more.
LEMMA ContentsAppend ==
  ASSUME NEW X, NEW q \in Seq(X), NEW x
  PROVE  /\ Contents(Append(q, x)) = Contents(q) \union {x}
         /\ x \in X => Append(q, x) \in Seq(X)
<1>1. Contents(Append(q, x)) = Contents(q) \union {x}
  BY AppendProperties DEF Contents
<1>2. QED
  BY <1>1

\* A set's members, each once, in some order.
LEMMA ListedIs ==
  ASSUME NEW S, IsFiniteSet(S)
  PROVE  Listed(S) \in Seq(S) /\ Contents(Listed(S)) = S
<1> DEFINE n == Cardinality(S)
           A == Seq(S)
           next(g) == Append(g, CHOOSE x \in S : x \notin Contents(g))
           same(g) == IF S \subseteq Contents(g) THEN g ELSE next(g)
           step == [k \in Nat |-> [g \in A |-> same(g)]]
           Is(f) == f = [k \in 0 .. n |-> IF k = 0 THEN <<>> ELSE next(f[k - 1])]
           listed == CHOOSE f : Is(f)
           Good(g, k) == /\ g \in A
                         /\ Contents(g) \subseteq S
                         /\ IsFiniteSet(Contents(g))
                         /\ Cardinality(Contents(g)) = k
<1>0. n \in Nat
  BY FS_CardinalityType
<1>1. ASSUME NEW g \in A, ~(S \subseteq Contents(g))
      PROVE  next(g) \in A /\ \E x \in S \ Contents(g) : Contents(next(g)) = Contents(g) \union {x}
  <2> DEFINE x == CHOOSE x \in S : x \notin Contents(g)
  <2>1. x \in S /\ x \notin Contents(g)
    BY <1>1
  <2>2. g \in Seq(S)
    BY <1>1
  <2> HIDE DEF x
  <2>3. Append(g, x) \in Seq(S) /\ Contents(Append(g, x)) = Contents(g) \union {x}
    BY <2>1, <2>2, ContentsAppend
  <2>4. next(g) = Append(g, x)
    BY DEF x
  <2> HIDE DEF next
  <2>5. QED
    BY <2>1, <2>3, <2>4
<1>2. step \in [Nat -> [A -> A]]
  <2>1. \A g \in A : same(g) \in A
    <3> HIDE DEF next, A
    <3>1. QED
      BY <1>1
  <2> HIDE DEF same, A
  <2>2. QED
    BY <2>1
<1>3. <<>> \in A
  OBVIOUS
<1>4. PICK g \in [0 .. n -> A] : /\ g[0] = <<>>
                                 /\ \A k \in 1 .. n : g[k] = step[k][g[k - 1]]
  <2> DEFINE start == <<>>
  <2>1. n \in Nat /\ start \in A /\ step \in [Nat -> [A -> A]]
    BY <1>0, <1>2, <1>3
  <2> HIDE DEF step, A, n, start, next, Is, listed, Good, same
  <2>2. \E g : Unrolls(g, n, A, start, step)
    BY <2>1, BoundedRecursion
  <2>3. QED
    BY <2>2 DEF start, Unrolls
<1>5. \A k \in 1 .. n : k - 1 \in 0 .. n /\ k - 1 \in Nat /\ k - 1 < n /\ (k - 1) + 1 = k
  BY <1>0
<1>6. ASSUME NEW k \in 1 .. n
      PROVE  g[k] = same(g[k - 1])
  <2>1. g[k] = step[k][g[k - 1]] /\ g[k - 1] \in A /\ k \in Nat
    <3> HIDE DEF step, A, n
    <3>1. QED
      BY <1>4, <1>5, <1>0
  <2> HIDE DEF same, A
  <2>2. QED
    BY <2>1
<1>7. ASSUME NEW h, NEW k \in 1 .. n, Good(h, k - 1)
      PROVE  ~(S \subseteq Contents(h)) /\ Good(next(h), k)
  <2>1. k - 1 < n /\ k - 1 \in Nat
    BY <1>5
  <2>2. ~(S \subseteq Contents(h))
    <3>1. SUFFICES ASSUME S \subseteq Contents(h)
                   PROVE  FALSE
      OBVIOUS
    <3>2. Contents(h) = S
      BY <1>7, <3>1
    <3>3. n = k - 1
      BY <1>7, <3>2
    <3> HIDE DEF n
    <3>4. QED
      BY <2>1, <3>3
  <2>3. h \in A
    BY <1>7
  <2> HIDE DEF next, A
  <2>4. PICK x \in S \ Contents(h) : Contents(next(h)) = Contents(h) \union {x}
    BY <1>1, <2>2, <2>3
  <2>5. next(h) \in A
    BY <1>1, <2>2, <2>3
  <2>6. /\ IsFiniteSet(Contents(h) \union {x})
        /\ Cardinality(Contents(h) \union {x}) = Cardinality(Contents(h)) + 1
    BY <1>7, <2>4, FS_AddElement
  <2>7. Cardinality(Contents(next(h))) = k
    BY <1>5, <1>7, <2>4, <2>6
  <2>8. QED
    BY <1>7, <2>2, <2>4, <2>5, <2>6, <2>7
<1>8. Good(<<>>, 0)
  <2>1. Contents(<<>>) = {}
    BY DEF Contents
  <2>2. QED
    BY <1>3, <2>1, FS_EmptySet
<1> DEFINE Held == {k \in Nat : k <= n => Good(g[k], k)}
<1>9. 0 \in Held
  <2> HIDE DEF Good, A, n
  <2>1. QED
    BY <1>4, <1>8
<1>10. ASSUME NEW k \in Nat, k \in Held
       PROVE  k + 1 \in Held
  <2> HIDE DEF Good, A, step, same
  <2>1. SUFFICES ASSUME k + 1 <= n
                 PROVE  Good(g[k + 1], k + 1)
    OBVIOUS
  <2>2. k + 1 \in 1 .. n /\ (k + 1) - 1 = k /\ k <= n
    BY <2>1, <1>0
  <2>3. Good(g[k], k)
    BY <1>10, <2>2
  <2>4. ~(S \subseteq Contents(g[k])) /\ Good(next(g[k]), k + 1)
    <3> HIDE DEF next, n
    <3>1. QED
      BY <1>7, <2>2, <2>3
  <2>5. g[k + 1] = same(g[k])
    <3> HIDE DEF n
    <3>1. QED
      BY <1>6, <2>2
  <2> HIDE DEF next
  <2>6. QED
    BY <2>4, <2>5 DEF same
<1>11. \A k \in 0 .. n : Good(g[k], k)
  <2>1. \A k \in Nat : k \in Held
    <3> HIDE DEF Held
    <3>1. QED
      BY <1>9, <1>10, SetInduction
  <2> HIDE DEF Good
  <2>2. QED
    BY <1>0, <2>1
<1>12. \A k \in 1 .. n : g[k] = next(g[k - 1])
  <2>1. SUFFICES ASSUME NEW k \in 1 .. n
                 PROVE  g[k] = next(g[k - 1])
    OBVIOUS
  <2> HIDE DEF Good, next, same, n
  <2>2. ~(S \subseteq Contents(g[k - 1]))
    BY <1>5, <1>7, <1>11
  <2>3. g[k] = same(g[k - 1])
    BY <1>6
  <2>4. QED
    BY <2>2, <2>3 DEF same
<1>13. Is(g)
  <2>1. \A k \in 0 .. n : g[k] = IF k = 0 THEN <<>> ELSE next(g[k - 1])
    <3> HIDE DEF step, A, next
    <3>1. \A k \in 0 .. n : k = 0 \/ k \in 1 .. n
      BY <1>0
    <3>2. QED
      BY <1>4, <1>12, <3>1
  <2>2. g = [k \in 0 .. n |-> g[k]]
    OBVIOUS
  <2> HIDE DEF step, A, next
  <2>3. QED
    BY <2>1, <2>2
<1>14. Is(listed)
  <2> HIDE DEF Is
  <2>1. QED
    BY <1>13
<1>15. Listed(S) = listed[n]
  BY DEF Listed
<1>16. ASSUME NEW k \in 0 .. n
       PROVE  listed[k] = IF k = 0 THEN <<>> ELSE next(listed[k - 1])
  <2>1. listed = [j \in 0 .. n |-> IF j = 0 THEN <<>> ELSE next(listed[j - 1])]
    BY <1>14
  <2> HIDE DEF listed, next
  <2>2. QED
    BY <2>1
<1> DEFINE Agree == {k \in Nat : k <= n => listed[k] = g[k]}
<1>17. 0 \in Agree
  <2>1. 0 \in 0 .. n
    BY <1>0
  <2> HIDE DEF listed, next, step, A, n
  <2>2. listed[0] = <<>> /\ g[0] = <<>>
    BY <1>4, <1>16, <2>1
  <2>3. QED
    BY <2>2
<1>18. ASSUME NEW k \in Nat, k \in Agree
       PROVE  k + 1 \in Agree
  <2> HIDE DEF listed, next
  <2>1. SUFFICES ASSUME k + 1 <= n
                 PROVE  listed[k + 1] = g[k + 1]
    OBVIOUS
  <2>2. k + 1 \in 1 .. n /\ k + 1 \in 0 .. n /\ (k + 1) - 1 = k /\ k <= n /\ k + 1 # 0
    BY <2>1, <1>0
  <2>3. listed[k + 1] = next(listed[k])
    BY <1>16, <2>2
  <2>4. g[k + 1] = next(g[k])
    BY <1>12, <2>2
  <2>5. QED
    BY <1>18, <2>2, <2>3, <2>4
<1>19. listed[n] = g[n]
  <2>1. n \in Agree
    <3> HIDE DEF Agree
    <3>1. QED
      BY <1>0, <1>17, <1>18, SetInduction
  <2> HIDE DEF listed
  <2>2. QED
    BY <1>0, <2>1
<1>20. Good(g[n], n)
  <2> HIDE DEF Good
  <2>1. QED
    BY <1>0, <1>11
<1>21. Contents(g[n]) = S
  BY <1>20, FS_Subset
<1> HIDE DEF listed
<1>22. QED
  BY <1>15, <1>19, <1>20, <1>21
=============================================================================
