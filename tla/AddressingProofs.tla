-------------------------- MODULE AddressingProofs --------------------------
(***************************************************************************)
(* For any partition bases and any number of symbols: while no partition   *)
(* runs into the next, no two identities share an address, and the reverse *)
(* table gives each identity back, before and after the imported           *)
(* governance is stripped.                                                 *)
(***************************************************************************)
EXTENDS Addressing, FiniteSetTheorems, TLAPS

Populated(members) ==
  /\ members \in [Class -> SUBSET Symbol]
  /\ \A c \in Class : IsFiniteSet(members[c])

-----------------------------------------------------------------------------

\* A place is smaller than the number of symbols enumerated.
LEMMA PositionBound ==
  ASSUME NEW S, S \subseteq Symbol, IsFiniteSet(S), NEW x \in S
  PROVE  Position(x, S) \in Nat /\ Position(x, S) < Cardinality(S)
<1>1. Below(x, S) \subseteq S /\ x \notin Below(x, S)
  BY OrderAssumption DEF Below
<1>2. IsFiniteSet(Below(x, S)) /\ Cardinality(Below(x, S)) \in Nat
  BY <1>1, FS_Subset, FS_CardinalityType
<1>3. Cardinality(Below(x, S)) < Cardinality(S)
  <2>1. Below(x, S) # S
    BY <1>1
  <2>2. QED
    BY <2>1, <1>1, <1>2, FS_Subset, FS_CardinalityType
<1>4. QED
  BY <1>2, <1>3 DEF Position

\* A symbol sorted before another has the smaller place.
LEMMA PositionOrdered ==
  ASSUME NEW S, S \subseteq Symbol, IsFiniteSet(S), NEW x \in S, NEW y \in S,
         Order[x] < Order[y]
  PROVE  Position(x, S) < Position(y, S)
<1>1. Below(x, S) \subseteq Below(y, S)
  BY OrderAssumption DEF Below
<1>2. x \in Below(y, S) /\ x \notin Below(x, S)
  BY OrderAssumption DEF Below
<1>3. IsFiniteSet(Below(y, S))
  BY FS_Subset DEF Below
<1>4. Cardinality(Below(x, S)) \in Nat /\ Cardinality(Below(y, S)) \in Nat
  BY <1>1, <1>3, FS_Subset, FS_CardinalityType
<1>5. Cardinality(Below(x, S)) < Cardinality(Below(y, S))
  <2>1. Below(x, S) # Below(y, S)
    BY <1>2
  <2>2. QED
    BY <2>1, <1>1, <1>3, <1>4, FS_Subset
<1>6. QED
  BY <1>5 DEF Position

\* Two symbols of one class never share a place.
LEMMA PositionInjective ==
  ASSUME NEW S, S \subseteq Symbol, IsFiniteSet(S), NEW x \in S, NEW y \in S,
         Position(x, S) = Position(y, S)
  PROVE  x = y
<1>1. CASE Order[x] = Order[y]
  BY <1>1, OrderAssumption
<1>2. CASE Order[x] < Order[y]
  <2>1. Position(x, S) < Position(y, S)
    BY <1>2, PositionOrdered
  <2>2. QED
    BY <2>1, PositionBound
<1>3. CASE Order[y] < Order[x]
  <2>1. Position(y, S) < Position(x, S)
    BY <1>3, PositionOrdered
  <2>2. QED
    BY <2>1, PositionBound
<1>4. Order[x] \in Nat /\ Order[y] \in Nat
  BY OrderAssumption
<1>5. QED
  BY <1>1, <1>2, <1>3, <1>4

\* The address of an identity lies in its own partition.
LEMMA AddressBound ==
  ASSUME NEW members, Populated(members), NEW id \in Identities(members)
  PROVE  /\ Allocation(members)[id] = Base[id[1]] + Position(id[2], members[id[1]])
         /\ Position(id[2], members[id[1]]) \in Nat
         /\ Position(id[2], members[id[1]]) < Cardinality(members[id[1]])
         /\ Base[id[1]] \in Nat
         /\ Cardinality(members[id[1]]) \in Nat
         /\ id[1] \in Class
         /\ id[2] \in members[id[1]]
<1>1. id[1] \in Class /\ id[2] \in members[id[1]]
  BY DEF Identities
<1>2. members[id[1]] \subseteq Symbol /\ IsFiniteSet(members[id[1]])
  BY <1>1 DEF Populated
<1>3. Base[id[1]] \in Nat
  BY <1>1, BaseAssumption
<1>4. Allocation(members)[id] = Base[id[1]] + Position(id[2], members[id[1]])
  BY DEF Allocation
<1>5. Cardinality(members[id[1]]) \in Nat
  BY <1>2, FS_CardinalityType
<1>6. QED
  BY <1>1, <1>2, <1>3, <1>4, <1>5, PositionBound

\* Addresses are one-to-one while every partition holds its symbols (addressing.py:50).
THEOREM AllocationOneToOne ==
  ASSUME NEW members, Populated(members), Fits(members)
  PROVE  OneToOne(Allocation(members))
<1> DEFINE table == Allocation(members)
<1>1. DOMAIN table = Identities(members)
  BY DEF Allocation
<1>2. SUFFICES ASSUME NEW i \in Identities(members), NEW j \in Identities(members),
                      table[i] = table[j]
               PROVE  i = j
  BY <1>1 DEF OneToOne
<1>3. i = <<i[1], i[2]>> /\ j = <<j[1], j[2]>>
  BY DEF Identities
<1>4. CASE i[1] = j[1]
  <2>1. Position(i[2], members[i[1]]) = Position(j[2], members[i[1]])
    BY <1>2, <1>4, AddressBound
  <2>2. members[i[1]] \subseteq Symbol /\ IsFiniteSet(members[i[1]])
    BY AddressBound DEF Populated
  <2>3. i[2] \in members[i[1]] /\ j[2] \in members[i[1]]
    BY <1>4, AddressBound
  <2>4. i[2] = j[2]
    BY <2>1, <2>2, <2>3, PositionInjective
  <2>5. QED
    BY <2>4, <1>3, <1>4
<1>5. CASE i[1] # j[1]
  <2>1. \/ Base[i[1]] + Cardinality(members[i[1]]) <= Base[j[1]]
        \/ Base[j[1]] + Cardinality(members[j[1]]) <= Base[i[1]]
    BY <1>5, AddressBound DEF Fits
  <2>2. table[i] = Base[i[1]] + Position(i[2], members[i[1]])
    BY AddressBound
  <2>3. table[j] = Base[j[1]] + Position(j[2], members[j[1]])
    BY AddressBound
  <2>4. /\ Position(i[2], members[i[1]]) \in Nat
        /\ Position(i[2], members[i[1]]) < Cardinality(members[i[1]])
        /\ Base[i[1]] \in Nat
        /\ Cardinality(members[i[1]]) \in Nat
    BY AddressBound
  <2>5. /\ Position(j[2], members[j[1]]) \in Nat
        /\ Position(j[2], members[j[1]]) < Cardinality(members[j[1]])
        /\ Base[j[1]] \in Nat
        /\ Cardinality(members[j[1]]) \in Nat
    BY AddressBound
  <2>6. Base[i[1]] + Position(i[2], members[i[1]]) = Base[j[1]] + Position(j[2], members[j[1]])
    BY <1>2, <2>2, <2>3
  <2>7. ASSUME NEW b \in Nat, NEW m \in Nat, NEW k \in Nat, k < m,
               NEW d \in Nat, NEW n \in Nat, NEW l \in Nat, l < n,
               b + m <= d \/ d + n <= b
        PROVE  b + k # d + l
    BY <2>7
  <2>8. QED
    BY <2>1, <2>4, <2>5, <2>6, <2>7
<1>6. QED
  BY <1>4, <1>5

\* Stripping the imported governance moves no address and lets no two coincide (s4_govern.py:80).
THEOREM StripOneToOne ==
  ASSUME NEW table, NEW drop, OneToOne(table)
  PROVE  /\ OneToOne(Strip(table, drop))
         /\ DOMAIN Strip(table, drop) \subseteq DOMAIN table
         /\ \A id \in DOMAIN Strip(table, drop) : Strip(table, drop)[id] = table[id]
BY DEF OneToOne, Strip

\* In a one-to-one table the reverse lookup gives every identity back (graph.py:215).
THEOREM ReverseInverts ==
  ASSUME NEW table, OneToOne(table), DOMAIN table \subseteq Class \X Symbol
  PROVE  /\ DOMAIN ReverseOf(table) = {table[id] : id \in DOMAIN table}
         /\ \A id \in DOMAIN table : ReverseOf(table)[table[id]] = id
<1>1. ASSUME NEW id \in DOMAIN table
      PROVE  Latest(table, table[id]) = id
  <2> DEFINE P(i) == /\ table[i] = table[id]
                     /\ \A other \in DOMAIN table :
                          table[other] = table[id] => Turn(other[1]) <= Turn(i[1])
  <2>1. ASSUME NEW i \in DOMAIN table, P(i)
        PROVE  i = id
    BY <2>1 DEF OneToOne
  <2>2. Turn(id[1]) \in 1 .. 5
    BY DEF Class, Turn
  <2>3. P(id)
    BY <2>2 DEF OneToOne
  <2>4. QED
    BY <2>1, <2>3 DEF Latest
<1>2. QED
  BY <1>1 DEF ReverseOf

\* What a sealed vocabulary says of addresses: allocated, stripped or not, each identity that is
\* left is found again at its own address.
THEOREM StrippedAllocationInverts ==
  ASSUME NEW members, Populated(members), Fits(members), NEW drop
  PROVE  \A id \in DOMAIN Strip(Allocation(members), drop) :
           ReverseOf(Strip(Allocation(members), drop))[Allocation(members)[id]] = id
<1> DEFINE table == Allocation(members)
<1>1. OneToOne(table)
  BY AllocationOneToOne
<1>2. /\ OneToOne(Strip(table, drop))
      /\ DOMAIN Strip(table, drop) \subseteq DOMAIN table
      /\ \A id \in DOMAIN Strip(table, drop) : Strip(table, drop)[id] = table[id]
  BY <1>1, StripOneToOne
<1>3. DOMAIN Strip(table, drop) \subseteq Class \X Symbol
  BY <1>2 DEF Allocation, Identities
<1>4. \A id \in DOMAIN Strip(table, drop) :
        ReverseOf(Strip(table, drop))[Strip(table, drop)[id]] = id
  BY <1>2, <1>3, ReverseInverts
<1>5. QED
  BY <1>2, <1>4
==============================================================================
