----------------------------- MODULE Addressing -----------------------------
(***************************************************************************)
(* The semantic addresses of a graph: what S3 allocates                    *)
(* (src/compiler/graph/addressing.py), the two lookup tables a graph keeps *)
(* of them, what is left of both when S4 strips the imported governance,   *)
(* and the three projections that speak in addresses (vocabulary,          *)
(* tokenized topology, evidence) with the checks S8 makes of them.         *)
(*                                                                         *)
(* An identity is a class and a symbol: a node's full name, the kind of an *)
(* edge or of a node, an outcome a contract allows, or a condition a       *)
(* workflow routes on.  The code spells the class as a prefix of the key   *)
(* ("outcome::..."), a node's key being its bare name.                     *)
(***************************************************************************)
EXTENDS Naturals, FiniteSets

CONSTANTS
  Symbol,    \* names, kinds, outcomes and conditions
  Order,     \* the place of a symbol in the lexicographic order the code sorts by
  Base       \* the first address of each class's partition

\* The partitions, in the order allocate_addresses fills the table.
Classes == <<"node", "edge_kind", "node_kind", "outcome", "transition">>
Class   == {Classes[k] : k \in 1 .. 5}
Turn(c) == CHOOSE k \in 1 .. 5 : Classes[k] = c

ASSUME OrderAssumption ==
  /\ Order \in [Symbol -> Nat]
  /\ \A x, y \in Symbol : Order[x] = Order[y] => x = y

ASSUME BaseAssumption == Base \in [Class -> Nat]

Identities(members) == {id \in Class \X Symbol : id[2] \in members[id[1]]}

-----------------------------------------------------------------------------
(* Allocation.                                                             *)

Below(x, S) == {y \in S : Order[y] < Order[x]}

\* The place of x when the symbols of S are sorted and enumerated.
Position(x, S) == Cardinality(Below(x, S))

\* The address of every identity: its partition's base and its place among its class.
Allocation(members) ==
  [id \in Identities(members) |-> Base[id[1]] + Position(id[2], members[id[1]])]

\* The class that fills an address last keeps it in the reverse table.
Latest(table, a) ==
  CHOOSE id \in DOMAIN table :
    /\ table[id] = a
    /\ \A other \in DOMAIN table : table[other] = a => Turn(other[1]) <= Turn(id[1])

ReverseOf(table) == [a \in {table[id] : id \in DOMAIN table} |-> Latest(table, a)]

\* Mutant of Strip: the nodes go and their addresses stay.
StripNothing(table, drop) == table

\* The addresses that are left when nodes are dropped from the graph: nothing moves.
Strip(table, drop) ==
  [id \in {i \in DOMAIN table : ~(i[1] = "node" /\ i[2] \in drop)} |-> table[id]]

-----------------------------------------------------------------------------
(* When the partitions do not run into each other.                         *)

\* No partition holds more symbols than lie between its base and the next.
Fits(members) ==
  \A c, d \in Class :
    c # d => \/ Base[c] + Cardinality(members[c]) <= Base[d]
             \/ Base[d] + Cardinality(members[d]) <= Base[c]

OneToOne(table) ==
  \A id1, id2 \in DOMAIN table : table[id1] = table[id2] => id1 = id2

-----------------------------------------------------------------------------
(* What is projected from a graph [nodes, edges] and its table.  An edge   *)
(* is [from, to, kind] between node names.                                 *)

NodeId(n) == <<"node", n>>

\* forward (address to identity) and reverse (identity to address).
VocabularyOf(table) == [forward |-> ReverseOf(table), reverse |-> table]

\* An edge is projected only when both its ends have an address.
Addressed(edges, table) ==
  {e \in edges : NodeId(e.from) \in DOMAIN table /\ NodeId(e.to) \in DOMAIN table}

TokenizedOf(nodes, edges, table) ==
  [nodes     |-> {table[NodeId(n)] : n \in nodes},
   edges     |-> {[from |-> table[NodeId(e.from)],
                   to   |-> table[NodeId(e.to)],
                   kind |-> table[<<"edge_kind", e.kind>>]] : e \in Addressed(edges, table)},
   adjacency |-> {<<table[NodeId(e.from)], table[NodeId(e.to)]>> : e \in Addressed(edges, table)}]

\* The five structural checks of the tokenized topology.
TokenizedIsSound(tokens, table) ==
  /\ tokens.nodes \subseteq DOMAIN ReverseOf(table)
  /\ \A e \in tokens.edges :
       /\ e.from \in tokens.nodes
       /\ e.to \in tokens.nodes
       /\ e.kind \in {table[id] : id \in DOMAIN table}
  /\ \A pair \in tokens.adjacency :
       /\ pair[1] \in tokens.nodes
       /\ \E e \in tokens.edges : <<e.from, e.to>> = pair
  /\ \A e \in tokens.edges : <<e.from, e.to>> \in tokens.adjacency

\* The evidence projection names every node and edge twice, by name and by address.
EvidenceOf(nodes, edges, table) ==
  [nodes |-> {[name |-> n, address |-> table[NodeId(n)]] : n \in nodes},
   edges |-> {[from |-> e.from, to |-> e.to,
               fromAddress |-> table[NodeId(e.from)], toAddress |-> table[NodeId(e.to)],
               kindAddress |-> table[<<"edge_kind", e.kind>>]] : e \in Addressed(edges, table)}]

\* The two forms agree with each other and with the graph.
EvidenceIsSound(evidence, nodes, table) ==
  LET names     == {n.name : n \in evidence.nodes}
      addresses == {n.address : n \in evidence.nodes}
  IN  /\ \A n \in evidence.nodes : n.name \in nodes /\ table[NodeId(n.name)] = n.address
      /\ \A e \in evidence.edges :
           /\ {e.from, e.to} \subseteq names
           /\ {e.fromAddress, e.toAddress} \subseteq addresses
           /\ e.kindAddress \in {table[id] : id \in DOMAIN table}
==============================================================================
