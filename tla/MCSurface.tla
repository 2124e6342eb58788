----------------------------- MODULE MCSurface ------------------------------
(***************************************************************************)
(* A platform of two generations and one domain compiled against it.       *)
(*                                                                         *)
(* The first generation has a rule V1, a slow capability Q and three       *)
(* arrangements of a boundary, one of them withdrawn; the second stands V2 *)
(* in V1's place, adds a rule scoped to a surface and has a Q that is not  *)
(* slow.  One domain tree answers to a rule of its own against what is     *)
(* slow, another bears what V2 forbids, and one cannot be parsed.          *)
(***************************************************************************)
EXTENDS Surface

Declared(name, kind) ==
  [name |-> name, kind |-> kind, refs |-> {}, supersedes |-> {}, marks |-> {}, check |-> "marks",
   forbids |-> {}, elsewhere |-> FALSE, about |-> {"CC"}, scoped |-> FALSE, boundary |-> "none",
   mode |-> "none", status |-> "live", outcomes |-> {}]

MCSays ==
  [r   |-> Declared("R", "VOCABULARY"),
   r2  |-> [Declared("R2", "VOCABULARY") EXCEPT !.supersedes = {"R"}],
   v1  |-> [Declared("V1", "INVARIANT") EXCEPT !.forbids = {"bad"}],
   v2  |-> [Declared("V2", "INVARIANT") EXCEPT !.forbids = {"bad", "odd"}, !.supersedes = {"V1"}],
   w   |-> [Declared("W", "INVARIANT") EXCEPT !.forbids = {"rare"}, !.scoped = TRUE],
   q1  |-> [Declared("Q", "CT") EXCEPT !.marks = {"slow"}],
   q2  |-> Declared("Q", "CT"),
   b1  |-> [Declared("B1", "STRUCTURE") EXCEPT !.boundary = "placement", !.mode = "near"],
   b2  |-> [Declared("B2", "STRUCTURE") EXCEPT !.boundary = "placement", !.mode = "far"],
   b3  |-> [Declared("B3", "STRUCTURE") EXCEPT !.boundary = "placement", !.mode = "far",
                                               !.supersedes = {"B2"}],
   b4  |-> [Declared("B3", "STRUCTURE") EXCEPT !.supersedes = {"B2"}],
   c1  |-> [Declared("C", "CC") EXCEPT !.refs = {"Q", "V1"}, !.outcomes = {"ok"}],
   c2  |-> [Declared("C", "CC") EXCEPT !.refs = {"Q", "B3"}, !.marks = {"odd"}, !.outcomes = {"ok"}],
   u   |-> [Declared("U", "INVARIANT") EXCEPT !.forbids = {"slow"}],
   dep |-> [Declared("U", "INVARIANT") EXCEPT !.status = "deprecated"],
   ill |-> [Declared("U", "INVARIANT") EXCEPT !.status = "illegible"]]

MCArtifact == DOMAIN MCSays
MCName     == {MCSays[a].name : a \in MCArtifact}
MCEdgeKind == {"CC_BINDS_CT", "REFERENCES"}

\* The order of every symbol: the names first.
MCOrder ==
  [B1 |-> 1, B2 |-> 2, B3 |-> 3, C |-> 4, Q |-> 5, R |-> 6, R2 |-> 7, U |-> 8, V1 |-> 9, V2 |-> 10,
   W |-> 11, CC_BINDS_CT |-> 12, REFERENCES |-> 13, CC |-> 14, CT |-> 15,
   INVARIANT |-> 16, STRUCTURE |-> 17, VOCABULARY |-> 18, ok |-> 19]
MCSymbol == DOMAIN MCOrder

MCBase == [node |-> 0, edge_kind |-> 16, node_kind |-> 20, outcome |-> 28, transition |-> 32]

Source(files, mode) == [files |-> files, selects |-> [b \in Boundary |-> mode]]

MCTrees ==
  [old    |-> Source(<<"r", "v1", "q1", "b1", "b2", "b3">>, "far"),
   new    |-> Source(<<"r", "v1", "v2", "w", "q2">>, None),
   odd    |-> Source(<<"c2", "dep">>, None),
   strict |-> Source(<<"c1", "u">>, None),
   broken |-> Source(<<"c1", "ill">>, None),
   \* The declaration of what a reference is, and a successor beside it.
   told   |-> Source(<<"r", "v1">>, None),
   stood  |-> Source(<<"r", "r2", "v1">>, None),
   \* An arrangement, and a structure of no boundary that stands in its place.
   kept   |-> Source(<<"r", "v1", "b2">>, "far"),
   moved  |-> Source(<<"r", "v1", "b2", "b4">>, "far")]

MCTreesOf       == [platform |-> {"old", "new"}, domain |-> {"odd", "strict", "broken"}]
MCStoodDownOf   == [platform |-> {"told", "stood"}, domain |-> {"odd"}]
MCWithdrawnOf   == [platform |-> {"kept", "moved"}, domain |-> {"odd"}]
=============================================================================
