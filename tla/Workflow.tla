------------------------------ MODULE Workflow ------------------------------
(***************************************************************************)
(* One workflow on its way through the compiler and then executed.         *)
(*                                                                         *)
(* S2 resolves what every node runs and joins the nodes by edges, S4       *)
(* checks the declared routing, S5 names the artifact of every node a      *)
(* second time, S6 seals the dispatch tables and S8 reads them against the *)
(* declaration.  The runtime, which is not part of the repository, then    *)
(* executes the sealed tables alone: entry first, then for every outcome   *)
(* of what runs the routing, else the ending, else it refuses              *)
(* (projections/dispatch.py 162-168).                                      *)
(*                                                                         *)
(* Addresses are one to one (S3), so an artifact stands for its address    *)
(* and a condition for its own.  Other workflows share nothing with this   *)
(* one but artifacts: the tables are keyed by workflow.                    *)
(***************************************************************************)
EXTENDS Naturals

CONSTANTS
  Key,          \* local node keys
  Artifact,     \* full names of contracts and intents
  Code,         \* bare codes
  Condition,    \* outcomes, the conditions of routing
  Event,        \* what an ending may announce
  None,         \* no node, no artifact, no event, no table entry
  CodeOf,       \* CodeOf[a]: the code of an artifact
  KindOf,       \* KindOf[a]: "CC" or "IN"
  Own,          \* the artifacts in the namespace of the workflow
  Rank,         \* Rank[a]: the place of a's full name in sorted order
  Declaration   \* the declarations considered, with the graph each is compiled in

\* What start_node and a transition may name: a node key, or an artifact outright.
Place == Key \union Artifact
Ref   == Artifact \union Code \union {None}

DeclarationType ==
  [keys : SUBSET Key,                                   \* the nodes declared
   type : [Key -> {"IN", "CC", "EXIT"}],
   code : [Key -> Ref],
   fqdnId : [Key -> Ref],
   next : [Key -> [Condition -> Key \union {None}]],    \* may name undeclared keys
   emit : [Key -> Event \union {None}],
   reads : [Key -> SUBSET Key],                         \* $.results.<key> in a node's inputs
   start : Place \union {None},
   transitions : SUBSET [from : Place, on : Condition, to : Place],
   superseded : BOOLEAN,
   present : SUBSET Artifact,                           \* the nodes of the graph
   last : [Code -> Artifact \union {None}],             \* code_to_fqdn: the last one of a code
   outcomes : [Artifact -> SUBSET Condition]]

ASSUME WorkflowAssumption ==
  /\ None \notin Key \union Artifact \union Code \union Event
  /\ Key \intersect Artifact = {} /\ Artifact \intersect Code = {}
  /\ CodeOf \in [Artifact -> Code]
  /\ KindOf \in [Artifact -> {"IN", "CC"}]
  /\ Own \subseteq Artifact
  /\ \A a, b \in Own : CodeOf[a] = CodeOf[b] => a = b
  /\ Rank \in [Artifact -> Nat]
  /\ \A a, b \in Artifact : Rank[a] = Rank[b] => a = b
  /\ Declaration \subseteq DeclarationType
  /\ \A d \in Declaration :
       /\ \A c \in Code : d.last[c] # None => d.last[c] \in d.present /\ CodeOf[d.last[c]] = c
       /\ \A a \in d.present : d.last[CodeOf[a]] # None /\ d.outcomes[a] # {}
       /\ \A t, u \in d.transitions : t.from = u.from /\ t.on = u.on => t = u

VARIABLES
  declared,   \* the declaration and its graph
  phase,      \* how far it has come
  sealed,     \* the dispatch projection and the canonical record, None before S6
  place,      \* execution: the node at hand
  runs,       \* execution: the artifact run there
  ending,     \* execution: the ending reached
  announced,  \* execution: what was announced there
  results,    \* execution: the place whose result is kept under an artifact's address
  visited     \* execution: the places run so far

walkState == <<place, runs, ending, announced, results, visited>>
vars == <<declared, phase, sealed, walkState>>

------------------------------------------------------------------------------
(* S2: what a node runs, and the edges between nodes. *)

\* resolve_wf_node_keys: fqdn_id before code, the workflow's own namespace before any other.
Named(d, ref) ==
  CASE ref \in d.present -> ref
    [] ref \in Code /\ \E a \in d.present \intersect Own : CodeOf[a] = ref
         -> CHOOSE a \in d.present \intersect Own : CodeOf[a] = ref
    [] ref \in Code /\ ~\E a \in d.present \intersect Own : CodeOf[a] = ref -> d.last[ref]
    [] OTHER -> None

Runs(d, p) ==
  CASE p \in d.keys -> Named(d, IF d.fqdnId[p] # None THEN d.fqdnId[p] ELSE d.code[p])
    [] p \in d.present -> p
    [] OTHER -> None

\* The continuation edges of the `next` maps whose two ends both run something.
NextEdges(d) ==
  {e \in [from : d.keys, on : Condition, to : d.keys] :
     /\ d.next[e.from][e.on] = e.to
     /\ Runs(d, e.from) # None
     /\ Runs(d, e.to) # None}

Edges(d) == NextEdges(d) \union d.transitions

\* GraphBuilder.build sorts the edges by the names they join and keeps the order of insertion
\* otherwise; a later edge overwrites an earlier one in the routing table.
Later(d, e, f) ==
  \/ Rank[Runs(d, e.to)] > Rank[Runs(d, f.to)]
  \/ Rank[Runs(d, e.to)] = Rank[Runs(d, f.to)] /\ e \in d.transitions

TransitionsResolve(d) ==
  \A t \in d.transitions : Runs(d, t.from) # None /\ Runs(d, t.to) # None

------------------------------------------------------------------------------
(* S4: the checks of declared routing, over node keys. *)

Closed(d, S) == \A k \in S, c \in Condition : d.next[k][c] \in d.keys => d.next[k][c] \in S

\* _analyze_wf_routing: what `next` reaches from the start node, when that is a node key.
Reachable(d) ==
  {k \in d.keys : /\ d.start \in d.keys
                  /\ \A S \in SUBSET d.keys : d.start \in S /\ Closed(d, S) => k \in S}

\* Mutant of Acyclic: only a node that leads to itself counts.
AcyclicAtEachNode(d) == ~\E k \in d.keys, c \in Condition : d.next[k][c] = k

\* _workflows_with_routing_cycles: no nodes all of which lead back among themselves.
Acyclic(d) ==
  ~\E S \in (SUBSET d.keys) \ {{}} : \A k \in S : \E c \in Condition : d.next[k][c] \in S

\* Mutant of Declares: the contract is resolved by its code alone, a second resolver in a check.
DeclaresByCode(d, k) ==
  IF d.type[k] # "EXIT" /\ d.code[k] \in Code THEN d.outcomes[d.last[d.code[k]]] ELSE {}

\* The outcomes a node has to answer: read as its type says, from what it runs.
Declares(d, k) ==
  IF d.type[k] # "EXIT" /\ Runs(d, k) # None /\ KindOf[Runs(d, k)] = d.type[k]
  THEN d.outcomes[Runs(d, k)] ELSE {}

RoutingClosed(d) ==
  \A k \in Reachable(d) : \A c \in Declares(d, k) : d.next[k][c] # None

OneEntryIntent(d) == \E k \in d.keys : \A j \in d.keys : d.type[j] = "IN" <=> j = k

HasExecutionNodes(d) == Runs(d, d.start) # None \/ \E k \in d.keys : Runs(d, k) # None

\* Of the hundred handlers S4 runs, those that judge what the routing tables are built from.
Governed(d) ==
  /\ Acyclic(d)
  /\ d.superseded \/ RoutingClosed(d)
  /\ OneEntryIntent(d)
  /\ HasExecutionNodes(d)

------------------------------------------------------------------------------
(* S5: _enrich_wf_nodes, a second resolution: code before fqdn_id, any namespace. *)

SecondRef(d, k) == IF d.code[k] # None THEN d.code[k] ELSE d.fqdnId[k]

Enriched(d, k) ==
  CASE d.type[k] = "EXIT" -> d.fqdnId[k]
    [] d.type[k] # "EXIT" /\ SecondRef(d, k) \in Code -> d.last[SecondRef(d, k)]
    [] OTHER -> SecondRef(d, k)

Constructible(d) ==
  \A k \in d.keys : d.type[k] # "EXIT" /\ SecondRef(d, k) \in Code => Enriched(d, k) # None

------------------------------------------------------------------------------
(* S6: project_dispatch, the tables of one workflow. *)

\* An outcome has an address when some node routes on it or some contract declares it.
Addressed(d, c) ==
  \/ \E k \in d.keys : d.next[k][c] # None
  \/ \E a \in d.present : KindOf[a] = "CC" /\ c \in d.outcomes[a]

EdgesOn(d, p, c) == {e \in Edges(d) : e.from = p /\ e.on = c}

\* Mutant of RoutingEntry: the address is read from the nodes as S5 left them.
RoutingEntryAsEnriched(d, p, c) ==
  IF Addressed(d, c) /\ EdgesOn(d, p, c) # {}
  THEN LET e == CHOOSE e \in EdgesOn(d, p, c) :
                  \A f \in EdgesOn(d, p, c) : f = e \/ Later(d, e, f)
       IN  [addr |-> IF e.to \in d.keys THEN Enriched(d, e.to) ELSE e.to, key |-> e.to]
  ELSE None

RoutingEntry(d, p, c) ==
  IF Addressed(d, c) /\ EdgesOn(d, p, c) # {}
  THEN LET e == CHOOSE e \in EdgesOn(d, p, c) :
                  \A f \in EdgesOn(d, p, c) : f = e \/ Later(d, e, f)
       IN  [addr |-> Runs(d, e.to), key |-> e.to]
  ELSE None

IsExit(d, k) == k \in d.keys /\ d.type[k] = "EXIT"

EndsAt(d, p, c) == p \in d.keys /\ IsExit(d, d.next[p][c])

\* Mutant of Entry: every declared start is entered, resolved or not.
EntryAsDeclared(d) ==
  IF ~d.superseded /\ d.start # None
  THEN [start |-> Runs(d, d.start), key |-> d.start]
  ELSE None

Entry(d) ==
  IF ~d.superseded /\ Runs(d, d.start) # None
  THEN [start |-> Runs(d, d.start), key |-> d.start]
  ELSE None

\* Mutant of Bound: fqdn_id is read as declared.
BoundAsDeclared(d, k) == k \in d.keys /\ d.type[k] = "CC" /\ d.fqdnId[k] \in d.present

\* A node of type CC whose fqdn_id, as S5 left it, is in the graph.
Bound(d, k) == k \in d.keys /\ d.type[k] = "CC" /\ Enriched(d, k) \in d.present

Seal(d) ==
  [routing  |-> [p \in Place |-> [c \in Condition |-> RoutingEntry(d, p, c)]],
   terminal |-> [p \in Place |-> [c \in Condition |->
                   IF EndsAt(d, p, c) /\ Addressed(d, c) THEN d.next[p][c] ELSE None]],
   emits    |-> [p \in Place |-> [c \in Condition |->
                   IF EndsAt(d, p, c) THEN d.emit[d.next[p][c]] ELSE None]],
   entry    |-> Entry(d),
   bindings |-> [k \in Key |-> [r \in Key |->
                   IF Bound(d, k) /\ Bound(d, r) THEN Enriched(d, r) ELSE None]],
   named    |-> [k \in Key |-> IF k \in d.keys THEN Enriched(d, k) ELSE None]]

------------------------------------------------------------------------------
(* S8, checks 9 and 10: the tables against the declaration. *)

\* Mutant of Realized: any continuation will do for a declared one.
RealizedSomehow(d, s, k, c) ==
  /\ Addressed(d, c)
  /\ d.next[k][c] \in d.keys
  /\ IF IsExit(d, d.next[k][c]) THEN s.terminal[k][c] # None ELSE s.routing[k][c] # None

Realized(d, s, k, c) ==
  /\ Addressed(d, c)
  /\ d.next[k][c] \in d.keys
  /\ IF IsExit(d, d.next[k][c])
     THEN /\ s.terminal[k][c] = d.next[k][c]
          /\ d.emit[d.next[k][c]] # None => s.emits[k][c] = d.emit[d.next[k][c]]
     ELSE s.routing[k][c] # None /\ s.routing[k][c].key = d.next[k][c]

Answers(d, p, c) == p \in d.keys /\ d.next[p][c] \in d.keys

Faithful(d, s) ==
  /\ \A k \in d.keys, c \in Condition : d.next[k][c] # None => Realized(d, s, k, c)
  /\ \A p \in Place, c \in Condition :
       /\ s.routing[p][c] # None => Answers(d, p, c) /\ ~IsExit(d, d.next[p][c])
       /\ s.terminal[p][c] # None => Answers(d, p, c) /\ IsExit(d, d.next[p][c])
       /\ s.emits[p][c] # None => EndsAt(d, p, c) /\ d.emit[d.next[p][c]] # None
  /\ d.superseded => s.entry = None

------------------------------------------------------------------------------
Phase == {"declared", "canonical", "governed", "constructed", "projected", "sealed",
          "running", "ended", "unanswered", "refused"}

TableType ==
  [routing  : [Place -> [Condition -> [addr : Artifact, key : Place] \union {None}]],
   terminal : [Place -> [Condition -> Key \union {None}]],
   emits    : [Place -> [Condition -> Event \union {None}]],
   entry    : [start : Artifact, key : Place] \union {None},
   bindings : [Key -> [Key -> Artifact \union {None}]],
   named    : [Key -> Ref]]

TypeOK ==
  /\ declared \in DeclarationType
  /\ phase \in Phase
  /\ sealed \in TableType \union {None}
  /\ place \in Place \union {None}
  /\ runs \in Artifact \union {None}
  /\ ending \in Key \union {None}
  /\ announced \in Event \union {None}
  /\ results \in [Artifact -> Place \union {None}]
  /\ visited \in SUBSET Place

Init ==
  /\ declared \in Declaration
  /\ phase = "declared"
  /\ sealed = None
  /\ place = None
  /\ runs = None
  /\ ending = None
  /\ announced = None
  /\ results = [a \in Artifact |-> None]
  /\ visited = {}

\* A stage that finds nothing wrong hands on, any other refuses the build.
Stage(from, ok, to) ==
  /\ phase = from
  /\ phase' = IF ok THEN to ELSE "refused"
  /\ UNCHANGED <<declared, walkState>>

Canonicalize == Stage("declared", TransitionsResolve(declared), "canonical") /\ UNCHANGED sealed
Govern       == Stage("canonical", Governed(declared), "governed") /\ UNCHANGED sealed
Construct    == Stage("governed", Constructible(declared), "constructed") /\ UNCHANGED sealed
Project      == Stage("constructed", TRUE, "projected") /\ sealed' = Seal(declared)
Verify       == Stage("projected", Faithful(declared, sealed), "sealed") /\ UNCHANGED sealed

\* Execution starts where the dispatch entry says.
Begin ==
  /\ phase = "sealed"
  /\ sealed.entry # None
  /\ phase' = "running"
  /\ place' = sealed.entry.key
  /\ runs' = sealed.entry.start
  /\ visited' = {sealed.entry.key}
  /\ UNCHANGED <<declared, sealed, ending, announced, results>>

\* What runs ends with one of the outcomes it declares; its result is kept under its address.
Yields(c) ==
  /\ phase = "running"
  /\ c \in declared.outcomes[runs]
  /\ results' = [results EXCEPT ![runs] = place]

Continue(c) ==
  /\ Yields(c)
  /\ sealed.routing[place][c] # None
  /\ place' = sealed.routing[place][c].key
  /\ runs' = sealed.routing[place][c].addr
  /\ visited' = visited \union {sealed.routing[place][c].key}
  /\ UNCHANGED <<declared, phase, sealed, ending, announced>>

End(c) ==
  /\ Yields(c)
  /\ sealed.routing[place][c] = None
  /\ sealed.terminal[place][c] # None
  /\ phase' = "ended"
  /\ ending' = sealed.terminal[place][c]
  /\ announced' = sealed.emits[place][c]
  /\ UNCHANGED <<declared, sealed, place, runs, visited>>

\* An outcome with neither a route nor an ending: the runtime refuses.
Refuse(c) ==
  /\ Yields(c)
  /\ sealed.routing[place][c] = None
  /\ sealed.terminal[place][c] = None
  /\ phase' = "unanswered"
  /\ UNCHANGED <<declared, sealed, place, runs, ending, announced, visited>>

Answer == \E c \in Condition : Continue(c) \/ End(c) \/ Refuse(c)

Next ==
  \/ Canonicalize
  \/ Govern
  \/ Construct
  \/ Project
  \/ Verify
  \/ Begin
  \/ Answer

Spec == Init /\ [][Next]_vars

\* What runs yields an outcome eventually; that an execution is ever started is not assumed.
FairSpec == Spec /\ WF_vars(Answer)
------------------------------------------------------------------------------
(* Properties. *)

\* What no check of the build establishes: the start node is a node key, not an artifact named
\* outright, execution does not start at an ending, and a node of type CC (IN) runs a contract
\* (an intent).
WellFormed(d) ==
  /\ d.start \in d.keys \union {None}
  /\ ~IsExit(d, d.start)
  /\ \A k \in d.keys : d.type[k] # "EXIT" /\ Runs(d, k) # None => KindOf[Runs(d, k)] = d.type[k]

\* Execution of an admitted workflow never meets an outcome that the tables do not answer
\* (assert_wf_routing_closed_v0.py 6-12): the closure S4 checks over `next` carries over to what
\* S6 seals from edges, whatever names were shared, superseded, left unresolved or routed twice.
AnswersEveryOutcome == WellFormed(declared) => phase # "unanswered"

\* The artifact the runtime runs at a node is the one S2 resolved for that node.  S8 compares
\* only the keys of the sealed routing (s8_verify.py 727), never the addresses.
RunsWhatWasResolved == place \in declared.keys => runs = Runs(declared, place)

\* Execution through the sealed tables takes declared continuations only, ends where declared and
\* announces exactly what that ending declares; a superseded workflow is never entered.
Walk == INSTANCE DeclaredWalk WITH workflow <- declared, at <- place, said <- announced
ImplementsWalk == Walk!WalkSpec

\* No execution runs a place twice: what S4 found of `next` (s4_govern.py 375), that it leads nowhere
\* back, holds of the tables the runtime follows (dispatch.py 162-168).
NoPlaceTwice == [][\A c \in Condition : Continue(c) => place' \notin visited]_vars

\* No execution goes on for ever: one that starts reaches a declared ending.
ReachesAnEnding == WellFormed(declared) /\ phase = "running" ~> phase = "ended"

\* What a node reads of another contract node that has run is the result of that node.
ReadsTheResultOf(r) ==
  LET kept == sealed.bindings[place][r]
  IN  kept # None /\ results[kept] = r

Reads == {r \in declared.reads[place] \intersect visited :
            r # place /\ declared.type[r] = "CC" /\ declared.type[place] = "CC"}

\* Every node runs a contract of its own, and S2 and S5 agree on which.
Apart(d) ==
  /\ \A j, k \in d.keys : Runs(d, j) = Runs(d, k) /\ Runs(d, k) # None => j = k
  /\ \A k \in d.keys : d.type[k] = "CC" => Enriched(d, k) = Runs(d, k)

\* Results, which are kept under the address of the contract, do not run into each other as long
\* as no two nodes run one contract and no code is ambiguous (dispatch.py 271-328).
ResultsStayApart ==
  phase = "running" /\ Apart(declared) /\ WellFormed(declared)
    => \A r \in Reads : ReadsTheResultOf(r)

------------------------------------------------------------------------------
(* What docstrings of the repository say, and the code does not do. *)

\* "Construction refuses it first, so that a sealed workflow cannot present itself as complete
\* while it carries the gap" (assert_wf_routing_closed_v0.py 11).
AdmittedHasNoGap == phase # "unanswered"

\* "The one place a node's code or fqdn_id is resolved ... a second resolver in a check would be
\* a second rule for one identity" (s2_canonicalize.py 264).
OneIdentity ==
  phase = "sealed" => \A k \in declared.keys :
                        declared.type[k] # "EXIT" => sealed.named[k] = Runs(declared, k)

\* "node_key is the mandatory binding discriminator; CC address is not a valid binding key"
\* (assert_wf_node_key_binding_unique_v0.py 15).
ReadsItsPlace ==
  phase = "running" /\ WellFormed(declared) => \A r \in Reads : ReadsTheResultOf(r)
==============================================================================
