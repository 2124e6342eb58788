------------------------------ MODULE Surface -------------------------------
(***************************************************************************)
(* A platform and the domains compiled against it.  Every structure is     *)
(* compiled by the same stages (src/compiler/stages/); a domain reads, at  *)
(* several moments of its build, what the platform's builds have put on    *)
(* disk: the canonical artifacts (S1, S4) and the vocabulary (S2, S4, S8). *)
(*                                                                         *)
(* The platform may be edited, recompiled, refused half-written or killed  *)
(* while a domain is being compiled; nothing locks the surface.            *)
(*                                                                         *)
(* The admission of one structure, its attestation and its determinations, *)
(* is Build's subject; the routing of its workflows is Workflow's.  This   *)
(* module is about what is compiled and what it is compiled against.       *)
(***************************************************************************)
EXTENDS Addressing, Evidence, Listing, Functions

CONSTANTS
  Platform,     \* the structure the others import
  Domain,       \* the structures that import it
  Name,         \* full names of artifacts
  Artifact,     \* contents of source files: each declares one artifact
  Says,         \* what each of them declares
  Declaration,  \* the name of the declaration of what a reference is
  EdgeKind,     \* the kinds of edges
  Boundary,     \* boundaries of which a build selects one arrangement
  Trees,        \* the source trees there are: files in reading order, and the modes a build names
  TreesOf,      \* the source trees each structure may be in
  Mishaps,      \* bound: edits, deaths and failed writes in one behaviour
  None

Structure == {Platform} \union Domain

\* The kinds a domain instantiates; a rule about none of them stays with the platform.
DomainInstantiated == {"WF", "CC", "CS", "CT", "RB", "AC", "IN", "EV", "TI", "TE", "TEST_DATA"}

\* What a source file declares, of one artifact; None is the content of a file that is not there.
ASSUME SaysAssumption ==
  /\ None \notin Artifact
  /\ \A a \in Artifact : Says[a].name \in Name /\ Says[a].kind \in Symbol
  /\ \A a \in Artifact : Says[a].outcomes \subseteq Symbol
  /\ \A a \in Artifact : IsFiniteSet(Says[a].outcomes) /\ IsFiniteSet(Says[a].refs)

\* There are finitely many kinds of nodes and of edges, and every name can be addressed.
ASSUME KindAssumption ==
  /\ Name \subseteq Symbol
  /\ EdgeKind \subseteq Symbol /\ IsFiniteSet(EdgeKind)
  /\ IsFiniteSet({Says[a].kind : a \in Artifact})

ASSUME TreesAssumption ==
  /\ Platform \notin Domain
  /\ \A t \in DOMAIN Trees : Trees[t].files \in Seq(Artifact)
  /\ \A s \in Structure : TreesOf[s] \subseteq DOMAIN Trees
  /\ Mishaps \in Nat

VARIABLES
  tree,      \* the source tree of each structure
  disk,      \* what the builds of each structure have written
  build,     \* the build of each structure in progress
  sealed,    \* what the last attestation of the platform sealed
  left       \* how many mishaps may still happen

vars == <<tree, disk, build, sealed, left>>

Idle == [stage |-> "idle"]
NodeName(id) == id[2]
Kind(a) == Says[a].kind

-----------------------------------------------------------------------------
(* S1: the files in scope.                                                 *)

\* Every name some artifact among these declares it stands in place of.
Superseded(artifacts) == UNION {Says[a].supersedes : a \in artifacts}

Candidates(t, b) == {a \in Contents(t.files) : Kind(a) = "STRUCTURE" /\ Says[a].boundary = b}

\* The arrangements that declare the mode the build names, a superseded one declaring none.
Selected(t, b) ==
  {a \in Candidates(t, b) : /\ Says[a].name \notin Superseded(Candidates(t, b))
                            /\ Says[a].mode = t.selects[b]}

\* A boundary in scope needs a named mode that exactly one structure declares.
Arranged(t) ==
  \A b \in Boundary :
    Candidates(t, b) # {} => t.selects[b] # None /\ Cardinality(Selected(t, b)) = 1

\* These files in their order, the ones among S alone.
Among(files, S) ==
  LET among[k \in 0 .. Len(files)] ==
        IF k = 0 THEN <<>>
        ELSE IF files[k] \in S THEN Append(among[k - 1], files[k]) ELSE among[k - 1]
  IN  among[Len(files)]

\* Mutant of InScope: every arrangement of a selected boundary continues into the pipeline.
InScopeWhole(t) == t.files

InScope(t) ==
  Among(t.files, {a \in Contents(t.files) :
                    \A b \in Boundary : a \in Candidates(t, b) => a \in Selected(t, b)})

\* A deprecated file is passed over; one that cannot be parsed refuses the build.
Parsed(t) == Among(InScope(t), {a \in Contents(t.files) : Says[a].status # "deprecated"})
Legible(t) == InScope(t) # <<>> /\ \A a \in Contents(InScope(t)) : Says[a].status # "illegible"

\* The canonical artifacts on disk.
OnDisk(s)   == {n \in Name : disk[s].canonical[n] # None}
Records(s)  == {disk[s].canonical[n] : n \in OnDisk(s)}

\* What a reference is must be declared: here, or in the platform's surface and not stood down.
\* A local declaration is handed over alone, so nothing local is seen to stand it down.
ReferencesDeclared(s, files) ==
  \/ \E a \in Contents(files) : Says[a].name = Declaration
  \/ s # Platform /\ Declaration \in OnDisk(Platform) \ Superseded(Records(Platform))

\* Two files of one full name: the builder keeps the later.
NodesOf(files) ==
  [n \in {Says[a].name : a \in Contents(files)} |->
     LET last == CHOOSE k \in DOMAIN files :
                   Says[files[k]].name = n /\ \A j \in DOMAIN files : Says[files[j]].name = n => j <= k
     IN  [art |-> files[last], role |-> "native"]]

ReferencesOf(files) ==
  UNION {{[from |-> Says[a].name, to |-> n, kind |-> "REFERENCES"] : n \in Says[a].refs} :
         a \in Contents(files)}

Created(files) ==
  [k \in DOMAIN files |-> Event("S1", "node_created", Says[files[k]].name)]

\* The platform's surface on disk is the one its last attestation sealed.
Settled == sealed # None /\ disk[Platform] = sealed

NoNodes == [n \in {} |-> None]

Mishap == left > 0 /\ left' = left - 1

\* A stage's result: the build goes on with these fields, or it is refused.
Proceed(s, b)   == build' = [build EXCEPT ![s] = b]
Refuse(s)       == build' = [build EXCEPT ![s] = Idle]

\* A build begins: nothing is left of one that is refused here.
Extract(s) ==
  LET t     == Trees[tree[s]]
      files == Parsed(t)
  IN  /\ build[s].stage = "idle"
      /\ Arranged(t) /\ Legible(t) /\ ReferencesDeclared(s, InScope(t))
      /\ Proceed(s, [stage |-> IF s = Platform THEN "resolve" ELSE "carry", tree |-> tree[s],
                     nodes |-> NodesOf(files), judged |-> NoNodes, table |-> NoNodes, edges |-> ReferencesOf(files),
                     trace |-> <<Event("S1", "discovery_complete", NoSubject)>> \o Created(files),
                     pending |-> {}, failed |-> FALSE, steady |-> s \in Domain /\ Settled])
      /\ UNCHANGED <<tree, disk, sealed, left>>

-----------------------------------------------------------------------------
(* S1: what a domain takes from the platform.                              *)

\* Mutant of Carried: whatever a domain names is carried, not the capabilities alone.
CarriedAny(b) == (OnDisk(Platform) \ DOMAIN b.nodes) \intersect {e.to : e \in b.edges}

\* The capabilities a domain names and does not author, found in the platform's surface.
Carried(b) ==
  {n \in (OnDisk(Platform) \ DOMAIN b.nodes) \intersect {e.to : e \in b.edges} :
     Kind(disk[Platform].canonical[n]) \in {"CS", "CT"}}

\* The nodes together with the platform's records of these names.
With(nodes, names, role) ==
  [n \in DOMAIN nodes \union names |->
     IF n \in DOMAIN nodes THEN nodes[n] ELSE [art |-> disk[Platform].canonical[n], role |-> role]]

CarryCapabilities(s) ==
  /\ build[s].stage = "carry"
  /\ Proceed(s, [build[s] EXCEPT
       !.stage = "import",
       !.nodes = With(@, Carried(build[s]), "execution")])
  /\ UNCHANGED <<tree, disk, sealed, left>>

\* Mutant of Governs: a rule scoped to one surface is imported with the general ones.
GovernsScoped(a) ==
  \/ Kind(a) = "VOCABULARY"
  \/ Kind(a) = "INVARIANT" /\ Says[a].about \intersect DomainInstantiated # {}

\* What belongs to a domain's normative closure: the vocabularies whole, and the rules about what
\* a domain instantiates that are not scoped to a surface.
Governs(a) ==
  \/ Kind(a) = "VOCABULARY"
  \/ /\ Kind(a) = "INVARIANT"
     /\ Says[a].about \intersect DomainInstantiated # {}
     /\ ~Says[a].scoped

Closure(b) == {n \in OnDisk(Platform) \ DOMAIN b.nodes : Governs(disk[Platform].canonical[n])}

ImportGovernance(s) ==
  /\ build[s].stage = "import"
  /\ Proceed(s, [build[s] EXCEPT
       !.stage = "resolve",
       !.nodes = With(@, Closure(build[s]), "governance")])
  /\ UNCHANGED <<tree, disk, sealed, left>>

\* The digest S1 takes covers each imported member's name and content.
Digest(nodes) == {<<n, nodes[n].art>> : n \in {m \in DOMAIN nodes : nodes[m].role = "governance"}}

-----------------------------------------------------------------------------
(* S2 and S3: references resolved, edges typed, addresses allocated.       *)

\* A domain's build is stopped when the platform's vocabulary is not there to read.
SurfaceReadable(s) == s = Platform \/ disk[Platform].vocabulary # None

\* The names the platform's vocabulary offers.
Imported(s) ==
  IF s = Platform THEN {}
  ELSE disk[Platform].vocabulary

Dangling(s) == {e \in build[s].edges : e.to \notin DOMAIN build[s].nodes \union Imported(s)}

EdgeKindOf(from, to) ==
  CASE to = "GOVERNANCE" -> "GOVERNED_BY"
    [] to = "ASSERT" -> "ASSERTED_BY"
    [] from = "WF" /\ to = "IN" -> "WF_ADMITS_VIA_IN"
    [] from = "WF" /\ to = "RB" -> "WF_BINDS_RB"
    [] from = "WF" /\ to = "CC" -> "WF_CONTAINS_NODE"
    [] from = "CC" /\ to = "CT" -> "CC_BINDS_CT"
    [] from = "CC" /\ to = "CS" -> "CC_BINDS_CS"
    [] from = "RB" /\ to \in {"CT", "CS"} -> "RB_MAPS"
    [] from = "TI" /\ to = "WF" -> "TI_INVOKES_WF"
    [] from = "CT" /\ to = "CT" -> "MOLECULE_COMPOSES_ATOM"
    [] OTHER -> "REFERENCES"

\* Mutant of TypedEdges: an edge to the imported surface is kept although its end is no node.
TypedEdgesWhole(nodes, edges) == edges

\* The edges between nodes, typed; what only the platform has is dropped.
TypedEdges(nodes, edges) ==
  {[e EXCEPT !.kind = EdgeKindOf(Kind(nodes[e.from].art), Kind(nodes[e.to].art))] :
     e \in {f \in edges : f.to \in DOMAIN nodes}}

\* The identities of a graph: its nodes, the fixed kinds, the outcomes its contracts allow and the
\* conditions its workflows route on.
Members(nodes) ==
  LET says(kind) == UNION {Says[nodes[n].art].outcomes : n \in {m \in DOMAIN nodes : Kind(nodes[m].art) = kind}}
  IN  [c \in Class |-> CASE c = "node" -> DOMAIN nodes
                         [] c = "edge_kind" -> EdgeKind
                         [] c = "node_kind" -> {Kind(a) : a \in Artifact}
                         [] c = "outcome" -> says("CC")
                         [] c = "transition" -> says("WF")]

\* The addresses S3 gives to what is in the graph.
Allocated(nodes) == Allocation(Members(nodes))

Resolve(s) ==
  LET edges == TypedEdges(build[s].nodes, build[s].edges)
      typed == Listed({e \in edges : e.kind # "REFERENCES"})
  IN  /\ build[s].stage = "resolve"
      /\ IF SurfaceReadable(s) /\ Dangling(s) = {}
         THEN Proceed(s, [build[s] EXCEPT
                !.stage = "govern", !.edges = edges, !.table = Allocated(build[s].nodes),
                !.trace = @ \o [k \in DOMAIN typed |-> Event("S2", "edge_typed", typed[k].from)]
                            \o <<Event("S3", "addresses_allocated", NoSubject)>>])
         ELSE Refuse(s)
      /\ UNCHANGED <<tree, disk, sealed, left>>

-----------------------------------------------------------------------------
(* S4: the rules in force, run against every node of the graph.            *)

\* Mutant of InForce: supersession is asked of what the structure emits, as S8 asks it, and the
\* imported governance is left out.
InForceOverOwn(nodes) ==
  {n \in DOMAIN nodes :
     /\ Kind(nodes[n].art) = "INVARIANT"
     /\ n \notin Superseded({nodes[m].art : m \in {k \in DOMAIN nodes : nodes[k].role # "governance"}})}

InForce(nodes) ==
  {n \in DOMAIN nodes : /\ Kind(nodes[n].art) = "INVARIANT"
                        /\ n \notin Superseded({nodes[m].art : m \in DOMAIN nodes})}

\* An assertion is derived from each rule in force that the compiler is to enforce.
Derived(nodes) == {n \in InForce(nodes) : ~Says[nodes[n].art].elsewhere}

\* Mutant of Offenders: what the domain carries from the platform is not looked at.
OffendersNative(rule, nodes) ==
  {n \in DOMAIN nodes : nodes[n].role = "native" /\ Says[nodes[n].art].marks \intersect rule.forbids # {}}

\* The nodes that bear what a rule forbids.
Offenders(rule, nodes) == {n \in DOMAIN nodes : Says[nodes[n].art].marks \intersect rule.forbids # {}}

\* The live nodes that reach a node another stands in place of.
Reachers(nodes) ==
  LET retired == Superseded({nodes[n].art : n \in DOMAIN nodes}) \intersect DOMAIN nodes
  IN  {n \in DOMAIN nodes \ retired : Says[nodes[n].art].refs \intersect (retired \ {n}) # {}}

\* The names that more than one node bears.
Duplicates(nodes) ==
  {n \in DOMAIN nodes : \E m \in DOMAIN nodes \ {n} : Says[nodes[m].art].name = Says[nodes[n].art].name}

Verdict(n, nodes) ==
  LET rule     == Says[nodes[n].art]
      objected == CASE rule.check = "reach"  -> Reachers(nodes)
                    [] rule.check = "unique" -> Duplicates(nodes)
                    [] OTHER                 -> Offenders(rule, nodes)
  IN  CASE rule.check = "unknown" -> "NO_HANDLER"
        [] OTHER -> IF objected = {} THEN "PASSED" ELSE "FAILED"

Coverage(nodes) ==
  {[rule |-> n, imported |-> nodes[n].role = "governance", status |-> Verdict(n, nodes)] :
     n \in Derived(nodes)}

\* What is left when the imported governance has judged.
Retained(nodes) == {n \in DOMAIN nodes : nodes[n].role # "governance"}

BuiltEvent(kind) ==
  CASE kind = "CT" -> "ct_ir_built" [] kind = "CS" -> "cs_ir_built" [] OTHER -> "cc_projection_built"

\* Mutant of Constructed: what is built is recorded after the construction has completed.
ConstructedLate(names, nodes) ==
  LET built == Listed({n \in names : Kind(nodes[n].art) \in {"CT", "CS", "CC"}})
  IN  <<Event("S5", "construction_complete", NoSubject)>>
        \o [k \in DOMAIN built |-> Event("S5", BuiltEvent(Kind(nodes[built[k]].art)), built[k])]

Constructed(names, nodes) ==
  LET built == Listed({n \in names : Kind(nodes[n].art) \in {"CT", "CS", "CC"}})
  IN  Append([k \in DOMAIN built |-> Event("S5", BuiltEvent(Kind(nodes[built[k]].art)), built[k])],
             Event("S5", "construction_complete", NoSubject))

Projected(names) ==
  LET sorted == Listed(names)
  IN  [k \in DOMAIN sorted |-> Event("S6", "artifact_projected", sorted[k])]
        \o <<Event("S6", "vocabulary_projected", NoSubject), Event("S6", "tokenized_projected", NoSubject),
             Event("S6", "evidence_projected", NoSubject)>>

\* With no rule in force the check returns less than its caller unpacks, and the build is stopped.
Govern(s) ==
  LET b     == build[s]
      kept  == Retained(b.nodes)
      ok    == /\ SurfaceReadable(s)
               /\ InForce(b.nodes) # {}
               /\ \A c \in Coverage(b.nodes) : c.status = "PASSED"
  IN  /\ b.stage = "govern"
      /\ IF ok
         THEN Proceed(s, [b EXCEPT
                !.stage = "write", !.pending = kept,
                !.nodes = Restrict(b.nodes, kept),
                !.judged = b.nodes,
                !.table = Strip(b.table, DOMAIN b.nodes \ kept),
                !.edges = {e \in b.edges : e.from \in kept /\ e.to \in kept},
                !.trace = Append(@, Event("S4", "governance_complete", NoSubject))
                            \o Constructed(kept, b.nodes) \o Projected(kept)])
         ELSE Refuse(s)
      /\ UNCHANGED <<tree, disk, sealed, left>>

-----------------------------------------------------------------------------
(* S5 to S7: constructed, projected, written.                              *)

\* A domain's build is steady while the platform's surface stays what it was attested to be.
Disturb(builds, before, after) ==
  IF before[Platform] = after[Platform] THEN builds
  ELSE [s \in Structure |-> IF s \in Domain /\ builds[s].stage # "idle"
                            THEN [builds[s] EXCEPT !.steady = FALSE] ELSE builds[s]]

First(names) == CHOOSE n \in names : \A m \in names : Order[n] <= Order[m]

\* Mutant of Witness: the write is recorded although it failed.
WitnessAlways(trace, n, written) == Append(trace, Event("S7", "artifact_written", n))

\* A file that was written is recorded, one that failed is an error and no event.
Witness(trace, n, written) ==
  IF written THEN Append(trace, Event("S7", "artifact_written", n)) ELSE trace

\* One canonical file, in the order of the names; a write that fails leaves the file that was there.
WriteArtifact(s) ==
  LET b == build[s]
      n == First(b.pending)
  IN  /\ b.stage = "write"
      /\ b.pending # {}
      /\ \E written \in BOOLEAN :
           /\ disk' = IF written THEN [disk EXCEPT ![s].canonical[n] = b.nodes[n].art] ELSE disk
           /\ build' = Disturb([build EXCEPT ![s] =
                         [b EXCEPT !.pending = b.pending \ {n}, !.trace = Witness(b.trace, n, written),
                                   !.failed = b.failed \/ ~written]], disk, disk')
           /\ IF written THEN UNCHANGED left ELSE Mishap
      /\ UNCHANGED <<tree, sealed>>

\* The vocabulary and the projections beside it are written last; with any error the build stops.
WriteProjections(s) ==
  LET b == build[s]
  IN  /\ b.stage = "write"
      /\ b.pending = {}
      /\ \E written \in BOOLEAN :
           /\ disk' = IF written THEN [disk EXCEPT ![s].vocabulary = DOMAIN b.nodes] ELSE disk
           /\ build' = Disturb([build EXCEPT ![s] =
                         IF b.failed \/ ~written THEN Idle
                         ELSE [b EXCEPT !.stage = "verify",
                                        !.trace = b.trace \o <<Event("S7", "vocabulary_materialized", NoSubject),
                                                               Event("S7", "tokenized_materialized", NoSubject),
                                                               Event("S7", "evidence_materialized", NoSubject)>>]],
                         disk, disk')
           /\ IF written THEN UNCHANGED left ELSE Mishap
      /\ UNCHANGED <<tree, sealed>>

-----------------------------------------------------------------------------
(* S8 and S9: what was written is verified and attested.                   *)

NothingUndeclared(s) == OnDisk(s) = DOMAIN build[s].nodes

RoundTrips(s) == \A n \in DOMAIN build[s].nodes : disk[s].canonical[n] = build[s].nodes[n].art

ReferencesClosed(s) ==
  \A n \in DOMAIN build[s].nodes :
    Says[build[s].nodes[n].art].refs \subseteq DOMAIN build[s].nodes \union Imported(s)

\* Nothing the graph holds as superseded ran as a rule.
SupersededIdle(b) ==
  \A c \in Coverage(b.judged) : c.rule \notin Superseded({b.nodes[n].art : n \in DOMAIN b.nodes}) \intersect DOMAIN b.nodes

ProjectionsSound(b) ==
  /\ TokenizedIsSound(TokenizedOf(DOMAIN b.nodes, b.edges, b.table), b.table)
  /\ EvidenceIsSound(EvidenceOf(DOMAIN b.nodes, b.edges, b.table), DOMAIN b.nodes, b.table)
  /\ GraphIsSound(EvidenceGraphOf(b.trace))

\* What S8 asks of what was written.
Verified(s) ==
  /\ RoundTrips(s)
  /\ NothingUndeclared(s)
  /\ ProjectionsSound(build[s])
  /\ SurfaceReadable(s)
  /\ ReferencesClosed(s)
  /\ SupersededIdle(build[s])

\* Mutant of Verify: a structure that does not verify is written over again, from the first file.
VerifyRetried(s) ==
  /\ build[s].stage = "verify"
  /\ Proceed(s, IF Verified(s) THEN [build[s] EXCEPT !.stage = "attest"]
                ELSE [build[s] EXCEPT !.stage = "write", !.pending = DOMAIN build[s].nodes,
                                      !.trace = SelectSeq(@, LAMBDA e : e.stage # "S7")])
  /\ UNCHANGED <<tree, disk, sealed, left>>

Verify(s) ==
  /\ build[s].stage = "verify"
  /\ IF Verified(s)
     THEN Proceed(s, [build[s] EXCEPT
            !.stage = "attest", !.trace = Append(@, Event("S8", "verification_complete", NoSubject))])
     ELSE Refuse(s)
  /\ UNCHANGED <<tree, disk, sealed, left>>

Attest(s) ==
  /\ build[s].stage = "attest"
  /\ sealed' = IF s = Platform THEN disk[s] ELSE sealed
  /\ Refuse(s)
  /\ UNCHANGED <<tree, disk, left>>

-----------------------------------------------------------------------------
(* What happens around the builds.                                         *)

\* The authors change a structure's sources.
Edit(s) ==
  /\ \E t \in TreesOf[s] \ {tree[s]} : tree' = [tree EXCEPT ![s] = t]
  /\ Mishap
  /\ UNCHANGED <<disk, build, sealed>>

\* The process of a build dies.
Die(s) ==
  /\ build[s].stage # "idle"
  /\ Refuse(s)
  /\ Mishap
  /\ UNCHANGED <<tree, disk, sealed>>

Empty == [canonical |-> [n \in Name |-> None], vocabulary |-> None]

\* Nothing the code does removes a file: once the sources no longer declare one, every build is
\* refused until the outputs are removed by hand.
Clean(s) ==
  /\ build[s].stage = "idle"
  /\ ~(OnDisk(s) \subseteq DOMAIN NodesOf(Parsed(Trees[tree[s]])))
  /\ disk' = [disk EXCEPT ![s] = Empty]
  /\ build' = Disturb(build, disk, disk')
  /\ UNCHANGED <<tree, sealed, left>>

Init ==
  /\ tree \in [Structure -> DOMAIN Trees]
  /\ \A s \in Structure : tree[s] \in TreesOf[s]
  /\ disk = [s \in Structure |-> Empty]
  /\ build = [s \in Structure |-> Idle]
  /\ sealed = None
  /\ left = Mishaps

Step(s) ==
  \/ CarryCapabilities(s) \/ ImportGovernance(s) \/ Resolve(s)
  \/ Govern(s) \/ WriteArtifact(s) \/ WriteProjections(s) \/ Verify(s) \/ Attest(s)

Next ==
  \E s \in Structure : Extract(s) \/ Step(s) \/ Edit(s) \/ Die(s) \/ Clean(s)

Spec == Init /\ [][Next]_vars

\* A step of a build leaves its stage, or writes one more file.
Progress(s) ==
  \/ build'[s].stage # build[s].stage
  \/ build[s].stage = "write" /\ build'[s].pending # build[s].pending

\* A build that runs keeps running: the stages are one loop of one process.  A step of a build is
\* enabled exactly while it is not idle, so this is weak fairness of Step(s), written out because
\* TLC evaluates ENABLED of the whole pipeline slowly.
FairSpec ==
  Spec /\ \A s \in Structure : []<>(build[s].stage = "idle") \/ []<><<Progress(s)>>_vars

-----------------------------------------------------------------------------
(* Properties.                                                             *)

Stages == {"carry", "import", "resolve", "govern", "write", "verify", "attest"}

TypeOK ==
  /\ \A s \in Structure : tree[s] \in TreesOf[s]
  /\ \A s \in Structure : disk[s].canonical \in [Name -> Artifact \union {None}]
  /\ \A s \in Structure : build[s] # Idle =>
       /\ build[s].stage \in Stages
       /\ DOMAIN build[s].nodes \subseteq Name
       /\ \A n \in DOMAIN build[s].nodes :
            /\ build[s].nodes[n].art \in Artifact
            /\ build[s].nodes[n].role \in {"native", "execution", "governance"}
       /\ build[s].stage \notin {"carry", "import", "resolve"} =>
            \A e \in build[s].edges : {e.from, e.to} \subseteq DOMAIN build[s].nodes
       /\ build[s].pending \subseteq DOMAIN build[s].nodes
       /\ {build[s].failed, build[s].steady} \subseteq BOOLEAN
  /\ left \in 0 .. Mishaps

\* The builds that were admitted, at the moment they are attested.
Admitted == {s \in Structure : build[s].stage = "attest"}

\* The artifacts of the platform as it was last attested, by name.
SealedNames == {n \in Name : sealed.canonical[n] # None}
SealedSays(n) == Says[sealed.canonical[n]]

\* The rules that bind a domain as the platform that seals them has them.
Binding ==
  {n \in SealedNames :
     /\ SealedSays(n).kind = "INVARIANT"
     /\ SealedSays(n).about \intersect DomainInstantiated # {}
     /\ ~SealedSays(n).scoped /\ ~SealedSays(n).elsewhere
     /\ \A m \in SealedNames : n \notin SealedSays(m).supersedes}

\* A rule a domain answers to: its own, or the platform's unless the domain's tree speaks of it.
RulesOver(s) ==
  LET b == build[s]
  IN  {Says[b.nodes[n].art] : n \in {m \in DOMAIN b.nodes :
          /\ Says[b.nodes[m].art].kind = "INVARIANT"
          /\ ~Says[b.nodes[m].art].elsewhere
          /\ \A k \in DOMAIN b.judged : m \notin Says[b.judged[k].art].supersedes}}
      \union
      IF b.steady
      THEN {SealedSays(n) : n \in {m \in Binding \ DOMAIN b.nodes :
               \A k \in DOMAIN b.nodes : m \notin Says[b.nodes[k].art].supersedes}}
      ELSE {}

\* Nothing a structure emits, authored or carried, bears what a rule over it forbids: the rule may
\* be its own or, for a domain compiled over a surface that stayed attested throughout, any rule in
\* force on that platform (s4_govern.py:178, s1_extract.py:668).
AdmittedWasJudged ==
  \A s \in Admitted : \A rule \in RulesOver(s) :
    rule.check = "marks" =>
      \A n \in DOMAIN build[s].nodes : Says[build[s].nodes[n].art].marks \intersect rule.forbids = {}

\* The platform's governance over a domain, as the platform that seals it has it.
Governing ==
  {n \in SealedNames :
     \/ SealedSays(n).kind = "VOCABULARY"
     \/ /\ SealedSays(n).kind = "INVARIANT"
        /\ SealedSays(n).about \intersect DomainInstantiated # {}
        /\ ~SealedSays(n).scoped}

\* Over a surface that stayed attested, the rules that ran on a domain are those that stand among
\* what it emits and the platform's governance taken together: none that either withdraws, though
\* what withdraws it may be stripped before S8 looks, and none left out (s4_govern.py:203,
\* s8_verify.py:740).
RanWhatIsInForce ==
  \A s \in Admitted \intersect Domain : build[s].steady =>
    LET nodes == build[s].nodes
        says  == [n \in DOMAIN nodes \union Governing |->
                    IF n \in DOMAIN nodes THEN Says[nodes[n].art] ELSE SealedSays(n)]
    IN  {c.rule : c \in Coverage(build[s].judged)} =
          {n \in DOMAIN says : /\ says[n].kind = "INVARIANT" /\ ~says[n].elsewhere
                               /\ \A m \in DOMAIN says : n \notin says[m].supersedes}

\* Over a surface that stayed attested, what a domain resolved is one platform's: each capability it
\* carries is that platform's record, it emits nothing else of the platform's under its own root
\* unless it authored it, and every name it refers to is emitted by it or by that platform
\* (s1_extract.py:584, s2_canonicalize.py:61, s8_verify.py:513).
AdmittedAgainstOnePlatform ==
  \A s \in Admitted \intersect Domain : build[s].steady =>
    LET b == build[s]
    IN  \A n \in DOMAIN b.nodes :
          /\ b.nodes[n].role # "native" =>
               sealed.canonical[n] = b.nodes[n].art
                 /\ Says[b.nodes[n].art].kind \in {"CS", "CT"}
          /\ Says[b.nodes[n].art].refs \subseteq DOMAIN b.nodes \union SealedNames

\* The digest a domain's build binds is that of the platform's vocabularies and of its general rules
\* over what a domain instantiates: it is the same whenever they are, it moves when one of them
\* moves, and nothing else the platform holds moves it
\* (scripts/test_governance_provenance.py:5-8, s1_extract.py:271).
ClosureTracksGovernance ==
  \A s \in Admitted \intersect Domain : build[s].steady =>
    Digest(build[s].judged) = {<<n, sealed.canonical[n]>> : n \in Governing \ DOMAIN build[s].nodes}

\* The arrangements of a boundary that a build's tree declares.
Arrangements(s, b) ==
  {a \in Contents(Trees[build[s].tree].files) : Says[a].kind = "STRUCTURE" /\ Says[a].boundary = b}

\* The arrangements of a boundary that a build composes.
HeldOf(s, b) ==
  {n \in DOMAIN build[s].nodes : Says[build[s].nodes[n].art].kind = "STRUCTURE"
                                 /\ Says[build[s].nodes[n].art].boundary = b}

\* A composition holds at most one arrangement of a boundary.  It is of the mode the build named, no
\* arrangement of that boundary withdrew it, and one of them withdrew each other arrangement of that
\* mode.  Of the boundary alone: what else is in the tree is not asked (s1_extract.py:529).
OneArrangement ==
  \A s \in Admitted : \A b \in Boundary :
    LET candidates == Arrangements(s, b)
        withdrawn  == UNION {Says[a].supersedes : a \in candidates}
    IN  /\ Cardinality(HeldOf(s, b)) <= 1
        /\ \A n \in HeldOf(s, b) :
             /\ Says[build[s].nodes[n].art].mode = Trees[build[s].tree].selects[b]
             /\ \A a \in candidates :
                  Says[a].mode = Trees[build[s].tree].selects[b] =>
                    (Says[a].name = n <=> Says[a].name \notin withdrawn)

\* While every partition holds its identities, the sealed vocabulary names what the structure emits
\* and no imported rule, and gives each name back at its address (addressing.py:50, s4_govern.py:80,
\* vocabulary.py:47).
SealedNamesAreAddressed ==
  \A s \in Admitted :
    LET table   == build[s].table
        forward == VocabularyOf(table).forward
    IN  Fits(Members(build[s].judged)) =>
          /\ {n \in Name : NodeId(n) \in DOMAIN table} = DOMAIN build[s].nodes
          /\ \A id \in DOMAIN table : forward[table[id]] = id

\* What a build has recorded as written is on disk as it projected it, and an attested build has
\* recorded exactly what it emits (s7_materialize.py:76, evidence.py:547).
WrittenIsWitnessed ==
  /\ \A s \in Structure : build[s].stage \in {"write", "verify", "attest"} =>
       \A n \in Subjects(build[s].trace, "artifact_written") :
         disk[s].canonical[n] = build[s].nodes[n].art
  /\ \A s \in Admitted :
       MaterializedOutputs(EvidenceGraphOf(build[s].trace)) = DOMAIN build[s].nodes

\* The evidence alone tells how an artifact came to be emitted: each one authored descends from the
\* discovery, one that does not was carried, what was built is gathered by the construction, and the
\* stages follow each other to the verification (evidence.py:460-524).
EvidenceTellsTheBuild ==
  \A s \in Admitted :
    LET b       == build[s]
        graph   == EvidenceGraphOf(b.trace)
        found   == {b.trace[k].subject : k \in {j \in Of(b.trace, "node_created") :
                      Ancestors(graph, j) \intersect Of(b.trace, "discovery_complete") # {}}}
        gathered == {b.trace[k].subject : k \in UNION {Upstream(graph, j) :
                       j \in Of(b.trace, "construction_complete")}}
    IN  /\ DOMAIN b.nodes \ found = {n \in DOMAIN b.nodes : b.nodes[n].role = "execution"}
        /\ gathered = {n \in DOMAIN b.nodes : Says[b.nodes[n].art].kind \in {"CT", "CS", "CC"}}
        /\ StagePairs(graph) \subseteq {<<"S1", "S2">>, <<"S1", "S3">>, <<"S2", "S3">>, <<"S3", "S4">>,
                                        <<"S4", "S5">>, <<"S5", "S6">>, <<"S6", "S7">>, <<"S7", "S8">>}

\* Every build comes to an end, attested or refused, whatever the platform does meanwhile.
EveryBuildEnds == \A s \in Structure : (build[s].stage # "idle") ~> (build[s].stage = "idle")

-----------------------------------------------------------------------------
(* What the code's own texts say, and the model of the code refutes.       *)

\* "A build that cannot see it, or sees it stood down, is refused" (representation.py:8).
StoodDownDeclarationIsRefused ==
  \A s \in Admitted : \A n \in DOMAIN build[s].nodes :
    Declaration \in DOMAIN build[s].nodes => Declaration \notin Says[build[s].nodes[n].art].supersedes

\* "A superseded artifact ... is not in force: not enforced, not dispatchable, not a selection
\* candidate", and it is superseded "when some artifact present names it" (force.py:6-13).
WithdrawnIsNoCandidate ==
  \A s \in Admitted : \A b \in Boundary : \A n \in HeldOf(s, b) :
    \A m \in DOMAIN build[s].nodes : n \notin Says[build[s].nodes[m].art].supersedes
==============================================================================
