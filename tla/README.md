# Verification of the protocol compiler

The compiler turns a tree of declarations (artifacts with a machine-readable block) into the
representation a runtime executes: nine stages, S1 to S9, run in order over an immutable state. These
modules model what of it has behaviour that is hard to test: what is on disk and what is claimed of it
when a build is refused, dies or meets an old output; what a domain is compiled against while its
platform moves; whether the tables a runtime executes from are what a workflow declares; and whether a
contract that is admitted runs as it was judged.

## Inventory

| Part | State it keeps | Operations | Interacts with | Hard about it | Correct when | Module |
|---|---|---|---|---|---|---|
| Build driver (`cli.py`) | the State of the running build, the exit count | run the stages, stop at errors, record the determination | every stage by call, disk | exceptions and crashes between stages, repeated builds | a record claims only what is so; every build ends | `Build` |
| State (`graph/state.py`) | errors, warnings, projections, materialized paths, metadata | `with_...` | handed from stage to stage | lost with an exception | what steers the build is what happened | `Build` |
| S1 Extract | graph of nodes and reference edges | discover, select modes, parse, carry capabilities, import governance | source tree, the platform's surface on disk | two artifacts of one name, a surface that changes while it is read | what is in scope is in force; what is imported is one platform's | `Surface` |
| S2 Canonicalize | typed edges | classify references, resolve workflow nodes, pipeline and transport edges | graph, the platform's vocabulary | names resolved by several rules | one identity per node | `Workflow`, `Contract`, `Entrance` |
| S3 Addressing | address table and its reverse | allocate by partition | graph | partitions without bounds | one to one while they fit | `Addressing` |
| S4 Govern | coverage | derive and run assertions, precompute reach and cycles, strip what was imported | handlers, imported invariants | a check that misses its subject, a rule retired by one that is stripped | nothing unlawful passes | `Surface`, `Workflow`, `Transforms`, `Capabilities`, `Contract`, `Storage`, `Entrance` |
| S5 Construct | sealed forms, node records | lower transforms, name workflow nodes | graph | a second resolution of names, bounded nesting | lowering keeps what was judged | `Transforms`, `Workflow` |
| S6 Project | projections | dispatch, handlers, tokenized, vocabulary, canonical, evidence | graph | edge order, shared contracts, records described twice | tables say what is declared | `Workflow`, `Contract`, `Storage`, `Entrance`, `Addressing` |
| S7 Materialize | files | write each file, rename, keep errors, bind cases | disk | partial failure | nothing incomplete passes | `Build`, `Contract` |
| S8 Verify | verdict | ten checks of files and projections | disk, graph | old files, removed files, wrong files | `verified` means whole | `Build`, `Workflow`, `Surface` |
| S9 Attest | attestation file | gate, write | disk | refused builds | attests what was verified | `Build`, `Surface` |
| Determination (`diagnostics/`) | one record per structure and consequence | write | environment, disk | claims derived from memory | truthful | `Build` |
| Force (`atoms/force.py`) | none (relation in the declarations) | superseded, in_force | S1, S4, S6, S8 | forgotten at one place | nothing superseded takes effect | `Surface`, `Workflow`, `Entrance` |
| Evidence (`graph/evidence.py`, `trace.py`) | trace, evidence graph | record, infer causes, check, query | every stage, S8, consumers | causes inferred from order alone | tells how each artifact came to be | `Evidence`, `Surface` |

Loading of structures, path resolution, visualization, the health diagnostic and the scripts keep no
state the rest depends on. `PROJECT.json` lists every part with its status, and the hazards by line.

## Modules

| Module | Models |
|---|---|
| `AdmissionLedger` | abstract: proposals are opened, read once, admitted or not; a refusal leaves what stands |
| `Build` | one structure built again and again into one output root; implements `AdmissionLedger` |
| `DeclaredWalk` | abstract: the walk a workflow's declaration allows |
| `Workflow` | one workflow through S2, S4, S5, S6 and S8, then executed from the sealed tables; implements `DeclaredWalk` |
| `RoutingSearch` | the two searches S4 makes over routing, step by step as it makes them, against the reachability and acyclicity `Workflow` states |
| `Addressing` | S3's table, its reverse, what stripping leaves, and the projections that speak in addresses |
| `Evidence` | events, the two kinds of inferred edges, S8's check, the consumer's queries |
| `Surface` | a platform and its domains compiled one against the other, on `Addressing` and `Evidence` |
| `Transforms` | atoms and molecules: how S4 judges them and vectors that test them, how S5 lowers them |
| `Storage` | which records an act may write or read: S4's judgement and S6's composition |
| `Capabilities` | which capabilities a layer lists, and which surface a family of them has |
| `Entrance` | transports, intents and the gates of acts: S2's edges, S4's judgements, S6's entries and admissions |
| `Contract` | a contract through S2, S4, S5, S6 and S7, then run, on the four modules above |
| `Listing` | sequences as the collections they list, sets in some order |
| `BuildProofs`, `WorkflowProofs`, `AddressingProofs`, `SurfaceProofs` | proofs about the module of that name; `WorkflowProofs` also about `RoutingSearch` |
| `TransformProofs`, `ContractProofs`, `RunProofs` | proofs about `Transforms`; about what `Contract` judges and seals; about its runs |
| `Recursion` | induction and recursion over the naturals, stated of sets and functions, and what `Listing` lists, for the proofs |
| `MCBuild`, `MCWorkflow`, `MCSurface`, `MCContract` | instances for TLC |

### Build

A *version* stands for everything a build reads; a file holds the version it was written for, nothing,
or `Corrupt`. A version declares finitely many artifacts and cases, since it was parsed from files
(`BuildAssumption`). The variables are the disk (`root`, `attestation`, `record`), the state of the running
build (`input`, `pending`, `materialized`, `errors`, `verified`, `failedAt`) and the author's tree
(`source`). `before` and `outcome` are history for the properties.

| Action | Code |
|---|---|
| `Start` | `State.initial` |
| `PureStagePasses`, `PureStageRefuses` | one turn of the stage loop for S1 to S6 (`cli.py` 275-303) |
| `StageRaises` | an exception out of a stage, caught by the loop over structures: no record |
| `WriteFile`, `WriteFails`, `WriteWrong` | one file of S7, temporary file and rename in one step since no stage reads temporary files |
| `DirectoryFails` | the directory of a group of files cannot be made: the group is given up with one error |
| `MetadataPassedOver` | the one view S7 leaves out without an error |
| `MaterializeEnds` | the errors of S7 reach the state after the last file |
| `Verify` | checks 1, 2, 3, 7 decided from the disk; every other check may refuse |
| `Attest`, `AttestRefuses` | S9 |
| `RecordRefusal`, `RecordAdmission` | `determination.write`, which may also write nothing |
| `Edit`, `Remove`, `Crash` | environment |

S7 writes artifacts and cases, then eleven views in the order of its calls: vocabulary (forward,
reverse, metadata), tokenized topology, dispatch and handlers, evidence, the evidence graph last.

Assumed: one build per root at a time, and nobody removes a file between S8 and the end of the build
(nothing in the code locks the root). A failed write leaves the old file; the temporary file it may
leave is not modelled, S8 looks at `.json` files only.

### Workflow

A declaration is a record: the node keys and their types, how each names what it runs (`code`,
`fqdn_id`), `next`, what an ending announces, what inputs read, the start, explicit transitions,
whether the workflow is superseded, and of the graph it is compiled in which artifacts are there, which
one a bare code finds (`last`), and which outcomes they declare. One action per stage: `Canonicalize`
(S2), `Govern` (S4), `Construct` (S5), `Project` (S6, the tables in `Seal`), `Verify` (S8 checks 9 and
10). Then `Begin`, `Continue`, `End` and `Refuse` are the runtime, which is not in the repository and is
modelled from how `projections/dispatch.py` says it reads the tables.

Of about a hundred handlers S4 runs, this module has the four that judge what its tables are built
from. Those left out refuse more, so that nothing is admitted by the code that the model refuses on
account of them; the handler on shared contracts (`assert_wf_node_key_binding_unique_v0.py`) asks for
inputs that differ, as they do in the instance of the reads. Address one-to-oneness is assumed here and
a theorem of `AddressingProofs` while the partitions hold their symbols.

`WellFormed` names what no check establishes and three properties need: the start is a node key and not
an ending, and a node runs an artifact of its type. `assert_wf_entry_intent_v0.py` and
`assert_wf_execution_path_valid_v0.py` say some of it in their docstrings and check less: the first
counts IN nodes, the second reads an analysis that only asks for a start or a contained node.

`Workflow` states reach and the absence of cycles by quantifying over sets of nodes, as a reader would;
S4 searches. `RoutingSearch` has the searches: a search is a state (the stack of open calls with how far
each is in its targets, the marks; or the queue and what was reached) and a function of the number of
steps made, read off at a number of steps no search exceeds.

### Surface

The state is every structure's source tree, what its builds have put on disk (canonical artifacts,
vocabulary), the build in progress of each, and what the last attestation of the platform sealed. An
artifact's content is an element of `Artifact`; `Says` gives what it declares: its name and kind, what
it refers to and stands in place of, marks, and, of a rule, what it forbids and whom it is about.

| Action | Code |
|---|---|
| `Extract` | `s1_extract`: arrangements selected, files parsed, nodes and references |
| `CarryCapabilities` | `s1_extract.py` 584: the platform's capabilities a domain names |
| `ImportGovernance` | `s1_extract.py` 668: the rules a domain is judged under, read file by file |
| `Resolve` | S2 and S3: names resolved against the graph and the platform's vocabulary, addresses allocated |
| `Govern` | S4: assertions derived and run, the imported rules stripped |
| `WriteArtifact`, `WriteProjections` | S7, after the pure S5 and S6 |
| `Verify`, `Attest` | S8's checks of surface, tables, evidence and supersession; S9 |
| `Edit`, `Die`, `Clean` | authors, a killed process, outputs removed by hand (nothing in the code removes one) |

Stages that read nothing but the build's own state are merged with the next that does: their order is
kept in the trace. `steady` says of a domain's build that the platform's surface was the attested one
when it began and has not changed since; it is history, read by properties only. A build keeps the
graph its rules judged (`judged`) and its address table (`table`); what is derived and not kept (what
stripping leaves, coverage, the closure digest) is an operator over the build.

The constants are as the code has them. `SaysAssumption`: a source file declares one name and one kind,
refers to finitely many names, and `None`, which stands for a file that is not there, is no file's
content. `KindAssumption`: the vocabularies of node and edge kinds are finite, and whatever is named can
be addressed (S3 allocates any string). `TreesAssumption`: a source tree is a finite list of files, and
no domain is its own platform.

### Contract

A draft is one contract with its transforms, its pipeline, test vectors, two acts with their bindings
and records, what the layers list, and how the acts are entered. `Canonicalize`, `Govern`, `Construct`,
`Project` and `Materialize` are S2, S4, S5, S6 and the binding of cases in S7. `Govern` has thirty
judgements, each the translation of its handler: those over one transform and one vector in
`Transforms`, over storage in `Storage`, over lists and surface contracts in `Capabilities`, over
transports and intents in `Entrance`, over a pipeline in `Contract`.

The rest of the actions are the runtime, which is not in the repository: `Begin`, `EnterTransform`,
`RunAtom`, `EnterBody`, `LeaveBody`, `EndLoop`, `Answer`, `Perform`, `Route` run the sealed pipeline
through the sealed streams, `BeginCase` and `EndCase` a test case, as the tables address it. A frame of
`run.stack` is a sealed stream being run; `random` are the symbols that stand for what something not
deterministic said, so that a value can be followed from an atom to what decides the routing.

Two conditions occur in the properties, for what no modelled check establishes. `Unambiguous`: no two
transforms of a composition share a code; S4 resolves a full name as it stands and a bare code to its
first bearer, S5 any name to the last bearer of its code, so that they may judge one artifact and seal
another. `WellNamed`: a step names a transform as a transform and a side effect as one, which the
schemas of the platform ask of a declaration. A third, `AtomsRunAlone`, is needed where what is
sealed is compared with what S4 counted: S4's search follows steps an atom declares, S5 does not lower
them. Where a property does without them (`RandomIsRecorded`) it
is because what is sealed is right whichever artifact was chosen. `OncePerSymbol` is narrower than the
judgement on vectors: that one asks a record per symbol, the runtime asks one per path. A path is a
sequence of segments, each a symbol with the pass of a loop, 0 where there is none.

## Runs

| Run | Shows | Bounds |
|---|---|---|
| `build` | attested means whole, also where writes put down something else, as far as S8 reads back; records are truthful; refused builds leave the attestation; the ledger is implemented; every build ends | two versions, of which one drops an artifact and a case; two artifacts, one case, five views; two builds, one fault; an artifact, a view and the evidence graph may be written wrong |
| `build_partial` | violation: a refused build has written | no faults: S8 refusing is enough |
| `build_stale_case` | violation: an undeclared case stays and is admitted | the second version drops the case alone |
| `workflow` | outcomes answered, identity kept, results apart, searches right, walk as declared, no place run twice, endings reached | seven keys, five artifacts of which two share a code, two outcomes; 4 224 declarations |
| `workflow_gap`, `workflow_identity`, `workflow_reads` | violations, see below | a few declarations each |
| `surface` | what is admitted was judged by the rules in force, is one platform's, is addressed, and its evidence tells how it came to be; every build ends | a platform of two generations, a domain of three trees, one mishap beside any number of builds |
| `surface_stood_down`, `surface_withdrawn` | violations, see below | trees of two to four files |
| `contract` | what is admitted is lowered, decides nothing at random, records what is random, replays, ends within its contract, can run every step it comes to, reads what was produced, runs what is listed, keeps to its reach and is entered through its gate | 10 312 drafts in six families; nesting followed to one level of molecules below the first, loops of at most two passes |
| `contract_described_twice` | violation, see below | the family of drafts that varies storage |

Two builds are enough for a hazard of staleness: a build meets what one other left, which may have died
anywhere; the proofs cover any number of builds and faults. `Views` bounds the views: the run has five
of the eleven, two of one directory, one that is alone in its own, the one S7 may pass over without an
error, and the evidence graph, which is last and read back; a view between them differs from these in
name only, and `BuildProofs` covers every choice that has the last two. In `workflow`, `Routings` varies what leads
where (self-loops, loops over two and three nodes, gaps, undeclared targets, unreachable nodes, joins),
`Names` varies how nodes are named, what the graph holds, where execution starts and explicit
transitions beside `next`. In `surface` the second generation of the platform stands one rule in
another's place, adds a scoped one, and changes a capability; the domain's trees obey one generation
and not the other. In `contract` the bound on nesting is 1 where the code has 32: chains of one, two
and three molecules are declared, so that both sides of the bound occur; two passes of a loop tell the
first from a later one. Each family varies one part of a draft and leaves the others at a form that
passes, since the judgements of one part do not read another, but for those a family varies together
(transforms with what a domain declares and supersedes; lists with layers, bindings and the domain).

`CHECK_DEADLOCK FALSE` in the runs of `MCWorkflow` and `MCContract`: an execution stops at its ending, a
refused build stays refused.

Fairness: in `Build` weak fairness of the stages completing (`Completes`), in `Surface` of each step of
a build (`FairSpec`), because the compiler is one sequential process that waits for nothing; none of
exceptions, the author, the disk, the platform's builds or crashes, so that no build ends only because
something may interfere. In `Workflow`, weak fairness of the answer to what runs: a contract ends with
some declared outcome. That an execution is started is not assumed. Which outcome it is, is not
constrained. `Contract` has no liveness: a run is bounded by its streams.

## Findings

1. `build_partial`: `ARCHITECTURE.md` 175 promises that a failed compile writes nothing. A build refused
   in S7 or S8 has replaced files, and nothing takes them back. What does hold, and is proved, is that
   the attestation is the one before and that no record claims otherwise.
2. `build_stale_case`: strict mode (`s8_verify.py` 10) looks under `layer_outputs` alone.
3. `workflow_gap`: a start node named by artifact is accepted by S2 and starts no reach in S4.
4. `workflow_identity`: S2 calls itself the one resolver; S5 has another, with other precedence.
5. `workflow_reads`: inputs read results under the contract's address, so two nodes that run one
   contract share one result.
6. `surface_stood_down`: a declaration of what a reference is that a local successor stands down is read
   all the same, since it is handed over alone; the platform is sealed and every domain then refused.
7. `surface_withdrawn`: an arrangement of a boundary is selected before the composition is known, and
   only the boundary's own structures are asked whether one of them supersedes it. One that any other
   artifact withdraws is selected and sealed beside what withdraws it, against `force.py` 6-13; S8's
   check of supersession looks at workflows, intents and invariants. What does hold of the boundary
   alone is `OneArrangement`.
8. `contract_described_twice`: the comment at `handlers.py` 161 says a record two bindings of one act
   describe is left out of the composition and reported. The first description stays, the act's own
   before those it consults, and no handler reports it. That no act can write a record it only consults
   holds of those records too (`ActsKeepToTheirReach`).

Seen and not given a run of their own:

- Disk and records. `PGC_SNAPSHOT_ROOT` is required for a determination record (`determination.py` 41)
  and set by neither shipped script; no view but the evidence graph is read back by S8, against
  `ARCHITECTURE.md` 124; `_execute_assertions` returns two values for three when no invariant is in
  force.
- Checks that judge nothing. `assert_binding_surface_closed_v0.py` 68 looks for "VIOLATION" where
  `s4_govern.py` 607 writes "FAILED"; the dependencies, unused outputs and inputs of contracts are
  constants (`s4_govern.py` 484-486); the file-path kinds of `assert_rb_binding_policy_conformance_v0.py`
  are an empty set; the filter for imported subjects (`s4_govern.py` 211-222) keeps all of them.
- Names. The graph keeps the second of two files of one full name (`s1_extract.py` 216), so that the
  rule that each name is borne once, `assert_unique_artifact_id_v0.py`, counts names among what is left.
  A `transform` that names a contract becomes a mere reference and the step is silently dropped; one
  that names a side effect passes; a step that names an atom that is not deterministic as its side
  effect may route on what it says. What a binding names is taken for a side effect by the prefix of its
  code (`assert_rb_cs_only_v0.py` 49), which `s1_extract.py` 868 calls no authority; the model takes the
  convention to hold. An implementation of a side effect is looked for by its code. The surface derived
  for a domain sees full names only. Codes resolve to the first bearer in some checks and to the last in
  others.
- Reads and routes. Reads nested in a literal, and reads of a result without a field, are judged by
  nobody; a step whose `on_result` is not a map is skipped; `on_ct_result` exempts a step from its
  surface contract and is sealed by no projection. Explicit `transitions` are never realised, though
  S2's docstring supports them.
- Lowering. The comment at `s5_construct.py` 237 says S4 refuses what is nested too deep; it judges
  self-containment only. Records of a vector are covered by last symbol, not by path. A transform that
  only a step declared by an atom names counts as reached (`_steps` of the derived surface) and is run by
  nothing, since S5 lowers no step of an atom.
- Entrance. An intent's act and the intent that act admits through are declared apart and never
  compared; one-to-oneness of intents is per spelling of the act's name; a transport's target is judged
  in `handler` and its edge drawn from `core`; an input that is not a record passes as typed and is
  sealed as no requirement.
- Platform and domain. An artifact of a domain with the name of a platform's rule shadows it; the
  closure digest ignores that a domain supersedes an imported rule; a superseded imported rule whose
  successor is scoped stays in force; a deprecated structure may be selected and then passed over; a
  domain may be admitted against two generations of its platform when the surface moves meanwhile;
  `causality_chain` (`evidence_query.py` 234) returns the event first where it documents the root first.

## Proofs

`BuildProofs` shows for every set of versions and files and every bound that attested means whole, that
refusals and admissions are truthful, that attestations are kept and that `Build` implements
`AdmissionLedger`. The invariant `IInv` is needed because `VerifiedIsWhole` looks at S9 only: it carries
that S7 forgets a file only by keeping an error (`PlanAccounted`), that a file is either the build's own
or the one found (`RootAccounted`), and that what S8 saw stands (`SealStands`). Assumed of the constants:
a version declares something, and finitely much. Nothing is
assumed of writes: `Whole` allows a file to hold what a faulty write put down in its place, which S8 does
not catch in a view, and `ArtifactsAsProjected` says where it does, of artifacts and the evidence graph.

`WorkflowProofs` shows for every set of declarations that outcomes are answered, that what runs is what
S2 resolved, that results stay apart, and that `Workflow` implements `DeclaredWalk`. Its `IInv` carries
what each passed stage found (`PassedStages`), that execution is at a place whose artifact is S2's
(`WalkAccounted`), that it stays within the reach S4 checked (`StaysInReach`) and that results of nodes
left behind are kept (`ResultsKept`). The argument: closure is checked over keys reached through `next`;
S8 ties every entry of the sealed routing to the continuation declared at its key, so execution moves
within that reach; there every declared outcome has a `next`, which S8 found realised. Besides the
typing of declarations the proofs use `WorkflowAssumption`: at most one artifact of a code in the
workflow's own namespace, names totally ordered, and at most one explicit transition per place and
condition.

It shows of the two searches that each finds what `Workflow` states by quantifying over sets. Of the
depth-first one, `SearchInv` says that the open nodes are those on the stack, each led to by the one below
it; that what an open node has looked at is done, or is the node its call waits for; that a node that is
done leads to nodes that are done, and no set of nodes that are done leads back into itself; and that a
search that found something has found a cycle. One that rests without it has done every node, so there is
no cycle. Of the queue, `ReachInv` says that what was reached is in reach, and that the start and whatever
the reached lead to is reached or queued. Both need that the search rests by the step it is read off at:
depth-first, each step passes a root, a target or a node, and none is passed twice; breadth-first, each
step takes one key off the queue and a node adds its targets once (`SearchAdvances`, `ReachAdvances`).
Assumed: keys and conditions are finitely many (`SearchAssumption`), since they were parsed from a file.

`NoReturn` carries the absence of cycles from the declaration to the tables: what leads from a place an
execution has run to the place it is at is declared in `next` (S8), so a place run twice would be a set of
nodes that leads back into itself, which S4 has refused.

`AddressingProofs` shows that S3 gives no address twice while every partition holds its symbols
(`Fits`, which the code does not check), for every set of symbols and every choice of bases; that the
reverse table then gives each identity back; and that the table left when imported nodes are stripped
still does. The argument: within a class the place of a symbol is the number of symbols before it, which
is smaller than that of the class; between classes the partitions do not overlap.

`SurfaceProofs` shows every safety invariant of `Surface`, for any platform and any number of domains, any
source trees and any interleaving of their builds with edits, deaths and removals. No property is inductive:
each speaks of an attested build, or of what is sealed, and depends on what earlier steps read from a disk
that others write. The invariant `IInv` says of every build what each stage it has passed left (`Sound`:
what was parsed, carried, imported, judged, addressed, written), that what it has written is on its own disk
as projected and what it has not is to come (`Witnessed`), that the sealed surface was filed and has the
vocabulary of what was filed (`SealedInv`), and, only while a build is `steady`, that what it imported is
the sealed platform's (`FromOnePlatform`). The argument: a step of another structure changes nothing a build
keeps, and if it is the platform's and changes the surface it ends `steady`; so `FromOnePlatform` has to be
kept by steps that leave the surface alone, and everything else by the build's own steps.
`SurfaceInForceRan` and `SurfaceDigest` rest on `JudgedIs`, that over a surface that stayed attested what
was judged is what is emitted and the sealed platform's governance, no more and no less: the rules that ran
are then told from what is on disk, although the imported ones have left the graph. `SurfaceAddressed` rests
on the stripped table of `AddressingProofs`. `EvidenceTellsTheBuild` needs a second invariant, `ToldInv`,
over the trace: its stages follow one another, discovery is told once and first, what is created are the
native nodes, and construction is told once, after everything it built. An effect then has its cause among
the last events before it, and the backward search of the consumer finds it. Assumed: the assumptions on
constants above, and of `Addressing` that symbols are totally ordered and each class has a base.

`ContractProofs` and `RunProofs` show every property of `Contract`, for any composition of transforms,
any pipeline, vectors, acts, lists and entrances, any depth that lowering follows and any number of
passes of a loop. The properties speak of a run, and what keeps it right is what S4 judged three stages
earlier and S5 sealed under another resolution of names. The invariant carries both sides:

- `StageAccounted`: what each stage found or sealed stands from then on, and nothing runs before S7.
- `FramesAccounted`: every frame of the stack is the sealed form of its transform, standing at one of
  its lines, entered from the line of the frame below it, and nested no deeper than lowering follows;
  what is recorded is what was drawn. It is what makes the bound on depth, and `RandomIsRecorded`, hold.
- `RandomAccounted`: a symbol stands for something random only if the last of the steps done that bears
  it is an atom that is not deterministic. With `EmitsDecided`, judged of each molecule alone, no body
  hands a random value to the frame it returns to, so none reaches the answer at any depth.
- `ActAccounted`: an act has done the steps before the one it stands at, by their order in the sealed
  pipeline, and stands there with an outcome that step may answer. That the sealed pipeline has every
  declared step once and in order (`PipelineIsWhole`) is proved from S2's edges; then `RoutingComplete`,
  `ContractClosed` and `ReadsDeclared`, which S4 states of the declaration, apply to the run.
- `CaseAccounted`, for test cases: where a case can be replayed, each record is used or still ahead of
  some frame. S4 asks that each record leads somewhere and that each symbol has a record; that the
  record of an atom that is reached is the one under its own path (`OneWay`) takes that there is one
  place for each molecule and each symbol, and that no molecule leads back to the target. `OncePerSymbol`
  says the first two, `Runnable` the last.

`NothingDeclaredIsIdle` and `RunsWhatIsListed` compare two searches, S4's over the declared steps and
the one over sealed forms: both are closed once they have gone as many steps as there are transforms
(`SpreadCloses`), and each step of one is a step of the other. Assumed: the assumptions of `Transforms`
(codes and names apart, the order of nodes total), `Capabilities`, `Storage`, `Entrance` and `Contract`,
and `IsDraft` of every draft: blocks are lists and finite sets, since they were parsed from files.

The operators these proofs are about are recursive functions over the naturals (`Spread`, `Fits`,
`Forms`, `Along`, `Among`, `Listed`). `Recursion` states that such a function exists, and induction,
with a set in place of a predicate and a function in place of an operator, so that each use is a plain
citation; `...Unfolds` is the name of the lemma that gives an operator's value for 0 and for n + 1.

Why what starts also ends is proved up to fairness. `BuildsDescend`, in `Build` and in `Surface`: each
stage that completes, and each file that is written or given up, takes a build nearer its end in a
well-founded order (stages left, then files left), and nothing else takes it back, be it a fault, an
author, a death or another build. `MaterializeGoesOn`: until S7 has gone through its plan there is a file
whose turn it is, so that a view passed over or a group given up leaves no file waiting for another.
`AnswersDescend`: every answer ends an execution or leaves fewer places to run. `RunsRunOut`: every step of
a run of a contract or a case goes forward in the lexicographic order of the frames' lines and passes,
and there are no more frames than lowering follows nor lines than were sealed, so a run ends after a
bounded number of steps whatever its outcomes.

Only model-checked: the liveness properties `EveryBuildEnds` of `Build` and of `Surface` and
`ReachesAnEnding`. Each is one of the descents above together with the weak fairness assumed of the
steps that descend, and the prover has neither fairness nor ENABLED.

## Not modelled

- The shape of one artifact (schemas, vocabularies, required fields, full names): about forty handlers
  that each read one declaration and look for a field. They relate nothing to anything.
- Parsing, layouts of directories, the derivation of names from paths, loading of structures: input
  handling. What the rest relies on (a file is parsed or refuses the build) is in `Surface`.
- The reverse view, the artifact index and the interface model of S6, pictures and reports: other
  presentations of the graph, read by no stage.
- Two builds of one root at once: the code does not provide for it.

## Plan

1. `Storage`, `Capabilities` and `Entrance`: abstract specifications of what an act may reach and how it
   is entered, which `Contract` would implement.
2. The reverse view and the artifact index of S6, if a consumer comes to rely on them.

## Layout of runs

Each `MC...cfg` names its specification, constants and properties; each property has a mutant of the
mapped code that breaks it, defined before the original and marked "Mutant of".
