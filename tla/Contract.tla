------------------------------ MODULE Contract ------------------------------
(***************************************************************************)
(* A capability contract and the transforms it steps through: bound by S2, *)
(* judged by S4, lowered by S5, projected into the dispatch and handler    *)
(* tables by S6, its test cases bound by S7, and then run.                 *)
(*                                                                         *)
(* The runtime is not in this repository.  It is modelled as the tables    *)
(* address it (projections/dispatch.py, projections/handlers.py): it runs  *)
(* the sealed pipeline step by step, a transform by its sealed stream, and *)
(* looks each outcome up in on_result.  How the acts that use the contract *)
(* are entered, and what they may reach, is sealed beside it.              *)
(***************************************************************************)
EXTENDS Capabilities, Entrance

CONSTANTS
  Operations,  \* the operations each of them lists in its policy
  Outcomes,    \* the outcomes each declares for its operations
  This,        \* the full name of the contract
  Contracts,   \* full names of contracts, this one among them
  Drafts,      \* what may be declared: a set of families of drafts
  MaxPasses    \* bound: passes of one loop

\* What a declaration can be: its blocks are read as lists, and a path has a segment at least, each
\* a symbol with a pass.
IsDraft(d) ==
  /\ IsLibrary(d.lib) /\ IsSequence(d.pipeline)
  /\ \A c \in d.cases : \A path \in c.recorded :
       /\ IsSequence(path) /\ path # <<>>
       /\ \A segment \in Range(path) : segment = <<segment[1], segment[2]>> /\ segment[2] \in Nat
  /\ \A act \in Act : IsSequence(d.acts.consults[act])
  /\ DOMAIN d.acts.records \subseteq Description

ASSUME ContractAssumption ==
  /\ This \in Contracts /\ MaxPasses \in Nat
  /\ Contracts \intersect (Transform \union Effect) = {} /\ None \notin Contracts \union Effect
  /\ \A family \in Drafts : \A d \in family : IsDraft(d)

\* A draft is [lib, pipeline, mentions, allowed, superseded, domain, cases, acts, surfaces,
\* entrance], where mentions are the names the contract refers to outside its pipeline; a step of
\* the pipeline is [id, transform, effect, op, reads, surface, on, remaps].
VARIABLES
  draft,   \* what is declared
  stage,   \* the last stage the build passed, or the one it was refused at
  edges,   \* S2: what the contract binds
  sealed,  \* S5 and S6: the sealed forms, the pipeline, the storage and the entrance of each act
  run      \* the run in progress, or none

vars == <<draft, stage, edges, sealed, run>>

lib      == draft.lib
pipeline == draft.pipeline
InForce  == This \notin draft.superseded

NoRun    == [mode |-> "none"]
Unsealed == [forms |-> <<>>, pipeline |-> <<>>, storage |-> <<>>, entrance |-> <<>>]

Init ==
  /\ \E family \in Drafts : draft \in family
  /\ stage = "S1" /\ edges = {} /\ sealed = Unsealed /\ run = NoRun

Refusal == [S2 |-> "refused at S2", S4 |-> "refused at S4", S5 |-> "refused at S5", S7 |-> "refused at S7"]

Passes(name)    == stage' = name
RefusedAt(name) == stage' = Refusal[name] /\ UNCHANGED <<draft, edges, sealed, run>>

-----------------------------------------------------------------------------
(* S2: what the pipeline binds.                                            *)

Node == DOMAIN lib \union Effect \union Contracts

\* The full names the contract and the streams refer to; a bare code is not a reference.
OfContract == draft.mentions \union (UNION {{s.transform, s.effect} : s \in Range(pipeline)} \ {None, This})
Referred ==
  OfContract \union UNION {{s.names : s \in Steps(lib, t)} \ Code : t \in DOMAIN lib}

BindingKind(name) ==
  IF name \in Transform THEN "CC_BINDS_CT" ELSE IF name \in Effect THEN "CC_BINDS_CS" ELSE "REFERENCES"

\* The edges of the steps that name a node.  What a side effect names is not looked at.
StepBindings ==
  {[to |-> pipeline[k].transform, kind |-> BindingKind(pipeline[k].transform), index |-> k] :
     k \in {k \in DOMAIN pipeline : pipeline[k].transform \in Node}}
  \union
  {[to |-> pipeline[k].effect, kind |-> "CC_BINDS_CS", index |-> k] :
     k \in {k \in DOMAIN pipeline : pipeline[k].effect \in Node}}

\* The contract's edges: those of its steps, and one that carries no place in the pipeline (0) for
\* every other reference.
Bindings ==
  StepBindings \union
    {e \in {[to |-> n, kind |-> BindingKind(n), index |-> 0] : n \in OfContract} :
       \A f \in StepBindings : <<f.to, f.kind>> # <<e.to, e.kind>>}

Binds(e) == e.kind \in {"CC_BINDS_CT", "CC_BINDS_CS"}

Canonicalize ==
  /\ stage = "S1"
  /\ IF Referred \subseteq Node /\ InvokesNodes(draft.entrance)
     THEN Passes("S2") /\ edges' = Bindings /\ UNCHANGED <<draft, sealed, run>>
     ELSE RefusedAt("S2")

-----------------------------------------------------------------------------
(* S4: the assertions over a contract and its pipeline.                    *)

\* Every step has a symbol and none reads the results as a whole.
StepsDeclared == \A s \in Range(pipeline) : s.id # None /\ s.reads.shape # "wild"

StepIdsUnique ==
  \A j, k \in DOMAIN pipeline : j # k /\ pipeline[j].id = pipeline[k].id => pipeline[j].id = None

OneCapability == \A s \in Range(pipeline) : (s.transform = None) # (s.effect = None)

\* Mutant of ReadsDeclared: a read of a step that comes later passes.
ReadsDeclaredAnywhere ==
  \A k \in DOMAIN pipeline :
    pipeline[k].reads.shape = "field" =>
      \E j \in DOMAIN pipeline : pipeline[j].id = pipeline[k].reads.from

\* A field of an earlier step's result is of a step that comes earlier.  Nothing is asked of a
\* read that is nested in a literal, nor of one that names no field.
ReadsDeclared ==
  \A k \in DOMAIN pipeline :
    pipeline[k].reads.shape = "field" =>
      \E j \in 1..(k - 1) : pipeline[j].id = pipeline[k].reads.from

\* What the capability a step dispatches declares it may answer; nothing when that is not visible.
Declared(s) ==
  IF s.effect # None
  THEN IF s.effect \in Effect /\ s.op \in DOMAIN Outcomes[s.effect] THEN Outcomes[s.effect][s.op] ELSE {}
  ELSE IF s.transform = None THEN {}
  ELSE IF s.transform \in DOMAIN lib /\ ~lib[s.transform].refuses THEN {"SUCCESS"}
  ELSE {"SUCCESS", "VIOLATION"}

\* The surface of a step does not narrow what its capability declares, and is routed exactly.
RoutingComplete ==
  InForce => \A s \in Range(pipeline) : Declared(s) \subseteq s.surface /\ s.surface = DOMAIN s.on

\* The codes the topology can end with.
Exits ==
  UNION {{c \in pipeline[k].surface \intersect DOMAIN pipeline[k].on :
            \/ pipeline[k].on[c] = "exit"
            \/ k = Len(pipeline) /\ pipeline[k].on[c] = "continue"} : k \in DOMAIN pipeline}

ContractClosed ==
  InForce =>
    /\ \A s \in Range(pipeline) : \A c \in DOMAIN s.on : s.on[c] \in {"continue", "exit"}
    /\ Exits = draft.allowed

OpsSupported ==
  \A s \in Range(pipeline) :
    s.effect # None =>
      /\ s.op # None
      /\ s.effect \in Effect /\ Operations[s.effect] # {} => s.op \in Operations[s.effect]

CapabilityBound == pipeline # <<>> => \E e \in edges : Binds(e)
NotChained      == \A e \in edges : Binds(e) => e.to \notin Contracts

\* A declared type is met by itself, by anything undeclared, and "number" by an integer.
Satisfies(given, wanted) ==
  \/ given = None \/ wanted = None \/ "any" \in {given, wanted}
  \/ given = wanted \/ <<given, wanted>> = <<"integer", "number">>

\* The type of what a step is given: that of the field it reads, an object when the read is nested
\* in a literal, none declared otherwise.
Given(k) ==
  LET r       == pipeline[k].reads
      earlier == {j \in 1..(k - 1) : pipeline[j].id = r.from /\ pipeline[j].transform \in DOMAIN lib}
  IN  IF r.shape = "nested" THEN "object"
      ELSE IF r.shape = "field" /\ earlier # {}
      THEN lib[pipeline[CHOOSE j \in earlier : \A i \in earlier : i <= j].transform].gives
      ELSE None

InputTyped ==
  InForce =>
    \A k \in DOMAIN pipeline :
      pipeline[k].transform \in DOMAIN lib =>
        Satisfies(Given(k), lib[pipeline[k].transform].takes)

\* A contract does not route on what an atom that is not deterministic said.
NotRouted ==
  \A s \in Range(pipeline) :
    LET t == Resolved(lib, s.transform)
    IN  t # None => ~(lib[t].kind = "atom" /\ Impure(lib, t))

\* Mutant of ReachedFrom: every molecule's steps are reached, whether the molecule is or not.
ReachedFromAny(invoked) ==
  invoked \union UNION {{s.names : s \in Steps(lib, t)} \intersect Transform : t \in DOMAIN lib}

\* The transforms reached by full names from those invoked, through the steps of molecules.
ReachedFrom(invoked) ==
  Spread(invoked, [t \in DOMAIN lib |-> {s.names : s \in Steps(lib, t)} \intersect Transform],
         Cardinality(DOMAIN lib))

\* A domain declares what its contracts reach and, what is superseded aside, nothing else.
SurfaceDerived ==
  draft.domain =>
    LET reached == ReachedFrom({s.transform : s \in Range(pipeline)} \intersect Transform)
    IN  DOMAIN lib \ draft.superseded \subseteq reached /\ reached \subseteq DOMAIN lib

Conforms ==
  /\ Runnable(lib) /\ PurityConsistent(lib) /\ EmitsDecided(lib)
  /\ GovernedByKind(lib) /\ Admissible(lib) /\ NotRouted
  /\ StepsDeclared /\ StepIdsUnique /\ OneCapability /\ ReadsDeclared
  /\ RoutingComplete /\ ContractClosed /\ OpsSupported
  /\ CapabilityBound /\ NotChained /\ InputTyped /\ SurfaceDerived
  /\ \A c \in draft.cases : RecordsMatchPurity(lib, c) /\ OutcomeStated(lib, c)
  /\ StorageOwned(draft.acts)
  /\ TransformsClosed(draft.surfaces, lib, draft.domain)
  /\ EffectsClosed(draft.surfaces, draft.acts, draft.domain)
  /\ SurfaceCanonical(draft.surfaces, pipeline)
  /\ Enterable(draft.entrance, draft.superseded)

Govern ==
  /\ stage = "S2"
  /\ IF Conforms THEN Passes("S4") /\ UNCHANGED <<draft, edges, sealed, run>> ELSE RefusedAt("S4")

-----------------------------------------------------------------------------
(* S5 to S7: what is sealed.                                               *)

Construct ==
  /\ stage = "S4"
  /\ IF Lowers(lib)
     THEN Passes("S5") /\ sealed' = [sealed EXCEPT !.forms = Forms(lib)] /\ UNCHANGED <<draft, edges, run>>
     ELSE RefusedAt("S5")

\* Mutant of Placed: an edge that carries no place is taken for the first step.
PlacedAnyhow == {e \in edges : Binds(e)}

\* The edges that are steps of the pipeline.
Placed == {e \in edges : Binds(e) /\ e.index > 0}

\* The sealed pipeline: the steps in their order, each with what it runs and where it goes on.
PipelineOf ==
  LET inOrder == CHOOSE seq \in Bijection(1..Cardinality(Placed), Placed) :
                   \A m, n \in DOMAIN seq : m < n => seq[m].index <= seq[n].index
  IN  [n \in DOMAIN inOrder |->
         LET s == pipeline[IF inOrder[n].index = 0 THEN 1 ELSE inOrder[n].index]
         IN  [runs |-> inOrder[n].to, id |-> s.id, op |-> s.op, reads |-> s.reads, on |-> s.on]]

Project ==
  /\ stage = "S5"
  /\ Passes("S6")
  /\ sealed' = [sealed EXCEPT !.pipeline = PipelineOf, !.storage = StorageOf(draft.acts),
                           !.entrance = EntranceOf(draft.entrance, draft.acts, draft.superseded)]
  /\ UNCHANGED <<draft, edges, run>>

\* A case is bound to its target by full name, as sealed.
Materialize ==
  /\ stage = "S6"
  /\ IF \A c \in draft.cases : c.target \in DOMAIN sealed.forms
     THEN Passes("S7") /\ UNCHANGED <<draft, edges, sealed, run>>
     ELSE RefusedAt("S7")

-----------------------------------------------------------------------------
(* Running what is sealed.  A frame is a sealed stream being run: of which *)
(* transform, the path to it, the next step, the passes the loop there has *)
(* made, and the symbols that stand for what something random said.        *)

Frame(t, form, path) ==
  [of |-> t, form |-> form, path |-> path, pos |-> 1, pass |-> 0, random |-> {}]

Outside(stack) == SubSeq(stack, 1, Len(stack) - 1)

Top     == run.stack[Len(run.stack)]
Under   == Outside(run.stack)
AtEnd   == Top.pos > Len(Top.form.stream)
Current == Top.form.stream[Top.pos]

\* The path the runtime gives the step that is next.
Path == Append(Top.path, <<Current.as, IF Current.kind = "loop" THEN Top.pass + 1 ELSE 0>>)

Running == run.mode # "none" /\ run.status = "running"
Within  == Running /\ run.stack # <<>>
Step    == sealed.pipeline[run.at]

NewRun(mode, case, stack) ==
  [mode |-> mode, case |-> case, at |-> 1, stack |-> stack, status |-> "running", done |-> <<>>,
   drawn |-> {}, kept |-> {}, answer |-> "none", outcome |-> None]

\* The frame with the step done, its symbol standing for something random or not.
Stepped(frame, symbol, random) ==
  [frame EXCEPT !.pos = @ + 1, !.pass = 0,
                !.random = IF random THEN @ \union {symbol} ELSE @ \ {symbol}]

Sealed == <<draft, stage, edges, sealed>>

\* An act reaches the contract.
Begin ==
  /\ stage = "S7" /\ run.mode = "none"
  /\ sealed.pipeline # <<>>
  /\ run' = NewRun("act", None, <<>>) /\ UNCHANGED Sealed

\* A case of a vector is run against its target as sealed.
BeginCase ==
  /\ stage = "S7" /\ run.mode = "none"
  /\ \E c \in draft.cases :
       run' = NewRun("case", c, <<Frame(c.target, sealed.forms[c.target], <<>>)>>)
  /\ UNCHANGED Sealed

EnterTransform ==
  /\ Running /\ run.mode = "act" /\ run.stack = <<>> /\ run.answer = "none"
  /\ Step.runs \in DOMAIN sealed.forms
  /\ run' = [run EXCEPT !.stack = <<Frame(Step.runs, sealed.forms[Step.runs], <<>>)>>]
  /\ UNCHANGED Sealed

\* An atom runs.  What is sealed ct_impure is recorded under its path or, in a case, taken from
\* the record; a molecule's atom that has no record there ends the case.
RunAtom ==
  /\ Within /\ ~AtEnd /\ Current.kind = "atom"
  /\ LET replayed == run.mode = "case" /\ Current.purity = "ct_impure" /\ lib[run.case.target].kind = "molecule"
         random   == Impure(lib, Current.runs)
     IN  run' = IF replayed /\ Path \notin run.case.recorded
                THEN [run EXCEPT !.status = "unrecorded"]
                ELSE [run EXCEPT !.stack = Append(Under, Stepped(Top, Current.as, random)),
                                 !.drawn = IF random THEN @ \union {Path} ELSE @,
                                 !.kept  = IF Current.purity = "ct_impure" THEN @ \union {Path} ELSE @]
  /\ UNCHANGED Sealed

\* A molecule is entered, or a loop makes one more pass.
EnterBody ==
  /\ Within /\ ~AtEnd /\ Current.kind # "atom"
  /\ Current.kind = "loop" => Top.pass < MaxPasses
  /\ run' = [run EXCEPT !.stack = Append(@, Frame(Current.runs, Current.body, Path))]
  /\ UNCHANGED Sealed

\* A body is done; a loop stays to make another pass.
LeaveBody ==
  /\ Within /\ AtEnd /\ Under # <<>>
  /\ LET outer  == Under[Len(Under)]
         step   == outer.form.stream[outer.pos]
         random == Top.form.emit \in Top.random
         after  == Stepped(outer, step.as, random)
     IN  run' = [run EXCEPT !.stack =
                   Append(Outside(Under),
                          IF step.kind = "loop"
                          THEN [after EXCEPT !.pos = outer.pos, !.pass = outer.pass + 1]
                          ELSE after)]
  /\ UNCHANGED Sealed

\* A loop has no more members; one that had none stands for nothing random.
EndLoop ==
  /\ Within /\ ~AtEnd /\ Current.kind = "loop"
  /\ run' = [run EXCEPT !.stack =
                Append(Under, Stepped(Top, Current.as, Top.pass > 0 /\ Current.as \in Top.random))]
  /\ UNCHANGED Sealed

\* The transform answers with the value it emits, or refuses where it declares it may.
Answer ==
  /\ Within /\ run.mode = "act"
  /\ \/ /\ AtEnd /\ Under = <<>>
        /\ run' = [run EXCEPT !.stack = <<>>, !.outcome = "SUCCESS",
                              !.answer = IF Top.form.emit \in Top.random THEN "random" ELSE "decided"]
     \/ /\ lib[Step.runs].refuses
        /\ run' = [run EXCEPT !.stack = <<>>, !.outcome = "VIOLATION", !.answer = "refused"]
  /\ UNCHANGED Sealed

\* A side effect answers with an outcome it declares for the operation.
Perform ==
  /\ Running /\ run.mode = "act" /\ run.stack = <<>> /\ run.answer = "none"
  /\ Step.runs \in Effect /\ Step.op \in DOMAIN Outcomes[Step.runs]
  /\ \E c \in Outcomes[Step.runs][Step.op] :
       run' = [run EXCEPT !.outcome = c, !.answer = "performed"]
  /\ UNCHANGED Sealed

\* The outcome is looked up: on to the next step, or the contract ends with it.
Route ==
  /\ Running /\ run.mode = "act" /\ run.answer # "none"
  /\ run' = IF run.outcome \notin DOMAIN Step.on THEN [run EXCEPT !.status = "unrouted"]
            ELSE IF Step.on[run.outcome] = "exit" \/ run.at = Len(sealed.pipeline)
            THEN [run EXCEPT !.status = "ended"]
            ELSE [run EXCEPT !.at = @ + 1, !.answer = "none",
                             !.done = Append(@, [id |-> Step.id, runs |-> Step.runs])]
  /\ UNCHANGED Sealed

\* A case is done; a record nothing used is refused.
EndCase ==
  /\ Within /\ run.mode = "case" /\ AtEnd /\ Under = <<>>
  /\ run' = [run EXCEPT !.status = IF run.case.recorded \subseteq run.kept THEN "ended" ELSE "unused"]
  /\ UNCHANGED Sealed

Next ==
  \/ Canonicalize \/ Govern \/ Construct \/ Project \/ Materialize
  \/ Begin \/ BeginCase \/ EnterTransform \/ RunAtom \/ EnterBody \/ LeaveBody \/ EndLoop
  \/ Answer \/ Perform \/ Route \/ EndCase

Spec == Init /\ [][Next]_vars

-----------------------------------------------------------------------------
(* Properties.                                                             *)

Stages  == {"S1", "S2", "S4", "S5", "S6", "S7"}
Refused == {Refusal[s] : s \in DOMAIN Refusal}

\* Every step of the pipeline names a transform as a transform, and a side effect as one, by an
\* operation it declares: what the platform's schemas ask of a declaration.
WellNamed ==
  \A s \in Range(pipeline) :
    /\ s.transform # None => s.transform \in DOMAIN lib
    /\ s.effect # None => s.effect \in Effect /\ s.op \in DOMAIN Outcomes[s.effect]

\* The state is well formed; no run is nested deeper than lowering allows a molecule to be.
TypeOK ==
  /\ stage \in Stages \union Refused
  /\ \A e \in edges : e.to \in Node /\ e.index \in 0..Len(pipeline)
  /\ run.mode \in {"none", "act", "case"}
  /\ run.mode # "none" =>
       /\ run.status \in {"running", "ended", "unrouted", "unrecorded", "unused"}
       /\ run.at \in 1..Len(sealed.pipeline) \/ run.mode = "case"
       /\ Len(run.stack) <= MaxDepth + 1
       /\ \A k \in DOMAIN run.stack : run.stack[k].pass \in 0..MaxPasses

\* Some molecule reaches molecules to a greater depth than lowering follows.
NestedBeyondTheBound ==
  LET nested[n \in Nat] ==
        IF n = 0 THEN Molecules(lib)
        ELSE LET inner == nested[n - 1]
             IN  {t \in Molecules(lib) : Runs(lib, t) \intersect inner # {}}
  IN  nested[MaxDepth + 1] # {}

\* A composition S4 admits is lowered by S5 unless a molecule is nested deeper than the bound, which
\* no assertion looks at, or a code has several bearers, which lowering does not tell apart.
AdmittedIsLowered ==
  stage = "refused at S5" => NestedBeyondTheBound \/ ~Unambiguous(lib)

\* What is random is offered, never decided: the value a transform answers a contract with does not
\* come directly from an atom that is not deterministic, through whatever molecules it was passed.
\* (A step that names a transform as its side effect is judged by nobody: WellNamed leaves it out.)
NothingRandomDecides ==
  Unambiguous(lib) /\ WellNamed /\ Running => run.answer # "random"

\* Nothing random runs inside a transform declared deterministic, at any depth.
NothingRandomHides ==
  Unambiguous(lib) /\ Within /\ ~AtEnd /\ Current.kind = "atom" /\ Impure(lib, Current.runs) =>
    \A k \in DOMAIN run.stack : Impure(lib, run.stack[k].of)

\* The runtime, which sees only what is sealed, records what something random said, all of it and
\* nothing else, whichever artifact of a code was sealed.
RandomIsRecorded == run.mode # "none" => run.kept = run.drawn

\* The target of a case and the molecules it reaches do not loop, each nested one stands at one
\* place, and no symbol of a step that is not deterministic is borne by another step.
OncePerSymbol(c) ==
  LET t     == Resolved(lib, c.target)
      under == {t} \union (Reachable(lib, t) \intersect Molecules(lib))
      at(m) == UNION {{<<n, k>> : k \in {k \in DOMAIN lib[n].stream :
                                          Resolved(lib, lib[n].stream[k].names) = m}} : n \in under}
  IN  /\ \A m \in under : \A s \in Steps(lib, m) : s.kind # "loop"
      /\ \A m \in under \ {t} : Cardinality(at(m)) = 1
      /\ \A m, n \in under : \A j \in DOMAIN lib[m].stream, k \in DOMAIN lib[n].stream :
           lib[m].stream[j].as = lib[n].stream[k].as /\ lib[m].stream[j].as \in ImpureSymbols(lib, t)
             => <<m, j>> = <<n, k>>

\* A case whose records S4 admitted replays exactly: it never comes upon an atom that would run
\* without a record, nor leaves a record unused, unless it loops or a symbol stands at two places.
CasesReplayExactly ==
  run.mode = "case" /\ Unambiguous(lib) /\ OncePerSymbol(run.case) =>
    run.status \notin {"unrecorded", "unused"}

\* A contract in force ends with a status it declares, every outcome it meets is routed, and what a
\* step answers is of the surface its family is governed by.
EndsWithinItsContract ==
  run.mode = "act" /\ InForce /\ WellNamed =>
    /\ run.status # "unrouted"
    /\ run.status = "ended" => run.outcome \in draft.allowed
    /\ run.answer # "none" =>
         LET k == GovernorOf(draft.surfaces, CHOOSE s \in Range(pipeline) : s.id = Step.id)
         IN  k # 0 => run.outcome \in draft.surfaces.contracts[k].surface

\* Whatever step an act comes to, what is sealed there can be run: a transform by a form that was
\* sealed for it, a side effect by an operation it declares outcomes for (dispatch.py, s5_construct.py).
EveryStepRuns ==
  run.mode = "act" /\ Running /\ WellNamed =>
    \/ Step.runs \in DOMAIN sealed.forms
    \/ Step.runs \in Effect /\ Step.op \in DOMAIN Outcomes[Step.runs]

\* A step that reads a field of another's result finds that it has run, and of a type it takes.
ReadsWhatWasProduced ==
  run.mode = "act" /\ Running /\ InForce /\ WellNamed /\ Step.reads.shape = "field" =>
    \E k \in DOMAIN run.done :
      /\ run.done[k].id = Step.reads.from
      /\ Step.runs \in DOMAIN lib /\ run.done[k].runs \in DOMAIN lib =>
           Satisfies(lib[run.done[k].runs].gives, lib[Step.runs].takes)

\* The transforms whose sealed forms are run when those named are.
Sealing(names) ==
  Spread(names, [t \in DOMAIN sealed.forms |-> {s.runs : s \in Range(sealed.forms[t].stream)}],
         Cardinality(DOMAIN lib))

\* In a domain that is admitted, every transform in force is run by something the contract runs:
\* its sealed form is the pipeline's, or a body or a step of one.
NothingDeclaredIsIdle ==
  stage \in {"S6", "S7"} /\ draft.domain /\ Unambiguous(lib) /\ AtomsRunAlone(lib) /\ WellNamed =>
    DOMAIN lib \ draft.superseded \subseteq Sealing({s.runs : s \in Range(sealed.pipeline)})

\* An act writes only what its own binding describes and reads only what it declares it consults; its
\* own records are all there, but those it also consults in another description (handlers.py:139-166).
ActsKeepToTheirReach ==
  stage \in {"S6", "S7"} => KeepsToItsReach(draft.acts, sealed.storage)

\* Where an assertion speaks, what is listed is what runs: nothing of its layers that the sealed
\* pipeline reaches, at any depth, is off the list, and in a domain every transform it lists is in
\* force no more or is reached.  A side effect that runs is implemented or bound.
RunsWhatIsListed ==
  stage \in {"S6", "S7"} /\ Unambiguous(lib) /\ AtomsRunAlone(lib) /\ WellNamed =>
    LET running == Sealing({s.runs : s \in Range(sealed.pipeline)})
        f       == draft.surfaces
    IN  /\ \A a \in f.transforms :
             /\ \A x \in running \ Effect : SpeaksFor(f, a, x) => x \in a.allowed
             /\ draft.domain /\ Platform \notin a.scope => a.allowed \ draft.superseded \subseteq running
        /\ \A a \in f.effects : \A x \in running \intersect Effect :
             SpeaksFor(f, a, x) =>
               x \in a.allowed /\ EffectCode[x] \in BoundCodes(draft.acts) \union f.implemented

\* An act is entered through the gate it names, and what a boundary invokes can be entered.
EntersThroughItsGate ==
  stage \in {"S6", "S7"} => GatesHold(draft.entrance, draft.superseded, sealed.entrance)

-----------------------------------------------------------------------------
(* What the code's own texts say, and the model of the code refutes.       *)

\* "One record described twice, reached by one act ... Left out of the composition and reported by the
\* rule that owns the question rather than silently preferred here" (handlers.py:161-165).
TwiceDescribedIsLeftOut ==
  stage \in {"S6", "S7"} => LeavesOutTheAmbiguous(draft.acts, sealed.storage)
=============================================================================
