-------------------------------- MODULE Build --------------------------------
(***************************************************************************)
(* One structure compiled again and again into one output root.            *)
(*                                                                         *)
(* cli.py runs the nine stages in order over an immutable State and stops  *)
(* at the first stage that leaves errors in it, writing a determination    *)
(* record; an exception out of a stage stops the build without one.  S7    *)
(* writes the projections file by file (temporary file, then rename), S8   *)
(* reads part of them back, S9 writes the attestation.  Nothing removes an *)
(* old file and nothing undoes a written one.  The author edits            *)
(* declarations at any time, files may be removed from outside, writes may *)
(* fail or put down something else than what was projected, and the        *)
(* process may die between any two steps.                                  *)
(*                                                                         *)
(* A version stands for everything a build reads; the bytes of every file  *)
(* written for a version are that version (S1..S6 are deterministic).      *)
(***************************************************************************)
EXTENDS Naturals, FiniteSets

CONSTANTS
  Version,        \* the states of the declarations the author moves between
  Artifact,       \* canonical artifact files (under output_configuration.layer_outputs)
  Case,           \* conformance case files (under output_configuration.conformance)
  Declares,       \* Declares[v]: the artifacts and cases version v declares
  MaxBuilds,      \* bound: the builds that are started
  MaxFaults,      \* bound: failed or corrupted writes and removals from outside
  Corruptible,    \* the files a faulty write may put down wrongly
  Views,          \* bound: the files of ViewOrder a build writes; the code writes all eleven
  EvidenceRoot,   \* the values PGC_SNAPSHOT_ROOT may have: set (TRUE) or not (FALSE)
  None            \* no version: an absent file, an absent attestation

\* Files every build writes after its artifacts and cases, in the order S7 writes them.
ViewOrder == <<"metadata", "forward", "reverse", "vocabulary_metadata", "topology",
               "tokenized_metadata", "dispatch", "handlers", "evidence", "evidence_metadata",
               "evidence_graph">>
View == {ViewOrder[i] : i \in 1 .. 11} \intersect Views

\* The files each materializer writes into the one directory it resolves and creates first: it
\* writes none of them when that fails, and otherwise goes on past a file that fails.
VocabularyFiles == {"forward", "reverse", "vocabulary_metadata"}
TokenizedFiles  == {"topology", "tokenized_metadata"}
RuntimeFiles    == {"dispatch", "handlers"}
EvidenceFiles   == {"evidence", "evidence_metadata"}
GraphFiles      == {"evidence_graph"}

Directory ==
  {files \intersect View : files \in {VocabularyFiles, TokenizedFiles, RuntimeFiles, EvidenceFiles, GraphFiles}}
    \ {{}}
File == Artifact \union Case \union View

\* What a file holds when a write put down something else than what was projected: JSON of the
\* right class with other content (JSON that cannot be read fails check 2 whatever its class).
Corrupt == "corrupt"

ASSUME BuildAssumption ==
  /\ None \notin Version
  /\ Corrupt \notin Version
  /\ Corrupt # None
  /\ Artifact \intersect Case = {}
  /\ (Artifact \union Case) \intersect View = {}
  /\ Declares \in [Version -> SUBSET (Artifact \union Case)]
  /\ \A v \in Version : Declares[v] # {} /\ IsFiniteSet(Declares[v])
  /\ MaxBuilds \in Nat
  /\ MaxFaults \in Nat
  /\ Corruptible \subseteq File
  /\ {"metadata", "evidence_graph"} \subseteq Views
  /\ EvidenceRoot \in SUBSET BOOLEAN

VARIABLES
  source,        \* the version the author's tree holds
  root,          \* File -> Version \union {None, Corrupt}: the output root on disk
  attestation,   \* the version structure_attestation.json attests, or None
  record,        \* consequence -> the determination record on disk, or NoRecord
  evidenceRoot,  \* PGC_SNAPSHOT_ROOT is set in the environment of the build
  stage,         \* what the build does next; "idle" when no build runs
  input,         \* the version S1 read: what every later stage works from
  pending,       \* the files S7 has still to write
  materialized,  \* the files S7 wrote: State.materialized_paths
  errors,        \* State.has_errors
  verified,      \* State.stage_metadata["verified"]
  failedAt,      \* the stage whose errors refused the build
  outcome,       \* how the last build that ended did end
  builds,        \* the builds started so far
  faults,        \* the faults so far
  before         \* history: the root and the attestation when the build started

diskVars  == <<root, attestation, record>>
stateVars == <<input, pending, materialized, errors, verified, failedAt>>
vars == <<source, diskVars, evidenceRoot, stage, stateVars, outcome, builds, faults, before>>

PureStage == {"S1", "S2", "S3", "S4", "S5", "S6"}
Stage     == PureStage \union {"S7", "S8", "S9"}
After == [S1 |-> "S2", S2 |-> "S3", S3 |-> "S4", S4 |-> "S5", S5 |-> "S6", S6 |-> "S7"]

\* S6 collects no errors, S3 turns every exception into one.
MayRefuse == PureStage \ {"S6"}
MayRaise  == PureStage \ {"S3"}

Consequence == {"ADMITTED", "REFUSED"}
NoRecord == [build |-> 0, version |-> None, nothingProceeded |-> FALSE, failedAt |-> "none"]
Record == [build : Nat, version : Version \union {None}, nothingProceeded : BOOLEAN,
           failedAt : Stage \union {"none"}]

\* The files a build of version v writes.
Plan(v) == Declares[v] \union View

\* Files S8 looks at when it searches for undeclared output: those under layer_outputs.
LayerFile == Artifact \union {"metadata"}

TypeOK ==
  /\ source \in Version
  /\ root \in [File -> Version \union {None, Corrupt}]
  /\ attestation \in Version \union {None}
  /\ record \in [Consequence -> Record]
  /\ evidenceRoot \in BOOLEAN
  /\ stage \in Stage \union {"idle", "refusing", "admitting"}
  /\ input \in Version \union {None}
  /\ pending \in SUBSET File
  /\ materialized \in SUBSET File
  /\ errors \in BOOLEAN
  /\ verified \in BOOLEAN
  /\ failedAt \in Stage \union {"none"}
  /\ outcome \in {"none", "admitted", "refused", "raised", "crashed"}
  /\ builds \in Nat
  /\ faults \in Nat
  /\ before \in [root : [File -> Version \union {None, Corrupt}],
                 attestation : Version \union {None}]

------------------------------------------------------------------------------
Init ==
  /\ source \in Version
  /\ root = [f \in File |-> None]
  /\ attestation = None
  /\ record = [c \in Consequence |-> NoRecord]
  /\ evidenceRoot \in EvidenceRoot
  /\ stage = "idle"
  /\ input = None
  /\ pending = {}
  /\ materialized = {}
  /\ errors = FALSE
  /\ verified = FALSE
  /\ failedAt = "none"
  /\ outcome = "none"
  /\ builds = 0
  /\ faults = 0
  /\ before = [root |-> root, attestation |-> attestation]

\* State.initial: nothing read, no errors, nothing materialized, not verified.
Start ==
  /\ stage = "idle"
  /\ builds < MaxBuilds
  /\ stage' = "S1"
  /\ input' = None
  /\ pending' = {}
  /\ materialized' = {}
  /\ errors' = FALSE
  /\ verified' = FALSE
  /\ failedAt' = "none"
  /\ builds' = builds + 1
  /\ before' = [root |-> root, attestation |-> attestation]
  /\ evidenceRoot' \in EvidenceRoot
  /\ UNCHANGED <<source, diskVars, outcome, faults>>

\* A stage that leaves errors behind refuses the build at that stage.
Refused(s) ==
  /\ errors' = TRUE
  /\ failedAt' = s
  /\ stage' = "refusing"

\* S1 reads the declarations; S2..S6 work on the state alone.
PureStagePasses ==
  /\ stage \in PureStage
  /\ stage' = After[stage]
  /\ input' = IF stage = "S1" THEN source ELSE input
  /\ pending' = IF stage = "S6" THEN Plan(input) ELSE pending
  /\ UNCHANGED <<source, diskVars, evidenceRoot, materialized, errors, verified, failedAt,
                 outcome, builds, faults, before>>

PureStageRefuses ==
  /\ stage \in MayRefuse
  /\ Refused(stage)
  /\ input' = IF stage = "S1" THEN source ELSE input
  /\ UNCHANGED <<source, diskVars, evidenceRoot, pending, materialized, verified,
                 outcome, builds, faults, before>>

\* The state is lost with the exception; no determination is recorded.
StageRaises ==
  /\ stage \in MayRaise \union {"S7", "S8"}
  /\ stage' = "idle"
  /\ outcome' = "raised"
  /\ UNCHANGED <<source, diskVars, evidenceRoot, stateVars, builds, faults, before>>

\* Artifacts come first, then the cases, then the views in their order; the metadata describes
\* what was written before it, and is passed over when that is nothing.
Turn(f) ==
  /\ f \in pending
  /\ f = "metadata" => materialized # {}
  /\ f \notin Artifact => pending \intersect Artifact = {}
  /\ f \in View => /\ pending \intersect Case = {}
                   /\ \A i, j \in 1 .. 11 :
                        ViewOrder[i] = f /\ j < i => ViewOrder[j] \notin pending

\* A file replaced by what was projected for it.
WriteFile(f) ==
  /\ stage = "S7"
  /\ Turn(f)
  /\ root' = [root EXCEPT ![f] = input]
  /\ pending' = pending \ {f}
  /\ materialized' = materialized \union {f}
  /\ UNCHANGED <<source, attestation, record, evidenceRoot, stage, input, errors, verified,
                 failedAt, outcome, builds, faults, before>>

\* Mutant of WriteFails: the failure is swallowed.
WriteFailsSilently(f) ==
  /\ stage = "S7"
  /\ faults < MaxFaults
  /\ Turn(f)
  /\ pending' = pending \ {f}
  /\ faults' = faults + 1
  /\ UNCHANGED <<source, diskVars, evidenceRoot, stage, input, materialized, errors, verified,
                 failedAt, outcome, builds, before>>

\* A write that fails: the old file stays, an error is kept, S7 goes on with the next file.
WriteFails(f) ==
  /\ stage = "S7"
  /\ faults < MaxFaults
  /\ Turn(f)
  /\ pending' = pending \ {f}
  /\ errors' = TRUE
  /\ faults' = faults + 1
  /\ UNCHANGED <<source, diskVars, evidenceRoot, stage, input, materialized, verified,
                 failedAt, outcome, builds, before>>

\* The directory of a view cannot be had: none of its files is written, an error is kept.
DirectoryFails(files) ==
  /\ stage = "S7"
  /\ faults < MaxFaults
  /\ files \subseteq pending /\ \E f \in files : Turn(f)
  /\ pending' = pending \ files
  /\ errors' = TRUE
  /\ faults' = faults + 1
  /\ UNCHANGED <<source, diskVars, evidenceRoot, stage, input, materialized, verified,
                 failedAt, outcome, builds, before>>

\* Nothing was written, so there is nothing for the metadata to describe.
MetadataPassedOver ==
  /\ stage = "S7"
  /\ "metadata" \in pending /\ pending \intersect (Artifact \union Case) = {}
  /\ materialized = {}
  /\ pending' = pending \ {"metadata"}
  /\ UNCHANGED <<source, diskVars, evidenceRoot, stage, input, materialized, errors, verified,
                 failedAt, outcome, builds, faults, before>>

\* A write that reports success and leaves something else than what was projected.
WriteWrong(f) ==
  /\ stage = "S7"
  /\ faults < MaxFaults
  /\ Turn(f)
  /\ f \in Corruptible
  /\ root' = [root EXCEPT ![f] = Corrupt]
  /\ pending' = pending \ {f}
  /\ materialized' = materialized \union {f}
  /\ faults' = faults + 1
  /\ UNCHANGED <<source, attestation, record, evidenceRoot, stage, input, errors, verified,
                 failedAt, outcome, builds, before>>

\* Mutant of MaterializeEnds: S7 waits for every file of the plan, the failed ones too.
MaterializeEndsWhole ==
  /\ stage = "S7"
  /\ materialized = Plan(input)
  /\ IF errors THEN Refused("S7") ELSE stage' = "S8" /\ UNCHANGED <<errors, failedAt>>
  /\ UNCHANGED <<source, diskVars, evidenceRoot, input, pending, materialized, verified,
                 outcome, builds, faults, before>>

\* The errors of S7 are put into the state when it has gone through every file.
MaterializeEnds ==
  /\ stage = "S7"
  /\ pending = {}
  /\ IF errors THEN Refused("S7") ELSE stage' = "S8" /\ UNCHANGED <<errors, failedAt>>
  /\ UNCHANGED <<source, diskVars, evidenceRoot, input, pending, materialized, verified,
                 outcome, builds, faults, before>>

\* Mutant of OutputIntact: artifacts are looked for, not read back (no check 2).
OutputPresent ==
  /\ materialized # {}
  /\ \A f \in materialized : root[f] # None
  /\ \A f \in LayerFile : root[f] # None => f \in materialized
  /\ root["evidence_graph"] # Corrupt

\* Checks 1, 2, 3 and 7 of S8, over the files S7 says it wrote: every one exists, canonical
\* artifacts read back as projected, nothing else lies under layer_outputs, and the evidence
\* graph's hash is that of its own content.
OutputIntact ==
  /\ materialized # {}
  /\ \A f \in materialized : root[f] # None
  /\ \A f \in materialized \intersect Artifact : root[f] = input
  /\ \A f \in LayerFile : root[f] # None => f \in materialized
  /\ root["evidence_graph"] # Corrupt

\* The other checks of S8 read the projections in memory and may refuse on their own.
Verify ==
  /\ stage = "S8"
  /\ \/ /\ OutputIntact
        /\ stage' = "S9"
        /\ verified' = TRUE
        /\ UNCHANGED <<errors, failedAt>>
     \/ Refused("S8") /\ UNCHANGED verified
  /\ UNCHANGED <<source, diskVars, evidenceRoot, input, pending, materialized,
                 outcome, builds, faults, before>>

\* Mutant of Attest: what is attested is the tree as it stands when S9 runs.
AttestTree ==
  /\ stage = "S9"
  /\ verified
  /\ attestation' = source
  /\ stage' = "admitting"
  /\ UNCHANGED <<source, root, record, evidenceRoot, stateVars, outcome, builds, faults, before>>

\* The attestation binds the hash of the tokenized projection the state holds.
Attest ==
  /\ stage = "S9"
  /\ verified
  /\ attestation' = input
  /\ stage' = "admitting"
  /\ UNCHANGED <<source, root, record, evidenceRoot, stateVars, outcome, builds, faults, before>>

\* Mutant of AttestRefuses: the refusal comes after the attestation was written.
AttestWritesAndRefuses ==
  /\ stage = "S9"
  /\ Refused("S9")
  /\ attestation' = input
  /\ UNCHANGED <<source, root, record, evidenceRoot, input, pending, materialized, verified,
                 outcome, builds, faults, before>>

\* S9 without a verified state, or unable to write, refuses; the old attestation stays.
AttestRefuses ==
  /\ stage = "S9"
  /\ Refused("S9")
  /\ UNCHANGED <<source, diskVars, evidenceRoot, input, pending, materialized, verified,
                 outcome, builds, faults, before>>

\* Mutants of Determination: a refusal always claims that nothing proceeded; the record names
\* the tree as it stands; it names the step of the driver instead of the stage that failed.
DeterminationUnconditional(consequence) ==
  [build |-> builds, version |-> input, failedAt |-> failedAt,
   nothingProceeded |-> consequence = "REFUSED"]

DeterminationOfTree(consequence) ==
  [build |-> builds, version |-> source, failedAt |-> failedAt,
   nothingProceeded |-> consequence = "REFUSED" /\ materialized = {}]

DeterminationOfDriver(consequence) ==
  [build |-> builds, version |-> input, failedAt |-> stage,
   nothingProceeded |-> consequence = "REFUSED" /\ materialized = {}]

\* determination.write: one file per structure and consequence, overwritten each time, and
\* nothing at all when PGC_SNAPSHOT_ROOT is not set or the file cannot be written.
Determination(consequence) ==
  [build |-> builds, version |-> input, failedAt |-> failedAt,
   nothingProceeded |-> consequence = "REFUSED" /\ materialized = {}]

RecordWritten(consequence) ==
  /\ evidenceRoot
  /\ record' = [record EXCEPT ![consequence] = Determination(consequence)]

Determine(consequence, how) ==
  /\ \/ RecordWritten(consequence)
     \/ UNCHANGED record
  /\ stage' = "idle"
  /\ outcome' = how
  /\ UNCHANGED <<source, root, attestation, evidenceRoot, stateVars, builds, faults, before>>

RecordRefusal   == stage = "refusing"  /\ Determine("REFUSED", "refused")
RecordAdmission == stage = "admitting" /\ Determine("ADMITTED", "admitted")

------------------------------------------------------------------------------
(* The environment. *)

Edit(v) ==
  /\ v # source
  /\ source' = v
  /\ UNCHANGED <<diskVars, evidenceRoot, stage, stateVars, outcome, builds, faults, before>>

\* A file of the output root is removed from outside.  Nothing in the code locks the root:
\* that nobody removes one between S8's look and the end of the build is an assumption.
Remove(f) ==
  /\ stage \notin {"S9", "admitting"}
  /\ faults < MaxFaults
  /\ root[f] # None
  /\ root' = [root EXCEPT ![f] = None]
  /\ faults' = faults + 1
  /\ UNCHANGED <<source, attestation, record, evidenceRoot, stage, stateVars, outcome, builds,
                 before>>

Crash ==
  /\ stage # "idle"
  /\ stage' = "idle"
  /\ outcome' = "crashed"
  /\ UNCHANGED <<source, diskVars, evidenceRoot, stateVars, builds, faults, before>>

\* What a stage that comes to its end does.
Completes ==
  \/ PureStagePasses
  \/ PureStageRefuses
  \/ \E f \in File : WriteFile(f) \/ WriteFails(f) \/ WriteWrong(f)
  \/ \E files \in Directory : DirectoryFails(files)
  \/ MetadataPassedOver
  \/ MaterializeEnds
  \/ Verify
  \/ Attest
  \/ AttestRefuses
  \/ RecordRefusal
  \/ RecordAdmission

Step == Completes \/ StageRaises

Next ==
  \/ Start
  \/ Step
  \/ \E v \in Version : Edit(v)
  \/ \E f \in File : Remove(f)
  \/ Crash

Spec == Init /\ [][Next]_vars

\* The compiler is one sequential process: a stage that can complete does so, unless it raises
\* first.  Nothing is assumed of exceptions, of the author, of the disk or of crashes: none of
\* them is counted on to end a build.
FairSpec == Spec /\ WF_vars(Completes)
------------------------------------------------------------------------------
(* Properties. *)

\* The root holds version v, but for what a faulty write put down in its place, and nothing else
\* under layer_outputs.
Whole(v) ==
  /\ \A f \in Plan(v) : root[f] \in {v, Corrupt}
  /\ \A f \in LayerFile \ Plan(v) : root[f] = None

Sealing == stage \in {"S9", "admitting"} /\ verified

\* When S9 attests (s9_attest.py 57-66 relies on S8 alone), every file of the build is on disk as
\* the build wrote it and no file of an earlier version is left under layer_outputs, whatever
\* failed, was removed or died before.  Needs the error stop of S7 as much as the checks of S8: S8
\* only looks at the files S7 says it wrote.
VerifiedIsWhole == Sealing => Whole(input)

\* With writes that put down something else than was projected, what S8 does catch: canonical
\* artifacts (check 2 reads them back) and the evidence graph (check 7 recomputes its hash).
VerifiedArtifactsAsProjected ==
  Sealing => /\ \A f \in Declares[input] \intersect Artifact : root[f] = input
             /\ root["evidence_graph"] # Corrupt
             /\ \A f \in Plan(input) : root[f] # None

\* No file was written since the build started (one may have been removed from outside).
Untouched == \A f \in File : root[f] \in {before.root[f], None}

\* A refusal recorded as "nothing_proceeded" (determination.py 132) is one after which the
\* output root holds what it held before the build and the attestation is the one before it.
RefusalRecordTruthful ==
  [][record'["REFUSED"] # record["REFUSED"] /\ record'["REFUSED"].nothingProceeded
       => Untouched /\ attestation = before.attestation]_vars

\* An admission is recorded only for the version the attestation names and the root holds
\* (cli.py 315: the record follows S9), never for one read after the build began.
AdmissionRecordTruthful ==
  [][record'["ADMITTED"] # record["ADMITTED"]
       => /\ attestation = record'["ADMITTED"].version
          /\ Whole(attestation)]_vars

\* A build that ends in any other way than admitted leaves the attestation it found, unless it
\* died between S9's write and the admission.
LosesNoAttestation ==
  [][stage # "idle" /\ stage' = "idle" /\ outcome' # "admitted" /\ stage # "admitting"
       => attestation' = before.attestation]_vars

\* Every build that is started ends: no stage waits for anything (cli.py 276-297).
EveryBuildEnds == stage # "idle" ~> stage = "idle"

\* The attestation is the standing system of AdmissionLedger: it only ever changes to the
\* version the running build read, and a refused, failed or dead build leaves it alone.
Ledger == INSTANCE AdmissionLedger WITH
  Proposal <- Version, Nothing <- None,
  standing <- attestation, considering <- (stage # "idle"), proposal <- input
ImplementsLedger == Ledger!LedgerSpec

------------------------------------------------------------------------------
(* What documents and docstrings of the repository say, and the code does not do. *)

\* "A failed compile writes nothing" (ARCHITECTURE.md 175).
NoPartialOutput == stage = "refusing" => Untouched

\* "No undeclared files in output directories (strict mode)" (s8_verify.py 10).
NoUndeclaredFile == Sealing => \A f \in File \ Plan(input) : root[f] = None
==============================================================================
