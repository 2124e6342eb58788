----------------------------- MODULE BuildProofs -----------------------------
(***************************************************************************)
(* Proofs about Build for every set of versions, files, declarations and   *)
(* bounds.  The one inductive invariant is IInv: what the build has in its *)
(* state accounts for what it has put on disk.  At the end: why a build    *)
(* that is not disturbed comes to its own.                                 *)
(***************************************************************************)
EXTENDS Build, Recursion

Running == stage # "idle"

\* S1 finds no version in the state; from S2 on the state holds the version S1 read.
InputRead ==
  /\ stage = "S1" => input = None
  /\ stage \in {"S2", "S3", "S4", "S5", "S6", "S7", "S8", "S9", "admitting"} => input \in Version

\* Nothing is written, found wrong or verified before S7.
PureUntilS7 ==
  stage \in PureStage => materialized = {} /\ ~errors /\ ~verified

\* S7 goes through the plan, and forgets a file only by keeping an error.
PlanAccounted ==
  /\ stage = "S7" =>
       /\ materialized \union pending \subseteq Plan(input)
       /\ ~errors => materialized \union pending = Plan(input)
  /\ stage \in {"S8", "S9", "admitting"} => ~errors /\ materialized = Plan(input)

\* A file is either one this build wrote or one it found; either may be gone.
RootAccounted ==
  Running => \A f \in File :
    /\ f \in materialized => root[f] \in {input, None, Corrupt}
    /\ f \notin materialized => root[f] \in {before.root[f], None}

\* The attestation is the one the build found until S9 writes its own.
AttestationAccounted ==
  /\ Running /\ stage # "admitting" => attestation = before.attestation
  /\ stage = "admitting" => attestation = input /\ verified

\* What S8 looked at stays as it was until the build ends.
SealStands == stage \in {"S9", "admitting"} => OutputIntact

IInv ==
  /\ TypeOK
  /\ InputRead
  /\ PureUntilS7
  /\ PlanAccounted
  /\ RootAccounted
  /\ AttestationAccounted
  /\ SealStands
------------------------------------------------------------------------------
\* The views are files of a build, the evidence graph among them.
LEMMA ViewFiles == "evidence_graph" \in View /\ View \subseteq File
<1>1. ViewOrder[11] = "evidence_graph"
  BY DEF ViewOrder
<1>2. QED
  BY <1>1, BuildAssumption DEF View, File

\* A plan writes files and nothing else.
LEMMA PlanIsFiles == \A v \in Version : Plan(v) \in SUBSET File
BY BuildAssumption DEF Plan, File

\* Every variable keeps its type whatever the disk, the author and the process do.
LEMMA TypeStep == TypeOK /\ InputRead /\ [Next]_vars => TypeOK'
<1> SUFFICES ASSUME TypeOK, InputRead, [Next]_vars
             PROVE  TypeOK'
  OBVIOUS
<1> USE DEF TypeOK
<1> USE DEF diskVars, stateVars
<1>1. CASE Start
  <2>1. before' \in [root : [File -> Version \union {None, Corrupt}],
                      attestation : Version \union {None}]
    BY <1>1, Zenon DEF Start
  <2>2. evidenceRoot' \in BOOLEAN
    BY <1>1, BuildAssumption DEF Start
  <2>3. stage' \in Stage \union {"idle", "refusing", "admitting"} /\ builds' \in Nat
    BY <1>1 DEF Start, Stage, PureStage
  <2>4. input' \in Version \union {None} /\ failedAt' \in Stage \union {"none"}
    BY <1>1 DEF Start
  <2>5. QED
    BY <1>1, <2>1, <2>2, <2>3, <2>4, Zenon DEF Start
<1>2. CASE PureStagePasses
  <2>1. pending' \in SUBSET File
    BY <1>2, PlanIsFiles DEF PureStagePasses, InputRead
  <2>2. QED
    BY <1>2, <2>1 DEF PureStagePasses, Stage, PureStage, After
<1>3. CASE PureStageRefuses
  BY <1>3 DEF PureStageRefuses, Refused, MayRefuse, Stage, PureStage
<1>4. CASE StageRaises
  BY <1>4 DEF StageRaises
<1>5. ASSUME NEW f \in File, WriteFile(f)
      PROVE  TypeOK'
  BY <1>5 DEF WriteFile
<1>6. ASSUME NEW f \in File, WriteFails(f)
      PROVE  TypeOK'
  BY <1>6 DEF WriteFails
<1>7. ASSUME NEW f \in File, WriteWrong(f)
      PROVE  TypeOK'
  BY <1>7 DEF WriteWrong
<1>8. CASE MaterializeEnds
  BY <1>8 DEF MaterializeEnds, Refused, Stage
<1>9. CASE Verify
  BY <1>9 DEF Verify, Refused, Stage
<1>10. CASE Attest
  BY <1>10 DEF Attest
<1>11. CASE AttestRefuses
  BY <1>11 DEF AttestRefuses, Refused, Stage
<1>12. ASSUME NEW c \in Consequence, NEW how \in {"refused", "admitted"}, Determine(c, how)
       PROVE  TypeOK'
  <2>1. Determination(c) \in Record
    BY DEF Determination, Record, Stage
  <2>2. record' \in [Consequence -> Record]
    BY <1>12, <2>1 DEF Determine, RecordWritten
  <2>3. QED
    BY <1>12, <2>2 DEF Determine
<1>13. CASE RecordRefusal \/ RecordAdmission
  BY <1>12, <1>13 DEF RecordRefusal, RecordAdmission, Consequence
<1>14. ASSUME NEW v \in Version, Edit(v)
       PROVE  TypeOK'
  BY <1>14 DEF Edit
<1>15. ASSUME NEW f \in File, Remove(f)
       PROVE  TypeOK'
  BY <1>15 DEF Remove
<1>16. CASE Crash
  BY <1>16 DEF Crash
<1>17. CASE UNCHANGED vars
  BY <1>17 DEF vars
<1>18. ASSUME NEW files \in Directory, DirectoryFails(files)
       PROVE  TypeOK'
  BY <1>18 DEF DirectoryFails
<1>19. CASE MetadataPassedOver
  BY <1>19 DEF MetadataPassedOver
<1>20. QED
  BY <1>1, <1>2, <1>3, <1>4, <1>5, <1>6, <1>7, <1>8, <1>9, <1>10, <1>11, <1>13, <1>14,
     <1>15, <1>16, <1>17, <1>18, <1>19 DEF Next, Step, Completes

\* What is read once stays read.
LEMMA InputStep == TypeOK /\ InputRead /\ [Next]_vars => InputRead'
<1> SUFFICES ASSUME TypeOK, InputRead, [Next]_vars
             PROVE  InputRead'
  OBVIOUS
<1> USE DEF InputRead, diskVars, stateVars
<1>1. CASE PureStagePasses
  BY <1>1 DEF PureStagePasses, PureStage, After, TypeOK
<1>2. CASE Verify
  BY <1>2 DEF Verify, Refused
<1>3. CASE MaterializeEnds
  BY <1>3 DEF MaterializeEnds, Refused
<1>4. ASSUME NEW f \in File, WriteFile(f) \/ WriteFails(f) \/ WriteWrong(f) \/ Remove(f)
      PROVE  InputRead'
  BY <1>4 DEF WriteFile, WriteFails, WriteWrong, Remove
<1>5. CASE Start \/ PureStageRefuses \/ StageRaises \/ Crash
  BY <1>5 DEF Start, PureStageRefuses, Refused, StageRaises, Crash
<1>6. CASE Attest \/ AttestRefuses
  BY <1>6 DEF Attest, AttestRefuses, Refused
<1>7. CASE RecordRefusal \/ RecordAdmission
  BY <1>7 DEF RecordRefusal, RecordAdmission, Determine
<1>8. ASSUME NEW v \in Version, Edit(v)
      PROVE  InputRead'
  BY <1>8 DEF Edit
<1>9. CASE UNCHANGED vars
  BY <1>9 DEF vars
<1>10. ASSUME NEW files \in Directory, DirectoryFails(files)
       PROVE  InputRead'
  BY <1>10 DEF DirectoryFails
<1>11. CASE MetadataPassedOver
  BY <1>11 DEF MetadataPassedOver
<1>12. QED
  BY <1>1, <1>2, <1>3, <1>4, <1>5, <1>6, <1>7, <1>8, <1>9, <1>10, <1>11
     DEF Next, Step, Completes

\* Types hold before anything has run.
LEMMA InitTypeOK == Init => TypeOK
<1> SUFFICES ASSUME Init
             PROVE  TypeOK
  OBVIOUS
<1>1. root \in [File -> Version \union {None, Corrupt}]
  BY DEF Init
<1>2. before \in [root : [File -> Version \union {None, Corrupt}],
                  attestation : Version \union {None}]
  BY <1>1, Zenon DEF Init
<1>3. NoRecord \in Record
  BY DEF NoRecord, Record
<1>4. record \in [Consequence -> Record]
  BY <1>3 DEF Init
<1>5. evidenceRoot \in BOOLEAN
  BY BuildAssumption DEF Init
<1>6. QED
  BY <1>1, <1>2, <1>4, <1>5 DEF Init, TypeOK

\* The type invariant, for every instance.
THEOREM BuildTypeOK == Spec => []TypeOK
<1>1. Init => TypeOK /\ InputRead
  BY InitTypeOK DEF Init, InputRead
<1>2. (TypeOK /\ InputRead) /\ [Next]_vars => (TypeOK /\ InputRead)'
  BY TypeStep, InputStep
<1>3. QED
  BY <1>1, <1>2, PTL DEF Spec
------------------------------------------------------------------------------
(* The actions that only move the stage, for the parts of IInv that do not depend on them. *)

\* A step that leaves the disk and the files of the state alone keeps RootAccounted, unless it
\* starts a build.
LEMMA RootKept ==
  ASSUME RootAccounted, UNCHANGED <<root, before, materialized>>,
         Running' => Running, Running' => input' = input \/ materialized = {}
  PROVE  RootAccounted'
BY DEF RootAccounted, Running

\* Every step accounts for what lies under the output root.
LEMMA RootStep == IInv /\ [Next]_vars => RootAccounted'
<1> SUFFICES ASSUME IInv, [Next]_vars
             PROVE  RootAccounted'
  OBVIOUS
<1> USE DEF IInv, Running, diskVars, stateVars
<1>1. CASE Start
  BY <1>1 DEF Start, RootAccounted
<1>2. CASE PureStagePasses \/ PureStageRefuses
  <2>1. materialized = {} /\ materialized' = {}
    BY <1>2 DEF PureUntilS7, PureStagePasses, PureStageRefuses, MayRefuse
  <2>2. UNCHANGED <<root, before>> /\ Running
    BY <1>2 DEF PureStagePasses, PureStageRefuses, MayRefuse, PureStage
  <2>3. QED
    BY <2>1, <2>2, RootKept
<1>3. CASE StageRaises \/ Crash \/ RecordRefusal \/ RecordAdmission
  BY <1>3 DEF StageRaises, Crash, RecordRefusal, RecordAdmission, Determine, RootAccounted
<1>4. ASSUME NEW f \in File, WriteFile(f)
      PROVE  RootAccounted'
  <2> SUFFICES ASSUME NEW g \in File
               PROVE  /\ g \in materialized' => root'[g] \in {input', None, Corrupt}
                      /\ g \notin materialized' => root'[g] \in {before'.root[g], None}
    BY DEF RootAccounted
  <2>1. CASE g = f
    BY <1>4, <2>1 DEF WriteFile, TypeOK
  <2>2. CASE g # f
    BY <1>4, <2>2 DEF WriteFile, TypeOK, RootAccounted
  <2>3. QED
    BY <2>1, <2>2
<1>5. ASSUME NEW f \in File, WriteFails(f)
      PROVE  RootAccounted'
  BY <1>5, RootKept DEF WriteFails
<1>6. ASSUME NEW f \in File, WriteWrong(f)
      PROVE  RootAccounted'
  <2> SUFFICES ASSUME NEW g \in File
               PROVE  /\ g \in materialized' => root'[g] \in {input', None, Corrupt}
                      /\ g \notin materialized' => root'[g] \in {before'.root[g], None}
    BY DEF RootAccounted
  <2>1. CASE g = f
    BY <1>6, <2>1 DEF WriteWrong, TypeOK
  <2>2. CASE g # f
    BY <1>6, <2>2 DEF WriteWrong, TypeOK, RootAccounted
  <2>3. QED
    BY <2>1, <2>2
<1>7. CASE MaterializeEnds \/ Verify \/ Attest \/ AttestRefuses
  BY <1>7, RootKept DEF MaterializeEnds, Verify, Attest, AttestRefuses
<1>8. ASSUME NEW f \in File, Remove(f)
      PROVE  RootAccounted'
  <2>1. \A g \in File : root'[g] = IF g = f THEN None ELSE root[g]
    BY <1>8 DEF Remove, TypeOK
  <2>2. UNCHANGED <<stage, input, materialized, before>>
    BY <1>8 DEF Remove
  <2>3. QED
    BY <2>1, <2>2 DEF RootAccounted
<1>9. ASSUME NEW v \in Version, Edit(v)
      PROVE  RootAccounted'
  BY <1>9, RootKept DEF Edit
<1>10. CASE UNCHANGED vars
  BY <1>10, RootKept DEF vars
<1>11. ASSUME NEW files \in Directory, DirectoryFails(files)
       PROVE  RootAccounted'
  BY <1>11, RootKept DEF DirectoryFails
<1>12. CASE MetadataPassedOver
  BY <1>12, RootKept DEF MetadataPassedOver
<1>13. QED
  BY <1>1, <1>2, <1>3, <1>4, <1>5, <1>6, <1>7, <1>8, <1>9, <1>10, <1>11, <1>12
     DEF Next, Step, Completes

\* The plan, the attestation and the seal.
LEMMA BookkeepingStep ==
  IInv /\ [Next]_vars =>
    /\ PureUntilS7'
    /\ PlanAccounted'
    /\ AttestationAccounted'
    /\ SealStands'
<1> SUFFICES ASSUME IInv, [Next]_vars
             PROVE  /\ PureUntilS7'
                    /\ PlanAccounted'
                    /\ AttestationAccounted'
                    /\ SealStands'
  OBVIOUS
<1> USE DEF IInv, PureUntilS7, PlanAccounted, AttestationAccounted, SealStands, Running,
            diskVars, stateVars
<1>1. CASE Start
  BY <1>1 DEF Start
<1>2. CASE PureStagePasses
  BY <1>2 DEF PureStagePasses, PureStage, After
<1>3. CASE PureStageRefuses
  BY <1>3 DEF PureStageRefuses, Refused, MayRefuse, PureStage
<1>4. CASE StageRaises \/ Crash
  BY <1>4 DEF StageRaises, Crash, PureStage
<1>5. ASSUME NEW f \in File, WriteFile(f) \/ WriteFails(f) \/ WriteWrong(f)
      PROVE  /\ PureUntilS7'
             /\ PlanAccounted'
             /\ AttestationAccounted'
             /\ SealStands'
  <2>1. /\ UNCHANGED <<stage, input, attestation, before, verified>>
        /\ stage = "S7"
        /\ f \in pending
        /\ pending' = pending \ {f}
        /\ \/ materialized' = materialized \union {f} /\ errors' = errors
           \/ materialized' = materialized /\ errors'
    BY <1>5 DEF WriteFile, WriteFails, WriteWrong, Turn
  <2>2. QED
    BY <2>1 DEF PureStage
<1>6. CASE MaterializeEnds
  BY <1>6 DEF MaterializeEnds, Refused, PureStage
<1>7. CASE Verify
  BY <1>7 DEF Verify, Refused, PureStage, OutputIntact
<1>8. CASE Attest \/ AttestRefuses
  BY <1>8 DEF Attest, AttestRefuses, Refused, PureStage, OutputIntact
<1>9. CASE RecordRefusal \/ RecordAdmission
  BY <1>9 DEF RecordRefusal, RecordAdmission, Determine, PureStage
<1>10. ASSUME NEW v \in Version, Edit(v)
       PROVE  /\ PureUntilS7'
              /\ PlanAccounted'
              /\ AttestationAccounted'
              /\ SealStands'
  BY <1>10 DEF Edit, OutputIntact
<1>11. ASSUME NEW f \in File, Remove(f)
       PROVE  /\ PureUntilS7'
              /\ PlanAccounted'
              /\ AttestationAccounted'
              /\ SealStands'
  BY <1>11 DEF Remove
<1>12. CASE UNCHANGED vars
  BY <1>12 DEF vars, OutputIntact
<1>13. ASSUME NEW files \in Directory, DirectoryFails(files)
       PROVE  /\ PureUntilS7'
              /\ PlanAccounted'
              /\ AttestationAccounted'
              /\ SealStands'
  BY <1>13 DEF DirectoryFails, PureStage
<1>14. CASE MetadataPassedOver
  <2>1. errors
    <3>1. input \in Version /\ Declares[input] \subseteq Artifact \union Case
      BY <1>14, BuildAssumption DEF MetadataPassedOver, InputRead
    <3>2. Declares[input] # {} /\ Declares[input] \intersect (materialized \union pending) = {}
      BY <1>14, <3>1, BuildAssumption DEF MetadataPassedOver
    <3>3. QED
      BY <1>14, <3>2 DEF MetadataPassedOver, Plan
  <2>2. QED
    BY <1>14, <2>1 DEF MetadataPassedOver, PureStage
<1>15. QED
  BY <1>1, <1>2, <1>3, <1>4, <1>5, <1>6, <1>7, <1>8, <1>9, <1>10, <1>11, <1>12, <1>13, <1>14
     DEF Next, Step, Completes

\* What the build has in its state accounts for what it put on disk.
THEOREM BuildInvariant == Spec => []IInv
<1>1. Init => IInv
  BY InitTypeOK DEF Init, IInv, InputRead, PureUntilS7, PlanAccounted, RootAccounted,
     AttestationAccounted, SealStands, Running, PureStage
<1>2. IInv /\ [Next]_vars => IInv'
  BY TypeStep, InputStep, RootStep, BookkeepingStep DEF IInv
<1>3. QED
  BY <1>1, <1>2, PTL DEF Spec
------------------------------------------------------------------------------
(* The properties. *)

\* S8 catches what it reads back, whatever file a faulty write put down wrongly.
THEOREM ArtifactsAsProjected == Spec => []VerifiedArtifactsAsProjected
<1>1. IInv => VerifiedArtifactsAsProjected
  BY DEF IInv, SealStands, PlanAccounted, OutputIntact, Sealing, VerifiedArtifactsAsProjected,
         Plan
<1>2. QED
  BY <1>1, BuildInvariant, PTL

\* S9 attests exactly the version on disk, as the writes of its build put it there.
THEOREM AttestedIsWhole == Spec => []VerifiedIsWhole
<1>1. IInv => VerifiedIsWhole
  <2> SUFFICES ASSUME IInv, Sealing
               PROVE  Whole(input)
    BY DEF VerifiedIsWhole
  <2>1. materialized = Plan(input) /\ OutputIntact /\ Running /\ input \in Version
    BY DEF IInv, PlanAccounted, SealStands, Sealing, Running, InputRead
  <2>2. \A f \in Plan(input) : f \in File
    BY <2>1, PlanIsFiles
  <2>3. ASSUME NEW f \in Plan(input)
        PROVE  root[f] \in {input, Corrupt}
    BY <2>1, <2>2, <2>3 DEF IInv, RootAccounted, OutputIntact
  <2>4. ASSUME NEW f \in LayerFile \ Plan(input)
        PROVE  root[f] = None
    BY <2>1, <2>4 DEF OutputIntact
  <2>5. QED
    BY <2>3, <2>4 DEF Whole
<1>2. QED
  BY <1>1, BuildInvariant, PTL

\* The steps that write a determination record.
LEMMA WhoRecords ==
  ASSUME TypeOK, [Next]_vars
  PROVE  /\ record'["REFUSED"] # record["REFUSED"]
              => stage = "refusing" /\ record'["REFUSED"] = Determination("REFUSED")
         /\ record'["ADMITTED"] # record["ADMITTED"]
              => /\ stage = "admitting" /\ record'["ADMITTED"] = Determination("ADMITTED")
                 /\ UNCHANGED <<root, attestation>>
<1> USE DEF diskVars, stateVars
<1>1. CASE RecordRefusal
  BY <1>1 DEF RecordRefusal, Determine, RecordWritten, TypeOK, Consequence
<1>2. CASE RecordAdmission
  BY <1>2 DEF RecordAdmission, Determine, RecordWritten, TypeOK, Consequence
<1>3. CASE UNCHANGED record
  BY <1>3
<1>4. CASE ~(RecordRefusal \/ RecordAdmission)
  <2>1. UNCHANGED record
    BY <1>4 DEF Next, Step, Completes, vars, Start, PureStagePasses, PureStageRefuses, StageRaises,
         WriteFile, WriteFails, DirectoryFails, MetadataPassedOver, WriteWrong, MaterializeEnds,
         Verify, Attest, AttestRefuses, Edit, Remove, Crash
  <2>2. QED
    BY <2>1
<1>5. QED
  BY <1>1, <1>2, <1>4

\* "nothing_proceeded" is never claimed of a build that wrote a file.
THEOREM RefusalsAreTruthful == Spec => RefusalRecordTruthful
<1>1. ASSUME IInv, [Next]_vars,
             record'["REFUSED"] # record["REFUSED"], record'["REFUSED"].nothingProceeded
      PROVE  Untouched /\ attestation = before.attestation
  <2>1. stage = "refusing" /\ Determination("REFUSED").nothingProceeded
    BY <1>1, WhoRecords DEF IInv
  <2>2. materialized = {}
    BY <2>1, Zenon DEF Determination
  <2>3. QED
    BY <1>1, <2>1, <2>2 DEF IInv, RootAccounted, AttestationAccounted, Running, Untouched
<1>2. IInv /\ [Next]_vars
        => [record'["REFUSED"] # record["REFUSED"] /\ record'["REFUSED"].nothingProceeded
              => Untouched /\ attestation = before.attestation]_vars
  BY <1>1
<1>3. QED
  BY <1>2, BuildInvariant, PTL DEF Spec, RefusalRecordTruthful

\* An admission is recorded for the version that is attested and on disk.
THEOREM AdmissionsAreTruthful == Spec => AdmissionRecordTruthful
<1>1. ASSUME IInv, VerifiedIsWhole, [Next]_vars, record'["ADMITTED"] # record["ADMITTED"]
      PROVE  attestation = record'["ADMITTED"].version /\ Whole(attestation)
  <2>1. stage = "admitting" /\ record'["ADMITTED"].version = input
    BY <1>1, WhoRecords DEF IInv, Determination
  <2>2. attestation = input /\ Sealing
    BY <1>1, <2>1 DEF IInv, AttestationAccounted, Sealing
  <2>3. QED
    BY <1>1, <2>1, <2>2 DEF VerifiedIsWhole
<1>2. IInv /\ VerifiedIsWhole /\ [Next]_vars
        => [record'["ADMITTED"] # record["ADMITTED"]
              => attestation = record'["ADMITTED"].version /\ Whole(attestation)]_vars
  BY <1>1
<1>3. QED
  BY <1>2, BuildInvariant, AttestedIsWhole, PTL DEF Spec, AdmissionRecordTruthful

\* Refused, raised and dead builds leave the attestation they found.
THEOREM AttestationsAreKept == Spec => LosesNoAttestation
<1>1. ASSUME IInv, [Next]_vars,
             stage # "idle", stage' = "idle", outcome' # "admitted", stage # "admitting"
      PROVE  attestation' = before.attestation
  <2>1. attestation = before.attestation
    BY <1>1 DEF IInv, AttestationAccounted, Running
  <2>2. attestation' = attestation
    BY <1>1 DEF Next, Step, Completes, vars, diskVars, Start, PureStagePasses, PureStageRefuses, Refused,
       StageRaises, WriteFile, WriteFails, DirectoryFails, MetadataPassedOver, WriteWrong,
       MaterializeEnds, Verify, Attest, AttestRefuses, RecordRefusal, RecordAdmission, Determine, Edit, Remove, Crash
  <2>3. QED
    BY <2>1, <2>2
<1>2. IInv /\ [Next]_vars
        => [stage # "idle" /\ stage' = "idle" /\ outcome' # "admitted" /\ stage # "admitting"
              => attestation' = before.attestation]_vars
  BY <1>1
<1>3. QED
  BY <1>2, BuildInvariant, PTL DEF Spec, LosesNoAttestation

\* The attestation is an admission ledger: refused, failed and dead builds do not move it.
THEOREM Refinement == Spec => ImplementsLedger
<1>1. Init => Ledger!LedgerInit
  BY DEF Init, Ledger!LedgerInit
<1>2. IInv /\ [Next]_vars => [Ledger!LedgerNext]_(Ledger!ledgerVars)
  <2> SUFFICES ASSUME IInv, [Next]_vars
               PROVE  [Ledger!LedgerNext]_(Ledger!ledgerVars)
    OBVIOUS
  <2> USE DEF Ledger!LedgerNext, Ledger!ledgerVars, diskVars, stateVars
  <2>1. CASE Start
    BY <2>1 DEF Start, Ledger!Open
  <2>2. CASE (PureStagePasses \/ PureStageRefuses) /\ stage = "S1"
    <3>1. input' \in Version /\ UNCHANGED attestation /\ stage' # "idle" /\ input = None
      BY <2>2 DEF PureStagePasses, PureStageRefuses, Refused, After, IInv, TypeOK, InputRead
    <3>2. Ledger!Read(input')
      BY <2>2, <3>1 DEF Ledger!Read
    <3>3. QED
      BY <3>1, <3>2
  <2>3. CASE (PureStagePasses \/ PureStageRefuses) /\ stage # "S1"
    BY <2>3 DEF PureStagePasses, PureStageRefuses, Refused, MayRefuse, PureStage, After
  <2>4. CASE StageRaises \/ Crash \/ RecordRefusal \/ RecordAdmission
    BY <2>4 DEF StageRaises, Crash, RecordRefusal, RecordAdmission, Determine, Ledger!Close,
       MayRaise, PureStage
  <2>5. CASE Attest
    BY <2>5, BuildAssumption DEF Attest, Ledger!Admit, IInv, InputRead
  <2>6. CASE MaterializeEnds \/ Verify \/ AttestRefuses
    BY <2>6 DEF MaterializeEnds, Verify, AttestRefuses, Refused
  <2>7. ASSUME NEW f \in File, WriteFile(f) \/ WriteFails(f) \/ WriteWrong(f) \/ Remove(f)
        PROVE  UNCHANGED Ledger!ledgerVars
    BY <2>7 DEF WriteFile, WriteFails, WriteWrong, Remove
  <2>8. ASSUME NEW v \in Version, Edit(v)
        PROVE  UNCHANGED Ledger!ledgerVars
    BY <2>8 DEF Edit
  <2>9. CASE UNCHANGED vars
    BY <2>9 DEF vars
  <2>10. ASSUME NEW files \in Directory, DirectoryFails(files)
         PROVE  UNCHANGED Ledger!ledgerVars
    BY <2>10 DEF DirectoryFails
  <2>11. CASE MetadataPassedOver
    BY <2>11 DEF MetadataPassedOver
  <2>12. QED
    BY <2>1, <2>2, <2>3, <2>4, <2>5, <2>6, <2>7, <2>8, <2>9, <2>10, <2>11
       DEF Next, Step, Completes
<1>3. QED
  BY <1>1, <1>2, BuildInvariant, PTL DEF Spec, ImplementsLedger, Ledger!LedgerSpec
------------------------------------------------------------------------------
(* Why every build ends.  That each stage, in the end, does something is    *)
(* fairness and left to TLC; that something can be done at every stage and  *)
(* that it cannot be done for ever is not.                                  *)

\* The stages a build has before it, the one it is at included.
StagesLeft ==
  [S1 |-> 10, S2 |-> 9, S3 |-> 8, S4 |-> 7, S5 |-> 6, S6 |-> 5, S7 |-> 4, S8 |-> 3, S9 |-> 2,
   refusing |-> 1, admitting |-> 1, idle |-> 0]

\* A build is nearer its end: fewer stages are left, or fewer files at the stage it is at.
Nearer ==
  \/ StagesLeft[stage'] < StagesLeft[stage]
  \/ /\ stage' = stage
     /\ Cardinality(pending) \in Nat
     /\ Cardinality(pending') \in Nat
     /\ Cardinality(pending') < Cardinality(pending)

\* Whatever a stage does takes its build nearer its end, and nothing takes it further away: not
\* the author, not the disk, not an exception.
BuildsRunOut ==
  [][/\ Completes => Nearer
     /\ stage # "idle" => Nearer \/ UNCHANGED <<stage, pending>>]_vars

\* Until S7 has gone through its plan there is a file whose turn it is, whatever failed before.
S7GoesOn ==
  stage = "S7" /\ pending # {} =>
    \/ \E f \in pending : Turn(f)
    \/ "metadata" \in pending /\ pending \intersect (Artifact \union Case) = {} /\ materialized = {}

\* What S7 has still to write is finite: a version declares finitely many files.
LEMMA PlanFinite == \A v \in Version : IsFiniteSet(Plan(v))
<1> SUFFICES ASSUME NEW v \in Version
             PROVE  IsFiniteSet(Plan(v))
  OBVIOUS
<1>1. IsFiniteSet(Declares[v])
  BY BuildAssumption
<1>2. IsFiniteSet(View)
  <2>1. IsFiniteSet(1 .. 11)
    <3>1. 1 \in Int /\ 11 \in Int
      OBVIOUS
    <3>2. QED
      BY ONLY <3>1, FS_Interval, Zenon
  <2>2. IsFiniteSet({ViewOrder[i] : i \in 1 .. 11})
    <3>1. DOMAIN ViewOrder = 1 .. 11
      BY DEF ViewOrder
    <3>2. QED
      BY <2>1, <3>1, FiniteImage
  <2>3. QED
    BY <2>2, FS_Subset DEF View
<1>3. QED
  BY <1>1, <1>2, FS_Union DEF Plan

\* Files taken from a finite set leave fewer.
LEMMA FewerLeft ==
  ASSUME NEW S, IsFiniteSet(S), NEW gone, gone \intersect S # {}
  PROVE  /\ Cardinality(S) \in Nat
         /\ Cardinality(S \ gone) \in Nat
         /\ Cardinality(S \ gone) < Cardinality(S)
<1>1. S \ gone \subseteq S /\ S \ gone # S
  OBVIOUS
<1>2. IsFiniteSet(S \ gone)
  BY <1>1, FS_Subset
<1>3. QED
  BY <1>1, <1>2, FS_Subset, FS_CardinalityType

\* A stage that comes to its end brings the build nearer its own.
LEMMA CompletesNears == IInv /\ Completes => Nearer
<1> SUFFICES ASSUME IInv, Completes
             PROVE  Nearer
  OBVIOUS
<1>1. stage = "S7" => IsFiniteSet(pending)
  <2> SUFFICES ASSUME stage = "S7"
               PROVE  IsFiniteSet(pending)
    OBVIOUS
  <2>1. input \in Version /\ pending \subseteq Plan(input)
    BY DEF IInv, InputRead, PlanAccounted
  <2>2. QED
    BY <2>1, PlanFinite, FS_Subset
<1>2. ASSUME NEW gone, gone \intersect pending # {}, stage = "S7", stage' = stage,
             pending' = pending \ gone
      PROVE  Nearer
  BY <1>1, <1>2, FewerLeft DEF Nearer
<1>3. CASE PureStagePasses
  BY <1>3 DEF PureStagePasses, PureStage, After, StagesLeft, Nearer
<1>4. CASE PureStageRefuses
  BY <1>4 DEF PureStageRefuses, Refused, MayRefuse, PureStage, StagesLeft, Nearer
<1>5. ASSUME NEW f \in File, WriteFile(f) \/ WriteFails(f) \/ WriteWrong(f)
      PROVE  Nearer
  <2>1. f \in pending /\ stage = "S7" /\ stage' = stage /\ pending' = pending \ {f}
    BY <1>5 DEF WriteFile, WriteFails, WriteWrong, Turn
  <2>2. QED
    BY <1>2, <2>1
<1>6. ASSUME NEW files \in Directory, DirectoryFails(files)
      PROVE  Nearer
  <2>1. files \intersect pending # {}
    BY <1>6 DEF DirectoryFails
  <2>2. QED
    BY <1>2, <1>6, <2>1 DEF DirectoryFails
<1>7. CASE MetadataPassedOver
  BY <1>2, <1>7 DEF MetadataPassedOver
<1>8. CASE MaterializeEnds \/ Verify \/ Attest \/ AttestRefuses
  BY <1>8 DEF MaterializeEnds, Verify, Attest, AttestRefuses, Refused, StagesLeft, Nearer
<1>9. CASE RecordRefusal \/ RecordAdmission
  BY <1>9 DEF RecordRefusal, RecordAdmission, Determine, StagesLeft, Nearer
<1>10. QED
  BY <1>3, <1>4, <1>5, <1>6, <1>7, <1>8, <1>9 DEF Completes

\* No build can go on for ever, whatever goes wrong around it.
THEOREM BuildsDescend == Spec => BuildsRunOut
<1>1. ASSUME IInv, [Next]_vars, Completes
      PROVE  Nearer
  BY <1>1, CompletesNears
<1>2. ASSUME IInv, [Next]_vars, stage # "idle"
      PROVE  Nearer \/ UNCHANGED <<stage, pending>>
  <2>1. CASE Completes
    BY <1>1, <1>2, <2>1
  <2>2. CASE StageRaises \/ Crash
    <3>1. StagesLeft[stage] > 0
      BY <1>2 DEF IInv, TypeOK, StagesLeft, Stage, PureStage
    <3>2. StagesLeft[stage'] = 0
      BY <2>2 DEF StageRaises, Crash, StagesLeft
    <3>3. QED
      BY <3>1, <3>2 DEF Nearer
  <2>3. CASE Start
    BY <1>2, <2>3 DEF Start
  <2>4. CASE (\E v \in Version : Edit(v)) \/ (\E f \in File : Remove(f)) \/ UNCHANGED vars
    BY <2>4 DEF Edit, Remove, vars, stateVars
  <2>5. QED
    BY <1>2, <2>1, <2>2, <2>3, <2>4 DEF Next, Step
<1>3. IInv /\ [Next]_vars
        => [/\ Completes => Nearer
            /\ stage # "idle" => Nearer \/ UNCHANGED <<stage, pending>>]_vars
  BY <1>1, <1>2
<1>4. QED
  BY <1>3, BuildInvariant, PTL DEF Spec, BuildsRunOut

\* S7 waits for nothing: the order of its files leaves none behind that another waits for.
THEOREM MaterializeGoesOn == Spec => []S7GoesOn
<1>1. ASSUME IInv, stage = "S7", pending # {}
      PROVE  \/ \E f \in pending : Turn(f)
             \/ /\ "metadata" \in pending /\ pending \intersect (Artifact \union Case) = {}
                /\ materialized = {}
  <2>1. "metadata" \in View
    <3>1. ViewOrder[1] = "metadata"
      BY DEF ViewOrder
    <3>2. QED
      BY <3>1, BuildAssumption DEF View
  <2>2. CASE pending \intersect Artifact # {}
    <3>1. PICK f \in pending : f \in Artifact
      BY <2>2
    <3>2. f \notin View
      BY <3>1, BuildAssumption
    <3>3. QED
      BY <2>1, <3>1, <3>2 DEF Turn
  <2>3. CASE pending \intersect Artifact = {} /\ pending \intersect Case # {}
    <3>1. PICK f \in pending : f \in Case
      BY <2>3
    <3>2. f \notin View
      BY <3>1, BuildAssumption
    <3>3. QED
      BY <2>1, <2>3, <3>1, <3>2 DEF Turn
  <2>4. CASE pending \intersect Artifact = {} /\ pending \intersect Case = {}
    <3> DEFINE Left == {i \in 1 .. 11 : ViewOrder[i] \in pending}
    <3>1. pending \subseteq File
      BY <1>1 DEF IInv, TypeOK
    <3>2. Left # {} /\ Left \subseteq Nat
      BY <1>1, <2>4, <3>1 DEF File, View
    <3>3. PICK i \in Left : \A j \in Left : i <= j
      BY <3>2, LeastElement
    <3>4. ViewOrder[i] \in pending /\ \A j \in 1 .. 11 : j < i => ViewOrder[j] \notin pending
      BY <3>3
    <3>5. \A k, j \in 1 .. 11 : ViewOrder[k] = ViewOrder[i] /\ j < k => ViewOrder[j] \notin pending
      <4>1. \A k \in 1 .. 11 : ViewOrder[k] = ViewOrder[i] => k = i
        BY <3>3 DEF ViewOrder
      <4>2. QED
        BY <3>4, <4>1
    <3>6. CASE ViewOrder[i] = "metadata" /\ materialized = {}
      BY <2>4, <3>4, <3>6
    <3>7. CASE ~(ViewOrder[i] = "metadata" /\ materialized = {})
      BY <2>4, <3>4, <3>5, <3>7 DEF Turn
    <3>8. QED
      BY <3>6, <3>7
  <2>5. QED
    BY <2>2, <2>3, <2>4
<1>2. IInv => S7GoesOn
  BY <1>1 DEF S7GoesOn
<1>3. QED
  BY <1>2, BuildInvariant, PTL
==============================================================================
