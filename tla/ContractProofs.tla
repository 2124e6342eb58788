--------------------------- MODULE ContractProofs ---------------------------
(***************************************************************************)
(* Proofs about Contract for every set of transforms, capabilities and     *)
(* drafts, every depth lowering follows and every number of passes:  what  *)
(* the build has judged and sealed, stage by stage (StageAccounted).  What *)
(* a run does with it is RunProofs'.                                       *)
(***************************************************************************)
EXTENDS Contract, TransformProofs

Linked   == {"S2", "S4", "S5", "S6", "S7", Refusal["S4"], Refusal["S5"], Refusal["S7"]}
Judged   == {"S4", "S5", "S6", "S7", Refusal["S5"], Refusal["S7"]}
Formed   == {"S5", "S6", "S7", Refusal["S7"]}
Composed == {"S6", "S7", Refusal["S7"]}

\* What each stage leaves behind stands in every later one, and nothing runs before the last.
StageAccounted ==
  /\ IsDraft(draft)
  /\ stage \in Stages \union Refused
  /\ IF stage \in Linked THEN edges = Bindings /\ Referred \subseteq Node ELSE edges = {}
  /\ stage \in Judged => Conforms
  /\ stage = Refusal["S5"] => ~Lowers(lib)
  /\ sealed = [forms |-> sealed.forms, pipeline |-> sealed.pipeline, storage |-> sealed.storage,
               entrance |-> sealed.entrance]
  /\ stage \in Formed => Lowers(lib) /\ sealed.forms = Forms(lib)
  /\ stage \in Composed =>
       /\ sealed.pipeline = PipelineOf
       /\ sealed.storage = StorageOf(draft.acts)
       /\ sealed.entrance = EntranceOf(draft.entrance, draft.acts, draft.superseded)
  /\ stage = "S7" => \A c \in draft.cases : c.target \in DOMAIN lib
  /\ IF stage = "S7" THEN run.mode \in {"none", "act", "case"} ELSE run.mode = "none"

-----------------------------------------------------------------------------
(* What is declared does not change, nor what is computed from it.         *)

\* What a draft declares stays what it is as long as the draft does.
LEMMA DeclaredStands ==
  ASSUME draft' = draft
  PROVE  lib' = lib /\ pipeline' = pipeline /\ InForce' = InForce
BY DEF lib, pipeline, InForce

\* So does what it refers to.
LEMMA BindingsStand ==
  ASSUME draft' = draft
  PROVE  Bindings' = Bindings /\ Referred' = Referred /\ Node' = Node
<1>1. lib' = lib /\ pipeline' = pipeline
  BY DeclaredStands
<1>2. Node' = Node
  BY <1>1 DEF Node
<1>3. OfContract' = OfContract
  BY <1>1 DEF OfContract
<1>4. StepBindings' = StepBindings
  BY <1>1, <1>2 DEF StepBindings
<1>5. QED
  BY <1>1, <1>2, <1>3, <1>4 DEF Bindings, Referred

\* And the pipeline, as long as the edges do too.
LEMMA PipelineStands ==
  ASSUME draft' = draft, edges' = edges
  PROVE  PipelineOf' = PipelineOf
<1>1. Placed' = Placed
  BY DEF Placed, Binds
<1>2. QED
  BY <1>1, DeclaredStands DEF PipelineOf

\* And the judgement of it.
LEMMA ConformsStands ==
  ASSUME draft' = draft, edges' = edges
  PROVE  Conforms' = Conforms
<1>1. lib' = lib /\ pipeline' = pipeline /\ InForce' = InForce
  BY DeclaredStands
<1>2. NotRouted' = NotRouted /\ StepsDeclared' = StepsDeclared /\ StepIdsUnique' = StepIdsUnique
  BY <1>1 DEF NotRouted, StepsDeclared, StepIdsUnique
<1>3. OneCapability' = OneCapability /\ ReadsDeclared' = ReadsDeclared
  BY <1>1 DEF OneCapability, ReadsDeclared
<1>4. RoutingComplete' = RoutingComplete
  BY <1>1 DEF RoutingComplete, Declared
<1>5. ContractClosed' = ContractClosed
  BY <1>1 DEF ContractClosed, Exits
<1>6. OpsSupported' = OpsSupported
  BY <1>1 DEF OpsSupported
<1>7. CapabilityBound' = CapabilityBound /\ NotChained' = NotChained
  BY <1>1 DEF CapabilityBound, NotChained, Binds
<1>8. InputTyped' = InputTyped
  BY <1>1 DEF InputTyped, Given
<1>9. SurfaceDerived' = SurfaceDerived
  BY <1>1 DEF SurfaceDerived, ReachedFrom
<1>10. QED
  BY <1>1, <1>2, <1>3, <1>4, <1>5, <1>6, <1>7, <1>8, <1>9 DEF Conforms

-----------------------------------------------------------------------------
(* The stages.                                                             *)

\* Nothing has been compiled before the first stage.
LEMMA StageInit == Init => StageAccounted
<1> SUFFICES ASSUME Init PROVE StageAccounted
  OBVIOUS
<1>1. IsDraft(draft)
  BY ContractAssumption DEF Init
<1>2. stage \notin Linked
  BY DEF Init, Linked, Refusal
<1>3. QED
  BY <1>1, <1>2 DEF Init, StageAccounted, Linked, Judged, Formed, Composed, Refusal, Stages, Unsealed, NoRun

\* A step that changes only the run leaves what the stages left.
LEMMA RunKeepsStages ==
  ASSUME StageAccounted, UNCHANGED Sealed, stage = "S7", run'.mode \in {"none", "act", "case"}
  PROVE  StageAccounted'
<1>1. draft' = draft /\ stage' = stage /\ edges' = edges /\ sealed' = sealed
  BY DEF Sealed
<1>2. Bindings' = Bindings /\ Referred' = Referred /\ Node' = Node /\ PipelineOf' = PipelineOf
        /\ Conforms' = Conforms /\ lib' = lib
  BY <1>1, BindingsStand, PipelineStands, ConformsStands, DeclaredStands
<1>3. QED
  BY <1>1, <1>2 DEF StageAccounted, Linked, Judged, Formed, Composed, Refusal, Stages, Refused

\* Each stage of the build leaves what it says it leaves.
LEMMA StageBuilds ==
  ASSUME StageAccounted, Canonicalize \/ Govern \/ Construct \/ Project \/ Materialize
  PROVE  StageAccounted'
<1>1. draft' = draft /\ run' = run
  BY DEF Canonicalize, Govern, Construct, Project, Materialize, RefusedAt
<1>2. Bindings' = Bindings /\ Referred' = Referred /\ Node' = Node /\ lib' = lib
  BY <1>1, BindingsStand, DeclaredStands
<1>3. CASE Canonicalize
  <2>1. run.mode = "none"
    BY <1>3 DEF Canonicalize, StageAccounted
  <2>2. CASE Referred \subseteq Node /\ InvokesNodes(draft.entrance)
    <3>1. stage' = "S2" /\ edges' = Bindings /\ sealed' = sealed
      BY <1>3, <2>2 DEF Canonicalize, Passes
    <3>2. QED
      BY <1>1, <1>2, <2>1, <2>2, <3>1
      DEF StageAccounted, Linked, Judged, Formed, Composed, Refusal, Stages, Refused
  <2>3. CASE ~(Referred \subseteq Node /\ InvokesNodes(draft.entrance))
    <3>1. stage' = "refused at S2" /\ edges' = edges /\ sealed' = sealed /\ edges = {}
      BY <1>3, <2>3 DEF Canonicalize, RefusedAt, Refusal, StageAccounted, Linked
    <3>2. QED
      BY <1>1, <2>1, <3>1 DEF StageAccounted, Linked, Judged, Formed, Composed, Refusal, Stages, Refused
  <2>4. QED
    BY <2>2, <2>3
<1>4. CASE Govern
  <2>1. run.mode = "none" /\ edges' = edges /\ sealed' = sealed /\ stage = "S2"
    BY <1>4 DEF Govern, RefusedAt, StageAccounted
  <2>2. Conforms' = Conforms
    BY <1>1, <2>1, ConformsStands
  <2>3. stage' = IF Conforms THEN "S4" ELSE "refused at S4"
    BY <1>4 DEF Govern, RefusedAt, Refusal, Passes
  <2>4. QED
    BY <1>1, <1>2, <2>1, <2>2, <2>3
    DEF StageAccounted, Linked, Judged, Formed, Composed, Refusal, Stages, Refused
<1>5. CASE Construct
  <2>1. run.mode = "none" /\ edges' = edges /\ stage = "S4"
    BY <1>5 DEF Construct, RefusedAt, StageAccounted
  <2>2. Conforms' = Conforms
    BY <1>1, <2>1, ConformsStands
  <2>3. CASE Lowers(lib)
    <3>1. stage' = "S5" /\ sealed' = [sealed EXCEPT !.forms = Forms(lib)]
      BY <1>5, <2>3 DEF Construct, Passes
    <3>2. sealed' = [forms |-> Forms(lib), pipeline |-> sealed.pipeline, storage |-> sealed.storage,
                     entrance |-> sealed.entrance]
      BY <3>1 DEF StageAccounted
    <3>3. QED
      BY <1>1, <1>2, <2>1, <2>2, <2>3, <3>1, <3>2
      DEF StageAccounted, Linked, Judged, Formed, Composed, Refusal, Stages, Refused
  <2>4. CASE ~Lowers(lib)
    <3>1. stage' = "refused at S5" /\ sealed' = sealed
      BY <1>5, <2>4 DEF Construct, RefusedAt, Refusal
    <3>2. QED
      BY <1>1, <1>2, <2>1, <2>2, <2>4, <3>1
      DEF StageAccounted, Linked, Judged, Formed, Composed, Refusal, Stages, Refused
  <2>5. QED
    BY <2>3, <2>4
<1>6. CASE Project
  <2>1. run.mode = "none" /\ edges' = edges /\ stage = "S5" /\ stage' = "S6"
    BY <1>6 DEF Project, Passes, StageAccounted
  <2>2. Conforms' = Conforms /\ PipelineOf' = PipelineOf
    BY <1>1, <2>1, ConformsStands, PipelineStands
  <2>3. sealed' = [forms |-> sealed.forms, pipeline |-> PipelineOf, storage |-> StorageOf(draft.acts),
                   entrance |-> EntranceOf(draft.entrance, draft.acts, draft.superseded)]
    BY <1>6 DEF Project, StageAccounted
  <2>4. QED
    BY <1>1, <1>2, <2>1, <2>2, <2>3
    DEF StageAccounted, Linked, Judged, Formed, Composed, Refusal, Stages, Refused
<1>7. CASE Materialize
  <2>1. run.mode = "none" /\ edges' = edges /\ sealed' = sealed /\ stage = "S6"
    BY <1>7 DEF Materialize, RefusedAt, StageAccounted
  <2>2. Conforms' = Conforms /\ PipelineOf' = PipelineOf
    BY <1>1, <2>1, ConformsStands, PipelineStands
  <2>3. stage' \in {"S7", "refused at S7"} /\ (stage' = "S7" => \A c \in draft.cases : c.target \in DOMAIN sealed.forms)
    BY <1>7 DEF Materialize, RefusedAt, Refusal, Passes
  <2>4. Lowers(lib) /\ sealed.forms = Forms(lib)
    BY <2>1 DEF StageAccounted, Formed
  <2>5. DOMAIN sealed.forms = DOMAIN lib
    BY <2>4, FormsUnfold
  <2>6. QED
    BY <1>1, <1>2, <2>1, <2>2, <2>3, <2>4, <2>5
    DEF StageAccounted, Linked, Judged, Formed, Composed, Refusal, Stages, Refused
<1>8. QED
  BY <1>3, <1>4, <1>5, <1>6, <1>7

-----------------------------------------------------------------------------
(* What is sealed of storage and of the entrance.                          *)

\* The place of the description that stands for a record that is reached.
LEMMA DescriberFirst ==
  ASSUME NEW st, NEW act, NEW r, NEW k \in DOMAIN Reaches(st, act),
         DOMAIN Reaches(st, act) \subseteq Nat, r \in DescribedAt(st, act, k)
  PROVE  /\ Describer(st, act, r) \in DOMAIN Reaches(st, act)
         /\ r \in DescribedAt(st, act, Describer(st, act, r))
         /\ \A j \in 1..(Describer(st, act, r) - 1) : r \notin DescribedAt(st, act, j)
<1> DEFINE K == {j \in DOMAIN Reaches(st, act) : r \in DescribedAt(st, act, j)}
<1>1. K \subseteq Nat /\ K # {}
  OBVIOUS
<1>2. PICK m \in K : \A j \in K : m <= j
  <2> HIDE DEF K
  <2>1. QED
    BY <1>1, LeastElement
<1> SUFFICES \E d \in DOMAIN Reaches(st, act) :
               r \in DescribedAt(st, act, d) /\ \A j \in 1..(d - 1) : r \notin DescribedAt(st, act, j)
  BY DEF Describer
<1>3. ASSUME NEW j \in 1..(m - 1)
      PROVE  r \notin DescribedAt(st, act, j)
  <2>1. SUFFICES ASSUME r \in DescribedAt(st, act, j)
                 PROVE  FALSE
    OBVIOUS
  <2>2. j \in DOMAIN Reaches(st, act)
    BY <2>1 DEF Reaches
  <2>3. QED
    BY <1>1, <1>2, <2>1, <2>2
<1>4. QED
  BY <1>2, <1>3

\* What is sealed for an act keeps to its reach, where S4 found each description its binding's own.
LEMMA StorageKept ==
  ASSUME NEW st, StorageOwned(st), DOMAIN st.records \subseteq Description,
         \A act \in Act : IsSequence(st.consults[act])
  PROVE  KeepsToItsReach(st, StorageOf(st))
<1> SUFFICES ASSUME NEW act \in Act
             PROVE  LET own == DescribedAt(st, act, 1) IN
                    /\ \A r \in own :
                         /\ Carries(st, st.owned[act]) /\ ~DescribedTwice(st, act, r) =>
                              r \in DOMAIN StorageOf(st)[act]
                         /\ r \in DOMAIN StorageOf(st)[act] => StorageOf(st)[act][r].reach = "owned"
                    /\ \A r \in DOMAIN StorageOf(st)[act] :
                         LET by == StorageOf(st)[act][r].by IN
                         IF StorageOf(st)[act][r].reach = "owned"
                         THEN r \in own /\ by = st.owned[act] /\ st.owner[st.describes[by]] = st.owner[by]
                         ELSE \E k \in DOMAIN st.consults[act] : st.consults[act][k] = by
  BY DEF KeepsToItsReach
<1> DEFINE own == DescribedAt(st, act, 1)
           composed == st.owned[act] # NoBinding /\ st.consults[act] # <<>>
           places == IF composed THEN DOMAIN Reaches(st, act) ELSE IF Carries(st, st.owned[act]) THEN {1} ELSE {}
           reached == UNION {DescribedAt(st, act, k) : k \in places}
           d(r) == Describer(st, act, r)
<1>1. PICK S : st.consults[act] \in Seq(S)
  BY DEF IsSequence
<1>2. /\ DOMAIN Reaches(st, act) = 1..(Len(st.consults[act]) + 1)
      /\ Reaches(st, act)[1] = st.owned[act]
      /\ \A k \in 2..(Len(st.consults[act]) + 1) :
           k - 1 \in DOMAIN st.consults[act] /\ Reaches(st, act)[k] = st.consults[act][k - 1]
      /\ Len(st.consults[act]) \in Nat
  BY <1>1 DEF Reaches
<1>3. /\ DOMAIN StorageOf(st)[act] = reached
      /\ \A r \in reached : /\ StorageOf(st)[act][r].reach = IF d(r) = 1 THEN "owned" ELSE "consulted"
                            /\ StorageOf(st)[act][r].by = Reaches(st, act)[d(r)]
  BY DEF StorageOf
<1>4. places \subseteq DOMAIN Reaches(st, act) /\ DOMAIN Reaches(st, act) \subseteq Nat
  BY <1>2
<1>5. ASSUME NEW r \in reached
      PROVE  d(r) \in DOMAIN Reaches(st, act) /\ r \in DescribedAt(st, act, d(r))
               /\ \A j \in 1..(d(r) - 1) : r \notin DescribedAt(st, act, j)
  <2>1. PICK k \in places : r \in DescribedAt(st, act, k)
    OBVIOUS
  <2>2. k \in DOMAIN Reaches(st, act) /\ DOMAIN Reaches(st, act) \subseteq Nat
    BY <1>4
  <2> HIDE DEF places, reached
  <2>3. QED
    BY <2>1, <2>2, DescriberFirst
<1>6. ASSUME NEW r \in own, r \in reached
      PROVE  d(r) = 1
  <2>1. d(r) \in Nat /\ d(r) >= 1
    BY <1>2, <1>5, <1>6
  <2>2. 1 \notin 1..(d(r) - 1)
    BY <1>5, <1>6
  <2> HIDE DEF d
  <2>3. QED
    BY <2>1, <2>2
<1>7. ASSUME NEW r \in own
      PROVE  Carries(st, st.owned[act]) => r \in reached
  <2>1. Carries(st, st.owned[act]) => 1 \in places
    BY <1>2
  <2> HIDE DEF places
  <2>2. QED
    BY <1>7, <2>1
<1>8. ASSUME NEW r \in reached, d(r) = 1
      PROVE  r \in own /\ st.owner[st.describes[st.owned[act]]] = st.owner[st.owned[act]]
  <2>1. r \in DescribedAt(st, act, 1)
    BY <1>5, <1>8
  <2>2. st.owned[act] \in Binding /\ st.describes[st.owned[act]] \in DOMAIN st.records
    BY <1>2, <2>1 DEF DescribedAt
  <2>3. st.describes[st.owned[act]] # NoBinding
    BY <2>2, StorageAssumption
  <2>4. QED
    BY <2>1, <2>2, <2>3 DEF StorageOwned, SubdomainOwned
<1>9. ASSUME NEW r \in reached, d(r) # 1
      PROVE  \E k \in DOMAIN st.consults[act] : st.consults[act][k] = Reaches(st, act)[d(r)]
  <2>1. d(r) \in DOMAIN Reaches(st, act)
    BY <1>5
  <2> HIDE DEF d
  <2>2. d(r) \in 2..(Len(st.consults[act]) + 1)
    BY <1>2, <1>9, <2>1
  <2>3. QED
    BY <1>2, <2>2
<1> HIDE DEF own, reached, d
<1>10. \A r \in own : /\ Carries(st, st.owned[act]) => r \in DOMAIN StorageOf(st)[act]
                      /\ r \in DOMAIN StorageOf(st)[act] => StorageOf(st)[act][r].reach = "owned"
  BY <1>3, <1>6, <1>7
<1>11. ASSUME NEW r \in DOMAIN StorageOf(st)[act]
       PROVE  IF StorageOf(st)[act][r].reach = "owned"
              THEN /\ r \in own /\ StorageOf(st)[act][r].by = st.owned[act]
                   /\ st.owner[st.describes[StorageOf(st)[act][r].by]] = st.owner[StorageOf(st)[act][r].by]
              ELSE \E k \in DOMAIN st.consults[act] : st.consults[act][k] = StorageOf(st)[act][r].by
  <2>1. r \in reached /\ StorageOf(st)[act][r].by = Reaches(st, act)[d(r)]
        /\ StorageOf(st)[act][r].reach = IF d(r) = 1 THEN "owned" ELSE "consulted"
    BY <1>3
  <2>2. CASE d(r) = 1
    BY <1>2, <1>8, <2>1, <2>2
  <2>3. CASE d(r) # 1
    BY <1>9, <2>1, <2>3
  <2>4. QED
    BY <2>2, <2>3
<1>12. QED
  BY <1>10, <1>11 DEF own

\* What S4 asks of the three declarations of an entrance makes the gates hold.
LEMMA GatesKept ==
  ASSUME NEW e, NEW st, NEW gone, Enterable(e, gone)
  PROVE  GatesHold(e, gone, EntranceOf(e, st, gone))
<1> DEFINE sealed0 == EntranceOf(e, st, gone)
<1>1. /\ DOMAIN sealed0.entry = {act \in Act \ gone : e.starts[act]}
      /\ \A act \in DOMAIN sealed0.entry : sealed0.entry[act].in = GateOf(e, act)
      /\ DOMAIN sealed0.admission = Intent \ gone
      /\ \A i \in Intent \ gone : sealed0.admission[i] = IF e.takes[i] = "bare" THEN "nothing" ELSE e.takes[i]
  BY DEF EntranceOf
<1>2. ASSUME NEW act \in DOMAIN sealed0.entry,
             e.gate[act] \in Intent, e.mentions[act] \subseteq {e.gate[act]}, e.takes[e.gate[act]] # "bare"
      PROVE  /\ sealed0.entry[act].in = e.gate[act]
             /\ e.gate[act] \in DOMAIN sealed0.admission /\ sealed0.admission[e.gate[act]] = "typed"
  <2>1. act \in Act /\ act \notin gone
    BY <1>1
  <2>2. AdmitsVia(e, act) = {e.gate[act]}
    BY <1>2 DEF AdmitsVia
  <2>3. \A i \in Intent : Sorted[i] \in Nat
    BY EntranceAssumption
  <2>4. GateOf(e, act) = e.gate[act]
    <3>1. \A i \in {e.gate[act]} : \A j \in {e.gate[act]} : Sorted[j] <= Sorted[i]
      BY <1>2, <2>3
    <3>2. QED
      BY <2>2, <3>1 DEF GateOf
  <2>5. e.gate[act] \notin gone
    <3>1. act \in Named /\ act \notin Intent
      BY <2>1, EntranceAssumption DEF Named
    <3>2. e.gate[act] \in References(e, act)
      BY <2>1 DEF References
    <3>3. Identity(e, e.gate[act]) = e.gate[act]
      BY <1>2 DEF Identity, Named
    <3>4. {Identity(e, name) : name \in References(e, act)} \intersect gone \subseteq {act}
      BY <2>1, <3>1 DEF Enterable, NotReferenced
    <3>5. QED
      BY <1>2, <3>1, <3>2, <3>3, <3>4
  <2>6. e.takes[e.gate[act]] = "typed"
    BY <1>2 DEF Enterable, IntentTyped
  <2> HIDE DEF sealed0
  <2>7. QED
    BY <1>1, <1>2, <2>4, <2>5, <2>6
<1>3. ASSUME CodesApart(e), NEW t \in Transport \ gone, e.target[t].kind = "WF_INVOCATION"
      PROVE  LET act == Identity(e, e.target[t].handler)
             IN  act \in Act \ gone /\ (e.starts[act] => act \in DOMAIN sealed0.entry)
  <2> DEFINE h == e.target[t].handler
             act == Identity(e, h)
  <2>1. CodeGiven(e, h) \in ActCodes(e)
    BY <1>3 DEF Enterable, TransportTargetExists
  <2>2. PICK a \in Act : CodeGiven(e, h) = e.code[a]
    BY <2>1 DEF ActCodes
  <2>3. act = a
    <3>1. CASE h \in Named
      <4>1. e.code[h] = e.code[a] /\ a \in Named
        BY <2>2, <3>1 DEF CodeGiven, Named
      <4>2. QED
        BY <1>3, <3>1, <4>1 DEF CodesApart, Identity
    <3>2. CASE h \notin Named
      <4>1. e.code[a] = h /\ a \in Named
        BY <2>2, <3>2 DEF CodeGiven, Named
      <4>2. {x \in Named : e.code[x] = h} = {a}
        BY <1>3, <4>1 DEF CodesApart
      <4>3. Standing[a] \in Nat
        BY <4>1, EntranceAssumption
      <4>4. act = CHOOSE x \in {a} : \A y \in {a} : Standing[x] <= Standing[y]
        BY <3>2, <4>2 DEF Identity
      <4>5. QED
        BY <4>3, <4>4
    <3>3. QED
      BY <3>1, <3>2
  <2>4. act \notin gone
    <3>1. t \notin Act \union Intent
      BY EntranceAssumption DEF Named
    <3>2. h \in References(e, t)
      BY <3>1 DEF References
    <3>3. {Identity(e, name) : name \in References(e, t)} \intersect gone \subseteq {t}
      BY <1>3 DEF Enterable, NotReferenced
    <3>4. act # t
      BY <2>3, <3>1
    <3>5. QED
      BY <3>2, <3>3, <3>4
  <2>5. QED
    BY <1>1, <2>3, <2>4
<1>4. QED
  BY <1>2, <1>3 DEF GatesHold

-----------------------------------------------------------------------------
(* What S4 admits lowers.                                                  *)

\* The molecules from which a chain of n molecules more can be followed.
Nested(n) ==
  LET nested[k \in Nat] ==
        IF k = 0 THEN Molecules(lib)
        ELSE LET inner == nested[k - 1]
             IN  {t \in Molecules(lib) : Runs(lib, t) \intersect inner # {}}
  IN  nested[n]

\* The molecules nested n deep, one level at a time.
LEMMA NestedUnfolds ==
  /\ Nested(0) = Molecules(lib)
  /\ \A n \in Nat : Nested(n + 1) = {t \in Molecules(lib) : Runs(lib, t) \intersect Nested(n) # {}}
<1> DEFINE Around(v) == {t \in Molecules(lib) : Runs(lib, t) \intersect v # {}}
           V == SUBSET Molecules(lib)
           around == [v \in V |-> Around(v)]
           step == [n \in Nat |-> around]
           start == Molecules(lib)
           Is(f) == f = [k \in Nat |-> IF k = 0 THEN Molecules(lib)
                                       ELSE LET inner == f[k - 1]
                                            IN  {t \in Molecules(lib) : Runs(lib, t) \intersect inner # {}}]
           nested == CHOOSE f : Is(f)
<1>1. start \in V /\ step \in [Nat -> [V -> V]]
  <2>1. around \in [V -> V]
    OBVIOUS
  <2> HIDE DEF around
  <2>2. QED
    BY <2>1
<1>2. PICK f \in [Nat -> V] : f = [n \in Nat |-> IF n = 0 THEN start ELSE step[n][f[n - 1]]]
  <2> HIDE DEF step, V, start
  <2>1. QED
    BY <1>1, PrimitiveRecursion
<1>3. \A n \in Nat : f[n] = IF n = 0 THEN start ELSE Around(f[n - 1])
  <2>1. SUFFICES ASSUME NEW n \in Nat
                 PROVE  f[n] = IF n = 0 THEN start ELSE Around(f[n - 1])
    OBVIOUS
  <2>2. f[n] = IF n = 0 THEN start ELSE step[n][f[n - 1]]
    BY <1>2
  <2>3. n # 0 => f[n - 1] \in V
    OBVIOUS
  <2>4. n # 0 => step[n][f[n - 1]] = Around(f[n - 1])
    BY <2>3
  <2>5. QED
    BY <2>2, <2>4
<1>4. Is(f)
  <2>1. f = [n \in Nat |-> f[n]]
    OBVIOUS
  <2> HIDE DEF step, around, V
  <2>2. [n \in Nat |-> f[n]] = [n \in Nat |-> IF n = 0 THEN start ELSE Around(f[n - 1])]
    BY <1>3
  <2>3. QED
    BY <2>1, <2>2
<1>5. Is(nested)
  <2> HIDE DEF Is
  <2>1. QED
    BY <1>4
<1>6. \A n \in Nat : Nested(n) = nested[n]
  BY DEF Nested
<1>7. \A n \in Nat : nested[n] = IF n = 0 THEN start ELSE Around(nested[n - 1])
  <2> HIDE DEF nested
  <2>1. QED
    BY <1>5
<1> HIDE DEF nested, Is, step, around, V
<1>8. Nested(0) = Molecules(lib)
  BY <1>6, <1>7
<1>9. ASSUME NEW n \in Nat
      PROVE  Nested(n + 1) = {t \in Molecules(lib) : Runs(lib, t) \intersect Nested(n) # {}}
  <2>1. n + 1 \in Nat /\ n + 1 # 0 /\ (n + 1) - 1 = n
    OBVIOUS
  <2>2. nested[n + 1] = Around(nested[n])
    <3>1. nested[n + 1] = IF n + 1 = 0 THEN start ELSE Around(nested[(n + 1) - 1])
      BY <1>7, <2>1
    <3> HIDE DEF Around, start
    <3>2. QED
      BY <2>1, <3>1
  <2>3. Nested(n + 1) = nested[n + 1] /\ Nested(n) = nested[n]
    BY <1>6, <2>1
  <2>4. QED
    BY <2>2, <2>3
<1>10. QED
  BY <1>8, <1>9

\* In a composition S4 admits, what each step of a molecule runs is of the kind the step says, and,
\* where no code is borne twice, is what S5 lowers it to.
LEMMA StepsRun ==
  ASSUME IsLibrary(lib), Conforms, Unambiguous(lib), NEW t \in Molecules(lib), NEW s \in Steps(lib, t)
  PROVE  /\ s.kind \in {"atom", "molecule", "loop"}
         /\ Resolved(lib, s.names) \in DOMAIN lib /\ Resolved(lib, s.names) \in Runs(lib, t)
         /\ Lowered(lib, s.names) = Resolved(lib, s.names)
         /\ lib[Resolved(lib, s.names)].kind = IF s.kind = "atom" THEN "atom" ELSE "molecule"
<1>1. Runnable(lib)
  BY DEF Conforms
<1>2. t \in DOMAIN lib
  BY DEF Molecules
<1>3. /\ s.kind \in {"atom", "molecule", "loop"} /\ Resolved(lib, s.names) # None
      /\ lib[Resolved(lib, s.names)].kind = IF s.kind = "atom" THEN "atom" ELSE "molecule"
  BY <1>1 DEF Runnable
<1>4. s.names \in Transform \union Code
  BY <1>2 DEF IsLibrary
<1>5. Resolved(lib, s.names) \in DOMAIN lib
  BY <1>3, NamesLeadInside
<1>6. Lowered(lib, s.names) = Resolved(lib, s.names)
  BY <1>3, <1>4, LoweredIsResolved
<1>7. QED
  BY <1>3, <1>5, <1>6 DEF Runs

\* A library that S4 admits can be lowered, unless it is nested too deep or a code is borne twice.
LEMMA ConformingLowers ==
  ASSUME IsLibrary(lib), Conforms, Unambiguous(lib), ~NestedBeyondTheBound
  PROVE  Lowers(lib)
<1>1. Runnable(lib) /\ GovernedByKind(lib) /\ Admissible(lib)
  BY DEF Conforms
<1> DEFINE Good == {n \in Nat : Molecules(lib) \ Nested(n) \subseteq Fits(lib, n)}
<1>2. 0 \in Good
  BY NestedUnfolds
<1>3. ASSUME NEW n \in Nat, n \in Good
      PROVE  n + 1 \in Good
  <2>1. SUFFICES ASSUME NEW t \in Molecules(lib), t \notin Nested(n + 1)
                 PROVE  t \in Fits(lib, n + 1)
    OBVIOUS
  <2>2. Runs(lib, t) \intersect Nested(n) = {}
    BY <2>1, NestedUnfolds
  <2>3. ASSUME NEW s \in Steps(lib, t)
        PROVE  LET u == Lowered(lib, s.names)
               IN  /\ u # None
                   /\ IF s.kind = "atom" THEN lib[u].implemented
                      ELSE s.kind \in {"molecule", "loop"} /\ u \in Fits(lib, n)
    <3> DEFINE u == Resolved(lib, s.names)
    <3>1. /\ s.kind \in {"atom", "molecule", "loop"} /\ u \in DOMAIN lib /\ u \in Runs(lib, t)
          /\ Lowered(lib, s.names) = u
          /\ lib[u].kind = IF s.kind = "atom" THEN "atom" ELSE "molecule"
      BY StepsRun
    <3>2. u # None
      BY <3>1, TransformsAssumption DEF IsLibrary
    <3>3. s.kind = "atom" => lib[u].implemented
      BY <1>1, <3>1 DEF Admissible
    <3>4. s.kind # "atom" => u \in Molecules(lib) \ Nested(n)
      BY <2>2, <3>1 DEF Molecules
    <3> HIDE DEF u
    <3>5. QED
      BY <1>3, <3>1, <3>2, <3>3, <3>4
  <2>4. lib[t].stream # <<>> /\ t \in DOMAIN lib
    BY <1>1 DEF Runnable, Molecules
  <2>5. LowersOver(lib, t, Fits(lib, n))
    BY <2>3, <2>4 DEF LowersOver
  <2>6. QED
    BY <2>4, <2>5, FitsUnfolds
<1>4. MaxDepth + 1 \in Nat
  BY TransformsAssumption
<1>5. MaxDepth + 1 \in Good
  <2> HIDE DEF Good
  <2>1. QED
    BY <1>2, <1>3, <1>4, SetInduction
<1>6. Nested(MaxDepth + 1) = {}
  BY DEF NestedBeyondTheBound, Nested
<1>7. ASSUME NEW t \in DOMAIN lib
      PROVE  IF lib[t].kind = "atom" THEN lib[t].implemented
             ELSE lib[t].kind = "molecule" /\ t \in Fits(lib, MaxDepth + 1)
  <2>1. lib[t].kind \in {"atom", "molecule"}
    BY <1>1 DEF GovernedByKind, Constitution
  <2>2. QED
    BY <1>1, <1>5, <1>6, <2>1 DEF Admissible, Molecules
<1>8. QED
  BY <1>7 DEF Lowers

-----------------------------------------------------------------------------
(* The sealed pipeline.                                                    *)

\* The first n numbers are n.
LEMMA IntervalSize == \A n \in Nat : IsFiniteSet(1..n) /\ Cardinality(1..n) = n
<1> TAKE n \in Nat
<1>1. IsFiniteSet(1..n) /\ Cardinality(1..n) = IF 1 > n THEN 0 ELSE n - 1 + 1
  BY FS_Interval
<1>2. QED
  BY <1>1

InOrder(seq, at) == \A m, n \in DOMAIN seq : m < n => at[seq[m]] <= at[seq[n]]

\* What has places of its own can be put in order.
LEMMA Orderable ==
  ASSUME NEW S, NEW b \in Nat, NEW at \in [S -> 0..b], \A e, f \in S : at[e] = at[f] => e = f
  PROVE  IsFiniteSet(S) /\ \E seq \in Bijection(1..Cardinality(S), S) : InOrder(seq, at)
<1> DEFINE Up(n) == {e \in S : at[e] < n}
           Good == {n \in Nat : /\ IsFiniteSet(Up(n))
                                /\ \E seq \in Bijection(1..Cardinality(Up(n)), Up(n)) : InOrder(seq, at)}
<1>1. 0 \in Good
  <2>1. Up(0) = {}
    OBVIOUS
  <2>2. <<>> \in Bijection(1..0, {}) /\ InOrder(<<>>, at)
    BY DEF Bijection, Injection, Surjection, IsInjective, InOrder
  <2> HIDE DEF Up
  <2>3. QED
    BY <2>1, <2>2, FS_EmptySet
<1>2. ASSUME NEW n \in Nat, n \in Good
      PROVE  n + 1 \in Good
  <2> DEFINE U == Up(n)
             c == Cardinality(U)
  <2>1. /\ IsFiniteSet(U) /\ c \in Nat
        /\ \A e \in U : e \in S /\ at[e] < n
    BY <1>2, FS_CardinalityType
  <2>2. PICK seq \in Bijection(1..c, U) : InOrder(seq, at)
    BY <1>2
  <2>3. CASE \A e \in S : at[e] # n
    <3>1. Up(n + 1) = U
      BY <2>3
    <3> HIDE DEF Up, U
    <3>2. QED
      BY <2>1, <2>2, <3>1
  <2>4. CASE \E e \in S : at[e] = n
    <3>1. PICK x \in S : at[x] = n
      BY <2>4
    <3>2. Up(n + 1) = U \union {x} /\ x \notin U
      BY <3>1
    <3> HIDE DEF Up, U
    <3>3. IsFiniteSet(Up(n + 1)) /\ Cardinality(Up(n + 1)) = c + 1
      BY <2>1, <3>2, FS_AddElement
    <3> HIDE DEF c
    <3> DEFINE new == [k \in 1..(c + 1) |-> IF k = c + 1 THEN x ELSE seq[k]]
    <3>4. /\ \A k \in 1..c : seq[k] \in U
          /\ \A j, k \in 1..c : seq[j] = seq[k] => j = k
          /\ \A e \in U : \E k \in 1..c : seq[k] = e
          /\ DOMAIN seq = 1..c
      BY DEF Bijection, Injection, Surjection, IsInjective
    <3>5. new \in [1..(c + 1) -> U \union {x}]
      BY <2>1, <3>4
    <3>6. \A j, k \in 1..(c + 1) : new[j] = new[k] => j = k
      BY <3>2, <3>4, <2>1
    <3>7. \A e \in U \union {x} : \E k \in 1..(c + 1) : new[k] = e
      <4>1. c + 1 \in 1..(c + 1) /\ \A k \in 1..c : k \in 1..(c + 1) /\ k # c + 1
        BY <2>1
      <4>2. new[c + 1] = x /\ \A k \in 1..c : new[k] = seq[k]
        BY <4>1
      <4> HIDE DEF new
      <4>3. QED
        BY <3>4, <4>1, <4>2
    <3>8. new \in Bijection(1..(c + 1), U \union {x})
      <4> HIDE DEF new
      <4>1. QED
        BY <3>5, <3>6, <3>7 DEF Bijection, Injection, Surjection, IsInjective
    <3>9. InOrder(new, at)
      <4>1. SUFFICES ASSUME NEW j \in 1..(c + 1), NEW k \in 1..(c + 1), j < k
                     PROVE  at[new[j]] <= at[new[k]]
        BY DEF InOrder
      <4>2. j \in 1..c /\ new[j] = seq[j] /\ seq[j] \in U
        BY <2>1, <3>4, <4>1
      <4>3. CASE k = c + 1
        <5>1. at[seq[j]] < n /\ at[seq[j]] \in 0..b
          BY <2>1, <4>2
        <5>2. QED
          BY <3>1, <4>2, <4>3, <5>1
      <4>4. CASE k # c + 1
        <5>1. k \in 1..c /\ new[k] = seq[k]
          BY <2>1, <4>4
        <5>2. QED
          BY <2>2, <3>4, <4>1, <4>2, <5>1 DEF InOrder
      <4>5. QED
        BY <4>3, <4>4
    <3> HIDE DEF new
    <3>10. new \in Bijection(1..Cardinality(Up(n + 1)), Up(n + 1))
      BY <3>2, <3>3, <3>8
    <3>11. QED
      BY <3>3, <3>9, <3>10
  <2>5. QED
    BY <2>3, <2>4
<1>3. b + 1 \in Good
  <2> HIDE DEF Good
  <2>1. QED
    BY <1>1, <1>2, SetInduction
<1>4. Up(b + 1) = S
  OBVIOUS
<1> HIDE DEF Up
<1>5. QED
  BY <1>3, <1>4

\* What has one thing at each place is put in order one way.
LEMMA OneOrder ==
  ASSUME NEW S, NEW n \in Nat, NEW at \in [S -> 1..n], NEW seq \in Bijection(1..n, S),
         InOrder(seq, at), \A e, f \in S : at[e] = at[f] => e = f
  PROVE  \A k \in 1..n : at[seq[k]] = k
<1> DEFINE p(k) == at[seq[k]]
<1>1. /\ DOMAIN seq = 1..n
      /\ \A k \in 1..n : p(k) \in 1..n
      /\ \A j, k \in 1..n : j < k => p(j) < p(k)
  <2>1. DOMAIN seq = 1..n /\ (\A k \in 1..n : seq[k] \in S) /\ \A j, k \in 1..n : seq[j] = seq[k] => j = k
    BY DEF Bijection, Injection, IsInjective
  <2>2. \A k \in 1..n : p(k) \in 1..n
    BY <2>1
  <2>3. ASSUME NEW j \in 1..n, NEW k \in 1..n, j < k
        PROVE  p(j) < p(k)
    <3>1. p(j) <= p(k)
      BY <2>1, <2>3 DEF InOrder
    <3>2. p(j) # p(k)
      BY <2>1, <2>3
    <3>3. p(j) \in 1..n /\ p(k) \in 1..n
      BY <2>2
    <3> HIDE DEF p
    <3>4. QED
      BY <3>1, <3>2, <3>3
  <2>4. QED
    BY <2>1, <2>2, <2>3
<1> HIDE DEF p
<1> DEFINE Low == {k \in Nat : k \in 1..n => p(k) >= k}
           High == {i \in Nat : n - i \in 1..n => p(n - i) <= n - i}
<1>2. \A k \in Nat : k \in Low
  <2>1. 0 \in Low
    OBVIOUS
  <2>2. ASSUME NEW k \in Nat, k \in Low
        PROVE  k + 1 \in Low
    <3>1. CASE k = 0
      BY <1>1, <3>1
    <3>2. CASE k # 0 /\ k + 1 \in 1..n
      <4>1. k \in 1..n /\ k < k + 1
        BY <3>2
      <4>2. p(k) >= k /\ p(k) < p(k + 1) /\ p(k) \in 1..n /\ p(k + 1) \in 1..n
        BY <1>1, <2>2, <3>2, <4>1
      <4>3. QED
        BY <4>2
    <3>3. QED
      BY <3>1, <3>2
  <2> HIDE DEF Low
  <2>3. QED
    BY <2>1, <2>2, SetInduction
<1>3. \A i \in Nat : i \in High
  <2>1. 0 \in High
    BY <1>1
  <2>2. ASSUME NEW i \in Nat, i \in High
        PROVE  i + 1 \in High
    <3>1. SUFFICES ASSUME n - (i + 1) \in 1..n
                   PROVE  p(n - (i + 1)) <= n - (i + 1)
      OBVIOUS
    <3>2. n - i \in 1..n /\ n - (i + 1) < n - i
      BY <3>1
    <3>3. p(n - i) <= n - i /\ p(n - (i + 1)) < p(n - i) /\ p(n - i) \in 1..n /\ p(n - (i + 1)) \in 1..n
      BY <1>1, <2>2, <3>1, <3>2
    <3>4. QED
      BY <3>3
  <2> HIDE DEF High
  <2>3. QED
    BY <2>1, <2>2, SetInduction
<1>4. ASSUME NEW k \in 1..n
      PROVE  p(k) = k
  <2>1. p(k) >= k
    BY <1>2
  <2>2. n - k \in Nat /\ n - (n - k) = k
    OBVIOUS
  <2>3. n - k \in High
    BY <1>3, <2>2
  <2>4. p(k) <= k
    BY <2>2, <2>3
  <2>5. p(k) \in 1..n
    BY <1>1
  <2>6. QED
    BY <2>1, <2>4, <2>5
<1>5. QED
  BY <1>4 DEF p

\* A placed edge is a step of the pipeline, and of every step there is one at most.
LEMMA PlacedAreSteps ==
  ASSUME IsDraft(draft), OneCapability, edges = Bindings
  PROVE  /\ Len(pipeline) \in Nat /\ DOMAIN pipeline = 1..Len(pipeline)
         /\ \A e \in Placed :
              /\ e.index \in 1..Len(pipeline) /\ e.to \in Node
              /\ e.to \in {pipeline[e.index].transform, pipeline[e.index].effect}
         /\ \A e, f \in Placed : e.index = f.index => e = f
<1>1. Len(pipeline) \in Nat /\ DOMAIN pipeline = 1..Len(pipeline)
  BY DEF IsDraft, IsSequence, pipeline
<1>2. None \notin Node
  BY TransformsAssumption, ContractAssumption DEF Node, IsDraft, IsLibrary, lib
<1> DEFINE OfTransform(k) == [to |-> pipeline[k].transform, kind |-> BindingKind(pipeline[k].transform), index |-> k]
           OfEffect(k) == [to |-> pipeline[k].effect, kind |-> "CC_BINDS_CS", index |-> k]
<1>3. ASSUME NEW e \in Placed
      PROVE  \E k \in DOMAIN pipeline : \/ pipeline[k].transform \in Node /\ e = OfTransform(k)
                                        \/ pipeline[k].effect \in Node /\ e = OfEffect(k)
  <2>1. e \in Bindings /\ e.index > 0
    BY DEF Placed
  <2>2. e \in StepBindings
    BY <2>1 DEF Bindings
  <2>3. QED
    BY <2>2 DEF StepBindings
<1>4. ASSUME NEW e \in Placed
      PROVE  /\ e.index \in DOMAIN pipeline /\ e.to \in Node
             /\ \/ pipeline[e.index].transform = e.to /\ e = OfTransform(e.index)
                \/ pipeline[e.index].effect = e.to /\ e = OfEffect(e.index)
  BY <1>3
<1>5. ASSUME NEW e \in Placed, NEW f \in Placed, e.index = f.index
      PROVE  e = f
  <2>1. (pipeline[e.index].transform = None) # (pipeline[e.index].effect = None)
    BY <1>4 DEF OneCapability, Range
  <2>2. QED
    BY <1>2, <1>4, <1>5, <2>1
<1>6. QED
  BY <1>1, <1>4, <1>5

\* The sealed pipeline is a sequence of steps of the declared one, each with what it names.
LEMMA PipelineIsOfSteps ==
  ASSUME IsDraft(draft), OneCapability, edges = Bindings
  PROVE  /\ Cardinality(Placed) \in Nat
         /\ DOMAIN PipelineOf = 1..Cardinality(Placed)
         /\ \E seq \in Bijection(1..Cardinality(Placed), Placed) :
              /\ \A m, n \in 1..Cardinality(Placed) : m < n => seq[m].index <= seq[n].index
              /\ \A n \in 1..Cardinality(Placed) :
                   LET s == pipeline[seq[n].index]
                   IN  PipelineOf[n] = [runs |-> seq[n].to, id |-> s.id, op |-> s.op, reads |-> s.reads, on |-> s.on]
<1> DEFINE at == [e \in Placed |-> e.index]
           c == Cardinality(Placed)
           Good(seq) == \A m, n \in DOMAIN seq : m < n => seq[m].index <= seq[n].index
           inOrder == CHOOSE seq \in Bijection(1..c, Placed) : Good(seq)
<1>1. /\ Len(pipeline) \in Nat
      /\ at \in [Placed -> 0..Len(pipeline)]
      /\ \A e, f \in Placed : at[e] = at[f] => e = f
  BY PlacedAreSteps
<1>2. IsFiniteSet(Placed) /\ \E seq \in Bijection(1..c, Placed) : InOrder(seq, at)
  <2> HIDE DEF at
  <2>1. QED
    BY <1>1, Orderable
<1>3. c \in Nat
  BY <1>2, FS_CardinalityType
<1>4. \A seq \in Bijection(1..c, Placed) : DOMAIN seq = 1..c /\ \A k \in 1..c : seq[k] \in Placed
  BY DEF Bijection, Injection
<1>5. \E seq \in Bijection(1..c, Placed) : Good(seq)
  <2>1. PICK seq \in Bijection(1..c, Placed) : InOrder(seq, at)
    BY <1>2
  <2>2. Good(seq)
    BY <1>4, <2>1 DEF InOrder
  <2>3. QED
    BY <2>2
<1>6. inOrder \in Bijection(1..c, Placed) /\ Good(inOrder)
  <2> HIDE DEF Good
  <2>1. QED
    BY <1>5
<1>7. PipelineOf = [n \in DOMAIN inOrder |->
                      LET s == pipeline[IF inOrder[n].index = 0 THEN 1 ELSE inOrder[n].index]
                      IN  [runs |-> inOrder[n].to, id |-> s.id, op |-> s.op, reads |-> s.reads, on |-> s.on]]
  BY DEF PipelineOf
<1> HIDE DEF inOrder
<1>8. DOMAIN PipelineOf = 1..c
  BY <1>4, <1>6, <1>7
<1>9. ASSUME NEW n \in 1..c
      PROVE  LET s == pipeline[inOrder[n].index]
             IN  PipelineOf[n] = [runs |-> inOrder[n].to, id |-> s.id, op |-> s.op, reads |-> s.reads, on |-> s.on]
  <2>1. inOrder[n] \in Placed
    BY <1>4, <1>6
  <2>2. inOrder[n].index # 0
    BY <2>1, PlacedAreSteps
  <2>3. QED
    BY <1>4, <1>6, <1>7, <2>2
<1>10. QED
  BY <1>3, <1>4, <1>6, <1>8, <1>9

\* The pipeline is a sequence of steps.
LEMMA PipelineIsSequence ==
  ASSUME IsDraft(draft), OneCapability, edges = Bindings
  PROVE  IsSequence(PipelineOf) /\ Len(PipelineOf) \in Nat /\ DOMAIN PipelineOf = 1..Len(PipelineOf)
<1>1. Cardinality(Placed) \in Nat /\ DOMAIN PipelineOf = 1..Cardinality(Placed)
  BY PipelineIsOfSteps
<1>2. PipelineOf = [n \in 1..Cardinality(Placed) |-> PipelineOf[n]]
  BY <1>1 DEF PipelineOf
<1>3. PipelineOf \in Seq(Range(PipelineOf))
  BY <1>1, <1>2 DEF Range
<1>4. QED
  BY <1>1, <1>3 DEF IsSequence

\* A step as it is sealed.
Entry(k) ==
  LET s == pipeline[k]
  IN  [runs |-> IF s.transform # None THEN s.transform ELSE s.effect,
       id |-> s.id, op |-> s.op, reads |-> s.reads, on |-> s.on]

\* Where every step names what it should, every step is sealed, in the order it was declared.
LEMMA PipelineIsWhole ==
  ASSUME IsDraft(draft), OneCapability, WellNamed, edges = Bindings
  PROVE  /\ Len(PipelineOf) = Len(pipeline)
         /\ \A k \in DOMAIN pipeline : PipelineOf[k] = Entry(k)
<1> DEFINE L == Len(pipeline)
           at == [e \in Placed |-> e.index]
<1>1. /\ L \in Nat /\ DOMAIN pipeline = 1..L
      /\ \A e \in Placed : /\ e.index \in 1..L
                           /\ e.to \in Node /\ e.to \in {pipeline[e.index].transform, pipeline[e.index].effect}
      /\ \A e, f \in Placed : e.index = f.index => e = f
  BY PlacedAreSteps
<1>2. ASSUME NEW k \in 1..L
      PROVE  /\ Entry(k).runs \in Node /\ Entry(k).runs # None
             /\ (pipeline[k].transform = None) # (pipeline[k].effect = None)
             /\ \E e \in Placed : e.index = k
  <2>1. pipeline[k] \in Range(pipeline)
    BY <1>1 DEF Range
  <2>2. (pipeline[k].transform = None) # (pipeline[k].effect = None)
    BY <2>1 DEF OneCapability
  <2>3. CASE pipeline[k].transform # None
    <3>1. pipeline[k].transform \in DOMAIN lib
      BY <2>1, <2>3 DEF WellNamed
    <3>2. pipeline[k].transform \in Node /\ pipeline[k].transform \in Transform
      BY <3>1 DEF Node, IsDraft, IsLibrary, lib
    <3> DEFINE e == [to |-> pipeline[k].transform, kind |-> BindingKind(pipeline[k].transform), index |-> k]
    <3>3. e \in StepBindings
      BY <1>1, <3>2 DEF StepBindings
    <3>4. e \in Placed
      BY <3>2, <3>3 DEF Placed, Bindings, Binds, BindingKind
    <3>5. QED
      BY <2>2, <2>3, <3>2, <3>4 DEF Entry
  <2>4. CASE pipeline[k].transform = None
    <3>1. pipeline[k].effect \in Effect /\ pipeline[k].effect # None
      BY <2>1, <2>2, <2>4 DEF WellNamed
    <3>2. pipeline[k].effect \in Node
      BY <3>1 DEF Node
    <3> DEFINE e == [to |-> pipeline[k].effect, kind |-> "CC_BINDS_CS", index |-> k]
    <3>3. e \in StepBindings
      BY <1>1, <3>2 DEF StepBindings
    <3>4. e \in Placed
      BY <3>3 DEF Placed, Bindings, Binds
    <3>5. QED
      BY <2>2, <2>4, <3>1, <3>2, <3>4 DEF Entry
  <2>5. QED
    BY <2>3, <2>4
<1>3. at \in Bijection(Placed, 1..L)
  BY <1>1, <1>2 DEF Bijection, Injection, Surjection, IsInjective
<1> DEFINE c == Cardinality(Placed)
<1>4. PICK seq \in Bijection(1..c, Placed) :
        /\ \A m, n \in 1..c : m < n => seq[m].index <= seq[n].index
        /\ \A n \in 1..c :
             LET s == pipeline[seq[n].index]
             IN  PipelineOf[n] = [runs |-> seq[n].to, id |-> s.id, op |-> s.op, reads |-> s.reads, on |-> s.on]
  BY PipelineIsOfSteps
<1>5. c \in Nat /\ DOMAIN PipelineOf = 1..c
  BY PipelineIsOfSteps
<1>6. c = L
  <2>1. IsFiniteSet(1..c) /\ Cardinality(1..c) = c /\ IsFiniteSet(1..L) /\ Cardinality(1..L) = L
    <3> HIDE DEF c, L
    <3>1. QED
      BY <1>1, <1>5, IntervalSize
  <2>2. IsFiniteSet(Placed)
    BY <2>1, <1>4, FS_Bijection DEF ExistsBijection
  <2>3. Cardinality(1..L) = Cardinality(Placed)
    <3>1. ExistsBijection(Placed, 1..L)
      BY <1>3 DEF ExistsBijection
    <3>2. QED
      BY <2>2, <3>1, FS_Bijection
  <2>4. QED
    BY <2>1, <2>3
<1>7. /\ DOMAIN seq = 1..c /\ \A k \in 1..c : seq[k] \in Placed
  BY DEF Bijection, Injection
<1>8. InOrder(seq, at)
  BY <1>4, <1>7 DEF InOrder
<1>9. at \in [Placed -> 1..c] /\ \A e, f \in Placed : at[e] = at[f] => e = f
  BY <1>1, <1>6
<1>10. \A k \in 1..c : at[seq[k]] = k
  <2> HIDE DEF at, c
  <2>1. QED
    BY <1>4, <1>5, <1>8, <1>9, OneOrder
<1>11. ASSUME NEW k \in 1..L
       PROVE  PipelineOf[k] = Entry(k)
  <2>1. seq[k].index = k /\ seq[k] \in Placed
    BY <1>6, <1>7, <1>10
  <2>2. seq[k].to \in {pipeline[k].transform, pipeline[k].effect} /\ seq[k].to \in Node
    BY <1>1, <2>1
  <2>3. None \notin Node
    BY TransformsAssumption, ContractAssumption DEF Node, IsDraft, IsLibrary, lib
  <2>4. seq[k].to = IF pipeline[k].transform # None THEN pipeline[k].transform ELSE pipeline[k].effect
    BY <1>2, <2>2, <2>3
  <2>5. QED
    BY <1>4, <1>6, <2>1, <2>4 DEF Entry
<1>12. Len(PipelineOf) = L
  BY <1>1, <1>5, <1>6, PipelineIsSequence
<1>13. QED
  BY <1>1, <1>11, <1>12

-----------------------------------------------------------------------------
(* What the sealed pipeline runs.                                          *)

SealedRuns == {s.runs : s \in Range(sealed.pipeline)}

\* Under names as they should be, what the sealed pipeline names is what the steps name.
LEMMA SealedSteps ==
  ASSUME StageAccounted, stage \in Composed, WellNamed
  PROVE  /\ SealedRuns \subseteq DOMAIN lib \union Effect
         /\ {s.transform : s \in Range(pipeline)} \intersect Transform \subseteq SealedRuns
<1>1. /\ IsDraft(draft) /\ edges = Bindings /\ OneCapability /\ sealed.pipeline = PipelineOf
  BY DEF StageAccounted, Linked, Judged, Formed, Composed, Refusal, Conforms
<1>2. /\ DOMAIN PipelineOf = DOMAIN pipeline
      /\ \A k \in DOMAIN pipeline : PipelineOf[k] = Entry(k)
  BY <1>1, PipelineIsWhole, PipelineIsSequence, PlacedAreSteps
<1>3. ASSUME NEW k \in DOMAIN pipeline
      PROVE  Entry(k).runs \in DOMAIN lib \union Effect
  <2>1. pipeline[k] \in Range(pipeline)
    BY DEF Range
  <2>2. (pipeline[k].transform = None) # (pipeline[k].effect = None)
    BY <1>1, <2>1 DEF OneCapability
  <2>3. QED
    BY <2>1, <2>2 DEF WellNamed, Entry
<1>4. ASSUME NEW r \in SealedRuns
      PROVE  r \in DOMAIN lib \union Effect
  <2>1. PICK k \in DOMAIN PipelineOf : r = PipelineOf[k].runs
    BY <1>1 DEF SealedRuns, Range
  <2>2. QED
    BY <1>2, <1>3, <2>1
<1>5. ASSUME NEW s \in Range(pipeline), s.transform \in Transform
      PROVE  s.transform \in SealedRuns
  <2>1. PICK k \in DOMAIN pipeline : s = pipeline[k]
    BY DEF Range
  <2>2. s.transform # None
    BY <1>5, TransformsAssumption
  <2>3. Entry(k).runs = s.transform
    BY <2>1, <2>2 DEF Entry
  <2>4. PipelineOf[k] \in Range(PipelineOf) /\ PipelineOf[k].runs = s.transform
    BY <1>2, <2>3 DEF Range
  <2>5. QED
    BY <1>1, <2>4 DEF SealedRuns
<1>6. QED
  BY <1>4, <1>5

\* What runs when a transform does is what its steps name, where names are full and of one bearer.
LEMMA SealedLeadsOn ==
  ASSUME StageAccounted, stage \in Composed, Unambiguous(lib), AtomsRunAlone(lib), NEW x \in DOMAIN lib
  PROVE  /\ {s.names : s \in Steps(lib, x)} \intersect Transform \subseteq {s.runs : s \in Range(sealed.forms[x].stream)}
         /\ {s.runs : s \in Range(sealed.forms[x].stream)} \subseteq DOMAIN lib
<1>1. /\ IsDraft(draft) /\ Referred \subseteq Node /\ Lowers(lib) /\ sealed.forms = Forms(lib)
  BY DEF StageAccounted, Linked, Judged, Formed, Composed, Refusal
<1>2. IsLibrary(lib)
  BY <1>1 DEF IsDraft, lib
<1> DEFINE form == Forms(lib)[x]
<1>3. CASE lib[x].kind = "atom"
  <2>1. lib[x].stream = <<>>
    BY <1>3 DEF AtomsRunAlone
  <2>2. Steps(lib, x) = {}
    BY <2>1 DEF Steps, Range
  <2>3. DOMAIN form.stream = 1..1 /\ form.stream[1].runs = x
    BY <1>1, <1>2, <1>3, FormLines
  <2> HIDE DEF form
  <2>4. {s.runs : s \in Range(form.stream)} \subseteq {x}
    BY <2>3 DEF Range
  <2>5. QED
    BY <1>1, <2>2, <2>4 DEF form
<1>4. CASE lib[x].kind # "atom"
  <2>1. /\ DOMAIN form.stream = DOMAIN lib[x].stream
        /\ \A k \in DOMAIN form.stream : /\ form.stream[k].runs = Lowered(lib, lib[x].stream[k].names)
                                         /\ form.stream[k].runs \in DOMAIN lib
    BY <1>1, <1>2, <1>4, FormLines
  <2> HIDE DEF form
  <2>2. ASSUME NEW s \in Steps(lib, x), s.names \in Transform
        PROVE  s.names \in {r.runs : r \in Range(form.stream)}
    <3>1. PICK k \in DOMAIN lib[x].stream : s = lib[x].stream[k]
      BY DEF Steps, Range
    <3>2. s.names \notin Code
      BY <2>2, TransformsAssumption
    <3>3. s.names \in Referred
      BY <3>2 DEF Referred
    <3>4. s.names \in DOMAIN lib
      BY <1>1, <2>2, <3>3, ContractAssumption, CapabilitiesAssumption DEF Node
    <3>5. Resolved(lib, s.names) = s.names /\ s.names # None
      BY <2>2, <3>4, TransformsAssumption DEF Resolved
    <3>6. Lowered(lib, s.names) = s.names
      BY <1>2, <2>2, <3>5, LoweredIsResolved
    <3>7. form.stream[k] \in Range(form.stream) /\ form.stream[k].runs = s.names
      BY <2>1, <3>1, <3>6 DEF Range
    <3>8. QED
      BY <3>7
  <2>3. {r.runs : r \in Range(form.stream)} \subseteq DOMAIN lib
    BY <2>1 DEF Range
  <2>4. QED
    BY <1>1, <2>2, <2>3 DEF form
<1>5. QED
  BY <1>3, <1>4

\* Every transform in force is run by something the sealed pipeline runs.
LEMMA SealingHoldsInForce ==
  ASSUME StageAccounted, stage \in Composed, Unambiguous(lib), AtomsRunAlone(lib), WellNamed, draft.domain
  PROVE  DOMAIN lib \ draft.superseded \subseteq Sealing(SealedRuns)
<1> DEFINE invoked == {s.transform : s \in Range(pipeline)} \intersect Transform
           next == [t \in DOMAIN lib |-> {s.names : s \in Steps(lib, t)} \intersect Transform]
           wide == [t \in DOMAIN sealed.forms |-> {s.runs : s \in Range(sealed.forms[t].stream)}]
           n == Cardinality(DOMAIN lib)
<1>1. /\ IsLibrary(lib) /\ SurfaceDerived /\ Lowers(lib) /\ sealed.forms = Forms(lib)
  BY DEF StageAccounted, Linked, Judged, Formed, Composed, Refusal, Conforms, IsDraft, lib
<1>2. n \in Nat
  BY <1>1, FS_CardinalityType DEF IsLibrary
<1>3. DOMAIN sealed.forms = DOMAIN lib
  BY <1>1, FormsUnfold
<1>4. DOMAIN lib \ draft.superseded \subseteq Spread(invoked, next, n)
  BY <1>1 DEF SurfaceDerived, ReachedFrom
<1>5. invoked \subseteq SealedRuns
  BY SealedSteps
<1>6. \A x \in DOMAIN lib : next[x] \subseteq wide[x]
  <2>1. SUFFICES ASSUME NEW x \in DOMAIN lib
                 PROVE  next[x] \subseteq wide[x]
    OBVIOUS
  <2>2. next[x] = {s.names : s \in Steps(lib, x)} \intersect Transform
    OBVIOUS
  <2>3. wide[x] = {s.runs : s \in Range(sealed.forms[x].stream)}
    BY <1>3
  <2>4. QED
    BY <2>2, <2>3, SealedLeadsOn
<1>7. DOMAIN next = DOMAIN lib /\ DOMAIN wide = DOMAIN lib
  BY <1>3
<1>8. Sealing(SealedRuns) = Spread(SealedRuns, wide, n)
  BY DEF Sealing
<1> HIDE DEF invoked, next, wide, n
<1>9. Spread(invoked, next, n) \subseteq Spread(SealedRuns, wide, n)
  BY <1>2, <1>5, <1>6, <1>7, SpreadFollows
<1>10. QED
  BY <1>4, <1>8, <1>9

\* Nothing but what is declared, and the side effects, is run.
LEMMA SealingStaysInside ==
  ASSUME StageAccounted, stage \in Composed, Unambiguous(lib), AtomsRunAlone(lib), WellNamed
  PROVE  Sealing(SealedRuns) \subseteq DOMAIN lib \union Effect
<1> DEFINE wide == [t \in DOMAIN sealed.forms |-> {s.runs : s \in Range(sealed.forms[t].stream)}]
           n == Cardinality(DOMAIN lib)
           U == DOMAIN lib \union Effect
<1>1. /\ IsLibrary(lib) /\ Lowers(lib) /\ sealed.forms = Forms(lib)
  BY DEF StageAccounted, Linked, Judged, Formed, Composed, Refusal, IsDraft, lib
<1>2. n \in Nat
  BY <1>1, FS_CardinalityType DEF IsLibrary
<1>3. DOMAIN sealed.forms = DOMAIN lib
  BY <1>1, FormsUnfold
<1>4. SealedRuns \subseteq U
  BY SealedSteps
<1>5. \A x \in U \intersect DOMAIN wide : wide[x] \subseteq U
  <2>1. SUFFICES ASSUME NEW x \in DOMAIN lib
                 PROVE  {s.runs : s \in Range(sealed.forms[x].stream)} \subseteq U
    BY <1>3
  <2>2. QED
    BY SealedLeadsOn
<1>6. Sealing(SealedRuns) = Spread(SealedRuns, wide, n)
  BY DEF Sealing
<1> HIDE DEF wide, n, U
<1>7. Spread(SealedRuns, wide, n) \subseteq U
  BY <1>2, <1>4, <1>5, SpreadWithin
<1>8. QED
  BY <1>6, <1>7 DEF U

\* What the stages leave gives the properties of what was compiled.
LEMMA StageHolds ==
  ASSUME StageAccounted
  PROVE  /\ AdmittedIsLowered /\ ActsKeepToTheirReach /\ EntersThroughItsGate
         /\ NothingDeclaredIsIdle /\ RunsWhatIsListed
<1>1. AdmittedIsLowered
  <2>1. SUFFICES ASSUME stage = "refused at S5", Unambiguous(lib), ~NestedBeyondTheBound
                 PROVE  FALSE
    BY DEF AdmittedIsLowered
  <2>2. Conforms /\ ~Lowers(lib) /\ IsLibrary(lib)
    BY <2>1 DEF StageAccounted, Judged, Refusal, IsDraft, lib
  <2>3. QED
    BY <2>1, <2>2, ConformingLowers
<1>2. ASSUME stage \in {"S6", "S7"}
      PROVE  /\ Conforms /\ IsDraft(draft) /\ stage \in Composed
             /\ sealed.storage = StorageOf(draft.acts)
             /\ sealed.entrance = EntranceOf(draft.entrance, draft.acts, draft.superseded)
  BY <1>2 DEF StageAccounted, Judged, Composed
<1>3. ActsKeepToTheirReach
  <2>1. SUFFICES ASSUME stage \in {"S6", "S7"}
                 PROVE  KeepsToItsReach(draft.acts, sealed.storage)
    BY DEF ActsKeepToTheirReach
  <2>2. StorageOwned(draft.acts)
    BY <1>2, <2>1 DEF Conforms
  <2>3. QED
    BY <1>2, <2>1, <2>2, StorageKept DEF IsDraft
<1>4. EntersThroughItsGate
  <2>1. SUFFICES ASSUME stage \in {"S6", "S7"}
                 PROVE  GatesHold(draft.entrance, draft.superseded, sealed.entrance)
    BY DEF EntersThroughItsGate
  <2>2. Enterable(draft.entrance, draft.superseded)
    BY <1>2, <2>1 DEF Conforms
  <2>3. QED
    BY <1>2, <2>1, <2>2, GatesKept
<1>5. NothingDeclaredIsIdle
  BY <1>2, SealingHoldsInForce DEF NothingDeclaredIsIdle, SealedRuns
<1>6. RunsWhatIsListed
  <2>1. SUFFICES ASSUME stage \in {"S6", "S7"}, Unambiguous(lib), AtomsRunAlone(lib), WellNamed
                 PROVE  LET running == Sealing(SealedRuns)
                            f       == draft.surfaces
                        IN  /\ \A a \in f.transforms :
                                 /\ \A x \in running \ Effect : SpeaksFor(f, a, x) => x \in a.allowed
                                 /\ draft.domain /\ Platform \notin a.scope =>
                                      a.allowed \ draft.superseded \subseteq running
                            /\ \A a \in f.effects : \A x \in running \intersect Effect :
                                 SpeaksFor(f, a, x) =>
                                   x \in a.allowed /\ EffectCode[x] \in BoundCodes(draft.acts) \union f.implemented
    BY DEF RunsWhatIsListed, SealedRuns
  <2> DEFINE running == Sealing(SealedRuns)
             f == draft.surfaces
  <2>2. running \subseteq DOMAIN lib \union Effect
    BY <1>2, <2>1, SealingStaysInside
  <2>3. draft.domain => DOMAIN lib \ draft.superseded \subseteq running
    BY <1>2, <2>1, SealingHoldsInForce
  <2>4. /\ TransformsClosed(f, lib, draft.domain) /\ EffectsClosed(f, draft.acts, draft.domain)
    BY <1>2, <2>1 DEF Conforms
  <2> HIDE DEF running
  <2>5. ASSUME NEW a \in f.transforms
        PROVE  /\ \A x \in running \ Effect : SpeaksFor(f, a, x) => x \in a.allowed
               /\ draft.domain /\ Platform \notin a.scope => a.allowed \ draft.superseded \subseteq running
    BY <2>2, <2>3, <2>4 DEF TransformsClosed, Closed
  <2>6. ASSUME NEW a \in f.effects, NEW x \in running \intersect Effect, SpeaksFor(f, a, x)
        PROVE  x \in a.allowed /\ EffectCode[x] \in BoundCodes(draft.acts) \union f.implemented
    BY <2>4, <2>6 DEF EffectsClosed, Closed
  <2>7. QED
    BY <2>5, <2>6 DEF running
<1>7. QED
  BY <1>1, <1>3, <1>4, <1>5, <1>6

=============================================================================
