--------------------------- MODULE WorkflowProofs ---------------------------
(***************************************************************************)
(* What is proved of one workflow for every set of declarations: that the  *)
(* tables it is executed from answer every outcome, run what S2 resolved,  *)
(* keep results apart and walk the declaration; that the two searches S4   *)
(* makes over its routing end and find what they are to find; and that an  *)
(* execution runs no place twice.                                          *)
(***************************************************************************)
EXTENDS RoutingSearch, Recursion

\* What a reference is resolved to is in the graph.
LEMMA NamedIsPresent ==
  ASSUME NEW d \in Declaration, NEW ref \in Ref
  PROVE  Named(d, ref) \in d.present \union {None}
<1> d \in DeclarationType
  BY WorkflowAssumption
<1>0. \A r \in d.present : r \notin Code
  BY WorkflowAssumption DEF DeclarationType
<1>1. CASE ref \in d.present
  BY <1>0, <1>1 DEF Named
<1>2. CASE /\ ref \notin d.present
           /\ ref \in Code
           /\ \E a \in d.present \intersect Own : CodeOf[a] = ref
  BY <1>2 DEF Named
<1>3. CASE /\ ref \notin d.present
           /\ ref \in Code
           /\ ~\E a \in d.present \intersect Own : CodeOf[a] = ref
  <2>1. d.last[ref] \in d.present \union {None}
    BY <1>3, WorkflowAssumption
  <2>2. Named(d, ref) = d.last[ref]
    BY <1>3 DEF Named
  <2>3. QED
    BY <2>1, <2>2
<1>4. CASE ref \notin d.present /\ ref \notin Code
  BY <1>4 DEF Named
<1>5. QED
  BY <1>1, <1>2, <1>3, <1>4

\* What a node or a name runs is an artifact of the graph.
LEMMA RunsIsPresent ==
  ASSUME NEW d \in Declaration, NEW p
  PROVE  /\ Runs(d, p) \in d.present \union {None}
         /\ d.present \subseteq Artifact
<1> d \in DeclarationType
  BY WorkflowAssumption
<1>1. d.present \subseteq Artifact
  BY DEF DeclarationType
<1>2. CASE p \in d.keys
  <2> DEFINE ref == IF d.fqdnId[p] # None THEN d.fqdnId[p] ELSE d.code[p]
  <2>1. ref \in Ref
    BY <1>2 DEF DeclarationType
  <2>2. Runs(d, p) = Named(d, ref)
    <3>1. p \notin d.present
      BY <1>2, WorkflowAssumption DEF DeclarationType
    <3>2. QED
      BY <1>2, <3>1 DEF Runs
  <2>3. QED
    BY <1>1, <2>1, <2>2, NamedIsPresent
<1>3. CASE p \notin d.keys
  BY <1>1, <1>3 DEF Runs
<1>4. QED
  BY <1>2, <1>3

\* At no place, nothing runs.
LEMMA NothingRunsNowhere ==
  ASSUME NEW d \in Declaration
  PROVE  Runs(d, None) = None
<1>1. d \in DeclarationType
  BY WorkflowAssumption
<1>2. None \notin d.keys /\ None \notin d.present
  BY <1>1, WorkflowAssumption DEF DeclarationType
<1>3. QED
  BY <1>2 DEF Runs

\* An edge of the topology leads to a place that runs an artifact.
LEMMA EdgesRun ==
  ASSUME NEW d \in Declaration, TransitionsResolve(d), NEW e \in Edges(d)
  PROVE  e.to \in Place /\ Runs(d, e.to) \in Artifact
<1> d \in DeclarationType
  BY WorkflowAssumption
<1>1. Runs(d, e.to) # None
  BY DEF Edges, NextEdges, TransitionsResolve
<1>2. e.to \in Place
  BY DEF Edges, NextEdges, DeclarationType, Place
<1>3. QED
  BY <1>1, <1>2, RunsIsPresent

\* One explicit transition at most starts at a place on a condition, and one continuation of
\* `next`: one edge of the place and the condition is the last in the order of the graph.
LEMMA LastEdge ==
  ASSUME NEW d \in Declaration, TransitionsResolve(d), NEW p, NEW c,
         EdgesOn(d, p, c) # {}
  PROVE  \E e \in EdgesOn(d, p, c) : \A f \in EdgesOn(d, p, c) : f = e \/ Later(d, e, f)
<1> DEFINE S == EdgesOn(d, p, c)
<1>1. \A e, f \in S : e \in d.transitions /\ f \in d.transitions => e = f
  BY WorkflowAssumption DEF EdgesOn, Edges
<1>2. \A e, f \in S : e \in NextEdges(d) /\ f \in NextEdges(d) => e = f
  BY DEF EdgesOn, Edges, NextEdges
<1>3. \A e \in S : e \in NextEdges(d) \/ e \in d.transitions
  BY DEF EdgesOn, Edges
<1>4. \A e \in S : Rank[Runs(d, e.to)] \in Nat
  BY EdgesRun, WorkflowAssumption DEF EdgesOn
<1>5. CASE \E e, f \in S : e # f
  <2>1. PICK e, f \in S : e # f /\ e \in NextEdges(d) /\ f \in d.transitions
    BY <1>1, <1>2, <1>3, <1>5
  <2>2. \A g \in S : g = e \/ g = f
    BY <1>1, <1>2, <1>3, <2>1
  <2>3. Later(d, e, f) \/ Later(d, f, e)
    BY <1>4, <2>1 DEF Later
  <2>4. QED
    BY <2>2, <2>3
<1>6. CASE ~\E e, f \in S : e # f
  BY <1>6
<1>7. QED
  BY <1>5, <1>6

\* An entry of the routing leads to a place, with the address of what that place runs.
LEMMA RoutingEntryRuns ==
  ASSUME NEW d \in Declaration, TransitionsResolve(d), NEW p, NEW c,
         RoutingEntry(d, p, c) # None
  PROVE  /\ RoutingEntry(d, p, c) \in [addr : Artifact, key : Place]
         /\ RoutingEntry(d, p, c).addr = Runs(d, RoutingEntry(d, p, c).key)
<1>1. Addressed(d, c) /\ EdgesOn(d, p, c) # {}
  BY DEF RoutingEntry
<1> DEFINE e == CHOOSE g \in EdgesOn(d, p, c) :
                  \A f \in EdgesOn(d, p, c) : f = g \/ Later(d, g, f)
<1>2. e \in EdgesOn(d, p, c)
  BY <1>1, LastEdge
<1>3. e.to \in Place /\ Runs(d, e.to) \in Artifact
  BY <1>2, EdgesRun DEF EdgesOn
<1>4. RoutingEntry(d, p, c) = [addr |-> Runs(d, e.to), key |-> e.to]
  BY <1>1 DEF RoutingEntry
<1> HIDE DEF e
<1>5. QED
  BY <1>3, <1>4

\* The sealed tables, entry by entry.
LEMMA SealedTables ==
  ASSUME NEW d, NEW p \in Place, NEW c \in Condition
  PROVE  /\ Seal(d).routing[p][c] = RoutingEntry(d, p, c)
         /\ Seal(d).terminal[p][c] =
              IF EndsAt(d, p, c) /\ Addressed(d, c) THEN d.next[p][c] ELSE None
         /\ Seal(d).emits[p][c] = IF EndsAt(d, p, c) THEN d.emit[d.next[p][c]] ELSE None
         /\ Seal(d).entry = Entry(d)
BY DEF Seal

\* The tables of a declaration whose transitions resolve are tables.
LEMMA SealTyped ==
  ASSUME NEW d \in Declaration, TransitionsResolve(d)
  PROVE  Seal(d) \in TableType
<1> d \in DeclarationType
  BY WorkflowAssumption
<1>1. \A p \in Place, c \in Condition :
        RoutingEntry(d, p, c) \in [addr : Artifact, key : Place] \union {None}
  BY RoutingEntryRuns
<1>2. \A p \in Place, c \in Condition :
        EndsAt(d, p, c) => d.next[p][c] \in Key /\ d.emit[d.next[p][c]] \in Event \union {None}
  BY DEF EndsAt, IsExit, DeclarationType
<1>3. Entry(d) \in [start : Artifact, key : Place] \union {None}
  <2>1. Runs(d, d.start) # None => d.start \in Place /\ Runs(d, d.start) \in Artifact
    BY NothingRunsNowhere, RunsIsPresent DEF DeclarationType
  <2>2. QED
    BY <2>1 DEF Entry
<1>4. \A k \in Key : Bound(d, k) => Enriched(d, k) \in Artifact
  BY DEF Bound, DeclarationType
<1>5. \A k \in Key : Enriched(d, k) \in Ref
  <2> SUFFICES ASSUME NEW k \in Key PROVE Enriched(d, k) \in Ref
    OBVIOUS
  <2>1. d.fqdnId[k] \in Ref /\ d.code[k] \in Ref
    BY DEF DeclarationType
  <2>2. SecondRef(d, k) \in Ref
    BY <2>1 DEF SecondRef
  <2>3. SecondRef(d, k) \in Code => d.last[SecondRef(d, k)] \in Ref
    BY DEF DeclarationType, Ref
  <2>4. CASE d.type[k] = "EXIT"
    BY <2>1, <2>4 DEF Enriched
  <2>5. CASE d.type[k] # "EXIT" /\ SecondRef(d, k) \in Code
    BY <2>3, <2>5 DEF Enriched
  <2>6. CASE d.type[k] # "EXIT" /\ SecondRef(d, k) \notin Code
    BY <2>2, <2>6 DEF Enriched
  <2>7. QED
    BY <2>4, <2>5, <2>6
<1>6. Seal(d).routing \in [Place -> [Condition -> [addr : Artifact, key : Place] \union {None}]]
  BY <1>1 DEF Seal
<1>7. Seal(d).terminal \in [Place -> [Condition -> Key \union {None}]]
  BY <1>2 DEF Seal
<1>8. Seal(d).emits \in [Place -> [Condition -> Event \union {None}]]
  BY <1>2 DEF Seal
<1>9. Seal(d).bindings \in [Key -> [Key -> Artifact \union {None}]]
  BY <1>4 DEF Seal
<1>10. Seal(d).named \in [Key -> Ref]
  BY <1>5 DEF Seal, Ref
<1>11. QED
  BY <1>3, <1>6, <1>7, <1>8, <1>9, <1>10 DEF Seal, TableType

\* The continuations of a node that is reached are reached.
LEMMA ReachGoesOn ==
  ASSUME NEW d, NEW k \in Reachable(d), NEW c \in Condition, d.next[k][c] \in d.keys
  PROVE  d.next[k][c] \in Reachable(d)
BY DEF Reachable, Closed

\* A start that is declared is reached.
LEMMA StartIsReached ==
  ASSUME NEW d, d.start \in d.keys
  PROVE  d.start \in Reachable(d)
BY DEF Reachable
------------------------------------------------------------------------------
Executed == {"running", "ended", "unanswered"}
AfterS8  == Executed \union {"sealed"}
AfterS6  == AfterS8 \union {"projected"}
AfterS4  == AfterS6 \union {"governed", "constructed"}
AfterS2  == AfterS4 \union {"canonical"}

\* What each stage found is still so of the declaration handed on.
PassedStages ==
  /\ phase \in AfterS2 => TransitionsResolve(declared)
  /\ phase \in AfterS4 => Governed(declared)
  /\ phase \in AfterS6 => sealed = Seal(declared)
  /\ phase \in AfterS8 => Faithful(declared, sealed)

\* Execution is at a node of its walk, and ran what that node resolves to.
WalkAccounted ==
  /\ phase \notin Executed => place = None /\ ending = None /\ announced = None
  /\ phase \in Executed =>
       /\ place \in Place /\ runs \in Artifact
       /\ runs = Runs(declared, place)
       /\ ~declared.superseded
       /\ phase # "ended" => ending = None /\ announced = None

\* Of a well formed declaration only nodes that S4 reached are run.
StaysInReach ==
  phase \in Executed /\ WellFormed(declared) =>
    /\ place \in Reachable(declared)
    /\ ~IsExit(declared, place)
    /\ \A r \in visited : r \in declared.keys /\ Runs(declared, r) # None

\* The result of every node left behind is kept.
ResultsKept ==
  phase \in Executed /\ WellFormed(declared) /\ Apart(declared) =>
    \A r \in visited \ {place} : results[Runs(declared, r)] = r

IInv ==
  /\ declared \in Declaration
  /\ TypeOK
  /\ PassedStages
  /\ WalkAccounted
  /\ StaysInReach
  /\ ResultsKept
  /\ AnswersEveryOutcome
------------------------------------------------------------------------------
(* What the runtime does with sealed tables that S8 found faithful. *)

\* An execution begins at the declared start, with what it runs.
LEMMA BeginsAtStart ==
  ASSUME IInv, Begin
  PROVE  /\ place' = declared.start
         /\ runs' = Runs(declared, place')
         /\ place' \in Place /\ runs' \in Artifact
         /\ ~declared.superseded
<1>1. sealed.entry = Entry(declared) /\ sealed.entry # None
  BY DEF IInv, PassedStages, Begin, AfterS6, AfterS8, Seal
<1>2. /\ ~declared.superseded /\ Runs(declared, declared.start) # None
      /\ sealed.entry = [start |-> Runs(declared, declared.start), key |-> declared.start]
  BY <1>1 DEF Entry
<1>3. declared.start \in Place
  BY <1>2, NothingRunsNowhere, WorkflowAssumption DEF IInv, TypeOK, DeclarationType
<1>4. Runs(declared, declared.start) \in Artifact
  BY <1>2, RunsIsPresent DEF IInv
<1>5. QED
  BY <1>2, <1>3, <1>4 DEF Begin

\* It continues where the declaration leads.
LEMMA ContinuesAsDeclared ==
  ASSUME IInv, NEW c \in Condition, Continue(c)
  PROVE  /\ place \in declared.keys
         /\ declared.next[place][c] \in declared.keys
         /\ ~IsExit(declared, declared.next[place][c])
         /\ place' = declared.next[place][c]
         /\ runs' = Runs(declared, place')
         /\ place' \in Place /\ runs' \in Artifact
<1>1. /\ sealed = Seal(declared) /\ Faithful(declared, sealed) /\ TransitionsResolve(declared)
      /\ place \in Place
  BY DEF IInv, PassedStages, WalkAccounted, Continue, Yields, AfterS2, AfterS4, AfterS6, AfterS8,
         Executed
<1>2. /\ sealed.routing[place][c] # None
      /\ place' = sealed.routing[place][c].key /\ runs' = sealed.routing[place][c].addr
  BY DEF Continue
<1>3. Answers(declared, place, c) /\ ~IsExit(declared, declared.next[place][c])
  BY <1>1, <1>2 DEF Faithful
<1>4. place \in declared.keys /\ declared.next[place][c] \in declared.keys
  BY <1>3 DEF Answers
<1>5. declared.next[place][c] # None
  BY <1>4, WorkflowAssumption DEF IInv, TypeOK, DeclarationType
<1>6. Realized(declared, sealed, place, c)
  BY <1>1, <1>4, <1>5 DEF Faithful
<1>7. sealed.routing[place][c].key = declared.next[place][c]
  BY <1>3, <1>6 DEF Realized
<1>8. sealed.routing[place][c] = RoutingEntry(declared, place, c)
  BY <1>1, SealedTables
<1>9. /\ sealed.routing[place][c] \in [addr : Artifact, key : Place]
      /\ sealed.routing[place][c].addr = Runs(declared, sealed.routing[place][c].key)
  BY <1>1, <1>2, <1>8, RoutingEntryRuns DEF IInv
<1>10. QED
  BY <1>2, <1>3, <1>4, <1>7, <1>9

\* It ends where the declaration ends, with what is announced there.
LEMMA EndsAsDeclared ==
  ASSUME IInv, NEW c \in Condition, End(c)
  PROVE  /\ place \in declared.keys
         /\ declared.next[place][c] \in declared.keys
         /\ declared.type[declared.next[place][c]] = "EXIT"
         /\ ending' = declared.next[place][c]
         /\ announced' = declared.emit[declared.next[place][c]]
<1>1. sealed = Seal(declared) /\ place \in Place
  BY DEF IInv, PassedStages, WalkAccounted, End, Yields, AfterS6, AfterS8, Executed
<1>2. /\ sealed.terminal[place][c] # None
      /\ ending' = sealed.terminal[place][c] /\ announced' = sealed.emits[place][c]
  BY DEF End
<1>3. EndsAt(declared, place, c) /\ sealed.terminal[place][c] = declared.next[place][c]
  BY <1>1, <1>2, SealedTables
<1>4. sealed.emits[place][c] = declared.emit[declared.next[place][c]]
  BY <1>1, <1>3, SealedTables
<1>5. QED
  BY <1>2, <1>3, <1>4 DEF EndsAt, IsExit

\* Closure over what `next` declares is closure of what was sealed.
LEMMA RefusesIllFormedOnly ==
  ASSUME IInv, NEW c \in Condition, Refuse(c)
  PROVE  ~WellFormed(declared)
<1> SUFFICES ASSUME WellFormed(declared) PROVE FALSE
  OBVIOUS
<1>1. phase = "running" /\ c \in declared.outcomes[runs]
      /\ sealed.routing[place][c] = None /\ sealed.terminal[place][c] = None
  BY DEF Refuse, Yields
<1>2. /\ Governed(declared) /\ Faithful(declared, sealed)
      /\ runs \in Artifact /\ runs = Runs(declared, place) /\ ~declared.superseded
      /\ place \in Reachable(declared) /\ ~IsExit(declared, place)
  BY <1>1 DEF IInv, PassedStages, WalkAccounted, StaysInReach, AfterS4, AfterS6, AfterS8, Executed
<1>3. place \in declared.keys
  BY <1>2 DEF Reachable
<1>4. declared.type[place] # "EXIT"
  BY <1>2, <1>3 DEF IsExit
<1>5. runs # None
  BY <1>2, WorkflowAssumption
<1>6. KindOf[Runs(declared, place)] = declared.type[place]
  BY <1>2, <1>3, <1>4, <1>5 DEF WellFormed
<1>7. c \in Declares(declared, place)
  BY <1>1, <1>2, <1>4, <1>5, <1>6 DEF Declares
<1>8. declared.next[place][c] # None
  BY <1>2, <1>7 DEF Governed, RoutingClosed
<1>9. Realized(declared, sealed, place, c)
  BY <1>2, <1>3, <1>8 DEF Faithful
<1>10. CASE IsExit(declared, declared.next[place][c])
  BY <1>1, <1>8, <1>9, <1>10 DEF Realized
<1>11. CASE ~IsExit(declared, declared.next[place][c])
  BY <1>1, <1>9, <1>11 DEF Realized
<1>12. QED
  BY <1>10, <1>11
------------------------------------------------------------------------------
(* The invariant is inductive. *)

StageStep == Canonicalize \/ Govern \/ Construct \/ Project \/ Verify

\* A stage leaves the declaration and the walk alone.
LEMMA StagesLeaveTheWalk ==
  StageStep => declared' = declared /\ walkState' = walkState
BY DEF StageStep, Canonicalize, Govern, Construct, Project, Verify, Stage

\* The invariant holds before anything was sealed.
LEMMA InitEstablishes == Init => IInv
<1> SUFFICES ASSUME Init PROVE IInv
  OBVIOUS
<1>1. TypeOK
  BY WorkflowAssumption DEF Init, TypeOK, Phase
<1>2. PassedStages
  BY DEF Init, PassedStages, AfterS2, AfterS4, AfterS6, AfterS8, Executed
<1>3. WalkAccounted /\ StaysInReach /\ ResultsKept /\ AnswersEveryOutcome
  BY DEF Init, WalkAccounted, StaysInReach, ResultsKept, AnswersEveryOutcome, Executed
<1>4. QED
  BY <1>1, <1>2, <1>3 DEF IInv, Init

\* A step keeps the types and the declaration.
LEMMA TypeStep == IInv /\ [Next]_vars => TypeOK' /\ declared' = declared
<1> SUFFICES ASSUME IInv, [Next]_vars PROVE TypeOK' /\ declared' = declared
  OBVIOUS
<1> USE DEF TypeOK, Phase
<1>1. CASE Canonicalize \/ Govern \/ Construct \/ Verify
  BY <1>1 DEF IInv, Canonicalize, Govern, Construct, Verify, Stage, walkState
<1>2. CASE Project
  <2>1. Seal(declared) \in TableType
    BY <1>2, SealTyped DEF IInv, PassedStages, Project, Stage, AfterS2, AfterS4
  <2>2. QED
    BY <1>2, <2>1 DEF IInv, Project, Stage, walkState
<1>3. CASE Begin
  BY <1>3, BeginsAtStart DEF IInv, Begin
<1>4. ASSUME NEW c \in Condition, Continue(c) PROVE TypeOK' /\ declared' = declared
  <2>1. place' \in Place /\ runs' \in Artifact
    BY <1>4, ContinuesAsDeclared
  <2>2. results' \in [Artifact -> Place \union {None}]
    BY <1>4 DEF IInv, Continue, Yields
  <2>3. visited' \in SUBSET Place
    BY <1>4, <2>1 DEF IInv, Continue
  <2>4. QED
    BY <1>4, <2>1, <2>2, <2>3 DEF IInv, Continue
<1>5. ASSUME NEW c \in Condition, End(c) PROVE TypeOK' /\ declared' = declared
  <2>1. declared \in DeclarationType
    BY DEF IInv
  <2>2. ending' \in Key /\ announced' \in Event \union {None}
    BY <1>5, <2>1, EndsAsDeclared DEF DeclarationType
  <2>3. results' \in [Artifact -> Place \union {None}]
    BY <1>5 DEF IInv, End, Yields
  <2>4. QED
    BY <1>5, <2>2, <2>3 DEF IInv, End
<1>6. ASSUME NEW c \in Condition, Refuse(c) PROVE TypeOK' /\ declared' = declared
  <2>1. results' \in [Artifact -> Place \union {None}]
    BY <1>6 DEF IInv, Refuse, Yields
  <2>2. QED
    BY <1>6, <2>1 DEF IInv, Refuse
<1>7. CASE UNCHANGED vars
  BY <1>7 DEF IInv, vars, walkState
<1>8. QED
  BY <1>1, <1>2, <1>3, <1>4, <1>5, <1>6, <1>7 DEF Next, Answer

\* No stage is passed twice, and what it found holds of a declaration that never changes.
LEMMA PassedStagesStep == IInv /\ [Next]_vars => PassedStages'
<1> SUFFICES ASSUME IInv, [Next]_vars PROVE PassedStages'
  OBVIOUS
<1>0. declared' = declared
  BY TypeStep
<1> USE DEF IInv, PassedStages, AfterS2, AfterS4, AfterS6, AfterS8, Executed
<1>1. CASE Canonicalize
  BY <1>0, <1>1 DEF Canonicalize, Stage
<1>2. CASE Govern
  BY <1>0, <1>2 DEF Govern, Stage
<1>3. CASE Construct
  BY <1>0, <1>3 DEF Construct, Stage
<1>4. CASE Project
  BY <1>0, <1>4 DEF Project, Stage
<1>5. CASE Verify
  BY <1>0, <1>5 DEF Verify, Stage
<1>6. CASE Begin
  BY <1>0, <1>6 DEF Begin
<1>7. CASE Answer
  BY <1>0, <1>7 DEF Answer, Continue, End, Refuse, Yields
<1>8. CASE UNCHANGED vars
  BY <1>0, <1>8 DEF vars
<1>9. QED
  BY <1>1, <1>2, <1>3, <1>4, <1>5, <1>6, <1>7, <1>8 DEF Next

\* A step keeps to the declared walk.
LEMMA WalkAccountedStep == IInv /\ [Next]_vars => WalkAccounted'
<1> SUFFICES ASSUME IInv, [Next]_vars PROVE WalkAccounted'
  OBVIOUS
<1>0. declared' = declared
  BY TypeStep
<1> USE DEF WalkAccounted, Executed
<1>1. CASE StageStep
  <2>1. phase \notin Executed /\ phase' \notin Executed
    BY <1>1 DEF StageStep, Canonicalize, Govern, Construct, Project, Verify, Stage
  <2>2. QED
    BY <1>1, <2>1, StagesLeaveTheWalk DEF IInv, walkState
<1>2. CASE Begin
  BY <1>0, <1>2, BeginsAtStart DEF IInv, Begin
<1>3. ASSUME NEW c \in Condition, Continue(c) PROVE WalkAccounted'
  BY <1>0, <1>3, ContinuesAsDeclared DEF IInv, Continue, Yields
<1>4. ASSUME NEW c \in Condition, End(c) PROVE WalkAccounted'
  BY <1>0, <1>4 DEF IInv, End, Yields
<1>5. ASSUME NEW c \in Condition, Refuse(c) PROVE WalkAccounted'
  BY <1>0, <1>5 DEF IInv, Refuse, Yields
<1>6. CASE UNCHANGED vars
  BY <1>0, <1>6 DEF IInv, vars, walkState
<1>7. QED
  BY <1>1, <1>2, <1>3, <1>4, <1>5, <1>6 DEF Next, Answer, StageStep

\* A step stays within what is reachable.
LEMMA StaysInReachStep == IInv /\ [Next]_vars => StaysInReach'
<1>0. IInv /\ [Next]_vars => declared' = declared
  BY TypeStep
<1> SUFFICES ASSUME IInv, [Next]_vars, (phase \in Executed)', WellFormed(declared)
             PROVE  /\ place' \in Reachable(declared)
                    /\ ~IsExit(declared, place')
                    /\ \A r \in visited' : r \in declared.keys /\ Runs(declared, r) # None
  BY <1>0 DEF StaysInReach
<1>1. ~StageStep
  BY DEF StageStep, Canonicalize, Govern, Construct, Project, Verify, Stage, Executed
<1>2. CASE Begin
  <2>1. place' = declared.start /\ place' \in Place /\ Runs(declared, place') \in Artifact
    BY <1>2, BeginsAtStart
  <2>2. place' # None /\ Runs(declared, place') # None
    BY <2>1, WorkflowAssumption DEF Place
  <2>3. place' \in declared.keys /\ ~IsExit(declared, place')
    BY <2>1, <2>2 DEF WellFormed
  <2>4. visited' = {place'}
    BY <1>2 DEF Begin
  <2>5. QED
    BY <2>1, <2>2, <2>3, <2>4, StartIsReached
<1>3. ASSUME NEW c \in Condition, Continue(c)
      PROVE  /\ place' \in Reachable(declared)
             /\ ~IsExit(declared, place')
             /\ \A r \in visited' : r \in declared.keys /\ Runs(declared, r) # None
  <2>1. /\ declared.next[place][c] \in declared.keys
        /\ ~IsExit(declared, declared.next[place][c])
        /\ place' = declared.next[place][c]
        /\ Runs(declared, place') \in Artifact
    BY <1>3, ContinuesAsDeclared
  <2>2. place \in Reachable(declared)
    BY <1>3 DEF IInv, StaysInReach, Continue, Yields, Executed
  <2>3. place' \in Reachable(declared)
    BY <2>1, <2>2, ReachGoesOn
  <2>4. Runs(declared, place') # None
    BY <2>1, WorkflowAssumption
  <2>5. visited' = visited \union {place'}
    BY <1>3 DEF Continue
  <2>6. \A r \in visited : r \in declared.keys /\ Runs(declared, r) # None
    BY <1>3 DEF IInv, StaysInReach, Continue, Yields, Executed
  <2>7. QED
    BY <2>1, <2>3, <2>4, <2>5, <2>6
<1>4. ASSUME NEW c \in Condition, End(c) \/ Refuse(c)
      PROVE  /\ place' \in Reachable(declared)
             /\ ~IsExit(declared, place')
             /\ \A r \in visited' : r \in declared.keys /\ Runs(declared, r) # None
  BY <1>4 DEF IInv, StaysInReach, End, Refuse, Yields, Executed
<1>5. CASE UNCHANGED vars
  BY <1>5 DEF IInv, StaysInReach, vars, walkState
<1>6. QED
  BY <1>1, <1>2, <1>3, <1>4, <1>5 DEF Next, Answer, StageStep

\* The one result overwritten by a step is that of the node at hand.
LEMMA ResultsKeptStep == IInv /\ [Next]_vars => ResultsKept'
<1>0. IInv /\ [Next]_vars => declared' = declared
  BY TypeStep
<1> SUFFICES ASSUME IInv, [Next]_vars, (phase \in Executed)', WellFormed(declared),
                    Apart(declared), NEW r \in visited', r # place'
             PROVE  results'[Runs(declared, r)] = r
  BY <1>0 DEF ResultsKept
<1>1. ~StageStep
  BY DEF StageStep, Canonicalize, Govern, Construct, Project, Verify, Stage, Executed
<1>2. ~Begin
  BY DEF Begin
<1>3. ASSUME NEW c \in Condition, Continue(c) \/ End(c) \/ Refuse(c)
      PROVE  results'[Runs(declared, r)] = r
  <2>1. /\ phase = "running" /\ results' = [results EXCEPT ![runs] = place]
        /\ results \in [Artifact -> Place \union {None}]
        /\ runs \in Artifact /\ runs = Runs(declared, place)
    BY <1>3 DEF IInv, TypeOK, WalkAccounted, Continue, End, Refuse, Yields, Executed
  <2>2. r \in visited
    BY <1>3 DEF Continue, End, Refuse
  <2>3. \A k \in visited : k \in declared.keys /\ Runs(declared, k) # None
    BY <2>1 DEF IInv, StaysInReach, Executed
  <2>4. CASE r = place
    BY <2>1, <2>4
  <2>5. CASE r # place
    <3>1. place \in declared.keys
      BY <2>1 DEF IInv, StaysInReach, Reachable, Executed
    <3>2. Runs(declared, r) # runs
      BY <2>1, <2>2, <2>3, <2>5, <3>1 DEF Apart
    <3>3. Runs(declared, r) \in Artifact
      BY <2>2, <2>3, RunsIsPresent DEF IInv
    <3>4. results[Runs(declared, r)] = r
      BY <2>1, <2>2, <2>5 DEF IInv, ResultsKept, Executed
    <3>5. QED
      BY <2>1, <3>2, <3>3, <3>4
  <2>6. QED
    BY <2>4, <2>5
<1>4. CASE UNCHANGED vars
  BY <1>4 DEF IInv, ResultsKept, vars, walkState
<1>5. QED
  BY <1>1, <1>2, <1>3, <1>4 DEF Next, Answer, StageStep

\* Every step keeps the invariant.
LEMMA InvariantStep == IInv /\ [Next]_vars => IInv'
<1> SUFFICES ASSUME IInv, [Next]_vars PROVE IInv'
  OBVIOUS
<1>1. TypeOK' /\ declared' = declared
  BY TypeStep
<1>2. AnswersEveryOutcome'
  <2>1. CASE \E c \in Condition : Refuse(c)
    BY <1>1, <2>1, RefusesIllFormedOnly DEF AnswersEveryOutcome
  <2>2. CASE ~\E c \in Condition : Refuse(c)
    <3>1. phase' = "unanswered" => phase = "unanswered"
      BY <2>2 DEF Next, Canonicalize, Govern, Construct, Project, Verify, Stage, Begin, Answer,
                  Continue, End, Yields, vars
    <3>2. QED
      BY <1>1, <3>1 DEF IInv, AnswersEveryOutcome
  <2>3. QED
    BY <2>1, <2>2
<1>3. PassedStages' /\ WalkAccounted' /\ StaysInReach' /\ ResultsKept'
  BY PassedStagesStep, WalkAccountedStep, StaysInReachStep, ResultsKeptStep
<1>4. QED
  BY <1>1, <1>2, <1>3 DEF IInv
------------------------------------------------------------------------------
(* The theorems of the tables and their execution. *)

\* The inductive invariant holds of every execution.
THEOREM WorkflowInvariant == Spec => []IInv
<1>1. QED
  BY InitEstablishes, InvariantStep, PTL DEF Spec

\* Every variable keeps its type; the sealed tables in particular hold an artifact of the graph
\* wherever they hold an address (dispatch.py 50-443).
THEOREM WorkflowTypeOK == Spec => []TypeOK
<1>1. IInv => TypeOK
  BY DEF IInv
<1>2. QED
  BY <1>1, WorkflowInvariant, PTL

\* No outcome of an admitted, well formed workflow is without an answer in the sealed tables
\* (assert_wf_routing_closed_v0.py 6-12).
THEOREM OutcomesAreAnswered == Spec => []AnswersEveryOutcome
<1>1. IInv => AnswersEveryOutcome
  BY DEF IInv
<1>2. QED
  BY <1>1, WorkflowInvariant, PTL

\* What runs at a node is what S2 resolved for it.
THEOREM ResolvedIsRun == Spec => []RunsWhatWasResolved
<1>1. IInv => RunsWhatWasResolved
  <2> SUFFICES ASSUME IInv, place \in declared.keys PROVE runs = Runs(declared, place)
    BY DEF RunsWhatWasResolved
  <2>1. place # None
    BY WorkflowAssumption DEF IInv, TypeOK, DeclarationType
  <2>2. QED
    BY <2>1 DEF IInv, WalkAccounted
<1>2. QED
  BY <1>1, WorkflowInvariant, PTL

\* Results kept under addresses do not run into each other when every node runs a contract of its
\* own and S2 and S5 resolve alike (dispatch.py 271-328).
THEOREM ResultsAreApart == Spec => []ResultsStayApart
<1>1. IInv => ResultsStayApart
  <2> SUFFICES ASSUME IInv, phase = "running", Apart(declared), WellFormed(declared),
                      NEW r \in Reads
               PROVE  ReadsTheResultOf(r)
    BY DEF ResultsStayApart
  <2>1. /\ r \in visited /\ r # place
        /\ declared.type[r] = "CC" /\ declared.type[place] = "CC"
    BY DEF Reads
  <2>2. /\ r \in declared.keys /\ Runs(declared, r) # None
        /\ place \in declared.keys /\ Runs(declared, place) # None
    BY <2>1, WorkflowAssumption
    DEF IInv, StaysInReach, WalkAccounted, Reachable, Executed
  <2>3. Enriched(declared, r) = Runs(declared, r) /\ Enriched(declared, place) = Runs(declared, place)
    BY <2>1, <2>2 DEF Apart
  <2>4. Bound(declared, r) /\ Bound(declared, place)
    BY <2>1, <2>2, <2>3, RunsIsPresent DEF Bound, IInv
  <2>5. r \in Key /\ place \in Key
    BY <2>2 DEF IInv, TypeOK, DeclarationType
  <2>6. sealed = Seal(declared)
    BY DEF IInv, PassedStages, AfterS6, AfterS8, Executed
  <2>7. sealed.bindings[place][r] = Runs(declared, r)
    BY <2>3, <2>4, <2>5, <2>6 DEF Seal
  <2>8. results[Runs(declared, r)] = r
    BY <2>1 DEF IInv, ResultsKept, Executed
  <2>9. QED
    BY <2>2, <2>7, <2>8 DEF ReadsTheResultOf
<1>2. QED
  BY <1>1, WorkflowInvariant, PTL

\* Execution through the sealed tables is a walk of the declaration.
THEOREM WalksTheDeclaration == Spec => ImplementsWalk
<1>1. Init => Walk!WalkInit
  BY DEF Init, Walk!WalkInit
<1>2. IInv /\ [Next]_vars => [Walk!WalkNext]_(Walk!walkVars)
  <2> SUFFICES ASSUME IInv, [Next]_vars PROVE Walk!WalkNext \/ UNCHANGED Walk!walkVars
    OBVIOUS
  <2>1. CASE StageStep
    BY <2>1, StagesLeaveTheWalk DEF walkState, Walk!walkVars
  <2>2. CASE Begin
    <3>1. place = None
      BY <2>2 DEF IInv, WalkAccounted, Begin, Executed
    <3>2. Walk!Start
      BY <2>2, <3>1, BeginsAtStart DEF Begin, Walk!Start
    <3>3. QED
      BY <3>2 DEF Walk!WalkNext
  <2>3. ASSUME NEW c \in Condition, Continue(c) PROVE Walk!Proceed(c)
    <3>1. ending = None
      BY <2>3 DEF IInv, WalkAccounted, Continue, Yields, Executed
    <3>2. declared.type[declared.next[place][c]] # "EXIT"
      BY <2>3, ContinuesAsDeclared DEF IsExit
    <3>3. QED
      BY <2>3, <3>1, <3>2, ContinuesAsDeclared DEF Continue, Walk!Proceed, Walk!Target
  <2>4. ASSUME NEW c \in Condition, End(c) PROVE Walk!Finish(c)
    <3>1. ending = None
      BY <2>4 DEF IInv, WalkAccounted, End, Yields, Executed
    <3>2. QED
      BY <2>4, <3>1, EndsAsDeclared DEF End, Walk!Finish, Walk!Target
  <2>5. ASSUME NEW c \in Condition, Refuse(c) PROVE UNCHANGED Walk!walkVars
    BY <2>5 DEF Refuse, Walk!walkVars
  <2>6. CASE UNCHANGED vars
    BY <2>6 DEF vars, walkState, Walk!walkVars
  <2>7. QED
    BY <2>1, <2>2, <2>3, <2>4, <2>5, <2>6 DEF Next, Answer, StageStep, Walk!WalkNext
<1>3. QED
  BY <1>1, <1>2, WorkflowInvariant, PTL DEF Spec, ImplementsWalk, Walk!WalkSpec

-----------------------------------------------------------------------------
(* The depth-first search.                                                 *)

\* One element more, place by place.
LEMMA Pushed ==
  ASSUME NEW X, NEW q \in Seq(X), NEW x \in X
  PROVE  LET u == Append(q, x)
         IN  /\ u \in Seq(X)
             /\ Len(u) = Len(q) + 1
             /\ \A i \in 1 .. Len(q) : u[i] = q[i]
             /\ u[Len(q) + 1] = x
  BY AppendProperties

\* The last element less, place by place.
LEMMA Popped ==
  ASSUME NEW X, NEW q \in Seq(X), q # <<>>
  PROVE  LET u == SubSeq(q, 1, Len(q) - 1)
         IN  /\ u \in Seq(X)
             /\ Len(u) = Len(q) - 1
             /\ \A i \in 1 .. (Len(q) - 1) : u[i] = q[i]
<1>1. Len(q) \in Nat /\ Len(q) # 0
  BY EmptySeq
<1>3. 1 <= Len(q) /\ Len(q) - 1 \in Nat
  BY <1>1
<1>4. \A i \in 1 .. (Len(q) - 1) : q[i] \in X
  BY <1>1
<1> DEFINE u == SubSeq(q, 1, Len(q) - 1)
<1>5. u = [i \in 1 .. (Len(q) - 1) |-> q[i]]
  BY <1>3
<1> HIDE DEF u
<1>6. u \in Seq(X) /\ Len(u) = Len(q) - 1
  BY <1>3, <1>4, <1>5
<1>7. QED
  BY <1>5, <1>6 DEF u

\* The declarations searched.
Searchable(d) ==
  /\ d.keys \subseteq Key
  /\ d.next \in [Key -> [Condition -> Key \union {None}]]

\* Node k names t for some outcome.
Leads(d, k, t) == \E c \in Condition : d.next[k][c] = t

\* Where a loop stands.
PlacesHeld(d, roots, s) ==
  /\ s \in SearchType(d)
  /\ s.root \in 1 .. (Len(roots) + 1)
  /\ \A k \in d.keys : /\ s.pos[k] \in 1 .. (Len(Conditions) + 1)
                       /\ s.mark[k] = "new" => s.pos[k] = 1

\* The stack holds the open nodes, each once, each led to by the one before it.
StackHeld(d, s) ==
  /\ \A i \in 1 .. Len(s.stack) : s.mark[s.stack[i]] = "open"
  /\ \A k \in d.keys : s.mark[k] = "open" => \E i \in 1 .. Len(s.stack) : s.stack[i] = k
  /\ \A i, j \in 1 .. Len(s.stack) : s.stack[i] = s.stack[j] => i = j
  /\ \A i \in 1 .. Len(s.stack) : i + 1 <= Len(s.stack) => Leads(d, s.stack[i], s.stack[i + 1])

\* What an open node has looked at is done, or is the node whose call it waits for.
LookedHeld(d, s) ==
  \A i \in 1 .. Len(s.stack), j \in 1 .. Len(Conditions) :
    j < s.pos[s.stack[i]] /\ Target(d, s.stack[i], j) \in d.keys
      => \/ s.mark[Target(d, s.stack[i], j)] = "done"
         \/ i < Len(s.stack) /\ Target(d, s.stack[i], j) = s.stack[i + 1]

\* Nodes that are done lead to nodes that are done.
DoneClosed(d, s) ==
  \A k \in d.keys : s.mark[k] = "done"
    => \A c \in Condition : d.next[k][c] \in d.keys => s.mark[d.next[k][c]] = "done"

\* Nodes that are done do not all lead back among themselves.
DoneAcyclic(d, s) ==
  \A S \in SUBSET d.keys :
    S # {} /\ (\A k \in S : s.mark[k] = "done") => \E k \in S : \A c \in Condition : d.next[k][c] \notin S

\* The roots tried are not new.
RootsHeld(roots, s) == \A i \in 1 .. Len(roots) : i < s.root => s.mark[roots[i]] # "new"

\* The inductive invariant of the search for cycles.
SearchInv(d, roots, s) ==
  /\ PlacesHeld(d, roots, s)
  /\ StackHeld(d, s)
  /\ LookedHeld(d, s)
  /\ DoneClosed(d, s)
  /\ DoneAcyclic(d, s)
  /\ RootsHeld(roots, s)
  /\ s.found => ~Acyclic(d)

\* The targets looked at, and the nodes left: <<k, Len(Conditions) + 1>> stands for leaving k.
Passed(d, s) ==
  {look \in d.keys \X (1 .. Len(Conditions) + 1) : look[2] < s.pos[look[1]] \/ s.mark[look[1]] = "done"}

\* The search has come to its end.
Rests(roots, s) == s.found \/ (s.stack = <<>> /\ s.root = Len(roots) + 1)

\* After n steps the search rests, or n roots, targets and nodes are behind it.
Advanced(d, roots, s, n) ==
  Rests(roots, s) \/ n <= (s.root - 1) + Cardinality(Passed(d, s))

\* The conditions as they are listed.
LEMMA ConditionsListed ==
  /\ Conditions \in Seq(Condition)
  /\ Len(Conditions) \in Nat
  /\ DOMAIN Conditions = 1 .. Len(Conditions)
  /\ \A c \in Condition : \E i \in 1 .. Len(Conditions) : Conditions[i] = c
<1>1. Conditions \in Seq(Condition) /\ Contents(Conditions) = Condition
  BY SearchAssumption, ListedIs DEF Conditions
<1>2. QED
  BY <1>1 DEF Contents

\* What is at a place of a node's list is what the node names for some outcome.
LEMMA TargetsAreLed ==
  ASSUME NEW d, Searchable(d), NEW k \in d.keys
  PROVE  /\ \A i \in 1 .. Len(Conditions) : Leads(d, k, Target(d, k, i))
         /\ \A c \in Condition : \E i \in 1 .. Len(Conditions) : Target(d, k, i) = d.next[k][c]
BY ConditionsListed DEF Leads, Target

\* The roots of the outer loop: the nodes of the workflow in some order.
RootsOf(d, roots) == roots \in Seq(d.keys) /\ Contents(roots) = d.keys

\* The fields of a state of the search.
Becomes(d, u, found, root, stack, pos, mark) ==
  /\ u \in SearchType(d)
  /\ u.found = found
  /\ u.root = root
  /\ u.stack = stack
  /\ u.pos = pos
  /\ u.mark = mark

\* A node of no mark is entered.
LEMMA EnterBecomes ==
  ASSUME NEW d, NEW s \in SearchType(d), NEW k \in d.keys
  PROVE  Becomes(d, Enter(s, k), s.found, s.root, Append(s.stack, k), s.pos, [s.mark EXCEPT ![k] = "open"])
<1>1. Append(s.stack, k) \in Seq(d.keys)
  BY Pushed DEF SearchType
<1>2. [s.mark EXCEPT ![k] = "open"] \in [d.keys -> {"new", "open", "done"}]
  BY DEF SearchType
<1>3. QED
  BY <1>1, <1>2 DEF Enter, Becomes, SearchType

\* The next root, the next target.
LEMMA NextBecomes ==
  ASSUME NEW d, NEW s \in SearchType(d)
  PROVE  /\ Becomes(d, [s EXCEPT !.root = s.root + 1], s.found, s.root + 1, s.stack, s.pos, s.mark)
         /\ \A k \in d.keys :
              Becomes(d, [s EXCEPT !.pos[k] = s.pos[k] + 1],
                      s.found, s.root, s.stack, [s.pos EXCEPT ![k] = s.pos[k] + 1], s.mark)
<1>1. Becomes(d, [s EXCEPT !.root = s.root + 1], s.found, s.root + 1, s.stack, s.pos, s.mark)
  BY DEF Becomes, SearchType
<1>2. ASSUME NEW k \in d.keys
      PROVE  Becomes(d, [s EXCEPT !.pos[k] = s.pos[k] + 1],
                     s.found, s.root, s.stack, [s.pos EXCEPT ![k] = s.pos[k] + 1], s.mark)
  <2>1. [s.pos EXCEPT ![k] = s.pos[k] + 1] \in [d.keys -> Nat]
    BY DEF SearchType
  <2>2. QED
    BY <2>1 DEF Becomes, SearchType
<1>3. QED
  BY <1>1, <1>2

\* A node is left.
LEMMA LeaveBecomes ==
  ASSUME NEW d, NEW s \in SearchType(d), s.stack # <<>>, NEW k \in d.keys
  PROVE  Becomes(d, Leave(s, k), s.found, s.root, SubSeq(s.stack, 1, Len(s.stack) - 1), s.pos,
                 [s.mark EXCEPT ![k] = "done"])
<1>1. SubSeq(s.stack, 1, Len(s.stack) - 1) \in Seq(d.keys)
  BY Popped DEF SearchType
<1>2. [s.mark EXCEPT ![k] = "done"] \in [d.keys -> {"new", "open", "done"}]
  BY DEF SearchType
<1>3. QED
  BY <1>1, <1>2 DEF Leave, Becomes, SearchType

-----------------------------------------------------------------------------
(* The steps of the search.                                                *)

RootPassed(d, roots, s, u) ==
  /\ ~s.found /\ s.stack = <<>> /\ s.root \in 1 .. Len(roots)
  /\ s.mark[roots[s.root]] # "new"
  /\ Becomes(d, u, FALSE, s.root + 1, <<>>, s.pos, s.mark)

RootEntered(d, roots, s, u) ==
  /\ ~s.found /\ s.stack = <<>> /\ s.root \in 1 .. Len(roots)
  /\ s.mark[roots[s.root]] = "new"
  /\ Becomes(d, u, FALSE, s.root + 1, Append(s.stack, roots[s.root]), s.pos,
             [s.mark EXCEPT ![roots[s.root]] = "open"])

\* The innermost node k is at its target t.
At(d, s, k, t) ==
  /\ ~s.found /\ s.stack # <<>> /\ k = s.stack[Len(s.stack)] /\ k \in d.keys
  /\ s.pos[k] \in 1 .. Len(Conditions)
  /\ t = Target(d, k, s.pos[k])

TargetPassed(d, s, u) ==
  \E k, t \in Key \union {None} :
    /\ At(d, s, k, t)
    /\ t \in d.keys => s.mark[t] = "done"
    /\ Becomes(d, u, FALSE, s.root, s.stack, [s.pos EXCEPT ![k] = s.pos[k] + 1], s.mark)

TargetOpen(d, s, u) ==
  \E k, t \in Key \union {None} :
    /\ At(d, s, k, t)
    /\ t \in d.keys /\ s.mark[t] = "open"
    /\ Becomes(d, u, TRUE, s.root, s.stack, s.pos, s.mark)

TargetEntered(d, s, u) ==
  \E k, t \in Key \union {None} :
    /\ At(d, s, k, t)
    /\ t \in d.keys /\ s.mark[t] = "new"
    /\ Becomes(d, u, FALSE, s.root, Append(s.stack, t), [s.pos EXCEPT ![k] = s.pos[k] + 1],
               [s.mark EXCEPT ![t] = "open"])

NodeLeft(d, s, u) ==
  \E k \in d.keys :
    /\ ~s.found /\ s.stack # <<>> /\ k = s.stack[Len(s.stack)]
    /\ s.pos[k] = Len(Conditions) + 1
    /\ Becomes(d, u, FALSE, s.root, SubSeq(s.stack, 1, Len(s.stack) - 1), s.pos,
               [s.mark EXCEPT ![k] = "done"])

\* A step is one of these, or the search rests.
LEMMA StepIs ==
  ASSUME NEW d, Searchable(d), NEW roots, RootsOf(d, roots), NEW s, SearchInv(d, roots, s),
         NEW u, u = SearchStep(d, roots, s)
  PROVE  \/ Rests(roots, s) /\ u = s
         \/ RootPassed(d, roots, s, u)
         \/ RootEntered(d, roots, s, u)
         \/ TargetPassed(d, s, u)
         \/ TargetOpen(d, s, u)
         \/ TargetEntered(d, s, u)
         \/ NodeLeft(d, s, u)
<1>1. /\ s \in SearchType(d)
      /\ s.found \in BOOLEAN /\ s.root \in 1 .. (Len(roots) + 1)
      /\ s.stack \in Seq(d.keys) /\ Len(s.stack) \in Nat
      /\ DOMAIN roots = 1 .. Len(roots) /\ Len(roots) \in Nat
      /\ \A i \in 1 .. Len(roots) : roots[i] \in d.keys
      /\ \A k \in d.keys : s.mark[k] \in {"new", "open", "done"} /\ s.pos[k] \in 1 .. (Len(Conditions) + 1)
  BY DEF SearchInv, PlacesHeld, SearchType, RootsOf
<1>2. CASE s.found
  BY <1>2 DEF SearchStep, Rests
<1>3. CASE ~s.found /\ s.stack = <<>> /\ s.root \notin 1 .. Len(roots)
  <2>1. u = s
    BY <1>1, <1>3 DEF SearchStep
  <2>2. s.root = Len(roots) + 1
    BY <1>1, <1>3
  <2>3. QED
    BY <1>3, <2>1, <2>2 DEF Rests
<1>4. CASE ~s.found /\ s.stack = <<>> /\ s.root \in 1 .. Len(roots)
  <2> DEFINE next == [s EXCEPT !.root = s.root + 1]
             k == roots[s.root]
  <2>1. u = TryRoot(s, k) /\ k \in d.keys
    BY <1>1, <1>4 DEF SearchStep
  <2>2. Becomes(d, next, FALSE, s.root + 1, <<>>, s.pos, s.mark)
    <3>1. Becomes(d, next, s.found, s.root + 1, s.stack, s.pos, s.mark)
      BY <1>1, NextBecomes
    <3> HIDE DEF next
    <3>2. s.found = FALSE
      BY <1>1, <1>4
    <3>3. QED
      BY <1>4, <3>1, <3>2
  <2>3. CASE s.mark[k] # "new"
    <3>1. u = next
      BY <2>1, <2>3 DEF TryRoot
    <3> HIDE DEF next
    <3>2. QED
      BY <1>4, <2>2, <2>3, <3>1 DEF RootPassed
  <2>4. CASE s.mark[k] = "new"
    <3>1. u = Enter(next, k)
      BY <2>1, <2>4 DEF TryRoot
    <3> HIDE DEF next
    <3>2. /\ next \in SearchType(d) /\ next.found = FALSE /\ next.root = s.root + 1
          /\ next.stack = s.stack /\ next.pos = s.pos /\ next.mark = s.mark
      BY <1>4, <2>2 DEF Becomes
    <3>3. Becomes(d, u, next.found, next.root, Append(next.stack, k), next.pos, [next.mark EXCEPT ![k] = "open"])
      BY <2>1, <3>1, <3>2, EnterBecomes
    <3>4. Becomes(d, u, FALSE, s.root + 1, Append(s.stack, k), s.pos, [s.mark EXCEPT ![k] = "open"])
      BY <3>2, <3>3
    <3>5. QED
      BY <1>4, <2>4, <3>4 DEF RootEntered
  <2>5. QED
    BY <2>3, <2>4
<1>5. CASE ~s.found /\ s.stack # <<>>
  <2> DEFINE k == s.stack[Len(s.stack)]
             next == [s EXCEPT !.pos[k] = s.pos[k] + 1]
             t == Target(d, k, s.pos[k])
  <2>0. s.found = FALSE /\ d.keys \subseteq Key
    BY <1>1, <1>5 DEF Searchable
  <2>1. k \in d.keys
    <3>1. Len(s.stack) \in 1 .. Len(s.stack)
      BY <1>1, <1>5, EmptySeq
    <3>2. QED
      BY <1>1, <3>1
  <2>2. s.pos[k] \in 1 .. (Len(Conditions) + 1)
    BY <1>1, <2>1
  <2>3. u = IF s.pos[k] \in 1 .. Len(Conditions) THEN LookAt(d, s, k, t) ELSE Leave(s, k)
    BY <1>5, ConditionsListed DEF SearchStep, Innermost
  <2>4. CASE s.pos[k] \notin 1 .. Len(Conditions)
    <3>1. s.pos[k] = Len(Conditions) + 1
      BY <2>2, <2>4, ConditionsListed
    <3>2. u = Leave(s, k)
      BY <2>3, <2>4
    <3> HIDE DEF k
    <3>3. Becomes(d, u, FALSE, s.root, SubSeq(s.stack, 1, Len(s.stack) - 1), s.pos, [s.mark EXCEPT ![k] = "done"])
      BY <1>1, <1>5, <2>0, <2>1, <3>2, LeaveBecomes
    <3>4. k = s.stack[Len(s.stack)]
      BY DEF k
    <3>5. QED
      BY <1>5, <2>1, <3>1, <3>3, <3>4 DEF NodeLeft
  <2>5. CASE s.pos[k] \in 1 .. Len(Conditions)
    <3>1. u = LookAt(d, s, k, t)
      BY <2>3, <2>5
    <3>2. At(d, s, k, t)
      BY <1>5, <2>1, <2>5 DEF At
    <3>3. k \in Key \union {None} /\ t \in Key \union {None}
      BY <2>0, <2>1, <2>5, ConditionsListed DEF Searchable, Target
    <3>4. Becomes(d, next, FALSE, s.root, s.stack, [s.pos EXCEPT ![k] = s.pos[k] + 1], s.mark)
      <4> HIDE DEF k
      <4>1. QED
        BY <1>1, <2>0, <2>1, NextBecomes
    <3> HIDE DEF k, t
    <3>5. CASE t \in d.keys /\ s.mark[t] = "open"
      <4>1. u = [s EXCEPT !.found = TRUE]
        BY <3>1, <3>5 DEF LookAt
      <4>2. Becomes(d, u, TRUE, s.root, s.stack, s.pos, s.mark)
        BY <1>1, <4>1 DEF Becomes, SearchType
      <4>3. QED
        BY <3>2, <3>3, <3>5, <4>2 DEF TargetOpen
    <3>6. CASE t \in d.keys /\ s.mark[t] = "new"
      <4>1. u = Enter(next, t)
        BY <3>1, <3>6 DEF LookAt
      <4> DEFINE pos == [s.pos EXCEPT ![k] = s.pos[k] + 1]
      <4> HIDE DEF next, pos
      <4>2. /\ next \in SearchType(d) /\ next.found = FALSE /\ next.root = s.root
            /\ next.stack = s.stack /\ next.pos = pos /\ next.mark = s.mark
        BY <3>4 DEF Becomes, pos
      <4>3. Becomes(d, u, next.found, next.root, Append(next.stack, t), next.pos, [next.mark EXCEPT ![t] = "open"])
        BY <3>6, <4>1, <4>2, EnterBecomes
      <4>4. Becomes(d, u, FALSE, s.root, Append(s.stack, t), pos, [s.mark EXCEPT ![t] = "open"])
        BY <4>2, <4>3
      <4>5. QED
        BY <3>2, <3>3, <3>6, <4>4 DEF TargetEntered, pos
    <3>7. CASE t \in d.keys => s.mark[t] = "done"
      <4>1. u = next
        BY <3>1, <3>7 DEF LookAt
      <4> HIDE DEF next
      <4>2. QED
        BY <3>2, <3>3, <3>4, <3>7, <4>1 DEF TargetPassed
    <3>8. QED
      BY <1>1, <3>5, <3>6, <3>7
  <2>6. QED
    BY <2>4, <2>5
<1>6. QED
  BY <1>1, <1>2, <1>3, <1>4, <1>5

-----------------------------------------------------------------------------
(* Every step of the search keeps its invariant.                           *)

\* What the invariant says of the fields.
LEMMA SearchFacts ==
  ASSUME NEW d, NEW roots, RootsOf(d, roots), NEW s, SearchInv(d, roots, s)
  PROVE  /\ s \in SearchType(d)
         /\ s.found \in BOOLEAN /\ s.root \in 1 .. (Len(roots) + 1)
         /\ s.stack \in Seq(d.keys) /\ Len(s.stack) \in Nat
         /\ \A i \in 1 .. Len(s.stack) : s.stack[i] \in d.keys
         /\ s.pos \in [d.keys -> Nat] /\ s.mark \in [d.keys -> {"new", "open", "done"}]
         /\ \A k \in d.keys : s.pos[k] \in 1 .. (Len(Conditions) + 1)
         /\ Len(roots) \in Nat
         /\ \A i \in 1 .. Len(roots) : roots[i] \in d.keys
         /\ \A k \in d.keys : \E i \in 1 .. Len(roots) : roots[i] = k
BY DEF SearchInv, PlacesHeld, SearchType, RootsOf, Contents

\* A root that has a mark is passed over.
LEMMA RootPassedKeeps ==
  ASSUME NEW d, Searchable(d), NEW roots, RootsOf(d, roots), NEW s, SearchInv(d, roots, s),
         NEW u, RootPassed(d, roots, s, u)
  PROVE  SearchInv(d, roots, u)
<1>1. /\ u \in SearchType(d) /\ u.found = FALSE /\ u.root = s.root + 1 /\ u.stack = <<>>
      /\ u.pos = s.pos /\ u.mark = s.mark /\ s.stack = <<>>
      /\ s.root \in 1 .. Len(roots) /\ s.mark[roots[s.root]] # "new"
  BY DEF RootPassed, Becomes
<1>2. /\ PlacesHeld(d, roots, s) /\ StackHeld(d, s) /\ DoneClosed(d, s)
      /\ DoneAcyclic(d, s) /\ RootsHeld(roots, s) /\ Len(roots) \in Nat
  BY SearchFacts DEF SearchInv
<1>3. PlacesHeld(d, roots, u)
  BY <1>1, <1>2 DEF PlacesHeld
<1>4. StackHeld(d, u)
  BY <1>1, <1>2 DEF StackHeld
<1>5. LookedHeld(d, u)
  BY <1>1 DEF LookedHeld
<1>6. DoneClosed(d, u) /\ DoneAcyclic(d, u)
  BY <1>1, <1>2 DEF DoneClosed, DoneAcyclic
<1>7. RootsHeld(roots, u)
  <2>1. ASSUME NEW i \in 1 .. Len(roots), i < s.root + 1
        PROVE  s.mark[roots[i]] # "new"
    <3>1. i < s.root \/ i = s.root
      BY <1>1, <1>2, <2>1
    <3>2. QED
      BY <1>1, <1>2, <3>1 DEF RootsHeld
  <2>2. QED
    BY <1>1, <2>1 DEF RootsHeld
<1>8. QED
  BY <1>1, <1>3, <1>4, <1>5, <1>6, <1>7 DEF SearchInv

\* Node k has become open; what is done is what was.
Opened(d, s, k, u) ==
  /\ \A j \in d.keys : u.mark[j] = "done" <=> s.mark[j] = "done"
  /\ \A j \in d.keys : j # k => u.mark[j] = s.mark[j]
  /\ u.mark[k] = "open"
  /\ DoneClosed(d, s) => DoneClosed(d, u)
  /\ DoneAcyclic(d, s) => DoneAcyclic(d, u)

\* A node of no mark that becomes open is not among those that are done.
LEMMA DoneKept ==
  ASSUME NEW d, NEW s \in SearchType(d), NEW k \in d.keys, s.mark[k] = "new", NEW u,
         u.mark = [s.mark EXCEPT ![k] = "open"]
  PROVE  Opened(d, s, k, u)
<1>1. /\ \A j \in d.keys : u.mark[j] = "done" <=> s.mark[j] = "done"
      /\ \A j \in d.keys : j # k => u.mark[j] = s.mark[j]
      /\ u.mark[k] = "open"
  BY DEF SearchType
<1>2. DoneClosed(d, s) => DoneClosed(d, u)
  BY <1>1 DEF DoneClosed
<1>3. DoneAcyclic(d, s) => DoneAcyclic(d, u)
  BY <1>1 DEF DoneAcyclic
<1>4. QED
  BY <1>1, <1>2, <1>3 DEF Opened

\* A root of no mark is entered: its call is the only one that is open.
LEMMA RootEnteredKeeps ==
  ASSUME NEW d, Searchable(d), NEW roots, RootsOf(d, roots), NEW s, SearchInv(d, roots, s),
         NEW u, RootEntered(d, roots, s, u)
  PROVE  SearchInv(d, roots, u)
<1> DEFINE k == roots[s.root]
<1>1. /\ u \in SearchType(d) /\ u.found = FALSE /\ u.root = s.root + 1 /\ u.stack = Append(s.stack, k)
      /\ u.pos = s.pos /\ u.mark = [s.mark EXCEPT ![k] = "open"] /\ s.stack = <<>>
      /\ s.root \in 1 .. Len(roots) /\ s.mark[k] = "new"
  BY DEF RootEntered, Becomes
<1>2. /\ PlacesHeld(d, roots, s) /\ StackHeld(d, s) /\ DoneClosed(d, s)
      /\ DoneAcyclic(d, s) /\ RootsHeld(roots, s) /\ Len(roots) \in Nat
      /\ s \in SearchType(d) /\ k \in d.keys
  BY <1>1, SearchFacts DEF SearchInv
<1> HIDE DEF k
<1>3. u.stack = <<k>> /\ Len(u.stack) = 1 /\ u.stack[1] = k
  BY <1>1
<1>4. /\ \A j \in d.keys : u.mark[j] = "done" <=> s.mark[j] = "done"
      /\ \A j \in d.keys : j # k => u.mark[j] = s.mark[j]
      /\ u.mark[k] = "open"
      /\ DoneClosed(d, u) /\ DoneAcyclic(d, u)
  <2>1. Opened(d, s, k, u)
    BY <1>1, <1>2, DoneKept
  <2>2. QED
    BY <1>2, <2>1 DEF Opened
<1>5. PlacesHeld(d, roots, u)
  BY <1>1, <1>2, <1>4 DEF PlacesHeld
<1>6. StackHeld(d, u)
  <2>1. \A j \in d.keys : s.mark[j] # "open"
    BY <1>1, <1>2 DEF StackHeld
  <2>2. \A j \in d.keys : u.mark[j] = "open" => u.stack[1] = j
    BY <1>3, <1>4, <2>1
  <2>3. \A i \in 1 .. Len(u.stack) : i = 1
    BY <1>3
  <2>4. 1 \in 1 .. Len(u.stack) /\ ~(1 + 1 <= Len(u.stack))
    BY <1>3
  <2>5. QED
    BY <1>3, <1>4, <2>2, <2>3, <2>4 DEF StackHeld
<1>7. LookedHeld(d, u)
  <2>1. \A i \in 1 .. Len(u.stack) : u.pos[u.stack[i]] = 1
    BY <1>1, <1>2, <1>3 DEF PlacesHeld
  <2>2. QED
    BY <2>1, ConditionsListed DEF LookedHeld
<1>8. RootsHeld(roots, u)
  <2>1. ASSUME NEW i \in 1 .. Len(roots), i < s.root + 1
        PROVE  u.mark[roots[i]] # "new"
    <3>1. i < s.root \/ i = s.root
      BY <1>1, <1>2, <2>1
    <3>2. s.mark[roots[i]] # "new" \/ roots[i] = k
      BY <1>1, <1>2, <3>1 DEF RootsHeld, k
    <3>3. roots[i] \in d.keys
      BY SearchFacts
    <3>4. QED
      BY <1>4, <3>2, <3>3
  <2>2. QED
    BY <1>1, <2>1 DEF RootsHeld
<1>9. QED
  BY <1>1, <1>4, <1>5, <1>6, <1>7, <1>8 DEF SearchInv

\* The innermost node is open, and is the last of the stack alone.
LEMMA InnermostIsOpen ==
  ASSUME NEW d, NEW roots, RootsOf(d, roots), NEW s, SearchInv(d, roots, s), s.stack # <<>>,
         NEW k, k = s.stack[Len(s.stack)]
  PROVE  /\ Len(s.stack) \in 1 .. Len(s.stack)
         /\ s.mark[k] = "open"
         /\ \A i \in 1 .. Len(s.stack) : s.stack[i] = k => i = Len(s.stack)
<1>1. Len(s.stack) \in 1 .. Len(s.stack)
  BY SearchFacts, EmptySeq
<1>2. StackHeld(d, s)
  BY DEF SearchInv
<1>3. QED
  BY <1>1, <1>2 DEF StackHeld

\* A target that is done, or is no node, is passed over.
LEMMA TargetPassedKeeps ==
  ASSUME NEW d, Searchable(d), NEW roots, RootsOf(d, roots), NEW s, SearchInv(d, roots, s),
         NEW u, TargetPassed(d, s, u)
  PROVE  SearchInv(d, roots, u)
<1>1. PICK k, t \in Key \union {None} :
        /\ At(d, s, k, t)
        /\ t \in d.keys => s.mark[t] = "done"
        /\ Becomes(d, u, FALSE, s.root, s.stack, [s.pos EXCEPT ![k] = s.pos[k] + 1], s.mark)
  BY DEF TargetPassed
<1>2. /\ s.stack # <<>> /\ k = s.stack[Len(s.stack)] /\ k \in d.keys
      /\ s.pos[k] \in 1 .. Len(Conditions) /\ t = Target(d, k, s.pos[k])
  BY <1>1 DEF At
<1>3. /\ u \in SearchType(d) /\ u.found = FALSE /\ u.root = s.root /\ u.stack = s.stack
      /\ u.pos = [s.pos EXCEPT ![k] = s.pos[k] + 1] /\ u.mark = s.mark
  BY <1>1 DEF Becomes
<1>4. /\ PlacesHeld(d, roots, s) /\ StackHeld(d, s) /\ LookedHeld(d, s) /\ DoneClosed(d, s)
      /\ DoneAcyclic(d, s) /\ RootsHeld(roots, s)
  BY DEF SearchInv
<1>5. /\ s.pos \in [d.keys -> Nat] /\ \A i \in 1 .. Len(s.stack) : s.stack[i] \in d.keys
      /\ \A j \in d.keys : s.pos[j] \in 1 .. (Len(Conditions) + 1)
  BY SearchFacts
<1>6. s.mark[k] = "open" /\ \A i \in 1 .. Len(s.stack) : s.stack[i] = k => i = Len(s.stack)
  BY <1>2, InnermostIsOpen
<1>7. u.pos[k] = s.pos[k] + 1 /\ \A j \in d.keys : j # k => u.pos[j] = s.pos[j]
  BY <1>2, <1>3, <1>5
<1>8. PlacesHeld(d, roots, u)
  <2>1. s.pos[k] + 1 \in 1 .. (Len(Conditions) + 1)
    BY <1>2, ConditionsListed
  <2>2. \A j \in d.keys : /\ u.pos[j] \in 1 .. (Len(Conditions) + 1)
                          /\ u.mark[j] = "new" => u.pos[j] = 1
    BY <1>3, <1>4, <1>6, <1>7, <2>1 DEF PlacesHeld
  <2>3. QED
    BY <1>3, <1>4, <2>2 DEF PlacesHeld
<1>9. StackHeld(d, u) /\ DoneClosed(d, u) /\ DoneAcyclic(d, u) /\ RootsHeld(roots, u)
  BY <1>3, <1>4 DEF StackHeld, DoneClosed, DoneAcyclic, RootsHeld
<1>10. LookedHeld(d, u)
  <2>1. SUFFICES ASSUME NEW i \in 1 .. Len(u.stack), NEW j \in 1 .. Len(Conditions),
                        j < u.pos[u.stack[i]], Target(d, u.stack[i], j) \in d.keys
                 PROVE  \/ u.mark[Target(d, u.stack[i], j)] = "done"
                        \/ i < Len(u.stack) /\ Target(d, u.stack[i], j) = u.stack[i + 1]
    BY DEF LookedHeld
  <2>2. i \in 1 .. Len(s.stack) /\ s.stack[i] \in d.keys
    BY <1>3, <1>5
  <2>3. CASE j < s.pos[s.stack[i]]
    BY <1>3, <1>4, <2>1, <2>2, <2>3 DEF LookedHeld
  <2>4. CASE ~(j < s.pos[s.stack[i]])
    <3>1. s.stack[i] = k
      BY <1>3, <1>7, <2>1, <2>2, <2>4
    <3>2. j = s.pos[k]
      BY <1>2, <1>3, <1>7, <2>1, <2>4, <3>1, ConditionsListed
    <3>3. QED
      BY <1>1, <1>2, <1>3, <2>1, <3>1, <3>2
  <2>5. QED
    BY <2>3, <2>4
<1>11. QED
  BY <1>3, <1>8, <1>9, <1>10 DEF SearchInv

\* A target that is open closes a cycle: the nodes from it to the innermost one.
LEMMA TargetOpenKeeps ==
  ASSUME NEW d, Searchable(d), NEW roots, RootsOf(d, roots), NEW s, SearchInv(d, roots, s),
         NEW u, TargetOpen(d, s, u)
  PROVE  SearchInv(d, roots, u)
<1>1. PICK k, t \in Key \union {None} :
        /\ At(d, s, k, t)
        /\ t \in d.keys /\ s.mark[t] = "open"
        /\ Becomes(d, u, TRUE, s.root, s.stack, s.pos, s.mark)
  BY DEF TargetOpen
<1>2. /\ s.stack # <<>> /\ k = s.stack[Len(s.stack)] /\ k \in d.keys
      /\ s.pos[k] \in 1 .. Len(Conditions) /\ t = Target(d, k, s.pos[k])
  BY <1>1 DEF At
<1>3. /\ u \in SearchType(d) /\ u.root = s.root /\ u.stack = s.stack /\ u.pos = s.pos /\ u.mark = s.mark
  BY <1>1 DEF Becomes
<1>4. /\ PlacesHeld(d, roots, s) /\ StackHeld(d, s) /\ LookedHeld(d, s) /\ DoneClosed(d, s)
      /\ DoneAcyclic(d, s) /\ RootsHeld(roots, s)
  BY DEF SearchInv
<1>5. PICK i \in 1 .. Len(s.stack) : s.stack[i] = t
  BY <1>1, <1>4 DEF StackHeld
<1>6. Len(s.stack) \in Nat /\ Len(s.stack) \in 1 .. Len(s.stack)
      /\ \A j \in 1 .. Len(s.stack) : s.stack[j] \in d.keys
  BY <1>2, SearchFacts, InnermostIsOpen
<1> DEFINE S == {s.stack[m] : m \in i .. Len(s.stack)}
<1>7. t \in S /\ S \subseteq d.keys
  BY <1>5, <1>6
<1>8. ASSUME NEW j \in S
      PROVE  \E c \in Condition : d.next[j][c] \in S
  <2>1. PICK m \in i .. Len(s.stack) : j = s.stack[m]
    BY <1>8
  <2>2. m \in 1 .. Len(s.stack)
    BY <1>5, <1>6, <2>1
  <2>3. CASE m = Len(s.stack)
    <3>1. Leads(d, j, t)
      BY <1>2, <2>1, <2>3, TargetsAreLed
    <3> HIDE DEF S
    <3>2. QED
      BY <1>7, <3>1 DEF Leads
  <2>4. CASE m # Len(s.stack)
    <3>1. m + 1 \in i .. Len(s.stack)
      BY <1>5, <1>6, <2>1, <2>4
    <3>2. s.stack[m + 1] \in S
      BY <3>1
    <3>3. m + 1 <= Len(s.stack)
      BY <1>6, <3>1
    <3>4. Leads(d, s.stack[m], s.stack[m + 1])
      BY <1>4, <2>2, <3>3 DEF StackHeld
    <3> HIDE DEF S
    <3>5. QED
      BY <2>1, <3>2, <3>4 DEF Leads
  <2>5. QED
    BY <2>3, <2>4
<1>9. ~Acyclic(d)
  <2> HIDE DEF S
  <2>1. S \in (SUBSET d.keys) \ {{}}
    BY <1>7
  <2>2. QED
    BY <1>8, <2>1 DEF Acyclic
<1>10. /\ PlacesHeld(d, roots, u) /\ StackHeld(d, u) /\ LookedHeld(d, u)
       /\ DoneClosed(d, u) /\ DoneAcyclic(d, u) /\ RootsHeld(roots, u)
  BY <1>3, <1>4 DEF PlacesHeld, StackHeld, LookedHeld, DoneClosed, DoneAcyclic, RootsHeld
<1>11. QED
  BY <1>9, <1>10 DEF SearchInv

\* A target of no mark is entered.
LEMMA TargetEnteredKeeps ==
  ASSUME NEW d, Searchable(d), NEW roots, RootsOf(d, roots), NEW s, SearchInv(d, roots, s),
         NEW u, TargetEntered(d, s, u)
  PROVE  SearchInv(d, roots, u)
<1>1. PICK k, t \in Key \union {None} :
        /\ At(d, s, k, t)
        /\ t \in d.keys /\ s.mark[t] = "new"
        /\ Becomes(d, u, FALSE, s.root, Append(s.stack, t), [s.pos EXCEPT ![k] = s.pos[k] + 1],
                   [s.mark EXCEPT ![t] = "open"])
  BY DEF TargetEntered
<1>2. /\ s.stack # <<>> /\ k = s.stack[Len(s.stack)] /\ k \in d.keys
      /\ s.pos[k] \in 1 .. Len(Conditions) /\ t = Target(d, k, s.pos[k])
  BY <1>1 DEF At
<1>3. /\ u \in SearchType(d) /\ u.found = FALSE /\ u.root = s.root /\ u.stack = Append(s.stack, t)
      /\ u.pos = [s.pos EXCEPT ![k] = s.pos[k] + 1] /\ u.mark = [s.mark EXCEPT ![t] = "open"]
  BY <1>1 DEF Becomes
<1>4. /\ PlacesHeld(d, roots, s) /\ StackHeld(d, s) /\ LookedHeld(d, s) /\ DoneClosed(d, s)
      /\ DoneAcyclic(d, s) /\ RootsHeld(roots, s)
  BY DEF SearchInv
<1>5. /\ s \in SearchType(d) /\ s.stack \in Seq(d.keys) /\ Len(s.stack) \in Nat
      /\ s.pos \in [d.keys -> Nat] /\ \A i \in 1 .. Len(s.stack) : s.stack[i] \in d.keys
      /\ \A j \in d.keys : s.pos[j] \in 1 .. (Len(Conditions) + 1)
  BY SearchFacts
<1>6. /\ Len(s.stack) \in 1 .. Len(s.stack) /\ s.mark[k] = "open"
      /\ \A i \in 1 .. Len(s.stack) : s.stack[i] = k => i = Len(s.stack)
  BY <1>2, InnermostIsOpen
<1>7. u.pos[k] = s.pos[k] + 1 /\ \A j \in d.keys : j # k => u.pos[j] = s.pos[j]
  BY <1>2, <1>3, <1>5
<1> DEFINE L == Len(s.stack)
<1>8. /\ Len(u.stack) = L + 1 /\ u.stack[L + 1] = t
      /\ \A i \in 1 .. L : u.stack[i] = s.stack[i]
      /\ \A i \in 1 .. (L + 1) : i \in 1 .. L \/ i = L + 1
      /\ L \in Nat /\ L \in 1 .. L
  BY <1>1, <1>3, <1>5, <1>6, Pushed
<1>9. Opened(d, s, t, u)
  BY <1>1, <1>3, <1>5, DoneKept
<1>10. /\ \A j \in d.keys : u.mark[j] = "done" <=> s.mark[j] = "done"
       /\ \A j \in d.keys : j # t => u.mark[j] = s.mark[j]
       /\ u.mark[t] = "open" /\ DoneClosed(d, u) /\ DoneAcyclic(d, u)
  BY <1>4, <1>9 DEF Opened
<1>11. t # k
  BY <1>1, <1>6
<1> HIDE DEF L
<1>12. PlacesHeld(d, roots, u)
  <2>1. s.pos[k] + 1 \in 1 .. (Len(Conditions) + 1)
    BY <1>2, ConditionsListed
  <2>2. \A j \in d.keys : /\ u.pos[j] \in 1 .. (Len(Conditions) + 1)
                          /\ u.mark[j] = "new" => u.pos[j] = 1
    BY <1>4, <1>6, <1>7, <1>10, <1>11, <2>1 DEF PlacesHeld
  <2>3. QED
    BY <1>3, <1>4, <2>2 DEF PlacesHeld
<1>13. StackHeld(d, u)
  <2>0. \A i \in 1 .. L : s.mark[s.stack[i]] = "open" /\ s.stack[i] # t /\ s.stack[i] \in d.keys
    BY <1>1, <1>4, <1>5 DEF StackHeld, L
  <2>1. \A i \in 1 .. (L + 1) : u.mark[u.stack[i]] = "open"
    BY <1>8, <1>10, <2>0
  <2>2. ASSUME NEW j \in d.keys, u.mark[j] = "open"
        PROVE  \E i \in 1 .. (L + 1) : u.stack[i] = j
    <3>1. CASE j = t
      <4>1. L + 1 \in 1 .. (L + 1)
        BY <1>8
      <4>2. QED
        BY <1>8, <3>1, <4>1
    <3>2. CASE j # t
      <4>1. PICK i \in 1 .. L : s.stack[i] = j
        BY <1>4, <1>10, <2>2, <3>2 DEF StackHeld, L
      <4>2. i \in 1 .. (L + 1)
        BY <1>8
      <4>3. QED
        BY <1>8, <4>1, <4>2
    <3>3. QED
      BY <3>1, <3>2
  <2>3. ASSUME NEW i \in 1 .. (L + 1), NEW j \in 1 .. (L + 1), u.stack[i] = u.stack[j]
        PROVE  i = j
    <3>1. CASE i \in 1 .. L /\ j \in 1 .. L
      BY <1>4, <1>8, <2>3, <3>1 DEF StackHeld, L
    <3>2. CASE i = L + 1 \/ j = L + 1
      BY <1>8, <2>0, <2>3, <3>2
    <3>3. QED
      BY <1>8, <3>1, <3>2
  <2>4. ASSUME NEW i \in 1 .. (L + 1), i + 1 <= L + 1
        PROVE  Leads(d, u.stack[i], u.stack[i + 1])
    <3>1. i \in 1 .. L
      BY <1>8, <2>4
    <3>2. CASE i = L
      <4>1. u.stack[i] = k /\ u.stack[i + 1] = t
        BY <1>2, <1>8, <3>1, <3>2 DEF L
      <4>2. Leads(d, k, t)
        BY <1>2, TargetsAreLed
      <4>3. QED
        BY <4>1, <4>2
    <3>3. CASE i # L
      <4>1. i + 1 \in 1 .. L /\ i + 1 <= L
        BY <1>8, <3>1, <3>3
      <4>2. Leads(d, s.stack[i], s.stack[i + 1])
        BY <1>4, <3>1, <4>1 DEF StackHeld, L
      <4>3. QED
        BY <1>8, <3>1, <4>1, <4>2
    <3>4. QED
      BY <3>2, <3>3
  <2>5. QED
    BY <1>8, <2>1, <2>2, <2>3, <2>4 DEF StackHeld
<1>14. LookedHeld(d, u)
  <2>1. SUFFICES ASSUME NEW i \in 1 .. (L + 1), NEW j \in 1 .. Len(Conditions),
                        j < u.pos[u.stack[i]], Target(d, u.stack[i], j) \in d.keys
                 PROVE  \/ u.mark[Target(d, u.stack[i], j)] = "done"
                        \/ i < L + 1 /\ Target(d, u.stack[i], j) = u.stack[i + 1]
    BY <1>8 DEF LookedHeld
  <2>2. i # L + 1
    <3>1. SUFFICES ASSUME i = L + 1
                   PROVE  FALSE
      OBVIOUS
    <3>2. u.pos[u.stack[i]] = 1
      BY <1>1, <1>4, <1>7, <1>8, <1>11, <3>1 DEF PlacesHeld
    <3>3. QED
      BY <2>1, <3>2, ConditionsListed
  <2>3. i \in 1 .. L /\ u.stack[i] = s.stack[i] /\ s.stack[i] \in d.keys
    BY <1>5, <1>8, <2>2 DEF L
  <2>4. CASE j < s.pos[s.stack[i]]
    <3>1. \/ s.mark[Target(d, s.stack[i], j)] = "done"
          \/ i < L /\ Target(d, s.stack[i], j) = s.stack[i + 1]
      BY <1>4, <2>1, <2>3, <2>4 DEF LookedHeld, L
    <3>2. i < L => i + 1 \in 1 .. L /\ i < L + 1
      BY <1>8, <2>3
    <3>3. QED
      BY <1>8, <1>10, <2>1, <2>3, <3>1, <3>2
  <2>5. CASE ~(j < s.pos[s.stack[i]])
    <3>0. s.stack[i] = k
      BY <1>7, <2>1, <2>3, <2>5
    <3>1. s.stack[i] = k /\ j = s.pos[k]
      <4>1. j < s.pos[k] + 1 /\ ~(j < s.pos[k]) /\ s.pos[k] \in Nat
        BY <1>2, <1>5, <1>7, <2>1, <2>3, <2>5, <3>0
      <4>2. QED
        BY <3>0, <4>1, ConditionsListed
    <3>2. i = L /\ i < L + 1
      BY <1>6, <1>8, <2>3, <3>1 DEF L
    <3>3. QED
      BY <1>2, <1>8, <2>3, <3>1, <3>2
  <2>6. QED
    BY <2>4, <2>5
<1>15. RootsHeld(roots, u)
  <2>1. \A i \in 1 .. Len(roots) : roots[i] \in d.keys
    BY SearchFacts
  <2>2. QED
    BY <1>3, <1>4, <1>10, <2>1 DEF RootsHeld
<1>16. QED
  BY <1>3, <1>10, <1>12, <1>13, <1>14, <1>15 DEF SearchInv

\* A node all of whose targets have been looked at is left: they are done, and nothing done leads
\* back to it.
LEMMA NodeLeftKeeps ==
  ASSUME NEW d, Searchable(d), NEW roots, RootsOf(d, roots), NEW s, SearchInv(d, roots, s),
         NEW u, NodeLeft(d, s, u)
  PROVE  SearchInv(d, roots, u)
<1> DEFINE L == Len(s.stack)
<1>1. PICK k \in d.keys :
        /\ ~s.found /\ s.stack # <<>> /\ k = s.stack[Len(s.stack)]
        /\ s.pos[k] = Len(Conditions) + 1
        /\ Becomes(d, u, FALSE, s.root, SubSeq(s.stack, 1, Len(s.stack) - 1), s.pos,
                   [s.mark EXCEPT ![k] = "done"])
  BY DEF NodeLeft
<1>2. /\ u \in SearchType(d) /\ u.found = FALSE /\ u.root = s.root
      /\ u.stack = SubSeq(s.stack, 1, L - 1)
      /\ u.pos = s.pos /\ u.mark = [s.mark EXCEPT ![k] = "done"]
  BY <1>1 DEF Becomes
<1>3. /\ PlacesHeld(d, roots, s) /\ StackHeld(d, s) /\ LookedHeld(d, s) /\ DoneClosed(d, s)
      /\ DoneAcyclic(d, s) /\ RootsHeld(roots, s)
  BY DEF SearchInv
<1>4. /\ s.stack \in Seq(d.keys) /\ L \in Nat
      /\ \A i \in 1 .. L : s.stack[i] \in d.keys
      /\ s.mark \in [d.keys -> {"new", "open", "done"}]
  BY SearchFacts
<1>5. /\ L \in 1 .. L /\ s.mark[k] = "open"
      /\ \A i \in 1 .. L : s.stack[i] = k => i = L
  BY <1>1, InnermostIsOpen
<1>6. /\ Len(u.stack) = L - 1
      /\ \A i \in 1 .. (L - 1) : u.stack[i] = s.stack[i] /\ i \in 1 .. L /\ i # L
  BY <1>1, <1>2, <1>4, <1>5, Popped
<1>7. u.mark[k] = "done" /\ \A j \in d.keys : j # k => u.mark[j] = s.mark[j]
  BY <1>2, <1>4
<1>0. L = Len(s.stack) /\ s.stack[L] = k
  BY <1>1
<1> HIDE DEF L
<1>8. \A c \in Condition : d.next[k][c] \in d.keys => s.mark[d.next[k][c]] = "done"
  <2>1. SUFFICES ASSUME NEW c \in Condition, d.next[k][c] \in d.keys
                 PROVE  s.mark[d.next[k][c]] = "done"
    OBVIOUS
  <2>2. PICK j \in 1 .. Len(Conditions) : Target(d, k, j) = d.next[k][c]
    BY TargetsAreLed
  <2>3. j < s.pos[k]
    BY <1>1, ConditionsListed
  <2>4. QED
    BY <1>0, <1>3, <1>4, <1>5, <2>1, <2>2, <2>3 DEF LookedHeld
<1>9. PlacesHeld(d, roots, u)
  BY <1>2, <1>3, <1>7 DEF PlacesHeld
<1>10. StackHeld(d, u)
  <2>1. ASSUME NEW i \in 1 .. (L - 1)
        PROVE  u.stack[i] \in d.keys /\ u.stack[i] # k /\ u.mark[u.stack[i]] = "open"
    <3>1. s.stack[i] # k /\ s.stack[i] \in d.keys
      BY <1>4, <1>5, <1>6
    <3>2. s.mark[s.stack[i]] = "open"
      BY <1>0, <1>3, <1>6 DEF StackHeld
    <3>3. u.stack[i] = s.stack[i]
      BY <1>6
    <3>4. QED
      BY <1>7, <3>1, <3>2, <3>3
  <2>2. ASSUME NEW j \in d.keys, u.mark[j] = "open"
        PROVE  \E i \in 1 .. (L - 1) : u.stack[i] = j
    <3>1. j # k
      BY <1>7, <2>2
    <3>2. PICK i \in 1 .. L : s.stack[i] = j
      BY <1>0, <1>3, <1>7, <2>2, <3>1 DEF StackHeld
    <3>3. i # L
      BY <1>0, <3>1, <3>2
    <3>4. i \in 1 .. (L - 1)
      BY <1>4, <3>3
    <3>5. QED
      BY <1>6, <3>2, <3>4
  <2>3. \A i, j \in 1 .. (L - 1) : u.stack[i] = u.stack[j] => i = j
    BY <1>0, <1>3, <1>6 DEF StackHeld
  <2>4. ASSUME NEW i \in 1 .. (L - 1), i + 1 <= L - 1
        PROVE  Leads(d, u.stack[i], u.stack[i + 1])
    <3>1. i + 1 \in 1 .. (L - 1) /\ i + 1 <= L
      BY <1>4, <2>4
    <3>2. Leads(d, s.stack[i], s.stack[i + 1])
      BY <1>0, <1>3, <1>6, <3>1 DEF StackHeld
    <3>3. QED
      BY <1>6, <3>1, <3>2
  <2>5. QED
    BY <1>6, <2>1, <2>2, <2>3, <2>4 DEF StackHeld
<1>11. LookedHeld(d, u)
  <2>1. SUFFICES ASSUME NEW i \in 1 .. (L - 1), NEW j \in 1 .. Len(Conditions),
                        j < u.pos[u.stack[i]], Target(d, u.stack[i], j) \in d.keys
                 PROVE  \/ u.mark[Target(d, u.stack[i], j)] = "done"
                        \/ i < L - 1 /\ Target(d, u.stack[i], j) = u.stack[i + 1]
    BY <1>6 DEF LookedHeld
  <2>2. i \in 1 .. L /\ u.stack[i] = s.stack[i]
    BY <1>6
  <2>3. \/ s.mark[Target(d, s.stack[i], j)] = "done"
        \/ i < L /\ Target(d, s.stack[i], j) = s.stack[i + 1]
    BY <1>0, <1>2, <1>3, <2>1, <2>2 DEF LookedHeld
  <2>4. CASE s.mark[Target(d, s.stack[i], j)] = "done"
    BY <1>7, <2>1, <2>2, <2>4
  <2>5. CASE i < L /\ Target(d, s.stack[i], j) = s.stack[i + 1]
    <3>1. i + 1 = L \/ (i + 1 \in 1 .. (L - 1) /\ i < L - 1)
      BY <1>4, <2>1
    <3>2. QED
      BY <1>0, <1>6, <1>7, <2>2, <2>5, <3>1
  <2>6. QED
    BY <2>3, <2>4, <2>5
<1>12. DoneClosed(d, u)
  <2>1. SUFFICES ASSUME NEW j \in d.keys, u.mark[j] = "done", NEW c \in Condition, d.next[j][c] \in d.keys
                 PROVE  u.mark[d.next[j][c]] = "done"
    BY DEF DoneClosed
  <2>2. s.mark[d.next[j][c]] = "done"
    <3>1. CASE j = k
      BY <1>8, <2>1, <3>1
    <3>2. CASE j # k
      BY <1>3, <1>7, <2>1, <3>2 DEF DoneClosed
    <3>3. QED
      BY <3>1, <3>2
  <2>3. QED
    BY <1>7, <2>1, <2>2
<1>13. DoneAcyclic(d, u)
  <2>1. SUFFICES ASSUME NEW S \in SUBSET d.keys, S # {}, \A j \in S : u.mark[j] = "done"
                 PROVE  \E j \in S : \A c \in Condition : d.next[j][c] \notin S
    BY DEF DoneAcyclic
  <2> DEFINE T == S \ {k}
  <2>2. \A j \in T : s.mark[j] = "done" /\ j \in d.keys
    BY <1>7, <2>1
  <2>3. CASE T = {}
    <3>1. \A j \in S : j = k
      BY <2>3
    <3>2. \A c \in Condition : d.next[k][c] \notin S
      BY <1>5, <1>8, <2>1, <3>1
    <3>3. QED
      BY <2>1, <3>1, <3>2
  <2>4. CASE T # {}
    <3>1. T \in SUBSET d.keys
      BY <2>1
    <3>2. PICK j \in T : \A c \in Condition : d.next[j][c] \notin T
      <4> HIDE DEF T
      <4>1. QED
        BY <1>3, <2>2, <2>4, <3>1 DEF DoneAcyclic
    <3>3. \A c \in Condition : d.next[j][c] # k
      BY <1>3, <1>5, <2>2 DEF DoneClosed
    <3>4. QED
      BY <3>2, <3>3
  <2>5. QED
    BY <2>3, <2>4
<1>14. RootsHeld(roots, u)
  <2>1. \A i \in 1 .. Len(roots) : roots[i] \in d.keys
    BY SearchFacts
  <2>2. QED
    BY <1>2, <1>3, <1>7, <2>1 DEF RootsHeld
<1>15. QED
  BY <1>2, <1>9, <1>10, <1>11, <1>12, <1>13, <1>14 DEF SearchInv

\* The search begins with nothing behind it.
LEMMA SearchBegins ==
  ASSUME NEW d, Searchable(d), NEW roots, RootsOf(d, roots)
  PROVE  SearchInv(d, roots, Unsearched(d)) /\ Advanced(d, roots, Unsearched(d), 0)
<1> DEFINE s == Unsearched(d)
<1>1. /\ s \in SearchType(d) /\ s.found = FALSE /\ s.root = 1 /\ s.stack = <<>>
      /\ \A k \in d.keys : s.pos[k] = 1 /\ s.mark[k] = "new"
  BY DEF Unsearched, SearchType
<1>2. Len(roots) \in Nat /\ Len(s.stack) = 0
  BY <1>1 DEF RootsOf
<1> HIDE DEF s
<1>3. PlacesHeld(d, roots, s)
  BY <1>1, <1>2, ConditionsListed DEF PlacesHeld
<1>4. StackHeld(d, s) /\ LookedHeld(d, s) /\ DoneClosed(d, s) /\ DoneAcyclic(d, s)
  BY <1>1, <1>2 DEF StackHeld, LookedHeld, DoneClosed, DoneAcyclic
<1>5. RootsHeld(roots, s)
  BY <1>1, <1>2 DEF RootsHeld
<1>6. IsFiniteSet(Passed(d, s))
  <2>1. Passed(d, s) = {}
    BY <1>1 DEF Passed
  <2>2. QED
    BY <2>1, FS_EmptySet
<1>7. Advanced(d, roots, s, 0)
  <2>1. Cardinality(Passed(d, s)) \in Nat
    BY <1>6, FS_CardinalityType
  <2>2. QED
    BY <1>1, <2>1 DEF Advanced
<1>8. QED
  BY <1>1, <1>3, <1>4, <1>5, <1>7 DEF SearchInv, s

\* The invariant holds throughout.
LEMMA SearchInvKept ==
  ASSUME NEW d, Searchable(d), NEW roots, RootsOf(d, roots), NEW s, SearchInv(d, roots, s)
  PROVE  SearchInv(d, roots, SearchStep(d, roots, s))
<1> DEFINE u == SearchStep(d, roots, s)
<1>1. u = SearchStep(d, roots, s)
  OBVIOUS
<1> HIDE DEF u
<1>2. \/ Rests(roots, s) /\ u = s
      \/ RootPassed(d, roots, s, u)
      \/ RootEntered(d, roots, s, u)
      \/ TargetPassed(d, s, u)
      \/ TargetOpen(d, s, u)
      \/ TargetEntered(d, s, u)
      \/ NodeLeft(d, s, u)
  BY <1>1, StepIs
<1>3. SearchInv(d, roots, u)
  BY <1>2, RootPassedKeeps, RootEnteredKeeps, TargetPassedKeeps, TargetOpenKeeps, TargetEnteredKeeps,
     NodeLeftKeeps
<1>4. QED
  BY <1>1, <1>3

-----------------------------------------------------------------------------
(* The search ends.                                                        *)

\* What there is to pass is finite.
LEMMA PassedFinite ==
  ASSUME NEW d, Searchable(d), NEW s
  PROVE  /\ IsFiniteSet(d.keys \X (1 .. Len(Conditions) + 1))
         /\ Cardinality(d.keys \X (1 .. Len(Conditions) + 1)) \in Nat
         /\ Passed(d, s) \subseteq d.keys \X (1 .. Len(Conditions) + 1)
         /\ IsFiniteSet(Passed(d, s))
         /\ Cardinality(Passed(d, s)) \in Nat
         /\ Cardinality(Passed(d, s)) <= Cardinality(d.keys \X (1 .. Len(Conditions) + 1))
<1> DEFINE All == d.keys \X (1 .. Len(Conditions) + 1)
<1>1. IsFiniteSet(d.keys)
  BY SearchAssumption, FS_Subset DEF Searchable
<1>2. IsFiniteSet(1 .. Len(Conditions) + 1)
  BY ConditionsListed, FS_Interval
<1>3. IsFiniteSet(All)
  BY <1>1, <1>2, FS_Product
<1>4. Passed(d, s) \subseteq All
  BY DEF Passed
<1> HIDE DEF All
<1>5. IsFiniteSet(Passed(d, s)) /\ Cardinality(Passed(d, s)) <= Cardinality(All)
  BY <1>3, <1>4, FS_Subset
<1>6. QED
  BY <1>3, <1>4, <1>5, FS_CardinalityType DEF All

\* One thing more is behind a search.
PassesAlso(d, s, u, look) ==
  look \notin Passed(d, s) /\ Passed(d, u) = Passed(d, s) \union {look}

\* One target or one node more is one step more.
LEMMA OneMorePassed ==
  ASSUME NEW d, Searchable(d), NEW roots, NEW s, NEW u, NEW n \in Nat, Advanced(d, roots, s, n),
         ~Rests(roots, s), u.root = s.root, s.root \in Nat,
         NEW look, PassesAlso(d, s, u, look)
  PROVE  Advanced(d, roots, u, n + 1)
<1>1. IsFiniteSet(Passed(d, s)) /\ Cardinality(Passed(d, s)) \in Nat
  BY PassedFinite
<1>2. Cardinality(Passed(d, u)) = Cardinality(Passed(d, s)) + 1
  BY <1>1, FS_AddElement DEF PassesAlso
<1>3. n <= (s.root - 1) + Cardinality(Passed(d, s))
  BY DEF Advanced
<1>4. n + 1 <= (u.root - 1) + Cardinality(Passed(d, u))
  BY <1>1, <1>2, <1>3
<1>5. QED
  BY <1>4 DEF Advanced

\* One root more is one step more.
LEMMA OneMoreRoot ==
  ASSUME NEW d, Searchable(d), NEW roots, NEW s, NEW u, NEW n \in Nat, Advanced(d, roots, s, n),
         ~Rests(roots, s), s.root \in Nat, u.root = s.root + 1, Passed(d, u) = Passed(d, s)
  PROVE  Advanced(d, roots, u, n + 1)
<1>1. Cardinality(Passed(d, s)) \in Nat
  BY PassedFinite
<1>2. n <= (s.root - 1) + Cardinality(Passed(d, s))
  BY DEF Advanced
<1>3. n + 1 <= (u.root - 1) + Cardinality(Passed(d, u))
  BY <1>1, <1>2
<1>4. QED
  BY <1>3 DEF Advanced

\* A further target looked at.
LEMMA LookPasses ==
  ASSUME NEW d, Searchable(d), NEW roots, RootsOf(d, roots), NEW s, SearchInv(d, roots, s),
         NEW k, NEW t, At(d, s, k, t),
         NEW u, u.pos = [s.pos EXCEPT ![k] = s.pos[k] + 1],
         \A j \in d.keys : u.mark[j] = "done" <=> s.mark[j] = "done"
  PROVE  PassesAlso(d, s, u, <<k, s.pos[k]>>)
<1>1. /\ s.stack # <<>> /\ k = s.stack[Len(s.stack)] /\ k \in d.keys
      /\ s.pos[k] \in 1 .. Len(Conditions)
  BY DEF At
<1>2. s.mark[k] = "open" /\ s.pos \in [d.keys -> Nat]
  BY <1>1, InnermostIsOpen, SearchFacts
<1>3. <<k, s.pos[k]>> \notin Passed(d, s)
  BY <1>1, <1>2 DEF Passed
<1>4. ASSUME NEW j \in d.keys, NEW i \in 1 .. Len(Conditions) + 1
      PROVE  <<j, i>> \in Passed(d, u) <=> <<j, i>> \in Passed(d, s) \/ <<j, i>> = <<k, s.pos[k]>>
  <2>0. i \in Nat /\ s.pos[j] \in Nat
    BY <1>2, ConditionsListed
  <2>1. <<j, i>> \in Passed(d, u) <=> i < u.pos[j] \/ s.mark[j] = "done"
    BY DEF Passed
  <2>2. <<j, i>> \in Passed(d, s) <=> i < s.pos[j] \/ s.mark[j] = "done"
    BY DEF Passed
  <2>3. CASE j = k
    <3>1. u.pos[j] = s.pos[j] + 1
      BY <1>2, <2>3
    <3>2. i < u.pos[j] <=> i < s.pos[j] \/ i = s.pos[j]
      BY <2>0, <3>1
    <3>3. QED
      BY <2>1, <2>2, <2>3, <3>2
  <2>4. CASE j # k
    <3>1. u.pos[j] = s.pos[j]
      BY <1>2, <2>4
    <3>2. QED
      BY <2>1, <2>2, <2>4, <3>1
  <2>5. QED
    BY <2>3, <2>4
<1>5. <<k, s.pos[k]>> \in d.keys \X (1 .. Len(Conditions) + 1)
  BY <1>1, ConditionsListed
<1>6. /\ Passed(d, u) \subseteq d.keys \X (1 .. Len(Conditions) + 1)
      /\ Passed(d, s) \subseteq d.keys \X (1 .. Len(Conditions) + 1)
  BY PassedFinite
<1>7. Passed(d, u) = Passed(d, s) \union {<<k, s.pos[k]>>}
  BY <1>4, <1>5, <1>6
<1>8. QED
  BY <1>3, <1>7 DEF PassesAlso

\* A node left.
LEMMA LeavePasses ==
  ASSUME NEW d, Searchable(d), NEW roots, RootsOf(d, roots), NEW s, SearchInv(d, roots, s), s.stack # <<>>,
         NEW k \in d.keys, k = s.stack[Len(s.stack)], s.pos[k] = Len(Conditions) + 1,
         NEW u, u.pos = s.pos, u.mark = [s.mark EXCEPT ![k] = "done"]
  PROVE  PassesAlso(d, s, u, <<k, s.pos[k]>>)
<1>1. /\ s.mark[k] = "open" /\ s.pos \in [d.keys -> Nat] /\ s.mark \in [d.keys -> {"new", "open", "done"}]
  <2>1. s.mark[k] = "open"
    BY InnermostIsOpen
  <2>2. s.pos \in [d.keys -> Nat] /\ s.mark \in [d.keys -> {"new", "open", "done"}]
    BY SearchFacts
  <2>3. QED
    BY <2>1, <2>2
<1>2. <<k, s.pos[k]>> \notin Passed(d, s)
  BY <1>1 DEF Passed
<1>3. ASSUME NEW j \in d.keys, NEW i \in 1 .. Len(Conditions) + 1
      PROVE  <<j, i>> \in Passed(d, u) <=> <<j, i>> \in Passed(d, s) \/ <<j, i>> = <<k, s.pos[k]>>
  <2>1. <<j, i>> \in Passed(d, u) <=> i < s.pos[j] \/ u.mark[j] = "done"
    BY DEF Passed
  <2>2. <<j, i>> \in Passed(d, s) <=> i < s.pos[j] \/ s.mark[j] = "done"
    BY DEF Passed
  <2>3. CASE j = k
    <3>1. u.mark[j] = "done"
      BY <1>1, <2>3
    <3>2. i < s.pos[j] \/ i = s.pos[j]
      BY <2>3, ConditionsListed
    <3>3. QED
      BY <2>1, <2>2, <2>3, <3>1, <3>2
  <2>4. CASE j # k
    <3>1. u.mark[j] = s.mark[j]
      BY <1>1, <2>4
    <3>2. QED
      BY <2>1, <2>2, <2>4, <3>1
  <2>5. QED
    BY <2>3, <2>4
<1>4. <<k, s.pos[k]>> \in d.keys \X (1 .. Len(Conditions) + 1)
  BY ConditionsListed
<1>5. /\ Passed(d, u) \subseteq d.keys \X (1 .. Len(Conditions) + 1)
      /\ Passed(d, s) \subseteq d.keys \X (1 .. Len(Conditions) + 1)
  BY PassedFinite
<1>6. Passed(d, u) = Passed(d, s) \union {<<k, s.pos[k]>>}
  BY <1>3, <1>4, <1>5
<1>7. QED
  BY <1>2, <1>6 DEF PassesAlso

\* The step of a search that does not rest takes it on.
LEMMA SearchAdvances ==
  ASSUME NEW d, Searchable(d), NEW roots, RootsOf(d, roots), NEW s, SearchInv(d, roots, s),
         NEW n \in Nat, Advanced(d, roots, s, n)
  PROVE  Advanced(d, roots, SearchStep(d, roots, s), n + 1)
<1> DEFINE u == SearchStep(d, roots, s)
<1>1. u = SearchStep(d, roots, s)
  OBVIOUS
<1> HIDE DEF u
<1>2. /\ s \in SearchType(d) /\ s.root \in 1 .. (Len(roots) + 1) /\ s.root \in Nat /\ Len(roots) \in Nat
      /\ s.mark \in [d.keys -> {"new", "open", "done"}]
  BY SearchFacts
<1>3. CASE Rests(roots, s) /\ u = s
  BY <1>1, <1>3 DEF Advanced
<1>4. CASE RootPassed(d, roots, s, u)
  <2>1. ~Rests(roots, s)
    BY <1>2, <1>4 DEF RootPassed, Rests
  <2>2. u.root = s.root + 1 /\ Passed(d, u) = Passed(d, s)
    BY <1>4 DEF RootPassed, Becomes, Passed
  <2>3. Advanced(d, roots, u, n + 1)
    BY <1>2, <2>1, <2>2, OneMoreRoot
  <2>4. QED
    BY <1>1, <2>3
<1>5. CASE RootEntered(d, roots, s, u)
  <2>1. ~Rests(roots, s)
    BY <1>2, <1>5 DEF RootEntered, Rests
  <2> DEFINE k == roots[s.root]
  <2>2. u.root = s.root + 1 /\ u.pos = s.pos /\ u.mark = [s.mark EXCEPT ![k] = "open"] /\ s.mark[k] = "new"
    BY <1>5 DEF RootEntered, Becomes
  <2>3. \A j \in d.keys : u.mark[j] = "done" <=> s.mark[j] = "done"
    <3> HIDE DEF k
    <3>1. QED
      BY <1>2, <2>2
  <2>4. Passed(d, u) = Passed(d, s)
    BY <2>2, <2>3 DEF Passed
  <2>5. Advanced(d, roots, u, n + 1)
    BY <1>2, <2>1, <2>2, <2>4, OneMoreRoot
  <2>6. QED
    BY <1>1, <2>5
<1>6. CASE TargetPassed(d, s, u)
  <2>1. PICK k, t \in Key \union {None} :
          At(d, s, k, t) /\ u.root = s.root /\ u.pos = [s.pos EXCEPT ![k] = s.pos[k] + 1] /\ u.mark = s.mark
    BY <1>6 DEF TargetPassed, Becomes
  <2>2. ~Rests(roots, s)
    BY <2>1 DEF At, Rests
  <2>3. PassesAlso(d, s, u, <<k, s.pos[k]>>)
    BY <2>1, LookPasses
  <2>4. Advanced(d, roots, u, n + 1)
    BY <1>2, <2>1, <2>2, <2>3, OneMorePassed
  <2>5. QED
    BY <1>1, <2>4
<1>7. CASE TargetOpen(d, s, u)
  BY <1>1, <1>7 DEF TargetOpen, Becomes, Advanced, Rests
<1>8. CASE TargetEntered(d, s, u)
  <2>1. PICK k, t \in Key \union {None} :
          /\ At(d, s, k, t) /\ u.root = s.root /\ u.pos = [s.pos EXCEPT ![k] = s.pos[k] + 1]
          /\ u.mark = [s.mark EXCEPT ![t] = "open"] /\ s.mark[t] = "new"
    BY <1>8 DEF TargetEntered, Becomes
  <2>2. ~Rests(roots, s)
    BY <2>1 DEF At, Rests
  <2>3. \A j \in d.keys : u.mark[j] = "done" <=> s.mark[j] = "done"
    BY <1>2, <2>1
  <2>4. PassesAlso(d, s, u, <<k, s.pos[k]>>)
    BY <2>1, <2>3, LookPasses
  <2>5. Advanced(d, roots, u, n + 1)
    BY <1>2, <2>1, <2>2, <2>4, OneMorePassed
  <2>6. QED
    BY <1>1, <2>5
<1>9. CASE NodeLeft(d, s, u)
  <2>1. PICK k \in d.keys :
          /\ ~s.found /\ s.stack # <<>> /\ k = s.stack[Len(s.stack)] /\ s.pos[k] = Len(Conditions) + 1
          /\ u.root = s.root /\ u.pos = s.pos /\ u.mark = [s.mark EXCEPT ![k] = "done"]
    BY <1>9 DEF NodeLeft, Becomes
  <2>2. ~Rests(roots, s)
    BY <2>1 DEF Rests
  <2>3. PassesAlso(d, s, u, <<k, s.pos[k]>>)
    BY <2>1, LeavePasses
  <2>4. Advanced(d, roots, u, n + 1)
    BY <1>2, <2>1, <2>2, <2>3, OneMorePassed
  <2>5. QED
    BY <1>1, <2>4
<1>10. QED
  BY <1>1, <1>3, <1>4, <1>5, <1>6, <1>7, <1>8, <1>9, StepIs

\* After so many steps the search rests.
LEMMA SearchRests ==
  ASSUME NEW d, Searchable(d), NEW roots, RootsOf(d, roots), NEW s, SearchInv(d, roots, s),
         Advanced(d, roots, s, SearchSteps(d, roots))
  PROVE  Rests(roots, s)
<1> DEFINE All == d.keys \X (1 .. Len(Conditions) + 1)
<1>1. SUFFICES ASSUME ~Rests(roots, s)
               PROVE  FALSE
  OBVIOUS
<1>2. /\ IsFiniteSet(All) /\ Cardinality(All) \in Nat /\ Passed(d, s) \subseteq All
      /\ Cardinality(Passed(d, s)) \in Nat /\ Cardinality(Passed(d, s)) <= Cardinality(All)
  BY PassedFinite
<1>3. /\ s.root \in 1 .. (Len(roots) + 1) /\ Len(roots) \in Nat /\ s.found \in BOOLEAN
      /\ \A k \in d.keys : s.pos[k] \in 1 .. (Len(Conditions) + 1)
  BY SearchFacts
<1>4. SearchSteps(d, roots) = Len(roots) + Cardinality(All)
  BY DEF SearchSteps
<1>5. Len(roots) + Cardinality(All) <= (s.root - 1) + Cardinality(Passed(d, s))
  BY <1>1, <1>4 DEF Advanced
<1>6. s.root = Len(roots) + 1 /\ Cardinality(Passed(d, s)) = Cardinality(All)
  <2> HIDE DEF All
  <2>1. QED
    BY <1>2, <1>3, <1>5
<1>7. Passed(d, s) = All
  <2> HIDE DEF All
  <2>1. QED
    BY <1>2, <1>6, FS_Subset
<1>8. \A k \in d.keys : s.mark[k] = "done"
  <2>1. SUFFICES ASSUME NEW k \in d.keys
                 PROVE  s.mark[k] = "done"
    OBVIOUS
  <2>2. <<k, Len(Conditions) + 1>> \in Passed(d, s)
    BY <1>7, ConditionsListed
  <2>3. Len(Conditions) + 1 < s.pos[k] \/ s.mark[k] = "done"
    BY <2>2 DEF Passed
  <2>4. QED
    BY <1>3, <2>3, ConditionsListed
<1>9. s.stack # <<>> /\ s.stack[Len(s.stack)] \in d.keys
  <2>1. s.stack # <<>>
    BY <1>1, <1>6 DEF Rests
  <2>2. QED
    BY <2>1, InnermostIsOpen, SearchFacts
<1>10. QED
  BY <1>8, <1>9, InnermostIsOpen

\* A search that rests has found a cycle exactly when there is one.
LEMMA RestIsRight ==
  ASSUME NEW d, Searchable(d), NEW roots, RootsOf(d, roots), NEW s, SearchInv(d, roots, s), Rests(roots, s)
  PROVE  s.found <=> ~Acyclic(d)
<1>1. s.found => ~Acyclic(d)
  BY DEF SearchInv
<1>2. ASSUME ~s.found
      PROVE  Acyclic(d)
  <2>1. s.stack = <<>> /\ s.root = Len(roots) + 1 /\ Len(s.stack) = 0
    BY <1>2 DEF Rests
  <2>2. \A k \in d.keys : s.mark[k] # "open"
    BY <2>1 DEF SearchInv, StackHeld
  <2>3. \A k \in d.keys : s.mark[k] # "new"
    <3>1. \A i \in 1 .. Len(roots) : i < s.root
      BY <2>1, SearchFacts
    <3>2. \A i \in 1 .. Len(roots) : s.mark[roots[i]] # "new"
      BY <3>1 DEF SearchInv, RootsHeld
    <3>3. \A k \in d.keys : \E i \in 1 .. Len(roots) : roots[i] = k
      BY DEF RootsOf, Contents
    <3>4. QED
      BY <3>2, <3>3
  <2>4. \A k \in d.keys : s.mark[k] = "done"
    BY <2>2, <2>3, SearchFacts
  <2>5. QED
    BY <2>4 DEF SearchInv, DoneAcyclic, Acyclic
<1>3. s.found \in BOOLEAN
  BY SearchFacts
<1>4. QED
  BY <1>1, <1>2, <1>3

-----------------------------------------------------------------------------
(* A search as a function of the number of its steps.                      *)

\* The search for cycles finds one exactly when there is one.
LEMMA CycleSearchIsRight ==
  ASSUME NEW d, Searchable(d), NEW roots, RootsOf(d, roots)
  PROVE  CycleFrom(d, roots) <=> ~Acyclic(d)
<1> DEFINE N == SearchSteps(d, roots)
           T == {s \in SearchType(d) : SearchInv(d, roots, s)}
           start == Unsearched(d)
           next(s) == SearchStep(d, roots, s)
           step == [n \in Nat |-> [s \in T |-> next(s)]]
           Is(f) == f = [n \in 0 .. N |-> IF n = 0 THEN start ELSE next(f[n - 1])]
           search == CHOOSE f : Is(f)
<1>1. N \in Nat
  <2>1. Len(roots) \in Nat
    BY DEF RootsOf
  <2>2. Cardinality(d.keys \X (1 .. Len(Conditions) + 1)) \in Nat
    BY PassedFinite
  <2>3. QED
    BY <2>1, <2>2 DEF SearchSteps
<1>2. start \in T /\ Advanced(d, roots, start, 0)
  <2>1. SearchInv(d, roots, start) /\ Advanced(d, roots, start, 0)
    BY SearchBegins
  <2>2. start \in SearchType(d)
    BY <2>1, SearchFacts
  <2>3. QED
    BY <2>1, <2>2
<1>3. \A s \in T : next(s) \in T
  <2>1. SUFFICES ASSUME NEW s \in T
                 PROVE  next(s) \in T
    OBVIOUS
  <2>2. SearchInv(d, roots, next(s))
    BY SearchInvKept
  <2> HIDE DEF next
  <2>3. next(s) \in SearchType(d)
    BY <2>2, SearchFacts
  <2>4. QED
    BY <2>2, <2>3
<1>4. step \in [Nat -> [T -> T]]
  <2> HIDE DEF next, T
  <2>1. QED
    BY <1>3
<1>5. PICK g : Unrolls(g, N, T, start, step)
  <2> HIDE DEF N, T, start, step
  <2>1. QED
    BY <1>1, <1>2, <1>4, BoundedRecursion
<1>6. Is(g)
  <2> HIDE DEF N, T, start, next
  <2>1. g \in [0 .. N -> T] /\ g[0] = start /\ \A n \in 1 .. N : g[n] = step[n][g[n - 1]]
    BY <1>5 DEF Unrolls
  <2>2. ASSUME NEW n \in 0 .. N
        PROVE  g[n] = IF n = 0 THEN start ELSE next(g[n - 1])
    <3>1. CASE n = 0
      BY <2>1, <3>1
    <3>2. CASE n # 0
      <4>1. n \in 1 .. N /\ n - 1 \in 0 .. N /\ n \in Nat
        BY <1>1, <3>2
      <4>2. g[n - 1] \in T
        BY <2>1, <4>1
      <4>3. QED
        BY <2>1, <3>2, <4>1, <4>2
    <3>3. QED
      BY <3>1, <3>2
  <2>3. g = [n \in 0 .. N |-> g[n]]
    BY <2>1
  <2>4. QED
    BY <2>2, <2>3
<1>7. Is(search)
  <2> HIDE DEF Is
  <2>1. QED
    BY <1>6
<1>8. /\ search[0] = start
      /\ \A n \in Nat : n + 1 <= N => search[n + 1] = next(search[n])
  <2>1. search = [n \in 0 .. N |-> IF n = 0 THEN start ELSE next(search[n - 1])]
    BY <1>7
  <2> HIDE DEF search, next, start, N
  <2>2. search[0] = start
    BY <1>1, <2>1
  <2>3. ASSUME NEW n \in Nat, n + 1 <= N
        PROVE  search[n + 1] = next(search[n])
    <3>1. n + 1 \in 0 .. N /\ n + 1 # 0 /\ (n + 1) - 1 = n
      BY <1>1, <2>3
    <3>2. QED
      BY <2>1, <3>1
  <2>4. QED
    BY <2>2, <2>3
<1> DEFINE Good(n) == search[n] \in T /\ Advanced(d, roots, search[n], n)
           Held == {n \in Nat : n <= N => Good(n)}
<1>9. 0 \in Held
  <2> HIDE DEF search, T, start
  <2>1. QED
    BY <1>2, <1>8
<1>10. ASSUME NEW n \in Nat, n \in Held
       PROVE  n + 1 \in Held
  <2> HIDE DEF search, start, N
  <2>1. SUFFICES ASSUME n + 1 <= N
                 PROVE  Good(n + 1)
    OBVIOUS
  <2>2. n <= N
    BY <1>1, <2>1
  <2>3. SearchInv(d, roots, search[n]) /\ search[n] \in T /\ Advanced(d, roots, search[n], n)
    BY <1>10, <2>2
  <2>4. search[n + 1] = SearchStep(d, roots, search[n])
    BY <1>8, <2>1
  <2>5. Advanced(d, roots, search[n + 1], n + 1)
    BY <2>3, <2>4, SearchAdvances
  <2>6. search[n + 1] \in T
    BY <1>3, <2>3, <2>4
  <2>7. QED
    BY <2>5, <2>6
<1>11. Good(N)
  <2>1. \A n \in Nat : n \in Held
    <3> HIDE DEF Held
    <3>1. QED
      BY <1>9, <1>10, SetInduction
  <2> HIDE DEF Good, N
  <2>2. QED
    BY <1>1, <2>1
<1>12. CycleFrom(d, roots) = search[N].found
  BY DEF CycleFrom
<1> HIDE DEF search
<1>13. SearchInv(d, roots, search[N]) /\ Advanced(d, roots, search[N], SearchSteps(d, roots))
  BY <1>11
<1> HIDE DEF N
<1>14. search[N].found <=> ~Acyclic(d)
  BY <1>13, SearchRests, RestIsRight
<1>15. QED
  BY <1>12, <1>14

-----------------------------------------------------------------------------
(* The breadth-first search.                                               *)

\* The first element less, place by place.
LEMMA Dequeued ==
  ASSUME NEW X, NEW q \in Seq(X), q # <<>>
  PROVE  /\ Tail(q) \in Seq(X) /\ Len(Tail(q)) = Len(q) - 1 /\ Head(q) \in X
         /\ Contents(q) = Contents(Tail(q)) \union {Head(q)}
<1>1. Len(q) \in Nat /\ Len(q) # 0
  BY EmptySeq
<1>2. /\ Head(q) = q[1] /\ Head(q) \in X
      /\ Tail(q) \in Seq(X) /\ Len(Tail(q)) = Len(q) - 1
      /\ \A i \in 1 .. (Len(q) - 1) : Tail(q)[i] = q[i + 1]
  BY <1>1, HeadTailProperties
<1>3. ASSUME NEW x \in Contents(q)
      PROVE  x \in Contents(Tail(q)) \union {Head(q)}
  <2>1. PICK i \in 1 .. Len(q) : q[i] = x
    BY <1>3 DEF Contents
  <2>2. CASE i = 1
    BY <1>2, <2>1, <2>2
  <2>3. CASE i # 1
    <3>1. i - 1 \in 1 .. (Len(q) - 1) /\ (i - 1) + 1 = i
      BY <1>1, <2>1, <2>3
    <3>2. Tail(q)[i - 1] = x /\ i - 1 \in DOMAIN Tail(q)
      BY <1>2, <2>1, <3>1
    <3>3. QED
      BY <3>2 DEF Contents
  <2>4. QED
    BY <2>2, <2>3
<1>4. ASSUME NEW x \in Contents(Tail(q)) \union {Head(q)}
      PROVE  x \in Contents(q)
  <2>1. CASE x = Head(q)
    <3>1. 1 \in DOMAIN q
      BY <1>1
    <3>2. QED
      BY <1>2, <2>1, <3>1 DEF Contents
  <2>2. CASE x \in Contents(Tail(q))
    <3>1. PICK i \in 1 .. (Len(q) - 1) : Tail(q)[i] = x
      BY <1>2, <2>2 DEF Contents
    <3>2. i + 1 \in DOMAIN q /\ q[i + 1] = x
      BY <1>1, <1>2, <3>1
    <3>3. QED
      BY <3>2 DEF Contents
  <2>3. QED
    BY <1>4, <2>1, <2>2
<1>5. QED
  BY <1>2, <1>3, <1>4

\* What is queued behind a queue.
LEMMA Enqueued ==
  ASSUME NEW X, NEW q \in Seq(X), NEW r \in Seq(X)
  PROVE  /\ q \o r \in Seq(X) /\ Len(q \o r) = Len(q) + Len(r)
         /\ Contents(q \o r) = Contents(q) \union Contents(r)
<1>1. /\ q \o r \in Seq(X) /\ Len(q \o r) = Len(q) + Len(r)
      /\ \A i \in 1 .. Len(q) + Len(r) : (q \o r)[i] = IF i <= Len(q) THEN q[i] ELSE r[i - Len(q)]
      /\ Len(q) \in Nat /\ Len(r) \in Nat
  BY ConcatProperties
<1> DEFINE u == q \o r
<1>2. /\ \A i \in 1 .. Len(q) : u[i] = q[i] /\ i \in 1 .. Len(u)
      /\ \A i \in 1 .. Len(r) : u[Len(q) + i] = r[i] /\ Len(q) + i \in 1 .. Len(u)
      /\ \A i \in 1 .. Len(u) : i \in 1 .. Len(q) \/ (i - Len(q) \in 1 .. Len(r) /\ u[i] = r[i - Len(q)])
      /\ DOMAIN u = 1 .. Len(u)
  BY <1>1
<1>3. Contents(u) = Contents(q) \union Contents(r)
  <2> HIDE DEF u
  <2>1. Contents(u) \subseteq Contents(q) \union Contents(r)
    BY <1>2 DEF Contents
  <2>2. ASSUME NEW x \in Contents(q)
        PROVE  x \in Contents(u)
    <3>1. PICK i \in 1 .. Len(q) : q[i] = x
      BY <2>2 DEF Contents
    <3>2. u[i] = x /\ i \in DOMAIN u
      BY <1>2, <3>1
    <3>3. QED
      BY <3>2 DEF Contents
  <2>3. ASSUME NEW x \in Contents(r)
        PROVE  x \in Contents(u)
    <3>1. PICK i \in 1 .. Len(r) : r[i] = x
      BY <2>3 DEF Contents
    <3>2. u[Len(q) + i] = x /\ Len(q) + i \in DOMAIN u
      BY <1>2, <3>1
    <3>3. QED
      BY <3>2 DEF Contents
  <2>4. QED
    BY <2>1, <2>2, <2>3
<1>4. QED
  BY <1>1, <1>3

\* What the search may queue: what `next` or start_node may name.
Queueable == Place \union {None}

\* The declarations whose start the search is given.
Startable(d) == Searchable(d) /\ d.start \in Queueable

\* The targets of a node as they are queued.
LEMMA TargetsListed ==
  ASSUME NEW d, Searchable(d), NEW k \in d.keys
  PROVE  /\ Targets(d, k) \in Seq(Queueable) /\ Len(Targets(d, k)) = Len(Conditions)
         /\ \A c \in Condition : d.next[k][c] \in Contents(Targets(d, k))
         /\ \A t \in Contents(Targets(d, k)) : Leads(d, k, t)
<1> DEFINE n == Len(Conditions)
           q == Targets(d, k)
<1>1. n \in Nat /\ q = [i \in 1 .. n |-> Target(d, k, i)]
  BY ConditionsListed DEF Targets
<1>2. \A i \in 1 .. n : Target(d, k, i) \in Queueable
  BY ConditionsListed DEF Target, Searchable, Queueable, Place
<1> HIDE DEF n, q
<1>3. q \in Seq(Queueable) /\ Len(q) = n /\ DOMAIN q = 1 .. n
  BY <1>1, <1>2
<1>4. \A i \in 1 .. n : q[i] = Target(d, k, i)
  BY <1>1
<1>5. \A c \in Condition : d.next[k][c] \in Contents(q)
  <2>1. SUFFICES ASSUME NEW c \in Condition
                 PROVE  d.next[k][c] \in Contents(q)
    OBVIOUS
  <2>2. PICK i \in 1 .. n : Target(d, k, i) = d.next[k][c]
    BY TargetsAreLed DEF n
  <2>3. QED
    BY <1>3, <1>4, <2>2 DEF Contents
<1>6. \A t \in Contents(q) : Leads(d, k, t)
  <2>1. \A i \in 1 .. n : Leads(d, k, Target(d, k, i))
    BY TargetsAreLed DEF n
  <2>2. QED
    BY <1>3, <1>4, <2>1 DEF Contents
<1>7. QED
  BY <1>3, <1>5, <1>6 DEF n, q

\* The inductive invariant of the search for reach: what was taken up is reached, and what is
\* reached and not taken up waits in the queue, or comes after something that does.
ReachType(d) == [queue : Seq(Queueable), reached : SUBSET d.keys]

ReachInv(d, s) ==
  /\ s \in ReachType(d)
  /\ s.reached \subseteq Reachable(d)
  /\ \A k \in Contents(s.queue) : k \in d.keys => k \in Reachable(d)
  /\ d.start \in d.keys => d.start \in s.reached \union Contents(s.queue)
  /\ \A k \in s.reached, c \in Condition :
       d.next[k][c] \in d.keys => d.next[k][c] \in s.reached \union Contents(s.queue)

\* Every step takes one place off the queue, and a node adds its targets once.
ReachAdvanced(d, s, n) ==
  s.queue = <<>> \/ n + Len(s.queue) <= 1 + Cardinality(s.reached \X DOMAIN Conditions)

\* What is in the queue is passed over or taken up.
LEMMA ReachStepIs ==
  ASSUME NEW d, NEW s, s \in ReachType(d), NEW u, u = ReachStep(d, s)
  PROVE  \/ s.queue = <<>> /\ u = s
         \/ /\ s.queue # <<>> /\ (Head(s.queue) \in s.reached \/ Head(s.queue) \notin d.keys)
            /\ u = [queue |-> Tail(s.queue), reached |-> s.reached]
         \/ /\ s.queue # <<>> /\ Head(s.queue) \in d.keys \ s.reached
            /\ u = [queue |-> Tail(s.queue) \o Targets(d, Head(s.queue)),
                    reached |-> s.reached \union {Head(s.queue)}]
<1>1. [s EXCEPT !.queue = Tail(s.queue)] = [queue |-> Tail(s.queue), reached |-> s.reached]
  <2> DEFINE rest == Tail(s.queue)
  <2>1. s = [queue |-> s.queue, reached |-> s.reached]
    BY DEF ReachType
  <2> HIDE DEF rest
  <2>2. [s EXCEPT !.queue = rest] = [queue |-> rest, reached |-> s.reached]
    BY <2>1
  <2>3. QED
    BY <2>2 DEF rest
<1>2. QED
  BY <1>1 DEF ReachStep

\* Nodes added to those reached add their targets.
LEMMA TargetsCounted ==
  ASSUME NEW d, Searchable(d), NEW S \in SUBSET d.keys
  PROVE  /\ Cardinality(S \X DOMAIN Conditions) \in Nat
         /\ Cardinality(S \X DOMAIN Conditions) <= Cardinality(d.keys \X DOMAIN Conditions)
         /\ Cardinality(d.keys \X DOMAIN Conditions) \in Nat
         /\ \A k \in d.keys \ S : Cardinality((S \union {k}) \X DOMAIN Conditions)
                                    = Cardinality(S \X DOMAIN Conditions) + Len(Conditions)
<1> DEFINE D == DOMAIN Conditions
           C == Len(Conditions)
<1>1. C \in Nat /\ D = 1 .. C
  BY ConditionsListed
<1>2. IsFiniteSet(D) /\ Cardinality(D) = C
  <2>1. IsFiniteSet(1 .. C) /\ Cardinality(1 .. C) = IF 1 > C THEN 0 ELSE C - 1 + 1
    <3> HIDE DEF C
    <3>1. QED
      BY <1>1, FS_Interval
  <2> HIDE DEF C, D
  <2>2. QED
    BY <1>1, <2>1
<1>3. IsFiniteSet(d.keys) /\ IsFiniteSet(S)
  BY SearchAssumption, FS_Subset DEF Searchable
<1> HIDE DEF D, C
<1>4. \A T : IsFiniteSet(T) => /\ IsFiniteSet(T \X D) /\ Cardinality(T \X D) \in Nat
                               /\ Cardinality(T \X D) = Cardinality(T) * C
  BY <1>2, FS_Product, FS_CardinalityType
<1>5. Cardinality(S \X D) <= Cardinality(d.keys \X D)
  <2>1. S \X D \subseteq d.keys \X D
    OBVIOUS
  <2>2. QED
    BY <1>3, <1>4, <2>1, FS_Subset
<1>6. ASSUME NEW k \in d.keys \ S
      PROVE  Cardinality((S \union {k}) \X D) = Cardinality(S \X D) + C
  <2>1. IsFiniteSet(S \union {k}) /\ Cardinality(S \union {k}) = Cardinality(S) + 1
    BY <1>3, FS_AddElement
  <2>2. Cardinality(S) \in Nat
    BY <1>3, FS_CardinalityType
  <2>3. \A m \in Nat : (m + 1) * C = m * C + C
    BY <1>1 DEF C
  <2>4. QED
    BY <1>3, <1>4, <2>1, <2>2, <2>3
<1>7. QED
  BY <1>3, <1>4, <1>5, <1>6 DEF D, C

\* A step keeps the invariant.
LEMMA ReachInvKept ==
  ASSUME NEW d, Startable(d), NEW s, ReachInv(d, s)
  PROVE  ReachInv(d, ReachStep(d, s))
<1> DEFINE u == ReachStep(d, s)
           k == Head(s.queue)
<1>1. u = ReachStep(d, s)
  OBVIOUS
<1> HIDE DEF u
<1>2. /\ s \in ReachType(d) /\ s.queue \in Seq(Queueable) /\ s.reached \in SUBSET d.keys
      /\ Searchable(d) /\ Len(s.queue) \in Nat
  BY DEF ReachInv, ReachType, Startable
<1>3. CASE s.queue = <<>> /\ u = s
  BY <1>1, <1>3
<1>4. CASE /\ s.queue # <<>> /\ (k \in s.reached \/ k \notin d.keys)
           /\ u = [queue |-> Tail(s.queue), reached |-> s.reached]
  <2>1. /\ Tail(s.queue) \in Seq(Queueable) /\ Len(Tail(s.queue)) = Len(s.queue) - 1
        /\ Contents(s.queue) = Contents(Tail(s.queue)) \union {k}
    BY <1>2, <1>4, Dequeued
  <2>2. u.queue = Tail(s.queue) /\ u.reached = s.reached /\ u \in ReachType(d)
    BY <1>2, <1>4, <2>1 DEF ReachType
  <2> HIDE DEF k
  <2>3. \A t \in d.keys : t \in s.reached \union Contents(s.queue) => t \in u.reached \union Contents(u.queue)
    BY <1>4, <2>1, <2>2
  <2>4. ReachInv(d, u)
    BY <2>1, <2>2, <2>3 DEF ReachInv
  <2>5. QED
    BY <1>1, <2>4
<1>5. CASE /\ s.queue # <<>> /\ k \in d.keys \ s.reached
           /\ u = [queue |-> Tail(s.queue) \o Targets(d, k), reached |-> s.reached \union {k}]
  <2>1. /\ Tail(s.queue) \in Seq(Queueable) /\ Len(Tail(s.queue)) = Len(s.queue) - 1
        /\ Contents(s.queue) = Contents(Tail(s.queue)) \union {k}
    BY <1>2, <1>5, Dequeued
  <2> HIDE DEF k
  <2>2. /\ Targets(d, k) \in Seq(Queueable) /\ Len(Targets(d, k)) = Len(Conditions)
        /\ \A c \in Condition : d.next[k][c] \in Contents(Targets(d, k))
        /\ \A t \in Contents(Targets(d, k)) : Leads(d, k, t)
    BY <1>2, <1>5, TargetsListed
  <2>3. /\ Tail(s.queue) \o Targets(d, k) \in Seq(Queueable)
        /\ Len(Tail(s.queue) \o Targets(d, k)) = (Len(s.queue) - 1) + Len(Conditions)
        /\ Contents(Tail(s.queue) \o Targets(d, k)) = Contents(Tail(s.queue)) \union Contents(Targets(d, k))
    <3> DEFINE q == Tail(s.queue)
               r == Targets(d, k)
    <3>1. q \in Seq(Queueable) /\ r \in Seq(Queueable)
      BY <2>1, <2>2
    <3> HIDE DEF q, r
    <3>2. /\ q \o r \in Seq(Queueable) /\ Len(q \o r) = Len(q) + Len(r)
          /\ Contents(q \o r) = Contents(q) \union Contents(r)
      BY <3>1, Enqueued
    <3>3. QED
      BY <2>1, <2>2, <3>2 DEF q, r
  <2>4. /\ u.queue = Tail(s.queue) \o Targets(d, k) /\ u.reached = s.reached \union {k} /\ u \in ReachType(d)
    BY <1>2, <1>5, <2>3 DEF ReachType
  <2>5. Contents(s.queue) \union s.reached \union Contents(Targets(d, k)) \subseteq u.reached \union Contents(u.queue)
    BY <2>1, <2>3, <2>4
  <2>6. k \in Reachable(d)
    BY <1>5, <2>1 DEF ReachInv
  <2>7. \A t \in Contents(Targets(d, k)) : t \in d.keys => t \in Reachable(d)
    BY <2>2, <2>6, ReachGoesOn DEF Leads
  <2>8. ReachInv(d, u)
    <3>1. u.reached \subseteq Reachable(d)
      BY <2>4, <2>6 DEF ReachInv
    <3>2. \A t \in Contents(u.queue) : t \in d.keys => t \in Reachable(d)
      BY <2>1, <2>3, <2>4, <2>7 DEF ReachInv
    <3>3. d.start \in d.keys => d.start \in u.reached \union Contents(u.queue)
      BY <2>5 DEF ReachInv
    <3>4. \A j \in u.reached, c \in Condition :
            d.next[j][c] \in d.keys => d.next[j][c] \in u.reached \union Contents(u.queue)
      BY <2>2, <2>4, <2>5 DEF ReachInv
    <3>5. QED
      BY <2>4, <3>1, <3>2, <3>3, <3>4 DEF ReachInv
  <2>9. QED
    BY <1>1, <2>8
<1>6. QED
  BY <1>1, <1>2, <1>3, <1>4, <1>5, ReachStepIs

\* A step takes the search on.
LEMMA ReachAdvances ==
  ASSUME NEW d, Startable(d), NEW s, ReachInv(d, s), NEW n \in Nat, ReachAdvanced(d, s, n)
  PROVE  ReachAdvanced(d, ReachStep(d, s), n + 1)
<1> DEFINE u == ReachStep(d, s)
           k == Head(s.queue)
<1>1. u = ReachStep(d, s)
  OBVIOUS
<1> HIDE DEF u
<1>2. /\ s \in ReachType(d) /\ s.queue \in Seq(Queueable) /\ s.reached \in SUBSET d.keys
      /\ Searchable(d) /\ Len(s.queue) \in Nat
  BY DEF ReachInv, ReachType, Startable
<1>3. CASE s.queue = <<>> /\ u = s
  BY <1>1, <1>3 DEF ReachAdvanced
<1>4. CASE /\ s.queue # <<>> /\ (k \in s.reached \/ k \notin d.keys)
           /\ u = [queue |-> Tail(s.queue), reached |-> s.reached]
  <2>1. /\ Tail(s.queue) \in Seq(Queueable) /\ Len(Tail(s.queue)) = Len(s.queue) - 1
        /\ Contents(s.queue) = Contents(Tail(s.queue)) \union {k}
    BY <1>2, <1>4, Dequeued
  <2>2. u.queue = Tail(s.queue) /\ u.reached = s.reached /\ u \in ReachType(d)
    BY <1>2, <1>4, <2>1 DEF ReachType
  <2> HIDE DEF k
  <2>3. Cardinality(s.reached \X DOMAIN Conditions) \in Nat
    BY <1>2, TargetsCounted
  <2>4. ReachAdvanced(d, u, n + 1)
    BY <1>2, <1>4, <2>1, <2>2, <2>3 DEF ReachAdvanced
  <2>5. QED
    BY <1>1, <2>4
<1>5. CASE /\ s.queue # <<>> /\ k \in d.keys \ s.reached
           /\ u = [queue |-> Tail(s.queue) \o Targets(d, k), reached |-> s.reached \union {k}]
  <2>1. /\ Tail(s.queue) \in Seq(Queueable) /\ Len(Tail(s.queue)) = Len(s.queue) - 1
        /\ Contents(s.queue) = Contents(Tail(s.queue)) \union {k}
    BY <1>2, <1>5, Dequeued
  <2> HIDE DEF k
  <2>2. /\ Targets(d, k) \in Seq(Queueable) /\ Len(Targets(d, k)) = Len(Conditions)
        /\ \A c \in Condition : d.next[k][c] \in Contents(Targets(d, k))
        /\ \A t \in Contents(Targets(d, k)) : Leads(d, k, t)
    BY <1>2, <1>5, TargetsListed
  <2>3. /\ Tail(s.queue) \o Targets(d, k) \in Seq(Queueable)
        /\ Len(Tail(s.queue) \o Targets(d, k)) = (Len(s.queue) - 1) + Len(Conditions)
        /\ Contents(Tail(s.queue) \o Targets(d, k)) = Contents(Tail(s.queue)) \union Contents(Targets(d, k))
    <3> DEFINE q == Tail(s.queue)
               r == Targets(d, k)
    <3>1. q \in Seq(Queueable) /\ r \in Seq(Queueable)
      BY <2>1, <2>2
    <3> HIDE DEF q, r
    <3>2. /\ q \o r \in Seq(Queueable) /\ Len(q \o r) = Len(q) + Len(r)
          /\ Contents(q \o r) = Contents(q) \union Contents(r)
      BY <3>1, Enqueued
    <3>3. QED
      BY <2>1, <2>2, <3>2 DEF q, r
  <2>4. /\ u.queue = Tail(s.queue) \o Targets(d, k) /\ u.reached = s.reached \union {k} /\ u \in ReachType(d)
    BY <1>2, <1>5, <2>3 DEF ReachType
  <2>5. /\ Cardinality(s.reached \X DOMAIN Conditions) \in Nat
        /\ Cardinality(u.reached \X DOMAIN Conditions) = Cardinality(s.reached \X DOMAIN Conditions) + Len(Conditions)
    <3>1. /\ Cardinality(s.reached \X DOMAIN Conditions) \in Nat
          /\ \A j \in d.keys \ s.reached :
               Cardinality((s.reached \union {j}) \X DOMAIN Conditions)
                 = Cardinality(s.reached \X DOMAIN Conditions) + Len(Conditions)
      BY <1>2, TargetsCounted
    <3>2. QED
      BY <1>5, <2>4, <3>1
  <2>6. ReachAdvanced(d, u, n + 1)
    <3>1. n + Len(s.queue) <= 1 + Cardinality(s.reached \X DOMAIN Conditions)
      BY <1>5 DEF ReachAdvanced
    <3>2. Len(u.queue) = (Len(s.queue) - 1) + Len(Conditions)
      BY <2>3, <2>4
    <3>3. (n + 1) + Len(u.queue) <= 1 + Cardinality(u.reached \X DOMAIN Conditions)
      <4> DEFINE before == Cardinality(s.reached \X DOMAIN Conditions)
                 after == Cardinality(u.reached \X DOMAIN Conditions)
                 C == Len(Conditions)
                 l == Len(s.queue)
                 m == Len(u.queue)
      <4>1. before \in Nat /\ after = before + C /\ C \in Nat /\ l \in Nat /\ n + l <= 1 + before /\ m = (l - 1) + C
        BY <1>2, <2>5, <3>1, <3>2, ConditionsListed
      <4> HIDE DEF before, after, C, l, m
      <4>2. (n + 1) + m <= 1 + after
        BY <4>1
      <4>3. QED
        BY <4>2 DEF after, m
    <3>4. QED
      BY <3>3 DEF ReachAdvanced
  <2>7. QED
    BY <1>1, <2>6
<1>6. QED
  BY <1>1, <1>2, <1>3, <1>4, <1>5, ReachStepIs

\* A search whose queue is empty has reached what is to be reached.
LEMMA ReachedIsRight ==
  ASSUME NEW d, NEW s, ReachInv(d, s), s.queue = <<>>
  PROVE  s.reached = Reachable(d)
<1>1. Contents(s.queue) = {} /\ s.reached \in SUBSET d.keys
  BY DEF ReachInv, ReachType, Contents
<1>2. Closed(d, s.reached)
  BY <1>1 DEF ReachInv, Closed
<1>3. d.start \in d.keys => d.start \in s.reached
  BY <1>1 DEF ReachInv
<1>4. Reachable(d) \subseteq s.reached
  BY <1>1, <1>2, <1>3 DEF Reachable
<1>5. QED
  BY <1>4 DEF ReachInv

\* The search from the start reaches what every closed set around the start holds.
LEMMA ReachSearchIsRight ==
  ASSUME NEW d, Startable(d)
  PROVE  Reached(d, d.start) = Reachable(d)
<1> DEFINE N == ReachSteps(d)
           T == {s \in ReachType(d) : ReachInv(d, s)}
           start == [queue |-> <<d.start>>, reached |-> {}]
           next(s) == ReachStep(d, s)
           step == [n \in Nat |-> [s \in T |-> next(s)]]
           Is(f) == f = [n \in 0 .. N |-> IF n = 0 THEN start ELSE next(f[n - 1])]
           search == CHOOSE f : Is(f)
<1>0. /\ Searchable(d) /\ Cardinality(d.keys \X DOMAIN Conditions) \in Nat
      /\ \A S \in SUBSET d.keys : Cardinality(S \X DOMAIN Conditions) <= Cardinality(d.keys \X DOMAIN Conditions)
      /\ \A S \in SUBSET d.keys : Cardinality(S \X DOMAIN Conditions) \in Nat
  <2>1. Searchable(d) /\ d.keys \in SUBSET d.keys
    BY DEF Startable
  <2>2. QED
    BY <2>1, TargetsCounted
<1>1. N \in Nat
  BY <1>0 DEF ReachSteps
<1>2. start \in T /\ ReachAdvanced(d, start, 0)
  <2>1. start.queue = <<d.start>> /\ start.reached = {} /\ start \in ReachType(d)
    BY DEF ReachType, Startable
  <2>2. Len(start.queue) = 1 /\ Contents(start.queue) = {d.start}
    BY <2>1 DEF Contents
  <2> HIDE DEF start
  <2>3. ReachInv(d, start)
    BY <2>1, <2>2, StartIsReached DEF ReachInv
  <2>4. Cardinality(start.reached \X DOMAIN Conditions) \in Nat
    BY <1>0, <2>1
  <2>5. 0 + Len(start.queue) <= 1 + Cardinality(start.reached \X DOMAIN Conditions)
    BY <2>2, <2>4
  <2>6. QED
    BY <2>1, <2>3, <2>5 DEF ReachAdvanced
<1>3. \A s \in T : next(s) \in T
  <2>1. SUFFICES ASSUME NEW s \in T
                 PROVE  next(s) \in T
    OBVIOUS
  <2>2. ReachInv(d, next(s))
    <3>1. ReachInv(d, s)
      OBVIOUS
    <3>2. QED
      BY <3>1, ReachInvKept
  <2> HIDE DEF next
  <2>3. next(s) \in ReachType(d)
    BY <2>2 DEF ReachInv
  <2>4. QED
    BY <2>2, <2>3
<1>4. step \in [Nat -> [T -> T]]
  <2> HIDE DEF next, T
  <2>1. QED
    BY <1>3
<1>5. PICK g : Unrolls(g, N, T, start, step)
  <2> HIDE DEF N, T, start, step
  <2>1. QED
    BY <1>1, <1>2, <1>4, BoundedRecursion
<1>6. Is(g)
  <2> HIDE DEF N, T, start, next
  <2>1. g \in [0 .. N -> T] /\ g[0] = start /\ \A n \in 1 .. N : g[n] = step[n][g[n - 1]]
    BY <1>5 DEF Unrolls
  <2>2. ASSUME NEW n \in 0 .. N
        PROVE  g[n] = IF n = 0 THEN start ELSE next(g[n - 1])
    <3>1. CASE n = 0
      BY <2>1, <3>1
    <3>2. CASE n # 0
      <4>1. n \in 1 .. N /\ n - 1 \in 0 .. N /\ n \in Nat
        BY <1>1, <3>2
      <4>2. g[n - 1] \in T
        BY <2>1, <4>1
      <4>3. QED
        BY <2>1, <3>2, <4>1, <4>2
    <3>3. QED
      BY <3>1, <3>2
  <2>3. g = [n \in 0 .. N |-> g[n]]
    BY <2>1
  <2>4. QED
    BY <2>2, <2>3
<1>7. Is(search)
  <2> HIDE DEF Is
  <2>1. QED
    BY <1>6
<1>8. /\ search[0] = start
      /\ \A n \in Nat : n + 1 <= N => search[n + 1] = next(search[n])
  <2>1. search = [n \in 0 .. N |-> IF n = 0 THEN start ELSE next(search[n - 1])]
    BY <1>7
  <2> HIDE DEF search, next, start, N
  <2>2. search[0] = start
    BY <1>1, <2>1
  <2>3. ASSUME NEW n \in Nat, n + 1 <= N
        PROVE  search[n + 1] = next(search[n])
    <3>1. n + 1 \in 0 .. N /\ n + 1 # 0 /\ (n + 1) - 1 = n
      BY <1>1, <2>3
    <3>2. QED
      BY <2>1, <3>1
  <2>4. QED
    BY <2>2, <2>3
<1> DEFINE Good(n) == search[n] \in T /\ ReachAdvanced(d, search[n], n)
           Held == {n \in Nat : n <= N => Good(n)}
<1>9. 0 \in Held
  <2> HIDE DEF search, T, start
  <2>1. QED
    BY <1>2, <1>8
<1>10. ASSUME NEW n \in Nat, n \in Held
       PROVE  n + 1 \in Held
  <2> HIDE DEF search, start, N
  <2>1. SUFFICES ASSUME n + 1 <= N
                 PROVE  Good(n + 1)
    OBVIOUS
  <2>2. n <= N
    BY <1>1, <2>1
  <2>3. ReachInv(d, search[n]) /\ search[n] \in T /\ ReachAdvanced(d, search[n], n)
    BY <1>10, <2>2
  <2>4. search[n + 1] = ReachStep(d, search[n])
    BY <1>8, <2>1
  <2>5. ReachAdvanced(d, search[n + 1], n + 1)
    BY <2>3, <2>4, ReachAdvances
  <2>6. search[n + 1] \in T
    BY <1>3, <2>3, <2>4
  <2>7. QED
    BY <2>5, <2>6
<1>11. Good(N)
  <2>1. \A n \in Nat : n \in Held
    <3> HIDE DEF Held
    <3>1. QED
      BY <1>9, <1>10, SetInduction
  <2> HIDE DEF Good, N
  <2>2. QED
    BY <1>1, <2>1
<1>12. Reached(d, d.start) = search[N].reached
  BY DEF Reached
<1> HIDE DEF search
<1>13. ReachInv(d, search[N]) /\ ReachAdvanced(d, search[N], N)
  BY <1>11
<1>14. search[N].queue = <<>>
  <2> DEFINE s == search[N]
  <2>1. s.queue \in Seq(Queueable) /\ s.reached \in SUBSET d.keys
    BY <1>13 DEF ReachInv, ReachType
  <2>2. N = 1 + Cardinality(d.keys \X DOMAIN Conditions)
    BY DEF ReachSteps
  <2> HIDE DEF N, s
  <2>3. s.queue = <<>> \/ N + Len(s.queue) <= 1 + Cardinality(s.reached \X DOMAIN Conditions)
    BY <1>13 DEF ReachAdvanced, s
  <2>4. Len(s.queue) \in Nat
    BY <2>1
  <2>5. s.queue = <<>> \/ Len(s.queue) = 0
    <3> DEFINE all == Cardinality(d.keys \X DOMAIN Conditions)
               held == Cardinality(s.reached \X DOMAIN Conditions)
               l == Len(s.queue)
    <3>1. all \in Nat /\ held \in Nat /\ held <= all
      BY <1>0, <2>1
    <3>2. N = 1 + all /\ l \in Nat /\ (s.queue = <<>> \/ N + l <= 1 + held)
      BY <2>2, <2>3, <2>4
    <3> HIDE DEF all, held, l
    <3>3. s.queue = <<>> \/ l = 0
      BY <3>1, <3>2
    <3>4. QED
      BY <3>3 DEF l
  <2>6. s.queue = <<>>
    BY <2>1, <2>5, EmptySeq
  <2>7. QED
    BY <2>6 DEF s
<1> HIDE DEF N
<1>15. QED
  BY <1>12, <1>13, <1>14, ReachedIsRight

-----------------------------------------------------------------------------
(* The theorems of the searches.                                           *)

\* A declaration has what the searches need.
LEMMA DeclaredIsSearched ==
  ASSUME TypeOK
  PROVE  Startable(declared) /\ RootsOf(declared, Listed(declared.keys))
<1>1. Startable(declared)
  BY DEF TypeOK, DeclarationType, Startable, Searchable, Queueable
<1>2. IsFiniteSet(declared.keys)
  BY <1>1, SearchAssumption, FS_Subset DEF Startable, Searchable
<1>3. QED
  BY <1>1, <1>2, ListedIs DEF RootsOf

\* The search S4 makes finds a cycle exactly when nodes lead back among themselves, whatever is
\* declared (s4_govern.py 375-402).
THEOREM CyclesAreFound == Spec => []CycleSearchAgrees
<1>1. TypeOK => CycleSearchAgrees
  BY DeclaredIsSearched, CycleSearchIsRight DEF CycleSearchAgrees, Startable
<1>2. QED
  BY <1>1, WorkflowTypeOK, PTL

\* The search S4 makes reaches exactly what every closed set around the start holds, whatever is
\* declared (s4_govern.py 523-530).
THEOREM ReachIsFound == Spec => []ReachSearchAgrees
<1>1. TypeOK => ReachSearchAgrees
  BY DeclaredIsSearched, ReachSearchIsRight DEF ReachSearchAgrees
<1>2. QED
  BY <1>1, WorkflowTypeOK, PTL

-----------------------------------------------------------------------------
(* An execution comes to an end.                                           *)

\* Every place an execution has left led on to a place it has run.
Trail ==
  phase \in Executed =>
    /\ place \in visited
    /\ \A v \in visited \ {place} : v \in declared.keys /\ \E c \in Condition : declared.next[v][c] \in visited

\* What continues has not been run before: it would close a cycle.
LEMMA ContinuesElsewhere ==
  ASSUME IInv, Trail, NEW c \in Condition, Continue(c)
  PROVE  /\ place' \in declared.keys \ visited
         /\ visited' = visited \union {place'}
         /\ phase' = "running" /\ declared' = declared
<1>1. /\ place \in declared.keys /\ declared.next[place][c] \in declared.keys
      /\ place' = declared.next[place][c]
  BY ContinuesAsDeclared
<1>2. /\ visited' = visited \union {place'} /\ phase = "running" /\ phase' = "running"
      /\ declared' = declared
  BY DEF Continue, Yields
<1>3. Acyclic(declared)
  BY <1>2 DEF IInv, PassedStages, Governed, AfterS4, AfterS6, AfterS8, Executed
<1>4. /\ place \in visited
      /\ \A v \in visited \ {place} : v \in declared.keys /\ \E b \in Condition : declared.next[v][b] \in visited
  BY <1>2 DEF Trail, Executed
<1>5. ASSUME place' \in visited
      PROVE  FALSE
  <2>1. visited \in (SUBSET declared.keys) \ {{}}
    BY <1>1, <1>4
  <2>2. \A v \in visited : \E b \in Condition : declared.next[v][b] \in visited
    BY <1>1, <1>4, <1>5
  <2>3. QED
    BY <1>3, <2>1, <2>2 DEF Acyclic
<1>6. QED
  BY <1>1, <1>2, <1>5

\* The trail is kept.
LEMMA TrailStep == IInv /\ Trail /\ [Next]_vars => Trail'
<1> SUFFICES ASSUME IInv, Trail, [Next]_vars PROVE Trail'
  OBVIOUS
<1>1. CASE StageStep
  <2>1. phase' \notin Executed
    BY <1>1 DEF StageStep, Canonicalize, Govern, Construct, Project, Verify, Stage, Executed
  <2>2. QED
    BY <2>1 DEF Trail
<1>2. CASE Begin
  BY <1>2 DEF Begin, Trail
<1>3. ASSUME NEW c \in Condition, Continue(c) PROVE Trail'
  <2>1. /\ place' \in declared.keys \ visited /\ visited' = visited \union {place'}
        /\ phase' = "running" /\ declared' = declared
    BY <1>3, ContinuesElsewhere
  <2>2. /\ place \in visited /\ place \in declared.keys /\ declared.next[place][c] = place'
        /\ \A v \in visited \ {place} : v \in declared.keys /\ \E b \in Condition : declared.next[v][b] \in visited
    BY <1>3, ContinuesAsDeclared DEF Continue, Yields, Trail, Executed
  <2>3. ASSUME NEW v \in visited' \ {place'}
        PROVE  v \in declared.keys /\ \E b \in Condition : declared.next[v][b] \in visited'
    <3>1. v \in visited
      BY <2>1, <2>3
    <3>2. CASE v = place
      BY <2>1, <2>2, <3>2
    <3>3. CASE v # place
      BY <2>1, <2>2, <3>1, <3>3
    <3>4. QED
      BY <3>2, <3>3
  <2>4. QED
    BY <2>1, <2>3 DEF Trail
<1>4. ASSUME NEW c \in Condition, End(c) \/ Refuse(c) PROVE Trail'
  <2>1. place' = place /\ visited' = visited /\ declared' = declared /\ phase = "running"
    BY <1>4 DEF End, Refuse, Yields
  <2>2. QED
    BY <2>1 DEF Trail, Executed
<1>5. CASE UNCHANGED vars
  BY <1>5 DEF vars, walkState, Trail
<1>6. QED
  BY <1>1, <1>2, <1>3, <1>4, <1>5 DEF Next, Answer, StageStep

\* The invariant of the workflow with the trail.
LEMMA TrailInvariant == Spec => [](IInv /\ Trail)
<1>1. Init => IInv /\ Trail
  BY InitEstablishes DEF Init, Trail, Executed
<1>2. IInv /\ Trail /\ [Next]_vars => (IInv /\ Trail)'
  BY InvariantStep, TrailStep
<1>3. QED
  BY <1>1, <1>2, PTL DEF Spec

\* Every answer ends the execution or takes it to one of finitely many places not run before.
Remaining == Cardinality(declared.keys \ visited)
AnswersRunOut ==
  [][Answer => phase' # "running" \/ (Remaining \in Nat /\ Remaining' \in Nat /\ Remaining' < Remaining)]_vars

\* No execution returns to a place it has run, whatever is declared.
THEOREM NoReturn == Spec => NoPlaceTwice
<1>1. IInv /\ Trail /\ [Next]_vars => [\A c \in Condition : Continue(c) => place' \notin visited]_vars
  BY ContinuesElsewhere
<1>2. QED
  BY <1>1, TrailInvariant, PTL DEF Spec, NoPlaceTwice

\* What is left to run gets less with every answer; with what runs yielding an outcome eventually,
\* that is why no execution goes on for ever.
THEOREM AnswersDescend == Spec => AnswersRunOut
<1>1. ASSUME IInv, Trail, Answer
      PROVE  phase' # "running" \/ (Remaining \in Nat /\ Remaining' \in Nat /\ Remaining' < Remaining)
  <2>1. PICK c \in Condition : Continue(c) \/ End(c) \/ Refuse(c)
    BY <1>1 DEF Answer
  <2>2. CASE End(c) \/ Refuse(c)
    BY <2>2 DEF End, Refuse
  <2>3. CASE Continue(c)
    <3> DEFINE S == declared.keys \ visited
               k == place'
    <3>1. k \in S /\ (declared.keys \ visited)' = S \ {k}
      BY <1>1, <2>3, ContinuesElsewhere
    <3>2. IsFiniteSet(S)
      <4>1. declared.keys \subseteq Key
        BY <1>1 DEF IInv, TypeOK, DeclarationType
      <4>2. S \subseteq Key
        BY <4>1
      <4> HIDE DEF S
      <4>3. QED
        BY <4>2, SearchAssumption, FS_Subset
    <3>3. Remaining = Cardinality(S) /\ Remaining' = Cardinality(S \ {k})
      BY <3>1 DEF Remaining
    <3> HIDE DEF S, k
    <3>4. /\ Cardinality(S) \in Nat /\ IsFiniteSet(S \ {k})
          /\ Cardinality(S \ {k}) = Cardinality(S) - 1
      BY <3>1, <3>2, FS_CardinalityType, FS_RemoveElement
    <3>5. Cardinality(S \ {k}) \in Nat
      BY <3>4, FS_CardinalityType
    <3>6. QED
      BY <3>3, <3>4, <3>5
  <2>4. QED
    BY <2>1, <2>2, <2>3
<1>2. IInv /\ Trail /\ [Next]_vars =>
        [Answer => phase' # "running" \/ (Remaining \in Nat /\ Remaining' \in Nat /\ Remaining' < Remaining)]_vars
  BY <1>1
<1>3. QED
  BY <1>2, TrailInvariant, PTL DEF Spec, AnswersRunOut
==============================================================================
