---------------------------- MODULE RoutingSearch ----------------------------
(***************************************************************************)
(* The two searches S4 makes over the routing of a workflow, step by step  *)
(* as it makes them: depth-first with three marks for cycles, breadth-     *)
(* first from the start node for reach.  Workflow states what they are to  *)
(* find, by quantifying over sets of nodes; here they are compared with    *)
(* that.                                                                   *)
(*                                                                         *)
(* A search is a function of the number of steps made.  It is read off at  *)
(* a number of steps no search of the workflow exceeds: WorkflowProofs     *)
(* shows that it rests by then.                                            *)
(***************************************************************************)
EXTENDS Workflow, Listing

\* What S4 searches is finite: the nodes of a file and the conditions they route on.
ASSUME SearchAssumption == IsFiniteSet(Key) /\ IsFiniteSet(Condition)

Conditions == Listed(Condition)

\* What `next` of node k names, in the order of its conditions; None and keys that are declared
\* nowhere are passed over by both searches.
Target(d, k, i) == d.next[k][Conditions[i]]

------------------------------------------------------------------------------
(* _workflows_with_routing_cycles, for one workflow.                        *)

\* found: a node led back to one whose call is still open; root: the place of the next key the
\* outer loop tries; stack: the calls of cyclic(key) that are open, the latest last; pos: how far
\* the loop over a node's targets is; mark: the dictionary `state`, "new" being no entry, "open" 1
\* and "done" 2.
SearchType(d) ==
  [found : BOOLEAN,
   root  : Nat,
   stack : Seq(d.keys),
   pos   : [d.keys -> Nat],
   mark  : [d.keys -> {"new", "open", "done"}]]

Unsearched(d) ==
  [found |-> FALSE,
   root  |-> 1,
   stack |-> <<>>,
   pos   |-> [k \in d.keys |-> 1],
   mark  |-> [k \in d.keys |-> "new"]]

Enter(s, k) == [s EXCEPT !.stack = Append(s.stack, k), !.mark[k] = "open"]

TryRoot(s, k) ==
  LET next == [s EXCEPT !.root = s.root + 1]
  IN  IF s.mark[k] = "new" THEN Enter(next, k) ELSE next

Innermost(s) == s.stack[Len(s.stack)]

\* One target t of the innermost open node k.
LookAt(d, s, k, t) ==
  LET next == [s EXCEPT !.pos[k] = s.pos[k] + 1]
  IN  CASE t \in d.keys /\ s.mark[t] = "open" -> [s EXCEPT !.found = TRUE]
        [] t \in d.keys /\ s.mark[t] = "new"  -> Enter(next, t)
        [] OTHER -> next

\* Every target of k has been looked at: its call returns.
Leave(s, k) ==
  [s EXCEPT !.stack = SubSeq(s.stack, 1, Len(s.stack) - 1), !.mark[k] = "done"]

SearchStep(d, roots, s) ==
  CASE s.found -> s
    [] ~s.found /\ s.stack = <<>> -> IF s.root \in DOMAIN roots THEN TryRoot(s, roots[s.root]) ELSE s
    [] ~s.found /\ s.stack # <<>> ->
         LET k == Innermost(s)
         IN  IF s.pos[k] \in DOMAIN Conditions THEN LookAt(d, s, k, Target(d, k, s.pos[k])) ELSE Leave(s, k)

\* Every root is tried once, every target of every node is looked at once, every node is left once.
SearchSteps(d, roots) == Len(roots) + Cardinality(d.keys \X (1 .. Len(Conditions) + 1))

\* Mutant of CycleFrom: the outer loop ends with the first root that shows no cycle.
CycleFromFirst(d, roots) ==
  LET first == SubSeq(roots, 1, 1)
      search[n \in 0 .. SearchSteps(d, roots)] ==
        IF n = 0 THEN Unsearched(d) ELSE SearchStep(d, first, search[n - 1])
  IN  search[SearchSteps(d, roots)].found

CycleFrom(d, roots) ==
  LET search[n \in 0 .. SearchSteps(d, roots)] ==
        IF n = 0 THEN Unsearched(d) ELSE SearchStep(d, roots, search[n - 1])
  IN  search[SearchSteps(d, roots)].found

------------------------------------------------------------------------------
(* The queue of _analyze_wf_routing.                                        *)

Targets(d, k) == [i \in DOMAIN Conditions |-> Target(d, k, i)]

\* Mutant of ReachStep: an ending is passed over instead of being marked as reached.
ReachStepRunning(d, s) ==
  LET k == Head(s.queue)
  IN  IF s.queue = <<>> THEN s
      ELSE IF k \in s.reached \/ k \notin d.keys \/ d.type[k] = "EXIT"
           THEN [s EXCEPT !.queue = Tail(s.queue)]
           ELSE [queue |-> Tail(s.queue) \o Targets(d, k), reached |-> s.reached \union {k}]

ReachStep(d, s) ==
  LET k == Head(s.queue)
  IN  IF s.queue = <<>> THEN s
      ELSE IF k \in s.reached \/ k \notin d.keys
           THEN [s EXCEPT !.queue = Tail(s.queue)]
           ELSE [queue |-> Tail(s.queue) \o Targets(d, k), reached |-> s.reached \union {k}]

\* One step for the start and one for every target of every node reached.
ReachSteps(d) == 1 + Cardinality(d.keys \X DOMAIN Conditions)

Reached(d, start) ==
  LET search[n \in 0 .. ReachSteps(d)] ==
        IF n = 0 THEN [queue |-> <<start>>, reached |-> {}] ELSE ReachStep(d, search[n - 1])
  IN  search[ReachSteps(d)].reached

------------------------------------------------------------------------------
\* The search for cycles finds one exactly when nodes lead back among themselves (s4_govern 375).
CycleSearchAgrees ==
  phase = "declared" => (CycleFrom(declared, Listed(declared.keys)) <=> ~Acyclic(declared))

\* The search from the start finds exactly what every closed set around the start holds
\* (s4_govern 528).
ReachSearchAgrees ==
  phase = "declared" => Reached(declared, declared.start) = Reachable(declared)
==============================================================================
