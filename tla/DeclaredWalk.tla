---------------------------- MODULE DeclaredWalk ----------------------------
(***************************************************************************)
(* What a declaration promises of the execution of its workflow: the walk  *)
(* goes from the declared start along declared continuations, announces    *)
(* what the ending it reaches declares, and a superseded workflow is never *)
(* walked.  Workflow implements this module through sealed tables.         *)
(***************************************************************************)
CONSTANTS Condition, None, Declaration

VARIABLES workflow,   \* the declaration
          at,         \* the node the walk is at, None before it starts
          ending,     \* the EXIT node it ended at
          said        \* what was announced there

walkVars == <<workflow, at, ending, said>>

WalkInit ==
  /\ workflow \in Declaration
  /\ at = None
  /\ ending = None
  /\ said = None

Start ==
  /\ at = None
  /\ ~workflow.superseded
  /\ at' = workflow.start
  /\ UNCHANGED <<workflow, ending, said>>

\* Where the node at hand says to go on condition c.
Target(c) == workflow.next[at][c]

Proceed(c) ==
  /\ at \in workflow.keys
  /\ ending = None
  /\ Target(c) \in workflow.keys
  /\ workflow.type[Target(c)] # "EXIT"
  /\ at' = Target(c)
  /\ UNCHANGED <<workflow, ending, said>>

Finish(c) ==
  /\ at \in workflow.keys
  /\ ending = None
  /\ Target(c) \in workflow.keys
  /\ workflow.type[Target(c)] = "EXIT"
  /\ ending' = Target(c)
  /\ said' = workflow.emit[Target(c)]
  /\ UNCHANGED <<workflow, at>>

WalkNext == Start \/ \E c \in Condition : Proceed(c) \/ Finish(c)

WalkSpec == WalkInit /\ [][WalkNext]_walkVars
==============================================================================
