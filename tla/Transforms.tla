----------------------------- MODULE Transforms -----------------------------
(***************************************************************************)
(* Capability transforms: what an atom or a molecule declares, how S4      *)
(* judges the transforms of one composition                                *)
(* (governance_engine/assertions/handlers/_transform_index.py and the      *)
(* assertions that read it), how S5 lowers them into the sealed form the   *)
(* runtime runs (stages/s5_construct.py), and how the cases of a test      *)
(* vector are judged.                                                      *)
(*                                                                         *)
(* S4 and S5 resolve what a step names differently: S4 takes a full name   *)
(* as it stands and the first bearer of a bare code; S5 takes the last     *)
(* bearer of the code, whatever the namespace it was written with.         *)
(***************************************************************************)
EXTENDS Naturals, FiniteSets, Sequences, Functions

CONSTANTS
  Transform,  \* full names of transforms
  Code,       \* their codes, which several namespaces may use
  CodeOf,     \* the code of each full name
  Order,      \* the order in which the nodes stand in the graph
  MaxDepth,   \* how deep lowering follows molecules (_MAX_MOLECULE_DEPTH)
  None

ASSUME TransformsAssumption ==
  /\ CodeOf \in [Transform -> Code]
  /\ Order \in [Transform -> Nat]
  /\ \A t, u \in Transform : Order[t] = Order[u] => t = u
  /\ MaxDepth \in Nat
  /\ Transform \intersect Code = {} /\ None \notin Transform \union Code

\* What a composition declares of its transforms is a function lib from their full names to
\* [kind, purity, governed, implemented, refuses, takes, gives, stream, emit]; a step of a
\* molecule's stream is [kind, names, as, over].
Steps(lib, t)  == Range(lib[t].stream)
Molecules(lib) == {t \in DOMAIN lib : lib[t].kind = "molecule"}
Impure(lib, t) == lib[t].purity = "ct_impure"

IsSequence(s) == s \in Seq(Range(s))

\* What a composition can be: its blocks are read as records of lists and sets, and what a step
\* names is a full name or a code.
IsLibrary(lib) ==
  /\ DOMAIN lib \subseteq Transform /\ IsFiniteSet(DOMAIN lib)
  /\ \A t \in DOMAIN lib :
       /\ IsSequence(lib[t].stream) /\ IsFiniteSet(lib[t].emit)
       /\ \A s \in Steps(lib, t) : s.names \in Transform \union Code

-----------------------------------------------------------------------------
(* Names.                                                                  *)

Bearers(lib, c) == {t \in DOMAIN lib : CodeOf[t] = c}
FirstOf(S) == CHOOSE t \in S : \A u \in S : Order[t] <= Order[u]
LastOf(S)  == CHOOSE t \in S : \A u \in S : Order[u] <= Order[t]

\* How the assertions resolve what a step names.
Resolved(lib, name) ==
  IF name \in DOMAIN lib THEN name
  ELSE IF name \in Code /\ Bearers(lib, name) # {} THEN FirstOf(Bearers(lib, name))
  ELSE None

\* How lowering resolves it: by the code alone.
Lowered(lib, name) ==
  LET S == Bearers(lib, IF name \in Transform THEN CodeOf[name] ELSE name)
  IN  IF S = {} THEN None ELSE LastOf(S)

\* No atom declares steps of its own; S4 follows them (ReachedFrom), S5 does not lower them.
AtomsRunAlone(lib) == \A t \in DOMAIN lib : lib[t].kind = "atom" => lib[t].stream = <<>>

\* Both resolutions agree on every name that can be written.
Unambiguous(lib) == \A t, u \in DOMAIN lib : CodeOf[t] = CodeOf[u] => t = u

-----------------------------------------------------------------------------
(* S4: the assertions over transforms.                                     *)

Runs(lib, t) == {Resolved(lib, s.names) : s \in Steps(lib, t)} \ {None}

\* A set and what its elements lead to, next giving what each of its domain does.
Onward(S, next) == S \union UNION {next[x] : x \in S \intersect DOMAIN next}

\* What is reached from a set in n steps or fewer.
Spread(from, next, n) ==
  LET reached[k \in Nat] == IF k = 0 THEN from ELSE Onward(reached[k - 1], next)
  IN  reached[n]

\* Every transform reached through the steps of t, t itself only when it is reached again.
Reachable(lib, t) ==
  Spread(Runs(lib, t), [m \in Molecules(lib) |-> Runs(lib, m)], Cardinality(DOMAIN lib))

\* Each step resolves to what its kind runs, one declared step is emitted, nothing reaches itself.
Runnable(lib) ==
  \A t \in Molecules(lib) :
    /\ lib[t].stream # <<>>
    /\ Cardinality(lib[t].emit) = 1
    /\ lib[t].emit \subseteq {s.as : s \in Steps(lib, t)}
    /\ \A s \in Steps(lib, t) :
         LET u == Resolved(lib, s.names)
         IN  /\ s.kind \in {"atom", "molecule", "loop"} /\ u # None
             /\ lib[u].kind = IF s.kind = "atom" THEN "atom" ELSE "molecule"
             /\ s.kind = "loop" => s.over
    /\ t \notin Reachable(lib, t)

\* Mutant of PurityConsistent: only the atoms a molecule's own stream runs are looked at.
PurityConsistentAtFirstSight(lib) ==
  \A t \in Molecules(lib) : \A u \in Runs(lib, t) \ Molecules(lib) : Impure(lib, u) => Impure(lib, t)

\* A molecule that reaches a step that is not deterministic declares it is not.
PurityConsistent(lib) ==
  \A t \in Molecules(lib) : \A u \in Reachable(lib, t) : Impure(lib, u) => Impure(lib, t)

\* Mutant of Bound: the first step to bear the symbol.
BoundFirst(lib, t, symbol) ==
  LET stream == lib[t].stream
      at     == {k \in DOMAIN stream : stream[k].as = symbol}
  IN  stream[CHOOSE k \in at : \A j \in at : k <= j]

\* The step whose result stands under a symbol when the stream has run: the last to bear it.
Bound(lib, t, symbol) ==
  LET stream == lib[t].stream
      at     == {k \in DOMAIN stream : stream[k].as = symbol}
  IN  stream[CHOOSE k \in at : \A j \in at : j <= k]

\* No molecule emits directly from an atom that is not deterministic.
EmitsDecided(lib) ==
  \A t \in Molecules(lib) : \A symbol \in lib[t].emit \intersect {s.as : s \in Steps(lib, t)} :
    LET s == Bound(lib, t, symbol)
        u == Resolved(lib, s.names)
    IN  s.kind = "atom" /\ u # None => ~Impure(lib, u)

\* The constitution each transform is governed by, None when what it is cannot be decided.
Constitution(lib, t) ==
  IF lib[t].kind = "molecule" THEN "molecules"
  ELSE IF lib[t].kind = "atom" /\ lib[t].purity \in {"ct_pure", "ct_exec"} THEN "deterministic"
  ELSE IF lib[t].kind = "atom" /\ Impure(lib, t) THEN "nondeterministic"
  ELSE None

GovernedByKind(lib) ==
  \A t \in DOMAIN lib : Constitution(lib, t) # None /\ lib[t].governed = Constitution(lib, t)

Admissible(lib) == \A t \in DOMAIN lib : lib[t].kind = "atom" => lib[t].implemented

-----------------------------------------------------------------------------
(* S5: the sealed form.                                                    *)

AtomResult == "__atom_result__"
NoBody     == [stream |-> <<>>, emit |-> None]

\* The steps of t are lowered, given the transforms whose bodies are.
LowersOver(lib, t, bodies) ==
  /\ lib[t].stream # <<>>
  /\ \A s \in Steps(lib, t) :
       LET u == Lowered(lib, s.names)
       IN  /\ u # None
           /\ IF s.kind = "atom" THEN lib[u].implemented
              ELSE s.kind \in {"molecule", "loop"} /\ u \in bodies

\* The transforms that are lowered within n levels of streams.
Fits(lib, n) ==
  LET fits[k \in Nat] ==
        IF k = 0 THEN {}
        ELSE LET bodies == fits[k - 1]
             IN  {t \in DOMAIN lib : LowersOver(lib, t, bodies)}
  IN  fits[n]

\* Mutant of Lowers: the bound is taken one molecule too early.
LowersEarly(lib) == Molecules(lib) \subseteq Fits(lib, MaxDepth)

\* Mutant of Lowers: nesting is not bounded.
LowersUnbounded(lib) ==
  /\ \A t \in DOMAIN lib : lib[t].kind = "atom" => lib[t].implemented
  /\ \A t \in Molecules(lib) : \A s \in Steps(lib, t) : Lowered(lib, s.names) # None

\* Every transform has a sealed form: atoms are implemented, steps resolve, nesting is bounded.
Lowers(lib) ==
  \A t \in DOMAIN lib :
    IF lib[t].kind = "atom" THEN lib[t].implemented
    ELSE lib[t].kind = "molecule" /\ t \in Fits(lib, MaxDepth + 1)

\* Mutant of SealedPurity: a step is sealed with the purity of the molecule it stands in.
SealedPurityOfMolecule(lib, t, u) == lib[t].purity

\* The purity a step of t that runs u is sealed with: by it alone the runtime knows what to record.
SealedPurity(lib, t, u) == lib[u].purity

\* The sealed form of t, given those of the molecules it runs.
FormOver(lib, t, form) ==
  IF lib[t].kind = "atom"
  THEN [stream |-> <<[kind |-> "atom", runs |-> t, as |-> AtomResult,
                      purity |-> SealedPurity(lib, t, t), body |-> NoBody]>>,
        emit   |-> AtomResult]
  ELSE [stream |-> [k \in DOMAIN lib[t].stream |->
                      LET s == lib[t].stream[k]
                          u == Lowered(lib, s.names)
                      IN  [kind |-> s.kind, runs |-> u, as |-> s.as,
                           purity |-> SealedPurity(lib, t, u),
                           body |-> IF s.kind = "atom" THEN NoBody ELSE form[u]]],
        emit   |-> CHOOSE symbol \in lib[t].emit : TRUE]

\* The sealed form of every transform of a composition that lowers.
Forms(lib) ==
  LET form[t \in DOMAIN lib] == FormOver(lib, t, form)
  IN  form

-----------------------------------------------------------------------------
(* Test vectors.  A case gives recorded results by path, a sequence of     *)
(* <<symbol, pass>> where the pass is 0 for a step that is not a loop.     *)

\* The transform one segment of a path leads to from m, None when it leads to none: the first step
\* of a molecule to bear the symbol, with a pass if it is a loop.
Segment(lib, m, symbol, pass) ==
  LET bears == IF m \in Molecules(lib) THEN {k \in DOMAIN lib[m].stream : lib[m].stream[k].as = symbol} ELSE {}
      s     == lib[m].stream[CHOOSE k \in bears : \A j \in bears : k <= j]
  IN  IF bears # {} /\ (s.kind = "loop") = (pass > 0) THEN Resolved(lib, s.names) ELSE None

\* The transform the first n segments of a path lead to from t.
Along(lib, t, path, n) ==
  LET at[k \in Nat] == IF k = 0 THEN t ELSE Segment(lib, at[k - 1], path[k][1], path[k][2])
  IN  at[n]

\* The symbols under which t or a molecule it reaches runs an atom that is not deterministic.
ImpureSymbols(lib, t) ==
  UNION {{s.as : s \in {s \in Steps(lib, m) :
                          LET u == Resolved(lib, s.names)
                          IN  u # None /\ lib[u].kind = "atom" /\ Impure(lib, u)}} :
         m \in {t} \union (Reachable(lib, t) \intersect Molecules(lib))}

\* Mutant of RecordsMatchPurity: a path is good when it leads to an atom, whatever it declares.
RecordsMatchAtoms(lib, case) ==
  LET t == Resolved(lib, case.target) IN
  t \in Molecules(lib) =>
    /\ \A path \in case.recorded :
         LET u == Along(lib, t, path, Len(path)) IN u # None /\ lib[u].kind = "atom"
    /\ ImpureSymbols(lib, t) \subseteq {path[Len(path)][1] : path \in case.recorded}

\* A case records results for steps that are not deterministic, and for every symbol of one.
RecordsMatchPurity(lib, case) ==
  LET t == Resolved(lib, case.target) IN
  /\ t # None /\ lib[t].kind # "molecule" => case.recorded = {}
  /\ t \in Molecules(lib) =>
       /\ \A path \in case.recorded :
            LET u == Along(lib, t, path, Len(path)) IN u # None /\ lib[u].kind = "atom" /\ Impure(lib, u)
       /\ ImpureSymbols(lib, t) \subseteq {path[Len(path)][1] : path \in case.recorded}

\* The outcome is declared (assert_ct_test_data_outcome_declared_v0.py), and outputs are stated exactly
\* when the transform is to answer (assert_test_data_match_ct_output_v0.py).
OutcomeStated(lib, case) ==
  /\ case.outcome \in {"SUCCESS", "VIOLATION"}
  /\ Resolved(lib, case.target) # None
  /\ case.states = (case.outcome = "SUCCESS")
=============================================================================
