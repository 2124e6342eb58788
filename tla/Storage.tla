------------------------------ MODULE Storage -------------------------------
(***************************************************************************)
(* The records an act may reach.  An act (a workflow) owns one runtime     *)
(* binding and may consult others; a binding names the storage description *)
(* of its subdomain and the side effects it gives a policy.  S4 judges the *)
(* bindings, and S6 composes the descriptions an act reaches               *)
(* (projections/handlers.py), each record marked owned, to be written and  *)
(* read, or consulted, to be read only.                                    *)
(*                                                                         *)
(* A declaration st is [owned, consults, owner, describes, binds,          *)
(* records]: of each act, its binding and the sequence of those it         *)
(* consults; of each binding, its domain and concern, the description it   *)
(* names and what it gives a policy; of each description, its owner too,   *)
(* and its records.                                                        *)
(***************************************************************************)
EXTENDS Naturals, Sequences

CONSTANTS
  Act,          \* workflows
  Binding,      \* runtime bindings
  Description,  \* storage descriptions
  Effect,       \* the side effects of the composition
  NoBinding     \* an act that has no binding, a binding that names no description

ASSUME StorageAssumption == NoBinding \notin Binding \union Description

-----------------------------------------------------------------------------
(* S4.                                                                     *)

\* Every binding names a description of its own domain and concern, one the composition holds.
SubdomainOwned(st) ==
  \A b \in Binding :
    st.describes[b] # NoBinding =>
      st.describes[b] \in DOMAIN st.records /\ st.owner[st.describes[b]] = st.owner[b]

\* What a binding gives a policy is an artifact of the graph, and a side effect.  The code tells one by
\* the prefix of its code, a convention of names that is taken here to hold.
BindsSideEffects(st) == \A b \in Binding : st.binds[b] \subseteq Effect

StorageOwned(st) == SubdomainOwned(st) /\ BindsSideEffects(st)

-----------------------------------------------------------------------------
(* S6.                                                                     *)

\* The bindings an act resolves its records against, its own first.
Reaches(st, act) == <<st.owned[act]>> \o st.consults[act]

\* The records the binding in place k of them describes.
DescribedAt(st, act, k) ==
  LET b == Reaches(st, act)[k]
  IN  IF b \in Binding /\ st.describes[b] \in DOMAIN st.records THEN st.records[st.describes[b]] ELSE {}

\* Mutant of Describer: the last description of a record stands.
LastDescriber(st, act, r) ==
  CHOOSE k \in DOMAIN Reaches(st, act) :
    /\ r \in DescribedAt(st, act, k)
    /\ \A j \in DOMAIN Reaches(st, act) : r \in DescribedAt(st, act, j) => j <= k

\* The place of the binding whose description of a record stands: the first.
Describer(st, act, r) ==
  CHOOSE k \in DOMAIN Reaches(st, act) :
    r \in DescribedAt(st, act, k) /\ \A j \in 1..(k - 1) : r \notin DescribedAt(st, act, j)

\* What each binding gives a policy; a binding that gives none carries no description either.
PoliciesOf(st) == [b \in Binding |-> st.binds[b] \intersect Effect]
Carries(st, b) == b \in Binding /\ PoliciesOf(st)[b] # {}

\* What an act reaches, composed and sealed for it when it owns a binding and consults another;
\* an act that does not finds the description its own binding carries.
StorageOf(st) ==
  [act \in Act |->
     LET composed == st.owned[act] # NoBinding /\ st.consults[act] # <<>>
         reached  == UNION {DescribedAt(st, act, k) :
                            k \in IF composed THEN DOMAIN Reaches(st, act)
                                 ELSE IF Carries(st, st.owned[act]) THEN {1} ELSE {}}
     IN  [r \in reached |->
            LET k == Describer(st, act, r)
            IN  [reach |-> IF k = 1 THEN "owned" ELSE "consulted", by |-> Reaches(st, act)[k]]]]

-----------------------------------------------------------------------------

\* A record that two of the bindings an act reaches describe differently.
DescribedTwice(st, act, r) ==
  \E j, k \in DOMAIN Reaches(st, act) :
    /\ r \in DescribedAt(st, act, j) /\ r \in DescribedAt(st, act, k)
    /\ st.describes[Reaches(st, act)[j]] # st.describes[Reaches(st, act)[k]]

\* An act writes no records but those its own binding describes, in the description of its own
\* subdomain, and all of them that are described once where the binding gives a side effect a policy;
\* what it consults it reads only, from a binding it names.
KeepsToItsReach(st, storage) ==
  \A act \in Act :
    LET own == DescribedAt(st, act, 1) IN
    /\ \A r \in own :
         /\ Carries(st, st.owned[act]) /\ ~DescribedTwice(st, act, r) => r \in DOMAIN storage[act]
         /\ r \in DOMAIN storage[act] => storage[act][r].reach = "owned"
    /\ \A r \in DOMAIN storage[act] :
         LET by == storage[act][r].by IN
         IF storage[act][r].reach = "owned"
         THEN r \in own /\ by = st.owned[act] /\ st.owner[st.describes[by]] = st.owner[by]
         ELSE \E k \in DOMAIN st.consults[act] : st.consults[act][k] = by

\* Of a record described twice no description answers.
LeavesOutTheAmbiguous(st, storage) ==
  \A act \in Act : \A r \in DOMAIN storage[act] : ~DescribedTwice(st, act, r)
=============================================================================
