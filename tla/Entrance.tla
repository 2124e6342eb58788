------------------------------ MODULE Entrance ------------------------------
(***************************************************************************)
(* How an act (a workflow) is entered: a transport names the act it        *)
(* invokes, the act names the intent it admits through, and the intent     *)
(* says what is to be given.  S2 draws the edges, S4 judges the three      *)
(* declarations each for itself, and S6 seals an entry for each act in     *)
(* force and an admission for each intent in force                         *)
(* (projections/dispatch.py).                                              *)
(*                                                                         *)
(* A declaration e is [code, gate, mentions, starts, workflow, takes,      *)
(* target].  Of each act and intent, its bare code; of each act, what its  *)
(* one intent node names, the other intents it refers to by full name, and *)
(* whether its start resolves; of each intent, the act it names and what   *)
(* it takes; of each transport, [kind, handler, core], the act it names in *)
(* two places.  gone are the full names that are superseded.               *)
(***************************************************************************)
EXTENDS Storage

CONSTANTS
  Intent,     \* full names of intents
  Transport,  \* full names of transports
  Standing,   \* the order of acts and intents in the graph
  Sorted,     \* the order of the names of intents
  Unnamed     \* where nothing is named

Named == Act \union Intent

ASSUME EntranceAssumption ==
  /\ Act \intersect Intent = {} /\ Unnamed \notin Named /\ Transport \intersect Named = {}
  /\ Standing \in [Named -> Nat] /\ \A x, y \in Named : Standing[x] = Standing[y] => x = y
  /\ Sorted \in [Intent -> Nat] /\ \A i, j \in Intent : Sorted[i] = Sorted[j] => i = j

-----------------------------------------------------------------------------
(* S2.                                                                     *)

\* A transport names, where its edge is drawn from, an act of the graph by full name.
InvokesNodes(e) ==
  \A t \in Transport : e.target[t].core # Unnamed => e.target[t].core \in Named

\* The intents an act has an edge to: a bare code draws none.
AdmitsVia(e, act) == (e.mentions[act] \union {e.gate[act]}) \intersect Intent

-----------------------------------------------------------------------------
(* S4.                                                                     *)

ActCodes(e)  == {e.code[act] : act \in Act}
CodeGiven(e, name) == IF name \in Named THEN e.code[name] ELSE name

\* A boundary has a target of a kind there is, static, and of an act where it invokes one.
TransportTargetExists(e) ==
  \A t \in Transport :
    LET to == e.target[t] IN
    /\ to.kind \in {"WF_INVOCATION", "SNAPSHOT_READ", "SNAPSHOT_QUERY"}
    /\ to.handler \notin {Unnamed, "$"}
    /\ to.kind = "WF_INVOCATION" => CodeGiven(e, to.handler) \in ActCodes(e)

\* Each intent names an act, by a name no other intent writes the same.
IntentBound(e) ==
  /\ \A i \in Intent : e.workflow[i] # Unnamed /\ CodeGiven(e, e.workflow[i]) \in ActCodes(e)
  /\ \A i, j \in Intent : e.workflow[i] = e.workflow[j] => i = j

\* Each intent takes fields; one that is a record has a type.
IntentTyped(e) == \A i \in Intent : e.takes[i] \in {"typed", "bare"}

\* What a reference stands for: a full name itself, a bare code the first that bears it.
Identity(e, name) ==
  IF name \in Named THEN name
  ELSE LET bear == {x \in Named : e.code[x] = name}
       IN  IF bear = {} THEN Unnamed ELSE CHOOSE x \in bear : \A y \in bear : Standing[x] <= Standing[y]

References(e, x) ==
  IF x \in Act THEN {e.gate[x]} \union e.mentions[x]
  ELSE IF x \in Intent THEN {e.workflow[x]}
  ELSE {e.target[x].handler, e.target[x].core}

\* Mutant of NotReferenced: only references by full name are looked at.
NotReferencedInFull(e, gone) ==
  \A x \in (Named \union Transport) \ gone : References(e, x) \intersect gone \subseteq {x}

\* Nothing in force refers to what is superseded.
NotReferenced(e, gone) ==
  \A x \in (Named \union Transport) \ gone :
    {Identity(e, name) : name \in References(e, x)} \intersect gone \subseteq {x}

Enterable(e, gone) ==
  TransportTargetExists(e) /\ IntentBound(e) /\ IntentTyped(e) /\ NotReferenced(e, gone)

-----------------------------------------------------------------------------
(* S6.                                                                     *)

\* The gate of an act: the last of its edges to an intent, in the order of their names.
GateOf(e, act) ==
  LET via == AdmitsVia(e, act)
  IN  IF via = {} THEN Unnamed ELSE CHOOSE i \in via : \A j \in via : Sorted[j] <= Sorted[i]

\* The acts that can be entered, each by its binding and its gate, and what each gate asks for:
\* of fields that are not records, nothing.
EntranceOf(e, st, gone) ==
  [entry |-> [act \in {act \in Act \ gone : e.starts[act]} |->
                [rb |-> st.owned[act], in |-> GateOf(e, act)]],
   admission |-> [i \in Intent \ gone |-> IF e.takes[i] = "bare" THEN "nothing" ELSE e.takes[i]]]

-----------------------------------------------------------------------------

\* No code is borne twice.
CodesApart(e) == \A x, y \in Named : e.code[x] = e.code[y] => x = y

\* An act that can be entered does so by the gate its intent node names, which is in force and
\* typed, given that it names that intent in full and no other and that its fields are records.
\* The act a boundary in force invokes is in force, and can be entered when it starts.
GatesHold(e, gone, sealed) ==
  /\ \A act \in DOMAIN sealed.entry :
       e.gate[act] \in Intent /\ e.mentions[act] \subseteq {e.gate[act]} /\ e.takes[e.gate[act]] # "bare" =>
         /\ sealed.entry[act].in = e.gate[act]
         /\ e.gate[act] \in DOMAIN sealed.admission /\ sealed.admission[e.gate[act]] = "typed"
  /\ CodesApart(e) =>
       \A t \in Transport \ gone : e.target[t].kind = "WF_INVOCATION" =>
         LET act == Identity(e, e.target[t].handler)
         IN  act \in Act \ gone /\ (e.starts[act] => act \in DOMAIN sealed.entry)
=============================================================================
