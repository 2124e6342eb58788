---------------------------- MODULE Capabilities ----------------------------
(***************************************************************************)
(* Which capabilities a layer may hold and what they may answer, as S4     *)
(* judges both: an assertion lists the transforms or the side effects of   *)
(* the layers it speaks for, and a surface contract gives the outcomes of  *)
(* one operation of a family of capabilities.                              *)
(*                                                                         *)
(* A declaration f is [layer, transforms, effects, implemented,            *)
(* contracts]: the layer of each capability; the assertions over           *)
(* transforms and those over side effects, each [scope, allowed]; the      *)
(* codes of the side effects that come with an implementation; and the     *)
(* surface contracts in the order of their artifacts, each                 *)
(* [governs, begins, op, surface], where begins are the codes that begin   *)
(* with its prefix.                                                        *)
(***************************************************************************)
EXTENDS Transforms, Storage

CONSTANTS
  PlatformLayer,  \* the layers whose category is "platform"
  EffectCode      \* the code of each side effect

ASSUME CapabilitiesAssumption == Effect \intersect Transform = {} /\ DOMAIN EffectCode = Effect

Platform == "PLATFORM"

\* An assertion speaks for the layers its scope names and, when that names the platform, for every
\* platform layer.
SpeaksFor(f, a, x) ==
  \/ f.layer[x] \in a.scope
  \/ Platform \in a.scope /\ f.layer[x] \in PlatformLayer

\* Mutant of Closed: in a domain no list is asked to be found.
ClosedOutsideDomains(f, a, found, domain) ==
  /\ \A x \in found : SpeaksFor(f, a, x) => x \in a.allowed
  /\ ~domain => a.allowed \subseteq found

\* What is found is listed where the assertion speaks for it, and what is listed is found; a domain
\* does not hold all the platform lists.
Closed(f, a, found, domain) ==
  /\ \A x \in found : SpeaksFor(f, a, x) => x \in a.allowed
  /\ ~(domain /\ Platform \in a.scope) => a.allowed \subseteq found

TransformsClosed(f, lib, domain) == \A a \in f.transforms : Closed(f, a, DOMAIN lib, domain)

\* The codes of the side effects some binding gives a policy.
BoundCodes(st) == {EffectCode[x] : x \in UNION Range(st.binds) \intersect Effect}

\* Side effects are listed likewise, and each has an implementation or a binding under its code.
EffectsClosed(f, st, domain) ==
  \A a \in f.effects :
    /\ Closed(f, a, Effect, domain)
    /\ \A x \in Effect : SpeaksFor(f, a, x) => EffectCode[x] \in BoundCodes(st) \union f.implemented

-----------------------------------------------------------------------------
(* Surface contracts.                                                      *)

CodeOfCapability(x) ==
  IF x \in Effect THEN EffectCode[x] ELSE IF x \in Transform THEN CodeOf[x] ELSE x

\* The contract that governs an operation of a capability: the last that names it, else the first
\* whose prefix it bears; 0 when there is none.
Governor(f, code, op) ==
  LET of      == {k \in DOMAIN f.contracts : f.contracts[k].op = op}
      named   == {k \in of : code \in f.contracts[k].governs}
      begins  == {k \in of : code \in f.contracts[k].begins}
  IN  IF named # {} THEN CHOOSE k \in named : \A j \in named : j <= k
      ELSE IF begins # {} THEN CHOOSE k \in begins : \A j \in begins : k <= j
      ELSE 0

\* The contract a step of a pipeline is held to; none for a transform whose result it remaps.
GovernorOf(f, s) ==
  IF s.effect # None THEN Governor(f, CodeOfCapability(s.effect), s.op)
  ELSE IF s.transform = None \/ s.remaps THEN 0
  ELSE Governor(f, CodeOfCapability(s.transform), "TRANSFORM")

\* The surface of a governed step is that of its contract, no more and no less.
SurfaceCanonical(f, steps) ==
  \A s \in Range(steps) :
    LET k == GovernorOf(f, s) IN k # 0 => s.surface = f.contracts[k].surface
=============================================================================
