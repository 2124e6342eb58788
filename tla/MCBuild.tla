------------------------------- MODULE MCBuild -------------------------------
(***************************************************************************)
(* Two versions of a structure: the second drops artifact a2 and case c1   *)
(* of the first and adds nothing, so that going forward leaves stale files *)
(* behind and going back writes files that were never there.               *)
(***************************************************************************)
EXTENDS Build

CONSTANTS v1, v2, a1, a2, c1

MCDeclares == [v \in Version |-> IF v = v1 THEN {a1, a2, c1} ELSE {a1}]

\* The second version drops the conformance case alone.
MCDropsCase == [v \in Version |-> IF v = v1 THEN {a1, c1} ELSE {a1}]
==============================================================================
