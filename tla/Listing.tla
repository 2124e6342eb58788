------------------------------- MODULE Listing -------------------------------
(***************************************************************************)
(* Sequences read as the collections they list, and sets listed in some    *)
(* order where the order is of no account.                                 *)
(***************************************************************************)
EXTENDS Naturals, FiniteSets, Sequences

Contents(files) == {files[k] : k \in DOMAIN files}

\* The members of a set, each once, in some order.
Listed(S) ==
  LET listed[k \in 0 .. Cardinality(S)] ==
        IF k = 0 THEN <<>>
        ELSE LET before == listed[k - 1]
             IN  Append(before, CHOOSE x \in S : x \notin Contents(before))
  IN  listed[Cardinality(S)]
==============================================================================
