----------------------------- MODULE MCWorkflow -----------------------------
(***************************************************************************)
(* Declarations over three contract nodes n1, n2, n3 behind an entry, with *)
(* two endings x, y and a key that is declared nowhere.  Contracts a and p *)
(* share a code, p being of another namespace.                             *)
(***************************************************************************)
EXTENDS RoutingSearch

CONSTANTS in, n1, n2, n3, x, y, gone,   \* keys
          i, a, b, c, p,                \* artifacts
          ki, ka, kb, kc,               \* codes
          ok, no, told

MCCodeOf == [r \in Artifact |-> CASE r = i -> ki [] r \in {a, p} -> ka [] r = b -> kb [] r = c -> kc]
MCKindOf == [r \in Artifact |-> IF r = i THEN "IN" ELSE "CC"]
MCRank   == [r \in Artifact |-> CASE r = a -> 1 [] r = b -> 2 [] r = c -> 3 [] r = i -> 4 [] r = p -> 5]

Route(onOk, onNo) == [k \in Condition |-> IF k = ok THEN onOk ELSE onNo]
Silent == Route(None, None)

\* in -> n1 -> n2 -> n3 -> x, and every refusal ends at y.
Chain ==
  [keys |-> Key \ {gone},
   type |-> [k \in Key |-> CASE k = in -> "IN" [] k \in {x, y} -> "EXIT" [] OTHER -> "CC"],
   code |-> [k \in Key |-> CASE k = in -> ki [] k = n1 -> ka [] k = n2 -> kb [] k = n3 -> kc
                             [] OTHER -> None],
   fqdnId |-> [k \in Key |-> None],
   next |-> [k \in Key |-> CASE k = in -> Route(n1, None) [] k = n1 -> Route(n2, y)
                             [] k = n2 -> Route(n3, y) [] k = n3 -> Route(x, y)
                             [] OTHER -> Silent],
   emit |-> [k \in Key |-> IF k = x THEN told ELSE None],
   reads |-> [k \in Key |-> CASE k = n2 -> {n1} [] k = n3 -> {n1, n2} [] OTHER -> {}],
   start |-> in,
   transitions |-> {},
   superseded |-> FALSE,
   present |-> Artifact,
   last |-> [r \in Code |-> CASE r = ki -> i [] r = ka -> p [] r = kb -> b [] r = kc -> c],
   outcomes |-> [r \in Artifact |-> IF r \in {i, b, p} THEN {ok} ELSE {ok, no}]]

\* What may be routed where: cycles, gaps, undeclared targets, endings and joins.
Routings ==
  {[Chain EXCEPT !.next[n1] = Route(t1, u1),
                 !.next[n2] = Route(t2, u2),
                 !.next[n3] = Route(t3, u3),
                 !.superseded = s] :
     t1, u1 \in {n1, n2, n3, x, gone, None}, t2 \in {n1, n2, n3, None},
     u2 \in {n3, y}, t3 \in {n1, x}, u3 \in {y, None}, s \in BOOLEAN}

\* How what a node runs may be named, which graph it is named in, where execution starts and
\* which explicit transitions stand beside `next`.
Names ==
  {[Chain EXCEPT !.fqdnId[n1] = r1[1], !.code[n1] = r1[2],
                 !.fqdnId[n2] = r2[1], !.code[n2] = r2[2],
                 !.code[x] = xc,
                 !.start = s,
                 !.transitions = t,
                 !.present = g[1], !.last[ka] = g[2]] :
     r1 \in {<<None, ka>>, <<a, None>>, <<p, None>>, <<p, ka>>, <<None, None>>},
     r2 \in {<<None, kb>>, <<None, ka>>, <<i, None>>},
     xc \in {None, kb},
     s \in {in, x, i, None},
     t \in {{}, {[from |-> n1, on |-> ok, to |-> n2]}, {[from |-> n1, on |-> ok, to |-> n3]},
            {[from |-> n2, on |-> no, to |-> c]}},
     g \in {<<Artifact, a>>, <<Artifact, p>>, <<Artifact \ {p}, a>>, <<Artifact \ {a}, p>>}}

MCDeclaration == Routings \union Names

\* The entry named as an artifact instead of a node key.
MCStartNamedOutright == {[Chain EXCEPT !.start = s] : s \in {in, n1, i, a, b, c}}

\* One code in two namespaces, the last one in the graph being the other's.
MCSharedCode == {[Chain EXCEPT !.last[ka] = g, !.superseded = s] : g \in {a, p}, s \in BOOLEAN}

\* n1 and n2 run one contract.
MCSharedContract ==
  {[Chain EXCEPT !.fqdnId[n1] = r1, !.fqdnId[n2] = r2, !.code[n1] = None, !.code[n2] = None] :
     r1, r2 \in {a, b, p}}
==============================================================================
