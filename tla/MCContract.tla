----------------------------- MODULE MCContract -----------------------------
(***************************************************************************)
(* Declarations of one contract in six families: of its transforms, of its *)
(* pipeline, of the vectors that test a transform, of the storage of two   *)
(* acts, of the capabilities each layer lists, and of how acts are entered.*)
(*   Two namespaces bear the code X; lowering follows two levels of        *)
(* molecules, and a chain of three can be declared.                        *)
(***************************************************************************)
EXTENDS Contract

MCTransform == {"a::X", "b::X", "a::Y", "a::M", "a::N", "a::O"}
MCCode      == {"X", "Y", "M", "N", "O"}
MCCodeOf == [t \in MCTransform |->
  CASE t \in {"a::X", "b::X"} -> "X" [] t = "a::Y" -> "Y" [] t = "a::M" -> "M"
    [] t = "a::N" -> "N" [] t = "a::O" -> "O"]
MCOrder == [t \in MCTransform |->
  CASE t = "a::M" -> 1 [] t = "a::X" -> 2 [] t = "a::N" -> 3 [] t = "b::X" -> 4
    [] t = "a::O" -> 5 [] t = "a::Y" -> 6]

MCOperations == [store |-> {"put", "get"}, send |-> {}]
MCOutcomes   == [store |-> [put |-> {"SUCCESS", "FULL"}], send |-> [go |-> {"SUCCESS"}]]

-----------------------------------------------------------------------------

Atom(purity) ==
  [kind |-> "atom", purity |-> purity, implemented |-> TRUE, refuses |-> FALSE,
   governed |-> IF purity = "ct_impure" THEN "nondeterministic" ELSE "deterministic",
   takes |-> "any", gives |-> "integer", stream |-> <<>>, emit |-> {}]
Molecule(purity, stream, emit) ==
  [kind |-> "molecule", purity |-> purity, implemented |-> FALSE, refuses |-> FALSE,
   governed |-> "molecules", takes |-> "any", gives |-> "integer", stream |-> stream, emit |-> emit]

Does(kind, names, as) == [kind |-> kind, names |-> names, as |-> as, over |-> TRUE]

Nothing == [shape |-> "none", from |-> None]
Reads(shape, from) == [shape |-> shape, from |-> from]
Calls(id, t, reads, on) ==
  [id |-> id, transform |-> t, effect |-> None, op |-> None, reads |-> reads,
   surface |-> DOMAIN on, on |-> on, remaps |-> FALSE]
Effects(id, e, op, reads, on) ==
  [id |-> id, transform |-> None, effect |-> e, op |-> op, reads |-> reads,
   surface |-> DOMAIN on, on |-> on, remaps |-> FALSE]

Whole == [SUCCESS |-> "continue", VIOLATION |-> "exit"]

MCEffectCode == [store |-> "S", send |-> "S2"]
MCStanding   == [x \in Act \union Intent |->
  CASE x = "first" -> 1 [] x = "i::Enter" -> 2 [] x = "second" -> 3 [] x = "j::Enter" -> 4]
MCSorted == [i \in Intent |-> IF i = "i::Enter" THEN 1 ELSE 2]

NoSurfaces ==
  [layer |-> [x \in Transform \union Effect |-> "dom"], transforms |-> {}, effects |-> {},
   implemented |-> {}, contracts |-> <<>>]

Entrances ==
  [code |-> [x \in Named |-> CASE x = "first" -> "F" [] x = "second" -> "G" [] x = "i::Enter" -> "I"
                              [] x = "j::Enter" -> "J"],
   gate |-> [first |-> "i::Enter", second |-> "j::Enter"], mentions |-> [act \in Act |-> {}],
   starts |-> [act \in Act |-> TRUE],
   workflow |-> [i \in Intent |-> IF i = "i::Enter" THEN "first" ELSE "second"],
   takes |-> [i \in Intent |-> "typed"],
   target |-> [door |-> [kind |-> "WF_INVOCATION", handler |-> "first", core |-> "first"]]]

NoActs ==
  [owned |-> [act \in Act |-> NoBinding], consults |-> [act \in Act |-> <<>>],
   owner |-> [x \in Binding \union Description |-> "home"],
   describes |-> [b \in Binding |-> NoBinding], binds |-> [b \in Binding |-> {}],
   records |-> [s \in Description |-> {}]]

Draft(library, steps) ==
  [lib |-> library, pipeline |-> steps, mentions |-> {}, allowed |-> {"SUCCESS", "VIOLATION"}, superseded |-> {},
   domain |-> FALSE, cases |-> {}, acts |-> NoActs,
   surfaces |-> NoSurfaces, entrance |-> Entrances]

-----------------------------------------------------------------------------
(* Transforms: a molecule M over atoms, a molecule N and perhaps a third.  *)

Purities == {"ct_pure", "ct_impure"}

StreamsOfN ==
  {<<Does("atom", "a::Y", "s")>>, <<Does("molecule", "a::O", "s")>>, <<Does("loop", "O", "s")>>,
   <<Does("molecule", "M", "s")>>, <<Does("atom", "a::X", "t"), Does("atom", "Y", "s")>>}

StepsOfM == {<<"atom", "a::X">>, <<"atom", "X">>, <<"atom", "a::Y">>, <<"molecule", "a::N">>, <<"loop", "N">>}
Singles  == {<<Does(p[1], p[2], "s")>> : p \in StepsOfM}
Pairs(a) ==
  {<<Does(p[1], p[2], a), Does(q[1], q[2], "s")>> :
     p \in {<<"atom", "a::X">>, <<"molecule", "a::N">>, <<"loop", "N">>}, q \in StepsOfM}

\* The libraries with these streams of M, what it emits, and other bearers of a code.
Libraries(streamsOfM, emits, more) ==
  {[x \in {"a::X", "a::Y", "a::M", "a::N", "a::O"} \union others |->
      CASE x = "a::X" -> Atom(px)
        [] x = "b::X" -> Atom("ct_pure")
        [] x = "a::Y" -> Atom("ct_pure")
        [] x = "a::M" -> Molecule(pm, sm, {em})
        [] x = "a::N" -> Molecule(pn, sn, {"s"})
        [] x = "a::O" -> Molecule("ct_pure", <<Does("atom", "a::Y", "s")>>, {"s"})] :
   px \in Purities, pm \in Purities, pn \in Purities, sm \in streamsOfM, sn \in StreamsOfN,
   em \in emits, others \in more}

\* One of each flaw a library can have.
Small == [x \in {"a::X", "a::M"} |->
            IF x = "a::X" THEN Atom("ct_pure") ELSE Molecule("ct_pure", <<Does("atom", "a::X", "s")>>, {"s"})]
Flawed ==
  {[Small EXCEPT !["a::X"].implemented = FALSE], [Small EXCEPT !["a::M"].governed = "deterministic"],
   [Small EXCEPT !["a::M"].emit = {"s", "t"}], [Small EXCEPT !["a::M"].stream = <<>>],
   [Small EXCEPT !["a::X"].purity = "ct_other"],
   [Small EXCEPT !["a::M"].stream = <<[Does("loop", "a::M", "s") EXCEPT !.over = FALSE]>>],
   [Small EXCEPT !["a::M"].stream = <<Does("atom", "a::Y", "s")>>]}

TransformDrafts ==
  {[Draft(library, <<Calls("p", "a::M", Nothing, [SUCCESS |-> "exit"])>>)
      EXCEPT !.allowed = {"SUCCESS"}] :
     library \in Libraries(Singles, {"s"}, {{}, {"b::X"}}) \union Libraries(Pairs("s"), {"s"}, {{}})
                  \union Libraries(Pairs("t"), {"s", "t"}, {{}}) \union Flawed}
    \union {[Draft(library, <<Calls("p", t, Nothing, [SUCCESS |-> "exit"])>>)
      EXCEPT !.allowed = {"SUCCESS"}, !.domain = TRUE, !.superseded = gone] :
      library \in {lb \in Libraries(Pairs("t"), {"s"}, {{}}) :
                     \A x \in {"a::X", "a::M", "a::N"} : lb[x].purity = "ct_impure"},
      t \in {"a::X", "a::M", "a::N"}, gone \in {{}, {"a::O"}, {"a::M"}}}
    \union {[Draft([Small EXCEPT !["a::M"].stream[1].kind = k, !["a::X"].stream = sx],
                   <<Calls("p", "a::X", Nothing, [SUCCESS |-> "exit"])>>)
      EXCEPT !.allowed = {"SUCCESS"}, !.domain = TRUE] :
      k \in {"atom", "other"}, sx \in {<<>>, <<Does("molecule", "a::M", "s")>>}}

-----------------------------------------------------------------------------
(* Pipelines of up to three steps over three atoms.                        *)

Atoms == [x \in {"a::X", "a::Y"} |->
            IF x = "a::X" THEN [Atom("ct_pure") EXCEPT !.refuses = TRUE, !.gives = "string"]
            ELSE [Atom("ct_pure") EXCEPT !.takes = "number"]]

Routings == {[SUCCESS |-> "continue"], Whole, [SUCCESS |-> "continue", FULL |-> "exit"],
             [SUCCESS |-> "exit", VIOLATION |-> "continue"]}
SomeReads == {Nothing, Reads("field", "p"), Reads("field", "q"), Reads("nested", "q"), Reads("bare", "q"),
              Reads("wild", None)}

FirstSteps ==
  {Calls("p", t, r, on) : t \in {"a::X", "a::Y"}, r \in {Nothing, Reads("field", "p")}, on \in Routings}
NextSteps  ==
  {Calls("q", t, r, on) : t \in {"a::X", "a::Y"}, r \in SomeReads, on \in Routings}
    \union {Calls("q", "other", Nothing, on) : on \in Routings}
    \union {Effects("q", f[1], f[2], Nothing, on) :
              f \in {<<"store", "put">>, <<"store", "get">>, <<"send", "go">>, <<"send", None>>, <<"other", "go">>},
              on \in Routings}
LastStep == Calls("r", "a::Y", Reads("field", "p"), [SUCCESS |-> "continue"])

PipelineDrafts ==
  {[Draft(Atoms, p) EXCEPT !.allowed = a] :
     p \in {<<f, n>> : f \in FirstSteps, n \in NextSteps}
       \union {<<f, n, LastStep>> :
                 f \in {f \in FirstSteps : f.reads = Nothing /\ f.transform = "a::X"}, n \in NextSteps},
     a \in {{"SUCCESS"}, {"SUCCESS", "VIOLATION"}, {"SUCCESS", "FULL", "VIOLATION"}}}
  \union
  {[Draft(Atoms, <<f>>) EXCEPT !.mentions = m] :
     m \in {{}, {"a::X"}, {"other"}, {"store"}, {"nowhere"}}, f \in FirstSteps \union {Calls("p", "other", Nothing, Whole)} \union
     {[Calls("p", "a::X", Nothing, Whole) EXCEPT !.effect = "store"],
      [Calls("p", "a::X", Nothing, Whole) EXCEPT !.surface = {"SUCCESS"}],
      [Calls(None, "a::X", Nothing, Whole) EXCEPT !.transform = "b::X"]}}
  \union {[Draft(Atoms, <<f>>) EXCEPT !.mentions = {"a::X"}, !.allowed = {"SUCCESS"}] : f \in FirstSteps}
  \union {[Draft(Atoms, <<Calls("p", "a::X", Nothing, [SUCCESS |-> "perhaps"])>>) EXCEPT !.superseded = {This}]}
  \union {[Draft([Atoms EXCEPT !["a::X"] = Atom(px)], <<Effects("p", "a::X", "go", Nothing, [SUCCESS |-> "exit"])>>)
             EXCEPT !.allowed = {"SUCCESS"}] : px \in Purities}

-----------------------------------------------------------------------------
(* Vectors of a molecule over a nested one.                                *)

Tested ==
  {[x \in {"a::X", "a::Y", "a::M", "a::N"} |->
      CASE x = "a::X" -> Atom("ct_impure")
        [] x = "a::Y" -> Atom("ct_pure")
        [] x = "a::M" -> Molecule("ct_impure", <<f, Does("atom", "a::Y", "s")>>, {"s"})
        [] x = "a::N" -> Molecule("ct_impure", <<Does("atom", "a::X", "u"), Does("atom", "a::Y", "v")>>, {"v"})] :
   f \in {Does("atom", "a::X", "t"), Does("molecule", "a::N", "t"), Does("loop", "a::N", "t"),
          Does("atom", "X", "u")}}

Paths == {<<<<"t", 0>>>>, <<<<"u", 0>>>>, <<<<"s", 0>>>>, <<<<"t", 0>>, <<"u", 0>>>>,
          <<<<"t", 1>>, <<"u", 0>>>>, <<<<"t", 2>>, <<"u", 0>>>>, <<<<"t", 0>>, <<"v", 0>>>>}

VectorDrafts ==
  {[Draft(library, <<Calls("p", "a::M", Nothing, [SUCCESS |-> "exit"])>>)
      EXCEPT !.allowed = {"SUCCESS"},
             !.cases = {[target |-> t, recorded |-> paths, outcome |-> o, states |-> o = "SUCCESS"]}] :
   library \in Tested, t \in {"a::M", "a::X", "M", "b::X"}, paths \in {P \in SUBSET Paths : Cardinality(P) <= 2},
   o \in {"SUCCESS", None}}

-----------------------------------------------------------------------------
(* Two acts over three bindings, of two owners.                            *)

Chosen ==
  {[owned |-> [first |-> o, second |-> "rb"], consults |-> [first |-> c, second |-> d],
    owner |-> [rb |-> "home", rb2 |-> "away", rb3 |-> "away", desc |-> "home", desc2 |-> "away"],
    describes |-> [rb |-> x, rb2 |-> "desc2", rb3 |-> NoBinding],
    binds |-> [rb |-> bound, rb2 |-> {}, rb3 |-> {}],
    records |-> [desc |-> {"account"}, desc2 |-> shared]] :
   o \in {"rb", "rb3", NoBinding}, c \in {<<>>, <<"rb2">>, <<"rb2", "rb">>, <<"rb3">>},
   d \in {<<>>, <<"rb2">>}, x \in {"desc", "desc2"}, bound \in {{}, {"store"}, {"a::X"}},
   shared \in {{"ledger"}, {"account", "ledger"}}}

StorageDrafts ==
  {[Draft(Small, <<Calls("p", "a::M", Nothing, [SUCCESS |-> "exit"])>>)
      EXCEPT !.allowed = {"SUCCESS"}, !.acts = st] : st \in Chosen}

-----------------------------------------------------------------------------
(* What the layers list, over a pipeline of a molecule and a side effect.  *)

Lists(names) ==
  {[scope |-> sc, allowed |-> al] : sc \in {{"dom"}, {"core"}, {Platform}, {"dom", Platform}}, al \in names}

SurfaceContracts ==
  LET one(governs, begins, op, surface) ==
        [governs |-> governs, begins |-> begins, op |-> op, surface |-> surface]
      exact  == one({"S"}, {}, "put", {"SUCCESS", "FULL"})
      family == one({}, {"S", "S2"}, "put", {"SUCCESS"})
      pure   == one({"M"}, {}, "TRANSFORM", {"SUCCESS", "VIOLATION"})
  IN  {<<>>, <<exact>>, <<family>>, <<family, exact>>, <<exact, pure>>, <<exact, [exact EXCEPT !.surface = {"FULL"}]>>}

LibraryLists == Lists({{"a::X", "a::M"}, {"a::M"}, {"a::X", "a::M", "a::N"}})

Larger == [x \in DOMAIN Small \union {"a::N"} |->
             IF x = "a::N" THEN Molecule("ct_pure", <<Does("atom", "a::X", "s")>>, {"s"}) ELSE Small[x]]

Listed == [Draft(Small, <<Calls("p", "a::M", Nothing, [SUCCESS |-> "continue"]),
                          Effects("q", "store", "put", Nothing, [SUCCESS |-> "continue", FULL |-> "exit"])>>)
             EXCEPT !.allowed = {"SUCCESS", "FULL"}]

ListDrafts ==
  {[Listed EXCEPT
      !.lib = library, !.domain = dm,
      !.acts.binds = [b \in Binding |-> IF b = "rb" THEN by[1] ELSE {}],
      !.surfaces = [NoSurfaces EXCEPT
        !.layer = [x \in Transform \union Effect |-> IF x \in {"a::M", "send"} THEN "dom" ELSE low],
        !.transforms = {ta}, !.effects = {ea}, !.implemented = by[2]]] :
   library \in {Small, Larger}, dm \in BOOLEAN, low \in {"core", "dom"},
   by \in {<<{}, {"S"}>>, <<{"store"}, {}>>, <<{"store"}, {"S2"}>>}, ta \in LibraryLists,
   ea \in {[scope |-> sc, allowed |-> al] : sc \in {{"dom"}, {Platform}}, al \in {{"store", "send"}, {"send"}}}}
  \union
  {[Listed EXCEPT !.pipeline[1].remaps = rm, !.surfaces.contracts = cs] : rm \in BOOLEAN, cs \in SurfaceContracts}

-----------------------------------------------------------------------------
(* Two acts, two intents and a transport.                                  *)

Some == [Draft(Small, <<Calls("p", "a::M", Nothing, [SUCCESS |-> "exit"])>>) EXCEPT !.allowed = {"SUCCESS"}]

Invokes(handler, core) == [kind |-> "WF_INVOCATION", handler |-> handler, core |-> core]

Spellings == {Entrances.code, [Entrances.code EXCEPT !["second"] = "F"], [Entrances.code EXCEPT !["j::Enter"] = "F"]}

EntranceDrafts ==
  {[Some EXCEPT !.superseded = gone,
                !.entrance = [Entrances EXCEPT !.gate["first"] = g, !.mentions["first"] = m, !.starts["first"] = st,
                                               !.target["door"] = to, !.code = cd]] :
   gone \in {{}, {"first"}, {"i::Enter"}, {"first", "i::Enter"}, {"second", "j::Enter"}, {"first", "i::Enter", "door"}},
   g \in {"i::Enter", "I"}, m \in {{}, {"j::Enter"}}, st \in BOOLEAN,
   to \in {Invokes("first", Unnamed), Invokes("F", Unnamed), Invokes("second", "first")}, cd \in Spellings}
  \union
  {[Some EXCEPT !.entrance.target["door"] = [kind |-> k, handler |-> h, core |-> c], !.entrance.code = cd] :
     k \in {"WF_INVOCATION", "SNAPSHOT_READ", "other"}, h \in {"first", "F", "H", "j::Enter", "$", Unnamed},
     c \in {"first", "F", Unnamed}, cd \in Spellings}
  \union
  {[Some EXCEPT !.entrance.workflow["j::Enter"] = w, !.entrance.takes["i::Enter"] = x] :
     w \in {"second", "first", "F", "H", Unnamed}, x \in {"typed", "bare", "untyped", "nothing"}}

\* The storage of two acts alone.
MCStorageDrafts == {StorageDrafts}

MCDrafts == {TransformDrafts, PipelineDrafts, VectorDrafts, StorageDrafts, ListDrafts, EntranceDrafts}
=============================================================================
