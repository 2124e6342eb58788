--------------------------- MODULE SurfaceProofs ---------------------------
(***************************************************************************)
(* The surface, for any platform, any domains and any source trees.  At    *)
(* the end: why every build comes to one.                                  *)
(***************************************************************************)
EXTENDS Surface, AddressingProofs, Recursion, SequenceTheorems

-----------------------------------------------------------------------------
(* Sequences of files and of events.                                       *)

\* One place more.
LEMMA PlacesGrow ==
  ASSUME NEW k \in Nat
  PROVE  1 .. (k + 1) = (1 .. k) \union {k + 1}
<1>1. \A j : j \in 1 .. (k + 1) <=> j \in 1 .. k \/ j = k + 1
  OBVIOUS
<1>2. QED
  BY <1>1

\* Sequences of files.
FilesOf(X) == Seq(X)

\* The files among a set, and no other, in a sequence of files.
LEMMA AmongIs ==
  ASSUME NEW X, NEW files \in FilesOf(X), NEW S
  PROVE  /\ Among(files, S) \in Seq(X)
         /\ Contents(Among(files, S)) = Contents(files) \intersect S
<1> DEFINE n == Len(files)
           A == Seq(X)
           next(g, k) == IF files[k] \in S THEN Append(g, files[k]) ELSE g
           step == [k \in Nat |-> [g \in A |-> IF k \in 1 .. n THEN next(g, k) ELSE g]]
           Is(f) == f = [k \in 0 .. n |-> IF k = 0 THEN <<>> ELSE next(f[k - 1], k)]
           among == CHOOSE f : Is(f)
<1>0. n \in Nat /\ \A k \in 1 .. n : files[k] \in X
  BY DEF FilesOf
<1>1. \A g \in A, k \in 1 .. n : next(g, k) \in A
  BY <1>0
<1>2. step \in [Nat -> [A -> A]]
  <2> HIDE DEF next, A
  <2>1. QED
    BY <1>1
<1>3. <<>> \in A
  OBVIOUS
<1>4. PICK g \in [0 .. n -> A] : /\ g[0] = <<>>
                                 /\ \A k \in 1 .. n : g[k] = step[k][g[k - 1]]
  <2> DEFINE start == <<>>
  <2>1. n \in Nat /\ start \in A /\ step \in [Nat -> [A -> A]]
    BY <1>0, <1>2, <1>3
  <2> HIDE DEF step, A, n, start, next, Is, among
  <2>2. \E g : Unrolls(g, n, A, start, step)
    BY <2>1, BoundedRecursion
  <2>3. QED
    BY <2>2 DEF start, Unrolls
<1>5. \A k \in 1 .. n : g[k] = next(g[k - 1], k)
  <2>1. SUFFICES ASSUME NEW k \in 1 .. n
                 PROVE  g[k] = next(g[k - 1], k)
    OBVIOUS
  <2>2. k \in Nat /\ k - 1 \in 0 .. n
    BY <1>0
  <2>3. g[k] = step[k][g[k - 1]] /\ g[k - 1] \in A
    <3> HIDE DEF step, A, next
    <3>1. QED
      BY <1>4, <2>2
  <2> HIDE DEF next, A
  <2>4. QED
    BY <2>2, <2>3
<1>6. Is(g)
  <2>1. \A k \in 0 .. n : g[k] = IF k = 0 THEN <<>> ELSE next(g[k - 1], k)
    <3> HIDE DEF step, A, next
    <3>1. \A k \in 0 .. n : k = 0 \/ k \in 1 .. n
      BY <1>0
    <3>2. QED
      BY <1>4, <1>5, <3>1
  <2>2. g = [k \in 0 .. n |-> g[k]]
    OBVIOUS
  <2> HIDE DEF step, A, next
  <2>3. QED
    BY <2>1, <2>2
<1>7. Is(among)
  <2> HIDE DEF Is
  <2>1. QED
    BY <1>6
<1>8. Among(files, S) = among[n]
  BY DEF Among
<1>9. /\ among[0] = <<>>
      /\ \A k \in 1 .. n : among[k] = next(among[k - 1], k)
  <2>1. among = [k \in 0 .. n |-> IF k = 0 THEN <<>> ELSE next(among[k - 1], k)]
    BY <1>7
  <2>2. ASSUME NEW k \in 0 .. n
        PROVE  among[k] = IF k = 0 THEN <<>> ELSE next(among[k - 1], k)
    <3> HIDE DEF among, next
    <3>1. QED
      BY <2>1
  <2>3. 0 \in 0 .. n /\ \A k \in 1 .. n : k \in 0 .. n /\ k # 0
    BY <1>0
  <2> HIDE DEF among, next
  <2>4. QED
    BY <2>2, <2>3
<1> DEFINE Upto(k) == {files[j] : j \in 1 .. k}
           Good == {k \in Nat : k <= n => among[k] \in A /\ Contents(among[k]) = Upto(k) \intersect S}
<1>10. 0 \in Good
  <2>1. Contents(<<>>) = {} /\ Upto(0) = {}
    BY DEF Contents
  <2> HIDE DEF among, Upto, A
  <2>2. QED
    BY <1>9, <1>3, <2>1
<1>11. ASSUME NEW k \in Nat, k \in Good
       PROVE  k + 1 \in Good
  <2>1. SUFFICES ASSUME k + 1 <= n
                 PROVE  among[k + 1] \in A /\ Contents(among[k + 1]) = Upto(k + 1) \intersect S
    <3> HIDE DEF among, A, Upto
    <3>1. QED
      OBVIOUS
  <2>2. k + 1 \in 1 .. n /\ (k + 1) - 1 = k /\ k <= n
    BY <2>1, <1>0
  <2>3. among[k] \in A /\ Contents(among[k]) = Upto(k) \intersect S
    BY <1>11, <2>2
  <2>4. among[k + 1] = next(among[k], k + 1)
    <3> HIDE DEF among, next
    <3>1. QED
      BY <1>9, <2>2
  <2>5. Upto(k + 1) = Upto(k) \union {files[k + 1]}
    <3>1. 1 .. (k + 1) = (1 .. k) \union {k + 1}
      BY PlacesGrow
    <3> HIDE DEF among, Good
    <3>2. QED
      BY <3>1
  <2> HIDE DEF among, Upto
  <2>6. CASE files[k + 1] \in S
    <3>1. among[k + 1] = Append(among[k], files[k + 1])
      BY <2>4, <2>6
    <3>2. files[k + 1] \in X
      BY <1>0, <2>2
    <3> DEFINE q == among[k]
    <3>3. q \in Seq(X)
      BY <2>3
    <3> HIDE DEF q
    <3>4. Append(q, files[k + 1]) \in Seq(X) /\ Contents(Append(q, files[k + 1])) = Contents(q) \union {files[k + 1]}
      BY <3>2, <3>3, ContentsAppend
    <3> USE DEF q
    <3>5. QED
      BY <3>1, <3>4, <2>3, <2>5, <2>6
  <2>7. CASE files[k + 1] \notin S
    <3>1. among[k + 1] = among[k]
      BY <2>4, <2>7
    <3>2. QED
      BY <3>1, <2>3, <2>5, <2>7
  <2>8. QED
    BY <2>6, <2>7
<1>12. n \in Good
  <2> HIDE DEF Good
  <2>1. QED
    BY <1>0, <1>10, <1>11, SetInduction
<1>13. Upto(n) = Contents(files)
  BY DEF Contents, FilesOf
<1> HIDE DEF among, Upto
<1>14. QED
  BY <1>8, <1>12, <1>13, <1>0

-----------------------------------------------------------------------------
(* The invariant.                                                          *)

Roles  == {"native", "execution", "governance"}
Fields == {"stage", "tree", "nodes", "judged", "table", "edges", "trace", "pending", "failed", "steady"}
Operations ==
  {"discovery_complete", "node_created", "edge_typed", "addresses_allocated", "governance_complete",
   "ct_ir_built", "cs_ir_built", "cc_projection_built", "construction_complete", "artifact_projected",
   "vocabulary_projected", "tokenized_projected", "evidence_projected", "artifact_written",
   "vocabulary_materialized", "tokenized_materialized", "evidence_materialized",
   "verification_complete"}
Events ==
  [stage : {"S1", "S2", "S3", "S4", "S5", "S6", "S7", "S8"}, operation : Operations,
   subject : Name \union {NoSubject}]

\* The stages before the rules have judged the graph, and those after.
Early == {"carry", "import", "resolve", "govern"}
Late  == {"write", "verify", "attest"}

\* The graph with what was imported, at every stage.
Whole(b) == IF b.stage \in Late THEN b.judged ELSE b.nodes

\* Each node bears the name its artifact declares.
Named(nodes) ==
  /\ DOMAIN nodes \subseteq Name
  /\ IsFiniteSet(DOMAIN nodes)
  /\ \A n \in DOMAIN nodes : /\ nodes[n].art \in Artifact
                             /\ Says[nodes[n].art].name = n
                             /\ nodes[n].role \in Roles

Held(canonical) == {n \in Name : canonical[n] # None}

\* Each file bears the name its artifact declares.
Filed(canonical) ==
  /\ canonical \in [Name -> Artifact \union {None}]
  /\ IsFiniteSet(Held(canonical))
  /\ \A n \in Held(canonical) : Says[canonical[n]].name = n

Formed(b) ==
  /\ DOMAIN b = Fields
  /\ b.stage \in Stages
  /\ b.tree \in DOMAIN Trees
  /\ {b.failed, b.steady} \subseteq BOOLEAN
  /\ b.trace \in Seq(Events)

\* Where what is in the graph comes from.
Authored(b) ==
  /\ Arranged(Trees[b.tree])
  /\ \A n \in DOMAIN b.nodes :
       /\ b.nodes[n].role = "native" => b.nodes[n].art \in Contents(Parsed(Trees[b.tree]))
       /\ b.nodes[n].role = "execution" => Kind(b.nodes[n].art) \in {"CS", "CT"}

Joined(b) ==
  /\ IsFiniteSet(b.edges)
  /\ \A e \in b.edges :
       /\ DOMAIN e = {"from", "to", "kind"}
       /\ e.from \in DOMAIN b.nodes
       /\ b.stage \notin {"carry", "import", "resolve"} => e.to \in DOMAIN b.nodes

\* What the rules were run against, and what they left.
Governed(b) ==
  /\ Named(Whole(b))
  /\ b.stage = "carry" => \A n \in DOMAIN b.nodes : b.nodes[n].role = "native"
  /\ b.stage = "import" => \A n \in DOMAIN b.nodes : b.nodes[n].role # "governance"
  /\ b.stage \in Late =>
       /\ DOMAIN b.nodes = Retained(b.judged)
       /\ \A n \in DOMAIN b.nodes : b.nodes[n] = b.judged[n]
       /\ \A c \in Coverage(b.judged) : c.status = "PASSED"

Located(b) ==
  /\ b.stage = "govern" => b.table = Allocated(b.nodes)
  /\ b.stage \in Late =>
       b.table = Strip(Allocated(b.judged), DOMAIN b.judged \ DOMAIN b.nodes)

Wrote(b) == Subjects(b.trace, "artifact_written")

\* What the trace says was written, is on disk.
Witnessed(b, d) ==
  /\ b.pending \subseteq DOMAIN b.nodes
  /\ b.stage \in Early => Wrote(b) = {} /\ b.pending = {}
  /\ b.stage \in Late =>
       /\ Wrote(b) \subseteq DOMAIN b.nodes
       /\ \A n \in Wrote(b) : d.canonical[n] = b.nodes[n].art
  /\ b.stage = "write" /\ ~b.failed => DOMAIN b.nodes \ b.pending \subseteq Wrote(b)
  /\ b.stage \in {"verify", "attest"} => Wrote(b) = DOMAIN b.nodes /\ d.vocabulary = DOMAIN b.nodes
  /\ b.stage = "attest" => Held(d.canonical) = DOMAIN b.nodes

\* What was taken from a surface that stayed attested is that surface's, and all of what governs.
FromOnePlatform(b, z) ==
  /\ \A n \in DOMAIN Whole(b) : Whole(b)[n].role # "native" => z.canonical[n] = Whole(b)[n].art
  /\ b.stage \notin {"carry", "import"} =>
       DOMAIN Whole(b) \ Retained(Whole(b)) =
         {n \in Held(z.canonical) \ Retained(Whole(b)) : Governs(z.canonical[n])}
  /\ b.stage = "attest" =>
       \A n \in DOMAIN b.nodes : Says[b.nodes[n].art].refs \subseteq DOMAIN b.nodes \union z.vocabulary

Sound(b, d, z) ==
  /\ Formed(b)
  /\ Authored(b)
  /\ Joined(b)
  /\ Governed(b)
  /\ Located(b)
  /\ Witnessed(b, d)
  /\ b.steady => FromOnePlatform(b, z)

DiskInv ==
  /\ DOMAIN disk = Structure
  /\ \A s \in Structure : DOMAIN disk[s] = {"canonical", "vocabulary"} /\ Filed(disk[s].canonical)

SealedInv == sealed # None => Filed(sealed.canonical) /\ sealed.vocabulary = Held(sealed.canonical)

BuildInv ==
  /\ DOMAIN build = Structure
  /\ \A s \in Structure : build[s] # Idle => Sound(build[s], disk[s], sealed)
  /\ \A s \in Structure : build[s] # Idle /\ build[s].steady => s \in Domain /\ Settled

TreeInv ==
  /\ tree \in [Structure -> DOMAIN Trees]
  /\ \A s \in Structure : tree[s] \in TreesOf[s]
  /\ left \in 0 .. Mishaps

IInv == TreeInv /\ DiskInv /\ SealedInv /\ BuildInv


-----------------------------------------------------------------------------
(* What the operators of the stages give.                                  *)

\* What a sequence of files holds are artifacts, finitely many.
LEMMA ContentsFinite ==
  ASSUME NEW X, NEW files \in FilesOf(X)
  PROVE  Contents(files) \subseteq X /\ IsFiniteSet(Contents(files))
<1> DEFINE n == Len(files)
<1>1. n \in Nat /\ DOMAIN files = 1 .. n /\ \A k \in 1 .. n : files[k] \in X
  BY DEF FilesOf
<1>2. IsFiniteSet(1 .. n)
  BY <1>1, FS_Interval
<1> HIDE DEF n
<1>3. IsFiniteSet({files[k] : k \in 1 .. n})
  BY <1>1, <1>2, FiniteImage
<1>4. QED
  BY <1>1, <1>3 DEF Contents

\* The nodes of a graph bear the names their files declare.
LEMMA NodesOfIs ==
  ASSUME NEW files \in FilesOf(Artifact)
  PROVE  /\ DOMAIN NodesOf(files) = {Says[a].name : a \in Contents(files)}
         /\ Named(NodesOf(files))
         /\ \A n \in DOMAIN NodesOf(files) : /\ NodesOf(files)[n].role = "native"
                                             /\ NodesOf(files)[n].art \in Contents(files)
<1> DEFINE names == {Says[a].name : a \in Contents(files)}
           declares(n) == {k \in DOMAIN files : Says[files[k]].name = n}
           last(n) == CHOOSE k \in DOMAIN files :
                        Says[files[k]].name = n /\ \A j \in DOMAIN files : Says[files[j]].name = n => j <= k
<1>1. Len(files) \in Nat /\ DOMAIN files = 1 .. Len(files)
  BY DEF FilesOf
<1>2. Contents(files) \subseteq Artifact /\ IsFiniteSet(Contents(files))
  BY ContentsFinite
<1>3. ASSUME NEW n \in names
      PROVE  last(n) \in DOMAIN files /\ Says[files[last(n)]].name = n
  <2> DEFINE after == {Len(files) - k : k \in declares(n)}
  <2>1. after \subseteq Nat /\ after # {}
    BY <1>1, <1>3 DEF Contents
  <2> HIDE DEF after
  <2>2. PICK x \in after : \A y \in after : x <= y
    BY <2>1, LeastElement
  <2>3. PICK k \in declares(n) : x = Len(files) - k
    BY <2>2 DEF after
  <2>4. \A j \in declares(n) : j <= k
    <3>1. SUFFICES ASSUME NEW j \in declares(n)
                   PROVE  j <= k
      OBVIOUS
    <3>2. Len(files) - j \in after
      BY <3>1 DEF after
    <3>3. Len(files) - k <= Len(files) - j
      BY <2>2, <2>3, <3>2
    <3>4. QED
      BY <1>1, <3>3
  <2>5. QED
    BY <2>4
<1>4. NodesOf(files) = [n \in names |-> [art |-> files[last(n)], role |-> "native"]]
  BY DEF NodesOf
<1>5. IsFiniteSet(names)
  <2> DEFINE f == [a \in Contents(files) |-> Says[a].name]
  <2>1. IsFiniteSet({f[a] : a \in Contents(files)})
    <3>1. DOMAIN f = Contents(files)
      OBVIOUS
    <3> HIDE DEF f
    <3>2. QED
      BY <1>2, <3>1, FiniteImage
  <2>2. {f[a] : a \in Contents(files)} = names
    OBVIOUS
  <2>3. QED
    BY <2>1, <2>2
<1>6. ASSUME NEW n \in names
      PROVE  /\ files[last(n)] \in Contents(files)
             /\ Says[files[last(n)]].name = n
  BY <1>3 DEF Contents
<1>7. names \subseteq Name
  BY <1>2, SaysAssumption
<1> HIDE DEF last, names
<1>8. \A n \in names : /\ NodesOf(files)[n].role = "native"
                       /\ NodesOf(files)[n].art = files[last(n)]
  BY <1>4
<1>9. DOMAIN NodesOf(files) = names
  BY <1>4
<1>10. Named(NodesOf(files))
  BY <1>2, <1>5, <1>6, <1>7, <1>8, <1>9 DEF Named, Roles
<1>11. QED
  BY <1>6, <1>8, <1>9, <1>10 DEF names

\* The edges a build begins with are finitely many and leave its own nodes.
LEMMA ReferencesOfIs ==
  ASSUME NEW files \in FilesOf(Artifact)
  PROVE  /\ IsFiniteSet(ReferencesOf(files))
         /\ \A e \in ReferencesOf(files) :
              DOMAIN e = {"from", "to", "kind"} /\ e.from \in {Says[a].name : a \in Contents(files)}
<1> DEFINE edge(a, n) == [from |-> Says[a].name, to |-> n, kind |-> "REFERENCES"]
           edges(a) == {edge(a, n) : n \in Says[a].refs}
           f == [a \in Contents(files) |-> edges(a)]
<1>1. Contents(files) \subseteq Artifact /\ IsFiniteSet(Contents(files))
  BY ContentsFinite
<1>2. ASSUME NEW a \in Contents(files)
      PROVE  IsFiniteSet(edges(a))
  <2> DEFINE g == [n \in Says[a].refs |-> edge(a, n)]
  <2>1. IsFiniteSet(Says[a].refs)
    BY <1>1, SaysAssumption
  <2>2. IsFiniteSet({g[n] : n \in Says[a].refs})
    <3>1. DOMAIN g = Says[a].refs
      OBVIOUS
    <3> HIDE DEF g
    <3>2. QED
      BY <2>1, <3>1, FiniteImage
  <2>3. {g[n] : n \in Says[a].refs} = edges(a)
    OBVIOUS
  <2>4. QED
    BY <2>2, <2>3
<1>3. IsFiniteSet({f[a] : a \in Contents(files)})
  <2>1. DOMAIN f = Contents(files)
    OBVIOUS
  <2> HIDE DEF f
  <2>2. QED
    BY <1>1, <2>1, FiniteImage
<1>4. \A T \in {f[a] : a \in Contents(files)} : IsFiniteSet(T)
  <2> HIDE DEF edges
  <2>1. QED
    BY <1>2
<1>5. ReferencesOf(files) = UNION {f[a] : a \in Contents(files)}
  BY DEF ReferencesOf
<1>6. IsFiniteSet(ReferencesOf(files))
  <2> HIDE DEF f
  <2>1. QED
    BY <1>3, <1>4, <1>5, FS_UNION
<1>7. QED
  BY <1>6 DEF ReferencesOf

-----------------------------------------------------------------------------
(* Traces.                                                                 *)

\* An event is what its three parts say.
LEMMA EventIs ==
  ASSUME NEW stage \in {"S1", "S2", "S3", "S4", "S5", "S6", "S7", "S8"}, NEW operation \in Operations,
         NEW n \in Name \union {NoSubject}
  PROVE  /\ Event(stage, operation, n) \in Events
         /\ Event(stage, operation, n).operation = operation
         /\ Event(stage, operation, n).subject = n
BY DEF Event, Events

\* The event of a written artifact.
LEMMA WrittenEvent ==
  ASSUME NEW n \in Name
  PROVE  /\ Event("S7", "artifact_written", n) \in Events
         /\ Event("S7", "artifact_written", n).operation = "artifact_written"
         /\ Event("S7", "artifact_written", n).subject = n
BY EventIs DEF Operations

\* Events none of which says that an artifact was written.
Quiet(q) == q \in Seq(Events) /\ \A k \in 1 .. Len(q) : q[k].operation # "artifact_written"

\* What a stage records besides, leaves what was written as it was.
LEMMA QuietJoin ==
  ASSUME NEW q \in Seq(Events), NEW r, Quiet(r)
  PROVE  /\ q \o r \in Seq(Events)
         /\ Subjects(q \o r, "artifact_written") = Subjects(q, "artifact_written")
         /\ Quiet(q) => Quiet(q \o r)
<1>1. r \in Seq(Events) /\ \A k \in 1 .. Len(r) : r[k].operation # "artifact_written"
  BY DEF Quiet
<1>2. /\ q \o r \in Seq(Events)
      /\ Len(q \o r) = Len(q) + Len(r)
      /\ \A k \in 1 .. Len(q \o r) : (q \o r)[k] = IF k <= Len(q) THEN q[k] ELSE r[k - Len(q)]
  BY <1>1, ConcatProperties
<1>3. Len(q) \in Nat /\ Len(r) \in Nat
  BY <1>1
<1> DEFINE j == q \o r
<1>4. \A k \in 1 .. Len(j) : j[k].operation = "artifact_written" => k \in 1 .. Len(q) /\ j[k] = q[k]
  <2>1. SUFFICES ASSUME NEW k \in 1 .. Len(j), j[k].operation = "artifact_written"
                 PROVE  k \in 1 .. Len(q) /\ j[k] = q[k]
    OBVIOUS
  <2>2. CASE k <= Len(q)
    BY <1>2, <1>3, <2>2
  <2>3. CASE k > Len(q)
    <3>1. k - Len(q) \in 1 .. Len(r) /\ ~(k <= Len(q))
      BY <1>2, <1>3, <2>3
    <3>2. j[k] = r[k - Len(q)]
      BY <1>2, <3>1
    <3>3. QED
      BY <1>1, <2>1, <3>1, <3>2
  <2>4. QED
    BY <1>3, <2>2, <2>3
<1>5. \A k \in 1 .. Len(q) : k \in 1 .. Len(j) /\ j[k] = q[k]
  BY <1>2, <1>3
<1> HIDE DEF j
<1>6. Subjects(j, "artifact_written") = Subjects(q, "artifact_written")
  BY <1>4, <1>5 DEF Subjects, Of, Places
<1>7. Quiet(q) => Quiet(j)
  BY <1>2, <1>4 DEF Quiet, j
<1>8. QED
  BY <1>2, <1>6, <1>7 DEF j

\* One event that says nothing was written.
LEMMA QuietOne ==
  ASSUME NEW e \in Events, e.operation # "artifact_written"
  PROVE  /\ Quiet(<<e>>)
         /\ \A q \in Seq(Events) : Append(q, e) = q \o <<e>>
BY DEF Quiet

\* One quiet event more leaves what was written as it was.
LEMMA QuietAppend ==
  ASSUME NEW q \in Seq(Events), NEW e \in Events, e.operation # "artifact_written"
  PROVE  /\ Append(q, e) \in Seq(Events)
         /\ Subjects(Append(q, e), "artifact_written") = Subjects(q, "artifact_written")
         /\ Quiet(q) => Quiet(Append(q, e))
BY QuietOne, QuietJoin

\* The writing of an artifact.
LEMMA WrittenAppend ==
  ASSUME NEW q \in Seq(Events), NEW n \in Name
  PROVE  /\ Append(q, Event("S7", "artifact_written", n)) \in Seq(Events)
         /\ Subjects(Append(q, Event("S7", "artifact_written", n)), "artifact_written")
              = Subjects(q, "artifact_written") \union {n}
<1> DEFINE e == Event("S7", "artifact_written", n)
           j == Append(q, e)
<1>1. e \in Events /\ e.operation = "artifact_written" /\ e.subject = n
  BY WrittenEvent
<1> HIDE DEF e
<1>2. /\ j \in Seq(Events)
      /\ Len(j) = Len(q) + 1
      /\ \A k \in 1 .. Len(q) : j[k] = q[k]
      /\ j[Len(q) + 1] = e
      /\ Len(q) \in Nat
  BY <1>1
<1>3. 1 .. Len(j) = (1 .. Len(q)) \union {Len(q) + 1}
  BY <1>2, PlacesGrow
<1> HIDE DEF j
<1>4. Of(j, "artifact_written") = Of(q, "artifact_written") \union {Len(q) + 1}
  BY <1>1, <1>2, <1>3 DEF Of, Places
<1>5. \A k \in Of(q, "artifact_written") : j[k] = q[k]
  BY <1>2 DEF Of, Places
<1>6. Subjects(j, "artifact_written") = Subjects(q, "artifact_written") \union {n}
  BY <1>1, <1>2, <1>4, <1>5 DEF Subjects
<1>7. QED
  BY <1>2, <1>6 DEF e, j

\* A quiet trace has written nothing.
LEMMA QuietNothing ==
  ASSUME NEW q, Quiet(q)
  PROVE  Subjects(q, "artifact_written") = {}
BY DEF Quiet, Subjects, Of, Places

\* One event for each of a sequence of files.
LEMMA QuietEach ==
  ASSUME NEW X, NEW files \in FilesOf(X), NEW f, DOMAIN f = DOMAIN files,
         f = [k \in DOMAIN files |-> f[k]],
         \A k \in DOMAIN files : f[k] \in Events /\ f[k].operation # "artifact_written"
  PROVE  Quiet(f)
<1>1. Len(files) \in Nat /\ DOMAIN files = 1 .. Len(files)
  BY DEF FilesOf
<1>2. f \in Seq(Events) /\ Len(f) = Len(files)
  BY <1>1
<1>3. QED
  BY <1>1, <1>2 DEF Quiet

-----------------------------------------------------------------------------
(* What the stages record is quiet but for the writing of the artifacts.   *)

\* What is listed of a finite set are its members.
LEMMA ListedWithin ==
  ASSUME NEW S, IsFiniteSet(S)
  PROVE  /\ Listed(S) \in FilesOf(S)
         /\ \A k \in DOMAIN Listed(S) : Listed(S)[k] \in S
BY ListedIs DEF Contents, FilesOf

\* The discovery of the files writes nothing,
LEMMA QuietCreated ==
  ASSUME NEW files \in FilesOf(Artifact)
  PROVE  Quiet(Created(files))
<1> DEFINE f == Created(files)
<1>1. f = [k \in DOMAIN files |-> Event("S1", "node_created", Says[files[k]].name)]
  BY DEF Created
<1>2. \A k \in DOMAIN files : Says[files[k]].name \in Name
  <2>1. Contents(files) \subseteq Artifact
    BY ContentsFinite
  <2>2. \A k \in DOMAIN files : files[k] \in Artifact
    BY <2>1 DEF Contents
  <2>3. QED
    BY <2>2, SaysAssumption
<1>3. ASSUME NEW k \in DOMAIN files
      PROVE  f[k] \in Events /\ f[k].operation # "artifact_written"
  <2>1. f[k] = Event("S1", "node_created", Says[files[k]].name)
    BY <1>1
  <2>2. Says[files[k]].name \in Name \union {NoSubject}
    BY <1>2
  <2> HIDE DEF f
  <2>3. QED
    BY <2>1, <2>2, EventIs DEF Operations
<1>4. f = [k \in DOMAIN files |-> f[k]]
  BY <1>1
<1> HIDE DEF f
<1>5. DOMAIN f = DOMAIN files
  BY <1>1
<1>6. Quiet(f)
  BY <1>3, <1>4, <1>5, QuietEach
<1>7. QED
  BY <1>6 DEF f

\* One event for each member of a set.
LEMMA QuietListed ==
  ASSUME NEW S, IsFiniteSet(S), NEW g, DOMAIN g = S,
         \A x \in S : g[x] \in Events /\ g[x].operation # "artifact_written"
  PROVE  Quiet([k \in DOMAIN Listed(S) |-> g[Listed(S)[k]]])
<1> DEFINE q == Listed(S)
           f == [k \in DOMAIN q |-> g[q[k]]]
<1>1. q \in FilesOf(S) /\ \A k \in DOMAIN q : q[k] \in S
  BY ListedWithin
<1> HIDE DEF q
<1>2. \A k \in DOMAIN q : f[k] \in Events /\ f[k].operation # "artifact_written"
  BY <1>1
<1>3. f = [k \in DOMAIN q |-> f[k]] /\ DOMAIN f = DOMAIN q
  OBVIOUS
<1> HIDE DEF f
<1>4. Quiet(f)
  BY <1>1, <1>2, <1>3, QuietEach
<1>5. QED
  BY <1>4 DEF f, q

\* nor does the typing of the edges,
LEMMA QuietTyped ==
  ASSUME NEW S, IsFiniteSet(S), \A e \in S : e.from \in Name
  PROVE  Quiet([k \in DOMAIN Listed(S) |-> Event("S2", "edge_typed", Listed(S)[k].from)])
<1> DEFINE g == [e \in S |-> Event("S2", "edge_typed", e.from)]
           q == Listed(S)
<1>1. \A e \in S : g[e] \in Events /\ g[e].operation # "artifact_written"
  <2>1. SUFFICES ASSUME NEW e \in S
                 PROVE  g[e] \in Events /\ g[e].operation # "artifact_written"
    OBVIOUS
  <2>2. g[e] = Event("S2", "edge_typed", e.from) /\ e.from \in Name \union {NoSubject}
    OBVIOUS
  <2> HIDE DEF g
  <2>3. QED
    BY <2>2, EventIs DEF Operations
<1>2. DOMAIN g = S
  OBVIOUS
<1>3. Quiet([k \in DOMAIN q |-> g[q[k]]])
  <2> HIDE DEF g
  <2>1. QED
    BY <1>1, <1>2, QuietListed
<1>4. \A k \in DOMAIN q : q[k] \in S
  BY ListedWithin
<1> HIDE DEF q
<1>5. [k \in DOMAIN q |-> g[q[k]]] = [k \in DOMAIN q |-> Event("S2", "edge_typed", q[k].from)]
  BY <1>4
<1>6. QED
  BY <1>3, <1>5 DEF q

\* nor the construction,
LEMMA QuietConstructed ==
  ASSUME NEW names, names \subseteq Name, IsFiniteSet(names), NEW nodes
  PROVE  Quiet(Constructed(names, nodes))
<1> DEFINE S == {n \in names : Kind(nodes[n].art) \in {"CT", "CS", "CC"}}
           g == [n \in S |-> Event("S5", BuiltEvent(Kind(nodes[n].art)), n)]
           q == Listed(S)
           f == [k \in DOMAIN q |-> Event("S5", BuiltEvent(Kind(nodes[q[k]].art)), q[k])]
<1>1. IsFiniteSet(S)
  BY FS_Subset
<1>2. \A n \in S : g[n] \in Events /\ g[n].operation # "artifact_written"
  <2>1. SUFFICES ASSUME NEW n \in S
                 PROVE  g[n] \in Events /\ g[n].operation # "artifact_written"
    OBVIOUS
  <2>2. g[n] = Event("S5", BuiltEvent(Kind(nodes[n].art)), n) /\ n \in Name \union {NoSubject}
    OBVIOUS
  <2>3. BuiltEvent(Kind(nodes[n].art)) \in {"ct_ir_built", "cs_ir_built", "cc_projection_built"}
    BY DEF BuiltEvent
  <2> HIDE DEF g, S
  <2>4. QED
    BY <2>2, <2>3, EventIs DEF Operations
<1>3. DOMAIN g = S
  OBVIOUS
<1>4. Quiet([k \in DOMAIN q |-> g[q[k]]])
  <2> HIDE DEF g, S
  <2>1. QED
    BY <1>1, <1>2, <1>3, QuietListed
<1>5. \A k \in DOMAIN q : q[k] \in S
  <2> HIDE DEF S
  <2>1. QED
    BY <1>1, ListedWithin
<1> HIDE DEF q
<1>6. [k \in DOMAIN q |-> g[q[k]]] = f
  BY <1>5
<1>7. Quiet(f)
  BY <1>4, <1>6
<1>8. Constructed(names, nodes) = Append(f, Event("S5", "construction_complete", NoSubject))
  BY DEF Constructed, q
<1>9. /\ Event("S5", "construction_complete", NoSubject) \in Events
      /\ Event("S5", "construction_complete", NoSubject).operation # "artifact_written"
  BY EventIs DEF Operations
<1> HIDE DEF f
<1>10. f \in Seq(Events)
  BY <1>7 DEF Quiet
<1>11. QED
  BY <1>7, <1>8, <1>9, <1>10, QuietAppend

\* Three events that say nothing was written.
LEMMA QuietThree ==
  ASSUME NEW d \in Events, NEW e \in Events, NEW f \in Events,
         d.operation # "artifact_written", e.operation # "artifact_written",
         f.operation # "artifact_written"
  PROVE  Quiet(<<d, e, f>>)
<1>1. <<d, e, f>> \in Seq(Events) /\ Len(<<d, e, f>>) = 3
  OBVIOUS
<1>2. QED
  BY <1>1 DEF Quiet

\* nor the projection.
LEMMA QuietProjected ==
  ASSUME NEW names, names \subseteq Name, IsFiniteSet(names)
  PROVE  Quiet(Projected(names))
<1> DEFINE g == [n \in names |-> Event("S6", "artifact_projected", n)]
           q == Listed(names)
           f == [k \in DOMAIN q |-> Event("S6", "artifact_projected", q[k])]
           r == <<Event("S6", "vocabulary_projected", NoSubject), Event("S6", "tokenized_projected", NoSubject),
                  Event("S6", "evidence_projected", NoSubject)>>
<1>1. \A n \in names : g[n] \in Events /\ g[n].operation # "artifact_written"
  <2>1. SUFFICES ASSUME NEW n \in names
                 PROVE  g[n] \in Events /\ g[n].operation # "artifact_written"
    OBVIOUS
  <2>2. g[n] = Event("S6", "artifact_projected", n) /\ n \in Name \union {NoSubject}
    OBVIOUS
  <2> HIDE DEF g
  <2>3. QED
    BY <2>2, EventIs DEF Operations
<1>2. DOMAIN g = names
  OBVIOUS
<1>3. Quiet([k \in DOMAIN q |-> g[q[k]]])
  <2> HIDE DEF g
  <2>1. QED
    BY <1>1, <1>2, QuietListed
<1>4. \A k \in DOMAIN q : q[k] \in names
  BY ListedWithin
<1> HIDE DEF q
<1>5. [k \in DOMAIN q |-> g[q[k]]] = f
  BY <1>4
<1>6. Quiet(f)
  BY <1>3, <1>5
<1>7. Quiet(r)
  <2>1. \A op \in {"vocabulary_projected", "tokenized_projected", "evidence_projected"} :
          Event("S6", op, NoSubject) \in Events /\ Event("S6", op, NoSubject).operation # "artifact_written"
    BY EventIs DEF Operations
  <2>2. QED
    BY <2>1, QuietThree
<1>8. Projected(names) = f \o r
  BY DEF Projected, q
<1> HIDE DEF f, r
<1>9. f \in Seq(Events)
  BY <1>6 DEF Quiet
<1>10. QED
  BY <1>6, <1>7, <1>8, <1>9, QuietJoin

-----------------------------------------------------------------------------
(* Each stage keeps a build sound.                                         *)

\* What the platform has on disk joins the graph under its own name.
LEMMA WithIs ==
  ASSUME DiskInv, NEW nodes, Named(nodes), NEW names, names \subseteq OnDisk(Platform),
         NEW role \in Roles
  PROVE  /\ DOMAIN With(nodes, names, role) = DOMAIN nodes \union names
         /\ \A n \in DOMAIN nodes : With(nodes, names, role)[n] = nodes[n]
         /\ \A n \in names \ DOMAIN nodes :
              With(nodes, names, role)[n] = [art |-> disk[Platform].canonical[n], role |-> role]
         /\ Named(With(nodes, names, role))
<1> DEFINE w == With(nodes, names, role)
           c == disk[Platform].canonical
<1>1. /\ DOMAIN w = DOMAIN nodes \union names
      /\ \A n \in DOMAIN nodes : w[n] = nodes[n]
      /\ \A n \in names \ DOMAIN nodes : w[n] = [art |-> c[n], role |-> role]
  BY DEF With
<1>2. Filed(c)
  BY DEF DiskInv, Structure
<1>3. OnDisk(Platform) = Held(c)
  BY DEF OnDisk, Held
<1> HIDE DEF w, c
<1>4. IsFiniteSet(DOMAIN w)
  <2>1. IsFiniteSet(names)
    BY <1>2, <1>3, FS_Subset DEF Filed
  <2>2. IsFiniteSet(DOMAIN nodes)
    BY DEF Named
  <2>3. IsFiniteSet(DOMAIN nodes \union names)
    BY ONLY <2>1, <2>2, FS_Union
  <2>4. QED
    BY <1>1, <2>3
<1>5. \A n \in names : n \in Name /\ c[n] \in Artifact /\ Says[c[n]].name = n
  BY <1>2, <1>3 DEF Filed, Held
<1>6. ASSUME NEW n \in DOMAIN w
      PROVE  n \in Name /\ w[n].art \in Artifact /\ Says[w[n].art].name = n /\ w[n].role \in Roles
  <2>1. CASE n \in DOMAIN nodes
    BY <1>1, <2>1 DEF Named
  <2>2. CASE n \notin DOMAIN nodes
    <3>1. n \in names \ DOMAIN nodes
      BY <1>1, <2>2
    <3>2. w[n].art = c[n] /\ w[n].role = role
      BY <1>1, <3>1
    <3>3. QED
      BY <1>5, <3>1, <3>2
  <2>3. QED
    BY <2>1, <2>2
<1>7. Named(w)
  BY <1>4, <1>6 DEF Named
<1>8. QED
  BY <1>1, <1>7 DEF w, c

\* A build that goes on with these nodes in this stage, and is otherwise what it was.
Continues(b, c, stage, nodes) ==
  /\ DOMAIN c = DOMAIN b
  /\ c.stage = stage /\ c.nodes = nodes
  /\ c.tree = b.tree /\ c.judged = b.judged /\ c.table = b.table /\ c.edges = b.edges
  /\ c.trace = b.trace /\ c.pending = b.pending /\ c.failed = b.failed /\ c.steady = b.steady

\* A build of which a stage and its nodes change, continues.
LEMMA ContinuesIs ==
  ASSUME NEW b, DOMAIN b = Fields, NEW stage, NEW nodes
  PROVE  Continues(b, [b EXCEPT !.stage = stage, !.nodes = nodes], stage, nodes)
BY DEF Continues, Fields

\* A sound build that takes what is on the platform's disk, in one of the first stages.
LEMMA TakesSound ==
  ASSUME DiskInv, NEW b, NEW d, Sound(b, d, sealed), b.stage \in {"carry", "import"},
         b.steady => Settled,
         NEW names, names \subseteq OnDisk(Platform) \ DOMAIN b.nodes, NEW role \in Roles,
         NEW c, NEW stage \in {"import", "resolve"},
         Continues(b, c, stage, With(b.nodes, names, role)),
         role # "native",
         role = "execution" => \A n \in names : Kind(disk[Platform].canonical[n]) \in {"CS", "CT"},
         stage = "import" => b.stage = "carry" /\ role = "execution",
         stage = "resolve" => b.stage = "import" /\ role = "governance" /\ names = Closure(b)
  PROVE  Sound(c, d, sealed)
<1> DEFINE w == With(b.nodes, names, role)
           disked == disk[Platform].canonical
<1>1. /\ DOMAIN c = DOMAIN b
      /\ c.stage = stage /\ c.nodes = w
      /\ c.tree = b.tree /\ c.judged = b.judged /\ c.table = b.table /\ c.edges = b.edges
      /\ c.trace = b.trace /\ c.pending = b.pending /\ c.failed = b.failed /\ c.steady = b.steady
  BY DEF Continues
<1>2. b.stage \notin Late /\ c.stage \notin Late /\ c.stage \in Stages
  BY <1>1 DEF Late, Stages
<1>3. Named(b.nodes)
  BY <1>2 DEF Sound, Governed, Whole
<1>4. /\ DOMAIN w = DOMAIN b.nodes \union names
      /\ \A n \in DOMAIN b.nodes : w[n] = b.nodes[n]
      /\ \A n \in names : w[n] = [art |-> disked[n], role |-> role]
      /\ Named(w)
  <2>1. names \subseteq OnDisk(Platform) /\ names \ DOMAIN b.nodes = names
    OBVIOUS
  <2>2. /\ DOMAIN w = DOMAIN b.nodes \union names
        /\ \A n \in DOMAIN b.nodes : w[n] = b.nodes[n]
        /\ \A n \in names \ DOMAIN b.nodes : w[n] = [art |-> disked[n], role |-> role]
        /\ Named(w)
    BY <1>3, <2>1, WithIs
  <2> HIDE DEF w, disked
  <2>3. QED
    BY <2>1, <2>2
<1> HIDE DEF w
<1>5. \A n \in DOMAIN w : \/ n \in DOMAIN b.nodes /\ w[n] = b.nodes[n]
                          \/ n \in names /\ w[n].art = disked[n] /\ w[n].role = role
  BY <1>4
<1>6. Formed(c)
  BY <1>1, <1>2 DEF Sound, Formed
<1>7. Authored(c)
  <2>1. Authored(b)
    BY DEF Sound
  <2> HIDE DEF disked
  <2>2. QED
    BY <1>1, <1>5, <2>1 DEF Authored, disked
<1>8. Joined(c)
  <2>1. Joined(b)
    BY DEF Sound
  <2>2. QED
    BY <1>1, <1>4, <2>1 DEF Joined
<1>9. Governed(c)
  <2>1. Governed(b)
    BY DEF Sound
  <2>2. Named(Whole(c))
    BY <1>1, <1>2, <1>4 DEF Whole
  <2>3. c.stage = "import" => \A n \in DOMAIN c.nodes : c.nodes[n].role # "governance"
    BY <1>1, <1>5, <2>1 DEF Governed
  <2>4. QED
    BY <1>1, <1>2, <2>2, <2>3 DEF Governed
<1>10. Located(c)
  BY <1>1, <1>2 DEF Located
<1>11. Witnessed(c, d)
  <2>1. Witnessed(b, d)
    BY DEF Sound
  <2>2. Wrote(c) = {} /\ c.pending = {}
    BY <1>1, <2>1 DEF Witnessed, Wrote, Early
  <2>3. QED
    BY <1>1, <1>2, <2>2 DEF Witnessed, Late
<1>12. ASSUME c.steady
       PROVE  FromOnePlatform(c, sealed)
  <2>1. FromOnePlatform(b, sealed) /\ sealed.canonical = disked
    BY <1>1, <1>12 DEF Sound, Settled
  <2>2. Whole(b) = b.nodes /\ Whole(c) = w
    BY <1>1, <1>2 DEF Whole
  <2>3. \A n \in DOMAIN w : w[n].role # "native" => sealed.canonical[n] = w[n].art
    <3> HIDE DEF disked
    <3>1. QED
      BY <1>5, <2>1, <2>2 DEF FromOnePlatform
  <2>4. ASSUME stage = "resolve"
        PROVE  DOMAIN w \ Retained(w) = {n \in Held(disked) \ Retained(w) : Governs(disked[n])}
    <3>1. \A n \in DOMAIN b.nodes : b.nodes[n].role # "governance"
      BY <2>4 DEF Sound, Governed
    <3>2. Retained(w) = DOMAIN b.nodes
      BY <1>4, <1>5, <2>4, <3>1 DEF Retained
    <3>3. names = {n \in Held(disked) \ DOMAIN b.nodes : Governs(disked[n])}
      BY <2>4 DEF Closure, OnDisk, Held
    <3> HIDE DEF disked
    <3>4. QED
      BY <1>4, <3>2, <3>3
  <2> HIDE DEF disked
  <2>5. QED
    BY <1>1, <2>1, <2>2, <2>3, <2>4 DEF FromOnePlatform
<1>13. QED
  BY <1>6, <1>7, <1>8, <1>9, <1>10, <1>11, <1>12 DEF Sound

\* S1: the capabilities a domain names are carried into a sound build.
LEMMA CarrySound ==
  ASSUME DiskInv, NEW b, NEW d, Sound(b, d, sealed), b.stage = "carry", b.steady => Settled
  PROVE  Sound([b EXCEPT !.stage = "import", !.nodes = With(b.nodes, Carried(b), "execution")], d, sealed)
<1>1. Carried(b) \subseteq OnDisk(Platform) \ DOMAIN b.nodes
  BY DEF Carried
<1>2. \A n \in Carried(b) : Kind(disk[Platform].canonical[n]) \in {"CS", "CT"}
  BY DEF Carried
<1>3. "execution" \in Roles
  BY DEF Roles
<1> DEFINE c == [b EXCEPT !.stage = "import", !.nodes = With(b.nodes, Carried(b), "execution")]
<1>4. Continues(b, c, "import", With(b.nodes, Carried(b), "execution"))
  BY ContinuesIs DEF Sound, Formed
<1> HIDE DEF c
<1>5. Sound(c, d, sealed)
  BY <1>1, <1>2, <1>3, <1>4, TakesSound
<1>6. QED
  BY <1>5 DEF c

\* S1: the governance of the platform is imported into a sound build.
LEMMA ImportSound ==
  ASSUME DiskInv, NEW b, NEW d, Sound(b, d, sealed), b.stage = "import", b.steady => Settled
  PROVE  Sound([b EXCEPT !.stage = "resolve", !.nodes = With(b.nodes, Closure(b), "governance")], d, sealed)
<1>1. Closure(b) \subseteq OnDisk(Platform) \ DOMAIN b.nodes
  BY DEF Closure
<1>2. "governance" \in Roles
  BY DEF Roles
<1> DEFINE c == [b EXCEPT !.stage = "resolve", !.nodes = With(b.nodes, Closure(b), "governance")]
<1>3. Continues(b, c, "resolve", With(b.nodes, Closure(b), "governance"))
  BY ContinuesIs DEF Sound, Formed
<1> HIDE DEF c
<1>4. Sound(c, d, sealed)
  BY <1>1, <1>2, <1>3, TakesSound
<1>5. QED
  BY <1>4 DEF c

\* The files a build parses are artifacts.
LEMMA ParsedIs ==
  ASSUME NEW t \in DOMAIN Trees
  PROVE  /\ InScope(Trees[t]) \in FilesOf(Artifact)
         /\ Parsed(Trees[t]) \in FilesOf(Artifact)
         /\ Contents(Parsed(Trees[t])) \subseteq
              {a \in Contents(Trees[t].files) :
                 \A b \in Boundary : a \in Candidates(Trees[t], b) => a \in Selected(Trees[t], b)}
<1> DEFINE r == Trees[t]
           S == {a \in Contents(r.files) : \A b \in Boundary : a \in Candidates(r, b) => a \in Selected(r, b)}
           T == {a \in Contents(r.files) : Says[a].status # "deprecated"}
<1>1. r.files \in FilesOf(Artifact)
  BY TreesAssumption DEF FilesOf
<1>2. InScope(r) = Among(r.files, S) /\ Parsed(r) = Among(InScope(r), T)
  BY DEF InScope, Parsed
<1>3. S \subseteq Contents(r.files)
  OBVIOUS
<1> HIDE DEF S, T, r
<1>4. InScope(r) \in FilesOf(Artifact) /\ Contents(InScope(r)) \subseteq S
  BY <1>1, <1>2, AmongIs DEF FilesOf
<1>5. Parsed(r) \in FilesOf(Artifact) /\ Contents(Parsed(r)) \subseteq S
  BY <1>2, <1>4, AmongIs DEF FilesOf
<1>6. QED
  BY <1>4, <1>5 DEF S, r

\* S1: a build begins sound.
LEMMA ExtractSound ==
  ASSUME NEW s \in Structure, NEW d, NEW t \in DOMAIN Trees, Arranged(Trees[t])
  PROVE  Sound([stage |-> IF s = Platform THEN "resolve" ELSE "carry", tree |-> t,
                nodes |-> NodesOf(Parsed(Trees[t])), judged |-> NoNodes, table |-> NoNodes,
                edges |-> ReferencesOf(Parsed(Trees[t])),
                trace |-> <<Event("S1", "discovery_complete", NoSubject)>> \o Created(Parsed(Trees[t])),
                pending |-> {}, failed |-> FALSE, steady |-> s \in Domain /\ Settled], d, sealed)
<1> DEFINE files == Parsed(Trees[t])
           trace == <<Event("S1", "discovery_complete", NoSubject)>> \o Created(files)
           stage == IF s = Platform THEN "resolve" ELSE "carry"
           steady == s \in Domain /\ Settled
           nodes == NodesOf(files)
           edges == ReferencesOf(files)
           c == [stage |-> stage, tree |-> t, nodes |-> nodes, judged |-> NoNodes, table |-> NoNodes,
                 edges |-> edges, trace |-> trace, pending |-> {}, failed |-> FALSE, steady |-> steady]
<1>1. files \in FilesOf(Artifact)
  BY ParsedIs
<1> HIDE DEF files
<1>2. /\ DOMAIN nodes = {Says[a].name : a \in Contents(files)}
      /\ Named(nodes)
      /\ \A n \in DOMAIN nodes : nodes[n].role = "native" /\ nodes[n].art \in Contents(files)
  BY <1>1, NodesOfIs
<1>3. /\ IsFiniteSet(edges)
      /\ \A e \in edges : DOMAIN e = {"from", "to", "kind"} /\ e.from \in DOMAIN nodes
  BY <1>1, <1>2, ReferencesOfIs
<1>4. Quiet(trace)
  <2> DEFINE e == Event("S1", "discovery_complete", NoSubject)
  <2>1. e \in Events /\ e.operation # "artifact_written"
    BY EventIs DEF Operations
  <2> HIDE DEF e
  <2>2. Quiet(<<e>>)
    BY <2>1, QuietOne
  <2>3. Quiet(Created(files))
    BY <1>1, QuietCreated
  <2>4. <<e>> \in Seq(Events)
    BY <2>2 DEF Quiet
  <2>5. Quiet(<<e>> \o Created(files))
    BY <2>2, <2>3, <2>4, QuietJoin
  <2>6. QED
    BY <2>5 DEF e
<1> HIDE DEF trace, nodes, edges
<1>5. stage \in {"resolve", "carry"} /\ steady \in BOOLEAN
  OBVIOUS
<1>6. steady => s \in Domain /\ Settled /\ stage = "carry"
  BY TreesAssumption
<1> HIDE DEF stage, steady
<1>7. /\ DOMAIN c = Fields
      /\ c.stage = stage /\ c.tree = t /\ c.nodes = nodes /\ c.edges = edges /\ c.trace = trace
      /\ c.pending = {} /\ c.failed = FALSE /\ c.steady = steady
  BY DEF Fields
<1> HIDE DEF c
<1>8. c.stage \notin Late /\ c.stage \in Stages /\ c.stage \notin {"import", "govern", "verify", "attest", "write"}
  BY <1>5, <1>7 DEF Late, Stages
<1>9. Whole(c) = nodes
  BY <1>7, <1>8 DEF Whole
<1>10. Formed(c)
  BY <1>4, <1>5, <1>7, <1>8 DEF Formed, Quiet
<1>11. Authored(c)
  BY <1>2, <1>7 DEF Authored, files
<1>12. Joined(c)
  BY <1>3, <1>5, <1>7 DEF Joined
<1>13. Governed(c)
  BY <1>2, <1>7, <1>8, <1>9 DEF Governed
<1>14. Located(c)
  BY <1>8 DEF Located
<1>15. Witnessed(c, d)
  <2>1. Wrote(c) = {}
    BY <1>4, <1>7, QuietNothing DEF Wrote
  <2>2. QED
    BY <1>7, <1>8, <2>1 DEF Witnessed
<1>16. ASSUME c.steady
       PROVE  FromOnePlatform(c, sealed)
  <2>1. c.stage = "carry"
    BY <1>6, <1>7, <1>16
  <2>2. QED
    BY <1>2, <1>9, <2>1 DEF FromOnePlatform
<1>17. Sound(c, d, sealed)
  BY <1>10, <1>11, <1>12, <1>13, <1>14, <1>15, <1>16 DEF Sound
<1>18. QED
  BY <1>17 DEF c, stage, steady, nodes, edges, trace, files

\* The edges that are typed are finitely many, between nodes.
LEMMA TypedEdgesIs ==
  ASSUME NEW nodes, NEW edges, IsFiniteSet(edges),
         \A e \in edges : DOMAIN e = {"from", "to", "kind"} /\ e.from \in DOMAIN nodes
  PROVE  /\ IsFiniteSet(TypedEdges(nodes, edges))
         /\ \A e \in TypedEdges(nodes, edges) :
              DOMAIN e = {"from", "to", "kind"} /\ e.from \in DOMAIN nodes /\ e.to \in DOMAIN nodes
<1> DEFINE inner == {f \in edges : f.to \in DOMAIN nodes}
           typed(e) == [e EXCEPT !.kind = EdgeKindOf(Kind(nodes[e.from].art), Kind(nodes[e.to].art))]
           g == [e \in inner |-> typed(e)]
<1>1. IsFiniteSet(inner)
  BY FS_Subset
<1>2. DOMAIN g = inner
  OBVIOUS
<1>3. IsFiniteSet({g[e] : e \in inner})
  <2> HIDE DEF g, inner
  <2>1. QED
    BY <1>1, <1>2, FiniteImage
<1>4. TypedEdges(nodes, edges) = {typed(e) : e \in inner}
  BY DEF TypedEdges
<1>5. {g[e] : e \in inner} = {typed(e) : e \in inner}
  <2> HIDE DEF typed
  <2>1. QED
    OBVIOUS
<1>6. \A e \in inner : /\ DOMAIN typed(e) = {"from", "to", "kind"}
                       /\ typed(e).from = e.from /\ typed(e).to = e.to
  OBVIOUS
<1> HIDE DEF typed, g
<1>7. QED
  BY <1>3, <1>4, <1>5, <1>6

\* What S2 and S3 make of a build.
Resolved(b) ==
  LET edges == TypedEdges(b.nodes, b.edges)
      typed == Listed({e \in edges : e.kind # "REFERENCES"})
  IN  [b EXCEPT
         !.stage = "govern", !.edges = edges, !.table = Allocated(b.nodes),
         !.trace = b.trace \o [k \in DOMAIN typed |-> Event("S2", "edge_typed", typed[k].from)]
                     \o <<Event("S3", "addresses_allocated", NoSubject)>>]

\* S2 and S3: the edges are typed between nodes, the addresses are those of the graph.
LEMMA ResolveSound ==
  ASSUME NEW b, NEW d, Sound(b, d, sealed), b.stage = "resolve"
  PROVE  Sound(Resolved(b), d, sealed)
<1> DEFINE edges == TypedEdges(b.nodes, b.edges)
           S == {e \in edges : e.kind # "REFERENCES"}
           typed == Listed(S)
           events == [k \in DOMAIN typed |-> Event("S2", "edge_typed", typed[k].from)]
           last == Event("S3", "addresses_allocated", NoSubject)
           trace == b.trace \o events \o <<last>>
           table == Allocated(b.nodes)
           c == [b EXCEPT !.stage = "govern", !.edges = edges, !.table = table, !.trace = trace]
<1>1. Resolved(b) = c
  BY DEF Resolved
<1>2. DOMAIN b = Fields /\ b.trace \in Seq(Events)
  BY DEF Sound, Formed
<1>3. Named(b.nodes) /\ Whole(b) = b.nodes
  BY DEF Sound, Governed, Whole, Late
<1>4. /\ IsFiniteSet(edges)
      /\ \A e \in edges : DOMAIN e = {"from", "to", "kind"} /\ e.from \in DOMAIN b.nodes /\ e.to \in DOMAIN b.nodes
  BY TypedEdgesIs DEF Sound, Joined
<1> HIDE DEF edges
<1>5. IsFiniteSet(S) /\ \A e \in S : e.from \in Name
  BY <1>3, <1>4, FS_Subset DEF Named
<1> HIDE DEF S
<1>6. Quiet(events)
  BY <1>5, QuietTyped
<1> HIDE DEF events
<1>7. last \in Events /\ last.operation # "artifact_written"
  BY EventIs DEF Operations
<1> HIDE DEF last
<1>8. /\ trace \in Seq(Events)
      /\ Subjects(trace, "artifact_written") = Subjects(b.trace, "artifact_written")
  <2> DEFINE q == b.trace \o events
  <2>1. q \in Seq(Events) /\ Subjects(q, "artifact_written") = Subjects(b.trace, "artifact_written")
    BY <1>2, <1>6, QuietJoin
  <2> HIDE DEF q
  <2>2. Quiet(<<last>>)
    BY <1>7, QuietOne
  <2>3. /\ q \o <<last>> \in Seq(Events)
        /\ Subjects(q \o <<last>>, "artifact_written") = Subjects(q, "artifact_written")
    BY <2>1, <2>2, QuietJoin
  <2>4. QED
    BY <2>1, <2>3 DEF q
<1> HIDE DEF trace, table
<1>9. /\ DOMAIN c = Fields
      /\ c.stage = "govern" /\ c.edges = edges /\ c.table = table /\ c.trace = trace
      /\ c.tree = b.tree /\ c.nodes = b.nodes /\ c.judged = b.judged /\ c.pending = b.pending
      /\ c.failed = b.failed /\ c.steady = b.steady
  BY <1>2 DEF Fields
<1> HIDE DEF c
<1>10. Whole(c) = b.nodes
  BY <1>9 DEF Whole, Late
<1>11. Formed(c)
  BY <1>8, <1>9 DEF Sound, Formed, Stages
<1>12. Authored(c)
  BY <1>9 DEF Sound, Authored
<1>13. Joined(c)
  BY <1>4, <1>9 DEF Joined
<1>14. Governed(c)
  BY <1>3, <1>9, <1>10 DEF Governed, Late
<1>15. Located(c)
  BY <1>9 DEF Located, Late, table
<1>16. Witnessed(c, d)
  <2>1. Wrote(b) = {} /\ b.pending = {}
    BY DEF Sound, Witnessed, Early
  <2>2. QED
    BY <1>8, <1>9, <2>1 DEF Witnessed, Wrote, Late
<1>17. c.steady => FromOnePlatform(c, sealed)
  BY <1>3, <1>9, <1>10 DEF Sound, FromOnePlatform
<1>18. Sound(c, d, sealed)
  BY <1>11, <1>12, <1>13, <1>14, <1>15, <1>16, <1>17 DEF Sound
<1>19. QED
  BY <1>1, <1>18

\* What S4 to S6 make of a build.
GovernedTo(b) ==
  LET kept == Retained(b.nodes)
  IN  [b EXCEPT
         !.stage = "write", !.pending = kept,
         !.nodes = Restrict(b.nodes, kept),
         !.judged = b.nodes,
         !.table = Strip(b.table, DOMAIN b.nodes \ kept),
         !.edges = {e \in b.edges : e.from \in kept /\ e.to \in kept},
         !.trace = Append(b.trace, Event("S4", "governance_complete", NoSubject))
                     \o Constructed(kept, b.nodes) \o Projected(kept)]

\* S4 to S6: every assertion has passed, and what was imported to judge is left out.
LEMMA GovernSound ==
  ASSUME NEW b, NEW d, Sound(b, d, sealed), b.stage = "govern",
         \A c \in Coverage(b.nodes) : c.status = "PASSED"
  PROVE  Sound(GovernedTo(b), d, sealed)
<1> DEFINE kept == Retained(b.nodes)
           event == Event("S4", "governance_complete", NoSubject)
           trace == Append(b.trace, event) \o Constructed(kept, b.nodes) \o Projected(kept)
           table == Strip(b.table, DOMAIN b.nodes \ kept)
           edges == {e \in b.edges : e.from \in kept /\ e.to \in kept}
           nodes == Restrict(b.nodes, kept)
           c == [b EXCEPT !.stage = "write", !.pending = kept, !.nodes = nodes, !.judged = b.nodes,
                          !.table = table, !.edges = edges, !.trace = trace]
<1>1. GovernedTo(b) = c
  BY DEF GovernedTo
<1>2. DOMAIN b = Fields /\ b.trace \in Seq(Events)
  BY DEF Sound, Formed
<1>3. Named(b.nodes) /\ Whole(b) = b.nodes
  BY DEF Sound, Governed, Whole, Late
<1>4. kept \subseteq DOMAIN b.nodes /\ kept \subseteq Name /\ IsFiniteSet(kept)
  <2>1. kept \subseteq DOMAIN b.nodes
    BY DEF Retained
  <2>2. IsFiniteSet(DOMAIN b.nodes) /\ DOMAIN b.nodes \subseteq Name
    BY <1>3 DEF Named
  <2> HIDE DEF kept
  <2>3. QED
    BY <2>1, <2>2, FS_Subset
<1>5. DOMAIN nodes = kept /\ \A n \in kept : nodes[n] = b.nodes[n]
  BY DEF Restrict
<1>6. b.table = Allocated(b.nodes)
  BY DEF Sound, Located
<1>7. event \in Events /\ event.operation # "artifact_written"
  BY EventIs DEF Operations
<1> HIDE DEF kept, event, nodes
<1>8. /\ trace \in Seq(Events)
      /\ Subjects(trace, "artifact_written") = Subjects(b.trace, "artifact_written")
  <2> DEFINE q == Append(b.trace, event)
             r == q \o Constructed(kept, b.nodes)
  <2>1. q \in Seq(Events) /\ Subjects(q, "artifact_written") = Subjects(b.trace, "artifact_written")
    BY <1>2, <1>7, QuietAppend
  <2>2. Quiet(Constructed(kept, b.nodes)) /\ Quiet(Projected(kept))
    BY <1>4, QuietConstructed, QuietProjected
  <2> HIDE DEF q
  <2>3. r \in Seq(Events) /\ Subjects(r, "artifact_written") = Subjects(q, "artifact_written")
    BY <2>1, <2>2, QuietJoin
  <2> HIDE DEF r
  <2>4. /\ r \o Projected(kept) \in Seq(Events)
        /\ Subjects(r \o Projected(kept), "artifact_written") = Subjects(r, "artifact_written")
    BY <2>2, <2>3, QuietJoin
  <2>5. QED
    BY <2>1, <2>3, <2>4 DEF q, r
<1>9. IsFiniteSet(edges)
  <2>1. IsFiniteSet(b.edges)
    BY DEF Sound, Joined
  <2>2. QED
    BY <2>1, FS_Subset
<1> HIDE DEF trace, table
<1>10. /\ DOMAIN c = Fields
       /\ c.stage = "write" /\ c.pending = kept /\ c.nodes = nodes /\ c.judged = b.nodes
       /\ c.table = table /\ c.edges = edges /\ c.trace = trace
       /\ c.tree = b.tree /\ c.failed = b.failed /\ c.steady = b.steady
  <2> HIDE DEF edges
  <2>1. QED
    BY <1>2 DEF Fields
<1> HIDE DEF c
<1>11. Whole(c) = b.nodes
  BY <1>10 DEF Whole, Late
<1>12. Formed(c)
  BY <1>8, <1>10 DEF Sound, Formed, Stages
<1>13. Authored(c)
  BY <1>4, <1>5, <1>10 DEF Sound, Authored
<1>14. Joined(c)
  <2>1. \A e \in edges : DOMAIN e = {"from", "to", "kind"} /\ e.from \in kept /\ e.to \in kept
    BY DEF Sound, Joined
  <2> HIDE DEF edges
  <2>2. QED
    BY <1>5, <1>9, <1>10, <2>1 DEF Joined
<1>15. Governed(c)
  BY <1>3, <1>5, <1>10, <1>11 DEF Governed, Late, kept
<1>16. Located(c)
  BY <1>5, <1>6, <1>10 DEF Located, Late, table
<1>17. Witnessed(c, d)
  <2>1. Wrote(b) = {}
    BY DEF Sound, Witnessed, Early
  <2>2. Wrote(c) = {}
    BY <1>8, <1>10, <2>1 DEF Wrote
  <2>3. QED
    BY <1>5, <1>10, <2>2 DEF Witnessed, Early
<1>18. c.steady => FromOnePlatform(c, sealed)
  BY <1>3, <1>10, <1>11 DEF Sound, FromOnePlatform
<1>19. Sound(c, d, sealed)
  BY <1>12, <1>13, <1>14, <1>15, <1>16, <1>17, <1>18 DEF Sound
<1>20. QED
  BY <1>1, <1>19

\* The first of some names is one of them.
LEMMA FirstIs ==
  ASSUME NEW names, names \subseteq Name, names # {}
  PROVE  First(names) \in names
<1> DEFINE places == {Order[n] : n \in names}
<1>1. \A n \in names : Order[n] \in Nat
  BY OrderAssumption, KindAssumption
<1>2. places \subseteq Nat /\ places # {}
  BY <1>1
<1> HIDE DEF places
<1>3. PICK x \in places : \A y \in places : x <= y
  BY <1>2, LeastElement
<1>4. \E n \in names : \A m \in names : Order[n] <= Order[m]
  BY <1>3 DEF places
<1>5. QED
  BY <1>4 DEF First

\* A build that is otherwise what it was, its stage, its trace, what is pending and its errors apart.
Proceeds(b, c) ==
  /\ DOMAIN c = DOMAIN b
  /\ c.tree = b.tree /\ c.nodes = b.nodes /\ c.judged = b.judged /\ c.table = b.table
  /\ c.edges = b.edges /\ c.steady = b.steady

\* From the writing on, what was compiled stays what it is.
LEMMA LateSound ==
  ASSUME NEW b, NEW c, NEW d, NEW e, NEW z, Sound(b, d, z), Proceeds(b, c),
         b.stage \in Late, c.stage \in Late, c.trace \in Seq(Events), c.failed \in BOOLEAN,
         Witnessed(c, e),
         c.steady /\ c.stage = "attest" =>
           \A n \in DOMAIN c.nodes : Says[c.nodes[n].art].refs \subseteq DOMAIN c.nodes \union z.vocabulary
  PROVE  Sound(c, e, z)
<1>1. /\ DOMAIN c = DOMAIN b
      /\ c.tree = b.tree /\ c.nodes = b.nodes /\ c.judged = b.judged /\ c.table = b.table
      /\ c.edges = b.edges /\ c.steady = b.steady
  BY DEF Proceeds
<1>2. Whole(c) = Whole(b)
  BY <1>1 DEF Whole
<1>3. b.stage \notin Early \union {"idle"} /\ c.stage \notin Early \union {"idle"} /\ c.stage \in Stages
  BY DEF Late, Early, Stages
<1>4. Formed(c)
  BY <1>1, <1>3 DEF Sound, Formed
<1>5. Authored(c)
  BY <1>1 DEF Sound, Authored
<1>6. Joined(c)
  BY <1>1, <1>3 DEF Sound, Joined, Early
<1>7. Governed(c)
  BY <1>1, <1>2, <1>3 DEF Sound, Governed, Early
<1>8. Located(c)
  BY <1>1, <1>3 DEF Sound, Located, Early
<1>9. c.steady => FromOnePlatform(c, z)
  BY <1>1, <1>2, <1>3 DEF Sound, FromOnePlatform, Early
<1>10. QED
  BY <1>4, <1>5, <1>6, <1>7, <1>8, <1>9 DEF Sound

\* A canonical file was written.
LEMMA WriteSound ==
  ASSUME NEW b, NEW c, NEW d, NEW e, Sound(b, d, sealed), b.stage = "write", NEW n \in b.pending,
         Filed(d.canonical), e.canonical = [d.canonical EXCEPT ![n] = b.nodes[n].art],
         Proceeds(b, c), c.stage = "write", c.pending = b.pending \ {n}, c.failed = b.failed,
         c.trace = Append(b.trace, Event("S7", "artifact_written", n))
  PROVE  Sound(c, e, sealed) /\ Filed(e.canonical)
<1>1. b.pending \subseteq DOMAIN b.nodes /\ DOMAIN b.nodes \subseteq DOMAIN Whole(b) /\ Named(Whole(b))
  BY DEF Sound, Witnessed, Governed, Whole, Late, Retained
<1>2. n \in DOMAIN b.nodes /\ b.nodes[n].art \in Artifact /\ Says[b.nodes[n].art].name = n /\ n \in Name
  BY <1>1 DEF Named, Sound, Governed, Whole, Late
<1>3. /\ c.trace \in Seq(Events)
      /\ Wrote(c) = Wrote(b) \union {n}
  <2>1. b.trace \in Seq(Events)
    BY DEF Sound, Formed
  <2>2. QED
    BY <1>2, <2>1, WrittenAppend DEF Wrote
<1>4. /\ e.canonical \in [Name -> Artifact \union {None}]
      /\ e.canonical[n] = b.nodes[n].art
      /\ \A m \in Name : m # n => e.canonical[m] = d.canonical[m]
  BY <1>2 DEF Filed
<1>5. Filed(e.canonical)
  <2>1. Held(e.canonical) = Held(d.canonical) \union {n}
    BY <1>2, <1>4, SaysAssumption DEF Held
  <2>2. IsFiniteSet(Held(e.canonical))
    BY <2>1, FS_AddElement DEF Filed
  <2>3. \A m \in Held(e.canonical) : Says[e.canonical[m]].name = m
    BY <1>2, <1>4, <2>1 DEF Filed, Held
  <2>4. QED
    BY <1>4, <2>2, <2>3 DEF Filed
<1>6. Witnessed(c, e)
  <2>1. Witnessed(b, d)
    BY DEF Sound
  <2>2. /\ b.pending \subseteq DOMAIN b.nodes
        /\ Wrote(b) \subseteq DOMAIN b.nodes
        /\ \A m \in Wrote(b) : d.canonical[m] = b.nodes[m].art
        /\ ~b.failed => DOMAIN b.nodes \ b.pending \subseteq Wrote(b)
    BY <2>1 DEF Witnessed, Late
  <2>3. DOMAIN b.nodes \subseteq Name
    BY <1>1 DEF Named
  <2>4. \A m \in Wrote(c) : e.canonical[m] = b.nodes[m].art
    BY <1>3, <1>4, <2>2, <2>3
  <2>5. c.nodes = b.nodes
    BY DEF Proceeds
  <2>6. QED
    BY <1>2, <1>3, <2>2, <2>4, <2>5 DEF Witnessed, Early
<1>7. b.failed \in BOOLEAN
  BY DEF Sound, Formed
<1>8. Sound(c, e, sealed)
  BY <1>3, <1>6, <1>7, LateSound DEF Late
<1>9. QED
  BY <1>5, <1>8

\* A canonical file was not written.
LEMMA UnwrittenSound ==
  ASSUME NEW b, NEW c, NEW d, Sound(b, d, sealed), b.stage = "write", NEW n \in b.pending,
         Proceeds(b, c), c.stage = "write", c.pending = b.pending \ {n}, c.failed = TRUE,
         c.trace = b.trace
  PROVE  Sound(c, d, sealed)
<1>1. b.trace \in Seq(Events) /\ Witnessed(b, d)
  BY DEF Sound, Formed
<1>2. Wrote(c) = Wrote(b)
  BY DEF Wrote
<1>3. c.nodes = b.nodes
  BY DEF Proceeds
<1>4. Witnessed(c, d)
  BY <1>1, <1>2, <1>3 DEF Witnessed, Early, Late
<1>5. QED
  BY <1>1, <1>4, LateSound DEF Late

\* The vocabulary was written after every artifact.
LEMMA ProjectSound ==
  ASSUME NEW b, NEW c, NEW d, NEW e, Sound(b, d, sealed), b.stage = "write", b.pending = {}, ~b.failed,
         e.canonical = d.canonical, e.vocabulary = DOMAIN b.nodes,
         Proceeds(b, c), c.stage = "verify", c.pending = b.pending, c.failed = b.failed,
         c.trace = b.trace \o <<Event("S7", "vocabulary_materialized", NoSubject),
                                Event("S7", "tokenized_materialized", NoSubject),
                                Event("S7", "evidence_materialized", NoSubject)>>
  PROVE  Sound(c, e, sealed)
<1>1. b.trace \in Seq(Events) /\ Witnessed(b, d) /\ b.failed \in BOOLEAN
  BY DEF Sound, Formed
<1> DEFINE r == <<Event("S7", "vocabulary_materialized", NoSubject),
                  Event("S7", "tokenized_materialized", NoSubject),
                  Event("S7", "evidence_materialized", NoSubject)>>
<1>2. Quiet(r)
  <2>1. \A op \in {"vocabulary_materialized", "tokenized_materialized", "evidence_materialized"} :
          Event("S7", op, NoSubject) \in Events /\ Event("S7", op, NoSubject).operation # "artifact_written"
    BY EventIs DEF Operations
  <2>2. QED
    BY <2>1, QuietThree
<1>3. c.trace = b.trace \o r
  OBVIOUS
<1> HIDE DEF r
<1>4. c.trace \in Seq(Events) /\ Wrote(c) = Wrote(b)
  BY <1>1, <1>2, <1>3, QuietJoin DEF Wrote
<1>5. c.nodes = b.nodes
  BY DEF Proceeds
<1>6. Wrote(b) = DOMAIN b.nodes /\ \A n \in Wrote(b) : d.canonical[n] = b.nodes[n].art
  BY <1>1 DEF Witnessed, Late
<1>7. Witnessed(c, e)
  BY <1>4, <1>5, <1>6 DEF Witnessed, Early
<1>8. QED
  BY <1>1, <1>4, <1>7, LateSound DEF Late

\* What was written has been verified.
LEMMA VerifySound ==
  ASSUME NEW b, NEW c, NEW d, Sound(b, d, sealed), b.stage = "verify",
         Held(d.canonical) = DOMAIN b.nodes,
         b.steady => \A n \in DOMAIN b.nodes :
                       Says[b.nodes[n].art].refs \subseteq DOMAIN b.nodes \union sealed.vocabulary,
         Proceeds(b, c), c.stage = "attest", c.pending = b.pending, c.failed = b.failed,
         c.trace = Append(b.trace, Event("S8", "verification_complete", NoSubject))
  PROVE  Sound(c, d, sealed)
<1>1. b.trace \in Seq(Events) /\ Witnessed(b, d) /\ b.failed \in BOOLEAN
  BY DEF Sound, Formed
<1> DEFINE e == Event("S8", "verification_complete", NoSubject)
<1>2. e \in Events /\ e.operation # "artifact_written"
  BY EventIs DEF Operations
<1>3. c.trace = Append(b.trace, e)
  OBVIOUS
<1> HIDE DEF e
<1>4. c.trace \in Seq(Events) /\ Wrote(c) = Wrote(b)
  BY <1>1, <1>2, <1>3, QuietAppend DEF Wrote
<1>5. c.nodes = b.nodes /\ c.steady = b.steady
  BY DEF Proceeds
<1>6. Witnessed(c, d)
  BY <1>1, <1>4, <1>5 DEF Witnessed, Early, Late
<1>7. QED
  BY <1>1, <1>4, <1>5, <1>6, LateSound DEF Late

-----------------------------------------------------------------------------
(* Each action keeps the invariant.                                        *)

\* A build that was sound over a surface is sound without it.
LEMMA Weakened ==
  ASSUME NEW b, NEW d, NEW z, NEW x, Sound(b, d, z)
  PROVE  /\ Sound([b EXCEPT !.steady = FALSE], d, x)
         /\ [b EXCEPT !.steady = FALSE].steady = FALSE
<1> DEFINE c == [b EXCEPT !.steady = FALSE]
<1>1. DOMAIN b = Fields
  BY DEF Sound, Formed
<1>2. /\ DOMAIN c = Fields /\ c.steady = FALSE
      /\ c.stage = b.stage /\ c.tree = b.tree /\ c.nodes = b.nodes /\ c.judged = b.judged
      /\ c.table = b.table /\ c.edges = b.edges /\ c.trace = b.trace /\ c.pending = b.pending
      /\ c.failed = b.failed
  BY <1>1 DEF Fields
<1> HIDE DEF c
<1>3. Whole(c) = Whole(b)
  BY <1>2 DEF Whole
<1>4. Formed(c) /\ Authored(c) /\ Joined(c)
  BY <1>2 DEF Sound, Formed, Authored, Joined
<1>5. Governed(c) /\ Located(c)
  BY <1>2, <1>3 DEF Sound, Governed, Located
<1>6. Witnessed(c, d)
  BY <1>2 DEF Sound, Witnessed, Wrote
<1>7. Sound(c, d, x)
  BY <1>2, <1>4, <1>5, <1>6 DEF Sound
<1>8. QED
  BY <1>2, <1>7 DEF c

\* A sound build is in a stage.
LEMMA StageOf ==
  ASSUME NEW b, NEW d, NEW z, Sound(b, d, z)
  PROVE  b.stage \in Stages /\ b.stage # "idle" /\ b # Idle /\ DOMAIN b = Fields
BY DEF Sound, Formed, Stages, Idle

\* What the builds are worth that go on: sound, and steady only over a settled surface.
Worth(c, s, e) ==
  c = Idle \/ (Sound(c, e, sealed) /\ (c.steady => s \in Domain /\ Settled))

\* One build goes on, and may leave another record of its structure on disk.
LEMMA Disturbed ==
  ASSUME DiskInv, SealedInv, BuildInv, NEW s \in Structure, NEW c, NEW e, NEW builds,
         DOMAIN builds = Structure, builds[s] = c, \A t \in Structure : t # s => builds[t] = build[t],
         DOMAIN disk' = Structure, disk'[s] = e, \A t \in Structure : t # s => disk'[t] = disk[t],
         build' = Disturb(builds, disk, disk'), sealed' = sealed,
         DOMAIN e = {"canonical", "vocabulary"}, Filed(e.canonical), Worth(c, s, e)
  PROVE  DiskInv' /\ SealedInv' /\ BuildInv'
<1>1. DiskInv'
  BY DEF DiskInv
<1>2. SealedInv'
  BY DEF SealedInv
<1>3. Platform \in Structure /\ Platform \notin Domain /\ Domain \subseteq Structure
  BY TreesAssumption DEF Structure
<1>4. \A t \in Structure : build[t] # Idle =>
        Sound(build[t], disk[t], sealed) /\ (build[t].steady => t \in Domain /\ Settled)
  BY DEF BuildInv
<1>5. BuildInv'
  <2>1. CASE disk[Platform] = disk'[Platform]
    <3>1. build' = builds
      BY <2>1 DEF Disturb
    <3>2. Settled' <=> Settled
      BY <2>1 DEF Settled
    <3>3. ASSUME NEW t \in Structure, build'[t] # Idle
          PROVE  Sound(build'[t], disk'[t], sealed') /\ (build'[t].steady => t \in Domain /\ Settled')
      <4>1. CASE t = s
        BY <3>1, <3>2, <3>3, <4>1 DEF Worth
      <4>2. CASE t # s
        BY <1>4, <3>1, <3>2, <3>3, <4>2
      <4>3. QED
        BY <4>1, <4>2
    <3>4. QED
      BY <3>1, <3>3 DEF BuildInv
  <2>2. CASE disk[Platform] # disk'[Platform]
    <3>1. s = Platform
      BY <1>3, <2>2
    <3>2. /\ DOMAIN build' = Structure
          /\ \A t \in Structure : build'[t] = IF t \in Domain /\ builds[t].stage # "idle"
                                              THEN [builds[t] EXCEPT !.steady = FALSE] ELSE builds[t]
      BY <2>2 DEF Disturb
    <3>3. ASSUME NEW t \in Structure, build'[t] # Idle
          PROVE  Sound(build'[t], disk'[t], sealed') /\ (build'[t].steady => t \in Domain /\ Settled')
      <4>1. CASE t = s
        <5>1. build'[t] = c
          BY <1>3, <3>1, <3>2, <4>1
        <5>2. Sound(c, e, sealed) /\ ~c.steady
          BY <1>3, <3>1, <3>3, <5>1 DEF Worth
        <5>3. QED
          BY <4>1, <5>1, <5>2
      <4>2. CASE t # s
        <5>1. t \in Domain /\ builds[t] = build[t] /\ disk'[t] = disk[t]
          BY <3>1, <4>2 DEF Structure
        <5>2. build[t] # Idle
          <6>1. SUFFICES ASSUME build[t] = Idle
                         PROVE  FALSE
            OBVIOUS
          <6>2. build[t].stage = "idle"
            BY <6>1 DEF Idle
          <6>3. QED
            BY <3>2, <3>3, <5>1, <6>1, <6>2
        <5>3. Sound(build[t], disk[t], sealed)
          BY <1>4, <5>2
        <5>4. build'[t] = [build[t] EXCEPT !.steady = FALSE]
          BY <3>2, <5>1, <5>3, StageOf
        <5>5. Sound(build'[t], disk'[t], sealed') /\ build'[t].steady = FALSE
          BY <5>1, <5>3, <5>4, Weakened
        <5>6. QED
          BY <5>5
      <4>3. QED
        BY <4>1, <4>2
    <3>4. QED
      BY <3>2, <3>3 DEF BuildInv
  <2>3. QED
    BY <2>1, <2>2
<1>6. QED
  BY <1>1, <1>2, <1>5

\* One build goes on and the disk stays what it is.
LEMMA Unrecorded ==
  ASSUME DiskInv, SealedInv, BuildInv, NEW s \in Structure, NEW c,
         build' = [build EXCEPT ![s] = c], UNCHANGED <<disk, sealed>>, Worth(c, s, disk[s])
  PROVE  DiskInv' /\ SealedInv' /\ BuildInv'
<1> DEFINE builds == [build EXCEPT ![s] = c]
           e == disk[s]
<1>1. /\ DOMAIN builds = Structure /\ builds[s] = c
      /\ \A t \in Structure : t # s => builds[t] = build[t]
  BY DEF BuildInv
<1>2. build' = Disturb(builds, disk, disk')
  BY DEF Disturb
<1>3. DOMAIN disk' = Structure /\ disk'[s] = e /\ \A t \in Structure : t # s => disk'[t] = disk[t]
  BY DEF DiskInv
<1>4. DOMAIN e = {"canonical", "vocabulary"} /\ Filed(e.canonical) /\ Worth(c, s, e) /\ sealed' = sealed
  BY DEF DiskInv
<1> HIDE DEF builds, e
<1>5. QED
  BY <1>1, <1>2, <1>3, <1>4, Disturbed

\* What holds of a build that is not idle.
LEMMA Running ==
  ASSUME BuildInv, NEW s \in Structure, build[s].stage # "idle"
  PROVE  /\ Sound(build[s], disk[s], sealed)
         /\ build[s].steady => s \in Domain /\ Settled
         /\ build[s].stage \in Stages
         /\ DOMAIN build[s] = Fields
<1>1. build[s] # Idle
  BY DEF Idle
<1>2. QED
  BY <1>1, StageOf DEF BuildInv

\* A refused build leaves nothing of itself in the invariant.
LEMMA RefuseKeeps ==
  ASSUME DiskInv, SealedInv, BuildInv, NEW s \in Structure, Refuse(s), UNCHANGED <<disk, sealed>>
  PROVE  DiskInv' /\ SealedInv' /\ BuildInv'
BY Unrecorded DEF Refuse, Worth

\* S1 begins a build.
LEMMA ExtractKeeps ==
  ASSUME IInv, NEW s \in Structure, Extract(s)
  PROVE  IInv'
<1>1. tree[s] \in DOMAIN Trees
  BY DEF IInv, TreeInv
<1> DEFINE c == [stage |-> IF s = Platform THEN "resolve" ELSE "carry", tree |-> tree[s],
                 nodes |-> NodesOf(Parsed(Trees[tree[s]])), judged |-> NoNodes, table |-> NoNodes,
                 edges |-> ReferencesOf(Parsed(Trees[tree[s]])),
                 trace |-> <<Event("S1", "discovery_complete", NoSubject)>> \o Created(Parsed(Trees[tree[s]])),
                 pending |-> {}, failed |-> FALSE, steady |-> s \in Domain /\ Settled]
<1>2. build' = [build EXCEPT ![s] = c] /\ Arranged(Trees[tree[s]]) /\ UNCHANGED <<tree, disk, sealed, left>>
  BY DEF Extract, Proceed
<1>3. c.steady = (s \in Domain /\ Settled)
  OBVIOUS
<1>4. Sound(c, disk[s], sealed)
  BY <1>1, <1>2, ExtractSound
<1> HIDE DEF c
<1>5. Worth(c, s, disk[s])
  BY <1>3, <1>4 DEF Worth
<1>6. DiskInv' /\ SealedInv' /\ BuildInv'
  BY <1>2, <1>5, Unrecorded DEF IInv
<1>7. TreeInv'
  BY <1>2 DEF IInv, TreeInv
<1>8. QED
  BY <1>6, <1>7 DEF IInv

\* S1 carries the capabilities a domain names.
LEMMA CarryKeeps ==
  ASSUME IInv, NEW s \in Structure, CarryCapabilities(s)
  PROVE  IInv'
<1> DEFINE b == build[s]
           c == [b EXCEPT !.stage = "import", !.nodes = With(b.nodes, Carried(b), "execution")]
<1>1. b.stage = "carry" /\ build' = [build EXCEPT ![s] = c] /\ UNCHANGED <<tree, disk, sealed, left>>
  BY DEF CarryCapabilities, Proceed
<1>2. Sound(b, disk[s], sealed) /\ (b.steady => s \in Domain /\ Settled) /\ DOMAIN b = Fields
  BY <1>1, Running DEF IInv
<1>3. c.steady = b.steady
  BY <1>2 DEF Fields
<1> HIDE DEF b
<1>4. Sound(c, disk[s], sealed)
  BY <1>1, <1>2, CarrySound DEF IInv
<1> HIDE DEF c
<1>5. DiskInv' /\ SealedInv' /\ BuildInv'
  BY <1>1, <1>2, <1>3, <1>4, Unrecorded DEF IInv, Worth
<1>6. QED
  BY <1>1, <1>5 DEF IInv, TreeInv

\* S1 imports the platform's governance.
LEMMA ImportKeeps ==
  ASSUME IInv, NEW s \in Structure, ImportGovernance(s)
  PROVE  IInv'
<1> DEFINE b == build[s]
           c == [b EXCEPT !.stage = "resolve", !.nodes = With(b.nodes, Closure(b), "governance")]
<1>1. b.stage = "import" /\ build' = [build EXCEPT ![s] = c] /\ UNCHANGED <<tree, disk, sealed, left>>
  BY DEF ImportGovernance, Proceed
<1>2. Sound(b, disk[s], sealed) /\ (b.steady => s \in Domain /\ Settled) /\ DOMAIN b = Fields
  BY <1>1, Running DEF IInv
<1>3. c.steady = b.steady
  BY <1>2 DEF Fields
<1> HIDE DEF b
<1>4. Sound(c, disk[s], sealed)
  BY <1>1, <1>2, ImportSound DEF IInv
<1> HIDE DEF c
<1>5. DiskInv' /\ SealedInv' /\ BuildInv'
  BY <1>1, <1>2, <1>3, <1>4, Unrecorded DEF IInv, Worth
<1>6. QED
  BY <1>1, <1>5 DEF IInv, TreeInv

\* A build of which nothing but its record changes leaves the rest of the invariant alone.
LEMMA TreesKeep ==
  ASSUME TreeInv, UNCHANGED tree, UNCHANGED left \/ Mishap
  PROVE  TreeInv'
<1>1. left' \in 0 .. Mishaps
  BY TreesAssumption DEF TreeInv, Mishap
<1>2. QED
  BY <1>1 DEF TreeInv

\* S2 and S3 resolve a build or refuse it.
LEMMA ResolveKeeps ==
  ASSUME IInv, NEW s \in Structure, Resolve(s)
  PROVE  IInv'
<1> DEFINE b == build[s]
           c == Resolved(b)
<1>1. b.stage = "resolve" /\ UNCHANGED <<tree, disk, sealed, left>>
  BY DEF Resolve
<1>2. build' = [build EXCEPT ![s] = c] \/ Refuse(s)
  BY DEF Resolve, Resolved, Proceed
<1>3. Sound(b, disk[s], sealed) /\ (b.steady => s \in Domain /\ Settled) /\ DOMAIN b = Fields
  BY <1>1, Running DEF IInv
<1>4. c.steady = b.steady
  BY <1>3 DEF Resolved, Fields
<1> HIDE DEF b
<1>5. Sound(c, disk[s], sealed)
  BY <1>1, <1>3, ResolveSound
<1> HIDE DEF c
<1>6. DiskInv' /\ SealedInv' /\ BuildInv'
  BY <1>1, <1>2, <1>3, <1>4, <1>5, Unrecorded, RefuseKeeps DEF IInv, Worth
<1>7. QED
  BY <1>1, <1>6 DEF IInv, TreeInv

\* S4 judges a build or refuses it.
LEMMA GovernKeeps ==
  ASSUME IInv, NEW s \in Structure, Govern(s)
  PROVE  IInv'
<1> DEFINE b == build[s]
           c == GovernedTo(b)
           ok == /\ SurfaceReadable(s)
                 /\ InForce(b.nodes) # {}
                 /\ \A x \in Coverage(b.nodes) : x.status = "PASSED"
<1>1. b.stage = "govern" /\ UNCHANGED <<tree, disk, sealed, left>>
  BY DEF Govern
<1>2. IF ok THEN build' = [build EXCEPT ![s] = c] ELSE Refuse(s)
  BY DEF Govern, GovernedTo, Proceed
<1>3. Sound(b, disk[s], sealed) /\ (b.steady => s \in Domain /\ Settled) /\ DOMAIN b = Fields
  BY <1>1, Running DEF IInv
<1>4. c.steady = b.steady
  BY <1>3 DEF GovernedTo, Fields
<1> HIDE DEF b
<1>5. ok => Sound(c, disk[s], sealed)
  BY <1>1, <1>3, GovernSound
<1> HIDE DEF c, ok
<1>6. DiskInv' /\ SealedInv' /\ BuildInv'
  <2>1. CASE ok
    BY <1>1, <1>2, <1>3, <1>4, <1>5, <2>1, Unrecorded DEF IInv, Worth
  <2>2. CASE ~ok
    BY <1>1, <1>2, <2>2, RefuseKeeps DEF IInv
  <2>3. QED
    BY <2>1, <2>2
<1>7. QED
  BY <1>1, <1>6 DEF IInv, TreeInv

\* S7 writes a file, or fails to.
LEMMA WriteArtifactKeeps ==
  ASSUME IInv, NEW s \in Structure, WriteArtifact(s)
  PROVE  IInv'
<1> DEFINE b == build[s]
           d == disk[s]
           n == First(b.pending)
           c(written) == [b EXCEPT !.pending = b.pending \ {n}, !.trace = Witness(b.trace, n, written),
                                   !.failed = b.failed \/ ~written]
           builds(written) == [build EXCEPT ![s] = c(written)]
           after(written) == IF written THEN [disk EXCEPT ![s].canonical[n] = b.nodes[n].art] ELSE disk
<1>1. b.stage = "write" /\ b.pending # {} /\ UNCHANGED <<tree, sealed>>
  BY DEF WriteArtifact
<1>2. PICK written \in BOOLEAN : /\ disk' = after(written)
                                 /\ build' = Disturb(builds(written), disk, disk')
                                 /\ IF written THEN UNCHANGED left ELSE Mishap
  BY DEF WriteArtifact
<1>3. Sound(b, d, sealed) /\ (b.steady => s \in Domain /\ Settled) /\ DOMAIN b = Fields
  BY <1>1, Running DEF IInv
<1>4. n \in b.pending
  <2>1. b.pending \subseteq DOMAIN b.nodes /\ DOMAIN b.nodes \subseteq DOMAIN b.judged /\ DOMAIN b.judged \subseteq Name
    BY <1>1, <1>3 DEF Sound, Witnessed, Governed, Whole, Late, Retained, Named
  <2>2. QED
    BY <1>1, <2>1, FirstIs
<1>5. /\ Proceeds(b, c(written)) /\ c(written).stage = b.stage
      /\ c(written).pending = b.pending \ {n}
      /\ c(written).trace = Witness(b.trace, n, written)
      /\ c(written).failed = (b.failed \/ ~written)
  <2> HIDE DEF b, n
  <2>1. QED
    BY <1>3 DEF Proceeds, Fields
<1>6. /\ DOMAIN builds(written) = Structure /\ builds(written)[s] = c(written)
      /\ \A t \in Structure : t # s => builds(written)[t] = build[t]
  <2> HIDE DEF c
  <2>1. QED
    BY DEF IInv, BuildInv
<1>7. /\ DOMAIN disk = Structure /\ DOMAIN d = {"canonical", "vocabulary"} /\ Filed(d.canonical)
  BY DEF IInv, DiskInv
<1>8. /\ DOMAIN disk' = Structure
      /\ \A t \in Structure : t # s => disk'[t] = disk[t]
      /\ DOMAIN disk'[s] = {"canonical", "vocabulary"}
      /\ written => disk'[s].canonical = [d.canonical EXCEPT ![n] = b.nodes[n].art]
      /\ ~written => disk'[s] = d
  <2> HIDE DEF builds, n
  <2>1. QED
    BY <1>2, <1>7
<1> DEFINE e == disk'[s]
<1> HIDE DEF b, n, c, builds, after
<1>9. /\ Sound(c(written), e, sealed)
      /\ Filed(e.canonical)
      /\ c(written).steady = b.steady
  <2>1. c(written).steady = b.steady
    BY <1>5 DEF Proceeds
  <2>2. b.failed \in BOOLEAN
    BY <1>3 DEF Sound, Formed
  <2>3. CASE written
    <3>1. c(written).trace = Append(b.trace, Event("S7", "artifact_written", n)) /\ c(written).failed = b.failed
      BY <1>5, <2>2, <2>3 DEF Witness
    <3>2. e.canonical = [d.canonical EXCEPT ![n] = b.nodes[n].art]
      BY <1>8, <2>3
    <3> HIDE DEF e, d
    <3>3. QED
      BY <1>1, <1>3, <1>4, <1>5, <1>7, <2>1, <3>1, <3>2, WriteSound
  <2>4. CASE ~written
    <3>1. c(written).trace = b.trace /\ c(written).failed = TRUE
      BY <1>5, <2>4 DEF Witness
    <3>2. e = d
      BY <1>8, <2>4
    <3> HIDE DEF e, d
    <3>3. QED
      BY <1>1, <1>3, <1>4, <1>5, <1>7, <2>1, <3>1, <3>2, UnwrittenSound
  <2>5. QED
    BY <2>3, <2>4
<1>10. Worth(c(written), s, e)
  BY <1>3, <1>9 DEF Worth
<1>11. DiskInv' /\ SealedInv' /\ BuildInv'
  <2> HIDE DEF d
  <2>1. /\ DOMAIN builds(written) = Structure /\ builds(written)[s] = c(written)
        /\ \A t \in Structure : t # s => builds(written)[t] = build[t]
        /\ DOMAIN disk' = Structure /\ disk'[s] = e /\ \A t \in Structure : t # s => disk'[t] = disk[t]
        /\ build' = Disturb(builds(written), disk, disk') /\ sealed' = sealed
        /\ DOMAIN e = {"canonical", "vocabulary"} /\ Filed(e.canonical) /\ Worth(c(written), s, e)
    BY <1>1, <1>2, <1>6, <1>8, <1>9, <1>10
  <2> HIDE DEF e
  <2>2. QED
    BY <2>1, Disturbed DEF IInv
<1>12. TreeInv'
  BY <1>1, <1>2, TreesKeep DEF IInv
<1>13. QED
  BY <1>11, <1>12 DEF IInv

\* S7 writes the vocabulary, or refuses the build.
LEMMA WriteProjectionsKeeps ==
  ASSUME IInv, NEW s \in Structure, WriteProjections(s)
  PROVE  IInv'
<1> DEFINE b == build[s]
           d == disk[s]
           c == [b EXCEPT !.stage = "verify",
                          !.trace = b.trace \o <<Event("S7", "vocabulary_materialized", NoSubject),
                                                 Event("S7", "tokenized_materialized", NoSubject),
                                                 Event("S7", "evidence_materialized", NoSubject)>>]
           next(written) == IF b.failed \/ ~written THEN Idle ELSE c
           builds(written) == [build EXCEPT ![s] = next(written)]
           after(written) == IF written THEN [disk EXCEPT ![s].vocabulary = DOMAIN b.nodes] ELSE disk
<1>1. b.stage = "write" /\ b.pending = {} /\ UNCHANGED <<tree, sealed>>
  BY DEF WriteProjections
<1>2. PICK written \in BOOLEAN : /\ disk' = after(written)
                                 /\ build' = Disturb(builds(written), disk, disk')
                                 /\ IF written THEN UNCHANGED left ELSE Mishap
  BY DEF WriteProjections
<1>3. Sound(b, d, sealed) /\ (b.steady => s \in Domain /\ Settled) /\ DOMAIN b = Fields
  BY <1>1, Running DEF IInv
<1>4. /\ Proceeds(b, c) /\ c.stage = "verify" /\ c.pending = b.pending /\ c.failed = b.failed
      /\ c.trace = b.trace \o <<Event("S7", "vocabulary_materialized", NoSubject),
                                Event("S7", "tokenized_materialized", NoSubject),
                                Event("S7", "evidence_materialized", NoSubject)>>
  <2> HIDE DEF b
  <2>1. QED
    BY <1>3 DEF Proceeds, Fields
<1>5. /\ DOMAIN builds(written) = Structure /\ builds(written)[s] = next(written)
      /\ \A t \in Structure : t # s => builds(written)[t] = build[t]
  <2> HIDE DEF next
  <2>1. QED
    BY DEF IInv, BuildInv
<1>6. DOMAIN disk = Structure /\ DOMAIN d = {"canonical", "vocabulary"} /\ Filed(d.canonical)
  BY DEF IInv, DiskInv
<1>7. /\ DOMAIN disk' = Structure
      /\ \A t \in Structure : t # s => disk'[t] = disk[t]
      /\ DOMAIN disk'[s] = {"canonical", "vocabulary"}
      /\ disk'[s].canonical = d.canonical
      /\ written => disk'[s].vocabulary = DOMAIN b.nodes
  <2> HIDE DEF builds
  <2>1. QED
    BY <1>2, <1>6
<1> DEFINE e == disk'[s]
<1> HIDE DEF b, c, builds, after
<1>8. Worth(next(written), s, e)
  <2>1. CASE b.failed \/ ~written
    BY <2>1 DEF Worth
  <2>2. CASE ~(b.failed \/ ~written)
    <3>1. e.canonical = d.canonical /\ e.vocabulary = DOMAIN b.nodes /\ ~b.failed
      BY <1>7, <2>2
    <3> HIDE DEF e, d
    <3>2. Sound(c, e, sealed)
      BY <1>1, <1>3, <1>4, <3>1, ProjectSound
    <3>3. c.steady = b.steady /\ next(written) = c
      BY <1>4, <2>2 DEF Proceeds
    <3>4. QED
      BY <1>3, <3>2, <3>3 DEF Worth
  <2>3. QED
    BY <2>1, <2>2
<1>9. DiskInv' /\ SealedInv' /\ BuildInv'
  <2> HIDE DEF d, next
  <2>1. /\ DOMAIN builds(written) = Structure /\ builds(written)[s] = next(written)
        /\ \A t \in Structure : t # s => builds(written)[t] = build[t]
        /\ DOMAIN disk' = Structure /\ disk'[s] = e /\ \A t \in Structure : t # s => disk'[t] = disk[t]
        /\ build' = Disturb(builds(written), disk, disk') /\ sealed' = sealed
        /\ DOMAIN e = {"canonical", "vocabulary"} /\ Filed(e.canonical) /\ Worth(next(written), s, e)
    BY <1>1, <1>2, <1>5, <1>6, <1>7, <1>8
  <2> HIDE DEF e
  <2>2. QED
    BY <2>1, Disturbed DEF IInv
<1>10. TreeInv'
  BY <1>1, <1>2, TreesKeep DEF IInv
<1>11. QED
  BY <1>9, <1>10 DEF IInv

\* S8 verifies a build or refuses it.
LEMMA VerifyKeeps ==
  ASSUME IInv, NEW s \in Structure, Verify(s)
  PROVE  IInv'
<1> DEFINE b == build[s]
           d == disk[s]
           c == [b EXCEPT !.stage = "attest", !.trace = Append(b.trace, Event("S8", "verification_complete", NoSubject))]
<1>1. b.stage = "verify" /\ UNCHANGED <<tree, disk, sealed, left>>
  BY DEF Verify
<1>2. IF Verified(s) THEN build' = [build EXCEPT ![s] = c] ELSE Refuse(s)
  BY DEF Verify, Proceed
<1>3. Sound(b, d, sealed) /\ (b.steady => s \in Domain /\ Settled) /\ DOMAIN b = Fields
  BY <1>1, Running DEF IInv
<1>4. /\ Proceeds(b, c) /\ c.stage = "attest" /\ c.pending = b.pending /\ c.failed = b.failed
      /\ c.trace = Append(b.trace, Event("S8", "verification_complete", NoSubject))
  <2> HIDE DEF b
  <2>1. QED
    BY <1>3 DEF Proceeds, Fields
<1> HIDE DEF c
<1>5. ASSUME Verified(s)
      PROVE  /\ Held(d.canonical) = DOMAIN b.nodes
             /\ b.steady => \A n \in DOMAIN b.nodes :
                              Says[b.nodes[n].art].refs \subseteq DOMAIN b.nodes \union sealed.vocabulary
  <2>1. OnDisk(s) = DOMAIN b.nodes
    BY <1>5 DEF Verified, NothingUndeclared
  <2>2. \A n \in DOMAIN b.nodes : Says[b.nodes[n].art].refs \subseteq DOMAIN b.nodes \union Imported(s)
    BY <1>5 DEF Verified, ReferencesClosed
  <2>3. b.steady => Imported(s) = sealed.vocabulary
    BY <1>3, TreesAssumption DEF Imported, Settled
  <2> HIDE DEF b
  <2>4. QED
    BY <2>1, <2>2, <2>3 DEF OnDisk, Held
<1>6. DiskInv' /\ SealedInv' /\ BuildInv'
  <2>1. CASE Verified(s)
    <3>1. /\ Held(d.canonical) = DOMAIN b.nodes
          /\ b.steady => \A n \in DOMAIN b.nodes :
                           Says[b.nodes[n].art].refs \subseteq DOMAIN b.nodes \union sealed.vocabulary
      BY <1>5, <2>1
    <3>2. build' = [build EXCEPT ![s] = c]
      BY <1>2, <2>1
    <3> HIDE DEF b, d
    <3>3. Sound(c, d, sealed) /\ c.steady = b.steady
      BY <1>1, <1>3, <1>4, <3>1, VerifySound DEF Proceeds
    <3>4. Worth(c, s, d)
      BY <1>3, <3>3 DEF Worth
    <3>5. QED
      BY <1>1, <3>2, <3>4, Unrecorded DEF IInv, d
  <2>2. CASE ~Verified(s)
    BY <1>1, <1>2, <2>2, RefuseKeeps DEF IInv
  <2>3. QED
    BY <2>1, <2>2
<1>7. QED
  BY <1>1, <1>6 DEF IInv, TreeInv

\* A build that takes the surface for nothing is sound over any.
LEMMA UnsteadySound ==
  ASSUME NEW b, NEW d, NEW z, NEW x, Sound(b, d, z), ~b.steady
  PROVE  Sound(b, d, x)
BY DEF Sound

\* S9 seals: over a platform, every steady domain is measured against the same surface as before.
LEMMA AttestKeeps ==
  ASSUME IInv, NEW s \in Structure, Attest(s)
  PROVE  IInv'
<1> DEFINE b == build[s]
           d == disk[s]
<1>1. /\ b.stage = "attest" /\ build' = [build EXCEPT ![s] = Idle] /\ UNCHANGED <<tree, disk, left>>
      /\ sealed' = IF s = Platform THEN d ELSE sealed
  BY DEF Attest, Refuse
<1>2. CASE s # Platform
  BY <1>1, <1>2, RefuseKeeps DEF Refuse, IInv, TreeInv
<1>3. CASE s = Platform
  <2>1. sealed' = disk[Platform] /\ Platform \in Structure
    BY <1>1, <1>3
  <2>2. Sound(b, d, sealed)
    BY <1>1, Running DEF IInv
  <2>3. SealedInv'
    <3>1. Filed(d.canonical)
      BY DEF IInv, DiskInv
    <3>2. d.vocabulary = Held(d.canonical)
      BY <1>1, <2>2 DEF Sound, Witnessed
    <3>3. QED
      BY <1>1, <1>3, <3>1, <3>2 DEF SealedInv
  <2>4. DiskInv'
    BY <1>1 DEF IInv, DiskInv
  <2>5. /\ DOMAIN build' = Structure /\ build'[s] = Idle
        /\ \A t \in Structure : t # s => build'[t] = build[t]
    BY <1>1 DEF IInv, BuildInv
  <2>6. ASSUME NEW t \in Structure, build'[t] # Idle
        PROVE  Sound(build'[t], disk'[t], sealed') /\ (build'[t].steady => t \in Domain /\ Settled')
    <3>1. t # s /\ build'[t] = build[t] /\ disk'[t] = disk[t]
      BY <1>1, <2>5, <2>6
    <3>2. Sound(build[t], disk[t], sealed) /\ (build[t].steady => t \in Domain /\ Settled)
      BY <2>6, <3>1 DEF IInv, BuildInv
    <3>3. CASE build[t].steady
      <4>1. sealed' = sealed /\ disk'[Platform] = sealed /\ sealed # None
        BY <1>1, <2>1, <3>2, <3>3 DEF Settled
      <4>2. QED
        BY <3>1, <3>2, <4>1 DEF Settled
    <3>4. CASE ~build[t].steady
      BY <3>1, <3>2, <3>4, UnsteadySound
    <3>5. QED
      BY <3>3, <3>4
  <2>7. BuildInv'
    BY <2>5, <2>6 DEF BuildInv
  <2>8. QED
    BY <1>1, <2>3, <2>4, <2>7 DEF IInv, TreeInv
<1>4. QED
  BY <1>2, <1>3

\* Sources are edited.
LEMMA EditKeeps ==
  ASSUME IInv, NEW s \in Structure, Edit(s)
  PROVE  IInv'
<1>1. PICK t \in TreesOf[s] : tree' = [tree EXCEPT ![s] = t]
  BY DEF Edit
<1>2. t \in DOMAIN Trees
  BY TreesAssumption
<1>3. TreeInv'
  BY <1>1, <1>2, TreesAssumption DEF IInv, TreeInv, Edit, Mishap
<1>4. UNCHANGED <<disk, build, sealed>>
  BY DEF Edit
<1>5. QED
  BY <1>3, <1>4 DEF IInv, DiskInv, SealedInv, BuildInv, Settled

\* A build's process dies.
LEMMA DieKeeps ==
  ASSUME IInv, NEW s \in Structure, Die(s)
  PROVE  IInv'
BY RefuseKeeps, TreesKeep DEF IInv, Die

\* Outputs are removed by hand.
LEMMA CleanKeeps ==
  ASSUME IInv, NEW s \in Structure, Clean(s)
  PROVE  IInv'
<1>1. /\ build[s].stage = "idle" /\ disk' = [disk EXCEPT ![s] = Empty] /\ build' = Disturb(build, disk, disk')
      /\ UNCHANGED <<tree, sealed, left>>
  BY DEF Clean
<1>2. build[s] = Idle
  <2>1. build[s] # Idle => build[s].stage # "idle"
    BY StageOf DEF IInv, BuildInv
  <2>2. QED
    BY <1>1, <2>1
<1>3. Empty.canonical \in [Name -> Artifact \union {None}] /\ Held(Empty.canonical) = {}
  BY DEF Empty, Held
<1>4. DOMAIN Empty = {"canonical", "vocabulary"} /\ Filed(Empty.canonical)
  BY <1>3, FS_EmptySet DEF Filed, Empty
<1>5. /\ DOMAIN build = Structure
      /\ DOMAIN disk' = Structure /\ disk'[s] = Empty /\ \A t \in Structure : t # s => disk'[t] = disk[t]
  BY <1>1 DEF IInv, BuildInv, DiskInv
<1>6. Worth(Idle, s, Empty)
  BY DEF Worth
<1>7. DiskInv' /\ SealedInv' /\ BuildInv'
  BY <1>1, <1>2, <1>4, <1>5, <1>6, Disturbed DEF IInv
<1>8. QED
  BY <1>1, <1>7 DEF IInv, TreeInv

\* The invariant holds before any build.
LEMMA IInvInit ==
  ASSUME Init
  PROVE  IInv
<1>1. TreeInv
  BY TreesAssumption DEF Init, TreeInv
<1>2. Empty.canonical \in [Name -> Artifact \union {None}] /\ Held(Empty.canonical) = {}
  BY DEF Empty, Held
<1>3. DOMAIN Empty = {"canonical", "vocabulary"} /\ Filed(Empty.canonical)
  BY <1>2, FS_EmptySet DEF Filed, Empty
<1>4. DiskInv
  BY <1>3 DEF Init, DiskInv
<1>5. SealedInv /\ BuildInv
  BY DEF Init, SealedInv, BuildInv
<1>6. QED
  BY <1>1, <1>4, <1>5 DEF IInv

\* Every step keeps it.
LEMMA IInvNext ==
  ASSUME IInv, [Next]_vars
  PROVE  IInv'
<1>1. CASE UNCHANGED vars
  BY <1>1 DEF IInv, TreeInv, DiskInv, SealedInv, BuildInv, Settled, vars
<1>2. ASSUME NEW s \in Structure, Extract(s) \/ Step(s) \/ Edit(s) \/ Die(s) \/ Clean(s)
      PROVE  IInv'
  <2>1. CASE Extract(s)
    BY <2>1, ExtractKeeps
  <2>2. CASE CarryCapabilities(s)
    BY <2>2, CarryKeeps
  <2>3. CASE ImportGovernance(s)
    BY <2>3, ImportKeeps
  <2>4. CASE Resolve(s)
    BY <2>4, ResolveKeeps
  <2>5. CASE Govern(s)
    BY <2>5, GovernKeeps
  <2>6. CASE WriteArtifact(s)
    BY <2>6, WriteArtifactKeeps
  <2>7. CASE WriteProjections(s)
    BY <2>7, WriteProjectionsKeeps
  <2>8. CASE Verify(s)
    BY <2>8, VerifyKeeps
  <2>9. CASE Attest(s)
    BY <2>9, AttestKeeps
  <2>10. CASE Edit(s)
    BY <2>10, EditKeeps
  <2>11. CASE Die(s)
    BY <2>11, DieKeeps
  <2>12. CASE Clean(s)
    BY <2>12, CleanKeeps
  <2>13. QED
    BY <1>2, <2>1, <2>2, <2>3, <2>4, <2>5, <2>6, <2>7, <2>8, <2>9, <2>10, <2>11, <2>12 DEF Step
<1>3. QED
  BY <1>1, <1>2 DEF Next

-----------------------------------------------------------------------------
(* What follows.                                                           *)

\* The invariant holds of every surface, however the builds interleave.
THEOREM SurfaceInvariant == Spec => []IInv
<1>1. Init => IInv
  BY IInvInit
<1>2. IInv /\ [Next]_vars => IInv'
  BY IInvNext
<1>3. QED
  BY <1>1, <1>2, PTL DEF Spec

\* What every attested build is, and the node it holds in the graph that was judged.
LEMMA AdmittedIs ==
  ASSUME IInv, NEW s \in Admitted
  PROVE  /\ s \in Structure
         /\ Sound(build[s], disk[s], sealed)
         /\ build[s].stage = "attest" /\ Whole(build[s]) = build[s].judged
         /\ Named(build[s].judged)
         /\ DOMAIN build[s].nodes = Retained(build[s].judged)
         /\ DOMAIN build[s].nodes \subseteq DOMAIN build[s].judged
         /\ \A n \in DOMAIN build[s].nodes : build[s].nodes[n] = build[s].judged[n]
<1>1. s \in Structure /\ build[s].stage = "attest"
  BY DEF Admitted
<1>2. Sound(build[s], disk[s], sealed)
  BY <1>1, Running DEF IInv
<1>3. Whole(build[s]) = build[s].judged
  BY <1>1 DEF Whole, Late
<1>4. Governed(build[s])
  BY <1>2 DEF Sound
<1>5. QED
  BY <1>1, <1>2, <1>3, <1>4 DEF Governed, Late, Retained

\* What an attested build over a settled surface took from it.
LEMMA SteadyIs ==
  ASSUME IInv, NEW s \in Admitted, build[s].steady
  PROVE  /\ FromOnePlatform(build[s], sealed)
         /\ Filed(sealed.canonical)
         /\ sealed.vocabulary = Held(sealed.canonical)
         /\ SealedNames = Held(sealed.canonical)
         /\ DOMAIN build[s].judged \ DOMAIN build[s].nodes =
              {n \in Held(sealed.canonical) \ DOMAIN build[s].nodes : Governs(sealed.canonical[n])}
         /\ \A n \in DOMAIN build[s].judged :
              build[s].judged[n].role # "native" => sealed.canonical[n] = build[s].judged[n].art
<1>1. FromOnePlatform(build[s], sealed)
  BY AdmittedIs DEF Sound
<1>2. sealed # None
  BY AdmittedIs, Running DEF IInv, Settled
<1>3. QED
  BY <1>1, <1>2, AdmittedIs DEF IInv, SealedInv, SealedNames, Held, FromOnePlatform

\* The nodes of a sound build bear names.
LEMMA NodesNamed ==
  ASSUME NEW b, NEW d, NEW z, Sound(b, d, z)
  PROVE  /\ DOMAIN b.nodes \subseteq Name
         /\ \A n \in DOMAIN b.nodes : b.nodes[n].art \in Artifact /\ b.nodes[n].role \in Roles
<1>1. Named(Whole(b)) /\ Governed(b)
  BY DEF Sound, Governed
<1>2. CASE b.stage \in Late
  <2>1. DOMAIN b.nodes \subseteq DOMAIN b.judged /\ \A n \in DOMAIN b.nodes : b.nodes[n] = b.judged[n]
    BY <1>1, <1>2 DEF Governed, Retained
  <2>2. QED
    BY <1>1, <1>2, <2>1 DEF Named, Whole
<1>3. CASE b.stage \notin Late
  BY <1>1, <1>3 DEF Named, Whole
<1>4. QED
  BY <1>2, <1>3

\* What a build holds has the shape the stages give it.
THEOREM SurfaceTypes == Spec => []TypeOK
<1>1. IInv => TypeOK
  <2>1. SUFFICES ASSUME IInv
                 PROVE  TypeOK
    OBVIOUS
  <2>2. ASSUME NEW s \in Structure, build[s] # Idle
        PROVE  /\ build[s].stage \in Stages
               /\ DOMAIN build[s].nodes \subseteq Name
               /\ \A n \in DOMAIN build[s].nodes :
                    /\ build[s].nodes[n].art \in Artifact
                    /\ build[s].nodes[n].role \in {"native", "execution", "governance"}
               /\ build[s].stage \notin {"carry", "import", "resolve"} =>
                    \A e \in build[s].edges : {e.from, e.to} \subseteq DOMAIN build[s].nodes
               /\ build[s].pending \subseteq DOMAIN build[s].nodes
               /\ {build[s].failed, build[s].steady} \subseteq BOOLEAN
    <3> DEFINE b == build[s]
    <3>1. Sound(b, disk[s], sealed)
      BY <2>1, <2>2 DEF IInv, BuildInv
    <3> HIDE DEF b
    <3>2. DOMAIN b.nodes \subseteq Name /\ \A n \in DOMAIN b.nodes : b.nodes[n].art \in Artifact /\ b.nodes[n].role \in Roles
      BY <3>1, NodesNamed
    <3>3. b.stage \in Stages /\ {b.failed, b.steady} \subseteq BOOLEAN
      BY <3>1 DEF Sound, Formed
    <3>4. b.stage \notin {"carry", "import", "resolve"} =>
            \A e \in b.edges : {e.from, e.to} \subseteq DOMAIN b.nodes
      BY <3>1 DEF Sound, Joined
    <3>5. b.pending \subseteq DOMAIN b.nodes
      BY <3>1 DEF Sound, Witnessed
    <3>6. QED
      BY <3>2, <3>3, <3>4, <3>5 DEF Roles, b
  <2>3. \A s \in Structure : disk[s].canonical \in [Name -> Artifact \union {None}]
    BY <2>1 DEF IInv, DiskInv, Filed
  <2>4. QED
    BY <2>1, <2>2, <2>3 DEF TypeOK, IInv, TreeInv
<1>2. QED
  BY <1>1, SurfaceInvariant, PTL

\* What a build has recorded as written is on disk, and an attested build recorded all it emits
\* (s7_materialize.py:76, evidence.py:547).
THEOREM SurfaceWitnessed == Spec => []WrittenIsWitnessed
<1>1. IInv => WrittenIsWitnessed
  <2>1. SUFFICES ASSUME IInv
                 PROVE  WrittenIsWitnessed
    OBVIOUS
  <2>2. ASSUME NEW s \in Structure, build[s].stage \in Late
        PROVE  /\ \A n \in Wrote(build[s]) : disk[s].canonical[n] = build[s].nodes[n].art
               /\ build[s].stage = "attest" => Wrote(build[s]) = DOMAIN build[s].nodes
    <3>1. Sound(build[s], disk[s], sealed)
      BY <2>1, <2>2, Running DEF IInv, Late
    <3>2. QED
      BY <2>2, <3>1 DEF Sound, Witnessed
  <2>3. \A s \in Structure : MaterializedOutputs(EvidenceGraphOf(build[s].trace)) = Wrote(build[s])
    BY DEF MaterializedOutputs, EvidenceGraphOf, Wrote
  <2>4. QED
    BY <2>2, <2>3 DEF WrittenIsWitnessed, Admitted, Late, Wrote
<1>2. QED
  BY <1>1, SurfaceInvariant, PTL

\* A rule in force of a graph whose every assertion passed, that forbids marks, finds none on it.
LEMMA RuleHolds ==
  ASSUME NEW nodes, \A c \in Coverage(nodes) : c.status = "PASSED",
         NEW m \in Derived(nodes), Says[nodes[m].art].check = "marks", NEW n \in DOMAIN nodes
  PROVE  Says[nodes[n].art].marks \intersect Says[nodes[m].art].forbids = {}
<1> DEFINE rule == Says[nodes[m].art]
           c == [rule |-> m, imported |-> nodes[m].role = "governance", status |-> Verdict(m, nodes)]
<1>1. c \in Coverage(nodes)
  BY DEF Coverage
<1>2. c.status = Verdict(m, nodes)
  OBVIOUS
<1> HIDE DEF c
<1>3. Verdict(m, nodes) = "PASSED"
  BY <1>1, <1>2
<1>4. Verdict(m, nodes) = IF Offenders(rule, nodes) = {} THEN "PASSED" ELSE "FAILED"
  BY DEF Verdict
<1> HIDE DEF rule
<1>5. Offenders(rule, nodes) = {}
  BY <1>3, <1>4
<1>6. QED
  BY <1>5 DEF Offenders, rule

\* Nothing an attested build emits bears what a rule over it forbids, the rule being its own or, over
\* a surface that stayed attested, in force on that platform (s4_govern.py:178, s1_extract.py:668).
THEOREM SurfaceJudged == Spec => []AdmittedWasJudged
<1>1. IInv => AdmittedWasJudged
  <2>1. SUFFICES ASSUME IInv, NEW s \in Admitted, NEW rule \in RulesOver(s), rule.check = "marks",
                        NEW n \in DOMAIN build[s].nodes
                 PROVE  Says[build[s].nodes[n].art].marks \intersect rule.forbids = {}
    BY DEF AdmittedWasJudged
  <2> DEFINE b == build[s]
             own == {m \in DOMAIN b.nodes :
                       /\ Says[b.nodes[m].art].kind = "INVARIANT"
                       /\ ~Says[b.nodes[m].art].elsewhere
                       /\ \A k \in DOMAIN b.judged : m \notin Says[b.judged[k].art].supersedes}
             taken == {m \in Binding \ DOMAIN b.nodes :
                         \A k \in DOMAIN b.nodes : m \notin Says[b.nodes[k].art].supersedes}
  <2>2. /\ Named(b.judged)
        /\ DOMAIN b.nodes = Retained(b.judged) /\ DOMAIN b.nodes \subseteq DOMAIN b.judged
        /\ \A k \in DOMAIN b.nodes : b.nodes[k] = b.judged[k]
        /\ \A c \in Coverage(b.judged) : c.status = "PASSED"
    BY <2>1, AdmittedIs DEF Sound, Governed, Late
  <2>3. \/ \E m \in own : rule = Says[b.nodes[m].art]
        \/ b.steady /\ \E m \in taken : rule = SealedSays(m)
    BY <2>1 DEF RulesOver
  <2>4. \E m \in Derived(b.judged) : rule = Says[b.judged[m].art]
    <3>1. ASSUME NEW m \in own
          PROVE  m \in Derived(b.judged) /\ b.nodes[m] = b.judged[m]
      <4> HIDE DEF b
      <4>1. QED
        BY <2>2 DEF Derived, InForce, Superseded, Kind
    <3>2. ASSUME b.steady, NEW m \in taken
          PROVE  m \in Derived(b.judged) /\ SealedSays(m) = Says[b.judged[m].art]
      <4>1. /\ SealedNames = Held(sealed.canonical)
            /\ DOMAIN b.judged \ DOMAIN b.nodes =
                 {j \in Held(sealed.canonical) \ DOMAIN b.nodes : Governs(sealed.canonical[j])}
            /\ \A j \in DOMAIN b.judged : b.judged[j].role # "native" => sealed.canonical[j] = b.judged[j].art
        BY <2>1, <3>2, SteadyIs
      <4> HIDE DEF b
      <4>2. /\ m \in SealedNames /\ m \notin DOMAIN b.nodes
            /\ SealedSays(m).kind = "INVARIANT" /\ ~SealedSays(m).elsewhere
            /\ Governs(sealed.canonical[m])
        BY <3>2 DEF Binding, Governs, SealedSays, Kind
      <4>3. m \in DOMAIN b.judged \ DOMAIN b.nodes
        BY <4>1, <4>2
      <4>4. \A j \in DOMAIN b.judged \ DOMAIN b.nodes : sealed.canonical[j] = b.judged[j].art
        <5>1. \A j \in DOMAIN b.judged \ DOMAIN b.nodes : b.judged[j].role = "governance"
          BY <2>2 DEF Retained
        <5>2. QED
          BY <4>1, <5>1
      <4>5. ASSUME NEW k \in DOMAIN b.judged
            PROVE  m \notin Says[b.judged[k].art].supersedes
        <5>1. CASE k \in DOMAIN b.nodes
          BY <2>2, <3>2, <5>1
        <5>2. CASE k \notin DOMAIN b.nodes
          <6>1. k \in SealedNames /\ SealedSays(k) = Says[b.judged[k].art]
            BY <4>1, <4>4, <5>2 DEF SealedSays
          <6>2. QED
            BY <3>2, <6>1 DEF Binding
        <5>3. QED
          BY <5>1, <5>2
      <4>6. SealedSays(m) = Says[b.judged[m].art]
        BY <4>3, <4>4 DEF SealedSays
      <4>7. QED
        BY <4>2, <4>3, <4>5, <4>6 DEF Derived, InForce, Superseded, Kind
    <3> HIDE DEF own, taken, b
    <3>3. QED
      BY <2>3, <3>1, <3>2
  <2>5. PICK m \in Derived(b.judged) : rule = Says[b.judged[m].art]
    BY <2>4
  <2>6. n \in DOMAIN b.judged /\ b.nodes[n] = b.judged[n]
    BY <2>1, <2>2
  <2>7. Says[b.judged[n].art].marks \intersect Says[b.judged[m].art].forbids = {}
    BY <2>1, <2>2, <2>5, <2>6, RuleHolds
  <2>8. QED
    BY <2>5, <2>6, <2>7
<1>2. QED
  BY <1>1, SurfaceInvariant, PTL

\* The governance of a platform as its builds seal it is what a domain's closure takes.
LEMMA GoverningIs == Governing = {n \in SealedNames : Governs(sealed.canonical[n])}
BY DEF Governing, Governs, SealedSays, Kind

\* What was judged over a surface that stayed attested: what is emitted, and that surface's governance.
LEMMA JudgedIs ==
  ASSUME IInv, NEW s \in Admitted, build[s].steady
  PROVE  /\ DOMAIN build[s].judged = DOMAIN build[s].nodes \union Governing
         /\ \A n \in DOMAIN build[s].judged :
              Says[build[s].judged[n].art] =
                IF n \in DOMAIN build[s].nodes THEN Says[build[s].nodes[n].art] ELSE SealedSays(n)
<1> DEFINE b == build[s]
<1>1. /\ DOMAIN b.nodes = Retained(b.judged) /\ DOMAIN b.nodes \subseteq DOMAIN b.judged
      /\ \A n \in DOMAIN b.nodes : b.nodes[n] = b.judged[n]
  BY AdmittedIs
<1>2. /\ SealedNames = Held(sealed.canonical)
      /\ DOMAIN b.judged \ DOMAIN b.nodes =
           {n \in Held(sealed.canonical) \ DOMAIN b.nodes : Governs(sealed.canonical[n])}
      /\ \A n \in DOMAIN b.judged : b.judged[n].role # "native" => sealed.canonical[n] = b.judged[n].art
  BY SteadyIs
<1> HIDE DEF b
<1>3. DOMAIN b.judged = DOMAIN b.nodes \union Governing
  BY <1>1, <1>2, GoverningIs
<1>4. ASSUME NEW n \in DOMAIN b.judged, n \notin DOMAIN b.nodes
      PROVE  Says[b.judged[n].art] = SealedSays(n)
  <2>1. b.judged[n].role = "governance"
    BY <1>1, <1>4 DEF Retained
  <2>2. sealed.canonical[n] = b.judged[n].art
    BY <1>2, <1>4, <2>1
  <2>3. QED
    BY <2>2 DEF SealedSays
<1>5. QED
  BY <1>1, <1>3, <1>4 DEF b

\* Over a surface that stayed attested, the rules that ran on a domain are those that nothing
\* withdraws of what it emits and the platform's governance taken together (s4_govern.py:203,
\* s8_verify.py:740).
THEOREM SurfaceInForceRan == Spec => []RanWhatIsInForce
<1>1. IInv => RanWhatIsInForce
  <2> SUFFICES ASSUME IInv, NEW s \in Admitted \intersect Domain, build[s].steady
               PROVE  LET nodes == build[s].nodes
                          says  == [n \in DOMAIN nodes \union Governing |->
                                      IF n \in DOMAIN nodes THEN Says[nodes[n].art] ELSE SealedSays(n)]
                      IN  {c.rule : c \in Coverage(build[s].judged)} =
                            {n \in DOMAIN says : /\ says[n].kind = "INVARIANT" /\ ~says[n].elsewhere
                                                 /\ \A m \in DOMAIN says : n \notin says[m].supersedes}
    BY DEF RanWhatIsInForce
  <2> DEFINE nodes  == build[s].nodes
             judged == build[s].judged
             says   == [n \in DOMAIN nodes \union Governing |->
                          IF n \in DOMAIN nodes THEN Says[nodes[n].art] ELSE SealedSays(n)]
  <2>1. /\ DOMAIN judged = DOMAIN nodes \union Governing
        /\ \A n \in DOMAIN judged :
             Says[judged[n].art] = IF n \in DOMAIN nodes THEN Says[nodes[n].art] ELSE SealedSays(n)
    BY JudgedIs
  <2>2. DOMAIN says = DOMAIN judged /\ \A n \in DOMAIN judged : Says[judged[n].art] = says[n]
    BY <2>1
  <2> HIDE DEF nodes, judged, says
  <2>3. {c.rule : c \in Coverage(judged)} = Derived(judged)
    <3> DEFINE cover(n) == [rule |-> n, imported |-> judged[n].role = "governance",
                            status |-> Verdict(n, judged)]
    <3>1. Coverage(judged) = {cover(n) : n \in Derived(judged)}
      BY DEF Coverage
    <3>2. \A n : cover(n).rule = n
      OBVIOUS
    <3> HIDE DEF cover
    <3>3. QED
      BY <3>1, <3>2
  <2>4. \A n \in DOMAIN judged :
          n \in Superseded({judged[m].art : m \in DOMAIN judged})
            <=> \E m \in DOMAIN judged : n \in says[m].supersedes
    BY <2>2 DEF Superseded
  <2>5. Derived(judged) = {n \in DOMAIN says : /\ says[n].kind = "INVARIANT" /\ ~says[n].elsewhere
                                               /\ \A m \in DOMAIN says : n \notin says[m].supersedes}
    BY <2>2, <2>4 DEF Derived, InForce, Kind
  <2>6. QED
    BY <2>3, <2>5 DEF nodes, judged, says
<1>2. QED
  BY <1>1, SurfaceInvariant, PTL

\* Over a surface that stayed attested, a domain carries that platform's capabilities, nothing else of
\* it, and refers to nothing that neither of them emits (s1_extract.py:584, s8_verify.py:513).
THEOREM SurfaceOnePlatform == Spec => []AdmittedAgainstOnePlatform
<1>1. IInv => AdmittedAgainstOnePlatform
  <2>1. SUFFICES ASSUME IInv, NEW s \in Admitted \intersect Domain, build[s].steady,
                        NEW n \in DOMAIN build[s].nodes
                 PROVE  /\ build[s].nodes[n].role # "native" =>
                             sealed.canonical[n] = build[s].nodes[n].art
                               /\ Says[build[s].nodes[n].art].kind \in {"CS", "CT"}
                        /\ Says[build[s].nodes[n].art].refs \subseteq DOMAIN build[s].nodes \union SealedNames
    BY DEF AdmittedAgainstOnePlatform
  <2> DEFINE b == build[s]
  <2>2. /\ Sound(b, disk[s], sealed)
        /\ b.stage = "attest"
        /\ DOMAIN b.nodes = Retained(b.judged) /\ n \in DOMAIN b.judged /\ b.nodes[n] = b.judged[n]
    BY <2>1, AdmittedIs
  <2>3. /\ FromOnePlatform(b, sealed)
        /\ sealed.vocabulary = Held(sealed.canonical) /\ SealedNames = Held(sealed.canonical)
        /\ b.judged[n].role # "native" => sealed.canonical[n] = b.judged[n].art
    BY <2>1, <2>2, SteadyIs
  <2> HIDE DEF b
  <2>4. ASSUME b.nodes[n].role # "native"
        PROVE  Kind(b.nodes[n].art) \in {"CS", "CT"}
    <3>1. b.nodes[n].role \in Roles
      BY <2>1, <2>2, NodesNamed DEF b
    <3>2. b.nodes[n].role # "governance"
      BY <2>1, <2>2 DEF Retained, b
    <3>3. b.nodes[n].role = "execution"
      BY <2>4, <3>1, <3>2 DEF Roles
    <3>4. QED
      BY <2>1, <2>2, <3>3 DEF Sound, Authored, b
  <2>5. Says[b.nodes[n].art].refs \subseteq DOMAIN b.nodes \union sealed.vocabulary
    BY <2>1, <2>2, <2>3 DEF FromOnePlatform, b
  <2>6. QED
    BY <2>2, <2>3, <2>4, <2>5 DEF Kind, b
<1>2. QED
  BY <1>1, SurfaceInvariant, PTL

\* The digest a domain's build binds moves with the platform's vocabularies and with its general rules
\* over what a domain instantiates, and with nothing else (s1_extract.py:271).
THEOREM SurfaceDigest == Spec => []ClosureTracksGovernance
<1>1. IInv => ClosureTracksGovernance
  <2>1. SUFFICES ASSUME IInv, NEW s \in Admitted \intersect Domain, build[s].steady
                 PROVE  Digest(build[s].judged) =
                          {<<n, sealed.canonical[n]>> : n \in Governing \ DOMAIN build[s].nodes}
    BY DEF ClosureTracksGovernance
  <2> DEFINE b == build[s]
             over == Governing \ DOMAIN b.nodes
             imported == {m \in DOMAIN b.judged : b.judged[m].role = "governance"}
  <2>2. DOMAIN b.nodes = Retained(b.judged)
    BY <2>1, AdmittedIs
  <2>3. /\ DOMAIN b.judged = DOMAIN b.nodes \union Governing
        /\ \A n \in DOMAIN b.judged : b.judged[n].role # "native" => sealed.canonical[n] = b.judged[n].art
    BY <2>1, JudgedIs, SteadyIs
  <2> HIDE DEF b
  <2>4. imported = over
    BY <2>2, <2>3 DEF Retained
  <2>5. \A n \in imported : b.judged[n].art = sealed.canonical[n]
    BY <2>3
  <2>6. Digest(b.judged) = {<<n, b.judged[n].art>> : n \in imported}
    BY DEF Digest
  <2> HIDE DEF imported
  <2>7. Digest(b.judged) = {<<n, sealed.canonical[n]>> : n \in over}
    BY <2>4, <2>5, <2>6
  <2>8. QED
    BY <2>7 DEF b
<1>2. QED
  BY <1>1, SurfaceInvariant, PTL

\* A set of one member has no second.
LEMMA AtMostOne ==
  ASSUME NEW S, NEW x, S \subseteq {x}
  PROVE  Cardinality(S) <= 1
<1>1. IsFiniteSet({x}) /\ Cardinality({x}) = 1
  BY FS_Singleton
<1>2. Cardinality(S) <= Cardinality({x})
  BY ONLY <1>1, S \subseteq {x}, FS_Subset
<1>3. QED
  BY <1>1, <1>2

\* A composition holds at most one arrangement of a boundary: the one of the mode its build named
\* that no arrangement of that boundary in its tree withdrew (s1_extract.py:529).
THEOREM SurfaceArranged == Spec => []OneArrangement
<1>1. IInv => OneArrangement
  <2>1. SUFFICES ASSUME IInv, NEW s \in Admitted, NEW b \in Boundary
                 PROVE  LET candidates == Arrangements(s, b)
                            withdrawn  == UNION {Says[a].supersedes : a \in candidates}
                        IN  /\ Cardinality(HeldOf(s, b)) <= 1
                            /\ \A n \in HeldOf(s, b) :
                                 /\ Says[build[s].nodes[n].art].mode = Trees[build[s].tree].selects[b]
                                 /\ \A a \in candidates :
                                      Says[a].mode = Trees[build[s].tree].selects[b] =>
                                        (Says[a].name = n <=> Says[a].name \notin withdrawn)
    BY DEF OneArrangement
  <2> DEFINE c == build[s]
             t == Trees[c.tree]
             held == {n \in DOMAIN c.nodes : /\ Says[c.nodes[n].art].kind = "STRUCTURE"
                                             /\ Says[c.nodes[n].art].boundary = b}
  <2>2. /\ Sound(c, disk[s], sealed)
        /\ DOMAIN c.nodes = Retained(c.judged) /\ Named(c.judged)
        /\ \A n \in DOMAIN c.nodes : n \in DOMAIN c.judged /\ c.nodes[n] = c.judged[n]
    BY <2>1, AdmittedIs
  <2> HIDE DEF c
  <2>3. /\ Authored(c) /\ c.tree \in DOMAIN Trees
    BY <2>2 DEF Sound, Formed
  <2>4. \A n \in DOMAIN c.nodes : Says[c.nodes[n].art].name = n
    BY <2>2 DEF Named
  <2>5. ASSUME NEW n \in held
        PROVE  c.nodes[n].art \in Selected(t, b) /\ c.nodes[n].art \in Candidates(t, b)
    <3>1. c.nodes[n].role = "native"
      <4>1. c.nodes[n].role \in Roles /\ c.nodes[n].role # "governance"
        BY <2>2, NodesNamed DEF Retained
      <4>2. c.nodes[n].role # "execution"
        BY <2>3 DEF Authored, Kind
      <4>3. QED
        BY <4>1, <4>2 DEF Roles
    <3>2. c.nodes[n].art \in Contents(Parsed(t))
      BY <2>3, <3>1 DEF Authored
    <3>3. /\ c.nodes[n].art \in Contents(t.files)
          /\ c.nodes[n].art \in Candidates(t, b) => c.nodes[n].art \in Selected(t, b)
      BY <2>1, <2>3, <3>2, ParsedIs
    <3>4. QED
      BY <3>3 DEF Candidates, Kind
  <2>6. ASSUME NEW n \in held
        PROVE  Cardinality(Selected(t, b)) = 1
    BY <2>3, <2>5 DEF Authored, Arranged
  <2>7. ASSUME NEW n \in held
        PROVE  Selected(t, b) = {c.nodes[n].art}
    <3>1. IsFiniteSet(Selected(t, b))
      <4>1. t.files \in FilesOf(Artifact)
        BY <2>3, TreesAssumption DEF FilesOf
      <4>2. IsFiniteSet(Contents(t.files))
        BY <4>1, ContentsFinite
      <4>3. Selected(t, b) \subseteq Contents(t.files)
        BY DEF Selected, Candidates
      <4>4. QED
        BY ONLY <4>2, <4>3, FS_Subset
    <3>2. PICK x : Selected(t, b) = {x}
      <4> DEFINE S == Selected(t, b)
      <4>1. IsFiniteSet(S) /\ Cardinality(S) = 1
        BY <2>6, <2>7, <3>1
      <4> HIDE DEF S
      <4>2. \E x : S = {x}
        BY ONLY <4>1, FS_Singleton
      <4>3. QED
        BY <4>2 DEF S
    <3>3. QED
      BY <2>5, <2>7, <3>2
  <2>8. Cardinality(held) <= 1
    <3>1. CASE held = {}
      <4>1. Cardinality(held) = 0
        BY <3>1, FS_EmptySet
      <4>2. QED
        BY <4>1
    <3>2. CASE held # {}
      <4>1. PICK n \in held : TRUE
        BY <3>2
      <4>2. \A m \in held : c.nodes[m].art = c.nodes[n].art
        BY <2>5, <2>7, <4>1
      <4>3. held \subseteq {n}
        BY <2>4, <4>1, <4>2
      <4> HIDE DEF held
      <4>4. QED
        BY <4>3, AtMostOne
    <3>3. QED
      BY <3>1, <3>2
  <2> DEFINE withdrawn == UNION {Says[a].supersedes : a \in Candidates(t, b)}
  <2>9. ASSUME NEW n \in held
        PROVE  /\ Says[c.nodes[n].art].mode = t.selects[b]
               /\ \A a \in Candidates(t, b) :
                    Says[a].mode = t.selects[b] => (Says[a].name = n <=> Says[a].name \notin withdrawn)
    <3>1. Selected(t, b) = {a \in Candidates(t, b) : /\ Says[a].name \notin withdrawn
                                                     /\ Says[a].mode = t.selects[b]}
      BY DEF Selected, Superseded
    <3> HIDE DEF withdrawn
    <3>2. c.nodes[n].art \in Selected(t, b) /\ Says[c.nodes[n].art].name = n
      BY <2>4, <2>5, <2>9
    <3>3. \A a \in Candidates(t, b) :
            Says[a].name \notin withdrawn /\ Says[a].mode = t.selects[b] => a = c.nodes[n].art
      BY <2>7, <2>9, <3>1
    <3>4. QED
      BY <3>1, <3>2, <3>3
  <2>10. Arrangements(s, b) = Candidates(t, b) /\ HeldOf(s, b) = held
    BY DEF Arrangements, HeldOf, Candidates, Kind, c
  <2>11. withdrawn = UNION {Says[a].supersedes : a \in Arrangements(s, b)}
    BY <2>10
  <2>12. \A n \in held : /\ Says[c.nodes[n].art].mode = t.selects[b]
                         /\ \A a \in Arrangements(s, b) :
                              Says[a].mode = t.selects[b] => (Says[a].name = n <=> Says[a].name \notin withdrawn)
    BY <2>9, <2>10
  <2> HIDE DEF withdrawn, held
  <2>13. QED
    BY <2>8, <2>10, <2>11, <2>12 DEF c
<1>2. QED
  BY <1>1, SurfaceInvariant, PTL

\* What is addressed of a graph are symbols, finitely many of each class.
LEMMA MembersPopulated ==
  ASSUME NEW nodes, Named(nodes)
  PROVE  Populated(Members(nodes)) /\ Members(nodes)["node"] = DOMAIN nodes
<1> DEFINE of(kind) == {m \in DOMAIN nodes : Kind(nodes[m].art) = kind}
           says(kind) == UNION {Says[nodes[n].art].outcomes : n \in of(kind)}
           m == Members(nodes)
<1>1. ASSUME NEW kind
      PROVE  says(kind) \subseteq Symbol /\ IsFiniteSet(says(kind))
  <2> DEFINE f == [n \in of(kind) |-> Says[nodes[n].art].outcomes]
  <2>1. \A n \in of(kind) : Says[nodes[n].art].outcomes \subseteq Symbol /\ IsFiniteSet(Says[nodes[n].art].outcomes)
    BY SaysAssumption DEF Named
  <2>2. IsFiniteSet(DOMAIN nodes) /\ of(kind) \subseteq DOMAIN nodes
    BY DEF Named
  <2>3. DOMAIN f = of(kind) /\ \A n \in of(kind) : f[n] = Says[nodes[n].art].outcomes
    OBVIOUS
  <2> HIDE DEF f, of
  <2>4. IsFiniteSet(of(kind))
    BY ONLY <2>2, FS_Subset
  <2>5. IsFiniteSet({f[n] : n \in of(kind)})
    BY <2>3, <2>4, FiniteImage
  <2>6. \A T \in {f[n] : n \in of(kind)} : IsFiniteSet(T)
    BY <2>1, <2>3
  <2>7. {f[n] : n \in of(kind)} = {Says[nodes[n].art].outcomes : n \in of(kind)}
    BY <2>3
  <2>8. IsFiniteSet(UNION {f[n] : n \in of(kind)})
    BY ONLY <2>5, <2>6, FS_UNION
  <2>9. QED
    BY <2>1, <2>7, <2>8
<1>2. DOMAIN nodes \subseteq Symbol /\ IsFiniteSet(DOMAIN nodes)
  BY KindAssumption DEF Named
<1>3. {Kind(a) : a \in Artifact} \subseteq Symbol /\ IsFiniteSet({Kind(a) : a \in Artifact})
  BY SaysAssumption, KindAssumption DEF Kind
<1>4. Class = {"node", "edge_kind", "node_kind", "outcome", "transition"}
  BY DEF Class, Classes
<1>5. /\ m = [c \in Class |-> m[c]]
      /\ m["node"] = DOMAIN nodes /\ m["edge_kind"] = EdgeKind /\ m["node_kind"] = {Kind(a) : a \in Artifact}
      /\ m["outcome"] = says("CC") /\ m["transition"] = says("WF")
  BY <1>4 DEF Members
<1> HIDE DEF m, says
<1>6. \A c \in Class : m[c] \subseteq Symbol /\ IsFiniteSet(m[c])
  <2>1. EdgeKind \subseteq Symbol /\ IsFiniteSet(EdgeKind)
    BY KindAssumption
  <2>2. /\ m["outcome"] \subseteq Symbol /\ IsFiniteSet(m["outcome"])
        /\ m["transition"] \subseteq Symbol /\ IsFiniteSet(m["transition"])
    BY <1>1, <1>5
  <2>3. \A c \in Class : c = "node" \/ c = "edge_kind" \/ c = "node_kind" \/ c = "outcome" \/ c = "transition"
    BY <1>4
  <2>4. QED
    BY <1>2, <1>3, <1>5, <2>1, <2>2, <2>3
<1>7. m \in [Class -> SUBSET Symbol]
  BY <1>5, <1>6
<1>8. QED
  BY <1>5, <1>6, <1>7 DEF Populated, m

\* The sealed vocabulary names what a structure emits and no imported rule, and gives each name back at
\* its address (addressing.py:50, s4_govern.py:80, vocabulary.py:47).
THEOREM SurfaceAddressed == Spec => []SealedNamesAreAddressed
<1>1. IInv => SealedNamesAreAddressed
  <2>1. SUFFICES ASSUME IInv, NEW s \in Admitted, Fits(Members(build[s].judged))
                 PROVE  /\ {n \in Name : NodeId(n) \in DOMAIN build[s].table} = DOMAIN build[s].nodes
                        /\ \A id \in DOMAIN build[s].table :
                             VocabularyOf(build[s].table).forward[build[s].table[id]] = id
    BY DEF SealedNamesAreAddressed
  <2> DEFINE b == build[s]
             members == Members(b.judged)
             drop == DOMAIN b.judged \ DOMAIN b.nodes
             table == Strip(Allocation(members), drop)
  <2>2. /\ Named(b.judged) /\ DOMAIN b.nodes \subseteq DOMAIN b.judged
        /\ b.table = table
    BY <2>1, AdmittedIs DEF Sound, Located, Late, Allocated
  <2>3. Populated(members) /\ members["node"] = DOMAIN b.judged
    BY <2>2, MembersPopulated
  <2> HIDE DEF b, members
  <2>4. /\ DOMAIN table = {i \in Identities(members) : ~(i[1] = "node" /\ i[2] \in drop)}
        /\ \A id \in DOMAIN table : table[id] = Allocation(members)[id]
    BY DEF Strip, Allocation
  <2>5. \A id \in DOMAIN table : ReverseOf(table)[table[id]] = id
    <3>1. \A id \in DOMAIN table : ReverseOf(table)[Allocation(members)[id]] = id
      BY <2>1, <2>3, StrippedAllocationInverts DEF b, members
    <3> HIDE DEF table
    <3>2. QED
      BY <2>4, <3>1
  <2>6. {n \in Name : NodeId(n) \in DOMAIN table} = DOMAIN b.nodes
    <3>1. "node" \in Class
      BY DEF Class, Classes
    <3>2. \A n \in Name : NodeId(n) \in Identities(members) <=> n \in DOMAIN b.judged
      BY <2>3, <3>1, KindAssumption DEF Identities, NodeId
    <3>3. \A n \in Name : NodeId(n)[1] = "node" /\ NodeId(n)[2] = n
      BY DEF NodeId
    <3>4. DOMAIN b.judged \subseteq Name
      BY <2>2 DEF Named
    <3> HIDE DEF table
    <3>5. QED
      BY <2>2, <2>4, <3>2, <3>3, <3>4
  <2> HIDE DEF table
  <2>7. QED
    BY <2>2, <2>5, <2>6 DEF b, VocabularyOf
<1>2. QED
  BY <1>1, SurfaceInvariant, PTL

-----------------------------------------------------------------------------
(* What the evidence tells: where each stage's events lie in the trace.    *)

\* The places of the events of some operations, and what those are about.
Where(trace, ops)    == {k \in Places(trace) : trace[k].operation \in ops}
Recorded(trace, ops) == {trace[k].subject : k \in Where(trace, ops)}

Follows == {<<"S1", "S2">>, <<"S1", "S3">>, <<"S2", "S3">>, <<"S3", "S4">>,
            <<"S4", "S5">>, <<"S5", "S6">>, <<"S6", "S7">>, <<"S7", "S8">>}

\* Each event is of the stage of the one before or of one that follows it, the last of one of these.
Chained(trace, stages) ==
  /\ trace \in Seq(Events) /\ Len(trace) > 0
  /\ trace[Len(trace)].stage \in stages
  /\ \A k \in 2 .. Len(trace) :
       trace[k].stage = trace[k - 1].stage \/ <<trace[k - 1].stage, trace[k].stage>> \in Follows

\* Events of one stage, each of one of these operations.
Flat(events, stage, ops) ==
  /\ events \in Seq(Events)
  /\ \A k \in 1 .. Len(events) : events[k].stage = stage /\ events[k].operation \in ops

\* Places of what is recorded after a trace.
After(q, places) == {Len(q) + k : k \in places}

\* What one stage records after another's comes after it in the trace.
LEMMA WhereJoin ==
  ASSUME NEW q \in Seq(Events), NEW r \in Seq(Events), NEW ops
  PROVE  /\ Where(q \o r, ops) = Where(q, ops) \union After(q, Where(r, ops))
         /\ Recorded(q \o r, ops) = Recorded(q, ops) \union Recorded(r, ops)
<1> DEFINE j == q \o r
           moved == {Len(q) + k : k \in Where(r, ops)}
<1>1. /\ Len(j) = Len(q) + Len(r)
      /\ \A k \in 1 .. Len(j) : j[k] = IF k <= Len(q) THEN q[k] ELSE r[k - Len(q)]
  BY ConcatProperties
<1>2. Len(q) \in Nat /\ Len(r) \in Nat
  OBVIOUS
<1> HIDE DEF j
<1>3. \A k \in 1 .. Len(q) : k \in 1 .. Len(j) /\ j[k] = q[k]
  BY <1>1, <1>2
<1>4. \A k \in 1 .. Len(r) : Len(q) + k \in 1 .. Len(j) /\ j[Len(q) + k] = r[k]
  BY <1>1, <1>2
<1>5. ASSUME NEW k \in 1 .. Len(j)
      PROVE  k \in 1 .. Len(q) \/ \E i \in 1 .. Len(r) : k = Len(q) + i
  <2>1. CASE k <= Len(q)
    BY <1>1, <1>2, <2>1
  <2>2. CASE ~(k <= Len(q))
    <3>1. k - Len(q) \in 1 .. Len(r) /\ k = Len(q) + (k - Len(q))
      BY <1>1, <1>2, <2>2
    <3>2. QED
      BY <3>1
  <2>3. QED
    BY <2>1, <2>2
<1>6. Where(j, ops) = Where(q, ops) \union moved
  <2>1. \A k \in Where(q, ops) : k \in Where(j, ops)
    BY <1>3 DEF Where, Places
  <2>2. \A k \in Where(r, ops) : Len(q) + k \in Where(j, ops)
    BY <1>4 DEF Where, Places
  <2>3. \A k \in Where(j, ops) : k \in Where(q, ops) \/ \E i \in Where(r, ops) : k = Len(q) + i
    <3>1. SUFFICES ASSUME NEW k \in Where(j, ops)
                   PROVE  k \in Where(q, ops) \/ \E i \in Where(r, ops) : k = Len(q) + i
      OBVIOUS
    <3>2. k \in 1 .. Len(j) /\ j[k].operation \in ops
      BY DEF Where, Places
    <3>3. CASE k \in 1 .. Len(q)
      BY <1>3, <3>2, <3>3 DEF Where, Places
    <3>4. CASE \E i \in 1 .. Len(r) : k = Len(q) + i
      <4>1. PICK i \in 1 .. Len(r) : k = Len(q) + i
        BY <3>4
      <4>2. i \in Where(r, ops)
        BY <1>4, <3>2, <4>1 DEF Where, Places
      <4>3. QED
        BY <4>1, <4>2
    <3>5. QED
      BY <1>5, <3>2, <3>3, <3>4
  <2>4. QED
    BY <2>1, <2>2, <2>3
<1>7. \A k \in Where(q, ops) : j[k] = q[k]
  BY <1>3 DEF Where, Places
<1>8. \A k \in Where(r, ops) : j[Len(q) + k] = r[k]
  BY <1>4 DEF Where, Places
<1>9. Recorded(j, ops) = Recorded(q, ops) \union Recorded(r, ops)
  BY <1>6, <1>7, <1>8 DEF Recorded
<1>10. QED
  BY <1>6, <1>9 DEF j, After

\* The places of a trace.
LEMMA WhereIs ==
  ASSUME NEW q \in Seq(Events), NEW ops
  PROVE  /\ Where(q, ops) \subseteq 1 .. Len(q)
         /\ Len(q) \in Nat
         /\ Where(q, ops) = {} => Recorded(q, ops) = {}
BY DEF Where, Places, Recorded

\* Events of other operations are nowhere.
LEMMA WhereNot ==
  ASSUME NEW r, NEW stage, NEW those, Flat(r, stage, those), NEW ops, ops \intersect those = {}
  PROVE  Where(r, ops) = {} /\ Recorded(r, ops) = {}
BY DEF Flat, Where, Places, Recorded

\* Events of other operations leave these where they are.
LEMMA WhereStays ==
  ASSUME NEW q \in Seq(Events), NEW r, NEW stage, NEW those, Flat(r, stage, those),
         NEW ops, ops \intersect those = {}
  PROVE  Where(q \o r, ops) = Where(q, ops) /\ Recorded(q \o r, ops) = Recorded(q, ops)
<1>1. r \in Seq(Events)
  BY DEF Flat
<1>2. Where(r, ops) = {} /\ Recorded(r, ops) = {}
  BY WhereNot
<1>3. After(q, Where(r, ops)) = {}
  BY <1>2 DEF After
<1>4. Where(q \o r, ops) = Where(q, ops) \union After(q, Where(r, ops))
  BY <1>1, WhereJoin
<1>5. Recorded(q \o r, ops) = Recorded(q, ops) \union Recorded(r, ops)
  BY <1>1, WhereJoin
<1>6. QED
  BY <1>2, <1>3, <1>4, <1>5

\* A stage's events continue the chain when the stage is the last one's or follows it.
LEMMA ChainJoin ==
  ASSUME NEW q, NEW stages, Chained(q, stages), NEW r, NEW stage, NEW those, Flat(r, stage, those),
         \A x \in stages : x = stage \/ <<x, stage>> \in Follows
  PROVE  /\ q \o r \in Seq(Events)
         /\ Chained(q \o r, stages \union {stage})
         /\ r # <<>> => Chained(q \o r, {stage})
<1> DEFINE j == q \o r
<1>1. /\ q \in Seq(Events) /\ Len(q) \in Nat /\ Len(q) > 0
      /\ r \in Seq(Events) /\ Len(r) \in Nat
      /\ \A k \in 1 .. Len(r) : r[k].stage = stage
  BY DEF Chained, Flat
<1>2. /\ j \in Seq(Events)
      /\ Len(j) = Len(q) + Len(r)
      /\ \A k \in 1 .. Len(j) : j[k] = IF k <= Len(q) THEN q[k] ELSE r[k - Len(q)]
  BY <1>1, ConcatProperties
<1> HIDE DEF j
<1>3. \A k \in 1 .. Len(q) : k \in 1 .. Len(j) /\ j[k] = q[k]
  BY <1>1, <1>2
<1>4. ASSUME NEW k \in 1 .. Len(j), k > Len(q)
      PROVE  j[k].stage = stage
  <2>1. k - Len(q) \in 1 .. Len(r) /\ ~(k <= Len(q))
    BY <1>1, <1>2, <1>4
  <2>2. j[k] = r[k - Len(q)]
    BY <1>2, <2>1
  <2>3. QED
    BY <1>1, <2>1, <2>2
<1>5. q[Len(q)].stage \in stages
  BY DEF Chained
<1>6. ASSUME NEW k \in 2 .. Len(j)
      PROVE  j[k].stage = j[k - 1].stage \/ <<j[k - 1].stage, j[k].stage>> \in Follows
  <2>1. k \in 1 .. Len(j) /\ k - 1 \in 1 .. Len(j)
    BY <1>1, <1>2
  <2>2. CASE k <= Len(q)
    <3>1. k \in 2 .. Len(q) /\ j[k] = q[k] /\ j[k - 1] = q[k - 1]
      BY <1>1, <1>3, <2>2
    <3>2. QED
      BY <3>1 DEF Chained
  <2>3. CASE k = Len(q) + 1
    <3>1. j[k - 1] = q[Len(q)] /\ j[k].stage = stage
      BY <1>1, <1>3, <1>4, <2>1, <2>3
    <3>2. QED
      BY <1>5, <3>1
  <2>4. CASE k > Len(q) + 1
    <3>1. k - 1 > Len(q) /\ k > Len(q)
      BY <1>1, <2>4
    <3>2. j[k].stage = stage /\ j[k - 1].stage = stage
      BY <1>4, <2>1, <3>1
    <3>3. QED
      BY <3>2
  <2>5. QED
    BY <1>1, <2>2, <2>3, <2>4
<1>7. Len(j) > 0 /\ Len(j) \in 1 .. Len(j)
  BY <1>1, <1>2
<1>8. Len(r) > 0 => j[Len(j)].stage = stage
  BY <1>1, <1>2, <1>4, <1>7
<1>9. Len(r) = 0 => j[Len(j)].stage \in stages
  BY <1>1, <1>2, <1>3, <1>5
<1>10. r # <<>> => Len(r) > 0
  BY <1>1
<1>11. Chained(j, stages \union {stage}) /\ (r # <<>> => Chained(j, {stage}))
  BY <1>1, <1>2, <1>6, <1>7, <1>8, <1>9, <1>10 DEF Chained
<1>12. QED
  BY <1>2, <1>11 DEF j

\* One event.
LEMMA FlatOne ==
  ASSUME NEW stage \in {"S1", "S2", "S3", "S4", "S5", "S6", "S7", "S8"}, NEW operation \in Operations,
         NEW n \in Name \union {NoSubject}
  PROVE  /\ Event(stage, operation, n) \in Events
         /\ Flat(<<Event(stage, operation, n)>>, stage, {operation})
         /\ <<Event(stage, operation, n)>> # <<>>
         /\ Len(<<Event(stage, operation, n)>>) = 1
         /\ <<Event(stage, operation, n)>>[1] = Event(stage, operation, n)
<1> DEFINE e == Event(stage, operation, n)
<1>1. e \in Events /\ e.stage = stage /\ e.operation = operation
  BY DEF Event, Events
<1> HIDE DEF e
<1>2. <<e>> \in Seq(Events) /\ Len(<<e>>) = 1 /\ <<e>>[1] = e /\ <<e>> # <<>>
  BY <1>1
<1>3. Flat(<<e>>, stage, {operation})
  BY <1>1, <1>2 DEF Flat
<1>4. QED
  BY <1>1, <1>2, <1>3 DEF e

\* One event at the end.
LEMMA AppendIsJoin ==
  ASSUME NEW q \in Seq(Events), NEW e \in Events
  PROVE  Append(q, e) = q \o <<e>> /\ <<e>> \in Seq(Events)
OBVIOUS

\* Events of one operation after another of the same stage.
LEMMA FlatJoin ==
  ASSUME NEW q, NEW r, NEW stage, NEW ops, NEW those, Flat(q, stage, ops), Flat(r, stage, those)
  PROVE  Flat(q \o r, stage, ops \union those) /\ (r # <<>> => q \o r # <<>>)
<1> DEFINE j == q \o r
<1>1. /\ q \in Seq(Events) /\ r \in Seq(Events) /\ Len(q) \in Nat /\ Len(r) \in Nat
  BY DEF Flat
<1>2. /\ j \in Seq(Events)
      /\ Len(j) = Len(q) + Len(r)
      /\ \A k \in 1 .. Len(j) : j[k] = IF k <= Len(q) THEN q[k] ELSE r[k - Len(q)]
  BY <1>1, ConcatProperties
<1> HIDE DEF j
<1>3. ASSUME NEW k \in 1 .. Len(j)
      PROVE  j[k].stage = stage /\ j[k].operation \in ops \union those
  <2>1. CASE k <= Len(q)
    <3>1. k \in 1 .. Len(q) /\ j[k] = q[k]
      BY <1>1, <1>2, <2>1
    <3>2. QED
      BY <3>1 DEF Flat
  <2>2. CASE ~(k <= Len(q))
    <3>1. k - Len(q) \in 1 .. Len(r) /\ j[k] = r[k - Len(q)]
      BY <1>1, <1>2, <2>2
    <3>2. QED
      BY <3>1 DEF Flat
  <2>3. QED
    BY <2>1, <2>2
<1>4. r # <<>> => Len(r) > 0
  BY <1>1
<1>5. j = <<>> => Len(j) = 0
  OBVIOUS
<1>6. r # <<>> => j # <<>>
  BY <1>1, <1>2, <1>4, <1>5
<1>7. QED
  BY <1>2, <1>3, <1>6 DEF Flat, j

\* What is told of each of some files.
AboutEach(files, about) == {about[x] : x \in Contents(files)}

\* One event for each of some files, about what is told of it.
TellsEach(f, files, stage, ops, about) ==
  /\ DOMAIN f = DOMAIN files /\ f = [k \in DOMAIN files |-> f[k]]
  /\ \A k \in DOMAIN files :
       f[k] \in Events /\ f[k].stage = stage /\ f[k].operation \in ops /\ f[k].subject = about[files[k]]

\* One event for each of some names in some order, and what those events are about.
LEMMA FlatEach ==
  ASSUME NEW X, NEW files \in FilesOf(X), NEW f, NEW stage, NEW ops, NEW about,
         TellsEach(f, files, stage, ops, about)
  PROVE  /\ Flat(f, stage, ops)
         /\ Recorded(f, ops) = AboutEach(files, about)
<1>1. Len(files) \in Nat /\ DOMAIN files = 1 .. Len(files)
  BY DEF FilesOf
<1>2. f \in Seq(Events) /\ Len(f) = Len(files)
  BY <1>1 DEF TellsEach
<1>3. Flat(f, stage, ops)
  BY <1>1, <1>2 DEF Flat, TellsEach
<1>4. Where(f, ops) = DOMAIN files
  BY <1>1, <1>2 DEF Where, Places, TellsEach
<1>5. \A k \in DOMAIN files : f[k].subject = about[files[k]]
  BY DEF TellsEach
<1>6. Recorded(f, ops) = {about[files[k]] : k \in DOMAIN files}
  BY <1>4, <1>5 DEF Recorded
<1>7. {about[files[k]] : k \in DOMAIN files} = AboutEach(files, about)
  BY DEF Contents, AboutEach
<1>8. QED
  BY <1>3, <1>6, <1>7

\* S1 records each file it parsed under the name it declares.
LEMMA CreatedTells ==
  ASSUME NEW files \in FilesOf(Artifact)
  PROVE  /\ Flat(Created(files), "S1", {"node_created"})
         /\ Recorded(Created(files), {"node_created"}) = {Says[a].name : a \in Contents(files)}
<1> DEFINE f == Created(files)
           about == [a \in Artifact |-> Says[a].name]
<1>1. f = [k \in DOMAIN files |-> Event("S1", "node_created", Says[files[k]].name)]
  BY DEF Created
<1>2. Contents(files) \subseteq Artifact
  BY ContentsFinite
<1>3. \A k \in DOMAIN files : files[k] \in Artifact
  BY <1>2 DEF Contents
<1>4. ASSUME NEW k \in DOMAIN files
      PROVE  /\ f[k] \in Events /\ f[k].stage = "S1" /\ f[k].operation \in {"node_created"}
             /\ f[k].subject = about[files[k]]
  <2>1. f[k] = Event("S1", "node_created", Says[files[k]].name)
    BY <1>1
  <2>2. files[k] \in Artifact /\ Says[files[k]].name \in Name \union {NoSubject}
    BY <1>3, SaysAssumption
  <2>3. about[files[k]] = Says[files[k]].name
    BY <2>2
  <2> HIDE DEF f, about
  <2>4. QED
    BY <2>1, <2>2, <2>3 DEF Event, Events, Operations
<1>5. f = [k \in DOMAIN files |-> f[k]] /\ DOMAIN f = DOMAIN files
  BY <1>1
<1>6. AboutEach(files, about) = {Says[a].name : a \in Contents(files)}
  BY <1>2 DEF AboutEach
<1> DEFINE ops == {"node_created"}
           stage == "S1"
<1> HIDE DEF f, about
<1>7. Flat(f, stage, ops) /\ Recorded(f, ops) = AboutEach(files, about)
  <2>1. TellsEach(f, files, stage, ops, about)
    BY <1>4, <1>5 DEF TellsEach
  <2> HIDE DEF ops, stage
  <2>2. QED
    BY <2>1, FlatEach
<1>8. QED
  BY <1>6, <1>7 DEF f

\* S2 records the edges it typed.
LEMMA TypedTells ==
  ASSUME NEW S, IsFiniteSet(S), \A e \in S : e.from \in Name
  PROVE  Flat([k \in DOMAIN Listed(S) |-> Event("S2", "edge_typed", Listed(S)[k].from)], "S2", {"edge_typed"})
<1> DEFINE q == Listed(S)
           f == [k \in DOMAIN q |-> Event("S2", "edge_typed", q[k].from)]
           about == [e \in S |-> e.from]
<1>1. q \in FilesOf(S) /\ \A k \in DOMAIN q : q[k] \in S
  BY ListedWithin
<1> HIDE DEF q
<1>2. ASSUME NEW k \in DOMAIN q
      PROVE  /\ f[k] \in Events /\ f[k].stage = "S2" /\ f[k].operation \in {"edge_typed"}
             /\ f[k].subject = about[q[k]]
  <2>1. f[k] = Event("S2", "edge_typed", q[k].from) /\ q[k].from \in Name /\ about[q[k]] = q[k].from
    BY <1>1
  <2> HIDE DEF f, about
  <2>2. QED
    BY <2>1 DEF Event, Events, Operations
<1>3. f = [k \in DOMAIN q |-> f[k]] /\ DOMAIN f = DOMAIN q
  OBVIOUS
<1> HIDE DEF f, about
<1>4. Flat(f, "S2", {"edge_typed"})
  <2>1. TellsEach(f, q, "S2", {"edge_typed"}, about)
    BY <1>2, <1>3 DEF TellsEach
  <2>2. QED
    BY <1>1, <2>1, FlatEach
<1>5. QED
  BY <1>4 DEF f, q

Constructing == Built \union {"construction_complete"}

\* A construction: what was built, then that it is complete.
Construction(r, names) ==
  \E f : /\ r = f \o <<Event("S5", "construction_complete", NoSubject)>>
         /\ Flat(f, "S5", Built)
         /\ Recorded(f, Built) = names

\* There is one construction, and it gathers what of these names was built.
Gathers(trace, names) ==
  /\ \E c \in Nat : /\ Where(trace, {"construction_complete"}) = {c}
                    /\ \A k \in Where(trace, Built) : k < c
  /\ Recorded(trace, Built) = names

\* S5 records what it built of these names before its completion.
LEMMA ConstructedTells ==
  ASSUME NEW names, names \subseteq Name, IsFiniteSet(names), NEW nodes
  PROVE  Construction(Constructed(names, nodes), {n \in names : Kind(nodes[n].art) \in {"CT", "CS", "CC"}})
<1> DEFINE S == {n \in names : Kind(nodes[n].art) \in {"CT", "CS", "CC"}}
           q == Listed(S)
           f == [k \in DOMAIN q |-> Event("S5", BuiltEvent(Kind(nodes[q[k]].art)), q[k])]
           e == Event("S5", "construction_complete", NoSubject)
           about == [n \in S |-> n]
<1>1. IsFiniteSet(S) /\ S \subseteq Name
  BY FS_Subset
<1>2. Constructed(names, nodes) = Append(f, e)
  BY DEF Constructed
<1> HIDE DEF S
<1>3. q \in FilesOf(S) /\ Contents(q) = S /\ \A k \in DOMAIN q : q[k] \in S
  BY <1>1, ListedIs, ListedWithin DEF FilesOf
<1> HIDE DEF q
<1>4. ASSUME NEW k \in DOMAIN q
      PROVE  f[k] \in Events /\ f[k].stage = "S5" /\ f[k].operation \in Built /\ f[k].subject = about[q[k]]
  <2>1. f[k] = Event("S5", BuiltEvent(Kind(nodes[q[k]].art)), q[k]) /\ q[k] \in Name /\ about[q[k]] = q[k]
    BY <1>1, <1>3
  <2>2. BuiltEvent(Kind(nodes[q[k]].art)) \in Built
    BY DEF BuiltEvent, Built
  <2> HIDE DEF f, about
  <2>3. QED
    BY <2>1, <2>2 DEF Event, Events, Operations, Built
<1>5. AboutEach(q, about) = S
  BY <1>3 DEF AboutEach
<1>6. f = [k \in DOMAIN q |-> f[k]] /\ DOMAIN f = DOMAIN q
  OBVIOUS
<1> HIDE DEF f, about
<1>7. TellsEach(f, q, "S5", Built, about)
  BY <1>4, <1>6 DEF TellsEach
<1>8. Flat(f, "S5", Built) /\ Recorded(f, Built) = S
  BY <1>3, <1>5, <1>7, FlatEach
<1>9. e \in Events
  BY FlatOne DEF Operations
<1> HIDE DEF e
<1>10. Append(f, e) = f \o <<e>>
  BY <1>8, <1>9, AppendIsJoin DEF Flat
<1>11. Construction(Append(f, e), S)
  BY <1>8, <1>10 DEF Construction, e
<1>12. QED
  BY <1>2, <1>11 DEF S

\* A construction after what constructs nothing is the one there is.
LEMMA GatherJoin ==
  ASSUME NEW q \in Seq(Events), Where(q, Constructing) = {}, NEW r, NEW names, Construction(r, names)
  PROVE  Gathers(q \o r, names) /\ Flat(r, "S5", Constructing) /\ r # <<>>
<1> DEFINE e == Event("S5", "construction_complete", NoSubject)
           end == {"construction_complete"}
<1>1. PICK f : r = f \o <<e>> /\ Flat(f, "S5", Built) /\ Recorded(f, Built) = names
  BY DEF Construction
<1>2. e \in Events /\ Flat(<<e>>, "S5", end) /\ <<e>> # <<>> /\ Len(<<e>>) = 1 /\ <<e>>[1] = e
  BY FlatOne DEF Operations
<1>3. e.operation = "construction_complete"
  BY DEF Event
<1> HIDE DEF e
<1>4. Flat(r, "S5", Constructing) /\ r # <<>>
  BY <1>1, <1>2, FlatJoin DEF Constructing
<1>5. f \in Seq(Events) /\ Len(f) \in Nat /\ <<e>> \in Seq(Events) /\ r \in Seq(Events) /\ Len(q) \in Nat
  BY <1>1, <1>2, <1>4 DEF Flat
<1>6. Built \intersect end = {} /\ end \intersect Built = {}
  BY DEF Built
<1>7. Where(<<e>>, end) = {1}
  BY <1>2, <1>3 DEF Where, Places
<1>8. Where(f, end) = {}
  BY <1>1, <1>6, WhereNot
<1>9. Where(<<e>>, Built) = {} /\ Recorded(<<e>>, Built) = {}
  BY <1>2, <1>6, WhereNot
<1>10. Where(r, end) = {Len(f) + 1}
  <2> DEFINE t == <<e>>
  <2>0. t \in Seq(Events)
    BY <1>5
  <2>1. Where(f \o t, end) = Where(f, end) \union After(f, Where(t, end))
    <3> HIDE DEF t
    <3>1. QED
      BY <1>5, <2>0, WhereJoin
  <2>2. After(f, {1}) = {Len(f) + 1}
    BY DEF After
  <2> HIDE DEF end
  <2>3. QED
    BY <1>1, <1>7, <1>8, <2>1, <2>2
<1>11. Where(r, Built) = Where(f, Built) /\ Recorded(r, Built) = names
  BY <1>1, <1>2, <1>5, <1>6, WhereStays
<1>12. Where(q, end) = {} /\ Where(q, Built) = {} /\ Recorded(q, Built) = {}
  BY DEF Where, Constructing, Recorded
<1>13. Where(q \o r, end) = {Len(q) + (Len(f) + 1)}
  <2>1. Where(q \o r, end) = Where(q, end) \union After(q, Where(r, end))
    BY <1>5, WhereJoin
  <2>2. After(q, {Len(f) + 1}) = {Len(q) + (Len(f) + 1)}
    BY DEF After
  <2> HIDE DEF end
  <2>3. QED
    BY <1>10, <1>12, <2>1, <2>2
<1>14. Where(q \o r, Built) = {Len(q) + k : k \in Where(f, Built)}
  <2>1. Where(q \o r, Built) = Where(q, Built) \union After(q, Where(r, Built))
    BY <1>5, WhereJoin
  <2>2. QED
    BY <1>11, <1>12, <2>1 DEF After
<1>15. Recorded(q \o r, Built) = names
  <2>1. Recorded(q \o r, Built) = Recorded(q, Built) \union Recorded(r, Built)
    BY <1>5, WhereJoin
  <2>2. QED
    BY <1>11, <1>12, <2>1
<1>16. Where(f, Built) \subseteq 1 .. Len(f)
  BY <1>5, WhereIs
<1>17. \A k \in Where(q \o r, Built) : k < Len(q) + (Len(f) + 1)
  BY <1>5, <1>14, <1>16
<1>18. Len(q) + (Len(f) + 1) \in Nat
  BY <1>5
<1>19. Gathers(q \o r, names)
  BY <1>13, <1>15, <1>17, <1>18 DEF Gathers
<1>20. QED
  BY <1>4, <1>19

\* What comes after a construction leaves it the one there is.
LEMMA GatherStays ==
  ASSUME NEW q \in Seq(Events), NEW names, Gathers(q, names), NEW r, NEW stage, NEW those,
         Flat(r, stage, those), those \intersect Constructing = {}
  PROVE  Gathers(q \o r, names)
<1> DEFINE end == {"construction_complete"}
<1>1. end \intersect those = {} /\ Built \intersect those = {}
  BY DEF Constructing
<1>2. Where(q \o r, end) = Where(q, end)
  BY <1>1, WhereStays
<1>3. Where(q \o r, Built) = Where(q, Built) /\ Recorded(q \o r, Built) = Recorded(q, Built)
  BY <1>1, WhereStays
<1>4. QED
  BY <1>2, <1>3 DEF Gathers

\* S6 records what it projects.
LEMMA ProjectedTells ==
  ASSUME NEW names, names \subseteq Name, IsFiniteSet(names)
  PROVE  /\ Flat(Projected(names), "S6", {"artifact_projected", "vocabulary_projected", "tokenized_projected",
                                          "evidence_projected"})
         /\ Projected(names) # <<>>
<1> DEFINE q == Listed(names)
           f == [k \in DOMAIN q |-> Event("S6", "artifact_projected", q[k])]
           r == <<Event("S6", "vocabulary_projected", NoSubject), Event("S6", "tokenized_projected", NoSubject),
                  Event("S6", "evidence_projected", NoSubject)>>
           about == [n \in names |-> n]
           last == {"vocabulary_projected", "tokenized_projected", "evidence_projected"}
<1>1. Projected(names) = f \o r
  BY DEF Projected
<1>2. q \in FilesOf(names) /\ \A k \in DOMAIN q : q[k] \in names
  BY ListedWithin
<1> HIDE DEF q
<1>3. ASSUME NEW k \in DOMAIN q
      PROVE  /\ f[k] \in Events /\ f[k].stage = "S6" /\ f[k].operation \in {"artifact_projected"}
             /\ f[k].subject = about[q[k]]
  <2>1. f[k] = Event("S6", "artifact_projected", q[k]) /\ q[k] \in Name /\ about[q[k]] = q[k]
    BY <1>2
  <2> HIDE DEF f, about
  <2>2. QED
    BY <2>1 DEF Event, Events, Operations
<1>4. f = [k \in DOMAIN q |-> f[k]] /\ DOMAIN f = DOMAIN q
  OBVIOUS
<1> HIDE DEF f, about
<1>5. TellsEach(f, q, "S6", {"artifact_projected"}, about)
  BY <1>3, <1>4 DEF TellsEach
<1>6. Flat(f, "S6", {"artifact_projected"})
  BY <1>2, <1>5, FlatEach
<1>7. Flat(r, "S6", last) /\ r # <<>>
  <2>1. \A op \in last : /\ Event("S6", op, NoSubject) \in Events
                         /\ Event("S6", op, NoSubject).stage = "S6"
                         /\ Event("S6", op, NoSubject).operation = op
    BY DEF Event, Events, Operations
  <2>2. r \in Seq(Events) /\ Len(r) = 3 /\ r # <<>>
    BY <2>1
  <2>3. \A k \in 1 .. 3 : r[k].stage = "S6" /\ r[k].operation \in last
    BY <2>1
  <2>4. QED
    BY <2>2, <2>3 DEF Flat
<1> HIDE DEF r
<1>8. Flat(f \o r, "S6", {"artifact_projected"} \union last) /\ f \o r # <<>>
  BY <1>6, <1>7, FlatJoin
<1>9. {"artifact_projected"} \union last =
        {"artifact_projected", "vocabulary_projected", "tokenized_projected", "evidence_projected"}
  OBVIOUS
<1>10. QED
  BY <1>1, <1>8, <1>9

-----------------------------------------------------------------------------
(* What the trace of every build tells.                                    *)

Natives(nodes) == {n \in DOMAIN nodes : nodes[n].role = "native"}
BuiltOf(nodes) == {n \in DOMAIN nodes : Kind(nodes[n].art) \in {"CT", "CS", "CC"}}

\* The stages the last event of a build may be of.
LastOf(stage) ==
  CASE stage \in {"carry", "import", "resolve"} -> {"S1"}
    [] stage = "govern" -> {"S3"}
    [] stage = "write"  -> {"S6", "S7"}
    [] stage = "verify" -> {"S7"}
    [] OTHER            -> {"S8"}

\* One discovery, first of all, and after it each artifact of the build's own.
Found(trace, names) ==
  /\ Where(trace, {"discovery_complete"}) = {1}
  /\ Recorded(trace, {"node_created"}) = names

Told(b) ==
  /\ Chained(b.trace, LastOf(b.stage))
  /\ Found(b.trace, Natives(b.nodes))
  /\ b.stage \in Early => Where(b.trace, Constructing) = {}
  /\ b.stage \in Late => Gathers(b.trace, BuiltOf(b.nodes))

ToldInv == \A s \in Structure : build[s] # Idle => Told(build[s])

Discovering == {"discovery_complete", "node_created"}

\* What finds nothing leaves what was found.
LEMMA FoundStays ==
  ASSUME NEW q \in Seq(Events), NEW names, Found(q, names), NEW r, NEW stage, NEW those,
         Flat(r, stage, those), those \intersect Discovering = {}
  PROVE  Found(q \o r, names)
<1> DEFINE one == {"discovery_complete"}
           each == {"node_created"}
<1>1. one \intersect those = {} /\ each \intersect those = {}
  BY DEF Discovering
<1> HIDE DEF one, each
<1>2. Where(q \o r, one) = Where(q, one)
  BY <1>1, WhereStays
<1>3. Recorded(q \o r, each) = Recorded(q, each)
  BY <1>1, WhereStays
<1>4. QED
  BY <1>2, <1>3 DEF Found, one, each

\* S1: a build begins with its discovery and what it found.
LEMMA ExtractTold ==
  ASSUME NEW t \in DOMAIN Trees, NEW c, c.stage \in {"resolve", "carry"},
         c.nodes = NodesOf(Parsed(Trees[t])),
         c.trace = <<Event("S1", "discovery_complete", NoSubject)>> \o Created(Parsed(Trees[t]))
  PROVE  Told(c)
<1> DEFINE files == Parsed(Trees[t])
           e == Event("S1", "discovery_complete", NoSubject)
           q == <<e>>
           r == Created(files)
           one == {"discovery_complete"}
           each == {"node_created"}
<1>1. files \in FilesOf(Artifact)
  BY ParsedIs
<1>2. e \in Events /\ Flat(q, "S1", one) /\ Len(q) = 1 /\ q[1] = e
  BY FlatOne DEF Operations
<1>3. e.stage = "S1" /\ e.operation = "discovery_complete"
  BY DEF Event
<1>4. DOMAIN c.nodes = {Says[a].name : a \in Contents(files)} /\ \A n \in DOMAIN c.nodes : c.nodes[n].role = "native"
  BY <1>1, NodesOfIs
<1> HIDE DEF files
<1>5. Flat(r, "S1", each) /\ Recorded(r, each) = {Says[a].name : a \in Contents(files)}
  BY <1>1, CreatedTells
<1> HIDE DEF r, e
<1>6. q \in Seq(Events) /\ r \in Seq(Events)
  BY <1>2, <1>5 DEF Flat
<1>7. Where(q, one) = {1} /\ Recorded(q, each) = {} /\ Where(q, Constructing) = {}
  <2>1. Where(q, one) = {1}
    BY <1>2, <1>3 DEF Where, Places
  <2>2. Where(q, each) = {} /\ Where(q, Constructing) = {}
    BY <1>2, <1>3 DEF Where, Places, Constructing, Built
  <2>3. QED
    BY <2>1, <2>2 DEF Recorded
<1>8. Chained(q, {"S1"})
  BY <1>2, <1>3, <1>6 DEF Chained
<1> HIDE DEF q
<1>9. Chained(q \o r, {"S1"})
  BY <1>5, <1>8, ChainJoin
<1>10. Where(q \o r, one) = {1} /\ Where(q \o r, Constructing) = {}
  <2>1. one \intersect each = {} /\ Constructing \intersect each = {}
    BY DEF Constructing, Built
  <2> HIDE DEF one, each
  <2>2. QED
    BY <1>5, <1>6, <1>7, <2>1, WhereStays
<1>11. Recorded(q \o r, each) = DOMAIN c.nodes
  <2>1. Recorded(q \o r, each) = Recorded(q, each) \union Recorded(r, each)
    BY <1>6, WhereJoin
  <2>2. QED
    BY <1>4, <1>5, <1>7, <2>1
<1>12. Natives(c.nodes) = DOMAIN c.nodes
  BY <1>4 DEF Natives
<1>13. c.trace = q \o r
  BY DEF q, r, e, files
<1>14. LastOf(c.stage) = {"S1"} /\ c.stage \notin Late
  BY DEF LastOf, Late
<1>15. QED
  BY <1>9, <1>10, <1>11, <1>12, <1>13, <1>14 DEF Told, Found

\* S1: what is taken from the platform is not the build's own.
LEMMA TakesTold ==
  ASSUME NEW b, Told(b), b.stage \in {"carry", "import"},
         NEW names, NEW role \in Roles, role # "native",
         NEW c, NEW stage \in {"import", "resolve"}, Continues(b, c, stage, With(b.nodes, names, role))
  PROVE  Told(c)
<1> DEFINE w == With(b.nodes, names, role)
<1>1. /\ DOMAIN w = DOMAIN b.nodes \union names
      /\ \A n \in DOMAIN b.nodes : w[n] = b.nodes[n]
      /\ \A n \in names \ DOMAIN b.nodes : w[n].role = role
  BY DEF With
<1>2. c.stage = stage /\ c.nodes = w /\ c.trace = b.trace
  BY DEF Continues
<1> HIDE DEF w
<1>3. Natives(w) = Natives(b.nodes)
  BY <1>1 DEF Natives
<1>4. LastOf(c.stage) = LastOf(b.stage) /\ b.stage \in Early /\ c.stage \in Early /\ c.stage \notin Late
  BY <1>2 DEF LastOf, Early, Late
<1>5. QED
  BY <1>2, <1>3, <1>4 DEF Told

\* S2 and S3 record the edges they type and the addresses.
LEMMA ResolveTold ==
  ASSUME NEW b, NEW d, Sound(b, d, sealed), Told(b), b.stage = "resolve"
  PROVE  Told(Resolved(b))
<1> DEFINE edges == TypedEdges(b.nodes, b.edges)
           S == {e \in edges : e.kind # "REFERENCES"}
           typed == Listed(S)
           events == [k \in DOMAIN typed |-> Event("S2", "edge_typed", typed[k].from)]
           last == <<Event("S3", "addresses_allocated", NoSubject)>>
           table == Allocated(b.nodes)
           q == b.trace \o events
           c == [b EXCEPT !.stage = "govern", !.edges = edges, !.table = table, !.trace = b.trace \o events \o last]
<1>1. Resolved(b) = c
  BY DEF Resolved
<1>2. DOMAIN b = Fields /\ Named(b.nodes)
  BY DEF Sound, Formed, Governed, Whole, Late
<1>3. /\ IsFiniteSet(edges)
      /\ \A e \in edges : e.from \in DOMAIN b.nodes
  BY TypedEdgesIs DEF Sound, Joined
<1> HIDE DEF edges
<1>4. IsFiniteSet(S) /\ \A e \in S : e.from \in Name
  BY <1>2, <1>3, FS_Subset DEF Named
<1> HIDE DEF S
<1>5. Flat(events, "S2", {"edge_typed"})
  BY <1>4, TypedTells
<1> HIDE DEF events
<1>6. Flat(last, "S3", {"addresses_allocated"}) /\ last # <<>>
  BY FlatOne DEF Operations
<1> HIDE DEF last, table
<1>7. Chained(b.trace, {"S1"}) /\ Found(b.trace, Natives(b.nodes)) /\ Where(b.trace, Constructing) = {}
  BY DEF Told, LastOf, Early
<1>8. b.trace \in Seq(Events)
  BY <1>7 DEF Chained
<1>9. Chained(q, {"S1"} \union {"S2"}) /\ q \in Seq(Events)
  BY <1>5, <1>7, ChainJoin DEF Follows
<1>10. {"edge_typed"} \intersect Discovering = {} /\ {"addresses_allocated"} \intersect Discovering = {}
  BY DEF Discovering
<1>11. Constructing \intersect {"edge_typed"} = {} /\ Constructing \intersect {"addresses_allocated"} = {}
  BY DEF Constructing, Built
<1>12. Found(q, Natives(b.nodes)) /\ Where(q, Constructing) = {}
  BY <1>5, <1>7, <1>8, <1>10, <1>11, FoundStays, WhereStays
<1> HIDE DEF q
<1>13. Chained(q \o last, {"S3"})
  <2>1. \A x \in {"S1"} \union {"S2"} : x = "S3" \/ <<x, "S3">> \in Follows
    BY DEF Follows
  <2>2. QED
    BY <1>6, <1>9, <2>1, ChainJoin
<1>14. Found(q \o last, Natives(b.nodes)) /\ Where(q \o last, Constructing) = {}
  BY <1>6, <1>9, <1>10, <1>11, <1>12, FoundStays, WhereStays
<1>15. c.stage = "govern" /\ c.nodes = b.nodes /\ c.trace = q \o last
  <2>1. c.stage = "govern" /\ c.nodes = b.nodes /\ c.trace = b.trace \o events \o last
    BY <1>2 DEF Fields
  <2> HIDE DEF c
  <2>2. QED
    BY <2>1 DEF q
<1> HIDE DEF c
<1>16. Told(c)
  BY <1>13, <1>14, <1>15 DEF Told, LastOf, Early, Late
<1>17. QED
  BY <1>1, <1>16

\* S4 to S6 record the verdict, one construction and the projection.
LEMMA GovernTold ==
  ASSUME NEW b, NEW d, Sound(b, d, sealed), Told(b), b.stage = "govern"
  PROVE  Told(GovernedTo(b))
<1> DEFINE kept == Retained(b.nodes)
           judged == <<Event("S4", "governance_complete", NoSubject)>>
           made == Constructed(kept, b.nodes)
           shown == Projected(kept)
           showing == {"artifact_projected", "vocabulary_projected", "tokenized_projected", "evidence_projected"}
           table == Strip(b.table, DOMAIN b.nodes \ kept)
           edges == {e \in b.edges : e.from \in kept /\ e.to \in kept}
           nodes == Restrict(b.nodes, kept)
           built == {n \in kept : Kind(b.nodes[n].art) \in {"CT", "CS", "CC"}}
           p == Append(b.trace, Event("S4", "governance_complete", NoSubject))
           q == p \o made
           trace == q \o shown
           c == [b EXCEPT !.stage = "write", !.pending = kept, !.nodes = nodes, !.judged = b.nodes,
                          !.table = table, !.edges = edges, !.trace = trace]
<1>1. GovernedTo(b) = c
  BY DEF GovernedTo
<1>2. DOMAIN b = Fields /\ b.trace \in Seq(Events) /\ Named(b.nodes)
  BY DEF Sound, Formed, Governed, Whole, Late
<1>3. kept \subseteq Name /\ IsFiniteSet(kept)
  <2>1. kept \subseteq DOMAIN b.nodes
    BY DEF Retained
  <2>2. IsFiniteSet(DOMAIN b.nodes) /\ DOMAIN b.nodes \subseteq Name
    BY <1>2 DEF Named
  <2> HIDE DEF kept
  <2>3. QED
    BY <2>1, <2>2, FS_Subset
<1>4. DOMAIN nodes = kept /\ \A n \in kept : nodes[n] = b.nodes[n]
  BY DEF Restrict
<1>5. Natives(nodes) = Natives(b.nodes) /\ BuiltOf(nodes) = built
  <2>1. \A n \in DOMAIN b.nodes : b.nodes[n].role = "native" => n \in kept
    BY DEF Retained
  <2>2. kept \subseteq DOMAIN b.nodes
    BY DEF Retained
  <2> HIDE DEF kept, nodes
  <2>3. QED
    BY <1>4, <2>1, <2>2 DEF Natives, BuiltOf
<1>6. Flat(judged, "S4", {"governance_complete"}) /\ judged # <<>> /\ p = b.trace \o judged
  <2> DEFINE e == Event("S4", "governance_complete", NoSubject)
  <2>1. e \in Events /\ Flat(<<e>>, "S4", {"governance_complete"}) /\ <<e>> # <<>>
    BY FlatOne DEF Operations
  <2> HIDE DEF e
  <2>2. Append(b.trace, e) = b.trace \o <<e>>
    BY <1>2, <2>1, AppendIsJoin
  <2>3. QED
    BY <2>1, <2>2 DEF e
<1> HIDE DEF kept, nodes, judged, p
<1>7. Construction(made, built)
  BY <1>3, ConstructedTells
<1>8. Flat(shown, "S6", showing) /\ shown # <<>>
  BY <1>3, ProjectedTells
<1> HIDE DEF made, shown, table, built
<1>9. Chained(b.trace, {"S3"}) /\ Found(b.trace, Natives(b.nodes)) /\ Where(b.trace, Constructing) = {}
  BY DEF Told, LastOf, Early
<1>10. Chained(p, {"S4"}) /\ p \in Seq(Events)
  BY <1>6, <1>9, ChainJoin DEF Follows
<1>11. Found(p, Natives(b.nodes)) /\ Where(p, Constructing) = {}
  <2>1. {"governance_complete"} \intersect Discovering = {} /\ Constructing \intersect {"governance_complete"} = {}
    BY DEF Discovering, Constructing, Built
  <2>2. QED
    BY <1>2, <1>6, <1>9, <2>1, FoundStays, WhereStays
<1>12. Gathers(q, built) /\ Flat(made, "S5", Constructing) /\ made # <<>>
  BY <1>7, <1>10, <1>11, GatherJoin
<1>13. Chained(q, {"S5"}) /\ q \in Seq(Events)
  <2> DEFINE stages == {"S4"}
             stage == "S5"
  <2>1. Chained(p, stages) /\ Flat(made, stage, Constructing) /\ \A x \in stages : x = stage \/ <<x, stage>> \in Follows
    BY <1>10, <1>12 DEF Follows
  <2> HIDE DEF stages, stage
  <2>2. Chained(p \o made, {stage}) /\ p \o made \in Seq(Events)
    BY <1>12, <2>1, ChainJoin
  <2>3. QED
    BY <2>2 DEF stage
<1>14. Found(q, Natives(b.nodes))
  <2>1. Constructing \intersect Discovering = {}
    BY DEF Discovering, Constructing, Built
  <2>2. QED
    BY <1>10, <1>11, <1>12, <2>1, FoundStays
<1> HIDE DEF q
<1>15. Chained(trace, {"S6"})
  BY <1>8, <1>13, ChainJoin DEF Follows
<1>16. Found(trace, Natives(b.nodes)) /\ Gathers(trace, built)
  <2>1. showing \intersect Discovering = {} /\ showing \intersect Constructing = {}
    BY DEF Discovering, Constructing, Built
  <2> HIDE DEF showing
  <2>2. QED
    BY <1>8, <1>12, <1>13, <1>14, <2>1, FoundStays, GatherStays
<1> HIDE DEF trace
<1>17. c.stage = "write" /\ c.nodes = nodes /\ c.trace = trace
  <2> HIDE DEF edges
  <2>1. QED
    BY <1>2 DEF Fields
<1> HIDE DEF c
<1>18. Chained(trace, {"S6", "S7"})
  BY <1>15 DEF Chained
<1>19. Told(c)
  BY <1>5, <1>16, <1>17, <1>18 DEF Told, LastOf, Early, Late
<1>20. QED
  BY <1>1, <1>19

\* From the writing on, what else is recorded tells nothing new of what was found or built.
LEMMA LateTold ==
  ASSUME NEW b, Told(b), b.stage \in Late, NEW c, Proceeds(b, c), c.stage \in Late,
         NEW r, NEW stage, NEW those, Flat(r, stage, those), r # <<>>,
         those \intersect (Discovering \union Constructing) = {},
         \A x \in LastOf(b.stage) : x = stage \/ <<x, stage>> \in Follows,
         stage \in LastOf(c.stage), c.trace = b.trace \o r
  PROVE  Told(c)
<1>1. c.nodes = b.nodes /\ c.stage \notin Early
  BY DEF Proceeds, Early, Late
<1>2. /\ Chained(b.trace, LastOf(b.stage)) /\ Found(b.trace, Natives(b.nodes))
      /\ Gathers(b.trace, BuiltOf(b.nodes)) /\ b.trace \in Seq(Events)
  BY DEF Told, Chained
<1>3. Chained(c.trace, {stage})
  <2> DEFINE stages == LastOf(b.stage)
             q == b.trace
  <2>1. Chained(q, stages) /\ \A x \in stages : x = stage \/ <<x, stage>> \in Follows
    BY <1>2
  <2>2. c.trace = q \o r
    OBVIOUS
  <2> HIDE DEF stages, q
  <2>3. Chained(q \o r, {stage})
    BY <2>1, ChainJoin
  <2>4. QED
    BY <2>2, <2>3
<1>4. Chained(c.trace, LastOf(c.stage))
  BY <1>3 DEF Chained
<1>5. those \intersect Discovering = {} /\ those \intersect Constructing = {}
  OBVIOUS
<1>6. Found(c.trace, Natives(b.nodes))
  BY <1>2, <1>5, FoundStays
<1>7. Gathers(c.trace, BuiltOf(b.nodes))
  BY <1>2, <1>5, GatherStays
<1>8. QED
  BY <1>1, <1>4, <1>6, <1>7 DEF Told

\* S7 records a file it wrote.
LEMMA WriteTold ==
  ASSUME NEW b, Told(b), b.stage = "write", NEW c, Proceeds(b, c), c.stage = "write",
         NEW n \in Name, c.trace \in {b.trace, Append(b.trace, Event("S7", "artifact_written", n))}
  PROVE  Told(c)
<1>1. CASE c.trace = b.trace
  BY <1>1 DEF Told, Proceeds
<1>2. CASE c.trace = Append(b.trace, Event("S7", "artifact_written", n))
  <2> DEFINE e == Event("S7", "artifact_written", n)
             r == <<e>>
             those == {"artifact_written"}
  <2>1. e \in Events /\ Flat(r, "S7", those) /\ r # <<>>
    BY FlatOne DEF Operations
  <2> HIDE DEF e
  <2>2. c.trace = b.trace \o r
    <3>1. b.trace \in Seq(Events)
      BY DEF Told, Chained
    <3>2. Append(b.trace, e) = b.trace \o r
      BY <2>1, <3>1, AppendIsJoin
    <3>3. QED
      BY <1>2, <3>2 DEF e
  <2>3. those \intersect (Discovering \union Constructing) = {}
    BY DEF Discovering, Constructing, Built
  <2> HIDE DEF r, those
  <2>4. \A x \in LastOf(b.stage) : x = "S7" \/ <<x, "S7">> \in Follows
    BY DEF LastOf, Follows
  <2>5. "S7" \in LastOf(c.stage) /\ b.stage \in Late /\ c.stage \in Late
    BY DEF LastOf, Late
  <2>6. QED
    BY <2>1, <2>2, <2>3, <2>4, <2>5, LateTold
<1>3. QED
  BY <1>1, <1>2

\* S7 records the projections beside the artifacts.
LEMMA ProjectTold ==
  ASSUME NEW b, Told(b), b.stage = "write", NEW c, Proceeds(b, c), c.stage = "verify",
         c.trace = b.trace \o <<Event("S7", "vocabulary_materialized", NoSubject),
                                Event("S7", "tokenized_materialized", NoSubject),
                                Event("S7", "evidence_materialized", NoSubject)>>
  PROVE  Told(c)
<1> DEFINE r == <<Event("S7", "vocabulary_materialized", NoSubject),
                  Event("S7", "tokenized_materialized", NoSubject),
                  Event("S7", "evidence_materialized", NoSubject)>>
           those == {"vocabulary_materialized", "tokenized_materialized", "evidence_materialized"}
<1>1. Flat(r, "S7", those) /\ r # <<>>
  <2>1. \A op \in those : /\ Event("S7", op, NoSubject) \in Events
                          /\ Event("S7", op, NoSubject).stage = "S7"
                          /\ Event("S7", op, NoSubject).operation = op
    BY DEF Event, Events, Operations
  <2>2. r \in Seq(Events) /\ Len(r) = 3 /\ r # <<>>
    BY <2>1
  <2>3. \A k \in 1 .. 3 : r[k].stage = "S7" /\ r[k].operation \in those
    BY <2>1
  <2>4. QED
    BY <2>2, <2>3 DEF Flat
<1>2. c.trace = b.trace \o r
  OBVIOUS
<1>3. those \intersect (Discovering \union Constructing) = {}
  BY DEF Discovering, Constructing, Built
<1> HIDE DEF r, those
<1>4. \A x \in LastOf(b.stage) : x = "S7" \/ <<x, "S7">> \in Follows
  BY DEF LastOf, Follows
<1>5. "S7" \in LastOf(c.stage) /\ b.stage \in Late /\ c.stage \in Late
  BY DEF LastOf, Late
<1>6. QED
  BY <1>1, <1>2, <1>3, <1>4, <1>5, LateTold

\* S8 records that it verified.
LEMMA VerifyTold ==
  ASSUME NEW b, Told(b), b.stage = "verify", NEW c, Proceeds(b, c), c.stage = "attest",
         c.trace = Append(b.trace, Event("S8", "verification_complete", NoSubject))
  PROVE  Told(c)
<1> DEFINE e == Event("S8", "verification_complete", NoSubject)
           r == <<e>>
           those == {"verification_complete"}
<1>1. e \in Events /\ Flat(r, "S8", those) /\ r # <<>>
  BY FlatOne DEF Operations
<1> HIDE DEF e
<1>2. c.trace = b.trace \o r
  <2>1. b.trace \in Seq(Events)
    BY DEF Told, Chained
  <2>2. Append(b.trace, e) = b.trace \o r
    BY <1>1, <2>1, AppendIsJoin
  <2>3. QED
    BY <2>2 DEF e
<1>3. those \intersect (Discovering \union Constructing) = {}
  BY DEF Discovering, Constructing, Built
<1> HIDE DEF r, those
<1>4. \A x \in LastOf(b.stage) : x = "S8" \/ <<x, "S8">> \in Follows
  BY DEF LastOf, Follows
<1>5. "S8" \in LastOf(c.stage) /\ b.stage \in Late /\ c.stage \in Late
  BY DEF LastOf, Late
<1>6. QED
  BY <1>1, <1>2, <1>3, <1>4, <1>5, LateTold

\* A build that is no longer steady tells what it told.
LEMMA UnsteadyTold ==
  ASSUME NEW b, DOMAIN b = Fields, Told(b)
  PROVE  Told([b EXCEPT !.steady = FALSE])
<1> DEFINE c == [b EXCEPT !.steady = FALSE]
<1>1. c.stage = b.stage /\ c.nodes = b.nodes /\ c.trace = b.trace
  BY DEF Fields
<1> HIDE DEF c
<1>2. Told(c)
  BY <1>1 DEF Told
<1>3. QED
  BY <1>2 DEF c

\* One build goes on, told, and may disturb the others.
LEMMA ToldMoves ==
  ASSUME IInv, ToldInv, NEW s \in Structure, NEW c, NEW builds,
         DOMAIN builds = Structure, builds[s] = c, \A t \in Structure : t # s => builds[t] = build[t],
         build' = Disturb(builds, disk, disk'), c = Idle \/ (Told(c) /\ DOMAIN c = Fields)
  PROVE  ToldInv'
<1>1. \A t \in Structure : builds[t] = Idle \/ (Told(builds[t]) /\ DOMAIN builds[t] = Fields)
  BY StageOf DEF IInv, BuildInv, ToldInv
<1>2. \A t \in Structure : \/ build'[t] = builds[t]
                           \/ build'[t] = [builds[t] EXCEPT !.steady = FALSE] /\ builds[t].stage # "idle"
  BY DEF Disturb
<1>3. ASSUME NEW t \in Structure, build'[t] # Idle
      PROVE  Told(build'[t])
  <2>1. CASE build'[t] = builds[t]
    BY <1>1, <1>3, <2>1
  <2>2. CASE build'[t] = [builds[t] EXCEPT !.steady = FALSE] /\ builds[t].stage # "idle"
    <3>1. builds[t] # Idle
      BY <2>2 DEF Idle
    <3>2. QED
      BY <1>1, <2>2, <3>1, UnsteadyTold
  <2>3. QED
    BY <1>2, <2>1, <2>2
<1>4. QED
  BY <1>3 DEF ToldInv

\* One build goes on, told, and the disk stays what it is.
LEMMA ToldAlone ==
  ASSUME IInv, ToldInv, NEW s \in Structure, NEW c, build' = [build EXCEPT ![s] = c], UNCHANGED disk,
         c = Idle \/ (Told(c) /\ DOMAIN c = Fields)
  PROVE  ToldInv'
<1> DEFINE builds == [build EXCEPT ![s] = c]
<1>1. /\ DOMAIN builds = Structure /\ builds[s] = c
      /\ \A t \in Structure : t # s => builds[t] = build[t]
  BY DEF IInv, BuildInv
<1>2. build' = Disturb(builds, disk, disk')
  BY DEF Disturb
<1> HIDE DEF builds
<1>3. QED
  BY <1>1, <1>2, ToldMoves

\* What holds of a build that runs.
LEMMA Telling ==
  ASSUME IInv, ToldInv, NEW s \in Structure, build[s].stage # "idle"
  PROVE  Told(build[s]) /\ Sound(build[s], disk[s], sealed) /\ DOMAIN build[s] = Fields
<1>1. build[s] # Idle
  BY DEF Idle
<1>2. QED
  BY <1>1, Running DEF IInv, ToldInv

\* Every stage but the writing records what it did, or the build is refused.
LEMMA StagesTell ==
  ASSUME IInv, ToldInv, NEW s \in Structure,
         Extract(s) \/ CarryCapabilities(s) \/ ImportGovernance(s) \/ Resolve(s) \/ Govern(s) \/ Verify(s)
           \/ Attest(s) \/ Die(s)
  PROVE  ToldInv'
<1> DEFINE b == build[s]
<1>1. b.stage # "idle" => Told(b) /\ Sound(b, disk[s], sealed) /\ DOMAIN b = Fields
  BY Telling
<1>2. ASSUME Refuse(s), UNCHANGED disk
      PROVE  ToldInv'
  BY <1>2, ToldAlone DEF Refuse
<1>3. CASE Extract(s)
  <2> DEFINE t == tree[s]
             c == [stage |-> IF s = Platform THEN "resolve" ELSE "carry", tree |-> tree[s],
                   nodes |-> NodesOf(Parsed(Trees[t])), judged |-> NoNodes, table |-> NoNodes,
                   edges |-> ReferencesOf(Parsed(Trees[t])),
                   trace |-> <<Event("S1", "discovery_complete", NoSubject)>> \o Created(Parsed(Trees[t])),
                   pending |-> {}, failed |-> FALSE, steady |-> s \in Domain /\ Settled]
  <2>1. build' = [build EXCEPT ![s] = c] /\ UNCHANGED disk
    BY <1>3 DEF Extract, Proceed
  <2>2. t \in DOMAIN Trees
    BY DEF IInv, TreeInv
  <2>3. /\ DOMAIN c = Fields /\ c.stage \in {"resolve", "carry"} /\ c.nodes = NodesOf(Parsed(Trees[t]))
        /\ c.trace = <<Event("S1", "discovery_complete", NoSubject)>> \o Created(Parsed(Trees[t]))
    BY DEF Fields
  <2> HIDE DEF c, t
  <2>4. Told(c)
    BY <2>2, <2>3, ExtractTold
  <2>5. QED
    BY <2>1, <2>3, <2>4, ToldAlone
<1>4. CASE CarryCapabilities(s)
  <2> DEFINE w == With(b.nodes, Carried(b), "execution")
             c == [b EXCEPT !.stage = "import", !.nodes = w]
  <2>1. b.stage = "carry" /\ build' = [build EXCEPT ![s] = c] /\ UNCHANGED disk
    BY <1>4 DEF CarryCapabilities, Proceed
  <2> HIDE DEF b
  <2>2. Continues(b, c, "import", w) /\ DOMAIN c = Fields
    BY <1>1, <2>1, ContinuesIs
  <2> HIDE DEF c
  <2>3. "execution" \in Roles /\ "import" \in {"import", "resolve"} /\ b.stage \in {"carry", "import"}
    BY <2>1 DEF Roles
  <2>4. Told(c)
    BY <1>1, <2>1, <2>2, <2>3, TakesTold
  <2>5. QED
    BY <2>1, <2>2, <2>4, ToldAlone
<1>5. CASE ImportGovernance(s)
  <2> DEFINE w == With(b.nodes, Closure(b), "governance")
             c == [b EXCEPT !.stage = "resolve", !.nodes = w]
  <2>1. b.stage = "import" /\ build' = [build EXCEPT ![s] = c] /\ UNCHANGED disk
    BY <1>5 DEF ImportGovernance, Proceed
  <2> HIDE DEF b
  <2>2. Continues(b, c, "resolve", w) /\ DOMAIN c = Fields
    BY <1>1, <2>1, ContinuesIs
  <2> HIDE DEF c
  <2>3. "governance" \in Roles /\ "resolve" \in {"import", "resolve"} /\ b.stage \in {"carry", "import"}
    BY <2>1 DEF Roles
  <2>4. Told(c)
    BY <1>1, <2>1, <2>2, <2>3, TakesTold
  <2>5. QED
    BY <2>1, <2>2, <2>4, ToldAlone
<1>6. CASE Resolve(s)
  <2>1. b.stage = "resolve" /\ UNCHANGED disk /\ (build' = [build EXCEPT ![s] = Resolved(b)] \/ Refuse(s))
    BY <1>6 DEF Resolve, Resolved, Proceed
  <2> HIDE DEF b
  <2>2. Told(Resolved(b)) /\ DOMAIN Resolved(b) = Fields
    <3>1. Told(Resolved(b))
      BY <1>1, <2>1, ResolveTold
    <3>2. DOMAIN Resolved(b) = DOMAIN b
      BY DEF Resolved
    <3>3. QED
      BY <1>1, <2>1, <3>1, <3>2
  <2>3. QED
    BY <1>2, <2>1, <2>2, ToldAlone
<1>7. CASE Govern(s)
  <2>1. b.stage = "govern" /\ UNCHANGED disk /\ (build' = [build EXCEPT ![s] = GovernedTo(b)] \/ Refuse(s))
    BY <1>7 DEF Govern, GovernedTo, Proceed
  <2> HIDE DEF b
  <2>2. Told(GovernedTo(b)) /\ DOMAIN GovernedTo(b) = Fields
    <3>1. Told(GovernedTo(b))
      BY <1>1, <2>1, GovernTold
    <3>2. DOMAIN GovernedTo(b) = DOMAIN b
      BY DEF GovernedTo
    <3>3. QED
      BY <1>1, <2>1, <3>1, <3>2
  <2>3. QED
    BY <1>2, <2>1, <2>2, ToldAlone
<1>8. CASE Verify(s)
  <2> DEFINE e == Event("S8", "verification_complete", NoSubject)
             c == [b EXCEPT !.stage = "attest", !.trace = Append(b.trace, e)]
  <2>1. b.stage = "verify" /\ UNCHANGED disk /\ (build' = [build EXCEPT ![s] = c] \/ Refuse(s))
    BY <1>8 DEF Verify, Proceed
  <2> HIDE DEF b, e
  <2>2. Proceeds(b, c) /\ c.stage = "attest" /\ c.trace = Append(b.trace, e) /\ DOMAIN c = Fields
    BY <1>1, <2>1 DEF Proceeds, Fields
  <2> HIDE DEF c
  <2>3. Told(c)
    BY <1>1, <2>1, <2>2, VerifyTold DEF e
  <2>4. QED
    BY <1>2, <2>1, <2>2, <2>3, ToldAlone
<1>9. CASE Attest(s) \/ Die(s)
  BY <1>2, <1>9 DEF Attest, Die
<1>10. QED
  BY <1>3, <1>4, <1>5, <1>6, <1>7, <1>8, <1>9

\* S7 records each file it wrote, and no other.
LEMMA WritingTells ==
  ASSUME IInv, ToldInv, NEW s \in Structure, WriteArtifact(s) \/ WriteProjections(s)
  PROVE  ToldInv'
<1> DEFINE b == build[s]
<1>1. b.stage = "write"
  BY DEF WriteArtifact, WriteProjections
<1>2. Told(b) /\ Sound(b, disk[s], sealed) /\ DOMAIN b = Fields
  BY <1>1, Telling
<1>3. \A c : /\ DOMAIN [build EXCEPT ![s] = c] = Structure /\ [build EXCEPT ![s] = c][s] = c
             /\ \A t \in Structure : t # s => [build EXCEPT ![s] = c][t] = build[t]
  BY DEF IInv, BuildInv
<1>4. ASSUME NEW c, build' = Disturb([build EXCEPT ![s] = c], disk, disk'),
             c = Idle \/ (Told(c) /\ DOMAIN c = Fields)
      PROVE  ToldInv'
  <2> DEFINE builds == [build EXCEPT ![s] = c]
  <2>1. /\ DOMAIN builds = Structure /\ builds[s] = c /\ \A t \in Structure : t # s => builds[t] = build[t]
    BY <1>3
  <2>2. build' = Disturb(builds, disk, disk')
    BY <1>4
  <2>3. c = Idle \/ (Told(c) /\ DOMAIN c = Fields)
    BY <1>4
  <2> HIDE DEF builds
  <2>4. QED
    BY <2>1, <2>2, <2>3, ToldMoves
<1>5. CASE WriteArtifact(s)
  <2> DEFINE n == First(b.pending)
             c(written) == [b EXCEPT !.pending = b.pending \ {n}, !.trace = Witness(b.trace, n, written),
                                     !.failed = b.failed \/ ~written]
  <2>1. PICK written \in BOOLEAN : build' = Disturb([build EXCEPT ![s] = c(written)], disk, disk')
    BY <1>5 DEF WriteArtifact
  <2>2. n \in Name
    <3>1. b.pending \subseteq DOMAIN b.nodes /\ DOMAIN b.nodes \subseteq Name
      BY <1>2, NodesNamed DEF Sound, Witnessed
    <3>2. b.pending # {}
      BY <1>5 DEF WriteArtifact
    <3>3. n \in b.pending
      BY <3>1, <3>2, FirstIs
    <3>4. QED
      BY <3>1, <3>3
  <2> HIDE DEF b, n
  <2>3. /\ Proceeds(b, c(written)) /\ c(written).stage = "write" /\ DOMAIN c(written) = Fields
        /\ c(written).trace = Witness(b.trace, n, written)
    BY <1>1, <1>2 DEF Proceeds, Fields
  <2>4. c(written).trace \in {b.trace, Append(b.trace, Event("S7", "artifact_written", n))}
    BY <2>3 DEF Witness
  <2> HIDE DEF c
  <2>5. Told(c(written))
    BY <1>1, <1>2, <2>2, <2>3, <2>4, WriteTold
  <2>6. QED
    BY <1>4, <2>1, <2>3, <2>5
<1>6. CASE WriteProjections(s)
  <2> DEFINE r == <<Event("S7", "vocabulary_materialized", NoSubject),
                    Event("S7", "tokenized_materialized", NoSubject),
                    Event("S7", "evidence_materialized", NoSubject)>>
             c == [b EXCEPT !.stage = "verify", !.trace = b.trace \o r]
  <2>1. PICK next \in {Idle, c} : build' = Disturb([build EXCEPT ![s] = next], disk, disk')
    BY <1>6 DEF WriteProjections
  <2> HIDE DEF b, r
  <2>2. Proceeds(b, c) /\ c.stage = "verify" /\ DOMAIN c = Fields /\ c.trace = b.trace \o r
    BY <1>1, <1>2 DEF Proceeds, Fields
  <2> HIDE DEF c
  <2>3. Told(c)
    BY <1>1, <1>2, <2>2, ProjectTold DEF r
  <2>4. QED
    BY <1>4, <2>1, <2>2, <2>3
<1>7. QED
  BY <1>5, <1>6

\* The trace of every build tells what its stages did, whatever else happens.
LEMMA ToldNext ==
  ASSUME IInv, ToldInv, [Next]_vars
  PROVE  ToldInv'
<1>1. CASE UNCHANGED vars
  BY <1>1 DEF ToldInv, vars
<1>2. ASSUME NEW s \in Structure, Edit(s)
      PROVE  ToldInv'
  BY <1>2 DEF Edit, ToldInv
<1>3. ASSUME NEW s \in Structure, Clean(s)
      PROVE  ToldInv'
  <2>1. build[s] = Idle
    <3>1. build[s].stage = "idle"
      BY <1>3 DEF Clean
    <3>2. build[s] # Idle => build[s].stage # "idle"
      BY StageOf DEF IInv, BuildInv
    <3>3. QED
      BY <3>1, <3>2
  <2>2. DOMAIN build = Structure /\ build' = Disturb(build, disk, disk')
    BY <1>3 DEF Clean, IInv, BuildInv
  <2>3. QED
    BY <2>1, <2>2, ToldMoves
<1>4. QED
  BY <1>1, <1>2, <1>3, StagesTell, WritingTells DEF Next, Step

\* Every build's trace tells what its stages did so far, however the builds interleave.
THEOREM SurfaceTold == Spec => []ToldInv
<1>1. Init => ToldInv
  BY DEF Init, ToldInv
<1>2. IInv /\ ToldInv /\ [Next]_vars => ToldInv'
  BY ToldNext
<1>3. QED
  BY <1>1, <1>2, SurfaceInvariant, PTL DEF Spec

-----------------------------------------------------------------------------
(* What a consumer reads of it.                                            *)

\* A backward search of the causes meets the causes it starts at.
LEMMA AncestorsHold ==
  ASSUME NEW graph, NEW k \in Places(graph.events), Len(graph.events) \in Nat, NEW i \in Upstream(graph, k)
  PROVE  i \in Ancestors(graph, k)
<1> DEFINE n == Len(graph.events)
           All == {k} \union {edge[1] : edge \in graph.cause}
           A == SUBSET All
           next(g) == g \union UNION {Upstream(graph, j) : j \in g}
           step == [m \in Nat |-> [g \in A |-> next(g)]]
           Is(f) == f = [m \in 0 .. n |-> IF m = 0 THEN {k} ELSE next(f[m - 1])]
           reached == CHOOSE f : Is(f)
           start == {k}
<1>0. n \in Nat /\ n >= 1
  BY DEF Places
<1>1. \A j : Upstream(graph, j) \subseteq All
  BY DEF Upstream
<1>2. \A g \in A : next(g) \in A
  BY <1>1
<1>3. step \in [Nat -> [A -> A]] /\ start \in A
  <2> HIDE DEF next
  <2>1. step \in [Nat -> [A -> A]]
    BY <1>2
  <2>2. QED
    BY <2>1
<1>4. PICK g \in [0 .. n -> A] : /\ g[0] = start
                                 /\ \A m \in 1 .. n : g[m] = step[m][g[m - 1]]
  <2> HIDE DEF step, A, n, start, next, Is, reached
  <2>1. \E g : Unrolls(g, n, A, start, step)
    BY <1>0, <1>3, BoundedRecursion
  <2>2. QED
    BY <2>1 DEF Unrolls
<1>5. \A m \in 1 .. n : g[m] = next(g[m - 1])
  <2>1. SUFFICES ASSUME NEW m \in 1 .. n
                 PROVE  g[m] = next(g[m - 1])
    OBVIOUS
  <2>2. m \in Nat /\ m - 1 \in 0 .. n
    BY <1>0
  <2>3. g[m] = step[m][g[m - 1]] /\ g[m - 1] \in A
    <3> HIDE DEF step, A, next, n
    <3>1. QED
      BY <1>4, <2>2
  <2> HIDE DEF next, A, n
  <2>4. QED
    BY <2>2, <2>3
<1>6. Is(g)
  <2> HIDE DEF step, A, next, n, start
  <2>1. \A m \in 0 .. n : m = 0 \/ m \in 1 .. n
    BY <1>0
  <2>2. \A m \in 0 .. n : g[m] = IF m = 0 THEN start ELSE next(g[m - 1])
    BY <1>4, <1>5, <2>1
  <2>3. g = [m \in 0 .. n |-> g[m]]
    BY <1>4
  <2>4. QED
    BY <2>2, <2>3 DEF start
<1>7. Is(reached)
  <2> HIDE DEF Is
  <2>1. QED
    BY <1>6
<1>8. Ancestors(graph, k) = reached[n]
  BY DEF Ancestors
<1>9. /\ reached[0] = {k}
      /\ \A m \in 1 .. n : reached[m] = next(reached[m - 1])
  <2>1. reached = [m \in 0 .. n |-> IF m = 0 THEN {k} ELSE next(reached[m - 1])]
    BY <1>7
  <2>2. ASSUME NEW m \in 0 .. n
        PROVE  reached[m] = IF m = 0 THEN {k} ELSE next(reached[m - 1])
    <3> HIDE DEF reached, next, n
    <3>1. QED
      BY <2>1
  <2>3. 0 \in 0 .. n /\ \A m \in 1 .. n : m \in 0 .. n /\ m # 0
    BY <1>0
  <2> HIDE DEF reached, next, n
  <2>4. QED
    BY <2>2, <2>3
<1>10. \A g2, j : j \in g2 => j \in next(g2)
  OBVIOUS
<1>11. i \in next({k})
  OBVIOUS
<1> DEFINE Good == {m \in Nat : m + 1 <= n => i \in reached[m + 1]}
<1>12. 0 \in Good
  <2>1. 1 \in 1 .. n /\ 1 - 1 = 0 /\ 0 + 1 = 1
    BY <1>0
  <2> HIDE DEF reached, next, n
  <2>2. i \in reached[1]
    BY <1>9, <1>11, <2>1
  <2>3. QED
    BY <2>1, <2>2
<1>13. ASSUME NEW m \in Nat, m \in Good
       PROVE  m + 1 \in Good
  <2>1. SUFFICES ASSUME (m + 1) + 1 <= n
                 PROVE  i \in reached[(m + 1) + 1]
    <3> HIDE DEF reached, n
    <3>1. QED
      OBVIOUS
  <2>2. (m + 1) + 1 \in 1 .. n /\ ((m + 1) + 1) - 1 = m + 1 /\ m + 1 <= n
    BY <1>0, <2>1
  <2>3. i \in reached[m + 1]
    BY <1>13, <2>2
  <2> HIDE DEF reached, next, n, Good
  <2>4. reached[(m + 1) + 1] = next(reached[m + 1])
    BY <1>9, <2>2
  <2>5. QED
    BY <1>10, <2>3, <2>4
<1>14. \A m \in Nat : m \in Good
  <2> HIDE DEF Good
  <2>1. QED
    BY <1>12, <1>13, SetInduction
<1>15. n - 1 \in Nat /\ (n - 1) + 1 = n
  BY <1>0
<1>16. i \in reached[n]
  <2> HIDE DEF reached, n
  <2>1. n - 1 \in Good
    BY <1>14, <1>15
  <2>2. (n - 1) + 1 <= n
    BY <1>0, <1>15
  <2>3. i \in reached[(n - 1) + 1]
    BY <2>1, <2>2
  <2>4. QED
    BY <1>15, <2>3
<1>17. QED
  BY <1>8, <1>16

\* What was found descends from the discovery, what was built is gathered by the construction.
LEMMA CausesAre ==
  ASSUME NEW trace, trace \in Seq(Events), NEW names, Found(trace, names), NEW built, Gathers(trace, built)
  PROVE  /\ \A k \in Of(trace, "node_created") :
              Ancestors(EvidenceGraphOf(trace), k) \intersect Of(trace, "discovery_complete") # {}
         /\ UNION {Upstream(EvidenceGraphOf(trace), j) : j \in Of(trace, "construction_complete")}
              = Where(trace, Built)
<1> DEFINE graph == EvidenceGraphOf(trace)
<1>1. graph.events = trace /\ graph.cause = Causality(trace) /\ Len(trace) \in Nat
  BY DEF EvidenceGraphOf
<1>2. Of(trace, "discovery_complete") = {1}
  BY DEF Found, Where, Of
<1> HIDE DEF graph
<1>3. ASSUME NEW k \in Of(trace, "node_created")
      PROVE  1 \in Ancestors(graph, k)
  <2>1. k \in 1 .. Len(trace) /\ trace[k].operation = "node_created"
    BY DEF Of, Places
  <2>2. trace[1].operation = "discovery_complete"
    BY <1>2 DEF Of
  <2>3. 1 < k
    BY <1>1, <2>1, <2>2
  <2> DEFINE before(j) == {d \in Of(trace, "discovery_complete") : d < j}
  <2>4. before(k) = {1}
    BY <1>2, <2>3
  <2>5. Max({1}) = 1
    BY DEF Max
  <2>6. <<1, k>> \in Gated(trace)
    <3>1. Gated(trace) = {<<Max(before(j)), j>> : j \in {i \in Of(trace, "node_created") : before(i) # {}}}
      BY DEF Gated
    <3>2. before(k) # {} /\ Max(before(k)) = 1
      BY <2>4, <2>5
    <3> HIDE DEF before
    <3>3. QED
      BY <3>1, <3>2
  <2>7. 1 \in Upstream(graph, k)
    <3>1. <<1, k>> \in graph.cause
      BY <1>1, <2>6 DEF Causality
    <3>2. <<1, k>>[1] = 1 /\ <<1, k>>[2] = k
      OBVIOUS
    <3>3. QED
      BY <3>1, <3>2 DEF Upstream
  <2>8. QED
    BY <1>1, <2>1, <2>7, AncestorsHold DEF Places
<1>4. PICK c \in Nat : /\ Where(trace, {"construction_complete"}) = {c}
                       /\ \A k \in Where(trace, Built) : k < c
  BY DEF Gathers
<1>5. Of(trace, "construction_complete") = {c}
  BY <1>4 DEF Where, Of
<1>6. c \in 1 .. Len(trace) /\ trace[c].operation = "construction_complete"
  BY <1>5 DEF Of, Places
<1>7. Upstream(graph, c) = Where(trace, Built)
  <2> DEFINE gathered(k) == {j \in Places(trace) : /\ j < k /\ trace[j].operation \in Built
                                                   /\ \A e \in j .. k - 1 : trace[e].operation # "construction_complete"}
  <2>1. Aggregated(trace) = UNION {gathered(k) \X {k} : k \in Of(trace, "construction_complete")}
    BY DEF Aggregated
  <2>2. gathered(c) = Where(trace, Built)
    <3>1. \A j \in Where(trace, Built) : j \in Places(trace) /\ j < c /\ trace[j].operation \in Built
      BY <1>4 DEF Where
    <3>2. ASSUME NEW j \in Where(trace, Built), NEW e \in j .. c - 1
          PROVE  trace[e].operation # "construction_complete"
      <4>1. j \in 1 .. Len(trace)
        BY <3>1 DEF Places
      <4>2. e \in 1 .. Len(trace) /\ e # c
        BY <1>1, <1>6, <4>1
      <4>3. QED
        BY <1>5, <4>2 DEF Of, Places
    <3>3. gathered(c) \subseteq Where(trace, Built)
      BY DEF Where
    <3>4. QED
      BY <3>1, <3>2, <3>3
  <2> HIDE DEF gathered
  <2>3. Aggregated(trace) = Where(trace, Built) \X {c}
    BY <1>5, <2>1, <2>2
  <2>4. \A e \in Gated(trace) : e[2] # c
    <3>1. \A e \in Gated(trace) : e[2] \in Of(trace, "node_created")
      <4> DEFINE before(j) == {d \in Of(trace, "discovery_complete") : d < j}
                 created == {i \in Of(trace, "node_created") : before(i) # {}}
      <4>1. Gated(trace) = {<<Max(before(j)), j>> : j \in created}
        BY DEF Gated
      <4>2. \A j \in created : j \in Of(trace, "node_created")
        OBVIOUS
      <4> HIDE DEF before, created
      <4>3. ASSUME NEW e \in Gated(trace)
            PROVE  \E j \in created : e[2] = j
        BY <4>1
      <4>4. QED
        BY <4>2, <4>3
    <3>2. c \notin Of(trace, "node_created")
      BY <1>6 DEF Of
    <3>3. QED
      BY <3>1, <3>2
  <2>5. Upstream(graph, c) = {e[1] : e \in {x \in Gated(trace) \union Aggregated(trace) : x[2] = c}}
    BY <1>1 DEF Upstream, Causality
  <2>6. {x \in Gated(trace) \union Aggregated(trace) : x[2] = c} = Where(trace, Built) \X {c}
    <3>1. \A x \in Where(trace, Built) \X {c} : x[2] = c
      OBVIOUS
    <3>2. QED
      BY <2>3, <2>4, <3>1
  <2>7. {e[1] : e \in Where(trace, Built) \X {c}} = Where(trace, Built)
    <3>1. \A j \in Where(trace, Built) : <<j, c>> \in Where(trace, Built) \X {c} /\ <<j, c>>[1] = j
      OBVIOUS
    <3>2. \A x \in Where(trace, Built) \X {c} : x[1] \in Where(trace, Built)
      OBVIOUS
    <3>3. QED
      BY <3>1, <3>2
  <2>8. QED
    BY <2>5, <2>6, <2>7
<1>8. UNION {Upstream(graph, j) : j \in Of(trace, "construction_complete")} = Where(trace, Built)
  BY <1>5, <1>7
<1>9. QED
  BY <1>2, <1>3, <1>8 DEF graph

\* The stages on either side of a stage edge follow each other.
LEMMA StagesFollow ==
  ASSUME NEW trace, NEW stages, Chained(trace, stages)
  PROVE  StagePairs(EvidenceGraphOf(trace)) \subseteq Follows
<1>1. EvidenceGraphOf(trace).events = trace /\ EvidenceGraphOf(trace).sequence = StageSequence(trace)
  BY DEF EvidenceGraphOf
<1>2. ASSUME NEW e \in StageSequence(trace)
      PROVE  <<trace[e[1]].stage, trace[e[2]].stage>> \in Follows
  <2>1. PICK k \in Places(trace) : k > 1 /\ trace[k].stage # trace[k - 1].stage /\ e = <<k - 1, k>>
    BY DEF StageSequence
  <2>2. k \in 2 .. Len(trace) /\ e[1] = k - 1 /\ e[2] = k
    BY <2>1 DEF Places, Chained
  <2>3. QED
    BY <2>1, <2>2 DEF Chained
<1>3. QED
  BY <1>1, <1>2 DEF StagePairs

\* The evidence alone tells how an artifact came to be emitted: each one authored descends from the
\* discovery, one that does not was carried, what was built is gathered by the construction, and the
\* stages follow each other to the verification (evidence.py:460-524).
THEOREM SurfaceTells == Spec => []EvidenceTellsTheBuild
<1>1. IInv /\ ToldInv => EvidenceTellsTheBuild
  <2>1. SUFFICES ASSUME IInv, ToldInv, NEW s \in Admitted
                 PROVE  LET b       == build[s]
                            graph   == EvidenceGraphOf(b.trace)
                            found   == {b.trace[k].subject : k \in {j \in Of(b.trace, "node_created") :
                                          Ancestors(graph, j) \intersect Of(b.trace, "discovery_complete") # {}}}
                            gathered == {b.trace[k].subject : k \in UNION {Upstream(graph, j) :
                                           j \in Of(b.trace, "construction_complete")}}
                        IN  /\ DOMAIN b.nodes \ found = {n \in DOMAIN b.nodes : b.nodes[n].role = "execution"}
                            /\ gathered = {n \in DOMAIN b.nodes : Says[b.nodes[n].art].kind \in {"CT", "CS", "CC"}}
                            /\ StagePairs(graph) \subseteq Follows
    BY DEF EvidenceTellsTheBuild, Follows
  <2> DEFINE b == build[s]
             trace == b.trace
             graph == EvidenceGraphOf(trace)
             created == Of(trace, "node_created")
             found == {trace[k].subject : k \in {j \in created :
                          Ancestors(graph, j) \intersect Of(trace, "discovery_complete") # {}}}
             gathered == {trace[k].subject : k \in UNION {Upstream(graph, j) : j \in Of(trace, "construction_complete")}}
  <2>2. s \in Structure /\ b.stage = "attest"
    BY <2>1, AdmittedIs
  <2>3. Told(b)
    BY <2>1, <2>2, Telling
  <2>4. /\ Chained(trace, LastOf(b.stage)) /\ Found(trace, Natives(b.nodes))
        /\ Gathers(trace, BuiltOf(b.nodes)) /\ trace \in Seq(Events)
    BY <2>2, <2>3 DEF Told, Late, Chained
  <2>5. \A n \in DOMAIN b.nodes : b.nodes[n].role \in {"native", "execution"}
    <3>1. \A n \in DOMAIN b.nodes : b.nodes[n].role \in Roles
      BY <2>1, AdmittedIs, NodesNamed
    <3>2. DOMAIN b.nodes = Retained(b.judged) /\ \A n \in DOMAIN b.nodes : b.nodes[n] = b.judged[n]
      BY <2>1, AdmittedIs
    <3>3. QED
      BY <3>1, <3>2 DEF Roles, Retained
  <2> HIDE DEF b, trace
  <2>6. /\ \A k \in created : Ancestors(graph, k) \intersect Of(trace, "discovery_complete") # {}
        /\ UNION {Upstream(graph, j) : j \in Of(trace, "construction_complete")} = Where(trace, Built)
    BY <2>4, CausesAre
  <2>7. StagePairs(graph) \subseteq Follows
    BY <2>4, StagesFollow
  <2> HIDE DEF graph
  <2>8. found = Natives(b.nodes)
    <3>1. created = Where(trace, {"node_created"})
      BY DEF Of, Where
    <3>2. {j \in created : Ancestors(graph, j) \intersect Of(trace, "discovery_complete") # {}} = created
      BY <2>6
    <3>3. found = {trace[k].subject : k \in Where(trace, {"node_created"})}
      BY <3>1, <3>2
    <3>4. QED
      BY <2>4, <3>3 DEF Found, Recorded
  <2>9. gathered = BuiltOf(b.nodes)
    BY <2>4, <2>6 DEF Gathers, Recorded
  <2>10. DOMAIN b.nodes \ Natives(b.nodes) = {n \in DOMAIN b.nodes : b.nodes[n].role = "execution"}
    BY <2>5 DEF Natives
  <2>11. BuiltOf(b.nodes) = {n \in DOMAIN b.nodes : Says[b.nodes[n].art].kind \in {"CT", "CS", "CC"}}
    BY DEF BuiltOf, Kind
  <2>12. /\ DOMAIN b.nodes \ found = {n \in DOMAIN b.nodes : b.nodes[n].role = "execution"}
         /\ gathered = {n \in DOMAIN b.nodes : Says[b.nodes[n].art].kind \in {"CT", "CS", "CC"}}
    <3> HIDE DEF found, gathered
    <3>1. QED
      BY <2>8, <2>9, <2>10, <2>11
  <2>13. QED
    BY <2>7, <2>12 DEF found, gathered, created, graph, trace, b
<1>2. QED
  BY <1>1, SurfaceInvariant, SurfaceTold, PTL

-----------------------------------------------------------------------------
(* Why every build comes to an end.  That a stage does something is         *)
(* fairness, and left to TLC; that it cannot do so for ever is not.         *)

\* The stages a build has before it, the one it is at included.
StagesLeft ==
  [carry |-> 7, import |-> 6, resolve |-> 5, govern |-> 4, write |-> 3, verify |-> 2, attest |-> 1,
   idle |-> 0]

\* Build c is what becomes of b, and is nearer its end: by a stage, or by a file that was written.
Nearer(b, c) ==
  \/ StagesLeft[c.stage] < StagesLeft[b.stage]
  \/ /\ b.stage = "write" /\ c.stage = "write"
     /\ Cardinality(b.pending) \in Nat
     /\ Cardinality(c.pending) \in Nat
     /\ Cardinality(c.pending) < Cardinality(b.pending)

\* Build c is as far as b.
AsFar(b, c) == c.stage = b.stage /\ c.pending = b.pending

\* What a build does takes it nearer its end, which is the progress FairSpec counts on; and nothing
\* another build, an author or a death does takes it further away.
BuildsRunOut ==
  [][\A s \in Structure :
       /\ Step(s) => Progress(s) /\ Nearer(build[s], build'[s])
       /\ build[s].stage # "idle" => Nearer(build[s], build'[s]) \/ AsFar(build[s], build'[s])]_vars

\* A platform whose surface changes takes steadiness from the builds of its domains, and no more.
LEMMA DisturbLeaves ==
  ASSUME NEW builds, DOMAIN builds = Structure, NEW before, NEW after, NEW s \in Structure,
         builds[s].stage # "idle" => DOMAIN builds[s] = Fields
  PROVE  LET c == Disturb(builds, before, after)[s]
         IN  c.stage = builds[s].stage /\ (c.stage # "idle" => c.pending = builds[s].pending)
<1> DEFINE d == Disturb(builds, before, after)
<1>1. CASE d[s] = builds[s]
  BY <1>1
<1>2. CASE d[s] # builds[s]
  <2>1. builds[s].stage # "idle" /\ d[s] = [builds[s] EXCEPT !.steady = FALSE]
    BY <1>2 DEF Disturb
  <2>2. DOMAIN builds[s] = Fields
    BY <2>1
  <2> HIDE DEF d
  <2>3. d[s].stage = builds[s].stage /\ d[s].pending = builds[s].pending
    BY <2>1, <2>2 DEF Fields
  <2>4. QED
    BY <2>3 DEF d
<1>3. QED
  BY <1>1, <1>2

\* A build one step on, while the platform may or may not take steadiness from it.
LEMMA DisturbedMove ==
  ASSUME IInv, NEW s \in Structure, NEW c, c.stage # "idle" => DOMAIN c = Fields,
         build' = Disturb([build EXCEPT ![s] = c], disk, disk'), NEW t \in Structure
  PROVE  /\ t = s => build'[t].stage = c.stage /\ (c.stage # "idle" => build'[t].pending = c.pending)
         /\ t # s /\ build[t].stage # "idle" => AsFar(build[t], build'[t])
<1> DEFINE builds == [build EXCEPT ![s] = c]
<1>1. DOMAIN builds = Structure /\ builds[s] = c /\ \A u \in Structure : u # s => builds[u] = build[u]
  BY DEF IInv, BuildInv
<1>2. \A u \in Structure : build[u].stage # "idle" => DOMAIN build[u] = Fields
  BY Running DEF IInv
<1> HIDE DEF builds
<1>3. builds[t].stage # "idle" => DOMAIN builds[t] = Fields
  BY <1>1, <1>2
<1>4. /\ build'[t].stage = builds[t].stage
      /\ build'[t].stage # "idle" => build'[t].pending = builds[t].pending
  <2>1. build' = Disturb(builds, disk, disk')
    BY DEF builds
  <2>2. QED
    BY <1>1, <1>3, <2>1, DisturbLeaves
<1>5. QED
  BY <1>1, <1>4 DEF AsFar

\* A build one step on, the disk being what it was.
LEMMA QuietMove ==
  ASSUME IInv, NEW s \in Structure, NEW c, Proceed(s, c), NEW t \in Structure
  PROVE  /\ t = s => build'[t] = c
         /\ t # s => build'[t] = build[t]
BY DEF Proceed, IInv, BuildInv

\* Fewer stages left is progress.
LEMMA StageAdvances ==
  ASSUME NEW s \in Structure, StagesLeft[build'[s].stage] < StagesLeft[build[s].stage],
         StagesLeft[build[s].stage] \in Nat
  PROVE  Progress(s) /\ Nearer(build[s], build'[s])
BY DEF Progress, Nearer

\* The file a build writes next is one that is pending, and those pending are finitely many.
LEMMA PendingIs ==
  ASSUME IInv, NEW s \in Structure, build[s].stage = "write"
  PROVE  /\ IsFiniteSet(build[s].pending)
         /\ build[s].pending # {} => First(build[s].pending) \in build[s].pending
<1> DEFINE b == build[s]
<1>1. Sound(b, disk[s], sealed)
  BY Running DEF IInv
<1> HIDE DEF b
<1>2. b.pending \subseteq DOMAIN b.nodes /\ DOMAIN b.nodes \subseteq Name
  BY <1>1, NodesNamed DEF Sound, Witnessed
<1>3. IsFiniteSet(DOMAIN b.nodes)
  <2>1. Named(Whole(b)) /\ Governed(b)
    BY <1>1 DEF Sound, Governed
  <2>2. DOMAIN b.nodes \subseteq DOMAIN Whole(b)
    BY <2>1 DEF Governed, Whole, Retained
  <2>3. IsFiniteSet(DOMAIN Whole(b))
    BY <2>1 DEF Named
  <2>4. QED
    BY <2>2, <2>3, FS_Subset
<1>4. IsFiniteSet(b.pending)
  BY <1>2, <1>3, FS_Subset
<1>5. b.pending # {} => First(b.pending) \in b.pending
  BY <1>2, FirstIs
<1>6. QED
  BY <1>4, <1>5 DEF b

\* What a step of a build makes of every build.
Moves(s) ==
  /\ Progress(s) /\ Nearer(build[s], build'[s])
  /\ \A t \in Structure \ {s} : build[t].stage # "idle" => AsFar(build[t], build'[t])

\* S1 to S4, S8 and S9 take a build to another stage.
LEMMA StagesMove ==
  ASSUME IInv, NEW s \in Structure,
         \/ CarryCapabilities(s) \/ ImportGovernance(s) \/ Resolve(s)
         \/ Govern(s) \/ Verify(s) \/ Attest(s)
  PROVE  Moves(s)
<1> DEFINE b == build[s]
<1>1. DOMAIN b = Fields /\ b.stage \in Stages
  <2>1. b.stage # "idle"
    BY DEF CarryCapabilities, ImportGovernance, Resolve, Govern, Verify, Attest
  <2>2. QED
    BY <2>1, Running DEF IInv
<1>2. Idle.stage = "idle"
  BY DEF Idle
<1>3. ASSUME NEW c, Proceed(s, c), StagesLeft[c.stage] < StagesLeft[b.stage]
      PROVE  Moves(s)
  <2>1. build'[s] = c /\ \A t \in Structure \ {s} : build'[t] = build[t]
    BY <1>3, QuietMove
  <2>2. StagesLeft[b.stage] \in Nat
    BY <1>1 DEF StagesLeft, Stages
  <2>3. QED
    BY <1>3, <2>1, <2>2, StageAdvances DEF Moves, AsFar
<1>4. ASSUME Refuse(s)
      PROVE  Moves(s)
  <2>1. StagesLeft[Idle.stage] < StagesLeft[b.stage]
    BY <1>1, <1>2 DEF StagesLeft, Stages
  <2>2. Proceed(s, Idle)
    BY <1>4 DEF Refuse, Proceed
  <2>3. QED
    BY <1>3, <2>1, <2>2
<1>5. ASSUME CarryCapabilities(s)
      PROVE  Moves(s)
  <2> DEFINE c == [b EXCEPT !.stage = "import", !.nodes = With(@, Carried(b), "execution")]
  <2>1. Proceed(s, c) /\ b.stage = "carry"
    BY <1>5 DEF CarryCapabilities
  <2>2. c.stage = "import"
    BY <1>1 DEF Fields
  <2> HIDE DEF c
  <2>3. QED
    BY <1>3, <2>1, <2>2 DEF StagesLeft
<1>6. ASSUME ImportGovernance(s)
      PROVE  Moves(s)
  <2> DEFINE c == [b EXCEPT !.stage = "resolve", !.nodes = With(@, Closure(b), "governance")]
  <2>1. Proceed(s, c) /\ b.stage = "import"
    BY <1>6 DEF ImportGovernance
  <2>2. c.stage = "resolve"
    BY <1>1 DEF Fields
  <2> HIDE DEF c
  <2>3. QED
    BY <1>3, <2>1, <2>2 DEF StagesLeft
<1>7. ASSUME NEW c, Proceed(s, c), DOMAIN c = Fields,
             \/ b.stage = "resolve" /\ c.stage = "govern"
             \/ b.stage = "govern" /\ c.stage = "write"
             \/ b.stage = "verify" /\ c.stage = "attest"
      PROVE  Moves(s)
  BY <1>3, <1>7 DEF StagesLeft
<1>8. ASSUME Resolve(s)
      PROVE  Moves(s)
  <2> DEFINE edges == TypedEdges(b.nodes, b.edges)
             typed == Listed({e \in edges : e.kind # "REFERENCES"})
             c == [b EXCEPT
                !.stage = "govern", !.edges = edges, !.table = Allocated(b.nodes),
                !.trace = @ \o [k \in DOMAIN typed |-> Event("S2", "edge_typed", typed[k].from)]
                            \o <<Event("S3", "addresses_allocated", NoSubject)>>]
  <2>1. b.stage = "resolve" /\ (Proceed(s, c) \/ Refuse(s))
    BY <1>8 DEF Resolve
  <2>2. c.stage = "govern" /\ DOMAIN c = Fields
    <3> HIDE DEF edges, typed
    <3>1. QED
      BY <1>1 DEF Fields
  <2> HIDE DEF c
  <2>3. QED
    BY <1>4, <1>7, <2>1, <2>2
<1>9. ASSUME Govern(s)
      PROVE  Moves(s)
  <2> DEFINE kept == Retained(b.nodes)
             c == [b EXCEPT
                !.stage = "write", !.pending = kept,
                !.nodes = Restrict(b.nodes, kept),
                !.judged = b.nodes,
                !.table = Strip(b.table, DOMAIN b.nodes \ kept),
                !.edges = {e \in b.edges : e.from \in kept /\ e.to \in kept},
                !.trace = Append(@, Event("S4", "governance_complete", NoSubject))
                            \o Constructed(kept, b.nodes) \o Projected(kept)]
  <2>1. b.stage = "govern" /\ (Proceed(s, c) \/ Refuse(s))
    BY <1>9 DEF Govern
  <2>2. c.stage = "write" /\ DOMAIN c = Fields
    <3> HIDE DEF kept
    <3>1. QED
      BY <1>1 DEF Fields
  <2> HIDE DEF c
  <2>3. QED
    BY <1>4, <1>7, <2>1, <2>2
<1>10. ASSUME Verify(s)
       PROVE  Moves(s)
  <2> DEFINE c == [b EXCEPT !.stage = "attest",
                            !.trace = Append(@, Event("S8", "verification_complete", NoSubject))]
  <2>1. b.stage = "verify" /\ (Proceed(s, c) \/ Refuse(s))
    BY <1>10 DEF Verify
  <2>2. c.stage = "attest" /\ DOMAIN c = Fields
    BY <1>1 DEF Fields
  <2> HIDE DEF c
  <2>3. QED
    BY <1>4, <1>7, <2>1, <2>2
<1>11. ASSUME Attest(s)
       PROVE  Moves(s)
  BY <1>4, <1>11 DEF Attest
<1>12. QED
  BY <1>5, <1>6, <1>8, <1>9, <1>10, <1>11

\* S7 writes one file fewer each time, and is done when none is left.
LEMMA WritingMoves ==
  ASSUME IInv, NEW s \in Structure, WriteArtifact(s) \/ WriteProjections(s)
  PROVE  Moves(s)
<1> DEFINE b == build[s]
<1>1. b.stage = "write"
  BY DEF WriteArtifact, WriteProjections
<1>2. DOMAIN b = Fields
  BY <1>1, Running DEF IInv
<1>3. ASSUME NEW c, c.stage # "idle" => DOMAIN c = Fields,
             build' = Disturb([build EXCEPT ![s] = c], disk, disk'),
             \/ c.stage \in {"verify", "idle"}
             \/ c.stage = "write" /\ b.pending # {} /\ c.pending = b.pending \ {First(b.pending)}
      PROVE  Moves(s)
  <2>1. /\ build'[s].stage = c.stage /\ (c.stage # "idle" => build'[s].pending = c.pending)
        /\ \A t \in Structure \ {s} : build[t].stage # "idle" => AsFar(build[t], build'[t])
    <3> HIDE DEF b
    <3>1. ASSUME NEW t \in Structure
          PROVE  /\ t = s => build'[t].stage = c.stage /\ (c.stage # "idle" => build'[t].pending = c.pending)
                 /\ t # s /\ build[t].stage # "idle" => AsFar(build[t], build'[t])
      BY <1>3, DisturbedMove
    <3>2. QED
      BY <3>1
  <2>2. CASE c.stage \in {"verify", "idle"}
    <3>1. StagesLeft[build'[s].stage] < StagesLeft[b.stage] /\ StagesLeft[b.stage] \in Nat
      BY <1>1, <2>1, <2>2 DEF StagesLeft
    <3>2. QED
      BY <2>1, <3>1, StageAdvances DEF Moves
  <2>3. CASE c.stage = "write" /\ b.pending # {} /\ c.pending = b.pending \ {First(b.pending)}
    <3>1. IsFiniteSet(b.pending) /\ First(b.pending) \in b.pending
      BY <1>1, <2>3, PendingIs
    <3>2. c.pending \subseteq b.pending /\ c.pending # b.pending
      BY <2>3, <3>1
    <3>3. /\ Cardinality(b.pending) \in Nat /\ Cardinality(c.pending) \in Nat
          /\ Cardinality(c.pending) < Cardinality(b.pending)
      BY <3>1, <3>2, FS_Subset, FS_CardinalityType
    <3>4. build'[s].pending = c.pending /\ build'[s].stage = "write"
      BY <2>1, <2>3
    <3>5. QED
      BY <1>1, <2>1, <3>2, <3>3, <3>4 DEF Moves, Progress, Nearer
  <2>4. QED
    BY <1>3, <2>2, <2>3
<1>4. CASE WriteArtifact(s)
  <2> DEFINE n == First(b.pending)
             c(written) == [b EXCEPT !.pending = b.pending \ {n}, !.trace = Witness(b.trace, n, written),
                                     !.failed = b.failed \/ ~written]
  <2>1. PICK written \in BOOLEAN : build' = Disturb([build EXCEPT ![s] = c(written)], disk, disk')
    BY <1>4 DEF WriteArtifact
  <2>2. b.pending # {}
    BY <1>4 DEF WriteArtifact
  <2>3. c(written).stage = "write" /\ DOMAIN c(written) = Fields /\ c(written).pending = b.pending \ {n}
    BY <1>1, <1>2 DEF Fields
  <2> HIDE DEF c
  <2>4. QED
    BY <1>3, <2>1, <2>2, <2>3
<1>5. CASE WriteProjections(s)
  <2> DEFINE next == [b EXCEPT !.stage = "verify",
                        !.trace = b.trace \o <<Event("S7", "vocabulary_materialized", NoSubject),
                                               Event("S7", "tokenized_materialized", NoSubject),
                                               Event("S7", "evidence_materialized", NoSubject)>>]
             c(written) == IF b.failed \/ ~written THEN Idle ELSE next
  <2>1. PICK written \in BOOLEAN : build' = Disturb([build EXCEPT ![s] = c(written)], disk, disk')
    BY <1>5 DEF WriteProjections
  <2>2. next.stage = "verify" /\ DOMAIN next = Fields
    BY <1>2 DEF Fields
  <2>3. Idle.stage = "idle"
    BY DEF Idle
  <2> HIDE DEF next
  <2>4. c(written).stage \in {"verify", "idle"} /\ (c(written).stage # "idle" => DOMAIN c(written) = Fields)
    BY <2>2, <2>3
  <2> HIDE DEF c
  <2>5. QED
    BY <1>3, <2>1, <2>4
<1>6. QED
  BY <1>4, <1>5

\* No build goes on for ever, and none keeps another from its end.
THEOREM BuildsDescend == Spec => BuildsRunOut
<1>1. ASSUME IInv, [Next]_vars
      PROVE  \A s \in Structure :
               /\ Step(s) => Progress(s) /\ Nearer(build[s], build'[s])
               /\ build[s].stage # "idle" => Nearer(build[s], build'[s]) \/ AsFar(build[s], build'[s])
  <2>1. \A s \in Structure : Step(s) => Moves(s)
    BY <1>1, StagesMove, WritingMoves DEF Step
  <2>2. ASSUME NEW s \in Structure, build[s].stage # "idle"
        PROVE  Nearer(build[s], build'[s]) \/ AsFar(build[s], build'[s])
    <3>1. CASE UNCHANGED vars
      BY <3>1 DEF vars, AsFar
    <3>2. ASSUME NEW t \in Structure, Step(t)
          PROVE  Nearer(build[s], build'[s]) \/ AsFar(build[s], build'[s])
      BY <2>1, <2>2, <3>2 DEF Moves
    <3>3. ASSUME NEW t \in Structure, Extract(t)
          PROVE  Nearer(build[s], build'[s]) \/ AsFar(build[s], build'[s])
      <4>1. t # s
        BY <2>2, <3>3 DEF Extract
      <4>2. \E c : build' = [build EXCEPT ![t] = c]
        BY <3>3, Zenon DEF Extract, Proceed
      <4>3. QED
        BY <4>1, <4>2 DEF AsFar
    <3>4. ASSUME NEW t \in Structure, Edit(t)
          PROVE  Nearer(build[s], build'[s]) \/ AsFar(build[s], build'[s])
      BY <3>4 DEF Edit, AsFar
    <3>5. ASSUME NEW t \in Structure, Die(t)
          PROVE  Nearer(build[s], build'[s]) \/ AsFar(build[s], build'[s])
      <4>1. build' = [build EXCEPT ![t] = Idle]
        BY <3>5 DEF Die, Refuse
      <4>2. CASE t = s
        <5>1. build'[s] = Idle /\ build[s].stage \in Stages
          BY <1>1, <2>2, <4>1, <4>2, Running DEF IInv, BuildInv
        <5>2. QED
          BY <5>1 DEF Nearer, StagesLeft, Stages, Idle
      <4>3. CASE t # s
        BY <4>1, <4>3 DEF AsFar
      <4>4. QED
        BY <4>2, <4>3
    <3>6. ASSUME NEW t \in Structure, Clean(t)
          PROVE  Nearer(build[s], build'[s]) \/ AsFar(build[s], build'[s])
      <4>1. build' = Disturb(build, disk, disk') /\ DOMAIN build = Structure
        BY <1>1, <3>6 DEF Clean, IInv, BuildInv
      <4>2. DOMAIN build[s] = Fields
        BY <1>1, <2>2, Running DEF IInv
      <4>3. QED
        BY <2>2, <4>1, <4>2, DisturbLeaves DEF AsFar
    <3>7. QED
      BY <1>1, <3>1, <3>2, <3>3, <3>4, <3>5, <3>6 DEF Next
  <2>3. QED
    BY <2>1, <2>2 DEF Moves
<1>2. IInv /\ [Next]_vars
        => [\A s \in Structure :
              /\ Step(s) => Progress(s) /\ Nearer(build[s], build'[s])
              /\ build[s].stage # "idle" => Nearer(build[s], build'[s]) \/ AsFar(build[s], build'[s])]_vars
  BY <1>1
<1>3. QED
  BY <1>2, SurfaceInvariant, PTL DEF Spec, BuildsRunOut
==============================================================================
