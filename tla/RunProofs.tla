----------------------------- MODULE RunProofs -----------------------------
(***************************************************************************)
(* Proofs about the runs of Contract, for every set of transforms,         *)
(* capabilities and drafts, every depth lowering follows and every number  *)
(* of passes: where a run can stand in what was sealed (FramesAccounted),  *)
(* what it holds that is random (RandomAccounted), how far an act has come *)
(* (ActAccounted) and which of a case's records are still to come          *)
(* (CaseAccounted).  At the end: why every run comes to one.               *)
(***************************************************************************)
EXTENDS ContractProofs, SequenceTheorems

-----------------------------------------------------------------------------
(* Stacks.                                                                 *)

\* A sequence over a set is a sequence.
LEMMA SequenceIs ==
  ASSUME NEW S, NEW q \in Seq(S)
  PROVE  IsSequence(q) /\ Len(q) \in Nat /\ DOMAIN q = 1..Len(q)
<1>1. Len(q) \in Nat /\ DOMAIN q = 1..Len(q) /\ q = [k \in 1..Len(q) |-> q[k]]
  OBVIOUS
<1>2. \A k \in 1..Len(q) : q[k] \in Range(q)
  BY <1>1 DEF Range
<1>3. q \in Seq(Range(q))
  BY <1>1, <1>2
<1>4. QED
  BY <1>1, <1>3 DEF IsSequence

\* A sequence with one element more.
LEMMA Appended ==
  ASSUME NEW s, IsSequence(s), NEW e
  PROVE  /\ IsSequence(Append(s, e)) /\ Len(s) \in Nat /\ DOMAIN s = 1..Len(s)
         /\ Len(Append(s, e)) = Len(s) + 1 /\ DOMAIN Append(s, e) = 1..(Len(s) + 1)
         /\ Append(s, e)[Len(s) + 1] = e
         /\ \A k \in 1..Len(s) : Append(s, e)[k] = s[k]
<1> DEFINE S == Range(s) \union {e}
<1>1. s \in Seq(S) /\ e \in S
  BY DEF IsSequence
<1>2. Append(s, e) \in Seq(S)
  BY <1>1
<1> HIDE DEF S
<1>3. IsSequence(Append(s, e))
  BY <1>2, SequenceIs
<1>4. QED
  BY <1>1, <1>3

\* A sequence without its last element.
LEMMA OutsideOf ==
  ASSUME NEW s, IsSequence(s), s # <<>>
  PROVE  /\ IsSequence(Outside(s)) /\ Len(s) \in Nat /\ Len(s) > 0 /\ DOMAIN s = 1..Len(s)
         /\ Len(Outside(s)) = Len(s) - 1 /\ DOMAIN Outside(s) = 1..(Len(s) - 1)
         /\ \A k \in 1..(Len(s) - 1) : Outside(s)[k] = s[k]
<1>1. s \in Seq(Range(s))
  BY DEF IsSequence
<1>2. Len(s) \in Nat /\ Len(s) > 0
  BY <1>1
<1>3. Outside(s) \in Seq(Range(s)) /\ Len(Outside(s)) = Len(s) - 1 /\ \A k \in 1..(Len(s) - 1) : Outside(s)[k] = s[k]
  <2> DEFINE n == Len(s) - 1
             q == SubSeq(s, 1, n)
  <2>1. n \in Int /\ 1 \in Int /\ n >= 0 /\ \A k \in 1..n : s[k] \in Range(s) /\ 1 + k - 1 = k
    BY <1>1, <1>2 DEF Range
  <2> HIDE DEF n
  <2>2. /\ q \in Seq(Range(s)) /\ Len(q) = (IF 1 <= n THEN n - 1 + 1 ELSE 0)
        /\ \A k \in 1..(n - 1 + 1) : q[k] = s[1 + k - 1]
    BY <2>1, SubSeqProperties
  <2> HIDE DEF q
  <2>3. q \in Seq(Range(s)) /\ Len(q) = n /\ \A k \in 1..n : q[k] = s[k]
    BY <2>1, <2>2
  <2>4. QED
    BY <2>3 DEF q, n, Outside
<1>4. IsSequence(Outside(s)) /\ DOMAIN Outside(s) = 1..Len(Outside(s))
  BY <1>3, SequenceIs
<1>5. QED
  BY <1>1, <1>2, <1>3, <1>4

\* A sequence of one element.
LEMMA One ==
  ASSUME NEW e
  PROVE  IsSequence(<<e>>) /\ DOMAIN <<e>> = 1..1 /\ Len(<<e>>) = 1 /\ <<e>>[1] = e
<1>1. <<e>> \in Seq({e})
  OBVIOUS
<1>2. IsSequence(<<e>>)
  BY <1>1, SequenceIs
<1>3. QED
  BY <1>2

-----------------------------------------------------------------------------
(* Where a run can stand in what is sealed of a composition L.             *)

IsFrame(f) == f = [of |-> f.of, form |-> f.form, path |-> f.path, pos |-> f.pos, pass |-> f.pass, random |-> f.random]
Line(f)    == f.form.stream[f.pos]
Onto(f)    == Append(f.path, <<Line(f).as, IF Line(f).kind = "loop" THEN f.pass + 1 ELSE 0>>)

\* A frame runs the sealed form of a transform, step by step; only a loop makes passes.
Stands(L, f) ==
  /\ IsFrame(f)
  /\ f.of \in DOMAIN L /\ f.form = Forms(L)[f.of]
  /\ f.pos \in 1..(Len(f.form.stream) + 1) /\ f.pass \in 0..MaxPasses
  /\ f.pass > 0 => f.pos <= Len(f.form.stream) /\ Line(f).kind = "loop"

\* What is nested k deep lowers within as many levels as are left.
Deep(L, f, k) == k <= MaxDepth + 1 /\ (L[f.of].kind # "atom" => f.of \in Fits(L, MaxDepth + 2 - k))

\* One frame waits for the other: it stands at the step whose body the other runs.
Entered(outer, inner) ==
  /\ outer.pos <= Len(outer.form.stream)
  /\ Line(outer).kind # "atom" /\ inner.of = Line(outer).runs /\ inner.path = Onto(outer)
  /\ Line(outer).kind = "loop" => outer.pass < MaxPasses

Stacked(L, s) ==
  /\ IsSequence(s)
  /\ \A k \in DOMAIN s : Stands(L, s[k]) /\ Deep(L, s[k], k) /\ (k > 1 => Entered(s[k - 1], s[k]))
  /\ s # <<>> => s[1].path = <<>>

\* A run of a transform that has just been entered.
LEMMA StackedOne ==
  ASSUME NEW L, IsLibrary(L), Lowers(L), NEW t \in DOMAIN L
  PROVE  Stacked(L, <<Frame(t, Forms(L)[t], <<>>)>>)
<1> DEFINE f == Frame(t, Forms(L)[t], <<>>)
<1>1. /\ IsFrame(f) /\ f.of = t /\ f.form = Forms(L)[t] /\ f.pos = 1 /\ f.pass = 0 /\ f.path = <<>>
  BY DEF IsFrame, Frame
<1> HIDE DEF f
<1>2. Len(f.form.stream) \in Nat
  BY <1>1, FormLines
<1>3. MaxPasses \in Nat /\ MaxDepth \in Nat
  BY ContractAssumption, TransformsAssumption
<1>4. Stands(L, f)
  BY <1>1, <1>2, <1>3 DEF Stands
<1>5. Deep(L, f, 1)
  <2>1. L[t].kind # "atom" => t \in Fits(L, MaxDepth + 1)
    BY DEF Lowers
  <2>2. MaxDepth + 2 - 1 = MaxDepth + 1 /\ 1 <= MaxDepth + 1
    BY <1>3
  <2>3. QED
    BY <1>1, <2>1, <2>2 DEF Deep
<1>6. IsSequence(<<f>>) /\ DOMAIN <<f>> = 1..1 /\ <<f>>[1] = f
  BY One
<1>7. Stacked(L, <<f>>)
  BY <1>1, <1>4, <1>5, <1>6 DEF Stacked
<1>8. QED
  BY <1>7 DEF f

\* The frames that are left when the innermost ends.
LEMMA StackedOutside ==
  ASSUME NEW L, NEW s, Stacked(L, s), s # <<>>
  PROVE  Stacked(L, Outside(s))
<1>1. IsSequence(s)
  BY DEF Stacked
<1>2. /\ IsSequence(Outside(s)) /\ Len(s) \in Nat /\ DOMAIN s = 1..Len(s)
      /\ DOMAIN Outside(s) = 1..(Len(s) - 1)
      /\ \A k \in 1..(Len(s) - 1) : Outside(s)[k] = s[k]
  BY <1>1, OutsideOf
<1>3. Outside(s) # <<>> => 1 \in 1..(Len(s) - 1)
  <2>1. Outside(s) # <<>> => Len(Outside(s)) > 0
    BY <1>2 DEF IsSequence
  <2>2. QED
    BY <1>1, <1>2, <2>1, OutsideOf
<1>4. ASSUME NEW k \in 1..(Len(s) - 1)
      PROVE  Stands(L, Outside(s)[k]) /\ Deep(L, Outside(s)[k], k) /\ (k > 1 => Entered(Outside(s)[k - 1], Outside(s)[k]))
  <2>1. k \in DOMAIN s /\ Outside(s)[k] = s[k]
    BY <1>2
  <2>2. k > 1 => Outside(s)[k - 1] = s[k - 1]
    BY <1>2
  <2>3. QED
    BY <2>1, <2>2 DEF Stacked
<1>5. QED
  BY <1>2, <1>3, <1>4 DEF Stacked

\* A stack may grow by what its last frame enters, if that stands and is not too deep.
LEMMA StackedAppend ==
  ASSUME NEW L, NEW s, Stacked(L, s), NEW f, Stands(L, f), Deep(L, f, Len(s) + 1),
         IF s = <<>> THEN f.path = <<>> ELSE Entered(s[Len(s)], f)
  PROVE  Stacked(L, Append(s, f))
<1>1. IsSequence(s)
  BY DEF Stacked
<1> DEFINE q == Append(s, f)
           n == Len(s)
<1>2. /\ IsSequence(q) /\ n \in Nat /\ DOMAIN s = 1..n /\ DOMAIN q = 1..(n + 1)
      /\ q[n + 1] = f /\ \A k \in 1..n : q[k] = s[k]
  BY <1>1, Appended
<1>3. s = <<>> <=> n = 0
  BY <1>1 DEF IsSequence
<1> HIDE DEF q, n
<1>4. ASSUME NEW k \in 1..(n + 1)
      PROVE  Stands(L, q[k]) /\ Deep(L, q[k], k) /\ (k > 1 => Entered(q[k - 1], q[k]))
  <2>1. CASE k \in 1..n
    <3>1. q[k] = s[k] /\ (k > 1 => q[k - 1] = s[k - 1])
      BY <1>2, <2>1
    <3>2. QED
      BY <1>2, <2>1, <3>1 DEF Stacked
  <2>2. CASE k = n + 1
    <3>1. k > 1 => s # <<>> /\ q[k - 1] = s[n]
      BY <1>2, <1>3, <2>2
    <3>2. QED
      BY <1>2, <2>2, <3>1 DEF n
  <2>3. QED
    BY <1>2, <2>1, <2>2
<1>5. q[1].path = <<>>
  <2>1. CASE s = <<>>
    BY <1>2, <1>3, <2>1
  <2>2. CASE s # <<>>
    <3>1. 1 \in 1..n
      BY <1>2, <1>3, <2>2
    <3>2. QED
      BY <1>2, <2>2, <3>1 DEF Stacked
  <2>3. QED
    BY <2>1, <2>2
<1>6. Stacked(L, q)
  BY <1>2, <1>4, <1>5 DEF Stacked
<1>7. QED
  BY <1>6 DEF q

\* The last frame may be replaced by one that has gone on in the same form.
LEMMA StackedReplace ==
  ASSUME NEW L, NEW s, Stacked(L, s), s # <<>>, NEW f, Stands(L, f),
         f.of = s[Len(s)].of, f.path = s[Len(s)].path
  PROVE  Stacked(L, Append(Outside(s), f))
<1>1. IsSequence(s) /\ Stacked(L, Outside(s))
  BY StackedOutside DEF Stacked
<1> DEFINE u == Outside(s)
           n == Len(s)
<1>2. /\ n \in Nat /\ n > 0 /\ DOMAIN s = 1..n /\ Len(u) = n - 1 /\ DOMAIN u = 1..(n - 1) /\ IsSequence(u)
      /\ \A k \in 1..(n - 1) : u[k] = s[k]
  BY <1>1, OutsideOf
<1>3. u = <<>> <=> n = 1
  BY <1>2 DEF IsSequence
<1> HIDE DEF u, n
<1>4. Deep(L, f, Len(u) + 1)
  <2>1. Deep(L, s[n], n) /\ Len(u) + 1 = n
    BY <1>2 DEF Stacked
  <2>2. QED
    BY <2>1 DEF Deep, n
<1>5. IF u = <<>> THEN f.path = <<>> ELSE Entered(u[Len(u)], f)
  <2>1. CASE n = 1
    <3>1. s[1].path = <<>>
      BY DEF Stacked
    <3>2. QED
      BY <1>3, <2>1, <3>1 DEF n
  <2>2. CASE n # 1
    <3>1. Entered(s[n - 1], s[n]) /\ u[Len(u)] = s[n - 1]
      BY <1>2, <2>2 DEF Stacked
    <3>2. QED
      BY <1>3, <2>2, <3>1 DEF Entered, n
  <2>3. QED
    BY <2>1, <2>2
<1>6. QED
  BY <1>1, <1>4, <1>5, StackedAppend DEF u

\* What a frame becomes when its step is done, field by field.
LEMMA SteppedIs ==
  ASSUME NEW of, NEW form, NEW path, NEW pos, NEW pass, NEW held, NEW symbol, NEW random
  PROVE  Stepped([of |-> of, form |-> form, path |-> path, pos |-> pos, pass |-> pass, random |-> held], symbol, random) =
           [of |-> of, form |-> form, path |-> path, pos |-> pos + 1, pass |-> 0,
            random |-> IF random THEN held \union {symbol} ELSE held \ {symbol}]
<1> DEFINE after == IF random THEN held \union {symbol} ELSE held \ {symbol}
           next == pos + 1
           f == [of |-> of, form |-> form, path |-> path, pos |-> pos, pass |-> pass, random |-> held]
           g == [of |-> of, form |-> form, path |-> path, pos |-> next, pass |-> pass, random |-> held]
           h == [of |-> of, form |-> form, path |-> path, pos |-> next, pass |-> 0, random |-> held]
<1> HIDE DEF after, next
<1>1. [f EXCEPT !.pos = next] = g
  OBVIOUS
<1>2. [g EXCEPT !.pass = 0] = h
  OBVIOUS
<1>3. [h EXCEPT !.random = after] = [of |-> of, form |-> form, path |-> path, pos |-> next, pass |-> 0, random |-> after]
  OBVIOUS
<1>4. f.pos = pos /\ f.random = held
  OBVIOUS
<1> HIDE DEF f, g, h
<1>5. Stepped(f, symbol, random) = [[[f EXCEPT !.pos = next] EXCEPT !.pass = 0] EXCEPT !.random = after]
  BY <1>4 DEF Stepped, next, after
<1>6. QED
  BY <1>1, <1>2, <1>3, <1>5 DEF f, next, after

\* A frame that has done a step stands at the next.
LEMMA SteppedStands ==
  ASSUME NEW L, IsLibrary(L), Lowers(L), NEW f, Stands(L, f), f.pos <= Len(f.form.stream), NEW symbol, NEW random
  PROVE  /\ Stands(L, Stepped(f, symbol, random))
         /\ Stepped(f, symbol, random) =
              [of |-> f.of, form |-> f.form, path |-> f.path, pos |-> f.pos + 1, pass |-> 0,
               random |-> IF random THEN f.random \union {symbol} ELSE f.random \ {symbol}]
<1> DEFINE g == [of |-> f.of, form |-> f.form, path |-> f.path, pos |-> f.pos + 1, pass |-> 0,
                 random |-> IF random THEN f.random \union {symbol} ELSE f.random \ {symbol}]
<1>1. Stepped(f, symbol, random) = g
  <2>1. f = [of |-> f.of, form |-> f.form, path |-> f.path, pos |-> f.pos, pass |-> f.pass, random |-> f.random]
    BY DEF Stands, IsFrame
  <2>2. Stepped([of |-> f.of, form |-> f.form, path |-> f.path, pos |-> f.pos, pass |-> f.pass, random |-> f.random],
                symbol, random) = g
    BY SteppedIs
  <2>3. QED
    BY <2>1, <2>2
<1>2. Len(f.form.stream) \in Nat /\ f.pos \in Nat /\ MaxPasses \in Nat
  BY FormLines, ContractAssumption DEF Stands
<1>3. Stands(L, g)
  BY <1>2 DEF Stands, IsFrame
<1>4. QED
  BY <1>1, <1>3

\* What a step of a molecule is sealed as.
LEMMA MoleculeLine ==
  ASSUME NEW L, IsLibrary(L), Lowers(L), NEW t \in DOMAIN L, L[t].kind # "atom",
         NEW k \in DOMAIN Forms(L)[t].stream
  PROVE  LET line == Forms(L)[t].stream[k] IN
         /\ t \in Molecules(L) /\ k \in DOMAIN L[t].stream /\ L[t].stream[k] \in Steps(L, t)
         /\ line.kind = L[t].stream[k].kind /\ line.as = L[t].stream[k].as
         /\ line.runs = Lowered(L, L[t].stream[k].names) /\ line.runs \in DOMAIN L
         /\ line.purity = L[line.runs].purity
         /\ line.kind # "atom" => line.body = Forms(L)[line.runs]
<1> DEFINE form == Forms(L)[t]
<1>1. /\ t \in Molecules(L) /\ DOMAIN form.stream = DOMAIN L[t].stream
      /\ \A j \in DOMAIN form.stream :
           /\ form.stream[j].kind = L[t].stream[j].kind /\ form.stream[j].as = L[t].stream[j].as
           /\ form.stream[j].runs = Lowered(L, L[t].stream[j].names)
           /\ form.stream[j].runs \in DOMAIN L
           /\ form.stream[j].purity = L[form.stream[j].runs].purity
           /\ form.stream[j].kind # "atom" => form.stream[j].body = Forms(L)[form.stream[j].runs]
  BY FormLines
<1> HIDE DEF form
<1>2. k \in DOMAIN form.stream
  BY DEF form
<1>3. L[t].stream[k] \in Steps(L, t)
  BY <1>1, <1>2 DEF Steps, Range
<1>4. QED
  BY <1>1, <1>2, <1>3 DEF form

\* The body of a step that is not an atom is a frame of its own, one deeper.
LEMMA BodyStands ==
  ASSUME NEW L, IsLibrary(L), Lowers(L), NEW s, Stacked(L, s), s # <<>>,
         NEW top, top = s[Len(s)], top.pos <= Len(top.form.stream), Line(top).kind # "atom",
         Line(top).kind = "loop" => top.pass < MaxPasses
  PROVE  Stacked(L, Append(s, Frame(Line(top).runs, Line(top).body, Onto(top))))
<1> DEFINE f == Frame(Line(top).runs, Line(top).body, Onto(top))
           n == Len(s)
<1>1. n \in Nat /\ n > 0 /\ DOMAIN s = 1..n
  BY OutsideOf DEF Stacked
<1>2. Stands(L, top) /\ Deep(L, top, n)
  BY <1>1 DEF Stacked
<1>3. /\ top.of \in DOMAIN L /\ top.form = Forms(L)[top.of] /\ top.pos \in 1..Len(top.form.stream)
  BY <1>2, FormLines DEF Stands
<1>4. L[top.of].kind # "atom"
  <2>1. SUFFICES ASSUME L[top.of].kind = "atom"
                 PROVE  FALSE
    OBVIOUS
  <2>2. top.pos = 1 /\ Line(top).kind = "atom"
    BY <1>3, <2>1, FormLines DEF Line
  <2>3. QED
    BY <2>2
<1>5. /\ Line(top).kind = L[top.of].stream[top.pos].kind /\ top.pos \in DOMAIN L[top.of].stream
      /\ Line(top).runs = Lowered(L, L[top.of].stream[top.pos].names) /\ Line(top).runs \in DOMAIN L
      /\ Line(top).body = Forms(L)[Line(top).runs]
  <2>1. top.pos \in DOMAIN Forms(L)[top.of].stream
    BY <1>3, FormLines
  <2>2. Line(top) = Forms(L)[top.of].stream[top.pos]
    BY <1>3 DEF Line
  <2> HIDE DEF n, f
  <2>3. top.of \in DOMAIN L
    BY <1>3
  <2> DEFINE line == Forms(L)[top.of].stream[top.pos]
  <2>4. /\ line.kind = L[top.of].stream[top.pos].kind /\ top.pos \in DOMAIN L[top.of].stream
        /\ line.runs = Lowered(L, L[top.of].stream[top.pos].names) /\ line.runs \in DOMAIN L
        /\ line.kind # "atom" => line.body = Forms(L)[line.runs]
    BY ONLY IsLibrary(L), Lowers(L), <1>4, <2>1, <2>3, MoleculeLine
  <2>5. line = Line(top)
    BY <2>2
  <2> HIDE DEF line
  <2>6. QED
    BY <2>4, <2>5
<1>6. /\ IsFrame(f) /\ f.of = Line(top).runs /\ f.form = Forms(L)[f.of] /\ f.pos = 1 /\ f.pass = 0
      /\ f.path = Onto(top)
  BY <1>5 DEF IsFrame, Frame
<1> HIDE DEF f
<1>7. Stands(L, f)
  <2>1. f.of \in DOMAIN L /\ MaxPasses \in Nat
    BY <1>5, <1>6, ContractAssumption
  <2>2. Len(Forms(L)[f.of].stream) \in Nat
    BY <2>1, FormLines
  <2>3. f.pos \in 1..(Len(f.form.stream) + 1) /\ f.pass \in 0..MaxPasses /\ ~(f.pass > 0)
    BY <1>6, <2>1, <2>2
  <2>4. QED
    BY <1>6, <2>1, <2>3 DEF Stands
<1>8. Deep(L, f, n + 1)
  <2>1. MaxDepth \in Nat
    BY TransformsAssumption
  <2>2. top.of \in Fits(L, MaxDepth + 2 - n) /\ n <= MaxDepth + 1
    BY <1>2, <1>4 DEF Deep
  <2> DEFINE m == MaxDepth + 1 - n
  <2>3. m \in Nat /\ MaxDepth + 2 - n = m + 1 /\ MaxDepth + 2 - (n + 1) = m
    BY <1>1, <2>1, <2>2
  <2> HIDE DEF m
  <2>4. LowersOver(L, top.of, Fits(L, m))
    BY <2>2, <2>3, FitsUnfolds
  <2>5. L[top.of].stream[top.pos] \in Steps(L, top.of)
    BY <1>5 DEF Steps, Range
  <2>6. f.of \in Fits(L, m)
    BY <1>5, <1>6, <2>4, <2>5 DEF LowersOver
  <2>7. m # 0
    BY <2>6, FitsUnfolds
  <2>8. n + 1 <= MaxDepth + 1
    <3>1. m = MaxDepth + 1 - n
      BY DEF m
    <3> HIDE DEF n
    <3>2. QED
      BY <1>1, <2>1, <2>3, <2>7, <3>1
  <2>9. QED
    BY <2>3, <2>6, <2>8 DEF Deep
<1>9. Entered(top, f)
  BY <1>3, <1>6 DEF Entered
<1>10. QED
  BY <1>7, <1>8, <1>9, StackedAppend DEF f

-----------------------------------------------------------------------------
(* The inductive invariant of a run.                                       *)

IsRun(r) ==
  DOMAIN r = {"mode", "case", "at", "stack", "status", "done", "drawn", "kept", "answer", "outcome"}

\* A run stands in what was sealed, and what it records is what was drawn.
FramesAccounted ==
  run.mode # "none" =>
    /\ IsRun(run)
    /\ run.status \in {"running", "ended", "unrouted", "unrecorded", "unused"}
    /\ Stacked(lib, run.stack)
    /\ run.kept = run.drawn

\* A symbol of a frame that stands for something random was last borne, among the steps that are
\* done, by an atom that is not deterministic; that of a loop that is making its passes does not.
Drawn(L, f, symbol) ==
  \E j \in 1..(f.pos - 1) :
    /\ f.form.stream[j].as = symbol
    /\ f.form.stream[j].kind = "atom" /\ Impure(L, f.form.stream[j].runs)
    /\ \A i \in (j + 1)..(f.pos - 1) : f.form.stream[i].as # symbol

Decided(L, f) ==
  /\ \A symbol \in f.random : Drawn(L, f, symbol)
  /\ f.pass > 0 => Line(f).as \notin f.random

EveryDecided(L, s) == \A k \in DOMAIN s : Decided(L, s[k])

RandomAccounted ==
  run.mode # "none" /\ Unambiguous(lib) =>
    /\ EveryDecided(lib, run.stack)
    /\ WellNamed => run.answer # "random"

\* What a sealed step may answer.
MayAnswer(L, step, outcome) ==
  \/ step.runs \in DOMAIN L /\ (outcome = "SUCCESS" \/ (outcome = "VIOLATION" /\ L[step.runs].refuses))
  \/ /\ step.runs \in Effect /\ step.op \in DOMAIN Outcomes[step.runs]
     /\ outcome \in Outcomes[step.runs][step.op]

\* An act has done the steps before the one it stands at, each with what it ran, and what it was
\* answered there is what that step may answer, routed as it was declared.
ActAccounted ==
  run.mode = "act" =>
    /\ run.at \in 1..Len(sealed.pipeline)
    /\ run.stack # <<>> => run.answer = "none" /\ run.stack[1].of = Step.runs /\ Step.runs \in DOMAIN lib
    /\ IsSequence(run.done) /\ Len(run.done) = run.at - 1
    /\ \A k \in 1..(run.at - 1) :
         run.done[k] = [id |-> sealed.pipeline[k].id, runs |-> sealed.pipeline[k].runs]
    /\ run.answer # "none" => MayAnswer(lib, Step, run.outcome)
    /\ run.status \in {"running", "ended", "unrouted"}
    /\ run.status # "running" => run.answer # "none"
    /\ run.status = "unrouted" => run.outcome \notin DOMAIN Step.on
    /\ run.status = "ended" =>
         run.outcome \in DOMAIN Step.on /\ (Step.on[run.outcome] = "exit" \/ run.at = Len(sealed.pipeline))

IInv == StageAccounted /\ FramesAccounted /\ RandomAccounted /\ ActAccounted

-----------------------------------------------------------------------------
(* Frames that hold something random.                                      *)

\* A step that is done leaves its symbol random only if it is an atom that is not deterministic.
LEMMA SteppedDecided ==
  ASSUME NEW L, IsLibrary(L), Lowers(L), NEW f, Stands(L, f), f.pos <= Len(f.form.stream), Decided(L, f),
         NEW random, random => Line(f).kind = "atom" /\ Impure(L, Line(f).runs)
  PROVE  Decided(L, Stepped(f, Line(f).as, random))
<1> DEFINE g == Stepped(f, Line(f).as, random)
<1>1. /\ g.pos = f.pos + 1 /\ g.pass = 0 /\ g.form = f.form
      /\ g.random = IF random THEN f.random \union {Line(f).as} ELSE f.random \ {Line(f).as}
  <2>1. g = [of |-> f.of, form |-> f.form, path |-> f.path, pos |-> f.pos + 1, pass |-> 0,
             random |-> IF random THEN f.random \union {Line(f).as} ELSE f.random \ {Line(f).as}]
    BY SteppedStands
  <2> HIDE DEF g
  <2>2. QED
    BY <2>1
<1> HIDE DEF g
<1>2. f.pos \in Nat /\ f.pos >= 1 /\ g.pos - 1 = f.pos
  <2>1. Len(f.form.stream) \in Nat
    BY FormLines DEF Stands
  <2>2. QED
    BY <1>1, <2>1 DEF Stands
<1>3. ASSUME NEW symbol \in g.random
      PROVE  Drawn(L, g, symbol)
  <2>1. CASE symbol = Line(f).as
    <3>1. Line(f).kind = "atom" /\ Impure(L, Line(f).runs)
      BY <1>1, <1>3, <2>1
    <3>2. f.pos \in 1..(g.pos - 1) /\ (f.pos + 1)..(g.pos - 1) = {}
      BY <1>2
    <3>3. QED
      BY <1>1, <2>1, <3>1, <3>2 DEF Drawn, Line
  <2>2. CASE symbol # Line(f).as
    <3>1. Drawn(L, f, symbol)
      BY <1>1, <1>3, <2>2 DEF Decided
    <3>2. PICK j \in 1..(f.pos - 1) :
            /\ f.form.stream[j].as = symbol
            /\ f.form.stream[j].kind = "atom" /\ Impure(L, f.form.stream[j].runs)
            /\ \A i \in (j + 1)..(f.pos - 1) : f.form.stream[i].as # symbol
      BY <3>1 DEF Drawn
    <3>3. ASSUME NEW i \in (j + 1)..(g.pos - 1)
          PROVE  f.form.stream[i].as # symbol
      <4>1. i = f.pos \/ i \in (j + 1)..(f.pos - 1)
        BY <1>2
      <4>2. QED
        BY <2>2, <3>2, <4>1 DEF Line
    <3>4. j \in 1..(g.pos - 1)
      BY <1>2
    <3>5. QED
      BY <1>1, <3>2, <3>3, <3>4 DEF Drawn
  <2>3. QED
    BY <2>1, <2>2
<1>4. ~(g.pass > 0)
  BY <1>1
<1>5. Decided(L, g)
  BY <1>3, <1>4 DEF Decided
<1>6. QED
  BY <1>5 DEF g

\* A frame whose loop makes one more pass.
Looped(f, random) ==
  [Stepped(f, Line(f).as, random) EXCEPT !.pos = f.pos, !.pass = f.pass + 1]

\* A frame that makes one pass more over the line it stands at.
LEMMA LoopedIs ==
  ASSUME NEW L, IsLibrary(L), Lowers(L), NEW f, Stands(L, f), f.pos <= Len(f.form.stream), NEW random
  PROVE  Looped(f, random) =
           [of |-> f.of, form |-> f.form, path |-> f.path, pos |-> f.pos, pass |-> f.pass + 1,
            random |-> IF random THEN f.random \union {Line(f).as} ELSE f.random \ {Line(f).as}]
<1> DEFINE after == IF random THEN f.random \union {Line(f).as} ELSE f.random \ {Line(f).as}
           at == f.pos
           next == f.pos + 1
           pass == f.pass + 1
           of == f.of
           form == f.form
           path == f.path
           g == [of |-> of, form |-> form, path |-> path, pos |-> next, pass |-> 0, random |-> after]
           h == [of |-> of, form |-> form, path |-> path, pos |-> at, pass |-> 0, random |-> after]
<1>1. Stepped(f, Line(f).as, random) = g
  BY SteppedStands
<1> HIDE DEF after, at, next, pass, of, form, path
<1>2. [g EXCEPT !.pos = at] = h
  OBVIOUS
<1>3. [h EXCEPT !.pass = pass] = [of |-> of, form |-> form, path |-> path, pos |-> at, pass |-> pass, random |-> after]
  OBVIOUS
<1> HIDE DEF g, h
<1>4. Looped(f, random) = [[g EXCEPT !.pos = at] EXCEPT !.pass = pass]
  BY <1>1 DEF Looped, at, pass
<1>5. QED
  BY <1>2, <1>3, <1>4 DEF after, at, pass, of, form, path

\* It stands where it stood, and its symbol is random only if what the body said is.
LEMMA LoopedStands ==
  ASSUME NEW L, IsLibrary(L), Lowers(L), NEW f, Stands(L, f), f.pos <= Len(f.form.stream),
         Line(f).kind = "loop", f.pass < MaxPasses, NEW random
  PROVE  /\ Stands(L, Looped(f, random))
         /\ Looped(f, random).of = f.of /\ Looped(f, random).path = f.path
         /\ Decided(L, f) /\ ~random => Decided(L, Looped(f, random))
<1> DEFINE g == Looped(f, random)
<1>1. g = [of |-> f.of, form |-> f.form, path |-> f.path, pos |-> f.pos, pass |-> f.pass + 1,
           random |-> IF random THEN f.random \union {Line(f).as} ELSE f.random \ {Line(f).as}]
  BY LoopedIs
<1> HIDE DEF g
<1>2. /\ g.of = f.of /\ g.form = f.form /\ g.path = f.path /\ g.pos = f.pos /\ g.pass = f.pass + 1
      /\ g.random = IF random THEN f.random \union {Line(f).as} ELSE f.random \ {Line(f).as}
      /\ IsFrame(g) /\ Line(g) = Line(f)
  BY <1>1 DEF IsFrame, Line
<1>3. f.pass + 1 \in 0..MaxPasses
  BY ContractAssumption DEF Stands
<1>4. Stands(L, g)
  BY <1>2, <1>3 DEF Stands
<1>5. Decided(L, f) /\ ~random => Decided(L, g)
  BY <1>2 DEF Decided, Drawn
<1>6. QED
  BY <1>2, <1>4, <1>5 DEF g

\* What a decided run decides, one frame deeper.
LEMMA EveryAppend ==
  ASSUME NEW L, NEW s, IsSequence(s), EveryDecided(L, s), NEW f, Decided(L, f)
  PROVE  EveryDecided(L, Append(s, f))
<1>1. /\ Len(s) \in Nat /\ DOMAIN s = 1..Len(s) /\ DOMAIN Append(s, f) = 1..(Len(s) + 1)
      /\ Append(s, f)[Len(s) + 1] = f /\ \A k \in 1..Len(s) : Append(s, f)[k] = s[k]
  BY Appended
<1>2. ASSUME NEW k \in 1..(Len(s) + 1)
      PROVE  Decided(L, Append(s, f)[k])
  <2>1. k = Len(s) + 1 \/ k \in 1..Len(s)
    BY <1>1
  <2>2. QED
    BY <1>1, <2>1 DEF EveryDecided
<1>3. QED
  BY <1>1, <1>2 DEF EveryDecided

\* What a decided run decides, one frame less deep.
LEMMA EveryOutside ==
  ASSUME NEW L, NEW s, IsSequence(s), s # <<>>, EveryDecided(L, s)
  PROVE  EveryDecided(L, Outside(s))
<1>1. /\ Len(s) \in Nat /\ DOMAIN s = 1..Len(s) /\ DOMAIN Outside(s) = 1..(Len(s) - 1)
      /\ \A k \in 1..(Len(s) - 1) : Outside(s)[k] = s[k]
  BY OutsideOf
<1>2. QED
  BY <1>1 DEF EveryDecided

\* What runs inside a molecule that S4 admitted is what the molecule's step resolves to: a molecule
\* where a frame is entered, something it is declared to run in any case.
LEMMA LineResolved ==
  ASSUME IsLibrary(lib), Lowers(lib), Conforms, Unambiguous(lib), NEW f, Stands(lib, f),
         f.pos <= Len(f.form.stream), lib[f.of].kind # "atom"
  PROVE  /\ f.of \in Molecules(lib) /\ Line(f).runs \in Runs(lib, f.of) /\ Line(f).runs \in DOMAIN lib
         /\ lib[Line(f).runs].kind = IF Line(f).kind = "atom" THEN "atom" ELSE "molecule"
<1>1. f.of \in DOMAIN lib /\ f.form = Forms(lib)[f.of] /\ f.pos \in DOMAIN Forms(lib)[f.of].stream
  <2>1. f.of \in DOMAIN lib /\ f.form = Forms(lib)[f.of] /\ f.pos \in 1..(Len(f.form.stream) + 1)
    BY DEF Stands
  <2>2. /\ Len(Forms(lib)[f.of].stream) \in Nat
        /\ DOMAIN Forms(lib)[f.of].stream = 1..Len(Forms(lib)[f.of].stream)
    BY <2>1, FormLines
  <2>3. QED
    BY <2>1, <2>2
<1> DEFINE line == Forms(lib)[f.of].stream[f.pos]
           step == lib[f.of].stream[f.pos]
<1>2. /\ f.of \in Molecules(lib) /\ step \in Steps(lib, f.of)
      /\ line.kind = step.kind /\ line.runs = Lowered(lib, step.names) /\ line.runs \in DOMAIN lib
  BY <1>1, MoleculeLine
<1>3. line = Line(f)
  BY <1>1 DEF Line
<1> HIDE DEF line, step
<1>4. /\ step.kind \in {"atom", "molecule", "loop"} /\ Resolved(lib, step.names) \in Runs(lib, f.of)
      /\ Lowered(lib, step.names) = Resolved(lib, step.names)
      /\ lib[Resolved(lib, step.names)].kind = IF step.kind = "atom" THEN "atom" ELSE "molecule"
  BY <1>2, StepsRun
<1>5. QED
  BY <1>2, <1>3, <1>4

\* Only a molecule has a step that is not an atom's.
LEMMA AtomsLine ==
  ASSUME NEW L, IsLibrary(L), Lowers(L), NEW f, Stands(L, f), L[f.of].kind = "atom"
  PROVE  /\ Len(f.form.stream) = 1 /\ f.form.emit = AtomResult
         /\ f.form.stream[1].kind = "atom" /\ f.form.stream[1].runs = f.of
<1>1. f.of \in DOMAIN L /\ f.form = Forms(L)[f.of]
  BY DEF Stands
<1>2. /\ Len(Forms(L)[f.of].stream) = 1 /\ Forms(L)[f.of].emit = AtomResult
      /\ Forms(L)[f.of].stream[1].kind = "atom" /\ Forms(L)[f.of].stream[1].runs = f.of
  BY <1>1, FormLines
<1>3. QED
  BY <1>1, <1>2

\* By EmitsDecided, a molecule that has done its steps does not emit what something random said; an
\* atom does when it is itself not deterministic.
LEMMA EmitIsDecided ==
  ASSUME IsLibrary(lib), Lowers(lib), Conforms, Unambiguous(lib), NEW f, Stands(lib, f), Decided(lib, f),
         f.pos > Len(f.form.stream), f.form.emit \in f.random
  PROVE  lib[f.of].kind = "atom" /\ Impure(lib, f.of)
<1>1. f.of \in DOMAIN lib /\ f.form = Forms(lib)[f.of] /\ f.pos \in 1..(Len(f.form.stream) + 1)
  BY DEF Stands
<1>2. Len(f.form.stream) \in Nat
  BY <1>1, FormLines
<1>3. f.pos - 1 = Len(f.form.stream)
  BY <1>1, <1>2
<1>4. PICK j \in 1..Len(f.form.stream) :
        /\ f.form.stream[j].as = f.form.emit
        /\ f.form.stream[j].kind = "atom" /\ Impure(lib, f.form.stream[j].runs)
        /\ \A i \in (j + 1)..Len(f.form.stream) : f.form.stream[i].as # f.form.emit
  BY <1>3 DEF Decided, Drawn
<1>5. CASE lib[f.of].kind = "atom"
  <2>1. j = 1 /\ f.form.stream[1].runs = f.of
    BY <1>4, <1>5, AtomsLine
  <2>2. QED
    BY <1>4, <1>5, <2>1
<1>6. CASE lib[f.of].kind # "atom"
  <2> DEFINE t == f.of
             stream == lib[t].stream
             at == {k \in DOMAIN stream : stream[k].as = f.form.emit}
  <2>1. /\ t \in Molecules(lib) /\ f.form.emit = CHOOSE symbol \in lib[t].emit : TRUE
        /\ DOMAIN stream = 1..Len(f.form.stream)
        /\ \A k \in DOMAIN stream : /\ f.form.stream[k].kind = stream[k].kind
                                    /\ f.form.stream[k].as = stream[k].as
                                    /\ f.form.stream[k].runs = Lowered(lib, stream[k].names)
    BY <1>1, <1>6, FormLines
  <2>2. Runnable(lib) /\ EmitsDecided(lib)
    BY DEF Conforms
  <2>3. Cardinality(lib[t].emit) = 1 /\ lib[t].emit \subseteq {s.as : s \in Steps(lib, t)}
    BY <2>1, <2>2 DEF Runnable
  <2>4. lib[t].emit # {}
    <3>1. SUFFICES ASSUME lib[t].emit = {}
                   PROVE  FALSE
      OBVIOUS
    <3>2. Cardinality({}) = 1
      BY <2>3, <3>1
    <3>3. QED
      BY <3>2, FS_EmptySet
  <2>5. f.form.emit \in lib[t].emit \intersect {s.as : s \in Steps(lib, t)}
    BY <2>1, <2>3, <2>4
  <2>6. j \in at /\ \A i \in at : i <= j
    BY <1>2, <1>4, <2>1
  <2>7. \A m \in at : (\A i \in at : i <= m) => m = j
    BY <1>2, <2>1, <2>6
  <2>8. Bound(lib, t, f.form.emit) = stream[j]
    BY <2>6, <2>7 DEF Bound
  <2>9. stream[j] \in Steps(lib, t)
    BY <2>1, <2>6 DEF Steps, Range
  <2>10. /\ Lowered(lib, stream[j].names) = Resolved(lib, stream[j].names)
         /\ Resolved(lib, stream[j].names) # None
    <3>1. Resolved(lib, stream[j].names) \in Runs(lib, t)
      BY <2>1, <2>9, StepsRun
    <3>2. QED
      BY <2>1, <2>9, <3>1, StepsRun DEF Runs
  <2>11. stream[j].kind = "atom" /\ Impure(lib, Resolved(lib, stream[j].names))
    BY <1>4, <2>1, <2>6, <2>10
  <2>12. FALSE
    BY <2>1, <2>2, <2>5, <2>8, <2>10, <2>11 DEF EmitsDecided
  <2>13. QED
    BY <2>12
<1>7. QED
  BY <1>5, <1>6

-----------------------------------------------------------------------------
(* The steps of a run.                                                     *)

\* Where a run stands, the build has passed its last stage.
LEMMA Grounds ==
  ASSUME StageAccounted, run.mode # "none"
  PROVE  /\ stage = "S7" /\ IsDraft(draft) /\ IsLibrary(lib) /\ Lowers(lib) /\ Conforms /\ edges = Bindings
         /\ sealed.forms = Forms(lib) /\ DOMAIN sealed.forms = DOMAIN lib
         /\ sealed.pipeline = PipelineOf
         /\ Len(sealed.pipeline) \in Nat /\ DOMAIN sealed.pipeline = 1..Len(sealed.pipeline)
<1>1. stage = "S7"
  BY DEF StageAccounted
<1>2. /\ IsDraft(draft) /\ Lowers(lib) /\ Conforms /\ edges = Bindings
      /\ sealed.forms = Forms(lib) /\ sealed.pipeline = PipelineOf
  BY <1>1 DEF StageAccounted, Linked, Judged, Formed, Composed
<1>3. IsLibrary(lib)
  BY <1>2 DEF IsDraft, lib
<1>4. DOMAIN Forms(lib) = DOMAIN lib
  BY <1>2, <1>3, FormsUnfold
<1>5. OneCapability
  BY <1>2 DEF Conforms
<1>6. Len(PipelineOf) \in Nat /\ DOMAIN PipelineOf = 1..Len(PipelineOf)
  BY <1>2, <1>5, PipelineIsSequence
<1>7. QED
  BY <1>1, <1>2, <1>3, <1>4, <1>6

\* A step that changes only the run changes nothing that is declared, judged or sealed.
LEMMA RunStands ==
  ASSUME UNCHANGED Sealed
  PROVE  /\ lib' = lib /\ sealed' = sealed /\ draft' = draft /\ stage' = stage /\ WellNamed' = WellNamed
<1>1. draft' = draft /\ stage' = stage /\ edges' = edges /\ sealed' = sealed
  BY DEF Sealed
<1>2. lib' = lib /\ pipeline' = pipeline
  BY <1>1, DeclaredStands
<1>3. QED
  BY <1>1, <1>2 DEF WellNamed

\* What a step of a run has to keep.
RunKept == FramesAccounted' /\ RandomAccounted' /\ ActAccounted' /\ run'.mode \in {"none", "act", "case"}

\* A step of a transform keeps it, if it leaves the stack standing, with nothing random but what was
\* drawn there, and touches neither the answer nor what was done.
LEMMA StackMoves ==
  ASSUME IInv, run.mode # "none", run.stack # <<>>, UNCHANGED Sealed, IsRun(run'),
         run'.mode = run.mode, run'.at = run.at, run'.status = run.status, run'.done = run.done,
         run'.answer = run.answer, run'.outcome = run.outcome, run'.kept = run'.drawn,
         Stacked(lib, run'.stack), run'.stack[1].of = run.stack[1].of,
         Unambiguous(lib) => EveryDecided(lib, run'.stack)
  PROVE  RunKept
<1>1. lib' = lib /\ sealed' = sealed /\ WellNamed' = WellNamed
  BY RunStands
<1>2. FramesAccounted'
  BY <1>1 DEF IInv, FramesAccounted
<1>3. RandomAccounted'
  BY <1>1 DEF IInv, RandomAccounted
<1>4. ActAccounted'
  <2>1. Step' = Step
    BY <1>1 DEF Step
  <2>2. QED
    BY <1>1, <2>1 DEF IInv, ActAccounted
<1>5. run'.mode \in {"none", "act", "case"}
  BY DEF IInv, StageAccounted
<1>6. QED
  BY <1>2, <1>3, <1>4, <1>5 DEF RunKept

\* The top of a stack, and the frame at its bottom.
LEMMA TopStands ==
  ASSUME IInv, Within
  PROVE  /\ run.mode # "none" /\ run.stack # <<>> /\ Stacked(lib, run.stack)
         /\ Stands(lib, Top) /\ Len(run.stack) \in DOMAIN run.stack
         /\ Unambiguous(lib) => EveryDecided(lib, run.stack) /\ Decided(lib, Top)
         /\ ~AtEnd => Top.pos <= Len(Top.form.stream) /\ Current = Line(Top) /\ Path = Onto(Top)
         /\ AtEnd => Top.pos > Len(Top.form.stream)
<1>1. run.mode # "none" /\ run.stack # <<>>
  BY DEF Within, Running
<1>2. IsSequence(run.stack) /\ Stacked(lib, run.stack)
  BY <1>1 DEF IInv, FramesAccounted, Stacked
<1>3. Len(run.stack) \in Nat /\ Len(run.stack) > 0 /\ DOMAIN run.stack = 1..Len(run.stack)
  BY <1>1, <1>2, OutsideOf
<1>4. Len(run.stack) \in DOMAIN run.stack
  BY <1>3
<1>5. Stands(lib, Top)
  BY <1>2, <1>4 DEF Stacked, Top
<1>6. Unambiguous(lib) => EveryDecided(lib, run.stack) /\ Decided(lib, Top)
  BY <1>1, <1>4 DEF IInv, RandomAccounted, EveryDecided, Top
<1>7. IsLibrary(lib) /\ Lowers(lib)
  BY <1>1, Grounds DEF IInv
<1>8. Len(Top.form.stream) \in Nat /\ Top.pos \in Nat
  BY <1>5, <1>7, FormLines DEF Stands
<1>9. /\ ~AtEnd => Top.pos <= Len(Top.form.stream)
      /\ AtEnd => Top.pos > Len(Top.form.stream)
  BY <1>8 DEF AtEnd
<1>10. Current = Line(Top) /\ Path = Onto(Top)
  BY DEF Current, Line, Path, Onto
<1>11. QED
  BY <1>1, <1>2, <1>4, <1>5, <1>6, <1>9, <1>10

\* Where the top is replaced, the bottom of the stack runs what it ran.
LEMMA BottomStays ==
  ASSUME NEW s, IsSequence(s), s # <<>>, NEW f, f.of = s[Len(s)].of
  PROVE  Append(Outside(s), f)[1].of = s[1].of
<1>1. /\ IsSequence(Outside(s)) /\ Len(s) \in Nat /\ Len(s) > 0
      /\ Len(Outside(s)) = Len(s) - 1 /\ \A k \in 1..(Len(s) - 1) : Outside(s)[k] = s[k]
  BY OutsideOf
<1>2. /\ Append(Outside(s), f)[Len(s) - 1 + 1] = f
      /\ \A k \in 1..(Len(s) - 1) : Append(Outside(s), f)[k] = Outside(s)[k]
  BY <1>1, Appended
<1>3. CASE Len(s) = 1
  BY <1>2, <1>3
<1>4. CASE Len(s) # 1
  <2>1. 1 \in 1..(Len(s) - 1)
    BY <1>1, <1>4
  <2>2. QED
    BY <1>1, <1>2, <2>1
<1>5. QED
  BY <1>3, <1>4

\* An atom has run, and the frame goes on to its next line.
LEMMA RunAtomKeeps ==
  ASSUME IInv, RunAtom
  PROVE  RunKept
<1>1. Within /\ ~AtEnd /\ Current.kind = "atom" /\ UNCHANGED Sealed
  BY DEF RunAtom
<1>2. /\ run.mode # "none" /\ run.stack # <<>> /\ Stacked(lib, run.stack) /\ Stands(lib, Top)
      /\ Len(run.stack) \in DOMAIN run.stack
      /\ Unambiguous(lib) => EveryDecided(lib, run.stack) /\ Decided(lib, Top)
      /\ Top.pos <= Len(Top.form.stream) /\ Current = Line(Top)
  BY <1>1, TopStands
<1>3. IsLibrary(lib) /\ Lowers(lib) /\ IsRun(run) /\ run.kept = run.drawn
  BY <1>2, Grounds DEF IInv, FramesAccounted
<1> DEFINE replayed == run.mode = "case" /\ Current.purity = "ct_impure" /\ lib[run.case.target].kind = "molecule"
           random   == Impure(lib, Current.runs)
           stack    == Append(Under, Stepped(Top, Current.as, random))
<1>4. CASE replayed /\ Path \notin run.case.recorded
  <2>1. run' = [run EXCEPT !.status = "unrecorded"]
    BY <1>4 DEF RunAtom
  <2>2. /\ IsRun(run') /\ run'.mode = run.mode /\ run'.stack = run.stack /\ run'.status = "unrecorded"
        /\ run'.kept = run.kept /\ run'.drawn = run.drawn /\ run'.answer = run.answer /\ run.mode = "case"
    BY <1>3, <1>4, <2>1 DEF IsRun
  <2>3. lib' = lib /\ WellNamed' = WellNamed
    BY <1>1, RunStands
  <2>4. FramesAccounted'
    BY <1>2, <1>3, <2>2, <2>3 DEF FramesAccounted
  <2>5. RandomAccounted'
    BY <1>2, <2>2, <2>3 DEF IInv, RandomAccounted
  <2>6. QED
    BY <2>2, <2>4, <2>5 DEF RunKept, ActAccounted
<1>5. CASE ~(replayed /\ Path \notin run.case.recorded)
  <2>1. run' = [run EXCEPT !.stack = stack,
                           !.drawn = IF random THEN @ \union {Path} ELSE @,
                           !.kept  = IF Current.purity = "ct_impure" THEN @ \union {Path} ELSE @]
    BY <1>1, <1>5 DEF RunAtom
  <2>2. Current.purity = lib[Current.runs].purity
    <3> DEFINE t == Top.of
               k == Top.pos
    <3>1. t \in DOMAIN lib /\ Top.form = Forms(lib)[t] /\ k \in 1..(Len(Top.form.stream) + 1)
      BY <1>2 DEF Stands
    <3>2. Len(Forms(lib)[t].stream) \in Nat /\ DOMAIN Forms(lib)[t].stream = 1..Len(Forms(lib)[t].stream)
      BY <1>3, <3>1, FormLines
    <3>3. k \in DOMAIN Forms(lib)[t].stream /\ Current = Forms(lib)[t].stream[k]
      BY <1>2, <3>1, <3>2 DEF Line
    <3>4. CASE lib[t].kind = "atom"
      <4>1. Len(Forms(lib)[t].stream) = 1 /\ Forms(lib)[t].stream[1].runs = t /\ Forms(lib)[t].stream[1].purity = lib[t].purity
        BY <1>3, <3>1, <3>4, FormLines
      <4>2. k = 1
        BY <3>2, <3>3, <4>1
      <4>3. QED
        BY <3>3, <4>1, <4>2
    <3>5. CASE lib[t].kind # "atom"
      <4> HIDE DEF t, k
      <4>1. Forms(lib)[t].stream[k].purity = lib[Forms(lib)[t].stream[k].runs].purity
        BY <1>3, <3>1, <3>3, <3>5, MoleculeLine
      <4>2. QED
        BY <3>3, <4>1
    <3>6. QED
      BY <3>4, <3>5
  <2>3. random <=> Current.purity = "ct_impure"
    BY <2>2 DEF Impure
  <2> HIDE DEF random, stack
  <2>4. /\ IsRun(run') /\ run'.mode = run.mode /\ run'.at = run.at /\ run'.status = run.status
        /\ run'.done = run.done /\ run'.answer = run.answer /\ run'.outcome = run.outcome
        /\ run'.stack = stack
        /\ run'.drawn = (IF random THEN run.drawn \union {Path} ELSE run.drawn)
        /\ run'.kept = (IF Current.purity = "ct_impure" THEN run.kept \union {Path} ELSE run.kept)
    BY <1>3, <2>1 DEF IsRun
  <2>5. run'.kept = run'.drawn
    BY <1>3, <2>3, <2>4
  <2> DEFINE f == Stepped(Top, Current.as, random)
  <2>6. Stands(lib, f) /\ f.of = Top.of /\ f.path = Top.path
    <3>1. /\ Stands(lib, f)
          /\ f = [of |-> Top.of, form |-> Top.form, path |-> Top.path, pos |-> Top.pos + 1, pass |-> 0,
                  random |-> IF random THEN Top.random \union {Current.as} ELSE Top.random \ {Current.as}]
      BY <1>2, <1>3, SteppedStands
    <3> HIDE DEF f
    <3>2. QED
      BY <3>1
  <2>7. Unambiguous(lib) => Decided(lib, f)
    <3>1. random => Line(Top).kind = "atom" /\ Impure(lib, Line(Top).runs)
      BY <1>1, <1>2 DEF random
    <3>2. QED
      BY <1>2, <1>3, <3>1, SteppedDecided
  <2>8. stack = Append(Outside(run.stack), f)
    BY DEF stack, Under
  <2>9. Top = run.stack[Len(run.stack)] /\ IsSequence(run.stack)
    BY <1>2 DEF Top, Stacked
  <2> HIDE DEF f
  <2>10. Stacked(lib, stack)
    BY <1>2, <2>6, <2>8, <2>9, StackedReplace
  <2>11. stack[1].of = run.stack[1].of
    BY <1>2, <2>6, <2>8, <2>9, BottomStays
  <2>12. Unambiguous(lib) => EveryDecided(lib, stack)
    BY <1>2, <2>7, <2>8, <2>9, EveryAppend, EveryOutside, OutsideOf
  <2>13. QED
    BY <1>1, <1>2, <2>4, <2>5, <2>10, <2>11, <2>12, StackMoves
<1>6. QED
  BY <1>4, <1>5

\* The innermost frame may move as long as it stands where it can.
LEMMA TopReplaced ==
  ASSUME NEW s, Stacked(lib, s), s # <<>>, NEW f, Stands(lib, f), f.of = s[Len(s)].of, f.path = s[Len(s)].path,
         Unambiguous(lib) => EveryDecided(lib, s) /\ Decided(lib, f)
  PROVE  LET q == Append(Outside(s), f) IN
         Stacked(lib, q) /\ q[1].of = s[1].of /\ (Unambiguous(lib) => EveryDecided(lib, q))
<1>1. IsSequence(s)
  BY DEF Stacked
<1>2. Stacked(lib, Append(Outside(s), f))
  BY StackedReplace
<1>3. Append(Outside(s), f)[1].of = s[1].of
  BY <1>1, BottomStays
<1>4. Unambiguous(lib) => EveryDecided(lib, Append(Outside(s), f))
  BY <1>1, EveryAppend, EveryOutside, OutsideOf
<1>5. QED
  BY <1>2, <1>3, <1>4

\* A body is entered, one frame deeper.
LEMMA EnterBodyKeeps ==
  ASSUME IInv, EnterBody
  PROVE  RunKept
<1> DEFINE f == Frame(Current.runs, Current.body, Path)
           stack == Append(run.stack, f)
<1>1. /\ Within /\ ~AtEnd /\ Current.kind # "atom" /\ UNCHANGED Sealed
      /\ Current.kind = "loop" => Top.pass < MaxPasses
      /\ run' = [run EXCEPT !.stack = stack]
  BY DEF EnterBody
<1>2. /\ run.mode # "none" /\ run.stack # <<>> /\ Stacked(lib, run.stack)
      /\ Unambiguous(lib) => EveryDecided(lib, run.stack)
      /\ Top.pos <= Len(Top.form.stream) /\ Current = Line(Top) /\ Path = Onto(Top)
  BY <1>1, TopStands
<1>3. IsLibrary(lib) /\ Lowers(lib) /\ IsRun(run) /\ run.kept = run.drawn
  BY <1>2, Grounds DEF IInv, FramesAccounted
<1>4. f = Frame(Line(Top).runs, Line(Top).body, Onto(Top)) /\ Top = run.stack[Len(run.stack)]
  BY <1>2 DEF Top
<1>5. Stacked(lib, stack)
  <2> HIDE DEF f
  <2>1. Stacked(lib, Append(run.stack, Frame(Line(Top).runs, Line(Top).body, Onto(Top))))
    BY <1>1, <1>2, <1>3, <1>4, BodyStands
  <2>2. QED
    BY <1>4, <2>1
<1>6. Decided(lib, f)
  <2>1. f.random = {} /\ f.pass = 0
    BY DEF Frame
  <2> HIDE DEF f
  <2>2. QED
    BY <2>1 DEF Decided
<1>7. IsSequence(run.stack)
  BY <1>2 DEF Stacked
<1> HIDE DEF f
<1>8. Unambiguous(lib) => EveryDecided(lib, stack)
  BY <1>2, <1>6, <1>7, EveryAppend
<1>9. stack[1].of = run.stack[1].of
  <2>1. 1 \in 1..Len(run.stack)
    BY <1>2, <1>7, OutsideOf
  <2>2. QED
    BY <1>7, <2>1, Appended
<1> HIDE DEF stack
<1>10. /\ IsRun(run') /\ run'.mode = run.mode /\ run'.at = run.at /\ run'.status = run.status
       /\ run'.done = run.done /\ run'.answer = run.answer /\ run'.outcome = run.outcome
       /\ run'.stack = stack /\ run'.drawn = run.drawn /\ run'.kept = run.kept
  BY <1>1, <1>3 DEF IsRun
<1>11. QED
  BY <1>1, <1>2, <1>3, <1>5, <1>8, <1>9, <1>10, StackMoves

\* A loop has made its last pass.
LEMMA EndLoopKeeps ==
  ASSUME IInv, EndLoop
  PROVE  RunKept
<1> DEFINE random == Top.pass > 0 /\ Current.as \in Top.random
           f == Stepped(Top, Current.as, random)
           stack == Append(Outside(run.stack), f)
<1>1. Within /\ ~AtEnd /\ Current.kind = "loop" /\ UNCHANGED Sealed /\ run' = [run EXCEPT !.stack = stack]
  BY DEF EndLoop, Under
<1>2. /\ run.mode # "none" /\ run.stack # <<>> /\ Stacked(lib, run.stack) /\ Stands(lib, Top)
      /\ Unambiguous(lib) => EveryDecided(lib, run.stack) /\ Decided(lib, Top)
      /\ Top.pos <= Len(Top.form.stream) /\ Current = Line(Top)
  BY <1>1, TopStands
<1>3. IsLibrary(lib) /\ Lowers(lib) /\ IsRun(run) /\ run.kept = run.drawn
  BY <1>2, Grounds DEF IInv, FramesAccounted
<1>4. Unambiguous(lib) => ~random
  BY <1>2 DEF Decided
<1> HIDE DEF random
<1>5. Stands(lib, f) /\ f.of = Top.of /\ f.path = Top.path
  <2>1. /\ Stands(lib, f)
        /\ f = [of |-> Top.of, form |-> Top.form, path |-> Top.path, pos |-> Top.pos + 1, pass |-> 0,
                random |-> IF random THEN Top.random \union {Current.as} ELSE Top.random \ {Current.as}]
    BY <1>2, <1>3, SteppedStands
  <2> HIDE DEF f
  <2>2. QED
    BY <2>1
<1>6. Unambiguous(lib) => Decided(lib, f)
  BY <1>2, <1>3, <1>4, SteppedDecided
<1>7. Top = run.stack[Len(run.stack)]
  BY DEF Top
<1> HIDE DEF f
<1>8. Stacked(lib, stack) /\ stack[1].of = run.stack[1].of /\ (Unambiguous(lib) => EveryDecided(lib, stack))
  BY <1>2, <1>5, <1>6, <1>7, TopReplaced
<1> HIDE DEF stack
<1>9. /\ IsRun(run') /\ run'.mode = run.mode /\ run'.at = run.at /\ run'.status = run.status
      /\ run'.done = run.done /\ run'.answer = run.answer /\ run'.outcome = run.outcome
      /\ run'.stack = stack /\ run'.drawn = run.drawn /\ run'.kept = run.kept
  BY <1>1, <1>3 DEF IsRun
<1>10. QED
  BY <1>1, <1>2, <1>3, <1>8, <1>9, StackMoves

\* The frame a body returns to stands at the step it was entered from, and what the body says is not
\* random where no code is borne twice.
LEMMA BodyDone ==
  ASSUME IInv, Within, AtEnd, Under # <<>>
  PROVE  LET outer == Under[Len(Under)] IN
         /\ Stacked(lib, Under) /\ Stands(lib, outer) /\ outer.pos <= Len(outer.form.stream)
         /\ Line(outer).kind = "loop" => outer.pass < MaxPasses
         /\ Under[1] = run.stack[1]
         /\ Unambiguous(lib) => /\ EveryDecided(lib, Under) /\ Decided(lib, outer)
                                /\ Top.form.emit \notin Top.random
<1> DEFINE s == run.stack
           n == Len(s)
           outer == Under[Len(Under)]
<1>1. /\ run.mode # "none" /\ s # <<>> /\ Stacked(lib, s) /\ Stands(lib, Top) /\ IsSequence(s)
      /\ Unambiguous(lib) => EveryDecided(lib, s) /\ Decided(lib, Top)
      /\ Top.pos > Len(Top.form.stream)
  BY TopStands DEF Stacked
<1>2. IsLibrary(lib) /\ Lowers(lib) /\ Conforms
  BY <1>1, Grounds DEF IInv
<1>3. /\ Under = Outside(s) /\ IsSequence(Under) /\ n \in Nat /\ n > 0 /\ DOMAIN s = 1..n
      /\ Len(Under) = n - 1 /\ DOMAIN Under = 1..(n - 1)
      /\ \A k \in 1..(n - 1) : Under[k] = s[k]
  BY <1>1, OutsideOf DEF Under
<1>4. Len(Under) > 0
  BY <1>3, OutsideOf
<1>5. n - 1 \in 1..(n - 1) /\ 1 \in 1..(n - 1) /\ n \in 1..n /\ n > 1
  BY <1>3, <1>4
<1>6. outer = s[n - 1] /\ Top = s[n] /\ Under[1] = s[1]
  BY <1>3, <1>5 DEF Top
<1>7. Stacked(lib, Under)
  BY <1>1, <1>3, StackedOutside
<1>8. Stands(lib, outer) /\ Entered(outer, Top)
  <2>1. \A k \in 1..n : Stands(lib, s[k]) /\ (k > 1 => Entered(s[k - 1], s[k]))
    BY <1>1, <1>3 DEF Stacked
  <2> HIDE DEF s, n, outer
  <2>2. n - 1 \in 1..n
    BY <1>3, <1>5
  <2>3. QED
    BY <1>5, <1>6, <2>1, <2>2
<1>9. Unambiguous(lib) => EveryDecided(lib, Under) /\ Decided(lib, outer)
  BY <1>1, <1>3, <1>5, EveryOutside DEF EveryDecided
<1>10. ASSUME Unambiguous(lib)
       PROVE  Top.form.emit \notin Top.random
  <2>1. outer.pos <= Len(outer.form.stream) /\ Line(outer).kind # "atom" /\ Top.of = Line(outer).runs
    BY <1>8 DEF Entered
  <2>2. lib[outer.of].kind # "atom"
    <3>1. SUFFICES ASSUME lib[outer.of].kind = "atom"
                   PROVE  FALSE
      OBVIOUS
    <3>2. Len(outer.form.stream) = 1 /\ outer.form.stream[1].kind = "atom"
      BY <1>2, <1>8, <3>1, AtomsLine
    <3>3. outer.pos = 1
      BY <1>8, <2>1, <3>2 DEF Stands
    <3>4. QED
      BY <2>1, <3>2, <3>3 DEF Line
  <2> HIDE DEF outer
  <2>3. lib[Top.of].kind = "molecule"
    BY <1>2, <1>8, <1>10, <2>1, <2>2, LineResolved
  <2>4. QED
    BY <1>1, <1>2, <1>10, <2>3, EmitIsDecided
<1>11. QED
  BY <1>6, <1>7, <1>8, <1>9, <1>10 DEF Entered

\* A body is left for the line that entered it.
LEMMA LeaveBodyKeeps ==
  ASSUME IInv, LeaveBody
  PROVE  RunKept
<1> DEFINE outer == Under[Len(Under)]
           step == outer.form.stream[outer.pos]
           random == Top.form.emit \in Top.random
           after == Stepped(outer, step.as, random)
           f == IF step.kind = "loop" THEN [after EXCEPT !.pos = outer.pos, !.pass = outer.pass + 1] ELSE after
           stack == Append(Outside(Under), f)
<1>1. Within /\ AtEnd /\ Under # <<>> /\ UNCHANGED Sealed /\ run' = [run EXCEPT !.stack = stack]
  BY DEF LeaveBody
<1>2. run.mode # "none" /\ run.stack # <<>>
  BY <1>1, TopStands
<1>3. IsLibrary(lib) /\ Lowers(lib) /\ IsRun(run) /\ run.kept = run.drawn
  BY <1>2, Grounds DEF IInv, FramesAccounted
<1>4. /\ Stacked(lib, Under) /\ Stands(lib, outer) /\ outer.pos <= Len(outer.form.stream)
      /\ Line(outer).kind = "loop" => outer.pass < MaxPasses
      /\ Under[1] = run.stack[1] /\ step = Line(outer)
      /\ Unambiguous(lib) => EveryDecided(lib, Under) /\ Decided(lib, outer) /\ ~random
  BY <1>1, BodyDone DEF Line
<1> HIDE DEF outer, step, random
<1>5. Stands(lib, f) /\ f.of = outer.of /\ f.path = outer.path /\ (Unambiguous(lib) => Decided(lib, f))
  <2>1. CASE step.kind = "loop"
    <3>1. f = Looped(outer, random)
      BY <1>4, <2>1 DEF Looped
    <3> HIDE DEF f
    <3>2. QED
      BY <1>3, <1>4, <2>1, <3>1, LoopedStands
  <2>2. CASE step.kind # "loop"
    <3>1. f = Stepped(outer, Line(outer).as, random)
      BY <1>4, <2>2
    <3> HIDE DEF f
    <3>2. f = [of |-> outer.of, form |-> outer.form, path |-> outer.path, pos |-> outer.pos + 1, pass |-> 0,
               random |-> IF random THEN outer.random \union {Line(outer).as} ELSE outer.random \ {Line(outer).as}]
      BY <1>3, <1>4, <3>1, SteppedStands
    <3>3. Stands(lib, f)
      BY <1>3, <1>4, <3>1, SteppedStands
    <3>4. Unambiguous(lib) => Decided(lib, f)
      BY <1>3, <1>4, <3>1, SteppedDecided
    <3>5. QED
      BY <3>2, <3>3, <3>4
  <2>3. QED
    BY <2>1, <2>2
<1> HIDE DEF f
<1>6. outer = Under[Len(Under)]
  BY DEF outer
<1>7. Stacked(lib, stack) /\ stack[1].of = Under[1].of /\ (Unambiguous(lib) => EveryDecided(lib, stack))
  BY <1>1, <1>4, <1>5, <1>6, TopReplaced
<1> HIDE DEF stack
<1>8. /\ IsRun(run') /\ run'.mode = run.mode /\ run'.at = run.at /\ run'.status = run.status
      /\ run'.done = run.done /\ run'.answer = run.answer /\ run'.outcome = run.outcome
      /\ run'.stack = stack /\ run'.drawn = run.drawn /\ run'.kept = run.kept
  BY <1>1, <1>3 DEF IsRun
<1>9. QED
  BY <1>1, <1>2, <1>3, <1>4, <1>7, <1>8, StackMoves

\* No frame, nothing to decide.
LEMMA NothingDecided == \A L : EveryDecided(L, <<>>)
<1>1. DOMAIN <<>> = {}
  OBVIOUS
<1>2. QED
  BY <1>1 DEF EveryDecided

\* No frame, nothing stacked.
LEMMA StackedNone == \A L : Stacked(L, <<>>)
<1>1. <<>> \in Seq({}) /\ DOMAIN <<>> = {}
  OBVIOUS
<1>2. IsSequence(<<>>)
  BY <1>1, SequenceIs
<1>3. QED
  BY <1>1, <1>2 DEF Stacked

\* A frame that is entered holds nothing random yet.
LEMMA FrameDecided ==
  ASSUME NEW L, NEW t, NEW form, NEW path
  PROVE  /\ Decided(L, Frame(t, form, path)) /\ EveryDecided(L, <<Frame(t, form, path)>>)
         /\ Frame(t, form, path).of = t
<1> DEFINE f == Frame(t, form, path)
<1>1. f.random = {} /\ f.pass = 0 /\ f.of = t
  BY DEF Frame
<1> HIDE DEF f
<1>2. Decided(L, f)
  BY <1>1 DEF Decided
<1>3. DOMAIN <<f>> = 1..1 /\ <<f>>[1] = f
  BY One
<1>4. EveryDecided(L, <<f>>)
  BY <1>2, <1>3 DEF EveryDecided
<1>5. QED
  BY <1>1, <1>2, <1>4 DEF f

\* A contract begins with nothing said and nothing consulted.
LEMMA BeginKeeps ==
  ASSUME IInv, Begin
  PROVE  RunKept
<1>1. stage = "S7" /\ sealed.pipeline # <<>> /\ run' = NewRun("act", None, <<>>) /\ UNCHANGED Sealed
  BY DEF Begin
<1>2. /\ IsRun(run') /\ run'.mode = "act" /\ run'.at = 1 /\ run'.stack = <<>> /\ run'.status = "running"
      /\ run'.done = <<>> /\ run'.drawn = {} /\ run'.kept = {} /\ run'.answer = "none"
  BY <1>1 DEF NewRun, IsRun
<1>3. FramesAccounted'
  BY <1>2, StackedNone DEF FramesAccounted
<1>4. RandomAccounted'
  BY <1>2, NothingDecided DEF RandomAccounted
<1>5. ActAccounted'
  <2>1. sealed' = sealed
    BY <1>1, RunStands
  <2>2. Len(sealed.pipeline) \in Nat /\ Len(sealed.pipeline) # 0
    <3>1. StageAccounted /\ stage = "S7"
      BY <1>1 DEF IInv
    <3>2. IsDraft(draft) /\ edges = Bindings /\ Conforms /\ sealed.pipeline = PipelineOf
      BY <3>1 DEF StageAccounted, Linked, Judged, Composed
    <3>3. IsSequence(sealed.pipeline)
      BY <3>2, PipelineIsSequence DEF Conforms
    <3>4. QED
      BY <1>1, <3>3, OutsideOf
  <2>3. IsSequence(<<>>) /\ Len(<<>>) = 0 /\ \A k \in 1..(1 - 1) : FALSE
    BY StackedNone DEF Stacked
  <2>4. QED
    BY <1>2, <2>1, <2>2, <2>3 DEF ActAccounted
<1>6. QED
  BY <1>2, <1>3, <1>4, <1>5 DEF RunKept

\* A case of a vector begins.
LEMMA BeginCaseKeeps ==
  ASSUME IInv, BeginCase
  PROVE  RunKept
<1>1. stage = "S7" /\ UNCHANGED Sealed
  BY DEF BeginCase
<1>2. PICK c \in draft.cases : run' = NewRun("case", c, <<Frame(c.target, sealed.forms[c.target], <<>>)>>)
  BY DEF BeginCase
<1>3. /\ IsLibrary(lib) /\ Lowers(lib) /\ sealed.forms = Forms(lib) /\ c.target \in DOMAIN lib
  BY <1>1 DEF IInv, StageAccounted, Formed, IsDraft, lib
<1> DEFINE stack == <<Frame(c.target, sealed.forms[c.target], <<>>)>>
<1>4. Stacked(lib, stack) /\ EveryDecided(lib, stack)
  BY <1>3, StackedOne, FrameDecided
<1> HIDE DEF stack
<1>5. /\ IsRun(run') /\ run'.mode = "case" /\ run'.stack = stack /\ run'.status = "running"
      /\ run'.drawn = {} /\ run'.kept = {} /\ run'.answer = "none"
  BY <1>2 DEF NewRun, IsRun, stack
<1>6. lib' = lib
  BY <1>1, RunStands
<1>7. FramesAccounted'
  BY <1>4, <1>5, <1>6 DEF FramesAccounted
<1>8. RandomAccounted'
  BY <1>4, <1>5, <1>6 DEF RandomAccounted
<1>9. ActAccounted'
  BY <1>5 DEF ActAccounted
<1>10. QED
  BY <1>5, <1>7, <1>8, <1>9 DEF RunKept

\* The step of a contract enters its transform.
LEMMA EnterTransformKeeps ==
  ASSUME IInv, EnterTransform
  PROVE  RunKept
<1> DEFINE stack == <<Frame(Step.runs, sealed.forms[Step.runs], <<>>)>>
<1>1. /\ run.mode = "act" /\ run.answer = "none" /\ Step.runs \in DOMAIN sealed.forms
      /\ run' = [run EXCEPT !.stack = stack] /\ UNCHANGED Sealed /\ run.status = "running"
  BY DEF EnterTransform, Running
<1>2. /\ IsLibrary(lib) /\ Lowers(lib) /\ sealed.forms = Forms(lib) /\ Step.runs \in DOMAIN lib
      /\ IsRun(run) /\ run.kept = run.drawn
  BY <1>1, Grounds DEF IInv, FramesAccounted
<1>3. Stacked(lib, stack) /\ EveryDecided(lib, stack)
  BY <1>2, StackedOne, FrameDecided
<1>4. stack[1].of = Step.runs
  BY FrameDecided, One
<1> HIDE DEF stack
<1>5. /\ IsRun(run') /\ run'.mode = run.mode /\ run'.at = run.at /\ run'.status = run.status
      /\ run'.done = run.done /\ run'.answer = run.answer /\ run'.outcome = run.outcome
      /\ run'.stack = stack /\ run'.drawn = run.drawn /\ run'.kept = run.kept
  BY <1>1, <1>2 DEF IsRun
<1>6. lib' = lib /\ sealed' = sealed
  BY <1>1, RunStands
<1>7. FramesAccounted'
  BY <1>1, <1>2, <1>3, <1>5, <1>6 DEF IInv, FramesAccounted
<1>8. RandomAccounted'
  BY <1>1, <1>3, <1>5, <1>6 DEF RandomAccounted
<1>9. ActAccounted'
  <2>1. Step' = Step
    BY <1>5, <1>6 DEF Step
  <2>2. QED
    BY <1>1, <1>2, <1>4, <1>5, <1>6, <2>1 DEF IInv, ActAccounted
<1>10. QED
  BY <1>1, <1>5, <1>7, <1>8, <1>9 DEF RunKept

\* A case is done, or is refused for a record nothing used.
LEMMA EndCaseKeeps ==
  ASSUME IInv, EndCase
  PROVE  RunKept
<1> DEFINE status == IF run.case.recorded \subseteq run.kept THEN "ended" ELSE "unused"
<1>1. run.mode = "case" /\ run' = [run EXCEPT !.status = status] /\ UNCHANGED Sealed
  BY DEF EndCase
<1>2. IsRun(run) /\ status \in {"ended", "unused"}
  BY <1>1 DEF IInv, FramesAccounted
<1> HIDE DEF status
<1>3. /\ IsRun(run') /\ run'.mode = "case" /\ run'.stack = run.stack /\ run'.status = status
      /\ run'.kept = run.kept /\ run'.drawn = run.drawn /\ run'.answer = run.answer
  BY <1>1, <1>2 DEF IsRun
<1>4. lib' = lib /\ WellNamed' = WellNamed
  BY <1>1, RunStands
<1>5. FramesAccounted'
  BY <1>1, <1>2, <1>3, <1>4 DEF IInv, FramesAccounted
<1>6. RandomAccounted'
  BY <1>1, <1>3, <1>4 DEF IInv, RandomAccounted
<1>7. QED
  BY <1>3, <1>5, <1>6 DEF RunKept, ActAccounted

\* Under names as they should be, the step an act stands at is the declared one.
LEMMA StepIsDeclared ==
  ASSUME IInv, run.mode = "act", WellNamed
  PROVE  /\ Len(sealed.pipeline) = Len(pipeline) /\ Len(pipeline) \in Nat /\ DOMAIN pipeline = 1..Len(pipeline)
         /\ \A k \in 1..Len(pipeline) : sealed.pipeline[k] = Entry(k) /\ pipeline[k] \in Range(pipeline)
         /\ run.at \in 1..Len(pipeline) /\ Step = Entry(run.at)
<1>1. IsDraft(draft) /\ Conforms /\ edges = Bindings /\ sealed.pipeline = PipelineOf
  BY Grounds DEF IInv
<1>2. OneCapability
  BY <1>1 DEF Conforms
<1>3. Len(PipelineOf) = Len(pipeline) /\ \A k \in DOMAIN pipeline : PipelineOf[k] = Entry(k)
  BY <1>1, <1>2, PipelineIsWhole
<1>4. Len(pipeline) \in Nat /\ DOMAIN pipeline = 1..Len(pipeline)
  BY <1>1, <1>2, PlacedAreSteps
<1>5. run.at \in 1..Len(sealed.pipeline)
  BY DEF IInv, ActAccounted
<1>6. \A k \in 1..Len(pipeline) : pipeline[k] \in Range(pipeline)
  BY <1>4 DEF Range
<1>7. Step = sealed.pipeline[run.at]
  BY DEF Step
<1>8. QED
  BY <1>1, <1>3, <1>4, <1>5, <1>6, <1>7

\* What a step declares: one capability, which is what is sealed for it to run.
LEMMA EntryRuns ==
  ASSUME WellNamed, OneCapability, NEW k, pipeline[k] \in Range(pipeline)
  PROVE  LET s == pipeline[k] IN
         /\ (s.transform = None) # (s.effect = None)
         /\ s.transform # None => /\ s.transform \in DOMAIN lib
                                  /\ s.effect = None /\ Entry(k).runs = s.transform
         /\ s.effect # None => /\ s.effect \in Effect /\ s.op \in DOMAIN Outcomes[s.effect]
                               /\ s.transform = None /\ Entry(k).runs = s.effect
         /\ Entry(k).id = s.id /\ Entry(k).op = s.op /\ Entry(k).on = s.on /\ Entry(k).reads = s.reads
<1>1. /\ (pipeline[k].transform = None) # (pipeline[k].effect = None)
      /\ pipeline[k].transform # None => pipeline[k].transform \in DOMAIN lib
      /\ pipeline[k].effect # None => pipeline[k].effect \in Effect /\ pipeline[k].op \in DOMAIN Outcomes[pipeline[k].effect]
  BY DEF WellNamed, OneCapability
<1>2. /\ pipeline[k].transform # None => Entry(k).runs = pipeline[k].transform
      /\ pipeline[k].transform = None => Entry(k).runs = pipeline[k].effect
      /\ Entry(k).id = pipeline[k].id /\ Entry(k).op = pipeline[k].op
      /\ Entry(k).on = pipeline[k].on /\ Entry(k).reads = pipeline[k].reads
  BY DEF Entry
<1>3. QED
  BY <1>1, <1>2

\* A transform answers the step that ran it.
LEMMA AnswerKeeps ==
  ASSUME IInv, Answer
  PROVE  RunKept
<1>1. Within /\ run.mode = "act" /\ UNCHANGED Sealed
  BY DEF Answer
<1>2. /\ run.stack # <<>> /\ run.status = "running" /\ Stands(lib, Top) /\ Stacked(lib, run.stack)
      /\ Unambiguous(lib) => Decided(lib, Top)
      /\ AtEnd => Top.pos > Len(Top.form.stream)
  BY <1>1, TopStands DEF Within, Running
<1>3. /\ IsLibrary(lib) /\ Lowers(lib) /\ Conforms /\ IsRun(run) /\ run.kept = run.drawn
      /\ run.stack[1].of = Step.runs /\ Step.runs \in DOMAIN lib
  BY <1>1, <1>2, Grounds DEF IInv, FramesAccounted, ActAccounted
<1>4. lib' = lib /\ sealed' = sealed /\ WellNamed' = WellNamed
  BY <1>1, RunStands
<1>5. PICK outcome, answer :
        /\ run' = [run EXCEPT !.stack = <<>>, !.outcome = outcome, !.answer = answer]
        /\ answer # "none" /\ (outcome = "SUCCESS" \/ (outcome = "VIOLATION" /\ lib[Step.runs].refuses))
        /\ answer = "random" => AtEnd /\ Under = <<>> /\ Top.form.emit \in Top.random
  <2>1. CASE AtEnd /\ Under = <<>> /\
             run' = [run EXCEPT !.stack = <<>>, !.outcome = "SUCCESS",
                                !.answer = IF Top.form.emit \in Top.random THEN "random" ELSE "decided"]
    <3> DEFINE answer == IF Top.form.emit \in Top.random THEN "random" ELSE "decided"
    <3>1. answer # "none" /\ (answer = "random" => Top.form.emit \in Top.random)
      OBVIOUS
    <3> HIDE DEF answer
    <3>2. run' = [run EXCEPT !.stack = <<>>, !.outcome = "SUCCESS", !.answer = answer]
      BY <2>1 DEF answer
    <3>3. QED
      BY <2>1, <3>1, <3>2
  <2>2. CASE lib[Step.runs].refuses /\
             run' = [run EXCEPT !.stack = <<>>, !.outcome = "VIOLATION", !.answer = "refused"]
    <3> DEFINE answer == "refused"
               outcome == "VIOLATION"
    <3>1. answer # "none" /\ answer # "random" /\ outcome = "VIOLATION"
      OBVIOUS
    <3> HIDE DEF answer, outcome
    <3>2. run' = [run EXCEPT !.stack = <<>>, !.outcome = outcome, !.answer = answer]
      BY <2>2 DEF answer, outcome
    <3>3. QED
      BY <2>2, <3>1, <3>2
  <2>3. QED
    BY <2>1, <2>2 DEF Answer
<1>6. /\ IsRun(run') /\ run'.mode = run.mode /\ run'.at = run.at /\ run'.status = run.status
      /\ run'.done = run.done /\ run'.answer = answer /\ run'.outcome = outcome
      /\ run'.stack = <<>> /\ run'.drawn = run.drawn /\ run'.kept = run.kept
  BY <1>3, <1>5 DEF IsRun
<1>7. FramesAccounted'
  BY <1>2, <1>3, <1>6, StackedNone DEF FramesAccounted
<1>8. ASSUME Unambiguous(lib), WellNamed
      PROVE  answer # "random"
  <2>1. SUFFICES ASSUME answer = "random"
                 PROVE  FALSE
    OBVIOUS
  <2>2. AtEnd /\ Under = <<>> /\ Top.form.emit \in Top.random
    BY <1>5, <2>1
  <2>3. lib[Top.of].kind = "atom" /\ Impure(lib, Top.of)
    BY <1>2, <1>3, <1>8, <2>2, EmitIsDecided
  <2>4. Top.of = Step.runs
    <3>1. IsSequence(run.stack)
      BY <1>2 DEF Stacked
    <3>2. /\ Len(run.stack) \in Nat /\ Len(run.stack) > 0 /\ Len(Under) = Len(run.stack) - 1
      BY <1>2, <3>1, OutsideOf DEF Under
    <3>3. Len(Under) = 0
      BY <2>2
    <3>4. Len(run.stack) = 1
      BY <3>2, <3>3
    <3>5. QED
      BY <1>3, <3>4 DEF Top
  <2> DEFINE s == pipeline[run.at]
  <2>5. s \in Range(pipeline) /\ Step = Entry(run.at)
    BY <1>1, <1>8, StepIsDeclared
  <2>6. OneCapability /\ NotRouted
    BY <1>3 DEF Conforms
  <2>7. s.transform = Step.runs
    <3>1. s.effect \in Effect => s.effect \notin DOMAIN lib
      BY <1>3, CapabilitiesAssumption DEF IsLibrary
    <3>2. QED
      BY <1>3, <1>8, <2>5, <2>6, <3>1, EntryRuns
  <2>8. Resolved(lib, s.transform) = Step.runs
    BY <1>3, <2>7 DEF Resolved
  <2>9. Step.runs # None
    BY <1>3, TransformsAssumption DEF IsLibrary
  <2>10. QED
    BY <2>3, <2>4, <2>5, <2>6, <2>8, <2>9 DEF NotRouted
<1>9. RandomAccounted'
  BY <1>4, <1>6, <1>8, NothingDecided DEF RandomAccounted
<1>10. ActAccounted'
  <2>1. Step' = Step
    BY <1>4, <1>6 DEF Step
  <2>2. MayAnswer(lib, Step, outcome)
    BY <1>3, <1>5 DEF MayAnswer
  <2>3. QED
    BY <1>1, <1>2, <1>4, <1>6, <2>1, <2>2 DEF IInv, ActAccounted
<1>11. QED
  BY <1>1, <1>6, <1>7, <1>9, <1>10 DEF RunKept

\* A side effect answers the step that called it.
LEMMA PerformKeeps ==
  ASSUME IInv, Perform
  PROVE  RunKept
<1>1. /\ run.mode = "act" /\ run.status = "running" /\ run.stack = <<>> /\ UNCHANGED Sealed
      /\ Step.runs \in Effect /\ Step.op \in DOMAIN Outcomes[Step.runs]
  BY DEF Perform, Running
<1>2. PICK c \in Outcomes[Step.runs][Step.op] : run' = [run EXCEPT !.outcome = c, !.answer = "performed"]
  BY DEF Perform
<1>3. IsRun(run) /\ run.kept = run.drawn
  BY <1>1 DEF IInv, FramesAccounted
<1>4. lib' = lib /\ sealed' = sealed
  BY <1>1, RunStands
<1>5. /\ IsRun(run') /\ run'.mode = run.mode /\ run'.at = run.at /\ run'.status = run.status
      /\ run'.done = run.done /\ run'.answer = "performed" /\ run'.outcome = c
      /\ run'.stack = <<>> /\ run'.drawn = run.drawn /\ run'.kept = run.kept
  BY <1>1, <1>2, <1>3 DEF IsRun
<1>6. FramesAccounted'
  BY <1>1, <1>3, <1>5, StackedNone DEF FramesAccounted
<1>7. RandomAccounted'
  BY <1>4, <1>5, NothingDecided DEF RandomAccounted
<1>8. ActAccounted'
  <2>1. Step' = Step
    BY <1>4, <1>5 DEF Step
  <2>2. MayAnswer(lib, Step, c)
    BY <1>1 DEF MayAnswer
  <2>3. QED
    BY <1>1, <1>4, <1>5, <2>1, <2>2 DEF IInv, ActAccounted
<1>9. QED
  BY <1>1, <1>5, <1>6, <1>7, <1>8 DEF RunKept

\* An outcome is routed to the next step or to an ending.
LEMMA RouteKeeps ==
  ASSUME IInv, Route
  PROVE  RunKept
<1>1. run.mode = "act" /\ run.status = "running" /\ run.answer # "none" /\ UNCHANGED Sealed
  BY DEF Route, Running
<1>2. /\ IsRun(run) /\ run.kept = run.drawn /\ run.stack = <<>> /\ run.at \in 1..Len(sealed.pipeline)
      /\ MayAnswer(lib, Step, run.outcome) /\ IsSequence(run.done) /\ Len(run.done) = run.at - 1
      /\ \A k \in 1..(run.at - 1) :
           run.done[k] = [id |-> sealed.pipeline[k].id, runs |-> sealed.pipeline[k].runs]
  BY <1>1 DEF IInv, FramesAccounted, ActAccounted
<1>3. Len(sealed.pipeline) \in Nat
  BY <1>1, Grounds DEF IInv
<1>4. lib' = lib /\ sealed' = sealed /\ WellNamed' = WellNamed
  BY <1>1, RunStands
<1> DEFINE gone == [id |-> Step.id, runs |-> Step.runs]
           ends == Step.on[run.outcome] = "exit" \/ run.at = Len(sealed.pipeline)
<1>5. ASSUME NEW status \in {"ended", "unrouted"}, run' = [run EXCEPT !.status = status],
             status = "unrouted" => run.outcome \notin DOMAIN Step.on,
             status = "ended" => run.outcome \in DOMAIN Step.on /\ ends
      PROVE  RunKept
  <2>1. /\ IsRun(run') /\ run'.mode = run.mode /\ run'.at = run.at /\ run'.status = status
        /\ run'.done = run.done /\ run'.answer = run.answer /\ run'.outcome = run.outcome
        /\ run'.stack = run.stack /\ run'.drawn = run.drawn /\ run'.kept = run.kept
    BY <1>2, <1>5 DEF IsRun
  <2>2. Step' = Step
    BY <1>4, <2>1 DEF Step
  <2>3. FramesAccounted'
    BY <1>1, <1>2, <2>1, StackedNone DEF FramesAccounted
  <2>4. RandomAccounted'
    BY <1>1, <1>4, <2>1 DEF IInv, RandomAccounted
  <2>5. ActAccounted'
    BY <1>1, <1>2, <1>4, <1>5, <2>1, <2>2 DEF ActAccounted
  <2>6. QED
    BY <1>1, <2>1, <2>3, <2>4, <2>5 DEF RunKept
<1>6. ASSUME run' = [run EXCEPT !.at = @ + 1, !.answer = "none", !.done = Append(@, gone)], ~ends
      PROVE  RunKept
  <2>1. /\ IsRun(run') /\ run'.mode = run.mode /\ run'.at = run.at + 1 /\ run'.status = run.status
        /\ run'.done = Append(run.done, gone) /\ run'.answer = "none"
        /\ run'.stack = run.stack /\ run'.drawn = run.drawn /\ run'.kept = run.kept
    BY <1>2, <1>6 DEF IsRun
  <2>2. FramesAccounted'
    BY <1>1, <1>2, <2>1, StackedNone DEF FramesAccounted
  <2>3. RandomAccounted'
    BY <1>2, <1>4, <2>1, NothingDecided DEF RandomAccounted
  <2>4. run.at + 1 \in 1..Len(sealed.pipeline) /\ run.at + 1 - 1 = run.at /\ run.at \in Nat
    BY <1>2, <1>3, <1>6
  <2>5. gone = [id |-> sealed.pipeline[run.at].id, runs |-> sealed.pipeline[run.at].runs]
    BY DEF Step
  <2> HIDE DEF gone
  <2>6. /\ IsSequence(run'.done) /\ Len(run'.done) = run.at /\ run'.done[run.at] = gone
        /\ \A k \in 1..(run.at - 1) : run'.done[k] = run.done[k]
    <3>1. Len(run.done) + 1 = run.at
      BY <1>2, <2>4
    <3>2. QED
      BY <1>2, <2>1, <3>1, Appended
  <2>7. ASSUME NEW k \in 1..run.at
        PROVE  run'.done[k] = [id |-> sealed.pipeline[k].id, runs |-> sealed.pipeline[k].runs]
    <3>1. k = run.at \/ k \in 1..(run.at - 1)
      BY <2>4
    <3>2. QED
      BY <1>2, <2>5, <2>6, <3>1
  <2>8. ActAccounted'
    BY <1>1, <1>2, <1>4, <2>1, <2>4, <2>6, <2>7 DEF ActAccounted
  <2>9. QED
    BY <1>1, <2>1, <2>2, <2>3, <2>8 DEF RunKept
<1>7. QED
  BY <1>5, <1>6 DEF Route

-----------------------------------------------------------------------------
(* The invariant, and what it implies.                                     *)

\* The invariant holds before anything was compiled or run.
LEMMA IInvInit == Init => IInv
<1> SUFFICES ASSUME Init PROVE IInv
  OBVIOUS
<1>1. StageAccounted
  BY StageInit
<1>2. run.mode = "none"
  BY DEF Init, NoRun
<1>3. QED
  BY <1>1, <1>2 DEF IInv, FramesAccounted, RandomAccounted, ActAccounted

\* Every step of the compiler and of the runtime keeps it.
LEMMA IInvNext == IInv /\ [Next]_vars => IInv'
<1> SUFFICES ASSUME IInv, [Next]_vars PROVE IInv'
  OBVIOUS
<1>1. CASE UNCHANGED vars
  <2>1. draft' = draft /\ stage' = stage /\ edges' = edges /\ sealed' = sealed /\ run' = run
    BY <1>1 DEF vars
  <2>2. StageAccounted'
    <3>1. CASE stage = "S7"
      <4>1. run'.mode \in {"none", "act", "case"} /\ UNCHANGED Sealed
        BY <2>1, <3>1 DEF IInv, StageAccounted, Sealed
      <4>2. QED
        BY <3>1, <4>1, RunKeepsStages DEF IInv
    <3>2. CASE stage # "S7"
      <4>1. Bindings' = Bindings /\ Referred' = Referred /\ Node' = Node /\ PipelineOf' = PipelineOf
              /\ Conforms' = Conforms /\ lib' = lib
        BY <2>1, BindingsStand, PipelineStands, ConformsStands, DeclaredStands
      <4>2. QED
        BY <2>1, <3>2, <4>1 DEF IInv, StageAccounted
    <3>3. QED
      BY <3>1, <3>2
  <2>3. lib' = lib /\ WellNamed' = WellNamed /\ Step' = Step
    BY <2>1, RunStands DEF Sealed, Step
  <2>4. QED
    BY <2>1, <2>2, <2>3 DEF IInv, FramesAccounted, RandomAccounted, ActAccounted
<1>2. CASE Canonicalize \/ Govern \/ Construct \/ Project \/ Materialize
  <2>1. StageAccounted'
    BY <1>2, StageBuilds DEF IInv
  <2>2. run'.mode = "none"
    <3>1. run' = run /\ stage # "S7"
      BY <1>2 DEF Canonicalize, Govern, Construct, Project, Materialize, RefusedAt
    <3>2. QED
      BY <3>1 DEF IInv, StageAccounted
  <2>3. QED
    BY <2>1, <2>2 DEF IInv, FramesAccounted, RandomAccounted, ActAccounted
<1>3. CASE Begin \/ BeginCase \/ EnterTransform \/ RunAtom \/ EnterBody \/ LeaveBody \/ EndLoop
             \/ Answer \/ Perform \/ Route \/ EndCase
  <2>1. RunKept
    BY <1>3, BeginKeeps, BeginCaseKeeps, EnterTransformKeeps, RunAtomKeeps, EnterBodyKeeps, LeaveBodyKeeps,
       EndLoopKeeps, AnswerKeeps, PerformKeeps, RouteKeeps, EndCaseKeeps
  <2>2. stage = "S7" /\ UNCHANGED Sealed
    <3>1. CASE Begin \/ BeginCase
      BY <3>1 DEF Begin, BeginCase
    <3>2. CASE EnterTransform \/ RunAtom \/ EnterBody \/ LeaveBody \/ EndLoop \/ Answer \/ Perform \/ Route \/ EndCase
      <4>1. run.mode # "none" /\ UNCHANGED Sealed
        BY <3>2 DEF EnterTransform, RunAtom, EnterBody, LeaveBody, EndLoop, Answer, Perform, Route, EndCase,
                    Within, Running
      <4>2. QED
        BY <4>1, Grounds DEF IInv
    <3>3. QED
      BY <1>3, <3>1, <3>2
  <2>3. StageAccounted'
    BY <2>1, <2>2, RunKeepsStages DEF IInv, RunKept
  <2>4. QED
    BY <2>1, <2>3 DEF IInv, RunKept
<1>4. QED
  BY <1>1, <1>2, <1>3 DEF Next

\* Everything the proofs about Contract rest on holds of every run of it: what each stage of the
\* build leaves, where a run can stand, and what it holds that is random.
THEOREM Accounted == Spec => []IInv
BY IInvInit, IInvNext, PTL DEF Spec

\* The state is well formed, and no stack grows deeper than lowering follows molecules.
LEMMA TypesHold == IInv => TypeOK
<1> SUFFICES ASSUME IInv PROVE TypeOK
  OBVIOUS
<1>1. stage \in Stages \union Refused
  BY DEF IInv, StageAccounted
<1>2. ASSUME NEW e \in edges
      PROVE  e.to \in Node /\ e.index \in 0..Len(pipeline)
  <2>1. edges = Bindings /\ Referred \subseteq Node /\ IsDraft(draft)
    BY <1>2 DEF IInv, StageAccounted
  <2>2. Len(pipeline) \in Nat /\ DOMAIN pipeline = 1..Len(pipeline)
    BY <2>1 DEF IsDraft, IsSequence, pipeline
  <2>3. OfContract \subseteq Node
    BY <2>1 DEF Referred
  <2>4. CASE e \in StepBindings
    BY <2>2, <2>4 DEF StepBindings
  <2>5. CASE e \in {[to |-> n, kind |-> BindingKind(n), index |-> 0] : n \in OfContract}
    BY <2>2, <2>3, <2>5
  <2>6. QED
    BY <1>2, <2>1, <2>4, <2>5 DEF Bindings
<1>3. run.mode \in {"none", "act", "case"}
  BY DEF IInv, StageAccounted
<1>4. ASSUME run.mode # "none"
      PROVE  /\ run.status \in {"running", "ended", "unrouted", "unrecorded", "unused"}
             /\ run.at \in 1..Len(sealed.pipeline) \/ run.mode = "case"
             /\ Len(run.stack) <= MaxDepth + 1
             /\ \A k \in DOMAIN run.stack : run.stack[k].pass \in 0..MaxPasses
  <2>1. /\ Stacked(lib, run.stack) /\ IsSequence(run.stack)
        /\ run.status \in {"running", "ended", "unrouted", "unrecorded", "unused"}
    BY <1>4 DEF IInv, FramesAccounted, Stacked
  <2>2. run.at \in 1..Len(sealed.pipeline) \/ run.mode = "case"
    BY <1>3, <1>4 DEF IInv, ActAccounted
  <2>3. \A k \in DOMAIN run.stack : run.stack[k].pass \in 0..MaxPasses
    BY <2>1 DEF Stacked, Stands
  <2>4. Len(run.stack) <= MaxDepth + 1
    <3>1. CASE run.stack = <<>>
      BY <3>1, TransformsAssumption
    <3>2. CASE run.stack # <<>>
      <4>1. Len(run.stack) \in DOMAIN run.stack
        BY <2>1, <3>2, OutsideOf
      <4>2. QED
        BY <2>1, <4>1 DEF Stacked, Deep
    <3>3. QED
      BY <3>1, <3>2
  <2>5. QED
    BY <2>1, <2>2, <2>3, <2>4
<1>5. QED
  BY <1>1, <1>2, <1>3, <1>4 DEF TypeOK

\* Whatever runs something random was declared to: what is random at the top of a stack is so in
\* every frame below it.
LEMMA HidesNothing == IInv => NothingRandomHides
<1> SUFFICES ASSUME IInv, Unambiguous(lib), Within, ~AtEnd, Current.kind = "atom", Impure(lib, Current.runs)
             PROVE  \A k \in DOMAIN run.stack : Impure(lib, run.stack[k].of)
  BY DEF NothingRandomHides
<1> DEFINE s == run.stack
           n == Len(s)
<1>1. /\ run.mode # "none" /\ s # <<>> /\ Stacked(lib, s) /\ IsSequence(s) /\ Stands(lib, Top)
      /\ Top.pos <= Len(Top.form.stream) /\ Current = Line(Top)
  BY TopStands DEF Stacked
<1>2. IsLibrary(lib) /\ Lowers(lib) /\ Conforms
  BY <1>1, Grounds DEF IInv
<1>3. n \in Nat /\ n > 0 /\ DOMAIN s = 1..n
  BY <1>1, OutsideOf
<1>4. PurityConsistent(lib)
  BY <1>2 DEF Conforms
<1>5. ASSUME NEW f, Stands(lib, f), f.pos <= Len(f.form.stream), lib[f.of].kind # "atom",
             Impure(lib, Line(f).runs)
      PROVE  Impure(lib, f.of)
  <2>1. f.of \in Molecules(lib) /\ Line(f).runs \in Runs(lib, f.of)
    BY <1>2, <1>5, LineResolved
  <2>2. Cardinality(DOMAIN lib) \in Nat
    BY <1>2, FS_CardinalityType DEF IsLibrary
  <2>3. Line(f).runs \in Reachable(lib, f.of)
    BY <2>1, <2>2, SpreadGrows DEF Reachable
  <2>4. QED
    BY <1>4, <1>5, <2>1, <2>3 DEF PurityConsistent
<1>6. Impure(lib, Top.of)
  <2>1. CASE lib[Top.of].kind = "atom"
    <3>1. Len(Top.form.stream) = 1 /\ Top.form.stream[1].runs = Top.of
      BY <1>1, <1>2, <2>1, AtomsLine
    <3>2. Top.pos = 1
      BY <1>1, <3>1 DEF Stands
    <3>3. QED
      BY <1>1, <3>1, <3>2 DEF Line
  <2>2. CASE lib[Top.of].kind # "atom"
    BY <1>1, <1>5, <2>2
  <2>3. QED
    BY <2>1, <2>2
<1>7. \A k \in 1..n : Stands(lib, s[k]) /\ (k > 1 => Entered(s[k - 1], s[k]))
  BY <1>1, <1>3 DEF Stacked
<1>8. s[n] = Top
  BY DEF Top
<1> HIDE DEF s, n
<1>9. ASSUME NEW k \in 1..n, k > 1, Impure(lib, s[k].of)
      PROVE  Impure(lib, s[k - 1].of)
  <2>1. k - 1 \in 1..n
    BY <1>3, <1>9
  <2>2. /\ Stands(lib, s[k - 1]) /\ s[k - 1].pos <= Len(s[k - 1].form.stream)
        /\ Line(s[k - 1]).kind # "atom" /\ Line(s[k - 1]).runs = s[k].of
    BY <1>7, <1>9, <2>1 DEF Entered
  <2>3. lib[s[k - 1].of].kind # "atom"
    <3>1. SUFFICES ASSUME lib[s[k - 1].of].kind = "atom"
                   PROVE  FALSE
      OBVIOUS
    <3>2. Len(s[k - 1].form.stream) = 1 /\ s[k - 1].form.stream[1].kind = "atom"
      BY <1>2, <2>2, <3>1, AtomsLine
    <3>3. s[k - 1].pos = 1
      BY <2>2, <3>2 DEF Stands
    <3>4. QED
      BY <2>2, <3>2, <3>3 DEF Line
  <2>4. QED
    BY <1>5, <1>9, <2>2, <2>3
<1> DEFINE Good == {j \in Nat : j < n => Impure(lib, s[n - j].of)}
<1>10. 0 \in Good
  BY <1>3, <1>6, <1>8
<1>11. ASSUME NEW j \in Nat, j \in Good
       PROVE  j + 1 \in Good
  <2>1. SUFFICES ASSUME j + 1 < n
                 PROVE  Impure(lib, s[n - (j + 1)].of)
    OBVIOUS
  <2> DEFINE k == n - j
  <2>2. k \in 1..n /\ k > 1 /\ n - (j + 1) = k - 1 /\ Impure(lib, s[k].of)
    BY <1>3, <1>11, <2>1
  <2> HIDE DEF k, Good
  <2>3. Impure(lib, s[k - 1].of)
    BY <1>9, <2>2
  <2>4. QED
    BY <2>2, <2>3
<1>12. \A j \in Nat : j \in Good
  <2> HIDE DEF Good
  <2>1. QED
    BY <1>10, <1>11, SetInduction
<1>13. ASSUME NEW k \in 1..n
       PROVE  Impure(lib, s[k].of)
  <2>1. n - k \in Nat /\ n - k < n /\ n - (n - k) = k
    BY <1>3
  <2>2. n - k \in Good
    BY <1>12, <2>1
  <2>3. QED
    BY <2>1, <2>2
<1>14. QED
  BY <1>3, <1>13 DEF s

\* What an act is answered is declared, so that it is routed, ends the contract with a status it
\* declares and is of the surface that governs the step.
LEMMA EndsWithin == IInv => EndsWithinItsContract
<1> SUFFICES ASSUME IInv, run.mode = "act", InForce, WellNamed
             PROVE  /\ run.status # "unrouted"
                    /\ run.status = "ended" => run.outcome \in draft.allowed
                    /\ run.answer # "none" =>
                         LET k == GovernorOf(draft.surfaces, CHOOSE s \in Range(pipeline) : s.id = Step.id)
                         IN  k # 0 => run.outcome \in draft.surfaces.contracts[k].surface
  BY DEF EndsWithinItsContract
<1> DEFINE s == pipeline[run.at]
<1>1. /\ Len(sealed.pipeline) = Len(pipeline) /\ Len(pipeline) \in Nat /\ DOMAIN pipeline = 1..Len(pipeline)
      /\ run.at \in 1..Len(pipeline) /\ Step = Entry(run.at) /\ s \in Range(pipeline)
  BY StepIsDeclared
<1>2. Conforms /\ IsLibrary(lib)
  BY Grounds DEF IInv
<1>3. /\ OneCapability /\ RoutingComplete /\ ContractClosed /\ StepsDeclared /\ StepIdsUnique
      /\ SurfaceCanonical(draft.surfaces, pipeline)
  BY <1>2 DEF Conforms
<1>4. /\ (s.transform = None) # (s.effect = None)
      /\ s.transform # None => s.transform \in DOMAIN lib /\ s.effect = None /\ Step.runs = s.transform
      /\ s.effect # None => /\ s.effect \in Effect /\ s.op \in DOMAIN Outcomes[s.effect]
                            /\ s.transform = None /\ Step.runs = s.effect
      /\ Step.id = s.id /\ Step.op = s.op /\ Step.on = s.on
  BY <1>1, <1>3, EntryRuns
<1>5. \A x \in Effect : x \notin DOMAIN lib
  BY <1>2, CapabilitiesAssumption DEF IsLibrary
<1> HIDE DEF s
<1>6. ASSUME run.answer # "none"
      PROVE  run.outcome \in Declared(s)
  <2>1. MayAnswer(lib, Step, run.outcome)
    BY <1>6 DEF IInv, ActAccounted
  <2>2. CASE s.transform # None
    BY <1>4, <1>5, <2>1, <2>2 DEF MayAnswer, Declared
  <2>3. CASE s.effect # None
    BY <1>4, <1>5, <2>1, <2>3 DEF MayAnswer, Declared
  <2>4. QED
    BY <1>4, <2>2, <2>3
<1>7. Declared(s) \subseteq s.surface /\ s.surface = DOMAIN s.on
  BY <1>1, <1>3 DEF RoutingComplete
<1>8. /\ run.status \in {"unrouted", "ended"} => run.answer # "none"
      /\ run.status = "unrouted" => run.outcome \notin DOMAIN Step.on
      /\ run.status = "ended" => Step.on[run.outcome] = "exit" \/ run.at = Len(sealed.pipeline)
  BY DEF IInv, ActAccounted
<1>9. run.status # "unrouted"
  BY <1>4, <1>6, <1>7, <1>8
<1>10. ASSUME run.status = "ended"
       PROVE  run.outcome \in draft.allowed
  <2>1. run.outcome \in s.surface \intersect DOMAIN s.on
    BY <1>6, <1>7, <1>8, <1>10
  <2>2. s.on[run.outcome] = "exit" \/ (run.at = Len(pipeline) /\ s.on[run.outcome] = "continue")
    <3>1. s.on[run.outcome] \in {"continue", "exit"}
      BY <1>1, <1>3, <2>1 DEF ContractClosed
    <3>2. QED
      BY <1>1, <1>4, <1>8, <1>10, <3>1
  <2>3. run.outcome \in Exits
    BY <1>1, <2>1, <2>2 DEF Exits, s
  <2>4. QED
    BY <1>3, <2>3 DEF ContractClosed
<1>11. (CHOOSE x \in Range(pipeline) : x.id = Step.id) = s
  <2>1. ASSUME NEW x \in Range(pipeline), x.id = Step.id
        PROVE  x = s
    <3>1. PICK j \in DOMAIN pipeline : x = pipeline[j]
      BY DEF Range
    <3>2. x.id # None /\ pipeline[run.at].id = x.id
      BY <1>3, <1>4, <2>1 DEF StepsDeclared, s
    <3>3. j = run.at
      BY <1>1, <1>3, <3>1, <3>2 DEF StepIdsUnique
    <3>4. QED
      BY <3>1, <3>3 DEF s
  <2>2. s \in Range(pipeline) /\ s.id = Step.id
    BY <1>1, <1>4
  <2>3. QED
    BY <2>1, <2>2
<1>12. ASSUME run.answer # "none", GovernorOf(draft.surfaces, s) # 0
       PROVE  run.outcome \in draft.surfaces.contracts[GovernorOf(draft.surfaces, s)].surface
  BY <1>1, <1>3, <1>6, <1>7, <1>12 DEF SurfaceCanonical
<1>13. QED
  BY <1>9, <1>10, <1>11, <1>12

\* What a step reads of an earlier result was produced there, and by a transform whose declared type
\* it takes.
LEMMA ReadsProduced == IInv => ReadsWhatWasProduced
<1> SUFFICES ASSUME IInv, run.mode = "act", InForce, WellNamed, Step.reads.shape = "field"
             PROVE  \E k \in DOMAIN run.done :
                      /\ run.done[k].id = Step.reads.from
                      /\ Step.runs \in DOMAIN lib /\ run.done[k].runs \in DOMAIN lib =>
                           Satisfies(lib[run.done[k].runs].gives, lib[Step.runs].takes)
  BY DEF ReadsWhatWasProduced
<1> DEFINE n == run.at
           s == pipeline[n]
<1>1. /\ Len(pipeline) \in Nat /\ DOMAIN pipeline = 1..Len(pipeline)
      /\ \A k \in 1..Len(pipeline) : sealed.pipeline[k] = Entry(k) /\ pipeline[k] \in Range(pipeline)
      /\ n \in 1..Len(pipeline) /\ Step = Entry(n)
  BY StepIsDeclared
<1>2. Conforms /\ IsLibrary(lib)
  BY Grounds DEF IInv
<1>3. OneCapability /\ ReadsDeclared /\ InputTyped /\ StepsDeclared /\ StepIdsUnique
  BY <1>2 DEF Conforms
<1>4. \A x \in Effect : x \notin DOMAIN lib
  BY <1>2, CapabilitiesAssumption DEF IsLibrary
<1>5. ASSUME NEW k \in 1..Len(pipeline)
      PROVE  /\ Entry(k).id = pipeline[k].id /\ Entry(k).reads = pipeline[k].reads
             /\ Entry(k).runs \in DOMAIN lib => pipeline[k].transform = Entry(k).runs
  BY <1>1, <1>3, <1>4, EntryRuns
<1>6. PICK j \in 1..(n - 1) : pipeline[j].id = s.reads.from
  BY <1>1, <1>3, <1>5 DEF ReadsDeclared
<1>7. j \in 1..Len(pipeline) /\ n - 1 \in Nat
  BY <1>1
<1>8. /\ DOMAIN run.done = 1..(n - 1)
      /\ run.done[j] = [id |-> sealed.pipeline[j].id, runs |-> sealed.pipeline[j].runs]
  <2>1. /\ IsSequence(run.done) /\ Len(run.done) = n - 1
        /\ \A k \in 1..(n - 1) :
             run.done[k] = [id |-> sealed.pipeline[k].id, runs |-> sealed.pipeline[k].runs]
    BY DEF IInv, ActAccounted
  <2>2. DOMAIN run.done = 1..Len(run.done)
    BY <2>1 DEF IsSequence
  <2>3. QED
    BY <2>1, <2>2
<1>9. run.done[j].id = Step.reads.from /\ run.done[j].runs = Entry(j).runs
  BY <1>1, <1>5, <1>6, <1>7, <1>8
<1>10. ASSUME Step.runs \in DOMAIN lib, run.done[j].runs \in DOMAIN lib
       PROVE  Satisfies(lib[run.done[j].runs].gives, lib[Step.runs].takes)
  <2>1. s.transform = Step.runs /\ pipeline[j].transform = run.done[j].runs
    BY <1>1, <1>5, <1>7, <1>9, <1>10
  <2> DEFINE earlier == {i \in 1..(n - 1) : pipeline[i].id = s.reads.from /\ pipeline[i].transform \in DOMAIN lib}
  <2>2. j \in earlier
    BY <1>6, <1>10, <2>1
  <2>3. \A i \in earlier : i = j
    <3>1. SUFFICES ASSUME NEW i \in earlier PROVE i = j
      OBVIOUS
    <3>2. i \in DOMAIN pipeline /\ j \in DOMAIN pipeline /\ pipeline[i].id = pipeline[j].id
      BY <1>1, <1>6, <1>7
    <3>3. pipeline[j].id # None
      BY <1>1, <1>3, <1>7 DEF StepsDeclared
    <3>4. QED
      BY <1>3, <3>2, <3>3 DEF StepIdsUnique
  <2>4. (CHOOSE i \in earlier : \A h \in earlier : h <= i) = j
    BY <1>7, <2>2, <2>3
  <2>5. s.reads.shape = "field"
    BY <1>1, <1>5
  <2>6. Given(n) = lib[pipeline[j].transform].gives
    BY <2>2, <2>4, <2>5 DEF Given
  <2>7. Satisfies(Given(n), lib[s.transform].takes)
    BY <1>1, <1>3, <1>10, <2>1 DEF InputTyped
  <2>8. QED
    BY <2>1, <2>6, <2>7
<1>11. QED
  BY <1>8, <1>9, <1>10

\* The state is well formed: a run is never nested deeper than lowering allows a molecule to be, and
\* no loop makes more passes than it has members (cli.py, s5_construct.py _MAX_MOLECULE_DEPTH).
THEOREM RunsAreWellFormed == Spec => []TypeOK
BY Accounted, TypesHold, PTL

\* S5 refuses what S4 admitted only for a depth or a code that S4 does not look at.
THEOREM WhatIsAdmittedIsLowered == Spec => []AdmittedIsLowered
<1>1. IInv => AdmittedIsLowered
  BY StageHolds DEF IInv
<1>2. QED
  BY <1>1, Accounted, PTL

\* An act writes and reads only where its own bindings and its declared consultations let it.
THEOREM ActsStayInReach == Spec => []ActsKeepToTheirReach
<1>1. IInv => ActsKeepToTheirReach
  BY StageHolds DEF IInv
<1>2. QED
  BY <1>1, Accounted, PTL

\* An act is entered through the gate it names, and what a boundary invokes can be entered.
THEOREM GatesAreEntered == Spec => []EntersThroughItsGate
<1>1. IInv => EntersThroughItsGate
  BY StageHolds DEF IInv
<1>2. QED
  BY <1>1, Accounted, PTL

\* In a domain that is admitted, every transform in force is run by something the contract runs.
THEOREM NothingIsIdle == Spec => []NothingDeclaredIsIdle
<1>1. IInv => NothingDeclaredIsIdle
  BY StageHolds DEF IInv
<1>2. QED
  BY <1>1, Accounted, PTL

\* Where an assertion of S4 lists what its layers may hold, what is listed is what the sealed pipeline
\* runs, at any depth.
THEOREM WhatRunsIsListed == Spec => []RunsWhatIsListed
<1>1. IInv => RunsWhatIsListed
  BY StageHolds DEF IInv
<1>2. QED
  BY <1>1, Accounted, PTL

\* The runtime, which sees only the purity each step was sealed with, records exactly what something
\* random said, whichever artifact of a code was sealed.
THEOREM WhatIsRandomIsRecorded == Spec => []RandomIsRecorded
<1>1. IInv => RandomIsRecorded
  BY DEF IInv, FramesAccounted, RandomIsRecorded
<1>2. QED
  BY <1>1, Accounted, PTL

\* What something random said never answers a contract, through whatever molecules and loops it
\* went: S4's EmitsDecided and NotRouted, which look at one stream each, suffice at every depth.
THEOREM WhatIsRandomDoesNotDecide == Spec => []NothingRandomDecides
<1>1. IInv => NothingRandomDecides
  BY DEF IInv, RandomAccounted, NothingRandomDecides, Running
<1>2. QED
  BY <1>1, Accounted, PTL

\* Nothing random runs inside a transform declared deterministic, at any depth.
THEOREM WhatIsRandomDoesNotHide == Spec => []NothingRandomHides
BY HidesNothing, Accounted, PTL

\* Whatever step an act comes to is one of a contract that conforms, so it names what can be run.
LEMMA StepRuns ==
  ASSUME IInv, run.mode = "act", Running, WellNamed
  PROVE  \/ Step.runs \in DOMAIN sealed.forms
         \/ Step.runs \in Effect /\ Step.op \in DOMAIN Outcomes[Step.runs]
<1> DEFINE s == pipeline[run.at]
<1>1. Step = Entry(run.at) /\ s \in Range(pipeline)
  BY StepIsDeclared
<1>2. OneCapability /\ DOMAIN sealed.forms = DOMAIN lib
  BY Grounds DEF IInv, Conforms
<1>3. /\ (s.transform = None) # (s.effect = None)
      /\ s.transform # None => s.transform \in DOMAIN lib /\ Step.runs = s.transform
      /\ s.effect # None => s.effect \in Effect /\ s.op \in DOMAIN Outcomes[s.effect] /\ Step.runs = s.effect
      /\ Step.op = s.op
  BY <1>1, <1>2, EntryRuns
<1> HIDE DEF s
<1>4. QED
  BY <1>2, <1>3

\* Whatever step an act comes to, what is sealed there can be run.
THEOREM WhatIsReachedRuns == Spec => []EveryStepRuns
<1>1. IInv => EveryStepRuns
  BY StepRuns DEF EveryStepRuns
<1>2. QED
  BY <1>1, Accounted, PTL

\* A contract in force ends with a status it declares, and every outcome it meets is routed.
THEOREM ContractsEndWithin == Spec => []EndsWithinItsContract
BY EndsWithin, Accounted, PTL

\* A step finds what it reads, of a type it takes.
THEOREM StepsReadWhatWasProduced == Spec => []ReadsWhatWasProduced
BY ReadsProduced, Accounted, PTL

-----------------------------------------------------------------------------
(* Replaying a case.                                                       *)

\* The symbol a frame's next step is recorded under, with the pass it is at.
Mark(f) == <<Line(f).as, IF Line(f).kind = "loop" THEN f.pass + 1 ELSE 0>>

\* The path of a frame is made of the steps its outer frames stand at.
PathFollows(s, k) ==
  IsSequence(s[k].path) /\ Len(s[k].path) = k - 1 /\ \A j \in 1..(k - 1) : s[k].path[j] = Mark(s[j])

\* The path of a frame tells where its outer frames stand.
LEMMA PathsFollow ==
  ASSUME NEW L, NEW s, Stacked(L, s)
  PROVE  \A k \in DOMAIN s : PathFollows(s, k)
<1>1. /\ Len(s) \in Nat /\ DOMAIN s = 1..Len(s)
      /\ \A k \in DOMAIN s : k > 1 => Entered(s[k - 1], s[k])
      /\ s # <<>> => s[1].path = <<>>
  BY Appended DEF Stacked
<1> DEFINE Good == {k \in Nat : k \in DOMAIN s => PathFollows(s, k)}
<1>2. 0 \in Good
  BY <1>1
<1>3. ASSUME NEW k \in Nat, k \in Good
      PROVE  k + 1 \in Good
  <2>1. SUFFICES ASSUME k + 1 \in DOMAIN s
                 PROVE  PathFollows(s, k + 1)
    OBVIOUS
  <2>2. CASE k = 0
    <3>1. IsSequence(<<>>) /\ Len(<<>>) = 0 /\ s[1].path = <<>>
      BY <1>1, <2>1, <2>2, StackedNone DEF Stacked
    <3>2. k + 1 = 1
      BY <2>2
    <3>3. QED
      BY <3>1, <3>2 DEF PathFollows
  <2>3. CASE k # 0
    <3>1. k \in DOMAIN s /\ k + 1 > 1 /\ (k + 1) - 1 = k
      BY <1>1, <2>1, <2>3
    <3>2. PathFollows(s, k) /\ Entered(s[k], s[k + 1])
      BY <1>1, <1>3, <2>1, <3>1
    <3> DEFINE p == s[k].path
    <3>3. s[k + 1].path = Append(p, Mark(s[k]))
      BY <3>2 DEF Entered, Onto, Mark
    <3>4. IsSequence(p) /\ Len(p) = k - 1 /\ \A j \in 1..(k - 1) : p[j] = Mark(s[j])
      BY <3>2 DEF PathFollows
    <3> HIDE DEF p
    <3>5. /\ IsSequence(Append(p, Mark(s[k]))) /\ Len(Append(p, Mark(s[k]))) = (k - 1) + 1
          /\ Append(p, Mark(s[k]))[(k - 1) + 1] = Mark(s[k])
          /\ \A j \in 1..(k - 1) : Append(p, Mark(s[k]))[j] = p[j]
      BY <3>4, Appended
    <3>6. QED
      BY <3>3, <3>4, <3>5 DEF PathFollows
  <2>4. QED
    BY <2>2, <2>3
<1>4. \A k \in Nat : k \in Good
  <2> HIDE DEF Good
  <2>1. QED
    BY <1>2, <1>3, SetInduction
<1>5. QED
  BY <1>1, <1>4

\* The path of the next step of the innermost frame, mark by mark.
LEMMA OntoFollows ==
  ASSUME NEW L, NEW s, Stacked(L, s), s # <<>>
  PROVE  /\ IsSequence(Onto(s[Len(s)])) /\ Len(Onto(s[Len(s)])) = Len(s)
         /\ \A j \in 1..Len(s) : Onto(s[Len(s)])[j] = Mark(s[j])
<1> DEFINE n == Len(s)
           p == s[n].path
           q == Append(p, Mark(s[n]))
<1>1. n \in Nat /\ n > 0 /\ DOMAIN s = 1..n
  BY OutsideOf DEF Stacked
<1>2. Onto(s[n]) = q
  BY DEF Onto, Mark
<1>3. n \in DOMAIN s
  BY <1>1
<1>4. IsSequence(p) /\ Len(p) = n - 1 /\ \A j \in 1..(n - 1) : p[j] = Mark(s[j])
  BY <1>3, PathsFollow DEF PathFollows
<1> HIDE DEF n, p
<1>5. /\ IsSequence(q) /\ Len(q) = (n - 1) + 1 /\ q[(n - 1) + 1] = Mark(s[n])
      /\ \A j \in 1..(n - 1) : q[j] = p[j]
  BY <1>4, Appended
<1> HIDE DEF q
<1>6. IsSequence(q) /\ Len(q) = n /\ \A j \in 1..n : q[j] = Mark(s[j])
  BY <1>1, <1>4, <1>5
<1>7. QED
  BY <1>2, <1>6 DEF n

\* Two sequences of the same length with the same elements are the same.
LEMMA SameSequence ==
  ASSUME NEW p, NEW q, IsSequence(p), IsSequence(q), Len(p) = Len(q), \A k \in 1..Len(p) : p[k] = q[k]
  PROVE  p = q
<1>1. p \in Seq(Range(p)) /\ q \in Seq(Range(q))
  BY DEF IsSequence
<1>2. p = [k \in 1..Len(p) |-> p[k]] /\ q = [k \in 1..Len(q) |-> q[k]]
  BY <1>1
<1>3. QED
  BY <1>2

\* What S4 admitted can be replayed from the molecule t: nothing inside it loops, each molecule inside
\* stands at one place, and so does each symbol of a step that is not deterministic.
Apart(t) ==
  /\ \A m \in Inside(lib, t) : \A s \in Steps(lib, m) : s.kind # "loop"
  /\ \A m \in Inside(lib, t) \ {t} : Cardinality(Places(lib, t, m)) = 1
  /\ \A m, n \in Inside(lib, t) : \A j \in DOMAIN lib[m].stream, k \in DOMAIN lib[n].stream :
       lib[m].stream[j].as = lib[n].stream[k].as /\ lib[m].stream[j].as \in ImpureSymbols(lib, t)
         => m = n /\ j = k

Replayable(t) ==
  /\ IsLibrary(lib) /\ Lowers(lib) /\ Conforms /\ Unambiguous(lib)
  /\ t \in Molecules(lib) /\ Apart(t)

\* What is asked of a case is asked of its target.
LEMMA OnceIsApart ==
  ASSUME NEW c, c.target \in DOMAIN lib, OncePerSymbol(c)
  PROVE  Apart(c.target)
<1>1. Resolved(lib, c.target) = c.target
  BY DEF Resolved
<1> DEFINE t == c.target
<1>2. \A m \in Inside(lib, t) : \A s \in Steps(lib, m) : s.kind # "loop"
  BY <1>1 DEF OncePerSymbol, Inside
<1>3. ASSUME NEW m \in Inside(lib, t) \ {t}
      PROVE  Cardinality(Places(lib, t, m)) = 1
  BY <1>1, <1>3 DEF OncePerSymbol, Inside, Places
<1>4. ASSUME NEW m \in Inside(lib, t), NEW n \in Inside(lib, t),
             NEW j \in DOMAIN lib[m].stream, NEW k \in DOMAIN lib[n].stream,
             lib[m].stream[j].as = lib[n].stream[k].as, lib[m].stream[j].as \in ImpureSymbols(lib, t)
      PROVE  m = n /\ j = k
  <2>1. <<m, j>> = <<n, k>>
    BY <1>1, <1>4 DEF OncePerSymbol, Inside
  <2>2. QED
    BY <2>1
<1>5. QED
  BY <1>2, <1>3, <1>4 DEF Apart

\* What a frame of a molecule stands at, as it is declared.
Declares(f, s) ==
  /\ f.pos \in DOMAIN lib[f.of].stream /\ s = lib[f.of].stream[f.pos] /\ s \in Steps(lib, f.of)
  /\ Line(f).kind = s.kind /\ Line(f).as = s.as /\ Line(f).runs = Resolved(lib, s.names)
  /\ Line(f).runs \in DOMAIN lib /\ Line(f).purity = lib[Line(f).runs].purity
  /\ lib[Line(f).runs].kind = IF s.kind = "atom" THEN "atom" ELSE "molecule"

\* A frame that runs a molecule stands at one of its declared steps, or has done them.
LEMMA FrameDeclares ==
  ASSUME IsLibrary(lib), Lowers(lib), Conforms, Unambiguous(lib), NEW f, Stands(lib, f), f.of \in Molecules(lib)
  PROVE  /\ DOMAIN lib[f.of].stream = 1..Len(f.form.stream) /\ Len(f.form.stream) \in Nat
         /\ f.pos \in 1..(Len(f.form.stream) + 1)
         /\ f.pos <= Len(f.form.stream) => Declares(f, lib[f.of].stream[f.pos])
<1>1. f.of \in DOMAIN lib /\ lib[f.of].kind # "atom" /\ f.form = Forms(lib)[f.of] /\ f.pos \in 1..(Len(f.form.stream) + 1)
  BY DEF Stands, Molecules
<1>2. /\ Len(f.form.stream) \in Nat /\ DOMAIN f.form.stream = 1..Len(f.form.stream)
      /\ DOMAIN f.form.stream = DOMAIN lib[f.of].stream
  BY <1>1, FormLines
<1>3. ASSUME f.pos <= Len(f.form.stream)
      PROVE  Declares(f, lib[f.of].stream[f.pos])
  <2>1. f.pos \in DOMAIN Forms(lib)[f.of].stream /\ f.pos \in DOMAIN lib[f.of].stream
    BY <1>1, <1>2, <1>3
  <2> DEFINE line == Forms(lib)[f.of].stream[f.pos]
             s == lib[f.of].stream[f.pos]
  <2>2. /\ s \in Steps(lib, f.of) /\ line.kind = s.kind /\ line.as = s.as
        /\ line.runs = Lowered(lib, s.names) /\ line.runs \in DOMAIN lib /\ line.purity = lib[line.runs].purity
    BY <1>1, <2>1, MoleculeLine
  <2>3. line = Line(f)
    BY <1>1 DEF Line
  <2> HIDE DEF line, s
  <2>4. /\ Lowered(lib, s.names) = Resolved(lib, s.names)
        /\ lib[Resolved(lib, s.names)].kind = IF s.kind = "atom" THEN "atom" ELSE "molecule"
    BY <2>2, StepsRun
  <2>5. QED
    BY <2>1, <2>2, <2>3, <2>4 DEF Declares, s
<1>4. QED
  BY <1>1, <1>2, <1>3

\* Every frame over one that runs t runs a molecule inside t, reached from it past the first.
FrameInside(t, s, k) ==
  /\ s[k].of \in Inside(lib, t) /\ s[k].of \in Molecules(lib)
  /\ k > 1 => s[k].of \in Reachable(lib, t)

\* A run of t stays inside it.
LEMMA FramesInside ==
  ASSUME NEW t, Replayable(t), NEW s, Stacked(lib, s), s # <<>>, s[1].of = t
  PROVE  \A k \in DOMAIN s : FrameInside(t, s, k)
<1>1. Len(s) \in Nat /\ DOMAIN s = 1..Len(s)
  BY OutsideOf DEF Stacked
<1>2. IsLibrary(lib) /\ Lowers(lib) /\ Conforms /\ Unambiguous(lib) /\ t \in Molecules(lib)
  BY DEF Replayable
<1> DEFINE Good == {k \in Nat : k \in DOMAIN s => FrameInside(t, s, k)}
<1>3. 0 \in Good
  BY <1>1
<1>4. ASSUME NEW k \in Nat, k \in Good
      PROVE  k + 1 \in Good
  <2>1. SUFFICES ASSUME k + 1 \in DOMAIN s
                 PROVE  FrameInside(t, s, k + 1)
    OBVIOUS
  <2>2. CASE k = 0
    BY <1>2, <2>2 DEF FrameInside, Inside
  <2>3. CASE k # 0
    <3>1. k \in DOMAIN s /\ k + 1 > 1 /\ (k + 1) - 1 = k
      BY <1>1, <2>1, <2>3
    <3>2. Stands(lib, s[k]) /\ Entered(s[k], s[k + 1])
      BY <2>1, <3>1 DEF Stacked
    <3> DEFINE f == s[k]
               d == lib[f.of].stream[f.pos]
    <3>3. f.of \in Inside(lib, t) /\ f.of \in Molecules(lib)
      BY <1>4, <3>1 DEF FrameInside
    <3>4. f.pos <= Len(f.form.stream) /\ Line(f).kind # "atom" /\ s[k + 1].of = Line(f).runs
      BY <3>2 DEF Entered
    <3> HIDE DEF f
    <3>5. Declares(f, d)
      BY <1>2, <3>2, <3>3, <3>4, FrameDeclares DEF f
    <3> HIDE DEF d
    <3>6. /\ d \in Steps(lib, f.of) /\ s[k + 1].of = Resolved(lib, d.names) /\ s[k + 1].of \in DOMAIN lib
          /\ lib[s[k + 1].of].kind = "molecule"
      BY <3>4, <3>5 DEF Declares
    <3>7. s[k + 1].of \in Reachable(lib, t)
      BY <1>2, <3>3, <3>6, InsideCloses
    <3>8. QED
      BY <3>6, <3>7 DEF FrameInside, Inside, Molecules
  <2>4. QED
    BY <2>2, <2>3
<1>5. \A k \in Nat : k \in Good
  <2> HIDE DEF Good
  <2>1. QED
    BY <1>3, <1>4, SetInduction
<1>6. QED
  BY <1>1, <1>5

\* What S4 asks of a record, of a run of t: a path to an atom that is not deterministic.
Leads(t, path) ==
  /\ IsSequence(path) /\ path # <<>>
  /\ \A k \in 1..Len(path) : path[k] = <<path[k][1], path[k][2]>> /\ path[k][2] \in Nat
  /\ LET u == Along(lib, t, path, Len(path)) IN u # None /\ lib[u].kind = "atom" /\ Impure(lib, u)

\* The molecule a record's path leads from to its k-th step, and where that step stands.
From(L, t, path, k)  == Along(L, t, path, k - 1)
Where(L, t, path, k) == FirstBearing(L, From(L, t, path, k), path[k][1])

\* Step k of a path that S4 accepted, in a molecule inside t.
LeadsAt(t, path, k) ==
  LET m == From(lib, t, path, k)
      s == lib[m].stream[Where(lib, t, path, k)]
  IN  /\ m \in Inside(lib, t) /\ m \in Molecules(lib) /\ (k > 1 => m \in Reachable(lib, t))
      /\ Where(lib, t, path, k) \in DOMAIN lib[m].stream /\ s \in Steps(lib, m)
      /\ s.as = path[k][1] /\ path[k] = <<s.as, 0>>
      /\ Along(lib, t, path, k) = Resolved(lib, s.names)

\* A record's path leads through molecules inside t, by steps that are not loops.
LEMMA RecordsLead ==
  ASSUME NEW t, Replayable(t), NEW path, Leads(t, path)
  PROVE  /\ Len(path) \in Nat /\ Len(path) > 0
         /\ \A k \in 1..Len(path) : LeadsAt(t, path, k)
<1> DEFINE n == Len(path)
           u == Along(lib, t, path, n)
<1>1. n \in Nat /\ n > 0
  BY OutsideOf DEF Leads
<1>2. IsLibrary(lib) /\ t \in Molecules(lib)
  BY DEF Replayable
<1>3. u # None
  BY DEF Leads
<1> HIDE DEF n
<1>4. \A k \in 1..n : LeadsOn(lib, Along(lib, t, path, k - 1), path[k], Along(lib, t, path, k))
  BY <1>1, <1>2, <1>3, AlongLeads
<1>5. \A k \in Nat : k < n =>
        /\ Along(lib, t, path, k) \in Molecules(lib) /\ Along(lib, t, path, k) \in Inside(lib, t)
        /\ k > 0 => Along(lib, t, path, k) \in Reachable(lib, t)
  BY <1>1, <1>2, <1>3, AlongInside
<1>6. ASSUME NEW k \in 1..n
      PROVE  LeadsAt(t, path, k)
  <2> DEFINE m == From(lib, t, path, k)
             j == k - 1
             s == lib[m].stream[Where(lib, t, path, k)]
  <2>1. j \in Nat /\ j < n /\ (k > 1 => j > 0)
    BY <1>1
  <2>2. m = Along(lib, t, path, j)
    BY DEF From
  <2> HIDE DEF m, j
  <2>3. m \in Molecules(lib) /\ m \in Inside(lib, t) /\ (k > 1 => m \in Reachable(lib, t))
    BY <1>5, <2>1, <2>2
  <2>4. LeadsOn(lib, m, path[k], Along(lib, t, path, k))
    BY <1>4 DEF m, From
  <2>5. /\ Where(lib, t, path, k) \in DOMAIN lib[m].stream /\ s \in Steps(lib, m)
        /\ s.as = path[k][1] /\ (s.kind = "loop") = (path[k][2] > 0)
        /\ Along(lib, t, path, k) = Resolved(lib, s.names)
    BY <2>4 DEF LeadsOn, Where, m
  <2>6. s.kind # "loop"
    BY <2>3, <2>5 DEF Replayable, Apart
  <2>7. path[k] = <<path[k][1], path[k][2]>> /\ path[k][2] \in Nat
    BY DEF Leads, n
  <2>8. path[k] = <<s.as, 0>>
    <3>1. path[k][2] = 0
      BY <2>5, <2>6, <2>7
    <3>2. QED
      BY <2>5, <2>7, <3>1
  <2>9. QED
    BY <2>3, <2>5, <2>8 DEF LeadsAt, m
<1>7. QED
  BY <1>1, <1>6 DEF n

\* A record whose last symbol is that of the atom that is next leads to it by the way the run came:
\* each molecule on the way stands at one place, and none leads back to t.
LEMMA OneWay ==
  ASSUME NEW t, Replayable(t), NEW s, Stacked(lib, s), s # <<>>, s[1].of = t,
         NEW top, top = s[Len(s)], top.pos <= Len(top.form.stream),
         Line(top).kind = "atom", Impure(lib, Line(top).runs),
         NEW path, Leads(t, path), path[Len(path)][1] = Line(top).as
  PROVE  path = Onto(top)
<1> DEFINE n == Len(path)
           m == Len(s)
           At(k) == lib[s[k].of].stream[s[k].pos]
<1>1. m \in Nat /\ m > 0 /\ DOMAIN s = 1..m
  BY OutsideOf DEF Stacked
<1>2. /\ IsLibrary(lib) /\ Lowers(lib) /\ Conforms /\ Unambiguous(lib) /\ t \in Molecules(lib) /\ Apart(t)
  BY DEF Replayable
<1>3. n \in Nat /\ n > 0 /\ \A k \in 1..n : LeadsAt(t, path, k)
  BY RecordsLead
<1>4. \A k \in 1..m : FrameInside(t, s, k)
  BY <1>1, FramesInside
<1>5. \A k \in 1..m : Declares(s[k], At(k))
  <2>1. SUFFICES ASSUME NEW k \in 1..m
                 PROVE  Declares(s[k], At(k))
    OBVIOUS
  <2>2. s[k].pos <= Len(s[k].form.stream)
    <3>1. CASE k = m
      BY <3>1
    <3>2. CASE k # m
      <4>1. k + 1 \in DOMAIN s /\ k + 1 > 1 /\ (k + 1) - 1 = k
        <5> HIDE DEF m
        <5>1. QED
          BY <1>1, <2>1, <3>2
      <4>2. Entered(s[k], s[k + 1])
        BY <4>1 DEF Stacked
      <4>3. QED
        BY <4>2 DEF Entered
    <3>3. QED
      BY <3>1, <3>2
  <2>3. Stands(lib, s[k]) /\ s[k].of \in Molecules(lib)
    BY <1>1, <1>4 DEF Stacked, FrameInside
  <2> DEFINE f == s[k]
  <2> HIDE DEF f
  <2>4. Declares(f, lib[f.of].stream[f.pos])
    BY <1>2, <2>2, <2>3, FrameDeclares DEF f
  <2>5. QED
    BY <2>4 DEF f
<1>6. ASSUME NEW k \in 1..m, k > 1
      PROVE  s[k].of = Resolved(lib, At(k - 1).names)
  <2>1. k - 1 \in 1..m /\ k \in DOMAIN s
    BY <1>1, <1>6
  <2>2. Entered(s[k - 1], s[k])
    BY <1>6, <2>1 DEF Stacked
  <2>3. Declares(s[k - 1], At(k - 1))
    BY <1>5, <2>1
  <2>4. QED
    BY <2>2, <2>3 DEF Entered, Declares
<1>7. t \notin Reachable(lib, t)
  BY <1>2 DEF Conforms, Runnable
<1>8. top = s[m]
  OBVIOUS
<1>9. path[n][1] = Line(s[m]).as /\ Line(s[m]).kind = "atom" /\ Impure(lib, Line(s[m]).runs)
  OBVIOUS
<1> HIDE DEF n, m
<1> DEFINE Same(k, i) == From(lib, t, path, k) = s[i].of /\ Where(lib, t, path, k) = s[i].pos
<1>10. Same(n, m)
  <2>1. LeadsAt(t, path, n) /\ FrameInside(t, s, m) /\ Declares(s[m], At(m))
    BY <1>1, <1>3, <1>4, <1>5
  <2> DEFINE x == From(lib, t, path, n)
             j == Where(lib, t, path, n)
             y == s[m].of
             k == s[m].pos
  <2>2. x \in Inside(lib, t) /\ j \in DOMAIN lib[x].stream /\ lib[x].stream[j].as = path[n][1]
    BY <2>1 DEF LeadsAt
  <2>3. y \in Inside(lib, t) /\ k \in DOMAIN lib[y].stream /\ lib[y].stream[k].as = Line(s[m]).as
    BY <2>1 DEF FrameInside, Declares
  <2>4. lib[y].stream[k].as \in ImpureSymbols(lib, t)
    <3> DEFINE d == At(m)
    <3>1. /\ d \in Steps(lib, y) /\ Resolved(lib, d.names) \in DOMAIN lib
          /\ Impure(lib, Resolved(lib, d.names)) /\ lib[Resolved(lib, d.names)].kind = "atom"
      BY <1>9, <2>1 DEF Declares
    <3>2. d = lib[y].stream[k]
      OBVIOUS
    <3> HIDE DEF d, y, k
    <3>3. Resolved(lib, d.names) # None
      BY <1>2, <3>1, TransformsAssumption DEF IsLibrary
    <3>4. d.as \in {e.as : e \in {e \in Steps(lib, y) :
                      LET u == Resolved(lib, e.names)
                      IN  u # None /\ lib[u].kind = "atom" /\ Impure(lib, u)}}
      BY <3>1, <3>3
    <3>5. y \in {t} \union (Reachable(lib, t) \intersect Molecules(lib))
      BY <2>3 DEF Inside
    <3>6. d.as \in ImpureSymbols(lib, t)
      BY <3>4, <3>5 DEF ImpureSymbols
    <3>7. QED
      BY <3>2, <3>6
  <2> HIDE DEF x, j, y, k
  <2>5. lib[x].stream[j].as = lib[y].stream[k].as
    BY <1>9, <2>2, <2>3
  <2>6. x = y /\ j = k
    BY <1>2, <2>2, <2>3, <2>4, <2>5 DEF Apart
  <2>7. QED
    BY <2>6 DEF x, j, y, k
<1>11. ASSUME NEW k \in 2..n, NEW i \in 2..m, Same(k, i)
       PROVE  Same(k - 1, i - 1)
  <2>1. k \in 1..n /\ i \in 1..m /\ k - 1 \in 1..n /\ i - 1 \in 1..m /\ k > 1 /\ i > 1 /\ (k - 1) - 1 = k - 2
    BY <1>1, <1>3
  <2> DEFINE u == s[i].of
             x == From(lib, t, path, k - 1)
             j == Where(lib, t, path, k - 1)
             y == s[i - 1].of
             l == s[i - 1].pos
  <2>2. u = From(lib, t, path, k) /\ u = Along(lib, t, path, k - 1)
    BY <1>11 DEF From
  <2>3. LeadsAt(t, path, k) /\ LeadsAt(t, path, k - 1) /\ FrameInside(t, s, i - 1) /\ Declares(s[i - 1], At(i - 1))
    BY <1>3, <1>4, <1>5, <2>1
  <2>4. u \in Inside(lib, t) /\ u \in Reachable(lib, t)
    BY <2>1, <2>2, <2>3 DEF LeadsAt
  <2>5. Cardinality(Places(lib, t, u)) = 1
    BY <1>2, <1>7, <2>4 DEF Apart
  <2>6. x \in Inside(lib, t) /\ j \in DOMAIN lib[x].stream /\ Resolved(lib, lib[x].stream[j].names) = u
    BY <2>2, <2>3 DEF LeadsAt
  <2>7. y \in Inside(lib, t) /\ l \in DOMAIN lib[y].stream
    BY <2>3 DEF FrameInside, Declares
  <2>8. Resolved(lib, lib[y].stream[l].names) = u
    BY <1>6, <2>1
  <2>9. t \in DOMAIN lib
    BY <1>2 DEF Molecules
  <2> HIDE DEF u, x, j, y, l
  <2>10. x = y /\ j = l
    BY <1>2, <2>5, <2>6, <2>7, <2>8, <2>9, OnePlace
  <2>11. QED
    BY <2>10 DEF x, j, y, l
<1> DEFINE Back == {j \in Nat : j < n /\ j < m => Same(n - j, m - j)}
<1> HIDE DEF Same
<1>12. 0 \in Back
  BY <1>1, <1>3, <1>10
<1>13. ASSUME NEW j \in Nat, j \in Back
       PROVE  j + 1 \in Back
  <2>1. SUFFICES ASSUME j + 1 < n, j + 1 < m
                 PROVE  Same(n - (j + 1), m - (j + 1))
    OBVIOUS
  <2> DEFINE k == n - j
             i == m - j
  <2>2. k \in 2..n /\ i \in 2..m /\ n - (j + 1) = k - 1 /\ m - (j + 1) = i - 1
    BY <1>1, <1>3, <2>1
  <2>3. Same(k, i)
    BY <1>1, <1>3, <1>13, <2>1
  <2> HIDE DEF k, i
  <2>4. Same(k - 1, i - 1)
    BY <1>11, <2>2, <2>3
  <2>5. QED
    BY <2>2, <2>4
<1>14. \A j \in Nat : j < n /\ j < m => Same(n - j, m - j)
  <2>1. \A j \in Nat : j \in Back
    <3> HIDE DEF Back
    <3>1. QED
      BY <1>12, <1>13, SetInduction
  <2>2. QED
    BY <2>1
<1>15. From(lib, t, path, 1) = t
  BY <1>2, AlongUnfolds DEF Unfolds, From
<1>16. n = m
  <2>1. ASSUME n < m
        PROVE  FALSE
    <3> DEFINE j == n - 1
               i == m - j
    <3>1. j \in Nat /\ j < n /\ j < m /\ n - j = 1 /\ i \in 1..m /\ i > 1
      BY <1>1, <1>3, <2>1
    <3> HIDE DEF j
    <3>2. s[i].of = t
      BY <1>14, <1>15, <3>1 DEF Same
    <3>3. FrameInside(t, s, i)
      BY <1>4, <3>1
    <3>4. QED
      BY <1>7, <3>1, <3>2, <3>3 DEF FrameInside
  <2>2. ASSUME m < n
        PROVE  FALSE
    <3> DEFINE j == m - 1
               i == n - j
    <3>1. j \in Nat /\ j < n /\ j < m /\ m - j = 1 /\ i \in 1..n /\ i > 1
      BY <1>1, <1>3, <2>2
    <3> HIDE DEF j
    <3>2. From(lib, t, path, i) = t
      BY <1>14, <3>1 DEF Same
    <3>3. LeadsAt(t, path, i)
      BY <1>3, <3>1
    <3>4. QED
      BY <1>7, <3>1, <3>2, <3>3 DEF LeadsAt
  <2>3. QED
    BY <1>1, <1>3, <2>1, <2>2
<1>17. ASSUME NEW k \in 1..n
       PROVE  path[k] = Mark(s[k])
  <2>1. n - k \in Nat /\ n - k < n /\ n - (n - k) = k /\ k \in 1..m
    BY <1>1, <1>3, <1>16
  <2>2. Same(k, k)
    BY <1>14, <1>16, <2>1
  <2>3. LeadsAt(t, path, k) /\ Declares(s[k], At(k)) /\ FrameInside(t, s, k)
    BY <1>3, <1>4, <1>5, <2>1
  <2>4. path[k] = <<At(k).as, 0>>
    BY <2>2, <2>3 DEF LeadsAt, Same
  <2>5. At(k) \in Steps(lib, s[k].of) /\ Line(s[k]).as = At(k).as /\ Line(s[k]).kind = At(k).kind
    BY <2>3 DEF Declares
  <2>6. At(k).kind # "loop"
    BY <1>2, <2>3, <2>5 DEF Apart, FrameInside
  <2>7. QED
    BY <2>4, <2>5, <2>6 DEF Mark
<1>18. /\ IsSequence(Onto(top)) /\ Len(Onto(top)) = m /\ \A j \in 1..m : Onto(top)[j] = Mark(s[j])
  BY OntoFollows DEF m
<1>19. IsSequence(path) /\ Len(path) = n
  BY DEF Leads, n
<1>20. QED
  BY <1>16, <1>17, <1>18, <1>19, SameSequence

\* A path begins with another.
Begins(path, p) == IsSequence(p) /\ Len(p) <= Len(path) /\ \A j \in 1..Len(p) : p[j] = path[j]

\* A record is ahead of a frame when it goes on, past the frame's path, by a step the frame has still
\* to do; the innermost frame has still to do the step it stands at.
AheadAt(L, s, path, i) ==
  /\ i <= Len(path) /\ Begins(path, s[i].path) /\ From(L, s[1].of, path, i) = s[i].of
  /\ IF i = Len(s) THEN s[i].pos <= Where(L, s[1].of, path, i) ELSE s[i].pos < Where(L, s[1].of, path, i)

Ahead(L, s, path) == \E i \in DOMAIN s : AheadAt(L, s, path, i)

\* Every record is ahead of a run that begins.
LEMMA AheadOfStart ==
  ASSUME NEW t, Replayable(t), NEW path, Leads(t, path), NEW f, f.of = t, f.path = <<>>, f.pos = 1
  PROVE  Ahead(lib, <<f>>, path)
<1>1. DOMAIN <<f>> = 1..1 /\ Len(<<f>>) = 1 /\ <<f>>[1] = f
  BY One
<1>2. Len(path) \in Nat /\ Len(path) > 0 /\ LeadsAt(t, path, 1)
  <2>1. Len(path) \in Nat /\ Len(path) > 0 /\ \A k \in 1..Len(path) : LeadsAt(t, path, k)
    BY RecordsLead
  <2>2. QED
    BY <2>1
<1>3. From(lib, t, path, 1) = t
  BY AlongUnfolds DEF Unfolds, From, Replayable
<1>4. IsSequence(<<>>) /\ Len(<<>>) = 0
  BY StackedNone DEF Stacked
<1>5. Begins(path, <<>>)
  BY <1>2, <1>4 DEF Begins
<1>6. 1 <= Where(lib, t, path, 1)
  <2>1. t \in DOMAIN lib /\ Where(lib, t, path, 1) \in DOMAIN lib[t].stream
    BY <1>2, <1>3 DEF LeadsAt, Replayable, Molecules
  <2>2. Len(lib[t].stream) \in Nat /\ DOMAIN lib[t].stream = 1..Len(lib[t].stream)
    BY <2>1 DEF Replayable, IsLibrary, IsSequence
  <2>3. QED
    BY <2>1, <2>2
<1> DEFINE s == <<f>>
<1> HIDE DEF s
<1>7. AheadAt(lib, s, path, 1)
  <2>1. s[1] = f /\ Len(s) = 1
    BY <1>1 DEF s
  <2>2. QED
    BY <1>2, <1>3, <1>5, <1>6, <2>1 DEF AheadAt
<1>8. 1 \in DOMAIN s
  BY <1>1 DEF s
<1>9. QED
  BY <1>7, <1>8 DEF Ahead, s

\* Where the innermost frame goes on by one step, a record stays ahead unless it was at that step.
LEMMA AheadReplaced ==
  ASSUME NEW s, Stacked(lib, s), s # <<>>, NEW path, NEW i \in DOMAIN s, AheadAt(lib, s, path, i),
         Where(lib, s[1].of, path, i) \in Nat,
         i = Len(s) => Where(lib, s[1].of, path, i) # s[i].pos,
         NEW f, f.of = s[Len(s)].of, f.path = s[Len(s)].path, f.pos = s[Len(s)].pos + 1
  PROVE  Ahead(lib, Append(Outside(s), f), path)
<1> DEFINE n == Len(s)
           u == Outside(s)
           q == Append(u, f)
           w == Where(lib, s[1].of, path, i)
<1>1. IsSequence(s)
  BY DEF Stacked
<1>2. /\ IsSequence(u) /\ n \in Nat /\ n > 0 /\ DOMAIN s = 1..n /\ Len(u) = n - 1
      /\ \A k \in 1..(n - 1) : u[k] = s[k]
  BY <1>1, OutsideOf
<1>3. q[1].of = s[1].of
  BY <1>1, BottomStays
<1> HIDE DEF u
<1>4. /\ Len(q) = (n - 1) + 1 /\ DOMAIN q = 1..((n - 1) + 1) /\ q[(n - 1) + 1] = f
      /\ \A k \in 1..(n - 1) : q[k] = u[k]
  <2>1. /\ Len(q) = Len(u) + 1 /\ DOMAIN q = 1..(Len(u) + 1) /\ q[Len(u) + 1] = f
        /\ \A k \in 1..Len(u) : q[k] = u[k]
    BY <1>2, Appended
  <2>2. Len(u) = n - 1
    BY <1>2
  <2> HIDE DEF n, q
  <2>3. QED
    BY <2>1, <2>2
<1>5. s[i].pos \in Nat
  BY DEF Stacked, Stands
<1>6. f.of = s[n].of /\ f.path = s[n].path /\ f.pos = s[n].pos + 1
  OBVIOUS
<1>7. i = n => w # s[i].pos
  OBVIOUS
<1>8. /\ i <= Len(path) /\ Begins(path, s[i].path) /\ From(lib, s[1].of, path, i) = s[i].of
      /\ IF i = n THEN s[i].pos <= w ELSE s[i].pos < w
  BY DEF AheadAt
<1>9. w = Where(lib, q[1].of, path, i) /\ w \in Nat
  BY <1>3
<1> HIDE DEF n, q, w
<1>10. AheadAt(lib, q, path, i) /\ i \in DOMAIN q
  <2>1. CASE i = n
    <3>1. q[i] = f /\ i = Len(q) /\ i \in DOMAIN q
      BY <1>2, <1>4, <2>1
    <3>2. f.pos <= w
      BY <1>5, <1>6, <1>7, <1>8, <1>9, <2>1
    <3>3. QED
      BY <1>3, <1>6, <1>8, <1>9, <2>1, <3>1, <3>2 DEF AheadAt
  <2>2. CASE i # n
    <3>1. q[i] = s[i] /\ i # Len(q) /\ i \in DOMAIN q
      BY <1>2, <1>4, <2>2
    <3>2. QED
      BY <1>3, <1>8, <1>9, <2>2, <3>1 DEF AheadAt
  <2>3. QED
    BY <2>1, <2>2
<1>11. QED
  BY <1>10 DEF Ahead, q, u

\* A record that is ahead of an outer frame is ahead when the innermost is left.
LEMMA AheadOutside ==
  ASSUME NEW s, Stacked(lib, s), s # <<>>, NEW path, NEW i \in DOMAIN s, AheadAt(lib, s, path, i), i # Len(s),
         Where(lib, s[1].of, path, i) \in Nat
  PROVE  /\ Outside(s)[1].of = s[1].of /\ i \in DOMAIN Outside(s) /\ AheadAt(lib, Outside(s), path, i)
         /\ Where(lib, s[1].of, path, i) # Outside(s)[i].pos
<1> DEFINE n == Len(s)
           u == Outside(s)
           w == Where(lib, s[1].of, path, i)
<1>1. IsSequence(s)
  BY DEF Stacked
<1>2. /\ n \in Nat /\ n > 0 /\ DOMAIN s = 1..n /\ Len(u) = n - 1 /\ DOMAIN u = 1..(n - 1)
      /\ \A k \in 1..(n - 1) : u[k] = s[k]
  BY <1>1, OutsideOf
<1>3. s[i].pos \in Nat
  BY DEF Stacked, Stands
<1>4. i # n
  OBVIOUS
<1>5. /\ i <= Len(path) /\ Begins(path, s[i].path) /\ From(lib, s[1].of, path, i) = s[i].of
      /\ s[i].pos < w
  BY <1>4 DEF AheadAt
<1> HIDE DEF n, u
<1>6. i \in 1..(n - 1) /\ 1 \in 1..(n - 1)
  BY <1>2, <1>4
<1>7. u[i] = s[i] /\ u[1] = s[1] /\ i \in DOMAIN u
  BY <1>2, <1>6
<1>8. w = Where(lib, u[1].of, path, i) /\ w \in Nat
  BY <1>7
<1> HIDE DEF w
<1>9. s[i].pos <= w /\ w # s[i].pos
  BY <1>3, <1>5, <1>8
<1>10. AheadAt(lib, u, path, i)
  BY <1>5, <1>7, <1>8, <1>9 DEF AheadAt
<1>11. QED
  BY <1>7, <1>9, <1>10 DEF u, w

\* A record that stands at the step the innermost frame is at: an atom there is what is recorded, under
\* the very path the runtime gives it; a molecule there is on the record's way.
LEMMA AtRecord ==
  ASSUME NEW t, Replayable(t), NEW s, Stacked(lib, s), s # <<>>, s[1].of = t,
         NEW top, top = s[Len(s)], top.pos <= Len(top.form.stream),
         NEW path, Leads(t, path), AheadAt(lib, s, path, Len(s)), Where(lib, t, path, Len(s)) = top.pos
  PROVE  /\ Line(top).kind = "atom" => path = Onto(top) /\ Impure(lib, Line(top).runs)
         /\ Line(top).kind # "atom" =>
              /\ Len(s) + 1 <= Len(path) /\ Begins(path, Onto(top))
              /\ From(lib, t, path, Len(s) + 1) = Line(top).runs
<1> DEFINE n == Len(path)
           m == Len(s)
           d == lib[top.of].stream[top.pos]
           u == Along(lib, t, path, m)
<1>1. m \in Nat /\ m > 0 /\ DOMAIN s = 1..m
  BY OutsideOf DEF Stacked
<1>2. IsLibrary(lib) /\ Lowers(lib) /\ Conforms /\ Unambiguous(lib) /\ t \in Molecules(lib) /\ Apart(t)
  BY DEF Replayable
<1>3. n \in Nat /\ n > 0 /\ \A k \in 1..n : LeadsAt(t, path, k)
  BY RecordsLead
<1>4. FrameInside(t, s, m) /\ Stands(lib, top)
  BY <1>1, FramesInside DEF Stacked
<1>5. Declares(top, d)
  <2>1. top.of \in Molecules(lib)
    BY <1>4 DEF FrameInside
  <2>2. QED
    BY <1>2, <1>4, <2>1, FrameDeclares
<1>6. m <= n /\ Begins(path, top.path) /\ From(lib, t, path, m) = top.of
  BY DEF AheadAt
<1>7. LeadsAt(t, path, m)
  BY <1>1, <1>3, <1>6
<1>8. u = Resolved(lib, d.names) /\ path[m] = <<d.as, 0>> /\ u = Line(top).runs
  BY <1>5, <1>6, <1>7 DEF LeadsAt, Declares
<1>9. Mark(top) = <<d.as, 0>>
  <2>1. d.kind # "loop"
    BY <1>2, <1>4, <1>5 DEF Apart, FrameInside, Declares
  <2>2. QED
    BY <1>5, <2>1 DEF Declares, Mark
<1>10. /\ IsSequence(Onto(top)) /\ Len(Onto(top)) = m /\ \A j \in 1..m : Onto(top)[j] = Mark(s[j])
  BY OntoFollows
<1>11. PathFollows(s, m)
  BY <1>1, PathsFollow
<1>12. \A j \in 1..m : Onto(top)[j] = path[j]
  <2>1. SUFFICES ASSUME NEW j \in 1..m
                 PROVE  Mark(s[j]) = path[j]
    BY <1>10
  <2>2. CASE j = m
    BY <1>8, <1>9, <2>2
  <2>3. CASE j # m
    <3> HIDE DEF m
    <3>1. j \in 1..(m - 1)
      BY <1>1, <2>3
    <3>2. top.path[j] = Mark(s[j]) /\ Len(top.path) = m - 1
      BY <1>11, <3>1 DEF PathFollows, m
    <3>3. QED
      BY <1>6, <3>1, <3>2 DEF Begins
  <2>4. QED
    BY <2>2, <2>3
<1>13. Along(lib, t, path, n) # None
  BY DEF Leads
<1>14. u \in DOMAIN lib /\ lib[u].kind = IF Line(top).kind = "atom" THEN "atom" ELSE "molecule"
  BY <1>5, <1>8 DEF Declares
<1>15. lib[Along(lib, t, path, n)].kind = "atom" /\ Impure(lib, Along(lib, t, path, n))
  BY DEF Leads
<1>16. IsSequence(path)
  BY DEF Leads
<1>17. ASSUME m < n
       PROVE  lib[u].kind = "molecule"
  <2>1. u \in Molecules(lib)
    <3> HIDE DEF m, n
    <3>1. QED
      BY <1>1, <1>2, <1>3, <1>13, <1>17, AlongInside
  <2>2. QED
    BY <2>1 DEF Molecules
<1> HIDE DEF m, n, d
<1>18. ASSUME Line(top).kind = "atom"
       PROVE  path = Onto(top) /\ Impure(lib, Line(top).runs)
  <2>1. lib[u].kind = "atom"
    BY <1>14, <1>18
  <2>2. m = n
    BY <1>1, <1>3, <1>6, <1>17, <2>1
  <2>3. Impure(lib, Line(top).runs)
    BY <1>8, <1>15, <2>2
  <2>4. path = Onto(top)
    BY <1>10, <1>12, <1>16, <2>2, SameSequence DEF n
  <2>5. QED
    BY <2>3, <2>4
<1>19. ASSUME Line(top).kind # "atom"
       PROVE  m + 1 <= n /\ Begins(path, Onto(top)) /\ From(lib, t, path, m + 1) = Line(top).runs
  <2>1. lib[u].kind = "molecule"
    BY <1>14, <1>19
  <2>2. m # n
    BY <1>15, <2>1
  <2>3. m + 1 <= n
    BY <1>1, <1>3, <1>6, <2>2
  <2>4. Begins(path, Onto(top))
    BY <1>6, <1>10, <1>12 DEF Begins, n
  <2>5. (m + 1) - 1 = m
    BY <1>1
  <2>6. QED
    BY <1>8, <2>3, <2>4, <2>5 DEF From
<1>20. QED
  BY <1>18, <1>19 DEF m, n

\* A record that stands at a molecule is ahead of the body that is entered.
LEMMA AheadOver ==
  ASSUME NEW t, Replayable(t), NEW s, Stacked(lib, s), s # <<>>, s[1].of = t,
         NEW top, top = s[Len(s)], top.pos <= Len(top.form.stream), Line(top).kind # "atom",
         NEW path, Leads(t, path), Ahead(lib, s, path),
         NEW f, f.of = Line(top).runs, f.path = Onto(top), f.pos = 1
  PROVE  Ahead(lib, Append(s, f), path)
<1> DEFINE q == Append(s, f)
           m == Len(s)
<1>1. PICK i \in DOMAIN s : AheadAt(lib, s, path, i)
  BY DEF Ahead
<1>2. /\ m \in Nat /\ DOMAIN s = 1..m /\ Len(q) = m + 1 /\ DOMAIN q = 1..(m + 1)
      /\ q[m + 1] = f /\ \A k \in 1..m : q[k] = s[k]
  BY Appended DEF Stacked
<1>3. q[1].of = t /\ m > 0
  <2>1. 1 \in 1..m
    BY OutsideOf DEF Stacked
  <2>2. QED
    BY <1>2, <2>1
<1>4. Len(path) \in Nat /\ \A k \in 1..Len(path) : LeadsAt(t, path, k)
  BY RecordsLead
<1> DEFINE w == Where(lib, t, path, i)
<1>5. s[i].pos \in Nat
  BY <1>1 DEF Stacked, Stands
<1>6. w \in Nat
  <2>1. i \in 1..Len(path)
    BY <1>1, <1>2, <1>4 DEF AheadAt
  <2>2. LeadsAt(t, path, i)
    BY <1>4, <2>1
  <2> DEFINE x == From(lib, t, path, i)
  <2>3. x \in DOMAIN lib /\ w \in DOMAIN lib[x].stream
    BY <2>2 DEF LeadsAt, Molecules
  <2> HIDE DEF x, w
  <2>4. Len(lib[x].stream) \in Nat /\ DOMAIN lib[x].stream = 1..Len(lib[x].stream)
    BY <2>3 DEF Replayable, IsLibrary, IsSequence
  <2>5. QED
    BY <2>3, <2>4
<1>7. CASE i = m /\ w = s[i].pos
  <2>1. m + 1 <= Len(path) /\ Begins(path, Onto(top)) /\ From(lib, t, path, m + 1) = Line(top).runs
    BY <1>1, <1>7, AtRecord
  <2>2. LeadsAt(t, path, m + 1)
    BY <1>2, <1>4, <2>1
  <2> DEFINE v == Where(lib, t, path, m + 1)
             x == From(lib, t, path, m + 1)
  <2>3. x \in DOMAIN lib /\ v \in DOMAIN lib[x].stream
    BY <2>2 DEF LeadsAt, Molecules
  <2> HIDE DEF x, v
  <2>4. Len(lib[x].stream) \in Nat /\ DOMAIN lib[x].stream = 1..Len(lib[x].stream)
    BY <2>3 DEF Replayable, IsLibrary, IsSequence
  <2>5. 1 <= v
    BY <2>3, <2>4
  <2> HIDE DEF q, m
  <2>6. AheadAt(lib, q, path, m + 1) /\ m + 1 \in DOMAIN q
    BY <1>2, <1>3, <2>1, <2>5 DEF AheadAt, v
  <2>7. QED
    BY <2>6 DEF Ahead, q
<1>8. CASE ~(i = m /\ w = s[i].pos)
  <2>1. /\ i <= Len(path) /\ Begins(path, s[i].path) /\ From(lib, t, path, i) = s[i].of
        /\ IF i = m THEN s[i].pos <= w ELSE s[i].pos < w
    BY <1>1 DEF AheadAt
  <2> HIDE DEF w
  <2>2. s[i].pos < w
    BY <1>5, <1>6, <1>8, <2>1
  <2> HIDE DEF q, m
  <2>3. q[i] = s[i] /\ i # Len(q) /\ i \in DOMAIN q
    BY <1>2
  <2>4. AheadAt(lib, q, path, i)
    BY <1>3, <2>1, <2>2, <2>3 DEF AheadAt, w
  <2>5. QED
    BY <2>3, <2>4 DEF Ahead, q
<1>9. QED
  BY <1>7, <1>8

\* A record's step has a place, and where the innermost frame has done its steps it is not ahead there.
LEMMA WhereStands ==
  ASSUME NEW t, Replayable(t), NEW s, Stacked(lib, s), s # <<>>, s[1].of = t,
         NEW path, Leads(t, path), NEW i \in DOMAIN s, AheadAt(lib, s, path, i)
  PROVE  /\ Where(lib, t, path, i) \in Nat
         /\ s[Len(s)].pos > Len(s[Len(s)].form.stream) => i # Len(s)
<1>1. Len(s) \in Nat /\ Len(s) > 0 /\ DOMAIN s = 1..Len(s)
  BY OutsideOf DEF Stacked
<1>2. Len(path) \in Nat /\ \A k \in 1..Len(path) : LeadsAt(t, path, k)
  BY RecordsLead
<1>3. i \in 1..Len(path) /\ From(lib, t, path, i) = s[i].of
  BY <1>1, <1>2 DEF AheadAt
<1> DEFINE w == Where(lib, t, path, i)
           f == s[i]
<1>4. LeadsAt(t, path, i)
  BY <1>2, <1>3
<1>5. f.of \in Molecules(lib) /\ w \in DOMAIN lib[f.of].stream
  BY <1>3, <1>4 DEF LeadsAt
<1>6. Stands(lib, f)
  BY DEF Stacked
<1>7. IsLibrary(lib) /\ Lowers(lib) /\ Conforms /\ Unambiguous(lib)
  BY DEF Replayable
<1>8. f.pos <= w \/ i # Len(s)
  BY DEF AheadAt
<1> HIDE DEF w, f
<1>9. DOMAIN lib[f.of].stream = 1..Len(f.form.stream) /\ Len(f.form.stream) \in Nat /\ f.pos \in Nat
  BY <1>5, <1>6, <1>7, FrameDeclares
<1>10. w \in Nat /\ w <= Len(f.form.stream)
  BY <1>5, <1>9
<1>11. f.pos > Len(f.form.stream) => i # Len(s)
  BY <1>8, <1>9, <1>10
<1>12. i = Len(s) => f = s[Len(s)]
  BY DEF f
<1>13. QED
  BY <1>10, <1>11, <1>12 DEF w

-----------------------------------------------------------------------------
(* A case that S4 admitted replays.                                        *)

\* A case stands in its target.  Where it can be replayed it has not failed, and each of its records
\* has been used or is still to come.
CaseAccounted ==
  run.mode = "case" =>
    /\ run.case \in draft.cases /\ run.case.target \in DOMAIN lib
    /\ run.stack # <<>> /\ run.stack[1].of = run.case.target
    /\ run.status \in {"running", "ended", "unrecorded", "unused"}
    /\ Unambiguous(lib) /\ OncePerSymbol(run.case) =>
         /\ run.status \notin {"unrecorded", "unused"}
         /\ run.status = "running" =>
              \A path \in run.case.recorded : path \in run.kept \/ Ahead(lib, run.stack, path)

\* What S4 found of the records of a case, where it can be replayed.
Recorded(c) ==
  LET t == c.target IN
  /\ lib[t].kind # "molecule" => c.recorded = {}
  /\ lib[t].kind = "molecule" =>
       /\ Replayable(t) /\ \A path \in c.recorded : Leads(t, path)
       /\ \A symbol \in ImpureSymbols(lib, t) : \E path \in c.recorded : path[Len(path)][1] = symbol

\* An admitted case leaves no record out and has none too many.
LEMMA CasesRecord ==
  ASSUME IsDraft(draft), IsLibrary(lib), Lowers(lib), Conforms, Unambiguous(lib),
         NEW c \in draft.cases, c.target \in DOMAIN lib, OncePerSymbol(c)
  PROVE  Recorded(c)
<1> DEFINE t == c.target
<1>1. t # None /\ Resolved(lib, t) = t
  BY TransformsAssumption DEF IsLibrary, Resolved
<1>2. RecordsMatchPurity(lib, c)
  BY DEF Conforms
<1>3. Apart(t)
  BY OnceIsApart
<1>4. lib[t].kind # "molecule" => c.recorded = {}
  BY <1>1, <1>2 DEF RecordsMatchPurity
<1>5. ASSUME lib[t].kind = "molecule"
      PROVE  /\ Replayable(t) /\ \A path \in c.recorded : Leads(t, path)
             /\ \A symbol \in ImpureSymbols(lib, t) : \E path \in c.recorded : path[Len(path)][1] = symbol
  <2>1. t \in Molecules(lib)
    BY <1>5 DEF Molecules
  <2>2. /\ \A path \in c.recorded :
             LET u == Along(lib, t, path, Len(path)) IN u # None /\ lib[u].kind = "atom" /\ Impure(lib, u)
        /\ ImpureSymbols(lib, t) \subseteq {path[Len(path)][1] : path \in c.recorded}
    BY <1>1, <1>2, <2>1 DEF RecordsMatchPurity
  <2>3. Replayable(t)
    BY <1>3, <2>1 DEF Replayable
  <2>4. ASSUME NEW path \in c.recorded
        PROVE  Leads(t, path)
    <3>1. /\ IsSequence(path) /\ path # <<>>
          /\ \A segment \in Range(path) : segment = <<segment[1], segment[2]>> /\ segment[2] \in Nat
      BY <2>4 DEF IsDraft
    <3>2. \A k \in 1..Len(path) : path[k] \in Range(path)
      <4>1. DOMAIN path = 1..Len(path)
        BY <3>1, OutsideOf
      <4>2. QED
        BY <4>1 DEF Range
    <3>3. \A k \in 1..Len(path) : path[k] = <<path[k][1], path[k][2]>> /\ path[k][2] \in Nat
      BY <3>1, <3>2
    <3> HIDE DEF t
    <3>4. QED
      BY <2>2, <2>4, <3>1, <3>3 DEF Leads
  <2>5. QED
    BY <2>2, <2>3, <2>4
<1>6. QED
  BY <1>4, <1>5 DEF Recorded

\* What a step of a molecule that does not loop is sealed as, where the molecule can be replayed.
LEMMA NoLoop ==
  ASSUME NEW t, Replayable(t), NEW s, Stacked(lib, s), s # <<>>, s[1].of = t,
         NEW f, f = s[Len(s)], f.pos <= Len(f.form.stream)
  PROVE  /\ Line(f).kind # "loop" /\ Line(f).purity = lib[Line(f).runs].purity
         /\ Line(f).kind = "atom" /\ Impure(lib, Line(f).runs) => Line(f).as \in ImpureSymbols(lib, t)
<1>1. Len(s) \in DOMAIN s
  BY OutsideOf DEF Stacked
<1>2. FrameInside(t, s, Len(s)) /\ Stands(lib, f)
  BY <1>1, FramesInside DEF Stacked
<1>3. f.of \in Inside(lib, t) /\ f.of \in Molecules(lib)
  BY <1>2 DEF FrameInside
<1> DEFINE d == lib[f.of].stream[f.pos]
<1>4. Declares(f, d)
  BY <1>2, <1>3, FrameDeclares DEF Replayable
<1> HIDE DEF d
<1>5. /\ d \in Steps(lib, f.of) /\ Line(f).kind = d.kind /\ Line(f).as = d.as
      /\ Line(f).runs = Resolved(lib, d.names) /\ Line(f).runs \in DOMAIN lib
      /\ Line(f).purity = lib[Line(f).runs].purity
      /\ lib[Line(f).runs].kind = IF d.kind = "atom" THEN "atom" ELSE "molecule"
  BY <1>4 DEF Declares
<1>6. Line(f).kind # "loop"
  BY <1>3, <1>5 DEF Replayable, Apart
<1>7. ASSUME Line(f).kind = "atom", Impure(lib, Line(f).runs)
      PROVE  Line(f).as \in ImpureSymbols(lib, t)
  <2>1. Resolved(lib, d.names) # None /\ lib[Resolved(lib, d.names)].kind = "atom" /\ Impure(lib, Resolved(lib, d.names))
    BY <1>5, <1>7, TransformsAssumption DEF Replayable, IsLibrary
  <2>2. d.as \in {x.as : x \in {x \in Steps(lib, f.of) :
                                  LET u == Resolved(lib, x.names)
                                  IN  u # None /\ lib[u].kind = "atom" /\ Impure(lib, u)}}
    BY <1>5, <2>1
  <2>3. QED
    BY <1>3, <1>5, <2>2 DEF ImpureSymbols, Inside
<1>8. QED
  BY <1>5, <1>6, <1>7

\* Whether a case can be replayed is a matter of what is declared.
LEMMA OnceStands ==
  ASSUME UNCHANGED Sealed, NEW c, run'.case = c
  PROVE  OncePerSymbol(run.case)' = OncePerSymbol(c)
<1>1. lib' = lib
  BY RunStands
<1>2. QED
  BY <1>1 DEF OncePerSymbol

\* A step of a case keeps it, if it leaves the case in its target and its records used or ahead.
LEMMA CaseMoves ==
  ASSUME CaseAccounted, run.mode = "case", UNCHANGED Sealed, run'.mode = "case", run'.case = run.case,
         run'.stack # <<>>, run'.stack[1].of = run.stack[1].of,
         run'.status \in {"running", "ended", "unrecorded", "unused"},
         Unambiguous(lib) /\ OncePerSymbol(run.case) =>
           /\ run'.status \notin {"unrecorded", "unused"}
           /\ run'.status = "running" =>
                \A path \in run.case.recorded : path \in run'.kept \/ Ahead(lib, run'.stack, path)
  PROVE  CaseAccounted'
<1>1. lib' = lib /\ draft' = draft
  BY RunStands
<1>2. OncePerSymbol(run.case)' = OncePerSymbol(run.case)
  BY OnceStands
<1>3. /\ run.case \in draft.cases /\ run.case.target \in DOMAIN lib
      /\ run.stack[1].of = run.case.target
  BY DEF CaseAccounted
<1>4. QED
  BY <1>1, <1>2, <1>3 DEF CaseAccounted

\* A case begins with all of its records ahead.
LEMMA BeginCaseAccounts ==
  ASSUME IInv, BeginCase
  PROVE  CaseAccounted'
<1>1. stage = "S7" /\ UNCHANGED Sealed
  BY DEF BeginCase
<1>2. PICK c \in draft.cases : run' = NewRun("case", c, <<Frame(c.target, sealed.forms[c.target], <<>>)>>)
  BY DEF BeginCase
<1>3. /\ IsDraft(draft) /\ IsLibrary(lib) /\ Lowers(lib) /\ Conforms /\ c.target \in DOMAIN lib
  BY <1>1 DEF IInv, StageAccounted, Formed, Judged, IsDraft, lib
<1> DEFINE f == Frame(c.target, sealed.forms[c.target], <<>>)
           stack == <<f>>
<1>4. f.of = c.target /\ f.path = <<>> /\ f.pos = 1 /\ stack # <<>> /\ stack[1] = f
  BY One DEF Frame
<1> HIDE DEF f
<1>5. /\ run'.mode = "case" /\ run'.case = c /\ run'.stack = stack /\ run'.status = "running" /\ run'.kept = {}
  BY <1>2 DEF NewRun, f
<1>6. lib' = lib /\ draft' = draft /\ OncePerSymbol(run.case)' = OncePerSymbol(c)
  BY <1>1, <1>5, RunStands, OnceStands
<1>7. ASSUME Unambiguous(lib), OncePerSymbol(c), NEW path \in c.recorded
      PROVE  Ahead(lib, stack, path)
  <2>1. Recorded(c)
    BY <1>3, <1>7, CasesRecord
  <2>2. Replayable(c.target) /\ Leads(c.target, path)
    BY <1>7, <2>1 DEF Recorded
  <2>3. QED
    BY <1>4, <2>2, AheadOfStart
<1> HIDE DEF stack
<1>8. QED
  BY <1>2, <1>3, <1>4, <1>5, <1>6, <1>7 DEF CaseAccounted

\* What a step of a case that can be replayed starts from.
LEMMA CaseStands ==
  ASSUME IInv, CaseAccounted, Running, run.mode = "case", Unambiguous(lib), OncePerSymbol(run.case)
  PROVE  /\ Recorded(run.case) /\ run.stack[1].of = run.case.target
         /\ \A path \in run.case.recorded : path \in run.kept \/ Ahead(lib, run.stack, path)
<1>1. /\ run.case \in draft.cases /\ run.case.target \in DOMAIN lib /\ run.stack[1].of = run.case.target
      /\ \A path \in run.case.recorded : path \in run.kept \/ Ahead(lib, run.stack, path)
  BY DEF CaseAccounted, Running
<1>2. IsDraft(draft) /\ IsLibrary(lib) /\ Lowers(lib) /\ Conforms
  BY Grounds DEF IInv
<1>3. QED
  BY <1>1, <1>2, CasesRecord

\* A stack with a frame more is not empty.
LEMMA NotEmpty ==
  ASSUME NEW s, IsSequence(s), NEW e
  PROVE  Append(s, e) # <<>>
<1>1. Len(Append(s, e)) = Len(s) + 1 /\ Len(s) \in Nat
  BY Appended
<1>2. Len(<<>>) = 0
  BY StackedNone DEF Stacked
<1> DEFINE q == Append(s, e)
<1> HIDE DEF q
<1>3. Len(q) # 0
  BY <1>1 DEF q
<1>4. QED
  BY <1>2, <1>3 DEF q

\* An atom that would run finds its record, and uses no record but its own.
LEMMA RunAtomAccounts ==
  ASSUME IInv, CaseAccounted, run.mode = "case", RunAtom
  PROVE  CaseAccounted'
<1> DEFINE t == run.case.target
           s == run.stack
           replayed == Current.purity = "ct_impure" /\ lib[t].kind = "molecule"
           random == Impure(lib, Current.runs)
           f == Stepped(Top, Current.as, random)
           stack == Append(Under, f)
           Can == Unambiguous(lib) /\ OncePerSymbol(run.case)
           kept == IF Current.purity = "ct_impure" THEN run.kept \union {Path} ELSE run.kept
<1>1. Within /\ Running /\ ~AtEnd /\ Current.kind = "atom" /\ UNCHANGED Sealed
  BY DEF RunAtom, Within
<1>2. /\ s # <<>> /\ Stacked(lib, s) /\ IsSequence(s) /\ Stands(lib, Top) /\ Top = s[Len(s)]
      /\ Top.pos <= Len(Top.form.stream) /\ Current = Line(Top) /\ Path = Onto(Top)
  BY <1>1, TopStands DEF Top, Stacked
<1>3. IsLibrary(lib) /\ Lowers(lib) /\ IsRun(run)
  BY Grounds DEF IInv, FramesAccounted
<1>4. CASE replayed /\ Path \notin run.case.recorded
  <2>1. run' = [run EXCEPT !.status = "unrecorded"]
    BY <1>4 DEF RunAtom
  <2>2. /\ run'.mode = "case" /\ run'.case = run.case /\ run'.stack = s /\ run'.status = "unrecorded"
    BY <1>3, <2>1 DEF IsRun
  <2>3. ASSUME Can
        PROVE  FALSE
    <3>1. Recorded(run.case) /\ s[1].of = t
      BY <1>1, <2>3, CaseStands
    <3>2. /\ Replayable(t) /\ \A path \in run.case.recorded : Leads(t, path)
          /\ \A symbol \in ImpureSymbols(lib, t) : \E path \in run.case.recorded : path[Len(path)][1] = symbol
      BY <1>4, <3>1 DEF Recorded
    <3> DEFINE top == Top
    <3>3. /\ top = s[Len(s)] /\ top.pos <= Len(top.form.stream) /\ Line(top).kind = "atom"
          /\ Line(top).purity = "ct_impure" /\ Onto(top) \notin run.case.recorded
      BY <1>1, <1>2, <1>4
    <3> HIDE DEF top, t, s
    <3>4. Line(top).purity = lib[Line(top).runs].purity
      BY <1>2, <3>1, <3>2, <3>3, NoLoop
    <3>5. Impure(lib, Line(top).runs)
      BY <3>3, <3>4 DEF Impure
    <3>6. Line(top).as \in ImpureSymbols(lib, t)
      BY <1>2, <3>1, <3>2, <3>3, <3>5, NoLoop
    <3>7. PICK path \in run.case.recorded : path[Len(path)][1] = Line(top).as
      BY <3>2, <3>6
    <3>8. path = Onto(top)
      BY <1>2, <3>1, <3>2, <3>3, <3>5, <3>7, OneWay
    <3>9. QED
      BY <3>3, <3>7, <3>8
  <2>4. QED
    BY <1>1, <1>2, <2>2, <2>3, CaseMoves
<1>5. CASE ~(replayed /\ Path \notin run.case.recorded)
  <2>1. run' = [run EXCEPT !.stack = stack,
                           !.drawn = IF random THEN @ \union {Path} ELSE @,
                           !.kept  = IF Current.purity = "ct_impure" THEN @ \union {Path} ELSE @]
    BY <1>1, <1>5 DEF RunAtom
  <2>2. f.of = Top.of /\ f.path = Top.path /\ f.pos = Top.pos + 1
    <3>1. f = [of |-> Top.of, form |-> Top.form, path |-> Top.path, pos |-> Top.pos + 1, pass |-> 0,
               random |-> IF random THEN Top.random \union {Current.as} ELSE Top.random \ {Current.as}]
      BY <1>2, <1>3, SteppedStands
    <3> HIDE DEF f
    <3>2. QED
      BY <3>1
  <2> HIDE DEF f, random
  <2>3. /\ run'.mode = "case" /\ run'.case = run.case /\ run'.stack = stack /\ run'.status = "running"
        /\ run'.kept = kept
    BY <1>1, <1>3, <2>1 DEF IsRun, Running
  <2>4. stack = Append(Outside(s), f)
    BY DEF Under
  <2>5. stack # <<>> /\ stack[1].of = s[1].of
    <3>1. IsSequence(s) /\ s # <<>> /\ f.of = s[Len(s)].of /\ IsSequence(Outside(s))
      BY <1>2, <2>2, OutsideOf
    <3> HIDE DEF s, stack
    <3>2. QED
      BY <2>4, <3>1, NotEmpty, BottomStays
  <2>6. ASSUME Can, NEW path \in run.case.recorded
        PROVE  path \in kept \/ Ahead(lib, stack, path)
    <3>1. Recorded(run.case) /\ s[1].of = t /\ (path \in run.kept \/ Ahead(lib, s, path))
      BY <1>1, <2>6, CaseStands
    <3>2. Replayable(t) /\ Leads(t, path)
      BY <2>6, <3>1 DEF Recorded
    <3>3. CASE path \in run.kept
      BY <3>3
    <3>4. CASE Ahead(lib, s, path)
      <4>1. PICK i \in DOMAIN s : AheadAt(lib, s, path, i)
        BY <3>4 DEF Ahead
      <4> DEFINE top == Top
                 w == Where(lib, t, path, i)
      <4>2. /\ top = s[Len(s)] /\ top.pos <= Len(top.form.stream) /\ Line(top).kind = "atom"
            /\ Line(top).purity = Current.purity /\ Path = Onto(top)
        BY <1>1, <1>2
      <4> HIDE DEF top, t, s, stack, kept
      <4>3. w \in Nat
        BY <1>2, <3>1, <3>2, <4>1, WhereStands
      <4>4. CASE i = Len(s) /\ w = s[i].pos
        <5>1. path = Onto(top) /\ Impure(lib, Line(top).runs)
          <6>1. AheadAt(lib, s, path, Len(s)) /\ Where(lib, t, path, Len(s)) = top.pos
            BY <4>1, <4>2, <4>4
          <6>2. QED
            BY <1>2, <3>1, <3>2, <4>2, <6>1, AtRecord
        <5>2. Line(top).purity = lib[Line(top).runs].purity
          BY <1>2, <3>1, <3>2, <4>2, NoLoop
        <5>3. QED
          BY <4>2, <5>1, <5>2 DEF Impure, kept
      <4>5. CASE ~(i = Len(s) /\ w = s[i].pos)
        <5>1. Ahead(lib, Append(Outside(s), f), path)
          BY <1>2, <2>2, <3>1, <4>1, <4>3, <4>5, AheadReplaced
        <5>2. QED
          BY <2>4, <5>1
      <4>6. QED
        BY <4>4, <4>5
    <3>5. QED
      BY <3>1, <3>3, <3>4
  <2> HIDE DEF stack, kept
  <2>7. QED
    BY <1>1, <2>3, <2>5, <2>6, CaseMoves
<1>6. QED
  BY <1>4, <1>5

\* A record of what runs in a body is ahead of the body that is entered.
LEMMA EnterBodyAccounts ==
  ASSUME IInv, CaseAccounted, run.mode = "case", EnterBody
  PROVE  CaseAccounted'
<1> DEFINE t == run.case.target
           s == run.stack
           f == Frame(Current.runs, Current.body, Path)
           stack == Append(s, f)
<1>1. Within /\ Running /\ ~AtEnd /\ Current.kind # "atom" /\ UNCHANGED Sealed /\ run' = [run EXCEPT !.stack = stack]
  BY DEF EnterBody, Within
<1>2. /\ s # <<>> /\ Stacked(lib, s) /\ IsSequence(s) /\ Top = s[Len(s)]
      /\ Top.pos <= Len(Top.form.stream) /\ Current = Line(Top) /\ Path = Onto(Top)
  BY <1>1, TopStands DEF Top, Stacked
<1>3. IsRun(run)
  BY <1>1 DEF IInv, FramesAccounted
<1>4. f.of = Line(Top).runs /\ f.path = Onto(Top) /\ f.pos = 1
  BY <1>2 DEF Frame
<1> HIDE DEF f
<1>5. /\ run'.mode = "case" /\ run'.case = run.case /\ run'.stack = stack /\ run'.status = "running"
      /\ run'.kept = run.kept
  BY <1>1, <1>3 DEF IsRun, Running
<1>6. stack # <<>> /\ stack[1].of = s[1].of
  <2> HIDE DEF s
  <2>1. 1 \in 1..Len(s)
    BY <1>2, OutsideOf
  <2>2. QED
    BY <1>2, <2>1, NotEmpty, Appended
<1>7. ASSUME Unambiguous(lib), OncePerSymbol(run.case), NEW path \in run.case.recorded
      PROVE  path \in run.kept \/ Ahead(lib, stack, path)
  <2>1. Recorded(run.case) /\ s[1].of = t /\ (path \in run.kept \/ Ahead(lib, s, path))
    BY <1>1, <1>7, CaseStands
  <2>2. Replayable(t) /\ Leads(t, path)
    BY <1>7, <2>1 DEF Recorded
  <2> DEFINE top == Top
  <2>3. /\ top = s[Len(s)] /\ top.pos <= Len(top.form.stream) /\ Line(top).kind # "atom"
        /\ f.of = Line(top).runs /\ f.path = Onto(top)
    BY <1>1, <1>2, <1>4
  <2> HIDE DEF top, t, s
  <2>4. Ahead(lib, s, path) => Ahead(lib, Append(s, f), path)
    BY <1>2, <1>4, <2>1, <2>2, <2>3, AheadOver
  <2>5. QED
    BY <2>1, <2>4
<1> HIDE DEF stack
<1>8. QED
  BY <1>1, <1>5, <1>6, <1>7, CaseMoves

\* A body that is left has used every record of what runs in it.
LEMMA LeaveBodyAccounts ==
  ASSUME IInv, CaseAccounted, run.mode = "case", LeaveBody
  PROVE  CaseAccounted'
<1> DEFINE t == run.case.target
           s == run.stack
           outer == Under[Len(Under)]
           step == outer.form.stream[outer.pos]
           random == Top.form.emit \in Top.random
           after == Stepped(outer, step.as, random)
           f == IF step.kind = "loop" THEN [after EXCEPT !.pos = outer.pos, !.pass = outer.pass + 1] ELSE after
           stack == Append(Outside(Under), f)
<1>1. Within /\ Running /\ AtEnd /\ Under # <<>> /\ UNCHANGED Sealed /\ run' = [run EXCEPT !.stack = stack]
  BY DEF LeaveBody, Within
<1>2. s # <<>> /\ Stacked(lib, s) /\ IsSequence(s) /\ Top = s[Len(s)] /\ Top.pos > Len(Top.form.stream)
  BY <1>1, TopStands DEF Top, Stacked
<1>3. IsLibrary(lib) /\ Lowers(lib) /\ IsRun(run)
  BY <1>1, Grounds DEF IInv, FramesAccounted, Running
<1>4. /\ Stacked(lib, Under) /\ IsSequence(Under) /\ Stands(lib, outer) /\ outer.pos <= Len(outer.form.stream)
      /\ Under[1] = s[1] /\ step = Line(outer) /\ Under = Outside(s)
  BY <1>1, BodyDone DEF Line, Under, Stacked
<1>5. outer = Under[Len(Under)]
  OBVIOUS
<1> HIDE DEF outer, step, random
<1>6. /\ after.of = outer.of /\ after.path = outer.path /\ after.pos = outer.pos + 1
      /\ f.of = outer.of
  <2>1. after = [of |-> outer.of, form |-> outer.form, path |-> outer.path, pos |-> outer.pos + 1, pass |-> 0,
                 random |-> IF random THEN outer.random \union {step.as} ELSE outer.random \ {step.as}]
    BY <1>3, <1>4, SteppedStands
  <2> HIDE DEF after
  <2>2. QED
    BY <2>1
<1> HIDE DEF f
<1>7. /\ run'.mode = "case" /\ run'.case = run.case /\ run'.stack = stack /\ run'.status = "running"
      /\ run'.kept = run.kept
  BY <1>1, <1>3 DEF IsRun, Running
<1> DEFINE u == Under
<1>8. stack # <<>> /\ stack[1].of = s[1].of
  <2>1. IsSequence(u) /\ u # <<>> /\ f.of = u[Len(u)].of /\ u[1] = s[1] /\ IsSequence(Outside(u))
    BY <1>1, <1>4, <1>5, <1>6, OutsideOf
  <2>2. stack = Append(Outside(u), f)
    OBVIOUS
  <2> HIDE DEF u, s, stack
  <2>3. QED
    BY <2>1, <2>2, NotEmpty, BottomStays
<1>9. ASSUME Unambiguous(lib), OncePerSymbol(run.case), NEW path \in run.case.recorded
      PROVE  path \in run.kept \/ Ahead(lib, stack, path)
  <2>1. Recorded(run.case) /\ s[1].of = t /\ (path \in run.kept \/ Ahead(lib, s, path))
    BY <1>1, <1>9, CaseStands
  <2>2. Replayable(t) /\ Leads(t, path)
    BY <1>9, <2>1 DEF Recorded
  <2>3. stack = Append(Outside(u), f) /\ u = Outside(s) /\ u # <<>> /\ Stacked(lib, u) /\ u[1].of = t
    BY <1>1, <1>4, <2>1
  <2>4. outer = u[Len(u)]
    BY <1>5
  <2> HIDE DEF t, u
  <2>5. step.kind # "loop"
    BY <1>4, <2>2, <2>3, <2>4, NoLoop
  <2>6. f = after
    BY <2>5 DEF f
  <2>7. ASSUME Ahead(lib, s, path)
        PROVE  Ahead(lib, Append(Outside(u), f), path)
    <3>1. PICK i \in DOMAIN s : AheadAt(lib, s, path, i)
      BY <2>7 DEF Ahead
    <3>2. s[Len(s)].pos > Len(s[Len(s)].form.stream)
      BY <1>2
    <3> DEFINE w == Where(lib, t, path, i)
    <3> HIDE DEF s, after, stack
    <3>3. w \in Nat /\ i # Len(s)
      BY <1>2, <2>1, <2>2, <3>1, <3>2, WhereStands
    <3>4. i \in DOMAIN u /\ AheadAt(lib, u, path, i) /\ w # u[i].pos
      BY <1>2, <2>1, <2>3, <3>1, <3>3, AheadOutside
    <3>5. f.of = u[Len(u)].of /\ f.path = u[Len(u)].path /\ f.pos = u[Len(u)].pos + 1
      BY <1>6, <2>4, <2>6
    <3>6. QED
      BY <2>3, <3>3, <3>4, <3>5, AheadReplaced
  <2>8. QED
    BY <2>1, <2>3, <2>7
<1> HIDE DEF stack
<1>10. QED
  BY <1>1, <1>2, <1>7, <1>8, <1>9, CaseMoves

\* No case that can be replayed loops.
LEMMA EndLoopAccounts ==
  ASSUME IInv, CaseAccounted, run.mode = "case", EndLoop
  PROVE  CaseAccounted'
<1> DEFINE t == run.case.target
           s == run.stack
           random == Top.pass > 0 /\ Current.as \in Top.random
           f == Stepped(Top, Current.as, random)
           stack == Append(Outside(s), f)
<1>1. Within /\ Running /\ ~AtEnd /\ Current.kind = "loop" /\ UNCHANGED Sealed /\ run' = [run EXCEPT !.stack = stack]
  BY DEF EndLoop, Under, Within
<1>2. /\ s # <<>> /\ Stacked(lib, s) /\ IsSequence(s) /\ Stands(lib, Top) /\ Top = s[Len(s)]
      /\ Top.pos <= Len(Top.form.stream) /\ Current = Line(Top)
  BY <1>1, TopStands DEF Top, Stacked
<1>3. IsLibrary(lib) /\ Lowers(lib) /\ IsRun(run)
  BY <1>1, Grounds DEF IInv, FramesAccounted, Running
<1> HIDE DEF random
<1>4. f.of = Top.of
  <2>1. f = [of |-> Top.of, form |-> Top.form, path |-> Top.path, pos |-> Top.pos + 1, pass |-> 0,
             random |-> IF random THEN Top.random \union {Current.as} ELSE Top.random \ {Current.as}]
    BY <1>2, <1>3, SteppedStands
  <2> HIDE DEF f
  <2>2. QED
    BY <2>1
<1> HIDE DEF f
<1>5. /\ run'.mode = "case" /\ run'.case = run.case /\ run'.stack = stack /\ run'.status = "running"
      /\ run'.kept = run.kept
  BY <1>1, <1>3 DEF IsRun, Running
<1>6. stack # <<>> /\ stack[1].of = s[1].of
  <2>1. IsSequence(s) /\ s # <<>> /\ f.of = s[Len(s)].of /\ IsSequence(Outside(s))
    BY <1>2, <1>4, OutsideOf
  <2> HIDE DEF s
  <2>2. QED
    BY <2>1, NotEmpty, BottomStays
<1>7. ASSUME Unambiguous(lib), OncePerSymbol(run.case)
      PROVE  run.case.recorded = {}
  <2>1. Recorded(run.case) /\ s[1].of = t
    BY <1>1, <1>7, CaseStands
  <2> DEFINE top == Top
  <2>2. top = s[Len(s)] /\ top.pos <= Len(top.form.stream) /\ Line(top).kind = "loop"
    BY <1>1, <1>2
  <2> HIDE DEF top, t, s
  <2>3. ~Replayable(t)
    BY <1>2, <2>1, <2>2, NoLoop
  <2>4. QED
    BY <2>1, <2>3 DEF Recorded, t
<1> HIDE DEF stack
<1>8. QED
  BY <1>1, <1>5, <1>6, <1>7, CaseMoves

\* A case that is done has used all of its records.
LEMMA EndCaseAccounts ==
  ASSUME IInv, CaseAccounted, run.mode = "case", EndCase
  PROVE  CaseAccounted'
<1> DEFINE t == run.case.target
           s == run.stack
           status == IF run.case.recorded \subseteq run.kept THEN "ended" ELSE "unused"
<1>1. /\ Within /\ Running /\ AtEnd /\ Under = <<>> /\ UNCHANGED Sealed
      /\ run' = [run EXCEPT !.status = status]
  BY DEF EndCase, Within
<1>2. s # <<>> /\ Stacked(lib, s) /\ IsSequence(s) /\ s[Len(s)].pos > Len(s[Len(s)].form.stream)
  BY <1>1, TopStands DEF Top, Stacked
<1>3. IsRun(run)
  BY DEF IInv, FramesAccounted
<1>4. Len(s) = 1 /\ DOMAIN s = 1..1
  <2>1. Outside(s) = <<>> /\ Len(<<>>) = 0
    BY <1>1, StackedNone DEF Under, Stacked
  <2> HIDE DEF s
  <2>2. Len(s) - 1 = 0 /\ Len(s) \in Nat /\ DOMAIN s = 1..Len(s)
    BY <1>2, <2>1, OutsideOf
  <2>3. QED
    BY <2>2
<1>5. ASSUME Unambiguous(lib), OncePerSymbol(run.case), NEW path \in run.case.recorded
      PROVE  path \in run.kept
  <2>1. Recorded(run.case) /\ s[1].of = t /\ (path \in run.kept \/ Ahead(lib, s, path))
    BY <1>1, <1>5, CaseStands
  <2>2. Replayable(t) /\ Leads(t, path)
    BY <1>5, <2>1 DEF Recorded
  <2> HIDE DEF t, s
  <2>3. ASSUME Ahead(lib, s, path)
        PROVE  FALSE
    <3>1. PICK i \in DOMAIN s : AheadAt(lib, s, path, i)
      BY <2>3 DEF Ahead
    <3>2. i # Len(s)
      BY <1>2, <2>1, <2>2, <3>1, WhereStands
    <3>3. QED
      BY <1>4, <3>1, <3>2
  <2>4. QED
    BY <2>1, <2>3
<1>6. status \in {"ended", "unused"} /\ (Unambiguous(lib) /\ OncePerSymbol(run.case) => status = "ended")
  BY <1>5
<1> HIDE DEF status
<1>7. run'.mode = "case" /\ run'.case = run.case /\ run'.stack = s /\ run'.status = status
  BY <1>1, <1>3 DEF IsRun
<1>8. QED
  BY <1>1, <1>2, <1>6, <1>7, CaseMoves

\* Every step of the compiler and of the runtime keeps it.
LEMMA CaseNext == IInv /\ CaseAccounted /\ [Next]_vars => CaseAccounted'
<1> SUFFICES ASSUME IInv, CaseAccounted, [Next]_vars PROVE CaseAccounted'
  OBVIOUS
<1>1. CASE UNCHANGED vars
  <2>1. UNCHANGED Sealed /\ run' = run
    BY <1>1 DEF vars, Sealed
  <2>2. lib' = lib /\ draft' = draft /\ OncePerSymbol(run.case)' = OncePerSymbol(run.case)
    BY <2>1, RunStands, OnceStands
  <2>3. QED
    BY <2>1, <2>2 DEF CaseAccounted
<1>2. CASE Canonicalize \/ Govern \/ Construct \/ Project \/ Materialize
  <2>1. run' = run /\ stage # "S7"
    BY <1>2 DEF Canonicalize, Govern, Construct, Project, Materialize, RefusedAt
  <2>2. run'.mode = "none"
    BY <2>1 DEF IInv, StageAccounted
  <2>3. QED
    BY <2>2 DEF CaseAccounted
<1>3. CASE Begin
  <2>1. run'.mode = "act"
    BY <1>3 DEF Begin, NewRun
  <2>2. QED
    BY <2>1 DEF CaseAccounted
<1>4. CASE BeginCase
  BY <1>4, BeginCaseAccounts
<1>5. CASE EnterTransform \/ Answer \/ Perform \/ Route
  <2>1. run.mode = "act" /\ IsRun(run)
    BY <1>5 DEF EnterTransform, Answer, Perform, Route, IInv, FramesAccounted
  <2>2. run'.mode = "act"
    <3>1. CASE EnterTransform
      BY <2>1, <3>1 DEF EnterTransform, IsRun
    <3>2. CASE Answer
      BY <2>1, <3>2 DEF Answer, IsRun
    <3>3. CASE Perform
      BY <2>1, <3>3 DEF Perform, IsRun
    <3>4. CASE Route
      BY <2>1, <3>4 DEF Route, IsRun
    <3>5. QED
      BY <1>5, <3>1, <3>2, <3>3, <3>4
  <2>3. QED
    BY <2>2 DEF CaseAccounted
<1>6. CASE RunAtom \/ EnterBody \/ LeaveBody \/ EndLoop \/ EndCase
  <2>1. CASE run.mode = "case"
    BY <1>6, <2>1, RunAtomAccounts, EnterBodyAccounts, LeaveBodyAccounts, EndLoopAccounts, EndCaseAccounts
  <2>2. CASE run.mode # "case"
    <3>1. run.mode # "none" /\ IsRun(run)
      BY <1>6 DEF RunAtom, EnterBody, LeaveBody, EndLoop, EndCase, Within, Running, IInv, FramesAccounted
    <3>2. run'.mode = run.mode
      <4>1. CASE RunAtom
        BY <3>1, <4>1 DEF RunAtom, IsRun
      <4>2. CASE EnterBody
        BY <3>1, <4>2 DEF EnterBody, IsRun
      <4>3. CASE LeaveBody
        BY <3>1, <4>3 DEF LeaveBody, IsRun
      <4>4. CASE EndLoop
        BY <3>1, <4>4 DEF EndLoop, IsRun
      <4>5. CASE EndCase
        BY <2>2, <4>5 DEF EndCase
      <4>6. QED
        BY <1>6, <4>1, <4>2, <4>3, <4>4, <4>5
    <3>3. QED
      BY <2>2, <3>2 DEF CaseAccounted
  <2>3. QED
    BY <2>1, <2>2
<1>7. QED
  BY <1>1, <1>2, <1>3, <1>4, <1>5, <1>6 DEF Next

\* Every case that is run stands in its target, and where it can be replayed each of its records has
\* been used or is still to come.
THEOREM CasesAccounted == Spec => []CaseAccounted
<1>1. Init => CaseAccounted
  BY DEF Init, NoRun, CaseAccounted
<1>2. QED
  BY <1>1, CaseNext, Accounted, PTL DEF Spec

\* A case whose records S4 admitted replays exactly: it never comes upon an atom that would run
\* without a record, nor leaves a record unused, unless it loops or a symbol stands at two places.
THEOREM CasesReplay == Spec => []CasesReplayExactly
<1>1. CaseAccounted => CasesReplayExactly
  BY DEF CaseAccounted, CasesReplayExactly
<1>2. QED
  BY <1>1, CasesAccounted, PTL

-----------------------------------------------------------------------------
(* Why every run ends.                                                     *)

\* A frame that has gone on: to a later step, or at a loop to a later pass.
Further(f, g) ==
  /\ g.of = f.of /\ g.path = f.path
  /\ g.pos > f.pos \/ (g.pos = f.pos /\ g.pass > f.pass)

\* Stack t is later than s: one of its frames has gone on and those inside it are given up, or one
\* more is entered.
Later(s, t) ==
  /\ Len(t) \in 1..(Len(s) + 1)
  /\ \A j \in 1..(Len(t) - 1) : t[j] = s[j]
  /\ Len(t) <= Len(s) => Further(s[Len(t)], t[Len(t)])

\* A run goes forward: it ends, or comes to the next step, or answers this one, or is further in
\* what this one runs.
Forward ==
  \/ run'.status # "running"
  \/ run'.at = run.at + 1
  \/ /\ run'.at = run.at
     /\ \/ run.answer = "none" /\ run'.answer # "none"
        \/ run'.answer = run.answer /\ Later(run.stack, run'.stack)

\* How far a run can be: within the steps of the pipeline, as deep as lowering follows, in each
\* frame within the steps of what was sealed for its transform and the passes of a loop.
WithinBounds ==
  run.mode # "none" =>
    /\ run.mode = "act" => run.at \in 1..Len(sealed.pipeline)
    /\ Len(run.stack) <= MaxDepth + 1
    /\ \A k \in DOMAIN run.stack :
         LET f == run.stack[k]
         IN  /\ f.of \in DOMAIN lib /\ f.form = sealed.forms[f.of]
             /\ f.pos \in 1..(Len(f.form.stream) + 1) /\ f.pass \in 0..MaxPasses

\* One more frame is later.
LEMMA LaterInside ==
  ASSUME NEW s, IsSequence(s), NEW f
  PROVE  Later(s, Append(s, f))
<1> DEFINE t == Append(s, f)
<1>1. /\ Len(s) \in Nat /\ Len(t) = Len(s) + 1
      /\ \A k \in 1..Len(s) : t[k] = s[k]
  BY Appended
<1> HIDE DEF t
<1>2. Later(s, t)
  BY <1>1 DEF Later
<1>3. QED
  BY <1>2 DEF t

\* A frame that went on, those inside it given up, is later.
LEMMA LaterOutside ==
  ASSUME NEW s, IsSequence(s), NEW u, IsSequence(u), u # <<>>, Len(u) <= Len(s),
         \A k \in 1..Len(u) : u[k] = s[k], NEW f, Further(u[Len(u)], f)
  PROVE  Later(s, Append(Outside(u), f))
<1> DEFINE o == Outside(u)
           t == Append(o, f)
<1>1. /\ IsSequence(o) /\ Len(u) \in Nat /\ Len(u) > 0 /\ Len(o) = Len(u) - 1
      /\ \A k \in 1..(Len(u) - 1) : o[k] = u[k]
  BY OutsideOf
<1> HIDE DEF o
<1>2. /\ Len(t) = Len(u) /\ t[Len(u)] = f
      /\ \A k \in 1..(Len(u) - 1) : t[k] = o[k]
  BY <1>1, Appended
<1>3. Len(s) \in Nat
  BY Appended
<1> HIDE DEF t
<1>4. \A k \in 1..(Len(u) - 1) : t[k] = s[k]
  BY <1>1, <1>2
<1>5. Further(s[Len(u)], f)
  BY <1>1
<1>6. Later(s, t)
  BY <1>1, <1>2, <1>3, <1>4, <1>5 DEF Later
<1>7. QED
  BY <1>6 DEF t, o

\* What changes in a run of which the stack alone moves on.
LEMMA StackForward ==
  ASSUME NEW t, IsRun(run), run'.at = run.at, run'.answer = run.answer, run'.stack = t, Later(run.stack, t)
  PROVE  Forward
BY DEF Forward

\* A step done is a frame that has gone on.
LEMMA SteppedFurther ==
  ASSUME IInv, run.mode # "none", NEW f, Stands(lib, f), f.pos <= Len(f.form.stream), NEW symbol, NEW random
  PROVE  Further(f, Stepped(f, symbol, random))
<1> DEFINE g == Stepped(f, symbol, random)
<1>1. IsLibrary(lib) /\ Lowers(lib)
  BY Grounds DEF IInv
<1>2. g = [of |-> f.of, form |-> f.form, path |-> f.path, pos |-> f.pos + 1, pass |-> 0,
           random |-> IF random THEN f.random \union {symbol} ELSE f.random \ {symbol}]
  BY <1>1, SteppedStands
<1> HIDE DEF g
<1>3. g.of = f.of /\ g.path = f.path /\ g.pos = f.pos + 1
  BY <1>2
<1>4. f.pos \in Nat
  BY <1>1, FormLines DEF Stands
<1>5. Further(f, g)
  BY <1>3, <1>4 DEF Further
<1>6. QED
  BY <1>5 DEF g

\* The steps of a transform go forward.
LEMMA TransformForward ==
  ASSUME IInv, RunAtom \/ EndLoop \/ EnterBody \/ LeaveBody
  PROVE  Forward
<1> DEFINE s == run.stack
<1>1. Within
  BY DEF RunAtom, EndLoop, EnterBody, LeaveBody
<1>2. /\ run.mode # "none" /\ s # <<>> /\ Stacked(lib, s) /\ IsSequence(s) /\ Stands(lib, Top)
      /\ ~AtEnd => Top.pos <= Len(Top.form.stream) /\ Current = Line(Top)
      /\ Top = s[Len(s)] /\ Under = Outside(s)
  BY <1>1, TopStands DEF Stacked, Top, Under
<1>3. IsRun(run) /\ IsLibrary(lib) /\ Lowers(lib)
  BY <1>2, Grounds DEF IInv, FramesAccounted
<1>4. ASSUME ~AtEnd, NEW symbol, NEW random
      PROVE  Later(s, Append(Outside(s), Stepped(Top, symbol, random)))
  <2>1. Further(s[Len(s)], Stepped(Top, symbol, random))
    BY <1>2, <1>4, SteppedFurther
  <2>2. Len(s) \in Nat
    BY <1>2, OutsideOf
  <2> HIDE DEF s
  <2>3. QED
    BY <1>2, <2>1, <2>2, LaterOutside
<1>5. CASE RunAtom
  <2> DEFINE random == Impure(lib, Current.runs)
             t == Append(Outside(s), Stepped(Top, Current.as, random))
             drawn == IF random THEN run.drawn \union {Path} ELSE run.drawn
             kept == IF Current.purity = "ct_impure" THEN run.kept \union {Path} ELSE run.kept
  <2>1. ~AtEnd /\ \/ run' = [run EXCEPT !.status = "unrecorded"]
                  \/ run' = [run EXCEPT !.stack = t, !.drawn = drawn, !.kept = kept]
    BY <1>2, <1>5 DEF RunAtom
  <2>2. Later(s, t)
    BY <1>4, <2>1
  <2> HIDE DEF t, drawn, kept, random
  <2>3. CASE run' = [run EXCEPT !.status = "unrecorded"]
    BY <1>3, <2>3 DEF IsRun, Forward
  <2>4. CASE run' = [run EXCEPT !.stack = t, !.drawn = drawn, !.kept = kept]
    <3>1. run'.at = run.at /\ run'.answer = run.answer /\ run'.stack = t
      BY <1>3, <2>4 DEF IsRun
    <3>2. QED
      BY <1>3, <2>2, <3>1, StackForward
  <2>5. QED
    BY <2>1, <2>3, <2>4
<1>6. ASSUME NEW t, run' = [run EXCEPT !.stack = t], Later(s, t)
      PROVE  Forward
  <2>1. run'.at = run.at /\ run'.answer = run.answer /\ run'.stack = t
    BY <1>3, <1>6 DEF IsRun
  <2>2. QED
    BY <1>3, <1>6, <2>1, StackForward
<1>7. CASE EndLoop
  <2> DEFINE random == Top.pass > 0 /\ Current.as \in Top.random
             t == Append(Outside(s), Stepped(Top, Current.as, random))
  <2>1. ~AtEnd /\ run' = [run EXCEPT !.stack = t]
    BY <1>2, <1>7 DEF EndLoop
  <2>2. Later(s, t)
    BY <1>4, <2>1
  <2> HIDE DEF t
  <2>3. QED
    BY <1>6, <2>1, <2>2
<1>8. CASE EnterBody
  <2> DEFINE t == Append(s, Frame(Current.runs, Current.body, Path))
  <2>1. run' = [run EXCEPT !.stack = t]
    BY <1>8 DEF EnterBody
  <2>2. Later(s, t)
    BY <1>2, LaterInside
  <2> HIDE DEF t
  <2>3. QED
    BY <1>6, <2>1, <2>2
<1>9. CASE LeaveBody
  <2> DEFINE outer == Under[Len(Under)]
             step == outer.form.stream[outer.pos]
             random == Top.form.emit \in Top.random
             after == Stepped(outer, step.as, random)
             f == IF step.kind = "loop" THEN [after EXCEPT !.pos = outer.pos, !.pass = outer.pass + 1] ELSE after
             t == Append(Outside(Under), f)
  <2>1. AtEnd /\ Under # <<>> /\ run' = [run EXCEPT !.stack = t]
    BY <1>9 DEF LeaveBody
  <2>2. /\ Stands(lib, outer) /\ outer.pos <= Len(outer.form.stream) /\ step = Line(outer)
        /\ IsSequence(Under)
    BY <1>1, <2>1, BodyDone DEF Line, Stacked
  <2>3. Len(Under) <= Len(s) /\ \A k \in 1..Len(Under) : Under[k] = s[k]
    <3> HIDE DEF s
    <3>1. QED
      BY <1>2, OutsideOf
  <2> HIDE DEF outer, step, random
  <2>4. Further(outer, f)
    <3>1. CASE step.kind = "loop"
      <4>1. f = Looped(outer, random)
        BY <2>2, <3>1 DEF Looped
      <4> HIDE DEF f
      <4>2. f = [of |-> outer.of, form |-> outer.form, path |-> outer.path, pos |-> outer.pos, pass |-> outer.pass + 1,
                 random |-> IF random THEN outer.random \union {Line(outer).as} ELSE outer.random \ {Line(outer).as}]
        BY <1>3, <2>2, <4>1, LoopedIs
      <4>3. outer.pass \in Nat
        BY <2>2, ContractAssumption DEF Stands
      <4>4. QED
        BY <4>2, <4>3 DEF Further
    <3>2. CASE step.kind # "loop"
      <4>1. f = Stepped(outer, step.as, random)
        BY <3>2
      <4> HIDE DEF f
      <4>2. QED
        BY <1>2, <2>2, <4>1, SteppedFurther
    <3>3. QED
      BY <3>1, <3>2
  <2> HIDE DEF f
  <2>5. Later(s, t)
    <3>1. outer = Under[Len(Under)]
      BY DEF outer
    <3> HIDE DEF s
    <3>2. QED
      BY <1>2, <2>1, <2>2, <2>3, <2>4, <3>1, LaterOutside
  <2> HIDE DEF t
  <2>6. QED
    BY <1>6, <2>1, <2>5
<1>10. QED
  BY <1>5, <1>7, <1>8, <1>9

\* The steps of an act and of a case go forward.
LEMMA ActForward ==
  ASSUME IInv, EnterTransform \/ Answer \/ Perform \/ Route \/ EndCase
  PROVE  Forward
<1>1. IsRun(run) /\ run.mode # "none" /\ IsSequence(run.stack)
  BY DEF EnterTransform, Answer, Perform, Route, EndCase, Within, Running, IInv, FramesAccounted, Stacked
<1>2. CASE EnterTransform
  <2> DEFINE f == Frame(Step.runs, sealed.forms[Step.runs], <<>>)
  <2>1. run.stack = <<>> /\ run' = [run EXCEPT !.stack = <<f>>]
    BY <1>2 DEF EnterTransform
  <2> HIDE DEF f
  <2>2. <<f>> = Append(run.stack, f)
    BY <2>1
  <2>3. Later(run.stack, <<f>>)
    BY <1>1, <2>2, LaterInside
  <2>4. run'.at = run.at /\ run'.answer = run.answer /\ run'.stack = <<f>>
    BY <1>1, <2>1 DEF IsRun
  <2>5. QED
    BY <1>1, <2>3, <2>4, StackForward
<1>3. CASE Answer
  <2>1. run.answer = "none"
    BY <1>3 DEF IInv, ActAccounted, Answer, Within
  <2> DEFINE given == IF Top.form.emit \in Top.random THEN "random" ELSE "decided"
             left == [run EXCEPT !.stack = <<>>]
  <2>2. \/ run' = [left EXCEPT !.outcome = "SUCCESS", !.answer = given]
        \/ run' = [left EXCEPT !.outcome = "VIOLATION", !.answer = "refused"]
    BY <1>3 DEF Answer
  <2>3. given # "none"
    OBVIOUS
  <2> HIDE DEF given
  <2>4. run'.at = run.at /\ run'.answer # "none"
    BY <1>1, <2>2, <2>3 DEF IsRun
  <2>5. QED
    BY <2>1, <2>4 DEF Forward
<1>4. CASE Perform
  <2>1. PICK c : run' = [run EXCEPT !.outcome = c, !.answer = "performed"]
    BY <1>4 DEF Perform
  <2>2. run'.at = run.at /\ run'.answer = "performed" /\ run.answer = "none"
    BY <1>1, <1>4, <2>1 DEF IsRun, Perform
  <2>3. QED
    BY <2>2 DEF Forward
<1>5. CASE Route
  <2> DEFINE done == Append(run.done, [id |-> Step.id, runs |-> Step.runs])
  <2>1. \/ run' = [run EXCEPT !.status = "unrouted"]
        \/ run' = [run EXCEPT !.status = "ended"]
        \/ run' = [run EXCEPT !.at = run.at + 1, !.answer = "none", !.done = done]
    BY <1>5 DEF Route
  <2> HIDE DEF done
  <2>2. QED
    BY <1>1, <2>1 DEF IsRun, Forward
<1>6. CASE EndCase
  <2>1. run' = [run EXCEPT !.status = "ended"] \/ run' = [run EXCEPT !.status = "unused"]
    BY <1>6 DEF EndCase
  <2>2. QED
    BY <1>1, <2>1 DEF IsRun, Forward
<1>7. QED
  BY <1>2, <1>3, <1>4, <1>5, <1>6

\* No run goes on for ever: every step of it goes forward, and there are only so many places.
THEOREM RunsRunOut == Spec => []WithinBounds /\ [][Running => Forward]_vars
<1>1. ASSUME IInv, run.mode # "none"
      PROVE  /\ run.mode = "act" => run.at \in 1..Len(sealed.pipeline)
             /\ Len(run.stack) <= MaxDepth + 1
             /\ \A k \in DOMAIN run.stack :
                  LET f == run.stack[k]
                  IN  /\ f.of \in DOMAIN lib /\ f.form = sealed.forms[f.of]
                      /\ f.pos \in 1..(Len(f.form.stream) + 1) /\ f.pass \in 0..MaxPasses
  <2>1. Stacked(lib, run.stack) /\ sealed.forms = Forms(lib)
    BY <1>1, Grounds DEF IInv, FramesAccounted
  <2>2. run.mode = "act" => run.at \in 1..Len(sealed.pipeline)
    BY <1>1 DEF IInv, ActAccounted
  <2>3. Len(run.stack) <= MaxDepth + 1
    BY <1>1, TypesHold DEF TypeOK
  <2>4. \A k \in DOMAIN run.stack : Stands(lib, run.stack[k])
    BY <2>1 DEF Stacked
  <2>5. QED
    BY <2>1, <2>2, <2>3, <2>4 DEF Stands
<1>2. IInv => WithinBounds
  BY <1>1 DEF WithinBounds
<1>3. ASSUME IInv, [Next]_vars, Running, vars' # vars
      PROVE  Forward
  <2>1. run.mode # "none" /\ stage = "S7"
    BY <1>3, Grounds DEF Running, IInv
  <2>2. ~(Canonicalize \/ Govern \/ Construct \/ Project \/ Materialize \/ Begin \/ BeginCase)
    BY <2>1 DEF Canonicalize, Govern, Construct, Project, Materialize, Begin, BeginCase
  <2>3. CASE RunAtom \/ EndLoop \/ EnterBody \/ LeaveBody
    BY <1>3, <2>3, TransformForward
  <2>4. CASE EnterTransform \/ Answer \/ Perform \/ Route \/ EndCase
    BY <1>3, <2>4, ActForward
  <2>5. QED
    BY <1>3, <2>2, <2>3, <2>4 DEF Next
<1>4. IInv /\ [Next]_vars => [Running => Forward]_vars
  BY <1>3
<1>5. QED
  BY <1>2, <1>4, Accounted, PTL DEF Spec
=============================================================================
