SPECIFICATION FairSpec
CONSTANTS
  None = None
  in = in
  n1 = n1
  n2 = n2
  n3 = n3
  x = x
  y = y
  gone = gone
  i = i
  a = a
  b = b
  c = c
  p = p
  ki = ki
  ka = ka
  kb = kb
  kc = kc
  ok = ok
  no = no
  told = told
  Key = {in, n1, n2, n3, x, y, gone}
  Artifact = {i, a, b, c, p}
  Code = {ki, ka, kb, kc}
  Condition = {ok, no}
  Event = {told}
  Own = {i, a, b, c}
  CodeOf <- MCCodeOf
  KindOf <- MCKindOf
  Rank <- MCRank
  Declaration <- MCDeclaration
INVARIANTS TypeOK AnswersEveryOutcome RunsWhatWasResolved ResultsStayApart CycleSearchAgrees ReachSearchAgrees
PROPERTIES ImplementsWalk NoPlaceTwice ReachesAnEnding
CHECK_DEADLOCK FALSE
