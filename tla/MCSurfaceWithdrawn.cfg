SPECIFICATION Spec
CONSTANTS
  None = None
  Platform = "platform"
  Domain = {"domain"}
  Declaration = "R"
  Boundary = {"placement"}
  Mishaps = 1
  Says <- MCSays
  Artifact <- MCArtifact
  Name <- MCName
  EdgeKind <- MCEdgeKind
  Symbol <- MCSymbol
  Order <- MCOrder
  Base <- MCBase
  Trees <- MCTrees
  TreesOf <- MCWithdrawnOf
INVARIANT WithdrawnIsNoCandidate
