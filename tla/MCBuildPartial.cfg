SPECIFICATION Spec
CONSTANTS
  None = None
  v1 = v1
  v2 = v2
  a1 = a1
  a2 = a2
  c1 = c1
  Version = {v1, v2}
  Artifact = {a1, a2}
  Case = {c1}
  Declares <- MCDeclares
  MaxBuilds = 2
  MaxFaults = 0
  Corruptible = {}
  Views = {"metadata", "forward", "reverse", "dispatch", "evidence_graph"}
  EvidenceRoot = {TRUE}
INVARIANT NoPartialOutput
