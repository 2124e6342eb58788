SPECIFICATION Spec
CHECK_DEADLOCK FALSE
CONSTANTS
  None = None
  NoBinding = NoBinding
  Transform <- MCTransform
  Code <- MCCode
  CodeOf <- MCCodeOf
  Order <- MCOrder
  MaxDepth = 1
  Effect = {"store", "send"}
  Operations <- MCOperations
  Outcomes <- MCOutcomes
  This = "this"
  Contracts = {"this", "other"}
  Drafts <- MCStorageDrafts
  MaxPasses = 2
  Act = {"first", "second"}
  Binding = {"rb", "rb2", "rb3"}
  Description = {"desc", "desc2"}
  PlatformLayer = {"core"}
  EffectCode <- MCEffectCode
  Intent = {"i::Enter", "j::Enter"}
  Transport = {"door"}
  Standing <- MCStanding
  Sorted <- MCSorted
  Unnamed = Unnamed
INVARIANT TwiceDescribedIsLeftOut
