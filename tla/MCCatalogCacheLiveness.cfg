CONSTANTS
  Callers = {c1, c2}
  Pieces <- MCPieces
  FallbackNamespace <- MCFallbackNamespace
  Refs <- AlikeRefs
  TTL = 1
  MaxClock = 2
  MaxRevision = 0
SPECIFICATION FairSpec
INVARIANT
  AnswersItsRef
PROPERTIES
  LoadsReturn
