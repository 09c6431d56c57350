CONSTANTS
  Callers = {c1, c2}
  Pieces <- MCPieces
  FallbackNamespace <- MCFallbackNamespace
  Refs <- TwoRefs
  TTL = 1
  MaxClock = 2
  MaxRevision = 1
SPECIFICATION Spec
SYMMETRY CallerSymmetry
INVARIANTS
  TypeOK
  NoTimeTravel
  HitWithinTTL
