CONSTANTS
  MaxPieces = 2
  HeadSize = 4
  FieldStart = 2
  FieldEnd = 3
  MaxLength = 3
  Extra = 2
  BuffSize = 4
  ResponseSize = 3
  Keys = {k1, k2}
  TTime = 1
  MaxLag = 2
  Uris = {u1, u2}
  Globs = {g1, g2}
  Servlets = {s1, s2}
  MaxClock = 3
  Matches <- MCMatches
  k1 = k1
  k2 = k2
  u1 = u1
  u2 = u2
  g1 = g1
  g2 = g2
  s1 = s1
  s2 = s2
  None = None
SPECIFICATION FairSpec
INVARIANTS TypeOK RequestSound BodyExact GlobOrder
PROPERTIES ImplementsGrammar DeletesStale Expires
CHECK_DEADLOCK FALSE
