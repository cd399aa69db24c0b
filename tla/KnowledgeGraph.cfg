SPECIFICATION Spec
CONSTANTS
  Nodes = {s, a, b, c}
  s = s
  a = a
  b = b
  c = c
  Start = s
  Rels <- MCRels
  Links <- MCLinks
  Filters <- MCFilters
  Fragile <- MCFragile
  NoLink = NoLink
  Writers = {w1, w2}
  w1 = w1
  w2 = w2
  MaxFacts = 3
  MaxOutDegree = 1
  MaxDepth = 2
  MaxNodes = 2
  MaxEdges = 2
  MaxCalls = 3
  MaxTroubles = 1
INVARIANTS
  EdgeEnds
  IngestBounded
  WalkSound
  CutHonest
  CuratedShown
PROPERTIES
  OnlyRise
  NeverStarved
SYMMETRY WriterSymmetry
CHECK_DEADLOCK FALSE
