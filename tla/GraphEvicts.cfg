SPECIFICATION Spec
CONSTANTS
  Nodes = {s, a, b, c}
  s = s
  a = a
  b = b
  c = c
  Start = s
  Rels <- MCRels
  Links <- MCLinks
  Filters <- MCFilters
  Fragile = {}
  NoLink = NoLink
  Writers = {w1}
  w1 = w1
  w2 = w2
  MaxFacts = 3
  MaxOutDegree = 1
  MaxDepth = 2
  MaxNodes = 1
  MaxEdges = 2
  MaxCalls = 2
  MaxTroubles = 0
INVARIANTS
  NeverEvicted
CHECK_DEADLOCK FALSE
