SPECIFICATION Spec
CONSTANTS
  Keys = {seed1, seed2, twin, short}
  seed1 = seed1
  seed2 = seed2
  twin = twin
  short = short
  Seeds <- MCSeeds
  Sources = {"human", "seen"}
  Sketch <- MCSketch
  NoSketch = "none"
  Clients = {c1, c2}
  c1 = c1
  c2 = c2
  MaxFacts = 3
  MaxCalls = 3
  MaxTroubles = 2
  NoRow = NoRow
  NoTask = NoTask
INVARIANTS
  CuratedVouched
  CitationsSound
  CountExact
  LeadsCurated
  SeedsGround
PROPERTIES
  OnlyRise
SYMMETRY ClientSymmetry
CHECK_DEADLOCK FALSE
