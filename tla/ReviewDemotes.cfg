SPECIFICATION Spec
CONSTANTS
  Subs = {s1, s2}
  Facts = {sample, tech}
  s1 = s1
  s2 = s2
  sample = sample
  tech = tech
  Base <- MCBase
  Learns <- MCLearns
  Proposals <- MCProposals
  Readers = {}
  MaxPosts = 1
  MaxCrashes = 0
  NoDecision = NoDecision
  MinToAutonomous = 1
  AccuracyFloor = 90
  ShadowFloor = 30
  CalMinObservations = 1
  CalHighFloor = 85
  CalMedFloor = 60
INVARIANTS
  DemotesWhenWrong
CHECK_DEADLOCK FALSE
