SPECIFICATION Spec
CONSTANTS
  MinToAutonomous = 2
  AccuracyFloor = 90
  ShadowFloor = 60
  CalMinObservations = 2
  CalHighFloor = 80
  CalMedFloor = 50
  Techniques = {known, new, sub}
  known = known
  new = new
  sub = sub
  CuratedOf = {known}
  IngestOf = {}
  Near <- MCNear
  NoTechnique = NoTechnique
  Junk = Junk
  FamilyReplies <- MCFamilies
  BehaviourReplies <- MCBehaviours
  IOCReplies <- MCIOCs
  Evidences <- MCEvidences
  Samples = 3
  MaxHyps = 2
  MaxCites = 1
  MaxIOCs = 1
  MaxLong = 1
  OtherRecords <- MCOtherRecords
  MaxOthers = 2
  NoveltyPct = 85
  AgreementPct = 50
  MaxSubs = 1
  MaxTroubles = 1
  Hash <- MCHash
  Genesis = Genesis
INVARIANTS
  TypeOK
  AcceptedMeasured
  RejectedForCause
  LedgerTells
  TamperShows
CHECK_DEADLOCK FALSE
