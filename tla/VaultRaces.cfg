SPECIFICATION FairSpec
CONSTANTS
  x = x
  y = y
  Blobs = {x, y}
  Size <- MCSize
  Uploads = {u1, u2}
  Attempts = {a1, a2}
  MaxIngest = 2
  MaxTotal = 2
  MaxListed = 2
  MaxCrashes = 2
  Absent = Absent
  Partial = Partial
INVARIANTS VaultKeyed MountsResolve TempsIntact IngestBounded
PROPERTY DebrisSwept
CHECK_DEADLOCK FALSE
