SPECIFICATION FairSpec
CONSTANTS
  Size = 2
  Delays = {0, 1, 2}
  Bandwidth = 2
  WritePhases = {0, 2}
INVARIANTS
  AnnouncementsExact
PROPERTIES
  NobodyWaitsForEver
