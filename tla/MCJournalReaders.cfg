\* A diagnosis beside concurrent commits, crashes, failed system calls, stale locks, clock steps.
SPECIFICATION ReadersSpec
CONSTANTS
  None = None
  w1 = w1
  w2 = w2
  w3 = w3
  s1 = s1
  s2 = s2
  Snapshots <- AllSnapshots
  Artifacts <- FiveArtifacts
  Writers = {w1, w2, w3}
  MinSequence = 0
  MaxAge = 2
  MaxLifetime = 4
  ClockSkew = 0
  MaxHistory = 2
  MaxTime = 3
SYMMETRY CommitsAlike
INVARIANTS
  StoreSound
  AcknowledgedKept
  JournalDiagnosisSound
PROPERTIES
  ImplementsRegister
