\* A repeated commit returns without flushing the rename that failed to be flushed.
SPECIFICATION Spec
CONSTANTS
  None = None
  w1 = w1
  w2 = w2
  s1 = s1
  s2 = s2
  Snapshots <- AllSnapshots
  Artifacts <- TwoArtifacts
  Writers = {w1, w2}
  MinSequence = 0
  MaxAge = 2
  MaxLifetime = 4
  ClockSkew = 0
  MaxHistory = 2
  MaxTime = 3
INVARIANTS
  AcknowledgedFlushed
