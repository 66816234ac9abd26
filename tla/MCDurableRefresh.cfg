\* Durable signed refresh: crashes, restarts, other writers, application updates.
SPECIFICATION FairSpec
CONSTANTS
  s0 = s0
  s1 = s1
  s2 = s2
  None = None
  Malformed = Malformed
  Forged = Forged
  Snapshots <- AllSnapshots
  Bootstrap = s0
  MinSequence = 1
  MaxLifetime = 4
  ClockSkew = 0
  Artifacts <- ThreeArtifacts
  AppOrigins <- OneReset
  Signed = TRUE
  Durable = TRUE
  Callers = {c1}
  MaxAge = 2
  MaxTime = 3
INVARIANTS
  RefresherSound
  FailureCountedExactlyOnce
  FloorCoversDelivered
PROPERTIES
  AppliesOnlyInTime
  LocalUpdatesKept
  DeliveryPromise
  CallersAnswered
  SlotReleased
