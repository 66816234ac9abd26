\* Signed refresh without a store: the replay floor lives and dies with the process.
SPECIFICATION Spec
CONSTANTS
  s0 = s0
  s1 = s1
  s2 = s2
  None = None
  Malformed = Malformed
  Forged = Forged
  Snapshots <- AllSnapshots
  Bootstrap = s0
  MinSequence = 1
  MaxLifetime = 4
  ClockSkew = 0
  Artifacts <- FourArtifacts
  AppOrigins <- SignedAsWell
  Signed = TRUE
  Durable = FALSE
  Callers = {c1}
  MaxAge = 2
  MaxTime = 3
PROPERTIES
  NoRollback
