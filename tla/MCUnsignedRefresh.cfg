\* Unsigned refresh with conditional requests.
SPECIFICATION Spec
CONSTANTS
  s0 = s0
  s1 = s1
  s2 = s2
  None = None
  Malformed = Malformed
  Forged = Forged
  Snapshots <- AllSnapshots
  Bootstrap = s0
  MinSequence = 1
  MaxLifetime = 4
  ClockSkew = 0
  Artifacts <- ThreeArtifacts
  AppOrigins <- UnsignedOnly
  Signed = FALSE
  Durable = FALSE
  Callers = {c1}
  MaxAge = 2
  MaxTime = 0
PROPERTIES
  ResultReflectsSource
