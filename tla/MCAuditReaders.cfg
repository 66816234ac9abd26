\* Two processes, crashes and failed calls anywhere, rotation, retention, adoption,
\* locks nobody releases, and a diagnosis and exports beside the writers.
SPECIFICATION ReadersSpec
CONSTANTS
  None = None
  Torn = Torn
  Abandoned = Abandoned
  w1 = w1
  w2 = w2
  a = a
  b = b
  huge = huge
  Writers = {w1, w2}
  Events = {a, b, huge}
  Groups <- MixedGroups
  Initial <- OldHistory
  Size <- Sizes
  MaxRecordBytes = 4
  MaxBatchBytes = 5
  MaxSegmentBytes = 5
  MaxSegments = 2
  MaxChainBatchRecords = 3
  MaxChainBatchBytes = 6
  MaxAttempts = 3
  MaxRecords = 3
  MaxLookAttempts = 2
INVARIANTS
  DirectorySound
  AuditDiagnosisSound
PROPERTIES
  EvidenceKept
  ImplementsLog
  WritesSettle
