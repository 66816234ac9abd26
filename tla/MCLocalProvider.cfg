\* Two overlapping evaluations under every policy, two updates to signed or unsigned
\* contents, so that a signed snapshot is delivered again while active or after
\* others, and a clock that moves both ways and may be invalid.
SPECIFICATION FairSpec
CONSTANTS
  Unsigned = Unsigned
  Invalid = Invalid
  None = None
  on = on
  off = off
  e1 = e1
  e2 = e2
  Evaluations = {e1, e2}
  Snapshots = {on, off}
  Artifacts <- SignedOnly
  Times = {0, 1}
  MaxUpdates = 2
CHECK_DEADLOCK FALSE
INVARIANTS
  StatusTruthful
  FailsClosed
PROPERTIES
  ExpiryIsFinal
  Answered
