\* Polling a source whose client may answer late or never. The system stops when
\* it was closed.
SPECIFICATION FairSpec
CONSTANTS
  None = None
  Timeout = 2
  TotalTimeout = 3
  MaxAttempts = 2
  RetryDelay = 2
  MaxBackoff = 2
CHECK_DEADLOCK FALSE
INVARIANTS
  OnePollChain
  BodiesReleased
PROPERTIES
  ReadsKeepPolicy
  PollingGoesOn
