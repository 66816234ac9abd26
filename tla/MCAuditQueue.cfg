\* Three calls, two of them confirmed, over a queue of two calls and four bytes; two
\* flushes; any group may fail, with part of it stored.
SPECIFICATION FairSpec
CONSTANTS
  Unlimited = Unlimited
  small = small
  medium = medium
  large = large
  flush1 = flush1
  flush2 = flush2
  Writes = {small, medium, large}
  Confirmed = {medium, large}
  Size <- Sizes
  MaxSize = 2
  MaxBytes = 4
  DropsNewest = TRUE
  MaxGroup = 2
  MaxGroupBytes = 3
  MaxCauses = 1
  Flushes = {flush1, flush2}
CHECK_DEADLOCK FALSE
INVARIANTS
  QueueBounded
  FlushReports
  StoredInOrder
PROPERTIES
  EverythingSettles
