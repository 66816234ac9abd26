\* Two processes, rotation with two files kept; two of failing steps, crashes and
\* replaced markers anywhere; recovery of the marker; the lock's wait may end at
\* any time. The system stops when every call has been made.
SPECIFICATION FairSpec
CONSTANTS
  None = None
  p1 = p1
  p2 = p2
  w1 = w1
  w2 = w2
  old1 = old1
  old2 = old2
  e1 = e1
  Processes = {p1, p2}
  Calls = {w1, w2, e1}
  Inodes = {1, 2}
  Home <- MCHome
  Signalled = {e1}
  MaxBytes = 1
  MaxFiles = 2
  Earlier <- MCEarlier
  MaxMishaps = 2
CHECK_DEADLOCK FALSE
INVARIANTS
  WritersSound
PROPERTIES
  RotationKeepsLines
  CallsAnswered
