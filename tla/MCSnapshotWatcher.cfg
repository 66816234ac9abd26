\* Two changes of the file, in place, by a rename or behind a link, at any
\* moment of a reload; one manual reload, a native error, refused updates, close.
SPECIFICATION FairSpec
CONSTANTS
  Broken = Broken
  None = None
  on = on
  off = off
  onText = onText
  onYaml = onYaml
  offText = offText
  badText = badText
  c1 = c1
  Texts = {onText, onYaml, offText, badText}
  Parse <- Parsed
  Callers = {c1}
  Handles <- MCHandles
  MaxWrites = 2
  MaxErrors = 1
CHECK_DEADLOCK FALSE
INVARIANTS
  ReloadsConsistent
PROPERTIES
  NothingAfterClose
  LastContentsArrive
