\* Every family of snapshots, edited once, before or after it is captured; the
\* overrides of four environments; about sixty requests. Nothing stops the caller.
SPECIFICATION ToolsSpec
CONSTANTS
  Undefined = Undefined
  Missing = Missing
  InvalidAttribute = InvalidAttribute
  Null = Null
  Composite = Composite
  NotFinite = NotFinite
  TargetingKey = TargetingKey
  JsonError = JsonError
  DefaultSeed = DefaultSeed
  Default = Default
  f = f
  g = g
  p = p
  q = q
  a = a
  b = b
  v1 = v1
  v2 = v2
  word = word
  long = long
  k0 = k0
  k1 = k1
  k2 = k2
  k3 = k3
  blank = blank
  seed1 = seed1
  x = x
  y = y
  t1 = t1
  t2 = t2
  bad = bad
  LongStrings = {long}
  BlankStrings = {blank}
  StartsWith <- Starts
  EndsWith <- Starts
  Version <- Ranks
  MinMembership = 2
  Leaves <- MCLeaves
  MaxHeight = 5
  Seeds <- MCSeeds
  Rollouts <- MCRollouts
  BucketScale = 4
  MinRollout = 2
  MinStages = 2
  MaxEntries = 3
  MaxDepth = 3
  MaxNodes = 5
  MaxChildren = 3
  Documents <- MCDocuments
  Authored <- MCAuthored
  FlagdDocuments <- MCFlagd
  RequestFiles <- MCRequestFiles
  Limits <- MCLimits
  Whole = 4
  MaxVisits = 7
  ParsedAs <- Parsed
  FlagOrder <- Order
  Inputs <- Families
  Requests <- MCRequests
  Options <- MCOptions
  Bucket <- Buckets
  Conditions <- Ids
  RequestTimes = {0, 1, 2}
  MaxEdits = 1
INVARIANTS
  EvaluationsSound
  ValidationSuffices
  ToolsFaithful
