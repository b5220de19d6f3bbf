SPECIFICATION FairSpec
\* The worker is off for good once its recovery has failed.
CHECK_DEADLOCK FALSE
CONSTANTS
  ours = ours
  theirs = theirs
  gen = gen
  Slots = {1, 2}
  Bodies = {"x", "y"}
  LongBodies = {}
  Repos = {ours, theirs, gen}
  LinksOf <- NoLinks
  SourceRepo <- MCSourceRepo
  Excluded = {gen}
  NoRevision = NoRevision
  Requests <- Conflict
  Readers = {}
  MaxStops = 2
  MaxFaults = 1
PROPERTY
  EveryJobSettles
INVARIANT
  AttemptsAreBounded
