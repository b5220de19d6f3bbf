SPECIFICATION Spec
\* The worker is off for good once its recovery has failed.
CHECK_DEADLOCK FALSE
CONSTANTS
  ours = ours
  theirs = theirs
  gen = gen
  Slots = {1, 2}
  Bodies = {"x", "y"}
  LongBodies = {}
  Repos = {ours, theirs, gen}
  LinksOf <- MCLinks
  SourceRepo <- MCSourceRepo
  Excluded = {gen}
  NoRevision = NoRevision
  Requests <- Editions
  Readers = {}
  MaxStops = 1
  MaxFaults = 1
INVARIANT
  PublishedIsCovered
  ShownIsCanonical
PROPERTY
  ShownOnlyAdvances
