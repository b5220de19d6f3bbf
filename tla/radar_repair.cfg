SPECIFICATION Spec
CONSTANTS
  ours = ours
  theirs = theirs
  gen = gen
  Slots = {1, 2}
  Bodies = {"x", "y"}
  LongBodies = {}
  Repos = {ours, theirs, gen}
  LinksOf <- MCLinks
  SourceRepo <- MCSourceRepo
  Excluded = {gen}
  NoRevision = NoRevision
  Requests <- Takeover
  Readers = {}
  MaxStops = 0
  MaxFaults = 0
PROPERTY
  RepairSticks
