SPECIFICATION Spec
CONSTANTS
  ours = ours
  theirs = theirs
  gen = gen
  Slots = {1, 2}
  Bodies = {"x", "y"}
  LongBodies = {}
  Repos = {ours, theirs, gen}
  LinksOf <- FewLinks
  SourceRepo <- MCSourceRepo
  Excluded = {gen}
  NoRevision = NoRevision
  Requests <- Pages
  Readers = {c1, c2}
  MaxStops = 0
  MaxFaults = 0
SYMMETRY Clients
INVARIANT
  TypeOK
  WalkIsOneCatalog
  SnapshotIsCurrent
