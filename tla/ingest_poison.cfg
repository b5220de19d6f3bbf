SPECIFICATION FairSpec
CONSTANTS
  k1 = k1
  k2 = k2
  r1 = r1
  f1 = f1
  f2 = f2
  bad = bad
  Keys = {k1, k2}
  Repos = {r1}
  Facts = {f1, f2, bad}
  RepoOf <- OneRepo
  InvalidFacts = {bad}
  Callers = {c1}
  Requests <- OneBatch
  AttemptCap = 3
  MaxGen = 2
  MaxStops = 0
PROPERTY
  EveryItemSettles
