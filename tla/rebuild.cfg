SPECIFICATION FairSpec
\* The blocked rebuild is what the run shows.
CHECK_DEADLOCK FALSE
CONSTANTS
  Clients = {c1, c2}
  Repos = {r1}
  MaxVersion = 2
PROPERTY
  RebuildEnds
