SPECIFICATION FairSpec
CONSTANTS
  Sources <- SmallSources
  Repos = {1, 2, 3}
  Times = {1, 2}
  OldFacts <- SmallOldFacts
  NewFacts <- SmallNewFacts
  SourceOf <- SmallSourceOf
  Filters <- SmallFilters
  Limit = 2
  PageSize = 2
  MaxCrashes = 1
  MaxCommits = 2
INVARIANT
  TypeOK
  LegacyIsCarried
  AggregatesCoverEvents
  QuietWalkListsEachOnce
PROPERTY
  UpgradeFinishes
