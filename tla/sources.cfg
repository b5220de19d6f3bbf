SPECIFICATION SourcesSpec
CONSTANTS
  Goroutines = {g1, g2}
  g1 = g1
  text = text
  newText = newText
  bad = bad
  none = none
  noRow = noRow
  noHash = noHash
  b1 = b1
  Backfills = {b1}
  Requests <- OneRequest
  Admins = {a1, a2}
  Looks = {text, bad}
  Refused = {bad}
  NoBackfill = NoBackfill
  MaxVolume = 2
  MaxEdits = 1
  MaxTroubles = 1
INVARIANT
  SourcesTypeOK
  RecordedWasQueued
  QueueIsNotBehind
  CollectorsTakeTurns
  CheckpointIsCovered
  GivesUpAfterThree
PROPERTY
  EveryIssueIsRecorded
  HelloGitHubIsFollowed
  EveryBackfillEnds
