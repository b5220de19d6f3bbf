SPECIFICATION FairSpec
\* A rebuild over a non-empty catalogue blocks every user of the database.
CHECK_DEADLOCK FALSE
CONSTANTS
  Clients = {c1, c2}
  Repos = {r1}
  MaxVersion = 2
INVARIANT
  TypeOK
  BuiltAnswerIsCurrent
  ConnectionIsReturned
PROPERTY
  EveryRequestIsAnswered
  StaleEntryEnds
