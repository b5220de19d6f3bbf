-------------------------- MODULE MCSources_proofs --------------------------
(***************************************************************************)
(* The feeds of the queue side by side: what the proofs of each show of it *)
(* alone holds of the process in which they live, for any goroutines,      *)
(* texts, looks and bounds.                                                *)
(***************************************************************************)
EXTENDS MCSources, Backfill_proofs

W == INSTANCE WeeklySync_proofs WITH
  Syncs <- Goroutines, Issues <- {1, 2}, Contents <- {text, newText, bad, none}, Opening <- {text},
  NoRepos <- {none}, NoFile <- NoBackfill, NoRow <- noRow, NoHash <- noHash

C == INSTANCE Collectors_proofs WITH
  Runners <- Goroutines, Looks <- {text, newText, bad}, Broken <- Refused, Blank <- none,
  Opening <- {text}, MaxPages <- 2

\* A feed that has not the turn rests; the process is for all of them.
Resting == feed # "weekly" => \A g \in Goroutines : sync[g].pc = "idle"

SInv == W!OInv /\ C!Kept /\ IInv /\ Resting

(***************************************************************************)
(* The modules and the proofs about them speak of the same actions.        *)
(***************************************************************************)
LEMMA SameConstants == W!ConstantsAssumption /\ C!ConstantsAssumption
  BY InstancesAssumption DEF W!ConstantsAssumption, Weekly!ConstantsAssumption,
     C!ConstantsAssumption, Collect!ConstantsAssumption, W!Cardinality, Weekly!Cardinality

LEMMA SameWeeklyInit == Weekly!Init <=> W!Init
  BY DEF Weekly!Init, W!Init, Weekly!Idle, W!Idle

LEMMA SameWeeklySteps ==
  ASSUME NEW s \in Goroutines
  PROVE  /\ Weekly!Trigger(s) <=> W!Trigger(s)
         /\ Weekly!Fetch(s) <=> W!Fetch(s)
         /\ Weekly!FetchFails(s) <=> W!FetchFails(s)
         /\ Weekly!ReadHash(s) <=> W!ReadHash(s)
         /\ Weekly!Decide(s) <=> W!Decide(s)
         /\ Weekly!RecordBaseline(s) <=> W!RecordBaseline(s)
         /\ Weekly!Parse(s) <=> W!Parse(s)
         /\ Weekly!Enqueue(s) <=> W!Enqueue(s)
         /\ Weekly!Record(s) <=> W!Record(s)
         /\ Weekly!IssueFails(s) <=> W!IssueFails(s)
<1>1. Weekly!Trigger(s) <=> W!Trigger(s)
  BY Zenon DEF Weekly!Trigger, W!Trigger, Weekly!Running, W!Running, Weekly!tables, W!tables
<1>2. Weekly!Fetch(s) <=> W!Fetch(s)
  BY Zenon DEF Weekly!Fetch, W!Fetch, Weekly!Current, W!Current, Weekly!List, W!List, Weekly!Idle, W!Idle,
               Weekly!tables, W!tables
<1>3. Weekly!FetchFails(s) <=> W!FetchFails(s)
  BY Zenon DEF Weekly!FetchFails, W!FetchFails, Weekly!List, W!List, Weekly!Idle, W!Idle, Weekly!tables, W!tables
<1>4. Weekly!At(s) = W!At(s)
  BY Zenon DEF Weekly!At, W!At, Weekly!Min, W!Min
<1>5. Weekly!GoOn(s) <=> W!GoOn(s)
  BY Zenon, <1>4 DEF Weekly!GoOn, W!GoOn, Weekly!Idle, W!Idle
<1>6. Weekly!ReadHash(s) <=> W!ReadHash(s)
  BY Zenon, <1>4 DEF Weekly!ReadHash, W!ReadHash, Weekly!tables, W!tables
<1>7. Weekly!Decide(s) <=> W!Decide(s)
  BY Zenon, <1>4, <1>5 DEF Weekly!Decide, W!Decide, Weekly!Action, W!Action, Weekly!tables, W!tables
<1>8. Weekly!RecordBaseline(s) <=> W!RecordBaseline(s)
  BY Zenon, <1>4, <1>5 DEF Weekly!RecordBaseline, W!RecordBaseline
<1>9. Weekly!Parse(s) <=> W!Parse(s)
  BY Zenon, <1>4 DEF Weekly!Parse, W!Parse, Weekly!NothingToQueue, W!NothingToQueue, Weekly!tables, W!tables
<1>10. Weekly!Enqueue(s) <=> W!Enqueue(s)
  BY Zenon, <1>4, <1>5 DEF Weekly!Enqueue, W!Enqueue, Weekly!Known, W!Known
<1>11. Weekly!Record(s) <=> W!Record(s)
  BY Zenon, <1>4, <1>5 DEF Weekly!Record, W!Record
<1>12. Weekly!IssueFails(s) <=> W!IssueFails(s)
  BY Zenon, <1>5 DEF Weekly!IssueFails, W!IssueFails, Weekly!tables, W!tables
<1> QED BY <1>1, <1>2, <1>3, <1>6, <1>7, <1>8, <1>9, <1>10, <1>11, <1>12

LEMMA SameWeekly == Weekly!Next <=> W!Next
<1>1. \A n : Weekly!Edit(n) <=> W!Edit(n)
  BY Zenon DEF Weekly!Edit, W!Edit, Weekly!Edits, W!Edits, Weekly!Current, W!Current, Weekly!tables, W!tables,
               Weekly!Cardinality, W!Cardinality
<1>2. Weekly!Start <=> W!Start
  BY Zenon DEF Weekly!Start, W!Start, Weekly!HasData, W!HasData, Weekly!tables, W!tables
<1>3. Weekly!Stop <=> W!Stop
  BY Zenon DEF Weekly!Stop, W!Stop, Weekly!Idle, W!Idle, Weekly!tables, W!tables
<1>4. \A s \in Goroutines : Weekly!Step(s) <=> W!Step(s)
  BY Zenon, SameWeeklySteps DEF Weekly!Step, W!Step
<1> QED BY Zenon, <1>1, <1>2, <1>3, <1>4, SameWeeklySteps DEF Weekly!Next, W!Next

LEMMA SameCollectInit == Collect!Init <=> C!Init
  BY DEF Collect!Init, C!Init, Collect!Resting, C!Resting

LEMMA SameCollectors == Collect!Next <=> C!Next
<1> USE DEF Collect!upstream, C!upstream, Collect!GoTo, C!GoTo, Collect!Carry, C!Carry, Collect!At, C!At,
            Collect!LockOf, C!LockOf, Collect!Resting, C!Resting, Collect!KeyOf, C!KeyOf,
            Collect!MorePages, C!MorePages
<1>1. \A r, j : Collect!Trigger(r, j) <=> C!Trigger(r, j)
  BY Zenon DEF Collect!Trigger, C!Trigger
<1>2. \A r : (Collect!Unlock(r) <=> C!Unlock(r)) /\ (Collect!FetchRows(r) <=> C!FetchRows(r))
  BY Zenon DEF Collect!Unlock, C!Unlock, Collect!FetchRows, C!FetchRows
<1>3. \A r : (Collect!FetchStories(r) <=> C!FetchStories(r)) /\ (Collect!FetchPage(r) <=> C!FetchPage(r))
  BY Zenon DEF Collect!FetchStories, C!FetchStories, Collect!FetchPage, C!FetchPage
<1>4. \A r : (Collect!Probe(r) <=> C!Probe(r)) /\ (Collect!FetchVolume(r) <=> C!FetchVolume(r))
  BY Zenon DEF Collect!Probe, C!Probe, Collect!FetchVolume, C!FetchVolume
<1>5. \A r : (Collect!FetchFails(r) <=> C!FetchFails(r)) /\ (Collect!EnqueueFails(r) <=> C!EnqueueFails(r))
  BY Zenon DEF Collect!FetchFails, C!FetchFails, Collect!EnqueueFails, C!EnqueueFails
<1>6. \A r : Collect!EnqueueLook(r) <=> C!EnqueueLook(r)
  BY Zenon DEF Collect!EnqueueLook, C!EnqueueLook
<1>7. \A r : (Collect!EnqueueRows(r) <=> C!EnqueueRows(r)) /\ (Collect!EnqueueStories(r) <=> C!EnqueueStories(r))
  BY Zenon DEF Collect!EnqueueRows, C!EnqueueRows, Collect!EnqueueStories, C!EnqueueStories
<1>8. (Collect!Start <=> C!Start) /\ (Collect!Stop <=> C!Stop)
  BY Zenon DEF Collect!Start, C!Start, Collect!Stop, C!Stop
<1>9. /\ \A p : Collect!EditPage(p) <=> C!EditPage(p)
      /\ Collect!Release <=> C!Release
      /\ Collect!EditVolume <=> C!EditVolume
  BY Zenon DEF Collect!EditPage, C!EditPage, Collect!Release, C!Release, Collect!EditVolume, C!EditVolume
<1>10. \A r : Collect!Step(r) <=> C!Step(r)
  BY Zenon, <1>2, <1>3, <1>4, <1>6, <1>7 DEF Collect!Step, C!Step
<1> QED BY Zenon, <1>1, <1>5, <1>8, <1>9, <1>10 DEF Collect!Next, C!Next, Collect!Jobs, C!Jobs

(***************************************************************************)
(* Whoever moves, the others are as they were.                             *)
(***************************************************************************)
LEMMA SourcesBegin == ASSUME SourcesInit PROVE SInv
<1>1. W!OInv
  <2>1. W!Init
    BY SameWeeklyInit DEF SourcesInit
  <2> QED BY <2>1, SameConstants, W!InitOrder
<1>2. C!Kept
  <2>1. C!Init
    BY SameCollectInit DEF SourcesInit
  <2> QED BY <2>1, SameConstants, C!InitKept
<1>3. IInv
  BY InitInv DEF SourcesInit
<1>4. Resting
  BY DEF SourcesInit, Weekly!Init, Weekly!Idle, Resting
<1> QED BY <1>1, <1>2, <1>3, <1>4 DEF SInv

LEMMA WeeklyMoves == ASSUME SInv, OnWeekly(Weekly!Next) PROVE SInv'
<1>1. feed = "weekly" /\ feed' = feed /\ W!Next
  BY SameWeekly DEF OnWeekly
<1>2. UNCHANGED <<pages, newest, edits, running, runner, keys>>
  BY DEF OnWeekly, collect
<1>3. UNCHANGED <<upstream, rows, queue, admin, manager, wake, misses, closing>>
  BY DEF OnWeekly, fill, upstream
<1>4. W!OInv'
  BY <1>1, SameConstants, W!OrderStep DEF SInv
<1>5. up' \in BOOLEAN /\ troubles' \in 0..MaxTroubles
  BY <1>4 DEF W!OInv, W!TypeOK
<1>6. C!Kept'
  BY <1>2, <1>5, C!Untouched DEF SInv
<1>7. IInv'
  BY <1>3, <1>5, Untouched DEF SInv
<1> QED BY <1>1, <1>4, <1>6, <1>7 DEF SInv, Resting

LEMMA CollectorsMove == ASSUME SInv, OnCollect(Collect!Next) PROVE SInv'
<1>1. feed = "collect" /\ feed' = feed /\ C!Next
  BY SameCollectors DEF OnCollect
<1>2. UNCHANGED <<history, clone, issues, batches, sync, baselines, overlapped>>
  BY DEF OnCollect, weekly
<1>3. UNCHANGED <<upstream, rows, queue, admin, manager, wake, misses, closing>>
  BY DEF OnCollect, fill, upstream
<1>4. C!Kept'
  BY <1>1, SameConstants, C!TypeStep DEF SInv
<1>5. up' \in BOOLEAN /\ troubles' \in 0..MaxTroubles
  BY <1>4 DEF C!Kept, C!TypeOK
<1>6. \A g \in Goroutines : sync[g].pc = "idle"
  BY <1>1 DEF SInv, Resting
<1>7. W!OInv'
  BY <1>2, <1>5, <1>6, W!Untouched DEF SInv
<1>8. IInv'
  BY <1>3, <1>5, Untouched DEF SInv
<1> QED BY <1>1, <1>2, <1>4, <1>6, <1>7, <1>8 DEF SInv, Resting

LEMMA BackfillMoves == ASSUME SInv, OnFill(Next) PROVE SInv'
<1>1. feed = "fill" /\ feed' = feed /\ Next
  BY DEF OnFill
<1>2. UNCHANGED <<history, clone, issues, batches, sync, baselines, overlapped>>
  BY DEF OnFill, weekly
<1>3. UNCHANGED <<pages, newest, edits, running, runner, keys>>
  BY DEF OnFill, collect
<1>4. IInv'
  BY <1>1, InvStep DEF SInv
<1>5. up' \in BOOLEAN /\ troubles' \in 0..MaxTroubles
  BY <1>4 DEF IInv, TypeOK
<1>6. \A g \in Goroutines : sync[g].pc = "idle"
  BY <1>1 DEF SInv, Resting
<1>7. W!OInv'
  BY <1>2, <1>5, <1>6, W!Untouched DEF SInv
<1>8. C!Kept'
  BY <1>3, <1>5, C!Untouched DEF SInv
<1> QED BY <1>1, <1>2, <1>4, <1>6, <1>7, <1>8 DEF SInv, Resting

LEMMA SourcesStep == SInv /\ [SourcesNext]_sourcesVars => SInv'
<1> SUFFICES ASSUME SInv, [SourcesNext]_sourcesVars PROVE SInv'
  OBVIOUS
<1>1. CASE UNCHANGED sourcesVars
  <2>1. /\ UNCHANGED <<history, clone, issues, batches, sync, baselines, overlapped>>
        /\ UNCHANGED <<pages, newest, edits, running, runner, keys>>
        /\ UNCHANGED <<upstream, rows, queue, admin, manager, wake, misses, closing>>
        /\ UNCHANGED <<feed, up, troubles>>
    BY <1>1 DEF sourcesVars, weekly, collect, fill, upstream
  <2>2. UNCHANGED W!vars
    BY <2>1 DEF W!vars, W!tables
  <2>3. W!OInv'
    BY <2>2, SameConstants, W!OrderStep DEF SInv
  <2>4. up' \in BOOLEAN /\ troubles' \in 0..MaxTroubles
    BY <2>3 DEF W!OInv, W!TypeOK
  <2>5. C!Kept' /\ IInv'
    BY <2>1, <2>4, C!Untouched, Untouched DEF SInv
  <2> QED BY <2>1, <2>3, <2>5 DEF SInv, Resting
<1> QED BY <1>1, WeeklyMoves, CollectorsMove, BackfillMoves DEF SourcesNext

LEMMA SourcesHold == SourcesSpec => []SInv
<1>1. SourcesInit => SInv
  BY SourcesBegin
<1> QED BY <1>1, SourcesStep, PTL DEF SourcesSpec

(***************************************************************************)
(* The results.                                                            *)
(***************************************************************************)
\* What the three feeds keep has its type, whichever of them runs and however often the
\* process they share ends.
THEOREM SourcesAreTyped == SourcesSpec => []SourcesTypeOK
<1>1. SInv => SourcesTypeOK
  <2>1. W!OInv => Weekly!TypeOK
    BY DEF W!OInv, W!TypeOK, Weekly!TypeOK, W!SyncState, Weekly!SyncState
  <2>2. C!Kept => Collect!TypeOK
    BY DEF C!Kept, C!TypeOK, Collect!TypeOK, C!Locks, Collect!Locks, C!Jobs, Collect!Jobs, C!KeyRows, Collect!KeyRows
  <2>3. IInv => TypeOK
    BY DEF IInv
  <2> QED BY <2>1, <2>2, <2>3 DEF SInv, SourcesTypeOK
<1> QED BY <1>1, SourcesHold, PTL

\* Scheduler.sync next to the others: what weekly_issues remembers was queued, whatever
\* syncs overlap, fail or are cut short.
THEOREM RememberedWasQueued == SourcesSpec => []RecordedWasQueued
<1>1. SInv => RecordedWasQueued
  BY DEF SInv, W!OInv, W!IInv, RecordedWasQueued, Weekly!RecordedWasQueued, W!RecordedWasQueued,
         Weekly!Queued, W!Queued, Weekly!Empty, W!Empty
<1> QED BY <1>1, SourcesHold, PTL

\* And as long as syncs do not overlap, what is queued of an issue is not older than what
\* weekly_issues remembers.
THEOREM QueueKeepsUp == SourcesSpec => []QueueIsNotBehind
<1>1. SInv => QueueIsNotBehind
  <2>1. SInv => W!QueueIsNotBehind
    BY W!OrderMeansNotBehind DEF SInv
  <2>2. W!QueueIsNotBehind <=> Weekly!QueueIsNotBehind
    BY Zenon DEF W!QueueIsNotBehind, Weekly!QueueIsNotBehind, W!Queued, Weekly!Queued, W!Empty, Weekly!Empty,
           W!Returned, Weekly!Returned, W!Age, Weekly!Age, W!Min, Weekly!Min
  <2> QED BY <2>1, <2>2 DEF QueueIsNotBehind
<1> QED BY <1>1, SourcesHold, PTL

\* The scheduler's locks keep rivals apart, and none is left behind (tryLock, unlock).
THEOREM TurnsAreTaken == SourcesSpec => []CollectorsTakeTurns
<1>1. SInv => CollectorsTakeTurns
  <2>1. SInv => C!CollectorsTakeTurns
    BY C!LocksMeanTurns DEF SInv, C!Kept
  <2>2. C!CollectorsTakeTurns <=> Collect!CollectorsTakeTurns
    BY Zenon DEF C!CollectorsTakeTurns, Collect!CollectorsTakeTurns, C!Inside, Collect!Inside, C!Rivals, Collect!Rivals,
           C!HelloGitHubJobs, Collect!HelloGitHubJobs, C!LockOf, Collect!LockOf
  <2> QED BY <2>1, <2>2 DEF CollectorsTakeTurns
<1> QED BY <1>1, SourcesHold, PTL
=============================================================================
