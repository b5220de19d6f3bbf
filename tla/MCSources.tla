----------------------------- MODULE MCSources ------------------------------
(***************************************************************************)
(* The three modules that feed the queue.  They share nothing but the      *)
(* process and a queue in which each has keys of its own, so TLC looks at  *)
(* them one at a time: `feed` says at which.                               *)
(***************************************************************************)
EXTENDS Backfill, TLC

CONSTANTS Goroutines, g1, b1, text, newText, bad, none, noRow, noHash

OneRequest == b1 :> [from |-> 1, to |-> 0]

VARIABLES
  feed,
  history, clone, issues, batches, sync, baselines, overlapped,
  pages, newest, edits, running, runner, keys

Weekly == INSTANCE WeeklySync WITH
  Syncs <- Goroutines, Issues <- {1, 2}, Contents <- {text, newText, bad, none}, Opening <- {text},
  NoRepos <- {none}, NoFile <- NoBackfill, NoRow <- noRow, NoHash <- noHash

Collect == INSTANCE Collectors WITH
  Runners <- Goroutines, Looks <- {text, newText, bad}, Broken <- Refused, Blank <- none,
  Opening <- {text}, MaxPages <- 2

ASSUME InstancesAssumption == Weekly!ConstantsAssumption /\ Collect!ConstantsAssumption

weekly == <<history, clone, issues, batches, sync, baselines, overlapped>>
collect == <<pages, newest, edits, running, runner, keys>>
fill == <<upstream, rows, queue, admin, manager, wake, misses, closing>>
sourcesVars == <<feed, weekly, collect, fill, up, troubles>>

SourcesInit ==
  /\ feed \in {"weekly", "collect", "fill"}
  /\ Init
  /\ Weekly!Init
  /\ Collect!Init
  /\ feed # "weekly" => issues = [n \in {1, 2} |-> noRow]
  /\ feed # "fill" => volumes = <<text>>

OnWeekly(A) == feed = "weekly" /\ A /\ UNCHANGED <<feed, collect, fill>>
OnCollect(A) == feed = "collect" /\ A /\ UNCHANGED <<feed, weekly, fill>>
OnFill(A) == feed = "fill" /\ A /\ UNCHANGED <<feed, weekly, collect>>

SourcesNext == OnWeekly(Weekly!Next) \/ OnCollect(Collect!Next) \/ OnFill(Next)

\* The fairness of the three modules.  One feed runs in a behaviour, so what is asked of
\* one can be asked together with what is asked of another.
Going(g) == OnWeekly(Weekly!Step(g)) \/ OnCollect(Collect!Step(g)) \/ OnFill(Process)
Job(g) == CHOOSE j \in {"featured", "reconcile"} : j = "featured" <=> g = g1
Repeated(g) == OnWeekly(Weekly!Fetch(g)) \/ OnCollect(\E r \in Goroutines : Collect!Trigger(r, Job(g)))
Timed == OnWeekly(\E g \in Goroutines : Weekly!Trigger(g)) \/ OnFill(Ticker)
Restarted == OnWeekly(Weekly!Start) \/ OnCollect(Collect!Start) \/ OnFill(Start \/ (closing /\ Stop))

SourcesFairness ==
  /\ \A g \in Goroutines : WF_sourcesVars(Going(g)) /\ SF_sourcesVars(Repeated(g))
  /\ WF_sourcesVars(Timed)
  /\ WF_sourcesVars(OnFill(BecomesDue(b1)))
  /\ WF_sourcesVars(Restarted)

SourcesSpec == SourcesInit /\ [][SourcesNext]_sourcesVars /\ SourcesFairness
-----------------------------------------------------------------------------
\* The types of the three modules.
SourcesTypeOK == Weekly!TypeOK /\ Collect!TypeOK /\ TypeOK

\* What weekly_issues remembers was queued (Scheduler.sync).
RecordedWasQueued == Weekly!RecordedWasQueued

\* What is queued of an issue is not older than what weekly_issues remembers.
QueueIsNotBehind == Weekly!QueueIsNotBehind

\* Every issue is recorded with its present text again and again.
EveryIssueIsRecorded == feed = "weekly" => Weekly!EveryIssueIsRecorded

\* The scheduler's locks keep rivals apart, and none is left behind (tryLock, unlock).
CollectorsTakeTurns == Collect!CollectorsTakeTurns

\* HelloGitHub's pages and its newest volume get into the queue as they are.
HelloGitHubIsFollowed == feed = "collect" => Collect!HelloGitHubIsFollowed
=============================================================================
