----------------------------- MODULE WeeklySync -----------------------------
(***************************************************************************)
(* The synchronisation of the weekly's issues: git pull, one SHA-256 per   *)
(* Markdown file, weekly_issues as the memory of what was queued.  Cron,   *)
(* an admin and the first start run it, each in a goroutine of its own and *)
(* without the scheduler's lock, over one working copy and one database.   *)
(*                                                                         *)
(* A content stands for its hash.  A batch is known to the queue by the    *)
(* issue and the hash, and carries what the parser read.                   *)
(***************************************************************************)
EXTENDS Naturals, Sequences, FiniteSets, FiniteSetsExt

CONSTANTS
  Issues,      \* issue numbers
  Contents,    \* contents a Markdown file can have
  NoRepos,     \* contents without a GitHub link
  Refused,     \* contents Enqueue refuses: one name it does not accept, or too many
  Opening,     \* contents the issues have at first
  Syncs,       \* goroutines inside Scheduler.sync
  NoFile,      \* the issue is not in the working copy
  NoRow,       \* GetIssue finds nothing
  NoHash,      \* content_hash = ''
  MaxEdits,    \* bound: changes upstream
  MaxTroubles  \* bound: ends of the process, and steps that fail

\* What is assumed of the constants; the module that gives them their values assumes it.
ConstantsAssumption ==
  /\ Issues \subseteq Nat
  /\ NoRepos \subseteq Contents
  /\ Refused \subseteq Contents
  /\ Opening \subseteq Contents
  /\ {NoFile, NoRow, NoHash} \cap Contents = {}
  /\ Cardinality({NoFile, NoRow, NoHash}) = 3
  /\ MaxTroubles \in Nat

VARIABLES
  history,     \* the contents each issue has had upstream; the last is current
  clone,       \* the working copy
  issues,      \* weekly_issues.content_hash
  batches,     \* the batches accepted for each issue, oldest first
  sync,        \* the goroutines
  up,          \* the process runs
  baselines,   \* history: what was recorded without being queued
  overlapped,  \* history: two goroutines have been at it together
  troubles

tables == <<issues, batches>>
vars == <<history, clone, tables, sync, up, baselines, overlapped, troubles>>

Current(n) == history[n][Len(history[n])]

Idle == [pc |-> "idle", todo |-> {}, hash |-> NoFile, body |-> NoFile]

\* An empty database, or one from before there were hashes.
Init ==
  /\ history \in [Issues -> {<<c>> : c \in Opening}]
  /\ clone = [n \in Issues |-> NoFile]
  /\ issues \in [Issues -> {NoRow, NoHash}]
  /\ batches = [n \in Issues |-> <<>>]
  /\ sync = [s \in Syncs |-> Idle]
  /\ up = FALSE
  /\ baselines = [n \in Issues |-> {}]
  /\ overlapped = FALSE
  /\ troubles = 0
-----------------------------------------------------------------------------
(***************************************************************************)
(* Scheduler.sync.                                                         *)
(***************************************************************************)

Running(s) == sync[s].pc # "idle"

\* The cron entry or HandleAdminSync: a goroutine, whoever else is at it.
Trigger(s) ==
  /\ up
  /\ ~Running(s)
  /\ sync' = [sync EXCEPT ![s].pc = "fetch"]
  /\ overlapped' = (overlapped \/ \E t \in Syncs : Running(t))
  /\ UNCHANGED <<history, clone, tables, up, baselines, troubles>>

\* listIssueFiles; without files there is nothing to do.
List(s, files) ==
  LET found == {n \in Issues : files[n] # NoFile}
  IN sync' = [sync EXCEPT ![s] = IF found = {} THEN Idle ELSE [Idle EXCEPT !.pc = "hash", !.todo = found]]

\* git clone or git pull.
Fetch(s) ==
  /\ sync[s].pc = "fetch"
  /\ clone' = [n \in Issues |-> Current(n)]
  /\ List(s, clone')
  /\ UNCHANGED <<history, tables, up, baselines, overlapped, troubles>>

\* A pull that fails is passed over and the files of the last one are used; a clone
\* that fails leaves none.
FetchFails(s) ==
  /\ sync[s].pc = "fetch"
  /\ List(s, clone)
  /\ UNCHANGED <<history, clone, tables, up, baselines, overlapped, troubles>>

\* The issue in hand: they are gone through in order.
At(s) == Min(sync[s].todo)

\* The turn of the next issue.
GoOn(s) ==
  LET rest == sync[s].todo \ {At(s)}
  IN sync' = [sync EXCEPT ![s] = IF rest = {} THEN Idle ELSE [Idle EXCEPT !.pc = "hash", !.todo = rest]]

\* weeklyIssueContentHash.
ReadHash(s) ==
  /\ sync[s].pc = "hash"
  /\ sync' = [sync EXCEPT ![s].pc = "look", ![s].hash = clone[At(s)]]
  /\ UNCHANGED <<history, clone, tables, up, baselines, overlapped, troubles>>

\* A fault to be noticed: an issue that is there is never looked at again.
SkipAnyRow(row, hash) == IF row # NoRow THEN "skip" ELSE "parse"

\* GetIssue and weeklyIssueSyncAction.
Action(row, hash) ==
  IF row = NoRow THEN "parse" ELSE IF row = NoHash THEN "baseline" ELSE IF row = hash THEN "skip" ELSE "parse"

Decide(s) ==
  /\ sync[s].pc = "look"
  /\ LET action == Action(issues[At(s)], sync[s].hash)
     IN IF action = "skip" THEN GoOn(s) ELSE sync' = [sync EXCEPT ![s].pc = action]
  /\ UNCHANGED <<history, clone, tables, up, baselines, overlapped, troubles>>

\* An issue without a hash gets the present one and is not queued.
RecordBaseline(s) ==
  /\ sync[s].pc = "baseline"
  /\ issues' = [issues EXCEPT ![At(s)] = sync[s].hash]
  /\ baselines' = [baselines EXCEPT ![At(s)] = @ \cup {sync[s].hash}]
  /\ GoOn(s)
  /\ UNCHANGED <<history, clone, batches, up, overlapped, troubles>>

\* A fault to be noticed: candidates the queue does not accept are dropped.
NothingAcceptable(body) == body \in NoRepos \cup Refused
NothingToQueue(body) == body \in NoRepos

\* ParseFile reads the file again.
Parse(s) ==
  /\ sync[s].pc = "parse"
  /\ LET body == clone[At(s)]
     IN sync' = [sync EXCEPT ![s].pc = IF NothingToQueue(body) THEN "record" ELSE "enqueue", ![s].body = body]
  /\ UNCHANGED <<history, clone, tables, up, baselines, overlapped, troubles>>

\* A fault to be noticed: the key leaves the hash out.
KnownIssue(n, hash) == batches[n] # <<>>

\* weeklyBatchIdempotencyKey: a batch already under the key answers for this one.
Known(n, hash) == \E i \in DOMAIN batches[n] : batches[n][i].key = hash

Enqueue(s) ==
  /\ sync[s].pc = "enqueue"
  /\ LET n == At(s)
         hash == sync[s].hash
         body == sync[s].body
     IN IF body \in Refused
        THEN /\ GoOn(s)
             /\ UNCHANGED batches
        ELSE /\ batches' = IF Known(n, hash) THEN batches
                           ELSE [batches EXCEPT ![n] = Append(@, [key |-> hash, body |-> body])]
             /\ sync' = [sync EXCEPT ![s].pc = "record"]
  /\ UNCHANGED <<history, clone, issues, up, baselines, overlapped, troubles>>

\* UpsertIssue.
Record(s) ==
  /\ sync[s].pc = "record"
  /\ issues' = [issues EXCEPT ![At(s)] = sync[s].hash]
  /\ GoOn(s)
  /\ UNCHANGED <<history, clone, batches, up, baselines, overlapped, troubles>>

\* Whatever fails for one issue, the next has its turn.
IssueFails(s) ==
  /\ sync[s].pc \notin {"idle", "fetch"}
  /\ troubles < MaxTroubles
  /\ troubles' = troubles + 1
  /\ GoOn(s)
  /\ UNCHANGED <<history, clone, tables, up, baselines, overlapped>>
-----------------------------------------------------------------------------
(***************************************************************************)
(* The process and the weekly's authors.                                   *)
(***************************************************************************)

\* HasStartupData.
HasData == \E n \in Issues : issues[n] # NoRow \/ batches[n] # <<>>

\* Scheduler.Start: only an empty database gets a first synchronisation.  What other
\* sources have stored counts too, and a database that cannot be asked passes for full.
Start ==
  /\ ~up
  /\ up' = TRUE
  /\ \/ UNCHANGED sync
     \/ /\ ~HasData
        /\ \E s \in Syncs : sync' = [sync EXCEPT ![s].pc = "fetch"]
  /\ UNCHANGED <<history, clone, tables, baselines, overlapped, troubles>>

\* A crash; or Close, after which no statement succeeds and nobody waits for a sync.
Stop ==
  /\ up
  /\ troubles < MaxTroubles
  /\ troubles' = troubles + 1
  /\ up' = FALSE
  /\ sync' = [s \in Syncs |-> Idle]
  /\ UNCHANGED <<history, clone, tables, baselines, overlapped>>

Edits == Cardinality({e \in Issues \X (2..(MaxEdits + 1)) : e[2] <= Len(history[e[1]])})

Edit(n) ==
  /\ Edits < MaxEdits
  /\ \E c \in Contents \ {Current(n)} : history' = [history EXCEPT ![n] = Append(@, c)]
  /\ UNCHANGED <<clone, tables, sync, up, baselines, overlapped, troubles>>
-----------------------------------------------------------------------------
Step(s) ==
  \/ ReadHash(s)
  \/ Decide(s)
  \/ RecordBaseline(s)
  \/ Parse(s)
  \/ Enqueue(s)
  \/ Record(s)

Next ==
  \/ \E s \in Syncs : Trigger(s) \/ Fetch(s) \/ FetchFails(s) \/ Step(s) \/ IssueFails(s)
  \/ \E n \in Issues : Edit(n)
  \/ Start
  \/ Stop

Spec == Init /\ [][Next]_vars

\* A goroutine runs on; the process is started again; cron comes round every week;
\* a pull that is tried again and again succeeds now and then.
Fairness ==
  /\ \A s \in Syncs : WF_vars(Step(s)) /\ SF_vars(Fetch(s))
  /\ WF_vars(\E s \in Syncs : Trigger(s))
  /\ WF_vars(Start)

FairSpec == Spec /\ Fairness
-----------------------------------------------------------------------------
SyncState ==
  [pc : {"idle", "fetch", "hash", "look", "baseline", "parse", "enqueue", "record"},
   todo : SUBSET Issues, hash : Contents \cup {NoFile}, body : Contents \cup {NoFile}]

TypeOK ==
  /\ history \in [Issues -> Seq(Contents)]
  /\ clone \in [Issues -> Contents \cup {NoFile}]
  /\ issues \in [Issues -> Contents \cup {NoRow, NoHash}]
  /\ batches \in [Issues -> Seq([key : Contents, body : Contents])]
  /\ sync \in [Syncs -> SyncState]
  /\ up \in BOOLEAN
  /\ baselines \in [Issues -> SUBSET Contents]
  /\ overlapped \in BOOLEAN
  /\ troubles \in 0..MaxTroubles

\* An issue that counts as done was queued under the hash it is recorded with: no
\* crash, failure or second sync makes the memory run ahead of the queue.  A text
\* without repositories is recorded without being queued, and so is the text hashed
\* before it when a second sync's pull comes between the hash and the parser.
Empty(n) == \E i \in DOMAIN history[n] : history[n][i] \in NoRepos
Queued(n) == issues[n] \in Contents \ baselines[n]

RecordedWasQueued ==
  \A n \in Issues : Queued(n) /\ ~Empty(n) =>
    \E i \in DOMAIN batches[n] : batches[n][i].key = issues[n]

Returned(n) == \E i, j \in DOMAIN history[n] : i # j /\ history[n][i] = history[n][j]
Age(n, c) == Min({i \in DOMAIN history[n] : history[n][i] = c})

\* As long as syncs do not overlap and the text does not return to an earlier one,
\* the newest batch of an issue is at least as new as what is recorded.
QueueIsNotBehind ==
  ~overlapped => \A n \in Issues :
    Queued(n) /\ ~Empty(n) /\ ~Returned(n) =>
      Age(n, batches[n][Len(batches[n])].body) >= Age(n, issues[n])

\* Every issue whose text can be queued is recorded with its present text again and
\* again, also when the first sync was cut short and the restart, finding data, does
\* not repeat it.
EveryIssueIsRecorded ==
  \A n \in Issues : []<>(issues[n] = Current(n) \/ Current(n) \in Refused)
=============================================================================
