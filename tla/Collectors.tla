----------------------------- MODULE Collectors -----------------------------
(***************************************************************************)
(* The collectors that run under the scheduler's locks: zread, Show HN,    *)
(* HelloGitHub's featured list and the reconciliation of its newest        *)
(* volume.  The last two share a lock.  A collector reads upstream and     *)
(* hands what it read to Service.Enqueue, page by page.                    *)
(*                                                                         *)
(* A look is what the fingerprint of a page tells apart: its repositories  *)
(* in their order.  zread and Show HN make their keys from the clock, so   *)
(* each of their runs is a new batch and nothing of it is kept here.       *)
(***************************************************************************)
EXTENDS Naturals, FiniteSets

CONSTANTS
  Looks,       \* looks a featured page or a volume can have
  Broken,      \* looks with an item the client cannot read or Enqueue does not accept
  Opening,     \* looks there are at first
  Blank,       \* the look of a page past the last one
  Runners,     \* goroutines of cron, of the admins and of the first start
  MaxPages,    \* HelloGitHubCollector.maxPages
  MaxVolume,   \* bound: the newest volume there will be
  MaxEdits,    \* bound: changes upstream
  MaxTroubles  \* bound: ends of the process, and steps that fail

\* What is assumed of the constants; the module that gives them their values assumes it.
ConstantsAssumption ==
  /\ Broken \subseteq Looks
  /\ Opening \subseteq Looks
  /\ Blank \notin Looks
  /\ MaxPages \in Nat \ {0}
  /\ MaxVolume \in Nat \ {0}
  /\ MaxEdits \in Nat
  /\ MaxTroubles \in Nat

VARIABLES
  pages,     \* the featured list upstream
  newest,    \* the newest volume upstream: its number and its look
  edits,
  running,   \* Scheduler.running: the locks that are taken
  runner,    \* the goroutines
  keys,      \* idempotency keys of HelloGitHub's batches
  up,        \* the process runs
  troubles

upstream == <<pages, newest, edits>>
vars == <<upstream, running, runner, keys, up, troubles>>

Jobs == {"zread", "discovery", "featured", "reconcile"}
Locks == Jobs \cup {"hellogithub"}

\* A fault to be noticed: the reconciliation takes a lock of its own.
LockOfItsOwn(j) == IF j = "featured" THEN "hellogithub" ELSE j

\* The name each job gives to tryLock.
LockOf(j) == IF j \in {"featured", "reconcile"} THEN "hellogithub" ELSE j

Resting == [pc |-> "idle", job |-> "zread", page |-> 0, look |-> Blank]

Init ==
  /\ pages \in [1..MaxPages -> Opening]
  /\ newest \in [number : {1}, look : Opening]
  /\ edits = 0
  /\ running = {}
  /\ runner = [r \in Runners |-> Resting]
  /\ keys = {}
  /\ up = FALSE
  /\ troubles = 0
-----------------------------------------------------------------------------
(***************************************************************************)
(* The locks.                                                              *)
(***************************************************************************)

\* Cron, an admin or the first start; tryLock sends away who comes second.
Trigger(r, j) ==
  /\ up
  /\ runner[r].pc = "idle"
  /\ LockOf(j) \notin running
  /\ running' = running \cup {LockOf(j)}
  /\ runner' = [runner EXCEPT ![r] = [pc |-> "fetch", job |-> j, page |-> 1, look |-> Blank]]
  /\ UNCHANGED <<upstream, keys, up, troubles>>

\* The deferred unlock, on every way out.
Unlock(r) ==
  /\ runner[r].pc = "unlock"
  /\ running' = running \ {LockOf(runner[r].job)}
  /\ runner' = [runner EXCEPT ![r] = Resting]
  /\ UNCHANGED <<upstream, keys, up, troubles>>

GoTo(r, pc) == runner' = [runner EXCEPT ![r].pc = pc]
Carry(r, look) == runner' = [runner EXCEPT ![r].pc = "enqueue", ![r].look = look]
-----------------------------------------------------------------------------
(***************************************************************************)
(* What the collectors read.                                               *)
(***************************************************************************)

At(r, jobs, pc) == runner[r].job \in jobs /\ runner[r].pc = pc

\* ZreadSpider.FetchRows: no rows, no batch; without an answer, or a week's date that can
\* be read, there are none.
FetchRows(r) ==
  /\ At(r, {"zread"}, "fetch")
  /\ GoTo(r, "enqueue") \/ GoTo(r, "unlock")
  /\ UNCHANGED <<upstream, running, keys, up, troubles>>

\* HNClient.Fetch: one story that does not come loses them all; stories without a link
\* to a repository are passed over, and if all are there is no batch.
FetchStories(r) ==
  /\ At(r, {"discovery"}, "fetch")
  /\ GoTo(r, "enqueue") \/ GoTo(r, "unlock")
  /\ UNCHANGED <<upstream, running, keys, up, troubles>>

\* FetchFeaturedPage: a blank page ends the run.
FetchPage(r) ==
  /\ At(r, {"featured"}, "fetch")
  /\ LET look == pages[runner[r].page]
     IN IF look = Blank THEN GoTo(r, "unlock") ELSE Carry(r, look)
  /\ UNCHANGED <<upstream, running, keys, up, troubles>>

\* ReconcileLatest asks the first volume which one is the newest; if it is not to be
\* read, FetchFails.
Probe(r) ==
  /\ At(r, {"reconcile"}, "fetch")
  /\ IF newest.number = 1
     THEN Carry(r, newest.look)
     ELSE runner' = [runner EXCEPT ![r].pc = "volume", ![r].page = newest.number]
  /\ UNCHANGED <<upstream, running, keys, up, troubles>>

\* The volume it was told; a newer one may have come out since.
FetchVolume(r) ==
  /\ At(r, {"reconcile"}, "volume")
  /\ \E look \in Looks :
       /\ runner[r].page = newest.number => look = newest.look
       /\ Carry(r, look)
  /\ UNCHANGED <<upstream, running, keys, up, troubles>>

\* A request fails, and with it the run.
FetchFails(r) ==
  /\ runner[r].pc \in {"fetch", "volume"}
  /\ troubles < MaxTroubles
  /\ troubles' = troubles + 1
  /\ GoTo(r, "unlock")
  /\ UNCHANGED <<upstream, running, keys, up>>
-----------------------------------------------------------------------------
(***************************************************************************)
(* What they hand over.                                                    *)
(***************************************************************************)

KeyOf(r) ==
  IF runner[r].job = "featured"
  THEN [kind |-> "featured", number |-> 0, look |-> runner[r].look]
  ELSE [kind |-> "reconcile", number |-> runner[r].page, look |-> runner[r].look]

\* A fault to be noticed: a page that is known ends the run.
StopAtKnown(r) == runner[r].page < MaxPages /\ KeyOf(r) \notin keys

MorePages(r) == runner[r].page < MaxPages

\* Each page is a batch of its own, so a later one that fails takes nothing back.  One
\* item that cannot be read or is not accepted loses the page and ends the run.
EnqueueLook(r) ==
  /\ At(r, {"featured", "reconcile"}, "enqueue")
  /\ IF runner[r].look \in Broken
     THEN /\ GoTo(r, "unlock")
          /\ UNCHANGED keys
     ELSE /\ keys' = keys \cup {KeyOf(r)}
          /\ IF runner[r].job = "featured" /\ MorePages(r)
             THEN runner' = [runner EXCEPT ![r].pc = "fetch", ![r].page = @ + 1]
             ELSE GoTo(r, "unlock")
  /\ UNCHANGED <<upstream, running, up, troubles>>

\* The batch of zread or Show HN, whatever becomes of it.
EnqueueRows(r) ==
  /\ At(r, {"zread"}, "enqueue")
  /\ GoTo(r, "unlock")
  /\ UNCHANGED <<upstream, running, keys, up, troubles>>

EnqueueStories(r) ==
  /\ At(r, {"discovery"}, "enqueue")
  /\ GoTo(r, "unlock")
  /\ UNCHANGED <<upstream, running, keys, up, troubles>>

EnqueueFails(r) ==
  /\ runner[r].pc = "enqueue"
  /\ troubles < MaxTroubles
  /\ troubles' = troubles + 1
  /\ GoTo(r, "unlock")
  /\ UNCHANGED <<upstream, running, keys, up>>
-----------------------------------------------------------------------------
(***************************************************************************)
(* The process and HelloGitHub.                                            *)
(***************************************************************************)

\* Scheduler.Start; the goroutines of a first start are triggers like the others.
Start ==
  /\ ~up
  /\ up' = TRUE
  /\ UNCHANGED <<upstream, running, runner, keys, troubles>>

\* A crash or Close: goroutines and locks are memory.
Stop ==
  /\ up
  /\ troubles < MaxTroubles
  /\ troubles' = troubles + 1
  /\ up' = FALSE
  /\ running' = {}
  /\ runner' = [r \in Runners |-> Resting]
  /\ UNCHANGED <<upstream, keys>>

EditPage(p) ==
  /\ edits < MaxEdits
  /\ edits' = edits + 1
  /\ \E look \in (Looks \cup {Blank}) \ {pages[p]} : pages' = [pages EXCEPT ![p] = look]
  /\ UNCHANGED <<newest, running, runner, keys, up, troubles>>

Release ==
  /\ edits < MaxEdits
  /\ newest.number < MaxVolume
  /\ edits' = edits + 1
  /\ newest' \in [number : {newest.number + 1}, look : Looks]
  /\ UNCHANGED <<pages, running, runner, keys, up, troubles>>

EditVolume ==
  /\ edits < MaxEdits
  /\ edits' = edits + 1
  /\ \E look \in Looks \ {newest.look} : newest' = [newest EXCEPT !.look = look]
  /\ UNCHANGED <<pages, running, runner, keys, up, troubles>>
-----------------------------------------------------------------------------
Step(r) ==
  \/ FetchRows(r)
  \/ FetchStories(r)
  \/ FetchPage(r)
  \/ Probe(r)
  \/ FetchVolume(r)
  \/ EnqueueLook(r)
  \/ EnqueueRows(r)
  \/ EnqueueStories(r)
  \/ Unlock(r)

Next ==
  \/ \E r \in Runners, j \in Jobs : Trigger(r, j)
  \/ \E r \in Runners : Step(r) \/ FetchFails(r) \/ EnqueueFails(r)
  \/ \E p \in 1..MaxPages : EditPage(p)
  \/ Release
  \/ EditVolume
  \/ Start
  \/ Stop

Spec == Init /\ [][Next]_vars

\* A goroutine runs on and its requests return (the clients have timeouts); the process
\* is started again; cron comes round for each job, and not always while the other job
\* of its lock is at it.
Fairness ==
  /\ \A r \in Runners : WF_vars(Step(r))
  /\ \A j \in {"featured", "reconcile"} : SF_vars(\E r \in Runners : Trigger(r, j))
  /\ WF_vars(Start)

FairSpec == Spec /\ Fairness
-----------------------------------------------------------------------------
KeyRows == [kind : {"featured", "reconcile"}, number : 0..MaxVolume, look : Looks]

TypeOK ==
  /\ pages \in [1..MaxPages -> Looks \cup {Blank}]
  /\ newest \in [number : 1..MaxVolume, look : Looks]
  /\ edits \in 0..MaxEdits
  /\ running \subseteq Locks
  /\ runner \in [Runners -> [pc : {"idle", "fetch", "volume", "enqueue", "unlock"}, job : Jobs,
                             page : Nat, look : Looks \cup {Blank}]]
  /\ keys \subseteq KeyRows
  /\ up \in BOOLEAN
  /\ troubles \in 0..MaxTroubles

\* Two goroutines are never inside one job, nor one in the featured list while another
\* is in the reconciliation, and a lock is taken exactly as long as somebody is inside:
\* neither an error nor a crash leaves a collector locked out.
Inside(r) == runner[r].pc # "idle"
HelloGitHubJobs == {"featured", "reconcile"}
Rivals(r, t) ==
  runner[r].job = runner[t].job \/ {runner[r].job, runner[t].job} = HelloGitHubJobs

CollectorsTakeTurns ==
  /\ \A r, t \in Runners : Inside(r) /\ Inside(t) /\ Rivals(r, t) => r = t
  /\ \A l \in running : \E r \in Runners : Inside(r) /\ LockOf(runner[r].job) = l

\* Whatever fails in between, every featured page before the first one that is blank or
\* broken, and the newest volume, are queued as they are now, or are being changed.
Readable(p) == \A q \in 1..p : pages[q] \in Looks \ Broken
PageQueued(p) == [kind |-> "featured", number |-> 0, look |-> pages[p]] \in keys
VolumeQueued == [kind |-> "reconcile", number |-> newest.number, look |-> newest.look] \in keys

HelloGitHubIsFollowed ==
  /\ \A p \in 1..MaxPages : []<>(Readable(p) => PageQueued(p))
  /\ []<>(newest.look \notin Broken => VolumeQueued)
=============================================================================
