------------------------------- MODULE Ingest -------------------------------
(***************************************************************************)
(* The durable candidate queue of starcat-weekly-api: ingest.Service       *)
(* accepts batches, ingest.Worker drains them, the tables ingest_batches   *)
(* and ingest_items carry the state across restarts.                       *)
(*                                                                         *)
(* Every database transaction is one step: the pool holds one connection   *)
(* (SetMaxOpenConns(1)), so transactions are serial.  What happens between *)
(* two transactions of the same goroutine (the GitHub call, the commit and *)
(* the wake that follows it, the commit and the cache invalidation) is     *)
(* open to every other actor.                                              *)
(*                                                                         *)
(* Time is counted in ticks of 15 minutes and kept as what remains: "due"  *)
(* is next_attempt_at - now and "lease" is lease_expires_at - now, both    *)
(* cut at zero, so no clock grows.                                         *)
(***************************************************************************)
EXTENDS Integers, FiniteSets, Functions

CONSTANTS
  Keys,          \* idempotency keys; the unique index makes one batch per key
  Repos,         \* repositories, by normalized full name
  Facts,         \* candidates: a repository together with an external key
  RepoOf,        \* the repository of a candidate
  InvalidFacts,  \* candidates the validation of Service.Enqueue refuses
  Callers,       \* goroutines inside Service.Enqueue (handlers, collectors)
  Requests,      \* the requests the callers may send
  AttemptCap,    \* bound: attempts past it are not told apart (no guard does)
  MaxGen,        \* bound: GitHub ids a repository name may have, one by one
  MaxStops       \* bound: crashes and shutdowns of the process

MaxAttempts == 3
LeaseTicks == 2

ASSUME FactsAssumption ==
  /\ IsFiniteSet(Facts)
  /\ InvalidFacts \subseteq Facts
  /\ RepoOf \in [Facts -> Repos]
ASSUME RequestsAssumption ==
  /\ Requests \subseteq [key : Keys, facts : SUBSET Facts, manual : BOOLEAN]
  /\ Requests # {}
  /\ \A r \in Requests : r.facts # {}
ASSUME BoundsAssumption ==
  /\ AttemptCap \in Nat /\ AttemptCap >= MaxAttempts
  /\ MaxGen \in Nat \ {0}
  /\ MaxStops \in Nat

VARIABLES
  items,     \* table ingest_items: row id |-> row
  lastId,    \* the largest AUTOINCREMENT id of ingest_items
  batches,   \* table ingest_batches, by idempotency key
  events,    \* table repo_source_events: the external keys present
  catalog,   \* table github_repos: name |-> stored GitHub id, 0 for no row
  fresh,     \* name |-> the row was enriched less than 24 hours ago
  upstream,  \* name |-> the id GitHub answers with today
  wake,      \* the capacity-1 channel of WakeSignal holds a signal
  worker,    \* the goroutine of Worker.Run
  caller,    \* the goroutines inside Service.Enqueue
  cache,     \* BulkCache.entry and the request that builds the next one
  mode,      \* "up", "stopping" (ctx cancelled), "closed" (store closed), "down"
  stops,     \* how often the process has ended so far
  accepted,  \* history: the answers callers were given, also before a crash
  unsignalled \* history: the batches whose caller got an error after the commit,
             \* since the process started or last found nothing to claim

tables == <<items, lastId, batches, events, catalog, fresh>>
process == <<mode, stops>>
answers == <<accepted, unsignalled>>
vars == <<items, lastId, batches, events, catalog, fresh, upstream,
          wake, worker, caller, cache, mode, stops, accepted, unsignalled>>

Active == {"pending", "processing", "retrying"}
Settled == {"success", "discarded"}
Terminal == {"success", "partial_success", "failed"}

ItemRow == [batch : Keys, fact : Facts, status : Active \cup Settled,
            attempts : 0..AttemptCap, due : 0..2, lease : 0..LeaseTicks]

\* The counters total, success and discarded are kept as the sets they count.
BatchRow == [status : {"none", "pending", "processing"} \cup Terminal,
             manual : BOOLEAN,
             total : SUBSET Nat, success : SUBSET Nat, discarded : SUBSET Nat]

NoBatch == [status |-> "none", manual |-> FALSE,
            total |-> {}, success |-> {}, discarded |-> {}]

WorkerState == [pc : {"off", "scan", "claim", "resolve", "fail", "complete",
                      "invalidate", "wait"},
                id : Nat, attempts : 0..AttemptCap, age : 0..2,
                answer : {"none", "stored", "found", "gone", "error"},
                gen : 0..MaxGen, err : BOOLEAN]

\* A worker that holds no item, at control point p; e: ProcessAvailable failed.
NoWork(p, e) == [pc |-> p, id |-> 0, attempts |-> 0, age |-> 0,
                 answer |-> "none", gen |-> 0, err |-> e]

\* A caller inside Enqueue is at one of these points; elsewhere it rests.
Busy == {"insert", "raced", "committed"}
CallerState == [pc : {"idle"} \cup Busy, req : Requests]
Resting == [pc |-> "idle", req |-> CHOOSE r \in Requests : TRUE]

\* A payload is known by the successes its first query saw (sees, read); it is
\* late when an invalidation went by while it was built.
CacheState == [valid : BOOLEAN, sees : SUBSET Nat, late : BOOLEAN,
               building : BOOLEAN, read : SUBSET Nat, missed : BOOLEAN]
NoCache == [valid |-> FALSE, sees |-> {}, late |-> FALSE,
            building |-> FALSE, read |-> {}, missed |-> FALSE]

Open == mode \in {"up", "stopping"}
Exists(k) == batches[k].status # "none"

RowsOf(its, k) == {i \in DOMAIN its : its[i].batch = k}
Published(its) == {i \in DOMAIN its : its[i].status = "success"}

Target(i) == RepoOf[items[i].fact]

\* Identity of the source event an item writes: a manual fact is known by its
\* repository alone, every collector gives its candidates an external key.
ExternalKey(i) == IF batches[items[i].batch].manual
                  THEN <<"manual", Target(i)>>
                  ELSE <<"event", items[i].fact>>

Less(n) == IF n > 0 THEN n - 1 ELSE 0
More(n, cap) == IF n < cap THEN n + 1 ELSE cap
-----------------------------------------------------------------------------
Init ==
  /\ items = [i \in 1..0 |-> 0]
  /\ lastId = 0
  /\ batches = [k \in Keys |-> NoBatch]
  /\ events = {}
  /\ catalog = [r \in Repos |-> 0]
  /\ fresh = [r \in Repos |-> FALSE]
  /\ upstream = [r \in Repos |-> 1]
  /\ wake = FALSE
  /\ worker = NoWork("scan", FALSE)
  /\ caller = [c \in Callers |-> Resting]
  /\ cache = NoCache
  /\ mode = "up"
  /\ stops = 0
  /\ accepted = {}
  /\ unsignalled = {}
-----------------------------------------------------------------------------
(***************************************************************************)
(* Service.Enqueue and SQLiteStore.EnqueueIngestBatch.                     *)
(***************************************************************************)

Answered(c, kind) == accepted \cup {<<caller[c].req, kind>>}

\* Validation (one invalid candidate refuses the whole request), then the
\* lookup of the idempotency key, outside any transaction: a known key is
\* answered with the batch it has.  A refused request changes nothing.
Lookup(c, r) ==
  /\ Open
  /\ caller[c].pc = "idle"
  /\ r.facts \cap InvalidFacts = {}
  /\ IF Exists(r.key)
     THEN /\ accepted' = accepted \cup {<<r, "replayed">>}
          /\ UNCHANGED caller
     ELSE /\ caller' = [caller EXCEPT ![c] = [pc |-> "insert", req |-> r]]
          /\ UNCHANGED accepted
  /\ UNCHANGED <<tables, upstream, wake, worker, cache, process, unsignalled>>

\* Manual candidates are deduplicated by repository (which one comes first is
\* left open), others by repository and external key, which a set already does.
Deduplicated(r) ==
  IF r.manual
  THEN {S \in SUBSET r.facts :
          /\ \A f \in r.facts : \E g \in S : RepoOf[g] = RepoOf[f]
          /\ \A f, g \in S : RepoOf[f] = RepoOf[g] => f = g}
  ELSE {r.facts}

\* The order of the rows inside a batch is left open.
Orders(S) == Bijection(1..Cardinality(S), S)

NewRow(k, f) == [batch |-> k, fact |-> f, status |-> "pending",
                 attempts |-> 0, due |-> 0, lease |-> 0]

\* The same statements outside a transaction: a failing one leaves the batch with
\* the items written so far.
InsertPiecemeal(c) ==
  LET r == caller[c].req
  IN
  /\ Open
  /\ caller[c].pc = "insert"
  /\ ~Exists(r.key)
  /\ \E kept \in Deduplicated(r) : \E part \in SUBSET kept : \E order \in Orders(part) :
       LET last == lastId + Cardinality(part)
       IN /\ lastId' = last
          /\ items' = [i \in 1..last |->
               IF i <= lastId THEN items[i] ELSE NewRow(r.key, order[i - lastId])]
          /\ batches' = [batches EXCEPT ![r.key] =
               [NoBatch EXCEPT !.status = "pending", !.manual = r.manual,
                               !.total = (lastId + 1)..last]]
          /\ caller' = [caller EXCEPT ![c] =
               IF part = kept THEN [@ EXCEPT !.pc = "committed"] ELSE Resting]
  /\ UNCHANGED <<events, catalog, fresh, upstream, wake, worker, cache, process, answers>>

\* The insert transaction: the batch and all its items, or nothing.
Insert(c) ==
  LET r == caller[c].req
  IN
  /\ Open
  /\ caller[c].pc = "insert"
  /\ ~Exists(r.key)
  /\ \E kept \in Deduplicated(r) : \E order \in Orders(kept) :
       LET last == lastId + Cardinality(kept)
       IN /\ lastId' = last
          /\ items' = [i \in 1..last |->
               IF i <= lastId THEN items[i] ELSE NewRow(r.key, order[i - lastId])]
          /\ batches' = [batches EXCEPT ![r.key] =
               [NoBatch EXCEPT !.status = "pending", !.manual = r.manual,
                               !.total = (lastId + 1)..last]]
  /\ caller' = [caller EXCEPT ![c].pc = "committed"]
  /\ UNCHANGED <<events, catalog, fresh, upstream, wake, worker, cache, process, answers>>

\* The same transaction when another caller's insert came in between: the
\* unique index refuses it and it rolls back.
InsertRefused(c) ==
  /\ Open
  /\ caller[c].pc = "insert"
  /\ Exists(caller[c].req.key)
  /\ caller' = [caller EXCEPT ![c].pc = "raced"]
  /\ UNCHANGED <<tables, upstream, wake, worker, cache, process, answers>>

\* The loser of the race answers with the batch of the winner.
Reread(c) ==
  /\ Open
  /\ caller[c].pc = "raced"
  /\ Exists(caller[c].req.key)
  /\ accepted' = Answered(c, "replayed")
  /\ caller' = [caller EXCEPT ![c] = Resting]
  /\ UNCHANGED <<tables, upstream, wake, worker, cache, process, unsignalled>>

\* A channel without a buffer: the signal is lost on a worker on its way to the select.
NotifyUnbuffered(c) ==
  /\ Open
  /\ caller[c].pc = "committed"
  /\ \E listening \in {worker.pc = "wait", FALSE} : wake' = (wake \/ listening)
  /\ accepted' = Answered(c, "created")
  /\ caller' = [caller EXCEPT ![c] = Resting]
  /\ UNCHANGED <<tables, upstream, worker, cache, process, unsignalled>>

\* The batch is read back after the commit; when that succeeds the wake is sent
\* without blocking and the caller gets its acceptance.
Notify(c) ==
  /\ Open
  /\ caller[c].pc = "committed"
  /\ wake' = TRUE
  /\ accepted' = Answered(c, "created")
  /\ caller' = [caller EXCEPT ![c] = Resting]
  /\ UNCHANGED <<tables, upstream, worker, cache, process, unsignalled>>

\* Any statement of Enqueue may fail, in a running process too: the transaction
\* rolls back and the caller gets the error.  The read-back is a statement of its
\* own: when it fails the batch is committed, the caller has an error and the
\* worker has no signal.
CallerError(c) ==
  /\ caller[c].pc \in Busy
  /\ unsignalled' = IF caller[c].pc = "committed"
                    THEN unsignalled \cup {caller[c].req.key} ELSE unsignalled
  /\ caller' = [caller EXCEPT ![c] = Resting]
  /\ UNCHANGED <<tables, upstream, wake, worker, cache, process, accepted>>
-----------------------------------------------------------------------------
(***************************************************************************)
(* Worker.Run and Worker.ProcessAvailable.                                 *)
(***************************************************************************)

\* select: a wake, the fallback ticker, or the end of the context.
WakeScan ==
  /\ worker.pc = "wait"
  /\ wake
  /\ wake' = FALSE
  /\ worker' = NoWork("scan", FALSE)
  /\ UNCHANGED <<tables, upstream, caller, cache, process, answers>>

TickerScan ==
  /\ worker.pc = "wait"
  /\ worker' = NoWork("scan", FALSE)
  /\ UNCHANGED <<tables, upstream, wake, caller, cache, process, answers>>

StopWorker ==
  /\ worker.pc = "wait"
  /\ mode \in {"stopping", "closed"}
  /\ worker' = NoWork("off", worker.err)
  /\ UNCHANGED <<tables, upstream, wake, caller, cache, process, answers>>

\* The head of the drain loop looks at the context, once per item.
CheckContext ==
  /\ worker.pc = "scan"
  /\ worker' = IF mode = "up" THEN NoWork("claim", FALSE) ELSE NoWork("wait", TRUE)
  /\ UNCHANGED <<tables, upstream, wake, caller, cache, process, answers>>

\* ClaimIngestItem first gives back the items whose lease has run out.
RecoveredNever == items
RecoveredAny == [i \in 1..lastId |->
  IF items[i].lease = 0 /\ items[i].status # "pending"
  THEN [items[i] EXCEPT !.status = "retrying"]
  ELSE items[i]]
Recovered == [i \in 1..lastId |->
  IF items[i].status = "processing" /\ items[i].lease = 0
  THEN [items[i] EXCEPT !.status = "retrying", !.due = 0]
  ELSE items[i]]

Claimable(its) == {i \in DOMAIN its :
  \/ its[i].status = "pending"
  \/ its[i].status = "retrying" /\ its[i].due = 0}

LeasedUncounted(row, n) == [row EXCEPT !.status = "processing", !.lease = LeaseTicks]
Leased(row, n) == [row EXCEPT !.status = "processing", !.attempts = n,
                              !.due = 0, !.lease = LeaseTicks]

\* ... then takes the claimable item with the smallest id under a lease.
Claim ==
  /\ Open
  /\ worker.pc = "claim"
  /\ \E i \in Claimable(Recovered) :
       LET n == More(items[i].attempts, AttemptCap)
           k == items[i].batch
       IN /\ \A j \in Claimable(Recovered) : i <= j
          /\ items' = [Recovered EXCEPT ![i] = Leased(@, n)]
          /\ batches' = IF batches[k].status \in {"pending", "processing"}
                        THEN [batches EXCEPT ![k] = [@ EXCEPT !.status = "processing"]]
                        ELSE batches
          /\ worker' = [NoWork("resolve", FALSE) EXCEPT !.id = i, !.attempts = n]
  /\ UNCHANGED <<lastId, events, catalog, fresh, upstream, wake, caller, cache, process, answers>>

ClaimNothing ==
  /\ Open
  /\ worker.pc = "claim"
  /\ Claimable(Recovered) = {}
  /\ items' = Recovered
  /\ worker' = NoWork("wait", FALSE)
  /\ unsignalled' = {}
  /\ UNCHANGED <<lastId, batches, events, catalog, fresh, upstream, wake, caller, cache,
                 process, accepted>>

ClaimError ==
  /\ mode = "closed"
  /\ worker.pc = "claim"
  /\ worker' = NoWork("wait", TRUE)
  /\ UNCHANGED <<tables, upstream, wake, caller, cache, process, answers>>

\* resolveRepo reuses the stored repository while it is fresh ...
ReuseStored ==
  /\ Open
  /\ worker.pc = "resolve"
  /\ LET r == Target(worker.id)
     IN /\ catalog[r] # 0
        /\ fresh[r]
        /\ worker' = [worker EXCEPT !.pc = "complete", !.answer = "stored",
                                    !.gen = catalog[r]]
  /\ UNCHANGED <<tables, upstream, wake, caller, cache, process, answers>>

\* ... and otherwise asks GitHub, outside every transaction: time passes, and
\* the answer is a repository, a permanent refusal (404, 422) or a temporary
\* error.  A cancelled context and a closed store are temporary errors too.
AskGitHub(answer) ==
  /\ worker.pc = "resolve"
  /\ LET r == Target(worker.id)
     IN /\ mode = "closed" \/ catalog[r] = 0 \/ ~fresh[r]
        /\ worker' = [worker EXCEPT
             !.pc = IF answer = "found" THEN "complete" ELSE "fail",
             !.answer = answer,
             !.gen = IF answer = "found" THEN upstream[r] ELSE 0]
  /\ UNCHANGED <<tables, upstream, wake, caller, cache, process, answers>>

\* finalizeIngestBatchTx, inside the transaction that settled an item.
VerdictIgnoringRetries(its, k) ==
  LET rows == RowsOf(its, k)
  IN CASE \E i \in rows : its[i].status \in {"pending", "processing"} -> "processing"
       [] \A i \in rows : its[i].status = "success" -> "success"
       [] OTHER -> IF \E i \in rows : its[i].status = "success"
                   THEN "partial_success" ELSE "failed"

Verdict(its, k) ==
  LET rows == RowsOf(its, k)
  IN CASE \E i \in rows : its[i].status \in Active -> "processing"
       [] \A i \in rows : its[i].status = "success" -> "success"
       [] OTHER -> IF \E i \in rows : its[i].status = "success"
                   THEN "partial_success" ELSE "failed"

Finalized(its, k) == [batches EXCEPT ![k] = [@ EXCEPT
  !.status = Verdict(its, k),
  !.total = RowsOf(its, k),
  !.success = {i \in RowsOf(its, k) : its[i].status = "success"},
  !.discarded = {i \in RowsOf(its, k) : its[i].status = "discarded"}]]

AfterSettlingOnlyWhole(its, k) ==
  NoWork(IF Verdict(its, k) = "success" THEN "invalidate" ELSE "scan", FALSE)

AfterSettling(its, k) ==
  NoWork(IF Verdict(its, k) = "processing" THEN "scan" ELSE "invalidate", FALSE)

\* A delay that doubles from the base with every attempt: 30 minutes, then an hour.
BackoffDoubled == IF worker.attempts >= 2 THEN 4 ELSE 2

\* FailIngestItem: the back-off counts from the claim, not from the answer.
Backoff == IF worker.attempts >= 2 THEN 2 ELSE 1

Failed(row) ==
  IF worker.answer = "gone" \/ worker.attempts >= MaxAttempts
  THEN [row EXCEPT !.status = "discarded", !.due = 0, !.lease = 0]
  ELSE [row EXCEPT !.status = "retrying", !.lease = 0,
                   !.due = IF worker.age < Backoff THEN Backoff - worker.age ELSE 0]

Fail ==
  LET k == items[worker.id].batch
      its == [items EXCEPT ![worker.id] = Failed(@)]
  IN
  /\ Open
  /\ worker.pc = "fail"
  /\ items[worker.id].status = "processing"
  /\ items' = its
  /\ batches' = Finalized(its, k)
  /\ worker' = AfterSettling(its, k)
  /\ UNCHANGED <<lastId, events, catalog, fresh, upstream, wake, caller, cache, process, answers>>

\* github_repos is unique by GitHub id and by (owner, name), the upsert settles
\* only the first: another id under the same name is refused.
NameTaken(r) == catalog[r] # 0 /\ catalog[r] # worker.gen

EventUnwritten(i) == events
EventWritten(i) == events \cup {ExternalKey(i)}

\* CompleteIngestItem: repository, source event, item and batch together.  A
\* reused row is written back with the enrichment time it had.
Complete ==
  LET r == Target(worker.id)
      k == items[worker.id].batch
      its == [items EXCEPT ![worker.id] = [@ EXCEPT !.status = "success", !.lease = 0]]
  IN
  /\ Open
  /\ worker.pc = "complete"
  /\ items[worker.id].status = "processing"
  /\ ~NameTaken(r)
  /\ catalog' = [catalog EXCEPT ![r] = worker.gen]
  /\ fresh' = [fresh EXCEPT ![r] = @ \/ worker.answer = "found"]
  /\ events' = EventWritten(worker.id)
  /\ items' = its
  /\ batches' = Finalized(its, k)
  /\ worker' = AfterSettling(its, k)
  /\ UNCHANGED <<lastId, upstream, wake, caller, cache, process, answers>>

\* The settling transaction rolls back, ProcessAvailable gives up, the item
\* keeps its lease.
SettleError ==
  /\ worker.pc \in {"fail", "complete"}
  /\ \/ mode = "closed"
     \/ items[worker.id].status # "processing"
     \/ worker.pc = "complete" /\ NameTaken(Target(worker.id))
  /\ worker' = NoWork("wait", TRUE)
  /\ UNCHANGED <<tables, upstream, wake, caller, cache, process, answers>>

\* A batch became terminal: the bulk payload is dropped.
Invalidate ==
  /\ worker.pc = "invalidate"
  /\ cache' = [cache EXCEPT !.valid = FALSE, !.sees = {}, !.late = FALSE,
                            !.missed = cache.building]
  /\ worker' = NoWork("scan", FALSE)
  /\ UNCHANGED <<tables, upstream, wake, caller, process, answers>>
-----------------------------------------------------------------------------
(***************************************************************************)
(* Readers, GitHub, time and the process.                                  *)
(***************************************************************************)

\* A bulk request misses the cache and reads the catalogue ...
StartPayload ==
  /\ Open
  /\ ~cache.valid
  /\ ~cache.building
  /\ cache' = [cache EXCEPT !.building = TRUE, !.read = Published(items)]
  /\ UNCHANGED <<tables, upstream, wake, worker, caller, process, answers>>

\* ... and, queries later, stores the payload.
StorePayload ==
  /\ Open
  /\ cache.building
  /\ cache' = [NoCache EXCEPT !.valid = TRUE, !.sees = cache.read, !.late = cache.missed]
  /\ UNCHANGED <<tables, upstream, wake, worker, caller, process, answers>>

\* The repository is deleted at GitHub and created again under its name.
Recreate(r) ==
  /\ upstream[r] < MaxGen
  /\ upstream' = [upstream EXCEPT ![r] = @ + 1]
  /\ UNCHANGED <<tables, wake, worker, caller, cache, process, answers>>

\* 24 hours have passed since the row was enriched.
GrowStale(r) ==
  /\ fresh[r]
  /\ fresh' = [fresh EXCEPT ![r] = FALSE]
  /\ UNCHANGED <<items, lastId, batches, events, catalog, upstream, wake, worker, caller, cache, process, answers>>

Tick ==
  /\ items' = [i \in 1..lastId |->
       [items[i] EXCEPT !.due = Less(@), !.lease = Less(@)]]
  /\ worker' = IF worker.id = 0 THEN worker
               ELSE [worker EXCEPT !.age = More(@, 2)]
  /\ UNCHANGED <<lastId, batches, events, catalog, fresh, upstream, wake, caller, cache, process, answers>>

\* Server.Close cancels the context, later closes the store under the worker.
BeginShutdown ==
  /\ mode = "up"
  /\ stops < MaxStops
  /\ mode' = "stopping"
  /\ stops' = stops + 1
  /\ UNCHANGED <<tables, upstream, wake, worker, caller, cache, answers>>

CloseStore ==
  /\ mode = "stopping"
  /\ mode' = "closed"
  /\ UNCHANGED <<tables, upstream, wake, worker, caller, cache, stops, answers>>

\* What lived in memory is gone with the process.
Forget ==
  /\ wake' = FALSE
  /\ worker' = NoWork("off", FALSE)
  /\ caller' = [c \in Callers |-> Resting]
  /\ cache' = NoCache
  /\ mode' = "down"
  /\ unsignalled' = {}
  /\ UNCHANGED accepted

Crash ==
  /\ mode = "up"
  /\ stops < MaxStops
  /\ stops' = stops + 1
  /\ Forget
  /\ UNCHANGED <<tables, upstream>>

Exit ==
  /\ mode \in {"stopping", "closed"}
  /\ Forget
  /\ UNCHANGED <<tables, upstream, stops>>

Restart ==
  /\ mode = "down"
  /\ mode' = "up"
  /\ worker' = NoWork("scan", FALSE)
  /\ UNCHANGED <<tables, upstream, wake, caller, cache, stops, answers>>
-----------------------------------------------------------------------------
CallerStep ==
  \E c \in Callers :
    \/ \E r \in Requests : Lookup(c, r)
    \/ Insert(c)
    \/ InsertRefused(c)
    \/ Reread(c)
    \/ Notify(c)
    \/ CallerError(c)

WorkerStep ==
  \/ WakeScan
  \/ TickerScan
  \/ StopWorker
  \/ CheckContext
  \/ Claim
  \/ ClaimNothing
  \/ ClaimError
  \/ ReuseStored
  \/ AskGitHub("found")
  \/ AskGitHub("gone")
  \/ AskGitHub("error")
  \/ Fail
  \/ Complete
  \/ SettleError
  \/ Invalidate

Environment ==
  \/ StartPayload
  \/ StorePayload
  \/ \E r \in Repos : Recreate(r) \/ GrowStale(r)
  \/ Tick
  \/ BeginShutdown
  \/ CloseStore
  \/ Crash
  \/ Exit
  \/ Restart

Next == CallerStep \/ WorkerStep \/ Environment

Spec == Init /\ [][Next]_vars

\* The worker goroutine and GitHub keep going, time passes, the process manager
\* ends a process that is stopping and starts one that is down.
Fairness ==
  /\ WF_vars(WorkerStep)
  /\ WF_vars(Tick)
  /\ WF_vars(Exit)
  /\ WF_vars(Restart)

FairSpec == Spec /\ Fairness
-----------------------------------------------------------------------------
\* The tables, the goroutines and the channel keep their types; of the rows, that no
\* item waits for more than the 30 minutes the last back-off takes and no attempt
\* is counted past the bound, whatever was recovered, failed or timed out before.
TypeOK ==
  /\ lastId \in Nat
  /\ items \in [1..lastId -> ItemRow]
  /\ batches \in [Keys -> BatchRow]
  /\ events \subseteq ({"manual"} \X Repos) \cup ({"event"} \X Facts)
  /\ catalog \in [Repos -> 0..MaxGen]
  /\ fresh \in [Repos -> BOOLEAN]
  /\ upstream \in [Repos -> 1..MaxGen]
  /\ wake \in BOOLEAN
  /\ worker \in WorkerState
  /\ caller \in [Callers -> CallerState]
  /\ cache \in CacheState
  /\ mode \in {"up", "stopping", "closed", "down"}
  /\ stops \in 0..MaxStops
  /\ accepted \subseteq Requests \X {"created", "replayed"}
  /\ unsignalled \subseteq Keys

\* The item a worker carries through the GitHub call is still the one it
\* claimed when it comes back to the database: in processing, with the attempt
\* count it was handed, even when its lease ran out in between.  The status
\* guards of CompleteIngestItem and FailIngestItem ("without active lease")
\* therefore never fire.
LeaseHeld ==
  worker.pc \in {"resolve", "fail", "complete"} =>
    /\ worker.id \in 1..lastId
    /\ items[worker.id].status = "processing"
    /\ items[worker.id].attempts = worker.attempts

\* What GET /internal/ingest-batches/{id} reports agrees with the items at every
\* commit: the counters, and a terminal status exactly when nothing is left to
\* do, "success" only if all and "failed" only if none of them succeeded.
BatchMatchesItems ==
  \A k \in Keys : Exists(k) =>
    LET b == batches[k]
        rows == RowsOf(items, k)
    IN /\ b.total = rows
       /\ b.success = {i \in rows : items[i].status = "success"}
       /\ b.discarded = {i \in rows : items[i].status = "discarded"}
       /\ b.status \in Terminal <=> rows = b.success \cup b.discarded
       /\ b.status = "success" <=> rows = b.success
       /\ b.status = "failed" <=> rows = b.discarded

\* CompleteIngestItem is all or nothing: a successful item has its source event
\* and its repository, and no event exists without a successful item.
SuccessIsPublished ==
  /\ \A i \in Published(items) :
       ExternalKey(i) \in events /\ catalog[Target(i)] # 0
  /\ \A e \in events : \E i \in Published(items) : ExternalKey(i) = e

\* Two candidates of a request are one item of its batch: a manual import knows
\* them by repository, the collectors by external key.
SameItem(r, f, g) == IF r.manual THEN RepoOf[f] = RepoOf[g] ELSE f = g

\* The batch of request r holds exactly one item for each of its candidates.
Whole(its, r) ==
  /\ \A i \in RowsOf(its, r.key) : its[i].fact \in r.facts
  /\ \A f \in r.facts : \E i \in RowsOf(its, r.key) : SameItem(r, its[i].fact, f)
  /\ \A i, j \in RowsOf(its, r.key) : SameItem(r, its[i].fact, its[j].fact) => i = j

\* What a caller was once told is accepted is in the queue for good, through races
\* of one key, failed statements, crashes and restarts: the batch under the
\* key of the answer holds exactly one item for each deduplicated candidate of
\* the one request that created it, which is the caller's own unless the answer
\* was a replay.
AcceptedIsDurable ==
  \A a \in accepted : \E r \in Requests :
    /\ r.key = a[1].key
    /\ Whole(items, r)
    /\ a[2] = "created" => r = a[1]

\* No wake-up is lost between WakeSignal.Notify and the drain: when the worker of a
\* running process waits after a drain that ended well, then for each pending
\* item the signal is in the channel, or the caller that committed its batch is
\* about to send it, or that caller got the error of its read-back instead.
NoIdleWork ==
  (worker.pc = "wait" /\ ~worker.err /\ mode = "up") =>
    \A i \in 1..lastId : items[i].status = "pending" =>
      \/ wake
      \/ \E c \in Callers : caller[c].pc = "committed" /\ caller[c].req.key = items[i].batch
      \/ items[i].batch \in unsignalled

\* When the worker is back at its select, a cached bulk payload contains the
\* successes of every terminal batch, unless an invalidation went by while it
\* was built (BulkCatalog has that race): the invalidation follows the commit of
\* the last item in the same goroutine before anything else is done.
QuietCacheIsCurrent ==
  (worker.pc = "wait" /\ cache.valid /\ ~cache.late) =>
    \A k \in Keys : batches[k].status \in Terminal =>
      batches[k].success \subseteq cache.sees

\* No step takes a settled item or a terminal batch back: not the recovery of
\* leases, not a late answer, not a replay of the key.
SettledForever ==
  [][/\ \A i \in 1..lastId : items[i].status \in Settled => items'[i].status = items[i].status
     /\ \A k \in Keys : batches[k].status \in Terminal => batches'[k] = batches[k]]_vars

\* The queue implements the ledger: claims, retries, leases, crashes and races
\* are invisible, acceptance and settling are single steps.
Ledger == INSTANCE CandidateLedger WITH
  rows <- [i \in 1..lastId |->
             [batch |-> items[i].batch, fact |-> items[i].fact,
              outcome |-> IF items[i].status \in Active THEN "open" ELSE items[i].status]],
  verdict <- [k \in Keys |->
             IF batches[k].status \in {"pending", "processing"}
             THEN "open" ELSE batches[k].status]

LedgerSpec == Ledger!Spec

\* Every queued item is settled in the end: temporary GitHub errors run out of
\* attempts, a lease left behind by a crash runs out, and the fallback ticker
\* finds what no signal announced, also after an error between commit and wake.
EveryItemSettles ==
  \A k \in Keys : Exists(k) ~> batches[k].status \in Terminal
===========================================================================
