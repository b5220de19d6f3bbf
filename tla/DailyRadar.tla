----------------------------- MODULE DailyRadar -----------------------------
(***************************************************************************)
(* The daily radar: imported articles wait in daily_radar_jobs, one worker *)
(* verifies the repositories they link and publishes immutable revisions,  *)
(* readers page through the catalogue.                                     *)
(*                                                                         *)
(* A slot is one article of the catalogue: a report id in one language.    *)
(* Two kinds of source may fill it, "starcat" before "upstream", each with *)
(* a sequence of its own.  A revision is what its hash covers: slot, kind, *)
(* body and the related projects found.                                    *)
(*                                                                         *)
(* Every transaction is one step (one connection).  Server.Close waits for *)
(* this worker before it closes the store.  Time runs in minutes.          *)
(***************************************************************************)
EXTENDS Integers, FiniteSets

CONSTANTS
  Slots,       \* natural numbers, in the order the catalogue lists them
  Bodies,      \* article contents
  LongBodies,  \* those that link more than 100 repositories
  Repos,       \* GitHub repositories
  LinksOf,     \* the repositories behind the links of an article
  SourceRepo,  \* the repository a kind of source is generated in
  Excluded,    \* the generators, which the repair takes out of published articles
  Requests,    \* the import requests that may arrive, all of them valid
  Readers,     \* clients that walk through the list page by page
  NoRevision,  \* null in daily_radar_jobs.revision
  MaxStops,    \* bound: crashes and shutdowns
  MaxFaults    \* bound: failed statements

MaxAttempts == 3
Kinds == {"upstream", "starcat"}

Revision == [slot : Slots, kind : Kinds, body : Bodies,
             projects : SUBSET Repos, partial : BOOLEAN]

ASSUME SlotsAssumption == Slots \subseteq Nat /\ IsFiniteSet(Slots)
ASSUME LinksAssumption ==
  /\ LinksOf \in [Bodies -> SUBSET Repos]
  /\ SourceRepo \in [Kinds -> Repos]
  /\ Excluded \subseteq Repos
  /\ LongBodies \subseteq Bodies
ASSUME RequestsAssumption ==
  \A r \in Requests :
    /\ r.kind \in Kinds
    /\ r.seq \in Nat \ {0}
    /\ DOMAIN r.docs \subseteq Slots /\ DOMAIN r.docs # {}
    /\ \A s \in DOMAIN r.docs : r.docs[s] \in Bodies
ASSUME NullAssumption == NoRevision \notin Revision
ASSUME BoundsAssumption == MaxStops \in Nat /\ MaxFaults \in Nat

VARIABLES
  batches,       \* table daily_radar_batches: the accepted requests
  jobs,          \* table daily_radar_jobs: id |-> row
  revisions,     \* table daily_radar_revisions
  sources,       \* table daily_radar_sources: <<slot, kind>> |-> row
  publications,  \* table daily_radar_publications: slot |-> revision
  catalog,       \* the row of daily_radar_state: the catalogue revision
  snapshot,      \* SQLiteStore.radarSnapshot, rev -1 when there is none
  worker,        \* the goroutine of Worker.Run
  reader,        \* the clients
  mode,          \* "up", "stopping" (ctx cancelled), "down"
  stops,         \* how often the process has ended
  faults         \* how many statements have failed

tables == <<batches, jobs, revisions, sources, publications, catalog>>
process == <<mode, stops>>
vars == <<batches, jobs, revisions, sources, publications, catalog, snapshot,
          worker, reader, mode, stops, faults>>

Empty == [x \in {} |-> x]
Put(f, k, v) == [x \in DOMAIN f \cup {k} |-> IF x = k THEN v ELSE f[x]]
Ids(js) == DOMAIN js

NoSnapshot == [rev |-> -1, items |-> Empty]

\* A reader: the catalogue its request works on and whether the database was read
\* for it; the revision of its cursor, the articles of the pages so far, and the
\* list as its first page saw it.
Free(p) == [pc |-> p, job |-> 0, attempts |-> 0, rev |-> NoRevision, conflict |-> FALSE]
Away == [pc |-> "idle", snap |-> NoSnapshot, read |-> FALSE, rev |-> -1, got |-> Empty, whole |-> Empty]

Waiting == {"queued", "retrying"}
Closed == {"published", "failed"}
-----------------------------------------------------------------------------
Init ==
  /\ batches = {}
  /\ jobs = Empty
  /\ revisions = {}
  /\ sources = Empty
  /\ publications = Empty
  /\ catalog = 0
  /\ snapshot = NoSnapshot
  /\ worker = Free("start")
  /\ reader = [c \in Readers |-> Away]
  /\ mode = "up"
  /\ stops = 0
  /\ faults = 0
-----------------------------------------------------------------------------
(***************************************************************************)
(* Handler.Import and EnqueueRadar.                                        *)
(***************************************************************************)
NewJobPending(r, s) == [req |-> r, slot |-> s, status |-> "pending", attempts |-> 0,
                        due |-> 0, rev |-> NoRevision]
NewJob(r, s) == [req |-> r, slot |-> s, status |-> "queued", attempts |-> 0,
                 due |-> 0, rev |-> NoRevision]

\* One transaction: the batch and a job for each of its reports, in the order
\* of the request.  A known key changes nothing: the same request is answered
\* with its batch, another one with a conflict.
Import(r) ==
  /\ mode # "down"
  /\ \A b \in batches : b.key # r.key
  /\ batches' = batches \cup {r}
  /\ \E order \in [1..Cardinality(DOMAIN r.docs) -> DOMAIN r.docs] :
       LET n == Cardinality(Ids(jobs))
       IN /\ \A i, j \in DOMAIN order : order[i] = order[j] => i = j
          /\ jobs' = [i \in 1..(n + Cardinality(DOMAIN r.docs)) |->
               IF i <= n THEN jobs[i] ELSE NewJob(r, order[i - n])]
  /\ UNCHANGED <<revisions, sources, publications, catalog, snapshot, worker, reader, process, faults>>
-----------------------------------------------------------------------------
(***************************************************************************)
(* Worker.Run and Worker.Process.                                          *)
(***************************************************************************)

\* RecoverRadarJobs, once, before the loop.
RequeuedNever(row) == row
Requeued(row) == IF row.status = "processing" THEN [row EXCEPT !.status = "queued"] ELSE row

Recover ==
  /\ worker.pc = "start"
  /\ jobs' = [i \in Ids(jobs) |-> Requeued(jobs[i])]
  /\ worker' = Free("claim")
  /\ UNCHANGED <<batches, revisions, sources, publications, catalog, snapshot, reader, process, faults>>

Claimable == {i \in Ids(jobs) : jobs[i].status \in Waiting /\ jobs[i].due = 0}

Claim ==
  /\ worker.pc = "claim"
  /\ mode = "up"
  /\ \E i \in Claimable :
       /\ \A j \in Claimable : i <= j
       /\ jobs' = [jobs EXCEPT ![i] = [jobs[i] EXCEPT !.status = "processing", !.attempts = @ + 1]]
       /\ worker' = [Free("verify") EXCEPT !.job = i, !.attempts = jobs[i].attempts + 1]
  /\ UNCHANGED <<batches, revisions, sources, publications, catalog, snapshot, reader, process, faults>>

ClaimNothing ==
  /\ worker.pc = "claim"
  /\ mode = "up"
  /\ Claimable = {}
  /\ worker' = Free("wait")
  /\ UNCHANGED <<tables, snapshot, reader, process, faults>>

\* The wake of an import and the 30-second ticker.
Scan ==
  /\ worker.pc = "wait"
  /\ mode = "up"
  /\ worker' = Free("claim")
  /\ UNCHANGED <<tables, snapshot, reader, process, faults>>

Job == jobs[worker.job]

\* A partial result: always past 100 links; for temporary errors and the deadline
\* of the job on its last attempt only.
Partial(body) == IF body \in LongBodies THEN {TRUE}
                 ELSE IF worker.attempts >= MaxAttempts THEN BOOLEAN ELSE {FALSE}

\* Every link but the one of the source is verified or found missing or private.
\* The links of the generators are dropped by their names: behind another name
\* (GitHub redirects) and in articles of earlier versions they are still found.
Verify ==
  /\ worker.pc = "verify"
  /\ \E found \in SUBSET (LinksOf[Job.req.docs[Job.slot]] \ {SourceRepo[Job.req.kind]}),
        part \in Partial(Job.req.docs[Job.slot]) :
       /\ worker' = [worker EXCEPT
            !.pc = "publish",
            !.rev = [slot |-> Job.slot, kind |-> Job.req.kind,
                     body |-> Job.req.docs[Job.slot], projects |-> found, partial |-> part]]
  /\ UNCHANGED <<tables, snapshot, reader, process, faults>>

VerifyFails ==
  /\ worker.pc = "verify"
  /\ worker.attempts < MaxAttempts
  /\ worker' = [worker EXCEPT !.pc = "fail"]
  /\ UNCHANGED <<tables, snapshot, reader, process, faults>>

\* The source row the candidate competes with.
Place == <<worker.rev.slot, worker.rev.kind>>
KnownNever == FALSE
Known == Place \in DOMAIN sources
SameDocument == sources[Place].body = worker.rev.body

\* PublishRadar refuses another candidate under a known sequence ...
PublishConflict ==
  /\ worker.pc = "publish"
  /\ Known
  /\ Job.req.seq = sources[Place].seq
  /\ ~SameDocument
  /\ worker' = [worker EXCEPT !.pc = "fail", !.conflict = TRUE]
  /\ UNCHANGED <<tables, snapshot, reader, process, faults>>

\* ... settles a replayed or late one with the revision that is there ...
Late == /\ worker.pc = "publish"
        /\ Known
        /\ \/ Job.req.seq < sources[Place].seq
           \/ Job.req.seq = sources[Place].seq /\ SameDocument

PublishLate ==
  /\ Late
  /\ jobs' = [jobs EXCEPT ![worker.job] = [@ EXCEPT !.status = "published", !.rev = sources[Place].rev]]
  /\ worker' = Free("claim")
  /\ UNCHANGED <<batches, revisions, sources, publications, catalog, snapshot, reader, process, faults>>

\* The revision a slot shows: starcat before upstream.
CanonicalLast(src, s) == src[<<s, worker.rev.kind>>].rev
Canonical(src, s) == IF <<s, "starcat">> \in DOMAIN src
                     THEN src[<<s, "starcat">>].rev
                     ELSE src[<<s, "upstream">>].rev

Shows(s, v) == s \in DOMAIN publications /\ publications[s] = v

BumpOnNewSlot(s, v) == IF s \in DOMAIN publications THEN catalog ELSE catalog + 1
Bump(s, v) == IF Shows(s, v) THEN catalog ELSE catalog + 1

\* ... and otherwise writes revision, source row, language pointer, catalogue
\* revision and job in one transaction.
Publish ==
  LET s == worker.rev.slot
      src == Put(sources, Place, [seq |-> Job.req.seq, body |-> worker.rev.body, rev |-> worker.rev])
      top == Canonical(src, s)
  IN
  /\ worker.pc = "publish"
  /\ Known => Job.req.seq > sources[Place].seq
  /\ revisions' = revisions \cup {worker.rev}
  /\ sources' = src
  /\ publications' = Put(publications, s, top)
  /\ catalog' = Bump(s, top)
  /\ jobs' = [jobs EXCEPT ![worker.job] = [@ EXCEPT !.status = "published", !.rev = worker.rev]]
  /\ worker' = Free("claim")
  /\ UNCHANGED <<batches, snapshot, reader, process, faults>>

RetryForever == TRUE
Retry == worker.attempts < MaxAttempts /\ ~worker.conflict

\* FailRadarJob: another attempt after as many minutes as there were attempts.
\* A cancelled context leaves the loop before it gets here.
Fail ==
  /\ worker.pc = "fail"
  /\ mode = "up"
  /\ jobs' = [jobs EXCEPT ![worker.job] =
       IF Retry
       THEN [@ EXCEPT !.status = "retrying", !.due = worker.attempts]
       ELSE [@ EXCEPT !.status = "failed"]]
  /\ worker' = Free("claim")
  /\ UNCHANGED <<batches, revisions, sources, publications, catalog, snapshot, reader, process, faults>>

\* Run ends at the head of its loop, at its select, inside Process and after a
\* failure; the claimed job stays in processing.
StopWorker ==
  /\ mode = "stopping"
  /\ worker.pc \in {"claim", "wait", "verify", "fail"}
  /\ worker' = Free("off")
  /\ UNCHANGED <<tables, snapshot, reader, process, faults>>

\* A statement fails: no recovery, no worker; no claim, until the next scan; no
\* publication, a failed attempt; no record of a failure, a job in processing
\* that no one holds.
StatementFails ==
  /\ faults < MaxFaults
  /\ faults' = faults + 1
  /\ worker' = CASE worker.pc = "start" -> Free("off")
                 [] worker.pc = "claim" -> Free("wait")
                 [] worker.pc = "publish" -> [worker EXCEPT !.pc = "fail"]
                 [] worker.pc = "fail" -> Free("claim")
                 [] OTHER -> worker
  /\ worker.pc \in {"start", "claim", "publish", "fail"}
  /\ UNCHANGED <<tables, snapshot, reader, process>>
-----------------------------------------------------------------------------
(***************************************************************************)
(* Readers, the repair, time and the process.                              *)
(***************************************************************************)

\* RadarSnapshot: the catalogue revision and the pointers in one transaction,
\* or the copy in memory when it is of that revision.
ReadCatalog(c) ==
  /\ mode # "down"
  /\ reader[c].pc # "reading"
  /\ reader' = [reader EXCEPT ![c] = [reader[c] EXCEPT
       !.pc = "reading",
       !.snap = IF snapshot.rev = catalog THEN snapshot
                ELSE [rev |-> catalog, items |-> publications],
       !.read = snapshot.rev # catalog,
       !.rev = IF reader[c].pc = "walking" THEN @ ELSE -1,
       !.got = IF reader[c].pc = "walking" THEN @ ELSE Empty,
       !.whole = IF reader[c].pc = "walking" THEN @ ELSE Empty]]
  /\ UNCHANGED <<tables, snapshot, worker, process, faults>>

\* The n-th article of a list that is sorted by slot.
Nth(S, n) == CHOOSE s \in S : Cardinality({t \in S : t <= s}) = n

StaleCursorServed(w) == FALSE
StaleCursor(w) == w.rev # -1 /\ w.rev # w.snap.rev

\* The answer to a request for one page of one article.  The copy in memory is
\* replaced by what was read, maybe later than another reader's newer one.  A
\* cursor of another revision is answered with CATALOG_CHANGED.
ServePage(c) ==
  LET w == reader[c]
      items == w.snap.items
      n == Cardinality(DOMAIN w.got) + 1
      got == IF n > Cardinality(DOMAIN items) THEN w.got
             ELSE LET s == Nth(DOMAIN items, n) IN Put(w.got, s, items[s])
  IN
  /\ mode # "down"
  /\ w.pc = "reading"
  /\ snapshot' = IF w.read THEN w.snap ELSE snapshot
  /\ reader' = [reader EXCEPT ![c] =
       IF StaleCursor(w)
       THEN Away
       ELSE [pc |-> IF n >= Cardinality(DOMAIN items) THEN "done" ELSE "walking",
             snap |-> NoSnapshot,
             read |-> FALSE,
             rev |-> w.snap.rev,
             got |-> got,
             whole |-> IF w.rev = -1 THEN items ELSE w.whole]]
  /\ UNCHANGED <<tables, worker, process, faults>>

Clean(v) == [v EXCEPT !.projects = @ \ Excluded]

\* RepairRadarSourceRepositories: a corrected revision for every article that
\* shows an excluded repository; the source rows keep the original.
Repair ==
  LET dirty == {s \in DOMAIN publications : publications[s].projects \cap Excluded # {}}
  IN
  /\ mode # "down"
  /\ dirty # {}
  /\ revisions' = revisions \cup {Clean(publications[s]) : s \in dirty}
  /\ publications' = [s \in DOMAIN publications |->
       IF s \in dirty THEN Clean(publications[s]) ELSE publications[s]]
  /\ catalog' = catalog + 1
  /\ UNCHANGED <<batches, jobs, sources, snapshot, worker, reader, process, faults>>

Tick ==
  /\ \E i \in Ids(jobs) : jobs[i].due > 0
  /\ jobs' = [i \in Ids(jobs) |->
       IF jobs[i].due > 0 THEN [jobs[i] EXCEPT !.due = @ - 1] ELSE jobs[i]]
  /\ UNCHANGED <<batches, revisions, sources, publications, catalog, snapshot, worker, reader, process, faults>>

BeginShutdown ==
  /\ mode = "up"
  /\ stops < MaxStops
  /\ mode' = "stopping"
  /\ stops' = stops + 1
  /\ UNCHANGED <<tables, snapshot, worker, reader, faults>>

\* The copy in memory and the requests under way are gone with the process.
Forget ==
  /\ mode' = "down"
  /\ worker' = Free("off")
  /\ snapshot' = NoSnapshot
  /\ reader' = [c \in Readers |-> IF reader[c].pc = "reading" THEN Away ELSE reader[c]]

Exit ==
  /\ mode = "stopping"
  /\ worker.pc = "off"
  /\ Forget
  /\ UNCHANGED <<tables, stops, faults>>

Crash ==
  /\ mode = "up"
  /\ stops < MaxStops
  /\ stops' = stops + 1
  /\ Forget
  /\ UNCHANGED <<tables, faults>>

Restart ==
  /\ mode = "down"
  /\ mode' = "up"
  /\ worker' = Free("start")
  /\ UNCHANGED <<tables, snapshot, reader, stops, faults>>
-----------------------------------------------------------------------------
WorkerStep ==
  \/ Recover
  \/ Claim
  \/ ClaimNothing
  \/ Scan
  \/ Verify
  \/ VerifyFails
  \/ PublishConflict
  \/ PublishLate
  \/ Publish
  \/ Fail
  \/ StopWorker

Next ==
  \/ \E r \in Requests : Import(r)
  \/ WorkerStep
  \/ StatementFails
  \/ \E c \in Readers : ReadCatalog(c) \/ ServePage(c)
  \/ Repair
  \/ Tick
  \/ BeginShutdown
  \/ Exit
  \/ Crash
  \/ Restart

Spec == Init /\ [][Next]_vars

\* The worker and its ticker run, GitHub calls return (the job has a deadline of
\* two minutes), time passes, the process manager restarts the process.
Fairness ==
  /\ WF_vars(WorkerStep)
  /\ WF_vars(Tick)
  /\ WF_vars(Exit)
  /\ WF_vars(Restart)

FairSpec == Spec /\ Fairness
-----------------------------------------------------------------------------
SourceRow == [seq : Nat, body : Bodies, rev : Revision]
JobRow == [req : Requests, slot : Slots, status : Waiting \cup Closed \cup {"processing"},
           attempts : Nat, due : Nat, rev : Revision \cup {NoRevision}]

\* Lists of articles, as the catalogue, its copies and the clients have them.
Catalogues == UNION {[D -> Revision] : D \in SUBSET Slots}
Copy == [rev : Int, items : Catalogues]
Client == [pc : {"idle", "reading", "walking", "done"}, snap : Copy, read : BOOLEAN,
           rev : Int, got : Catalogues, whole : Catalogues]
Work == [pc : {"off", "start", "claim", "wait", "verify", "publish", "fail"}, job : Nat,
         attempts : Nat, rev : Revision \cup {NoRevision}, conflict : BOOLEAN]

\* The tables, the copy in memory, the worker and the clients keep their types; the
\* ids of the jobs have no gap, and a job is of an article of its request.
TypeOK ==
  /\ batches \subseteq Requests
  /\ Ids(jobs) = 1..Cardinality(Ids(jobs))
  /\ \A i \in Ids(jobs) : jobs[i] \in JobRow /\ jobs[i].slot \in DOMAIN jobs[i].req.docs
  /\ revisions \subseteq Revision
  /\ DOMAIN sources \subseteq Slots \X Kinds
  /\ \A p \in DOMAIN sources : sources[p] \in SourceRow
  /\ publications \in Catalogues
  /\ catalog \in Nat
  /\ snapshot \in Copy
  /\ worker \in Work
  /\ reader \in [Readers -> Client]
  /\ mode \in {"up", "stopping", "down"}
  /\ stops \in 0..MaxStops
  /\ faults \in 0..MaxFaults

\* A job that is reported as published has left its mark: the source row of its
\* kind is at its sequence or past it, and at its very document if at it; the
\* revision it reports is stored, so that a reader can pin it.
PublishedIsCovered ==
  \A i \in Ids(jobs) : jobs[i].status = "published" =>
    LET j == jobs[i]
        p == <<j.slot, j.req.kind>>
    IN /\ p \in DOMAIN sources
       /\ sources[p].seq >= j.req.seq
       /\ sources[p].seq = j.req.seq => sources[p].body = j.req.docs[j.slot]
       /\ j.rev \in revisions
       /\ j.rev.slot = j.slot

\* Every article that has a source is shown, and it shows the revision of the
\* preferred source, or that revision without the excluded repositories.
ShownIsCanonical ==
  /\ DOMAIN publications = {p[1] : p \in DOMAIN sources}
  /\ \A s \in DOMAIN publications :
       /\ publications[s] \in revisions
       /\ \E k \in Kinds :
            /\ <<s, k>> \in DOMAIN sources
            /\ k = "starcat" \/ <<s, "starcat">> \notin DOMAIN sources
            /\ publications[s] \in {sources[<<s, k>>].rev, Clean(sources[<<s, k>>].rev)}

\* docs/daily-radar.md: an older sequence never overwrites a newer one and a
\* self-made article prevails over an upstream one, whatever the order in which
\* the jobs come to their end.
Rank(src, s) == IF <<s, "starcat">> \in DOMAIN src
                THEN <<2, src[<<s, "starcat">>].seq>>
                ELSE <<1, src[<<s, "upstream">>].seq>>

ShownOnlyAdvances ==
  [][\A s \in DOMAIN publications :
       /\ s \in DOMAIN publications'
       /\ (publications'[s].kind # publications[s].kind
             \/ publications'[s].body # publications[s].body) =>
            LET old == Rank(sources, s)
                new == Rank(sources', s)
            IN \/ new[1] > old[1]
               \/ new[1] = old[1] /\ new[2] > old[2]]_vars

\* A client that followed the cursors to the end has one catalogue, not pages of
\* two: publications and repairs in between are answered with CATALOG_CHANGED.
WalkIsOneCatalog ==
  \A c \in Readers : reader[c].pc = "done" => reader[c].got = reader[c].whole

\* A copy in memory that claims the current revision has the current articles,
\* also when a slow reader has put an old copy over a newer one.
SnapshotIsCurrent ==
  snapshot.rev = catalog => snapshot.items = publications

\* Only an interruption or a failed statement lets a job be tried a fourth time.
AttemptsAreBounded ==
  \A i \in Ids(jobs) : jobs[i].attempts <= MaxAttempts + stops + faults

\* Every accepted article ends as published or failed, through crashes, shutdowns
\* and temporary errors; and when a statement has failed (a job in processing that
\* nobody holds, a worker that ended with its recovery), from the next restart on,
\* unless another one fails.
EveryJobSettles ==
  \A r \in Requests : \A f \in 0..MaxFaults :
    (r \in batches /\ faults = f /\ (f = 0 \/ mode = "down")) ~>
      \/ \A i \in Ids(jobs) : jobs[i].req = r => jobs[i].status \in Closed
      \/ faults > f

\* store/daily_radar.go: the repair publishes corrected revisions for already
\* published articles; a correction is not taken back by showing the uncorrected
\* revision of the same document again.
RepairSticks ==
  [][\A s \in DOMAIN publications \cap DOMAIN publications' :
       publications'[s] # publications[s] =>
         ~(Clean(publications'[s]) = publications[s])]_vars
=============================================================================
