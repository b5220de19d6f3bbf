------------------------------ MODULE Backfill ------------------------------
(***************************************************************************)
(* The backfill of HelloGitHub's volumes: an admin's request becomes a     *)
(* control batch with a checkpoint; one goroutine takes the batches in the *)
(* order of their creation, fetches the next volume, hands it to           *)
(* Service.Enqueue, and then moves the checkpoint.  It is woken by         *)
(* requests and by a ticker, retries a volume after 15 and 30 minutes and  *)
(* gives up at the third failure.                                          *)
(*                                                                         *)
(* A look is what the fingerprint of a volume tells apart.  Between the    *)
(* read of a control batch and its update the goroutine works on a copy.   *)
(***************************************************************************)
EXTENDS Naturals, Sequences

CONSTANTS
  Backfills,   \* control batches, each known by its idempotency key
  Requests,    \* the bounds asked for under each key; to = 0 is "up to the newest"
  Admins,      \* concurrent requests
  Looks,       \* looks a volume can have
  Refused,     \* looks Enqueue does not accept
  NoBackfill,  \* no row under the key; no batch in hand
  MaxVolume,   \* bound: the newest volume there will be
  MaxEdits,    \* bound: changes of volumes
  MaxTroubles  \* bound: ends of the process, and statements that fail

ASSUME RequestsAssumption ==
  /\ Requests \in [Backfills -> [from : Nat \ {0}, to : Nat]]
  /\ \A b \in Backfills : Requests[b].to = 0 \/ Requests[b].from <= Requests[b].to
ASSUME LooksAssumption == Refused \subseteq Looks /\ NoBackfill \notin Looks
ASSUME BoundsAssumption == MaxVolume \in Nat \ {0} /\ MaxEdits \in Nat /\ MaxTroubles \in Nat

VARIABLES
  volumes,   \* the volumes upstream, oldest first
  revised,   \* changes of volumes so far
  control,   \* ingest_batches: the control batches and their cursors
  created,   \* their order
  queue,     \* batches queued: volume and look, which make the key
  admin,     \* requests being served
  manager,   \* the goroutine of Run
  wake,      \* HelloGitHubBackfillManager.wake
  closing,   \* the context is cancelled
  misses,    \* history: failures of the volume a backfill stands at
  up,
  troubles

upstream == <<volumes, revised>>
rows == <<control, created>>
process == <<up, closing, troubles>>
vars == <<upstream, rows, queue, admin, manager, wake, misses, process>>

Size(row) == row.to - row.from + 1

NewRow(q) ==
  [status |-> "pending", from |-> q.from, to |-> q.to, next |-> q.from, attempts |-> 0,
   due |-> TRUE, success |-> 0, total |-> IF q.to = 0 THEN 0 ELSE Size(q)]

Quiet == [pc |-> "idle", key |-> NoBackfill]
Waiting == [pc |-> "wait", id |-> NoBackfill, row |-> NoBackfill, look |-> NoBackfill]

Init ==
  /\ volumes \in [{1} -> Looks]
  /\ revised = 0
  /\ control = [b \in Backfills |-> NoBackfill]
  /\ created = <<>>
  /\ queue = {}
  /\ admin = [a \in Admins |-> Quiet]
  /\ manager = Waiting
  /\ wake = FALSE
  /\ closing = FALSE
  /\ misses = [b \in Backfills |-> 0]
  /\ up = FALSE
  /\ troubles = 0

Exists(b) == control[b] # NoBackfill
Open(b) == Exists(b) /\ control[b].status \in {"pending", "processing"}
-----------------------------------------------------------------------------
(***************************************************************************)
(* Start: the requests.                                                    *)
(***************************************************************************)

\* CreateHelloGitHubBackfill looks the key up; a batch that is there answers.
Lookup(a, b) ==
  /\ up
  /\ admin[a].pc = "idle"
  /\ ~Exists(b)
  /\ admin' = [admin EXCEPT ![a] = [pc |-> "insert", key |-> b]]
  /\ UNCHANGED <<upstream, rows, queue, manager, wake, misses, process>>

\* The insert; the unique key sends the second of two requests back to the first one's row.
Insert(a) ==
  /\ admin[a].pc = "insert"
  /\ IF Exists(admin[a].key)
     THEN /\ admin' = [admin EXCEPT ![a] = Quiet]
          /\ UNCHANGED rows
     ELSE /\ control' = [control EXCEPT ![admin[a].key] = NewRow(Requests[admin[a].key])]
          /\ created' = Append(created, admin[a].key)
          /\ admin' = [admin EXCEPT ![a].pc = "notify"]
  /\ UNCHANGED <<upstream, queue, manager, wake, misses, process>>

\* Notify, after the commit.
Notify(a) ==
  /\ admin[a].pc = "notify"
  /\ wake' = TRUE
  /\ admin' = [admin EXCEPT ![a] = Quiet]
  /\ UNCHANGED <<upstream, rows, queue, manager, misses, process>>
-----------------------------------------------------------------------------
(***************************************************************************)
(* Run and ProcessNext.                                                    *)
(***************************************************************************)

GoTo(pc) == manager' = [manager EXCEPT !.pc = pc]

\* The signal or the ticker.  A cancelled context ends the loop: neither here nor at the
\* next scan does it go on.
Woken ==
  /\ up
  /\ ~closing
  /\ manager.pc = "wait"
  /\ wake
  /\ wake' = FALSE
  /\ GoTo("scan")
  /\ UNCHANGED <<upstream, rows, queue, admin, misses, process>>

Ticker ==
  /\ up
  /\ ~closing
  /\ manager.pc = "wait"
  /\ GoTo("scan")
  /\ UNCHANGED <<upstream, rows, queue, admin, wake, misses, process>>

\* A fault to be noticed: a batch is taken up once.
DueOnce(b) == Open(b) /\ control[b].status = "pending"
Due(b) == Open(b) /\ control[b].due

\* NextHelloGitHubBackfill: the oldest open batch whose next attempt is due.
Claim ==
  /\ ~closing
  /\ manager.pc = "scan"
  /\ \E i \in DOMAIN created :
       /\ Due(created[i])
       /\ \A j \in 1..(i - 1) : ~Due(created[j])
       /\ control' = [control EXCEPT ![created[i]].status = "processing"]
       /\ manager' = [pc |-> "fetch", id |-> created[i], row |-> control'[created[i]], look |-> NoBackfill]
  /\ UNCHANGED <<upstream, created, queue, admin, wake, misses, process>>

NothingDue ==
  /\ ~closing
  /\ manager.pc = "scan"
  /\ \A i \in DOMAIN created : ~Due(created[i])
  /\ manager' = Waiting
  /\ UNCHANGED <<upstream, rows, queue, admin, wake, misses, process>>

\* FetchVolume: the volume and the number of the newest one, which closes an open range.
\* A range that ends beyond it is a failure.
Fetch ==
  /\ manager.pc = "fetch"
  /\ ~closing
  /\ manager.row.next <= Len(volumes)
  /\ LET newest == Len(volumes)
         to == IF manager.row.to = 0 THEN newest ELSE manager.row.to
     IN /\ manager' = [manager EXCEPT !.row.to = to, !.look = volumes[manager.row.next],
                                      !.pc = IF to > newest THEN "fail" ELSE "enqueue"]
        /\ misses' = IF to > newest THEN [misses EXCEPT ![manager.id] = @ + 1] ELSE misses
  /\ UNCHANGED <<upstream, rows, queue, admin, wake, process>>

\* The volume is not there, cannot be reached or read, or the shutdown cancels the request.
FetchFails ==
  /\ manager.pc = "fetch"
  /\ GoTo("fail")
  /\ misses' = [misses EXCEPT ![manager.id] = @ + 1]
  /\ UNCHANGED <<upstream, rows, queue, admin, wake, process>>

\* Service.Enqueue, under a key made of the volume and its look.
Enqueue ==
  /\ manager.pc = "enqueue"
  /\ IF manager.look \in Refused
     THEN /\ GoTo("fail")
          /\ misses' = [misses EXCEPT ![manager.id] = @ + 1]
          /\ UNCHANGED queue
     ELSE /\ GoTo("advance")
          /\ queue' = queue \cup {<<manager.row.next, manager.look>>}
          /\ UNCHANGED misses
  /\ UNCHANGED <<upstream, rows, admin, wake, process>>

\* A fault to be noticed: the failures of a volume are counted against the next one.
AdvancedOnly(row) ==
  [row EXCEPT !.next = @ + 1, !.due = TRUE, !.success = @ + 1, !.total = Size(row),
              !.status = IF row.next + 1 > row.to THEN "success" ELSE "processing"]

\* A fault to be noticed: the last volume is left out.
AdvancedShort(row) ==
  [row EXCEPT !.next = @ + 1, !.attempts = 0, !.due = TRUE, !.success = @ + 1, !.total = Size(row),
              !.status = IF row.next + 1 >= row.to THEN "success" ELSE "processing"]

\* The row after a volume that was queued.
Advanced(row) ==
  [row EXCEPT !.next = @ + 1, !.attempts = 0, !.due = TRUE, !.success = @ + 1, !.total = Size(row),
              !.status = IF row.next + 1 > row.to THEN "success" ELSE "processing"]

Advance ==
  /\ manager.pc = "advance"
  /\ control' = [control EXCEPT ![manager.id] = Advanced(manager.row)]
  /\ misses' = [misses EXCEPT ![manager.id] = 0]
  /\ GoTo("scan")
  /\ UNCHANGED <<upstream, created, queue, admin, wake, process>>

MaxAttempts == 3

\* A fault to be noticed: a volume is tried for ever.
SetBack(row) ==
  [row EXCEPT !.attempts = @ + 1, !.due = FALSE, !.total = IF row.to = 0 THEN @ ELSE Size(row)]

\* recordFailure: the row after a failure.
Failed(row) ==
  [row EXCEPT !.attempts = @ + 1,
              !.status = IF row.attempts + 1 >= MaxAttempts THEN "failed" ELSE "processing",
              !.due = row.attempts + 1 >= MaxAttempts,
              !.total = IF row.to = 0 THEN @ ELSE Size(row)]

RecordFailure ==
  /\ manager.pc = "fail"
  /\ control' = [control EXCEPT ![manager.id] = Failed(manager.row)]
  /\ GoTo("scan")
  /\ UNCHANGED <<upstream, created, queue, admin, wake, misses, process>>

\* A statement of the goroutine fails, or the store is closed: the scan is over and the
\* row is as it was.  A failing Enqueue is a failure of the volume.
StatementFails ==
  /\ manager.pc \in {"scan", "enqueue", "advance", "fail"}
  /\ troubles < MaxTroubles
  /\ troubles' = troubles + 1
  /\ IF manager.pc = "enqueue"
     THEN /\ GoTo("fail")
          /\ misses' = [misses EXCEPT ![manager.id] = @ + 1]
     ELSE /\ manager' = Waiting
          /\ UNCHANGED misses
  /\ UNCHANGED <<upstream, rows, queue, admin, wake, up, closing>>

\* The time of the next attempt comes.
BecomesDue(b) ==
  /\ Open(b)
  /\ ~control[b].due
  /\ control' = [control EXCEPT ![b].due = TRUE]
  /\ UNCHANGED <<upstream, created, queue, admin, manager, wake, misses, process>>
-----------------------------------------------------------------------------
(***************************************************************************)
(* The process and HelloGitHub.                                            *)
(***************************************************************************)

\* New: Run gives itself a signal before it waits.
Start ==
  /\ ~up
  /\ up' = TRUE
  /\ wake' = TRUE
  /\ UNCHANGED <<upstream, rows, queue, admin, manager, misses, closing, troubles>>

\* Close cancels the context first.
BeginClose ==
  /\ up
  /\ ~closing
  /\ troubles < MaxTroubles
  /\ troubles' = troubles + 1
  /\ closing' = TRUE
  /\ UNCHANGED <<upstream, rows, queue, admin, manager, wake, misses, up>>

\* The rest of Close, or a crash: what was in memory is gone.
Stop ==
  /\ up
  /\ closing \/ troubles < MaxTroubles
  /\ troubles' = IF closing THEN troubles ELSE troubles + 1
  /\ up' = FALSE
  /\ closing' = FALSE
  /\ manager' = Waiting
  /\ admin' = [a \in Admins |-> Quiet]
  /\ wake' = FALSE
  /\ UNCHANGED <<upstream, rows, queue, misses>>

Publish ==
  /\ Len(volumes) < MaxVolume
  /\ \E look \in Looks : volumes' = Append(volumes, look)
  /\ UNCHANGED <<revised, rows, queue, admin, manager, wake, misses, process>>

Revise(n) ==
  /\ revised < MaxEdits
  /\ revised' = revised + 1
  /\ \E look \in Looks \ {volumes[n]} : volumes' = [volumes EXCEPT ![n] = look]
  /\ UNCHANGED <<rows, queue, admin, manager, wake, misses, process>>
-----------------------------------------------------------------------------
Process == Claim \/ NothingDue \/ Fetch \/ FetchFails \/ Enqueue \/ Advance \/ RecordFailure

Next ==
  \/ \E a \in Admins :
       \/ \E b \in Backfills : Lookup(a, b)
       \/ Insert(a)
       \/ Notify(a)
  \/ Woken
  \/ Ticker
  \/ Process
  \/ StatementFails
  \/ \E b \in Backfills : BecomesDue(b)
  \/ Start
  \/ BeginClose
  \/ Stop
  \/ Publish
  \/ \E n \in DOMAIN volumes : Revise(n)

Spec == Init /\ [][Next]_vars

\* The goroutine runs on and its requests return (the client has a timeout); the ticker
\* ticks, time passes, a process that closes ends, and is started again.
Fairness ==
  /\ WF_vars(Process)
  /\ WF_vars(Ticker)
  /\ \A b \in Backfills : WF_vars(BecomesDue(b))
  /\ WF_vars(closing /\ Stop)
  /\ WF_vars(Start)

FairSpec == Spec /\ Fairness
-----------------------------------------------------------------------------
RowState ==
  [status : {"pending", "processing", "success", "failed"}, from : Nat \ {0}, to : Nat, next : Nat,
   attempts : 0..MaxAttempts, due : BOOLEAN, success : Nat, total : Nat]

\* Nothing that is a row.
ASSUME RowsAssumption == NoBackfill \notin RowState

TypeOK ==
  /\ volumes \in Seq(Looks) \ {<<>>}
  /\ revised \in 0..MaxEdits
  /\ control \in [Backfills -> RowState \cup {NoBackfill}]
  /\ created \in Seq(Backfills)
  /\ queue \subseteq (1..MaxVolume) \X Looks
  /\ admin \in [Admins -> [pc : {"idle", "insert", "notify"}, key : Backfills \cup {NoBackfill}]]
  /\ manager \in [pc : {"wait", "scan", "fetch", "enqueue", "advance", "fail"},
                  id : Backfills \cup {NoBackfill}, row : RowState \cup {NoBackfill},
                  look : Looks \cup {NoBackfill}]
  /\ wake \in BOOLEAN
  /\ closing \in BOOLEAN
  /\ misses \in [Backfills -> Nat]
  /\ up \in BOOLEAN
  /\ troubles \in 0..MaxTroubles

\* Every volume the checkpoint has gone past is queued, the report counts exactly those,
\* and a backfill that reports success has gone through its whole range, which had been
\* published: through crashes, retries and volumes that change meanwhile.
Covered(row) ==
  /\ \A n \in row.from..(row.next - 1) : \E look \in Looks : <<n, look>> \in queue
  /\ row.success = row.next - row.from
  /\ row.status = "success" =>
       row.next = row.to + 1 /\ row.total = row.success /\ row.to <= Len(volumes)

CheckpointIsCovered == \A b \in Backfills : Exists(b) => Covered(control[b])

\* A backfill is given up only after the volume it stands at has failed three times;
\* failures of earlier volumes, and of other backfills, do not count.
GivesUpAfterThree ==
  \A b \in Backfills : Exists(b) =>
    /\ control[b].status = "failed" => misses[b] >= MaxAttempts
    /\ control[b].attempts <= misses[b]

\* Every backfill that was accepted comes to its end, also when the process stops
\* between the insert and the signal or in the middle of a volume.
EveryBackfillEnds == \A b \in Backfills : Exists(b) ~> (Exists(b) /\ ~Open(b))
=============================================================================
