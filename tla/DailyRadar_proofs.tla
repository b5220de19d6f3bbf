-------------------------- MODULE DailyRadar_proofs --------------------------
(***************************************************************************)
(* What holds of the daily radar for every set of slots, articles, imports *)
(* and readers, and however often the process or a statement fails.        *)
(***************************************************************************)
EXTENDS DailyRadar, FiniteSetTheorems, NaturalsInduction, TLAPS

\* The ids of the jobs are the first n numbers for a natural n.
Numbered == \E n \in Nat : Ids(jobs) = 1..n

\* The job in hand is nobody else's, and the candidate is the one of its article.
Holding == worker.pc \in {"verify", "publish", "fail"}

WorkIsSound ==
  /\ mode = "down" => worker.pc = "off"
  /\ Holding =>
       /\ worker.job \in Ids(jobs)
       /\ Job.status = "processing"
       /\ worker.attempts = Job.attempts
  /\ worker.pc = "publish" =>
       /\ worker.rev \in Revision
       /\ worker.rev.slot = Job.slot
       /\ worker.rev.kind = Job.req.kind
       /\ worker.rev.body = Job.req.docs[Job.slot]

Base == TypeOK /\ Numbered /\ WorkIsSound

\* A source row and the revision it points at are one document.
SourcesAreSound ==
  \A p \in DOMAIN sources :
    /\ sources[p].rev \in revisions
    /\ sources[p].rev.slot = p[1]
    /\ sources[p].rev.kind = p[2]
    /\ sources[p].rev.body = sources[p].body

Shown == SourcesAreSound /\ PublishedIsCovered /\ ShownIsCanonical

\* Every copy of the catalogue there is, with the revision it claims to be of: the
\* database, the memory, the requests under way, the lists as the clients' first
\* pages saw them.
Copies ==
  {<<catalog, publications>>, <<snapshot.rev, snapshot.items>>, <<-1, Empty>>}
    \cup {<<reader[c].snap.rev, reader[c].snap.items>> : c \in Readers}
    \cup {<<reader[c].rev, reader[c].whole>> : c \in Readers}

\* A revision of the catalogue names one list of articles.
OneContents ==
  \A x, y \in Copies : x[1] <= catalog /\ (x[1] = y[1] => x[2] = y[2])

\* What a client has so far is a first part of the list its first page was cut from.
FirstPart(f, g) ==
  /\ DOMAIN f \subseteq DOMAIN g
  /\ \A s \in DOMAIN f : f[s] = g[s]
  /\ \A s \in DOMAIN f : \A t \in DOMAIN g : t <= s => t \in DOMAIN f

WalksAreSound ==
  \A c \in Readers :
    /\ FirstPart(reader[c].got, reader[c].whole)
    /\ reader[c].pc = "done" => reader[c].got = reader[c].whole

Walks == OneContents /\ WalksAreSound

\* A job that waits, or that nobody holds any more, has an attempt in reserve; so has
\* the one in hand once the process is told to stop.
InHand(i) == Holding /\ mode = "up" /\ worker.job = i

AttemptsAreCounted ==
  \A i \in Ids(jobs) :
    /\ jobs[i].attempts <= MaxAttempts + stops + faults
    /\ jobs[i].status \notin Closed /\ ~InHand(i) =>
         jobs[i].attempts < MaxAttempts + stops + faults

(***************************************************************************)
(* The shapes of rows, lists and revisions.                                *)
(***************************************************************************)
\* A job keeps its identity while its row is written.
Moved(new, row) == new \in JobRow /\ new.req = row.req /\ new.slot = row.slot

\* One column of a job at a time, each inside its range.
LEMMA RowFields ==
  ASSUME NEW row \in JobRow
  PROVE  /\ \A v \in Waiting \cup Closed \cup {"processing"} : [row EXCEPT !.status = v] \in JobRow
         /\ \A v \in Nat : [row EXCEPT !.attempts = v] \in JobRow
         /\ \A v \in Nat : [row EXCEPT !.due = v] \in JobRow
         /\ \A v \in Revision \cup {NoRevision} : [row EXCEPT !.rev = v] \in JobRow
<1>1. \A v \in Waiting \cup Closed \cup {"processing"} : [row EXCEPT !.status = v] \in JobRow
  BY DEF JobRow
<1>2. \A v \in Nat : [row EXCEPT !.attempts = v] \in JobRow
  BY DEF JobRow
<1>3. \A v \in Nat : [row EXCEPT !.due = v] \in JobRow
  BY DEF JobRow
<1>4. \A v \in Revision \cup {NoRevision} : [row EXCEPT !.rev = v] \in JobRow
  BY DEF JobRow
<1> QED BY <1>1, <1>2, <1>3, <1>4

\* What is known of a job.
LEMMA RowFacts ==
  ASSUME NEW row \in JobRow
  PROVE  /\ row.req \in Requests /\ row.slot \in Slots /\ row.attempts \in Nat /\ row.due \in Nat
         /\ row.req.seq \in Nat /\ row.req.kind \in Kinds
         /\ row.status \in Waiting \cup Closed \cup {"processing"}
         /\ \A s \in DOMAIN row.req.docs : row.req.docs[s] \in Bodies
<1>1. row.req \in Requests /\ row.slot \in Slots /\ row.attempts \in Nat /\ row.due \in Nat
      /\ row.status \in Waiting \cup Closed \cup {"processing"}
  BY DEF JobRow
<1> QED BY <1>1, RequestsAssumption

\* The row of a job that is claimed,
LEMMA ClaimedRow ==
  ASSUME NEW row \in JobRow
  PROVE  LET new == [row EXCEPT !.status = "processing", !.attempts = @ + 1]
         IN  Moved(new, row) /\ new.status = "processing" /\ new.attempts = row.attempts + 1
<1> DEFINE r1 == [row EXCEPT !.status = "processing"]
           r2 == [r1 EXCEPT !.attempts = row.attempts + 1]
<1>1. [row EXCEPT !.status = "processing", !.attempts = @ + 1] = r2
  BY DEF JobRow
<1>2. row.attempts + 1 \in Nat
  BY RowFacts
<1>3. r1 \in JobRow
  BY RowFields
<1>4. r2.req = row.req /\ r2.slot = row.slot /\ r2.status = "processing" /\ r2.attempts = row.attempts + 1
  BY DEF JobRow
<1> HIDE DEF r1
<1>5. r2 \in JobRow
  BY <1>2, <1>3, RowFields
<1> QED BY <1>1, <1>4, <1>5 DEF Moved

\* ... is published,
LEMMA PublishedRow ==
  ASSUME NEW row \in JobRow, NEW v \in Revision
  PROVE  LET new == [row EXCEPT !.status = "published", !.rev = v]
         IN  Moved(new, row) /\ new.status = "published" /\ new.rev = v /\ new.attempts = row.attempts
<1> DEFINE r1 == [row EXCEPT !.status = "published"]
           r2 == [r1 EXCEPT !.rev = v]
<1>1. [row EXCEPT !.status = "published", !.rev = v] = r2
  BY DEF JobRow
<1>2. r1 \in JobRow
  BY RowFields DEF Closed
<1>3. r2.req = row.req /\ r2.slot = row.slot /\ r2.status = "published" /\ r2.attempts = row.attempts
      /\ r2.rev = v
  BY DEF JobRow
<1> HIDE DEF r1
<1>4. r2 \in JobRow
  BY <1>2, RowFields
<1> QED BY <1>1, <1>3, <1>4 DEF Moved

\* ... waits for another attempt,
LEMMA RetryingRow ==
  ASSUME NEW row \in JobRow, NEW d \in Nat
  PROVE  LET new == [row EXCEPT !.status = "retrying", !.due = d]
         IN  Moved(new, row) /\ new.status = "retrying" /\ new.attempts = row.attempts
<1> DEFINE r1 == [row EXCEPT !.status = "retrying"]
           r2 == [r1 EXCEPT !.due = d]
<1>1. [row EXCEPT !.status = "retrying", !.due = d] = r2
  BY DEF JobRow
<1>2. r1 \in JobRow
  BY RowFields DEF Waiting
<1>3. r2.req = row.req /\ r2.slot = row.slot /\ r2.status = "retrying" /\ r2.attempts = row.attempts
  BY DEF JobRow
<1> HIDE DEF r1
<1>4. r2 \in JobRow
  BY <1>2, RowFields
<1> QED BY <1>1, <1>3, <1>4 DEF Moved

\* ... has failed,
LEMMA FailedRow ==
  ASSUME NEW row \in JobRow
  PROVE  LET new == [row EXCEPT !.status = "failed"]
         IN  Moved(new, row) /\ new.status = "failed" /\ new.attempts = row.attempts
<1>1. [row EXCEPT !.status = "failed"] \in JobRow
  BY RowFields DEF Closed
<1> QED BY <1>1 DEF Moved, JobRow

\* ... is given back by the recovery,
LEMMA RequeuedRow ==
  ASSUME NEW row \in JobRow
  PROVE  /\ Moved(Requeued(row), row)
         /\ Requeued(row).attempts = row.attempts
         /\ Requeued(row).status = IF row.status = "processing" THEN "queued" ELSE row.status
         /\ Requeued(row).rev = row.rev
<1>1. [row EXCEPT !.status = "queued"] \in JobRow
  BY RowFields DEF Waiting
<1> QED BY <1>1 DEF Moved, JobRow, Requeued

\* ... and comes closer to its time.
LEMMA TickedRow ==
  ASSUME NEW row \in JobRow, row.due > 0
  PROVE  LET new == [row EXCEPT !.due = @ - 1]
         IN  Moved(new, row) /\ new.attempts = row.attempts /\ new.status = row.status /\ new.rev = row.rev
<1>1. row.due - 1 \in Nat
  BY RowFacts
<1>2. [row EXCEPT !.due = row.due - 1] \in JobRow
  BY <1>1, RowFields
<1> QED BY <1>2 DEF Moved, JobRow

\* A list is known by its articles.
LEMMA CatalogueMade ==
  ASSUME NEW D, D \subseteq Slots, NEW f, \A s \in D : f[s] \in Revision
  PROVE  [s \in D |-> f[s]] \in Catalogues
<1>1. [s \in D |-> f[s]] \in [D -> Revision]
  OBVIOUS
<1> QED BY <1>1 DEF Catalogues

LEMMA CatalogueFacts ==
  ASSUME NEW f \in Catalogues
  PROVE  /\ DOMAIN f \subseteq Slots
         /\ f = [s \in DOMAIN f |-> f[s]]
         /\ \A s \in DOMAIN f : f[s] \in Revision
  BY DEF Catalogues

LEMMA EmptyCatalogue == Empty \in Catalogues /\ DOMAIN Empty = {}
<1>1. Empty \in [{} -> Revision]
  BY DEF Empty
<1> QED BY <1>1 DEF Catalogues

\* An article is put into a list.
LEMMA PutIn ==
  ASSUME NEW f \in Catalogues, NEW s \in Slots, NEW v \in Revision
  PROVE  /\ Put(f, s, v) \in Catalogues
         /\ DOMAIN Put(f, s, v) = DOMAIN f \cup {s}
         /\ Put(f, s, v)[s] = v
         /\ \A t \in DOMAIN f : t # s => Put(f, s, v)[t] = f[t]
<1>1. Put(f, s, v)[s] = v /\ \A t \in DOMAIN f : t # s => Put(f, s, v)[t] = f[t]
  BY DEF Put
<1>2. Put(f, s, v) \in [DOMAIN f \cup {s} -> Revision]
  BY CatalogueFacts DEF Put
<1>3. DOMAIN f \cup {s} \in SUBSET Slots
  BY CatalogueFacts
<1> QED BY <1>1, <1>2, <1>3 DEF Catalogues

\* The correction of a revision touches its projects only, and once is enough.
LEMMA CleanFacts ==
  ASSUME NEW v \in Revision
  PROVE  /\ Clean(v) \in Revision
         /\ Clean(v).slot = v.slot /\ Clean(v).kind = v.kind /\ Clean(v).body = v.body
         /\ Clean(Clean(v)) = Clean(v)
<1>1. Clean(v) \in Revision /\ Clean(v).projects = v.projects \ Excluded
  BY DEF Clean, Revision
<1>2. Clean(v).slot = v.slot /\ Clean(v).kind = v.kind /\ Clean(v).body = v.body
  BY DEF Clean, Revision
<1>3. Clean(Clean(v)) = Clean(v)
  <2>1. Clean(v).projects \ Excluded = Clean(v).projects
    BY <1>1
  <2> QED BY <1>1, <2>1 DEF Clean, Revision
<1> QED BY <1>1, <1>2, <1>3

(***************************************************************************)
(* Types, and the job in hand.                                             *)
(***************************************************************************)
JobsOK == (\E n \in Nat : Ids(jobs) = 1..n)
          /\ \A i \in Ids(jobs) : jobs[i] \in JobRow /\ jobs[i].slot \in DOMAIN jobs[i].req.docs

SourcesOK == /\ revisions \subseteq Revision
             /\ DOMAIN sources \subseteq Slots \X Kinds
             /\ \A p \in DOMAIN sources : sources[p] \in SourceRow

ProcessOK == mode \in {"up", "stopping", "down"} /\ stops \in 0..MaxStops /\ faults \in 0..MaxFaults

\* The invariant by its tables.
Parts ==
  /\ batches \subseteq Requests
  /\ JobsOK
  /\ SourcesOK
  /\ publications \in Catalogues /\ catalog \in Nat
  /\ snapshot \in Copy
  /\ reader \in [Readers -> Client]
  /\ worker \in Work
  /\ ProcessOK

LEMMA BaseInParts == Base <=> Parts /\ WorkIsSound
<1>1. ASSUME NEW n \in Nat PROVE Cardinality(1..n) = n
  BY FS_Interval
<1>2. Numbered => Ids(jobs) = 1..Cardinality(Ids(jobs))
  BY <1>1 DEF Numbered
<1>3. Base => Parts /\ WorkIsSound
  BY Zenon DEF Base, TypeOK, Numbered, Parts, JobsOK, SourcesOK, ProcessOK
<1>4. Parts /\ WorkIsSound => Base
  BY <1>2, Zenon DEF Base, TypeOK, Numbered, Parts, JobsOK, SourcesOK, ProcessOK
<1> QED BY <1>3, <1>4

\* The same, for the next state.
LEMMA BaseInPartsNext == Base' <=> Parts' /\ WorkIsSound'
  BY BaseInParts, PTL

LEMMA FreeWork ==
  ASSUME NEW p \in {"off", "start", "claim", "wait", "verify", "publish", "fail"}
  PROVE  Free(p) \in Work /\ Free(p).pc = p
  BY DEF Free, Work

\* Jobs keep their types when their rows only move.
LEMMA JobsMove ==
  ASSUME JobsOK, Ids(jobs') = Ids(jobs), \A i \in Ids(jobs) : Moved(jobs'[i], jobs[i])
  PROVE  JobsOK'
<1>1. Ids(jobs)' = Ids(jobs)
  BY DEF Ids
<1> QED BY <1>1 DEF JobsOK, Moved

\* A worker without a job has nothing to answer for.
LEMMA NothingInHand ==
  ASSUME NEW p \in {"off", "start", "claim", "wait"}, worker' = Free(p), mode' = "down" => p = "off"
  PROVE  worker' \in Work /\ WorkIsSound' /\ ~Holding'
<1>1. worker' \in Work /\ worker'.pc = p
  BY FreeWork
<1> QED BY <1>1 DEF WorkIsSound, Holding

LEMMA InitBase == ASSUME Init PROVE Base
<1> USE DEF Init
<1>1. JobsOK
  <2>1. Ids(jobs) = 1..0
    BY EmptyCatalogue DEF Ids
  <2> QED BY <2>1 DEF JobsOK
<1>2. SourcesOK
  BY EmptyCatalogue DEF SourcesOK
<1>3. snapshot \in Copy /\ publications \in Catalogues
  BY EmptyCatalogue DEF NoSnapshot, Copy
<1>4. reader \in [Readers -> Client]
  BY EmptyCatalogue DEF Away, NoSnapshot, Copy, Client
<1>5. worker \in Work /\ WorkIsSound
  BY FreeWork DEF WorkIsSound, Holding
<1>6. ProcessOK
  BY BoundsAssumption DEF ProcessOK
<1> QED BY <1>1, <1>2, <1>3, <1>4, <1>5, <1>6, BaseInParts DEF Parts

LEMMA BaseStutter == ASSUME Base, UNCHANGED vars PROVE Base'
<1>1. Parts /\ WorkIsSound
  BY BaseInParts
<1>2. Parts'
  BY <1>1 DEF vars, Parts, JobsOK, SourcesOK, ProcessOK, Ids
<1>3. WorkIsSound'
  BY <1>1 DEF vars, WorkIsSound, Holding, Job, Ids
<1> QED BY <1>2, <1>3, BaseInPartsNext

\* The import puts new jobs behind the others.
LEMMA ImportJobs ==
  ASSUME JobsOK, NEW r \in Requests, Import(r)
  PROVE  /\ JobsOK'
         /\ Ids(jobs) \subseteq Ids(jobs')
         /\ \A i \in Ids(jobs) : jobs'[i] = jobs[i]
         /\ \A i \in Ids(jobs') \ Ids(jobs) :
              jobs'[i].status = "queued" /\ jobs'[i].attempts = 0 /\ jobs'[i].rev = NoRevision
<1> DEFINE m == Cardinality(Ids(jobs))
           k == Cardinality(DOMAIN r.docs)
<1>1. m \in Nat /\ Ids(jobs) = 1..m
  <2>1. PICK n \in Nat : Ids(jobs) = 1..n
    BY DEF JobsOK
  <2> QED BY <2>1, FS_Interval
<1>2. k \in Nat
  <2>1. DOMAIN r.docs \in SUBSET Slots
    BY RequestsAssumption
  <2> QED BY <2>1, SlotsAssumption, FS_Subset, FS_CardinalityType
<1>3. PICK order \in [1..k -> DOMAIN r.docs] :
        jobs' = [i \in 1..(m + k) |-> IF i <= m THEN jobs[i] ELSE NewJob(r, order[i - m])]
  BY Zenon DEF Import
<1> HIDE DEF m, k
<1>4. Ids(jobs') = 1..(m + k) /\ m + k \in Nat
  BY <1>1, <1>2, <1>3 DEF Ids
<1>5. \A i \in Ids(jobs) : i \in Ids(jobs') /\ jobs'[i] = jobs[i]
  BY <1>1, <1>2, <1>3, <1>4
<1>6. ASSUME NEW i \in Ids(jobs') \ Ids(jobs)
      PROVE  \E s \in DOMAIN r.docs : jobs'[i] = NewJob(r, s)
  <2>1. i \in 1..(m + k) /\ ~(i <= m)
    BY <1>1, <1>4
  <2>2. jobs'[i] = NewJob(r, order[i - m])
    BY <1>3, <2>1
  <2>3. i - m \in 1..k
    BY <1>1, <1>2, <2>1
  <2> QED BY <1>3, <2>2, <2>3
<1>7. ASSUME NEW s \in DOMAIN r.docs
      PROVE  /\ NewJob(r, s) \in JobRow
             /\ NewJob(r, s).req = r /\ NewJob(r, s).slot = s
             /\ NewJob(r, s).status = "queued" /\ NewJob(r, s).attempts = 0 /\ NewJob(r, s).rev = NoRevision
  <2>1. s \in Slots
    BY RequestsAssumption
  <2> QED BY <2>1 DEF NewJob, JobRow, Waiting
<1>8. ASSUME NEW i \in Ids(jobs')
      PROVE  jobs'[i] \in JobRow /\ jobs'[i].slot \in DOMAIN jobs'[i].req.docs
  <2>1. CASE i \in Ids(jobs)
    BY <1>5, <2>1 DEF JobsOK
  <2>2. CASE i \notin Ids(jobs)
    BY <1>6, <1>7, <2>2
  <2> QED BY <2>1, <2>2
<1>9. JobsOK'
  BY <1>4, <1>8 DEF JobsOK, Ids
<1> QED BY <1>5, <1>6, <1>7, <1>9

\* The job in hand is as sound after a step that leaves worker and its row alone.
LEMMA WorkKept ==
  ASSUME WorkIsSound, worker' = worker, mode' # "down", Ids(jobs) \subseteq Ids(jobs'),
         \A i \in Ids(jobs) : /\ jobs'[i].status = jobs[i].status /\ jobs'[i].attempts = jobs[i].attempts
                              /\ jobs'[i].slot = jobs[i].slot /\ jobs'[i].req = jobs[i].req
  PROVE  WorkIsSound'
<1>1. CASE Holding
  <2>1. worker.job \in Ids(jobs)
    BY <1>1 DEF WorkIsSound
  <2>2. worker.job \in Ids(jobs')
    BY <2>1
  <2>3. jobs'[worker.job].status = "processing" /\ worker.attempts = jobs'[worker.job].attempts
    BY <1>1, <2>1 DEF WorkIsSound, Job
  <2>4. worker.pc = "publish" =>
          /\ worker.rev \in Revision
          /\ worker.rev.slot = jobs'[worker.job].slot
          /\ worker.rev.kind = jobs'[worker.job].req.kind
          /\ worker.rev.body = jobs'[worker.job].req.docs[jobs'[worker.job].slot]
    BY <1>1, <2>1 DEF WorkIsSound, Job
  <2> QED BY <2>2, <2>3, <2>4 DEF WorkIsSound, Job, Holding, Ids
<1>2. CASE ~Holding
  BY <1>2 DEF WorkIsSound, Holding
<1> QED BY <1>1, <1>2

LEMMA ImportBase == ASSUME Base, NEW r \in Requests, Import(r) PROVE Base'
<1>1. Parts /\ WorkIsSound
  BY BaseInParts
<1>2. /\ JobsOK' /\ Ids(jobs) \subseteq Ids(jobs')
      /\ \A i \in Ids(jobs) : jobs'[i] = jobs[i]
  BY <1>1, ImportJobs DEF Parts
<1>3. /\ UNCHANGED <<revisions, sources, publications, catalog, snapshot, worker, reader, process, faults>>
      /\ batches' = batches \cup {r}
      /\ mode # "down"
  BY DEF Import
<1>4. Parts'
  BY <1>1, <1>2, <1>3 DEF Parts, SourcesOK, ProcessOK, process
<1>5. WorkIsSound'
  BY <1>1, <1>2, <1>3, WorkKept DEF process
<1> QED BY <1>4, <1>5, BaseInPartsNext

\* What the steps of the worker and of the clock that write jobs have in common.
LEMMA OnlyJobs ==
  ASSUME Parts, Ids(jobs') = Ids(jobs), \A i \in Ids(jobs) : Moved(jobs'[i], jobs[i]),
         worker' \in Work,
         UNCHANGED <<batches, revisions, sources, publications, catalog, snapshot, reader, process, faults>>
  PROVE  Parts'
<1>1. JobsOK'
  BY JobsMove DEF Parts
<1> QED BY <1>1 DEF Parts, SourcesOK, ProcessOK, process

LEMMA RecoverBase == ASSUME Base, Recover PROVE Base'
<1>1. Parts /\ WorkIsSound
  BY BaseInParts
<1>2. /\ jobs' = [i \in Ids(jobs) |-> Requeued(jobs[i])]
      /\ worker' = Free("claim")
      /\ UNCHANGED <<batches, revisions, sources, publications, catalog, snapshot, reader, process, faults>>
      /\ mode' # "down"
  BY <1>1 DEF Recover, process, WorkIsSound
<1>3. Ids(jobs') = Ids(jobs)
  BY <1>2 DEF Ids
<1>4. \A i \in Ids(jobs) : Moved(jobs'[i], jobs[i])
  BY <1>1, <1>2, RequeuedRow DEF Parts, JobsOK
<1>5. worker' \in Work /\ WorkIsSound'
  BY <1>2, NothingInHand
<1> QED BY <1>1, <1>2, <1>3, <1>4, <1>5, OnlyJobs, BaseInPartsNext

LEMMA ClaimBase == ASSUME Base, Claim PROVE Base'
<1>1. Parts /\ WorkIsSound
  BY BaseInParts
<1>2. PICK i \in Claimable :
        /\ jobs' = [jobs EXCEPT ![i] = [jobs[i] EXCEPT !.status = "processing", !.attempts = @ + 1]]
        /\ worker' = [Free("verify") EXCEPT !.job = i, !.attempts = jobs[i].attempts + 1]
  BY DEF Claim
<1> DEFINE new == [jobs[i] EXCEPT !.status = "processing", !.attempts = @ + 1]
<1>3. i \in Ids(jobs) /\ jobs[i] \in JobRow
  BY <1>1 DEF Parts, JobsOK, Claimable
<1>4. Moved(new, jobs[i]) /\ new.status = "processing" /\ new.attempts = jobs[i].attempts + 1
  BY <1>3, ClaimedRow
<1>5. jobs' = [jobs EXCEPT ![i] = new]
  BY <1>2
<1> HIDE DEF new
<1>6. Ids(jobs') = Ids(jobs) /\ jobs'[i] = new /\ \A j \in Ids(jobs) : j # i => jobs'[j] = jobs[j]
  BY <1>3, <1>5 DEF Ids
<1>7. \A j \in Ids(jobs) : Moved(jobs'[j], jobs[j])
  BY <1>1, <1>4, <1>6 DEF Parts, JobsOK, Moved
<1>8. i \in Nat /\ jobs[i].attempts + 1 \in Nat
  <2>1. jobs[i].attempts \in Nat
    BY <1>3, RowFacts
  <2>2. i \in Nat
    BY <1>1, <1>3 DEF Parts, JobsOK
  <2> QED BY <2>1, <2>2
<1>9. /\ worker' \in Work /\ worker'.pc = "verify" /\ worker'.job = i
      /\ worker'.attempts = jobs[i].attempts + 1
  BY <1>2, <1>8 DEF Free, Work
<1>10. WorkIsSound'
  BY <1>3, <1>4, <1>6, <1>9 DEF WorkIsSound, Holding, Job, Ids, Claim, process
<1> QED BY <1>1, <1>6, <1>7, <1>9, <1>10, OnlyJobs, BaseInPartsNext DEF Claim

\* The row in hand is written and the worker goes on to the next job.
LEMMA JobWritten ==
  ASSUME Parts, NEW i \in Ids(jobs), NEW new, Moved(new, jobs[i]), jobs' = [jobs EXCEPT ![i] = new]
  PROVE  /\ Ids(jobs') = Ids(jobs)
         /\ jobs'[i] = new /\ \A j \in Ids(jobs) : j # i => jobs'[j] = jobs[j]
         /\ \A j \in Ids(jobs) : Moved(jobs'[j], jobs[j])
<1>1. Ids(jobs') = Ids(jobs)
  BY DEF Ids
<1>2. jobs'[i] = new /\ \A j \in Ids(jobs) : j # i => jobs'[j] = jobs[j]
  BY DEF Ids
<1> QED BY <1>1, <1>2 DEF Parts, JobsOK, Moved

\* What the transaction of a publication finds: the job, its article and its place.
LEMMA CandidateFacts ==
  ASSUME Base, worker.pc = "publish"
  PROVE  /\ worker.job \in Ids(jobs) /\ Job \in JobRow /\ Job.status = "processing"
         /\ worker.rev \in Revision /\ worker.rev.slot = Job.slot /\ worker.rev.kind = Job.req.kind
         /\ worker.rev.body = Job.req.docs[Job.slot]
         /\ Job.req.seq \in Nat
         /\ Place = <<Job.slot, Job.req.kind>> /\ Place \in Slots \X Kinds
         /\ mode # "down"
<1>1. WorkIsSound /\ Parts
  BY BaseInParts
<1>2. /\ worker.job \in Ids(jobs) /\ Job.status = "processing"
      /\ worker.rev \in Revision /\ worker.rev.slot = Job.slot /\ worker.rev.kind = Job.req.kind
      /\ worker.rev.body = Job.req.docs[Job.slot] /\ mode # "down"
  BY <1>1 DEF WorkIsSound, Holding
<1>3. Job \in JobRow
  BY <1>1, <1>2 DEF Parts, JobsOK, Job
<1>4. Job.req.seq \in Nat /\ Job.slot \in Slots /\ Job.req.kind \in Kinds
  BY <1>3, RowFacts
<1>5. Place = <<Job.slot, Job.req.kind>>
  BY <1>2 DEF Place
<1> QED BY <1>2, <1>3, <1>4, <1>5

LEMMA PublishLateBase == ASSUME Base, PublishLate PROVE Base'
<1>1. Parts /\ WorkIsSound
  BY BaseInParts
<1>2. worker.job \in Ids(jobs) /\ Job \in JobRow /\ mode # "down" /\ Place \in DOMAIN sources
  BY CandidateFacts DEF PublishLate, Late, Known
<1> DEFINE new == [Job EXCEPT !.status = "published", !.rev = sources[Place].rev]
<1>3. sources[Place].rev \in Revision
  BY <1>1, <1>2 DEF Parts, SourcesOK, SourceRow
<1>4. Moved(new, jobs[worker.job])
  BY <1>2, <1>3, PublishedRow DEF Job
<1>5. jobs' = [jobs EXCEPT ![worker.job] = new]
  BY DEF PublishLate, Job
<1> HIDE DEF new
<1>6. Ids(jobs') = Ids(jobs) /\ \A j \in Ids(jobs) : Moved(jobs'[j], jobs[j])
  BY <1>1, <1>2, <1>4, <1>5, JobWritten
<1>7. worker' \in Work /\ WorkIsSound'
  BY <1>2, NothingInHand DEF PublishLate, process
<1> QED BY <1>1, <1>6, <1>7, OnlyJobs, BaseInPartsNext DEF PublishLate

LEMMA FailBase == ASSUME Base, Fail PROVE Base'
<1>1. Parts /\ WorkIsSound
  BY BaseInParts
<1>2. worker.job \in Ids(jobs) /\ Job \in JobRow
  BY <1>1 DEF Fail, WorkIsSound, Holding, Parts, JobsOK, Job
<1> DEFINE new == IF Retry THEN [Job EXCEPT !.status = "retrying", !.due = worker.attempts]
                  ELSE [Job EXCEPT !.status = "failed"]
<1>3. worker.attempts \in Nat
  BY <1>1 DEF Parts, Work
<1>4. Moved(new, jobs[worker.job])
  BY <1>2, <1>3, RetryingRow, FailedRow DEF Job
<1>5. jobs' = [jobs EXCEPT ![worker.job] = new]
  BY DEF Fail, Job
<1> HIDE DEF new
<1>6. Ids(jobs') = Ids(jobs) /\ \A j \in Ids(jobs) : Moved(jobs'[j], jobs[j])
  BY <1>1, <1>2, <1>4, <1>5, JobWritten
<1>7. worker' \in Work /\ WorkIsSound'
  BY NothingInHand DEF Fail, process
<1> QED BY <1>1, <1>6, <1>7, OnlyJobs, BaseInPartsNext DEF Fail

\* A tick brings due jobs closer and changes nothing else of them.
LEMMA TickJobs ==
  ASSUME Parts, Tick
  PROVE  /\ Ids(jobs') = Ids(jobs)
         /\ \A i \in Ids(jobs) : /\ Moved(jobs'[i], jobs[i])
                                 /\ jobs'[i].status = jobs[i].status
                                 /\ jobs'[i].attempts = jobs[i].attempts
                                 /\ jobs'[i].rev = jobs[i].rev
<1>1. jobs' = [i \in Ids(jobs) |-> IF jobs[i].due > 0 THEN [jobs[i] EXCEPT !.due = @ - 1] ELSE jobs[i]]
  BY DEF Tick
<1>2. Ids(jobs') = Ids(jobs)
  BY <1>1 DEF Ids
<1>3. ASSUME NEW i \in Ids(jobs)
      PROVE  /\ Moved(jobs'[i], jobs[i])
             /\ jobs'[i].status = jobs[i].status
             /\ jobs'[i].attempts = jobs[i].attempts
             /\ jobs'[i].rev = jobs[i].rev
  <2>1. jobs[i] \in JobRow
    BY DEF Parts, JobsOK
  <2>2. CASE jobs[i].due > 0
    BY <1>1, <2>1, <2>2, TickedRow
  <2>3. CASE ~(jobs[i].due > 0)
    BY <1>1, <2>1, <2>3 DEF Moved
  <2> QED BY <2>2, <2>3
<1> QED BY <1>2, <1>3

LEMMA TickBase == ASSUME Base, Tick PROVE Base'
<1>1. Parts /\ WorkIsSound
  BY BaseInParts
<1>2. worker' = worker /\ mode' = mode
      /\ UNCHANGED <<batches, revisions, sources, publications, catalog, snapshot, reader, process, faults>>
  BY DEF Tick, process
<1>3. Parts'
  BY <1>1, <1>2, TickJobs, OnlyJobs DEF Parts
<1>4. WorkIsSound'
  <2>1. CASE mode = "down"
    BY <1>1, <1>2, <2>1 DEF WorkIsSound, Holding
  <2>2. CASE mode # "down"
    BY <1>1, <1>2, <2>2, TickJobs, WorkKept DEF Moved
  <2> QED BY <2>1, <2>2
<1> QED BY <1>3, <1>4, BaseInPartsNext

\* The revision a slot is to show is one of a source row of it.
LEMMA CanonicalRow ==
  ASSUME NEW src, NEW s, NEW k \in Kinds, <<s, k>> \in DOMAIN src
  PROVE  \E q \in Kinds : /\ <<s, q>> \in DOMAIN src
                          /\ q = "starcat" \/ <<s, "starcat">> \notin DOMAIN src
                          /\ Canonical(src, s) = src[<<s, q>>].rev
<1>1. CASE <<s, "starcat">> \in DOMAIN src
  BY <1>1 DEF Canonical, Kinds
<1>2. CASE <<s, "starcat">> \notin DOMAIN src
  BY <1>2 DEF Canonical, Kinds
<1> QED BY <1>1, <1>2

\* The tables of a publication.
LEMMA PublishTables ==
  ASSUME Base, Publish
  PROVE  LET row == [seq |-> Job.req.seq, body |-> worker.rev.body, rev |-> worker.rev]
             s == worker.rev.slot
         IN  /\ row \in SourceRow
             /\ sources' = Put(sources, Place, row)
             /\ DOMAIN sources' = DOMAIN sources \cup {Place}
             /\ sources'[Place] = row
             /\ \A p \in DOMAIN sources : p # Place => sources'[p] = sources[p]
             /\ SourcesOK'
             /\ Canonical(sources', s) \in Revision
             /\ publications' = Put(publications, s, Canonical(sources', s))
             /\ publications' \in Catalogues
             /\ catalog' = Bump(s, Canonical(sources', s))
<1>1. Parts
  BY BaseInParts
<1>2. /\ worker.rev \in Revision /\ Place \in Slots \X Kinds /\ Place = <<worker.rev.slot, worker.rev.kind>>
      /\ Job.req.seq \in Nat
  BY CandidateFacts DEF Publish, Place
<1> DEFINE row == [seq |-> Job.req.seq, body |-> worker.rev.body, rev |-> worker.rev]
           s == worker.rev.slot
<1>3. row \in SourceRow /\ row.rev = worker.rev
  BY <1>2 DEF SourceRow, Revision
<1>4. /\ sources' = Put(sources, Place, row)
      /\ publications' = Put(publications, s, Canonical(sources', s))
      /\ catalog' = Bump(s, Canonical(sources', s))
      /\ revisions' = revisions \cup {worker.rev}
  BY Zenon DEF Publish
<1> HIDE DEF row
<1>5. /\ DOMAIN sources' = DOMAIN sources \cup {Place}
      /\ sources'[Place] = row
      /\ \A p \in DOMAIN sources : p # Place => sources'[p] = sources[p]
  BY <1>4 DEF Put
<1>6. SourcesOK'
  BY <1>1, <1>2, <1>3, <1>4, <1>5 DEF Parts, SourcesOK
<1>7. Canonical(sources', s) \in Revision
  <2>1. <<s, worker.rev.kind>> \in DOMAIN sources' /\ worker.rev.kind \in Kinds
    BY <1>2, <1>5
  <2>2. PICK q \in Kinds : <<s, q>> \in DOMAIN sources' /\ Canonical(sources', s) = sources'[<<s, q>>].rev
    BY <2>1, CanonicalRow
  <2> QED BY <1>6, <2>2 DEF SourcesOK, SourceRow
<1>8. publications' \in Catalogues
  <2>1. s \in Slots
    BY <1>2
  <2> QED BY <1>1, <1>4, <1>7, <2>1, PutIn DEF Parts
<1> QED BY <1>3, <1>4, <1>5, <1>6, <1>7, <1>8 DEF row

LEMMA BumpFacts ==
  ASSUME catalog \in Nat, NEW s, NEW v
  PROVE  /\ Bump(s, v) \in Nat
         /\ Shows(s, v) => Bump(s, v) = catalog
         /\ ~Shows(s, v) => Bump(s, v) = catalog + 1
  BY DEF Bump

LEMMA PublishBase == ASSUME Base, Publish PROVE Base'
<1>1. Parts /\ WorkIsSound
  BY BaseInParts
<1>2. worker.job \in Ids(jobs) /\ Job \in JobRow /\ mode # "down" /\ worker.rev \in Revision
  BY CandidateFacts DEF Publish
<1> DEFINE new == [Job EXCEPT !.status = "published", !.rev = worker.rev]
<1>3. Moved(new, jobs[worker.job])
  BY <1>2, PublishedRow DEF Job
<1>4. jobs' = [jobs EXCEPT ![worker.job] = new]
  BY DEF Publish, Job
<1> HIDE DEF new
<1>5. Ids(jobs') = Ids(jobs) /\ \A j \in Ids(jobs) : Moved(jobs'[j], jobs[j])
  BY <1>1, <1>2, <1>3, <1>4, JobWritten
<1>6. JobsOK'
  BY <1>1, <1>5, JobsMove DEF Parts
<1>7. UNCHANGED <<batches, snapshot, reader, process, faults>> /\ worker' = Free("claim")
  BY DEF Publish
<1>8. worker' \in Work /\ WorkIsSound'
  BY <1>2, <1>7, NothingInHand DEF process
<1>9. SourcesOK' /\ publications' \in Catalogues /\ catalog' \in Nat
  BY <1>1, PublishTables, BumpFacts DEF Parts
<1> QED BY <1>1, <1>6, <1>7, <1>8, <1>9, BaseInPartsNext DEF Parts, ProcessOK, process

(***************************************************************************)
(* Steps of the worker that write no table.                                *)
(***************************************************************************)
LEMMA OnlyWorker ==
  ASSUME Parts, worker' \in Work, UNCHANGED <<tables, snapshot, reader, process>>,
         faults' \in 0..MaxFaults
  PROVE  Parts'
  BY DEF Parts, JobsOK, SourcesOK, ProcessOK, process, tables, Ids

\* The worker keeps its job and goes on to publish or to fail.
LEMMA WorkMoves ==
  ASSUME Base, Holding, UNCHANGED <<tables, snapshot, reader, process>>,
         worker' \in Work, worker'.job = worker.job, worker'.attempts = worker.attempts,
         worker'.pc \in {"publish", "fail"},
         worker'.pc = "publish" =>
           /\ worker'.rev \in Revision
           /\ worker'.rev.slot = Job.slot
           /\ worker'.rev.kind = Job.req.kind
           /\ worker'.rev.body = Job.req.docs[Job.slot]
  PROVE  WorkIsSound'
<1>1. WorkIsSound
  BY BaseInParts
<1>2. mode # "down" /\ mode' = mode /\ jobs' = jobs
  BY <1>1 DEF WorkIsSound, Holding, process, tables
<1> QED BY <1>1, <1>2 DEF WorkIsSound, Job, Holding, Ids

LEMMA VerifyBase == ASSUME Base, Verify PROVE Base'
<1>1. Parts /\ WorkIsSound
  BY BaseInParts
<1>2. Holding /\ worker.job \in Ids(jobs) /\ Job \in JobRow /\ Job.slot \in DOMAIN Job.req.docs
  BY <1>1 DEF Verify, WorkIsSound, Holding, Parts, JobsOK, Job
<1> DEFINE body == Job.req.docs[Job.slot]
<1>3. PICK found \in SUBSET (LinksOf[body] \ {SourceRepo[Job.req.kind]}), part \in Partial(body) :
        worker' = [worker EXCEPT !.pc = "publish",
                                 !.rev = [slot |-> Job.slot, kind |-> Job.req.kind, body |-> body,
                                          projects |-> found, partial |-> part]]
  BY DEF Verify
<1>4. body \in Bodies /\ Job.slot \in Slots /\ Job.req.kind \in Kinds
  BY <1>2, RowFacts
<1> HIDE DEF body
<1>5. found \in SUBSET Repos
  BY <1>3, <1>4, LinksAssumption
<1>6. part \in BOOLEAN
  <2>1. CASE body \in LongBodies
    BY <1>3, <2>1 DEF Partial
  <2>2. CASE body \notin LongBodies
    BY <1>3, <2>2 DEF Partial
  <2> QED BY <2>1, <2>2
<1> DEFINE v == [slot |-> Job.slot, kind |-> Job.req.kind, body |-> body,
                 projects |-> found, partial |-> part]
<1>7. v \in Revision /\ v.slot = Job.slot /\ v.kind = Job.req.kind /\ v.body = body
  BY <1>4, <1>5, <1>6 DEF Revision
<1>8. worker' = [worker EXCEPT !.pc = "publish", !.rev = v]
  BY <1>3
<1> HIDE DEF v
<1>9. worker \in Work
  BY <1>1 DEF Parts
<1>10. /\ worker' \in Work /\ worker'.pc = "publish" /\ worker'.rev = v
       /\ worker'.job = worker.job /\ worker'.attempts = worker.attempts
  BY <1>7, <1>8, <1>9 DEF Work
<1>11. Parts'
  BY <1>1, <1>10, OnlyWorker DEF Verify, Parts, ProcessOK
<1>12. WorkIsSound'
  BY <1>2, <1>7, <1>10, WorkMoves DEF Verify, body
<1> QED BY <1>11, <1>12, BaseInPartsNext

LEMMA WorkerBase ==
  ASSUME Base, ClaimNothing \/ Scan \/ VerifyFails \/ PublishConflict \/ StopWorker \/ StatementFails
  PROVE  Base'
<1>1. Parts /\ WorkIsSound
  BY BaseInParts
<1>2. UNCHANGED <<tables, snapshot, reader, process>> /\ faults' \in 0..MaxFaults
  <2>1. faults' = faults \/ (faults < MaxFaults /\ faults' = faults + 1)
    BY DEF ClaimNothing, Scan, VerifyFails, PublishConflict, StopWorker, StatementFails
  <2>2. faults' \in 0..MaxFaults
    BY <1>1, <2>1, BoundsAssumption DEF Parts, ProcessOK
  <2> QED BY <2>2 DEF ClaimNothing, Scan, VerifyFails, PublishConflict, StopWorker, StatementFails
<1>3. worker \in Work
  BY <1>1 DEF Parts
<1>4. \/ /\ worker.pc # "off"
         /\ \E p \in {"off", "start", "claim", "wait"} : worker' = Free(p)
      \/ Holding /\ worker' \in {[worker EXCEPT !.pc = "fail"], [worker EXCEPT !.pc = "fail", !.conflict = TRUE]}
  <2>1. CASE ClaimNothing \/ Scan \/ StopWorker
    BY <2>1 DEF ClaimNothing, Scan, StopWorker
  <2>2. CASE VerifyFails \/ PublishConflict
    BY <2>2 DEF VerifyFails, PublishConflict, Holding
  <2>3. CASE StatementFails
    BY <2>3, Zenon DEF StatementFails, Holding
  <2> QED BY <2>1, <2>2, <2>3
<1>5. CASE worker.pc # "off" /\ \E p \in {"off", "start", "claim", "wait"} : worker' = Free(p)
  <2>1. PICK p \in {"off", "start", "claim", "wait"} : worker' = Free(p)
    BY <1>5
  <2>2. mode' # "down"
    BY <1>1, <1>2, <1>5 DEF WorkIsSound, process
  <2>3. worker' \in Work /\ WorkIsSound'
    BY <2>1, <2>2, NothingInHand
  <2> QED BY <1>1, <1>2, <2>3, OnlyWorker, BaseInPartsNext
<1>6. CASE Holding /\ worker' \in {[worker EXCEPT !.pc = "fail"], [worker EXCEPT !.pc = "fail", !.conflict = TRUE]}
  <2>1. /\ worker' \in Work /\ worker'.pc = "fail"
        /\ worker'.job = worker.job /\ worker'.attempts = worker.attempts
    BY <1>3, <1>6 DEF Work
  <2>2. WorkIsSound'
    BY <1>2, <1>6, <2>1, WorkMoves
  <2> QED BY <1>1, <1>2, <2>1, <2>2, OnlyWorker, BaseInPartsNext
<1> QED BY <1>4, <1>5, <1>6

(***************************************************************************)
(* Readers, the repair and the process.                                    *)
(***************************************************************************)
\* One column of a client at a time, then all of them.
LEMMA ClientFields ==
  ASSUME NEW w \in Client
  PROVE  /\ \A v \in {"idle", "reading", "walking", "done"} : [w EXCEPT !.pc = v] \in Client
         /\ \A v \in Copy : [w EXCEPT !.snap = v] \in Client
         /\ \A v \in BOOLEAN : [w EXCEPT !.read = v] \in Client
         /\ \A v \in Int : [w EXCEPT !.rev = v] \in Client
         /\ \A v \in Catalogues : [w EXCEPT !.got = v] \in Client
         /\ \A v \in Catalogues : [w EXCEPT !.whole = v] \in Client
<1>1. \A v \in {"idle", "reading", "walking", "done"} : [w EXCEPT !.pc = v] \in Client
  BY DEF Client
<1>2. \A v \in Copy : [w EXCEPT !.snap = v] \in Client
  BY DEF Client
<1>3. \A v \in BOOLEAN : [w EXCEPT !.read = v] \in Client
  BY DEF Client
<1>4. \A v \in Int : [w EXCEPT !.rev = v] \in Client
  BY DEF Client
<1>5. \A v \in Catalogues : [w EXCEPT !.got = v] \in Client
  BY DEF Client
<1>6. \A v \in Catalogues : [w EXCEPT !.whole = v] \in Client
  BY DEF Client
<1> QED BY <1>1, <1>2, <1>3, <1>4, <1>5, <1>6

Asking(w, snap, read, rev, got, whole) ==
  [w EXCEPT !.pc = "reading", !.snap = snap, !.read = read,
            !.rev = rev, !.got = got, !.whole = whole]

LEMMA ClientWritten ==
  ASSUME NEW w \in Client, NEW snap \in Copy, NEW read \in BOOLEAN, NEW rev \in Int,
         NEW got \in Catalogues, NEW whole \in Catalogues
  PROVE  LET new == Asking(w, snap, read, rev, got, whole)
         IN  /\ new \in Client
             /\ new.pc = "reading" /\ new.snap = snap
             /\ new.rev = rev /\ new.got = got /\ new.whole = whole
<1> DEFINE r1 == [w EXCEPT !.pc = "reading"]
           r2 == [r1 EXCEPT !.snap = snap]
           r3 == [r2 EXCEPT !.read = read]
           r4 == [r3 EXCEPT !.rev = rev]
           r5 == [r4 EXCEPT !.got = got]
           r6 == [r5 EXCEPT !.whole = whole]
<1>1. Asking(w, snap, read, rev, got, whole) = r6
  BY DEF Asking
<1>2. r6.pc = "reading" /\ r6.snap = snap
  BY DEF Client
<1>3. r6.rev = rev /\ r6.got = got /\ r6.whole = whole
  BY DEF Client
<1>4. r1 \in Client
  BY ClientFields
<1> HIDE DEF r1
<1>5. r2 \in Client
  BY <1>4, ClientFields
<1> HIDE DEF r2
<1>6. r3 \in Client
  BY <1>5, ClientFields
<1> HIDE DEF r3
<1>7. r4 \in Client
  BY <1>6, ClientFields
<1> HIDE DEF r4
<1>8. r5 \in Client
  BY <1>7, ClientFields
<1> HIDE DEF r5
<1>9. r6 \in Client
  BY <1>8, ClientFields
<1> QED BY <1>1, <1>2, <1>3, <1>9

\* A request reads the catalogue, or takes the copy in memory.
LEMMA ReadingClient ==
  ASSUME Parts, NEW c \in Readers, ReadCatalog(c)
  PROVE  LET w == reader[c]
             walks == w.pc = "walking"
         IN  /\ reader'[c].pc = "reading"
             /\ \/ snapshot.rev = catalog /\ reader'[c].snap = snapshot
                \/ snapshot.rev # catalog /\ reader'[c].snap = [rev |-> catalog, items |-> publications]
             /\ reader'[c].rev = IF walks THEN w.rev ELSE -1
             /\ reader'[c].got = IF walks THEN w.got ELSE Empty
             /\ reader'[c].whole = IF walks THEN w.whole ELSE Empty
             /\ reader' \in [Readers -> Client]
             /\ \A d \in Readers : d # c => reader'[d] = reader[d]
<1> DEFINE w == reader[c]
           walks == w.pc = "walking"
           snap == IF snapshot.rev = catalog THEN snapshot ELSE [rev |-> catalog, items |-> publications]
           rev == IF walks THEN w.rev ELSE -1
           got == IF walks THEN w.got ELSE Empty
           whole == IF walks THEN w.whole ELSE Empty
           new == [w EXCEPT !.pc = "reading", !.snap = snap, !.read = snapshot.rev # catalog,
                            !.rev = rev, !.got = got, !.whole = whole]
<1>1. w \in Client /\ reader \in [Readers -> Client]
  BY DEF Parts
<1>2. reader' = [reader EXCEPT ![c] = new]
  BY DEF ReadCatalog
<1>3. snap \in Copy
  BY DEF Parts, Copy
<1>4. rev \in Int /\ got \in Catalogues /\ whole \in Catalogues
  BY <1>1, EmptyCatalogue DEF Client
<1> DEFINE read == snapshot.rev # catalog
<1>5. read \in BOOLEAN
  OBVIOUS
<1> HIDE DEF snap, rev, got, whole, read
<1>6. new = Asking(w, snap, read, rev, got, whole)
  BY DEF Asking, read
<1> HIDE DEF new, w
<1>7. /\ new \in Client
      /\ new.pc = "reading" /\ new.snap = snap
      /\ new.rev = rev /\ new.got = got /\ new.whole = whole
  BY <1>1, <1>3, <1>4, <1>5, <1>6, ClientWritten
<1>8. reader'[c] = new /\ reader' \in [Readers -> Client] /\ \A d \in Readers : d # c => reader'[d] = reader[d]
  BY <1>1, <1>2, <1>7
<1> QED BY <1>7, <1>8 DEF w, snap, rev, got, whole

(***************************************************************************)
(* Nth: a first part of a list that is shorter than the list goes on with  *)
(* the least of the articles it has not.                                   *)
(***************************************************************************)
Below(S, m) == {t \in S : t <= m}

LEMMA LeastOf ==
  ASSUME NEW S, S \subseteq Nat, S # {}
  PROVE  \E m \in S : \A t \in S : m <= t
<1>1. IsWellFoundedOn(OpToRel(<, Nat), Nat)
  BY NatLessThanWellFounded
<1>2. PICK m \in S : \A t \in S : ~(<<t, m>> \in OpToRel(<, Nat))
  BY <1>1, WFMin
<1>3. ASSUME NEW t \in S PROVE m <= t
  <2>1. ~(t < m)
    BY <1>2 DEF OpToRel
  <2> QED BY <2>1
<1> QED BY <1>3

\* Fewer articles are below a smaller one.
LEMMA BelowGrows ==
  ASSUME NEW S, S \subseteq Nat, IsFiniteSet(S), NEW a \in S, NEW b \in S, a < b
  PROVE  Cardinality(Below(S, a)) # Cardinality(Below(S, b))
<1>1. Below(S, b) \in SUBSET S /\ IsFiniteSet(Below(S, b))
  BY FS_Subset DEF Below
<1>2. Below(S, a) \in SUBSET Below(S, b)
  <2>1. \A t \in S : t <= a => t <= b
    BY SMT
  <2> QED BY <2>1 DEF Below
<1>3. b \in Below(S, b) /\ b \notin Below(S, a)
  BY DEF Below
<1> QED BY <1>1, <1>2, <1>3, FS_Subset

LEMMA NthArticle ==
  ASSUME NEW S, S \subseteq Nat, IsFiniteSet(S), NEW G, G \subseteq S,
         \A s \in G : \A t \in S : t <= s => t \in G,
         Cardinality(G) < Cardinality(S)
  PROVE  LET s == Nth(S, Cardinality(G) + 1)
         IN  s \in S /\ s \notin G /\ \A t \in S : t <= s => t \in G \cup {s}
<1>1. IsFiniteSet(G) /\ Cardinality(G) \in Nat /\ Cardinality(S) \in Nat
  BY FS_Subset, FS_CardinalityType
<1>2. S \ G # {}
  <2>1. S # G
    BY <1>1
  <2> QED BY <2>1
<1>3. PICK m \in S \ G : \A t \in S \ G : m <= t
  <2>1. S \ G \subseteq Nat
    OBVIOUS
  <2> QED BY <1>2, <2>1, LeastOf
<1>4. Below(S, m) = G \cup {m}
  <2>1. ASSUME NEW t \in S, t <= m PROVE t \in G \cup {m}
    BY <1>3, <2>1
  <2>2. ASSUME NEW t \in G PROVE t \in S /\ t <= m
    <3>1. t \in Nat /\ m \in Nat /\ ~(m <= t)
      BY <1>3, <2>2
    <3> QED BY <3>1
  <2>3. m \in Below(S, m)
    BY DEF Below
  <2> QED BY <2>1, <2>2, <2>3 DEF Below
<1>5. Cardinality(Below(S, m)) = Cardinality(G) + 1
  BY <1>1, <1>3, <1>4, FS_AddElement
<1>6. ASSUME NEW s \in S, Cardinality(Below(S, s)) = Cardinality(G) + 1 PROVE s = m
  <2>1. ~(s < m) /\ ~(m < s)
    BY <1>5, <1>6, BelowGrows
  <2> QED BY <2>1
<1>7. Nth(S, Cardinality(G) + 1) = m
  <2>1. Nth(S, Cardinality(G) + 1) = CHOOSE s \in S : Cardinality(Below(S, s)) = Cardinality(G) + 1
    BY DEF Nth, Below
  <2> HIDE DEF Nth
  <2> QED BY <1>5, <1>6, <2>1
<1> QED BY <1>3, <1>4, <1>7 DEF Below

\* A first part that is as long as the list is the list.
LEMMA WholeList ==
  ASSUME NEW f \in Catalogues, NEW g \in Catalogues, FirstPart(f, g),
         Cardinality(DOMAIN f) >= Cardinality(DOMAIN g)
  PROVE  f = g
<1>1. DOMAIN g \in SUBSET Slots /\ DOMAIN f \in SUBSET DOMAIN g
  BY CatalogueFacts DEF FirstPart
<1>2. IsFiniteSet(DOMAIN g) /\ IsFiniteSet(DOMAIN f)
  BY <1>1, SlotsAssumption, FS_Subset
<1>3. DOMAIN f = DOMAIN g
  <2>1. Cardinality(DOMAIN f) \in Nat /\ Cardinality(DOMAIN g) \in Nat
    BY <1>2, FS_CardinalityType
  <2>2. Cardinality(DOMAIN f) <= Cardinality(DOMAIN g)
    BY <1>1, <1>2, FS_Subset
  <2>3. Cardinality(DOMAIN f) = Cardinality(DOMAIN g)
    BY <2>1, <2>2
  <2> QED BY <1>1, <1>2, <2>3, FS_Subset
<1>4. f = [s \in DOMAIN f |-> f[s]] /\ g = [s \in DOMAIN g |-> g[s]]
  BY CatalogueFacts
<1>5. \A s \in DOMAIN f : f[s] = g[s]
  BY DEF FirstPart
<1>6. [s \in DOMAIN f |-> f[s]] = [s \in DOMAIN g |-> g[s]]
  BY <1>3, <1>5
<1> QED BY <1>4, <1>6

\* The next article makes a longer first part.
LEMMA NextArticle ==
  ASSUME NEW f \in Catalogues, NEW g \in Catalogues, FirstPart(f, g),
         NEW n, n = Cardinality(DOMAIN f) + 1, n <= Cardinality(DOMAIN g)
  PROVE  LET s == Nth(DOMAIN g, n)
             new == Put(f, s, g[s])
         IN  /\ new \in Catalogues /\ FirstPart(new, g)
             /\ Cardinality(DOMAIN new) = n
<1>1. DOMAIN g \in SUBSET Slots /\ DOMAIN f \in SUBSET DOMAIN g
  BY CatalogueFacts DEF FirstPart
<1>2. IsFiniteSet(DOMAIN g) /\ IsFiniteSet(DOMAIN f) /\ DOMAIN g \subseteq Nat
  BY <1>1, SlotsAssumption, FS_Subset
<1>3. Cardinality(DOMAIN f) \in Nat /\ Cardinality(DOMAIN g) \in Nat
  BY <1>2, FS_CardinalityType
<1> DEFINE s == Nth(DOMAIN g, n)
           new == Put(f, s, g[s])
<1>4. s \in DOMAIN g /\ s \notin DOMAIN f /\ \A t \in DOMAIN g : t <= s => t \in DOMAIN f \cup {s}
  <2>1. \A u \in DOMAIN f : \A t \in DOMAIN g : t <= u => t \in DOMAIN f
    BY DEF FirstPart
  <2>2. Cardinality(DOMAIN f) < Cardinality(DOMAIN g)
    BY <1>3
  <2> QED BY <1>1, <1>2, <2>1, <2>2, NthArticle
<1> HIDE DEF s
<1>5. s \in Slots /\ g[s] \in Revision
  BY <1>1, <1>4, CatalogueFacts
<1>6. /\ new \in Catalogues /\ DOMAIN new = DOMAIN f \cup {s}
      /\ new[s] = g[s] /\ \A t \in DOMAIN f : t # s => new[t] = f[t]
  <2> DEFINE v == g[s]
  <2>1. v \in Revision
    BY <1>5
  <2> HIDE DEF v
  <2>2. /\ Put(f, s, v) \in Catalogues
        /\ DOMAIN Put(f, s, v) = DOMAIN f \cup {s}
        /\ Put(f, s, v)[s] = v
        /\ \A t \in DOMAIN f : t # s => Put(f, s, v)[t] = f[t]
    BY <1>5, <2>1, PutIn
  <2> QED BY <2>2 DEF v
<1> HIDE DEF new
<1>7. Cardinality(DOMAIN new) = n
  BY <1>2, <1>4, <1>6, FS_AddElement
<1>8. FirstPart(new, g)
  <2>1. DOMAIN new \subseteq DOMAIN g
    BY <1>1, <1>4, <1>6
  <2>2. \A t \in DOMAIN new : new[t] = g[t]
    BY <1>6 DEF FirstPart
  <2>3. \A u \in DOMAIN new : \A t \in DOMAIN g : t <= u => t \in DOMAIN new
    BY <1>4, <1>6 DEF FirstPart
  <2> QED BY <2>1, <2>2, <2>3 DEF FirstPart
<1> QED BY <1>6, <1>7, <1>8 DEF s, new

(***************************************************************************)
(* The answer to a request for a page.                                     *)
(***************************************************************************)
\* What the client has is a first part of the catalogue its request works on, unless
\* its cursor is of another revision.
LEMMA SameList ==
  ASSUME Parts, Walks, NEW c \in Readers, ~StaleCursor(reader[c])
  PROVE  /\ FirstPart(reader[c].got, reader[c].snap.items)
         /\ reader[c].rev # -1 => reader[c].whole = reader[c].snap.items
<1> DEFINE w == reader[c]
<1>1. w \in Client /\ FirstPart(w.got, w.whole)
  BY DEF Parts, Walks, WalksAreSound
<1>2. <<w.rev, w.whole>> \in Copies /\ <<w.snap.rev, w.snap.items>> \in Copies /\ <<-1, Empty>> \in Copies
  BY DEF Copies
<1>3. \A x, y \in Copies : x[1] = y[1] => x[2] = y[2]
  BY DEF Walks, OneContents
<1> HIDE DEF w
<1>4. CASE w.rev = -1
  <2>1. w.whole = Empty
    BY <1>2, <1>3, <1>4
  <2>2. DOMAIN w.got = {}
    BY <1>1, <2>1, EmptyCatalogue DEF FirstPart
  <2> QED BY <1>4, <2>2 DEF FirstPart, w
<1>5. CASE w.rev # -1
  <2>1. w.rev = w.snap.rev
    BY <1>5 DEF StaleCursor, w
  <2>2. w.whole = w.snap.items
    BY <1>2, <1>3, <2>1
  <2> QED BY <1>1, <2>2 DEF w
<1> QED BY <1>4, <1>5

LEMMA AwayClient == Away \in Client /\ Away.pc = "idle" /\ Away.snap = NoSnapshot
                    /\ Away.rev = -1 /\ Away.got = Empty /\ Away.whole = Empty
  BY EmptyCatalogue DEF Away, NoSnapshot, Copy, Client

LEMMA ServedClient ==
  ASSUME Parts, Walks, NEW c \in Readers, ServePage(c)
  PROVE  LET w == reader[c]
             new == reader'[c]
         IN  /\ snapshot' \in {snapshot, w.snap}
             /\ \/ new = Away
                \/ /\ new.pc \in {"walking", "done"}
                   /\ new.snap = NoSnapshot
                   /\ new.rev = w.snap.rev
                   /\ new.whole = w.snap.items
                   /\ FirstPart(new.got, new.whole)
                   /\ new.pc = "done" => new.got = new.whole
             /\ reader' \in [Readers -> Client]
             /\ \A d \in Readers : d # c => reader'[d] = reader[d]
<1> DEFINE w == reader[c]
           items == w.snap.items
           n == Cardinality(DOMAIN w.got) + 1
           size == Cardinality(DOMAIN items)
           got == IF n > size THEN w.got
                  ELSE LET s == Nth(DOMAIN items, n) IN Put(w.got, s, items[s])
           pc == IF n >= size THEN "done" ELSE "walking"
           whole == IF w.rev = -1 THEN items ELSE w.whole
           page == [pc |-> pc, snap |-> NoSnapshot, read |-> FALSE, rev |-> w.snap.rev,
                    got |-> got, whole |-> whole]
<1>1. w \in Client /\ reader \in [Readers -> Client]
  BY DEF Parts
<1>2. /\ w.snap \in Copy /\ w.snap.rev \in Int /\ items \in Catalogues /\ w.got \in Catalogues
  BY <1>1 DEF Client, Copy
<1>3. /\ snapshot' = IF w.read THEN w.snap ELSE snapshot
      /\ reader' = [reader EXCEPT ![c] = IF StaleCursor(w) THEN Away ELSE page]
  BY Zenon DEF ServePage
<1>4. snapshot' \in {snapshot, w.snap}
  BY <1>3
<1>5. CASE StaleCursor(w)
  <2>1. reader' = [reader EXCEPT ![c] = Away]
    BY <1>3, <1>5
  <2> QED BY <1>1, <1>4, <2>1, AwayClient
<1>6. CASE ~StaleCursor(w)
  <2>1. FirstPart(w.got, items) /\ whole = items
    BY <1>6, SameList
  <2>2. n \in Nat /\ size \in Nat
    <3>1. DOMAIN w.got \in SUBSET Slots /\ DOMAIN items \in SUBSET Slots
      BY <1>2, CatalogueFacts
    <3> QED BY <3>1, SlotsAssumption, FS_Subset, FS_CardinalityType
  <2>3. reader' = [reader EXCEPT ![c] = page]
    BY <1>3, <1>6
  <2> HIDE DEF items, n, size
  <2>4. got \in Catalogues /\ FirstPart(got, items) /\ (n >= size => got = items)
    <3>1. CASE n > size
      <4>1. Cardinality(DOMAIN w.got) >= Cardinality(DOMAIN items)
        <5>1. Cardinality(DOMAIN w.got) \in Nat
          <6>1. DOMAIN w.got \in SUBSET Slots
            BY <1>2, CatalogueFacts
          <6> QED BY <6>1, SlotsAssumption, FS_Subset, FS_CardinalityType
        <5> QED BY <2>2, <3>1, <5>1 DEF n, size
      <4>2. w.got = items
        BY <1>2, <2>1, <4>1, WholeList
      <4> QED BY <1>2, <2>1, <3>1, <4>2
    <3>2. CASE ~(n > size)
      <4>1. n <= Cardinality(DOMAIN items)
        BY <2>2, <3>2 DEF size
      <4>2. got = Put(w.got, Nth(DOMAIN items, n), items[Nth(DOMAIN items, n)])
        BY <3>2
      <4> HIDE DEF got
      <4>3. got \in Catalogues /\ FirstPart(got, items) /\ Cardinality(DOMAIN got) = n
        BY <1>2, <2>1, <4>1, <4>2, NextArticle DEF n
      <4>4. n >= size => got = items
        BY <1>2, <4>3, WholeList DEF size
      <4> QED BY <4>3, <4>4
    <3> QED BY <3>1, <3>2
  <2> HIDE DEF got, whole, pc
  <2>5. /\ page.pc = pc /\ page.snap = NoSnapshot /\ page.rev = w.snap.rev
        /\ page.got = got /\ page.whole = whole
    OBVIOUS
  <2>6. pc \in {"walking", "done"} /\ (pc = "done" => n >= size)
    BY DEF pc
  <2>7. page \in Client
    <3>1. NoSnapshot \in Copy
      BY EmptyCatalogue DEF NoSnapshot, Copy
    <3>2. pc \in {"idle", "reading", "walking", "done"} /\ whole \in Catalogues
      BY <1>2, <2>1, <2>6
    <3> QED BY <1>2, <2>4, <3>1, <3>2 DEF Client
  <2> HIDE DEF page
  <2>8. reader'[c] = page /\ reader' \in [Readers -> Client] /\ \A d \in Readers : d # c => reader'[d] = reader[d]
    BY <1>1, <2>3, <2>7
  <2>9. whole = w.snap.items
    BY <2>1 DEF items
  <2>10. FirstPart(got, whole) /\ (pc = "done" => got = whole)
    BY <2>1, <2>4, <2>6
  <2> QED BY <1>4, <2>5, <2>6, <2>8, <2>9, <2>10
<1> QED BY <1>5, <1>6

\* A step of a client leaves the tables and the worker alone.
LEMMA OnlyClients ==
  ASSUME Base, UNCHANGED <<tables, worker, process, faults>>,
         snapshot' \in Copy, reader' \in [Readers -> Client]
  PROVE  Base'
<1>1. Parts /\ WorkIsSound
  BY BaseInParts
<1>2. Parts'
  BY <1>1 DEF Parts, JobsOK, SourcesOK, ProcessOK, process, tables, Ids
<1>3. WorkIsSound'
  BY <1>1 DEF WorkIsSound, Job, Holding, Ids, process, tables
<1> QED BY <1>2, <1>3, BaseInPartsNext

LEMMA ReaderBase ==
  ASSUME Base, Walks, NEW c \in Readers, ReadCatalog(c) \/ ServePage(c)
  PROVE  Base'
<1>1. Parts
  BY BaseInParts
<1>2. CASE ReadCatalog(c)
  <2>1. reader' \in [Readers -> Client]
    BY <1>1, <1>2, ReadingClient
  <2>2. UNCHANGED <<tables, worker, process, faults>> /\ snapshot' \in Copy
    BY <1>1, <1>2 DEF ReadCatalog, Parts
  <2> QED BY <2>1, <2>2, OnlyClients
<1>3. CASE ServePage(c)
  <2>1. reader' \in [Readers -> Client] /\ snapshot' \in {snapshot, reader[c].snap}
    BY <1>1, <1>3, ServedClient
  <2>2. reader[c].snap \in Copy /\ snapshot \in Copy
    BY <1>1 DEF Parts, Client
  <2>3. UNCHANGED <<tables, worker, process, faults>>
    BY <1>3 DEF ServePage
  <2> QED BY <2>1, <2>2, <2>3, OnlyClients
<1> QED BY <1>2, <1>3

\* The repair replaces some articles by their corrections.
LEMMA RepairTables ==
  ASSUME Parts, Repair
  PROVE  /\ DOMAIN publications' = DOMAIN publications
         /\ \A s \in DOMAIN publications :
              \/ publications'[s] = publications[s]
              \/ publications'[s] = Clean(publications[s]) /\ Clean(publications[s]) \in revisions'
         /\ revisions \subseteq revisions'
         /\ revisions' \subseteq Revision
         /\ publications' \in Catalogues
<1> DEFINE dirty == {s \in DOMAIN publications : publications[s].projects \cap Excluded # {}}
<1>1. /\ revisions' = revisions \cup {Clean(publications[s]) : s \in dirty}
      /\ publications' = [s \in DOMAIN publications |->
                            IF s \in dirty THEN Clean(publications[s]) ELSE publications[s]]
  BY DEF Repair
<1>2. dirty \subseteq DOMAIN publications
  OBVIOUS
<1> HIDE DEF dirty
<1>3. ASSUME NEW s \in DOMAIN publications
      PROVE  publications[s] \in Revision /\ Clean(publications[s]) \in Revision
  BY CatalogueFacts, CleanFacts DEF Parts
<1>4. DOMAIN publications' = DOMAIN publications
  BY <1>1
<1>5. ASSUME NEW s \in DOMAIN publications
      PROVE  \/ publications'[s] = publications[s]
             \/ publications'[s] = Clean(publications[s]) /\ Clean(publications[s]) \in revisions'
  BY <1>1
<1>6. revisions \subseteq revisions' /\ revisions' \subseteq Revision
  BY <1>1, <1>2, <1>3 DEF Parts, SourcesOK
<1>7. publications' \in Catalogues
  <2>1. DOMAIN publications \subseteq Slots
    BY CatalogueFacts DEF Parts
  <2>2. publications' = [s \in DOMAIN publications |-> publications'[s]]
    BY <1>1
  <2>3. \A s \in DOMAIN publications : publications'[s] \in Revision
    BY <1>3, <1>5
  <2>4. [s \in DOMAIN publications |-> publications'[s]] \in Catalogues
    BY <2>1, <2>3, CatalogueMade
  <2> QED BY <2>2, <2>4
<1> QED BY <1>4, <1>5, <1>6, <1>7

LEMMA RepairBase == ASSUME Base, Repair PROVE Base'
<1>1. Parts /\ WorkIsSound
  BY BaseInParts
<1>2. UNCHANGED <<batches, jobs, sources, snapshot, worker, reader, process, faults>> /\ catalog' \in Nat
  BY <1>1 DEF Repair, Parts
<1>3. Parts'
  BY <1>1, <1>2, RepairTables DEF Parts, JobsOK, SourcesOK, ProcessOK, process, Ids
<1>4. WorkIsSound'
  BY <1>1, <1>2 DEF WorkIsSound, Job, Holding, Ids, process
<1> QED BY <1>3, <1>4, BaseInPartsNext

\* With the process go the copy in memory and the requests under way.
LEMMA Forgotten ==
  ASSUME Parts, Forget
  PROVE  /\ snapshot' = NoSnapshot /\ snapshot' \in Copy
         /\ reader' \in [Readers -> Client]
         /\ \A c \in Readers : reader'[c] \in {reader[c], Away}
         /\ worker' \in Work /\ WorkIsSound' /\ ~Holding'
         /\ mode' = "down"
<1>1. snapshot' = NoSnapshot /\ snapshot' \in Copy /\ mode' = "down" /\ worker' = Free("off")
  BY EmptyCatalogue DEF Forget, NoSnapshot, Copy
<1>2. \A c \in Readers : reader'[c] \in {reader[c], Away} /\ reader[c] \in Client
  BY DEF Forget, Parts
<1>3. reader' \in [Readers -> Client]
  BY <1>2, AwayClient DEF Forget
<1>4. worker' \in Work /\ WorkIsSound' /\ ~Holding'
  BY <1>1, NothingInHand
<1> QED BY <1>1, <1>2, <1>3, <1>4

LEMMA ProcessBase ==
  ASSUME Base, BeginShutdown \/ Exit \/ Crash \/ Restart
  PROVE  Base'
<1>1. Parts /\ WorkIsSound
  BY BaseInParts
<1>2. UNCHANGED <<tables, faults>> /\ stops' \in 0..MaxStops
  <2>1. stops' = stops \/ (stops < MaxStops /\ stops' = stops + 1)
    BY DEF BeginShutdown, Exit, Crash, Restart
  <2>2. stops' \in 0..MaxStops
    BY <1>1, <2>1, BoundsAssumption DEF Parts, ProcessOK
  <2> QED BY <2>2 DEF BeginShutdown, Exit, Crash, Restart
<1>3. /\ snapshot' \in Copy /\ reader' \in [Readers -> Client] /\ worker' \in Work
      /\ WorkIsSound' /\ mode' \in {"up", "stopping", "down"}
  <2>1. CASE BeginShutdown
    BY <1>1, <2>1 DEF BeginShutdown, tables, Parts, WorkIsSound, Holding, Job, Ids
  <2>2. CASE Exit \/ Crash
    BY <1>1, <2>2, Forgotten DEF Exit, Crash
  <2>3. CASE Restart
    <3>1. worker' \in Work /\ WorkIsSound'
      BY <2>3, NothingInHand DEF Restart
    <3> QED BY <1>1, <2>3, <3>1 DEF Restart, Parts
  <2> QED BY <2>1, <2>2, <2>3
<1>4. Parts'
  BY <1>1, <1>2, <1>3 DEF Parts, JobsOK, SourcesOK, ProcessOK, tables, Ids
<1> QED BY <1>3, <1>4, BaseInPartsNext

\* Types and the job in hand are kept by every step.
LEMMA BaseStep == ASSUME Base, Walks, [Next]_vars PROVE Base'
<1>1. ASSUME NEW r \in Requests, Import(r) PROVE Base'
  BY <1>1, ImportBase
<1>2. CASE WorkerStep
  <2>1. CASE Recover BY <2>1, RecoverBase
  <2>2. CASE Claim BY <2>2, ClaimBase
  <2>3. CASE Verify BY <2>3, VerifyBase
  <2>4. CASE PublishLate BY <2>4, PublishLateBase
  <2>5. CASE Publish BY <2>5, PublishBase
  <2>6. CASE Fail BY <2>6, FailBase
  <2>7. CASE ClaimNothing \/ Scan \/ VerifyFails \/ PublishConflict \/ StopWorker
    BY <2>7, WorkerBase
  <2> QED BY <1>2, <2>1, <2>2, <2>3, <2>4, <2>5, <2>6, <2>7 DEF WorkerStep
<1>3. CASE StatementFails
  BY <1>3, WorkerBase
<1>4. ASSUME NEW c \in Readers, ReadCatalog(c) \/ ServePage(c) PROVE Base'
  BY <1>4, ReaderBase
<1>5. CASE Repair
  BY <1>5, RepairBase
<1>6. CASE Tick
  BY <1>6, TickBase
<1>7. CASE BeginShutdown \/ Exit \/ Crash \/ Restart
  BY <1>7, ProcessBase
<1>8. CASE UNCHANGED vars
  BY <1>8, BaseStutter
<1> QED BY <1>1, <1>2, <1>3, <1>4, <1>5, <1>6, <1>7, <1>8 DEF Next

(***************************************************************************)
(* Copies of the catalogue.                                                *)
(***************************************************************************)
\* The catalogue revision moves whenever the articles do.
LEMMA CatalogMoves ==
  ASSUME Base, [Next]_vars
  PROVE  /\ catalog \in Nat /\ catalog' \in Nat
         /\ \/ catalog' = catalog /\ publications' = publications
            \/ catalog' > catalog
<1>1. Parts
  BY BaseInParts
<1>2. catalog \in Nat /\ publications \in Catalogues
  BY <1>1 DEF Parts
<1>3. CASE Publish
  <2> DEFINE s == worker.rev.slot
             top == Canonical(sources', s)
  <2>1. publications' = Put(publications, s, top) /\ catalog' = Bump(s, top) /\ top \in Revision
    BY <1>3, PublishTables
  <2>2. s \in Slots
    BY <1>3, CandidateFacts DEF Publish, Revision
  <2> HIDE DEF s, top
  <2>3. CASE Shows(s, top)
    <3>1. catalog' = catalog
      BY <1>2, <2>1, <2>3, BumpFacts
    <3>2. s \in DOMAIN publications /\ publications[s] = top
      BY <2>3 DEF Shows
    <3>3. \A t \in DOMAIN publications : publications'[t] = publications[t]
      <4>1. publications'[s] = top /\ \A t \in DOMAIN publications : t # s => publications'[t] = publications[t]
        BY <1>2, <2>1, <2>2, PutIn
      <4> QED BY <3>2, <4>1
    <3>4. DOMAIN publications' = DOMAIN publications /\ publications' \in Catalogues
      BY <1>2, <2>1, <2>2, <3>2, PutIn
    <3>5. publications' = publications
      <4>1. /\ publications' = [t \in DOMAIN publications' |-> publications'[t]]
            /\ publications = [t \in DOMAIN publications |-> publications[t]]
        BY <1>2, <3>4, CatalogueFacts
      <4>2. [t \in DOMAIN publications' |-> publications'[t]] = [t \in DOMAIN publications |-> publications[t]]
        BY <3>3, <3>4
      <4> QED BY <4>1, <4>2
    <3> QED BY <1>2, <3>1, <3>5
  <2>4. CASE ~Shows(s, top)
    BY <1>2, <2>1, <2>4, BumpFacts
  <2> QED BY <2>3, <2>4
<1>4. CASE Repair
  BY <1>2, <1>4 DEF Repair
<1>5. CASE ~Publish /\ ~Repair
  <2>1. catalog' = catalog /\ publications' = publications
    BY <1>5, Zenon DEF Next, WorkerStep, Import, Recover, Claim, ClaimNothing, Scan, Verify, VerifyFails,
         PublishConflict, PublishLate, Fail, StopWorker, StatementFails, ReadCatalog, ServePage, Tick,
         BeginShutdown, Exit, Crash, Restart, tables, vars
  <2> QED BY <1>2, <2>1
<1> QED BY <1>3, <1>4, <1>5

\* Where the copies of the next state come from.
LEMMA CopiesFrom ==
  ASSUME NEW known,
         <<catalog', publications'>> \in known, <<snapshot'.rev, snapshot'.items>> \in known,
         <<-1, Empty>> \in known,
         \A c \in Readers : <<reader'[c].snap.rev, reader'[c].snap.items>> \in known,
         \A c \in Readers : <<reader'[c].rev, reader'[c].whole>> \in known
  PROVE  Copies' \subseteq known
  BY DEF Copies

LEMMA CopiesIn ==
  /\ <<catalog, publications>> \in Copies
  /\ <<snapshot.rev, snapshot.items>> \in Copies
  /\ <<-1, Empty>> \in Copies
  /\ \A c \in Readers : <<reader[c].snap.rev, reader[c].snap.items>> \in Copies
  /\ \A c \in Readers : <<reader[c].rev, reader[c].whole>> \in Copies
  BY DEF Copies

LEMMA CopiesTyped ==
  ASSUME Parts, NEW x \in Copies
  PROVE  x[1] \in Int
<1>1. catalog \in Int /\ snapshot.rev \in Int /\ -1 \in Int
  BY DEF Parts, Copy
<1>2. \A c \in Readers : reader[c].snap.rev \in Int /\ reader[c].rev \in Int
  BY DEF Parts, Client, Copy
<1> QED BY <1>1, <1>2 DEF Copies

\* No new copy but that of the new catalogue: still one list for a revision.
LEMMA OneContentsKept ==
  ASSUME Base, OneContents, [Next]_vars, Copies' \subseteq Copies \cup {<<catalog', publications'>>}
  PROVE  OneContents'
<1>1. Parts
  BY BaseInParts
<1>2. /\ catalog \in Nat /\ catalog' \in Nat
      /\ \/ catalog' = catalog /\ publications' = publications
         \/ catalog' > catalog
  BY CatalogMoves
<1>3. ASSUME NEW x \in Copies PROVE x[1] \in Int /\ x[1] <= catalog
  BY <1>1, CopiesTyped DEF OneContents
<1>4. CASE catalog' = catalog /\ publications' = publications
  <2>1. Copies' \subseteq Copies
    BY <1>4, CopiesIn
  <2> QED BY <1>4, <2>1 DEF OneContents
<1>5. CASE catalog' > catalog
  <2> DEFINE top == <<catalog', publications'>>
  <2>1. top[1] = catalog'
    OBVIOUS
  <2> HIDE DEF top
  <2>2. \A x \in Copies' : x \in Copies \/ x = top
    BY DEF top
  <2>3. ASSUME NEW x \in Copies PROVE x[1] < top[1]
    BY <1>2, <1>3, <1>5, <2>1
  <2>4. ASSUME NEW x \in Copies' PROVE x[1] <= catalog'
    BY <1>2, <1>3, <1>5, <2>1, <2>2
  <2>5. ASSUME NEW x \in Copies', NEW y \in Copies', x[1] = y[1] PROVE x[2] = y[2]
    <3>1. CASE x \in Copies /\ y \in Copies
      BY <2>5, <3>1 DEF OneContents
    <3>2. CASE x = top /\ y = top
      BY <3>2
    <3>3. CASE x \in Copies /\ y = top
      BY <1>2, <1>3, <2>1, <2>3, <2>5, <3>3
    <3>4. CASE x = top /\ y \in Copies
      BY <1>2, <1>3, <2>1, <2>3, <2>5, <3>4
    <3> QED BY <2>2, <3>1, <3>2, <3>3, <3>4
  <2> QED BY <2>4, <2>5 DEF OneContents
<1> QED BY <1>2, <1>4, <1>5

\* Walks go on as they were when only the tables and the worker change.
LEMMA WalksKept ==
  ASSUME Base, Walks, [Next]_vars, snapshot' = snapshot, reader' = reader
  PROVE  Walks'
<1>1. Copies' \subseteq Copies \cup {<<catalog', publications'>>}
  BY CopiesIn, CopiesFrom
<1>2. WalksAreSound'
  BY DEF Walks, WalksAreSound
<1> QED BY <1>1, <1>2, OneContentsKept DEF Walks

LEMMA ReadWalks == ASSUME Base, Walks, NEW c \in Readers, ReadCatalog(c), [Next]_vars PROVE Walks'
<1>1. Parts
  BY BaseInParts
<1>2. /\ reader'[c].pc = "reading"
      /\ \/ reader'[c].snap = snapshot
         \/ reader'[c].snap = [rev |-> catalog, items |-> publications]
      /\ \/ /\ reader'[c].rev = reader[c].rev
            /\ reader'[c].got = reader[c].got
            /\ reader'[c].whole = reader[c].whole
         \/ reader'[c].rev = -1 /\ reader'[c].got = Empty /\ reader'[c].whole = Empty
      /\ \A d \in Readers : d # c => reader'[d] = reader[d]
  <2>1. CASE reader[c].pc = "walking"
    BY <1>1, <2>1, ReadingClient
  <2>2. CASE reader[c].pc # "walking"
    BY <1>1, <2>2, ReadingClient
  <2> QED BY <2>1, <2>2
<1>3. snapshot' = snapshot /\ catalog' = catalog /\ publications' = publications
  BY DEF ReadCatalog, tables
<1>4. Copies' \subseteq Copies
  <2>1. <<reader'[c].snap.rev, reader'[c].snap.items>> \in Copies
    BY <1>2, CopiesIn
  <2>2. <<reader'[c].rev, reader'[c].whole>> \in Copies
    BY <1>2, CopiesIn
  <2>3. \A d \in Readers : <<reader'[d].snap.rev, reader'[d].snap.items>> \in Copies
                           /\ <<reader'[d].rev, reader'[d].whole>> \in Copies
    BY <1>2, <2>1, <2>2, CopiesIn
  <2>4. <<catalog', publications'>> \in Copies /\ <<snapshot'.rev, snapshot'.items>> \in Copies
    BY <1>3, CopiesIn
  <2> QED BY <2>3, <2>4, CopiesIn, CopiesFrom
<1>5. OneContents'
  BY <1>4, OneContentsKept DEF Walks
<1>6. WalksAreSound'
  <2>1. FirstPart(Empty, Empty)
    BY EmptyCatalogue DEF FirstPart
  <2>2. FirstPart(reader'[c].got, reader'[c].whole) /\ reader'[c].pc # "done"
    BY <1>2, <2>1 DEF Walks, WalksAreSound
  <2> QED BY <1>2, <2>2 DEF Walks, WalksAreSound
<1> QED BY <1>5, <1>6 DEF Walks

LEMMA ServeWalks == ASSUME Base, Walks, NEW c \in Readers, ServePage(c), [Next]_vars PROVE Walks'
<1>1. Parts
  BY BaseInParts
<1> DEFINE w == reader[c]
           new == reader'[c]
<1>2. /\ snapshot' \in {snapshot, w.snap}
      /\ \/ new = Away
         \/ /\ new.pc \in {"walking", "done"}
            /\ new.snap = NoSnapshot
            /\ new.rev = w.snap.rev
            /\ new.whole = w.snap.items
            /\ FirstPart(new.got, new.whole)
            /\ new.pc = "done" => new.got = new.whole
      /\ \A d \in Readers : d # c => reader'[d] = reader[d]
  BY <1>1, ServedClient
<1>3. catalog' = catalog /\ publications' = publications
  BY DEF ServePage, tables
<1>4. Copies' \subseteq Copies
  <2>1. NoSnapshot.rev = -1 /\ NoSnapshot.items = Empty
    BY DEF NoSnapshot
  <2>2. <<new.snap.rev, new.snap.items>> \in Copies
    BY <1>2, <2>1, AwayClient, CopiesIn
  <2>3. <<new.rev, new.whole>> \in Copies
    BY <1>2, AwayClient, CopiesIn
  <2>4. \A d \in Readers : <<reader'[d].snap.rev, reader'[d].snap.items>> \in Copies
                           /\ <<reader'[d].rev, reader'[d].whole>> \in Copies
    BY <1>2, <2>2, <2>3, CopiesIn
  <2>5. <<catalog', publications'>> \in Copies /\ <<snapshot'.rev, snapshot'.items>> \in Copies
    BY <1>2, <1>3, CopiesIn
  <2> QED BY <2>4, <2>5, CopiesIn, CopiesFrom
<1>5. OneContents'
  BY <1>4, OneContentsKept DEF Walks
<1>6. WalksAreSound'
  <2>1. FirstPart(Empty, Empty)
    BY EmptyCatalogue DEF FirstPart
  <2>2. FirstPart(new.got, new.whole) /\ (new.pc = "done" => new.got = new.whole)
    BY <1>2, <2>1, AwayClient
  <2> QED BY <1>2, <2>2 DEF Walks, WalksAreSound
<1> QED BY <1>5, <1>6 DEF Walks

LEMMA ForgetWalks == ASSUME Base, Walks, Forget, UNCHANGED tables, [Next]_vars PROVE Walks'
<1>1. Parts
  BY BaseInParts
<1>2. snapshot' = NoSnapshot /\ \A c \in Readers : reader'[c] \in {reader[c], Away}
  BY <1>1, Forgotten
<1>3. NoSnapshot.rev = -1 /\ NoSnapshot.items = Empty
  BY DEF NoSnapshot
<1>4. Copies' \subseteq Copies
  <2>1. \A c \in Readers : <<reader'[c].snap.rev, reader'[c].snap.items>> \in Copies
                           /\ <<reader'[c].rev, reader'[c].whole>> \in Copies
    BY <1>2, <1>3, AwayClient, CopiesIn
  <2>2. <<catalog', publications'>> \in Copies /\ <<snapshot'.rev, snapshot'.items>> \in Copies
    BY <1>2, <1>3, CopiesIn DEF tables
  <2> QED BY <2>1, <2>2, CopiesIn, CopiesFrom
<1>5. OneContents'
  BY <1>4, OneContentsKept DEF Walks
<1>6. WalksAreSound'
  <2>1. FirstPart(Empty, Empty)
    BY EmptyCatalogue DEF FirstPart
  <2> QED BY <1>2, <2>1, AwayClient DEF Walks, WalksAreSound
<1> QED BY <1>5, <1>6 DEF Walks

LEMMA WalksStep == ASSUME Base, Walks, [Next]_vars PROVE Walks'
<1>1. CASE \E c \in Readers : ReadCatalog(c)
  BY <1>1, ReadWalks
<1>2. CASE \E c \in Readers : ServePage(c)
  BY <1>2, ServeWalks
<1>3. CASE Exit \/ Crash
  BY <1>3, ForgetWalks DEF Exit, Crash
<1>4. CASE ~(\E c \in Readers : ReadCatalog(c)) /\ ~(\E c \in Readers : ServePage(c)) /\ ~Exit /\ ~Crash
  <2>1. snapshot' = snapshot /\ reader' = reader
    BY <1>4, Zenon DEF Next, WorkerStep, Import, Recover, Claim, ClaimNothing, Scan, Verify, VerifyFails,
         PublishConflict, PublishLate, Publish, Fail, StopWorker, StatementFails, Repair, Tick,
         BeginShutdown, Restart, tables, vars
  <2> QED BY <2>1, WalksKept
<1> QED BY <1>1, <1>2, <1>3, <1>4

LEMMA InitWalks == ASSUME Init PROVE Walks
<1>1. NoSnapshot.rev = -1 /\ NoSnapshot.items = Empty
  BY DEF NoSnapshot
<1>2. \A c \in Readers : reader[c] = Away
  BY DEF Init
<1>3. Copies \subseteq {<<0, Empty>>, <<-1, Empty>>}
  BY <1>1, <1>2, AwayClient DEF Init, Copies
<1>4. OneContents
  <2>1. \A x \in Copies : x[1] <= 0 /\ x[2] = Empty
    BY <1>3
  <2> QED BY <2>1 DEF OneContents, Init
<1>5. WalksAreSound
  <2>1. FirstPart(Empty, Empty)
    BY EmptyCatalogue DEF FirstPart
  <2> QED BY <1>2, <2>1, AwayClient DEF WalksAreSound
<1> QED BY <1>4, <1>5 DEF Walks

(***************************************************************************)
(* What is published, and what is shown.                                   *)
(***************************************************************************)
\* The mark of a published job, for given tables.
Marked(j, src, revs) ==
  LET p == <<j.slot, j.req.kind>>
  IN  /\ p \in DOMAIN src
      /\ src[p].seq >= j.req.seq
      /\ src[p].seq = j.req.seq => src[p].body = j.req.docs[j.slot]
      /\ j.rev \in revs
      /\ j.rev.slot = j.slot

LEMMA CoveredMeansMarked ==
  PublishedIsCovered <=> \A i \in Ids(jobs) : jobs[i].status = "published" => Marked(jobs[i], sources, revisions)
  BY DEF PublishedIsCovered, Marked

\* A job of the next state that was published before, and is what it was.
StillPublished(i) ==
  /\ i \in Ids(jobs)
  /\ jobs[i].status = "published"
  /\ jobs'[i].req = jobs[i].req /\ jobs'[i].slot = jobs[i].slot /\ jobs'[i].rev = jobs[i].rev

\* Most steps publish nothing.
LEMMA NothingPublished ==
  ASSUME Base, Shown, UNCHANGED <<sources, publications>>, revisions' = revisions,
         \A i \in Ids(jobs') : jobs'[i].status = "published" => StillPublished(i)
  PROVE  Shown'
<1>1. SourcesAreSound'
  BY DEF Shown, SourcesAreSound
<1>2. ShownIsCanonical'
  BY DEF Shown, ShownIsCanonical
<1>3. PublishedIsCovered'
  <2>1. ASSUME NEW i \in Ids(jobs'), jobs'[i].status = "published"
        PROVE  Marked(jobs'[i], sources', revisions')
    <3>1. StillPublished(i)
      BY <2>1
    <3>2. Marked(jobs[i], sources, revisions)
      BY <3>1, CoveredMeansMarked DEF Shown, StillPublished
    <3> QED BY <3>1, <3>2 DEF Marked, StillPublished
  <2> QED BY <2>1 DEF PublishedIsCovered, Marked, Ids
<1> QED BY <1>1, <1>2, <1>3 DEF Shown

\* One job is written, and not as published.
LEMMA OtherStatus ==
  ASSUME Parts, NEW i \in Ids(jobs), NEW new, Moved(new, jobs[i]), new.status # "published",
         jobs' = [jobs EXCEPT ![i] = new]
  PROVE  \A j \in Ids(jobs') : jobs'[j].status = "published" => StillPublished(j)
<1>1. Ids(jobs') = Ids(jobs) /\ jobs'[i] = new /\ \A j \in Ids(jobs) : j # i => jobs'[j] = jobs[j]
  BY JobWritten
<1> QED BY <1>1 DEF StillPublished

LEMMA QuietShown ==
  ASSUME Base, Shown, UNCHANGED <<revisions, sources, publications>>,
         jobs' = jobs \/ (\E r \in Requests : Import(r)) \/ Recover \/ Claim \/ Fail \/ Tick
  PROVE  Shown'
<1>1. Parts /\ WorkIsSound
  BY BaseInParts
<1>2. CASE jobs' = jobs
  <2>1. \A i \in Ids(jobs') : jobs'[i].status = "published" => StillPublished(i)
    BY <1>2 DEF StillPublished
  <2> QED BY <2>1, NothingPublished
<1>3. CASE \E r \in Requests : Import(r)
  <2>1. PICK r \in Requests : Import(r)
    BY <1>3
  <2>2. /\ \A i \in Ids(jobs) : jobs'[i] = jobs[i]
        /\ \A i \in Ids(jobs') \ Ids(jobs) : jobs'[i].status = "queued"
    BY <1>1, <2>1, ImportJobs DEF Parts
  <2>3. \A i \in Ids(jobs') : jobs'[i].status = "published" => StillPublished(i)
    BY <2>2 DEF StillPublished
  <2> QED BY <2>3, NothingPublished
<1>4. CASE Recover
  <2>1. Ids(jobs') = Ids(jobs) /\ \A i \in Ids(jobs) : jobs'[i] = Requeued(jobs[i]) /\ jobs[i] \in JobRow
    BY <1>1, <1>4 DEF Recover, Ids, Parts, JobsOK
  <2>2. \A i \in Ids(jobs') : jobs'[i].status = "published" => StillPublished(i)
    BY <2>1, RequeuedRow DEF StillPublished, Moved
  <2> QED BY <2>2, NothingPublished
<1>5. CASE Claim
  <2>1. PICK i \in Claimable :
          jobs' = [jobs EXCEPT ![i] = [jobs[i] EXCEPT !.status = "processing", !.attempts = @ + 1]]
    BY <1>5 DEF Claim
  <2> DEFINE new == [jobs[i] EXCEPT !.status = "processing", !.attempts = @ + 1]
  <2>2. i \in Ids(jobs) /\ jobs[i] \in JobRow
    BY <1>1 DEF Claimable, Parts, JobsOK
  <2>3. Moved(new, jobs[i]) /\ new.status # "published"
    BY <2>2, ClaimedRow
  <2>4. jobs' = [jobs EXCEPT ![i] = new]
    BY <2>1
  <2> HIDE DEF new
  <2>5. \A j \in Ids(jobs') : jobs'[j].status = "published" => StillPublished(j)
    BY <1>1, <2>2, <2>3, <2>4, OtherStatus
  <2> QED BY <2>5, NothingPublished
<1>6. CASE Fail
  <2>1. worker.job \in Ids(jobs) /\ Job \in JobRow /\ worker.attempts \in Nat
    BY <1>1, <1>6 DEF Fail, WorkIsSound, Holding, Parts, JobsOK, Job, Work
  <2> DEFINE new == IF Retry THEN [Job EXCEPT !.status = "retrying", !.due = worker.attempts]
                    ELSE [Job EXCEPT !.status = "failed"]
  <2>2. Moved(new, jobs[worker.job]) /\ new.status # "published"
    BY <2>1, RetryingRow, FailedRow DEF Job
  <2>3. jobs' = [jobs EXCEPT ![worker.job] = new]
    BY <1>6 DEF Fail, Job
  <2> HIDE DEF new
  <2>4. \A j \in Ids(jobs') : jobs'[j].status = "published" => StillPublished(j)
    BY <1>1, <2>1, <2>2, <2>3, OtherStatus
  <2> QED BY <2>4, NothingPublished
<1>7. CASE Tick
  <2>1. \A i \in Ids(jobs') : jobs'[i].status = "published" => StillPublished(i)
    BY <1>1, <1>7, TickJobs DEF StillPublished, Moved
  <2> QED BY <2>1, NothingPublished
<1> QED BY <1>2, <1>3, <1>4, <1>5, <1>6, <1>7

\* A replayed or late job is covered by what is there.
LEMMA PublishLateShown == ASSUME Base, Shown, PublishLate PROVE Shown'
<1>1. Parts
  BY BaseInParts
<1>2. /\ worker.job \in Ids(jobs) /\ Job \in JobRow
      /\ Place = <<Job.slot, Job.req.kind>> /\ Place \in DOMAIN sources
      /\ worker.rev.body = Job.req.docs[Job.slot]
      /\ Job.req.seq \in Nat
  BY CandidateFacts DEF PublishLate, Late, Known
<1>3. /\ sources[Place].rev \in Revision /\ sources[Place].rev \in revisions
      /\ sources[Place].rev.slot = Job.slot
      /\ sources[Place].seq \in Nat
  BY <1>1, <1>2 DEF Parts, SourcesOK, SourceRow, Shown, SourcesAreSound
<1> DEFINE new == [Job EXCEPT !.status = "published", !.rev = sources[Place].rev]
<1>4. Moved(new, Job) /\ new.rev = sources[Place].rev
  BY <1>2, <1>3, PublishedRow
<1>5. jobs' = [jobs EXCEPT ![worker.job] = new] /\ UNCHANGED <<revisions, sources, publications>>
  BY DEF PublishLate, Job
<1> HIDE DEF new
<1>6. /\ Ids(jobs') = Ids(jobs) /\ jobs'[worker.job] = new
      /\ \A j \in Ids(jobs) : j # worker.job => jobs'[j] = jobs[j]
  BY <1>1, <1>2, <1>4, <1>5, JobWritten DEF Job
<1>7. Marked(new, sources, revisions)
  <2>1. /\ sources[Place].seq >= Job.req.seq
        /\ sources[Place].seq = Job.req.seq => sources[Place].body = Job.req.docs[Job.slot]
    BY <1>2, <1>3 DEF PublishLate, Late, SameDocument
  <2> QED BY <1>2, <1>3, <1>4, <2>1 DEF Marked, Moved
<1>8. PublishedIsCovered'
  <2>1. ASSUME NEW i \in Ids(jobs'), jobs'[i].status = "published"
        PROVE  Marked(jobs'[i], sources', revisions')
    BY <1>5, <1>6, <1>7, <2>1, CoveredMeansMarked DEF Shown
  <2> QED BY <2>1 DEF PublishedIsCovered, Marked, Ids
<1>9. SourcesAreSound' /\ ShownIsCanonical'
  BY <1>5 DEF Shown, SourcesAreSound, ShownIsCanonical
<1> QED BY <1>8, <1>9 DEF Shown

\* What a publication leaves in the tables, in the terms of its job.
LEMMA PublishFacts ==
  ASSUME Base, Publish
  PROVE  /\ worker.job \in Ids(jobs) /\ Job \in JobRow /\ worker.rev \in Revision
         /\ worker.rev.slot = Job.slot /\ worker.rev.kind = Job.req.kind
         /\ worker.rev.body = Job.req.docs[Job.slot]
         /\ Place = <<worker.rev.slot, worker.rev.kind>> /\ Place \in Slots \X Kinds
         /\ DOMAIN sources' = DOMAIN sources \cup {Place}
         /\ sources'[Place].seq = Job.req.seq
         /\ sources'[Place].body = worker.rev.body
         /\ sources'[Place].rev = worker.rev
         /\ \A p \in DOMAIN sources : p # Place => sources'[p] = sources[p]
         /\ Place \in DOMAIN sources => Job.req.seq > sources[Place].seq
         /\ revisions' = revisions \cup {worker.rev}
         /\ DOMAIN publications' = DOMAIN publications \cup {worker.rev.slot}
         /\ publications'[worker.rev.slot] = Canonical(sources', worker.rev.slot)
         /\ \A t \in DOMAIN publications : t # worker.rev.slot => publications'[t] = publications[t]
<1>1. Parts
  BY BaseInParts
<1>2. /\ worker.job \in Ids(jobs) /\ Job \in JobRow /\ worker.rev \in Revision
      /\ worker.rev.slot = Job.slot /\ worker.rev.kind = Job.req.kind
      /\ worker.rev.body = Job.req.docs[Job.slot]
      /\ Place = <<worker.rev.slot, worker.rev.kind>> /\ Place \in Slots \X Kinds
  BY CandidateFacts DEF Publish
<1> DEFINE row == [seq |-> Job.req.seq, body |-> worker.rev.body, rev |-> worker.rev]
           s == worker.rev.slot
           top == Canonical(sources', s)
<1>3. /\ DOMAIN sources' = DOMAIN sources \cup {Place}
      /\ sources'[Place] = row
      /\ \A p \in DOMAIN sources : p # Place => sources'[p] = sources[p]
      /\ top \in Revision
      /\ publications' = Put(publications, s, top)
  BY PublishTables
<1>4. row.seq = Job.req.seq /\ row.body = worker.rev.body /\ row.rev = worker.rev
  OBVIOUS
<1>5. s \in Slots /\ publications \in Catalogues
  BY <1>1, <1>2 DEF Parts
<1> HIDE DEF row, top, s
<1>6. /\ DOMAIN publications' = DOMAIN publications \cup {s}
      /\ publications'[s] = top
      /\ \A t \in DOMAIN publications : t # s => publications'[t] = publications[t]
  BY <1>3, <1>5, PutIn
<1>7. Place \in DOMAIN sources => Job.req.seq > sources[Place].seq
  BY DEF Publish, Known
<1>8. revisions' = revisions \cup {worker.rev}
  BY DEF Publish
<1> QED BY <1>2, <1>3, <1>4, <1>6, <1>7, <1>8 DEF s, top

\* The mark of a job survives a publication at a higher sequence.
LEMMA MarkKept ==
  ASSUME Base, Publish, NEW j \in JobRow, Marked(j, sources, revisions)
  PROVE  Marked(j, sources', revisions')
<1>1. Parts
  BY BaseInParts
<1> DEFINE p == <<j.slot, j.req.kind>>
<1>2. /\ p \in DOMAIN sources /\ sources[p].seq >= j.req.seq
      /\ sources[p].seq = j.req.seq => sources[p].body = j.req.docs[j.slot]
      /\ j.rev \in revisions /\ j.rev.slot = j.slot
  BY DEF Marked
<1>3. sources[p].seq \in Nat /\ j.req.seq \in Nat
  BY <1>1, <1>2, RowFacts DEF Parts, SourcesOK, SourceRow
<1>4. p \in DOMAIN sources' /\ j.rev \in revisions'
  BY <1>2, PublishFacts
<1>5. CASE p = Place
  <2>1. Job.req.seq > sources[p].seq /\ sources'[p].seq = Job.req.seq /\ Job.req.seq \in Nat
    BY <1>2, <1>5, PublishFacts, RowFacts
  <2>2. sources'[p].seq > j.req.seq
    BY <1>2, <1>3, <2>1
  <2>3. sources'[p].seq \in Nat
    BY <2>1
  <2> QED BY <1>2, <1>3, <1>4, <2>2, <2>3 DEF Marked
<1>6. CASE p # Place
  BY <1>2, <1>4, <1>6, PublishFacts DEF Marked
<1> QED BY <1>5, <1>6

LEMMA PublishCovers == ASSUME Base, Shown, Publish PROVE PublishedIsCovered'
<1>1. Parts
  BY BaseInParts
<1> DEFINE new == [Job EXCEPT !.status = "published", !.rev = worker.rev]
<1>2. Moved(new, Job) /\ new.rev = worker.rev
  BY PublishFacts, PublishedRow
<1>3. jobs' = [jobs EXCEPT ![worker.job] = new]
  BY DEF Publish, Job
<1> HIDE DEF new
<1>4. /\ Ids(jobs') = Ids(jobs) /\ jobs'[worker.job] = new
      /\ \A j \in Ids(jobs) : j # worker.job => jobs'[j] = jobs[j]
  BY <1>1, <1>2, <1>3, PublishFacts, JobWritten DEF Job
<1>5. Marked(new, sources', revisions')
  <2>1. <<new.slot, new.req.kind>> = Place /\ new.req = Job.req /\ new.slot = Job.slot
    BY <1>2, PublishFacts DEF Moved
  <2>2. Job.req.seq \in Nat
    BY PublishFacts, RowFacts
  <2> QED BY <1>2, <2>1, <2>2, PublishFacts DEF Marked
<1>6. ASSUME NEW i \in Ids(jobs'), jobs'[i].status = "published"
      PROVE  Marked(jobs'[i], sources', revisions')
  <2>1. CASE i = worker.job
    BY <1>4, <1>5, <2>1
  <2>2. CASE i # worker.job
    <3>1. jobs'[i] = jobs[i] /\ i \in Ids(jobs) /\ jobs[i] \in JobRow
      BY <1>1, <1>4, <2>2 DEF Parts, JobsOK
    <3>2. Marked(jobs[i], sources, revisions)
      BY <1>6, <3>1, CoveredMeansMarked DEF Shown
    <3> QED BY <3>1, <3>2, MarkKept
  <2> QED BY <2>1, <2>2
<1> QED BY <1>6 DEF PublishedIsCovered, Marked, Ids

\* A slot shows the revision of its preferred source, or the correction of it.
ShowsPreferred(s, v, src) ==
  \E k \in Kinds :
    /\ <<s, k>> \in DOMAIN src
    /\ k = "starcat" \/ <<s, "starcat">> \notin DOMAIN src
    /\ v \in {src[<<s, k>>].rev, Clean(src[<<s, k>>].rev)}

LEMMA PublishShown == ASSUME Base, Shown, Publish PROVE Shown'
<1>1. SourcesAreSound'
  <2>1. ASSUME NEW p \in DOMAIN sources'
        PROVE  /\ sources'[p].rev \in revisions'
               /\ sources'[p].rev.slot = p[1]
               /\ sources'[p].rev.kind = p[2]
               /\ sources'[p].rev.body = sources'[p].body
    <3>1. CASE p = Place
      BY <3>1, PublishFacts
    <3>2. CASE p # Place
      BY <2>1, <3>2, PublishFacts DEF Shown, SourcesAreSound
    <3> QED BY <3>1, <3>2
  <2> QED BY <2>1 DEF SourcesAreSound
<1> DEFINE s == worker.rev.slot
           k == worker.rev.kind
<1>2. s \in Slots /\ k \in Kinds /\ Place = <<s, k>>
  BY PublishFacts
<1> HIDE DEF s, k
<1>3. DOMAIN publications' = {p[1] : p \in DOMAIN sources'}
  <2>1. DOMAIN publications = {p[1] : p \in DOMAIN sources}
    BY DEF Shown, ShownIsCanonical
  <2>2. DOMAIN publications' = DOMAIN publications \cup {s} /\ DOMAIN sources' = DOMAIN sources \cup {Place}
    BY PublishFacts DEF s
  <2>3. Place[1] = s
    BY <1>2
  <2> QED BY <2>1, <2>2, <2>3
<1>4. publications'[s] \in revisions' /\ ShowsPreferred(s, publications'[s], sources')
  <2>1. <<s, k>> \in DOMAIN sources'
    BY <1>2, PublishFacts
  <2>2. PICK q \in Kinds : /\ <<s, q>> \in DOMAIN sources'
                           /\ q = "starcat" \/ <<s, "starcat">> \notin DOMAIN sources'
                           /\ Canonical(sources', s) = sources'[<<s, q>>].rev
    BY <1>2, <2>1, CanonicalRow
  <2>3. publications'[s] = sources'[<<s, q>>].rev
    BY <2>2, PublishFacts DEF s
  <2>4. sources'[<<s, q>>].rev \in revisions'
    BY <1>1, <2>2 DEF SourcesAreSound
  <2> QED BY <2>2, <2>3, <2>4 DEF ShowsPreferred
<1>5. ASSUME NEW t \in DOMAIN publications, t # s
      PROVE  publications'[t] \in revisions' /\ ShowsPreferred(t, publications'[t], sources')
  <2>1. publications'[t] = publications[t]
    BY <1>5, PublishFacts DEF s
  <2>2. publications[t] \in revisions /\ ShowsPreferred(t, publications[t], sources)
    BY DEF Shown, ShownIsCanonical, ShowsPreferred
  <2>3. \A q \in Kinds : /\ <<t, q>> \in DOMAIN sources' <=> <<t, q>> \in DOMAIN sources
                         /\ <<t, q>> \in DOMAIN sources => sources'[<<t, q>>] = sources[<<t, q>>]
    <3>1. \A q \in Kinds : <<t, q>> # Place
      BY <1>2, <1>5
    <3> QED BY <3>1, PublishFacts
  <2>4. "starcat" \in Kinds
    BY DEF Kinds
  <2>5. ShowsPreferred(t, publications[t], sources')
    BY <2>2, <2>3, <2>4 DEF ShowsPreferred
  <2>6. publications[t] \in revisions'
    BY <2>2, PublishFacts
  <2> QED BY <2>1, <2>5, <2>6
<1>6. ShownIsCanonical'
  <2>1. \A t \in DOMAIN publications' : t = s \/ t \in DOMAIN publications
    BY PublishFacts DEF s
  <2> QED BY <1>3, <1>4, <1>5, <2>1 DEF ShownIsCanonical, ShowsPreferred
<1> QED BY <1>1, <1>6, PublishCovers DEF Shown

LEMMA RepairShown == ASSUME Base, Shown, Repair PROVE Shown'
<1>1. Parts
  BY BaseInParts
<1>2. UNCHANGED <<jobs, sources>>
  BY DEF Repair
<1>3. /\ DOMAIN publications' = DOMAIN publications
      /\ \A s \in DOMAIN publications :
           \/ publications'[s] = publications[s]
           \/ publications'[s] = Clean(publications[s]) /\ Clean(publications[s]) \in revisions'
      /\ revisions \subseteq revisions'
  BY <1>1, RepairTables
<1>4. SourcesAreSound'
  BY <1>2, <1>3 DEF Shown, SourcesAreSound
<1>5. PublishedIsCovered'
  BY <1>2, <1>3 DEF Shown, PublishedIsCovered, Ids
<1>6. ASSUME NEW s \in DOMAIN publications
      PROVE  publications'[s] \in revisions' /\ ShowsPreferred(s, publications'[s], sources)
  <2>1. publications[s] \in revisions /\ ShowsPreferred(s, publications[s], sources)
    BY DEF Shown, ShownIsCanonical, ShowsPreferred
  <2>2. publications'[s] \in revisions'
    BY <1>3, <2>1
  <2>3. PICK k \in Kinds : /\ <<s, k>> \in DOMAIN sources
                           /\ k = "starcat" \/ <<s, "starcat">> \notin DOMAIN sources
                           /\ publications[s] \in {sources[<<s, k>>].rev, Clean(sources[<<s, k>>].rev)}
    BY <2>1 DEF ShowsPreferred
  <2>4. sources[<<s, k>>].rev \in Revision
    BY <1>1, <2>3 DEF Parts, SourcesOK, SourceRow
  <2>5. Clean(publications[s]) = Clean(sources[<<s, k>>].rev)
    BY <2>3, <2>4, CleanFacts
  <2>6. publications'[s] \in {sources[<<s, k>>].rev, Clean(sources[<<s, k>>].rev)}
    BY <1>3, <2>3, <2>5
  <2> QED BY <2>2, <2>3, <2>6 DEF ShowsPreferred
<1>7. ShownIsCanonical'
  <2>1. DOMAIN publications' = {p[1] : p \in DOMAIN sources'}
    BY <1>2, <1>3 DEF Shown, ShownIsCanonical
  <2> QED BY <1>2, <1>3, <1>6, <2>1 DEF ShownIsCanonical, ShowsPreferred
<1> QED BY <1>4, <1>5, <1>7 DEF Shown

LEMMA ShownStep == ASSUME Base, Shown, [Next]_vars PROVE Shown'
<1>1. CASE PublishLate
  BY <1>1, PublishLateShown
<1>2. CASE Publish
  BY <1>2, PublishShown
<1>3. CASE Repair
  BY <1>3, RepairShown
<1>4. CASE ~PublishLate /\ ~Publish /\ ~Repair
  <2>1. /\ UNCHANGED <<revisions, sources, publications>>
        /\ jobs' = jobs \/ (\E r \in Requests : Import(r)) \/ Recover \/ Claim \/ Fail \/ Tick
    BY <1>4, Zenon DEF Next, WorkerStep, Import, Recover, Claim, ClaimNothing, Scan, Verify, VerifyFails,
         PublishConflict, Fail, StopWorker, StatementFails, ReadCatalog, ServePage, Tick,
         BeginShutdown, Exit, Crash, Restart, tables, vars
  <2> QED BY <2>1, QuietShown
<1> QED BY <1>1, <1>2, <1>3, <1>4

LEMMA InitShown == ASSUME Init PROVE Shown
  BY EmptyCatalogue DEF Init, Shown, SourcesAreSound, PublishedIsCovered, ShownIsCanonical, Ids

(***************************************************************************)
(* Attempts.                                                               *)
(***************************************************************************)
LEMMA Sums ==
  ASSUME NEW n \in Nat, NEW a \in Nat, NEW b \in Nat, NEW c \in Nat, NEW d \in Nat, a <= c, b <= d
  PROVE  /\ n <= 3 + a + b => n <= 3 + c + d
         /\ n < 3 + a + b => n < 3 + c + d
         /\ n < 3 => n < 3 + c + d
         /\ n <= 3 + a + b /\ a + b < c + d => n < 3 + c + d
  OBVIOUS

\* The job that leaves the worker's hands was closed, or has an attempt left, or an
\* interruption or a failed statement pays for it.
LEMMA CountsKept ==
  ASSUME Base, AttemptsAreCounted,
         stops' \in Nat, faults' \in Nat, stops <= stops', faults <= faults',
         Ids(jobs') = Ids(jobs),
         \A i \in Ids(jobs) :
           /\ jobs'[i].attempts = jobs[i].attempts
           /\ jobs'[i].status \notin Closed => jobs[i].status \notin Closed
           /\ InHand(i) => \/ InHand(i)'
                           \/ stops + faults < stops' + faults'
                           \/ jobs'[i].status \in Closed
                           \/ jobs[i].attempts < MaxAttempts
  PROVE  AttemptsAreCounted'
<1>1. Parts /\ stops \in Nat /\ faults \in Nat
  BY BaseInParts, BoundsAssumption DEF Parts, ProcessOK
<1>2. ASSUME NEW i \in Ids(jobs)
      PROVE  /\ jobs'[i].attempts <= MaxAttempts + stops' + faults'
             /\ jobs'[i].status \notin Closed /\ ~InHand(i)' =>
                  jobs'[i].attempts < MaxAttempts + stops' + faults'
  <2> DEFINE n == jobs[i].attempts
             closed == jobs'[i].status \in Closed
             held == InHand(i)
             holds == InHand(i)'
  <2>1. n \in Nat /\ jobs'[i].attempts = n
    BY <1>1, RowFacts DEF Parts, JobsOK
  <2>2. n <= 3 + stops + faults /\ (~closed /\ ~held => n < 3 + stops + faults)
    BY DEF AttemptsAreCounted, MaxAttempts
  <2>3. held => holds \/ stops + faults < stops' + faults' \/ closed \/ n < 3
    BY DEF MaxAttempts
  <2> HIDE DEF n, closed, held, holds
  <2>0. /\ n <= 3 + stops + faults => n <= 3 + stops' + faults'
        /\ n < 3 + stops + faults => n < 3 + stops' + faults'
        /\ n < 3 => n < 3 + stops' + faults'
        /\ n <= 3 + stops + faults /\ stops + faults < stops' + faults' => n < 3 + stops' + faults'
    BY <1>1, <2>1, Sums
  <2>4. n <= 3 + stops' + faults'
    BY <2>0, <2>2
  <2>5. ~closed /\ ~holds => n < 3 + stops' + faults'
    <3>1. CASE held
      BY <2>0, <2>2, <2>3, <3>1, Zenon
    <3>2. CASE ~held
      BY <2>0, <2>2, <3>2, Zenon
    <3> QED BY <3>1, <3>2
  <2> QED BY <2>1, <2>4, <2>5 DEF closed, holds, MaxAttempts
<1> QED BY <1>2 DEF AttemptsAreCounted, Ids

\* The counters of a step that leaves them alone.
LEMMA CountersStay ==
  ASSUME Base, stops' = stops, faults' = faults
  PROVE  stops' \in Nat /\ faults' \in Nat /\ stops <= stops' /\ faults <= faults'
  BY BaseInParts, BoundsAssumption DEF Parts, ProcessOK

LEMMA ImportAttempts ==
  ASSUME Base, AttemptsAreCounted, NEW r \in Requests, Import(r)
  PROVE  AttemptsAreCounted'
<1>1. Parts
  BY BaseInParts
<1>2. /\ \A i \in Ids(jobs) : jobs'[i] = jobs[i]
      /\ \A i \in Ids(jobs') \ Ids(jobs) : jobs'[i].attempts = 0
  BY <1>1, ImportJobs DEF Parts
<1>3. /\ stops' = stops /\ faults' = faults /\ worker' = worker /\ mode' = mode
      /\ stops \in Nat /\ faults \in Nat
  BY <1>1, BoundsAssumption DEF Import, process, Parts, ProcessOK
<1>4. ASSUME NEW i \in Ids(jobs')
      PROVE  /\ jobs'[i].attempts <= MaxAttempts + stops' + faults'
             /\ jobs'[i].status \notin Closed /\ ~InHand(i)' =>
                  jobs'[i].attempts < MaxAttempts + stops' + faults'
  <2>1. CASE i \in Ids(jobs)
    BY <1>2, <1>3, <2>1 DEF AttemptsAreCounted, InHand, Holding
  <2>2. CASE i \notin Ids(jobs)
    BY <1>2, <1>3, <2>2 DEF MaxAttempts
  <2> QED BY <2>1, <2>2
<1> QED BY <1>4 DEF AttemptsAreCounted, Ids

LEMMA ClaimAttempts == ASSUME Base, AttemptsAreCounted, Claim PROVE AttemptsAreCounted'
<1>1. Parts
  BY BaseInParts
<1>2. PICK i \in Claimable :
        /\ jobs' = [jobs EXCEPT ![i] = [jobs[i] EXCEPT !.status = "processing", !.attempts = @ + 1]]
        /\ worker' = [Free("verify") EXCEPT !.job = i, !.attempts = jobs[i].attempts + 1]
  BY DEF Claim
<1> DEFINE new == [jobs[i] EXCEPT !.status = "processing", !.attempts = @ + 1]
<1>3. i \in Ids(jobs) /\ jobs[i] \in JobRow /\ jobs[i].status \notin Closed
  BY <1>1 DEF Claimable, Parts, JobsOK, Waiting, Closed
<1>4. Moved(new, jobs[i]) /\ new.attempts = jobs[i].attempts + 1
  BY <1>3, ClaimedRow
<1>5. jobs' = [jobs EXCEPT ![i] = new]
  BY <1>2
<1> HIDE DEF new
<1>6. Ids(jobs') = Ids(jobs) /\ jobs'[i] = new /\ \A j \in Ids(jobs) : j # i => jobs'[j] = jobs[j]
  BY <1>1, <1>3, <1>4, <1>5, JobWritten
<1>7. InHand(i)'
  BY <1>2 DEF InHand, Holding, Free, Claim, process
<1>8. \A j \in Ids(jobs) : ~InHand(j)
  BY DEF Claim, InHand, Holding
<1>9. /\ stops' = stops /\ faults' = faults /\ stops \in Nat /\ faults \in Nat
      /\ jobs[i].attempts \in Nat
  BY <1>1, <1>3, RowFacts, BoundsAssumption DEF Claim, process, Parts, ProcessOK
<1>10. jobs'[i].attempts <= MaxAttempts + stops' + faults'
  <2>1. jobs[i].attempts < MaxAttempts + stops + faults
    BY <1>3, <1>8 DEF AttemptsAreCounted
  <2> QED BY <1>4, <1>6, <1>9, <2>1 DEF MaxAttempts
<1>11. ASSUME NEW j \in Ids(jobs), j # i
       PROVE  /\ jobs'[j].attempts <= MaxAttempts + stops' + faults'
              /\ jobs'[j].status \notin Closed => jobs'[j].attempts < MaxAttempts + stops' + faults'
  BY <1>6, <1>8, <1>9, <1>11 DEF AttemptsAreCounted
<1> QED BY <1>6, <1>7, <1>10, <1>11 DEF AttemptsAreCounted, Ids

\* The worker lets go of its job.
LEMMA ClosedAttempts ==
  ASSUME Base, AttemptsAreCounted, PublishLate \/ Publish \/ Fail
  PROVE  AttemptsAreCounted'
<1>1. Parts /\ WorkIsSound
  BY BaseInParts
<1>2. Holding /\ worker.job \in Ids(jobs) /\ Job \in JobRow /\ worker.attempts = Job.attempts
  BY <1>1 DEF PublishLate, Late, Publish, Fail, WorkIsSound, Holding, Parts, JobsOK, Job
<1>3. \E new : /\ jobs' = [jobs EXCEPT ![worker.job] = new]
               /\ Moved(new, jobs[worker.job]) /\ new.attempts = Job.attempts
               /\ new.status \in Closed \/ Job.attempts < MaxAttempts
               /\ Job.status \notin Closed
  <2>0. Job.status \notin Closed
    BY <1>1, <1>2 DEF WorkIsSound, Closed
  <2>1. CASE PublishLate
    <3> DEFINE new == [Job EXCEPT !.status = "published", !.rev = sources[Place].rev]
    <3>1. sources[Place].rev \in Revision
      BY <1>1, <2>1 DEF PublishLate, Late, Known, Parts, SourcesOK, SourceRow
    <3>2. Moved(new, Job) /\ new.status = "published" /\ new.attempts = Job.attempts
      BY <1>2, <3>1, PublishedRow
    <3>3. jobs' = [jobs EXCEPT ![worker.job] = new]
      BY <2>1 DEF PublishLate, Job
    <3> HIDE DEF new
    <3> QED BY <2>0, <3>2, <3>3 DEF Closed, Job
  <2>2. CASE Publish
    <3> DEFINE new == [Job EXCEPT !.status = "published", !.rev = worker.rev]
    <3>1. Moved(new, Job) /\ new.status = "published" /\ new.attempts = Job.attempts
      BY <2>2, PublishFacts, PublishedRow
    <3>2. jobs' = [jobs EXCEPT ![worker.job] = new]
      BY <2>2 DEF Publish, Job
    <3> HIDE DEF new
    <3> QED BY <2>0, <3>1, <3>2 DEF Closed, Job
  <2>3. CASE Fail
    <3> DEFINE new == IF Retry THEN [Job EXCEPT !.status = "retrying", !.due = worker.attempts]
                      ELSE [Job EXCEPT !.status = "failed"]
    <3>1. worker.attempts \in Nat
      BY <1>1 DEF Parts, Work
    <3>2. Moved(new, Job) /\ new.attempts = Job.attempts /\ (~Retry => new.status = "failed")
      BY <1>2, <3>1, RetryingRow, FailedRow
    <3>3. jobs' = [jobs EXCEPT ![worker.job] = new]
      BY <2>3 DEF Fail, Job
    <3>4. Retry => Job.attempts < MaxAttempts
      BY <1>2 DEF Retry
    <3> HIDE DEF new
    <3> QED BY <2>0, <3>2, <3>3, <3>4 DEF Closed, Job
  <2> QED BY <2>1, <2>2, <2>3
<1>4. PICK new : /\ jobs' = [jobs EXCEPT ![worker.job] = new]
                 /\ Moved(new, jobs[worker.job]) /\ new.attempts = Job.attempts
                 /\ new.status \in Closed \/ Job.attempts < MaxAttempts
                 /\ Job.status \notin Closed
  BY <1>3
<1>5. /\ Ids(jobs') = Ids(jobs) /\ jobs'[worker.job] = new
      /\ \A j \in Ids(jobs) : j # worker.job => jobs'[j] = jobs[j]
  BY <1>1, <1>2, <1>4, JobWritten
<1>6. \A j \in Ids(jobs) :
        /\ jobs'[j].attempts = jobs[j].attempts
        /\ jobs'[j].status \notin Closed => jobs[j].status \notin Closed
        /\ InHand(j) => jobs'[j].status \in Closed \/ jobs[j].attempts < MaxAttempts
  <2>1. \A j \in Ids(jobs) : InHand(j) => j = worker.job
    BY DEF InHand
  <2> QED BY <1>4, <1>5, <2>1 DEF Job
<1>7. stops' \in Nat /\ faults' \in Nat /\ stops <= stops' /\ faults <= faults'
  BY CountersStay DEF PublishLate, Publish, Fail, process
<1> QED BY <1>5, <1>6, <1>7, CountsKept

\* No step of these closes, opens or counts anything.
LEMMA JobsAlike ==
  ASSUME Base, Recover \/ Tick \/ jobs' = jobs
  PROVE  /\ Ids(jobs') = Ids(jobs)
         /\ \A i \in Ids(jobs) : /\ jobs'[i].attempts = jobs[i].attempts
                                 /\ jobs'[i].status \notin Closed => jobs[i].status \notin Closed
<1>1. Parts
  BY BaseInParts
<1>2. CASE Recover
  <2>1. Ids(jobs') = Ids(jobs) /\ \A i \in Ids(jobs) : jobs'[i] = Requeued(jobs[i]) /\ jobs[i] \in JobRow
    BY <1>1, <1>2 DEF Recover, Ids, Parts, JobsOK
  <2>2. \A i \in Ids(jobs) : /\ jobs'[i].attempts = jobs[i].attempts
                             /\ jobs[i].status \in Closed => jobs'[i].status = jobs[i].status
    BY <2>1, RequeuedRow DEF Closed
  <2> QED BY <2>1, <2>2
<1>3. CASE Tick
  BY <1>1, <1>3, TickJobs
<1>4. CASE jobs' = jobs
  BY <1>4
<1> QED BY <1>2, <1>3, <1>4

LEMMA AttemptsStep == ASSUME Base, AttemptsAreCounted, [Next]_vars PROVE AttemptsAreCounted'
<1>1. CASE \E r \in Requests : Import(r)
  BY <1>1, ImportAttempts
<1>2. CASE Claim
  BY <1>2, ClaimAttempts
<1>3. CASE PublishLate \/ Publish \/ Fail
  BY <1>3, ClosedAttempts
\* Interruptions and failed statements pay for the job that is left.
<1>4. CASE BeginShutdown \/ Crash \/ StatementFails
  <2>1. jobs' = jobs
    BY <1>4 DEF BeginShutdown, Crash, StatementFails, tables
  <2>2. stops \in Nat /\ faults \in Nat
    BY BaseInParts, BoundsAssumption DEF Parts, ProcessOK
  <2>3. (stops' = stops + 1 /\ faults' = faults) \/ (stops' = stops /\ faults' = faults + 1)
    BY <1>4 DEF BeginShutdown, Crash, StatementFails, process
  <2>4. /\ stops' \in Nat /\ faults' \in Nat /\ stops <= stops' /\ faults <= faults'
        /\ stops + faults < stops' + faults'
    BY <2>2, <2>3
  <2> QED BY <2>1, <2>4, JobsAlike, CountsKept
\* These have no job in hand that the process would still go on with.
<1>5. CASE Recover \/ ClaimNothing \/ Scan \/ StopWorker \/ Exit \/ Restart
  <2>1. \A i \in Ids(jobs) : ~InHand(i)
    BY <1>5 DEF Recover, ClaimNothing, Scan, StopWorker, Exit, Restart, InHand, Holding
  <2>2. Recover \/ jobs' = jobs
    BY <1>5 DEF ClaimNothing, Scan, StopWorker, Exit, Restart, tables
  <2>3. stops' = stops /\ faults' = faults
    BY <1>5 DEF Recover, ClaimNothing, Scan, StopWorker, Exit, Restart, process
  <2>4. stops' \in Nat /\ faults' \in Nat /\ stops <= stops' /\ faults <= faults'
    BY <2>3, CountersStay
  <2> QED BY <2>1, <2>2, <2>4, JobsAlike, CountsKept
\* In the others the worker keeps what it has.
<1>6. CASE \/ Verify \/ VerifyFails \/ PublishConflict \/ Repair \/ Tick \/ UNCHANGED vars
           \/ \E c \in Readers : ReadCatalog(c) \/ ServePage(c)
  <2>1. worker \in Work
    BY BaseInParts DEF Parts
  <2>2. /\ mode' = mode /\ worker'.job = worker.job /\ (Holding => Holding')
        /\ (Tick \/ jobs' = jobs)
    <3>1. CASE Verify \/ VerifyFails \/ PublishConflict
      BY <2>1, <3>1 DEF Verify, VerifyFails, PublishConflict, Holding, Work, process, tables
    <3>2. CASE Repair \/ Tick \/ UNCHANGED vars \/ \E c \in Readers : ReadCatalog(c) \/ ServePage(c)
      BY <3>2 DEF Repair, Tick, vars, ReadCatalog, ServePage, Holding, process, tables
    <3> QED BY <1>6, <3>1, <3>2
  <2>3. \A i \in Ids(jobs) : InHand(i) => InHand(i)'
    BY <2>2 DEF InHand
  <2>4. stops' = stops /\ faults' = faults
    BY <1>6 DEF Verify, VerifyFails, PublishConflict, Repair, Tick, vars, ReadCatalog, ServePage, process
  <2>5. stops' \in Nat /\ faults' \in Nat /\ stops <= stops' /\ faults <= faults'
    BY <2>4, CountersStay
  <2> QED BY <2>2, <2>3, <2>5, JobsAlike, CountsKept
<1> QED BY <1>1, <1>2, <1>3, <1>4, <1>5, <1>6 DEF Next, WorkerStep

LEMMA InitAttempts == ASSUME Init PROVE AttemptsAreCounted
  BY EmptyCatalogue DEF Init, AttemptsAreCounted, Ids

(***************************************************************************)
(* What is shown advances.                                                 *)
(***************************************************************************)
\* An article shows the document of the source of one kind, which decides its rank.
ShownFrom(s, k) ==
  /\ <<s, k>> \in DOMAIN sources
  /\ k = "starcat" \/ <<s, "starcat">> \notin DOMAIN sources
  /\ publications[s].kind = k
  /\ publications[s].body = sources[<<s, k>>].body
  /\ sources[<<s, k>>].seq \in Nat

EachHasItsSource == \A s \in DOMAIN publications : \E k \in Kinds : ShownFrom(s, k)

LEMMA DocumentsShown == Base /\ Shown => EachHasItsSource
<1> SUFFICES ASSUME Base, Shown, NEW s \in DOMAIN publications
             PROVE  \E k \in Kinds : ShownFrom(s, k)
  BY DEF EachHasItsSource
<1>1. PICK k \in Kinds : /\ <<s, k>> \in DOMAIN sources
                         /\ k = "starcat" \/ <<s, "starcat">> \notin DOMAIN sources
                         /\ publications[s] \in {sources[<<s, k>>].rev, Clean(sources[<<s, k>>].rev)}
  BY DEF Shown, ShownIsCanonical
<1> DEFINE p == <<s, k>>
<1>2. /\ sources[p].rev.kind = k /\ sources[p].rev.body = sources[p].body
  BY <1>1 DEF Shown, SourcesAreSound
<1>3. sources[p].rev \in Revision /\ sources[p].seq \in Nat
  BY <1>1, BaseInParts DEF Parts, SourcesOK, SourceRow
<1> HIDE DEF p
<1>4. publications[s].kind = k /\ publications[s].body = sources[p].body
  <2>1. CASE publications[s] = sources[p].rev
    BY <1>2, <2>1
  <2>2. CASE publications[s] = Clean(sources[p].rev)
    BY <1>2, <1>3, <2>2, CleanFacts
  <2> QED BY <1>1, <2>1, <2>2 DEF p
<1> QED BY <1>1, <1>3, <1>4 DEF ShownFrom, p

LEMMA DocumentsShownNext == Base' /\ Shown' => EachHasItsSource'
  BY DocumentsShown, PTL

\* Source rows are replaced by later ones only.
LEMMA SourcesAdvance ==
  ASSUME Base, [Next]_vars
  PROVE  /\ DOMAIN sources \subseteq DOMAIN sources'
         /\ \A p \in DOMAIN sources : sources'[p] = sources[p] \/ sources'[p].seq > sources[p].seq
<1>1. CASE Publish
  <2>1. /\ DOMAIN sources' = DOMAIN sources \cup {Place}
        /\ sources'[Place].seq = Job.req.seq
        /\ \A p \in DOMAIN sources : p # Place => sources'[p] = sources[p]
        /\ Place \in DOMAIN sources => Job.req.seq > sources[Place].seq
    BY <1>1, PublishFacts
  <2> QED BY <2>1
<1>2. CASE ~Publish
  <2>1. sources' = sources
    BY <1>2, Zenon DEF Next, WorkerStep, Import, Recover, Claim, ClaimNothing, Scan, Verify, VerifyFails,
         PublishConflict, PublishLate, Fail, StopWorker, StatementFails, ReadCatalog, ServePage, Repair, Tick,
         BeginShutdown, Exit, Crash, Restart, tables, vars
  <2> QED BY <2>1
<1> QED BY <1>1, <1>2

\* An article that shows another document shows one of a higher rank.
LEMMA Advances ==
  ASSUME Base, Shown, Base', Shown', [Next]_vars, NEW s \in DOMAIN publications
  PROVE  /\ s \in DOMAIN publications'
         /\ (publications'[s].kind # publications[s].kind
               \/ publications'[s].body # publications[s].body) =>
              LET old == Rank(sources, s)
                  new == Rank(sources', s)
              IN \/ new[1] > old[1]
                 \/ new[1] = old[1] /\ new[2] > old[2]
<1>1. s \in DOMAIN publications'
  <2>1. DOMAIN publications = {p[1] : p \in DOMAIN sources} /\ DOMAIN publications' = {p[1] : p \in DOMAIN sources'}
    BY DEF Shown, ShownIsCanonical
  <2>2. DOMAIN sources \subseteq DOMAIN sources'
    BY SourcesAdvance
  <2> QED BY <2>1, <2>2
<1>2. PICK k \in Kinds : ShownFrom(s, k)
  BY DocumentsShown DEF EachHasItsSource
<1>3. PICK q \in Kinds :
        /\ <<s, q>> \in DOMAIN sources'
        /\ q = "starcat" \/ <<s, "starcat">> \notin DOMAIN sources'
        /\ publications'[s].kind = q
        /\ publications'[s].body = sources'[<<s, q>>].body
        /\ sources'[<<s, q>>].seq \in Nat
  BY <1>1, DocumentsShownNext DEF EachHasItsSource, ShownFrom
<1>4. /\ DOMAIN sources \subseteq DOMAIN sources'
      /\ sources'[<<s, k>>] = sources[<<s, k>>] \/ sources'[<<s, k>>].seq > sources[<<s, k>>].seq
  BY <1>2, SourcesAdvance DEF ShownFrom
<1>5. Rank(sources, s) = IF k = "starcat" THEN <<2, sources[<<s, k>>].seq>> ELSE <<1, sources[<<s, k>>].seq>>
  BY <1>2 DEF ShownFrom, Rank, Kinds
<1>6. Rank(sources', s) = IF q = "starcat" THEN <<2, sources'[<<s, q>>].seq>> ELSE <<1, sources'[<<s, q>>].seq>>
  BY <1>3 DEF Rank, Kinds
<1>7. CASE q = k
  <2>1. CASE sources'[<<s, k>>] = sources[<<s, k>>]
    BY <1>1, <1>2, <1>3, <1>7, <2>1 DEF ShownFrom
  <2>2. CASE sources'[<<s, k>>].seq > sources[<<s, k>>].seq
    <3>1. Rank(sources', s)[1] = Rank(sources, s)[1] /\ Rank(sources', s)[2] > Rank(sources, s)[2]
      BY <1>5, <1>6, <1>7, <2>2
    <3> QED BY <1>1, <3>1
  <2> QED BY <1>4, <2>1, <2>2
<1>8. CASE q # k
  <2>1. k = "upstream" /\ q = "starcat"
    BY <1>2, <1>3, <1>4, <1>8 DEF ShownFrom, Kinds
  <2>2. Rank(sources', s)[1] > Rank(sources, s)[1]
    BY <1>5, <1>6, <2>1
  <2> QED BY <1>1, <2>2
<1> QED BY <1>7, <1>8

(***************************************************************************)
(* The results.                                                            *)
(***************************************************************************)
IInv == Base /\ Shown /\ Walks /\ AttemptsAreCounted

LEMMA IInvInit == Init => IInv
  BY InitBase, InitShown, InitWalks, InitAttempts DEF IInv

LEMMA IInvStep == IInv /\ [Next]_vars => IInv'
<1> SUFFICES ASSUME IInv, [Next]_vars PROVE IInv'
  OBVIOUS
<1>1. Base' BY BaseStep DEF IInv
<1>2. Shown' BY ShownStep DEF IInv
<1>3. Walks' BY WalksStep DEF IInv
<1>4. AttemptsAreCounted' BY AttemptsStep DEF IInv
<1> QED BY <1>1, <1>2, <1>3, <1>4 DEF IInv

LEMMA IInvAlways == Spec => []IInv
  BY IInvInit, IInvStep, PTL DEF Spec

\* The tables, the copy in memory, the worker and every client keep their types, jobs
\* are numbered without a gap, and each job is of an article of its request
\* (EnqueueRadar, PublishRadar, RepairRadarSourceRepositories, RadarSnapshot).
THEOREM TypesHold == Spec => []TypeOK
<1>1. IInv => TypeOK
  BY DEF IInv, Base
<1> QED BY <1>1, IInvAlways, PTL

\* A job that is reported as published has left its mark in the source rows, whatever
\* was published, replayed, late or repaired since (PublishRadar).
THEOREM PublicationsCover == Spec => []PublishedIsCovered
<1>1. IInv => PublishedIsCovered
  BY DEF IInv, Shown
<1> QED BY <1>1, IInvAlways, PTL

\* Every article shows its preferred source, or the correction of it
\* (canonicalRevision, RepairRadarSourceRepositories).
THEOREM PreferredIsShown == Spec => []ShownIsCanonical
<1>1. IInv => ShownIsCanonical
  BY DEF IInv, Shown
<1> QED BY <1>1, IInvAlways, PTL

\* Nothing that is shown goes back to a lower source or an earlier sequence
\* (PublishRadar, RepairRadarSourceRepositories).
THEOREM ArticlesAdvance == Spec => ShownOnlyAdvances
<1> DEFINE Advance(s) ==
             /\ s \in DOMAIN publications'
             /\ (publications'[s].kind # publications[s].kind
                   \/ publications'[s].body # publications[s].body) =>
                  LET old == Rank(sources, s)
                      new == Rank(sources', s)
                  IN \/ new[1] > old[1]
                     \/ new[1] = old[1] /\ new[2] > old[2]
<1>1. IInv /\ IInv' /\ [Next]_vars => [\A s \in DOMAIN publications : Advance(s)]_vars
  BY Advances DEF IInv
<1> QED BY <1>1, IInvAlways, PTL DEF Spec, ShownOnlyAdvances

\* A copy of the catalogue in memory that claims the current revision is current
\* (RadarSnapshot).
THEOREM CopyIsCurrent == Spec => []SnapshotIsCurrent
<1>1. IInv => SnapshotIsCurrent
  <2> SUFFICES ASSUME IInv, snapshot.rev = catalog PROVE snapshot.items = publications
    BY DEF SnapshotIsCurrent
  <2>1. <<catalog, publications>> \in Copies /\ <<snapshot.rev, snapshot.items>> \in Copies
    BY CopiesIn
  <2>2. \A x, y \in Copies : x[1] = y[1] => x[2] = y[2]
    BY DEF IInv, Walks, OneContents
  <2> QED BY <2>1, <2>2
<1> QED BY <1>1, IInvAlways, PTL

\* A walk that came to its end has one catalogue (Handler.List with its cursors).
THEOREM WalksHaveOneCatalog == Spec => []WalkIsOneCatalog
<1>1. IInv => WalkIsOneCatalog
  BY DEF IInv, Walks, WalksAreSound, WalkIsOneCatalog
<1> QED BY <1>1, IInvAlways, PTL

\* Attempts beyond the third are paid for by interruptions and failed statements
\* (ClaimRadarJob, FailRadarJob, RecoverRadarJobs).
THEOREM AttemptsArePaidFor == Spec => []AttemptsAreBounded
<1>1. IInv => AttemptsAreBounded
  BY DEF IInv, AttemptsAreCounted, AttemptsAreBounded
<1> QED BY <1>1, IInvAlways, PTL
=============================================================================
