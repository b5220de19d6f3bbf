--------------------------- MODULE Ingest_proofs ---------------------------
(***************************************************************************)
(* What holds of the candidate queue for every set of keys, candidates,    *)
(* callers and requests, and every number of restarts.                     *)
(***************************************************************************)
EXTENDS Ingest, FiniteSetTheorems, TLAPS

Held == TypeOK /\ LeaseHeld

(***************************************************************************)
(* The shapes of the rows: one field at a time, then the combinations the  *)
(* transactions write.                                                     *)
(***************************************************************************)
\* An item row stays an item row when one column moves inside its range.
LEMMA RowFields ==
  ASSUME NEW row \in ItemRow
  PROVE  /\ \A s \in Active \cup Settled : [row EXCEPT !.status = s] \in ItemRow
         /\ \A a \in 0..AttemptCap : [row EXCEPT !.attempts = a] \in ItemRow
         /\ \A d \in 0..2 : [row EXCEPT !.due = d] \in ItemRow
         /\ \A l \in 0..LeaseTicks : [row EXCEPT !.lease = l] \in ItemRow
  BY DEF ItemRow

\* ... when the recovery of leases gives it back,
LEMMA GivenBackType ==
  ASSUME NEW row \in ItemRow
  PROVE  [row EXCEPT !.status = "retrying", !.due = 0] \in ItemRow
<1>1. "retrying" \in Active \cup Settled /\ 0 \in 0..2
  BY DEF Active
<1> QED BY <1>1, RowFields, Zenon

\* ... when it is claimed, with the status and attempts the claim writes,
LEMMA LeasedType ==
  ASSUME NEW row \in ItemRow, NEW n \in 0..AttemptCap
  PROVE  Leased(row, n) \in ItemRow /\ Leased(row, n).status = "processing" /\ Leased(row, n).attempts = n
<1>1. "processing" \in Active \cup Settled /\ 0 \in 0..2 /\ LeaseTicks \in 0..LeaseTicks
  BY DEF Active, LeaseTicks
<1>2. Leased(row, n) \in ItemRow
  BY <1>1, RowFields, Zenon DEF Leased
<1>3. Leased(row, n).status = "processing" /\ Leased(row, n).attempts = n
  BY DEF Leased, ItemRow
<1> QED BY <1>2, <1>3

\* ... when FailIngestItem discards it or schedules the retry,
LEMMA FailedType ==
  ASSUME NEW row \in ItemRow, worker \in WorkerState
  PROVE  Failed(row) \in ItemRow
<1> DEFINE d == IF worker.age < Backoff THEN Backoff - worker.age ELSE 0
<1>1. d \in 0..2
  BY DEF Backoff, WorkerState
<1>2. {"retrying", "discarded"} \subseteq Active \cup Settled /\ 0 \in 0..2 /\ 0 \in 0..LeaseTicks
  BY DEF Active, Settled, LeaseTicks
<1>3. Failed(row) \in {[row EXCEPT !.status = "discarded", !.due = 0, !.lease = 0],
                       [row EXCEPT !.status = "retrying", !.lease = 0, !.due = d]}
  BY DEF Failed
<1> HIDE DEF d
<1>4. [row EXCEPT !.status = "discarded", !.due = 0, !.lease = 0] \in ItemRow
  BY <1>2, RowFields, Zenon
<1>5. [row EXCEPT !.status = "retrying", !.lease = 0, !.due = d] \in ItemRow
  BY <1>1, <1>2, RowFields, Zenon
<1> QED BY <1>3, <1>4, <1>5

\* ... when CompleteIngestItem settles it,
LEMMA CompletedType ==
  ASSUME NEW row \in ItemRow
  PROVE  [row EXCEPT !.status = "success", !.lease = 0] \in ItemRow
<1>1. "success" \in Active \cup Settled /\ 0 \in 0..LeaseTicks
  BY DEF Settled, LeaseTicks
<1> QED BY <1>1, RowFields, Zenon

\* ... and when time passes.
LEMMA TickedType ==
  ASSUME NEW row \in ItemRow
  PROVE  [row EXCEPT !.due = Less(@), !.lease = Less(@)] \in ItemRow
<1>1. Less(row.due) \in 0..2 /\ Less(row.lease) \in 0..LeaseTicks
  BY DEF ItemRow, Less, LeaseTicks
<1>2. [row EXCEPT !.due = Less(row.due), !.lease = Less(row.lease)] \in ItemRow
  BY <1>1, RowFields, Zenon
<1>3. [row EXCEPT !.due = Less(@), !.lease = Less(@)] = [row EXCEPT !.due = Less(row.due), !.lease = Less(row.lease)]
  BY DEF ItemRow
<1> QED BY <1>2, <1>3

\* A worker without an item is a worker state.
LEMMA NoWorkType ==
  ASSUME NEW p \in {"off", "scan", "claim", "resolve", "invalidate", "wait"}, NEW e \in BOOLEAN
  PROVE  NoWork(p, e) \in WorkerState
  BY BoundsAssumption DEF NoWork, WorkerState

\* A worker state stays one when one field moves inside its range,
LEMMA WorkerFields ==
  ASSUME NEW w \in WorkerState
  PROVE  /\ \A i \in Nat : [w EXCEPT !.id = i] \in WorkerState
         /\ \A n \in 0..AttemptCap : [w EXCEPT !.attempts = n] \in WorkerState
         /\ \A p \in {"resolve", "fail", "complete"} : [w EXCEPT !.pc = p] \in WorkerState
         /\ \A a \in {"stored", "found", "gone", "error"} : [w EXCEPT !.answer = a] \in WorkerState
         /\ \A g \in 0..MaxGen : [w EXCEPT !.gen = g] \in WorkerState
         /\ \A g \in 0..2 : [w EXCEPT !.age = g] \in WorkerState
  BY DEF WorkerState

\* ... when an item is taken,
LEMMA TakenType ==
  ASSUME NEW i \in Nat, NEW n \in 0..AttemptCap
  PROVE  [NoWork("resolve", FALSE) EXCEPT !.id = i, !.attempts = n] \in WorkerState
<1>1. NoWork("resolve", FALSE) \in WorkerState
  BY BoundsAssumption DEF NoWork, WorkerState, MaxAttempts
<1> QED BY <1>1, WorkerFields, Zenon

\* ... and when the answer for it is there.
LEMMA AnsweredType ==
  ASSUME NEW w \in WorkerState, NEW p \in {"fail", "complete"},
         NEW a \in {"stored", "found", "gone", "error"}, NEW g \in 0..MaxGen
  PROVE  [w EXCEPT !.pc = p, !.answer = a, !.gen = g] \in WorkerState
<1>1. p \in {"resolve", "fail", "complete"}
  OBVIOUS
<1> QED BY <1>1, WorkerFields, Zenon

\* A batch whose item is claimed stays a batch row.
LEMMA ClaimedBatchType ==
  ASSUME NEW b \in BatchRow
  PROVE  [b EXCEPT !.status = "processing"] \in BatchRow
  BY DEF BatchRow

\* The updates of a batch row by insert and finalize give batch rows.
LEMMA BatchType ==
  ASSUME NEW b \in BatchRow, NEW s \in {"none", "pending", "processing"} \cup Terminal,
         NEW m \in BOOLEAN, NEW T \in SUBSET Nat, NEW S \in SUBSET Nat, NEW D \in SUBSET Nat
  PROVE  /\ [b EXCEPT !.status = s, !.manual = m, !.total = T] \in BatchRow
         /\ [b EXCEPT !.status = s, !.total = T, !.success = S, !.discarded = D] \in BatchRow
<1>1. \A x \in BatchRow : [x EXCEPT !.status = s] \in BatchRow
  BY DEF BatchRow
<1>2. \A x \in BatchRow : [x EXCEPT !.manual = m] \in BatchRow
  BY DEF BatchRow
<1>3. \A x \in BatchRow : [x EXCEPT !.total = T] \in BatchRow
  BY DEF BatchRow
<1>4. \A x \in BatchRow : [x EXCEPT !.success = S] \in BatchRow
  BY DEF BatchRow
<1>5. \A x \in BatchRow : [x EXCEPT !.discarded = D] \in BatchRow
  BY DEF BatchRow
<1> QED BY <1>1, <1>2, <1>3, <1>4, <1>5, Zenon

\* Moving a caller keeps its request.
LEMMA CallerType ==
  ASSUME NEW x \in CallerState, NEW p \in {"idle"} \cup Busy
  PROVE  [x EXCEPT !.pc = p] \in CallerState /\ [x EXCEPT !.pc = p].req = x.req /\ Resting \in CallerState
  BY RequestsAssumption DEF CallerState, Resting

\* An answer names the request of its caller.
LEMMA AnswerType ==
  ASSUME TypeOK, NEW c \in Callers, NEW kind \in {"created", "replayed"}
  PROVE  Answered(c, kind) \subseteq Requests \X {"created", "replayed"}
<1>1. caller[c].req \in Requests
  BY DEF TypeOK, CallerState
<1> QED BY <1>1 DEF Answered, TypeOK

\* The rows an insert appends are well formed: the order of the candidates is a
\* function from 1..n for a natural n.
LEMMA InsertShape ==
  ASSUME Held, NEW c \in Callers, Insert(c)
  PROVE  \E n \in Nat : \E order \in [1..n -> Facts] :
           /\ lastId' = lastId + n
           /\ n > 0
           /\ items' = [i \in 1..(lastId + n) |->
                IF i <= lastId THEN items[i] ELSE NewRow(caller[c].req.key, order[i - lastId])]
           /\ batches' = [batches EXCEPT ![caller[c].req.key] =
                [NoBatch EXCEPT !.status = "pending", !.manual = caller[c].req.manual,
                                !.total = (lastId + 1)..(lastId + n)]]
           /\ caller[c].req.key \in Keys
<1> DEFINE r == caller[c].req
<1>1. r \in Requests /\ r.key \in Keys /\ r.facts \subseteq Facts /\ r.facts # {}
  BY RequestsAssumption DEF Held, TypeOK, CallerState
<1>a. PICK kept \in Deduplicated(r) : \E order \in Orders(kept) :
        /\ lastId' = lastId + Cardinality(kept)
        /\ items' = [i \in 1..(lastId + Cardinality(kept)) |->
             IF i <= lastId THEN items[i] ELSE NewRow(r.key, order[i - lastId])]
        /\ batches' = [batches EXCEPT ![r.key] =
             [NoBatch EXCEPT !.status = "pending", !.manual = r.manual,
                             !.total = (lastId + 1)..(lastId + Cardinality(kept))]]
  BY DEF Insert
<1>2. PICK order \in Orders(kept) :
        /\ lastId' = lastId + Cardinality(kept)
        /\ items' = [i \in 1..(lastId + Cardinality(kept)) |->
             IF i <= lastId THEN items[i] ELSE NewRow(r.key, order[i - lastId])]
        /\ batches' = [batches EXCEPT ![r.key] =
             [NoBatch EXCEPT !.status = "pending", !.manual = r.manual,
                             !.total = (lastId + 1)..(lastId + Cardinality(kept))]]
  BY <1>a
<1>3. kept \subseteq Facts /\ kept # {}
  BY <1>1, <1>2 DEF Deduplicated
<1>4. IsFiniteSet(kept)
  BY <1>3, FactsAssumption, FS_Subset
<1>5. Cardinality(kept) \in Nat /\ Cardinality(kept) > 0
  BY <1>3, <1>4, FS_CardinalityType, FS_EmptySet
<1>6. order \in [1..Cardinality(kept) -> Facts]
  BY <1>2, <1>3 DEF Orders, Bijection, Injection
<1> QED BY <1>1, <1>2, <1>5, <1>6

\* The null row of a key without a batch.
LEMMA NoBatchType == NoBatch \in BatchRow
  BY DEF NoBatch, BatchRow

\* No payload cached, none being built.
LEMMA NoCacheType == NoCache \in CacheState
  BY DEF NoCache, CacheState

\* The empty database and a worker at its startup scan.
LEMMA InitHeld == Init => Held
<1> SUFFICES ASSUME Init PROVE Held
  OBVIOUS
<1>1. items \in [1..lastId -> ItemRow] /\ lastId \in Nat
  BY DEF Init
<1>2. batches \in [Keys -> BatchRow]
  BY NoBatchType DEF Init
<1>3. worker \in WorkerState /\ worker.pc = "scan"
  BY NoWorkType DEF Init, NoWork
<1>4. Resting \in CallerState
  BY RequestsAssumption DEF Resting, CallerState
<1>5. caller \in [Callers -> CallerState]
  BY <1>4 DEF Init
<1>6. catalog \in [Repos -> 0..MaxGen] /\ upstream \in [Repos -> 1..MaxGen]
  BY BoundsAssumption DEF Init
<1>7. cache \in CacheState
  BY NoCacheType DEF Init
<1>8. stops \in 0..MaxStops
  BY BoundsAssumption DEF Init
<1>9. TypeOK
  BY <1>1, <1>2, <1>3, <1>5, <1>6, <1>7, <1>8 DEF TypeOK, Init
<1> QED BY <1>3, <1>9 DEF Held, LeaseHeld

\* The settling transactions: one item changes, its batch is finalized.
LEMMA FinalizedType ==
  ASSUME TypeOK, NEW its \in [1..lastId -> ItemRow], NEW k \in Keys
  PROVE  Finalized(its, k) \in [Keys -> BatchRow]
<1>1. Verdict(its, k) \in {"processing"} \cup Terminal
  BY DEF Verdict, Terminal
<1>2. RowsOf(its, k) \subseteq Nat
  BY DEF RowsOf, TypeOK
<1> DEFINE S == {i \in RowsOf(its, k) : its[i].status = "success"}
           D == {i \in RowsOf(its, k) : its[i].status = "discarded"}
           b == [batches[k] EXCEPT !.status = Verdict(its, k), !.total = RowsOf(its, k),
                                   !.success = S, !.discarded = D]
<1>3. b \in BatchRow
  BY <1>1, <1>2, BatchType DEF TypeOK
<1>4. Finalized(its, k) = [batches EXCEPT ![k] = b]
  BY DEF Finalized
<1> QED BY <1>3, <1>4 DEF TypeOK

\* After a settling commit the worker holds no item.
LEMMA AfterSettlingType ==
  ASSUME NEW its, NEW k
  PROVE  AfterSettling(its, k) \in WorkerState /\ AfterSettling(its, k).pc \in {"scan", "invalidate"}
  BY BoundsAssumption DEF AfterSettling, NoWork, WorkerState

\* One step per action of Callers, Worker.Run and their environment: each keeps
\* the types, and none touches the row of a claimed item but its own settling.
LEMMA HeldStep == Held /\ [Next]_vars => Held'
<1> SUFFICES ASSUME Held, [Next]_vars PROVE Held'
  OBVIOUS
<1> USE BoundsAssumption DEF Held, MaxAttempts, answers
<1>0. CASE UNCHANGED vars
  BY <1>0 DEF vars, TypeOK, LeaseHeld
<1>1. ASSUME NEW c \in Callers, NEW r \in Requests, Lookup(c, r) PROVE Held'
  <2>1. accepted' \subseteq Requests \X {"created", "replayed"}
    BY <1>1 DEF Lookup, TypeOK
  <2>2. caller' \in [Callers -> CallerState]
    BY <1>1 DEF Lookup, TypeOK, CallerState, Busy
  <2> QED BY <1>1, <2>1, <2>2 DEF Lookup, tables, process, TypeOK, LeaseHeld
<1>2. ASSUME NEW c \in Callers, Insert(c) PROVE Held'
  <2>1. PICK n \in Nat : \E order \in [1..n -> Facts] :
           /\ lastId' = lastId + n
           /\ n > 0
           /\ items' = [i \in 1..(lastId + n) |->
                IF i <= lastId THEN items[i] ELSE NewRow(caller[c].req.key, order[i - lastId])]
           /\ batches' = [batches EXCEPT ![caller[c].req.key] =
                [NoBatch EXCEPT !.status = "pending", !.manual = caller[c].req.manual,
                                !.total = (lastId + 1)..(lastId + n)]]
           /\ caller[c].req.key \in Keys
    BY <1>2, InsertShape
  <2>2. PICK order \in [1..n -> Facts] :
           /\ lastId' = lastId + n
           /\ n > 0
           /\ items' = [i \in 1..(lastId + n) |->
                IF i <= lastId THEN items[i] ELSE NewRow(caller[c].req.key, order[i - lastId])]
           /\ batches' = [batches EXCEPT ![caller[c].req.key] =
                [NoBatch EXCEPT !.status = "pending", !.manual = caller[c].req.manual,
                                !.total = (lastId + 1)..(lastId + n)]]
           /\ caller[c].req.key \in Keys
    BY <2>1
  <2>3. \A f \in Facts : NewRow(caller[c].req.key, f) \in ItemRow
    BY <2>2 DEF NewRow, ItemRow, Active, LeaseTicks
  <2>4. \A i \in 1..(lastId + n) : i > lastId => order[i - lastId] \in Facts
    BY <2>2 DEF TypeOK
  <2>5. lastId' \in Nat /\ items' \in [1..lastId' -> ItemRow]
    BY <2>2, <2>3, <2>4 DEF TypeOK
  <2>6. caller[c].req.manual \in BOOLEAN
    BY RequestsAssumption DEF TypeOK, CallerState
  <2>7. batches' \in [Keys -> BatchRow]
    <3> DEFINE T == (lastId + 1)..(lastId + n)
               b == [NoBatch EXCEPT !.status = "pending", !.manual = caller[c].req.manual,
                                    !.total = T]
    <3>1. T \in SUBSET Nat
      BY DEF TypeOK
    <3>2. b \in BatchRow
      BY <2>6, <3>1, NoBatchType, BatchType
    <3>3. batches' = [batches EXCEPT ![caller[c].req.key] = b]
      BY <2>2
    <3> QED BY <3>2, <3>3 DEF TypeOK
  <2>8. caller' \in [Callers -> CallerState]
    BY <1>2, CallerType DEF Insert, TypeOK, Busy
  <2>9. UNCHANGED <<events, catalog, fresh, upstream, wake, worker, cache, process, answers>>
    BY <1>2 DEF Insert
  <2>10. TypeOK'
    BY <2>5, <2>7, <2>8, <2>9 DEF TypeOK, process
  <2>11. \A i \in 1..lastId : i \in 1..lastId' /\ items'[i] = items[i]
    BY <2>2 DEF TypeOK
  <2> QED BY <2>9, <2>10, <2>11 DEF LeaseHeld, TypeOK
<1>3. ASSUME NEW c \in Callers, InsertRefused(c) PROVE Held'
  BY <1>3 DEF InsertRefused, tables, process, TypeOK, LeaseHeld, CallerState, Busy
<1>a. ASSUME NEW c \in Callers, caller' = [caller EXCEPT ![c] = Resting]
      PROVE  /\ caller' \in [Callers -> CallerState]
             /\ caller[c].req \in Requests /\ caller[c].req.key \in Keys
  <2>1. Resting \in CallerState
    BY RequestsAssumption DEF CallerState, Resting
  <2> QED BY <1>a, <2>1, RequestsAssumption DEF TypeOK, CallerState
<1>4. ASSUME NEW c \in Callers, Reread(c) PROVE Held'
  <2>1. /\ caller' \in [Callers -> CallerState]
        /\ accepted' \subseteq Requests \X {"created", "replayed"}
    <3>1. caller' \in [Callers -> CallerState]
      BY <1>4, <1>a DEF Reread
    <3>2. \E kind \in {"created", "replayed"} : accepted' \subseteq Answered(c, kind)
      BY <1>4 DEF Reread, Answered
    <3> QED BY <3>1, <3>2, AnswerType
  <2>2. UNCHANGED <<tables, upstream, wake, worker, cache, process, unsignalled>>
    BY <1>4 DEF Reread
  <2> QED BY <2>1, <2>2 DEF tables, process, TypeOK, LeaseHeld
<1>5. ASSUME NEW c \in Callers, Notify(c) PROVE Held'
  <2>1. /\ caller' \in [Callers -> CallerState]
        /\ accepted' \subseteq Requests \X {"created", "replayed"}
    <3>1. caller' \in [Callers -> CallerState]
      BY <1>5, <1>a DEF Notify
    <3>2. \E kind \in {"created", "replayed"} : accepted' \subseteq Answered(c, kind)
      BY <1>5 DEF Notify, Answered
    <3> QED BY <3>1, <3>2, AnswerType
  <2>2. wake' = TRUE /\ UNCHANGED <<tables, upstream, worker, cache, process, unsignalled>>
    BY <1>5 DEF Notify
  <2> QED BY <2>1, <2>2 DEF tables, process, TypeOK, LeaseHeld
<1>6. ASSUME NEW c \in Callers, CallerError(c) PROVE Held'
  BY <1>6, <1>a DEF CallerError, tables, process, TypeOK, LeaseHeld
<1>7. CASE WakeScan
  <2>1. worker' \in WorkerState /\ worker'.pc \notin {"resolve", "fail", "complete"}
    BY <1>7, NoWorkType DEF WakeScan, NoWork, TypeOK, WorkerState
  <2> QED BY <1>7, <2>1 DEF WakeScan, tables, process, TypeOK, LeaseHeld
<1>8. CASE TickerScan
  <2>1. worker' \in WorkerState /\ worker'.pc \notin {"resolve", "fail", "complete"}
    BY <1>8, NoWorkType DEF TickerScan, NoWork, TypeOK, WorkerState
  <2> QED BY <1>8, <2>1 DEF TickerScan, tables, process, TypeOK, LeaseHeld
<1>9. CASE StopWorker
  <2>1. worker' \in WorkerState /\ worker'.pc \notin {"resolve", "fail", "complete"}
    BY <1>9, NoWorkType DEF StopWorker, NoWork, TypeOK, WorkerState
  <2> QED BY <1>9, <2>1 DEF StopWorker, tables, process, TypeOK, LeaseHeld
<1>10. CASE CheckContext
  <2>1. worker' \in WorkerState /\ worker'.pc \notin {"resolve", "fail", "complete"}
    BY <1>10, NoWorkType DEF CheckContext, NoWork, TypeOK, WorkerState
  <2> QED BY <1>10, <2>1 DEF CheckContext, tables, process, TypeOK, LeaseHeld
<1>11. Recovered \in [1..lastId -> ItemRow]
  <2>1. \A i \in 1..lastId : [items[i] EXCEPT !.status = "retrying", !.due = 0] \in ItemRow
    BY GivenBackType DEF TypeOK
  <2> QED BY <2>1 DEF Recovered, TypeOK
<1>12. CASE Claim
  <2>1. PICK i \in Claimable(Recovered) :
          LET n == More(items[i].attempts, AttemptCap)
              k == items[i].batch
          IN /\ items' = [Recovered EXCEPT ![i] = Leased(@, n)]
             /\ batches' = IF batches[k].status \in {"pending", "processing"}
                           THEN [batches EXCEPT ![k] = [@ EXCEPT !.status = "processing"]]
                           ELSE batches
             /\ worker' = [NoWork("resolve", FALSE) EXCEPT !.id = i, !.attempts = n]
    BY <1>12 DEF Claim
  <2> DEFINE n == More(items[i].attempts, AttemptCap)
  <2>2. i \in 1..lastId /\ n \in 0..AttemptCap /\ items[i].batch \in Keys
    <3>1. i \in 1..lastId
      BY DEF Claimable, Recovered
    <3>2. items[i] \in ItemRow
      BY <3>1 DEF TypeOK
    <3>3. items[i].attempts \in 0..AttemptCap /\ items[i].batch \in Keys
      BY <3>2 DEF ItemRow
    <3> QED BY <3>1, <3>3, BoundsAssumption DEF More
  <2> HIDE DEF n
  <2>3. Leased(Recovered[i], n) \in ItemRow /\ Leased(Recovered[i], n).status = "processing"
        /\ Leased(Recovered[i], n).attempts = n
    BY <1>11, <2>2, LeasedType
  <2>4. items' \in [1..lastId -> ItemRow] /\ items'[i] = Leased(Recovered[i], n)
    BY <1>11, <2>1, <2>2, <2>3 DEF n
  <2>5. batches' \in [Keys -> BatchRow]
    <3>1. [batches[items[i].batch] EXCEPT !.status = "processing"] \in BatchRow
      BY <2>2, ClaimedBatchType DEF TypeOK
    <3> QED BY <2>1, <2>2, <3>1 DEF TypeOK
  <2>6. worker' \in WorkerState /\ worker'.id = i /\ worker'.attempts = n
    <3>1. worker' = [NoWork("resolve", FALSE) EXCEPT !.id = i, !.attempts = n]
      BY <2>1 DEF n
    <3>2. i \in Nat
      BY <2>2 DEF TypeOK
    <3>3. worker' \in WorkerState
      BY <2>2, <3>1, <3>2, TakenType
    <3>4. worker'.id = i /\ worker'.attempts = n
      BY <3>1 DEF NoWork
    <3> QED BY <3>3, <3>4
  <2>7. items'[i].status = "processing" /\ items'[i].attempts = n
    BY <2>3, <2>4
  <2>8. UNCHANGED <<lastId, events, catalog, fresh, upstream, wake, caller, cache, process, answers>>
    BY <1>12 DEF Claim
  <2> QED BY <2>2, <2>4, <2>5, <2>6, <2>7, <2>8 DEF TypeOK, LeaseHeld, process
<1>13. CASE ClaimNothing
  <2>1. worker' \in WorkerState /\ worker'.pc = "wait"
    BY <1>13, NoWorkType DEF ClaimNothing, NoWork
  <2> QED BY <1>11, <1>13, <2>1 DEF ClaimNothing, process, TypeOK, LeaseHeld
<1>14. CASE ClaimError
  <2>1. worker' \in WorkerState /\ worker'.pc \notin {"resolve", "fail", "complete"}
    BY <1>14, NoWorkType DEF ClaimError, NoWork, TypeOK, WorkerState
  <2> QED BY <1>14, <2>1 DEF ClaimError, tables, process, TypeOK, LeaseHeld
<1>15. worker.pc \in {"resolve", "fail", "complete"} =>
         /\ worker.id \in 1..lastId
         /\ items[worker.id] \in ItemRow
         /\ items[worker.id].batch \in Keys
         /\ Target(worker.id) \in Repos
  BY FactsAssumption DEF TypeOK, LeaseHeld, ItemRow, Target
<1>16. CASE ReuseStored
  <2>1. catalog[Target(worker.id)] \in 0..MaxGen
    BY <1>15, <1>16 DEF ReuseStored, TypeOK
  <2>2. worker' \in WorkerState /\ worker'.id = worker.id /\ worker'.attempts = worker.attempts
    <3>1. worker' = [worker EXCEPT !.pc = "complete", !.answer = "stored",
                                   !.gen = catalog[Target(worker.id)]]
      BY <1>16 DEF ReuseStored
    <3>2. worker' \in WorkerState
      BY <2>1, <3>1, AnsweredType DEF TypeOK
    <3> QED BY <3>1, <3>2 DEF TypeOK, WorkerState
  <2> QED BY <1>15, <1>16, <2>2 DEF ReuseStored, tables, process, TypeOK, LeaseHeld
<1>17. ASSUME NEW a \in {"found", "gone", "error"}, AskGitHub(a) PROVE Held'
  <2>1. upstream[Target(worker.id)] \in 0..MaxGen
    BY <1>15, <1>17 DEF AskGitHub, TypeOK
  <2>2. worker' \in WorkerState /\ worker'.id = worker.id /\ worker'.attempts = worker.attempts
    <3> DEFINE p == IF a = "found" THEN "complete" ELSE "fail"
               g == IF a = "found" THEN upstream[Target(worker.id)] ELSE 0
    <3>1. worker' = [worker EXCEPT !.pc = p, !.answer = a, !.gen = g]
      BY <1>17 DEF AskGitHub
    <3>2. p \in {"fail", "complete"} /\ g \in 0..MaxGen
      BY <2>1
    <3> HIDE DEF p, g
    <3>3. worker' \in WorkerState
      BY <3>1, <3>2, AnsweredType DEF TypeOK
    <3> QED BY <3>1, <3>3 DEF TypeOK, WorkerState
  <2> QED BY <1>15, <1>17, <2>2 DEF AskGitHub, tables, process, TypeOK, LeaseHeld
<1>18. CASE Fail
  <2> DEFINE its == [items EXCEPT ![worker.id] = Failed(@)]
  <2>1. Failed(items[worker.id]) \in ItemRow
    BY <1>15, <1>18, FailedType DEF Fail, TypeOK
  <2>2. its \in [1..lastId -> ItemRow]
    BY <1>15, <1>18, <2>1 DEF Fail, TypeOK
  <2>3. batches' \in [Keys -> BatchRow] /\ worker' \in WorkerState
        /\ worker'.pc \in {"scan", "invalidate"}
    BY <1>15, <1>18, <2>2, FinalizedType, AfterSettlingType DEF Fail
  <2>4. items' = its /\ UNCHANGED <<lastId, events, catalog, fresh, upstream, wake, caller, cache, process, answers>>
    BY <1>18 DEF Fail
  <2> QED BY <2>2, <2>3, <2>4 DEF process, TypeOK, LeaseHeld
<1>19. CASE Complete
  <2> DEFINE its == [items EXCEPT ![worker.id] = [@ EXCEPT !.status = "success", !.lease = 0]]
  <2>1. [items[worker.id] EXCEPT !.status = "success", !.lease = 0] \in ItemRow
    <3>1. items[worker.id] \in ItemRow
      BY <1>15, <1>19 DEF Complete
    <3> QED BY <3>1, CompletedType
  <2>2. its \in [1..lastId -> ItemRow]
    BY <1>15, <1>19, <2>1 DEF Complete, TypeOK
  <2>3. batches' \in [Keys -> BatchRow] /\ worker' \in WorkerState
        /\ worker'.pc \in {"scan", "invalidate"}
    BY <1>15, <1>19, <2>2, FinalizedType, AfterSettlingType DEF Complete
  <2>4. ExternalKey(worker.id) \in ({"manual"} \X Repos) \cup ({"event"} \X Facts)
    BY <1>15, <1>19 DEF Complete, ExternalKey, TypeOK, ItemRow
  <2>5. items' = its /\ UNCHANGED <<lastId, upstream, wake, caller, cache, process, answers>>
    BY <1>19 DEF Complete
  <2>6. catalog' \in [Repos -> 0..MaxGen] /\ fresh' \in [Repos -> BOOLEAN]
    BY <1>15, <1>19 DEF Complete, TypeOK, WorkerState
  <2>7. events' \subseteq ({"manual"} \X Repos) \cup ({"event"} \X Facts)
    BY <1>19, <2>4 DEF Complete, EventWritten, TypeOK
  <2> QED BY <2>2, <2>3, <2>5, <2>6, <2>7 DEF process, TypeOK, LeaseHeld
<1>20. CASE SettleError
  <2>1. worker' \in WorkerState /\ worker'.pc \notin {"resolve", "fail", "complete"}
    BY <1>20, NoWorkType DEF SettleError, NoWork, TypeOK, WorkerState
  <2> QED BY <1>20, <2>1 DEF SettleError, tables, process, TypeOK, LeaseHeld
<1>21. CASE Invalidate
  <2>1. worker' \in WorkerState /\ worker'.pc \notin {"resolve", "fail", "complete"}
    BY <1>21, NoWorkType DEF Invalidate, NoWork, TypeOK, WorkerState
  <2>2. cache' \in CacheState
    BY <1>21 DEF Invalidate, TypeOK, CacheState
  <2> QED BY <1>21, <2>1, <2>2 DEF Invalidate, tables, process, TypeOK, LeaseHeld
<1>22. CASE StartPayload
  <2>1. Published(items) \in SUBSET Nat
    BY DEF Published, TypeOK
  <2>2. cache' \in CacheState
    BY <1>22, <2>1 DEF StartPayload, TypeOK, CacheState
  <2> QED BY <1>22, <2>2 DEF StartPayload, tables, process, TypeOK, LeaseHeld
<1>34. CASE StorePayload
  <2>1. cache' \in CacheState
    BY <1>34 DEF StorePayload, NoCache, TypeOK, CacheState
  <2> QED BY <1>34, <2>1 DEF StorePayload, tables, process, TypeOK, LeaseHeld
<1>23. ASSUME NEW r \in Repos, Recreate(r) PROVE Held'
  BY <1>23 DEF Recreate, tables, process, TypeOK, LeaseHeld
<1>24. ASSUME NEW r \in Repos, GrowStale(r) PROVE Held'
  BY <1>24 DEF GrowStale, process, TypeOK, LeaseHeld
<1>25. CASE Tick
  <2>1. items' \in [1..lastId -> ItemRow]
        /\ \A i \in 1..lastId : items'[i].status = items[i].status
                              /\ items'[i].attempts = items[i].attempts
    <3>1. \A i \in 1..lastId : [items[i] EXCEPT !.due = Less(@), !.lease = Less(@)] \in ItemRow
      BY TickedType DEF TypeOK
    <3> QED BY <1>25, <3>1 DEF Tick, TypeOK, ItemRow
  <2>2. worker' \in WorkerState /\ worker'.pc = worker.pc /\ worker'.id = worker.id
        /\ worker'.attempts = worker.attempts
    <3>1. More(worker.age, 2) \in 0..2
      BY DEF TypeOK, WorkerState, More
    <3>2. [worker EXCEPT !.age = More(worker.age, 2)] \in WorkerState
      BY <3>1 DEF TypeOK, WorkerState
    <3>3. worker' = worker \/ worker' = [worker EXCEPT !.age = More(worker.age, 2)]
      BY <1>25 DEF Tick
    <3> QED BY <3>2, <3>3 DEF TypeOK, WorkerState
  <2> QED BY <1>25, <2>1, <2>2 DEF Tick, process, TypeOK, LeaseHeld
<1>26. CASE BeginShutdown
  BY <1>26 DEF BeginShutdown, tables, TypeOK, LeaseHeld
<1>27. CASE CloseStore
  BY <1>27 DEF CloseStore, tables, TypeOK, LeaseHeld
<1>28. CASE Crash
  <2>1. worker' \in WorkerState /\ worker'.pc = "off"
    BY <1>28, NoWorkType DEF Crash, Forget, NoWork
  <2>2. Resting \in CallerState
    BY RequestsAssumption DEF Resting, CallerState
  <2>3. caller' \in [Callers -> CallerState]
    BY <1>28, <2>2 DEF Crash, Forget
  <2>4. cache' \in CacheState
    BY <1>28, NoCacheType DEF Crash, Forget
  <2>5. stops' \in 0..MaxStops
    BY <1>28 DEF Crash, TypeOK
  <2> QED BY <1>28, <2>1, <2>3, <2>4, <2>5 DEF Crash, Forget, tables, TypeOK, LeaseHeld
<1>29. CASE Exit
  <2>1. worker' \in WorkerState /\ worker'.pc = "off"
    BY <1>29, NoWorkType DEF Exit, Forget, NoWork
  <2>2. Resting \in CallerState
    BY RequestsAssumption DEF Resting, CallerState
  <2>3. caller' \in [Callers -> CallerState]
    BY <1>29, <2>2 DEF Exit, Forget
  <2>4. cache' \in CacheState
    BY <1>29, NoCacheType DEF Exit, Forget
  <2> QED BY <1>29, <2>1, <2>3, <2>4 DEF Exit, Forget, tables, TypeOK, LeaseHeld
<1>30. CASE Restart
  <2>1. worker' \in WorkerState /\ worker'.pc = "scan"
    BY <1>30, NoWorkType DEF Restart, NoWork
  <2> QED BY <1>30, <2>1 DEF Restart, tables, TypeOK, LeaseHeld
<1>31. CASE CallerStep
  BY <1>1, <1>2, <1>3, <1>4, <1>5, <1>6, <1>31 DEF CallerStep
<1>32. CASE WorkerStep
  BY <1>7, <1>8, <1>9, <1>10, <1>12, <1>13, <1>14, <1>16, <1>17, <1>18, <1>19,
     <1>20, <1>21, <1>32 DEF WorkerStep
<1>33. CASE Environment
  BY <1>22, <1>23, <1>24, <1>25, <1>26, <1>27, <1>28, <1>29, <1>30, <1>33, <1>34 DEF Environment
<1> QED BY <1>0, <1>31, <1>32, <1>33 DEF Next

\* Every variable keeps its type, and the item a worker comes back with is the
\* one it claimed: still in processing, with the attempt count it was handed.
THEOREM LeaseIsHeld == Spec => [](TypeOK /\ LeaseHeld)
<1>1. Spec => []Held
  BY InitHeld, HeldStep, PTL DEF Spec
<1> QED BY <1>1, PTL DEF Held

\* No transaction, answer or crash writes a row or a state outside its columns.
THEOREM QueueIsTyped == Spec => []TypeOK
  BY LeaseIsHeld, PTL

(***************************************************************************)
(* The queue implements the ledger.  Every step of Ingest is of one of     *)
(* three kinds, seen from the tables: it accepts a batch, it settles or    *)
(* returns the item of the worker, or it moves nothing between active and  *)
(* settled.  Then what the reports, the source events, the wake-up, the    *)
(* acceptance and the bulk payload promise, from the same three kinds.     *)
(***************************************************************************)
\* Every item belongs to a batch that was accepted.
NoOrphans == \A i \in 1..lastId : Exists(items[i].batch)

Kept == Held /\ BatchMatchesItems /\ NoOrphans

Unsettled == {"pending", "processing"}

\* Claims, recoveries, ticks, and all that leaves the queue alone.
QuietStep ==
  /\ lastId' = lastId
  /\ \A i \in 1..lastId :
       /\ items'[i].batch = items[i].batch
       /\ items'[i].fact = items[i].fact
       /\ \/ items'[i].status = items[i].status
          \/ items'[i].status \in Active /\ items[i].status \in Active
  /\ \A k \in Keys :
       \/ batches'[k] = batches[k]
       \/ /\ batches[k].status \in Unsettled /\ batches'[k].status \in Unsettled
          /\ batches'[k].total = batches[k].total
          /\ batches'[k].success = batches[k].success
          /\ batches'[k].discarded = batches[k].discarded

\* The insert transaction of batch k.
AcceptStep(k) ==
  /\ ~Exists(k)
  /\ lastId' > lastId
  /\ \A i \in 1..lastId : items'[i] = items[i]
  /\ \A i \in 1..lastId' : i > lastId => items'[i].batch = k /\ items'[i].status = "pending"
  /\ \A l \in Keys \ {k} : batches'[l] = batches[l]
  /\ batches'[k].status = "pending"
  /\ batches'[k].total = {i \in 1..lastId' : i > lastId}
  /\ batches'[k].success = {} /\ batches'[k].discarded = {}

\* The transactions of FailIngestItem and CompleteIngestItem for item i.
SettleStep(i) ==
  /\ lastId' = lastId
  /\ items[i].status = "processing"
  /\ items'[i].status \in {"success", "discarded", "retrying"}
  /\ items'[i].batch = items[i].batch
  /\ items'[i].fact = items[i].fact
  /\ \A j \in (1..lastId) \ {i} : items'[j] = items[j]
  /\ \A l \in Keys \ {items[i].batch} : batches'[l] = batches[l]
  /\ batches'[items[i].batch].status = Verdict(items', items[i].batch)
  /\ batches'[items[i].batch].total = RowsOf(items', items[i].batch)
  /\ batches'[items[i].batch].success =
       {j \in RowsOf(items', items[i].batch) : items'[j].status = "success"}
  /\ batches'[items[i].batch].discarded =
       {j \in RowsOf(items', items[i].batch) : items'[j].status = "discarded"}

\* A step that leaves the tables of the queue alone is quiet.
LEMMA TablesAlone ==
  ASSUME UNCHANGED <<items, lastId, batches>>
  PROVE  QuietStep
  BY DEF QuietStep

\* An insert is the acceptance of the caller's key.
LEMMA InsertAccepts ==
  ASSUME Held, NEW c \in Callers, Insert(c)
  PROVE  caller[c].req.key \in Keys /\ AcceptStep(caller[c].req.key)
<1> DEFINE k == caller[c].req.key
<1> DEFINE Shape(n, order) ==
         /\ lastId' = lastId + n
         /\ n > 0
         /\ items' = [i \in 1..(lastId + n) |->
              IF i <= lastId THEN items[i] ELSE NewRow(k, order[i - lastId])]
         /\ batches' = [batches EXCEPT ![k] =
              [NoBatch EXCEPT !.status = "pending", !.manual = caller[c].req.manual,
                              !.total = (lastId + 1)..(lastId + n)]]
         /\ k \in Keys
<1>a. PICK n \in Nat : \E order \in [1..n -> Facts] : Shape(n, order)
  BY InsertShape
<1>1. PICK order \in [1..n -> Facts] : Shape(n, order)
  BY <1>a
<1> HIDE DEF k
<1>2. lastId \in Nat /\ batches \in [Keys -> BatchRow]
  BY DEF Held, TypeOK
<1>3. ~Exists(k)
  BY DEF Insert, k
<1>4. /\ \A i \in 1..lastId : items'[i] = items[i]
      /\ \A i \in 1..lastId' : i > lastId => items'[i].batch = k /\ items'[i].status = "pending"
  BY <1>1, <1>2 DEF NewRow
<1>5. (lastId + 1)..(lastId + n) = {i \in 1..lastId' : i > lastId}
  BY <1>1, <1>2
<1> DEFINE b == [NoBatch EXCEPT !.status = "pending", !.manual = caller[c].req.manual,
                                !.total = (lastId + 1)..(lastId + n)]
<1>6. b.status = "pending" /\ b.total = (lastId + 1)..(lastId + n) /\ b.success = {} /\ b.discarded = {}
  BY DEF NoBatch
<1>7. batches'[k] = b /\ \A l \in Keys \ {k} : batches'[l] = batches[l]
  BY <1>1, <1>2
<1> HIDE DEF b
<1>8. lastId' > lastId
  BY <1>1, <1>2
<1>9. /\ batches'[k].status = "pending" /\ batches'[k].success = {} /\ batches'[k].discarded = {}
      /\ batches'[k].total = {i \in 1..lastId' : i > lastId}
  BY <1>5, <1>6, <1>7, Zenon
<1>10. AcceptStep(k)
  BY <1>3, <1>4, <1>7, <1>8, <1>9, Zenon DEF AcceptStep
<1> QED BY <1>1, <1>10 DEF k

\* A claim takes the first claimable item of the recovered queue.
LEMMA ClaimIsQuiet ==
  ASSUME Held, Claim
  PROVE  QuietStep
<1>1. PICK i \in Claimable(Recovered) :
        /\ items' = [Recovered EXCEPT ![i] = Leased(@, More(items[i].attempts, AttemptCap))]
        /\ batches' = IF batches[items[i].batch].status \in Unsettled
                      THEN [batches EXCEPT ![items[i].batch] = [@ EXCEPT !.status = "processing"]]
                      ELSE batches
        /\ lastId' = lastId
  BY DEF Claim, Unsettled
<1>2. items \in [1..lastId -> ItemRow] /\ batches \in [Keys -> BatchRow]
  BY DEF Held, TypeOK
<1>3. i \in 1..lastId
  BY <1>2 DEF Claimable, Recovered
<1>4. \A j \in 1..lastId :
        /\ Recovered[j].batch = items[j].batch
        /\ Recovered[j].fact = items[j].fact
        /\ \/ Recovered[j].status = items[j].status
           \/ Recovered[j].status \in Active /\ items[j].status \in Active
  BY <1>2 DEF Recovered, ItemRow, Active
<1>5. DOMAIN Recovered = 1..lastId
  BY DEF Recovered
<1>6. Recovered[i].status \in Active
  BY <1>1 DEF Claimable, Active
<1>7. Recovered[i] \in ItemRow
  <2>1. [items[i] EXCEPT !.status = "retrying", !.due = 0] \in ItemRow
    BY <1>2, <1>3, GivenBackType
  <2> QED BY <1>2, <1>3, <2>1 DEF Recovered
<1> DEFINE x == Leased(Recovered[i], More(items[i].attempts, AttemptCap))
<1>8. x.batch = Recovered[i].batch /\ x.fact = Recovered[i].fact /\ x.status = "processing"
  BY <1>7 DEF Leased, ItemRow
<1>9. items'[i] = x /\ \A j \in (1..lastId) \ {i} : items'[j] = Recovered[j]
  BY <1>1, <1>3, <1>5 DEF Recovered
<1> HIDE DEF x
<1>10. items[i].status \in Active
  BY <1>2, <1>3, <1>4, <1>6 DEF ItemRow
<1>11. \A j \in 1..lastId :
         /\ items'[j].batch = items[j].batch
         /\ items'[j].fact = items[j].fact
         /\ \/ items'[j].status = items[j].status
            \/ items'[j].status \in Active /\ items[j].status \in Active
  <2> TAKE j \in 1..lastId
  <2>1. CASE j = i
    BY <1>3, <1>4, <1>8, <1>9, <1>10, <2>1 DEF Active
  <2>2. CASE j # i
    BY <1>4, <1>9, <2>2
  <2> QED BY <2>1, <2>2
<1>12. items[i].batch \in Keys
  BY <1>2, <1>3 DEF ItemRow
<1>13. \A k \in Keys :
         \/ batches'[k] = batches[k]
         \/ /\ batches[k].status \in Unsettled /\ batches'[k].status \in Unsettled
            /\ batches'[k].total = batches[k].total
            /\ batches'[k].success = batches[k].success
            /\ batches'[k].discarded = batches[k].discarded
  <2>1. CASE batches[items[i].batch].status \in Unsettled
    <3> DEFINE b == [batches[items[i].batch] EXCEPT !.status = "processing"]
    <3>1. /\ b.status = "processing" /\ b.total = batches[items[i].batch].total
          /\ b.success = batches[items[i].batch].success
          /\ b.discarded = batches[items[i].batch].discarded
      BY <1>2, <1>12 DEF BatchRow
    <3>2. batches'[items[i].batch] = b /\ \A k \in Keys \ {items[i].batch} : batches'[k] = batches[k]
      BY <1>1, <1>2, <1>12, <2>1
    <3> HIDE DEF b
    <3> QED BY <2>1, <3>1, <3>2 DEF Unsettled
  <2>2. CASE batches[items[i].batch].status \notin Unsettled
    BY <1>1, <2>2
  <2> QED BY <2>1, <2>2
<1> QED BY <1>1, <1>11, <1>13 DEF QuietStep

\* The recovery of leases alone, and the passing of time, are quiet.
LEMMA RecoveryAndTimeAreQuiet ==
  ASSUME Held, ClaimNothing \/ Tick
  PROVE  QuietStep
<1>1. items \in [1..lastId -> ItemRow]
  BY DEF Held, TypeOK
<1>2. CASE ClaimNothing
  <2>1. \A j \in 1..lastId :
          /\ Recovered[j].batch = items[j].batch
          /\ Recovered[j].fact = items[j].fact
          /\ \/ Recovered[j].status = items[j].status
             \/ Recovered[j].status \in Active /\ items[j].status \in Active
    BY <1>1 DEF Recovered, ItemRow, Active
  <2> QED BY <1>2, <2>1 DEF ClaimNothing, QuietStep
<1>3. CASE Tick
  <2>1. \A j \in 1..lastId :
          /\ items'[j].batch = items[j].batch
          /\ items'[j].fact = items[j].fact
          /\ items'[j].status = items[j].status
    BY <1>1, <1>3 DEF Tick, ItemRow
  <2> QED BY <1>3, <2>1 DEF Tick, QuietStep
<1> QED BY <1>2, <1>3

\* finalizeIngestBatchTx writes the verdict and the counters of one batch.
LEMMA FinalizedRow ==
  ASSUME batches \in [Keys -> BatchRow], NEW k \in Keys, NEW its
  PROVE  /\ \A l \in Keys \ {k} : Finalized(its, k)[l] = batches[l]
         /\ Finalized(its, k)[k].status = Verdict(its, k)
         /\ Finalized(its, k)[k].total = RowsOf(its, k)
         /\ Finalized(its, k)[k].success = {i \in RowsOf(its, k) : its[i].status = "success"}
         /\ Finalized(its, k)[k].discarded = {i \in RowsOf(its, k) : its[i].status = "discarded"}
<1> DEFINE v == Verdict(its, k)
           T == RowsOf(its, k)
           S == {i \in T : its[i].status = "success"}
           D == {i \in T : its[i].status = "discarded"}
           b == [batches[k] EXCEPT !.status = v, !.total = T, !.success = S, !.discarded = D]
<1>1. Finalized(its, k) = [batches EXCEPT ![k] = b]
  BY DEF Finalized
<1> HIDE DEF v, T, S, D
<1>2. b.status = v /\ b.total = T /\ b.success = S /\ b.discarded = D
  BY DEF BatchRow
<1> HIDE DEF b
<1>3. Finalized(its, k)[k] = b /\ \A l \in Keys \ {k} : Finalized(its, k)[l] = batches[l]
  BY <1>1
<1> QED BY <1>2, <1>3 DEF v, T, S, D

\* FailIngestItem and CompleteIngestItem settle or return the worker's item.
LEMMA SettlingSteps ==
  ASSUME Held, Fail \/ Complete
  PROVE  worker.id \in 1..lastId /\ SettleStep(worker.id)
<1> DEFINE w == worker.id
           k == items[w].batch
<1> HIDE DEF w, k
<1>1. worker.pc \in {"fail", "complete"}
  BY DEF Fail, Complete
<1>2. w \in 1..lastId /\ items \in [1..lastId -> ItemRow] /\ batches \in [Keys -> BatchRow]
      /\ items[w] \in ItemRow /\ items[w].status = "processing" /\ k \in Keys
  BY <1>1 DEF Held, TypeOK, LeaseHeld, ItemRow, w, k
<1>3. \E x : /\ items' = [items EXCEPT ![w] = x]
             /\ x.batch = k /\ x.fact = items[w].fact
             /\ x.status \in {"success", "discarded", "retrying"}
             /\ batches' = Finalized(items', k)
             /\ lastId' = lastId
  <2>1. CASE Fail
    <3>1. items' = [items EXCEPT ![w] = Failed(items[w])] /\ batches' = Finalized(items', k)
          /\ lastId' = lastId
      BY <2>1 DEF Fail, w, k
    <3>2. /\ Failed(items[w]).batch = k /\ Failed(items[w]).fact = items[w].fact
          /\ Failed(items[w]).status \in {"discarded", "retrying"}
      BY <1>2 DEF Failed, ItemRow, k
    <3> QED BY <3>1, <3>2
  <2>2. CASE Complete
    <3> DEFINE x == [items[w] EXCEPT !.status = "success", !.lease = 0]
    <3>1. items' = [items EXCEPT ![w] = x] /\ batches' = Finalized(items', k) /\ lastId' = lastId
      BY <2>2 DEF Complete, w, k
    <3>2. x.batch = k /\ x.fact = items[w].fact /\ x.status = "success"
      BY <1>2 DEF ItemRow, k
    <3> QED BY <3>1, <3>2
  <2> QED BY <2>1, <2>2
<1>4. PICK x : /\ items' = [items EXCEPT ![w] = x]
               /\ x.batch = k /\ x.fact = items[w].fact
               /\ x.status \in {"success", "discarded", "retrying"}
               /\ batches' = Finalized(items', k)
               /\ lastId' = lastId
  BY <1>3
<1>5. items'[w] = x /\ \A j \in (1..lastId) \ {w} : items'[j] = items[j]
  BY <1>2, <1>4
<1>6. /\ \A l \in Keys \ {k} : batches'[l] = batches[l]
      /\ batches'[k].status = Verdict(items', k)
      /\ batches'[k].total = RowsOf(items', k)
      /\ batches'[k].success = {i \in RowsOf(items', k) : items'[i].status = "success"}
      /\ batches'[k].discarded = {i \in RowsOf(items', k) : items'[i].status = "discarded"}
  <2> DEFINE its == items'
  <2>1. batches' = Finalized(its, k)
    BY <1>4
  <2> HIDE DEF its
  <2>2. /\ \A l \in Keys \ {k} : Finalized(its, k)[l] = batches[l]
        /\ Finalized(its, k)[k].status = Verdict(its, k)
        /\ Finalized(its, k)[k].total = RowsOf(its, k)
        /\ Finalized(its, k)[k].success = {i \in RowsOf(its, k) : its[i].status = "success"}
        /\ Finalized(its, k)[k].discarded = {i \in RowsOf(its, k) : its[i].status = "discarded"}
    BY <1>2, FinalizedRow, Zenon
  <2> QED BY <2>1, <2>2, Zenon DEF its
<1>7. /\ items'[w].status \in {"success", "discarded", "retrying"}
      /\ items'[w].batch = items[w].batch /\ items'[w].fact = items[w].fact
  BY <1>4, <1>5 DEF k
<1> QED BY <1>2, <1>4, <1>5, <1>6, <1>7, Zenon DEF SettleStep, w, k

\* Every step is quiet, or it is one of the three transactions that are not.
LEMMA Transactions ==
  ASSUME Held, [Next]_vars
  PROVE  \/ QuietStep
         \/ \E c \in Callers : Insert(c)
         \/ Fail
         \/ Complete
<1>1. CASE UNCHANGED vars
  BY <1>1, TablesAlone DEF vars
<1>2. CASE CallerStep
  <2>1. ASSUME NEW c \in Callers,
               (\E r \in Requests : Lookup(c, r)) \/ InsertRefused(c) \/ Reread(c)
                 \/ Notify(c) \/ CallerError(c)
        PROVE  UNCHANGED <<items, lastId, batches>>
    BY <2>1 DEF Lookup, InsertRefused, Reread, Notify, CallerError, tables
  <2> QED BY <1>2, <2>1, TablesAlone DEF CallerStep
<1>3. CASE WorkerStep
  <2>1. ASSUME WakeScan \/ TickerScan \/ StopWorker \/ CheckContext \/ ClaimError \/ ReuseStored
                 \/ SettleError \/ Invalidate
        PROVE  UNCHANGED <<items, lastId, batches>>
    BY <2>1 DEF WakeScan, TickerScan, StopWorker, CheckContext, ClaimError, ReuseStored,
                SettleError, Invalidate, tables
  <2>2. ASSUME NEW a, AskGitHub(a) PROVE UNCHANGED <<items, lastId, batches>>
    BY <2>2 DEF AskGitHub, tables
  <2> QED BY <1>3, <2>1, <2>2, TablesAlone, ClaimIsQuiet, RecoveryAndTimeAreQuiet DEF WorkerStep
<1>4. CASE Environment
  <2>1. ASSUME StartPayload \/ StorePayload \/ BeginShutdown \/ CloseStore \/ Crash \/ Exit \/ Restart
        PROVE  UNCHANGED <<items, lastId, batches>>
    BY <2>1 DEF StartPayload, StorePayload, BeginShutdown, CloseStore, Crash, Exit, Restart, tables
  <2>2. ASSUME NEW r \in Repos, Recreate(r) \/ GrowStale(r) PROVE UNCHANGED <<items, lastId, batches>>
    BY <2>2 DEF Recreate, GrowStale, tables
  <2> QED BY <1>4, <2>1, <2>2, TablesAlone, RecoveryAndTimeAreQuiet DEF Environment
<1> QED BY <1>1, <1>2, <1>3, <1>4 DEF Next

\* Every step is of one of the three kinds.
LEMMA ThreeKinds ==
  ASSUME Held, [Next]_vars
  PROVE  \/ QuietStep
         \/ \E k \in Keys : AcceptStep(k)
         \/ \E i \in 1..lastId : SettleStep(i)
  BY Transactions, InsertAccepts, SettlingSteps

(***************************************************************************)
(* The report on a batch agrees with its items.                            *)
(***************************************************************************)
\* For one batch: the counters, and the three final verdicts.
ReportOf(its, b, k) ==
  /\ b.total = RowsOf(its, k)
  /\ b.success = {i \in RowsOf(its, k) : its[i].status = "success"}
  /\ b.discarded = {i \in RowsOf(its, k) : its[i].status = "discarded"}
  /\ b.status \in Terminal <=> RowsOf(its, k) = b.success \cup b.discarded
  /\ b.status = "success" <=> RowsOf(its, k) = b.success
  /\ b.status = "failed" <=> RowsOf(its, k) = b.discarded

\* BatchMatchesItems, batch by batch.
LEMMA ReportsMatch == BatchMatchesItems <=> \A k \in Keys : Exists(k) => ReportOf(items, batches[k], k)
  BY Zenon DEF BatchMatchesItems, ReportOf

\* Two states of the table, of n and of m rows, agree on batch k ...
Agree(old, n, new, m, k) ==
  /\ n \in Nat /\ m \in Nat /\ n <= m
  /\ old \in [1..n -> ItemRow] /\ new \in [1..m -> ItemRow]
  /\ \A i \in 1..n :
       /\ new[i].batch = old[i].batch
       /\ old[i].batch = k =>
            \/ new[i].status = old[i].status
            \/ new[i].status \in Active /\ old[i].status \in Active
  /\ \A i \in 1..m : i > n => new[i].batch # k

\* ... so that its rows and their outcomes are the same.
SameLook(old, new, k) ==
  /\ RowsOf(new, k) = RowsOf(old, k)
  /\ {i \in RowsOf(new, k) : new[i].status = "success"}
       = {i \in RowsOf(old, k) : old[i].status = "success"}
  /\ {i \in RowsOf(new, k) : new[i].status = "discarded"}
       = {i \in RowsOf(old, k) : old[i].status = "discarded"}

\* Rows of other batches and moves between active states do not show.
LEMMA SameRows ==
  ASSUME NEW n, NEW old, NEW m, NEW new, NEW k, Agree(old, n, new, m, k)
  PROVE  SameLook(old, new, k)
<1> USE DEF Agree
<1>1. \A i \in 1..m : i \in 1..n \/ i > n
  OBVIOUS
<1>2. \A i \in 1..n : i \in 1..m
  OBVIOUS
<1>3. DOMAIN old = 1..n /\ DOMAIN new = 1..m
  OBVIOUS
<1>4. RowsOf(new, k) = RowsOf(old, k) /\ RowsOf(old, k) \subseteq 1..n
  BY <1>1, <1>2, <1>3, Zenon DEF RowsOf
<1>5. \A i \in RowsOf(old, k) : /\ new[i].status = "success" <=> old[i].status = "success"
                                /\ new[i].status = "discarded" <=> old[i].status = "discarded"
  BY <1>4 DEF RowsOf, Active
<1> QED BY <1>4, <1>5 DEF SameLook

\* The report on a batch depends on its rows and their outcomes only.
LEMMA SameReport ==
  ASSUME NEW old, NEW new, NEW b, NEW c, NEW k, ReportOf(old, b, k),
         SameLook(old, new, k),
         c.total = b.total, c.success = b.success, c.discarded = b.discarded,
         c.status = b.status \/ (c.status \in Unsettled /\ b.status \in Unsettled)
  PROVE  ReportOf(new, c, k)
<1>1. /\ c.status \in Terminal <=> b.status \in Terminal
      /\ c.status = "success" <=> b.status = "success"
      /\ c.status = "failed" <=> b.status = "failed"
  BY DEF Terminal, Unsettled
<1> QED BY <1>1, Zenon DEF ReportOf, SameLook

\* A verdict passed on the rows of a batch that has any agrees with them.
LEMMA VerdictMatches ==
  ASSUME NEW n \in Nat, NEW its \in [1..n -> ItemRow], NEW b, NEW k,
         RowsOf(its, k) # {},
         b.status = Verdict(its, k),
         b.total = RowsOf(its, k),
         b.success = {i \in RowsOf(its, k) : its[i].status = "success"},
         b.discarded = {i \in RowsOf(its, k) : its[i].status = "discarded"}
  PROVE  ReportOf(its, b, k) /\ b.status # "none"
<1> DEFINE R == RowsOf(its, k)
<1>1. R \subseteq 1..n
  BY DEF RowsOf
<1>2. \A i \in R : its[i].status \in Active \cup Settled
  BY <1>1 DEF ItemRow
<1>3. b.status = CASE \E i \in R : its[i].status \in Active -> "processing"
                   [] \A i \in R : its[i].status = "success" -> "success"
                   [] OTHER -> IF \E i \in R : its[i].status = "success"
                               THEN "partial_success" ELSE "failed"
  BY DEF Verdict
<1> HIDE DEF R
<1>4. R # {} /\ b.success = {i \in R : its[i].status = "success"}
      /\ b.discarded = {i \in R : its[i].status = "discarded"} /\ b.total = R
  BY DEF R
<1>5. CASE \E i \in R : its[i].status \in Active
  <2>1. b.status = "processing"
    <3>1. ~(\A i \in R : its[i].status = "success")
      BY <1>5 DEF Active
    <3> QED BY <1>3, <1>5, <3>1
  <2>2. PICK i \in R : its[i].status \in Active
    BY <1>5
  <2>3. i \notin b.success /\ i \notin b.discarded
    BY <1>4, <2>2 DEF Active
  <2> QED BY <1>4, <2>1, <2>2, <2>3 DEF ReportOf, Terminal, R
<1>6. CASE ~(\E i \in R : its[i].status \in Active) /\ (\A i \in R : its[i].status = "success")
  <2>1. b.status = "success"
    BY <1>3, <1>6
  <2>2. b.success = R /\ b.discarded = {}
    BY <1>4, <1>6
  <2> QED BY <1>4, <2>1, <2>2 DEF ReportOf, Terminal, R
<1>7. CASE ~(\E i \in R : its[i].status \in Active) /\ ~(\A i \in R : its[i].status = "success")
  <2>1. b.status = IF \E i \in R : its[i].status = "success" THEN "partial_success" ELSE "failed"
    BY <1>3, <1>7
  <2>2. \A i \in R : its[i].status = "success" \/ its[i].status = "discarded"
    BY <1>2, <1>7 DEF Settled
  <2>3. b.success \cup b.discarded = R /\ b.success # R
    BY <1>4, <1>7, <2>2
  <2>4. b.discarded = R <=> ~\E i \in R : its[i].status = "success"
    BY <1>4, <2>2
  <2>5. /\ b.status \in Terminal /\ b.status # "success" /\ b.status # "none"
        /\ b.status = "failed" <=> ~\E i \in R : its[i].status = "success"
    BY <2>1 DEF Terminal
  <2> QED BY <1>4, <2>3, <2>4, <2>5 DEF ReportOf, R
<1> QED BY <1>5, <1>6, <1>7

\* An empty queue has nothing to report.
LEMMA KeptInit == Init => Kept
<1> SUFFICES ASSUME Init PROVE Kept
  OBVIOUS
<1>1. Held
  BY InitHeld
<1>2. BatchMatchesItems /\ NoOrphans
  BY DEF Init, BatchMatchesItems, NoOrphans, Exists, NoBatch
<1> QED BY <1>1, <1>2 DEF Kept

\* A quiet step changes no report.
LEMMA QuietKeeps ==
  ASSUME Kept, Held', QuietStep
  PROVE  Kept'
<1>1. /\ lastId \in Nat /\ lastId' = lastId
      /\ items \in [1..lastId -> ItemRow] /\ items' \in [1..lastId -> ItemRow]
      /\ batches \in [Keys -> BatchRow]
  BY DEF Kept, Held, TypeOK, QuietStep
<1>2. ASSUME NEW k \in Keys, Exists(k)' PROVE ReportOf(items', batches'[k], k)
  <2> DEFINE old == items
             new == items'
             b == batches[k]
             c == batches'[k]
  <2>1. /\ c.total = b.total /\ c.success = b.success /\ c.discarded = b.discarded
        /\ c.status = b.status \/ (c.status \in Unsettled /\ b.status \in Unsettled)
    BY DEF QuietStep
  <2>2. Exists(k)
    BY <1>2, <2>1 DEF Exists, Unsettled
  <2>3. ReportOf(old, b, k)
    BY <2>2, ReportsMatch DEF Kept
  <2>4. \A i \in 1..lastId :
          /\ new[i].batch = old[i].batch
          /\ old[i].batch = k =>
               \/ new[i].status = old[i].status
               \/ new[i].status \in Active /\ old[i].status \in Active
    BY DEF QuietStep
  <2>5. old \in [1..lastId -> ItemRow] /\ new \in [1..lastId -> ItemRow] /\ lastId <= lastId
        /\ (\A i \in 1..lastId : i > lastId => new[i].batch # k)
    BY <1>1
  <2> HIDE DEF old, new, b, c
  <2>6. SameLook(old, new, k)
    BY <1>1, <2>4, <2>5, SameRows, Zenon DEF Agree
  <2>7. ReportOf(new, c, k)
    BY <2>1, <2>3, <2>6, SameReport, Zenon
  <2> QED BY <2>7 DEF new, c
<1>3. BatchMatchesItems'
  <2> DEFINE new == items'
  <2>1. \A k \in Keys : Exists(k)' => ReportOf(new, batches'[k], k)
    BY <1>2
  <2> HIDE DEF new
  <2>2. new = items'
    BY DEF new
  <2> QED BY <2>1, <2>2, Zenon DEF BatchMatchesItems, ReportOf
<1>4. NoOrphans'
  <2>1. \A i \in 1..lastId : items[i].batch \in Keys
    BY <1>1 DEF ItemRow
  <2>2. \A k \in Keys : Exists(k) => Exists(k)'
    BY DEF QuietStep, Exists, Unsettled
  <2> QED BY <1>1, <2>1, <2>2 DEF Kept, NoOrphans, QuietStep
<1> QED BY <1>3, <1>4 DEF Kept

\* An accepted batch is reported as pending with all its items ahead of it; its
\* key had none before.
LEMMA AcceptKeeps ==
  ASSUME Kept, Held', NEW k \in Keys, AcceptStep(k)
  PROVE  Kept'
<1>1. /\ lastId \in Nat /\ lastId' \in Nat /\ lastId' > lastId
      /\ items \in [1..lastId -> ItemRow] /\ items' \in [1..lastId' -> ItemRow]
  BY DEF Kept, Held, TypeOK, AcceptStep
<1>2. \A i \in 1..lastId : items[i].batch # k /\ Exists(items[i].batch) /\ items[i].batch \in Keys
  BY <1>1 DEF Kept, NoOrphans, AcceptStep, ItemRow
<1> DEFINE old == items
           new == items'
           m == lastId'
<1>3. /\ \A i \in 1..lastId : new[i] = old[i] /\ i \in 1..m
      /\ \A i \in 1..m : i > lastId => new[i].batch = k /\ new[i].status = "pending"
      /\ old \in [1..lastId -> ItemRow] /\ new \in [1..m -> ItemRow] /\ lastId <= m /\ m \in Nat
      /\ m > lastId
  BY <1>1 DEF AcceptStep
<1>4. ASSUME NEW l \in Keys, l # k, Exists(l)' PROVE ReportOf(new, batches'[l], l)
  <2> DEFINE b == batches[l]
  <2>1. batches'[l] = b /\ Exists(l)
    BY <1>4 DEF AcceptStep, Exists
  <2>2. ReportOf(old, b, l)
    BY <2>1, ReportsMatch DEF Kept
  <2> HIDE DEF old, new, m, b
  <2>3. \A i \in 1..lastId :
          /\ new[i].batch = old[i].batch
          /\ old[i].batch = l =>
               \/ new[i].status = old[i].status
               \/ new[i].status \in Active /\ old[i].status \in Active
    BY <1>3
  <2>4. \A i \in 1..m : i > lastId => new[i].batch # l
    BY <1>3, <1>4
  <2>5. SameLook(old, new, l)
    BY <1>1, <1>3, <2>3, <2>4, SameRows, Zenon DEF Agree
  <2>6. ReportOf(new, b, l)
    BY <2>2, <2>5, SameReport, Zenon
  <2> QED BY <2>1, <2>6
<1>5. ReportOf(new, batches'[k], k)
  <2> DEFINE c == batches'[k]
  <2>1. c.status = "pending" /\ c.total = {i \in 1..m : i > lastId}
        /\ c.success = {} /\ c.discarded = {}
    BY DEF AcceptStep
  <2> HIDE DEF old, new, m, c
  <2>2. \A i \in 1..m : i \in 1..lastId \/ i > lastId
    BY <1>1, <1>3
  <2>3. RowsOf(new, k) = {i \in 1..m : i > lastId}
    BY <1>1, <1>2, <1>3, <2>2 DEF RowsOf, old
  <2>4. m \in 1..m /\ m > lastId
    BY <1>1, <1>3
  <2>5. \A i \in RowsOf(new, k) : new[i].status = "pending"
    BY <1>3, <2>3
  <2>6. /\ {i \in RowsOf(new, k) : new[i].status = "success"} = {}
        /\ {i \in RowsOf(new, k) : new[i].status = "discarded"} = {}
        /\ RowsOf(new, k) # {}
    BY <2>3, <2>4, <2>5
  <2>7. ReportOf(new, c, k)
    BY <2>1, <2>3, <2>6 DEF ReportOf, Terminal
  <2> QED BY <2>7 DEF c
<1>6. BatchMatchesItems'
  <2>1. \A l \in Keys : Exists(l)' => ReportOf(new, batches'[l], l)
    BY <1>4, <1>5
  <2> HIDE DEF new
  <2>2. new = items'
    BY DEF new
  <2> QED BY <2>1, <2>2, Zenon DEF BatchMatchesItems, ReportOf
<1>7. NoOrphans'
  <2>1. Exists(k)' /\ \A l \in Keys : Exists(l) => Exists(l)'
    BY DEF AcceptStep, Exists
  <2>2. \A i \in 1..lastId' : i \in 1..lastId \/ i > lastId
    BY <1>1
  <2> QED BY <1>2, <1>3, <2>1, <2>2 DEF NoOrphans
<1> QED BY <1>6, <1>7 DEF Kept

\* A settling step passes its verdict on the rows as they are afterwards, and
\* disturbs no other batch.
LEMMA SettleKeeps ==
  ASSUME Kept, Held', NEW i \in 1..lastId, SettleStep(i)
  PROVE  Kept'
<1> DEFINE k == items[i].batch
           old == items
           new == items'
<1>1. /\ lastId \in Nat /\ lastId' = lastId
      /\ old \in [1..lastId -> ItemRow] /\ new \in [1..lastId -> ItemRow]
      /\ k \in Keys /\ new[i].batch = k /\ old[i].batch = k
  BY DEF Kept, Held, TypeOK, SettleStep, ItemRow
<1>2. \A j \in (1..lastId) \ {i} : new[j] = old[j]
  BY DEF SettleStep
<1>3. ReportOf(new, batches'[k], k) /\ batches'[k].status # "none"
  <2> DEFINE b == batches'[k]
  <2>1. /\ b.status = Verdict(new, k)
        /\ b.total = RowsOf(new, k)
        /\ b.success = {j \in RowsOf(new, k) : new[j].status = "success"}
        /\ b.discarded = {j \in RowsOf(new, k) : new[j].status = "discarded"}
    BY DEF SettleStep
  <2> HIDE DEF b, new, k
  <2>2. RowsOf(new, k) # {}
    BY <1>1 DEF RowsOf
  <2>3. ReportOf(new, b, k) /\ b.status # "none"
    BY <1>1, <2>1, <2>2, VerdictMatches, Zenon
  <2> QED BY <2>3 DEF b
<1>4. ASSUME NEW l \in Keys, l # k, Exists(l)' PROVE ReportOf(new, batches'[l], l)
  <2> DEFINE b == batches[l]
  <2>1. batches'[l] = b /\ Exists(l)
    BY <1>4 DEF SettleStep, Exists
  <2>2. ReportOf(old, b, l)
    BY <2>1, ReportsMatch DEF Kept
  <2> HIDE DEF old, new, b, k
  <2>3. \A j \in 1..lastId :
          /\ new[j].batch = old[j].batch
          /\ old[j].batch = l =>
               \/ new[j].status = old[j].status
               \/ new[j].status \in Active /\ old[j].status \in Active
    BY <1>1, <1>2, <1>4
  <2>4. lastId <= lastId /\ (\A j \in 1..lastId : j > lastId => new[j].batch # l)
    BY <1>1
  <2>5. SameLook(old, new, l)
    BY <1>1, <2>3, <2>4, SameRows, Zenon DEF Agree
  <2>6. ReportOf(new, b, l)
    BY <2>2, <2>5, SameReport, Zenon
  <2> QED BY <2>1, <2>6
<1>5. BatchMatchesItems'
  <2>1. \A l \in Keys : Exists(l)' => ReportOf(new, batches'[l], l)
    BY <1>3, <1>4
  <2> HIDE DEF new
  <2>2. new = items'
    BY DEF new
  <2> QED BY <2>1, <2>2, Zenon DEF BatchMatchesItems, ReportOf
<1>6. NoOrphans'
  <2>1. \A l \in Keys : Exists(l) => Exists(l)'
    BY <1>3 DEF SettleStep, Exists
  <2>2. \A j \in 1..lastId : new[j].batch = old[j].batch /\ old[j].batch \in Keys /\ Exists(old[j].batch)
    BY <1>1, <1>2 DEF Kept, NoOrphans, ItemRow
  <2> QED BY <1>1, <2>1, <2>2 DEF NoOrphans
<1> QED BY <1>5, <1>6 DEF Kept

\* The invariant of the queue as a whole.
LEMMA KeptStep == Kept /\ [Next]_vars => Kept'
<1> SUFFICES ASSUME Kept, [Next]_vars PROVE Kept'
  OBVIOUS
<1>1. Held /\ Held'
  BY HeldStep DEF Kept
<1> QED BY <1>1, ThreeKinds, QuietKeeps, AcceptKeeps, SettleKeeps

\* At every commit, the report of a batch agrees with its items: counters and
\* final verdicts (GET /internal/ingest-batches/{id}).
THEOREM ReportsAreTrue == Spec => []BatchMatchesItems
<1>1. Spec => []Kept
  BY KeptInit, KeptStep, PTL DEF Spec
<1> QED BY <1>1, PTL DEF Kept

\* Neither a settled item nor a terminal batch is ever taken back: a settling step
\* starts from an item in processing, whose batch is not terminal yet.
THEOREM SettledIsForever == Spec => SettledForever
<1> DEFINE Final(i) == items[i].status \in Settled => items'[i].status = items[i].status
           Closed(k) == batches[k].status \in Terminal => batches'[k] = batches[k]
<1>1. ASSUME Kept, [Next]_vars PROVE (\A i \in 1..lastId : Final(i)) /\ (\A k \in Keys : Closed(k))
  <2>1. CASE QuietStep
    BY <2>1 DEF QuietStep, Settled, Active, Terminal, Unsettled
  <2>2. ASSUME NEW k \in Keys, AcceptStep(k)
        PROVE  (\A i \in 1..lastId : Final(i)) /\ (\A l \in Keys : Closed(l))
    BY <2>2 DEF AcceptStep, Exists, Terminal
  <2>3. ASSUME NEW i \in 1..lastId, SettleStep(i)
        PROVE  (\A j \in 1..lastId : Final(j)) /\ (\A l \in Keys : Closed(l))
    <3> DEFINE k == items[i].batch
    <3>1. k \in Keys /\ i \in RowsOf(items, k) /\ Exists(k)
      BY <1>1 DEF Kept, NoOrphans, Held, TypeOK, ItemRow, RowsOf
    <3>2. i \notin batches[k].success /\ i \notin batches[k].discarded
      BY <1>1, <2>3, <3>1, ReportsMatch DEF Kept, ReportOf, SettleStep
    <3>3. batches[k].status \notin Terminal
      BY <1>1, <3>1, <3>2, ReportsMatch DEF Kept, ReportOf
    <3>4. \A l \in Keys : Closed(l)
      BY <2>3, <3>3 DEF SettleStep
    <3>5. \A j \in 1..lastId : Final(j)
      BY <2>3 DEF SettleStep, Settled
    <3> QED BY <3>4, <3>5
  <2> QED BY <1>1, <2>1, <2>2, <2>3, ThreeKinds DEF Kept
<1>2. Kept /\ [Next]_vars => [(\A i \in 1..lastId : Final(i)) /\ (\A k \in Keys : Closed(k))]_vars
  BY <1>1
<1> QED BY <1>2, KeptInit, KeptStep, PTL DEF Spec, SettledForever
-----------------------------------------------------------------------------
(***************************************************************************)
(* The refinement.                                                         *)
(***************************************************************************)
\* The ledger the tables stand for.
RowsBar == [i \in 1..lastId |->
  [batch |-> items[i].batch, fact |-> items[i].fact,
   outcome |-> IF items[i].status \in Active THEN "open" ELSE items[i].status]]
VerdictBar == [k \in Keys |->
  IF batches[k].status \in {"pending", "processing"} THEN "open" ELSE batches[k].status]

\* A quiet step is a stutter,
LEMMA QuietStutters ==
  ASSUME Kept, QuietStep
  PROVE  RowsBar' = RowsBar /\ VerdictBar' = VerdictBar
<1>1. \A i \in 1..lastId :
        /\ items'[i].batch = items[i].batch /\ items'[i].fact = items[i].fact
        /\ (IF items'[i].status \in Active THEN "open" ELSE items'[i].status)
             = (IF items[i].status \in Active THEN "open" ELSE items[i].status)
  BY DEF QuietStep
<1>2. lastId' = lastId
  BY DEF QuietStep
<1>3. RowsBar' = RowsBar
  BY <1>1, <1>2 DEF RowsBar
<1>4. \A k \in Keys :
        (IF batches'[k].status \in {"pending", "processing"} THEN "open" ELSE batches'[k].status)
          = (IF batches[k].status \in {"pending", "processing"} THEN "open" ELSE batches[k].status)
  BY DEF QuietStep, Unsettled
<1>5. VerdictBar' = VerdictBar
  BY <1>4 DEF VerdictBar
<1> QED BY <1>3, <1>5

\* an insert accepts,
LEMMA AcceptAccepts ==
  ASSUME Kept, Held', NEW k \in Keys, AcceptStep(k)
  PROVE  Ledger!Accept(k)
<1>1. lastId \in Nat /\ lastId' \in Nat /\ lastId' > lastId
  BY DEF Kept, Held, TypeOK, AcceptStep
<1>2. VerdictBar[k] = "none"
  BY DEF AcceptStep, Exists, VerdictBar
<1>3. VerdictBar' = [VerdictBar EXCEPT ![k] = "open"]
  <2>1. batches'[k].status = "pending" /\ \A l \in Keys \ {k} : batches'[l] = batches[l]
    BY DEF AcceptStep
  <2> QED BY <2>1 DEF VerdictBar
<1>4. DOMAIN RowsBar = 1..lastId /\ DOMAIN RowsBar' = 1..lastId'
  BY DEF RowsBar
<1>5. \A i \in 1..lastId : i \in 1..lastId' /\ RowsBar'[i] = RowsBar[i]
  BY <1>1 DEF RowsBar, AcceptStep
<1>6. \A i \in 1..lastId' : i \notin 1..lastId =>
        RowsBar'[i].batch = k /\ RowsBar'[i].outcome = "open"
  <2>1. \A i \in 1..lastId' : i \notin 1..lastId => i > lastId
    BY <1>1
  <2> QED BY <2>1 DEF RowsBar, AcceptStep, Active
<1>7. lastId' \in 1..lastId' /\ lastId' \notin 1..lastId
  BY <1>1
<1>8. {i \in DOMAIN RowsBar' : RowsBar'[i].batch = k} # {}
  BY <1>4, <1>6, <1>7
<1> QED BY <1>2, <1>3, <1>4, <1>5, <1>6, <1>8, Zenon
        DEF Ledger!Accept, Ledger!OfBatch, RowsBar, VerdictBar

\* and a settling step settles, unless the item goes back to the queue.
LEMMA SettleSettles ==
  ASSUME Kept, Kept', NEW i \in 1..lastId, SettleStep(i)
  PROVE  \/ RowsBar' = RowsBar /\ VerdictBar' = VerdictBar
         \/ \E o \in {"success", "discarded"} : Ledger!Settle(i, o)
<1> DEFINE k == items[i].batch
           new == items'[i].status
           Shown(st) == IF st \in Active THEN "open" ELSE st
           Bar(st) == IF st \in {"pending", "processing"} THEN "open" ELSE st
<1>1. /\ lastId \in Nat /\ lastId' = lastId /\ k \in Keys
      /\ items \in [1..lastId -> ItemRow] /\ items' \in [1..lastId -> ItemRow]
      /\ batches \in [Keys -> BatchRow] /\ batches' \in [Keys -> BatchRow]
  BY DEF Kept, Held, TypeOK, SettleStep, ItemRow
<1>2. /\ items[i].status = "processing" /\ new \in {"success", "discarded", "retrying"}
      /\ items'[i].batch = items[i].batch /\ items'[i].fact = items[i].fact
      /\ \A j \in (1..lastId) \ {i} : items'[j] = items[j]
      /\ \A l \in Keys \ {k} : batches'[l] = batches[l]
      /\ batches'[k].status = Verdict(items', k)
  BY DEF SettleStep
<1>3. i \in RowsOf(items, k) /\ i \in RowsOf(items', k) /\ Exists(k)
  BY <1>1, <1>2 DEF Kept, NoOrphans, RowsOf
<1>4. batches[k].status \in {"pending", "processing"}
  <2>1. i \notin batches[k].success /\ i \notin batches[k].discarded
    BY <1>1, <1>2, <1>3, ReportsMatch DEF Kept, ReportOf
  <2>2. batches[k].status \notin Terminal
    BY <1>1, <1>3, <2>1, ReportsMatch DEF Kept, ReportOf
  <2> QED BY <1>1, <1>3, <2>2 DEF BatchRow, Exists
<1>5. /\ DOMAIN RowsBar = 1..lastId
      /\ RowsBar[i] = [batch |-> k, fact |-> items[i].fact, outcome |-> "open"]
      /\ RowsBar' = [RowsBar EXCEPT ![i] =
           [batch |-> k, fact |-> items[i].fact, outcome |-> Shown(new)]]
  BY <1>1, <1>2 DEF RowsBar, Active
<1>6. /\ VerdictBar' = [VerdictBar EXCEPT ![k] = Bar(batches'[k].status)]
      /\ VerdictBar[k] = "open" /\ DOMAIN VerdictBar = Keys
  BY <1>1, <1>2, <1>4 DEF VerdictBar
<1>7. CASE new = "retrying"
  <2>1. Shown(new) = "open"
    BY <1>7 DEF Active
  <2>2. RowsBar' = RowsBar
    BY <1>1, <1>5, <2>1 DEF RowsBar
  <2>3. batches'[k].status = "processing"
    <3>1. \E j \in RowsOf(items', k) : items'[j].status \in Active
      BY <1>3, <1>7 DEF Active
    <3>2. ~\A j \in RowsOf(items', k) : items'[j].status = "success"
      BY <1>3, <1>7
    <3> QED BY <1>2, <3>1, <3>2 DEF Verdict
  <2>4. VerdictBar' = VerdictBar
    BY <1>1, <1>6, <2>3 DEF VerdictBar
  <2> QED BY <2>2, <2>4
<1>8. CASE new \in {"success", "discarded"}
  <2>1. Shown(new) = new
    BY <1>8 DEF Active
  <2>2. RowsBar' = [RowsBar EXCEPT ![i] = [RowsBar[i] EXCEPT !.outcome = new]]
    <3>1. [RowsBar[i] EXCEPT !.outcome = new] = [batch |-> k, fact |-> items[i].fact, outcome |-> new]
      BY <1>5
    <3> QED BY <1>5, <2>1, <3>1
  <2> DEFINE v == Bar(batches'[k].status)
  <2>3. v \in Ledger!Final \cup {"open"}
    <3>1. batches'[k].status # "none"
      BY <1>2 DEF Verdict
    <3> QED BY <1>1, <3>1 DEF Ledger!Final, BatchRow, Terminal
  <2>4. batches'[k].status # "none"
    BY <1>2 DEF Verdict
  <2>5. ReportOf(items', batches'[k], k)
    <3>1. \A l \in Keys : batches'[l].status # "none" => ReportOf(items', batches'[l], l)
      BY Zenon DEF Kept, BatchMatchesItems, ReportOf, Exists
    <3> QED BY <1>1, <2>4, <3>1
  <2> DEFINE mine == RowsOf(items', k)
  <2>6. /\ mine = Ledger!OfBatch(RowsBar', k)
        /\ \A j \in mine : RowsBar'[j].outcome = Shown(items'[j].status)
    <3>1. DOMAIN RowsBar' = 1..lastId
          /\ \A j \in 1..lastId : /\ RowsBar'[j].batch = items'[j].batch
                                   /\ RowsBar'[j].outcome = Shown(items'[j].status)
      BY <1>1 DEF RowsBar
    <3> QED BY <1>1, <3>1 DEF RowsOf, Ledger!OfBatch
  <2>7. \A j \in mine : items'[j].status \in Active \cup Settled
    BY <1>1 DEF RowsOf, ItemRow
  <2>8. mine # {} /\ \A j \in mine : /\ RowsBar'[j].outcome = "open" <=> items'[j].status \in Active
                                     /\ RowsBar'[j].outcome = "success" <=> items'[j].status = "success"
                                     /\ RowsBar'[j].outcome = "discarded" <=> items'[j].status = "discarded"
    BY <1>3, <2>6, <2>7 DEF Active, Settled
  <2>9. /\ batches'[k].status \in Terminal <=> \A j \in mine : items'[j].status \in Settled
        /\ batches'[k].status = "success" <=> \A j \in mine : items'[j].status = "success"
        /\ batches'[k].status = "failed" <=> \A j \in mine : items'[j].status = "discarded"
    BY <2>5 DEF ReportOf, Settled
  <2>10. /\ v = "open" <=> batches'[k].status \notin Terminal
         /\ v = "success" <=> batches'[k].status = "success"
         /\ v = "failed" <=> batches'[k].status = "failed"
    BY <1>1, <2>4 DEF BatchRow, Terminal
  <2>11. Settled \cap Active = {}
    BY DEF Settled, Active
  <2>12. /\ v = "open" <=> \E j \in mine : RowsBar'[j].outcome = "open"
         /\ v = "success" <=> \A j \in mine : RowsBar'[j].outcome = "success"
         /\ v = "failed" <=> \A j \in mine : RowsBar'[j].outcome = "discarded"
    BY <2>7, <2>8, <2>9, <2>10, <2>11
  <2> HIDE DEF v, mine
  <2>13. Ledger!Judged(RowsBar', k, v)
    BY <2>6, <2>12, Zenon DEF Ledger!Judged
  <2>14. RowsBar[i].outcome = "open" /\ RowsBar[i].batch = k
    BY <1>5
  <2>15. VerdictBar' = [VerdictBar EXCEPT ![k] = v]
    BY <1>6 DEF v
  <2> HIDE DEF k, new
  <2>16. ASSUME NEW o \in {"success", "discarded"}, o = new PROVE Ledger!Settle(i, o)
    BY <2>16, <2>2, <2>3, <2>13, <2>14, <2>15, Zenon DEF Ledger!Settle, RowsBar, VerdictBar
  <2> QED BY <1>8, <2>16
<1> QED BY <1>2, <1>7, <1>8

\* The queue implements the ledger: each batch is accepted whole and once, each of
\* its candidates is settled once, and its verdict appears with the last of them.
THEOREM QueueImplementsLedger == Spec => LedgerSpec
<1>1. Init => Ledger!Init
  BY DEF Init, Ledger!Init, NoBatch
<1>2. ASSUME Kept, [Next]_vars PROVE [Ledger!Next]_Ledger!vars
  <2>1. Kept'
    BY <1>2, KeptStep
  <2>2. ASSUME RowsBar' = RowsBar, VerdictBar' = VerdictBar PROVE UNCHANGED Ledger!vars
    BY <2>2 DEF Ledger!vars, RowsBar, VerdictBar
  <2>3. ASSUME NEW k \in Keys, AcceptStep(k) PROVE Ledger!Next
    BY <1>2, <2>1, <2>3, AcceptAccepts DEF Ledger!Next, Kept
  <2>4. ASSUME NEW i \in 1..lastId, SettleStep(i) PROVE [Ledger!Next]_Ledger!vars
    <3>1. DOMAIN RowsBar = 1..lastId
      BY DEF RowsBar
    <3>2. CASE \E o \in {"success", "discarded"} : Ledger!Settle(i, o)
      BY <3>1, <3>2 DEF Ledger!Next, RowsBar
    <3> QED BY <1>2, <2>1, <2>2, <2>4, <3>2, SettleSettles
  <2> QED BY <1>2, <2>2, <2>3, <2>4, ThreeKinds, QuietStutters DEF Kept
<1> QED BY <1>1, <1>2, KeptInit, KeptStep, PTL DEF Spec, LedgerSpec, Ledger!Spec
-----------------------------------------------------------------------------
(***************************************************************************)
(* What success, acceptance and the cache promise.  All of it rests on     *)
(* what no step can do: a row keeps its batch and its candidate, a batch   *)
(* its kind, a success stays a success.                                    *)
(***************************************************************************)
\* Rows and batches keep what identifies their source event.
LEMMA IdentityKept ==
  ASSUME Kept, [Next]_vars
  PROVE  /\ lastId \in Nat /\ lastId' \in Nat /\ lastId <= lastId'
         /\ \A i \in 1..lastId : /\ items'[i].batch = items[i].batch
                                 /\ items'[i].fact = items[i].fact
                                 /\ items[i].batch \in Keys
                                 /\ Exists(items[i].batch)
         /\ \A k \in Keys : Exists(k) => Exists(k)' /\ batches'[k].manual = batches[k].manual
<1>1. Held /\ Held' /\ lastId \in Nat /\ lastId' \in Nat
      /\ items \in [1..lastId -> ItemRow] /\ batches \in [Keys -> BatchRow]
  BY HeldStep DEF Kept, Held, TypeOK
<1>2. /\ lastId <= lastId'
      /\ \A i \in 1..lastId : items'[i].batch = items[i].batch /\ items'[i].fact = items[i].fact
  <2>1. CASE QuietStep
    BY <1>1, <2>1 DEF QuietStep
  <2>2. ASSUME NEW k \in Keys, AcceptStep(k)
        PROVE  /\ lastId <= lastId'
               /\ \A i \in 1..lastId : items'[i].batch = items[i].batch /\ items'[i].fact = items[i].fact
    BY <1>1, <2>2 DEF AcceptStep
  <2>3. ASSUME NEW i \in 1..lastId, SettleStep(i)
        PROVE  /\ lastId <= lastId'
               /\ \A j \in 1..lastId : items'[j].batch = items[j].batch /\ items'[j].fact = items[j].fact
    BY <1>1, <2>3 DEF SettleStep
  <2> QED BY <1>1, <2>1, <2>2, <2>3, ThreeKinds
<1>3. \A i \in 1..lastId : items[i].batch \in Keys /\ Exists(items[i].batch)
  BY <1>1 DEF Kept, NoOrphans, ItemRow
<1>4. ASSUME NEW k \in Keys, Exists(k) PROVE Exists(k)' /\ batches'[k].manual = batches[k].manual
  <2>1. Exists(k)'
    <3>1. CASE QuietStep
      BY <1>4, <3>1 DEF QuietStep, Exists, Unsettled
    <3>2. ASSUME NEW l \in Keys, AcceptStep(l) PROVE Exists(k)'
      BY <1>4, <3>2 DEF AcceptStep, Exists
    <3>3. ASSUME NEW i \in 1..lastId, SettleStep(i) PROVE Exists(k)'
      <4>1. batches'[items[i].batch].status # "none"
        BY <3>3 DEF SettleStep, Verdict
      <4> QED BY <1>3, <1>4, <3>3, <4>1 DEF SettleStep, Exists
    <3> QED BY <1>1, <3>1, <3>2, <3>3, ThreeKinds
  <2>2. batches'[k].manual = batches[k].manual
    <3>1. ASSUME UNCHANGED batches PROVE batches'[k].manual = batches[k].manual
      BY <3>1
    <3>2. ASSUME NEW c \in Callers, Insert(c) PROVE batches'[k].manual = batches[k].manual
      BY <1>1, <1>4, <3>2, InsertAccepts DEF AcceptStep
    <3>3. CASE Claim
      <4>1. PICK l : batches' = batches \/ batches' = [batches EXCEPT ![l] = [@ EXCEPT !.status = "processing"]]
        BY <3>3 DEF Claim
      <4>2. [batches[k] EXCEPT !.status = "processing"].manual = batches[k].manual
        BY <1>1 DEF BatchRow
      <4> QED BY <1>1, <4>1, <4>2
    <3>4. CASE Fail \/ Complete
      <4>1. PICK its, l : batches' = Finalized(its, l)
        BY <3>4 DEF Fail, Complete
      <4>2. PICK v, T, S, D : batches' = [batches EXCEPT ![l] =
              [@ EXCEPT !.status = v, !.total = T, !.success = S, !.discarded = D]]
        BY <4>1 DEF Finalized
      <4>3. [batches[k] EXCEPT !.status = v, !.total = T, !.success = S, !.discarded = D].manual
              = batches[k].manual
        BY <1>1 DEF BatchRow
      <4> QED BY <1>1, <4>2, <4>3
    <3>5. ASSUME ~Claim, ~Fail, ~Complete, \A c \in Callers : ~Insert(c) PROVE UNCHANGED batches
      BY <3>5, Zenon DEF Next, CallerStep, WorkerStep, Environment, vars, tables, process,
         Lookup, InsertRefused, Reread, Notify, CallerError, WakeScan, TickerScan, StopWorker,
         CheckContext, ClaimNothing, ClaimError, ReuseStored, AskGitHub, SettleError, Invalidate,
         StartPayload, StorePayload, Recreate, GrowStale, Tick, BeginShutdown, CloseStore,
         Crash, Exit, Restart
    <3> QED BY <3>1, <3>2, <3>3, <3>4, <3>5
  <2> QED BY <2>1, <2>2
<1> QED BY <1>1, <1>2, <1>3, <1>4

\* Only CompleteIngestItem writes events, repositories and successes.
LEMMA OnlyCompletePublishes ==
  ASSUME Kept, [Next]_vars, ~Complete
  PROVE  events' = events /\ catalog' = catalog /\ Published(items') = Published(items)
<1>1. events' = events /\ catalog' = catalog
  BY Zenon DEF Next, CallerStep, WorkerStep, Environment, vars, tables, process,
     Lookup, Insert, InsertRefused, Reread, Notify, CallerError, WakeScan, TickerScan, StopWorker,
     CheckContext, Claim, ClaimNothing, ClaimError, ReuseStored, AskGitHub, Fail, SettleError,
     Invalidate, StartPayload, StorePayload, Recreate, GrowStale, Tick, BeginShutdown,
     CloseStore, Crash, Exit, Restart
<1>2. Held /\ Held' /\ lastId \in Nat /\ lastId' \in Nat
      /\ items \in [1..lastId -> ItemRow] /\ items' \in [1..lastId' -> ItemRow]
  BY HeldStep DEF Kept, Held, TypeOK
<1>3. CASE QuietStep
  <2>1. lastId' = lastId
        /\ \A i \in 1..lastId : items'[i].status = "success" <=> items[i].status = "success"
    BY <1>3 DEF QuietStep, Active
  <2> QED BY <1>1, <1>2, <2>1 DEF Published
<1>4. ASSUME NEW c \in Callers, Insert(c) PROVE Published(items') = Published(items)
  <2>1. PICK k \in Keys : AcceptStep(k)
    BY <1>2, <1>4, InsertAccepts
  <2>2. /\ \A i \in 1..lastId : i \in 1..lastId' /\ items'[i] = items[i]
        /\ \A i \in 1..lastId' : i \notin 1..lastId => items'[i].status = "pending"
    BY <1>2, <2>1 DEF AcceptStep
  <2> QED BY <1>2, <2>2 DEF Published
<1>5. CASE Fail
  <2>1. worker.id \in 1..lastId /\ items[worker.id] \in ItemRow /\ items[worker.id].status = "processing"
    BY <1>2, <1>5 DEF Fail, Held, LeaseHeld
  <2>2. lastId' = lastId /\ items' = [items EXCEPT ![worker.id] = Failed(items[worker.id])]
    BY <1>5 DEF Fail
  <2>3. Failed(items[worker.id]).status \in {"discarded", "retrying"}
    BY <2>1 DEF Failed, ItemRow
  <2>4. \A i \in 1..lastId : items'[i].status = "success" <=> items[i].status = "success"
    BY <1>2, <2>1, <2>2, <2>3
  <2> QED BY <1>1, <1>2, <2>2, <2>4 DEF Published
<1>6. QuietStep \/ (\E c \in Callers : Insert(c)) \/ Fail
  BY <1>2, Transactions
<1> QED BY <1>1, <1>3, <1>4, <1>5, <1>6, Zenon

\* What CompleteIngestItem writes.
LEMMA CompletePublishes ==
  ASSUME Kept, Complete
  PROVE  /\ worker.id \in 1..lastId
         /\ Published(items') = Published(items) \cup {worker.id}
         /\ events' = events \cup {ExternalKey(worker.id)}
         /\ catalog' = [catalog EXCEPT ![Target(worker.id)] = worker.gen]
<1>1. worker.id \in 1..lastId /\ SettleStep(worker.id) /\ items \in [1..lastId -> ItemRow]
  BY SettlingSteps DEF Kept, Held, TypeOK
<1>2. lastId' = lastId
      /\ items' = [items EXCEPT ![worker.id] =
                    [items[worker.id] EXCEPT !.status = "success", !.lease = 0]]
  BY DEF Complete
<1>3. [items[worker.id] EXCEPT !.status = "success", !.lease = 0].status = "success"
  BY <1>1 DEF ItemRow
<1>4. DOMAIN items' = 1..lastId /\ items'[worker.id].status = "success"
      /\ \A i \in 1..lastId : i # worker.id => items'[i].status = items[i].status
  BY <1>1, <1>2, <1>3
<1>5. Published(items') = Published(items) \cup {worker.id}
  BY <1>1, <1>4 DEF Published
<1> QED BY <1>1, <1>5 DEF Complete, EventWritten

\* A worker on its way to CompleteIngestItem carries a repository: the stored one
\* or the one GitHub answered with.
AnswerIsThere == worker.pc = "complete" => worker.gen # 0

LEMMA AnswerStep ==
  ASSUME Held, AnswerIsThere, [Next]_vars
  PROVE  AnswerIsThere'
<1>1. worker \in WorkerState
  BY DEF Held, TypeOK
<1>2. ASSUME UNCHANGED worker PROVE AnswerIsThere'
  BY <1>2 DEF AnswerIsThere
<1>3. ASSUME \E p, e : p # "complete" /\ worker' = NoWork(p, e) PROVE AnswerIsThere'
  BY <1>3 DEF AnswerIsThere, NoWork
<1>4. CASE Claim
  <2>1. PICK i, n : worker' = [NoWork("resolve", FALSE) EXCEPT !.id = i, !.attempts = n]
    BY <1>4 DEF Claim
  <2>2. worker'.pc = "resolve"
    BY <2>1 DEF NoWork
  <2> QED BY <2>2 DEF AnswerIsThere
<1>5. CASE ReuseStored
  <2>1. worker'.gen # 0
    BY <1>1, <1>5 DEF ReuseStored, WorkerState
  <2> QED BY <2>1 DEF AnswerIsThere
<1>6. ASSUME NEW a \in {"found", "gone", "error"}, AskGitHub(a) PROVE AnswerIsThere'
  <2>1. Target(worker.id) \in Repos
    BY <1>6, FactsAssumption DEF AskGitHub, Held, TypeOK, LeaseHeld, ItemRow, Target
  <2>2. upstream[Target(worker.id)] # 0
    BY <2>1, BoundsAssumption DEF Held, TypeOK
  <2>3. CASE a = "found"
    <3>1. worker'.gen = upstream[Target(worker.id)]
      BY <1>1, <1>6, <2>3 DEF AskGitHub, WorkerState
    <3> QED BY <2>2, <3>1 DEF AnswerIsThere
  <2>4. CASE a # "found"
    <3>1. worker'.pc = "fail"
      BY <1>1, <1>6, <2>4 DEF AskGitHub, WorkerState
    <3> QED BY <3>1 DEF AnswerIsThere
  <2> QED BY <2>3, <2>4
<1>7. CASE Fail \/ Complete
  <2>1. PICK its, k : worker' = AfterSettling(its, k)
    BY <1>7 DEF Fail, Complete
  <2>2. worker'.pc \in {"scan", "invalidate"}
    BY <2>1, AfterSettlingType
  <2> QED BY <2>2 DEF AnswerIsThere
<1>8. CASE Tick
  <2>1. worker'.pc = worker.pc /\ worker'.gen = worker.gen
    BY <1>1, <1>8 DEF Tick, WorkerState
  <2> QED BY <2>1 DEF AnswerIsThere
<1>9. CASE CallerStep
  BY <1>2, <1>9 DEF CallerStep, Lookup, Insert, InsertRefused, Reread, Notify, CallerError
<1>10. CASE WorkerStep
  <2>1. ASSUME WakeScan \/ TickerScan \/ StopWorker \/ CheckContext \/ ClaimNothing \/ ClaimError
                 \/ SettleError \/ Invalidate
        PROVE  \E p, e : p # "complete" /\ worker' = NoWork(p, e)
    BY <2>1 DEF WakeScan, TickerScan, StopWorker, CheckContext, ClaimNothing, ClaimError,
                SettleError, Invalidate
  <2> QED BY <1>3, <1>4, <1>5, <1>6, <1>7, <1>10, <2>1 DEF WorkerStep
<1>11. CASE Environment
  <2>1. ASSUME Crash \/ Exit \/ Restart
        PROVE  \E p, e : p # "complete" /\ worker' = NoWork(p, e)
    BY <2>1 DEF Crash, Exit, Restart, Forget
  <2>2. ASSUME StartPayload \/ StorePayload \/ (\E r \in Repos : Recreate(r) \/ GrowStale(r))
                 \/ BeginShutdown \/ CloseStore
        PROVE  UNCHANGED worker
    BY <2>2 DEF StartPayload, StorePayload, Recreate, GrowStale, BeginShutdown, CloseStore
  <2> QED BY <1>2, <1>3, <1>8, <1>11, <2>1, <2>2 DEF Environment
<1>12. CASE UNCHANGED vars
  BY <1>2, <1>12 DEF vars
<1> QED BY <1>9, <1>10, <1>11, <1>12 DEF Next

\* The key of an item's event never changes, whatever happens to item and batch.
LEMMA KeysKept ==
  ASSUME Kept, [Next]_vars, NEW i \in 1..lastId
  PROVE  Target(i)' = Target(i) /\ ExternalKey(i)' = ExternalKey(i)
  BY IdentityKept DEF Target, ExternalKey

Carried == Kept /\ AnswerIsThere /\ SuccessIsPublished

LEMMA CarriedStep == Carried /\ [Next]_vars => Carried'
<1> SUFFICES ASSUME Carried, [Next]_vars PROVE Carried'
  OBVIOUS
<1>1. Kept /\ Kept' /\ AnswerIsThere'
  BY KeptStep, AnswerStep DEF Carried, Kept
<1>2. items \in [1..lastId -> ItemRow] /\ catalog \in [Repos -> 0..MaxGen]
  BY <1>1 DEF Kept, Held, TypeOK
<1>3. \A i \in Published(items) : i \in 1..lastId /\ Target(i) \in Repos
  BY <1>2, FactsAssumption DEF Published, Target, ItemRow
<1>4. \A i \in 1..lastId : Target(i)' = Target(i) /\ ExternalKey(i)' = ExternalKey(i)
  BY <1>1, KeysKept
<1>5. CASE ~Complete
  <2>1. events' = events /\ catalog' = catalog /\ Published(items') = Published(items)
    BY <1>1, <1>5, OnlyCompletePublishes
  <2>2. SuccessIsPublished'
    BY <1>3, <1>4, <2>1 DEF Carried, SuccessIsPublished
  <2> QED BY <1>1, <2>2 DEF Carried
<1>6. CASE Complete
  <2>1. /\ worker.id \in 1..lastId
        /\ Published(items') = Published(items) \cup {worker.id}
        /\ events' = events \cup {ExternalKey(worker.id)}
        /\ catalog' = [catalog EXCEPT ![Target(worker.id)] = worker.gen]
    BY <1>1, <1>6, CompletePublishes
  <2>2. worker.gen # 0
    BY <1>6 DEF Carried, AnswerIsThere, Complete
  <2>3. Target(worker.id) \in Repos
    BY <1>2, <2>1, FactsAssumption DEF Target, ItemRow
  <2>4. \A r \in Repos : catalog[r] # 0 => catalog'[r] # 0
    BY <1>2, <2>1, <2>2
  <2>5. catalog'[Target(worker.id)] # 0
    BY <1>2, <2>1, <2>2, <2>3
  <2>6. ASSUME NEW i \in Published(items') PROVE ExternalKey(i)' \in events' /\ catalog'[Target(i)'] # 0
    BY <1>3, <1>4, <2>1, <2>4, <2>5 DEF Carried, SuccessIsPublished
  <2>7. ASSUME NEW e \in events' PROVE \E i \in Published(items') : ExternalKey(i)' = e
    <3>1. CASE e \in events
      BY <1>3, <1>4, <2>1, <3>1 DEF Carried, SuccessIsPublished
    <3>2. CASE e = ExternalKey(worker.id)
      BY <1>4, <2>1, <3>2
    <3> QED BY <2>1, <3>1, <3>2
  <2>8. SuccessIsPublished'
    BY <2>6, <2>7 DEF SuccessIsPublished
  <2> QED BY <1>1, <2>8 DEF Carried
<1> QED BY <1>5, <1>6

\* CompleteIngestItem is all or nothing, at every commit and after every crash: a
\* successful item has its event and its repository, and every event its item.
THEOREM SuccessHasItsEvent == Spec => []SuccessIsPublished
<1>1. Init => Carried
  <2>1. Init => worker.pc = "scan"
    BY DEF Init, NoWork
  <2>2. Init => Published(items) = {} /\ events = {}
    BY DEF Init, Published
  <2>3. Init => AnswerIsThere /\ SuccessIsPublished
    BY <2>1, <2>2 DEF AnswerIsThere, SuccessIsPublished
  <2> QED BY <2>3, KeptInit DEF Carried
<1>2. Spec => []Carried
  BY <1>1, CarriedStep, PTL DEF Spec
<1> QED BY <1>2, PTL DEF Carried

(***************************************************************************)
(* The wake-up.                                                            *)
(***************************************************************************)
\* A batch whose pending items are announced: by its caller, who still owes the
\* signal, or not at all, because that caller got an error instead.
Owed(k) == \E c \in Callers : caller[c].pc = "committed" /\ caller[c].req.key = k
Announced(k) == wake \/ Owed(k) \/ k \in unsignalled

\* A waiting worker that drained well has left nothing pending behind, and only a
\* caller who then still owes the signal adds a pending item.
LEMMA WakeStep ==
  ASSUME Held, NoIdleWork, [Next]_vars
  PROVE  NoIdleWork'
<1>1. /\ lastId \in Nat /\ items \in [1..lastId -> ItemRow]
      /\ worker \in WorkerState /\ caller \in [Callers -> CallerState]
  BY DEF Held, TypeOK
<1>2. ASSUME \E p, e : (p # "wait" \/ e = TRUE) /\ worker' = NoWork(p, e) PROVE NoIdleWork'
  BY <1>2 DEF NoIdleWork, NoWork
<1>3. ASSUME worker'.pc # "wait" PROVE NoIdleWork'
  BY <1>3 DEF NoIdleWork
<1>4. ASSUME lastId' = lastId, worker'.pc = worker.pc, worker'.err = worker.err, mode' = mode,
             \A i \in 1..lastId : items'[i].status = items[i].status /\ items'[i].batch = items[i].batch,
             \A k : Announced(k) => Announced(k)'
      PROVE  NoIdleWork'
  BY <1>4 DEF NoIdleWork, Announced, Owed
<1>5. ASSUME NEW c \in Callers, UNCHANGED <<items, lastId, worker, mode, wake, unsignalled>>,
             caller[c].pc # "committed", \A d \in Callers \ {c} : caller'[d] = caller[d]
      PROVE  NoIdleWork'
  <2>1. \A k : Announced(k) => Announced(k)'
    BY <1>5 DEF Announced, Owed
  <2> QED BY <1>4, <1>5, <2>1
<1>6. ASSUME NEW c \in Callers, NEW r \in Requests, Lookup(c, r) PROVE NoIdleWork'
  <2>1. caller[c].pc # "committed" /\ \A d \in Callers \ {c} : caller'[d] = caller[d]
    BY <1>1, <1>6 DEF Lookup
  <2> QED BY <1>5, <1>6, <2>1 DEF Lookup, tables, process
<1>7. ASSUME NEW c \in Callers, Insert(c) PROVE NoIdleWork'
  <2>0. PICK k : k = caller[c].req.key
    OBVIOUS
  <2>1. caller'[c].pc = "committed" /\ caller'[c].req.key = k /\ caller[c].pc = "insert"
        /\ \A d \in Callers \ {c} : caller'[d] = caller[d]
    BY <1>1, <1>7, <2>0 DEF Insert, CallerState
  <2>2. AcceptStep(k) /\ UNCHANGED <<wake, worker, mode, unsignalled>>
    BY <1>7, <2>0, InsertAccepts DEF Insert, process, answers
  <2>3. Owed(k)' /\ \A l : Announced(l) => Announced(l)'
    BY <2>1, <2>2 DEF Announced, Owed
  <2>4. \A i \in 1..lastId' : IF i <= lastId THEN items'[i] = items[i] ELSE items'[i].batch = k
    BY <1>1, <2>2 DEF AcceptStep
  <2>5. \A i \in 1..lastId' : i <= lastId => i \in 1..lastId
    BY <1>1
  <2>6. ASSUME worker'.pc = "wait", ~worker'.err, mode' = "up",
               NEW i \in 1..lastId', items'[i].status = "pending",
               NEW b, b = items'[i].batch
        PROVE  Announced(b)'
    <3>1. CASE i <= lastId
      <4>1. items'[i] = items[i] /\ i \in 1..lastId
        BY <2>4, <2>5, <2>6, <3>1
      <4>2. Announced(b)
        BY <2>2, <2>6, <4>1 DEF NoIdleWork, Announced, Owed
      <4> QED BY <2>3, <4>2
    <3>2. CASE ~(i <= lastId)
      <4>1. b = k
        BY <2>4, <2>6, <3>2
      <4> QED BY <2>3, <4>1 DEF Announced
    <3> QED BY <3>1, <3>2
  <2> QED BY <2>6 DEF NoIdleWork, Announced, Owed
<1>8. ASSUME NEW c \in Callers, InsertRefused(c) \/ Reread(c) PROVE NoIdleWork'
  <2>1. caller[c].pc # "committed" /\ \A d \in Callers \ {c} : caller'[d] = caller[d]
    BY <1>1, <1>8 DEF InsertRefused, Reread
  <2> QED BY <1>5, <1>8, <2>1 DEF InsertRefused, Reread, tables, process, answers
<1>9. ASSUME NEW c \in Callers, Notify(c) PROVE NoIdleWork'
  BY <1>9 DEF Notify, NoIdleWork
<1>10. ASSUME NEW c \in Callers, CallerError(c) PROVE NoIdleWork'
  <2>1. \A d \in Callers \ {c} : caller'[d] = caller[d]
    BY <1>1, <1>10 DEF CallerError
  <2>2. \A k : Announced(k) => Announced(k)'
    BY <1>10, <2>1 DEF CallerError, Announced, Owed
  <2> QED BY <1>4, <1>10, <2>2 DEF CallerError, tables, process
<1>11. CASE Claim
  <2>1. PICK i, n : worker' = [NoWork("resolve", FALSE) EXCEPT !.id = i, !.attempts = n]
    BY <1>11 DEF Claim
  <2>2. worker'.pc = "resolve"
    BY <2>1 DEF NoWork
  <2> QED BY <2>2 DEF NoIdleWork
<1>12. CASE ClaimNothing
  <2>1. \A i \in 1..lastId : Recovered[i].status # "pending"
    BY <1>12 DEF ClaimNothing, Claimable, Recovered
  <2> QED BY <1>12, <2>1 DEF ClaimNothing, NoIdleWork
<1>13. ASSUME ReuseStored \/ (\E a : AskGitHub(a)) \/ Fail \/ Complete PROVE NoIdleWork'
  <2>1. CASE Fail \/ Complete
    <3>1. PICK its, k : worker' = AfterSettling(its, k)
      BY <2>1 DEF Fail, Complete
    <3>2. worker'.pc \in {"scan", "invalidate"}
      BY <3>1, AfterSettlingType
    <3> QED BY <3>2 DEF NoIdleWork
  <2>2. CASE ReuseStored \/ \E a : AskGitHub(a)
    <3>1. worker'.pc \in {"complete", "fail"}
      BY <1>1, <2>2 DEF ReuseStored, AskGitHub, WorkerState
    <3> QED BY <3>1 DEF NoIdleWork
  <2> QED BY <1>13, <2>1, <2>2
<1>14. CASE Tick
  <2>1. /\ lastId' = lastId /\ mode' = mode /\ UNCHANGED <<wake, caller, unsignalled>>
        /\ \A i \in 1..lastId : items'[i].status = items[i].status /\ items'[i].batch = items[i].batch
    BY <1>1, <1>14 DEF Tick, process, answers, ItemRow
  <2>2. worker'.pc = worker.pc /\ worker'.err = worker.err
    BY <1>1, <1>14 DEF Tick, WorkerState
  <2>3. \A k : Announced(k) => Announced(k)'
    BY <2>1 DEF Announced, Owed
  <2> QED BY <1>4, <2>1, <2>2, <2>3
<1>15. CASE CheckContext
  <2>1. worker' = NoWork("claim", FALSE) \/ worker' = NoWork("wait", TRUE)
    BY <1>15 DEF CheckContext
  <2> QED BY <1>2, <2>1
<1>16. CASE CallerStep
  BY <1>6, <1>7, <1>8, <1>9, <1>10, <1>16 DEF CallerStep
<1>17. CASE WorkerStep
  <2>1. ASSUME WakeScan \/ TickerScan \/ StopWorker \/ ClaimError \/ SettleError \/ Invalidate
        PROVE  \E p, e : (p # "wait" \/ e = TRUE) /\ worker' = NoWork(p, e)
    BY <2>1 DEF WakeScan, TickerScan, StopWorker, ClaimError, SettleError, Invalidate
  <2> QED BY <1>2, <1>11, <1>12, <1>13, <1>15, <1>17, <2>1 DEF WorkerStep
<1>18. CASE Environment
  <2>1. ASSUME Crash \/ Exit \/ Restart
        PROVE  \E p, e : (p # "wait" \/ e = TRUE) /\ worker' = NoWork(p, e)
    BY <2>1 DEF Crash, Exit, Restart, Forget
  <2>2. ASSUME StartPayload \/ StorePayload \/ (\E r \in Repos : Recreate(r) \/ GrowStale(r))
        PROVE  NoIdleWork'
    <3>1. UNCHANGED <<items, lastId, worker, mode, wake, caller, unsignalled>>
      BY <2>2 DEF StartPayload, StorePayload, Recreate, GrowStale, tables, process, answers
    <3> QED BY <3>1 DEF NoIdleWork
  <2>3. ASSUME BeginShutdown \/ CloseStore PROVE mode' # "up"
    BY <2>3 DEF BeginShutdown, CloseStore
  <2> QED BY <1>2, <1>14, <1>18, <2>1, <2>2, <2>3 DEF Environment, NoIdleWork
<1>19. CASE UNCHANGED vars
  BY <1>19 DEF vars, NoIdleWork
<1> QED BY <1>16, <1>17, <1>18, <1>19 DEF Next

\* No wake-up is lost: the worker of a running process does not wait over a pending
\* item unless the signal is in the channel, about to be sent, or the caller had the
\* error of its read-back after the commit.
THEOREM WakesAreNotLost == Spec => []NoIdleWork
<1>1. Init => Held /\ NoIdleWork
  <2>1. Init => worker.pc # "wait"
    BY DEF Init, NoWork
  <2> QED BY <2>1, InitHeld DEF NoIdleWork
<1>2. Held /\ NoIdleWork /\ [Next]_vars => Held' /\ NoIdleWork'
  BY HeldStep, WakeStep
<1> QED BY <1>1, <1>2, PTL DEF Spec

(***************************************************************************)
(* Acceptance.                                                             *)
(***************************************************************************)
\* Every batch is whole for the request that created it; so is what a caller has
\* committed and what was answered as created, and a replayed key has its batch.
CreatedWhole(k) == \E r \in Requests : r.key = k /\ Whole(items, r)

PromisesKept ==
  /\ \A k \in Keys : Exists(k) => CreatedWhole(k)
  /\ \A c \in Callers : caller[c].pc = "committed" => Whole(items, caller[c].req)
  /\ \A a \in accepted : Exists(a[1].key) /\ (a[2] = "created" => Whole(items, a[1]))

LEMMA PromisesSuffice ==
  ASSUME TypeOK, PromisesKept
  PROVE  AcceptedIsDurable
<1> SUFFICES ASSUME NEW a \in accepted
             PROVE  \E r \in Requests : /\ r.key = a[1].key
                                        /\ Whole(items, r)
                                        /\ a[2] = "created" => r = a[1]
  BY DEF AcceptedIsDurable
<1>1. a[1] \in Requests /\ a[1].key \in Keys
  BY RequestsAssumption DEF TypeOK
<1>2. CASE a[2] = "created"
  BY <1>1, <1>2 DEF PromisesKept
<1>3. CASE a[2] # "created"
  BY <1>1, <1>3 DEF PromisesKept, CreatedWhole
<1> QED BY <1>2, <1>3

\* The rows of a batch are the ones it was accepted with.
LEMMA RowsKept ==
  ASSUME Kept, [Next]_vars, NEW k \in Keys, Exists(k)
  PROVE  RowsOf(items', k) = RowsOf(items, k)
<1>1. /\ lastId \in Nat /\ lastId' \in Nat /\ lastId <= lastId'
      /\ \A i \in 1..lastId : items'[i].batch = items[i].batch
  BY IdentityKept
<1>2. Held /\ DOMAIN items = 1..lastId /\ DOMAIN items' = 1..lastId'
  BY HeldStep DEF Kept, Held, TypeOK
<1>3. \A i \in 1..lastId' : i \notin 1..lastId => items'[i].batch # k
  <2>1. CASE lastId' = lastId
    BY <2>1
  <2>2. ASSUME NEW l \in Keys, AcceptStep(l) PROVE \A i \in 1..lastId' : i \notin 1..lastId => items'[i].batch # k
    <3>1. l # k
      BY <2>2 DEF AcceptStep
    <3> QED BY <1>1, <2>2, <3>1 DEF AcceptStep
  <2> QED BY <1>2, <2>1, <2>2, ThreeKinds DEF QuietStep, SettleStep
<1>4. \A i \in 1..lastId : i \in 1..lastId'
  BY <1>1
<1> QED BY <1>1, <1>2, <1>3, <1>4 DEF RowsOf

\* A batch that is whole for a request exists, since a request has candidates.
LEMMA WholeExists ==
  ASSUME Kept, NEW r \in Requests, Whole(items, r)
  PROVE  Exists(r.key)
<1>1. r.key \in Keys /\ r.facts # {}
  BY RequestsAssumption
<1>2. RowsOf(items, r.key) # {}
  BY <1>1 DEF Whole
<1> QED BY <1>2 DEF Kept, Held, TypeOK, NoOrphans, RowsOf

\* So a whole batch stays whole.
LEMMA WholeKept ==
  ASSUME Kept, [Next]_vars, NEW r \in Requests, Whole(items, r)
  PROVE  Whole(items', r)
<1>1. r.key \in Keys /\ Exists(r.key)
  BY RequestsAssumption, WholeExists
<1>2. RowsOf(items, r.key) \subseteq 1..lastId
  BY DEF Kept, Held, TypeOK, RowsOf
<1>3. \A i \in 1..lastId : items'[i].fact = items[i].fact
  BY IdentityKept
<1>4. RowsOf(items', r.key) = RowsOf(items, r.key)
  BY <1>1, RowsKept
<1> QED BY <1>2, <1>3, <1>4 DEF Whole

\* The insert transaction writes one item for each deduplicated candidate.
LEMMA InsertIsWhole ==
  ASSUME Kept, NEW c \in Callers, Insert(c)
  PROVE  Whole(items', caller[c].req)
<1> DEFINE r == caller[c].req
<1>1. r \in Requests /\ r.key \in Keys /\ r.facts \subseteq Facts /\ lastId \in Nat
      /\ items \in [1..lastId -> ItemRow]
  BY RequestsAssumption DEF Kept, Held, TypeOK, CallerState
<1>2. PICK kept \in Deduplicated(r) : \E order \in Orders(kept) :
        items' = [i \in 1..(lastId + Cardinality(kept)) |->
          IF i <= lastId THEN items[i] ELSE NewRow(r.key, order[i - lastId])]
  BY DEF Insert
<1>3. PICK order \in Orders(kept) :
        items' = [i \in 1..(lastId + Cardinality(kept)) |->
          IF i <= lastId THEN items[i] ELSE NewRow(r.key, order[i - lastId])]
  BY <1>2
<1>4. ~Exists(r.key)
  BY DEF Insert
<1> HIDE DEF r
<1>5. /\ kept \subseteq r.facts
      /\ \A f \in r.facts : \E g \in kept : SameItem(r, g, f)
      /\ \A f, g \in kept : SameItem(r, f, g) => f = g
  BY <1>2 DEF Deduplicated, SameItem
<1>6. kept \subseteq Facts /\ IsFiniteSet(kept)
  BY <1>1, <1>5, FactsAssumption, FS_Subset
<1>7. Cardinality(kept) \in Nat
  BY <1>6, FS_CardinalityType
<1> DEFINE n == Cardinality(kept)
<1>8. /\ \A m \in 1..n : order[m] \in kept
      /\ \A g \in kept : \E m \in 1..n : order[m] = g
      /\ \A a, b \in 1..n : order[a] = order[b] => a = b
  BY <1>3 DEF Orders, Bijection, Injection, IsInjective, Surjection
<1>9. \A i \in 1..lastId : items[i].batch # r.key
  BY <1>4 DEF Kept, NoOrphans
<1> DEFINE new == items'
<1>10. new = [i \in 1..(lastId + n) |->
          IF i <= lastId THEN items[i] ELSE NewRow(r.key, order[i - lastId])]
  BY <1>3
<1> HIDE DEF n, new
<1>11. n \in Nat
  BY <1>7 DEF n
<1>12. \A i \in 1..(lastId + n) : IF i <= lastId THEN new[i].batch # r.key
                                  ELSE new[i].batch = r.key /\ new[i].fact = order[i - lastId]
  <2> TAKE i \in 1..(lastId + n)
  <2>1. CASE i <= lastId
    <3>1. i \in 1..lastId
      BY <1>1, <1>11, <2>1
    <3> QED BY <1>9, <1>10, <2>1, <3>1
  <2>2. CASE ~(i <= lastId)
    <3>1. new[i] = NewRow(r.key, order[i - lastId])
      BY <1>10, <2>2
    <3> QED BY <2>2, <3>1 DEF NewRow
  <2> QED BY <2>1, <2>2
<1>13. RowsOf(new, r.key) = {i \in 1..(lastId + n) : ~(i <= lastId)}
  BY <1>10, <1>12 DEF RowsOf
<1>14. \A i \in RowsOf(new, r.key) : i - lastId \in 1..n /\ new[i].fact = order[i - lastId]
  BY <1>1, <1>11, <1>12, <1>13
<1>15. \A m \in 1..n : lastId + m \in RowsOf(new, r.key) /\ new[lastId + m].fact = order[m]
  <2> TAKE m \in 1..n
  <2>1. lastId + m \in 1..(lastId + n) /\ ~(lastId + m <= lastId) /\ (lastId + m) - lastId = m
    BY <1>1, <1>11
  <2> QED BY <1>12, <1>13, <2>1
<1>16. \A i \in RowsOf(new, r.key) : new[i].fact \in r.facts /\ new[i].fact \in kept
  BY <1>5, <1>8, <1>14
<1>17. \A f \in r.facts : \E i \in RowsOf(new, r.key) : SameItem(r, new[i].fact, f)
  <2> TAKE f \in r.facts
  <2>1. PICK g \in kept : SameItem(r, g, f)
    BY <1>5
  <2>2. PICK m \in 1..n : order[m] = g
    BY <1>8
  <2> QED BY <1>15, <2>1, <2>2, Zenon
<1>18. ASSUME NEW i \in RowsOf(new, r.key), NEW j \in RowsOf(new, r.key),
              SameItem(r, new[i].fact, new[j].fact)
       PROVE  i = j
  <2>1. new[i].fact = new[j].fact
    BY <1>5, <1>16, <1>18
  <2>2. i - lastId = j - lastId
    BY <1>8, <1>14, <2>1
  <2> QED BY <1>1, <1>11, <1>13, <2>2
<1>19. Whole(new, r)
  BY <1>16, <1>17, <1>18 DEF Whole
<1> QED BY <1>19 DEF r, new

\* A batch comes to exist by the insert of a caller.
LEMMA OnlyInsertCreates ==
  ASSUME Kept, [Next]_vars, NEW k \in Keys, ~Exists(k), Exists(k)'
  PROVE  \E c \in Callers : Insert(c) /\ caller[c].req.key = k
<1>1. Held
  BY DEF Kept
<1>2. CASE QuietStep
  BY <1>2 DEF QuietStep, Exists, Unsettled
<1>3. ASSUME NEW c \in Callers, Insert(c) PROVE caller[c].req.key = k
  BY <1>1, <1>3, InsertAccepts DEF AcceptStep, Exists
<1>4. CASE Fail \/ Complete
  <2>1. SettleStep(worker.id) /\ worker.id \in 1..lastId
    BY <1>1, <1>4, SettlingSteps DEF Held, LeaseHeld, Fail, Complete
  <2>2. Exists(items[worker.id].batch)
    BY <2>1 DEF Kept, NoOrphans
  <2> QED BY <2>1, <2>2 DEF SettleStep, Exists
<1> QED BY <1>1, <1>2, <1>3, <1>4, Transactions

\* How a caller comes to stand behind its commit.
LEMMA CallerMoves ==
  ASSUME Held, [Next]_vars, NEW c \in Callers
  PROVE  \/ caller'[c] = caller[c]
         \/ caller'[c].pc \in {"idle", "insert", "raced"}
         \/ Insert(c) /\ caller'[c].req = caller[c].req
<1>1. caller \in [Callers -> CallerState] /\ Resting.pc = "idle"
  BY DEF Held, TypeOK, Resting
<1>2. ASSUME NEW r \in Requests, Lookup(c, r)
      PROVE  caller'[c] = caller[c] \/ caller'[c].pc = "insert"
  BY <1>1, <1>2 DEF Lookup
<1>3. ASSUME Insert(c) PROVE caller'[c].req = caller[c].req
  BY <1>1, <1>3 DEF Insert, CallerState
<1>4. ASSUME InsertRefused(c) PROVE caller'[c].pc = "raced"
  BY <1>1, <1>4 DEF InsertRefused, CallerState
<1>5. ASSUME Reread(c) \/ Notify(c) \/ CallerError(c) PROVE caller'[c].pc = "idle"
  BY <1>1, <1>5 DEF Reread, Notify, CallerError
<1>6. ASSUME NEW d \in Callers, d # c,
             (\E r \in Requests : Lookup(d, r)) \/ Insert(d) \/ InsertRefused(d) \/ Reread(d)
               \/ Notify(d) \/ CallerError(d)
      PROVE  caller'[c] = caller[c]
  BY <1>1, <1>6 DEF Lookup, Insert, InsertRefused, Reread, Notify, CallerError
<1>7. CASE CallerStep
  BY <1>2, <1>3, <1>4, <1>5, <1>6, <1>7, Zenon DEF CallerStep
<1>8. ASSUME Crash \/ Exit PROVE caller'[c].pc = "idle"
  <2>1. caller' = [d \in Callers |-> Resting]
    BY <1>8 DEF Crash, Exit, Forget
  <2> QED BY <1>1, <2>1
<1>9. ASSUME ~CallerStep, ~Crash, ~Exit PROVE caller' = caller
  BY <1>9, Zenon DEF Next, WorkerStep, Environment, vars,
     WakeScan, TickerScan, StopWorker, CheckContext, Claim, ClaimNothing, ClaimError,
     ReuseStored, AskGitHub, Fail, Complete, SettleError, Invalidate, StartPayload,
     StorePayload, Recreate, GrowStale, Tick, BeginShutdown, CloseStore, Restart
<1> QED BY <1>7, <1>8, <1>9

\* An answer is given for a batch that is there, and as created by its creator alone.
LEMMA AnswerMoves ==
  ASSUME Held, [Next]_vars, NEW a \in accepted'
  PROVE  \/ a \in accepted
         \/ /\ UNCHANGED <<items, batches>>
            /\ a[2] = "replayed" /\ Exists(a[1].key)
         \/ /\ UNCHANGED <<items, batches>>
            /\ \E c \in Callers : caller[c].pc = "committed" /\ a[1] = caller[c].req
<1>1. ASSUME NEW c \in Callers, NEW r \in Requests, Lookup(c, r)
      PROVE  \/ a \in accepted
             \/ UNCHANGED <<items, batches>> /\ a[2] = "replayed" /\ Exists(a[1].key)
  <2>1. a \in accepted \/ (a = <<r, "replayed">> /\ Exists(r.key))
    BY <1>1 DEF Lookup
  <2>2. a = <<r, "replayed">> => a[1] = r /\ a[2] = "replayed"
    OBVIOUS
  <2> QED BY <1>1, <2>1, <2>2 DEF Lookup, tables
<1>2. ASSUME NEW c \in Callers, Reread(c)
      PROVE  \/ a \in accepted
             \/ UNCHANGED <<items, batches>> /\ a[2] = "replayed" /\ Exists(a[1].key)
  <2>1. a \in accepted \/ (a = <<caller[c].req, "replayed">> /\ Exists(caller[c].req.key))
    BY <1>2 DEF Reread, Answered
  <2>2. a = <<caller[c].req, "replayed">> => a[1] = caller[c].req /\ a[2] = "replayed"
    OBVIOUS
  <2> QED BY <1>2, <2>1, <2>2 DEF Reread, tables
<1>3. ASSUME NEW c \in Callers, Notify(c)
      PROVE  \/ a \in accepted
             \/ /\ UNCHANGED <<items, batches>>
                /\ caller[c].pc = "committed" /\ a[1] = caller[c].req
  <2>1. a \in accepted \/ a = <<caller[c].req, "created">>
    BY <1>3 DEF Notify, Answered
  <2>2. a = <<caller[c].req, "created">> => a[1] = caller[c].req
    OBVIOUS
  <2> QED BY <1>3, <2>1, <2>2 DEF Notify, tables
<1>4. ASSUME NEW c \in Callers, Insert(c) \/ InsertRefused(c) \/ CallerError(c) PROVE a \in accepted
  BY <1>4 DEF Insert, InsertRefused, CallerError, answers
<1>5. CASE CallerStep
  BY <1>1, <1>2, <1>3, <1>4, <1>5 DEF CallerStep
<1>6. ASSUME ~CallerStep PROVE accepted' = accepted
  BY <1>6, Zenon DEF Next, WorkerStep, Environment, vars, answers, Forget,
     WakeScan, TickerScan, StopWorker, CheckContext, Claim, ClaimNothing, ClaimError,
     ReuseStored, AskGitHub, Fail, Complete, SettleError, Invalidate, StartPayload,
     StorePayload, Recreate, GrowStale, Tick, BeginShutdown, CloseStore, Restart, Crash, Exit
<1> QED BY <1>5, <1>6

Promised == Kept /\ PromisesKept

LEMMA PromiseStep == Promised /\ [Next]_vars => Promised'
<1> SUFFICES ASSUME Promised, [Next]_vars PROVE Promised'
  OBVIOUS
<1>1. Held /\ Kept /\ Kept' /\ PromisesKept
  BY KeptStep DEF Promised, Kept
<1>2. \A c \in Callers : caller[c].req \in Requests /\ caller[c].req.key \in Keys
  BY <1>1, RequestsAssumption DEF Held, TypeOK, CallerState
<1>3. /\ \A k \in Keys : Exists(k) => Exists(k)'
      /\ \A r \in Requests : r.key \in Keys /\ (Whole(items, r) => Whole(items', r) /\ Exists(r.key))
  BY <1>1, IdentityKept, WholeKept, WholeExists, RequestsAssumption
<1>4. ASSUME NEW k \in Keys, Exists(k)' PROVE CreatedWhole(k)'
  <2>1. CASE Exists(k)
    BY <1>1, <1>3, <2>1 DEF PromisesKept, CreatedWhole
  <2>2. CASE ~Exists(k)
    <3>1. PICK c \in Callers : Insert(c) /\ caller[c].req.key = k
      BY <1>1, <1>4, <2>2, OnlyInsertCreates
    <3>2. Whole(items', caller[c].req)
      BY <1>1, <3>1, InsertIsWhole
    <3> QED BY <1>2, <3>1, <3>2 DEF CreatedWhole
  <2> QED BY <2>1, <2>2
<1>5. ASSUME NEW c \in Callers, caller'[c].pc = "committed" PROVE Whole(items', caller'[c].req)
  <2>1. CASE caller'[c] = caller[c]
    BY <1>1, <1>2, <1>3, <1>5, <2>1 DEF PromisesKept
  <2>2. CASE Insert(c) /\ caller'[c].req = caller[c].req
    BY <1>1, <2>2, InsertIsWhole
  <2> QED BY <1>1, <1>5, <2>1, <2>2, CallerMoves
<1>6. ASSUME NEW a \in accepted'
      PROVE  Exists(a[1].key)' /\ (a[2] = "created" => Whole(items', a[1]))
  <2>0. accepted' \subseteq Requests \X {"created", "replayed"}
    BY <1>1 DEF Kept, Held, TypeOK
  <2>1. a[1] \in Requests
    BY <2>0
  <2>2. CASE a \in accepted
    BY <1>1, <1>3, <2>1, <2>2 DEF PromisesKept
  <2>3. CASE a[2] = "replayed" /\ Exists(a[1].key)
    BY <1>3, <2>1, <2>3
  <2>4. ASSUME NEW c \in Callers, caller[c].pc = "committed", a[1] = caller[c].req
        PROVE  Exists(a[1].key)' /\ Whole(items', a[1])
    BY <1>1, <1>3, <2>1, <2>4 DEF PromisesKept
  <2> QED BY <1>1, <2>2, <2>3, <2>4, AnswerMoves
<1>7. PromisesKept'
  BY <1>4, <1>5, <1>6 DEF PromisesKept
<1> QED BY <1>1, <1>7 DEF Promised

\* What a caller was ever told is accepted stays in the queue, whatever crashes, races
\* or fails afterwards: one item for each candidate of the request that created
\* the batch of its key, which is the caller's own unless the answer was a replay.
THEOREM AcceptedHolds == Spec => []AcceptedIsDurable
<1>1. Init => Promised
  <2>1. Init => /\ \A c \in Callers : caller[c].pc = "idle"
                /\ \A k \in Keys : ~Exists(k)
                /\ accepted = {}
    BY DEF Init, Resting, Exists, NoBatch
  <2> QED BY <2>1, KeptInit DEF Promised, PromisesKept
<1>2. Promised => AcceptedIsDurable
  BY PromisesSuffice DEF Promised, Kept, Held
<1> QED BY <1>1, <1>2, PromiseStep, PTL DEF Spec

(***************************************************************************)
(* The bulk payload.                                                       *)
(***************************************************************************)
\* Sees contains the successes of every terminal batch.
Current(sees) ==
  \A k \in Keys : batches[k].status \in Terminal => batches[k].success \subseteq sees

\* Except between the commit that closes a batch and the invalidation after it, the
\* stored payload is current unless it is late, and so is what a builder has read
\* unless it missed an invalidation.
PayloadsFollow ==
  worker.pc # "invalidate" =>
    /\ cache.valid /\ ~cache.late => Current(cache.sees)
    /\ cache.building /\ ~cache.missed => Current(cache.read)

\* What is published covers every terminal batch, by the report on it.
LEMMA PublishedIsCurrent ==
  ASSUME Kept
  PROVE  Current(Published(items))
<1>1. DOMAIN items = 1..lastId
  BY DEF Kept, Held, TypeOK
<1>2. ASSUME NEW k \in Keys, batches[k].status \in Terminal PROVE batches[k].success \subseteq Published(items)
  <2>1. ReportOf(items, batches[k], k)
    BY <1>2, ReportsMatch DEF Kept, Exists, Terminal
  <2> QED BY <2>1 DEF ReportOf, RowsOf, Published
<1> QED BY <1>2 DEF Current

\* A batch becomes terminal only in the step that sends the worker to invalidate.
LEMMA ClosingIsFollowed ==
  ASSUME Kept, [Next]_vars
  PROVE  \/ worker'.pc = "invalidate"
         \/ \A k \in Keys : batches'[k].status \in Terminal => batches'[k] = batches[k]
<1>1. Held
  BY DEF Kept
<1>2. CASE QuietStep
  BY <1>2 DEF QuietStep, Unsettled, Terminal
<1>3. ASSUME NEW c \in Callers, Insert(c)
      PROVE  \A k \in Keys : batches'[k].status \in Terminal => batches'[k] = batches[k]
  <2>1. PICK k \in Keys : AcceptStep(k)
    BY <1>1, <1>3, InsertAccepts
  <2>2. batches'[k].status \notin Terminal
    BY <2>1 DEF AcceptStep, Terminal
  <2> QED BY <2>1, <2>2 DEF AcceptStep
<1>4. CASE Fail \/ Complete
  <2> DEFINE k == items[worker.id].batch
  <2>1. SettleStep(worker.id)
    BY <1>1, <1>4, SettlingSteps
  <2>2. worker' = AfterSettling(items', k) /\ batches' = Finalized(items', k)
    BY <1>4 DEF Fail, Complete
  <2>3. worker'.pc = "invalidate" \/ Verdict(items', k) = "processing"
    BY <2>2 DEF AfterSettling, NoWork
  <2>4. batches'[k].status = Verdict(items', k) /\ \A l \in Keys \ {k} : batches'[l] = batches[l]
    BY <2>1 DEF SettleStep
  <2>5. "processing" \notin Terminal
    BY DEF Terminal
  <2> QED BY <2>3, <2>4, <2>5
<1> QED BY <1>1, <1>2, <1>3, <1>4, Transactions

\* So what was current stays current.
LEMMA CurrentKept ==
  ASSUME Kept, [Next]_vars, worker'.pc # "invalidate", NEW sees, Current(sees)
  PROVE  \A k \in Keys : batches'[k].status \in Terminal => batches'[k].success \subseteq sees
  BY ClosingIsFollowed DEF Current

\* A process that is down has no worker.
DownIsOff == mode = "down" => worker.pc = "off"

LEMMA DownStep ==
  ASSUME Held, DownIsOff, [Next]_vars
  PROVE  DownIsOff'
<1>1. worker \in WorkerState
  BY DEF Held, TypeOK
<1>2. CASE Crash \/ Exit
  BY <1>2 DEF Crash, Exit, Forget, NoWork, DownIsOff
<1>3. CASE Tick
  BY <1>1, <1>3 DEF Tick, process, WorkerState, DownIsOff
<1>4. CASE Restart
  BY <1>4 DEF Restart, DownIsOff
<1>5. CASE WorkerStep
  <2>1. worker.pc # "off" /\ mode' = mode
    BY <1>5 DEF WorkerStep, process, WakeScan, TickerScan, StopWorker, CheckContext, Claim,
       ClaimNothing, ClaimError, ReuseStored, AskGitHub, Fail, Complete, SettleError, Invalidate
  <2> QED BY <2>1 DEF DownIsOff
<1>6. CASE CallerStep \/ UNCHANGED vars
  BY <1>6 DEF CallerStep, vars, process, Lookup, Insert, InsertRefused, Reread, Notify,
     CallerError, DownIsOff
<1>7. CASE BeginShutdown \/ CloseStore
  BY <1>7 DEF BeginShutdown, CloseStore, DownIsOff
<1>8. CASE StartPayload \/ StorePayload \/ \E r \in Repos : Recreate(r) \/ GrowStale(r)
  BY <1>8 DEF StartPayload, StorePayload, Recreate, GrowStale, process, DownIsOff
<1> QED BY <1>2, <1>3, <1>4, <1>5, <1>6, <1>7, <1>8 DEF Next, Environment

\* Where the worker leaves "invalidate", the cache is dropped.
LEMMA InvalidateIsDone ==
  ASSUME Held, DownIsOff, [Next]_vars, worker.pc = "invalidate", worker'.pc # "invalidate"
  PROVE  ~cache'.valid /\ (cache'.building => cache'.missed)
<1>1. worker \in WorkerState /\ cache \in CacheState
  BY DEF Held, TypeOK
<1>2. worker' # worker
  OBVIOUS
<1>3. CASE Invalidate
  BY <1>1, <1>3 DEF Invalidate, CacheState
<1>4. CASE Crash \/ Exit
  <2>1. cache' = NoCache
    BY <1>4 DEF Crash, Exit, Forget
  <2> QED BY <2>1 DEF NoCache
<1>5. CASE Tick
  BY <1>1, <1>5 DEF Tick, WorkerState
<1>6. ~Restart
  BY DEF Restart, DownIsOff
<1>7. CASE Fail \/ Complete \/ Claim \/ ClaimNothing \/ ReuseStored
  BY <1>7 DEF Fail, Complete, Claim, ClaimNothing, ReuseStored
<1>8. ASSUME NEW a, AskGitHub(a) PROVE FALSE
  BY <1>8 DEF AskGitHub
<1>9. ASSUME WakeScan \/ TickerScan \/ StopWorker \/ CheckContext \/ ClaimError \/ SettleError PROVE FALSE
  BY <1>9 DEF WakeScan, TickerScan, StopWorker, CheckContext, ClaimError, SettleError
<1>10. CASE WorkerStep
  BY <1>3, <1>7, <1>8, <1>9, <1>10 DEF WorkerStep
<1>11. ASSUME CallerStep PROVE FALSE
  BY <1>2, <1>11, Zenon DEF CallerStep, Lookup, Insert, InsertRefused, Reread, Notify, CallerError
<1>12. ASSUME StartPayload \/ StorePayload \/ (\E r \in Repos : Recreate(r) \/ GrowStale(r))
                \/ BeginShutdown \/ CloseStore
       PROVE  FALSE
  BY <1>2, <1>12, Zenon DEF StartPayload, StorePayload, Recreate, GrowStale, BeginShutdown, CloseStore
<1>13. CASE Environment
  BY <1>4, <1>5, <1>6, <1>12, <1>13 DEF Environment
<1> QED BY <1>2, <1>10, <1>11, <1>13 DEF Next, vars

\* What happens to the cache elsewhere.
LEMMA CacheMoves ==
  ASSUME Held, [Next]_vars, worker.pc # "invalidate"
  PROVE  \/ cache' = cache
         \/ ~cache'.valid /\ ~cache'.building
         \/ ~cache'.valid /\ cache'.read = Published(items) /\ UNCHANGED <<batches, items>>
         \/ /\ cache.building /\ cache'.valid /\ ~cache'.building
            /\ cache'.sees = cache.read /\ cache'.late = cache.missed
            /\ UNCHANGED <<batches, items>>
<1>1. cache \in CacheState
  BY DEF Held, TypeOK
<1>2. CASE StartPayload
  BY <1>1, <1>2 DEF StartPayload, tables, CacheState
<1>3. CASE StorePayload
  BY <1>1, <1>3 DEF StorePayload, tables, NoCache
<1>4. CASE Crash \/ Exit
  <2>1. cache' = NoCache
    BY <1>4 DEF Crash, Exit, Forget
  <2> QED BY <2>1 DEF NoCache
<1>5. ~Invalidate
  BY DEF Invalidate
<1>6. ASSUME ~StartPayload, ~StorePayload, ~Crash, ~Exit PROVE cache' = cache
  BY <1>5, <1>6, Zenon DEF Next, CallerStep, WorkerStep, Environment, vars,
     Lookup, Insert, InsertRefused, Reread, Notify, CallerError, WakeScan, TickerScan,
     StopWorker, CheckContext, Claim, ClaimNothing, ClaimError, ReuseStored, AskGitHub,
     Fail, Complete, SettleError, Recreate, GrowStale, Tick, BeginShutdown, CloseStore, Restart
<1> QED BY <1>2, <1>3, <1>4, <1>6

Followed == Kept /\ DownIsOff /\ PayloadsFollow

LEMMA FollowedStep == Followed /\ [Next]_vars => Followed'
<1> SUFFICES ASSUME Followed, [Next]_vars PROVE Followed'
  OBVIOUS
<1>1. Held /\ Kept /\ Kept' /\ DownIsOff'
  BY KeptStep, DownStep DEF Followed, Kept
<1>2. SUFFICES ASSUME worker'.pc # "invalidate"
               PROVE  /\ cache'.valid /\ ~cache'.late => Current(cache.sees)'
                      /\ cache'.building /\ ~cache'.missed => Current(cache.read)'
  BY <1>1 DEF Followed, PayloadsFollow
<1>3. CASE worker.pc = "invalidate"
  BY <1>1, <1>2, <1>3, InvalidateIsDone DEF Followed
<1>4. CASE worker.pc # "invalidate"
  <2>1. /\ cache.valid /\ ~cache.late => Current(cache.sees)
        /\ cache.building /\ ~cache.missed => Current(cache.read)
        /\ Current(Published(items))
    BY <1>1, <1>4, PublishedIsCurrent DEF Followed, PayloadsFollow
  <2>2. \A s : Current(s) =>
          \A k \in Keys : batches'[k].status \in Terminal => batches'[k].success \subseteq s
    BY <1>1, <1>2, CurrentKept
  <2>3. CASE cache' = cache
    BY <2>1, <2>2, <2>3 DEF Current
  <2>4. CASE ~cache'.valid /\ ~cache'.building
    BY <2>4
  <2>5. CASE ~cache'.valid /\ cache'.read = Published(items)
    BY <2>1, <2>2, <2>5 DEF Current
  <2>6. CASE /\ cache.building /\ ~cache'.building
             /\ cache'.sees = cache.read /\ cache'.late = cache.missed
    BY <2>1, <2>2, <2>6 DEF Current
  <2> QED BY <1>1, <1>4, <2>3, <2>4, <2>5, <2>6, CacheMoves
<1> QED BY <1>3, <1>4

\* A worker back at its select leaves no payload that misses a terminal batch: what
\* the cache holds then shows every success of every closed batch, unless it is late.
THEOREM QuietCacheHolds == Spec => []QuietCacheIsCurrent
<1>1. Init => Followed
  <2>1. Init => worker.pc = "scan" /\ mode = "up" /\ ~cache.valid /\ ~cache.building
    BY DEF Init, NoWork, NoCache
  <2>2. Init => DownIsOff /\ PayloadsFollow
    BY <2>1 DEF DownIsOff, PayloadsFollow
  <2> QED BY <2>2, KeptInit DEF Followed
<1>2. Followed => QuietCacheIsCurrent
  BY DEF Followed, PayloadsFollow, Current, QuietCacheIsCurrent
<1> QED BY <1>1, <1>2, FollowedStep, PTL DEF Spec
=============================================================================
