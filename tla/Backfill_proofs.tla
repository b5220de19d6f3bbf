--------------------------- MODULE Backfill_proofs ---------------------------
(***************************************************************************)
(* What holds of the backfill for every set of backfills and requests, any *)
(* number of volumes and of looks, and however often it fails or stops.    *)
(***************************************************************************)
EXTENDS Backfill, SequenceTheorems, TLAPS

\* An open batch has attempts left and has not gone past its end; a closed one says why.
Sound(row, m) ==
  /\ row.attempts <= m
  /\ row.status = "failed" => m >= MaxAttempts
  /\ row.status \in {"pending", "processing"} =>
       row.attempts < MaxAttempts /\ (row.to = 0 \/ row.next <= row.to)

\* The two fields by which the copy in hand and the row may differ.
SameRow(row, stored) ==
  /\ row.from = stored.from
  /\ row.next = stored.next
  /\ row.attempts = stored.attempts
  /\ row.success = stored.success
  /\ stored.to \in {0, row.to}

RowsAreSound == \A b \in Backfills : Exists(b) => Covered(control[b]) /\ Sound(control[b], misses[b])

\* The goroutine works on a copy of a row that stays as it is until it is written back.
WorkIsSound ==
  manager.pc \in {"fetch", "enqueue", "advance", "fail"} =>
    /\ manager.id \in Backfills
    /\ Open(manager.id)
    /\ control[manager.id].due
    /\ manager.row \in RowState
    /\ SameRow(manager.row, control[manager.id])
    /\ manager.row.to = 0 \/ manager.row.next <= manager.row.to
    /\ manager.pc \in {"enqueue", "advance"} =>
         /\ manager.look \in Looks
         /\ manager.row.to # 0
         /\ manager.row.to <= Len(volumes)
    /\ manager.pc = "advance" => <<manager.row.next, manager.look>> \in queue
    /\ manager.pc = "fail" => misses[manager.id] > manager.row.attempts

AdminsAreSound == \A a \in Admins : admin[a].pc # "idle" => admin[a].key \in Backfills

IInv ==
  /\ TypeOK
  /\ Len(volumes) <= MaxVolume
  /\ AdminsAreSound
  /\ RowsAreSound
  /\ WorkIsSound

(***************************************************************************)
(* The shapes of the rows: one field at a time, then what the handlers     *)
(* write.                                                                  *)
(***************************************************************************)
\* A row stays a row when one column moves inside its range.
LEMMA RowFields ==
  ASSUME NEW row \in RowState
  PROVE  /\ \A v \in {"pending", "processing", "success", "failed"} : [row EXCEPT !.status = v] \in RowState
         /\ \A v \in Nat : [row EXCEPT !.to = v] \in RowState
         /\ \A v \in Nat : [row EXCEPT !.next = v] \in RowState
         /\ \A v \in 0..MaxAttempts : [row EXCEPT !.attempts = v] \in RowState
         /\ \A v \in BOOLEAN : [row EXCEPT !.due = v] \in RowState
         /\ \A v \in Nat : [row EXCEPT !.success = v] \in RowState
         /\ \A v \in Nat : [row EXCEPT !.total = v] \in RowState
<1>1. \A v \in {"pending", "processing", "success", "failed"} : [row EXCEPT !.status = v] \in RowState
  BY DEF RowState
<1>2. \A v \in Nat : [row EXCEPT !.to = v] \in RowState
  BY DEF RowState
<1>3. \A v \in Nat : [row EXCEPT !.next = v] \in RowState
  BY DEF RowState
<1>4. \A v \in 0..MaxAttempts : [row EXCEPT !.attempts = v] \in RowState
  BY DEF RowState
<1>5. \A v \in BOOLEAN : [row EXCEPT !.due = v] \in RowState
  BY DEF RowState
<1>6. \A v \in Nat : [row EXCEPT !.success = v] \in RowState
  BY DEF RowState
<1>7. \A v \in Nat : [row EXCEPT !.total = v] \in RowState
  BY DEF RowState
<1> QED BY <1>1, <1>2, <1>3, <1>4, <1>5, <1>6, <1>7

\* What is known of a row's numbers.
LEMMA RowNumbers ==
  ASSUME NEW row \in RowState
  PROVE  /\ row.from \in Nat /\ row.from # 0
         /\ row.to \in Nat /\ row.next \in Nat /\ row.attempts \in Nat
         /\ row.success \in Nat /\ row.total \in Nat
  BY DEF RowState, MaxAttempts

\* The row of a new request.
LEMMA NewRowShape ==
  ASSUME NEW b \in Backfills
  PROVE  LET row == NewRow(Requests[b])
         IN  /\ row \in RowState
             /\ row.next = row.from /\ row.success = 0 /\ row.attempts = 0
             /\ row.status = "pending" /\ (row.to = 0 \/ row.next <= row.to)
<1>1. /\ Requests[b].from \in Nat \ {0} /\ Requests[b].to \in Nat
      /\ Requests[b].to = 0 \/ Requests[b].from <= Requests[b].to
  BY RequestsAssumption
<1> DEFINE total == IF Requests[b].to = 0 THEN 0 ELSE Size(Requests[b])
<1>2. total \in Nat
  BY <1>1 DEF Size
<1> HIDE DEF total
<1>3. NewRow(Requests[b]) = [status |-> "pending", from |-> Requests[b].from, to |-> Requests[b].to,
                             next |-> Requests[b].from, attempts |-> 0, due |-> TRUE, success |-> 0,
                             total |-> total]
  BY DEF NewRow, total
<1> QED BY <1>1, <1>2, <1>3 DEF RowState, MaxAttempts

\* The row after a volume that was queued.
LEMMA AdvancedRow ==
  ASSUME NEW row \in RowState, row.to # 0, row.next <= row.to, row.success = row.next - row.from
  PROVE  /\ Advanced(row) \in RowState
         /\ Advanced(row).from = row.from
         /\ Advanced(row).to = row.to
         /\ Advanced(row).next = row.next + 1
         /\ Advanced(row).attempts = 0
         /\ Advanced(row).success = row.success + 1
         /\ Advanced(row).total = row.to - row.from + 1
         /\ Advanced(row).status = IF row.next + 1 > row.to THEN "success" ELSE "processing"
<1> DEFINE ended == IF row.next + 1 > row.to THEN "success" ELSE "processing"
           r1 == [row EXCEPT !.next = row.next + 1]
           r2 == [r1 EXCEPT !.attempts = 0]
           r3 == [r2 EXCEPT !.due = TRUE]
           r4 == [r3 EXCEPT !.success = row.success + 1]
           r5 == [r4 EXCEPT !.total = Size(row)]
           r6 == [r5 EXCEPT !.status = ended]
<1>1. /\ row.next + 1 \in Nat /\ row.success + 1 \in Nat /\ Size(row) \in Nat
      /\ 0 \in 0..MaxAttempts /\ TRUE \in BOOLEAN
      /\ ended \in {"pending", "processing", "success", "failed"}
  BY RowNumbers DEF Size, MaxAttempts
<1>2. Advanced(row) = r6
  BY DEF Advanced, RowState
<1>3. r6 \in RowState
  <2> HIDE DEF ended
  <2>1. r1 \in RowState BY <1>1, RowFields
  <2> HIDE DEF r1
  <2>2. r2 \in RowState BY <1>1, <2>1, RowFields
  <2> HIDE DEF r2
  <2>3. r3 \in RowState BY <1>1, <2>2, RowFields
  <2> HIDE DEF r3
  <2>4. r4 \in RowState BY <1>1, <2>3, RowFields
  <2> HIDE DEF r4
  <2>5. r5 \in RowState BY <1>1, <2>4, RowFields
  <2> HIDE DEF r5
  <2> QED BY <1>1, <2>5, RowFields
<1>4. Advanced(row).from = row.from /\ Advanced(row).to = row.to
  BY DEF Advanced, RowState
<1>5. Advanced(row).next = row.next + 1 /\ Advanced(row).attempts = 0
  BY DEF Advanced, RowState
<1>6. Advanced(row).success = row.success + 1 /\ Advanced(row).total = Size(row)
  BY DEF Advanced, RowState
<1>7. Advanced(row).status = IF row.next + 1 > row.to THEN "success" ELSE "processing"
  BY DEF Advanced, RowState
<1> QED BY <1>2, <1>3, <1>4, <1>5, <1>6, <1>7 DEF Size

\* The row after a failure.
LEMMA FailedRow ==
  ASSUME NEW row \in RowState, row.attempts < MaxAttempts, row.to = 0 \/ row.next <= row.to,
         row.success = row.next - row.from
  PROVE  /\ Failed(row) \in RowState
         /\ Failed(row).from = row.from
         /\ Failed(row).to = row.to
         /\ Failed(row).next = row.next
         /\ Failed(row).attempts = row.attempts + 1
         /\ Failed(row).success = row.success
         /\ Failed(row).status = IF row.attempts + 1 >= MaxAttempts THEN "failed" ELSE "processing"
<1> DEFINE spent == row.attempts + 1 >= MaxAttempts
           ended == IF spent THEN "failed" ELSE "processing"
           size == IF row.to = 0 THEN row.total ELSE Size(row)
           r1 == [row EXCEPT !.attempts = row.attempts + 1]
           r2 == [r1 EXCEPT !.status = ended]
           r3 == [r2 EXCEPT !.due = spent]
           r4 == [r3 EXCEPT !.total = size]
<1>1. /\ row.attempts + 1 \in 0..MaxAttempts /\ size \in Nat /\ spent \in BOOLEAN
      /\ ended \in {"pending", "processing", "success", "failed"}
  BY RowNumbers DEF Size, MaxAttempts
<1>2. Failed(row) = r4
  BY DEF Failed, RowState
<1>3. r4 \in RowState
  <2> HIDE DEF ended, spent, size
  <2>1. r1 \in RowState BY <1>1, RowFields
  <2> HIDE DEF r1
  <2>2. r2 \in RowState BY <1>1, <2>1, RowFields
  <2> HIDE DEF r2
  <2>3. r3 \in RowState BY <1>1, <2>2, RowFields
  <2> HIDE DEF r3
  <2> QED BY <1>1, <2>3, RowFields
<1>4. Failed(row).from = row.from /\ Failed(row).to = row.to /\ Failed(row).next = row.next
  BY DEF Failed, RowState
<1>5. Failed(row).attempts = row.attempts + 1 /\ Failed(row).success = row.success
  BY DEF Failed, RowState
<1>6. Failed(row).status = IF row.attempts + 1 >= MaxAttempts THEN "failed" ELSE "processing"
  BY DEF Failed, RowState
<1> QED BY <1>2, <1>3, <1>4, <1>5, <1>6

\* A record that is stored is a row.
LEMMA StoredRow ==
  ASSUME TypeOK, NEW b \in Backfills
  PROVE  (Exists(b) => control[b] \in RowState) /\ (control[b] \in RowState => Exists(b))
  BY RowsAssumption DEF TypeOK, Exists

(***************************************************************************)
(* The frame: what the steps of the others leave as it was.                *)
(***************************************************************************)
\* Rows stay sound while queue, volumes and failures only grow.
LEMMA RowsKept ==
  ASSUME RowsAreSound, TypeOK, control' = control, queue \subseteq queue',
         Len(volumes) \in Nat, Len(volumes') \in Nat, Len(volumes) <= Len(volumes'),
         \A b \in Backfills : misses[b] \in Nat /\ misses'[b] \in Nat /\ misses[b] <= misses'[b]
  PROVE  RowsAreSound'
<1> SUFFICES ASSUME NEW b \in Backfills, Exists(b)
             PROVE  (Covered(control[b]) /\ Sound(control[b], misses[b]))'
  BY DEF RowsAreSound, Exists
<1>1. Covered(control[b]) /\ Sound(control[b], misses[b]) /\ control[b] \in RowState
  BY StoredRow DEF RowsAreSound
<1> DEFINE row == control[b]
<1>2. control'[b] = row
  OBVIOUS
<1> HIDE DEF row
<1>3. Covered(row) /\ Sound(row, misses[b]) /\ row \in RowState
  BY <1>1 DEF row
<1>4. Sound(row, misses'[b])
  BY <1>3, RowNumbers DEF Sound, MaxAttempts
<1>5. \A n \in row.from..(row.next - 1) : \E look \in Looks : <<n, look>> \in queue'
  BY <1>3 DEF Covered
<1>6. row.status = "success" => row.to <= Len(volumes')
  BY <1>3, RowNumbers DEF Covered
<1> QED BY <1>2, <1>3, <1>4, <1>5, <1>6 DEF Covered

\* The copy in hand stays what it is while nobody writes the row that is due.
LEMMA WorkKept ==
  ASSUME WorkIsSound, TypeOK, manager' = manager, queue \subseteq queue',
         Len(volumes) \in Nat, Len(volumes') \in Nat, Len(volumes) <= Len(volumes'),
         misses' = misses,
         \A b \in Backfills : Open(b) /\ control[b].due => control'[b] = control[b]
  PROVE  WorkIsSound'
<1> SUFFICES ASSUME manager.pc \in {"fetch", "enqueue", "advance", "fail"}
             PROVE  WorkIsSound'
  BY DEF WorkIsSound
<1>1. manager.id \in Backfills /\ manager.row \in RowState /\ control'[manager.id] = control[manager.id]
  BY DEF WorkIsSound
<1>2. manager.row.to \in Nat
  BY <1>1, RowNumbers
<1>3. Open(manager.id)'
  BY <1>1 DEF WorkIsSound, Open, Exists
<1> QED BY <1>1, <1>2, <1>3 DEF WorkIsSound, SameRow

\* The numbers of volumes.
LEMMA VolumeNumbers ==
  ASSUME TypeOK
  PROVE  Len(volumes) \in Nat /\ Len(volumes) > 0
  BY LenProperties, EmptySeq DEF TypeOK

LEMMA InitInv == ASSUME Init PROVE IInv
<1>1. volumes \in Seq(Looks) /\ Len(volumes) = 1 /\ volumes # <<>>
  <2>1. PICK f \in [1..1 -> Looks] : volumes = f
    <3>1. 1..1 = {1}
      OBVIOUS
    <3> QED BY <3>1 DEF Init
  <2>2. volumes = <<f[1]>> /\ f[1] \in Looks
    BY <2>1
  <2> QED BY <2>2
<1>2. Waiting \in [pc : {"wait", "scan", "fetch", "enqueue", "advance", "fail"},
                   id : Backfills \cup {NoBackfill}, row : RowState \cup {NoBackfill},
                   look : Looks \cup {NoBackfill}]
  BY DEF Waiting
<1>3. TypeOK
  <2>1. created \in Seq(Backfills) /\ revised \in 0..MaxEdits /\ troubles \in 0..MaxTroubles
    BY BoundsAssumption DEF Init
  <2>2. admin \in [Admins -> [pc : {"idle", "insert", "notify"}, key : Backfills \cup {NoBackfill}]]
    BY DEF Init, Quiet
  <2>3. misses \in [Backfills -> Nat] /\ control \in [Backfills -> RowState \cup {NoBackfill}]
    BY DEF Init
  <2> QED BY <1>1, <1>2, <2>1, <2>2, <2>3 DEF Init, TypeOK
<1>4. Len(volumes) <= MaxVolume
  BY <1>1, BoundsAssumption
<1>5. AdminsAreSound /\ RowsAreSound
  BY DEF Init, AdminsAreSound, RowsAreSound, Quiet, Exists
<1>6. WorkIsSound
  BY DEF Init, WorkIsSound, Waiting
<1> QED BY <1>3, <1>4, <1>5, <1>6 DEF IInv

ManagerState ==
  [pc : {"wait", "scan", "fetch", "enqueue", "advance", "fail"}, id : Backfills \cup {NoBackfill},
   row : RowState \cup {NoBackfill}, look : Looks \cup {NoBackfill}]

\* A goroutine that moves on with the same work keeps its type.
LEMMA ManagerMoves ==
  ASSUME TypeOK, NEW p \in {"wait", "scan", "fetch", "enqueue", "advance", "fail"}, GoTo(p)
  PROVE  manager' \in ManagerState /\ manager'.pc = p /\ manager'.id = manager.id /\ manager'.row = manager.row
  BY DEF GoTo, TypeOK, ManagerState

\* So does one that has nothing in hand.
LEMMA WaitingType == Waiting \in ManagerState /\ Waiting.pc = "wait"
  BY DEF Waiting, ManagerState

(***************************************************************************)
(* The steps of the requests.                                              *)
(***************************************************************************)
LEMMA LookupStep == ASSUME IInv, NEW a \in Admins, NEW b \in Backfills, Lookup(a, b) PROVE IInv'
<1> USE DEF Lookup, upstream, rows, process
<1>1. TypeOK'
  BY DEF IInv, TypeOK
<1>2. AdminsAreSound'
  BY DEF IInv, TypeOK, AdminsAreSound
<1>3. RowsAreSound' /\ WorkIsSound'
  BY RowsKept, WorkKept, VolumeNumbers DEF IInv, TypeOK
<1> QED BY <1>1, <1>2, <1>3 DEF IInv

LEMMA InsertStep == ASSUME IInv, NEW a \in Admins, Insert(a) PROVE IInv'
<1> USE DEF upstream, rows, process
<1> DEFINE b == admin[a].key
<1>1. b \in Backfills
  BY DEF IInv, AdminsAreSound, Insert
<1>2. CASE Exists(b)
  <2>1. control' = control /\ admin' = [admin EXCEPT ![a] = Quiet]
    BY <1>2 DEF Insert
  <2>2. TypeOK' /\ AdminsAreSound'
    BY <1>2, <2>1 DEF Insert, IInv, TypeOK, Quiet, AdminsAreSound
  <2>3. RowsAreSound' /\ WorkIsSound'
    BY <1>2, <2>1, RowsKept, WorkKept, VolumeNumbers DEF IInv, TypeOK, Insert
  <2> QED BY <1>2, <2>2, <2>3 DEF IInv, Insert
<1>3. CASE ~Exists(b)
  <2> DEFINE row == NewRow(Requests[b])
  <2>1. /\ control' = [control EXCEPT ![b] = row]
        /\ created' = Append(created, b)
        /\ admin' = [admin EXCEPT ![a].pc = "notify"]
        /\ UNCHANGED <<upstream, queue, manager, wake, misses, process>>
    BY <1>3 DEF Insert
  <2>2. /\ row \in RowState
        /\ row.next = row.from /\ row.success = 0 /\ row.attempts = 0
        /\ row.status = "pending" /\ (row.to = 0 \/ row.next <= row.to)
    BY <1>1, NewRowShape
  <2> HIDE DEF row, b
  <2>3. TypeOK' /\ AdminsAreSound'
    <3>1. created' \in Seq(Backfills)
      BY <1>1, <2>1, AppendProperties DEF IInv, TypeOK
    <3>2. control' \in [Backfills -> RowState \cup {NoBackfill}]
      BY <1>1, <2>1, <2>2 DEF IInv, TypeOK
    <3>3. admin' \in [Admins -> [pc : {"idle", "insert", "notify"}, key : Backfills \cup {NoBackfill}]]
      BY <2>1 DEF IInv, TypeOK
    <3>4. AdminsAreSound'
      BY <1>1, <2>1 DEF IInv, TypeOK, AdminsAreSound, b
    <3> QED BY <2>1, <3>1, <3>2, <3>3, <3>4 DEF IInv, TypeOK
  <2>4. WorkIsSound'
    <3>1. \A c \in Backfills : Open(c) /\ control[c].due => control'[c] = control[c]
      BY <1>3, <2>1 DEF IInv, TypeOK, Open
    <3> QED BY <2>1, <3>1, WorkKept, VolumeNumbers DEF IInv
  <2>5. RowsAreSound'
    <3> SUFFICES ASSUME NEW c \in Backfills, Exists(c)'
                 PROVE  (Covered(control[c]) /\ Sound(control[c], misses[c]))'
      BY DEF RowsAreSound
    <3>1. CASE c # b
      <4>1. control'[c] = control[c] /\ Exists(c)
        BY <1>1, <2>1, <3>1 DEF IInv, TypeOK, Exists
      <4> QED BY <2>1, <4>1 DEF IInv, RowsAreSound, Covered, Sound
    <3>2. CASE c = b
      <4>1. control'[c] = row
        BY <1>1, <2>1, <3>2 DEF IInv, TypeOK
      <4>2. misses'[c] \in Nat
        BY <2>1 DEF IInv, TypeOK
      <4> QED BY <2>1, <2>2, <4>1, <4>2, RowNumbers DEF Covered, Sound, MaxAttempts
    <3> QED BY <3>1, <3>2
  <2> QED BY <2>1, <2>3, <2>4, <2>5 DEF IInv
<1> QED BY <1>2, <1>3

LEMMA NotifyStep == ASSUME IInv, NEW a \in Admins, Notify(a) PROVE IInv'
<1> USE DEF Notify, upstream, rows, process
<1>1. TypeOK'
  BY DEF IInv, TypeOK, Quiet
<1>2. AdminsAreSound'
  BY DEF IInv, TypeOK, AdminsAreSound, Quiet
<1>3. RowsAreSound' /\ WorkIsSound'
  BY RowsKept, WorkKept, VolumeNumbers DEF IInv, TypeOK
<1> QED BY <1>1, <1>2, <1>3 DEF IInv

(***************************************************************************)
(* The steps of the goroutine.                                             *)
(***************************************************************************)
\* A step that only lets the work go, or takes none up.
LEMMA LetGo ==
  ASSUME IInv, UNCHANGED <<upstream, rows, queue, admin, misses>>, manager' \in ManagerState,
         manager'.pc \in {"wait", "scan"}, wake' \in BOOLEAN, closing' \in BOOLEAN, up' \in BOOLEAN,
         troubles' \in 0..MaxTroubles
  PROVE  IInv'
<1> USE DEF upstream, rows
<1>1. TypeOK'
  BY DEF IInv, TypeOK, ManagerState
<1>2. AdminsAreSound'
  BY DEF IInv, AdminsAreSound
<1>3. RowsAreSound'
  BY RowsKept, VolumeNumbers DEF IInv, TypeOK
<1>4. WorkIsSound'
  BY DEF WorkIsSound
<1> QED BY <1>1, <1>2, <1>3, <1>4 DEF IInv

LEMMA WakeStep == ASSUME IInv, Woken \/ Ticker \/ NothingDue PROVE IInv'
<1>1. manager' \in ManagerState /\ manager'.pc \in {"wait", "scan"}
  <2>1. CASE Woken \/ Ticker
    BY <2>1, ManagerMoves DEF Woken, Ticker, IInv
  <2>2. CASE NothingDue
    BY <2>2, WaitingType DEF NothingDue
  <2> QED BY <2>1, <2>2
<1> QED BY <1>1, LetGo DEF Woken, Ticker, NothingDue, IInv, TypeOK, process

LEMMA ClaimStep == ASSUME IInv, Claim PROVE IInv'
<1> USE DEF upstream, rows, process
<1>1. PICK b \in Backfills :
        /\ Due(b)
        /\ control' = [control EXCEPT ![b].status = "processing"]
        /\ manager' = [pc |-> "fetch", id |-> b, row |-> control'[b], look |-> NoBackfill]
  <2>1. PICK i \in DOMAIN created :
          /\ Due(created[i])
          /\ control' = [control EXCEPT ![created[i]].status = "processing"]
          /\ manager' = [pc |-> "fetch", id |-> created[i], row |-> control'[created[i]],
                         look |-> NoBackfill]
    BY DEF Claim
  <2>2. created[i] \in Backfills
    BY ElementOfSeq DEF IInv, TypeOK
  <2> QED BY <2>1, <2>2
<1>2. Open(b) /\ control[b].due /\ control[b] \in RowState
  BY <1>1, StoredRow DEF IInv, Due, Open
<1>3. /\ control' = [control EXCEPT ![b] = [control[b] EXCEPT !.status = "processing"]]
      /\ manager' = [pc |-> "fetch", id |-> b, row |-> control'[b], look |-> NoBackfill]
      /\ UNCHANGED <<volumes, revised, created, queue, admin, wake, misses, up, closing, troubles>>
  BY <1>1 DEF Claim
<1>4. control'[b] = [control[b] EXCEPT !.status = "processing"] /\ control'[b] \in RowState
  BY <1>2, <1>3, RowFields DEF IInv, TypeOK
<1>5. /\ control'[b].from = control[b].from /\ control'[b].to = control[b].to
      /\ control'[b].next = control[b].next /\ control'[b].attempts = control[b].attempts
      /\ control'[b].success = control[b].success /\ control'[b].due = control[b].due
      /\ control'[b].status = "processing"
  BY <1>2, <1>4 DEF RowState
<1>6. TypeOK'
  <2>1. control' \in [Backfills -> RowState \cup {NoBackfill}]
    BY <1>2, <1>3, <1>4 DEF IInv, TypeOK
  <2>2. manager' \in ManagerState
    BY <1>2, <1>3, <1>4 DEF ManagerState
  <2> QED BY <1>3, <2>1, <2>2 DEF IInv, TypeOK, ManagerState
<1>7. AdminsAreSound'
  BY <1>3 DEF IInv, AdminsAreSound
<1>8. Covered(control[b]) /\ Sound(control[b], misses[b]) /\ control[b].status \in {"pending", "processing"}
  BY <1>2 DEF IInv, RowsAreSound, Open
<1>9. RowsAreSound'
  <2> SUFFICES ASSUME NEW c \in Backfills, Exists(c)'
               PROVE  (Covered(control[c]) /\ Sound(control[c], misses[c]))'
    BY DEF RowsAreSound
  <2>1. CASE c # b
    <3>1. control'[c] = control[c] /\ Exists(c)
      BY <1>2, <1>3, <2>1 DEF IInv, TypeOK, Exists
    <3> QED BY <1>3, <3>1 DEF IInv, RowsAreSound, Covered, Sound
  <2>2. CASE c = b
    BY <1>3, <1>5, <1>8, <2>2 DEF Covered, Sound
  <2> QED BY <2>1, <2>2
<1>10. WorkIsSound'
  <2>1. Open(b)'
    BY <1>4, <1>5, RowsAssumption DEF Open, Exists
  <2>2. SameRow(control'[b], control'[b])
    BY DEF SameRow
  <2>3. /\ manager'.pc = "fetch" /\ manager'.id = b /\ manager'.row = control'[b]
    BY <1>3
  <2>4. control'[b].to = 0 \/ control'[b].next <= control'[b].to
    BY <1>5, <1>8 DEF Sound
  <2> QED BY <1>2, <1>4, <1>5, <2>1, <2>2, <2>3, <2>4 DEF WorkIsSound
<1> QED BY <1>3, <1>6, <1>7, <1>9, <1>10 DEF IInv

\* What is in hand, as numbers.
LEMMA InHand ==
  ASSUME IInv, manager.pc \in {"fetch", "enqueue", "advance", "fail"}
  PROVE  /\ manager.id \in Backfills /\ manager.row \in RowState /\ control[manager.id] \in RowState
         /\ Open(manager.id) /\ control[manager.id].due
         /\ SameRow(manager.row, control[manager.id])
         /\ manager.row.success = manager.row.next - manager.row.from
         /\ manager.row.next > 0 /\ manager.row.next \in Nat
         /\ manager.row.attempts < MaxAttempts /\ manager.row.attempts \in Nat
         /\ manager.row.attempts <= misses[manager.id] /\ misses[manager.id] \in Nat
         /\ manager.row.to = 0 \/ manager.row.next <= manager.row.to
<1> DEFINE stored == control[manager.id]
<1>1. /\ manager.id \in Backfills /\ manager.row \in RowState /\ Open(manager.id) /\ stored.due
      /\ SameRow(manager.row, stored)
      /\ manager.row.to = 0 \/ manager.row.next <= manager.row.to
  BY DEF IInv, WorkIsSound
<1>2. stored \in RowState /\ stored.status \in {"pending", "processing"} /\ Exists(manager.id)
  BY <1>1, StoredRow DEF IInv, Open
<1>3. Covered(stored) /\ Sound(stored, misses[manager.id])
  BY <1>1, <1>2 DEF IInv, RowsAreSound
<1>4. misses[manager.id] \in Nat
  BY <1>1 DEF IInv, TypeOK
<1> HIDE DEF stored
<1>5. /\ manager.row.success = manager.row.next - manager.row.from
      /\ manager.row.attempts < MaxAttempts /\ manager.row.attempts <= misses[manager.id]
  BY <1>1, <1>2, <1>3 DEF Covered, Sound, SameRow
<1>6. manager.row.next > 0 /\ manager.row.next \in Nat /\ manager.row.attempts \in Nat
  BY <1>1, <1>5, RowNumbers
<1> QED BY <1>1, <1>2, <1>4, <1>5, <1>6 DEF stored

\* A failure of the volume: it is counted, and the work goes to the failure's record.
LEMMA Missed ==
  ASSUME IInv, manager.pc \in {"fetch", "enqueue", "advance", "fail"},
         UNCHANGED <<upstream, rows, queue, admin, wake, up, closing>>, troubles' \in 0..MaxTroubles,
         manager' \in ManagerState, manager'.pc = "fail", manager'.id = manager.id,
         manager'.row \in RowState, SameRow(manager'.row, control[manager.id]),
         manager'.row.to = 0 \/ manager'.row.next <= manager'.row.to,
         misses' = [misses EXCEPT ![manager.id] = @ + 1]
  PROVE  IInv'
<1> USE DEF upstream, rows
<1>1. /\ manager.id \in Backfills /\ misses[manager.id] \in Nat /\ Open(manager.id)
      /\ control[manager.id].due
  BY InHand
<1>2. /\ misses' \in [Backfills -> Nat] /\ misses'[manager.id] = misses[manager.id] + 1
      /\ \A b \in Backfills : misses[b] \in Nat /\ misses'[b] \in Nat /\ misses[b] <= misses'[b]
  BY <1>1 DEF IInv, TypeOK
<1>3. TypeOK'
  BY <1>2 DEF IInv, TypeOK, ManagerState
<1>4. AdminsAreSound'
  BY DEF IInv, AdminsAreSound
<1>5. RowsAreSound'
  BY <1>2, RowsKept, VolumeNumbers DEF IInv
<1>6. WorkIsSound'
  <2>1. Open(manager.id)'
    BY <1>1 DEF Open, Exists
  <2>2. manager'.row.attempts = control[manager.id].attempts /\ manager.row.attempts = manager'.row.attempts
    BY InHand DEF SameRow
  <2>3. misses'[manager.id] > manager'.row.attempts
    BY <1>1, <1>2, <2>2, InHand
  <2> QED BY <1>1, <2>1, <2>3 DEF WorkIsSound
<1> QED BY <1>3, <1>4, <1>5, <1>6 DEF IInv

LEMMA FetchFailsStep == ASSUME IInv, FetchFails PROVE IInv'
<1>1. manager' \in ManagerState /\ manager'.pc = "fail" /\ manager'.id = manager.id /\ manager'.row = manager.row
  BY ManagerMoves DEF FetchFails, IInv
<1>2. manager.pc = "fetch"
  BY DEF FetchFails
<1> QED BY <1>1, <1>2, InHand, Missed DEF FetchFails, process, IInv, TypeOK

LEMMA FetchStep == ASSUME IInv, Fetch PROVE IInv'
<1> USE DEF upstream, rows, process
<1> DEFINE row == manager.row
           newest == Len(volumes)
           to == IF row.to = 0 THEN newest ELSE row.to
           new == [row EXCEPT !.to = to]
           b == manager.id
<1>1. /\ manager.pc = "fetch" /\ row.next <= newest
      /\ manager' = [manager EXCEPT !.row.to = to, !.look = volumes[row.next],
                                    !.pc = IF to > newest THEN "fail" ELSE "enqueue"]
      /\ misses' = IF to > newest THEN [misses EXCEPT ![b] = @ + 1] ELSE misses
      /\ UNCHANGED <<upstream, rows, queue, admin, wake, process>>
  BY DEF Fetch
<1>2. newest \in Nat /\ newest > 0 /\ newest <= MaxVolume
  BY VolumeNumbers DEF IInv
<1>3. /\ b \in Backfills /\ row \in RowState /\ SameRow(row, control[b])
      /\ row.next \in Nat /\ row.next > 0 /\ row.to \in Nat
      /\ row.to = 0 \/ row.next <= row.to
  BY <1>1, InHand, RowNumbers
<1>4. to \in Nat /\ to > 0 /\ row.next <= to /\ (row.to = 0 \/ row.to = to)
  BY <1>1, <1>2, <1>3
<1> HIDE DEF to
<1>5. new \in RowState
  BY <1>3, <1>4, RowFields
<1>6. /\ new.to = to /\ new.from = row.from /\ new.next = row.next /\ new.attempts = row.attempts
      /\ new.success = row.success
  BY <1>3 DEF RowState
<1>7. volumes[row.next] \in Looks
  <2>1. row.next \in 1..Len(volumes)
    BY <1>1, <1>2, <1>3
  <2> QED BY <2>1, ElementOfSeq DEF IInv, TypeOK
<1>8. SameRow(new, control[b])
  BY <1>3, <1>4, <1>6 DEF SameRow
<1>9. /\ manager'.pc = (IF to > newest THEN "fail" ELSE "enqueue")
      /\ manager'.id = b /\ manager'.look = volumes[row.next]
  BY <1>1 DEF IInv, TypeOK
<1>10. manager'.row = new
  BY <1>1 DEF IInv, TypeOK
<1> HIDE DEF new, row, newest
<1>11. manager' \in ManagerState
  <2>1. manager \in ManagerState
    BY DEF IInv, TypeOK, ManagerState
  <2>2. manager' = [pc |-> manager'.pc, id |-> manager'.id, row |-> manager'.row, look |-> manager'.look]
    BY <1>1, <2>1 DEF ManagerState
  <2> QED BY <1>3, <1>5, <1>7, <1>9, <1>10, <2>2 DEF ManagerState
<1>12. CASE to > newest
  <2>1. manager'.pc = "fail" /\ misses' = [misses EXCEPT ![manager.id] = @ + 1]
    BY <1>1, <1>9, <1>12
  <2>2. manager'.row.to = 0 \/ manager'.row.next <= manager'.row.to
    BY <1>4, <1>6, <1>10
  <2>3. manager'.row \in RowState /\ SameRow(manager'.row, control[manager.id]) /\ troubles' \in 0..MaxTroubles
    BY <1>1, <1>5, <1>8, <1>10 DEF IInv, TypeOK
  <2> QED BY <1>1, <1>9, <1>11, <2>1, <2>2, <2>3, Missed
<1>13. CASE ~(to > newest)
  <2>1. manager'.pc = "enqueue" /\ misses' = misses
    BY <1>1, <1>9, <1>13
  <2>2. TypeOK'
    BY <1>1, <1>11, <2>1 DEF IInv, TypeOK, ManagerState
  <2>3. AdminsAreSound'
    BY <1>1 DEF IInv, AdminsAreSound
  <2>4. RowsAreSound'
    BY <1>1, <2>1, RowsKept, VolumeNumbers DEF IInv, TypeOK
  <2>5. WorkIsSound'
    <3>1. b \in Backfills /\ Open(b)' /\ control[b].due
      BY <1>1, InHand DEF Open, Exists
    <3>2. to <= Len(volumes) /\ manager'.row.to # 0
      BY <1>2, <1>4, <1>6, <1>10, <1>13 DEF newest
    <3> QED BY <1>1, <1>4, <1>5, <1>6, <1>7, <1>8, <1>9, <1>10, <2>1, <3>1, <3>2 DEF WorkIsSound
  <2> QED BY <1>1, <2>2, <2>3, <2>4, <2>5 DEF IInv
<1> QED BY <1>12, <1>13

LEMMA EnqueueStep == ASSUME IInv, Enqueue PROVE IInv'
<1> USE DEF upstream, rows, process
<1>1. /\ manager.pc = "enqueue" /\ manager.look \in Looks /\ manager.row.to <= Len(volumes)
      /\ manager.row.to # 0
  BY DEF Enqueue, IInv, WorkIsSound
<1>2. CASE manager.look \in Refused
  <2>1. /\ manager' \in ManagerState /\ manager'.pc = "fail" /\ manager'.id = manager.id
        /\ manager'.row = manager.row
    BY <1>2, ManagerMoves DEF Enqueue, IInv
  <2> QED BY <1>1, <1>2, <2>1, InHand, Missed DEF Enqueue, IInv, TypeOK
<1>3. CASE manager.look \notin Refused
  <2>1. /\ manager' \in ManagerState /\ manager'.pc = "advance" /\ manager'.id = manager.id
        /\ manager'.row = manager.row /\ manager'.look = manager.look
        /\ queue' = queue \cup {<<manager.row.next, manager.look>>}
        /\ UNCHANGED <<upstream, rows, admin, wake, misses, process>>
    BY <1>3, ManagerMoves DEF Enqueue, IInv, GoTo, TypeOK
  <2>2. manager.row.next \in 1..MaxVolume
    BY <1>1, InHand, RowNumbers, VolumeNumbers, BoundsAssumption DEF IInv
  <2>3. queue' \subseteq (1..MaxVolume) \X Looks
    BY <1>1, <2>1, <2>2 DEF IInv, TypeOK
  <2>4. TypeOK'
    BY <2>1, <2>3 DEF IInv, TypeOK, ManagerState
  <2>5. AdminsAreSound'
    BY <2>1 DEF IInv, AdminsAreSound
  <2>6. RowsAreSound'
    BY <2>1, RowsKept, VolumeNumbers DEF IInv, TypeOK
  <2>7. WorkIsSound'
    BY <1>1, <2>1 DEF IInv, WorkIsSound, Open, Exists, SameRow
  <2> QED BY <2>1, <2>4, <2>5, <2>6, <2>7 DEF IInv
<1> QED BY <1>2, <1>3

\* The write of a sound row ends the work on it.
LEMMA WrittenBack ==
  ASSUME IInv, manager.pc \in {"fetch", "enqueue", "advance", "fail"}, GoTo("scan"),
         NEW row \in RowState, control' = [control EXCEPT ![manager.id] = row],
         UNCHANGED <<upstream, created, queue, admin, wake, process>>,
         misses' \in [Backfills -> Nat],
         \A b \in Backfills : b # manager.id => misses'[b] = misses[b],
         Covered(row), Sound(row, misses'[manager.id])
  PROVE  IInv'
<1> USE DEF upstream, process
<1>1. manager.id \in Backfills
  BY InHand
<1>2. manager' \in ManagerState /\ manager'.pc = "scan"
  BY ManagerMoves DEF IInv
<1>3. control' \in [Backfills -> RowState \cup {NoBackfill}]
  BY <1>1 DEF IInv, TypeOK
<1>4. TypeOK'
  BY <1>2, <1>3 DEF IInv, TypeOK, ManagerState
<1>5. AdminsAreSound'
  BY DEF IInv, AdminsAreSound
<1>6. WorkIsSound'
  BY <1>2 DEF WorkIsSound
<1>7. RowsAreSound'
  <2> SUFFICES ASSUME NEW b \in Backfills, Exists(b)'
               PROVE  (Covered(control[b]) /\ Sound(control[b], misses[b]))'
    BY DEF RowsAreSound
  <2>1. CASE b # manager.id
    <3>1. control'[b] = control[b] /\ Exists(b) /\ misses'[b] = misses[b]
      BY <1>1, <2>1 DEF IInv, TypeOK, Exists
    <3> QED BY <3>1 DEF IInv, RowsAreSound, Covered, Sound
  <2>2. CASE b = manager.id
    <3>1. control'[b] = row
      BY <1>1, <2>2 DEF IInv, TypeOK
    <3> QED BY <2>2, <3>1 DEF Covered, Sound
  <2> QED BY <2>1, <2>2
<1> QED BY <1>4, <1>5, <1>6, <1>7 DEF IInv

LEMMA AdvanceStep == ASSUME IInv, Advance PROVE IInv'
<1> DEFINE row == manager.row
           stored == control[manager.id]
           new == Advanced(row)
<1>1. /\ manager.pc = "advance" /\ manager.look \in Looks /\ row.to # 0 /\ row.to <= Len(volumes)
      /\ <<row.next, manager.look>> \in queue
  BY DEF Advance, IInv, WorkIsSound
<1>2. /\ manager.id \in Backfills /\ row \in RowState /\ SameRow(row, stored) /\ stored \in RowState
      /\ row.success = row.next - row.from /\ row.next <= row.to
      /\ misses[manager.id] \in Nat /\ Exists(manager.id)
  BY <1>1, InHand DEF Open
<1>3. Covered(stored)
  BY <1>2 DEF IInv, RowsAreSound
<1> HIDE DEF row, stored
<1>4. /\ new \in RowState /\ new.from = row.from /\ new.to = row.to /\ new.next = row.next + 1
      /\ new.attempts = 0 /\ new.success = row.success + 1 /\ new.total = row.to - row.from + 1
      /\ new.status = IF row.next + 1 > row.to THEN "success" ELSE "processing"
  BY <1>1, <1>2, AdvancedRow
<1> HIDE DEF new
<1>5. /\ row.from \in Nat /\ row.to \in Nat /\ row.next \in Nat /\ row.success \in Nat
  BY <1>2, RowNumbers
<1>6. Covered(new)
  <2>1. ASSUME NEW n \in new.from..(new.next - 1)
        PROVE  \E look \in Looks : <<n, look>> \in queue
    <3>1. n \in row.from..row.next
      BY <1>4, <1>5, <2>1
    <3>2. CASE n = row.next
      BY <1>1, <3>2
    <3>3. CASE n # row.next
      <4>1. n \in stored.from..(stored.next - 1)
        BY <1>2, <1>5, <3>1, <3>3 DEF SameRow
      <4> QED BY <1>3, <4>1 DEF Covered
    <3> QED BY <3>2, <3>3
  <2>2. new.success = new.next - new.from
    BY <1>2, <1>4, <1>5
  <2>3. new.status = "success" =>
          new.next = new.to + 1 /\ new.total = new.success /\ new.to <= Len(volumes)
    BY <1>1, <1>2, <1>4, <1>5
  <2> QED BY <2>1, <2>2, <2>3 DEF Covered
<1>7. /\ misses' = [misses EXCEPT ![manager.id] = 0] /\ misses' \in [Backfills -> Nat]
      /\ misses'[manager.id] = 0 /\ \A b \in Backfills : b # manager.id => misses'[b] = misses[b]
  BY <1>2 DEF Advance, IInv, TypeOK
<1>8. Sound(new, misses'[manager.id])
  BY <1>4, <1>5, <1>7 DEF Sound, MaxAttempts
<1>9. /\ GoTo("scan") /\ control' = [control EXCEPT ![manager.id] = new]
      /\ UNCHANGED <<upstream, created, queue, admin, wake, process>>
  BY DEF Advance, new, row
<1> QED BY <1>1, <1>4, <1>6, <1>7, <1>8, <1>9, WrittenBack

LEMMA RecordFailureStep == ASSUME IInv, RecordFailure PROVE IInv'
<1> DEFINE row == manager.row
           stored == control[manager.id]
           new == Failed(row)
<1>1. manager.pc = "fail" /\ misses[manager.id] > row.attempts
  BY DEF RecordFailure, IInv, WorkIsSound
<1>2. /\ manager.id \in Backfills /\ row \in RowState /\ SameRow(row, stored) /\ stored \in RowState
      /\ row.success = row.next - row.from /\ (row.to = 0 \/ row.next <= row.to)
      /\ row.attempts < MaxAttempts /\ misses[manager.id] \in Nat /\ Exists(manager.id)
  BY <1>1, InHand DEF Open
<1>3. Covered(stored)
  BY <1>2 DEF IInv, RowsAreSound
<1> HIDE DEF row, stored
<1>4. /\ new \in RowState /\ new.from = row.from /\ new.to = row.to /\ new.next = row.next
      /\ new.attempts = row.attempts + 1 /\ new.success = row.success
      /\ new.status = IF row.attempts + 1 >= MaxAttempts THEN "failed" ELSE "processing"
  BY <1>2, FailedRow
<1> HIDE DEF new
<1>5. row.from \in Nat /\ row.next \in Nat /\ row.success \in Nat /\ row.attempts \in Nat
  BY <1>2, RowNumbers
<1>6. Covered(new)
  <2>1. new.from = stored.from /\ new.next = stored.next /\ new.status # "success"
    BY <1>2, <1>4 DEF SameRow
  <2>2. new.success = new.next - new.from
    BY <1>2, <1>4
  <2> QED BY <1>3, <2>1, <2>2 DEF Covered
<1>7. Sound(new, misses[manager.id])
  BY <1>1, <1>2, <1>4, <1>5 DEF Sound, MaxAttempts
<1>8. /\ GoTo("scan") /\ control' = [control EXCEPT ![manager.id] = new] /\ misses' = misses
      /\ UNCHANGED <<upstream, created, queue, admin, wake, process>>
  BY DEF RecordFailure, new, row
<1>9. misses' \in [Backfills -> Nat]
  BY <1>8 DEF IInv, TypeOK
<1> QED BY <1>1, <1>4, <1>6, <1>7, <1>8, <1>9, WrittenBack

LEMMA StatementFailsStep == ASSUME IInv, StatementFails PROVE IInv'
<1>1. troubles' \in 0..MaxTroubles
  BY BoundsAssumption DEF StatementFails, IInv, TypeOK
<1>2. CASE manager.pc = "enqueue"
  <2>1. /\ manager' \in ManagerState /\ manager'.pc = "fail" /\ manager'.id = manager.id
        /\ manager'.row = manager.row
    BY <1>2, ManagerMoves DEF StatementFails, IInv
  <2> QED BY <1>1, <1>2, <2>1, InHand, Missed DEF StatementFails
<1>3. CASE manager.pc # "enqueue"
  BY <1>1, <1>3, WaitingType, LetGo DEF StatementFails, IInv, TypeOK
<1> QED BY <1>2, <1>3

(***************************************************************************)
(* Time, the process and HelloGitHub.                                      *)
(***************************************************************************)
LEMMA BecomesDueStep == ASSUME IInv, NEW b \in Backfills, BecomesDue(b) PROVE IInv'
<1> USE DEF upstream, process
<1> DEFINE new == [control[b] EXCEPT !.due = TRUE]
<1>1. /\ Open(b) /\ ~control[b].due /\ control' = [control EXCEPT ![b] = new]
      /\ UNCHANGED <<upstream, created, queue, admin, manager, wake, misses, process>>
  BY DEF BecomesDue
<1>2. control[b] \in RowState /\ Exists(b)
  BY <1>1, StoredRow DEF IInv, Open
<1>3. /\ new \in RowState /\ new.from = control[b].from /\ new.next = control[b].next
      /\ new.to = control[b].to /\ new.attempts = control[b].attempts /\ new.success = control[b].success
      /\ new.total = control[b].total /\ new.status = control[b].status
  <2>1. TRUE \in BOOLEAN
    OBVIOUS
  <2>2. new \in RowState
    BY <1>2, <2>1, RowFields
  <2> QED BY <1>2, <2>2 DEF RowState
<1> HIDE DEF new
<1>4. control' \in [Backfills -> RowState \cup {NoBackfill}] /\ control'[b] = new
  BY <1>1, <1>3 DEF IInv, TypeOK
<1>5. TypeOK' /\ AdminsAreSound'
  BY <1>1, <1>4 DEF IInv, TypeOK, AdminsAreSound
<1>6. RowsAreSound'
  <2> SUFFICES ASSUME NEW c \in Backfills, Exists(c)'
               PROVE  (Covered(control[c]) /\ Sound(control[c], misses[c]))'
    BY DEF RowsAreSound
  <2>1. CASE c # b
    <3>1. control'[c] = control[c] /\ Exists(c)
      BY <1>1, <2>1 DEF IInv, TypeOK, Exists
    <3> QED BY <1>1, <3>1 DEF IInv, RowsAreSound, Covered, Sound
  <2>2. CASE c = b
    <3>1. Covered(control[b]) /\ Sound(control[b], misses[b])
      BY <1>2 DEF IInv, RowsAreSound
    <3> QED BY <1>1, <1>3, <1>4, <2>2, <3>1 DEF Covered, Sound
  <2> QED BY <2>1, <2>2
<1>7. WorkIsSound'
  <2>1. \A c \in Backfills : Open(c) /\ control[c].due => control'[c] = control[c]
    BY <1>1 DEF IInv, TypeOK
  <2> QED BY <1>1, <2>1, WorkKept, VolumeNumbers DEF IInv
<1> QED BY <1>1, <1>5, <1>6, <1>7 DEF IInv

LEMMA ProcessStep == ASSUME IInv, Start \/ BeginClose PROVE IInv'
<1> USE DEF Start, BeginClose, upstream, rows, process
<1>1. TypeOK'
  <2>1. troubles' \in 0..MaxTroubles
    BY BoundsAssumption DEF IInv, TypeOK
  <2> QED BY <2>1 DEF IInv, TypeOK
<1>2. AdminsAreSound'
  BY DEF IInv, AdminsAreSound
<1>3. RowsAreSound' /\ WorkIsSound'
  BY RowsKept, WorkKept, VolumeNumbers DEF IInv, TypeOK
<1> QED BY <1>1, <1>2, <1>3 DEF IInv

LEMMA StopStep == ASSUME IInv, Stop PROVE IInv'
<1> USE DEF Stop, upstream, rows
<1>1. troubles' \in 0..MaxTroubles
  BY BoundsAssumption DEF IInv, TypeOK
<1>2. admin' \in [Admins -> [pc : {"idle", "insert", "notify"}, key : Backfills \cup {NoBackfill}]]
  BY DEF Quiet
<1>3. manager' \in ManagerState /\ manager'.pc = "wait"
  BY WaitingType
<1>4. TypeOK'
  BY <1>1, <1>2, <1>3 DEF IInv, TypeOK, ManagerState
<1>5. AdminsAreSound'
  BY DEF AdminsAreSound, Quiet
<1>6. RowsAreSound'
  BY RowsKept, VolumeNumbers DEF IInv, TypeOK
<1>7. WorkIsSound'
  BY <1>3 DEF WorkIsSound
<1> QED BY <1>4, <1>5, <1>6, <1>7 DEF IInv

\* The volumes change, and there are not fewer of them.
LEMMA UpstreamStep ==
  ASSUME IInv, Publish \/ \E n \in DOMAIN volumes : Revise(n)
  PROVE  IInv'
<1> USE DEF rows, process
<1>1. UNCHANGED <<rows, queue, admin, manager, wake, misses, process>>
  BY DEF Publish, Revise
<1>2. volumes \in Seq(Looks) /\ Len(volumes) \in Nat
  BY VolumeNumbers DEF IInv, TypeOK
<1>3. /\ volumes' \in Seq(Looks) \ {<<>>} /\ Len(volumes) <= Len(volumes') /\ Len(volumes') \in Nat
      /\ Len(volumes') <= MaxVolume /\ revised' \in 0..MaxEdits
  <2>1. CASE Publish
    <3>1. PICK look \in Looks : volumes' = Append(volumes, look)
      BY <2>1 DEF Publish
    <3>2. volumes' \in Seq(Looks) /\ volumes' # <<>> /\ Len(volumes') = Len(volumes) + 1
      BY <1>2, <3>1, AppendProperties
    <3> QED BY <1>2, <2>1, <3>2, BoundsAssumption DEF Publish, IInv, TypeOK
  <2>2. CASE \E n \in DOMAIN volumes : Revise(n)
    <3>1. PICK n \in DOMAIN volumes : Revise(n)
      BY <2>2
    <3>2. PICK look \in Looks : volumes' = [volumes EXCEPT ![n] = look]
      BY <3>1 DEF Revise
    <3>3. n \in 1..Len(volumes)
      BY <1>2, LenProperties
    <3>4. volumes' \in Seq(Looks) /\ Len(volumes') = Len(volumes)
      BY <1>2, <3>2, <3>3, ExceptSeq
    <3>5. volumes' # <<>>
      BY <3>4, EmptySeq, VolumeNumbers DEF IInv
    <3>6. revised' \in 0..MaxEdits
      BY <3>1, BoundsAssumption DEF Revise, IInv, TypeOK
    <3> QED BY <1>2, <3>4, <3>5, <3>6 DEF IInv
  <2> QED BY <2>1, <2>2
<1>4. TypeOK' /\ AdminsAreSound'
  BY <1>1, <1>3 DEF IInv, TypeOK, AdminsAreSound
<1>5. RowsAreSound' /\ WorkIsSound'
  BY <1>1, <1>2, <1>3, RowsKept, WorkKept DEF IInv, TypeOK
<1> QED BY <1>3, <1>4, <1>5 DEF IInv

LEMMA InvStep == ASSUME IInv, [Next]_vars PROVE IInv'
<1>1. CASE UNCHANGED vars
  <2>1. TypeOK' /\ AdminsAreSound' /\ (Len(volumes) <= MaxVolume)'
    BY <1>1 DEF IInv, TypeOK, AdminsAreSound, vars, upstream, rows, process
  <2>2. RowsAreSound' /\ WorkIsSound'
    BY <1>1, RowsKept, WorkKept, VolumeNumbers DEF IInv, TypeOK, vars, upstream, rows
  <2> QED BY <2>1, <2>2 DEF IInv
<1>2. CASE \E a \in Admins : (\E b \in Backfills : Lookup(a, b)) \/ Insert(a) \/ Notify(a)
  BY <1>2, LookupStep, InsertStep, NotifyStep
<1>3. CASE Process
  BY <1>3, WakeStep, ClaimStep, FetchStep, FetchFailsStep, EnqueueStep, AdvanceStep, RecordFailureStep
     DEF Process
<1> QED BY <1>1, <1>2, <1>3, WakeStep, StatementFailsStep, BecomesDueStep, ProcessStep, StopStep,
           UpstreamStep DEF Next

\* The process may be somebody else's meanwhile.
LEMMA Untouched ==
  ASSUME IInv, UNCHANGED <<upstream, rows, queue, admin, manager, wake, misses, closing>>,
         up' \in BOOLEAN, troubles' \in 0..MaxTroubles
  PROVE  IInv'
<1>1. TypeOK' /\ AdminsAreSound' /\ (Len(volumes) <= MaxVolume)'
  BY DEF IInv, TypeOK, AdminsAreSound, upstream, rows
<1>2. RowsAreSound' /\ WorkIsSound'
  BY RowsKept, WorkKept, VolumeNumbers DEF IInv, TypeOK, upstream, rows
<1> QED BY <1>1, <1>2 DEF IInv

LEMMA InvHolds == Spec => []IInv
  BY InitInv, InvStep, PTL DEF Spec

\* However the volumes change, and however often the process ends and a statement or a fetch
\* fails: the checkpoint has only gone past volumes that are queued, the report counts
\* exactly those, and success means the whole range.
THEOREM CheckpointHolds == Spec => [](TypeOK /\ CheckpointIsCovered)
<1>1. IInv => TypeOK /\ CheckpointIsCovered
  BY DEF IInv, RowsAreSound, CheckpointIsCovered
<1> QED BY <1>1, InvHolds, PTL

\* A backfill is given up only after three failures of the volume it stands at, through
\* every restart.
THEOREM GivesUpHolds == Spec => []GivesUpAfterThree
<1>1. IInv => GivesUpAfterThree
  BY DEF IInv, RowsAreSound, Sound, GivesUpAfterThree
<1> QED BY <1>1, InvHolds, PTL
=============================================================================
