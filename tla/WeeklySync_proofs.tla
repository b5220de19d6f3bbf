--------------------------- MODULE WeeklySync_proofs ---------------------------
(***************************************************************************)
(* What holds of the memory of the weekly's issues for any number of       *)
(* issues, contents and overlapping synchronisations, and however often    *)
(* one fails or the process ends.                                          *)
(***************************************************************************)
EXTENDS WeeklySync, SequenceTheorems, WellFoundedInduction, TLAPS

\* What a goroutine may find where it reads; that it is a text is left to the type invariant.
Text == Contents \cup {NoFile}
BatchRow == [key : Text, body : Text]

\* A goroutine that goes through the issues has one in hand.
SyncRow == {row \in SyncState : row.pc \in {"idle", "fetch"} \/ row.todo # {}}

Shape ==
  /\ history \in [Issues -> Seq(Contents) \ {<<>>}]
  /\ clone \in [Issues -> Contents \cup {NoFile}]
  /\ issues \in [Issues -> Text \cup {NoRow, NoHash}]
  /\ batches \in [Issues -> Seq(BatchRow)]
  /\ sync \in [Syncs -> SyncRow]
  /\ baselines \in [Issues -> SUBSET Text]

\* What is about to be recorded under a hash is queued under it, or the issue has had a
\* text without repositories.
Settled(n, hash) == Empty(n) \/ Known(n, hash)

\* The working copy has a text without repositories only if the weekly had it; a
\* goroutine that is about to record has made sure of the queue.
RecordIsBacked ==
  /\ \A n \in Issues : clone[n] \in NoRepos => Empty(n)
  /\ \A s \in Syncs : sync[s].pc = "record" /\ At(s) \in Issues => Settled(At(s), sync[s].hash)

IInv == Shape /\ RecordIsBacked /\ RecordedWasQueued

\* Neither history nor queue forget.
Grows ==
  \A n \in Issues :
    /\ Empty(n) => Empty(n)'
    /\ \A hash : Known(n, hash) => Known(n, hash)'

LEMMA NothingForgotten ==
  ASSUME UNCHANGED <<history, batches>>
  PROVE  Grows
  BY DEF Grows, Empty, Known

\* What a step has to show: baselines stay, and what is new in the memory, in the working
\* copy or about to be recorded is backed.
LEMMA Backed ==
  ASSUME IInv, Grows, Shape',
         \A n \in Issues : baselines[n] \subseteq baselines'[n],
         \A n \in Issues : \/ issues'[n] = issues[n]
                           \/ issues'[n] \in baselines'[n]
                           \/ Settled(n, issues[n])',
         \A n \in Issues : clone'[n] = clone[n] \/ (clone'[n] \in NoRepos => Empty(n)'),
         \A s \in Syncs : sync'[s].pc = "record" => sync'[s] = sync[s] \/ Settled(At(s), sync[s].hash)'
  PROVE  IInv'
<1>1. RecordedWasQueued'
  <2> SUFFICES ASSUME NEW n \in Issues, Queued(n)', ~Empty(n)'
               PROVE  Known(n, issues[n])'
    BY DEF RecordedWasQueued, Known
  <2>1. CASE issues'[n] = issues[n]
    <3>1. Queued(n) /\ ~Empty(n)
      BY <2>1 DEF Grows, Queued
    <3>2. Known(n, issues[n])
      BY <3>1 DEF IInv, RecordedWasQueued, Known
    <3> QED BY <2>1, <3>2 DEF Grows, Known
  <2>2. CASE issues'[n] \in baselines'[n]
    BY <2>2 DEF Queued
  <2>3. CASE Settled(n, issues[n])'
    BY <2>3 DEF Settled
  <2> QED BY <2>1, <2>2, <2>3
<1>2. ASSUME NEW n \in Issues, clone'[n] \in NoRepos
      PROVE  Empty(n)'
  BY <1>2 DEF IInv, RecordIsBacked, Grows
<1>3. ASSUME NEW s \in Syncs, sync'[s].pc = "record", At(s)' \in Issues
      PROVE  Settled(At(s), sync[s].hash)'
  <2>1. CASE sync'[s] = sync[s]
    <3>1. At(s)' = At(s)
      BY <2>1 DEF At
    <3>2. Settled(At(s), sync[s].hash)
      BY <1>3, <2>1, <3>1 DEF IInv, RecordIsBacked
    <3> QED BY <1>3, <2>1, <3>1, <3>2 DEF Settled, Grows
  <2> QED BY <1>3, <2>1
<1> QED BY <1>1, <1>2, <1>3 DEF IInv, RecordIsBacked

\* A step of which only goroutines see something, none of them at a new record.
LEMMA Unseen ==
  ASSUME IInv, UNCHANGED <<history, clone, issues, batches, baselines>>,
         sync' \in [Syncs -> SyncRow],
         \A s \in Syncs : sync'[s].pc = "record" => sync'[s] = sync[s]
  PROVE  IInv'
<1>1. Shape'
  BY DEF IInv, Shape
<1>2. Grows
  BY NothingForgotten
<1> QED BY <1>1, <1>2, Backed

(***************************************************************************)
(* The goroutines.                                                         *)
(***************************************************************************)
LEMMA IdleType == Idle \in SyncRow /\ Idle.pc = "idle"
  BY DEF Idle, SyncState, SyncRow

LEMMA HashType ==
  ASSUME NEW found \in SUBSET Issues, found # {}
  PROVE  [Idle EXCEPT !.pc = "hash", !.todo = found] \in SyncRow
         /\ [Idle EXCEPT !.pc = "hash", !.todo = found].pc = "hash"
  BY DEF Idle, SyncState, SyncRow

\* One goroutine gets a new state.
LEMMA OneMoves ==
  ASSUME sync \in [Syncs -> SyncRow], NEW s \in Syncs, NEW new \in SyncRow,
         sync' = [sync EXCEPT ![s] = new]
  PROVE  /\ sync' \in [Syncs -> SyncRow] /\ sync'[s] = new
         /\ \A t \in Syncs : t # s => sync'[t] = sync[t]
  OBVIOUS

LEMMA GoesOn ==
  ASSUME sync \in [Syncs -> SyncRow], NEW s \in Syncs, GoOn(s)
  PROVE  /\ sync' \in [Syncs -> SyncRow] /\ sync'[s].pc # "record"
         /\ \A t \in Syncs : t # s => sync'[t] = sync[t]
<1> DEFINE rest == sync[s].todo \ {At(s)}
           new == IF rest = {} THEN Idle ELSE [Idle EXCEPT !.pc = "hash", !.todo = rest]
<1>1. rest \in SUBSET Issues
  BY DEF SyncState, SyncRow
<1> HIDE DEF rest
<1>2. new \in SyncRow /\ new.pc # "record"
  BY <1>1, IdleType, HashType
<1>3. sync' = [sync EXCEPT ![s] = new]
  BY DEF GoOn, rest
<1> HIDE DEF new
<1> QED BY <1>2, <1>3, OneMoves

LEMMA Lists ==
  ASSUME sync \in [Syncs -> SyncRow], NEW s \in Syncs, NEW files, List(s, files)
  PROVE  /\ sync' \in [Syncs -> SyncRow] /\ sync'[s].pc # "record"
         /\ \A t \in Syncs : t # s => sync'[t] = sync[t]
<1> DEFINE found == {n \in Issues : files[n] # NoFile}
           new == IF found = {} THEN Idle ELSE [Idle EXCEPT !.pc = "hash", !.todo = found]
<1>1. found \in SUBSET Issues
  OBVIOUS
<1>2. sync' = [sync EXCEPT ![s] = new]
  BY DEF List
<1> HIDE DEF found
<1>3. new \in SyncRow /\ new.pc # "record"
  BY <1>1, IdleType, HashType
<1> HIDE DEF new
<1> QED BY <1>2, <1>3, OneMoves

\* The goroutine gets another pc.
LEMMA ChangesPc ==
  ASSUME sync \in [Syncs -> SyncRow], NEW s \in Syncs,
         NEW p \in {"idle", "fetch", "hash", "look", "baseline", "parse", "enqueue", "record"},
         p \in {"idle", "fetch"} \/ sync[s].todo # {}, sync' = [sync EXCEPT ![s].pc = p]
  PROVE  /\ sync' \in [Syncs -> SyncRow] /\ sync'[s].pc = p
         /\ sync'[s].todo = sync[s].todo /\ sync'[s].hash = sync[s].hash
         /\ \A t \in Syncs : t # s => sync'[t] = sync[t]
<1>1. [sync[s] EXCEPT !.pc = p] \in SyncRow
  BY DEF SyncState, SyncRow
<1> QED BY <1>1 DEF SyncState, SyncRow

\* The issues that are left have a first one.
LEMMA SmallestIssue ==
  ASSUME NEW T \in SUBSET Nat, T # {}
  PROVE  Min(T) \in T
<1> DEFINE R == OpToRel(<, Nat)
<1>1. IsWellFoundedOn(R, Nat)
  BY NatLessThanWellFounded
<1>2. \A x, y \in Nat : <<y, x>> \in R <=> y < x
  BY DEF OpToRel
<1> HIDE DEF R
<1>3. \E x \in T : \A y \in T : ~ (<<y, x>> \in R)
  BY <1>1, WFMin
<1>4. PICK x \in T : \A y \in T : ~ (<<y, x>> \in R)
  BY <1>3
<1>5. \A y \in T : x <= y
  <2> SUFFICES ASSUME NEW y \in T
               PROVE  x <= y
    OBVIOUS
  <2>1. x \in Nat /\ y \in Nat /\ ~(y < x)
    BY <1>2, <1>4
  <2> QED BY <2>1
<1> QED BY <1>5 DEF Min

\* The issue in hand is an issue.
LEMMA InHand ==
  ASSUME IInv, ConstantsAssumption, NEW s \in Syncs, sync[s].pc \notin {"idle", "fetch"}
  PROVE  At(s) \in Issues /\ sync[s].todo # {} /\ sync[s] \in SyncState /\ clone[At(s)] \in Contents \cup {NoFile}
<1>1. sync[s].todo \in SUBSET Issues /\ sync[s].todo # {} /\ sync[s] \in SyncState
  BY DEF IInv, Shape, SyncRow, SyncState
<1>2. Issues \subseteq Nat
  BY DEF ConstantsAssumption
<1>3. At(s) \in sync[s].todo
  BY <1>1, <1>2, SmallestIssue DEF At
<1> QED BY <1>1, <1>3 DEF IInv, Shape

LEMMA SyncTypes == ASSUME IInv PROVE sync \in [Syncs -> SyncRow]
  BY DEF IInv, Shape

LEMMA TriggerStep == ASSUME IInv, NEW s \in Syncs, Trigger(s) PROVE IInv'
<1>1. sync' \in [Syncs -> SyncRow] /\ \A t \in Syncs : sync'[t].pc = "record" => sync'[t] = sync[t]
  BY SyncTypes, ChangesPc DEF Trigger
<1> QED BY <1>1, Unseen DEF Trigger, tables

LEMMA FetchStep == ASSUME IInv, NEW s \in Syncs, Fetch(s) PROVE IInv'
<1>1. UNCHANGED <<history, issues, batches, baselines>> /\ clone' = [n \in Issues |-> Current(n)]
  BY DEF Fetch, tables
<1>2. \A n \in Issues : Current(n) \in Contents /\ \E i \in DOMAIN history[n] : history[n][i] = Current(n)
  <2> SUFFICES ASSUME NEW n \in Issues
               PROVE  Current(n) \in Contents /\ \E i \in DOMAIN history[n] : history[n][i] = Current(n)
    OBVIOUS
  <2>1. history[n] \in Seq(Contents) /\ history[n] # <<>>
    BY DEF IInv, Shape
  <2>2. Len(history[n]) \in 1..Len(history[n]) /\ DOMAIN history[n] = 1..Len(history[n])
    BY <2>1, LenProperties, EmptySeq
  <2> QED BY <2>1, <2>2, ElementOfSeq DEF Current
<1>3. sync' \in [Syncs -> SyncRow] /\ \A t \in Syncs : sync'[t].pc = "record" => sync'[t] = sync[t]
  BY SyncTypes, Lists DEF Fetch
<1>4. Shape'
  BY <1>1, <1>2, <1>3 DEF IInv, Shape
<1>5. \A n \in Issues : clone'[n] \in NoRepos => Empty(n)'
  BY <1>1, <1>2 DEF Empty
<1>6. Grows
  BY <1>1, NothingForgotten
<1> QED BY <1>1, <1>3, <1>4, <1>5, <1>6, Backed

LEMMA FetchFailsStep == ASSUME IInv, NEW s \in Syncs, FetchFails(s) PROVE IInv'
<1>1. sync' \in [Syncs -> SyncRow] /\ \A t \in Syncs : sync'[t].pc = "record" => sync'[t] = sync[t]
  BY SyncTypes, Lists DEF FetchFails
<1> QED BY <1>1, Unseen DEF FetchFails, tables

LEMMA ReadHashStep ==
  ASSUME IInv, ConstantsAssumption, NEW s \in Syncs, ReadHash(s)
  PROVE  IInv'
<1> DEFINE hash == clone[At(s)]
           new == [sync[s] EXCEPT !.pc = "look", !.hash = hash]
<1>1. hash \in Contents \cup {NoFile} /\ sync[s] \in SyncState /\ sync[s].todo # {}
  BY InHand DEF ReadHash
<1> HIDE DEF hash
<1>2. new \in SyncRow /\ new.pc = "look"
  BY <1>1 DEF SyncState, SyncRow
<1>3. sync' = [sync EXCEPT ![s] = new]
  BY <1>1 DEF ReadHash, hash, SyncState
<1> HIDE DEF new
<1>4. sync' \in [Syncs -> SyncRow] /\ \A t \in Syncs : sync'[t].pc = "record" => sync'[t] = sync[t]
  BY <1>2, <1>3, SyncTypes, OneMoves
<1> QED BY <1>4, Unseen DEF ReadHash, tables

LEMMA DecideStep == ASSUME IInv, ConstantsAssumption, NEW s \in Syncs, Decide(s) PROVE IInv'
<1> DEFINE action == Action(issues[At(s)], sync[s].hash)
<1>1. sync[s].todo # {} /\ sync[s].pc # "record"
  BY InHand DEF Decide
<1>2. action \in {"skip", "parse", "baseline"}
  BY DEF Action
<1>3. IF action = "skip" THEN GoOn(s) ELSE sync' = [sync EXCEPT ![s].pc = action]
  BY DEF Decide
<1> HIDE DEF action
<1>4. sync' \in [Syncs -> SyncRow] /\ \A t \in Syncs : sync'[t].pc = "record" => sync'[t] = sync[t]
  <2>1. CASE action = "skip"
    BY <1>3, <2>1, SyncTypes, GoesOn
  <2>2. CASE action # "skip"
    BY <1>1, <1>2, <1>3, <2>2, SyncTypes, ChangesPc
  <2> QED BY <2>1, <2>2
<1> QED BY <1>4, Unseen DEF Decide, tables

LEMMA RecordBaselineStep ==
  ASSUME IInv, ConstantsAssumption, NEW s \in Syncs, RecordBaseline(s)
  PROVE  IInv'
<1> DEFINE n == At(s)
           hash == sync[s].hash
<1>1. n \in Issues /\ hash \in Text
  BY InHand DEF RecordBaseline, SyncState, Text
<1>2. /\ issues' = [issues EXCEPT ![n] = hash]
      /\ baselines' = [baselines EXCEPT ![n] = @ \cup {hash}]
      /\ UNCHANGED <<history, clone, batches>> /\ GoOn(s)
  BY DEF RecordBaseline
<1> HIDE DEF n, hash
<1>3. sync' \in [Syncs -> SyncRow] /\ \A t \in Syncs : sync'[t].pc = "record" => sync'[t] = sync[t]
  BY <1>2, SyncTypes, GoesOn
<1>4. Shape'
  BY <1>1, <1>2, <1>3 DEF IInv, Shape
<1>5. Grows
  BY <1>2, NothingForgotten
<1>6. \A m \in Issues : /\ baselines[m] \subseteq baselines'[m]
                        /\ issues'[m] = issues[m] \/ issues'[m] \in baselines'[m]
  BY <1>1, <1>2 DEF IInv, Shape
<1> QED BY <1>2, <1>3, <1>4, <1>5, <1>6, Backed

LEMMA ParseStep == ASSUME IInv, ConstantsAssumption, NEW s \in Syncs, Parse(s) PROVE IInv'
<1> DEFINE body == clone[At(s)]
           p == IF NothingToQueue(body) THEN "record" ELSE "enqueue"
           new == [sync[s] EXCEPT !.pc = p, !.body = body]
<1>1. At(s) \in Issues /\ body \in Contents \cup {NoFile} /\ sync[s] \in SyncState /\ sync[s].todo # {}
  BY InHand DEF Parse
<1>2. sync' = [sync EXCEPT ![s] = new]
  BY <1>1 DEF Parse, SyncState
<1>3. p = "record" => Empty(At(s))
  BY <1>1 DEF NothingToQueue, IInv, RecordIsBacked
<1> HIDE DEF body
<1>4. new \in SyncRow /\ new.pc = p /\ new.todo = sync[s].todo
  BY <1>1 DEF SyncState, SyncRow
<1> HIDE DEF p, new
<1>5. sync' \in [Syncs -> SyncRow] /\ sync'[s] = new /\ \A t \in Syncs : t # s => sync'[t] = sync[t]
  BY <1>2, <1>4, SyncTypes, OneMoves
<1>6. At(s)' = At(s)
  BY <1>4, <1>5 DEF At
<1>7. UNCHANGED <<history, clone, issues, batches, baselines>>
  BY DEF Parse, tables
<1>8. Shape' /\ Grows
  BY <1>5, <1>7, NothingForgotten DEF IInv, Shape
<1>9. ASSUME NEW t \in Syncs, sync'[t].pc = "record"
      PROVE  sync'[t] = sync[t] \/ Settled(At(t), sync[t].hash)'
  <2>1. CASE t = s
    <3>1. Empty(At(s))
      BY <1>3, <1>4, <1>5, <1>9, <2>1
    <3>2. Empty(At(s))'
      BY <1>1, <1>6, <1>7, <3>1 DEF Empty
    <3> QED BY <2>1, <3>2 DEF Settled
  <2>2. CASE t # s
    BY <1>5, <2>2
  <2> QED BY <2>1, <2>2
<1> QED BY <1>7, <1>8, <1>9, Backed

LEMMA EnqueueStep == ASSUME IInv, ConstantsAssumption, NEW s \in Syncs, Enqueue(s) PROVE IInv'
<1> DEFINE n == At(s)
           hash == sync[s].hash
           body == sync[s].body
           batch == [key |-> hash, body |-> body]
<1>1. n \in Issues /\ batch \in BatchRow /\ sync[s].todo # {}
  BY InHand DEF Enqueue, SyncState, BatchRow, Text
<1>2. UNCHANGED <<history, clone, issues, baselines>>
  BY DEF Enqueue
<1>3. CASE body \in Refused
  <2>1. batches' = batches /\ GoOn(s)
    BY <1>3 DEF Enqueue
  <2>2. sync' \in [Syncs -> SyncRow] /\ \A t \in Syncs : sync'[t].pc = "record" => sync'[t] = sync[t]
    BY <2>1, SyncTypes, GoesOn
  <2> QED BY <1>2, <2>1, <2>2, Unseen
<1>4. CASE body \notin Refused
  <2>1. /\ batches' = IF Known(n, hash) THEN batches ELSE [batches EXCEPT ![n] = Append(@, batch)]
        /\ sync' = [sync EXCEPT ![s].pc = "record"]
    BY <1>4 DEF Enqueue
  <2>2. /\ sync' \in [Syncs -> SyncRow] /\ sync'[s].todo = sync[s].todo /\ sync'[s].hash = hash
        /\ \A t \in Syncs : t # s => sync'[t] = sync[t]
    BY <1>1, <2>1, SyncTypes, ChangesPc
  <2>3. At(s)' = n
    BY <2>2 DEF At
  <2> HIDE DEF n, hash, body, batch
  <2>4. batches[n] \in Seq(BatchRow)
    BY <1>1 DEF IInv, Shape
  <2>5. batches' \in [Issues -> Seq(BatchRow)]
    BY <1>1, <2>1, <2>4, AppendProperties DEF IInv, Shape
  <2>6. Shape'
    BY <1>2, <2>2, <2>5 DEF IInv, Shape
  <2>7. ASSUME NEW m \in Issues, NEW i \in DOMAIN batches[m]
        PROVE  i \in DOMAIN batches'[m] /\ batches'[m][i] = batches[m][i]
    <3>1. CASE batches'[m] = batches[m]
      BY <3>1
    <3>2. CASE m = n /\ batches'[m] = Append(batches[m], batch)
      <4>1. i \in 1..Len(batches[m]) /\ Len(batches[m]) \in Nat /\ batches[m] \in Seq(BatchRow)
        BY <2>4, <2>7, <3>2, LenProperties
      <4>2. /\ batches'[m] \in Seq(BatchRow) /\ Len(batches'[m]) = Len(batches[m]) + 1
            /\ batches'[m][i] = batches[m][i]
        BY <1>1, <3>2, <4>1, AppendProperties
      <4> QED BY <4>1, <4>2, LenProperties
    <3> QED BY <1>1, <2>1, <3>1, <3>2 DEF IInv, Shape
  <2>8. Grows
    BY <1>2, <2>7 DEF Grows, Empty, Known
  <2>9. \E i \in DOMAIN batches'[n] : batches'[n][i].key = hash
    <3>1. CASE Known(n, hash)
      BY <2>1, <3>1 DEF Known
    <3>2. CASE ~Known(n, hash)
      <4>1. batches'[n] = Append(batches[n], batch)
        BY <1>1, <2>1, <3>2 DEF IInv, Shape
      <4>2. /\ batches'[n] \in Seq(BatchRow) /\ Len(batches'[n]) = Len(batches[n]) + 1
            /\ batches'[n][Len(batches[n]) + 1] = batch
        BY <1>1, <2>4, <4>1, AppendProperties
      <4>3. Len(batches[n]) + 1 \in DOMAIN batches'[n]
        BY <2>4, <4>2, LenProperties
      <4>4. batch.key = hash
        BY DEF batch
      <4> QED BY <4>2, <4>3, <4>4 DEF Known
    <3> QED BY <3>1, <3>2
  <2>10. ASSUME NEW t \in Syncs
         PROVE  sync'[t] = sync[t] \/ Settled(At(t), sync[t].hash)'
    <3>1. CASE t = s
      <4>1. \E i \in DOMAIN batches'[At(s)'] : batches'[At(s)'][i].key = sync'[s].hash
        BY <2>2, <2>3, <2>9
      <4> QED BY <3>1, <4>1 DEF Settled, Known
    <3>2. CASE t # s
      BY <2>2, <3>2
    <3> QED BY <3>1, <3>2
  <2> QED BY <1>2, <2>6, <2>8, <2>10, Backed
<1> QED BY <1>3, <1>4

LEMMA RecordStep == ASSUME IInv, ConstantsAssumption, NEW s \in Syncs, Record(s) PROVE IInv'
<1> DEFINE n == At(s)
           hash == sync[s].hash
<1>1. n \in Issues /\ hash \in Text /\ sync[s].pc = "record"
  BY InHand DEF Record, SyncState, Text
<1>2. issues' = [issues EXCEPT ![n] = hash] /\ UNCHANGED <<history, clone, batches, baselines>> /\ GoOn(s)
  BY DEF Record
<1>3. Settled(n, hash)
  BY <1>1 DEF IInv, RecordIsBacked
<1> HIDE DEF n, hash
<1>4. sync' \in [Syncs -> SyncRow] /\ \A t \in Syncs : sync'[t].pc = "record" => sync'[t] = sync[t]
  BY <1>2, SyncTypes, GoesOn
<1>5. Shape' /\ Grows
  BY <1>1, <1>2, <1>4, NothingForgotten DEF IInv, Shape
<1>6. ASSUME NEW m \in Issues
      PROVE  issues'[m] = issues[m] \/ Settled(m, issues[m])'
  <2>1. CASE m # n
    BY <1>2, <2>1 DEF IInv, Shape
  <2>2. CASE m = n
    <3>1. issues'[m] = hash
      BY <1>1, <1>2, <2>2 DEF IInv, Shape
    <3> QED BY <1>2, <1>3, <2>2, <3>1 DEF Settled, Empty, Known
  <2> QED BY <2>1, <2>2
<1> QED BY <1>2, <1>4, <1>5, <1>6, Backed

LEMMA IssueFailsStep == ASSUME IInv, NEW s \in Syncs, IssueFails(s) PROVE IInv'
<1>1. sync' \in [Syncs -> SyncRow] /\ \A t \in Syncs : sync'[t].pc = "record" => sync'[t] = sync[t]
  BY SyncTypes, GoesOn DEF IssueFails
<1> QED BY <1>1, Unseen DEF IssueFails, tables

(***************************************************************************)
(* The process and the weekly's authors.                                   *)
(***************************************************************************)
LEMMA StartStep == ASSUME IInv, Start PROVE IInv'
<1>1. sync' \in [Syncs -> SyncRow] /\ \A t \in Syncs : sync'[t].pc = "record" => sync'[t] = sync[t]
  <2>1. CASE UNCHANGED sync
    BY <2>1, SyncTypes
  <2>2. CASE \E s \in Syncs : sync' = [sync EXCEPT ![s].pc = "fetch"]
    BY <2>2, SyncTypes, ChangesPc
  <2> QED BY <2>1, <2>2 DEF Start
<1> QED BY <1>1, Unseen DEF Start, tables

LEMMA StopStep == ASSUME IInv, Stop PROVE IInv'
<1>1. sync' \in [Syncs -> SyncRow] /\ \A t \in Syncs : sync'[t].pc # "record"
  BY IdleType DEF Stop
<1> QED BY <1>1, Unseen DEF Stop, tables

LEMMA EditStep == ASSUME IInv, NEW n \in Issues, Edit(n) PROVE IInv'
<1>1. PICK c \in Contents : history' = [history EXCEPT ![n] = Append(@, c)]
  BY DEF Edit
<1>2. UNCHANGED <<clone, issues, batches, sync, baselines>>
  BY DEF Edit, tables
<1>3. history[n] \in Seq(Contents) /\ history'[n] = Append(history[n], c)
  BY <1>1 DEF IInv, Shape
<1>4. /\ history'[n] \in Seq(Contents) /\ history'[n] # <<>>
      /\ Len(history'[n]) = Len(history[n]) + 1 /\ Len(history[n]) \in Nat
      /\ \A i \in 1..Len(history[n]) : history'[n][i] = history[n][i]
  BY <1>3, AppendProperties, LenProperties
<1>5. Shape'
  BY <1>1, <1>2, <1>4 DEF IInv, Shape
<1>6. ASSUME NEW m \in Issues, Empty(m)
      PROVE  Empty(m)'
  <2>1. PICK i \in DOMAIN history[m] : history[m][i] \in NoRepos
    BY <1>6 DEF Empty
  <2>2. CASE m # n
    <3>1. history'[m] = history[m]
      BY <1>1, <2>2 DEF IInv, Shape
    <3> QED BY <2>1, <3>1 DEF Empty
  <2>3. CASE m = n
    <3>1. i \in 1..Len(history[n]) /\ DOMAIN history'[n] = 1..Len(history'[n])
      BY <1>3, <1>4, <2>1, <2>3, LenProperties
    <3>2. i \in DOMAIN history'[n] /\ history'[n][i] \in NoRepos
      BY <1>4, <2>1, <2>3, <3>1
    <3> QED BY <2>3, <3>2 DEF Empty
  <2> QED BY <2>2, <2>3
<1>7. Grows
  BY <1>2, <1>6 DEF Grows, Known
<1> QED BY <1>2, <1>5, <1>7, Backed

LEMMA InitInv == ASSUME Init, ConstantsAssumption PROVE IInv
<1>1. {NoFile, NoRow, NoHash} \cap Contents = {} /\ NoRepos \subseteq Contents /\ Opening \subseteq Contents
  BY DEF ConstantsAssumption
<1>2. history \in [Issues -> Seq(Contents) \ {<<>>}]
  <2> DEFINE Firsts == {<<c>> : c \in Opening}
  <2>1. \A c \in Opening : <<c>> \in Seq(Contents) \ {<<>>}
    BY <1>1
  <2>2. Firsts \subseteq Seq(Contents) \ {<<>>}
    BY <2>1
  <2>3. history \in [Issues -> Firsts]
    BY DEF Init
  <2> HIDE DEF Firsts
  <2> QED BY <2>2, <2>3
<1>3. batches \in [Issues -> Seq(BatchRow)]
  BY DEF Init
<1>4. Shape
  BY <1>2, <1>3, IdleType DEF Init, Shape
<1>5. RecordIsBacked
  BY <1>1, IdleType DEF Init, RecordIsBacked
<1>6. RecordedWasQueued
  BY <1>1 DEF Init, RecordedWasQueued, Queued
<1> QED BY <1>4, <1>5, <1>6 DEF IInv

LEMMA InvStep == ASSUME IInv, ConstantsAssumption, [Next]_vars PROVE IInv'
<1>1. CASE UNCHANGED vars
  BY <1>1, SyncTypes, Unseen DEF vars, tables
<1>2. ASSUME NEW s \in Syncs, Trigger(s) \/ Fetch(s) \/ FetchFails(s) \/ Step(s) \/ IssueFails(s)
      PROVE  IInv'
  BY <1>2, TriggerStep, FetchStep, FetchFailsStep, ReadHashStep, DecideStep, RecordBaselineStep, ParseStep,
     EnqueueStep, RecordStep, IssueFailsStep DEF Step
<1> QED BY <1>1, <1>2, StartStep, StopStep, EditStep DEF Next

\* However many synchronisations overlap, whatever the weekly's authors change meanwhile, and
\* wherever a step fails or the process ends: an issue that counts as done, and never had a
\* text without repositories, was queued under the very hash it is recorded with.
THEOREM RecordedHolds == ASSUME ConstantsAssumption PROVE Spec => []RecordedWasQueued
<1>1. Init => IInv
  BY InitInv
<1>2. IInv /\ [Next]_vars => IInv'
  BY InvStep
<1>3. IInv => RecordedWasQueued
  BY DEF IInv
<1> QED BY <1>1, <1>2, <1>3, PTL DEF Spec

(***************************************************************************)
(* The queue is not behind.                                                *)
(***************************************************************************)

\* A goroutine goes through issues that are in the working copy, and has their hash and
\* their text in hand where it needs them.
HandIsFull(row, files) ==
  row.pc \notin {"idle", "fetch"} =>
    /\ \A n \in row.todo : files[n] # NoFile
    /\ row.pc # "hash" => row.hash \in Contents
    /\ row.pc = "enqueue" => row.body \in Contents

\* Undisturbed, it has them from the same file.
HandIsOfOneFile(row, files) ==
  /\ row.pc \notin {"idle", "fetch", "hash"} => row.hash = files[Min(row.todo)]
  /\ row.pc = "enqueue" => row.body = row.hash

HandsAreFull == \A s \in Syncs : HandIsFull(sync[s], clone)

OneAtATime ==
  /\ ~overlapped => \A s, t \in Syncs : Running(s) /\ Running(t) => s = t
  /\ ~up => \A s \in Syncs : ~Running(s)

HandsAreOfOneFile == ~overlapped => \A s \in Syncs : HandIsOfOneFile(sync[s], clone)

\* The text has been the k-th of its issue.
Was(n, text, k) == k \in DOMAIN history[n] /\ history[n][k] = text

\* The working copy has what the issue was; batches have their keys from their texts, they
\* were queued in the order of the issue's history, and the working copy is not behind them.
FilesWere == \A n \in Issues : clone[n] # NoFile => \E k : Was(n, clone[n], k)

BatchesAreInOrder ==
  ~overlapped => \A n \in Issues : \A i \in DOMAIN batches[n] :
    /\ batches[n][i].key = batches[n][i].body
    /\ \E j, k : Was(n, batches[n][i].body, j) /\ Was(n, clone[n], k) /\ j <= k
    /\ \A h \in DOMAIN batches[n] : h <= i =>
         \E j, k : Was(n, batches[n][h].body, j) /\ Was(n, batches[n][i].body, k) /\ j <= k

OInv == IInv /\ TypeOK /\ HandsAreFull /\ OneAtATime /\ HandsAreOfOneFile /\ FilesWere /\ BatchesAreInOrder

\* What the goroutines have in hand, and nothing of the tables.
Hands == HandsAreFull /\ OneAtATime /\ HandsAreOfOneFile

\* Histories only grow.
Longer == \A n \in Issues : \A k \in DOMAIN history[n] : k \in DOMAIN history'[n] /\ history'[n][k] = history[n][k]

LEMMA StillWas ==
  ASSUME Longer, NEW n \in Issues, NEW text, NEW k, Was(n, text, k)
  PROVE  k \in DOMAIN history'[n] /\ history'[n][k] = text
  BY DEF Longer, Was

\* A step that leaves the working copy and the queue alone leaves them in order.
LEMMA OrderKept ==
  ASSUME OInv, Longer, UNCHANGED <<clone, batches>>, overlapped => overlapped'
  PROVE  FilesWere' /\ BatchesAreInOrder'
<1>1. FilesWere'
  BY StillWas DEF OInv, FilesWere, Was
<1>2. ASSUME ~overlapped', NEW n \in Issues, NEW i \in DOMAIN batches[n]
      PROVE  /\ batches[n][i].key = batches[n][i].body
             /\ \E j, k : Was(n, batches[n][i].body, j)' /\ Was(n, clone[n], k)' /\ j <= k
             /\ \A h \in DOMAIN batches[n] : h <= i =>
                  \E j, k : Was(n, batches[n][h].body, j)' /\ Was(n, batches[n][i].body, k)' /\ j <= k
  <2>1. BatchesAreInOrder /\ ~overlapped
    BY <1>2 DEF OInv
  <2>2. \E j, k : Was(n, batches[n][i].body, j)' /\ Was(n, clone[n], k)' /\ j <= k
    <3>1. PICK j, k : Was(n, batches[n][i].body, j) /\ Was(n, clone[n], k) /\ j <= k
      BY <1>2, <2>1 DEF BatchesAreInOrder
    <3>2. Was(n, batches[n][i].body, j)' /\ Was(n, clone[n], k)'
      BY <3>1, StillWas DEF Was
    <3> QED BY <3>1, <3>2
  <2>3. ASSUME NEW h \in DOMAIN batches[n], h <= i
        PROVE  \E j, k : Was(n, batches[n][h].body, j)' /\ Was(n, batches[n][i].body, k)' /\ j <= k
    <3>1. PICK j, k : Was(n, batches[n][h].body, j) /\ Was(n, batches[n][i].body, k) /\ j <= k
      BY <1>2, <2>1, <2>3 DEF BatchesAreInOrder
    <3>2. Was(n, batches[n][h].body, j)' /\ Was(n, batches[n][i].body, k)'
      BY <3>1, StillWas DEF Was
    <3> QED BY <3>1, <3>2
  <2> QED BY <1>2, <2>1, <2>2, <2>3 DEF BatchesAreInOrder
<1>3. BatchesAreInOrder'
  BY <1>2 DEF BatchesAreInOrder
<1> QED BY <1>1, <1>3

LEMMA SameHistory == ASSUME UNCHANGED history PROVE Longer
  BY DEF Longer

\* A goroutine that runs takes a step of its own.
LEMMA TakesItsTurn ==
  ASSUME OInv, NEW s \in Syncs, Running(s),
         sync' \in [Syncs -> SyncRow], \A t \in Syncs : t # s => sync'[t] = sync[t],
         UNCHANGED <<clone, up, overlapped>>,
         HandIsFull(sync'[s], clone), ~overlapped => HandIsOfOneFile(sync'[s], clone)
  PROVE  Hands'
<1>1. HandsAreFull'
  BY DEF OInv, HandsAreFull
<1>2. HandsAreOfOneFile'
  BY DEF OInv, HandsAreOfOneFile
<1>3. OneAtATime'
  BY DEF OInv, OneAtATime, Running
<1> QED BY <1>1, <1>2, <1>3 DEF Hands

\* It lets go of the issue in hand, or changes its pc only.
LEMMA GoOnIsFull ==
  ASSUME OInv, NEW s \in Syncs, sync[s].pc \notin {"idle", "fetch"}, GoOn(s)
  PROVE  /\ sync' \in [Syncs -> SyncRow] /\ \A t \in Syncs : t # s => sync'[t] = sync[t]
         /\ HandIsFull(sync'[s], clone) /\ HandIsOfOneFile(sync'[s], clone)
<1> DEFINE rest == sync[s].todo \ {At(s)}
<1>1. sync \in [Syncs -> SyncRow]
  BY SyncTypes DEF OInv
<1>2. \A n \in rest : clone[n] # NoFile
  BY DEF OInv, HandsAreFull, HandIsFull
<1>3. sync'[s] = IF rest = {} THEN Idle ELSE [Idle EXCEPT !.pc = "hash", !.todo = rest]
  BY <1>1 DEF GoOn
<1> HIDE DEF rest
<1>4. sync'[s].pc = "idle" \/ (sync'[s].pc = "hash" /\ sync'[s].todo = rest)
  BY <1>3 DEF Idle
<1> QED BY <1>1, <1>2, <1>4, GoesOn DEF HandIsFull, HandIsOfOneFile

LEMMA ListIsFull ==
  ASSUME OInv, NEW s \in Syncs, NEW files, List(s, files)
  PROVE  /\ sync' \in [Syncs -> SyncRow] /\ \A t \in Syncs : t # s => sync'[t] = sync[t]
         /\ HandIsFull(sync'[s], files) /\ HandIsOfOneFile(sync'[s], files)
<1> DEFINE found == {n \in Issues : files[n] # NoFile}
<1>1. sync \in [Syncs -> SyncRow]
  BY SyncTypes DEF OInv
<1>2. sync'[s] = IF found = {} THEN Idle ELSE [Idle EXCEPT !.pc = "hash", !.todo = found]
  BY <1>1 DEF List
<1>3. \A n \in found : files[n] # NoFile
  OBVIOUS
<1> HIDE DEF found
<1>4. sync'[s].pc = "idle" \/ (sync'[s].pc = "hash" /\ sync'[s].todo = found)
  BY <1>2 DEF Idle
<1> QED BY <1>1, <1>3, <1>4, Lists DEF HandIsFull, HandIsOfOneFile

LEMMA HandTypes ==
  ASSUME OInv, ConstantsAssumption, NEW s \in Syncs, sync[s].pc \notin {"idle", "fetch"}
  PROVE  /\ At(s) \in Issues /\ clone[At(s)] \in Contents /\ Running(s)
         /\ sync[s] \in SyncRow /\ sync[s] \in SyncState /\ sync[s].todo # {}
         /\ HandIsFull(sync[s], clone) /\ (~overlapped => HandIsOfOneFile(sync[s], clone))
<1>1. At(s) \in Issues /\ sync[s].todo # {} /\ sync[s] \in SyncState /\ clone[At(s)] \in Contents \cup {NoFile}
  BY InHand DEF OInv
<1>2. sync[s].todo \in SUBSET Issues /\ Issues \subseteq Nat
  BY <1>1 DEF SyncState, ConstantsAssumption
<1>3. At(s) \in sync[s].todo
  BY <1>1, <1>2, SmallestIssue DEF At
<1>4. HandIsFull(sync[s], clone) /\ (~overlapped => HandIsOfOneFile(sync[s], clone))
  BY DEF OInv, HandsAreFull, HandsAreOfOneFile
<1>5. clone[At(s)] # NoFile
  BY <1>3, <1>4 DEF HandIsFull
<1>6. sync[s] \in SyncRow
  BY SyncTypes DEF OInv
<1> QED BY <1>1, <1>4, <1>5, <1>6 DEF Running

LEMMA TypesKept ==
  ASSUME OInv, IInv', UNCHANGED <<issues, batches, baselines>>,
         up' \in BOOLEAN, overlapped' \in BOOLEAN, troubles' \in 0..MaxTroubles
  PROVE  TypeOK'
<1>1. /\ history' \in [Issues -> Seq(Contents)]
      /\ clone' \in [Issues -> Contents \cup {NoFile}]
  BY DEF IInv, Shape
<1>2. sync' \in [Syncs -> SyncState]
  BY DEF IInv, Shape, SyncRow
<1> QED BY <1>1, <1>2 DEF OInv, TypeOK

\* A turn of which only the goroutine sees something.
LEMMA QuietTurn ==
  ASSUME OInv, IInv', NEW s \in Syncs, Running(s),
         sync' \in [Syncs -> SyncRow], \A t \in Syncs : t # s => sync'[t] = sync[t],
         UNCHANGED <<history, clone, issues, batches, baselines, up, overlapped>>, troubles' \in 0..MaxTroubles,
         HandIsFull(sync'[s], clone), ~overlapped => HandIsOfOneFile(sync'[s], clone)
  PROVE  OInv'
<1>1. TypeOK'
  BY TypesKept DEF OInv, TypeOK
<1>2. Hands'
  BY TakesItsTurn
<1>3. FilesWere' /\ BatchesAreInOrder'
  BY SameHistory, OrderKept
<1> QED BY <1>1, <1>2, <1>3 DEF OInv, Hands

LEMMA TroublesType == ASSUME OInv PROVE troubles \in 0..MaxTroubles /\ overlapped \in BOOLEAN /\ up \in BOOLEAN
  BY DEF OInv, TypeOK

LEMMA TriggerOrder == ASSUME OInv, IInv', NEW s \in Syncs, Trigger(s) PROVE OInv'
<1>1. /\ sync' \in [Syncs -> SyncRow] /\ sync'[s].pc = "fetch"
      /\ \A t \in Syncs : t # s => sync'[t] = sync[t]
  BY SyncTypes, ChangesPc DEF Trigger, OInv
<1>2. /\ overlapped' = (overlapped \/ \E t \in Syncs : Running(t)) /\ ~Running(s) /\ up
      /\ UNCHANGED <<history, clone, issues, batches, up, baselines, troubles>>
  BY DEF Trigger, tables
<1>3. overlapped' \in BOOLEAN /\ (overlapped => overlapped')
  BY <1>2, TroublesType
<1>4. TypeOK'
  BY <1>2, <1>3, TroublesType, TypesKept
<1>5. HandsAreFull' /\ HandsAreOfOneFile'
  BY <1>1, <1>2, <1>3 DEF OInv, HandsAreFull, HandsAreOfOneFile, HandIsFull, HandIsOfOneFile
<1>6. OneAtATime'
  BY <1>1, <1>2 DEF OneAtATime, Running
<1>7. FilesWere' /\ BatchesAreInOrder'
  BY <1>2, <1>3, SameHistory, OrderKept
<1> QED BY <1>4, <1>5, <1>6, <1>7 DEF OInv

LEMMA FetchFailsOrder == ASSUME OInv, IInv', NEW s \in Syncs, FetchFails(s) PROVE OInv'
<1>1. Running(s) /\ List(s, clone)
  BY DEF FetchFails, Running
<1> QED BY <1>1, ListIsFull, QuietTurn, TroublesType DEF FetchFails, tables

LEMMA IssueFailsOrder == ASSUME OInv, IInv', ConstantsAssumption, NEW s \in Syncs, IssueFails(s) PROVE OInv'
<1>1. troubles' \in 0..MaxTroubles
  BY TroublesType DEF IssueFails, ConstantsAssumption
<1>2. Running(s)
  BY DEF IssueFails, Running
<1> QED BY <1>1, <1>2, GoOnIsFull, QuietTurn DEF IssueFails, tables

LEMMA ReadHashOrder == ASSUME OInv, IInv', ConstantsAssumption, NEW s \in Syncs, ReadHash(s) PROVE OInv'
<1> DEFINE hash == clone[At(s)]
           new == [sync[s] EXCEPT !.pc = "look", !.hash = hash]
<1>1. /\ hash \in Contents /\ Running(s) /\ sync[s] \in SyncState /\ sync[s].todo # {}
      /\ HandIsFull(sync[s], clone) /\ hash = clone[Min(sync[s].todo)]
  BY HandTypes DEF ReadHash, At
<1> HIDE DEF hash
<1>2. new \in SyncRow /\ new.pc = "look" /\ new.todo = sync[s].todo /\ new.hash = hash
  BY <1>1 DEF SyncState, SyncRow
<1>3. sync' = [sync EXCEPT ![s] = new]
  BY <1>1 DEF ReadHash, hash, SyncState
<1> HIDE DEF new
<1>4. sync' \in [Syncs -> SyncRow] /\ sync'[s] = new /\ \A t \in Syncs : t # s => sync'[t] = sync[t]
  BY <1>2, <1>3, SyncTypes, OneMoves DEF OInv
<1>5. HandIsFull(new, clone) /\ HandIsOfOneFile(new, clone)
  BY <1>1, <1>2 DEF HandIsFull, HandIsOfOneFile, ReadHash
<1> QED BY <1>1, <1>4, <1>5, QuietTurn, TroublesType DEF ReadHash, tables

LEMMA DecideOrder == ASSUME OInv, IInv', ConstantsAssumption, NEW s \in Syncs, Decide(s) PROVE OInv'
<1> DEFINE action == Action(issues[At(s)], sync[s].hash)
<1>1. /\ Running(s) /\ sync[s].todo # {} /\ sync[s].pc = "look"
      /\ HandIsFull(sync[s], clone) /\ (~overlapped => HandIsOfOneFile(sync[s], clone))
  BY HandTypes DEF Decide
<1>2. action \in {"skip", "parse", "baseline"}
  BY DEF Action
<1>3. IF action = "skip" THEN GoOn(s) ELSE sync' = [sync EXCEPT ![s].pc = action]
  BY DEF Decide
<1> HIDE DEF action
<1>4. UNCHANGED <<history, clone, issues, batches, baselines, up, overlapped>> /\ troubles' \in 0..MaxTroubles
  BY TroublesType DEF Decide, tables
<1>5. CASE action = "skip"
  BY <1>1, <1>3, <1>4, <1>5, GoOnIsFull, QuietTurn
<1>6. CASE action # "skip"
  <2>1. /\ sync' \in [Syncs -> SyncRow] /\ sync'[s].pc = action
        /\ sync'[s].todo = sync[s].todo /\ sync'[s].hash = sync[s].hash
        /\ \A t \in Syncs : t # s => sync'[t] = sync[t]
    BY <1>1, <1>2, <1>3, <1>6, SyncTypes, ChangesPc DEF OInv
  <2>2. HandIsFull(sync'[s], clone) /\ (~overlapped => HandIsOfOneFile(sync'[s], clone))
    BY <1>1, <1>2, <1>6, <2>1 DEF HandIsFull, HandIsOfOneFile
  <2> QED BY <1>1, <1>4, <2>1, <2>2, QuietTurn
<1> QED BY <1>5, <1>6

LEMMA ParseOrder == ASSUME OInv, IInv', ConstantsAssumption, NEW s \in Syncs, Parse(s) PROVE OInv'
<1> DEFINE body == clone[At(s)]
           p == IF NothingToQueue(body) THEN "record" ELSE "enqueue"
           new == [sync[s] EXCEPT !.pc = p, !.body = body]
<1>1. /\ body \in Contents /\ Running(s) /\ sync[s] \in SyncState /\ sync[s].todo # {} /\ sync[s].pc = "parse"
      /\ HandIsFull(sync[s], clone) /\ (~overlapped => HandIsOfOneFile(sync[s], clone))
      /\ body = clone[Min(sync[s].todo)]
  BY HandTypes DEF Parse, At
<1>2. sync' = [sync EXCEPT ![s] = new]
  BY <1>1 DEF Parse, SyncState
<1> HIDE DEF body
<1>3. /\ new \in SyncRow /\ new.pc = p /\ new.todo = sync[s].todo /\ new.hash = sync[s].hash /\ new.body = body
      /\ p \in {"record", "enqueue"}
  BY <1>1 DEF SyncState, SyncRow
<1> HIDE DEF p, new
<1>4. sync' \in [Syncs -> SyncRow] /\ sync'[s] = new /\ \A t \in Syncs : t # s => sync'[t] = sync[t]
  BY <1>2, <1>3, SyncTypes, OneMoves DEF OInv
<1>5. HandIsFull(new, clone)
  BY <1>1, <1>3 DEF HandIsFull
<1>6. ~overlapped => HandIsOfOneFile(new, clone)
  BY <1>1, <1>3 DEF HandIsOfOneFile
<1> QED BY <1>1, <1>4, <1>5, <1>6, QuietTurn, TroublesType DEF Parse, tables

\* A turn that changes what is remembered of issues, and then goes on.
LEMMA RememberedOrder ==
  ASSUME OInv, IInv', NEW s \in Syncs, sync[s].pc \notin {"idle", "fetch"}, GoOn(s),
         UNCHANGED <<history, clone, batches, up, overlapped, troubles>>,
         issues' \in [Issues -> Contents \cup {NoRow, NoHash}], baselines' \in [Issues -> SUBSET Contents]
  PROVE  OInv'
<1>1. Running(s)
  BY DEF Running
<1>2. Hands'
  BY <1>1, GoOnIsFull, TakesItsTurn
<1>3. FilesWere' /\ BatchesAreInOrder'
  BY SameHistory, OrderKept
<1>4. sync' \in [Syncs -> SyncState]
  BY DEF IInv, Shape, SyncRow
<1>5. TypeOK'
  BY <1>4 DEF OInv, TypeOK
<1> QED BY <1>2, <1>3, <1>5 DEF OInv, Hands

LEMMA RecordOrder ==
  ASSUME OInv, IInv', ConstantsAssumption, NEW s \in Syncs, RecordBaseline(s) \/ Record(s)
  PROVE  OInv'
<1>1. At(s) \in Issues /\ HandIsFull(sync[s], clone) /\ sync[s].pc \in {"baseline", "record"}
  BY HandTypes DEF RecordBaseline, Record
<1>2. sync[s].hash \in Contents
  BY <1>1 DEF HandIsFull
<1>3. /\ issues' = [issues EXCEPT ![At(s)] = sync[s].hash] /\ GoOn(s)
      /\ baselines' = baselines \/ baselines' = [baselines EXCEPT ![At(s)] = @ \cup {sync[s].hash}]
      /\ UNCHANGED <<history, clone, batches, up, overlapped, troubles>>
  BY DEF RecordBaseline, Record
<1>4. issues' \in [Issues -> Contents \cup {NoRow, NoHash}] /\ baselines' \in [Issues -> SUBSET Contents]
  BY <1>1, <1>2, <1>3 DEF OInv, TypeOK
<1> QED BY <1>1, <1>3, <1>4, RememberedOrder

\* A batch joins the queue: it has its key from its text, and the text is the working copy's.
LEMMA BatchInOrder ==
  ASSUME OInv, ~overlapped, NEW n \in Issues, NEW text, text = clone[n], text # NoFile,
         NEW list, list \in Seq(BatchRow), batches[n] \in Seq(BatchRow), [key |-> text, body |-> text] \in BatchRow,
         list = Append(batches[n], [key |-> text, body |-> text])
  PROVE  \A i \in DOMAIN list :
           /\ list[i].key = list[i].body
           /\ \E j, k : Was(n, list[i].body, j) /\ Was(n, clone[n], k) /\ j <= k
           /\ \A h \in DOMAIN list : h <= i =>
                \E j, k : Was(n, list[h].body, j) /\ Was(n, list[i].body, k) /\ j <= k
<1> DEFINE old == batches[n]
           last == Len(old) + 1
           batch == [key |-> text, body |-> text]
<1>1. /\ Len(old) \in Nat /\ DOMAIN old = 1..Len(old) /\ DOMAIN list = 1..last
      /\ list[last] = batch /\ \A i \in DOMAIN old : list[i] = old[i]
  <2>1. Len(old) \in Nat /\ DOMAIN old = 1..Len(old)
    BY LenProperties
  <2>2. Len(list) = last /\ list[last] = batch /\ \A i \in 1..Len(old) : list[i] = old[i]
    BY AppendProperties
  <2>3. DOMAIN list = 1..Len(list)
    BY LenProperties
  <2> QED BY <2>1, <2>2, <2>3
<1>2. history[n] \in Seq(Contents)
  BY DEF OInv, TypeOK
<1>3. Len(history[n]) \in Nat /\ DOMAIN history[n] = 1..Len(history[n])
  BY <1>2, LenProperties
<1>4. PICK now : Was(n, text, now)
  BY DEF OInv, FilesWere
<1>5. now \in Nat
  BY <1>3, <1>4 DEF Was
<1>6. batch.key = text /\ batch.body = text
  OBVIOUS
<1>7. BatchesAreInOrder
  BY DEF OInv
<1> HIDE DEF old, last, batch
<1>8. ASSUME NEW i \in DOMAIN list
      PROVE  \E j, k : Was(n, list[i].body, j) /\ Was(n, clone[n], k) /\ j <= k
  <2>1. CASE i \in DOMAIN old
    <3>1. PICK j, k : Was(n, old[i].body, j) /\ Was(n, clone[n], k) /\ j <= k
      BY <1>7, <2>1 DEF BatchesAreInOrder, old
    <3> QED BY <1>1, <2>1, <3>1
  <2>2. CASE i = last
    <3>1. list[i].body = text
      BY <1>1, <1>6, <2>2
    <3>2. now <= now
      BY <1>5
    <3> QED BY <1>4, <3>1, <3>2
  <2> QED BY <1>1, <1>8, <2>1, <2>2 DEF last
<1>9. ASSUME NEW i \in DOMAIN list PROVE list[i].key = list[i].body
  <2>1. CASE i \in DOMAIN old
    BY <1>1, <1>7, <2>1 DEF BatchesAreInOrder, old
  <2>2. CASE i = last
    BY <1>1, <1>6, <2>2
  <2> QED BY <1>1, <1>9, <2>1, <2>2 DEF last
<1>10. ASSUME NEW i \in DOMAIN list, NEW h \in DOMAIN list, h <= i
       PROVE  \E j, k : Was(n, list[h].body, j) /\ Was(n, list[i].body, k) /\ j <= k
  <2>1. CASE i \in DOMAIN old
    <3>1. h \in DOMAIN old
      BY <1>1, <1>10, <2>1 DEF last
    <3>2. PICK j, k : Was(n, old[h].body, j) /\ Was(n, old[i].body, k) /\ j <= k
      BY <1>7, <1>10, <2>1, <3>1 DEF BatchesAreInOrder, old
    <3> QED BY <1>1, <2>1, <3>1, <3>2
  <2>2. CASE i = last
    <3>1. PICK j, k : Was(n, list[h].body, j) /\ Was(n, clone[n], k) /\ j <= k
      BY <1>8, <1>10
    <3>2. list[i].body = text
      BY <1>1, <1>6, <2>2
    <3> QED BY <3>1, <3>2
  <2> QED BY <1>1, <1>10, <2>1, <2>2 DEF last
<1> QED BY <1>8, <1>9, <1>10

LEMMA EnqueueOrder == ASSUME OInv, IInv', ConstantsAssumption, NEW s \in Syncs, Enqueue(s) PROVE OInv'
<1> DEFINE n == At(s)
           hash == sync[s].hash
           body == sync[s].body
           batch == [key |-> hash, body |-> body]
<1>1. /\ n \in Issues /\ Running(s) /\ sync[s].todo # {} /\ sync[s].pc = "enqueue"
      /\ HandIsFull(sync[s], clone) /\ (~overlapped => HandIsOfOneFile(sync[s], clone))
  BY HandTypes DEF Enqueue
<1>2. hash \in Contents /\ body \in Contents
  BY <1>1 DEF HandIsFull
<1>3. ~overlapped => hash = clone[n] /\ body = hash
  BY <1>1 DEF HandIsOfOneFile, At
<1>4. UNCHANGED <<history, clone, issues, baselines, up, overlapped, troubles>> /\ troubles' \in 0..MaxTroubles
  BY TroublesType DEF Enqueue
<1>5. CASE body \in Refused
  <2>1. batches' = batches /\ GoOn(s)
    BY <1>5 DEF Enqueue
  <2> QED BY <1>1, <1>4, <2>1, GoOnIsFull, QuietTurn
<1>6. CASE body \notin Refused
  <2>1. /\ batches' = IF Known(n, hash) THEN batches ELSE [batches EXCEPT ![n] = Append(@, batch)]
        /\ sync' = [sync EXCEPT ![s].pc = "record"]
    BY <1>6 DEF Enqueue
  <2>2. /\ sync' \in [Syncs -> SyncRow] /\ sync'[s].pc = "record"
        /\ sync'[s].todo = sync[s].todo /\ sync'[s].hash = hash
        /\ \A t \in Syncs : t # s => sync'[t] = sync[t]
    BY <1>1, <2>1, SyncTypes, ChangesPc DEF OInv
  <2>3. HandIsFull(sync'[s], clone) /\ (~overlapped => HandIsOfOneFile(sync'[s], clone))
    BY <1>1, <2>2 DEF HandIsFull, HandIsOfOneFile
  <2> HIDE DEF n, hash, body
  <2>4. CASE batches' = batches
    BY <1>1, <1>4, <2>2, <2>3, <2>4, QuietTurn
  <2>5. CASE batches' = [batches EXCEPT ![n] = Append(@, batch)]
    <3>1. batch \in [key : Contents, body : Contents] /\ batch \in BatchRow
      BY <1>2 DEF BatchRow, Text
    <3>2. batches \in [Issues -> Seq([key : Contents, body : Contents])] /\ batches \in [Issues -> Seq(BatchRow)]
      BY DEF OInv, TypeOK, IInv, Shape
    <3>3. Append(batches[n], batch) \in Seq([key : Contents, body : Contents]) /\ Append(batches[n], batch) \in Seq(BatchRow)
      BY <1>1, <3>1, <3>2, AppendProperties
    <3>4. /\ batches' \in [Issues -> Seq([key : Contents, body : Contents])]
          /\ batches'[n] = Append(batches[n], batch) /\ \A m \in Issues : m # n => batches'[m] = batches[m]
      BY <1>1, <2>5, <3>2, <3>3
    <3>5. TypeOK'
      <4>1. sync' \in [Syncs -> SyncState]
        BY <2>2 DEF SyncRow
      <4> QED BY <1>4, <3>4, <4>1 DEF OInv, TypeOK
    <3>6. Hands'
      BY <1>1, <1>4, <2>2, <2>3, TakesItsTurn
    <3>7. FilesWere'
      BY <1>4 DEF OInv, FilesWere, Was
    <3>8. BatchesAreInOrder'
      <4>1. SUFFICES ASSUME ~overlapped, NEW m \in Issues, NEW i \in DOMAIN batches'[m]
                     PROVE  /\ batches'[m][i].key = batches'[m][i].body
                            /\ \E j, k : Was(m, batches'[m][i].body, j) /\ Was(m, clone[m], k) /\ j <= k
                            /\ \A h \in DOMAIN batches'[m] : h <= i =>
                                 \E j, k : Was(m, batches'[m][h].body, j) /\ Was(m, batches'[m][i].body, k) /\ j <= k
        BY <1>4 DEF BatchesAreInOrder, Was
      <4>2. CASE m # n
        BY <3>4, <4>1, <4>2 DEF OInv, BatchesAreInOrder
      <4>3. CASE m = n
        <5>1. hash = clone[n] /\ body = hash /\ hash # NoFile
          BY <1>2, <1>3, <4>1 DEF ConstantsAssumption
        <5>2. batch = [key |-> hash, body |-> hash]
          BY <5>1
        <5>3. batches[n] \in Seq(BatchRow)
          BY <1>1, <3>2
        <5>4. batches'[n] = Append(batches[n], [key |-> hash, body |-> hash])
          BY <3>4, <5>2
        <5> HIDE DEF batch
        <5>5. [key |-> hash, body |-> hash] \in BatchRow /\ batches'[n] \in Seq(BatchRow)
          BY <3>1, <3>3, <3>4, <5>2
        <5>6. \A g \in DOMAIN batches'[n] :
                /\ batches'[n][g].key = batches'[n][g].body
                /\ \E j, k : Was(n, batches'[n][g].body, j) /\ Was(n, clone[n], k) /\ j <= k
                /\ \A h \in DOMAIN batches'[n] : h <= g =>
                     \E j, k : Was(n, batches'[n][h].body, j) /\ Was(n, batches'[n][g].body, k) /\ j <= k
          BY <1>1, <4>1, <5>1, <5>3, <5>4, <5>5, BatchInOrder
        <5> QED BY <4>1, <4>3, <5>6
      <4> QED BY <4>2, <4>3
    <3> QED BY <3>5, <3>6, <3>7, <3>8 DEF OInv, Hands
  <2> QED BY <2>1, <2>4, <2>5
<1> QED BY <1>5, <1>6

LEMMA FetchOrder == ASSUME OInv, IInv', ConstantsAssumption, NEW s \in Syncs, Fetch(s) PROVE OInv'
<1>1. /\ UNCHANGED <<history, issues, batches, up, baselines, overlapped, troubles>>
      /\ clone' = [n \in Issues |-> Current(n)] /\ Running(s) /\ List(s, clone')
  BY DEF Fetch, tables, Running
<1>2. ASSUME NEW n \in Issues
      PROVE  /\ Len(history[n]) \in DOMAIN history[n] /\ Was(n, clone'[n], Len(history[n]))
             /\ clone'[n] \in Contents /\ DOMAIN history[n] = 1..Len(history[n])
  <2>1. history[n] \in Seq(Contents) /\ history[n] # <<>>
    BY DEF OInv, IInv, Shape
  <2>2. Len(history[n]) \in 1..Len(history[n]) /\ DOMAIN history[n] = 1..Len(history[n])
    BY <2>1, LenProperties, EmptySeq
  <2> QED BY <1>1, <2>1, <2>2, ElementOfSeq DEF Current, Was
<1>3. TypeOK'
  BY <1>1, TroublesType, TypesKept
<1>4. /\ sync' \in [Syncs -> SyncRow] /\ \A t \in Syncs : t # s => sync'[t] = sync[t]
      /\ HandIsFull(sync'[s], clone') /\ HandIsOfOneFile(sync'[s], clone')
  BY <1>1, ListIsFull
<1>5. OneAtATime'
  BY <1>1, <1>4 DEF OInv, OneAtATime, Running
<1>6. FilesWere'
  BY <1>1, <1>2 DEF FilesWere, Was
<1>7. ASSUME NEW t \in Syncs PROVE HandIsFull(sync[t], clone)'
  <2>1. CASE t = s
    BY <1>4, <2>1
  <2>2. CASE t # s
    <3>1. HandIsFull(sync[t], clone) /\ sync'[t] = sync[t] /\ sync[t] \in SyncRow
      BY <1>4, <2>2, SyncTypes DEF OInv, HandsAreFull
    <3>2. clone \in [Issues -> Contents \cup {NoFile}]
      BY DEF OInv, TypeOK
    <3>3. sync[t].todo \subseteq Issues
      BY <3>1 DEF SyncRow, SyncState
    <3>4. ASSUME NEW n \in sync[t].todo PROVE clone'[n] # NoFile
      BY <1>2, <3>3, <3>4 DEF ConstantsAssumption
    <3> QED BY <3>1, <3>4 DEF HandIsFull
  <2> QED BY <2>1, <2>2
<1>8. HandsAreOfOneFile'
  <2>1. SUFFICES ASSUME ~overlapped, NEW t \in Syncs PROVE HandIsOfOneFile(sync'[t], clone')
    BY <1>1 DEF HandsAreOfOneFile
  <2>2. CASE t = s
    BY <1>4, <2>2
  <2>3. CASE t # s
    <3>1. sync'[t].pc = "idle"
      BY <1>1, <1>4, <2>1, <2>3 DEF OInv, OneAtATime, Running
    <3> QED BY <3>1 DEF HandIsOfOneFile
  <2> QED BY <2>2, <2>3
<1>9. BatchesAreInOrder'
  <2>1. SUFFICES ASSUME ~overlapped, NEW n \in Issues, NEW i \in DOMAIN batches[n]
                 PROVE  \E j, k : Was(n, batches[n][i].body, j) /\ Was(n, clone'[n], k) /\ j <= k
    BY <1>1 DEF OInv, BatchesAreInOrder, Was
  <2>2. PICK j : Was(n, batches[n][i].body, j)
    BY <2>1 DEF OInv, BatchesAreInOrder
  <2>3. Len(history[n]) \in Nat
    BY LenProperties DEF OInv, TypeOK
  <2>4. j <= Len(history[n])
    BY <1>2, <2>2, <2>3 DEF Was
  <2> QED BY <1>2, <2>2, <2>4
<1> QED BY <1>3, <1>5, <1>6, <1>7, <1>8, <1>9 DEF OInv, HandsAreFull

LEMMA StartOrder == ASSUME OInv, IInv', Start PROVE OInv'
<1>1. UNCHANGED <<history, clone, issues, batches, baselines, overlapped, troubles>> /\ up' = TRUE /\ ~up
  BY DEF Start, tables
<1>2. sync \in [Syncs -> SyncRow] /\ \A s \in Syncs : ~Running(s)
  BY <1>1, SyncTypes DEF OInv, OneAtATime
<1>3. TypeOK'
  BY <1>1, TroublesType, TypesKept
<1>4. FilesWere' /\ BatchesAreInOrder'
  BY <1>1, SameHistory, OrderKept
<1>5. CASE UNCHANGED sync
  BY <1>1, <1>3, <1>4, <1>5 DEF OInv, HandsAreFull, HandsAreOfOneFile, OneAtATime, Running
<1>6. ASSUME NEW s \in Syncs, sync' = [sync EXCEPT ![s].pc = "fetch"] PROVE OInv'
  <2>1. /\ sync' \in [Syncs -> SyncRow] /\ sync'[s].pc = "fetch"
        /\ \A t \in Syncs : t # s => sync'[t] = sync[t]
    BY <1>2, <1>6, ChangesPc
  <2>2. HandsAreFull' /\ HandsAreOfOneFile'
    BY <1>1, <2>1 DEF OInv, HandsAreFull, HandsAreOfOneFile, HandIsFull, HandIsOfOneFile
  <2>3. OneAtATime'
    BY <1>1, <1>2, <2>1 DEF OneAtATime, Running
  <2> QED BY <1>3, <1>4, <2>2, <2>3 DEF OInv
<1> QED BY <1>5, <1>6 DEF Start

LEMMA StopOrder == ASSUME OInv, IInv', ConstantsAssumption, Stop PROVE OInv'
<1>1. UNCHANGED <<history, clone, issues, batches, baselines, overlapped>> /\ up' = FALSE
  BY DEF Stop, tables
<1>2. \A s \in Syncs : sync'[s].pc = "idle"
  BY IdleType DEF Stop
<1>3. troubles' \in 0..MaxTroubles
  BY TroublesType DEF Stop, ConstantsAssumption
<1>4. TypeOK'
  BY <1>1, <1>3, TroublesType, TypesKept
<1>5. FilesWere' /\ BatchesAreInOrder'
  BY <1>1, SameHistory, OrderKept
<1>6. HandsAreFull' /\ HandsAreOfOneFile' /\ OneAtATime'
  BY <1>2 DEF HandsAreFull, HandsAreOfOneFile, OneAtATime, HandIsFull, HandIsOfOneFile, Running
<1> QED BY <1>4, <1>5, <1>6 DEF OInv

LEMMA EditOrder == ASSUME OInv, IInv', NEW n \in Issues, Edit(n) PROVE OInv'
<1>1. PICK c \in Contents : history' = [history EXCEPT ![n] = Append(@, c)]
  BY DEF Edit
<1>2. UNCHANGED <<clone, issues, batches, sync, up, baselines, overlapped, troubles>>
  BY DEF Edit, tables
<1>3. history \in [Issues -> Seq(Contents)]
  BY DEF OInv, TypeOK
<1>4. Longer
  <2> SUFFICES ASSUME NEW m \in Issues, NEW k \in DOMAIN history[m]
               PROVE  k \in DOMAIN history'[m] /\ history'[m][k] = history[m][k]
    BY DEF Longer
  <2>1. CASE m # n
    BY <1>1, <1>3, <2>1
  <2>2. CASE m = n
    <3>1. history[n] \in Seq(Contents) /\ history'[n] = Append(history[n], c)
      BY <1>1, <1>3
    <3>2. /\ Len(history'[n]) = Len(history[n]) + 1 /\ Len(history[n]) \in Nat
          /\ DOMAIN history[n] = 1..Len(history[n]) /\ DOMAIN history'[n] = 1..Len(history'[n])
          /\ \A i \in 1..Len(history[n]) : history'[n][i] = history[n][i]
      BY <3>1, AppendProperties, LenProperties
    <3> QED BY <2>2, <3>2
  <2> QED BY <2>1, <2>2
<1>5. TypeOK'
  BY <1>2, TroublesType, TypesKept
<1>6. FilesWere' /\ BatchesAreInOrder'
  BY <1>2, <1>4, OrderKept
<1> QED BY <1>2, <1>5, <1>6 DEF OInv, HandsAreFull, HandsAreOfOneFile, OneAtATime, Running

LEMMA InitOrder == ASSUME Init, ConstantsAssumption PROVE OInv
<1>1. IInv
  BY InitInv
<1>2. TypeOK
  <2>1. /\ history \in [Issues -> Seq(Contents)] /\ sync \in [Syncs -> SyncState]
        /\ clone \in [Issues -> Contents \cup {NoFile}]
    BY <1>1 DEF IInv, Shape, SyncRow
  <2>2. batches \in [Issues -> Seq([key : Contents, body : Contents])]
    BY DEF Init
  <2>3. issues \in [Issues -> Contents \cup {NoRow, NoHash}] /\ baselines \in [Issues -> SUBSET Contents]
    BY DEF Init
  <2>4. up = FALSE /\ overlapped = FALSE /\ troubles = 0 /\ MaxTroubles \in Nat
    BY DEF Init, ConstantsAssumption
  <2>5. troubles \in 0..MaxTroubles
    BY <2>4
  <2> QED BY <2>1, <2>2, <2>3, <2>4, <2>5 DEF TypeOK
<1>3. \A s \in Syncs : sync[s].pc = "idle"
  BY IdleType DEF Init
<1>4. HandsAreFull /\ OneAtATime /\ HandsAreOfOneFile
  BY <1>3 DEF HandsAreFull, OneAtATime, HandsAreOfOneFile, HandIsFull, HandIsOfOneFile, Running
<1>5. FilesWere /\ BatchesAreInOrder
  BY DEF Init, FilesWere, BatchesAreInOrder
<1> QED BY <1>1, <1>2, <1>4, <1>5 DEF OInv

LEMMA OrderStep == ASSUME OInv, ConstantsAssumption, [Next]_vars PROVE OInv'
<1>1. IInv'
  BY InvStep DEF OInv
<1>2. CASE UNCHANGED vars
  <2>1. UNCHANGED <<history, clone, issues, batches, sync, up, baselines, overlapped, troubles>>
    BY <1>2 DEF vars, tables
  <2>2. TypeOK'
    BY <1>1, <2>1, TroublesType, TypesKept
  <2>3. FilesWere' /\ BatchesAreInOrder'
    BY <2>1, SameHistory, OrderKept
  <2> QED BY <1>1, <2>1, <2>2, <2>3 DEF OInv, HandsAreFull, HandsAreOfOneFile, OneAtATime, Running
<1>3. ASSUME NEW s \in Syncs, Trigger(s) \/ Fetch(s) \/ FetchFails(s) \/ Step(s) \/ IssueFails(s)
      PROVE  OInv'
  BY <1>1, <1>3, TriggerOrder, FetchOrder, FetchFailsOrder, ReadHashOrder, DecideOrder, ParseOrder, EnqueueOrder,
     RecordOrder, IssueFailsOrder DEF Step
<1> QED BY <1>1, <1>2, <1>3, StartOrder, StopOrder, EditOrder DEF Next

\* While no synchronisation runs the process may be somebody else's.
LEMMA Untouched ==
  ASSUME OInv, UNCHANGED <<history, clone, issues, batches, sync, baselines, overlapped>>,
         up' \in BOOLEAN, troubles' \in 0..MaxTroubles, \A s \in Syncs : sync[s].pc = "idle"
  PROVE  OInv'
<1>1. IInv'
  BY SyncTypes, Unseen DEF OInv
<1>2. TypeOK'
  BY <1>1, TroublesType, TypesKept
<1>3. FilesWere' /\ BatchesAreInOrder'
  BY SameHistory, OrderKept
<1>4. HandsAreFull' /\ HandsAreOfOneFile' /\ OneAtATime'
  BY DEF OInv, HandsAreFull, HandsAreOfOneFile, OneAtATime, Running
<1> QED BY <1>1, <1>2, <1>3, <1>4 DEF OInv

\* A text that was there once has the age of its place.
LEMMA AgeOfOne ==
  ASSUME NEW n \in Issues, ~Returned(n), NEW text, NEW k, Was(n, text, k), k \in Nat
  PROVE  Age(n, text) = k
<1>1. {i \in DOMAIN history[n] : history[n][i] = text} = {k}
  BY DEF Returned, Was
<1>2. Min({k}) \in {k}
  BY SmallestIssue
<1> QED BY <1>1, <1>2 DEF Age

LEMMA OrderMeansNotBehind == ASSUME OInv PROVE QueueIsNotBehind
<1> SUFFICES ASSUME ~overlapped, NEW n \in Issues, Queued(n), ~Empty(n), ~Returned(n)
             PROVE  Age(n, batches[n][Len(batches[n])].body) >= Age(n, issues[n])
  BY DEF QueueIsNotBehind
<1> DEFINE last == Len(batches[n])
<1>1. history[n] \in Seq(Contents) /\ batches[n] \in Seq(BatchRow)
  BY DEF OInv, IInv, Shape
<1>2. /\ Len(history[n]) \in Nat /\ DOMAIN history[n] = 1..Len(history[n])
      /\ last \in Nat /\ DOMAIN batches[n] = 1..last
  BY <1>1, LenProperties
<1>3. PICK i \in DOMAIN batches[n] : batches[n][i].key = issues[n]
  BY DEF OInv, IInv, RecordedWasQueued
<1>4. last \in DOMAIN batches[n] /\ i <= last
  BY <1>2, <1>3
<1> HIDE DEF last
<1>5. batches[n][i].body = issues[n]
  BY <1>3 DEF OInv, BatchesAreInOrder
<1>6. PICK j, k : Was(n, batches[n][i].body, j) /\ Was(n, batches[n][last].body, k) /\ j <= k
  BY <1>4 DEF OInv, BatchesAreInOrder
<1>7. j \in Nat /\ k \in Nat
  BY <1>2, <1>6 DEF Was
<1>8. Age(n, issues[n]) = j
  BY <1>5, <1>6, <1>7, AgeOfOne
<1>9. Age(n, batches[n][last].body) = k
  BY <1>6, <1>7, AgeOfOne
<1> QED BY <1>6, <1>7, <1>8, <1>9 DEF last

LEMMA OrderHolds == ASSUME ConstantsAssumption PROVE Spec => []OInv
<1>1. Init => OInv
  BY InitOrder
<1>2. OInv /\ [Next]_vars => OInv'
  BY OrderStep
<1> QED BY <1>1, <1>2, PTL DEF Spec

\* Texts are texts: what is recorded or queued of an issue was in the working copy.
THEOREM TypesHold == ASSUME ConstantsAssumption PROVE Spec => []TypeOK
<1>1. OInv => TypeOK
  BY DEF OInv
<1> QED BY <1>1, OrderHolds, PTL

\* As long as synchronisations do not overlap and a text does not return, the newest batch
\* of an issue is at least as new as what weekly_issues says was queued, whatever fails.
THEOREM QueueFollows == ASSUME ConstantsAssumption PROVE Spec => []QueueIsNotBehind
<1>1. OInv => QueueIsNotBehind
  BY OrderMeansNotBehind
<1> QED BY <1>1, OrderHolds, PTL
=============================================================================
