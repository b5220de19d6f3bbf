--------------------------- MODULE Collectors_proofs ---------------------------
(***************************************************************************)
(* What holds of the scheduler's locks for any number of goroutines, pages *)
(* and looks, and however often a collector fails or the process ends.     *)
(***************************************************************************)
EXTENDS Collectors, TLAPS

RunnerState ==
  [pc : {"idle", "fetch", "volume", "enqueue", "unlock"}, job : Jobs, page : Nat, look : Looks \cup {Blank}]

\* What the goroutines read is where they look for it, and what they hand over was read.
Shape ==
  /\ pages \in [1..MaxPages -> Looks \cup {Blank}]
  /\ newest \in [number : 1..MaxVolume, look : Looks]
  /\ \A r \in Runners : runner[r].pc # "idle" /\ runner[r].job = "featured" => runner[r].page \in 1..MaxPages
  /\ \A r \in Runners : runner[r].job = "reconcile" => runner[r].page \in 0..MaxVolume
  /\ \A r \in Runners : At(r, HelloGitHubJobs, "enqueue") => runner[r].look \in Looks

\* Whoever is inside has the lock, nobody shares it, and no lock is left behind.
LocksAreHeld ==
  /\ runner \in [Runners -> RunnerState]
  /\ \A r \in Runners : Inside(r) => LockOf(runner[r].job) \in running
  /\ \A r, t \in Runners :
       Inside(r) /\ Inside(t) /\ LockOf(runner[r].job) = LockOf(runner[t].job) => r = t
  /\ \A l \in running : \E r \in Runners : Inside(r) /\ LockOf(runner[r].job) = l

\* Nobody enters, leaves or changes the job.
SameOccupants ==
  /\ runner' \in [Runners -> RunnerState]
  /\ \A r \in Runners : (runner'[r].pc # "idle" <=> runner[r].pc # "idle") /\ runner'[r].job = runner[r].job

\* A goroutine that moves on inside its job.
LEMMA MovesOn ==
  ASSUME runner \in [Runners -> RunnerState], NEW r \in Runners, runner[r].pc # "idle",
         NEW new \in RunnerState, new.pc # "idle", new.job = runner[r].job,
         runner' = [runner EXCEPT ![r] = new]
  PROVE  SameOccupants
  BY DEF SameOccupants

\* Two jobs shut each other out exactly if they take the same lock.
LEMMA RivalsShareTheLock ==
  ASSUME NEW r \in Runners, NEW t \in Runners, runner \in [Runners -> RunnerState], Rivals(r, t)
  PROVE  LockOf(runner[r].job) = LockOf(runner[t].job)
<1>1. runner[r].job \in Jobs /\ runner[t].job \in Jobs
  BY DEF RunnerState
<1> QED BY <1>1 DEF Rivals, LockOf, HelloGitHubJobs, Jobs

LEMMA LocksKept ==
  ASSUME LocksAreHeld, SameOccupants, running' = running
  PROVE  LocksAreHeld'
<1>1. \A r \in Runners : (Inside(r)' <=> Inside(r)) /\ LockOf(runner'[r].job) = LockOf(runner[r].job)
  BY DEF SameOccupants, Inside
<1>2. runner' \in [Runners -> RunnerState]
  BY DEF SameOccupants
<1> QED BY <1>1, <1>2 DEF LocksAreHeld

\* The steps between the lock and its release change no occupant.
LEMMA WorkStep ==
  ASSUME LocksAreHeld, Shape, ConstantsAssumption, NEW r \in Runners,
         \/ FetchRows(r) \/ FetchStories(r) \/ FetchPage(r) \/ Probe(r) \/ FetchVolume(r)
         \/ EnqueueLook(r) \/ EnqueueRows(r) \/ EnqueueStories(r) \/ FetchFails(r) \/ EnqueueFails(r)
  PROVE  LocksAreHeld' /\ Shape'
<1> DEFINE now == runner[r]
<1>1. runner \in [Runners -> RunnerState] /\ now \in RunnerState
  BY DEF LocksAreHeld
<1>2. running' = running /\ now.pc # "idle" /\ pages' = pages /\ newest' = newest
  BY DEF FetchRows, FetchStories, FetchPage, Probe, FetchVolume, EnqueueLook, EnqueueRows, EnqueueStories,
         FetchFails, EnqueueFails, At, upstream
\* A goroutine in a job that is not the featured list, or at a page there is.
<1>3. ASSUME NEW new \in RunnerState, new.pc # "idle", new.job = now.job,
             new.job = "featured" => new.page \in 1..MaxPages,
             new.job = "reconcile" => new.page \in 0..MaxVolume,
             new.job \in HelloGitHubJobs /\ new.pc = "enqueue" => new.look \in Looks,
             runner' = [runner EXCEPT ![r] = new]
      PROVE  LocksAreHeld' /\ Shape'
  <2>1. SameOccupants
    BY <1>1, <1>2, <1>3, MovesOn
  <2>2. \A t \in Runners : runner'[t].pc # "idle" /\ runner'[t].job = "featured" =>
                             runner'[t].page \in 1..MaxPages
    BY <1>1, <1>3 DEF Shape
  <2>3. \A t \in Runners : runner'[t].job = "reconcile" => runner'[t].page \in 0..MaxVolume
    BY <1>1, <1>3 DEF Shape
  <2>4. \A t \in Runners : At(t, HelloGitHubJobs, "enqueue")' => runner'[t].look \in Looks
    BY <1>1, <1>3 DEF Shape, At
  <2> QED BY <1>2, <2>1, <2>2, <2>3, <2>4, LocksKept DEF Shape
<1>4. /\ now.job = "featured" => now.page \in 1..MaxPages
      /\ now.job = "reconcile" => now.page \in 0..MaxVolume
  BY <1>2 DEF Shape
<1>5. ASSUME NEW p \in {"fetch", "volume", "enqueue", "unlock"}, GoTo(r, p),
             p = "enqueue" => now.job \notin HelloGitHubJobs
      PROVE  LocksAreHeld' /\ Shape'
  <2> DEFINE new == [now EXCEPT !.pc = p]
  <2>1. new \in RunnerState /\ new.pc = p /\ new.job = now.job /\ new.page = now.page
    BY <1>1 DEF RunnerState
  <2>2. runner' = [runner EXCEPT ![r] = new]
    BY <1>5 DEF GoTo
  <2> HIDE DEF new, now
  <2> QED BY <1>3, <1>4, <1>5, <2>1, <2>2
<1>6. ASSUME NEW p \in {"fetch", "volume", "unlock"}, NEW n \in Nat,
             now.job = "featured" => n \in 1..MaxPages,
             now.job = "reconcile" => n \in 0..MaxVolume,
             runner' = [runner EXCEPT ![r].pc = p, ![r].page = n]
      PROVE  LocksAreHeld' /\ Shape'
  <2> DEFINE new == [now EXCEPT !.pc = p, !.page = n]
  <2>1. new \in RunnerState /\ new.pc = p /\ new.job = now.job /\ new.page = n
    BY <1>1 DEF RunnerState
  <2>2. runner' = [runner EXCEPT ![r] = new]
    BY <1>1, <1>6 DEF RunnerState
  <2> HIDE DEF new, now
  <2> QED BY <1>3, <1>6, <2>1, <2>2
<1>7. ASSUME NEW l \in Looks, Carry(r, l)
      PROVE  LocksAreHeld' /\ Shape'
  <2> DEFINE new == [now EXCEPT !.pc = "enqueue", !.look = l]
  <2>1. new \in RunnerState /\ new.pc = "enqueue" /\ new.job = now.job /\ new.page = now.page /\ new.look = l
    BY <1>1 DEF RunnerState
  <2>2. runner' = [runner EXCEPT ![r] = new]
    BY <1>1, <1>7 DEF Carry, RunnerState
  <2> HIDE DEF new, now
  <2> QED BY <1>3, <1>4, <2>1, <2>2
<1>8. CASE \/ FetchRows(r) \/ FetchStories(r) \/ EnqueueRows(r) \/ EnqueueStories(r)
           \/ FetchFails(r) \/ EnqueueFails(r)
  <2>1. (GoTo(r, "enqueue") /\ now.job \notin HelloGitHubJobs) \/ GoTo(r, "unlock")
    BY <1>8 DEF FetchRows, FetchStories, EnqueueRows, EnqueueStories, FetchFails, EnqueueFails, At, HelloGitHubJobs
  <2> QED BY <1>5, <2>1
<1>9. CASE FetchPage(r)
  <2>1. pages[runner[r].page] \in Looks \cup {Blank}
    BY <1>4, <1>9 DEF FetchPage, At, Shape, now
  <2>2. \/ GoTo(r, "unlock")
        \/ Carry(r, pages[runner[r].page]) /\ pages[runner[r].page] # Blank
    BY <1>9 DEF FetchPage
  <2> QED BY <1>5, <1>7, <2>1, <2>2
<1>10. CASE Probe(r)
  <2>1. newest.number \in Nat /\ newest.number \in 0..MaxVolume /\ newest.look \in Looks
    BY DEF Shape, ConstantsAssumption
  <2>2. now.job # "featured"
    BY <1>10 DEF Probe, At
  <2>3. \/ Carry(r, newest.look)
        \/ runner' = [runner EXCEPT ![r].pc = "volume", ![r].page = newest.number]
    BY <1>10 DEF Probe
  <2> QED BY <1>6, <1>7, <2>1, <2>2, <2>3
<1>11. CASE FetchVolume(r)
  <2>1. PICK look \in Looks : Carry(r, look)
    BY <1>11 DEF FetchVolume
  <2> QED BY <1>7, <2>1
<1>12. CASE EnqueueLook(r)
  <2>1. CASE GoTo(r, "unlock")
    BY <1>5, <2>1
  <2>2. CASE /\ runner[r].job = "featured" /\ MorePages(r)
             /\ runner' = [runner EXCEPT ![r].pc = "fetch", ![r].page = @ + 1]
    <3>1. now.job # "reconcile" /\ now.page + 1 \in Nat /\ now.page + 1 \in 1..MaxPages
      BY <1>4, <2>2 DEF MorePages, ConstantsAssumption
    <3>2. runner' = [runner EXCEPT ![r].pc = "fetch", ![r].page = now.page + 1]
      BY <1>1, <2>2 DEF RunnerState
    <3> QED BY <1>6, <3>1, <3>2
  <2> QED BY <1>12, <2>1, <2>2 DEF EnqueueLook
<1> QED BY <1>8, <1>9, <1>10, <1>11, <1>12

LEMMA TriggerStep ==
  ASSUME LocksAreHeld, Shape, ConstantsAssumption, NEW r \in Runners, NEW j \in Jobs, Trigger(r, j)
  PROVE  LocksAreHeld' /\ Shape'
<1> DEFINE new == [pc |-> "fetch", job |-> j, page |-> 1, look |-> Blank]
<1>1. /\ ~Inside(r) /\ LockOf(j) \notin running /\ running' = running \cup {LockOf(j)}
      /\ runner' = [runner EXCEPT ![r] = new] /\ pages' = pages /\ newest' = newest
  BY DEF Trigger, Inside, upstream
<1>2. new \in RunnerState /\ new.pc = "fetch" /\ new.job = j /\ new.page = 1 /\ 1 \in 1..MaxPages /\ 1 \in 0..MaxVolume
  BY DEF RunnerState, ConstantsAssumption
<1> HIDE DEF new
<1>3. /\ runner' \in [Runners -> RunnerState] /\ runner'[r] = new
      /\ \A t \in Runners : t # r => runner'[t] = runner[t]
  BY <1>1, <1>2 DEF LocksAreHeld
<1>4. \A t \in Runners : Inside(t) => LockOf(runner[t].job) # LockOf(j)
  BY <1>1 DEF LocksAreHeld
<1>5. LocksAreHeld'
  <2>1. \A t \in Runners : Inside(t)' <=> (t = r \/ Inside(t))
    BY <1>2, <1>3 DEF Inside
  <2>2. \A t \in Runners : Inside(t)' => LockOf(runner'[t].job) \in running'
    BY <1>1, <1>2, <1>3, <2>1 DEF LocksAreHeld
  <2>3. ASSUME NEW t \in Runners, NEW u \in Runners, Inside(t)', Inside(u)',
               LockOf(runner'[t].job) = LockOf(runner'[u].job)
        PROVE  t = u
    BY <1>2, <1>3, <1>4, <2>1, <2>3 DEF LocksAreHeld
  <2>4. ASSUME NEW l \in running'
        PROVE  \E t \in Runners : Inside(t)' /\ LockOf(runner'[t].job) = l
    <3>1. CASE l = LockOf(j)
      BY <1>2, <1>3, <2>1, <3>1
    <3>2. CASE l \in running
      <4>1. PICK t \in Runners : Inside(t) /\ LockOf(runner[t].job) = l
        BY <3>2 DEF LocksAreHeld
      <4> QED BY <1>1, <1>3, <2>1, <4>1
    <3> QED BY <1>1, <2>4, <3>1, <3>2
  <2> QED BY <1>3, <2>2, <2>3, <2>4 DEF LocksAreHeld
<1>6. Shape'
  BY <1>1, <1>2, <1>3 DEF Shape, At
<1> QED BY <1>5, <1>6

LEMMA UnlockStep ==
  ASSUME LocksAreHeld, Shape, ConstantsAssumption, NEW r \in Runners, Unlock(r)
  PROVE  LocksAreHeld' /\ Shape'
<1>1. /\ Inside(r) /\ running' = running \ {LockOf(runner[r].job)}
      /\ runner' = [runner EXCEPT ![r] = Resting] /\ pages' = pages /\ newest' = newest
  BY DEF Unlock, Inside, upstream
<1>2. Resting \in RunnerState /\ Resting.pc = "idle" /\ Resting.job = "zread"
  BY DEF Resting, RunnerState, Jobs
<1>3. /\ runner' \in [Runners -> RunnerState] /\ runner'[r] = Resting
      /\ \A t \in Runners : t # r => runner'[t] = runner[t]
  BY <1>1, <1>2 DEF LocksAreHeld
<1>4. \A t \in Runners : Inside(t)' <=> (t # r /\ Inside(t))
  BY <1>2, <1>3 DEF Inside
<1>5. \A t \in Runners : Inside(t)' => LockOf(runner'[t].job) \in running'
  BY <1>1, <1>3, <1>4 DEF LocksAreHeld
<1>6. ASSUME NEW t \in Runners, NEW u \in Runners, Inside(t)', Inside(u)',
             LockOf(runner'[t].job) = LockOf(runner'[u].job)
      PROVE  t = u
  BY <1>3, <1>4, <1>6 DEF LocksAreHeld
<1>7. ASSUME NEW l \in running'
      PROVE  \E t \in Runners : Inside(t)' /\ LockOf(runner'[t].job) = l
  <2>1. PICK t \in Runners : Inside(t) /\ LockOf(runner[t].job) = l
    BY <1>1, <1>7 DEF LocksAreHeld
  <2>2. t # r
    BY <1>1, <1>7, <2>1
  <2> QED BY <1>3, <1>4, <2>1, <2>2
<1>8. LocksAreHeld'
  BY <1>3, <1>5, <1>6, <1>7 DEF LocksAreHeld
<1>9. Shape'
  BY <1>1, <1>2, <1>3 DEF Shape, At
<1> QED BY <1>8, <1>9

LEMMA InitLocks == ASSUME Init, ConstantsAssumption PROVE LocksAreHeld /\ Shape
<1>1. Resting \in RunnerState /\ Resting.pc = "idle" /\ Resting.job = "zread"
  BY DEF Resting, RunnerState, Jobs
<1>2. LocksAreHeld
  BY <1>1 DEF Init, LocksAreHeld, Inside
<1>3. Shape
  BY <1>1 DEF Init, Shape, At, Resting, ConstantsAssumption
<1> QED BY <1>2, <1>3

LEMMA LocksStep ==
  ASSUME LocksAreHeld, Shape, ConstantsAssumption, [Next]_vars
  PROVE  LocksAreHeld' /\ Shape'
<1>1. CASE UNCHANGED vars
  BY <1>1 DEF vars, upstream, LocksAreHeld, Shape, At, Inside
<1>2. CASE Start
  BY <1>2 DEF Start, upstream, LocksAreHeld, Shape, At, Inside
<1>3. CASE Stop
  <2>1. Resting \in RunnerState /\ Resting.pc = "idle" /\ Resting.job = "zread"
    BY DEF Resting, RunnerState, Jobs
  <2> QED BY <1>3, <2>1 DEF Stop, upstream, LocksAreHeld, Shape, At, Inside
<1>4. CASE \E p \in 1..MaxPages : EditPage(p)
  <2>1. pages' \in [1..MaxPages -> Looks \cup {Blank}]
    BY <1>4 DEF EditPage, Shape
  <2> QED BY <1>4, <2>1 DEF EditPage, LocksAreHeld, Shape, At, Inside
<1>5. CASE Release \/ EditVolume
  <2>1. newest' \in [number : 1..MaxVolume, look : Looks]
    <3>1. CASE Release
      BY <3>1 DEF Release, Shape, ConstantsAssumption
    <3>2. CASE EditVolume
      BY <3>2 DEF EditVolume, Shape
    <3> QED BY <1>5, <3>1, <3>2
  <2> QED BY <1>5, <2>1 DEF Release, EditVolume, LocksAreHeld, Shape, At, Inside
<1>6. CASE \E r \in Runners : Step(r) \/ FetchFails(r) \/ EnqueueFails(r)
  BY <1>6, WorkStep, UnlockStep DEF Step
<1> QED BY <1>1, <1>2, <1>3, <1>4, <1>5, <1>6, TriggerStep DEF Next

\* Rivals have one lock, so turns about the locks are turns about the jobs.
LEMMA LocksMeanTurns == ASSUME LocksAreHeld PROVE CollectorsTakeTurns
  BY RivalsShareTheLock DEF LocksAreHeld, CollectorsTakeTurns

\* However many goroutines cron, the admins and a first start send, and whatever fails on
\* the way: rivals never run together, and every lock that is taken has somebody inside
\* who will release it.
THEOREM CollectorsTakeTheirTurns == ASSUME ConstantsAssumption PROVE Spec => []CollectorsTakeTurns
<1>1. Init => LocksAreHeld /\ Shape
  BY InitLocks
<1>2. LocksAreHeld /\ Shape /\ [Next]_vars => (LocksAreHeld /\ Shape)'
  BY LocksStep
<1>3. LocksAreHeld => CollectorsTakeTurns
  BY LocksMeanTurns
<1> QED BY <1>1, <1>2, <1>3, PTL DEF Spec

\* What is not about locks.
Kept == LocksAreHeld /\ Shape /\ TypeOK

\* A page of HelloGitHub gets a key.
LEMMA KeyType ==
  ASSUME LocksAreHeld, Shape, ConstantsAssumption, NEW r \in Runners, At(r, HelloGitHubJobs, "enqueue")
  PROVE  KeyOf(r) \in KeyRows
<1>1. runner[r].look \in Looks /\ runner[r].job \in {"featured", "reconcile"}
  BY DEF Shape, At, HelloGitHubJobs
<1>2. CASE runner[r].job = "featured"
  <2>1. 0 \in 0..MaxVolume
    BY DEF ConstantsAssumption
  <2> QED BY <1>1, <1>2, <2>1 DEF KeyOf, KeyRows
<1>3. CASE runner[r].job = "reconcile"
  BY <1>1, <1>3 DEF Shape, KeyOf, KeyRows
<1> QED BY <1>1, <1>2, <1>3

LEMMA TypeStep == ASSUME Kept, ConstantsAssumption, [Next]_vars PROVE Kept'
<1>1. LocksAreHeld' /\ Shape'
  BY LocksStep DEF Kept
<1>2. keys' \subseteq KeyRows
  <2>1. CASE \E r \in Runners : EnqueueLook(r)
    <3>1. PICK r \in Runners : EnqueueLook(r)
      BY <2>1
    <3>2. At(r, HelloGitHubJobs, "enqueue")
      BY <3>1 DEF EnqueueLook, HelloGitHubJobs
    <3>3. KeyOf(r) \in KeyRows
      BY <3>2, KeyType DEF Kept
    <3>4. keys' = keys \/ keys' = keys \cup {KeyOf(r)}
      BY <3>1 DEF EnqueueLook
    <3> QED BY <3>3, <3>4 DEF Kept, TypeOK
  <2>2. CASE UNCHANGED keys
    BY <2>2 DEF Kept, TypeOK
  <2> QED BY <2>1, <2>2 DEF Next, vars, Step, Trigger, FetchRows, FetchStories, FetchPage, Probe, FetchVolume,
           EnqueueRows, EnqueueStories, Unlock, FetchFails, EnqueueFails, EditPage, Release, EditVolume, Start, Stop
<1>3. running' \subseteq Locks
  <2>1. CASE \E r \in Runners, j \in Jobs : Trigger(r, j)
    BY <2>1 DEF Trigger, Kept, TypeOK, LockOf, Locks
  <2>2. CASE running' \subseteq running
    BY <2>2 DEF Kept, TypeOK
  <2>3. ASSUME NEW r \in Runners, Step(r) \/ FetchFails(r) \/ EnqueueFails(r) PROVE running' \subseteq running
    BY <2>3 DEF Step, FetchRows, FetchStories, FetchPage, Probe, FetchVolume, EnqueueLook, EnqueueRows,
                EnqueueStories, Unlock, FetchFails, EnqueueFails
  <2> QED BY <2>1, <2>2, <2>3 DEF Next, vars, EditPage, Release, EditVolume, Start, Stop
<1>4. up' \in BOOLEAN
  <2>1. up \in BOOLEAN
    BY DEF Kept, TypeOK
  <2>2. up' \in {up, TRUE, FALSE}
    BY Zenon DEF Next, vars, Step, Trigger, FetchRows, FetchStories, FetchPage, Probe, FetchVolume, EnqueueLook,
             EnqueueRows, EnqueueStories, Unlock, FetchFails, EnqueueFails, EditPage, Release, EditVolume, Start, Stop
  <2> QED BY <2>1, <2>2
<1>5. troubles' \in 0..MaxTroubles
  <2>1. troubles' = troubles \/ (troubles < MaxTroubles /\ troubles' = troubles + 1)
    BY Zenon DEF Next, vars, Step, Trigger, FetchRows, FetchStories, FetchPage, Probe, FetchVolume, EnqueueLook,
             EnqueueRows, EnqueueStories, Unlock, FetchFails, EnqueueFails, EditPage, Release, EditVolume, Start, Stop
  <2> QED BY <2>1 DEF Kept, TypeOK, ConstantsAssumption
<1>6. edits' \in 0..MaxEdits
  <2>1. edits' = edits \/ (edits < MaxEdits /\ edits' = edits + 1)
    BY Zenon DEF Next, vars, upstream, Step, Trigger, FetchRows, FetchStories, FetchPage, Probe, FetchVolume,
             EnqueueLook, EnqueueRows, EnqueueStories, Unlock, FetchFails, EnqueueFails, EditPage, Release,
             EditVolume, Start, Stop
  <2> QED BY <2>1 DEF Kept, TypeOK, ConstantsAssumption
<1> QED BY <1>1, <1>2, <1>3, <1>4, <1>5, <1>6 DEF Kept, TypeOK, Shape, LocksAreHeld, RunnerState

\* The process may be somebody else's meanwhile.
LEMMA Untouched ==
  ASSUME Kept, UNCHANGED <<pages, newest, edits, running, runner, keys>>,
         up' \in BOOLEAN, troubles' \in 0..MaxTroubles
  PROVE  Kept'
  BY DEF Kept, LocksAreHeld, Shape, TypeOK, At, Inside

LEMMA InitKept == ASSUME Init, ConstantsAssumption PROVE Kept
<1>1. LocksAreHeld /\ Shape
  BY InitLocks
<1>2. keys = {} /\ running = {} /\ up = FALSE
  BY DEF Init
<1>3. edits \in 0..MaxEdits /\ troubles \in 0..MaxTroubles
  BY DEF Init, ConstantsAssumption
<1> QED BY <1>1, <1>2, <1>3 DEF Kept, TypeOK, Shape, LocksAreHeld, RunnerState

\* Keys are made of looks that were there and of volumes there are (KeyOf), and the rest
\* of what the collectors keep is as it should be.
THEOREM TypesHold == ASSUME ConstantsAssumption PROVE Spec => []TypeOK
<1>1. Init => Kept
  BY InitKept
<1>2. Kept /\ [Next]_vars => Kept'
  BY TypeStep
<1>3. Kept => TypeOK
  BY DEF Kept
<1> QED BY <1>1, <1>2, <1>3, PTL DEF Spec
=============================================================================
