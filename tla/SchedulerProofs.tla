-------------------------- MODULE SchedulerProofs --------------------------
(***************************************************************************)
(* The single-flight guard, the worker pool and Shutdown's join, for any    *)
(* number of restarts of the loop, any set of services and any pool size.   *)
(***************************************************************************)
EXTENDS Scheduler, FiniteSetTheorems, TLAPS

\* A loop inside a run has set the guard.
GuardHeld == \A l \in Loops : pc[l] \in Busy => collecting

\* Workers exist only while their batch is launched or waited for.
WorkInBatch == \A l \in Loops : work[l] # {} => pc[l] \in {"launch", "sem", "wait"}

\* A loop that waits for a slot of the pool has a service to launch.
SlugAtHand == \A l \in Loops : pc[l] = "sem" => cur[l] \in Slugs

\* Shutdown takes the current loop, waits for it, then closes the store.
ShutdownOrder ==
  /\ shut # "up" => sched = NoLoop
  /\ storeOpen <=> shut # "closed"
  /\ shut = "closed" /\ joins # NoLoop => pc[joins] = "exited"

SchedInv ==
  /\ TypeOK
  /\ GuardHeld
  /\ SingleFlight
  /\ WorkInBatch
  /\ SlugAtHand
  /\ \A l \in Loops : Cardinality(work[l]) <= Concurrency
  /\ NoForgottenLoop
  /\ ShutdownOrder

\* The pool of a loop that is not running is empty.
LEMMA EmptyPool == Cardinality({}) = 0
  BY FS_EmptySet

\* Adding a worker to a pool with a free slot does not overfill it, and taking one
\* away never does.
LEMMA PoolSteps ==
  ASSUME NEW W \in SUBSET Slugs, NEW s \in Slugs
  PROVE  /\ Cardinality(W) < Concurrency => Cardinality(W \cup {s}) <= Concurrency
         /\ Cardinality(W) <= Concurrency => Cardinality(W \ {s}) <= Concurrency
<1>1. IsFiniteSet(W) BY PoolAssumption, FS_Subset
<1>2. Cardinality(W) \in Nat BY <1>1, FS_CardinalityType
<1>3. Cardinality(W \cup {s}) = IF s \in W THEN Cardinality(W) ELSE Cardinality(W) + 1
  BY <1>1, FS_AddElement
<1>4. Cardinality(W \ {s}) = IF s \in W THEN Cardinality(W) - 1 ELSE Cardinality(W)
  BY <1>1, FS_RemoveElement
<1> QED BY <1>2, <1>3, <1>4, ConcurrencyAssumption

\* Nothing runs at the start.
LEMMA SchedInit == Init => SchedInv
<1> SUFFICES ASSUME Init PROVE SchedInv
  OBVIOUS
<1>1. \A l \in Loops : Cardinality(work[l]) <= Concurrency
  BY EmptyPool, ConcurrencyAssumption DEF Init
<1>2. TypeOK
  BY DEF Init, TypeOK
<1>3. \A l \in Loops : pc[l] = "none" /\ work[l] = {}
  BY DEF Init
<1> QED BY <1>1, <1>2, <1>3
      DEF Init, SchedInv, GuardHeld, SingleFlight, WorkInBatch, SlugAtHand,
          NoForgottenLoop, ShutdownOrder, Busy

\* The loops' own steps.
LEMMA LoopStep ==
  ASSUME SchedInv, NEW l \in Loops, runScheduler(l) \/ Loop(l) \/ Tick(l) \/ Exit(l)
  PROVE  SchedInv'
<1> USE DEF SchedInv, TypeOK, Busy, At, Goto, batch
<1> USE DEF GuardHeld, SingleFlight, WorkInBatch, SlugAtHand, NoForgottenLoop, ShutdownOrder
<1>1. CASE runScheduler(l) BY <1>1, LoopAssumption DEF runScheduler
<1>2. CASE Enter(l) BY <1>2 DEF Enter
<1>3. CASE Skip(l) BY <1>3 DEF Skip
<1>4. CASE NextSlug(l)
  <2>1. /\ pc[l] = "launch"
        /\ UNCHANGED <<cancelled, collecting, sched, fetch, shut, joins, storeOpen, work>>
    BY <1>4 DEF NextSlug
  <2>2. CASE pc' = [pc EXCEPT ![l] = "wait"] /\ todo' = todo /\ cur' = cur /\ aborted' \in [Loops -> BOOLEAN]
    BY <2>1, <2>2
  <2>3. ASSUME NEW s \in todo[l], cur' = [cur EXCEPT ![l] = s], todo' = [todo EXCEPT ![l] = @ \ {s}],
               pc' = [pc EXCEPT ![l] = "sem"], aborted' = aborted
        PROVE  SchedInv'
    BY <2>1, <2>3
  <2> QED BY <1>4, <2>2, <2>3 DEF NextSlug
<1>5. CASE Acquire(l)
  <2>1. /\ cur[l] \in Slugs /\ work[l] \in SUBSET Slugs
        /\ Cardinality(work[l] \cup {cur[l]}) <= Concurrency
    BY <1>5, PoolSteps DEF Acquire
  <2> QED BY <1>5, <2>1 DEF Acquire
<1>6. CASE Wait(l)
  <2>1. CASE aborted[l]
    <3>1. /\ pc[l] = "wait" /\ work[l] = {}
          /\ pc' = [pc EXCEPT ![l] = "select"] /\ collecting' = FALSE
          /\ UNCHANGED <<cancelled, todo, cur, work, aborted, sched, fetch, shut, joins, storeOpen>>
      BY <1>6, <2>1 DEF Wait
    <3>2. \A m \in Loops : pc'[m] \notin Busy BY <3>1
    <3>3. GuardHeld' /\ SingleFlight' BY <3>2
    <3>4. TypeOK' /\ WorkInBatch' /\ SlugAtHand' BY <3>1
    <3>5. NoForgottenLoop' /\ ShutdownOrder' BY <3>1
    <3> QED BY <3>1, <3>3, <3>4, <3>5
  <2>2. CASE ~aborted[l] BY <1>6, <2>2 DEF Wait
  <2> QED BY <2>1, <2>2
<1>7. CASE AfterBatch(l)
  <2>1. CASE At(l, "health") BY <1>7, <2>1 DEF AfterBatch
  <2>2. CASE At(l, "purge") BY <1>7, <2>2 DEF AfterBatch
  <2>3. CASE At(l, "sweep") BY ZenonT(60), <1>7, <2>3 DEF AfterBatch
  <2> QED BY <1>7, <2>1, <2>2, <2>3 DEF AfterBatch
<1>8. ASSUME NEW s \in Slugs, Worker(l, s) PROVE SchedInv'
  <2>1. Cardinality(work[l] \ {s}) <= Concurrency
    BY PoolSteps
  <2> QED BY <1>8, <2>1 DEF Worker
<1>9. CASE Tick(l) BY <1>9 DEF Tick
<1>10. CASE Exit(l) BY <1>10 DEF Exit
<1> QED BY <1>1, <1>2, <1>3, <1>4, <1>5, <1>6, <1>7, <1>8, <1>9, <1>10 DEF Loop

\* The fetches and Shutdown.
LEMMA OtherStep ==
  ASSUME SchedInv, Shutdown \/ \E f \in Fetches : StartFetch(f) \/ EndFetch(f)
  PROVE  SchedInv'
<1> USE DEF SchedInv, TypeOK, Busy, At, batch
<1> USE DEF GuardHeld, SingleFlight, WorkInBatch, SlugAtHand, NoForgottenLoop, ShutdownOrder
<1>1. CASE TakeSched BY <1>1 DEF TakeSched
<1>2. CASE CancelSched BY <1>2, LoopAssumption DEF CancelSched
<1>3. CASE CloseStore BY <1>3 DEF CloseStore
<1>4. ASSUME NEW f \in Fetches, StartFetch(f) \/ EndFetch(f) PROVE SchedInv'
  BY <1>4 DEF StartFetch, EndFetch
<1> QED BY <1>1, <1>2, <1>3, <1>4 DEF Shutdown

\* The invariant is inductive.
LEMMA SchedStep == SchedInv /\ [Next]_vars => SchedInv'
<1> SUFFICES ASSUME SchedInv, [Next]_vars PROVE SchedInv'
  OBVIOUS
<1>1. CASE UNCHANGED vars
  BY <1>1 DEF vars, SchedInv, TypeOK, GuardHeld, SingleFlight, WorkInBatch, SlugAtHand,
              NoForgottenLoop, ShutdownOrder
<1>2. CASE Next
  BY <1>2, LoopStep, OtherStep DEF Next
<1> QED BY <1>1, <1>2

\* What the invariant says of the runs' properties.
LEMMA SchedMeaning ==
  SchedInv => /\ TypeOK /\ SingleFlight /\ PoolBound /\ BatchIsOver
              /\ NoForgottenLoop /\ JoinedBeforeClose
<1> SUFFICES ASSUME SchedInv
             PROVE  PoolBound /\ BatchIsOver /\ JoinedBeforeClose
  BY DEF SchedInv
<1>1. PoolBound
  BY DEF SchedInv, PoolBound, WorkInBatch, SingleFlight, Busy
<1>2. BatchIsOver
  BY DEF SchedInv, BatchIsOver, WorkInBatch
<1>3. JoinedBeforeClose
  BY DEF SchedInv, TypeOK, JoinedBeforeClose, ShutdownOrder, WorkInBatch
<1> QED BY <1>1, <1>2, <1>3

\* The loops, the pool and Shutdown keep their types.
THEOREM SchedulerTypes == Spec => []TypeOK
<1>1. Init => SchedInv BY SchedInit
<1>2. SchedInv /\ [Next]_vars => SchedInv' BY SchedStep
<1>3. SchedInv => TypeOK BY SchedMeaning
<1> QED BY <1>1, <1>2, <1>3, PTL DEF Spec

\* Collection runs never stack, however often the loop is restarted.
THEOREM SingleFlightHolds == Spec => []SingleFlight
<1>1. Init => SchedInv BY SchedInit
<1>2. SchedInv /\ [Next]_vars => SchedInv' BY SchedStep
<1>3. SchedInv => SingleFlight BY SchedMeaning
<1> QED BY <1>1, <1>2, <1>3, PTL DEF Spec

\* All loops together keep to the size of one pool.
THEOREM PoolBoundHolds == Spec => []PoolBound
<1>1. Init => SchedInv BY SchedInit
<1>2. SchedInv /\ [Next]_vars => SchedInv' BY SchedStep
<1>3. SchedInv => PoolBound BY SchedMeaning
<1> QED BY <1>1, <1>2, <1>3, PTL DEF Spec

\* Every loop but the current one has been told to stop.
THEOREM NoForgottenLoopHolds == Spec => []NoForgottenLoop
<1>1. Init => SchedInv BY SchedInit
<1>2. SchedInv /\ [Next]_vars => SchedInv' BY SchedStep
<1>3. SchedInv => NoForgottenLoop BY SchedMeaning
<1> QED BY <1>1, <1>2, <1>3, PTL DEF Spec

\* Across every restart of the loop, runs never stack, the pool is never exceeded, a run
\* that is over has no worker left, and no loop but the current one goes on.
THEOREM LoopsAreOrderlyHolds == Spec => []LoopsAreOrderly
<1>1. Init => SchedInv BY SchedInit
<1>2. SchedInv /\ [Next]_vars => SchedInv' BY SchedStep
<1>3. SchedInv => LoopsAreOrderly BY SchedMeaning DEF LoopsAreOrderly
<1> QED BY <1>1, <1>2, <1>3, PTL DEF Spec

\* The store is closed only after the loop that was current has exited.
THEOREM JoinHolds == Spec => []JoinedBeforeClose
<1>1. Init => SchedInv BY SchedInit
<1>2. SchedInv /\ [Next]_vars => SchedInv' BY SchedStep
<1>3. SchedInv => JoinedBeforeClose BY SchedMeaning
<1> QED BY <1>1, <1>2, <1>3, PTL DEF Spec
=============================================================================
