----------------------------- MODULE Scheduler -----------------------------
(***************************************************************************)
(* Background collection: runScheduler's loops, the single-flight guard and *)
(* the bounded worker pool of collectAll, the balance fetch after a deploy  *)
(* (collectOne), and Shutdown, which stops the loop before the store is     *)
(* closed.  A loop is a goroutine; SaveSettings replaces it when the        *)
(* collection interval changes, and the one it replaces drains on its own.  *)
(***************************************************************************)
EXTENDS Integers, FiniteSets

CONSTANTS
  Loops,        \* the loop goroutines a run of the app starts
  Slugs,        \* the services to collect: deployed, or with credentials
  Concurrency,  \* collectConcurrency
  Fetches,      \* the goroutines DeployService starts for collectOne
  NoLoop, NoSlug

ASSUME LoopAssumption == NoLoop \notin Loops
ASSUME PoolAssumption == IsFiniteSet(Slugs) /\ NoSlug \notin Slugs
ASSUME ConcurrencyAssumption == Concurrency \in Nat \ {0}

VARIABLES
  pc,         \* where each loop is
  cancelled,  \* loopCtx is done
  todo,       \* the services the batch has not launched yet
  cur,        \* the service waiting for a slot of the pool
  work,       \* the services whose worker goroutine is running
  aborted,    \* the batch met a cancelled context
  collecting, \* a.collecting
  sched,      \* a.schedCancel and a.schedDone
  fetch,      \* the fetches under way
  shut,       \* where Shutdown is
  joins,      \* the loop whose done channel Shutdown waits on
  storeOpen

vars == <<pc, cancelled, todo, cur, work, aborted, collecting, sched, fetch, shut, joins, storeOpen>>
batch == <<todo, cur, work, aborted>>

Busy == {"launch", "sem", "wait", "health", "purge", "sweep"}

Init ==
  /\ pc = [l \in Loops |-> "none"]
  /\ cancelled = [l \in Loops |-> FALSE]
  /\ todo = [l \in Loops |-> {}]
  /\ cur = [l \in Loops |-> NoSlug]
  /\ work = [l \in Loops |-> {}]
  /\ aborted = [l \in Loops |-> FALSE]
  /\ collecting = FALSE
  /\ sched = NoLoop
  /\ fetch = {}
  /\ shut = "up"
  /\ joins = NoLoop
  /\ storeOpen = TRUE

At(l, p)   == pc[l] = p
Goto(l, p) == pc' = [pc EXCEPT ![l] = p]

----------------------------------------------------------------------------
(* runScheduler, from startCore and from SaveSettings.  Both are over before *)
(* the window goes and Shutdown runs.                                        *)

runScheduler(l) ==
  /\ shut = "up"
  /\ At(l, "none")
  /\ cancelled' = IF sched = NoLoop THEN cancelled ELSE [cancelled EXCEPT ![sched] = TRUE]
  /\ sched' = l
  /\ Goto(l, "collect")
  /\ UNCHANGED <<batch, collecting, fetch, shut, joins, storeOpen>>

----------------------------------------------------------------------------
(* collectAll.                                                             *)

\* Mutant: a run in progress is not noticed.
EnterUnguarded(l) ==
  /\ At(l, "collect")
  /\ collecting' = TRUE
  /\ todo' = [todo EXCEPT ![l] = Slugs]
  /\ aborted' = [aborted EXCEPT ![l] = FALSE]
  /\ Goto(l, "launch")
  /\ UNCHANGED <<cancelled, cur, work, sched, fetch, shut, joins, storeOpen>>

\* The single-flight guard: a run in progress makes this one return.
Enter(l) ==
  /\ At(l, "collect")
  /\ ~collecting
  /\ collecting' = TRUE
  /\ todo' = [todo EXCEPT ![l] = Slugs]
  /\ aborted' = [aborted EXCEPT ![l] = FALSE]
  /\ Goto(l, "launch")
  /\ UNCHANGED <<cancelled, cur, work, sched, fetch, shut, joins, storeOpen>>

Skip(l) ==
  /\ At(l, "collect")
  /\ collecting
  /\ Goto(l, "select")
  /\ UNCHANGED <<cancelled, batch, collecting, sched, fetch, shut, joins, storeOpen>>

\* The next service, unless the context is done.
NextSlug(l) ==
  /\ At(l, "launch")
  /\ \/ /\ todo[l] = {}
        /\ Goto(l, "wait")
        /\ UNCHANGED batch
     \/ /\ todo[l] # {} /\ cancelled[l]
        /\ aborted' = [aborted EXCEPT ![l] = TRUE]
        /\ Goto(l, "wait")
        /\ UNCHANGED <<todo, cur, work>>
     \/ /\ ~cancelled[l]
        /\ \E s \in todo[l] : /\ cur' = [cur EXCEPT ![l] = s]
                              /\ todo' = [todo EXCEPT ![l] = @ \ {s}]
        /\ Goto(l, "sem")
        /\ UNCHANGED <<work, aborted>>
  /\ UNCHANGED <<cancelled, collecting, sched, fetch, shut, joins, storeOpen>>

\* A slot of the pool, then the worker.  The context is not looked at again.
Acquire(l) ==
  /\ At(l, "sem")
  /\ Cardinality(work[l]) < Concurrency
  /\ work' = [work EXCEPT ![l] = @ \cup {cur[l]}]
  /\ cur' = [cur EXCEPT ![l] = NoSlug]
  /\ Goto(l, "launch")
  /\ UNCHANGED <<cancelled, todo, aborted, collecting, sched, fetch, shut, joins, storeOpen>>

\* Mutant: a worker whose context is done returns without giving up its slot.
WorkerLost(l, s) ==
  /\ s \in work[l]
  /\ ~cancelled[l]
  /\ work' = [work EXCEPT ![l] = @ \ {s}]
  /\ UNCHANGED <<pc, cancelled, todo, cur, aborted, collecting, sched, fetch, shut, joins, storeOpen>>

\* A worker reads the credentials, asks the provider and records the balance or the
\* error, also when the context is done.
Worker(l, s) ==
  /\ s \in work[l]
  /\ work' = [work EXCEPT ![l] = @ \ {s}]
  /\ UNCHANGED <<pc, cancelled, todo, cur, aborted, collecting, sched, fetch, shut, joins, storeOpen>>

\* wg.Wait; an aborted run skips what follows the batch.
Wait(l) ==
  /\ At(l, "wait")
  /\ work[l] = {}
  /\ IF aborted[l] THEN Goto(l, "select") /\ collecting' = FALSE
     ELSE Goto(l, "health") /\ UNCHANGED collecting
  /\ UNCHANGED <<cancelled, batch, sched, fetch, shut, joins, storeOpen>>

\* sampleHealth, PurgeOldData and the fleet sweep; no failure of theirs ends the run.
AfterBatch(l) ==
  /\ \/ At(l, "health") /\ Goto(l, "purge") /\ UNCHANGED collecting
     \/ At(l, "purge") /\ Goto(l, "sweep") /\ UNCHANGED collecting
     \/ At(l, "sweep") /\ Goto(l, "select") /\ collecting' = FALSE
  /\ UNCHANGED <<cancelled, batch, sched, fetch, shut, joins, storeOpen>>

\* The select of the loop: the ticker, or the end.  With both ready either is taken.
Tick(l) ==
  /\ At(l, "select")
  /\ Goto(l, "collect")
  /\ UNCHANGED <<cancelled, batch, collecting, sched, fetch, shut, joins, storeOpen>>

Exit(l) ==
  /\ At(l, "select")
  /\ cancelled[l]
  /\ Goto(l, "exited")
  /\ UNCHANGED <<cancelled, batch, collecting, sched, fetch, shut, joins, storeOpen>>

----------------------------------------------------------------------------
(* collectOne after a deploy: nobody waits for it.                         *)

StartFetch(f) ==
  /\ shut = "up"
  /\ f \notin fetch
  /\ fetch' = fetch \cup {f}
  /\ UNCHANGED <<pc, cancelled, batch, collecting, sched, shut, joins, storeOpen>>

EndFetch(f) ==
  /\ f \in fetch
  /\ fetch' = fetch \ {f}
  /\ UNCHANGED <<pc, cancelled, batch, collecting, sched, shut, joins, storeOpen>>

----------------------------------------------------------------------------
(* Shutdown: stopScheduler, the samplers that do not share state with the   *)
(* loops, and the store.                                                    *)

TakeSched ==
  /\ shut = "up"
  /\ joins' = sched
  /\ sched' = NoLoop
  /\ shut' = "cancel"
  /\ UNCHANGED <<pc, cancelled, batch, collecting, fetch, storeOpen>>

CancelSched ==
  /\ shut = "cancel"
  /\ cancelled' = IF joins = NoLoop THEN cancelled ELSE [cancelled EXCEPT ![joins] = TRUE]
  /\ shut' = "join"
  /\ UNCHANGED <<pc, batch, collecting, sched, fetch, joins, storeOpen>>

\* Mutant: the loop is cancelled but not joined.
CloseStoreAtOnce ==
  /\ shut = "join"
  /\ shut' = "closed"
  /\ storeOpen' = FALSE
  /\ UNCHANGED <<pc, cancelled, batch, collecting, sched, fetch, joins>>

\* The join, then store.Close.
CloseStore ==
  /\ shut = "join"
  /\ joins # NoLoop => At(joins, "exited")
  /\ shut' = "closed"
  /\ storeOpen' = FALSE
  /\ UNCHANGED <<pc, cancelled, batch, collecting, sched, fetch, joins>>

----------------------------------------------------------------------------
Loop(l) ==
  \/ Enter(l) \/ Skip(l) \/ NextSlug(l) \/ Acquire(l) \/ Wait(l) \/ AfterBatch(l)
  \/ \E s \in Slugs : Worker(l, s)

Shutdown == TakeSched \/ CancelSched \/ CloseStore

Next ==
  \/ \E l \in Loops : runScheduler(l) \/ Loop(l) \/ Tick(l) \/ Exit(l)
  \/ \E f \in Fetches : StartFetch(f) \/ EndFetch(f)
  \/ Shutdown

Spec == Init /\ [][Next]_vars

\* Calls to providers and to the store return; the ticker ticks; a select that finds
\* the context done each time it is reached takes that branch in the end.
Fairness ==
  /\ \A l \in Loops : WF_vars(Loop(l)) /\ WF_vars(Tick(l) \/ Exit(l)) /\ SF_vars(Exit(l))
  /\ \A l \in Loops, s \in Slugs : WF_vars(Worker(l, s))
  /\ \A f \in Fetches : WF_vars(EndFetch(f))
  /\ WF_vars(CancelSched) /\ WF_vars(CloseStore)

FairSpec == Spec /\ Fairness

----------------------------------------------------------------------------
(* Properties.                                                             *)

\* The types of the loops, the batch, the guard and Shutdown.
TypeOK ==
  /\ pc \in [Loops -> Busy \cup {"none", "collect", "select", "exited"}]
  /\ cancelled \in [Loops -> BOOLEAN]
  /\ todo \in [Loops -> SUBSET Slugs]
  /\ cur \in [Loops -> Slugs \cup {NoSlug}]
  /\ work \in [Loops -> SUBSET Slugs]
  /\ aborted \in [Loops -> BOOLEAN]
  /\ collecting \in BOOLEAN
  /\ sched \in Loops \cup {NoLoop}
  /\ fetch \subseteq Fetches
  /\ shut \in {"up", "cancel", "join", "closed"}
  /\ joins \in Loops \cup {NoLoop}
  /\ storeOpen \in BOOLEAN

\* Runs never stack: at any time at most one loop is inside a collection run, also
\* while a replaced loop drains next to its successor.
SingleFlight == \A l, m \in Loops : pc[l] \in Busy /\ pc[m] \in Busy => l = m

\* Over all loops together no more than collectConcurrency provider calls of the
\* background collection are under way.
PoolBound ==
  /\ \A l \in Loops : Cardinality(work[l]) <= Concurrency
  /\ \A l, m \in Loops : work[l] # {} /\ work[m] # {} => l = m

\* Health samples, the purge and the sweep run only after every worker of the batch
\* has finished.
BatchIsOver == \A l \in Loops : pc[l] \in {"health", "purge", "sweep"} => work[l] = {}

\* A loop that was not told to stop is the current one: every other is cancelled, so
\* no forgotten loop goes on collecting for ever.
NoForgottenLoop ==
  \A l \in Loops : pc[l] \notin {"none", "exited"} /\ ~cancelled[l]
    => sched = l \/ (shut = "cancel" /\ joins = l)

\* The loops replace each other and never get in each other's way.
LoopsAreOrderly == SingleFlight /\ PoolBound /\ BatchIsOver /\ NoForgottenLoop

\* The store is closed only when the loop that was current when Shutdown began has
\* exited, with its workers.
JoinedBeforeClose ==
  ~storeOpen /\ joins # NoLoop => pc[joins] = "exited" /\ work[joins] = {}

\* A step of a worker, of what follows the batch, or of a fetch that records something.
Writes ==
  \/ \E l \in Loops : work[l] \ work'[l] # {}
  \/ \E l \in Loops : pc[l] \in {"health", "purge", "sweep"} /\ pc'[l] # pc[l]
  \/ fetch \ fetch' # {}

\* False of the code (README): nothing is written to the store after Shutdown has closed
\* it.  A replaced loop and a fetch after a deploy are not joined.
NoWriteAfterClose == [][~storeOpen => ~Writes]_vars

\* Every loop gets its turn: it completes a run, or is told to stop.
LoopCollects == \A l \in Loops : At(l, "collect") ~> (At(l, "sweep") \/ cancelled[l])

\* Shutdown comes to its end.
ShutdownEnds == shut # "up" ~> ~storeOpen

\* Nobody waits for ever, on the pool, on the guard or on another's end.
NobodyWaitsForEver == LoopCollects /\ ShutdownEnds
=============================================================================
