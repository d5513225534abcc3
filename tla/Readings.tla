------------------------------ MODULE Readings ------------------------------
(***************************************************************************)
(* What the app reads off a running service: the traffic counters behind   *)
(* the usage graphs, sampled by the window and by the background daemon on *)
(* one database (usage_sampler.go, internal/usage, store/usage.go), and    *)
(* the logs behind the "is it earning?" badge (internal/health,            *)
(* runtime/lastrun.go).  One service with one container, which is          *)
(* restarted and replaced under both.                                      *)
(***************************************************************************)
EXTENDS Integers, Sequences, FiniteSets

CONSTANTS
  Samplers,        \* the processes that sample usage
  MaxBaselineAge,  \* in ticks of the clock
  HourTicks,       \* ticks of an hour
  MaxClock,        \* bound: ticks of the clock
  RefusalLines,    \* lines of the last run's log that are read
  Checks,          \* slots for log checks under way; the code means to use one at a time
  Scenarios        \* what the catalog declares for the service, and how often each thing may happen

ASSUME TicksAssumption == MaxBaselineAge \in Nat /\ HourTicks \in Nat \ {0} /\ MaxClock \in Nat
ASSUME ScenariosAssumption == \A s \in Scenarios : "redeploy" \in DOMAIN s.left /\ s.left["redeploy"] \in Nat

VARIABLES
  cont,      \* the container: its id, state, run, whether it is up for long, its counter, its log
  clock,     \* ticks passed
  moved,     \* history: bytes moved by the end of each tick
  sampler,   \* the reading each process has in hand
  base,      \* usage_counters: the baseline of a container id
  hours,     \* usage_hourly: the rows of the service
  counted,   \* history: what the rows were given altogether
  seq,       \* history: readings taken; the newest one recorded
  signals,   \* the kinds of health signal the catalog declares for the service
  fault,     \* whether the last hours of log hold the windowed signal
  shown,     \* the state in the deployment row, as the last refresh left it
  entry,     \* windowCache: the verdict over the last hours of log
  check,     \* windowCache.refresh: the checks under way
  judge,     \* Collect under way: the read of the last run's log
  badge,     \* the verdict Collect returned last
  past,      \* history: whether Collect has found the service down since the check behind the verdict began
             \* (verdict), since the one under way began (check), and with a check under way (crossed)
  left       \* what remains of what may happen

usage  == <<clock, moved, sampler, base, hours, counted, seq>>
health == <<signals, fault, shown, entry, check, judge, badge, past>>
readingVars == <<cont, usage, health, left>>

HourOf(t) == t \div HourTicks
Hours    == 0 .. HourOf(MaxClock)
NoBase   == [rx |-> -1, at |-> 0]
NoUsage  == [beats |-> 0, bytes |-> 0, seconds |-> 0, lost |-> 0]
NoReading == [pc |-> "stamped", id |-> 1, rx |-> 0, at |-> 0, no |-> 0, by |-> 0]
NoVerdict == [there |-> FALSE, running |-> FALSE, due |-> TRUE, hit |-> FALSE]
AtRest == [pc |-> "idle"]
Allow(k) == left[k] > 0 /\ left' = [left EXCEPT ![k] = @ - 1]

----------------------------------------------------------------------------
(* The container.  StartedAt is the number of its run: a line of the log    *)
(* belongs to a run, and is written after that run's start.                 *)

Fresh(id, run) == [id |-> id, st |-> "running", first |-> run, run |-> run, proven |-> FALSE, rx |-> 0, log |-> <<>>]
StartRun == [cont EXCEPT !.st = "running", !.run = @ + 1, !.proven = FALSE, !.rx = 0]

\* A run prints a line: the provider's refusal, or anything else.
Says(word) ==
  /\ Allow("print") /\ cont.st = "running"
  /\ cont' = [cont EXCEPT !.log = Append(@, [run |-> cont.run, word |-> word])]
  /\ UNCHANGED <<usage, health>>
\* The run ends: the container stays down, or Docker is about to start it again.
Exit(st) ==
  /\ Allow("exit") /\ cont.st = "running"
  /\ cont' = [cont EXCEPT !.st = st]
  /\ UNCHANGED <<usage, health>>
StartAgain ==
  /\ cont.st # "running" /\ cont' = StartRun
  /\ UNCHANGED <<usage, health, left>>
Redeploy ==
  /\ Allow("redeploy") /\ cont' = Fresh(cont.id + 1, cont.run + 1) /\ fault' = FALSE
  /\ UNCHANGED <<usage, signals, shown, entry, check, judge, badge, past>>
\* refusedRunProvenAfter of this run have passed.
Proven ==
  /\ Allow("proven") /\ cont.st = "running" /\ ~cont.proven
  /\ cont' = [cont EXCEPT !.proven = TRUE]
  /\ UNCHANGED <<usage, health>>

----------------------------------------------------------------------------
(* Usage: one reading of the counters, folded into the hour's row.          *)

Traffic ==
  /\ Allow("traffic") /\ cont.st = "running"
  /\ cont' = [cont EXCEPT !.rx = @ + 1]
  /\ moved' = [t \in 0..MaxClock |-> IF t >= clock THEN moved[t] + 1 ELSE moved[t]]
  /\ UNCHANGED <<clock, sampler, base, hours, counted, seq, health>>
\* A listing that answers does so within the tick: time does not pass between the
\* counters and the stamp.
Tick ==
  /\ clock < MaxClock /\ Allow("tick")
  /\ \A p \in Samplers : sampler[p].pc # "listed"
  /\ clock' = clock + 1
  /\ UNCHANGED <<cont, moved, sampler, base, hours, counted, seq, health>>

\* sampleUsage: the listing, outside the transaction; a unit that does not run has no reading.
List(p) ==
  /\ sampler[p] = AtRest /\ Allow("list")
  /\ cont.st = "running"
  /\ sampler' = [sampler EXCEPT ![p] = [pc |-> "listed", id |-> cont.id, rx |-> cont.rx,
                                        at |-> clock, no |-> seq.taken + 1, by |-> moved[clock]]]
  /\ seq' = [seq EXCEPT !.taken = @ + 1]
  /\ UNCHANGED <<cont, clock, moved, base, hours, counted, health>>
Stamp(p) ==
  /\ sampler[p].pc = "listed"
  /\ sampler' = [sampler EXCEPT ![p].pc = "stamped", ![p].at = clock]
  /\ UNCHANGED <<cont, clock, moved, base, hours, counted, seq, health, left>>

CounterDelta(previous, current) == IF current < previous THEN current ELSE current - previous

\* Fold: what one reading adds to the row of its hour.  The new baseline is set whatever
\* the old one was; only one that is older than the reading, and not too old, is used.
Fold(r, prev) ==
  LET age == r.at - prev.at IN
  CASE prev = NoBase \/ age <= 0 -> [NoUsage EXCEPT !.beats = 1]
    [] prev # NoBase /\ age > MaxBaselineAge -> [NoUsage EXCEPT !.beats = 1, !.lost = 1]
    [] OTHER -> [beats |-> 1, lost |-> 0, bytes |-> CounterDelta(prev.rx, r.rx), seconds |-> age]

AddRow(h, row) ==
  /\ hours' = [hours EXCEPT ![h] = [k \in DOMAIN NoUsage |-> @[k] + row[k]]]
  /\ counted' = [k \in DOMAIN NoUsage |-> counted[k] + row[k]]

\* RecordUsage: baselines and rows in one transaction, which may fail as a whole.
\* mutant: the rows are kept when the baselines cannot be stored
RecordUsageInTwo(p) ==
  LET r == sampler[p] IN
  /\ r.pc = "stamped" /\ sampler' = [sampler EXCEPT ![p] = AtRest]
  /\ AddRow(HourOf(r.at), Fold(r, base[r.id]))
  /\ base' \in {base, [base EXCEPT ![r.id] = [rx |-> r.rx, at |-> r.at]]}
  /\ seq' = IF r.no > seq.newest.no THEN [seq EXCEPT !.newest = r] ELSE [seq EXCEPT !.crossed = TRUE]
  /\ UNCHANGED <<cont, clock, moved, health, left>>
RecordUsage(p) ==
  LET r == sampler[p] IN
  /\ r.pc = "stamped" /\ sampler' = [sampler EXCEPT ![p] = AtRest]
  /\ \/ UNCHANGED <<base, hours, counted, seq>>
     \/ /\ AddRow(HourOf(r.at), Fold(r, base[r.id]))
        /\ base' = [base EXCEPT ![r.id] = [rx |-> r.rx, at |-> r.at]]
        /\ seq' = IF r.no > seq.newest.no THEN [seq EXCEPT !.newest = r] ELSE [seq EXCEPT !.crossed = TRUE]
  /\ UNCHANGED <<cont, clock, moved, health, left>>
\* PurgeUsage: baselines of a day ago, which no reading would use any more.
PurgeUsage ==
  /\ \E id \in DOMAIN base :
       /\ base[id] # NoBase /\ clock - base[id].at > MaxBaselineAge
       /\ base' = [base EXCEPT ![id] = NoBase]
  /\ UNCHANGED <<cont, clock, moved, sampler, hours, counted, seq, health, left>>

----------------------------------------------------------------------------
(* Health: the window over hours of log, and the last run's last words.     *)

isUp(st) == st \in {"running", "restarting"}
mayBeRefused(st) == st \in {"running", "restarting", "exited"}

\* The signal appears in the log, and falls out of the window of hours.
FaultShows == /\ Allow("fault") /\ cont.st = "running" /\ fault' = TRUE
              /\ UNCHANGED <<cont, usage, signals, shown, entry, check, judge, badge, past>>
FaultEnds == /\ fault /\ fault' = FALSE
             /\ UNCHANGED <<cont, usage, signals, shown, entry, check, judge, badge, past, left>>
\* manager.Refresh writes the state of the container into its row.
Refresh == /\ Allow("refresh") /\ shown # cont.st /\ shown' = cont.st
           /\ UNCHANGED <<cont, usage, signals, fault, entry, check, judge, badge, past>>
\* windowEvery has passed since the last check.
Due == /\ entry.there /\ ~entry.due /\ entry' = [entry EXCEPT !.due = TRUE]
       /\ UNCHANGED <<cont, usage, signals, fault, shown, check, judge, badge, past, left>>

\* windowCache.hits: the last verdict at once, and a new check behind it when one is due.
hits ==
  IF entry.running \/ ~entry.due
  THEN /\ entry' = [entry EXCEPT !.there = TRUE] /\ UNCHANGED <<check, past>>
  ELSE /\ entry' = [entry EXCEPT !.there = TRUE, !.running = TRUE]
       /\ past' = [past EXCEPT !.check = FALSE]
       /\ \E c \in Checks : check[c] = AtRest /\ check' = [check EXCEPT ![c] = [pc |-> "read"]]
\* windowCache.forget: the verdict of a stopped service goes, unless it is being checked.
ForgetUnread == entry' = IF entry.running \/ ~entry.due THEN entry ELSE NoVerdict  \* mutant: only a verdict that is due
forget == entry' = IF entry.running THEN entry ELSE NoVerdict

\* Collect reads the row, the window and the last run; Assess joins them at the end.
Collect ==
  /\ judge = AtRest /\ signals # {}
  /\ CASE "windowed" \notin signals -> UNCHANGED <<entry, check, past>>
       [] "windowed" \in signals /\ isUp(shown) -> hits
       [] OTHER -> forget /\ past' = [verdict |-> TRUE, check |-> TRUE, crossed |-> entry.running] /\ UNCHANGED check
  /\ judge' = [pc |-> IF "account_disabled" \in signals /\ mayBeRefused(shown) THEN "inspect" ELSE "assess", st |-> shown,
               hit |-> isUp(shown) /\ entry.hit, refused |-> {}, of |-> cont.run, was |-> "none"]
  /\ UNCHANGED <<cont, usage, signals, fault, shown, badge, left>>

\* windowCache.refresh: the read, under its timeout, and the verdict it leaves.
ReadWindow(c) ==
  /\ check[c].pc = "read"
  /\ check' = [check EXCEPT ![c] = [pc |-> "judged", hit |-> fault]]
  /\ UNCHANGED <<cont, usage, signals, fault, shown, entry, judge, badge, past, left>>
WindowUnread(c) ==
  /\ check[c].pc = "read" /\ check' = [check EXCEPT ![c] = [pc |-> "failed"]]
  /\ UNCHANGED <<cont, usage, signals, fault, shown, entry, judge, badge, past, left>>
\* A failed read keeps the last verdict.
KeepVerdict(c) ==
  /\ check[c].pc \in {"judged", "failed"} /\ check' = [check EXCEPT ![c] = AtRest]
  /\ entry' = [there |-> TRUE, running |-> FALSE, due |-> FALSE,
               hit |-> IF check[c].pc = "judged" THEN check[c].hit ELSE entry.hit]
  /\ past' = IF check[c].pc = "judged" THEN [past EXCEPT !.verdict = past.check] ELSE past
  /\ UNCHANGED <<cont, usage, signals, fault, shown, judge, badge, left>>

\* lastRunLogs: what to read of the log is decided on the inspected state.
Finished == cont.run > cont.first \/ cont.st # "running"
InspectRun ==
  /\ judge.pc = "inspect"
  /\ judge' = [judge EXCEPT !.pc = IF Finished /\ ~(cont.st = "running" /\ cont.proven) THEN "log" ELSE "assess",
                            !.was = cont.st, !.of = cont.run]
  /\ UNCHANGED <<cont, usage, signals, fault, shown, entry, check, badge, past, left>>
\* A stopped run's log from its start on; before the start of one that just began. By their
\* places in the log; of these, the last ones.
LogOf == {i \in DOMAIN cont.log : IF judge.was = "running" THEN cont.log[i].run < judge.of ELSE cont.log[i].run >= judge.of}
Lines == {i \in LogOf : Cardinality({j \in LogOf : j > i}) < RefusalLines}
\* MatchRefusal over the lines read.  A read that fails finds nothing.
ReadLog ==
  /\ judge.pc = "log"
  /\ \E found \in {{cont.log[i].run : i \in {j \in Lines : cont.log[j].word = "refused"}}, {}} :
       judge' = [judge EXCEPT !.pc = "assess", !.refused = found]
  /\ UNCHANGED <<cont, usage, signals, fault, shown, entry, check, badge, past, left>>
\* Assess: a refusal first, then nothing about what is not up, then the rest.
Assess ==
  /\ judge.pc = "assess"
  /\ badge' = CASE judge.refused # {} -> "account_disabled"
                [] judge.refused = {} /\ ~isUp(judge.st) -> "not-checked"
                [] judge.refused = {} /\ isUp(judge.st) /\ (judge.st = "restarting" \/ judge.hit) -> "failing"
                [] OTHER -> "not-checked"
  /\ judge' = AtRest
  /\ UNCHANGED <<cont, usage, signals, fault, shown, entry, check, past, left>>

----------------------------------------------------------------------------
ReadingsInit ==
  /\ cont = Fresh(1, 1)
  /\ clock = 0 /\ moved = [t \in 0..MaxClock |-> 0]
  /\ sampler = [p \in Samplers |-> AtRest]
  /\ \E s \in Scenarios : signals = s.signals /\ left = s.left
  /\ base = [id \in 1 .. left["redeploy"] + 1 |-> NoBase]
  /\ hours = [h \in Hours |-> NoUsage] /\ counted = NoUsage
  /\ seq = [taken |-> 0, newest |-> NoReading, crossed |-> FALSE]
  /\ fault = FALSE /\ shown = "running" /\ entry = NoVerdict
  /\ check = [c \in Checks |-> AtRest] /\ judge = AtRest /\ badge = "not-checked"
  /\ past = [verdict |-> FALSE, check |-> FALSE, crossed |-> FALSE]

Sampling == \E p \in Samplers : List(p) \/ Stamp(p) \/ RecordUsage(p)
CheckStep == \E c \in Checks : ReadWindow(c) \/ WindowUnread(c) \/ KeepVerdict(c)
Judging == InspectRun \/ ReadLog \/ Assess
ReadingsNext ==
  \/ \E w \in {"refused", "other"} : Says(w)
  \/ \E st \in {"exited", "restarting"} : Exit(st)
  \/ StartAgain \/ Redeploy \/ Proven
  \/ Traffic \/ Tick \/ Sampling \/ PurgeUsage
  \/ FaultShows \/ FaultEnds \/ Refresh \/ Due
  \/ Collect \/ CheckStep \/ Judging

ReadingsSpec == ReadingsInit /\ [][ReadingsNext]_readingVars

----------------------------------------------------------------------------
MovedBy(t) == IF t < 0 THEN 0 ELSE moved[IF t > MaxClock THEN MaxClock ELSE t]

\* Traffic is never counted twice, nor an interval, whatever fails, restarts or is replaced
\* between two readings; and what an hour shows was moved in it or at most MaxBaselineAge
\* before, not in the night the machine slept through (RecordUsage, Fold).  Two processes that
\* record their readings in the other order than they took them are the exception.
CountedOnce ==
  ~seq.crossed =>
    /\ counted.bytes <= MovedBy(clock)
    /\ counted.seconds <= clock
    /\ \A h \in Hours :
         hours[h].bytes <= MovedBy((h + 1) * HourTicks - 1) - MovedBy(h * HourTicks - MaxBaselineAge - 1)

\* A chatty service's hours of log are read once at a time (windowCache.begin).
OneCheckAtATime == Cardinality({c \in Checks : check[c] # AtRest}) <= 1

\* No verdict from before the service was last found down and came back is shown, unless its
\* check was under way when it was found down.
NoOldVerdict == entry.hit /\ past.verdict => past.crossed

\* The hours of log behind the badge are read once at a time, however often the dashboard asks
\* and the service stops and starts meanwhile, and what the badge holds against a service that
\* has been found down and came back was read of it afterwards: "it stopped, so what its logs
\* said no longer holds" (forget).  Only a check that was under way when it was found down may
\* leave an older verdict, until the next one.
BadgeIsCurrent == OneCheckAtATime /\ NoOldVerdict

\* False of the code (README): "LastRunLogs returns the log of the service's last finished run only".
RefusalIsOfLastRun ==
  judge.pc = "assess" => \A run \in judge.refused : run >= (IF judge.was = "running" THEN judge.of - 1 ELSE judge.of)
=============================================================================
