-------------------------- MODULE NativeSupervisor --------------------------
(***************************************************************************)
(* NativeProcessProvider for one service: its supervisors (supervise and    *)
(* startOnce), the calls of the manager (Deploy, Start, Stop, Restart,      *)
(* Remove) with stopManaged and the orphan path, the procs map and the      *)
(* service's entry of state.json.                                           *)
(*                                                                          *)
(* A process is its identity (pid, executable and creation time): one that  *)
(* the entry names is alive exactly when entryIsOurs holds.  A supervisor   *)
(* is a managedProcess with its goroutine.  p.mu, mp.mu and regMu each      *)
(* cover one step; nothing is held across two.                              *)
(***************************************************************************)
EXTENDS Integers, FiniteSets

CONSTANTS
  Procs,      \* the processes
  Supers,     \* the managedProcess objects
  Callers,    \* the calls that may be in flight together
  MaxOrphans, \* bound: processes that outlive the run of the app that started them
  NoProc, NoSuper, NoEntry

ASSUME NoneAssumption == NoProc \notin Procs /\ NoSuper \notin Supers
ASSUME OrphanAssumption == MaxOrphans \in Nat

VARIABLES
  run,    \* what each process is: dead, a child of this run of the app, an orphan of an earlier one
  sup,    \* the supervisors
  procs,  \* p.procs[slug]
  reg,    \* the entry of the registry
  call    \* the calls

vars == <<run, sup, procs, reg, call>>

Over     == [pc |-> "done", cmd |-> NoProc, told |-> FALSE, stopping |-> FALSE]
NoCall   == [pc |-> "idle", verb |-> "stop", mp |-> NoSuper, pid |-> NoProc]
Running(q) == [pid |-> q, desired |-> "running"]
Entries  == {NoEntry, [pid |-> NoProc, desired |-> "stopped"]} \cup {Running(q) : q \in Procs}
ASSUME EntryAssumption == NoEntry \notin [pid : Procs \cup {NoProc}, desired : {"running", "stopped"}]

Init ==
  /\ run = [q \in Procs |-> "dead"]
  /\ sup = [m \in Supers |-> Over]
  /\ procs = NoSuper
  /\ reg = NoEntry
  /\ call = [c \in Callers |-> NoCall]

Alive(q) == q \in Procs /\ run[q] # "dead"
Die(q)   == run' = [p \in Procs |-> IF p = q THEN "dead" ELSE run[p]]

\* The recorded process still runs, under the identity that was recorded.
entryIsOurs == reg # NoEntry /\ Alive(reg.pid)

At(c, pc)   == call[c].pc = pc
Goto(c, pc) == call' = [call EXCEPT ![c].pc = pc]
End(c)      == call' = [call EXCEPT ![c] = NoCall]
In(m, pc)   == sup[m].pc = pc

\* A process that never was, and a managedProcess nobody holds.
Fresh(q) == /\ ~Alive(q)
            /\ \A m \in Supers : sup[m].cmd # q
            /\ \A c \in Callers : call[c].pid # q
            /\ reg # NoEntry => reg.pid # q
New(m)   == In(m, "done") /\ procs # m /\ \A c \in Callers : call[c].mp # m

----------------------------------------------------------------------------
(* stopManaged, and the orphan path of Stop and stopInternal.               *)

\* Deploy, with the binary in place, Stop, Restart and Remove begin by taking the
\* child out of the map.
Take(c, verb) ==
  /\ At(c, "idle")
  /\ procs' = NoSuper
  /\ call' = [call EXCEPT ![c] = [NoCall EXCEPT !.verb = verb, !.mp = procs,
                !.pc = IF procs = NoSuper THEN "orphan" ELSE "request"]]
  /\ UNCHANGED <<run, sup, reg>>

requestStop(c) ==
  /\ At(c, "request")
  /\ sup' = [sup EXCEPT ![call[c].mp].told = TRUE]
  /\ Goto(c, "begin")
  /\ UNCHANGED <<run, procs, reg>>

\* From here on startOnce refuses; the command is the one to signal.
beginStop(c) ==
  /\ At(c, "begin")
  /\ sup' = [sup EXCEPT ![call[c].mp].stopping = TRUE]
  /\ call' = [call EXCEPT ![c].pid = sup[call[c].mp].cmd, ![c].pc = "kill"]
  /\ UNCHANGED <<run, procs, reg>>

AfterStop(verb) ==
  CASE verb = "deploy" -> "launch" [] verb = "remove" -> "delete" [] OTHER -> "mark"

\* SIGTERM, and SIGKILL when the grace period is over: gracefulKill, then the join, or
\* signalPID for an orphan.
Kill(c) ==
  /\ At(c, "kill")
  /\ Die(call[c].pid)
  /\ call' = [call EXCEPT ![c].pid = NoProc,
                ![c].pc = IF call[c].mp = NoSuper THEN AfterStop(call[c].verb) ELSE "join"]
  /\ UNCHANGED <<sup, procs, reg>>

\* <-mp.doneCh
Join(c) ==
  /\ At(c, "join")
  /\ In(call[c].mp, "done")
  /\ call' = [call EXCEPT ![c].mp = NoSuper, ![c].pc = AfterStop(call[c].verb)]
  /\ UNCHANGED <<run, sup, procs, reg>>

\* No child of this run: the recorded process is signalled if it is still ours.  Stop
\* of a service without an entry is an error.
ReadOrphan(c) ==
  /\ At(c, "orphan")
  /\ IF reg = NoEntry /\ call[c].verb \in {"stop", "restart"} THEN End(c)
     ELSE call' = [call EXCEPT ![c].pid = IF entryIsOurs THEN reg.pid ELSE NoProc, ![c].pc = "kill"]
  /\ UNCHANGED <<run, sup, procs, reg>>

\* markStopped; Restart goes on with Start.
Mark(c) ==
  /\ At(c, "mark")
  /\ reg' = IF reg = NoEntry THEN reg ELSE [pid |-> NoProc, desired |-> "stopped"]
  /\ IF call[c].verb = "restart" THEN Goto(c, "check") ELSE End(c)
  /\ UNCHANGED <<run, sup, procs>>

\* Remove deletes the directory, the firewall rule and then the entry.
Delete(c) ==
  /\ At(c, "delete")
  /\ reg' = NoEntry
  /\ End(c)
  /\ UNCHANGED <<run, sup, procs>>

----------------------------------------------------------------------------
(* Start, and launchProcess for Start and Deploy.                           *)

BeginStart(c) ==
  /\ At(c, "idle")
  /\ call' = [call EXCEPT ![c] = [NoCall EXCEPT !.verb = "start", !.pc = "check"]]
  /\ UNCHANGED <<run, sup, procs, reg>>

\* A child that is alive makes Start a no-op; one in its backoff is not alive.
CheckChild(c) ==
  /\ At(c, "check")
  /\ IF procs # NoSuper /\ Alive(sup[procs].cmd) THEN End(c) ELSE Goto(c, "entry")
  /\ UNCHANGED <<run, sup, procs, reg>>

CheckEntry(c) ==
  /\ At(c, "entry")
  /\ IF reg = NoEntry \/ entryIsOurs THEN End(c) ELSE Goto(c, "launch")
  /\ UNCHANGED <<run, sup, procs, reg>>

\* The first startOnce.
Launch(c, m, q) ==
  /\ At(c, "launch")
  /\ New(m) /\ Fresh(q)
  /\ run' = [run EXCEPT ![q] = "child"]
  /\ sup' = [sup EXCEPT ![m] = [Over EXCEPT !.pc = "new", !.cmd = q]]
  /\ call' = [call EXCEPT ![c].mp = m, ![c].pc = "register"]
  /\ UNCHANGED <<procs, reg>>

Register(c) ==
  /\ At(c, "register")
  /\ procs' = call[c].mp
  /\ Goto(c, "persist")
  /\ UNCHANGED <<run, sup, reg>>

\* persistRunning, whose failure is passed over, and go supervise.
Persist(c) ==
  /\ At(c, "persist")
  /\ reg' \in {reg, Running(sup[call[c].mp].cmd)}
  /\ sup' = [sup EXCEPT ![call[c].mp].pc = "wait"]
  /\ End(c)
  /\ UNCHANGED <<run, procs>>

\* The binary does not start or has gone, the registry or the directory cannot be
\* written: the call returns the error.
CallFails(c) ==
  /\ call[c].pc \in {"mark", "delete", "entry", "launch"}
  /\ End(c)
  /\ UNCHANGED <<run, sup, procs, reg>>

----------------------------------------------------------------------------
(* supervise.                                                              *)

Finish(m) == sup' = [sup EXCEPT ![m] = Over]

\* cmd.Wait returns, at once when there is no command.
Reap(m) ==
  /\ In(m, "wait")
  /\ ~Alive(sup[m].cmd)
  /\ IF sup[m].told THEN Finish(m) ELSE sup' = [sup EXCEPT ![m].pc = "backoff"]
  /\ UNCHANGED <<run, procs, reg, call>>

StopInBackoff(m) ==
  /\ In(m, "backoff")
  /\ sup[m].told
  /\ Finish(m)
  /\ UNCHANGED <<run, procs, reg, call>>

\* Mutants: startOnce does not look at stopping; the supervisor looks at it only
\* once the process has started.
RespawnUnchecked(m, q) ==
  /\ In(m, "backoff")
  /\ Fresh(q)
  /\ run' = [run EXCEPT ![q] = "child"]
  /\ sup' = [sup EXCEPT ![m].cmd = q, ![m].pc = "update"]
  /\ UNCHANGED <<procs, reg, call>>
RespawnThenLook(m, q) ==
  /\ In(m, "backoff")
  /\ Fresh(q)
  /\ run' = [run EXCEPT ![q] = "child"]
  /\ IF sup[m].told THEN Finish(m) ELSE sup' = [sup EXCEPT ![m].cmd = q, ![m].pc = "update"]
  /\ UNCHANGED <<procs, reg, call>>

\* The backoff is over, whether or not a stop has come meanwhile: startOnce starts the
\* process unless beginStop was first.
Respawn(m, q) ==
  /\ In(m, "backoff")
  /\ ~sup[m].stopping
  /\ Fresh(q)
  /\ run' = [run EXCEPT ![q] = "child"]
  /\ sup' = [sup EXCEPT ![m].cmd = q, ![m].pc = "update"]
  /\ UNCHANGED <<procs, reg, call>>

\* startOnce refuses, or the binary does not start.
RespawnFails(m) ==
  /\ In(m, "backoff")
  /\ IF sup[m].told THEN Finish(m)
     ELSE sup' = [sup EXCEPT ![m].cmd = NoProc, ![m].pc = "wait"]
  /\ UNCHANGED <<run, procs, reg, call>>

\* updatePID, whose failure is passed over.
updatePID(m) ==
  /\ In(m, "update")
  /\ reg' = reg \/ (reg # NoEntry /\ reg' = Running(sup[m].cmd))
  /\ sup' = [sup EXCEPT ![m].pc = "wait"]
  /\ UNCHANGED <<run, procs, call>>

----------------------------------------------------------------------------
(* What happens around the provider.                                       *)

\* A process exits or is killed.
Exits(q) == Alive(q) /\ Die(q) /\ UNCHANGED <<sup, procs, reg, call>>

\* The app ends and is started again: the processes live on.
AppRestart ==
  /\ Cardinality({q \in Procs : Alive(q)}) <= MaxOrphans
  /\ run' = [q \in Procs |-> IF run[q] = "dead" THEN "dead" ELSE "orphan"]
  /\ sup' = [m \in Supers |-> Over]
  /\ procs' = NoSuper
  /\ call' = [c \in Callers |-> NoCall]
  /\ UNCHANGED reg

----------------------------------------------------------------------------
Begin(c) == BeginStart(c) \/ \E verb \in {"deploy", "stop", "restart", "remove"} : Take(c, verb)

CallStep(c) ==
  \/ requestStop(c) \/ beginStop(c) \/ Kill(c) \/ Join(c) \/ ReadOrphan(c) \/ Mark(c) \/ Delete(c)
  \/ CheckChild(c) \/ CheckEntry(c) \/ Register(c) \/ Persist(c) \/ CallFails(c)
  \/ \E m \in Supers, q \in Procs : Launch(c, m, q)

Supervise(m) ==
  \/ Reap(m) \/ StopInBackoff(m) \/ RespawnFails(m) \/ updatePID(m)
  \/ \E q \in Procs : Respawn(m, q)

Next ==
  \/ \E c \in Callers : Begin(c) \/ CallStep(c)
  \/ \E m \in Supers : Supervise(m)
  \/ \E q \in Procs : Exits(q)
  \/ AppRestart

Spec == Init /\ [][Next]_vars

\* Calls go on, supervisors run, timers fire; a binary that is started again and again
\* starts in the end.
Fairness ==
  /\ \A c \in Callers : WF_vars(CallStep(c))
  /\ \A m \in Supers : WF_vars(Supervise(m)) /\ SF_vars(\E q \in Procs : Respawn(m, q))

FairSpec == Spec /\ Fairness

----------------------------------------------------------------------------
(* Properties.                                                             *)

SupTypes  == [pc : {"done", "new", "wait", "backoff", "update"}, cmd : Procs \cup {NoProc},
              told : BOOLEAN, stopping : BOOLEAN]
CallTypes == [pc : {"idle", "request", "begin", "kill", "join", "orphan", "mark", "delete",
                    "check", "entry", "launch", "register", "persist"},
              verb : {"deploy", "start", "stop", "restart", "remove"},
              mp : Supers \cup {NoSuper}, pid : Procs \cup {NoProc}]

\* The types of the variables; an entry that says running names a process, one that
\* says stopped names none.
TypeOK ==
  /\ run \in [Procs -> {"dead", "child", "orphan"}]
  /\ sup \in [Supers -> SupTypes]
  /\ procs \in Supers \cup {NoSuper}
  /\ reg \in Entries
  /\ call \in [Callers -> CallTypes]

Launching(m) == In(m, "new") /\ \E c \in Callers : call[c].mp = m /\ call[c].pc \in {"register", "persist"}

\* Every process this run of the app started is either waited for by a supervisor or
\* about to get one: whatever stops, crashes and respawns meet, none is left running
\* that nobody watches.
NoStray ==
  \A q \in Procs : run[q] = "child" =>
    \E m \in Supers : sup[m].cmd = q /\ (sup[m].pc \in {"wait", "update"} \/ Launching(m))

\* When Stop has marked the service stopped and no call is under way, no process of it
\* runs.
StopStops ==
  reg # NoEntry /\ reg.desired = "stopped" /\ (\A c \in Callers : At(c, "idle"))
    => \A q \in Procs : run[q] # "child"

Stopping(c) == call[c].pc \in {"request", "begin", "kill", "join"}

\* Every stop comes to its end: the supervisor it waits for does not respawn behind
\* its back.
StopEnds == \A c \in Callers : Stopping(c) ~> ~Stopping(c)

\* A service whose process crashed runs again, however often starting it fails, unless
\* it is told to stop (or the app ends).
CrashedComesBack == \A m \in Supers : In(m, "backoff") ~> (In(m, "update") \/ In(m, "done"))

\* A supervisor neither keeps its stopper waiting nor gives its service up.
SupervisorsMoveOn == StopEnds /\ CrashedComesBack
=============================================================================
