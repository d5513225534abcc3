----------------------- MODULE NativeSupervisorProofs -----------------------
(***************************************************************************)
(* No process goes unwatched, for any number of processes, supervisors and  *)
(* overlapping calls.                                                       *)
(***************************************************************************)
EXTENDS NativeSupervisor, TLAPS

\* A supervisor in its backoff has nothing running; one that is over has no command;
\* one that has just respawned has a process.
SupersInv ==
  \A m \in Supers :
    /\ sup[m].pc = "backoff" => ~Alive(sup[m].cmd)
    /\ sup[m].pc = "done" => sup[m].cmd = NoProc
    /\ sup[m].pc \in {"new", "update"} => sup[m].cmd \in Procs

Launches(c) == call[c].pc \in {"register", "persist"}

\* A launch under way holds a supervisor that has not begun, and no other launch holds
\* the same one; a stop under way has taken a supervisor.
CallsInv ==
  /\ \A c \in Callers : Launches(c) => call[c].mp \in Supers /\ sup[call[c].mp].pc = "new"
  /\ \A c, d \in Callers : Launches(c) /\ Launches(d) /\ call[c].mp = call[d].mp => c = d
  /\ \A c \in Callers : call[c].pc \in {"request", "begin", "join"} => call[c].mp \in Supers

WatchInv == TypeOK /\ SupersInv /\ CallsInv /\ NoStray

\* The empty records are well typed.
LEMMA Empty ==
  /\ Over \in SupTypes /\ NoCall \in CallTypes
  /\ NoEntry \in Entries /\ [pid |-> NoProc, desired |-> "stopped"] \in Entries
  /\ \A q \in Procs : Running(q) \in Entries
  BY DEF Over, NoCall, SupTypes, CallTypes, Entries

\* A supervisor told to stop, and one that begins, are well typed.
LEMMA SuperSteps ==
  ASSUME NEW r \in SupTypes
  PROVE  [r EXCEPT !.told = TRUE] \in SupTypes /\ [r EXCEPT !.pc = "wait"] \in SupTypes
  BY DEF SupTypes

\* At the start nothing runs.
LEMMA WatchInit == Init => WatchInv
<1> SUFFICES ASSUME Init PROVE WatchInv
  OBVIOUS
<1>1. TypeOK BY Empty DEF Init, TypeOK
<1>2. SupersInv BY NoneAssumption DEF Init, SupersInv, Over
<1>3. CallsInv BY DEF Init, CallsInv, Launches, NoCall
<1>4. NoStray BY DEF Init, NoStray
<1> QED BY <1>1, <1>2, <1>3, <1>4 DEF WatchInv

\* The steps of a call keep the types.
LEMMA CallTyped ==
  ASSUME WatchInv, NEW c \in Callers, Begin(c) \/ CallStep(c)
  PROVE  TypeOK'
<1> USE Empty DEF WatchInv, TypeOK, CallTypes, At, Goto, End
<1>1. CASE BeginStart(c)
  <2>1. [NoCall EXCEPT !.verb = "start", !.pc = "check"] \in CallTypes BY DEF NoCall
  <2> QED BY <1>1, <2>1 DEF BeginStart
<1>2. CASE \E verb \in {"deploy", "stop", "restart", "remove"} : Take(c, verb)
  <2>1. PICK verb \in {"deploy", "stop", "restart", "remove"} : Take(c, verb) BY <1>2
  <2>2. [NoCall EXCEPT !.verb = verb, !.mp = procs,
           !.pc = IF procs = NoSuper THEN "orphan" ELSE "request"] \in CallTypes BY DEF NoCall
  <2>3. call' \in [Callers -> CallTypes] BY <2>1, <2>2 DEF Take
  <2> QED BY <2>1, <2>3 DEF Take
<1>3. CASE requestStop(c)
  <2>1. sup' \in [Supers -> SupTypes]
    <3>1. call[c].mp \in Supers BY <1>3 DEF requestStop, CallsInv
    <3>2. [sup[call[c].mp] EXCEPT !.told = TRUE] \in SupTypes
      <4>1. sup[call[c].mp] \in SupTypes BY <3>1
      <4> QED BY <4>1, SuperSteps
    <3>3. sup' = [sup EXCEPT ![call[c].mp] = [sup[call[c].mp] EXCEPT !.told = TRUE]] BY <1>3 DEF requestStop
    <3> QED BY <3>1, <3>2, <3>3
  <2>2. call' \in [Callers -> CallTypes]
    <3>1. call' = [call EXCEPT ![c] = [call[c] EXCEPT !.pc = "begin"]] BY <1>3 DEF requestStop
    <3>2. [call[c] EXCEPT !.pc = "begin"] \in CallTypes OBVIOUS
    <3> QED BY <3>1, <3>2
  <2> QED BY <1>3, <2>1, <2>2 DEF requestStop
<1>4. CASE beginStop(c)
  <2>1. call[c].mp \in Supers BY <1>4 DEF beginStop, CallsInv
  <2>2. sup[call[c].mp].cmd \in Procs \cup {NoProc} BY <2>1 DEF SupTypes
  <2>3. call' \in [Callers -> CallTypes] BY <1>4, <2>2 DEF beginStop
  <2>4. sup' \in [Supers -> SupTypes] BY <1>4 DEF beginStop, SupTypes
  <2> QED BY <1>4, <2>3, <2>4 DEF beginStop
<1>5. CASE Kill(c)
  <2>1. run' \in [Procs -> {"dead", "child", "orphan"}] BY <1>5 DEF Kill, Die
  <2>2. call' \in [Callers -> CallTypes] BY <1>5 DEF Kill, AfterStop
  <2> QED BY <1>5, <2>1, <2>2 DEF Kill
<1>6. CASE Join(c)
  <2>1. call' \in [Callers -> CallTypes] BY <1>6 DEF Join, AfterStop
  <2> QED BY <1>6, <2>1 DEF Join
<1>7. CASE ReadOrphan(c)
  <2>1. entryIsOurs => reg.pid \in Procs BY DEF entryIsOurs, Alive
  <2>2. call' \in [Callers -> CallTypes] BY <1>7, <2>1 DEF ReadOrphan
  <2> QED BY <1>7, <2>2 DEF ReadOrphan
<1>8. CASE Mark(c)
  <2>1. reg' \in Entries BY <1>8 DEF Mark
  <2>2. call' \in [Callers -> CallTypes] BY <1>8 DEF Mark
  <2> QED BY <1>8, <2>1, <2>2 DEF Mark
<1>9. CASE Delete(c) BY <1>9 DEF Delete
<1>10. CASE CheckChild(c) BY <1>10 DEF CheckChild
<1>11. CASE CheckEntry(c) BY <1>11 DEF CheckEntry
<1>12. CASE Register(c)
  <2>1. call[c].mp \in Supers BY <1>12 DEF Register, CallsInv, Launches
  <2> QED BY <1>12, <2>1 DEF Register
<1>13. CASE Persist(c)
  <2>1. call[c].mp \in Supers /\ sup[call[c].mp].cmd \in Procs
    <3>1. Launches(c) BY <1>13 DEF Persist, Launches
    <3>2. call[c].mp \in Supers /\ sup[call[c].mp].pc = "new" BY <3>1 DEF CallsInv
    <3> QED BY <3>2 DEF SupersInv
  <2>2. sup' \in [Supers -> SupTypes]
    <3>1. [sup[call[c].mp] EXCEPT !.pc = "wait"] \in SupTypes
      <4>1. sup[call[c].mp] \in SupTypes BY <2>1
      <4> QED BY <4>1, SuperSteps
    <3>2. sup' = [sup EXCEPT ![call[c].mp] = [sup[call[c].mp] EXCEPT !.pc = "wait"]] BY <1>13 DEF Persist
    <3> QED BY <2>1, <3>1, <3>2
  <2> QED BY <1>13, <2>1, <2>2 DEF Persist
<1>14. CASE CallFails(c) BY <1>14 DEF CallFails
<1>15. CASE \E m \in Supers, q \in Procs : Launch(c, m, q)
  <2>1. PICK m \in Supers, q \in Procs : Launch(c, m, q) BY <1>15
  <2>2. sup' \in [Supers -> SupTypes] BY <2>1 DEF Launch, SupTypes, Over
  <2>3. call' \in [Callers -> CallTypes] BY <2>1 DEF Launch
  <2> QED BY <2>1, <2>2, <2>3 DEF Launch
<1> QED BY <1>1, <1>2, <1>3, <1>4, <1>5, <1>6, <1>7, <1>8, <1>9, <1>10, <1>11, <1>12, <1>13, <1>14, <1>15
     DEF Begin, CallStep

\* So do a supervisor's, an exit and the end of the app.
LEMMA OtherTyped ==
  ASSUME WatchInv, (\E m \in Supers : Supervise(m)) \/ (\E q \in Procs : Exits(q)) \/ AppRestart
  PROVE  TypeOK'
<1> USE Empty DEF WatchInv, TypeOK
<1>1. CASE \E m \in Supers : Supervise(m)
  <2>1. PICK m \in Supers : Supervise(m) BY <1>1
  <2>2. CASE Reap(m) BY <2>2 DEF Reap, Finish, SupTypes
  <2>3. CASE StopInBackoff(m) BY <2>3 DEF StopInBackoff, Finish
  <2>4. CASE RespawnFails(m) BY <2>4 DEF RespawnFails, Finish, SupTypes
  <2>5. CASE updatePID(m)
    <3>1. sup[m].cmd \in Procs BY <2>5 DEF updatePID, In, SupersInv
    <3>2. sup' \in [Supers -> SupTypes] BY <2>5 DEF updatePID, SupTypes
    <3> QED BY <2>5, <3>1, <3>2 DEF updatePID
  <2>6. CASE \E q \in Procs : Respawn(m, q)
    <3>1. PICK q \in Procs : Respawn(m, q) BY <2>6
    <3>2. sup' \in [Supers -> SupTypes] BY <3>1 DEF Respawn, SupTypes
    <3> QED BY <3>1, <3>2 DEF Respawn
  <2> QED BY <2>1, <2>2, <2>3, <2>4, <2>5, <2>6 DEF Supervise
<1>2. CASE \E q \in Procs : Exits(q) BY <1>2 DEF Exits, Die
<1>3. CASE AppRestart BY <1>3 DEF AppRestart
<1> QED BY <1>1, <1>2, <1>3

\* The supervisors' invariant: a process starts only fresh, and a supervisor reaches its
\* backoff or its end only without a living one.
LEMMA SupersKept == WatchInv /\ Next => SupersInv'
<1> SUFFICES ASSUME WatchInv, Next PROVE SupersInv'
  OBVIOUS
<1> USE NoneAssumption DEF WatchInv, TypeOK, SupTypes, SupersInv, In
<1>1. ASSUME NEW c \in Callers, Begin(c)
      PROVE  SupersInv'
  BY <1>1 DEF Begin, BeginStart, Take, Alive
<1>2. ASSUME NEW c \in Callers, CallStep(c)
      PROVE  SupersInv'
  <2>1. CASE requestStop(c) BY <2>1 DEF requestStop, Alive
  <2>2. CASE beginStop(c) BY <2>2 DEF beginStop, Alive
  <2>3. CASE Kill(c) BY <2>3 DEF Kill, Die, Alive
  <2>4. CASE Join(c) \/ ReadOrphan(c) \/ Mark(c) \/ Delete(c) \/ CallFails(c)
    BY <2>4 DEF Join, ReadOrphan, Mark, Delete, CallFails, Alive
  <2>5. CASE CheckChild(c) \/ CheckEntry(c) \/ Register(c)
    BY <2>5 DEF CheckChild, CheckEntry, Register, Alive
  <2>6. CASE Persist(c) BY <2>6 DEF Persist, Alive
  <2>7. CASE \E m \in Supers, q \in Procs : Launch(c, m, q)
    BY <2>7 DEF Launch, Fresh, Over, Alive
  <2> QED BY <1>2, <2>1, <2>2, <2>3, <2>4, <2>5, <2>6, <2>7 DEF CallStep
<1>3. ASSUME NEW m \in Supers, Supervise(m)
      PROVE  SupersInv'
  <2>1. CASE Reap(m) BY <2>1 DEF Reap, Finish, Over, Alive
  <2>2. CASE StopInBackoff(m) BY <2>2 DEF StopInBackoff, Finish, Over, Alive
  <2>3. CASE RespawnFails(m) BY <2>3 DEF RespawnFails, Finish, Over, Alive
  <2>4. CASE updatePID(m) BY <2>4 DEF updatePID, Alive
  <2>5. CASE \E q \in Procs : Respawn(m, q) BY <2>5 DEF Respawn, Fresh, Alive
  <2> QED BY <1>3, <2>1, <2>2, <2>3, <2>4, <2>5 DEF Supervise
<1>4. ASSUME NEW q \in Procs, Exits(q)
      PROVE  SupersInv'
  BY <1>4 DEF Exits, Die, Alive
<1>5. CASE AppRestart BY <1>5 DEF AppRestart, Over, Alive
<1> QED BY <1>1, <1>2, <1>3, <1>4, <1>5 DEF Next

\* A call that stops nothing and launches nothing does not disturb it.
LEMMA Settles ==
  ASSUME WatchInv, NEW c \in Callers, NEW r \in CallTypes, sup' = sup,
         call' = [call EXCEPT ![c] = r],
         r.pc \notin {"register", "persist", "request", "begin", "join"}
  PROVE  CallsInv'
  BY DEF WatchInv, TypeOK, CallsInv, Launches

\* The calls' invariant: a launch takes a supervisor nobody holds, and only its own
\* Persist makes it begin.
LEMMA CallsKept == WatchInv /\ Next => CallsInv'
<1> SUFFICES ASSUME WatchInv, Next PROVE CallsInv'
  OBVIOUS
<1> USE NoneAssumption DEF WatchInv, TypeOK, SupTypes, CallTypes, CallsInv, Launches, In, At, Goto, End, NoCall
<1>1. ASSUME NEW c \in Callers, BeginStart(c)
      PROVE  CallsInv'
  BY <1>1 DEF BeginStart
<1>2. ASSUME NEW c \in Callers, NEW verb \in {"deploy", "stop", "restart", "remove"}, Take(c, verb)
      PROVE  CallsInv'
  BY <1>2 DEF Take
<1>3. ASSUME NEW c \in Callers, CallStep(c)
      PROVE  CallsInv'
  <2>1. CASE requestStop(c)
    <3>1. /\ call' = [call EXCEPT ![c] = [call[c] EXCEPT !.pc = "begin"]]
          /\ call[c].pc = "request" /\ call[c].mp \in Supers
          /\ sup' = [sup EXCEPT ![call[c].mp].told = TRUE]
      BY <2>1 DEF requestStop
    <3> QED BY <3>1
  <2>2. CASE beginStop(c) BY <2>2 DEF beginStop
  <2>3. CASE Kill(c) BY <2>3 DEF Kill, AfterStop
  <2>4. CASE Join(c) BY <2>4 DEF Join, AfterStop
  <2>5. CASE ReadOrphan(c)
    <3>1. call[c] \in CallTypes /\ NoCall \in CallTypes BY Empty
    <3>2. entryIsOurs => reg.pid \in Procs BY DEF entryIsOurs, Alive
    <3>3. PICK q \in Procs \cup {NoProc} :
            call' = [call EXCEPT ![c].pid = q, ![c].pc = "kill"] \/ call' = [call EXCEPT ![c] = NoCall]
      BY <2>5, <3>2 DEF ReadOrphan
    <3>4. [call[c] EXCEPT !.pid = q, !.pc = "kill"] \in CallTypes BY <3>1
    <3>5. CASE call' = [call EXCEPT ![c].pid = q, ![c].pc = "kill"]
      <4> DEFINE r == [call[c] EXCEPT !.pid = q, !.pc = "kill"]
      <4>1. call' = [call EXCEPT ![c] = r] /\ r.pc = "kill" /\ sup' = sup BY <2>5, <3>1, <3>5 DEF ReadOrphan
      <4> QED BY <3>4, <4>1, Settles
    <3>6. CASE call' = [call EXCEPT ![c] = NoCall]
      BY <2>5, <3>1, <3>6, Settles DEF ReadOrphan
    <3> QED BY <3>3, <3>5, <3>6
  <2>6. CASE Mark(c)
    <3>1. CASE call[c].verb = "restart"
      <4> DEFINE r == [call[c] EXCEPT !.pc = "check"]
      <4>1. r \in CallTypes /\ r.pc = "check" OBVIOUS
      <4>2. call' = [call EXCEPT ![c] = r] /\ sup' = sup BY <2>6, <3>1 DEF Mark
      <4> QED BY <4>1, <4>2, Settles
    <3>2. CASE call[c].verb # "restart"
      <4>1. NoCall \in CallTypes /\ NoCall.pc = "idle" BY Empty
      <4>2. call' = [call EXCEPT ![c] = NoCall] /\ sup' = sup BY <2>6, <3>2 DEF Mark
      <4> QED BY <4>1, <4>2, Settles
    <3> QED BY <3>1, <3>2
  <2>7. CASE Delete(c) \/ CallFails(c)
    <3>1. NoCall \in CallTypes /\ NoCall.pc = "idle" BY Empty
    <3>2. call' = [call EXCEPT ![c] = NoCall] /\ sup' = sup BY <2>7 DEF Delete, CallFails
    <3> QED BY <3>1, <3>2, Settles
  <2>8. CASE CheckChild(c) \/ CheckEntry(c)
    <3>1. NoCall \in CallTypes /\ NoCall.pc = "idle" BY Empty
    <3>2. /\ [call[c] EXCEPT !.pc = "entry"] \in CallTypes /\ [call[c] EXCEPT !.pc = "launch"] \in CallTypes
          /\ [call[c] EXCEPT !.pc = "entry"].pc = "entry" /\ [call[c] EXCEPT !.pc = "launch"].pc = "launch"
      OBVIOUS
    <3>3. sup' = sup BY <2>8 DEF CheckChild, CheckEntry
    <3>4. \/ call' = [call EXCEPT ![c] = NoCall]
          \/ call' = [call EXCEPT ![c] = [call[c] EXCEPT !.pc = "entry"]]
          \/ call' = [call EXCEPT ![c] = [call[c] EXCEPT !.pc = "launch"]]
      BY <2>8 DEF CheckChild, CheckEntry
    <3>5. CASE call' = [call EXCEPT ![c] = NoCall] BY <3>1, <3>3, <3>5, Settles
    <3>6. CASE call' = [call EXCEPT ![c] = [call[c] EXCEPT !.pc = "entry"]] BY <3>2, <3>3, <3>6, Settles
    <3>7. CASE call' = [call EXCEPT ![c] = [call[c] EXCEPT !.pc = "launch"]] BY <3>2, <3>3, <3>7, Settles
    <3> QED BY <3>4, <3>5, <3>6, <3>7
  <2>9. CASE Register(c) BY <2>9 DEF Register
  <2>10. CASE Persist(c) BY <2>10 DEF Persist
  <2>11. CASE \E m \in Supers, q \in Procs : Launch(c, m, q)
    BY <2>11 DEF Launch, New, Over
  <2> QED BY <1>3, <2>1, <2>2, <2>3, <2>4, <2>5, <2>6, <2>7, <2>8, <2>9, <2>10, <2>11 DEF CallStep
<1>4. ASSUME NEW m \in Supers, Supervise(m)
      PROVE  CallsInv'
  <2>1. call' = call BY <1>4 DEF Supervise, Reap, StopInBackoff, RespawnFails, updatePID, Respawn
  <2>2. sup[m].pc # "new"
    BY <1>4 DEF Supervise, Reap, StopInBackoff, RespawnFails, updatePID, Respawn
  <2>3. \A n \in Supers : n # m => sup'[n] = sup[n]
    <3>1. CASE Reap(m) BY <3>1 DEF Reap, Finish
    <3>2. CASE StopInBackoff(m) BY <3>2 DEF StopInBackoff, Finish
    <3>3. CASE RespawnFails(m) BY <3>3 DEF RespawnFails, Finish
    <3>4. CASE updatePID(m) BY <3>4 DEF updatePID
    <3>5. CASE \E q \in Procs : Respawn(m, q) BY <3>5 DEF Respawn
    <3> QED BY <1>4, <3>1, <3>2, <3>3, <3>4, <3>5 DEF Supervise
  <2> QED BY <2>1, <2>2, <2>3
<1>5. ASSUME NEW q \in Procs, Exits(q)
      PROVE  CallsInv'
  BY <1>5 DEF Exits
<1>6. CASE AppRestart BY <1>6 DEF AppRestart
<1> QED BY <1>1, <1>2, <1>3, <1>4, <1>5, <1>6 DEF Next, Begin

\* A step that starts nothing, leaves every supervisor its process and its place, and
\* every launch its supervisor, leaves no process unwatched.
LEMMA Undisturbed ==
  ASSUME WatchInv, sup' \in [Supers -> SupTypes],
         \A q \in Procs : run'[q] = "child" => run[q] = "child",
         \A m \in Supers : sup'[m].cmd = sup[m].cmd /\ sup'[m].pc = sup[m].pc,
         \A c \in Callers : Launches(c) => call'[c].mp = call[c].mp
                                      /\ call'[c].pc \in {"register", "persist"}
  PROVE  NoStray'
  BY DEF WatchInv, TypeOK, NoStray, Launching, Launches, In

\* NoStray itself.
LEMMA StrayKept == WatchInv /\ Next => NoStray'
<1> SUFFICES ASSUME WatchInv, Next PROVE NoStray'
  OBVIOUS
<1>t. TypeOK' BY CallTyped, OtherTyped DEF Next
<1> USE <1>t, NoneAssumption
<1>1. ASSUME NEW c \in Callers, Begin(c)
      PROVE  NoStray'
  BY <1>1, Undisturbed DEF Begin, BeginStart, Take, At, Launches, WatchInv, TypeOK
<1>2. ASSUME NEW c \in Callers, CallStep(c)
      PROVE  NoStray'
  <2> USE DEF WatchInv, TypeOK, At, Goto, End, Launches
  <2>1. CASE requestStop(c) BY <2>1, Undisturbed DEF requestStop, SupTypes
  <2>2. CASE beginStop(c) BY <2>2, Undisturbed DEF beginStop, SupTypes
  <2>3. CASE Kill(c) BY <2>3, Undisturbed DEF Kill, Die
  <2>4. CASE Join(c) \/ ReadOrphan(c) \/ Mark(c) BY <2>4, Undisturbed DEF Join, ReadOrphan, Mark
  <2>5. CASE Delete(c) \/ CallFails(c) BY <2>5, Undisturbed DEF Delete, CallFails
  <2>6. CASE CheckChild(c) \/ CheckEntry(c) BY <2>6, Undisturbed DEF CheckChild, CheckEntry
  <2>7. CASE Register(c) BY <2>7, Undisturbed DEF Register, CallTypes
  <2>8. CASE Persist(c)
    BY <2>8 DEF Persist, NoStray, Launching, In, SupTypes, CallsInv
  <2>9. CASE \E m \in Supers, q \in Procs : Launch(c, m, q)
    BY <2>9 DEF Launch, NoStray, Launching, New, In, Over, SupTypes, CallTypes, SupersInv
  <2> QED BY <1>2, <2>1, <2>2, <2>3, <2>4, <2>5, <2>6, <2>7, <2>8, <2>9 DEF CallStep
<1>3. ASSUME NEW m \in Supers, Supervise(m)
      PROVE  NoStray'
  <2> USE DEF WatchInv, TypeOK, SupTypes, SupersInv, NoStray, Launching, In, Alive
  <2>1. CASE Reap(m) BY <2>1 DEF Reap, Finish
  <2>2. CASE StopInBackoff(m) BY <2>2 DEF StopInBackoff, Finish
  <2>3. CASE RespawnFails(m) BY <2>3 DEF RespawnFails, Finish
  <2>4. CASE updatePID(m) BY <2>4 DEF updatePID
  <2>5. CASE \E q \in Procs : Respawn(m, q) BY <2>5 DEF Respawn
  <2> QED BY <1>3, <2>1, <2>2, <2>3, <2>4, <2>5 DEF Supervise
<1>4. ASSUME NEW q \in Procs, Exits(q)
      PROVE  NoStray'
  BY <1>4, Undisturbed DEF Exits, Die, WatchInv, TypeOK, Launches
<1>5. CASE AppRestart BY <1>5 DEF AppRestart, NoStray, WatchInv, TypeOK
<1> QED BY <1>1, <1>2, <1>3, <1>4, <1>5 DEF Next

\* The invariant is inductive.
LEMMA WatchKept == WatchInv /\ [Next]_vars => WatchInv'
<1>1. WatchInv /\ Next => WatchInv'
  BY CallTyped, OtherTyped, SupersKept, CallsKept, StrayKept DEF Next, WatchInv
<1>2. WatchInv /\ UNCHANGED vars => WatchInv'
  BY DEF vars, WatchInv, TypeOK, SupersInv, CallsInv, NoStray, Alive, Launching, Launches, In
<1> QED BY <1>1, <1>2

\* Every variable keeps its type (TypeOK), for any number of processes, supervisors and
\* calls.
THEOREM NativeTypes == Spec => []TypeOK
<1>1. WatchInv => TypeOK BY DEF WatchInv
<1> QED BY WatchInit, WatchKept, <1>1, PTL DEF Spec

\* Whatever stops, crashes, respawns and redeploys meet, no process this run of the app
\* started is left running with nobody to watch it (NoStray).
THEOREM NoStrayHolds == Spec => []NoStray
<1>1. WatchInv => NoStray BY DEF WatchInv
<1> QED BY WatchInit, WatchKept, <1>1, PTL DEF Spec
=============================================================================
