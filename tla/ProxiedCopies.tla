--------------------------- MODULE ProxiedCopies ---------------------------
(***************************************************************************)
(* The copies of services that run through one of the owner's proxies: an  *)
(* earner inside the network namespace of its tunnel.  The owner's calls   *)
(* (services/proxies.go) and the once-a-minute pass act on the same pair   *)
(* of containers; only the stored state of the proxy is under proxyMu, in  *)
(* sections of store calls that are one step each here.  Every call of the *)
(* owner but SaveProxy and DeleteProxy ends with a pass of its own.        *)
(***************************************************************************)
EXTENDS Integers, FiniteSets

CONSTANTS
  CopySlugs,    \* services that have, or may get, a copy through the proxy
  Owners,   \* calls of the owner under way at once
  CopyQuotas    \* bound: how often each call and each mishap may happen, one choice per behaviour

VARIABLES
  proxy,   \* the stored proxy: its definition (cap, settings version) and its state
  rec,     \* the record of each copy: "none", "kept", or "capped" (stopped_by_cap)
  tun,     \* the tunnel container of each copy
  ear,     \* its earner
  calls,      \* the owner's calls and the ticker's pass
  wish,    \* history: what the owner last asked for a copy, and got
  overlap, \* history: a pass has begun while another ran, or stops copies while a call starts them
  stranded, \* history: copies a failed deploy could not take away, and took off the record
  spare     \* what remains of the calls and mishaps allowed

copyVars == <<proxy, rec, tun, ear, calls, wish, overlap, stranded, spare>>
pair == <<tun, ear>>
history == <<wish, overlap, stranded>>

Ticker  == "ticker"
ASSUME OwnersAssumption == Ticker \notin Owners
CopyCallers == Owners \cup {Ticker}
Caps    == {"none", "small", "large"}    \* the traffic of the model reaches the small one only
NoTun == [st |-> "absent", id |-> 0, gen |-> 0, file |-> 0, ver |-> 0, ready |-> FALSE]
NoEar == [st |-> "absent", of |-> 0, gen |-> 0]
Up(st) == st = "running"
Slot   == CHOOSE s \in CopySlugs : TRUE
NothingSeen == [s \in CopySlugs |-> [tun |-> NoTun, ear |-> NoEar]]
NoCall == [pc |-> "idle", op |-> "", s |-> Slot, had |-> FALSE, was |-> FALSE, ver |-> 0, todo |-> {}, id |-> 0,
         hasEar |-> FALSE, hasTun |-> FALSE, crossed |-> FALSE, seen |-> NothingSeen]

CallAt(p, pc)    == calls[p].pc = pc
CallIs(p, r) == calls' = [calls EXCEPT ![p] = r]
CallTo(p, pc)  == CallIs(p, [calls[p] EXCEPT !.pc = pc])
Use(k)     == spare[k] > 0 /\ spare' = [spare EXCEPT ![k] = @ - 1]
Pass == [NoCall EXCEPT !.pc = "list", !.op = "pass"]

----------------------------------------------------------------------------
(* internal/proxies: the cap, on a used that is below the small cap or at   *)
(* it.                                                                      *)

ThresholdReached(cap, used) == cap = "small" /\ used
ResetState(x) == [x EXCEPT !.used = FALSE, !.capped = FALSE, !.due = FALSE]

\* The stored state after an edit, and whether the copies the cap stopped start again.
CapChange(old, new, x) ==
  IF new # "none" /\ old = "none" THEN [state |-> ResetState(x), release |-> x.capped]
  ELSE IF x.capped /\ ~ThresholdReached(new, x.used) THEN [state |-> [x EXCEPT !.capped = FALSE], release |-> TRUE]
  ELSE [state |-> x, release |-> FALSE]

\* The readings of running tunnels are added; what they hold is the model's choice.
Account(x, used) == [x EXCEPT !.used = @ \/ used, !.capped = @ \/ ThresholdReached(x.cap, x.used \/ used)]

----------------------------------------------------------------------------
(* The calls of the provider (runtime/proxied.go), a step per Docker call.  *)

\* Where a caller goes when its provider call has ended well, or with an error.
Done(p) == [calls[p] EXCEPT !.pc = CASE calls[p].op = "deploy"  -> "list"
                                  [] calls[p].op = "remove"  -> "unrecord"
                                  [] calls[p].op = "cap"     -> "mark"
                                  [] calls[p].op = "undo"    -> "stopNext"
                                  [] OTHER                -> "flag",
                         !.op = IF @ = "deploy" THEN "pass" ELSE @]
Failed(p) == CASE calls[p].op = "deploy" -> [calls[p] EXCEPT !.pc = "cleanup"]
               [] calls[p].op \in {"release", "reset"} -> [calls[p] EXCEPT !.pc = "releaseNext"]
               [] calls[p].op \in {"cap", "undo"} -> [calls[p] EXCEPT !.pc = "stopNext"]
               [] OTHER -> NoCall

PairRuns(s) == Up(ear[s].st) \/ Up(tun[s].st)

\* pairOf, and the refusal of a pair that is not there.
pairOf(p) ==
  LET r == calls[p]
      s == r.s
      e == ear[s].st # "absent"
      t == tun[s].st # "absent"
  IN  /\ calls[p].pc \in {"stop", "start", "clear"}
      /\ CallIs(p, IF (CallAt(p, "stop") /\ ~e /\ ~t) \/ (CallAt(p, "start") /\ ~(e /\ t)) THEN Failed(p)
                   ELSE [r EXCEPT !.hasEar = e, !.hasTun = t, !.was = PairRuns(s),
                                  !.pc = CASE CallAt(p, "stop") -> "stopEar" [] CallAt(p, "start") -> "settings" [] OTHER -> "rmEar"])
      /\ UNCHANGED <<proxy, rec, pair, history, spare>>

\* stopProxied: the earner, then its tunnel.
StopEar(p) ==
  LET s == calls[p].s IN
  /\ CallAt(p, "stopEar")
  /\ IF calls[p].hasEar /\ ear[s].st = "absent" THEN CallIs(p, Failed(p)) ELSE CallTo(p, "stopTun")
  /\ ear' = [ear EXCEPT ![s].st = IF calls[p].hasEar /\ Up(@) THEN "exited" ELSE @]
  /\ UNCHANGED <<proxy, rec, tun, history, spare>>
StopTun(p) ==
  LET s == calls[p].s IN
  /\ CallAt(p, "stopTun")
  /\ CallIs(p, IF calls[p].hasTun /\ tun[s].st = "absent" THEN Failed(p) ELSE Done(p))
  /\ tun' = [tun EXCEPT ![s].st = IF calls[p].hasTun /\ Up(@) THEN "exited" ELSE @, ![s].ready = @ /\ ~calls[p].hasTun]
  /\ UNCHANGED <<proxy, rec, ear, history, spare>>

\* startProxied: a tunnel that runs on other settings is stopped with its earner, one
\* that does not run gets the settings; it starts, and its exit is awaited.
TunSettings(p) ==
  LET s == calls[p].s
      other == Up(tun[s].st) /\ tun[s].file # calls[p].ver
  IN  /\ CallAt(p, "settings")
      /\ \/ /\ ear[s].st = "absent" \/ tun[s].st = "absent"
            /\ CallIs(p, Failed(p)) /\ UNCHANGED pair
         \/ /\ ear[s].st # "absent" /\ tun[s].st # "absent"
            /\ ear' = [ear EXCEPT ![s].st = IF other /\ Up(@) THEN "exited" ELSE @]
            /\ tun' = [tun EXCEPT ![s].st = IF other THEN "exited" ELSE @, ![s].ready = @ /\ ~other,
                                  ![s].file = IF ~other /\ Up(tun[s].st) THEN @ ELSE calls[p].ver]
            /\ CallTo(p, "startTun")
      /\ UNCHANGED <<proxy, rec, history, spare>>

\* A number no container, start of one or reading has.
InUse == UNION {{tun[s].id, tun[s].gen, ear[s].of, ear[s].gen} \cup
                UNION {{calls[p].seen[s].tun.gen, calls[p].seen[s].ear.gen, calls[p].id} : p \in CopyCallers} : s \in CopySlugs}
Numbers == 1..(Cardinality(CopySlugs) * (4 + 3 * Cardinality(CopyCallers)) + 1)
NewNumber == CHOOSE g \in Numbers : g \notin InUse /\ \A h \in 1..(g - 1) : h \in InUse

\* A deploy names its containers by their ids, the other calls by name.
TunOf(p) == IF calls[p].op = "deploy" /\ tun[calls[p].s].id # calls[p].id THEN NoTun ELSE tun[calls[p].s]
EarOf(p) == IF calls[p].op = "deploy" /\ ear[calls[p].s].of # calls[p].id THEN NoEar ELSE ear[calls[p].s]

Started(t, gen) == [t EXCEPT !.st = "running", !.gen = gen, !.ver = t.file, !.ready = FALSE]
StartTun(p) ==
  /\ CallAt(p, "startTun")
  /\ IF TunOf(p).st = "absent" THEN CallIs(p, Failed(p)) /\ UNCHANGED tun
     ELSE /\ tun' = IF Up(TunOf(p).st) THEN tun ELSE [tun EXCEPT ![calls[p].s] = Started(@, NewNumber)]
          /\ CallTo(p, "wait")
  /\ UNCHANGED <<proxy, rec, ear, history, spare>>

\* waitReady: its ready file, or a tunnel that no longer runs.
Wait(p) ==
  /\ CallAt(p, "wait")
  /\ \/ TunOf(p).ready /\ CallTo(p, IF calls[p].op = "deploy" THEN "mkEar" ELSE "startEar")
     \/ TunOf(p).st \in {"absent", "exited"} /\ CallIs(p, Failed(p))
  /\ UNCHANGED <<proxy, rec, pair, history, spare>>

\* The earner joins the namespace its tunnel has now, or Docker refuses; one that runs
\* is restarted into it.
CanJoin(s)  == ear[s].st # "absent" /\ Up(tun[s].st) /\ ear[s].of = tun[s].id
Joined(s)   == [ear[s] EXCEPT !.st = "running", !.gen = tun[s].gen]
StartEar(p) ==
  LET s == calls[p].s
      ok == EarOf(p).st # "absent" /\ CanJoin(s)
  IN  /\ CallAt(p, "startEar")
      /\ ear' = [ear EXCEPT ![s] = IF ok THEN Joined(s)
                                   ELSE IF Up(EarOf(p).st) THEN [@ EXCEPT !.st = "exited"] ELSE @]
      /\ CallIs(p, IF ok THEN Done(p) ELSE Failed(p))
      /\ wish' = IF ok /\ calls[p].op = "deploy" THEN [wish EXCEPT ![s] = "run"] ELSE wish
      /\ UNCHANGED <<overlap, stranded, proxy, rec, tun, spare>>

\* removeProxied: the earner first, so no tunnel is removed under a running earner.
RemoveEar(p) ==
  LET s == calls[p].s IN
  /\ CallAt(p, "rmEar")
  /\ IF calls[p].hasEar /\ ear[s].st = "absent" THEN CallIs(p, Failed(p)) ELSE CallTo(p, "rmTun")
  /\ ear' = [ear EXCEPT ![s] = IF calls[p].hasEar THEN NoEar ELSE @]
  /\ UNCHANGED <<proxy, rec, tun, history, spare>>
RemoveTun(p) ==
  LET s == calls[p].s IN
  /\ CallAt(p, "rmTun")
  /\ CallIs(p, IF calls[p].hasTun /\ tun[s].st = "absent" THEN Failed(p)
               ELSE IF calls[p].op = "deploy" THEN [calls[p] EXCEPT !.pc = "mkTun"] ELSE Done(p))
  /\ tun' = [tun EXCEPT ![s] = IF calls[p].hasTun THEN NoTun ELSE @]
  /\ UNCHANGED <<proxy, rec, ear, history, spare>>

\* deployProxied: the sidecar with its settings, and behind its exit the earner.  A
\* name that is taken fails the create.
MakeTun(p) ==
  LET s == calls[p].s IN
  /\ CallAt(p, "mkTun")
  /\ IF tun[s].st # "absent" THEN CallIs(p, Failed(p)) /\ UNCHANGED tun
     ELSE /\ tun' = [tun EXCEPT ![s] = [NoTun EXCEPT !.st = "created", !.id = NewNumber, !.file = calls[p].ver]]
          /\ CallIs(p, [calls[p] EXCEPT !.pc = "startTun", !.id = NewNumber])
  /\ UNCHANGED <<proxy, rec, ear, history, spare>>
MakeEar(p) ==
  LET s == calls[p].s IN
  /\ CallAt(p, "mkEar")
  /\ IF ear[s].st # "absent" \/ TunOf(p).st = "absent" THEN CallIs(p, Failed(p)) /\ UNCHANGED ear
     ELSE /\ ear' = [ear EXCEPT ![s] = [st |-> "created", of |-> calls[p].id, gen |-> 0]]
          /\ CallTo(p, "startEar")
  /\ UNCHANGED <<proxy, rec, tun, history, spare>>

\* removeQuietly: the stop and the removal are tried, and either may fail unheard.
Halted(c) == [c EXCEPT !.st = IF Up(@) THEN "exited" ELSE @]
QuietEar(p) == IF EarOf(p).st = "absent" THEN {ear[calls[p].s]} ELSE {NoEar, EarOf(p), Halted(EarOf(p))}
QuietTun(p) == IF TunOf(p).st = "absent" THEN {tun[calls[p].s]}
               ELSE {NoTun, TunOf(p), [Halted(TunOf(p)) EXCEPT !.ready = FALSE]}
\* A failed deploy takes away what it made, or not, and its record in any case, unless one
\* was there before.
Cleanup(p) ==
  LET s == calls[p].s
      stays == (EarOf(p).st # "absent" /\ ear'[s].st # "absent") \/ (TunOf(p).st # "absent" /\ tun'[s].st # "absent")
  IN  /\ CallAt(p, "cleanup")
      /\ \E e \in QuietEar(p) : ear' = [ear EXCEPT ![s] = e]
      /\ \E t \in QuietTun(p) : tun' = [tun EXCEPT ![s] = t]
      /\ rec' = [rec EXCEPT ![s] = IF calls[p].had THEN @ ELSE "none"]
      /\ stranded' = IF stays /\ ~calls[p].had THEN stranded \cup {s} ELSE stranded
      /\ CallIs(p, NoCall)
      /\ UNCHANGED <<proxy, wish, overlap, spare>>

\* Any of these calls may fail, a wait by its timeout.
CallFails(p) ==
  /\ Use("fail")
  /\ calls[p].pc \in {"stop", "start", "clear", "stopEar", "stopTun", "settings", "startTun", "wait", "startEar",
                  "rmEar", "rmTun", "mkTun", "mkEar"}
  /\ CallIs(p, Failed(p))
  /\ UNCHANGED <<proxy, rec, pair, history>>

----------------------------------------------------------------------------
(* The owner's calls (services/proxies.go).                                *)

Call(o, k, pc, s) ==
  /\ CallAt(o, "idle")
  /\ Use(k)
  /\ CallIs(o, [NoCall EXCEPT !.pc = pc, !.op = k, !.s = s, !.ver = proxy.ver])

\* DeployProxied: refused while capped, looked at again under the lock, where the record
\* goes in before the copy exists.
DeployProxied(o, s) ==
  /\ proxy.exists /\ ~proxy.capped
  /\ Call(o, "deploy", "record", s)
  /\ wish' = [wish EXCEPT ![s] = "open"]
  /\ UNCHANGED <<overlap, stranded, proxy, rec, pair>>
\* Mutant: A deploy does not look again under the lock.
SaveUnchecked(p) ==
  LET s == calls[p].s IN
  /\ CallAt(p, "record")
  /\ rec' = [rec EXCEPT ![s] = "kept"]
  /\ CallIs(p, [calls[p] EXCEPT !.pc = "clear", !.had = rec[s] # "none"])
  /\ UNCHANGED <<proxy, pair, history, spare>>
SaveProxiedCopy(o) ==
  LET s == calls[o].s IN
  /\ CallAt(o, "record")
  /\ IF ~proxy.exists \/ proxy.capped THEN CallIs(o, NoCall) /\ UNCHANGED rec
     ELSE /\ rec' = [rec EXCEPT ![s] = "kept"]
          /\ CallIs(o, [calls[o] EXCEPT !.pc = "clear", !.ver = proxy.ver, !.had = rec[s] # "none"])
  /\ UNCHANGED <<proxy, pair, history, spare>>

StopProxied(o, s) ==
  /\ Call(o, "stop", "stop", s)
  /\ wish' = [wish EXCEPT ![s] = "stop"]
  /\ UNCHANGED <<overlap, stranded, proxy, rec, pair>>
StartProxied(o, s) ==
  /\ proxy.exists /\ ~proxy.capped
  /\ Call(o, "start", "start", s)
  /\ wish' = [wish EXCEPT ![s] = "open"]
  /\ UNCHANGED <<overlap, stranded, proxy, rec, pair>>
RemoveProxied(o, s) ==
  /\ Call(o, "remove", "clear", s)
  /\ wish' = [wish EXCEPT ![s] = "gone"]
  /\ UNCHANGED <<overlap, stranded, proxy, rec, pair>>

Flag(s, v) == rec' = [rec EXCEPT ![s] = IF @ = "none" THEN @ ELSE v]
\* The copy is no longer one the cap has stopped.
SetProxiedCopyCapped(p) ==
  /\ CallAt(p, "flag")
  /\ Flag(calls[p].s, "kept")
  /\ CallIs(p, IF calls[p].op \in {"release", "reset"} THEN [calls[p] EXCEPT !.pc = "releaseNext"] ELSE Pass)
  /\ UNCHANGED <<proxy, pair, history, spare>>
DeleteProxiedCopy(p) ==
  /\ CallAt(p, "unrecord")
  /\ rec' = [rec EXCEPT ![calls[p].s] = "none"]
  /\ stranded' = stranded \ {calls[p].s}
  /\ CallIs(p, Pass)
  /\ UNCHANGED <<proxy, pair, wish, overlap, spare>>

\* SaveProxy on a stored proxy: the definition, then the state that follows from it,
\* which a failing statement leaves as it was.
SaveProxy(o, cap, ver) ==
  LET change == CapChange(proxy.cap, cap, proxy)
      edited == [change.state EXCEPT !.cap = cap, !.ver = ver]
  IN  /\ proxy.exists
      /\ CallAt(o, "idle")
      /\ <<cap, ver>> # <<proxy.cap, proxy.ver>>
      /\ \/ /\ Use("save")
            /\ proxy' = edited
            /\ CallIs(o, IF change.release THEN [NoCall EXCEPT !.pc = "releaseList", !.op = "release", !.ver = ver] ELSE NoCall)
         \/ /\ spare.fail > 0 /\ spare.save > 0
            /\ spare' = [spare EXCEPT !.fail = @ - 1, !.save = @ - 1]
            /\ proxy' = [proxy EXCEPT !.cap = cap, !.ver = ver]
            /\ UNCHANGED calls
      /\ UNCHANGED <<rec, pair, history>>
ResetProxy(o) ==
  /\ proxy.exists
  /\ CallAt(o, "idle")
  /\ Use("reset")
  /\ proxy' = ResetState(proxy)
  /\ CallIs(o, [NoCall EXCEPT !.pc = "releaseList", !.op = "reset", !.ver = proxy.ver])
  /\ UNCHANGED <<rec, pair, history>>
\* Refused while a copy is recorded; one section under the lock, so beside any other call.
DeleteProxy ==
  /\ proxy.exists
  /\ Use("delete")
  /\ \A s \in CopySlugs : rec[s] = "none"
  /\ proxy' = [proxy EXCEPT !.exists = FALSE]
  /\ UNCHANGED <<rec, pair, calls, history>>

\* releaseCapped starts the copies the cap stopped, with the definition its caller read.
ReleaseList(p) ==
  /\ CallAt(p, "releaseList")
  /\ CallIs(p, [calls[p] EXCEPT !.pc = "releaseNext", !.todo = {s \in CopySlugs : rec[s] = "capped"}])
  /\ UNCHANGED <<proxy, rec, pair, history, spare>>
ReleaseNext(p) ==
  /\ CallAt(p, "releaseNext")
  /\ IF calls[p].todo = {} THEN CallIs(p, IF calls[p].op = "reset" THEN Pass ELSE NoCall)
     ELSE LET s == CHOOSE x \in calls[p].todo : TRUE
          IN  CallIs(p, [calls[p] EXCEPT !.pc = "start", !.s = s, !.todo = @ \ {s}])
  /\ UNCHANGED <<proxy, rec, pair, history, spare>>

----------------------------------------------------------------------------
(* The pass: ProxyTick.                                                    *)

ProxyTick ==
  /\ CallAt(Ticker, "idle")
  /\ CallIs(Ticker, Pass)
  /\ UNCHANGED <<proxy, rec, pair, history, spare>>

\* proxiedStatus lists the containers, then looks at each pair and acts on it.
List(p) ==
  /\ CallAt(p, "list")
  /\ CallIs(p, [Pass EXCEPT !.pc = "act", !.todo = CopySlugs, !.seen = [s \in CopySlugs |-> [tun |-> tun[s], ear |-> ear[s]]]])
  /\ overlap' = (overlap \/ \E q \in CopyCallers \ {p} : calls[q].op \in {"pass", "cap", "undo"} /\ ~CallAt(q, "list"))
  /\ UNCHANGED <<proxy, rec, pair, wish, stranded, spare>>

\* Nothing until the tunnel runs and has written its ready file; a running earner of an
\* earlier start of the tunnel is restarted, one that does not run is started.
earnerAction(seen, s) ==
  IF ~Up(seen.tun.st) \/ seen.tun.id # tun[s].id \/ ~tun[s].ready THEN ""
  ELSE CASE Up(seen.ear.st) /\ tun[s].gen # ear[s].gen -> "restart"
         [] seen.ear.st \in {"exited", "created"}       -> "start"
         [] OTHER                                       -> ""
Act(p) ==
  \E s \in calls[p].todo :
    LET action == earnerAction(calls[p].seen[s], s)
        acts == action # "" /\ CanJoin(s) /\ ~(action = "start" /\ Up(ear[s].st))
    IN  /\ CallAt(p, "act")
        /\ ear' = IF acts THEN [ear EXCEPT ![s] = Joined(s)] ELSE ear
        /\ CallIs(p, [calls[p] EXCEPT !.todo = @ \ {s}, !.seen[s].ear.st = IF acts THEN "running" ELSE @])
        /\ UNCHANGED <<proxy, rec, tun, history, spare>>

\* Under the lock: a period that is due begins, the readings are added, the state is saved.
AccountStep(p) ==
  LET seen == calls[p].seen
      begun == IF proxy.due THEN ResetState(proxy) ELSE proxy
      live == {s \in CopySlugs : Up(seen[s].tun.st) \/ Up(seen[s].ear.st)}
  IN  /\ CallAt(p, "act")
      /\ calls[p].todo = {}
      /\ \E used \in {FALSE, \E s \in CopySlugs : Up(seen[s].tun.st)} :
           LET next == Account(begun, used) IN
           IF ~proxy.exists THEN CallIs(p, NoCall) /\ UNCHANGED <<proxy, spare>>
           ELSE /\ proxy' = next
                /\ IF next.capped /\ ~begun.capped THEN Use("cross") ELSE UNCHANGED spare
                /\ CallIs(p, IF next.capped
                             THEN [calls[p] EXCEPT !.pc = "targets", !.op = "cap", !.todo = live, !.crossed = ~begun.capped, !.seen = NothingSeen]
                             ELSE IF proxy.due THEN [NoCall EXCEPT !.pc = "releaseList", !.op = "release", !.ver = next.ver] ELSE NoCall)
      /\ UNCHANGED <<rec, pair, history>>

\* Mutant: Only the pass that crosses the cap stops copies.
TargetsOnce(p) ==
  /\ CallAt(p, "targets")
  /\ CallIs(p, [calls[p] EXCEPT !.pc = "stopNext", !.todo = {s \in CopySlugs : calls[p].crossed /\ rec[s] # "none"}])
  /\ UNCHANGED <<proxy, rec, pair, history, spare>>
\* A pass that crosses the cap asks every recorded copy to stop.
Targets(p) ==
  /\ CallAt(p, "targets")
  /\ CallIs(p, [calls[p] EXCEPT !.pc = "stopNext", !.todo = @ \cup {s \in CopySlugs : calls[p].crossed /\ rec[s] # "none"}])
  /\ overlap' = (overlap \/ \E q \in CopyCallers : calls[q].op \in {"release", "reset"})
  /\ UNCHANGED <<proxy, rec, pair, wish, stranded, spare>>
StopNext(p) ==
  /\ CallAt(p, "stopNext")
  /\ IF calls[p].todo = {} THEN CallIs(p, NoCall)
     ELSE LET s == CHOOSE x \in calls[p].todo : TRUE
          IN  CallIs(p, [calls[p] EXCEPT !.pc = "stop", !.op = "cap", !.s = s, !.todo = @ \ {s}])
  /\ UNCHANGED <<proxy, rec, pair, history, spare>>

\* Mutant: The cap is lifted while the stop runs, and the copy stays down unmarked.
MarkOnly(p) ==
  /\ CallAt(p, "mark")
  /\ IF calls[p].was /\ proxy.exists /\ proxy.capped THEN Flag(calls[p].s, "capped") ELSE UNCHANGED rec
  /\ CallTo(p, "stopNext")
  /\ UNCHANGED <<proxy, pair, history, spare>>
\* stopCapped, under the lock: a copy that was running is marked while the cap still
\* holds, and started again when it was lifted meanwhile.
Mark(p) ==
  /\ CallAt(p, "mark")
  /\ IF calls[p].was /\ proxy.exists /\ proxy.capped THEN Flag(calls[p].s, "capped") ELSE UNCHANGED rec
  /\ CallIs(p, IF calls[p].was /\ proxy.exists /\ ~proxy.capped
               THEN [calls[p] EXCEPT !.pc = "start", !.op = "undo", !.ver = proxy.ver]
               ELSE [calls[p] EXCEPT !.pc = "stopNext"])
  /\ UNCHANGED <<proxy, pair, history, spare>>

----------------------------------------------------------------------------
(* The environment.                                                        *)

\* cp-tunnel has loaded its firewall and seen an exit.
TunnelReady(s) ==
  /\ Up(tun[s].st) /\ ~tun[s].ready
  /\ tun' = [tun EXCEPT ![s].ready = TRUE]
  /\ UNCHANGED <<proxy, rec, ear, calls, history, spare>>
ResetDayComes ==
  /\ proxy.exists
  /\ Use("month")
  /\ proxy' = [proxy EXCEPT !.due = TRUE]
  /\ UNCHANGED <<rec, pair, calls, history>>
EarnerDies(s) ==
  /\ Use("die")
  /\ Up(ear[s].st)
  /\ ear' = [ear EXCEPT ![s].st = "exited"]
  /\ UNCHANGED <<proxy, rec, tun, calls, history>>
\* A reboot: Docker starts the tunnels that ran, never an earner, and the app starts anew.
Reboot ==
  /\ Use("reboot")
  /\ tun' = [s \in CopySlugs |-> IF Up(tun[s].st) THEN Started(tun[s], NewNumber) ELSE tun[s]]
  /\ ear' = [s \in CopySlugs |-> IF Up(ear[s].st) THEN [ear[s] EXCEPT !.st = "exited"] ELSE ear[s]]
  /\ calls' = [p \in CopyCallers |-> NoCall]
  /\ UNCHANGED <<proxy, rec, history>>

----------------------------------------------------------------------------
RunningPair == [tun |-> [NoTun EXCEPT !.st = "running", !.id = 1, !.gen = 2, !.file = 1, !.ver = 1, !.ready = TRUE],
                ear |-> [st |-> "running", of |-> 1, gen |-> 2]]
\* A proxy with no copy, or with a running one of every service.
CopiesInit ==
  /\ \E there \in BOOLEAN, cap \in Caps :
       /\ proxy = [exists |-> TRUE, cap |-> cap, ver |-> 1, used |-> FALSE, capped |-> FALSE, due |-> FALSE]
       /\ rec = [s \in CopySlugs |-> IF there THEN "kept" ELSE "none"]
       /\ tun = [s \in CopySlugs |-> IF there THEN RunningPair.tun ELSE NoTun]
       /\ ear = [s \in CopySlugs |-> IF there THEN RunningPair.ear ELSE NoEar]
       /\ wish = [s \in CopySlugs |-> IF there THEN "run" ELSE "gone"]
  /\ calls = [p \in CopyCallers |-> NoCall]
  /\ overlap = FALSE /\ stranded = {}
  /\ spare \in CopyQuotas

CopyStep(p) ==
  \/ pairOf(p) \/ StopEar(p) \/ StopTun(p) \/ TunSettings(p) \/ StartTun(p) \/ Wait(p) \/ StartEar(p)
  \/ RemoveEar(p) \/ RemoveTun(p) \/ MakeTun(p) \/ MakeEar(p) \/ Cleanup(p)
  \/ SetProxiedCopyCapped(p) \/ DeleteProxiedCopy(p) \/ ReleaseList(p) \/ ReleaseNext(p)
  \/ List(p) \/ Act(p) \/ AccountStep(p) \/ Targets(p) \/ StopNext(p) \/ Mark(p)
Begin(o) ==
  \/ \E s \in CopySlugs : DeployProxied(o, s) \/ StopProxied(o, s) \/ StartProxied(o, s) \/ RemoveProxied(o, s)
  \/ \E cap \in Caps, ver \in 1..2 : SaveProxy(o, cap, ver)
  \/ ResetProxy(o)
CopiesNext ==
  \/ \E o \in Owners : Begin(o) \/ SaveProxiedCopy(o)
  \/ \E p \in CopyCallers : CopyStep(p) \/ CallFails(p)
  \/ ProxyTick \/ DeleteProxy
  \/ \E s \in CopySlugs : TunnelReady(s) \/ EarnerDies(s)
  \/ ResetDayComes \/ Reboot

\* Calls go on, the ticker ticks, a tunnel that runs gets ready.
CopiesFairness ==
  /\ \A o \in Owners : WF_copyVars(CopyStep(o) \/ SaveProxiedCopy(o))
  /\ WF_copyVars(ProxyTick \/ CopyStep(Ticker))
  /\ \A s \in CopySlugs : WF_copyVars(TunnelReady(s))
CopiesSpec == CopiesInit /\ [][CopiesNext]_copyVars /\ CopiesFairness

----------------------------------------------------------------------------
(* Properties.                                                             *)

\* While the cap holds nothing keeps spending the allowance, whatever call was under way
\* when it was reached.
CapPrevails == <>[](proxy.exists /\ proxy.capped) => <>[](\A s \in CopySlugs : ~PairRuns(s))

\* A copy the owner has deployed is not forgotten: however stopping and lifting fall
\* together, once no cap holds it is up again, or still marked for the next reset, when
\* no call has failed and no two passes have overlapped on the way.
NoCopyForgotten ==
  \A s \in CopySlugs :
    <>[](proxy.exists /\ ~proxy.capped /\ wish[s] = "run" /\ spare.fail = 1 /\ ~overlap)
    => <>[](rec[s] = "capped" \/ (rec[s] = "kept" /\ Up(ear[s].st) /\ Up(tun[s].st) /\ ear[s].gen = tun[s].gen))

NoneLeft(S) ==
  (~proxy.exists /\ \A p \in CopyCallers : CallAt(p, "idle")) => \A s \in S : ear[s].st = "absent" /\ tun[s].st = "absent"

\* A deleted proxy leaves no copy behind, but those a failed deploy could not take away
\* and yet took off the record that would have refused the deletion.
DeletedLeavesNothing == NoneLeft(CopySlugs \ stranded)

\* False of the code (README): "DeleteProxy deletes a proxy that no copy runs through".
DeletedHasNoCopy == NoneLeft(CopySlugs)
=============================================================================
