------------------------------ MODULE LanFence ------------------------------
(***************************************************************************)
(* The LAN fence (internal/runtime/lanfence.go): earners on a network of   *)
(* CashPilot's own, whose one firewall table both gives them the internet  *)
(* and drops the LAN.  The callers are the five-minute tick, the check     *)
(* after a changed setting, a deploy, and EnableIsolation with its         *)
(* redeploys.  They share the helper's lock mu; only whole reconciles are  *)
(* serialised by reconcileMu.  Docker may lose the network or the table at *)
(* any moment, any call may fail, and the app may die, leaving its helper. *)
(***************************************************************************)
EXTENDS Integers, FiniteSets

CONSTANTS
  Earners,    \* managed containers
  Tunnels,    \* those of the earners that are the sidecar of a proxied copy
  Checks,     \* the goroutines SaveSettings starts to reconcile
  MaxNet,     \* bound: networks created
  FenceQuotas      \* bound: how often each event may happen, one choice per behaviour

\* A tunnel is the earner that runs for a proxied copy.
ASSUME TunnelAssumption == Tunnels \subseteq Earners

VARIABLES
  cfg,     \* [setting, on]: the setting and whether isolation is remembered as on
  up,      \* the daemon answers
  net,     \* the network named cashpilot-isolated
  table,   \* the firewall table: none, full, or masq (masquerade only)
  box,     \* the container of each earner and the network it is bound to
  helper,  \* the container named cashpilot-fence
  lock,    \* [mu, rec]: who holds f.mu and f.reconcileMu
  status,  \* the cached status
  pr,      \* the callers
  allowed  \* what remains of the events allowed

fenceVars == <<cfg, up, net, table, box, helper, lock, status, pr, allowed>>
world == <<up, net, table, box, helper>>

Callers == {"tick", "enable", "deploy"} \cup Checks
Settings == {"auto", "on", "off"}
Bridge == 0
Other  == -1           \* a network that is neither Docker's default bridge nor ours
NoNet  == [id |-> 0, ours |-> FALSE, used |-> FALSE]
NoHelper == [who |-> "none", busy |-> FALSE, act |-> "apply"]
NoBox  == [st |-> "absent", at |-> Bridge]
Nobody == "nobody"
ASSUME ChecksAssumption == Nobody \notin Checks
Resting == [pc |-> "idle", job |-> "", chosen |-> "auto", mode |-> "", managed |-> FALSE, seen |-> [e \in Earners |-> NoBox],
         act |-> "apply", try |-> 1, at |-> Bridge, e |-> CHOOSE e \in Earners : TRUE, todo |-> {}]

Stands(p, s)  == pr[p].pc = s
Turn(p, r)    == pr' = [pr EXCEPT ![p] = r]
Proceed(p, s) == Turn(p, [pr[p] EXCEPT !.pc = s])
Held          == lock.mu # Nobody

----------------------------------------------------------------------------
(* What the fence reads off containers and networks.                       *)

onDefaultBridge(b) == b.at = Bridge
OurName(b)         == b.at >= 1
Present(seen)      == {e \in Earners : seen[e].st # "absent"}

boundToRemoved(exists, seen) == ~exists /\ \E e \in Present(seen) : OurName(seen[e])

resolveFenceMode(setting, managed, bound, remembered, seen) ==
  IF setting # "auto" THEN setting
  ELSE IF managed \/ bound \/ remembered THEN "on"
  ELSE IF \E e \in Present(seen) \ Tunnels : onDefaultBridge(seen[e]) THEN "legacy" ELSE "on"

outsideFence(mode, seen) ==
  {e \in Present(seen) \ Tunnels :
     /\ seen[e].st = "running"
     /\ IF mode = "legacy" THEN onDefaultBridge(seen[e]) ELSE ~OurName(seen[e])}

Outside(mode, seen) == IF mode \in {"legacy", "on"} THEN outsideFence(mode, seen) ELSE {}
setOutside(mode, seen) == status' = [status EXCEPT !.mode = mode, !.outside = Outside(mode, seen)]
recordResult(state) == status' = [status EXCEPT !.state = state]

staleEndpoint(b, id) == OurName(b) /\ b.at # id

----------------------------------------------------------------------------
(* Where a caller goes when one of its calls is over.                      *)

\* The next redeploy of EnableIsolation, and after the last one its reconcile.
AfterDeploy(p) ==
  LET r == pr[p] IN
  IF r.todo = {} THEN IF p = "enable" THEN [Resting EXCEPT !.pc = "ping", !.job = "reconcile"] ELSE Resting
  ELSE LET e == CHOOSE x \in r.todo : TRUE
       IN  [Resting EXCEPT !.pc = "list", !.job = "deploy", !.e = e, !.todo = r.todo \ {e}]

\* apply or reduce has failed: reconcile records it and goes on, the others are refused.
AfterFailure(p) ==
  CASE pr[p].job = "reconcile" -> [pr[p] EXCEPT !.pc = IF pr[p].act = "apply" THEN "relist" ELSE "publish"]
    [] pr[p].job = "enable"    -> Resting
    [] pr[p].job = "deploy"    -> AfterDeploy(p)

AfterSuccess(p) ==
  [pr[p] EXCEPT !.pc = CASE pr[p].job = "reconcile" -> IF pr[p].act = "apply" THEN "relist" ELSE "publish"
                         [] pr[p].job = "enable"    -> "remember"
                         [] pr[p].job = "deploy"    -> "remove",
                !.at = IF pr[p].job = "deploy" THEN 1 ELSE @, !.act = "apply", !.try = 1]

\* A failing call: the daemon is down, or a failure of its own.
Fails == \/ ~up /\ UNCHANGED allowed
         \/ allowed.fail > 0 /\ allowed' = [allowed EXCEPT !.fail = @ - 1]

----------------------------------------------------------------------------
(* The beginnings.                                                         *)

FenceTick == /\ Stands("tick", "idle")
        /\ Turn("tick", [Resting EXCEPT !.pc = "ping", !.job = "reconcile"])
        /\ UNCHANGED <<cfg, world, lock, status, allowed>>

\* SaveSettings: off forgets that isolation was on in the same write, and a changed
\* setting starts a reconcile at once.
ChangeSetting(s) ==
  /\ allowed.save > 0
  /\ s # cfg.setting
  /\ cfg' = [setting |-> s, on |-> s # "off" /\ cfg.on]
  /\ \E c \in Checks : Stands(c, "idle") /\ Turn(c, [Resting EXCEPT !.pc = "ping", !.job = "reconcile"])
  /\ allowed' = [allowed EXCEPT !.save = @ - 1]
  /\ UNCHANGED <<world, lock, status>>

Deploy(e) ==
  /\ allowed.deploy > 0
  /\ Stands("deploy", "idle")
  /\ Turn("deploy", [Resting EXCEPT !.pc = "list", !.job = "deploy", !.e = e])
  /\ allowed' = [allowed EXCEPT !.deploy = @ - 1]
  /\ UNCHANGED <<cfg, world, lock, status>>

\* enable refuses when the setting is off.
EnableFence ==
  /\ allowed.enable > 0
  /\ Stands("enable", "idle")
  /\ cfg.setting # "off"
  /\ Turn("enable", [Resting EXCEPT !.pc = "mu", !.job = "enable"])
  /\ allowed' = [allowed EXCEPT !.enable = @ - 1]
  /\ UNCHANGED <<cfg, world, lock, status>>

\* ReconcileFence asks the daemon first.
Ping(p) ==
  /\ Stands(p, "ping")
  /\ IF up THEN Proceed(p, "reconcile") /\ UNCHANGED status
           ELSE Turn(p, Resting) /\ status' = [mode |-> "", state |-> "n/a", outside |-> {}]
  /\ UNCHANGED <<cfg, world, lock, allowed>>

----------------------------------------------------------------------------
(* mode: list the earners, look at the network, the setting and the memory, *)
(* resolve, and record.                                                     *)

LockReconcile(p) ==
  /\ Stands(p, "reconcile")
  /\ lock.rec = Nobody
  /\ lock' = [lock EXCEPT !.rec = p]
  /\ Turn(p, [pr[p] EXCEPT !.pc = "list", !.chosen = cfg.setting])
  /\ UNCHANGED <<cfg, world, status, allowed>>

Freed(p) == [lock EXCEPT !.rec = IF @ = p THEN Nobody ELSE @, !.mu = IF @ = p THEN Nobody ELSE @]

listEarners(p) ==
  /\ Stands(p, "list")
  /\ up
  /\ Turn(p, [pr[p] EXCEPT !.pc = "look", !.seen = box])
  /\ UNCHANGED <<cfg, world, lock, status, allowed>>

Look(p) ==
  /\ Stands(p, "look")
  /\ up
  /\ LET r == pr[p]
         managed == net.id > 0 /\ net.ours
         mode == resolveFenceMode(cfg.setting, managed, boundToRemoved(net.id > 0, r.seen), cfg.on, r.seen)
     IN  Turn(p, [r EXCEPT !.pc = "record", !.mode = mode, !.managed = managed,
                                       !.seen = IF r.job = "reconcile" THEN @ ELSE Resting.seen])
  /\ UNCHANGED <<cfg, world, lock, status, allowed>>

ModeFails(p) ==
  /\ pr[p].pc \in {"list", "look"}
  /\ Fails
  /\ IF pr[p].job = "reconcile"
     THEN Turn(p, Resting) /\ lock' = Freed(p) /\ recordResult("failed")
     ELSE Turn(p, AfterDeploy(p)) /\ UNCHANGED <<lock, status>>
  /\ UNCHANGED <<cfg, world>>

\* Mutant: off is not recorded.
RecordKeeps(p) ==
  LET r == pr[p] IN
  /\ Stands(p, "record")
  /\ cfg' = [cfg EXCEPT !.on = @ \/ r.mode = "on"]
  /\ \/ /\ r.mode = "on" \/ (r.job = "reconcile" /\ r.mode = "off" /\ r.managed)
        /\ Turn(p, [r EXCEPT !.pc = "mu", !.managed = FALSE, !.mode = IF r.job = "deploy" THEN "" ELSE @,
                               !.act = IF r.mode = "on" THEN "apply" ELSE "reduce"])
        /\ status' = IF r.job = "deploy" THEN [status EXCEPT !.mode = r.mode] ELSE status
     \/ /\ r.job = "reconcile"
        /\ r.mode = "legacy" \/ (r.mode = "off" /\ ~r.managed)
        /\ Proceed(p, "publish")
        /\ recordResult("n/a")
     \/ /\ r.job = "deploy" /\ r.mode # "on"
        /\ Turn(p, [Resting EXCEPT !.pc = "remove", !.job = "deploy", !.e = r.e, !.todo = r.todo])
        /\ status' = [status EXCEPT !.mode = r.mode]
  /\ UNCHANGED <<world, lock, allowed>>

\* record writes only a change; then reconcile and networkForDeploy branch on the mode.
Record(p) ==
  LET r == pr[p] IN
  /\ Stands(p, "record")
  /\ cfg' = CASE r.mode = "on"  -> [cfg EXCEPT !.on = TRUE]
              [] r.mode = "off" -> [cfg EXCEPT !.on = FALSE]
              [] OTHER          -> cfg
  /\ \/ /\ r.mode = "on" \/ (r.job = "reconcile" /\ r.mode = "off" /\ r.managed)
        /\ Turn(p, [r EXCEPT !.pc = "mu", !.managed = FALSE, !.mode = IF r.job = "deploy" THEN "" ELSE @,
                               !.act = IF r.mode = "on" THEN "apply" ELSE "reduce"])
        /\ status' = IF r.job = "deploy" THEN [status EXCEPT !.mode = r.mode] ELSE status
     \/ /\ r.job = "reconcile"
        /\ r.mode = "legacy" \/ (r.mode = "off" /\ ~r.managed)
        /\ Proceed(p, "publish")
        /\ recordResult("n/a")
     \/ /\ r.job = "deploy" /\ r.mode # "on"
        /\ Turn(p, [Resting EXCEPT !.pc = "remove", !.job = "deploy", !.e = r.e, !.todo = r.todo])
        /\ status' = [status EXCEPT !.mode = r.mode]
  /\ UNCHANGED <<world, lock, allowed>>

----------------------------------------------------------------------------
(* apply and reduce, under mu.                                             *)

\* Mutant: reduce does not take the lock.
LockApplyOnly(p) ==
  /\ Stands(p, "mu")
  /\ IF pr[p].act = "apply" THEN ~Held /\ lock' = [lock EXCEPT !.mu = p] ELSE UNCHANGED lock
  /\ Proceed(p, IF pr[p].act = "apply" THEN "ensure" ELSE "clear")
  /\ UNCHANGED <<cfg, world, status, allowed>>

Lock(p) ==
  /\ Stands(p, "mu")
  /\ ~Held
  /\ lock' = [lock EXCEPT !.mu = p]
  /\ Proceed(p, IF pr[p].act = "apply" THEN "ensure" ELSE "clear")
  /\ UNCHANGED <<cfg, world, status, allowed>>

UnlockMu(p) == [lock EXCEPT !.mu = IF @ = p THEN Nobody ELSE @]

\* ensureNetwork: ours is taken, another one of the name is replaced unless it is used.
ensureNetwork(p) ==
  /\ Stands(p, "ensure")
  /\ up
  /\ \/ /\ net.ours /\ UNCHANGED <<net, allowed>>
     \/ /\ ~net.ours /\ ~net.used
        /\ allowed.nets > 0
        /\ allowed' = [allowed EXCEPT !.nets = @ - 1]
        /\ net' = [id |-> MaxNet - allowed.nets + 2, ours |-> TRUE, used |-> FALSE]
  /\ Proceed(p, "clear")
  /\ UNCHANGED <<cfg, up, table, box, helper, lock, status>>

\* clearHelper waits for a helper that is busy and removes one that is left over.
clearHelper(p) ==
  /\ Stands(p, "clear")
  /\ up
  /\ ~helper.busy
  /\ helper' = NoHelper
  /\ Proceed(p, "create")
  /\ UNCHANGED <<cfg, up, net, table, box, lock, status, allowed>>

CreateHelper(p) ==
  /\ Stands(p, "create")
  /\ up
  /\ helper = NoHelper
  /\ helper' = [who |-> "ours", busy |-> TRUE, act |-> pr[p].act]
  /\ Proceed(p, "run")
  /\ UNCHANGED <<cfg, up, net, table, box, lock, status, allowed>>

\* Another process has created its helper in between: once more, then give up.
CreateConflict(p) ==
  /\ Stands(p, "create")
  /\ up
  /\ helper # NoHelper
  /\ IF pr[p].try = 1
     THEN Turn(p, [pr[p] EXCEPT !.pc = "clear", !.try = 2]) /\ UNCHANGED <<lock, status>>
     ELSE Turn(p, AfterFailure(p)) /\ lock' = UnlockMu(p) /\ recordResult("failed")
  /\ UNCHANGED <<cfg, world, allowed>>

TableOf(act) == IF act = "apply" THEN "full" ELSE "masq"

\* The helper ends well; apply then binds the earners a removed network left behind.
RunHelper(p) ==
  /\ Stands(p, "run")
  /\ up
  /\ helper' = NoHelper
  /\ table' = TableOf(pr[p].act)
  /\ IF pr[p].act = "apply"
     THEN Proceed(p, "reattach") /\ UNCHANGED <<lock, status>>
     ELSE Turn(p, AfterSuccess(p)) /\ lock' = UnlockMu(p) /\ recordResult("reduced")
  /\ UNCHANGED <<cfg, up, net, box, allowed>>

\* It fails, times out or its answer is lost: the table may have been written.
ApplyFails(p) ==
  /\ pr[p].pc \in {"ensure", "clear", "create", "run"}
  /\ \/ Fails
     \/ Stands(p, "ensure") /\ ~net.ours /\ net.used /\ UNCHANGED allowed
  /\ table' \in IF Stands(p, "run") THEN {table, TableOf(pr[p].act)} ELSE {table}
  /\ helper' = IF Stands(p, "run") THEN NoHelper ELSE helper
  /\ Turn(p, AfterFailure(p))
  /\ lock' = UnlockMu(p)
  /\ recordResult("failed")
  /\ UNCHANGED <<cfg, up, net, box>>

\* reattach: an earner bound to an earlier network is bound to this one, and started
\* again if the missing network is what stopped it.
reattach(p) ==
  /\ Stands(p, "reattach")
  /\ box' = [e \in Earners |-> IF ~up \/ ~staleEndpoint(box[e], net.id) \/ box[e].st \notin {"stopped", "lost"} THEN box[e]
                               ELSE [st |-> IF box[e].st = "lost" THEN "running" ELSE "stopped", at |-> net.id]]
  /\ Turn(p, AfterSuccess(p))
  /\ lock' = UnlockMu(p)
  /\ recordResult("applied")
  /\ UNCHANGED <<cfg, up, net, table, helper, allowed>>

----------------------------------------------------------------------------
(* The rest of reconcile, enable and a deploy.                             *)

Relist(p) ==
  /\ Stands(p, "relist")
  /\ \/ up /\ Turn(p, [pr[p] EXCEPT !.pc = "publish", !.seen = box]) /\ UNCHANGED allowed
     \/ Fails /\ Proceed(p, "publish")
  /\ UNCHANGED <<cfg, world, lock, status>>

\* A pass whose setting changed meanwhile publishes nothing.
Publish(p) ==
  /\ Stands(p, "publish")
  /\ IF cfg.setting = pr[p].chosen THEN setOutside(pr[p].mode, pr[p].seen) ELSE UNCHANGED status
  /\ lock' = Freed(p)
  /\ Turn(p, Resting)
  /\ UNCHANGED <<cfg, world, allowed>>
\* enable remembers that isolation is on and names the earners still to move.
Remember(p) ==
  /\ Stands(p, "remember")
  /\ cfg' = [cfg EXCEPT !.on = TRUE]
  /\ \/ /\ up /\ setOutside("on", box)
        /\ Turn(p, [Resting EXCEPT !.pc = "next", !.todo = Outside("on", box)]) /\ UNCHANGED allowed
     \/ Fails /\ Turn(p, Resting) /\ UNCHANGED status
  /\ UNCHANGED <<world, lock>>
NextRedeploy(p) ==
  /\ Stands(p, "next")
  /\ Turn(p, AfterDeploy(p))
  /\ UNCHANGED <<cfg, world, lock, status, allowed>>

\* The container before it goes, and then the new one is created on its network.
RemoveOld(p) ==
  /\ Stands(p, "remove")
  /\ up
  /\ box' = [box EXCEPT ![pr[p].e] = NoBox]
  /\ Proceed(p, "place")
  /\ UNCHANGED <<cfg, up, net, table, helper, lock, status, allowed>>

\* A network that is gone by name makes the create fail, and so does a container that has
\* taken the name meanwhile; the network's name finds a newer one.
Place(p) ==
  /\ Stands(p, "place")
  /\ up
  /\ LET e == pr[p].e IN
     box' = [box EXCEPT ![e] = IF @.st # "absent" \/ (pr[p].at # Bridge /\ net.id = 0) THEN @
                               ELSE [st |-> "running", at |-> IF pr[p].at = Bridge THEN Bridge ELSE net.id]]
  /\ Proceed(p, "recount")
  /\ UNCHANGED <<cfg, up, net, table, helper, lock, status, allowed>>

PlaceFails(p) ==
  /\ pr[p].pc \in {"remove", "place"}
  /\ Fails
  /\ Proceed(p, "recount")
  /\ UNCHANGED <<cfg, world, lock, status>>

\* refreshOutside.
Recount(p) ==
  /\ Stands(p, "recount")
  /\ IF up /\ status.mode # "" THEN setOutside(status.mode, box) ELSE UNCHANGED status
  /\ Turn(p, AfterDeploy(p))
  /\ UNCHANGED <<cfg, world, lock, allowed>>

----------------------------------------------------------------------------
(* The environment.                                                        *)

Allows(k) == allowed[k] > 0 /\ allowed' = [allowed EXCEPT ![k] = @ - 1]

\* A reboot or a reset takes the network, and with it the earners on it stop.
NetworkGoes ==
  /\ Allows("prune")
  /\ net # NoNet
  /\ net' = NoNet
  /\ box' = [e \in Earners |-> IF box[e].st = "running" /\ box[e].at = net.id THEN [box[e] EXCEPT !.st = "lost"] ELSE box[e]]
  /\ UNCHANGED <<cfg, up, table, helper, lock, status, pr>>
TableGoes ==
  /\ Allows("reload")
  /\ table' = "none"
  /\ UNCHANGED <<cfg, up, net, box, helper, lock, status, pr>>
DaemonToggles ==
  /\ IF up THEN Allows("down") ELSE UNCHANGED allowed
  /\ up' = ~up
  /\ UNCHANGED <<cfg, net, table, box, helper, lock, status, pr>>
\* The window and the background daemon both run the fence.
OtherHelper ==
  /\ Allows("other")
  /\ helper = NoHelper
  /\ helper' = [who |-> "other", busy |-> TRUE, act |-> "apply"]
  /\ UNCHANGED <<cfg, up, net, table, box, lock, status, pr>>
\* A helper of another process, or of a run of the app that died, ends on its own.
HelperEnds ==
  /\ helper.who \in {"other", "left"}
  /\ helper.busy
  /\ table' = TableOf(helper.act)
  /\ helper' = IF helper.who = "other" THEN NoHelper ELSE [helper EXCEPT !.busy = FALSE]
  /\ UNCHANGED <<cfg, up, net, box, lock, status, pr, allowed>>
UserStops(e) ==
  /\ Allows("stop")
  /\ box[e].st = "running"
  /\ box' = [box EXCEPT ![e].st = "stopped"]
  /\ UNCHANGED <<cfg, up, net, table, helper, lock, status, pr>>
AppRestart ==
  /\ Allows("crash")
  /\ pr' = [p \in Callers |-> Resting]
  /\ lock' = [mu |-> Nobody, rec |-> Nobody]
  /\ status' = [mode |-> "", state |-> "", outside |-> {}]
  /\ helper' = IF helper.who = "ours" THEN [helper EXCEPT !.who = "left"] ELSE helper
  /\ UNCHANGED <<cfg, up, net, table, box>>

----------------------------------------------------------------------------
(* A fresh install, an upgraded one with an earner on the bridge, and one   *)
(* whose earners are fenced; another network of the name may be there.      *)
With(earner, tunnel) == [e \in Earners |-> IF e \in Tunnels THEN tunnel ELSE earner]
RunningOn(at) == [st |-> "running", at |-> at]
Foreign(used) == [id |-> 1, ours |-> FALSE, used |-> used]
Fresh    == /\ \/ box = With(NoBox, NoBox) /\ net \in {NoNet, Foreign(TRUE)}
               \/ box = With(RunningOn(Other), NoBox) /\ net = Foreign(FALSE)
            /\ cfg = [setting |-> "auto", on |-> FALSE]
            /\ table = "none"
Upgraded == /\ box = With(RunningOn(Bridge), RunningOn(Bridge))
            /\ cfg = [setting |-> "auto", on |-> FALSE]
            /\ net = NoNet
            /\ table = "none"
Fenced   == /\ box = With(RunningOn(1), RunningOn(1))
            /\ cfg = [setting |-> "auto", on |-> TRUE]
            /\ net = [id |-> 1, ours |-> TRUE, used |-> FALSE]
            /\ table = "full"
Quiet == /\ up = TRUE
         /\ helper = NoHelper
         /\ lock = [mu |-> Nobody, rec |-> Nobody]
         /\ status = [mode |-> "", state |-> "", outside |-> {}]
         /\ pr = [p \in Callers |-> Resting]
         /\ allowed \in FenceQuotas
FenceInit == (Fresh \/ Upgraded \/ Fenced) /\ Quiet

Step(p) ==
  \/ Ping(p) \/ LockReconcile(p) \/ listEarners(p) \/ Look(p) \/ ModeFails(p) \/ Record(p)
  \/ Lock(p) \/ ensureNetwork(p) \/ clearHelper(p) \/ CreateHelper(p) \/ CreateConflict(p)
  \/ RunHelper(p) \/ ApplyFails(p) \/ reattach(p) \/ Relist(p) \/ Publish(p)
  \/ RemoveOld(p) \/ Place(p) \/ PlaceFails(p) \/ Recount(p)
  \/ Remember(p) \/ NextRedeploy(p)

FenceNext ==
  \/ FenceTick \/ (\E s \in Settings : ChangeSetting(s)) \/ (\E e \in Earners \ Tunnels : Deploy(e)) \/ EnableFence
  \/ (\E p \in Callers : Step(p))
  \/ NetworkGoes \/ TableGoes \/ DaemonToggles \/ OtherHelper \/ HelperEnds \/ (\E e \in Earners : UserStops(e)) \/ AppRestart

\* Goroutines run, the ticker fires, a helper ends, and a daemon that is down is
\* started again.  Nothing is assumed of who gets a lock.
FenceFairness ==
  /\ WF_fenceVars(FenceTick \/ Step("tick"))
  /\ \A p \in Callers \ {"tick"} : WF_fenceVars(Step(p))
  /\ WF_fenceVars(HelperEnds)
  /\ WF_fenceVars(~up /\ DaemonToggles)
FenceSpec == FenceInit /\ [][FenceNext]_fenceVars /\ FenceFairness

----------------------------------------------------------------------------
(* Properties.                                                             *)

\* An earner that the fence itself starts again, after its network was gone, does not start
\* on a table without drops.
ReattachedBehindDrops ==
  [][\A e \in Earners : (box[e].st = "lost" /\ box'[e].st = "running") => table # "masq"]_fenceVars

\* The setting the user leaves in place prevails, in what is enforced, remembered and
\* shown, whatever deploys, ticks, helpers and failures it overtakes.
OnPrevails == <>[](cfg.setting = "on" /\ ~net.used)
              => <>[](table = "full" /\ cfg.on /\ status.mode = "on" /\ status.state = "applied"
                         /\ status.outside = Outside("on", box))
OffPrevails == <>[](cfg.setting = "off")
               => <>[](~cfg.on /\ status.mode = "off" /\ (net.ours => table = "masq"))
SettingPrevails == OnPrevails /\ OffPrevails
=============================================================================
