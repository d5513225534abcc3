------------------------------ MODULE MCWorkers -------------------------------
(***************************************************************************)
(* Four parts that do not meet, in one run: the fleet server's heartbeat    *)
(* handlers, what a service's deploys and removals do with its data, the    *)
(* usage and health readings, a round of Activity sampling. A behaviour     *)
(* moves one of them (scene) and leaves the others where they started.      *)
(***************************************************************************)
EXTENDS FleetKeys, DataMounts, Readings, ActivityRound, TLC

VARIABLE scene

Of(kinds, f) == [k \in kinds |-> IF k \in DOMAIN f THEN f[k] ELSE 0]

------------------------------------------------------------------------------
\* One choice per question: traffic under restarts and replacements; the window over hours
\* of log; the last run's words.
ReadingKinds == {"print", "exit", "redeploy", "proven", "refresh", "traffic", "tick", "list", "fault"}
Still == [signals |-> {}, left |-> Of(ReadingKinds, [traffic |-> 2, tick |-> 2, list |-> 3, redeploy |-> 1])]
ReadingScenarios == {
  Still,
  [signals |-> {}, left |-> Of(ReadingKinds, [traffic |-> 2, tick |-> 3, list |-> 3, exit |-> 1])],
  [signals |-> {"windowed"}, left |-> Of(ReadingKinds, [fault |-> 2, exit |-> 2, redeploy |-> 1, refresh |-> 3])],
  [signals |-> {"account_disabled"}, left |-> Of(ReadingKinds, [print |-> 2, exit |-> 2, redeploy |-> 1, proven |-> 1, refresh |-> 1])]}

\* Two earners and an app that earns nothing: one earner joins the other, or that app, or both
\* join an earner; on bridges or on the host's network.
Box(name, id, earner, mode, joins) ==
  [name |-> name, id |-> id, up |-> TRUE, earner |-> earner, plain |-> TRUE, mode |-> mode, joins |-> joins, ns |-> id]
Beside == "e1" :> Box("e1", 1, TRUE, "bridge", 0) @@ "e2" :> Box("e2", 2, TRUE, "container", 3) @@ "v" :> Box("v", 3, FALSE, "bridge", 0)
RoundHosts == {Beside,
          "e1" :> Box("e1", 1, TRUE, "host", 0) @@ "e2" :> Box("e2", 2, TRUE, "container", 1) @@ "v" :> Box("v", 3, FALSE, "host", 0),
          "e1" :> Box("e1", 1, TRUE, "bridge", 0) @@ "e2" :> Box("e2", 2, TRUE, "container", 1) @@ "v" :> Box("v", 3, FALSE, "container", 1)}
RoundKinds == {"fault", "switch", "die", "time", "other", "connect", "restart"}
RoundQuotas == {
  Of(RoundKinds, [connect |-> 2, restart |-> 1]),
  Of(RoundKinds, [fault |-> 2, die |-> 1, time |-> 1, other |-> 1]),
  Of(RoundKinds, [connect |-> 2, switch |-> 2, fault |-> 1]),
  Of(RoundKinds, [restart |-> 2, fault |-> 1])}

\* Four releases: a volume, the owner's folder, and two that rename the mount, of which one
\* protects it and neither warns of it; and three containers made by hand.
MountReleases ==
  {[target |-> "/id", host |-> "v1", ro |-> FALSE, crit |-> TRUE],
   [target |-> "/id", host |-> "${PATH}", ro |-> FALSE, crit |-> TRUE],
   [target |-> "/other", host |-> "v2", ro |-> TRUE, crit |-> FALSE],
   [target |-> "/other", host |-> "v2", ro |-> FALSE, crit |-> FALSE]}
Hand(src, ro, env) == [there |-> TRUE, mine |-> FALSE, target |-> "/id", src |-> src, ro |-> ro, env |-> env]
MountKinds == {"save", "deploy", "fail", "remove", "byhand", "restart"}
MountQuotas ==
  {Of(MountKinds, [save |-> 1, deploy |-> 2, byhand |-> 1, restart |-> 1]), Of(MountKinds, [deploy |-> 2, fail |-> 1, remove |-> 1]),
   Of(MountKinds, [deploy |-> 2, remove |-> 1, byhand |-> 1]), Of(MountKinds, [deploy |-> 2, remove |-> 1, restart |-> 1])}
MountHands == {Hand("/d2", FALSE, ""), Hand("v2", TRUE, ""), Hand("/d2", FALSE, "/d2")}

\* Fit: never more than the budget, nothing cut that fits, and a sample is cut only when
\* those before it left no room for it.
InWindow(done) == [i \in DOMAIN done |-> done[i].out + done[i].in]
FitAssumption(samples, budget) ==
  LET done == Fit(samples, budget)
      before(i) == FoldLeft(LAMBDA sum, n : sum + n, 0, SubSeq(InWindow(done), 1, i - 1))
  IN \A i \in DOMAIN samples :
       /\ before(i) + InWindow(done)[i] <= budget
       /\ done[i].truncated <=> InWindow(done)[i] < samples[i].out + samples[i].in
       /\ done[i].truncated => before(i) + InWindow(done)[i] = budget
ASSUME FitKeepsTheBudget ==
  \A samples \in [1..3 -> [out : 0..2, in : 0..2, truncated : {FALSE}]], budget \in 0..5 : FitAssumption(samples, budget)

------------------------------------------------------------------------------
WorkersInit ==
  /\ scene \in {"fleet", "mounts", "readings", "round"}
  /\ Init /\ (scene # "fleet" => enabled)
  /\ DataInit /\ (scene # "mounts" => listed.host = "v1" /\ still.save = 1)
  /\ ReadingsInit /\ (scene # "readings" => [signals |-> signals, left |-> left] = Still)
  /\ RoundInit /\ (scene # "round" => box = Beside /\ spare = Of(RoundKinds, [restart |-> 2, fault |-> 1]))

WorkersNext ==
  \/ scene = "fleet" /\ Next /\ UNCHANGED <<scene, dataVars, readingVars, roundVars>>
  \/ scene = "mounts" /\ DataNext /\ UNCHANGED <<scene, vars, readingVars, roundVars>>
  \/ scene = "readings" /\ ReadingsNext /\ UNCHANGED <<scene, vars, dataVars, roundVars>>
  \/ scene = "round" /\ RoundNext /\ UNCHANGED <<scene, vars, dataVars, readingVars>>

WorkersSpec == WorkersInit /\ [][WorkersNext]_<<scene, vars, dataVars, readingVars, roundVars>>
========================================
