---------------------------- MODULE MCScheduler ----------------------------
(***************************************************************************)
(* Instances of Scheduler, and of the live FleetKeys, for TLC: a behaviour  *)
(* moves one of the two (scene).  The other stands where none of its fair   *)
(* actions is enabled: after the end of Shutdown; a client that waits for   *)
(* an answer that nobody gives.                                            *)
(***************************************************************************)
EXTENDS Scheduler

CONSTANTS Devices, Requests, Keys, Shared, NoKey, NoRow, Nobody, Sweeper
VARIABLES scene, enabled, dev, mu, req, held, waiting

Fleet == INSTANCE MCFleetKeys

fleet == <<enabled, dev, mu, req, held, waiting>>

CollectionInit ==
  /\ scene = "collection" /\ Init
  /\ enabled = TRUE /\ dev = [d \in Devices |-> NoRow] /\ mu = Nobody
  /\ req = [q \in Requests |-> Fleet!Idle] /\ held = [d \in Devices |-> NoKey]
  /\ waiting = [d \in Devices |-> Sweeper]

FleetInit ==
  /\ scene = "fleet" /\ Fleet!HubOn
  /\ pc = [l \in Loops |-> "none"] /\ cancelled = [l \in Loops |-> FALSE]
  /\ todo = [l \in Loops |-> {}] /\ cur = [l \in Loops |-> NoSlug]
  /\ work = [l \in Loops |-> {}] /\ aborted = [l \in Loops |-> FALSE]
  /\ collecting = FALSE /\ sched = NoLoop /\ fetch = {}
  /\ shut = "closed" /\ joins = NoLoop /\ storeOpen = FALSE

SceneNext ==
  \/ scene = "collection" /\ Next /\ UNCHANGED <<scene, fleet>>
  \/ scene = "fleet" /\ Fleet!LiveNext /\ UNCHANGED <<scene, vars>>

SceneSpec ==
  /\ CollectionInit \/ FleetInit
  /\ [][SceneNext]_<<scene, vars, fleet>>
  /\ Fairness /\ Fleet!LiveFairness

\* Of FleetKeys, where its scene is on.
DeviceGetsConfirmed == scene = "fleet" => Fleet!DeviceGetsConfirmed
=============================================================================
