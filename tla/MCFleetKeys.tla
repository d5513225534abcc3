---------------------------- MODULE MCFleetKeys ----------------------------
(***************************************************************************)
(* Instances of FleetKeys for TLC.                                         *)
(***************************************************************************)
EXTENDS FleetKeys, TLC

\* The retry of one client against a hub that is on, with a store that works and
\* nothing else going on.
RetryNext ==
  \/ \E q \in Requests :
       \/ Admit(q) \/ Lock(q) \/ ReadKeyState(q) \/ UpsertFleetHeartbeat(q) \/ Confirm(q)
       \/ Deliver(q) \/ \E k \in Keys : IssueKey(q, k)
  \/ \E d \in Devices : Client(d)
HubOn == Init /\ enabled = TRUE
RetrySpec == HubOn /\ [][RetryNext]_vars

\* Liveness: the hub stays on and no device is removed.  Clients wait for their
\* answer; answers get lost, requests are refused and statements fail, but none of
\* them for ever.
LiveNext ==
  \/ \E q \in Requests : Handle(q) \/ Network(q)
  \/ \E d \in Devices, q \in Requests : Beat(d, q)
  \/ SweepOffline \/ SweepReap
  \/ \E d \in Devices : AddFleetDevice(d)

Mine(d, q) == Owner(q) = d
LiveFairness ==
  /\ WF_vars(SweepReap)
  /\ \A q \in Requests : WF_vars(Handle(q) \/ Network(q))
  /\ \A d \in Devices :
       /\ SF_vars(\E q \in Requests : Beat(d, q))
       /\ SF_vars(\E q \in Requests : Mine(d, q) /\ Admit(q))
       /\ SF_vars(\E q \in Requests : Mine(d, q) /\ Lock(q))
       /\ SF_vars(\E q \in Requests : Mine(d, q) /\ ReadKeyState(q))
       /\ SF_vars(\E q \in Requests : Mine(d, q) /\ UpsertFleetHeartbeat(q))
       /\ SF_vars(\E q \in Requests, k \in Keys : Mine(d, q) /\ IssueKey(q, k))
       /\ SF_vars(\E q \in Requests : Mine(d, q) /\ Confirm(q) /\ dev' # dev)
       /\ SF_vars(\E q \in Requests : Mine(d, q) /\ req[q].key # NoKey /\ Deliver(q))

LiveSpec == HubOn /\ [][LiveNext]_vars /\ LiveFairness
=============================================================================
