--------------------------- MODULE MCDeployments ---------------------------
(***************************************************************************)
(* Instances of Deployments for TLC.                                       *)
(***************************************************************************)
EXTENDS Deployments

CONSTANTS docker1, docker2, mixed1, MaxCopiesOfDocker1

\* docker1 may run MaxCopiesOfDocker1 times; the others once.
MCLimit == [s \in Slugs |-> IF s = docker1 THEN MaxCopiesOfDocker1 ELSE 1]

InFlight == Cardinality({u \in Users : op[u].pc # "idle"})
            + Cardinality({r \in Refreshers : rf[r].pc # "idle"})

\* AloneSpec with each service left as it was before the other one is touched.
Untouched(s) ==
  row[s] = NoRow /\ native[s] = "none" /\ (\A n \in Copies : ~Has(s, n)) /\ ~OpOn(s)
EachNext ==
  \/ \E u \in Users : UserStep(u)
  \/ \E u \in Users : Untouched(mixed1) /\ Begin(u, docker1)
  \/ \E u \in Users : Untouched(docker1) /\ FreeToBegin(mixed1) /\ Begin(u, mixed1)
  \/ \E r \in Refreshers : RefreshStep(r) \/ (FreeToList /\ ListDocker(r))
  \/ \E s \in Slugs, n \in Extra, verb \in {"stop", "start"} : CopyCall(s, n, verb)
  \/ DaemonToggles \/ AppRestart \/ \E s \in Slugs : Exits(s)
  \/ \E n \in Copies : Vanish(docker1, n)
EachSpec == Init /\ [][EachNext]_vars

\* The user operates on docker1; docker2's container was there before, its row may
\* be lost, and it may be removed by hand.  The app is not restarted.
LiveInit ==
  /\ dockerUp = TRUE
  /\ ctr = [s \in Slugs |-> [n \in Copies |->
             IF s = docker2 /\ n = 1 THEN [NoCtr EXCEPT !.st = "running"] ELSE NoCtr]]
  /\ native = [s \in Slugs |-> "none"]
  /\ \/ row = [s \in Slugs |-> NoRow]
     \/ row = [s \in Slugs |-> IF s = docker2 THEN Upserted(NoRow, "docker", "exited") ELSE NoRow]
  /\ copies = [s \in Slugs |-> {}]
  /\ op = [u \in Users |-> IdleOp]
  /\ rf = [r \in Refreshers |-> IdleRf]
LiveNext ==
  \/ \E u \in Users : Begin(u, docker1) \/ UserStep(u)
  \/ Refresh \/ DaemonToggles
  \/ Vanish(docker2, 1)
LiveSpec == LiveInit /\ [][LiveNext]_vars /\ Fairness

\* One operation or refresh at a time, and a daemon that comes and goes.
OutageNext ==
  \/ \E u \in Users : UserStep(u) \/ \E s \in Slugs : InFlight = 0 /\ Begin(u, s)
  \/ \E r \in Refreshers : RefreshStep(r) \/ (InFlight = 0 /\ ListDocker(r))
  \/ DaemonToggles
OutageSpec == Init /\ [][OutageNext]_vars
=============================================================================
