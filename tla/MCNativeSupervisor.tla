------------------------- MODULE MCNativeSupervisor -------------------------
(***************************************************************************)
(* Instances of NativeSupervisor for TLC.                                  *)
(***************************************************************************)
EXTENDS NativeSupervisor

\* Every write of the registry succeeds, every binary starts, and the app goes on
\* running; processes exit.
Recorded(q) == reg' = Running(q)
SteadyNext ==
  \/ \E c \in Callers :
       \/ Begin(c)
       \/ requestStop(c) \/ beginStop(c) \/ Kill(c) \/ Join(c) \/ ReadOrphan(c) \/ Mark(c) \/ Delete(c)
       \/ CheckChild(c) \/ CheckEntry(c) \/ Register(c)
       \/ Persist(c) /\ Recorded(sup[call[c].mp].cmd)
       \/ \E m \in Supers, q \in Procs : Launch(c, m, q)
  \/ \E m \in Supers :
       \/ Reap(m) \/ StopInBackoff(m)
       \/ updatePID(m) /\ (reg # NoEntry => Recorded(sup[m].cmd))
       \/ \E q \in Procs : Respawn(m, q)
  \/ \E q \in Procs : Exits(q)
SteadySpec == Init /\ [][SteadyNext]_vars
=============================================================================
