--------------------------- MODULE HistoryHandover ---------------------------
(***************************************************************************)
(* What the pairing promises of the earnings history, whatever loops, saves, *)
(* failures and restarts do underneath: a server is handed the batches       *)
(* oldest first, it loses none it has accepted, and the history is put down  *)
(* as done with a server that has accepted all of it.  Upstream implements    *)
(* it.                                                                      *)
(***************************************************************************)
EXTENDS Integers

CONSTANTS
  Servers,   \* the CashPilot servers
  NoServer,  \* the history is done with nobody
  Batches    \* the batches of the history, oldest first

VARIABLES
  accepted,  \* what each server has accepted
  done       \* the server the history is done with

Init ==
  /\ accepted = [u \in Servers |-> {}]
  /\ done = NoServer

\* A server accepts a batch it has all the older ones of.
Accept(u) ==
  /\ \E b \in 1..Batches :
       /\ 1..(b - 1) \subseteq accepted[u]
       /\ accepted' = [accepted EXCEPT ![u] = @ \cup {b}]
  /\ UNCHANGED done

\* The history is done with a server that lacks nothing of it.
Finish(u) ==
  /\ accepted[u] = 1..Batches
  /\ done' = u
  /\ UNCHANGED accepted

Next == \E u \in Servers : Accept(u) \/ Finish(u)

Spec == Init /\ [][Next]_<<accepted, done>>
=============================================================================
