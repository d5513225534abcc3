------------------------------ MODULE Activity ------------------------------
(***************************************************************************)
(* Activity sampling (activity_app.go, activity_sampler.go, the store's     *)
(* tables): the switch is a field of the configuration, a round lasts       *)
(* minutes and stores addresses at its end, and switching off deletes them. *)
(* Every write of the sampler and every delete is under one lock, and a     *)
(* round writes nothing once a delete has moved the generation on.          *)
(***************************************************************************)
EXTENDS Config

VARIABLES
  raw,      \* stored addresses: whether they are a day old, and whether their round began before a delete
  alerts,   \* stored alerts, likewise
  round,    \* the sampler's tick
  switch,   \* the call that switches off: "idle", or "delete" with the lock in its hands
  pending,  \* deletePending
  dueHour   \* the hourly purge is due

stored   == <<raw, alerts>>
activity == <<raw, alerts, round, switch, pending, dueHour>>
vars     == <<app, settings, secrets, left, activity>>

\* moved: the generation is no longer the one the round read; stale: a delete has been
\* done since.
NoRound  == [pc |-> "idle", moved |-> FALSE, stale |-> FALSE]
Unlocked == switch = "idle"
Running  == app = "up"
At(pc)   == Running /\ round.pc = pc
Goto(pc) == round' = [round EXCEPT !.pc = pc]

----------------------------------------------------------------------------
(* The owner's calls.                                                      *)

\* A delete moves the generation on, and is done or fails.
Deletes(pc, done) == round' = [pc |-> pc, moved |-> TRUE, stale |-> round.stale \/ done]
MayFail == {TRUE} \cup IF left.fail > 0 THEN {FALSE} ELSE {}

\* On: saved under the lock, with no delete to retry any more.
SetActivityOn ==
  /\ Running /\ Unlocked /\ Spend("on")
  /\ Update([mem EXCEPT !.activity = TRUE], [asked EXCEPT !.activity = TRUE])
  /\ pending' = (pending /\ ~mem'.activity)
  /\ UNCHANGED <<app, call, secrets, stored, round, switch, dueHour>>
\* Off: saved and, while the lock is held, the addresses deleted; a delete that fails is
\* left to the sampler.
SetActivityOff ==
  /\ Running /\ Unlocked /\ Spend("off")
  /\ Update([mem EXCEPT !.activity = FALSE], [asked EXCEPT !.activity = FALSE])
  /\ switch' = IF mem' = [mem EXCEPT !.activity = FALSE] THEN "delete" ELSE "idle"
  /\ Deletes(round.pc, FALSE)
  /\ UNCHANGED <<app, call, secrets, stored, pending, dueHour>>
DeleteAddresses ==
  /\ Running /\ switch = "delete"
  /\ switch' = "idle"
  /\ \E done \in MayFail :
       /\ raw' = IF done THEN {} ELSE raw
       /\ pending' = ~done
       /\ Deletes(round.pc, done)
  /\ UNCHANGED <<app, settings, secrets, left, alerts, dueHour>>
\* Every row of every table.
DeleteActivityData ==
  /\ Running /\ Unlocked /\ Spend("erase")
  /\ \E done \in MayFail :
       /\ raw' = IF done THEN {} ELSE raw
       /\ alerts' = IF done THEN {} ELSE alerts
       /\ Deletes(round.pc, done)
  /\ UNCHANGED <<app, settings, secrets, switch, pending, dueHour>>

----------------------------------------------------------------------------
(* The sampler: a tick every five minutes.                                 *)

Tick ==
  /\ At("idle") /\ Unlocked /\ left.tick > 0
  /\ round' = [NoRound EXCEPT !.pc = "choose"]
  /\ UNCHANGED <<app, settings, secrets, left, stored, switch, pending, dueHour>>
Choose ==
  /\ At("choose")
  /\ Goto(IF mem.activity THEN "round" ELSE "retry")
  /\ UNCHANGED <<app, settings, secrets, left, stored, switch, pending, dueHour>>
\* A round that is busy or finds no runtime has no window.
Round ==
  /\ At("round")
  /\ \E pc \in {"store", "purge"} : Goto(pc)
  /\ UNCHANGED <<app, settings, secrets, left, stored, switch, pending, dueHour>>

Written(x) == [old |-> FALSE, late |-> x.stale]
\* Mutant: the lock alone, and no generation.
AlwaysAllowed == TRUE
Allowed == ~round.moved
\* recordActivityWindow: the switch is read again inside the transaction, which also
\* takes the rows that are a day old; then the alerts of a window that was written.
storeActivityRound ==
  /\ At("store") /\ Unlocked
  /\ \/ /\ Allowed /\ mem.activity
        /\ raw' = {x \in raw : ~x.old} \cup {Written(round)}
        /\ alerts' \in {alerts, alerts \cup {Written(round)}}
     \/ (~Allowed \/ ~mem.activity \/ left.fail > 0) /\ UNCHANGED stored
  /\ Goto("purge")
  /\ UNCHANGED <<app, settings, secrets, left, switch, pending, dueHour>>
\* A switch-off whose delete failed is made good, while the switch is still off.
retryActivityDelete ==
  /\ At("retry") /\ Unlocked
  /\ \/ /\ ~pending \/ mem.activity
        /\ Goto("purge") /\ UNCHANGED <<raw, pending>>
     \/ /\ pending /\ ~mem.activity
        /\ \E done \in MayFail :
             /\ raw' = IF done THEN {} ELSE raw
             /\ pending' = ~done
             /\ Deletes("purge", done)
  /\ UNCHANGED <<app, settings, secrets, left, alerts, switch, dueHour>>
\* PurgeActivity, outside the lock; an hour whose purge fails stays due.
PurgeActivity ==
  /\ At("purge")
  /\ \E done \in MayFail :
       /\ raw' = IF dueHour /\ done THEN {x \in raw : ~x.old} ELSE raw
       /\ dueHour' = (dueHour /\ ~done)
       /\ Goto(IF dueHour /\ done /\ mem.activity THEN "spikes" ELSE "idle")
  /\ UNCHANGED <<app, settings, secrets, left, alerts, switch, pending>>
activitySpikes ==
  /\ At("spikes") /\ Unlocked
  /\ alerts' \in IF Allowed THEN {alerts, alerts \cup {Written(round)}} ELSE {alerts}
  /\ Goto("idle")
  /\ UNCHANGED <<app, settings, secrets, left, raw, switch, pending, dueHour>>

\* Mutant: a delete that failed before the app ended is forgotten.
StartForgets ==
  /\ pending' = FALSE
  /\ round' = NoRound /\ switch' = "idle" /\ dueHour' = TRUE
  /\ UNCHANGED stored
\* The app starts its sampler: while off there may be addresses to delete.
StartSampler ==
  /\ pending' = ~mem'.activity
  /\ round' = NoRound /\ switch' = "idle" /\ dueHour' = TRUE
  /\ UNCHANGED stored
HourPasses ==
  /\ Running /\ ~dueHour /\ left.tick > 0
  /\ dueHour' = TRUE
  /\ UNCHANGED <<app, settings, secrets, left, stored, round, switch, pending>>
DayPasses ==
  /\ Spend("day")
  /\ raw' = {[x EXCEPT !.old = TRUE] : x \in raw}
  /\ UNCHANGED <<app, settings, secrets, alerts, round, switch, pending, dueHour>>

----------------------------------------------------------------------------
Init ==
  /\ ConfigInit
  /\ raw = {} /\ alerts = {} /\ round = NoRound /\ switch = "idle" /\ pending = FALSE /\ dueHour = FALSE

Sampler == Tick \/ Choose \/ Round \/ storeActivityRound \/ retryActivityDelete \/ PurgeActivity \/ activitySpikes
Next ==
  \/ ConfigNext /\ IF app' = "up" /\ app # "up" THEN StartSampler ELSE UNCHANGED activity
  \/ SetActivityOn \/ SetActivityOff \/ DeleteAddresses \/ DeleteActivityData
  \/ Sampler \/ HourPasses \/ DayPasses

\* Starts and calls go on, the sampler ticks, and not every delete fails.
Fairness ==
  /\ WF_vars((load \/ MasterKey \/ FleetKey \/ ensureFleetAPIKey) /\ IF app' = "up" THEN StartSampler ELSE UNCHANGED activity)
  /\ WF_vars(DeleteAddresses) /\ WF_vars(Sampler) /\ SF_vars(retryActivityDelete /\ ~pending')
Spec == Init /\ [][Next]_vars /\ Fairness

----------------------------------------------------------------------------
(* Properties.                                                             *)

\* Nothing a delete should have taken is stored after it: no address and no alert of a
\* round that was under way when the owner switched off or deleted the data, whether or
\* not the switch is on again when the round ends.
NothingAfterDelete == \A x \in raw \cup alerts : ~x.late

\* Once the owner has switched off, the addresses go, though the delete fails or the app
\* dies between the saving and the delete.
OffGetsClean ==
  <>[](Running /\ ~asked.activity /\ ~raced) => <>[](raw = {})
=============================================================================
