---------------------------- MODULE ServiceData ----------------------------
(***************************************************************************)
(* What a service leaves on this machine beside its container: its named   *)
(* data volume, the definition of a service the user added, and the user's *)
(* word (or an export) that irreplaceable state is backed up.  Slug 0 is a *)
(* catalog service with a critical volume; 1, 2, ... are the slugs that    *)
(* MakeCustomSlug gives, in turn, to services of one name.  Two calls of   *)
(* the owner run at once; customMu is held by a delete from its first      *)
(* check to its last, and the other sections under it are one step.        *)
(***************************************************************************)
EXTENDS Integers, FiniteSets

CONSTANTS
  Callers,  \* calls of the owner under way at once
  Customs,  \* bound: how many slugs of one name there are
  Quotas    \* bound: how often each call and each mishap may happen, one choice per behaviour

VARIABLES
  docker,   \* whether the daemon answers
  cont,     \* the container of a service, and the volume it mounts
  vol,      \* the named volume of a service: which one it is, 0 for none
  made,     \* the volumes made so far
  row,      \* the services that have a deployment row
  def,      \* the custom_services row of a slug
  conf,     \* the state_backups row of the catalog service
  pr,       \* the calls under way
  ran,      \* history: the exports whose container ran while they read it
  blind,    \* history: definitions deleted while the daemon did not answer
  reported, \* history: an unpause failed, and the export said so; or the app was killed
  left      \* what remains of the calls and mishaps allowed

vars == <<docker, cont, vol, made, row, def, conf, pr, ran, blind, reported, left>>
history == <<ran, blind, reported>>

Cat     == 0
Slugs   == 0..Customs
Added   == Slugs \ {Cat}
NoCont  == [st |-> "absent", vol |-> 0]
NoConf  == [method |-> "none"]
Idle    == [pc |-> "idle", op |-> "", s |-> Cat, data |-> FALSE, allow |-> FALSE, crit |-> FALSE,
            ok |-> FALSE, mine |-> FALSE, alone |-> TRUE, crossed |-> FALSE, file |-> 0, id |-> 0]

At(p, pc)    == pr[p].pc = pc
Goto(p, pc)  == pr' = [pr EXCEPT ![p].pc = pc]
End(p)       == pr' = [pr EXCEPT ![p] = Idle]
Spend(k)     == left[k] > 0 /\ left' = [left EXCEPT ![k] = @ - 1]
Present(s)   == cont[s].st # "absent"
Reachable(s) == docker /\ Present(s)

----------------------------------------------------------------------------
(* The definitions the user added (services/custom.go, store).              *)

\* customMu is free: no delete is between its checks and its write.
Unlocked == \A p \in Callers : pr[p].op # "delete"
\* customDeploying: the deploys of slug s in flight.
Deploying(s) == {p \in Callers : pr[p].op = "deploy" /\ pr[p].s = s}
\* CustomServiceSlugs: every slug ever used, the deleted ones included.
Taken == {s \in Added : def[s] # "never"}
MakeCustomSlug == CHOOSE s \in Added \ Taken : \A t \in Added \ Taken : s <= t

SaveCustom ==
  /\ Spend("save") /\ Unlocked
  /\ Added \ Taken # {}
  /\ def' = [def EXCEPT ![MakeCustomSlug] = "live"]
  /\ UNCHANGED <<docker, cont, vol, made, row, conf, pr, history>>

\* DeleteCustom: refused for a deploy in flight or a row, ...
NoneInFlight(s) == FALSE                          \* mutant: deploys in flight are not looked at
InFlight(s) == Deploying(s) # {}
DeleteCustom(p, s) ==
  /\ At(p, "idle") /\ Spend("delete") /\ Unlocked
  /\ def[s] = "live" /\ ~InFlight(s) /\ s \notin row
  /\ pr' = [pr EXCEPT ![p] = [Idle EXCEPT !.pc = "list", !.op = "delete", !.s = s]]
  /\ UNCHANGED <<docker, cont, vol, made, row, def, conf, history>>

\* ... and for a container in the listing, which a daemon that does not answer leaves out:
\* Manager.List fails only when no runtime could be listed at all.
ListForDelete(p) ==
  LET s == pr[p].s IN
  /\ At(p, "list")
  /\ IF Reachable(s) THEN End(p) ELSE Goto(p, "tombstone")
  /\ blind' = IF docker THEN blind ELSE blind \cup {s}
  /\ UNCHANGED <<docker, cont, vol, made, row, def, conf, ran, reported, left>>
Tombstone(p) ==
  /\ At(p, "tombstone") /\ End(p)
  /\ def' = [def EXCEPT ![pr[p].s] = "deleted"]
  /\ UNCHANGED <<docker, cont, vol, made, row, conf, history, left>>

----------------------------------------------------------------------------
(* Deploy and Remove, on the first copy and its volume.                     *)

\* The exports that are reading the container of s: what runs now is read torn.
Readers(s) == {p \in Callers : At(p, "read") /\ pr[p].s = s}

\* DeployWith: a custom service is revealed and held in one section of customMu.
BeginDeploy(p, s) ==
  /\ At(p, "idle") /\ Spend("deploy")
  /\ s # Cat => Unlocked /\ def[s] = "live"
  /\ pr' = [pr EXCEPT ![p] = [Idle EXCEPT !.pc = "replace", !.op = "deploy", !.s = s]]
  /\ UNCHANGED <<docker, cont, vol, made, row, def, conf, history>>
Replace(p) ==
  /\ At(p, "replace")
  /\ \/ End(p) /\ UNCHANGED cont                       \* the pull or a check fails
     \/ docker /\ Goto(p, "create") /\ cont' = [cont EXCEPT ![pr[p].s] = NoCont]
  /\ UNCHANGED <<docker, vol, made, row, def, conf, history, left>>
\* The volume is made with the container when there is none of that name.  A container
\* whose start fails is removed again, and the volume stays.
Create(p) ==
  LET s == pr[p].s
      v == IF vol[s] = 0 THEN made + 1 ELSE vol[s]
  IN  /\ At(p, "create")
      /\ \/ End(p) /\ UNCHANGED <<cont, vol, made, ran>>
         \/ /\ docker /\ ~Present(s)
            /\ vol' = [vol EXCEPT ![s] = v]
            /\ made' = IF v > made THEN v ELSE made
            /\ \/ cont' = [cont EXCEPT ![s] = [st |-> "running", vol |-> v]]
                  /\ Goto(p, "row") /\ ran' = ran \cup Readers(s)
               \/ End(p) /\ UNCHANGED <<cont, ran>>
      /\ UNCHANGED <<docker, row, def, conf, blind, reported, left>>
WriteRow(p) ==
  /\ At(p, "row") /\ End(p)
  /\ row' \in {row, row \cup {pr[p].s}}
  /\ UNCHANGED <<docker, cont, vol, made, def, conf, history, left>>

\* criticalTargets: what the catalog marks, and everything when the slug has left it.
Critical(s) == s = Cat \/ def[s] # "live"
BeginRemove(p, s, data, allow) ==
  /\ At(p, "idle") /\ Spend("remove")
  /\ pr' = [pr EXCEPT ![p] = [Idle EXCEPT !.pc = "plan", !.op = "remove", !.s = s, !.data = data,
                                          !.allow = allow, !.crit = Critical(s)]]
  /\ UNCHANGED <<docker, cont, vol, made, row, def, conf, history>>
\* blockedCriticalVolumes refuses before anything is removed.
Plan(p) ==
  /\ At(p, "plan")
  /\ IF Reachable(pr[p].s) /\ ~(pr[p].data /\ pr[p].crit /\ ~pr[p].allow)
     THEN Goto(p, "take") ELSE End(p)
  /\ UNCHANGED <<docker, cont, vol, made, row, def, conf, history, left>>
TakeContainer(p) ==
  LET s == pr[p].s IN
  /\ At(p, "take")
  /\ IF Reachable(s) THEN Goto(p, IF pr[p].data THEN "volume" ELSE "unrow") ELSE End(p)
  /\ cont' = IF docker THEN [cont EXCEPT ![s] = NoCont] ELSE cont
  /\ UNCHANGED <<docker, vol, made, row, def, conf, history, left>>
TakeVolume(p) ==
  LET s == pr[p].s IN
  /\ At(p, "volume")
  /\ IF docker /\ ~Present(s)
     THEN /\ vol' = [vol EXCEPT ![s] = 0]
          /\ pr' = [q \in Callers |-> IF q = p THEN [pr[p] EXCEPT !.pc = "unrow"]
                                      ELSE [pr[q] EXCEPT !.crossed = @ \/ s = Cat]]
     ELSE End(p) /\ UNCHANGED vol
  /\ UNCHANGED <<docker, cont, made, row, def, conf, history, left>>
DeleteRow(p) ==
  /\ At(p, "unrow") /\ End(p)
  /\ row' = row \ {pr[p].s}
  /\ UNCHANGED <<docker, cont, vol, made, def, conf, history, left>>

----------------------------------------------------------------------------
(* Backups of irreplaceable state (state_backup_binding.go, statebackup).   *)

\* Fingerprint of where the state lives now: which volume, 0 when it cannot be read.
Fingerprint == IF Reachable(Cat) THEN cont[Cat].vol ELSE 0
\* The card of the service, but for the age limit of half a year.
Judge ==
  CASE conf = NoConf -> "none"
    [] conf # NoConf /\ Fingerprint # 0 /\ conf.id = 0 -> "recheck"
    [] conf # NoConf /\ Fingerprint # 0 /\ conf.id # 0 /\ conf.id # Fingerprint -> "changed"
    [] OTHER -> "confirmed"

Exporting == {p \in Callers : pr[p].op = "export"}
\* backupTarget: only of a service that is deployed here and keeps critical state.
ExportStateBackup(p) ==
  /\ At(p, "idle") /\ Spend("export") /\ Cat \in row
  /\ pr' = [q \in Callers |-> IF q = p THEN [Idle EXCEPT !.pc = "inspect", !.op = "export", !.alone = Exporting = {}]
                              ELSE [pr[q] EXCEPT !.alone = @ /\ q \notin Exporting]]
  /\ UNCHANGED <<docker, cont, vol, made, row, def, conf, history>>
\* readState: a container that runs is paused while it is read, ...
Inspect(p) ==
  /\ At(p, "inspect")
  /\ IF Reachable(Cat) THEN Goto(p, IF cont[Cat].st = "running" THEN "pause" ELSE "read") ELSE End(p)
  /\ ran' = ran \ {p}
  /\ UNCHANGED <<docker, cont, vol, made, row, def, conf, blind, reported, left>>
Pause(p) ==
  /\ At(p, "pause")
  /\ IF docker /\ cont[Cat].st = "running"
     THEN /\ cont' = [cont EXCEPT ![Cat].st = "paused"]
          /\ pr' = [pr EXCEPT ![p].pc = "read", ![p].mine = TRUE]
     ELSE End(p) /\ UNCHANGED cont
  /\ UNCHANGED <<docker, vol, made, row, def, conf, history, left>>
Read(p) ==
  /\ At(p, "read")
  /\ pr' = [pr EXCEPT ![p].pc = "unpause", ![p].ok = Reachable(Cat),
                      ![p].file = IF Reachable(Cat) THEN cont[Cat].vol ELSE 0]
  /\ UNCHANGED <<docker, cont, vol, made, row, def, conf, history, left>>
\* mutant: a failed unpause is logged and no more
UnpauseUnchecked(p) ==
  LET back == docker /\ cont[Cat].st = "paused" IN
  /\ At(p, "unpause")
  /\ IF pr[p].ok THEN Goto(p, "save") ELSE End(p)
  /\ cont' = IF pr[p].mine /\ back THEN [cont EXCEPT ![Cat].st = "running"] ELSE cont
  /\ ran' = IF pr[p].mine /\ back THEN ran \cup Readers(Cat) ELSE ran
  /\ reported' = (reported \/ (pr[p].mine /\ ~back))
  /\ UNCHANGED <<docker, vol, made, row, def, conf, blind, left>>
\* ... and unpaused whether the read went well or not; an unpause that fails fails the export.
Unpause(p) ==
  LET back == docker /\ cont[Cat].st = "paused" IN
  /\ At(p, "unpause")
  /\ IF pr[p].ok /\ (pr[p].mine => back) THEN Goto(p, "save") ELSE End(p)
  /\ cont' = IF pr[p].mine /\ back THEN [cont EXCEPT ![Cat].st = "running"] ELSE cont
  /\ ran' = IF pr[p].mine /\ back THEN ran \cup Readers(Cat) ELSE ran
  /\ reported' = (reported \/ (pr[p].mine /\ ~back))
  /\ UNCHANGED <<docker, vol, made, row, def, conf, blind, left>>
\* The bundle is sealed and written to the file the user chose.
Save(p) ==
  /\ At(p, "save")
  /\ Goto(p, "print") \/ End(p)
  /\ UNCHANGED <<docker, cont, vol, made, row, def, conf, history, left>>

\* The button: the user's word is about the volume in use when it is pressed.
ConfirmStateBackup(p) ==
  /\ At(p, "idle") /\ Spend("confirm") /\ Cat \in row
  /\ pr' = [pr EXCEPT ![p] = [Idle EXCEPT !.pc = "print", !.op = "confirm", !.file = vol[Cat],
                                          !.crossed = vol[Cat] = 0]]
  /\ UNCHANGED <<docker, cont, vol, made, row, def, conf, history>>
StateFingerprint(p) ==
  /\ At(p, "print")
  /\ pr' = [pr EXCEPT ![p].pc = "confirm", ![p].id = Fingerprint]
  /\ UNCHANGED <<docker, cont, vol, made, row, def, conf, history, left>>
Record(p) ==
  LET r == pr[p] IN
  /\ At(p, "confirm") /\ End(p)
  /\ conf' \in {conf, [method |-> r.op, id |-> r.id, file |-> r.file, crossed |-> r.crossed,
                       mine |-> r.mine, alone |-> r.alone, torn |-> p \in ran]}
  /\ UNCHANGED <<docker, cont, vol, made, row, def, history, left>>
UndoStateBackup ==
  /\ Spend("undo") /\ conf' = NoConf
  /\ UNCHANGED <<docker, cont, vol, made, row, def, pr, history>>

----------------------------------------------------------------------------
(* What else happens to the container and the app.                          *)

\* Stop, Start and Restart, from the app or the command line; Docker does not start a
\* paused container, and stops or restarts one.
Touch(s, st) ==
  /\ Spend("touch") /\ Reachable(s) /\ cont[s].st # st
  /\ cont' = [cont EXCEPT ![s].st = st]
  /\ ran' = IF st = "running" THEN ran \cup Readers(s) ELSE ran
  /\ UNCHANGED <<docker, vol, made, row, def, conf, pr, blind, reported>>
Daemon ==
  /\ Spend("daemon") /\ docker' = ~docker
  /\ UNCHANGED <<cont, vol, made, row, def, conf, pr, history>>
AppKilled ==
  /\ Spend("kill") /\ pr' = [p \in Callers |-> Idle] /\ reported' = TRUE
  /\ UNCHANGED <<docker, cont, vol, made, row, def, conf, ran, blind>>

----------------------------------------------------------------------------
Init ==
  /\ docker = TRUE
  /\ cont = [s \in Slugs |-> NoCont]
  /\ vol = [s \in Slugs |-> 0] /\ made = 0
  /\ row = {} /\ def = [s \in Added |-> "never"] /\ conf = NoConf
  /\ pr = [p \in Callers |-> Idle]
  /\ ran = {} /\ blind = {} /\ reported = FALSE
  /\ left \in Quotas

Step(p) ==
  \/ ListForDelete(p) \/ Tombstone(p)
  \/ Replace(p) \/ Create(p) \/ WriteRow(p)
  \/ Plan(p) \/ TakeContainer(p) \/ TakeVolume(p) \/ DeleteRow(p)
  \/ Inspect(p) \/ Pause(p) \/ Read(p) \/ Unpause(p) \/ Save(p)
  \/ StateFingerprint(p) \/ Record(p)
Call(p) ==
  \/ \E s \in Added : DeleteCustom(p, s)
  \/ \E s \in Slugs : BeginDeploy(p, s)
  \/ \E s \in Slugs, data, allow \in BOOLEAN : BeginRemove(p, s, data, allow)
  \/ ExportStateBackup(p) \/ ConfirmStateBackup(p)
Next ==
  \/ \E p \in Callers : Step(p) \/ Call(p)
  \/ SaveCustom \/ UndoStateBackup
  \/ \E s \in Slugs, st \in {"running", "exited"} : Touch(s, st)
  \/ Daemon \/ AppKilled

Spec == Init /\ [][Next]_vars

----------------------------------------------------------------------------
\* A service the user adds starts with nothing: no volume, container or row of a service
\* of the same name that was deleted before (MakeCustomSlug, the tombstones).
StartsEmpty == \A s \in Added : def[s] # "live" /\ def'[s] = "live" => vol[s] = 0 /\ ~Present(s) /\ s \notin row

\* A container of an added service always has its definition, whatever deploys, removes
\* and deletes overlap: the guards of DeleteCustom and the hold of a deploy.  A delete
\* while the daemon is down is the exception: its guard does not see the container.
ContainerHasDefinition == \A s \in Added : Present(s) /\ s \notin blind => def[s] = "live"

\* Added services keep to themselves, at their birth and at their end (custom.go).
AddedServicesHold == [][StartsEmpty /\ ContainerHasDefinition']_vars

\* A backup that was saved after pausing the container is a copy of state nobody wrote
\* to while it was read, whatever stopped, started or replaced the container meanwhile;
\* of one export at a time (readState).
SavedIsWhole == conf # NoConf /\ conf.mine /\ conf.alone => ~conf.torn

\* Nobody leaves a container paused, which shows as up and earns nothing: the export that
\* paused it is still reading, or has said that it could not unpause it (readState).
PausedIsWatched ==
  cont[Cat].st = "paused" /\ ~reported => \E p \in Callers : pr[p].mine /\ pr[p].pc \in {"read", "unpause"}

\* The card never calls a backup confirmed that is of another volume than the one in use:
\* a volume that was deleted and made again asks anew (Judge, Fingerprint).  A volume
\* deleted between the read (or the press) and the fingerprint is the exception.
ConfirmedIsWhatRuns ==
  Judge = "confirmed" /\ Reachable(Cat) /\ ~conf.crossed => conf.file = cont[Cat].vol

\* What the backups of a service's state claim is true (state_backup_binding.go).
BackupIsTrue == SavedIsWhole /\ PausedIsWatched /\ ConfirmedIsWhatRuns
============================================================================
