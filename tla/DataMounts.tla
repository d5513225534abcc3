----------------------------- MODULE DataMounts -----------------------------
(***************************************************************************)
(* Where a service keeps its data when its container is replaced, and what *)
(* it takes to destroy it (runtime/mounts.go, runtime/removal.go).  One    *)
(* service of the catalog with one mount; calls of the owner overlap.  A   *)
(* release of the app may move, rename or protect the mount, or drop the   *)
(* service.  How a host path is spelled (requestedSourcesByTarget) is left *)
(* out: a source is the volume or folder it names.                         *)
(***************************************************************************)
EXTENDS Integers, FiniteSets

CONSTANTS
  Callers,  \* calls under way at once
  Volumes,  \* names of volumes
  Folders,  \* folders of the host
  Typed,    \* what the owner may type into the path field
  Releases, \* the service's entry in one release each: [target, host, ro, crit]
  Hands,    \* containers somebody may put under the service's name: [there, mine, target, src, ro, env]
  Quotas    \* bound: how often each call and mishap may happen, one choice per behaviour

VARIABLES
  listed,   \* the entry in the catalog of this run of the app
  path,     \* the path field in the stored credentials, "" for none
  ctr,      \* the container that holds the service's name
  data,     \* which data a source holds, 0 for none
  ids,      \* the data made so far
  jobs,     \* the calls under way
  asked,    \* history: the owner gave another path than the container was made with
  still     \* what remains of the calls and mishaps allowed

dataVars == <<listed, path, ctr, data, ids, jobs, asked, still>>

Sources == Volumes \cup Folders
Field   == "${PATH}"                      \* a host side that is the form field
NoEntry == [target |-> "", host |-> "", ro |-> FALSE, crit |-> FALSE]
NoCtr   == [there |-> FALSE, mine |-> FALSE, target |-> "", src |-> "", ro |-> FALSE, env |-> ""]
NoJob   == [pc |-> "idle", path |-> "", live |-> NoCtr, heir |-> FALSE, delete |-> FALSE, allow |-> FALSE,
            vol |-> "", named |-> "", warned |-> FALSE, crossed |-> FALSE]

Doing(p, pc)   == jobs[p].pc = pc
Proceed(p, pc) == jobs' = [jobs EXCEPT ![p].pc = pc]
End(p)         == jobs' = [jobs EXCEPT ![p] = NoJob]
Spend(k)       == still[k] > 0 /\ still' = [still EXCEPT ![k] = @ - 1]

----------------------------------------------------------------------------
(* What a deploy mounts.                                                    *)

\* Only a field that the entry declares reaches the container.
buildEnv(creds) == IF listed.host = Field THEN creds ELSE ""
buildMounts(env) == [target |-> listed.target, src |-> IF listed.host = Field THEN env ELSE listed.host, ro |-> listed.ro]

\* mutant: a field the live container does not carry counts as changed
movedUnlessSame(env, live) == listed.host = Field /\ live.env # env
\* A field the live container does not carry cannot be compared: not moved.
movedOnPurpose(env, live) == listed.host = Field /\ live.env # "" /\ live.env # env

keepLiveMounts(mount, env, live) ==
  IF live.there /\ live.target = mount.target /\ ~movedOnPurpose(env, live)
  THEN [mount EXCEPT !.src = live.src, !.ro = @ \/ live.ro]
  ELSE mount

----------------------------------------------------------------------------
(* The form, and the deploy (App.DeployService, DockerProvider.Deploy).     *)

\* What a form holds: the whole stored blob is replaced by it.
Forms == IF listed.host = Field THEN Typed ELSE {""}
SaveCredentials(v) ==
  /\ path' = v
  /\ asked' = (asked \/ v \notin {"", path})
SaveForm ==
  /\ Spend("save") /\ listed # NoEntry
  /\ \E v \in Forms : SaveCredentials(v)
  /\ UNCHANGED <<listed, ctr, data, ids, jobs>>

\* From the wizard with its form, or "Redeploy" with what is stored; a required field is there.
DeployService(p) ==
  /\ Doing(p, "idle") /\ Spend("deploy") /\ listed # NoEntry
  /\ \/ \E v \in Forms : SaveCredentials(v)
     \/ (listed.host = Field => path # "") /\ UNCHANGED <<path, asked>>
  /\ jobs' = [jobs EXCEPT ![p] = [NoJob EXCEPT !.pc = "inspect", !.path = path']]
  /\ UNCHANGED <<listed, ctr, data, ids>>

\* Everything up to the removal may end the deploy; the live mounts are read last.
Inspect(p) ==
  /\ Doing(p, "inspect")
  /\ End(p) \/ jobs' = [jobs EXCEPT ![p].pc = "replace", ![p].live = ctr]
  /\ UNCHANGED <<listed, path, ctr, data, ids, asked, still>>
\* History: this deploy has read the very container it removes, and the owner gave no other
\* path since that was made, in the form of this deploy or a later one.
Heir(p) == ctr.there /\ ctr = jobs[p].live /\ ~asked /\ jobs[p].path = path
\* The forced removal; its error is not looked at.
Replace(p) ==
  /\ Doing(p, "replace")
  /\ \/ /\ jobs' = [jobs EXCEPT ![p].pc = "create", ![p].heir = Heir(p)]
        /\ ctr' = NoCtr /\ UNCHANGED still
     \/ Spend("fail") /\ Proceed(p, "create") /\ UNCHANGED ctr
  /\ UNCHANGED <<listed, path, data, ids, asked>>

\* A container has come to hold the name, and works on the data it finds or makes its own.
Runs(c) ==
  LET new == data[c.src] = 0 /\ ~c.ro IN
  /\ ctr' = c
  /\ ids' = IF new THEN ids + 1 ELSE ids
  /\ data' = IF new THEN [data EXCEPT ![c.src] = ids'] ELSE data
CrossedBut(p) == [q \in Callers |-> IF q = p THEN NoJob ELSE [jobs[q] EXCEPT !.crossed = jobs[q].pc # "idle"]]

\* A name that is taken, a create or a start that fails: no container of this deploy is left.
Create(p) ==
  LET env   == buildEnv(jobs[p].path)
      mount == keepLiveMounts(buildMounts(env), env, jobs[p].live)
  IN  /\ Doing(p, "create")
      /\ \/ End(p) /\ UNCHANGED <<ctr, data, ids, asked>>
         \/ /\ ~ctr.there
            /\ Runs([there |-> TRUE, mine |-> TRUE, target |-> mount.target, src |-> mount.src, ro |-> mount.ro, env |-> env])
            /\ jobs' = CrossedBut(p)
            /\ asked' = (jobs[p].path # path)
      /\ UNCHANGED <<listed, path, still>>

----------------------------------------------------------------------------
(* Removing (App.PlanServiceRemoval, App.RemoveService, frontend removal).  *)

\* criticalTargets: with no entry to read, every volume.
Critical(target) == listed = NoEntry \/ (listed.crit /\ target = listed.target)
Volume == IF ctr.there /\ ctr.src \in Volumes THEN ctr.src ELSE ""

\* The dialog names the volume and what the catalog says of it; when the plan cannot be
\* read nothing is deleted.  A yes to a warning is the extra yes.
AskAboutRemoval(p, delete) ==
  LET warned == Volume # "" /\ Critical(ctr.target) IN
  /\ Doing(p, "idle") /\ Spend("remove")
  /\ delete => ctr.there /\ ctr.mine /\ Volume # ""
  /\ jobs' = [jobs EXCEPT ![p] = [NoJob EXCEPT !.pc = "plan", !.delete = delete, !.allow = delete /\ warned,
                                              !.named = Volume, !.warned = warned]]
  /\ UNCHANGED <<listed, path, ctr, data, ids, asked>>
\* Remove plans again, on the container it finds, and refuses before anything is removed.
Plan(p) ==
  LET blocked == jobs[p].delete /\ ~jobs[p].allow /\ Volume # "" /\ Critical(ctr.target) IN
  /\ Doing(p, "plan")
  /\ IF ctr.there /\ ctr.mine /\ ~blocked
     THEN jobs' = [jobs EXCEPT ![p].pc = "take", ![p].vol = Volume, ![p].live = ctr]
     ELSE End(p)
  /\ UNCHANGED <<listed, path, ctr, data, ids, asked, still>>
TakeContainer(p) ==
  /\ Doing(p, "take")
  /\ \/ Spend("fail") /\ End(p) /\ UNCHANGED ctr
     \/ /\ ctr' = NoCtr /\ UNCHANGED still
        /\ IF ctr.there /\ jobs[p].delete THEN Proceed(p, "volume") ELSE End(p)
  /\ UNCHANGED <<listed, path, data, ids, asked>>
\* Docker does not delete a volume that a container mounts.
TakeVolume(p) ==
  LET vol == jobs[p].vol IN
  /\ Doing(p, "volume") /\ End(p)
  /\ data' = IF vol # "" /\ ctr.src # vol THEN [data EXCEPT ![vol] = 0] ELSE data
  /\ UNCHANGED <<listed, path, ctr, ids, asked, still>>

----------------------------------------------------------------------------
(* What else happens.                                                       *)

\* The owner, or another tool, replaces the container under this name.
ByHand(c) ==
  /\ Spend("byhand") /\ Runs(c)
  /\ jobs' = [q \in Callers |-> [jobs[q] EXCEPT !.crossed = jobs[q].pc # "idle"]]
  /\ asked' = (asked \/ c.env \notin {"", path})
  /\ UNCHANGED <<listed, path>>
\* The app is killed, or updated: calls are gone, and the catalog is the new release's.
Restart(r) ==
  /\ Spend("restart")
  /\ listed' = r /\ jobs' = [p \in Callers |-> NoJob]
  /\ UNCHANGED <<path, ctr, data, ids, asked>>

----------------------------------------------------------------------------
DataInit ==
  /\ listed \in Releases
  /\ path = "" /\ ctr = NoCtr
  /\ data = [s \in Sources |-> 0] /\ ids = 0
  /\ jobs = [p \in Callers |-> NoJob]
  /\ asked = FALSE
  /\ still \in Quotas

DataNext ==
  \/ \E p \in Callers :
       \/ DeployService(p) \/ Inspect(p) \/ Replace(p) \/ Create(p)
       \/ \E delete \in BOOLEAN : AskAboutRemoval(p, delete)
       \/ Plan(p) \/ TakeContainer(p) \/ TakeVolume(p)
  \/ SaveForm
  \/ \E c \in Hands : ByHand(c)
  \/ \E r \in Releases \cup {NoEntry} : Restart(r)
DataSpec == DataInit /\ [][DataNext]_dataVars

----------------------------------------------------------------------------
\* The container a deploy replaces hands its data to the replacement, no more writable than
\* it was, whatever release, hand or overlapping call made it: keepLiveMounts, read before
\* the removal and still true after it.  (Heir names the exceptions.)
StaysPut ==
  \A p \in Callers :
    LET live == jobs[p].live IN
    Doing(p, "create") /\ jobs'[p] = NoJob /\ ctr' # ctr /\ jobs[p].heir /\ live.target = ctr'.target
      => ctr'.src = live.src /\ (live.ro => ctr'.ro)

\* Data is destroyed only when the dialog named it, and with its warning when it cannot be
\* made again: the catalog marks it, or nobody can tell.  (A container that was replaced
\* while the dialog was open is the exception.)
GoesAsNamed ==
  \A s \in Sources : data[s] # 0 /\ data'[s] = 0 =>
    \E p \in Callers :
      /\ Doing(p, "volume") /\ jobs[p].delete
      /\ jobs[p].crossed \/ jobs[p].named = s
      /\ Critical(jobs[p].live.target) => jobs[p].warned \/ jobs[p].crossed

\* What a service keeps stays where it is and goes only by the owner's word.
DataIsKept == [][StaysPut /\ GoesAsNamed]_dataVars
=============================================================================
