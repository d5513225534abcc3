---------------------------- MODULE Deployments ----------------------------
(***************************************************************************)
(* services.Manager: the operations on deployed services (DeployWith, Stop, *)
(* Start, Restart, Remove, the copy operations and Refresh) over the        *)
(* deployments table, the Docker daemon and the native provider's registry. *)
(*                                                                          *)
(* Every operation is a sequence of steps.  A step is one call to the       *)
(* daemon, to the native provider or to the store; the manager holds no     *)
(* lock across two of them, so the steps of different operations            *)
(* interleave.  Users are the bindings the window calls for the user,       *)
(* Refreshers the RefreshDeployments calls it makes on backend events.      *)
(***************************************************************************)
EXTENDS Integers, FiniteSets

CONSTANTS
  Slugs,         \* the services of the catalog
  NativeSlugs,   \* those with a native binary for this host
  Images,        \* images a user may choose instead of the catalog's
  NoImage,       \* "": the deployment follows the catalog
  Keep,          \* nil: a redeploy that does not say
  MaxInstances,  \* the ceiling on copies (10 in the code)
  Limit,         \* ScalingLimit(s).Max for every service
  Users, Refreshers,
  NoRow          \* no row in the deployments table

Choices == Images \cup {NoImage}
Copies  == 1..MaxInstances
Extra   == 2..MaxInstances

ASSUME SlugAssumption == Slugs # {} /\ NativeSlugs \subseteq Slugs
ASSUME UserAssumption == Users # {}
ASSUME InstanceAssumption == MaxInstances \in Nat \ {0}
\* A native service runs once on this computer (ScalingLimit's last case).
ASSUME LimitAssumption ==
  /\ Limit \in [Slugs -> Copies]
  /\ \A s \in NativeSlugs : Limit[s] = 1
ASSUME NilAssumption == NoImage \notin Images /\ Keep \notin Choices

ContainerStates == {"none", "created", "running", "exited"}
NativeStates    == {"none", "running", "stopped"}
Statuses        == {"created", "running", "exited", "stopped"}
Kinds           == {"docker", "native"}
Containers      == [st : ContainerStates, img : Choices, by : Users]
Rows == [runtime : Kinds, status : Statuses, custom : Choices, instances : Copies]
ASSUME RowAssumption == NoRow \notin Rows

VARIABLES
  dockerUp,  \* the daemon answers
  ctr,       \* ctr[s][n]: the container cashpilot-<s>, or its copy n
  native,    \* the native registry's entry of s, with its process's state
  row,       \* the deployments table
  copies,    \* Manager.copies: the copies 2..N as last seen
  op,        \* the operation each user binding is in
  rf         \* the Refresh each refresher is in

vars == <<dockerUp, ctr, native, row, copies, op, rf>>

AnySlug  == CHOOSE s \in Slugs : TRUE
AnyUser  == CHOOSE u \in Users : TRUE
NoCtr    == [st |-> "none", img |-> NoImage, by |-> AnyUser]
IdleOp   == [pc |-> "idle", verb |-> "stop", s |-> AnySlug, kind |-> "docker", n |-> 1,
             img |-> NoImage, want |-> 1, run |-> {}, done |-> {}, dep |-> NoRow]
NoList   == [s \in Slugs |-> "none"]
IdleRf   == [pc |-> "idle", dok |-> FALSE, dl |-> NoList, nl |-> NoList,
             seen |-> [s \in Slugs |-> {}], todo |-> {}, stale |-> {}]

Init ==
  /\ dockerUp = TRUE
  /\ ctr = [s \in Slugs |-> [n \in Copies |-> NoCtr]]
  /\ native = [s \in Slugs |-> "none"]
  /\ row = [s \in Slugs |-> NoRow]
  /\ copies = [s \in Slugs |-> {}]
  /\ op = [u \in Users |-> IdleOp]
  /\ rf = [r \in Refreshers |-> IdleRf]

----------------------------------------------------------------------------
(* The store.                                                              *)

\* UpsertDeployment: an update leaves custom_image and instances alone, an
\* insert takes their column defaults.
Upserted(old, kind, status) ==
  IF old = NoRow
  THEN [runtime |-> kind, status |-> status, custom |-> NoImage, instances |-> 1]
  ELSE [old EXCEPT !.runtime = kind, !.status = status]

UpsertDeployment(s, kind, status) ==
  row' = [row EXCEPT ![s] = Upserted(row[s], kind, status)]

\* UPDATE ... WHERE slug = ?: nothing happens when the row is gone.
SetCustomImage(s, img) ==
  row' = [row EXCEPT ![s] = IF @ = NoRow THEN NoRow ELSE [@ EXCEPT !.custom = img]]

SetInstances(s, n) ==
  row' = [row EXCEPT ![s] = IF @ = NoRow THEN NoRow ELSE [@ EXCEPT !.instances = n]]

DeleteDeployment(s) == row' = [row EXCEPT ![s] = NoRow]

\* What the callers of GetDeployment go by: a read that fails counts as no row.
GetDeployment(s) == {row[s], NoRow}

RecordedImage(dep)  == IF dep = NoRow THEN NoImage ELSE dep.custom
RecordedCopies(dep) == IF dep = NoRow THEN 1 ELSE dep.instances

\* providerForSlug: the recorded runtime, else Docker.
ProviderForSlug(dep) == IF dep = NoRow THEN "docker" ELSE dep.runtime

\* kindForService and DeployWith's override of it: a chosen image runs on Docker.
DeployKind(s, custom) ==
  IF s \in NativeSlugs /\ custom = NoImage THEN "native" ELSE "docker"

----------------------------------------------------------------------------
(* Helpers on operations.                                                  *)

At(u, pc)     == op[u].pc = pc
Goto(u, pc)   == op' = [op EXCEPT ![u].pc = pc]
End(u)        == op' = [op EXCEPT ![u] = IdleOp]
Has(s, n)     == ctr[s][n].st # "none"
SetCtr(s, n, c) == ctr' = [ctr EXCEPT ![s][n] = c]
ListedCopies(s) == {n \in Extra : Has(s, n)}
setCopies(s, ns) == copies' = [copies EXCEPT ![s] = ns]

----------------------------------------------------------------------------
(* DeployWith.                                                             *)

\* Everything up to the first call to the provider: the recorded choice is read,
\* the count is settled, the runtime is picked.
BeginDeploy(u, s, dep, image, want) ==
  LET custom == IF image = Keep THEN RecordedImage(dep) ELSE image
      count  == IF want # 0 THEN want
                ELSE IF RecordedCopies(dep) > Limit[s] THEN Limit[s] ELSE RecordedCopies(dep)
      kind   == DeployKind(s, custom)
      asks   == kind = "docker" /\ (want # 0 \/ RecordedCopies(dep) > 1)
  IN /\ At(u, "idle")
     /\ want <= Limit[s]
     /\ op' = [op EXCEPT ![u] = [IdleOp EXCEPT
                 !.pc = IF asks THEN "copies" ELSE "pull", !.verb = "deploy",
                 !.s = s, !.kind = kind, !.img = custom, !.want = count]]
     /\ UNCHANGED <<dockerUp, ctr, native, row, copies, rf>>

\* DockerProvider.Copies, for DeployWith and for Remove.
ListCopies(u) ==
  /\ At(u, "copies")
  /\ dockerUp
  /\ op' = [op EXCEPT ![u].run = ListedCopies(op[u].s),
                      ![u].pc = IF op[u].verb = "deploy" THEN "pull" ELSE "rmcopy"]
  /\ UNCHANGED <<dockerUp, ctr, native, row, copies, rf>>

\* DockerProvider.Deploy up to its destructive line: the entry is validated, the
\* image pulled and inspected, the network settled.
Pull(u) ==
  /\ At(u, "pull")
  /\ op[u].kind = "docker"
  /\ dockerUp
  /\ Goto(u, "replace")
  /\ UNCHANGED <<dockerUp, ctr, native, row, copies, rf>>

\* Mutant: the row is recorded before the container exists.
ReplaceThenRecord(u) ==
  /\ At(u, "replace")
  /\ dockerUp
  /\ SetCtr(op[u].s, op[u].n, NoCtr)
  /\ Goto(u, "upsert")
  /\ UNCHANGED <<dockerUp, native, row, copies, rf>>

\* The container that holds the name is stopped and removed by force.  Both errors
\* are ignored: a removal that fails leaves it there, stopped.
Replace(u) ==
  LET s == op[u].s  n == op[u].n IN
  /\ At(u, "replace")
  /\ dockerUp
  /\ \/ SetCtr(s, n, NoCtr)
     \/ Has(s, n) /\ ctr' = [ctr EXCEPT ![s][n].st = "exited"]
  /\ Goto(u, "create")
  /\ UNCHANGED <<dockerUp, native, row, copies, rf>>

\* ContainerCreate fails when the name is still taken (Fails).
Create(u) ==
  LET s == op[u].s  n == op[u].n IN
  /\ At(u, "create")
  /\ dockerUp
  /\ ~Has(s, n)
  /\ SetCtr(s, n, [st |-> "created", img |-> op[u].img, by |-> u])
  /\ Goto(u, "start")
  /\ UNCHANGED <<dockerUp, native, row, copies, rf>>

\* What follows copy n: the row after the first, then the next copy, and the
\* scale-down after the last.
AfterCopy(o) ==
  IF o.n < o.want THEN [o EXCEPT !.n = o.n + 1, !.pc = "pull"]
  ELSE [o EXCEPT !.pc = "scaledown"]

\* The created container is the one whose id this deploy holds.
Mine(u) == LET c == ctr[op[u].s][op[u].n] IN c.st # "none" /\ c.by = u

StartCreated(u) ==
  LET o == op[u] IN
  /\ At(u, "start")
  /\ dockerUp
  /\ Mine(u)
  /\ ctr' = [ctr EXCEPT ![o.s][o.n].st = "running"]
  /\ op' = [op EXCEPT ![u] = IF o.n = 1 THEN [o EXCEPT !.pc = "upsert"]
                             ELSE AfterCopy([o EXCEPT !.done = @ \cup {o.n}])]
  /\ UNCHANGED <<dockerUp, native, row, copies, rf>>

\* A start that fails removes what was created, if the daemon lets it.
StartFails(u) ==
  LET o == op[u] IN
  /\ At(u, "start")
  /\ IF dockerUp /\ Mine(u) THEN SetCtr(o.s, o.n, NoCtr) ELSE UNCHANGED ctr
  /\ IF o.n > 1 THEN setCopies(o.s, o.done) ELSE UNCHANGED copies
  /\ End(u)
  /\ UNCHANGED <<dockerUp, native, row, rf>>

\* NativeProcessProvider.Deploy: the binary is ready, the previous process is
\* stopped, then the new one either starts or does not.
DeployNative(u) ==
  LET s == op[u].s IN
  /\ At(u, "pull")
  /\ op[u].kind = "native"
  /\ \/ native' = [native EXCEPT ![s] = "running"] /\ Goto(u, "upsert")
     \/ /\ native' = [native EXCEPT ![s] = IF @ = "none" THEN "none" ELSE "stopped"]
        /\ End(u)
  /\ UNCHANGED <<dockerUp, ctr, row, copies, rf>>

RecordRow(u) ==
  /\ At(u, "upsert")
  /\ UpsertDeployment(op[u].s, op[u].kind, "running")
  /\ Goto(u, "custom")
  /\ UNCHANGED <<dockerUp, ctr, native, copies, rf>>

RecordImage(u) ==
  /\ At(u, "custom")
  /\ SetCustomImage(op[u].s, op[u].img)
  /\ Goto(u, "instances")
  /\ UNCHANGED <<dockerUp, ctr, native, copies, rf>>

RecordInstances(u) ==
  /\ At(u, "instances")
  /\ SetInstances(op[u].s, op[u].want)
  /\ op' = [op EXCEPT ![u] = AfterCopy(op[u])]
  /\ UNCHANGED <<dockerUp, ctr, native, copies, rf>>

\* RemoveCopy, highest first, of the listed copies above the count; then the
\* deploy is over.
ScaleDown(u) ==
  LET o == op[u]
      above == {n \in o.run : n > o.want}
  IN /\ At(u, "scaledown")
     /\ \/ /\ above = {}
           /\ setCopies(o.s, o.done)
           /\ End(u)
           /\ UNCHANGED ctr
        \/ \E n \in above :
             /\ \A m \in above : m <= n
             /\ dockerUp /\ Has(o.s, n)
             /\ SetCtr(o.s, n, NoCtr)
             /\ op' = [op EXCEPT ![u].run = @ \ {n}]
             /\ UNCHANGED copies
     /\ UNCHANGED <<dockerUp, native, row, rf>>

----------------------------------------------------------------------------
(* Stop, Start, Restart, and the same on a copy.                           *)

BeginLifecycle(u, s, dep, verb) ==
  /\ At(u, "idle")
  /\ op' = [op EXCEPT ![u] = [IdleOp EXCEPT !.pc = "call", !.verb = verb, !.s = s,
                                            !.kind = ProviderForSlug(dep)]]
  /\ UNCHANGED <<dockerUp, ctr, native, row, copies, rf>>

\* The provider's call: it needs the container, or the registry entry.
Call(u) ==
  LET o == op[u] IN
  /\ At(u, "call")
  /\ \/ /\ o.kind = "docker" /\ dockerUp /\ Has(o.s, 1)
        /\ ctr' = [ctr EXCEPT ![o.s][1].st = IF o.verb = "stop" THEN "exited" ELSE "running"]
        /\ UNCHANGED native
     \/ /\ o.kind = "native" /\ native[o.s] # "none"
        /\ native' = [native EXCEPT ![o.s] = IF o.verb = "stop" THEN "stopped" ELSE "running"]
        /\ UNCHANGED ctr
  /\ Goto(u, "read")
  /\ UNCHANGED <<dockerUp, row, copies, rf>>

\* GetDeployment, then UpsertDeployment of what it returned with a new status.
ReadRow(u) ==
  /\ At(u, "read")
  /\ \E dep \in GetDeployment(op[u].s) :
       IF dep = NoRow THEN End(u) ELSE op' = [op EXCEPT ![u].dep = dep, ![u].pc = "write"]
  /\ UNCHANGED <<dockerUp, ctr, native, row, copies, rf>>

WriteRow(u) ==
  LET o == op[u] IN
  /\ At(u, "write")
  /\ UpsertDeployment(o.s, o.dep.runtime, IF o.verb = "stop" THEN "stopped" ELSE "running")
  /\ End(u)
  /\ UNCHANGED <<dockerUp, ctr, native, copies, rf>>

\* StopCopy and StartCopy: one checked call on the container of copy n, no row.
CopyCall(s, n, verb) ==
  /\ \E dep \in GetDeployment(s) : ProviderForSlug(dep) = "docker"
  /\ dockerUp /\ Has(s, n)
  /\ ctr' = [ctr EXCEPT ![s][n].st = IF verb = "stop" THEN "exited" ELSE "running"]
  /\ UNCHANGED <<dockerUp, native, row, copies, op, rf>>

----------------------------------------------------------------------------
(* Remove.                                                                 *)

BeginRemove(u, s, dep) ==
  /\ At(u, "idle")
  /\ op' = [op EXCEPT ![u] = [IdleOp EXCEPT
              !.pc = IF ProviderForSlug(dep) = "docker" THEN "copies" ELSE "rm",
              !.verb = "remove", !.s = s, !.kind = ProviderForSlug(dep)]]
  /\ UNCHANGED <<dockerUp, ctr, native, row, copies, rf>>

\* Mutant: the extra copies are left behind.
RemoveNoCopies(u) ==
  /\ At(u, "rmcopy")
  /\ Goto(u, "rm")
  /\ UNCHANGED <<dockerUp, ctr, native, row, copies, rf>>

\* The copies go first, in the order they were listed.
RemoveCopies(u) ==
  LET o == op[u] IN
  /\ At(u, "rmcopy")
  /\ \/ o.run = {} /\ Goto(u, "rm") /\ UNCHANGED ctr
     \/ \E n \in o.run :
          /\ \A m \in o.run : n <= m
          /\ dockerUp /\ Has(o.s, n)
          /\ SetCtr(o.s, n, NoCtr)
          /\ op' = [op EXCEPT ![u].run = @ \ {n}]
  /\ UNCHANGED <<dockerUp, native, row, copies, rf>>

\* provider.Remove.  A volume that cannot be deleted (or the native directory)
\* is an error after the unit is gone (or stopped).
RemoveUnit(u) ==
  LET s == op[u].s
      gone == Goto(u, "delete") /\ setCopies(s, {})
      halfway == End(u) /\ UNCHANGED copies
  IN /\ At(u, "rm")
     /\ \/ /\ op[u].kind = "docker" /\ dockerUp /\ Has(s, 1)
           /\ SetCtr(s, 1, NoCtr)
           /\ gone \/ halfway
           /\ UNCHANGED native
        \/ /\ op[u].kind = "native"
           /\ \/ native' = [native EXCEPT ![s] = "none"] /\ gone
              \/ native' = [native EXCEPT ![s] = IF @ = "none" THEN @ ELSE "stopped"] /\ halfway
           /\ UNCHANGED ctr
     /\ UNCHANGED <<dockerUp, row, rf>>

DeleteRow(u) ==
  /\ At(u, "delete")
  /\ DeleteDeployment(op[u].s)
  /\ End(u)
  /\ UNCHANGED <<dockerUp, ctr, native, copies, rf>>

----------------------------------------------------------------------------
(* A step that fails ends its operation with an error and leaves what it    *)
(* found: the daemon is unreachable or refuses, a name is taken, a copy is   *)
(* not there, the database stays busy.  DeployWith records the copies it     *)
(* did start before it gives up on one.                                      *)

CanFail == {"copies", "pull", "replace", "create", "upsert", "custom", "instances",
            "scaledown", "call", "rmcopy", "rm", "delete", "write"}

GivesUp(u) ==
  LET o == op[u] IN
  /\ IF o.verb = "deploy" /\ (o.n > 1 \/ o.pc = "scaledown") THEN setCopies(o.s, o.done)
     ELSE UNCHANGED copies
  /\ End(u)

Fails(u) ==
  /\ op[u].pc \in CanFail
  /\ GivesUp(u)
  /\ UNCHANGED <<dockerUp, ctr, native, row, rf>>

\* The container a removal is about to take.
NextToGo(o) ==
  {n \in Copies : \/ o.pc = "rm" /\ n = 1
                  \/ o.pc = "rmcopy" /\ n \in o.run /\ \A m \in o.run : n <= m
                  \/ o.pc = "scaledown" /\ n \in o.run /\ n > o.want /\ \A m \in o.run : m <= n}

\* A removal stops its container first, and a native restart its process: either is
\* left stopped when what follows fails.
StopsThenFails(u) ==
  LET o == op[u] IN
  /\ \/ /\ o.kind = "docker" /\ dockerUp
        /\ \E n \in NextToGo(o) : Has(o.s, n) /\ ctr' = [ctr EXCEPT ![o.s][n].st = "exited"]
        /\ UNCHANGED native
     \/ /\ o.kind = "native" /\ native[o.s] # "none"
        /\ o.pc = "call" /\ o.verb = "restart"
        /\ native' = [native EXCEPT ![o.s] = "stopped"]
        /\ UNCHANGED ctr
  /\ GivesUp(u)
  /\ UNCHANGED <<dockerUp, row, rf>>

----------------------------------------------------------------------------
(* Refresh.  Providers are asked in the order of their names: Docker first. *)

\* A provider that cannot list is skipped; the native registry always can.
ListDocker(r) ==
  /\ rf[r].pc = "idle"
  /\ rf' = [rf EXCEPT ![r] =
       IF dockerUp
       THEN [IdleRf EXCEPT !.pc = "native", !.dok = TRUE,
                           !.dl = [s \in Slugs |-> ctr[s][1].st],
                           !.seen = [s \in Slugs |-> ListedCopies(s)]]
       ELSE [IdleRf EXCEPT !.pc = "native"]]
  /\ UNCHANGED <<dockerUp, ctr, native, row, copies, op>>

ListNative(r) ==
  /\ rf[r].pc = "native"
  /\ rf' = [rf EXCEPT ![r].pc = "sync", ![r].nl = native,
               ![r].todo = {<<"docker", s>> : s \in {t \in Slugs : rf[r].dl[t] # "none"}}
                      \cup {<<"native", s>> : s \in {t \in Slugs : native[t] # "none"}}]
  /\ UNCHANGED <<dockerUp, ctr, native, row, copies, op>>

\* Mutant: a row that exists is not rewritten.
SyncOnlyMissing(r, k, s) ==
  /\ rf[r].pc = "sync"
  /\ <<k, s>> \in rf[r].todo
  /\ IF row[s] = NoRow THEN UpsertDeployment(s, k, rf[r].dl[s]) ELSE UNCHANGED row
  /\ rf' = [rf EXCEPT ![r].todo = @ \ {<<k, s>>}]
  /\ UNCHANGED <<dockerUp, ctr, native, copies, op>>

\* The rows of what was listed are rewritten one by one, Docker's first: for a
\* service that both runtimes list, the native listing is the last word.  A write that
\* fails is passed over, here and in PruneRow.
SyncRow(r, k, s) ==
  /\ rf[r].pc = "sync"
  /\ <<k, s>> \in rf[r].todo
  /\ k = "native" => \A e \in rf[r].todo : e[1] = "native"
  /\ \/ UpsertDeployment(s, k, IF k = "native" THEN rf[r].nl[s] ELSE rf[r].dl[s])
     \/ UNCHANGED row
  /\ rf' = [rf EXCEPT ![r].todo = @ \ {<<k, s>>}]
  /\ UNCHANGED <<dockerUp, ctr, native, copies, op>>

\* Mutants: rows are pruned on an empty listing; a container counts as listed
\* whether or not it was.
TotalAlways(r)  == TRUE
ActiveAlways(r) == {s \in Slugs : rf[r].pc = "sync"}

Active(r) == {s \in Slugs : rf[r].dl[s] # "none" \/ rf[r].nl[s] # "none"}
Total(r)  == Active(r) # {} \/ \E s \in Slugs : rf[r].seen[s] # {}

\* The copies map is replaced; then, if anything at all was listed, the rows of
\* the services that were not are read to be deleted.
EndSync(r) ==
  /\ rf[r].pc = "sync"
  /\ rf[r].todo = {}
  /\ copies' = rf[r].seen
  /\ rf' = [rf EXCEPT ![r].pc = "prune",
              ![r].stale = IF Total(r) THEN {s \in Slugs : row[s] # NoRow} \ Active(r) ELSE {}]
  /\ UNCHANGED <<dockerUp, ctr, native, row, op>>

PruneRow(r, s) ==
  /\ rf[r].pc = "prune"
  /\ s \in rf[r].stale
  /\ DeleteDeployment(s) \/ UNCHANGED row
  /\ rf' = [rf EXCEPT ![r].stale = @ \ {s}]
  /\ UNCHANGED <<dockerUp, ctr, native, copies, op>>

EndRefresh(r) ==
  /\ rf[r].pc = "prune"
  /\ rf[r].stale = {}
  /\ rf' = [rf EXCEPT ![r] = IdleRf]
  /\ UNCHANGED <<dockerUp, ctr, native, row, copies, op>>

----------------------------------------------------------------------------
(* What happens around the manager.                                        *)

\* The daemon stops answering, or answers again.
DaemonToggles ==
  /\ dockerUp' = ~dockerUp
  /\ UNCHANGED <<ctr, native, row, copies, op, rf>>

\* A container is removed by hand.
Vanish(s, n) ==
  /\ Has(s, n)
  /\ SetCtr(s, n, NoCtr)
  /\ UNCHANGED <<dockerUp, native, row, copies, op, rf>>

\* A container exits, or a native process dies.
Exits(s) ==
  /\ \/ /\ ctr[s][1].st = "running"
        /\ ctr' = [ctr EXCEPT ![s][1].st = "exited"]
        /\ UNCHANGED native
     \/ /\ native[s] = "running"
        /\ native' = [native EXCEPT ![s] = "stopped"]
        /\ UNCHANGED ctr
  /\ UNCHANGED <<dockerUp, row, copies, op, rf>>

\* The app dies in the middle of whatever it was doing and is started again: the
\* table, the containers and the native processes are what it finds.
AppRestart ==
  /\ op' = [u \in Users |-> IdleOp]
  /\ rf' = [r \in Refreshers |-> IdleRf]
  /\ copies' = [s \in Slugs |-> {}]
  /\ UNCHANGED <<dockerUp, ctr, native, row>>

----------------------------------------------------------------------------
Begin(u, s) ==
  \E dep \in GetDeployment(s) :
    \/ \E image \in Choices \cup {Keep}, want \in 0..MaxInstances : BeginDeploy(u, s, dep, image, want)
    \/ \E verb \in {"stop", "start", "restart"} : BeginLifecycle(u, s, dep, verb)
    \/ BeginRemove(u, s, dep)

Progress(u) ==
  \/ ListCopies(u) \/ Pull(u) \/ Replace(u) \/ Create(u) \/ StartCreated(u)
  \/ DeployNative(u) \/ RecordRow(u) \/ RecordImage(u) \/ RecordInstances(u) \/ ScaleDown(u)
  \/ Call(u) \/ ReadRow(u) \/ WriteRow(u)
  \/ RemoveCopies(u) \/ RemoveUnit(u) \/ DeleteRow(u)

UserStep(u) == Progress(u) \/ StartFails(u) \/ Fails(u) \/ StopsThenFails(u)

RefreshStep(r) ==
  \/ ListNative(r) \/ EndSync(r) \/ EndRefresh(r)
  \/ \E s \in Slugs : PruneRow(r, s) \/ \E k \in Kinds : SyncRow(r, k, s)

Operation ==
  \/ \E u \in Users : UserStep(u) \/ \E s \in Slugs : Begin(u, s)
  \/ \E s \in Slugs, n \in Extra, verb \in {"stop", "start"} : CopyCall(s, n, verb)

Refresh == \E r \in Refreshers : ListDocker(r) \/ RefreshStep(r)

Around ==
  \/ DaemonToggles \/ AppRestart
  \/ \E s \in Slugs : Exits(s) \/ \E n \in Copies : Vanish(s, n)

Next == Operation \/ Refresh \/ Around

Spec == Init /\ [][Next]_vars

OpOn(s) == \E u \in Users : op[u].pc # "idle" /\ op[u].s = s

\* On a service that could run on either runtime one operation or Refresh goes on at a
\* time, and nobody removes its container by hand; on the others everything interleaves.
FreeToBegin(s) == s \in NativeSlugs => ~OpOn(s) /\ \A r \in Refreshers : rf[r].pc = "idle"
FreeToList     == \A s \in NativeSlugs : ~OpOn(s)
AloneNext ==
  \/ \E u \in Users : UserStep(u) \/ \E s \in Slugs : FreeToBegin(s) /\ Begin(u, s)
  \/ \E r \in Refreshers : RefreshStep(r) \/ (FreeToList /\ ListDocker(r))
  \/ \E s \in Slugs, n \in Extra, verb \in {"stop", "start"} : CopyCall(s, n, verb)
  \/ DaemonToggles \/ AppRestart \/ \E s \in Slugs : Exits(s)
  \/ \E s \in Slugs \ NativeSlugs, n \in Copies : Vanish(s, n)
AloneSpec == Init /\ [][AloneNext]_vars

----------------------------------------------------------------------------
(* Properties.                                                             *)

Ops == [pc : CanFail \cup {"idle", "start", "read"},
        verb : {"deploy", "stop", "start", "restart", "remove"}, s : Slugs, kind : Kinds,
        n : Copies, img : Choices, want : Copies, run : SUBSET Extra, done : SUBSET Extra,
        dep : Rows \cup {NoRow}]
Refreshes == [pc : {"idle", "native", "sync", "prune"}, dok : BOOLEAN,
              dl : [Slugs -> ContainerStates], nl : [Slugs -> NativeStates],
              seen : [Slugs -> SUBSET Extra], todo : SUBSET (Kinds \X Slugs),
              stale : SUBSET Slugs]

\* The types of the variables: what the table, the daemon and each operation in
\* flight can hold.
TypeOK ==
  /\ dockerUp \in BOOLEAN
  /\ ctr \in [Slugs -> [Copies -> Containers]]
  /\ native \in [Slugs -> NativeStates]
  /\ row \in [Slugs -> Rows \cup {NoRow}]
  /\ copies \in [Slugs -> SUBSET Extra]
  /\ op \in [Users -> Ops]
  /\ rf \in [Refreshers -> Refreshes]

ChoiceChanges(s) ==
  /\ row[s] # NoRow
  /\ \/ row'[s] = NoRow
     \/ row'[s].custom # row[s].custom
     \/ row'[s].instances # row[s].instances

DeployOrRemoveActs(s) ==
  \E u \in Users : op[u].s = s /\ op[u].pc \in {"custom", "instances", "delete"} /\ op'[u] # op[u]

PrunedOnDockersWord(s) ==
  \E r \in Refreshers : s \in rf[r].stale \ rf'[r].stale /\ rf[r].dok /\ rf[r].dl[s] = "none"

\* The image and the number of copies a user chose are lost only when a deploy or
\* a removal of that service says so, or when the daemon answered a Refresh and
\* did not list the service: never because the daemon was down, and never by the
\* rewriting of rows that Stop, Start, Restart and Refresh do.
ChoiceLostOnlyOnEvidence ==
  [][\A s \in Slugs : ChoiceChanges(s) => DeployOrRemoveActs(s) \/ PrunedOnDockersWord(s)]_vars

Shown(s) == Has(s, 1) \/ native[s] # "none"

\* When Remove deletes a service's row, its first copy and every extra copy are
\* gone from the daemon: no container is left running with no row to show it.
RemoveIsComplete ==
  [][\A u \in Users : At(u, "delete") /\ row'[op[u].s] = NoRow /\ row[op[u].s] # NoRow
       => \A n \in Copies : op[u].kind = "docker" => ~Has(op[u].s, n)]_vars

\* Refresh never deletes the row of a service whose container is there, and with
\* it the image and the number of copies its user chose.
RefreshKeepsChoice ==
  [][\A r \in Refreshers, s \in Slugs :
       /\ s \in rf[r].stale \ rf'[r].stale
       /\ row[s] # NoRow /\ (row[s].custom # NoImage \/ row[s].instances > 1)
       => ~Shown(s)]_vars

\* Of operations one at a time: a row is inserted only for a unit that exists, whatever
\* step fails and whenever the app dies (manager.go:302, 366, 635).
RowsOnlyForUnits ==
  [][\A s \in NativeSlugs : row[s] = NoRow /\ row'[s] # NoRow => Shown(s)]_vars

\* False of the code (README): a service never runs twice, as a container and as a
\* native process.
OneRuntime == \A s \in Slugs : ~(ctr[s][1].st = "running" /\ native[s] = "running")

\* False of the code (README): copies of a service run only while its row is there to
\* show them, or its first container, which the next Refresh gives a row.
CopiesAreShown ==
  \A s \in Slugs : ListedCopies(s) # {} => row[s] # NoRow \/ Has(s, 1)

\* Fairness: the calls an operation makes return, the window refreshes again on every
\* backend event, of which each collection cycle sends one, and the store does not fail
\* for ever.
Fairness ==
  /\ \A u \in Users : WF_vars(UserStep(u))
  /\ \A r \in Refreshers : WF_vars(ListDocker(r) \/ RefreshStep(r))
  /\ \A s \in Slugs :
       /\ SF_vars(\E r \in Refreshers, k \in Kinds : SyncRow(r, k, s) /\ row' # row)
       /\ SF_vars(\E r \in Refreshers : PruneRow(r, s) /\ row' # row)

\* A container that settles in a state, with the daemon up and nobody operating on
\* its service, ends up shown in that state.
SettledContainerIsShown ==
  \A s \in Slugs, x \in ContainerStates \ {"none"} :
    <>[](dockerUp /\ ctr[s][1].st = x /\ native[s] = "none" /\ ~OpOn(s))
      => <>[](row[s] # NoRow /\ row[s].runtime = "docker" /\ row[s].status = x)

\* The row of a service that is gone from every runtime goes away for good, as long
\* as the daemon still lists some other service.
StaleRowGoes ==
  \A s \in Slugs, t \in Slugs :
    <>[](dockerUp /\ ~Shown(s) /\ ~OpOn(s) /\ Has(t, 1)) => <>[](row[s] = NoRow)
=============================================================================
