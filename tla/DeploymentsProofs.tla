------------------------- MODULE DeploymentsProofs -------------------------
(***************************************************************************)
(* Proofs about Deployments: its type invariant; that on a computer with no *)
(* native service a chosen image and copy count are lost only on evidence;  *)
(* that a removal that is alone leaves nothing; and that a row is inserted  *)
(* only for a unit that exists.                                             *)
(***************************************************************************)
EXTENDS Deployments, TLAPS

\* The constants' facts that type the empty operation and the empty listing.
LEMMA Defaults ==
  /\ AnySlug \in Slugs /\ AnyUser \in Users
  /\ 1 \in Copies /\ Extra \subseteq Copies /\ NoImage \in Choices
  /\ NoCtr \in Containers /\ NoCtr.st = "none"
  /\ IdleOp \in Ops
  /\ IdleRf \in Refreshes
<1>1. AnySlug \in Slugs /\ AnyUser \in Users
  BY SlugAssumption, UserAssumption DEF AnySlug, AnyUser
<1>2. 1 \in Copies /\ Extra \subseteq Copies /\ NoImage \in Choices
  BY InstanceAssumption DEF Copies, Extra, Choices
<1>3. NoCtr \in Containers /\ NoCtr.st = "none"
  BY <1>1, <1>2 DEF NoCtr, Containers, ContainerStates
<1>4. IdleOp \in Ops
  BY <1>1, <1>2 DEF IdleOp, Ops, Kinds
<1>5. IdleRf \in Refreshes
  BY DEF IdleRf, NoList, Refreshes, ContainerStates, NativeStates
<1> QED BY <1>1, <1>2, <1>3, <1>4, <1>5

\* An upsert of a legal status yields a legal row.
LEMMA UpsertType ==
  ASSUME NEW old \in Rows \cup {NoRow}, NEW kind \in Kinds, NEW status \in Statuses
  PROVE  /\ Upserted(old, kind, status) \in Rows
         /\ Upserted(old, kind, status).runtime = kind
  BY Defaults DEF Upserted, Rows

\* What copy n leads to stays within the type of operations.
LEMMA AfterCopyType ==
  ASSUME NEW o \in Ops
  PROVE  AfterCopy(o) \in Ops
<1>1. o.n < o.want => o.n + 1 \in Copies
  BY InstanceAssumption DEF Ops, Copies
<1>2. {"pull", "scaledown"} \subseteq CanFail
  BY DEF CanFail
<1>3. ASSUME NEW pc \in CanFail, NEW n \in Copies
      PROVE  [o EXCEPT !.n = n, !.pc = pc] \in Ops /\ [o EXCEPT !.pc = pc] \in Ops
  BY DEF Ops
<1> QED BY <1>1, <1>2, <1>3 DEF AfterCopy, Ops

\* TypeOK holds in the initial states.
LEMMA TypeInit == Init => TypeOK
  BY Defaults DEF Init, TypeOK, NativeStates

\* The writes the actions share keep the types of what they write.
LEMMA WriteTypes ==
  ASSUME TypeOK, NEW u \in Users, NEW s \in Slugs, NEW n \in Copies
  PROVE  /\ op[u] \in Ops
         /\ op[u].s \in Slugs /\ op[u].kind \in Kinds /\ op[u].n \in Copies
         /\ op[u].img \in Choices /\ op[u].want \in Copies
         /\ op[u].run \in SUBSET Extra /\ op[u].done \in SUBSET Extra
         /\ op[u].dep \in Rows \cup {NoRow}
         /\ \A pc \in CanFail \cup {"idle", "start", "read"} :
               Goto(u, pc) => op' \in [Users -> Ops]
         /\ End(u) => op' \in [Users -> Ops]
         /\ \A c \in Containers : SetCtr(s, n, c) => ctr' \in [Slugs -> [Copies -> Containers]]
         /\ \A st \in ContainerStates :
               ctr' = [ctr EXCEPT ![s][n].st = st] => ctr' \in [Slugs -> [Copies -> Containers]]
         /\ \A ns \in SUBSET Extra : setCopies(s, ns) => copies' \in [Slugs -> SUBSET Extra]
         /\ \A k \in Kinds, st \in Statuses :
               UpsertDeployment(s, k, st) => row' \in [Slugs -> Rows \cup {NoRow}]
         /\ DeleteDeployment(s) => row' \in [Slugs -> Rows \cup {NoRow}]
<1>1. op[u] \in Ops
  BY DEF TypeOK
<1>2. /\ op[u].s \in Slugs /\ op[u].kind \in Kinds /\ op[u].n \in Copies
      /\ op[u].img \in Choices /\ op[u].want \in Copies
      /\ op[u].run \in SUBSET Extra /\ op[u].done \in SUBSET Extra
      /\ op[u].dep \in Rows \cup {NoRow}
  BY <1>1 DEF Ops
<1>3. ASSUME NEW pc \in CanFail \cup {"idle", "start", "read"}, Goto(u, pc)
      PROVE  op' \in [Users -> Ops]
  <2>1. [op[u] EXCEPT !.pc = pc] \in Ops
    BY <1>1 DEF Ops
  <2> QED BY <1>3, <2>1 DEF Goto, TypeOK
<1>4. End(u) => op' \in [Users -> Ops]
  BY Defaults DEF End, TypeOK
<1>5. ASSUME NEW c \in Containers, SetCtr(s, n, c)
      PROVE  ctr' \in [Slugs -> [Copies -> Containers]]
  BY <1>5 DEF SetCtr, TypeOK
<1>6. ASSUME NEW st \in ContainerStates, ctr' = [ctr EXCEPT ![s][n].st = st]
      PROVE  ctr' \in [Slugs -> [Copies -> Containers]]
  <2>1. ctr[s][n] \in Containers
    BY DEF TypeOK
  <2>2. [ctr[s][n] EXCEPT !.st = st] \in Containers
    BY <2>1 DEF Containers
  <2> QED BY <1>6, <2>2 DEF TypeOK
<1>7. ASSUME NEW ns \in SUBSET Extra, setCopies(s, ns)
      PROVE  copies' \in [Slugs -> SUBSET Extra]
  BY <1>7 DEF setCopies, TypeOK
<1>8. ASSUME NEW k \in Kinds, NEW st \in Statuses, UpsertDeployment(s, k, st)
      PROVE  row' \in [Slugs -> Rows \cup {NoRow}]
  BY <1>8, UpsertType DEF UpsertDeployment, TypeOK
<1>9. DeleteDeployment(s) => row' \in [Slugs -> Rows \cup {NoRow}]
  BY DEF DeleteDeployment, TypeOK
<1> QED BY <1>1, <1>2, <1>3, <1>4, <1>5, <1>6, <1>7, <1>8, <1>9

\* An operation that is about to write a row back has read one.
ReadFirst == \A u \in Users : op[u].pc = "write" => op[u].dep # NoRow

\* Every step of an operation keeps the types.
LEMMA TypeUser ==
  ASSUME TypeOK, ReadFirst, NEW u \in Users, UserStep(u)
  PROVE  TypeOK'
<1> DEFINE o == op[u]
<1> DEFINE s == op[u].s
<1> DEFINE n == op[u].n
<1>t. /\ o \in Ops /\ s \in Slugs /\ n \in Copies /\ o.kind \in Kinds /\ o.img \in Choices
      /\ o.want \in Copies /\ o.run \in SUBSET Extra /\ o.done \in SUBSET Extra
      /\ o.dep \in Rows \cup {NoRow} /\ 1 \in Copies
  BY WriteTypes, Defaults
<1>g. \A pc \in CanFail \cup {"idle", "start", "read"} : Goto(u, pc) => op' \in [Users -> Ops]
  BY WriteTypes, <1>t
<1>e. End(u) => op' \in [Users -> Ops]
  BY WriteTypes, <1>t
<1>c. \A m \in Copies : SetCtr(s, m, NoCtr) => ctr' \in [Slugs -> [Copies -> Containers]]
  BY WriteTypes, Defaults, <1>t
<1>x. \A m \in Copies, st \in ContainerStates :
         ctr' = [ctr EXCEPT ![s][m].st = st] => ctr' \in [Slugs -> [Copies -> Containers]]
  BY WriteTypes, <1>t
<1>k. \A ns \in SUBSET Extra : setCopies(s, ns) => copies' \in [Slugs -> SUBSET Extra]
  BY WriteTypes, <1>t
<1>1. CASE ListCopies(u)
  <2>1. ListedCopies(s) \in SUBSET Extra
    BY DEF ListedCopies
  <2>2. ASSUME NEW pc \in {"pull", "rmcopy"}, NEW run \in SUBSET Extra
        PROVE  [o EXCEPT !.run = run, !.pc = pc] \in Ops
    BY <1>t DEF Ops, CanFail
  <2> QED BY <1>1, <2>1, <2>2 DEF ListCopies, TypeOK
<1>2. CASE Pull(u)
  BY <1>2, <1>g DEF Pull, TypeOK, CanFail
<1>3. CASE Replace(u)
  <2>1. ctr' \in [Slugs -> [Copies -> Containers]]
    BY <1>3, <1>t, <1>c, <1>x DEF Replace, ContainerStates
  <2> QED BY <1>3, <2>1, <1>g DEF Replace, TypeOK, CanFail
<1>4. CASE Create(u)
  <2>1. [st |-> "created", img |-> o.img, by |-> u] \in Containers
    BY <1>t DEF Containers, ContainerStates
  <2>2. ctr' \in [Slugs -> [Copies -> Containers]]
    BY <1>4, <1>t, <2>1, WriteTypes DEF Create
  <2> QED BY <1>4, <2>2, <1>g DEF Create, TypeOK
<1>5. CASE StartCreated(u)
  <2>1. ctr' \in [Slugs -> [Copies -> Containers]]
    BY Zenon, <1>5, <1>t, <1>x DEF StartCreated, ContainerStates
  <2>2. [o EXCEPT !.pc = "upsert"] \in Ops
    BY <1>t DEF Ops, CanFail
  <2>3. n # 1 => [o EXCEPT !.done = @ \cup {n}] \in Ops
    <3>1. n # 1 => n \in Extra
      BY <1>t, InstanceAssumption DEF Copies, Extra
    <3>2. ASSUME NEW d \in SUBSET Extra PROVE [o EXCEPT !.done = d] \in Ops
      BY <1>t DEF Ops
    <3> QED BY <3>1, <3>2, <1>t
  <2>4. op' \in [Users -> Ops]
    BY <1>5, <2>2, <2>3, AfterCopyType DEF StartCreated, TypeOK
  <2>5. UNCHANGED <<dockerUp, native, row, copies, rf>>
    BY <1>5 DEF StartCreated
  <2> QED BY <2>1, <2>4, <2>5 DEF TypeOK
<1>6. CASE StartFails(u)
  <2>1. ctr' \in [Slugs -> [Copies -> Containers]] /\ copies' \in [Slugs -> SUBSET Extra]
    BY <1>6, <1>t, <1>c, <1>k DEF StartFails, TypeOK
  <2> QED BY <1>6, <2>1, <1>e DEF StartFails, TypeOK
<1>7. CASE DeployNative(u)
  <2>1. native' \in [Slugs -> NativeStates]
    BY <1>7, <1>t DEF DeployNative, TypeOK, NativeStates
  <2>2. op' \in [Users -> Ops]
    BY <1>7, <1>g, <1>e DEF DeployNative, CanFail
  <2> QED BY <1>7, <2>1, <2>2 DEF DeployNative, TypeOK
<1>8. CASE RecordRow(u)
  <2>1. row' \in [Slugs -> Rows \cup {NoRow}]
    BY <1>8, <1>t, WriteTypes DEF RecordRow, Statuses
  <2> QED BY <1>8, <2>1, <1>g DEF RecordRow, TypeOK, CanFail
<1>9. CASE RecordImage(u)
  <2>1. ASSUME NEW r \in Rows PROVE [r EXCEPT !.custom = o.img] \in Rows
    BY <1>t DEF Rows
  <2>2. row' \in [Slugs -> Rows \cup {NoRow}]
    BY <1>9, <1>t, <2>1 DEF RecordImage, SetCustomImage, TypeOK
  <2> QED BY <1>9, <2>2, <1>g DEF RecordImage, TypeOK, CanFail
<1>10. CASE RecordInstances(u)
  <2>1. ASSUME NEW r \in Rows PROVE [r EXCEPT !.instances = o.want] \in Rows
    BY <1>t DEF Rows
  <2>2. row' \in [Slugs -> Rows \cup {NoRow}]
    BY <1>10, <1>t, <2>1 DEF RecordInstances, SetInstances, TypeOK
  <2>3. op' \in [Users -> Ops]
    BY <1>10, <1>t, AfterCopyType DEF RecordInstances, TypeOK
  <2> QED BY <1>10, <2>2, <2>3 DEF RecordInstances, TypeOK
<1>11. CASE ScaleDown(u)
  <2>1. ASSUME NEW m PROVE [o EXCEPT !.run = o.run \ {m}] \in Ops
    BY <1>t DEF Ops
  <2>2. op' \in [Users -> Ops]
    BY ZenonT(60), <1>11, <2>1, <1>e DEF ScaleDown, TypeOK
  <2>3. ctr' \in [Slugs -> [Copies -> Containers]]
    BY <1>11, <1>t, <1>c, Defaults DEF ScaleDown, TypeOK
  <2>4. copies' \in [Slugs -> SUBSET Extra]
    BY <1>11, <1>t, <1>k DEF ScaleDown, TypeOK
  <2> QED BY <1>11, <2>2, <2>3, <2>4 DEF ScaleDown, TypeOK
<1>12. CASE Call(u)
  <2>1. ctr' \in [Slugs -> [Copies -> Containers]]
    BY <1>12, <1>t, <1>x DEF Call, TypeOK, ContainerStates
  <2>2. native' \in [Slugs -> NativeStates]
    BY <1>12, <1>t DEF Call, TypeOK, NativeStates
  <2> QED BY <1>12, <2>1, <2>2, <1>g DEF Call, TypeOK
<1>13. CASE ReadRow(u)
  <2>1. ASSUME NEW d \in Rows \cup {NoRow} PROVE [o EXCEPT !.dep = d, !.pc = "write"] \in Ops
    BY <1>t DEF Ops, CanFail
  <2>2. GetDeployment(o.s) \subseteq Rows \cup {NoRow}
    BY <1>t DEF GetDeployment, TypeOK
  <2>3. PICK d \in GetDeployment(o.s) : End(u) \/ op' = [op EXCEPT ![u].dep = d, ![u].pc = "write"]
    BY <1>13 DEF ReadRow
  <2>4. op' = [op EXCEPT ![u].dep = d, ![u].pc = "write"] => op' = [op EXCEPT ![u] = [o EXCEPT !.dep = d, !.pc = "write"]]
    BY <1>t DEF TypeOK
  <2>5. op' \in [Users -> Ops]
    <3>1. [o EXCEPT !.dep = d, !.pc = "write"] \in Ops BY <2>1, <2>2
    <3> DEFINE new == [o EXCEPT !.dep = d, !.pc = "write"]
    <3>2. new \in Ops /\ (End(u) \/ op' = [op EXCEPT ![u] = new]) BY <3>1, <2>3, <2>4
    <3> HIDE DEF new
    <3>3. CASE op' = [op EXCEPT ![u] = new] BY <3>2, <3>3 DEF TypeOK
    <3>4. CASE End(u) BY <3>4, <1>e
    <3> QED BY <3>2, <3>3, <3>4
  <2> QED BY <1>13, <2>5 DEF ReadRow, TypeOK
<1>14. CASE WriteRow(u)
  <2>1. o.dep \in Rows
    BY <1>14, <1>t DEF WriteRow, At, ReadFirst
  <2>2. o.dep.runtime \in Kinds
    BY <2>1 DEF Rows
  <2>3. row' \in [Slugs -> Rows \cup {NoRow}]
    BY <1>14, <1>t, <2>2, WriteTypes DEF WriteRow, Statuses
  <2> QED BY <1>14, <2>3, <1>e DEF WriteRow, TypeOK
<1>15. CASE RemoveCopies(u)
  <2>1. ASSUME NEW m PROVE [o EXCEPT !.run = o.run \ {m}] \in Ops
    BY <1>t DEF Ops
  <2>2. op' \in [Users -> Ops]
    BY ZenonT(60), <1>15, <2>1, <1>g DEF RemoveCopies, TypeOK, CanFail
  <2>3. ctr' \in [Slugs -> [Copies -> Containers]]
    BY <1>15, <1>t, <1>c, Defaults DEF RemoveCopies, TypeOK
  <2> QED BY <1>15, <2>2, <2>3 DEF RemoveCopies, TypeOK
<1>16. CASE RemoveUnit(u)
  <2>1. ctr' \in [Slugs -> [Copies -> Containers]]
    BY <1>16, <1>t, <1>c DEF RemoveUnit, TypeOK
  <2>2. native' \in [Slugs -> NativeStates]
    BY <1>16, <1>t DEF RemoveUnit, TypeOK, NativeStates
  <2>3. op' \in [Users -> Ops] /\ copies' \in [Slugs -> SUBSET Extra]
    BY <1>16, <1>g, <1>e, <1>k DEF RemoveUnit, TypeOK, CanFail
  <2> QED BY <1>16, <2>1, <2>2, <2>3 DEF RemoveUnit, TypeOK
<1>17. CASE DeleteRow(u)
  <2>1. row' \in [Slugs -> Rows \cup {NoRow}]
    BY <1>17, <1>t, WriteTypes DEF DeleteRow
  <2> QED BY <1>17, <2>1, <1>e DEF DeleteRow, TypeOK
<1>18. CASE Fails(u)
  <2>1. copies' \in [Slugs -> SUBSET Extra]
    BY <1>18, <1>t, <1>k DEF Fails, GivesUp, TypeOK
  <2> QED BY <1>18, <2>1, <1>e DEF Fails, GivesUp, TypeOK
<1>19. CASE StopsThenFails(u)
  <2>1. copies' \in [Slugs -> SUBSET Extra]
    BY <1>19, <1>t, <1>k DEF StopsThenFails, GivesUp, TypeOK
  <2>2. NextToGo(op[u]) \subseteq Copies
    BY DEF NextToGo
  <2>3. ctr' \in [Slugs -> [Copies -> Containers]]
    BY <1>19, <1>t, <1>x, <2>2 DEF StopsThenFails, TypeOK, ContainerStates
  <2>4. native' \in [Slugs -> NativeStates]
    BY <1>19, <1>t DEF StopsThenFails, TypeOK, NativeStates
  <2> QED BY <1>19, <2>1, <2>3, <2>4, <1>e DEF StopsThenFails, GivesUp, TypeOK
<1> QED BY <1>1, <1>2, <1>3, <1>4, <1>5, <1>6, <1>7, <1>8, <1>9, <1>10, <1>11, <1>12, <1>13,
          <1>14, <1>15, <1>16, <1>17, <1>18, <1>19 DEF UserStep, Progress

\* Starting an operation keeps the types.
LEMMA TypeBegin ==
  ASSUME TypeOK, NEW u \in Users, NEW s \in Slugs, Begin(u, s)
  PROVE  TypeOK'
<1>d. ASSUME NEW dep \in GetDeployment(s)
      PROVE  /\ RecordedImage(dep) \in Choices /\ RecordedCopies(dep) \in Copies
             /\ ProviderForSlug(dep) \in Kinds
  BY Defaults DEF GetDeployment, RecordedImage, RecordedCopies, ProviderForSlug, TypeOK, Rows, Kinds
<1> PICK dep \in GetDeployment(s) :
      \/ \E image \in Choices \cup {Keep}, want \in 0..MaxInstances : BeginDeploy(u, s, dep, image, want)
      \/ \E verb \in {"stop", "start", "restart"} : BeginLifecycle(u, s, dep, verb)
      \/ BeginRemove(u, s, dep)
  BY DEF Begin
<1>r. RecordedImage(dep) \in Choices /\ RecordedCopies(dep) \in Copies /\ ProviderForSlug(dep) \in Kinds
  BY <1>d
<1>1. ASSUME NEW image \in Choices \cup {Keep}, NEW want \in 0..MaxInstances,
             BeginDeploy(u, s, dep, image, want)
      PROVE  TypeOK'
  <2> DEFINE custom == IF image = Keep THEN RecordedImage(dep) ELSE image
  <2> DEFINE count == IF want # 0 THEN want
                      ELSE IF RecordedCopies(dep) > Limit[s] THEN Limit[s] ELSE RecordedCopies(dep)
  <2>1. custom \in Choices
    BY <1>r
  <2>2. count \in Copies
    BY <1>r, LimitAssumption, InstanceAssumption DEF Copies
  <2>3. DeployKind(s, custom) \in Kinds
    BY DEF DeployKind, Kinds
  <2>4. ASSUME NEW pc \in {"copies", "pull"}, NEW kind \in Kinds, NEW img \in Choices,
               NEW c \in Copies
        PROVE  [IdleOp EXCEPT !.pc = pc, !.verb = "deploy", !.s = s, !.kind = kind,
                              !.img = img, !.want = c] \in Ops
    BY Defaults DEF Ops, CanFail
  <2> HIDE DEF custom, count
  <2>5. op' \in [Users -> Ops]
    BY <1>1, <2>1, <2>2, <2>3, <2>4 DEF BeginDeploy, TypeOK, custom, count
  <2> QED BY <1>1, <2>5 DEF BeginDeploy, TypeOK
<1>2. ASSUME NEW verb \in {"stop", "start", "restart"}, BeginLifecycle(u, s, dep, verb)
      PROVE  TypeOK'
  <2>1. [IdleOp EXCEPT !.pc = "call", !.verb = verb, !.s = s, !.kind = ProviderForSlug(dep)] \in Ops
    BY Defaults, <1>r DEF Ops, CanFail
  <2> QED BY <1>2, <2>1 DEF BeginLifecycle, TypeOK
<1>3. CASE BeginRemove(u, s, dep)
  <2>1. ASSUME NEW pc \in {"copies", "rm"}, NEW kind \in Kinds
        PROVE  [IdleOp EXCEPT !.pc = pc, !.verb = "remove", !.s = s, !.kind = kind] \in Ops
    BY Defaults DEF Ops, CanFail
  <2> QED BY <1>3, <1>r, <2>1 DEF BeginRemove, TypeOK
<1> QED BY <1>1, <1>2, <1>3

\* A Refresh rewrites only the rows of what it listed.
TodoListed ==
  \A r \in Refreshers, s \in Slugs :
    /\ <<"docker", s>> \in rf[r].todo => rf[r].dl[s] # "none"
    /\ <<"native", s>> \in rf[r].todo => rf[r].nl[s] # "none"

\* Refresh keeps the types.
LEMMA TypeRefresh ==
  ASSUME TypeOK, TodoListed, Refresh
  PROVE  TypeOK'
<1> PICK r \in Refreshers : ListDocker(r) \/ RefreshStep(r)
  BY DEF Refresh
<1>t. rf[r] \in Refreshes
  BY DEF TypeOK
<1>1. CASE ListDocker(r)
  <2>1. [s \in Slugs |-> ctr[s][1].st] \in [Slugs -> ContainerStates]
    BY Defaults DEF TypeOK, Containers
  <2>2. [s \in Slugs |-> ListedCopies(s)] \in [Slugs -> SUBSET Extra]
    BY DEF ListedCopies
  <2>3. ASSUME NEW dl \in [Slugs -> ContainerStates], NEW seen \in [Slugs -> SUBSET Extra]
        PROVE  /\ [IdleRf EXCEPT !.pc = "native", !.dok = TRUE, !.dl = dl, !.seen = seen] \in Refreshes
               /\ [IdleRf EXCEPT !.pc = "native"] \in Refreshes
    BY Defaults DEF Refreshes
  <2> QED BY <1>1, <2>1, <2>2, <2>3 DEF ListDocker, TypeOK
<1>2. CASE ListNative(r)
  <2> DEFINE todo == {<<"docker", s>> : s \in {x \in Slugs : rf[r].dl[x] # "none"}}
                \cup {<<"native", s>> : s \in {x \in Slugs : native[x] # "none"}}
  <2>1. todo \in SUBSET (Kinds \X Slugs)
    BY DEF Kinds
  <2>2. ASSUME NEW td \in SUBSET (Kinds \X Slugs)
        PROVE  [rf[r] EXCEPT !.pc = "sync", !.nl = native, !.todo = td] \in Refreshes
    BY <1>t DEF Refreshes, TypeOK
  <2> HIDE DEF todo
  <2>3. rf' = [rf EXCEPT ![r] = [rf[r] EXCEPT !.pc = "sync", !.nl = native, !.todo = todo]]
    BY <1>2 DEF ListNative, todo
  <2> QED BY ZenonT(60), <1>2, <2>1, <2>2, <2>3 DEF ListNative, TypeOK
<1>3. ASSUME NEW k \in Kinds, NEW s \in Slugs, SyncRow(r, k, s)
      PROVE  TypeOK'
  <2>1. rf[r].todo \in SUBSET (Kinds \X Slugs) /\ rf[r].dl \in [Slugs -> ContainerStates]
        /\ rf[r].nl \in [Slugs -> NativeStates]
    BY <1>t DEF Refreshes
  <2>2. [rf[r] EXCEPT !.todo = rf[r].todo \ {<<k, s>>}] \in Refreshes
    BY <1>t DEF Refreshes
  <2>3. (IF k = "native" THEN rf[r].nl[s] ELSE rf[r].dl[s]) \in Statuses
    BY <1>3, <2>1 DEF SyncRow, TodoListed, Kinds, Statuses, ContainerStates, NativeStates
  <2>4. row' \in [Slugs -> Rows \cup {NoRow}]
    BY <1>3, <2>3, UpsertType DEF SyncRow, UpsertDeployment, TypeOK
  <2> QED BY <1>3, <2>2, <2>4 DEF SyncRow, TypeOK
<1>4. CASE EndSync(r)
  <2>1. rf[r].seen \in [Slugs -> SUBSET Extra]
    BY <1>t DEF Refreshes
  <2>2. ASSUME NEW st \in SUBSET Slugs
        PROVE  [rf[r] EXCEPT !.pc = "prune", !.stale = st] \in Refreshes
    BY <1>t DEF Refreshes
  <2>3. (IF Total(r) THEN {s \in Slugs : row[s] # NoRow} \ Active(r) ELSE {}) \in SUBSET Slugs
    OBVIOUS
  <2> QED BY <1>4, <2>1, <2>2, <2>3 DEF EndSync, TypeOK
<1>5. ASSUME NEW s \in Slugs, PruneRow(r, s)
      PROVE  TypeOK'
  <2>1. [rf[r] EXCEPT !.stale = rf[r].stale \ {s}] \in Refreshes
    BY <1>t DEF Refreshes
  <2> QED BY <1>5, <2>1 DEF PruneRow, DeleteDeployment, TypeOK
<1>6. CASE EndRefresh(r)
  BY <1>6, Defaults DEF EndRefresh, TypeOK
<1> QED BY <1>1, <1>2, <1>3, <1>4, <1>5, <1>6 DEF RefreshStep

\* What happens around the manager keeps the types.
LEMMA TypeAround ==
  ASSUME TypeOK, Around
  PROVE  TypeOK'
<1>1. CASE DaemonToggles
  BY <1>1 DEF DaemonToggles, TypeOK
<1>2. CASE AppRestart
  BY <1>2, Defaults DEF AppRestart, TypeOK
<1>3. ASSUME NEW s \in Slugs, Exits(s)
      PROVE  TypeOK'
  <2>1. ctr[s][1] \in Containers
    BY Defaults DEF TypeOK
  <2>2. [ctr[s][1] EXCEPT !.st = "exited"] \in Containers
    BY <2>1 DEF Containers, ContainerStates
  <2>3. ctr' \in [Slugs -> [Copies -> Containers]]
    <3>1. CASE ctr' = [ctr EXCEPT ![s][1].st = "exited"]
      BY <3>1, <2>2, Defaults DEF TypeOK
    <3> QED BY <1>3, <3>1 DEF Exits, TypeOK
  <2>4. native' \in [Slugs -> NativeStates]
    BY <1>3 DEF Exits, TypeOK, NativeStates
  <2> QED BY <1>3, <2>3, <2>4 DEF Exits, TypeOK
<1>4. ASSUME NEW s \in Slugs, NEW n \in Copies, Vanish(s, n)
      PROVE  TypeOK'
  BY <1>4, Defaults DEF Vanish, SetCtr, TypeOK
<1> QED BY <1>1, <1>2, <1>3, <1>4 DEF Around

\* ReadFirst is kept by every step: only ReadRow goes to "write", with the row it read.
LEMMA ReadFirstStep ==
  ASSUME TypeOK, ReadFirst, [Next]_vars
  PROVE  ReadFirst'
<1>i. IdleOp.pc = "idle"
  BY DEF IdleOp
<1>1. ASSUME NEW u \in Users, UserStep(u)
      PROVE  ReadFirst'
  <2>t. op[u] \in Ops /\ op \in [Users -> Ops]
    BY DEF TypeOK
  <2>1. ASSUME op'[u].pc # "write" \/ op'[u].dep # NoRow,
               \A v \in Users \ {u} : op'[v] = op[v]
        PROVE  ReadFirst'
    BY <2>1 DEF ReadFirst
  <2>2. \A v \in Users \ {u} : op'[v] = op[v]
    BY <1>1, <2>t DEF UserStep, Progress, ListCopies, Pull, Replace, Create, StartCreated, StartFails,
       DeployNative, RecordRow, RecordImage, RecordInstances, ScaleDown, Call, ReadRow, WriteRow,
       RemoveCopies, RemoveUnit, DeleteRow, Fails, StopsThenFails, GivesUp, Goto, End
  <2>3. ASSUME NEW pc, pc # "write", Goto(u, pc)
        PROVE  op'[u].pc # "write"
    BY <2>3, <2>t DEF Goto, Ops
  <2>4. End(u) => op'[u].pc # "write"
    BY <2>t, <1>i DEF End
  <2>5. ASSUME NEW x \in Ops, x.pc # "write"
        PROVE  AfterCopy(x).pc # "write"
    BY <2>5 DEF AfterCopy, Ops
  <2>6. CASE ReadRow(u)
    <3>1. End(u) \/ op'[u].dep # NoRow
      BY <2>6, <2>t DEF ReadRow, Ops
    <3> QED BY <3>1, <2>1, <2>2, <2>4
  <2>7. CASE ListCopies(u)
    <3>1. op'[u].pc # "write"
      BY <2>7, <2>t DEF ListCopies, Ops
    <3> QED BY <3>1, <2>1, <2>2
  <2>8. CASE StartCreated(u)
    <3>1. [op[u] EXCEPT !.done = @ \cup {op[u].n}].pc = "start"
      BY <2>8, <2>t DEF StartCreated, At, Ops
    <3>2. [op[u] EXCEPT !.pc = "upsert"].pc # "write"
      BY <2>t DEF Ops
    <3>3. AfterCopy([op[u] EXCEPT !.done = @ \cup {op[u].n}]).pc # "write"
      BY <3>1, <2>t DEF AfterCopy, Ops
    <3>4. op'[u].pc # "write"
      BY <2>8, <2>t, <3>2, <3>3 DEF StartCreated
    <3> QED BY <3>4, <2>1, <2>2
  <2>9. CASE RecordInstances(u)
    <3>1. op'[u].pc # "write"
      BY <2>9, <2>t, <2>5 DEF RecordInstances, At
    <3> QED BY <3>1, <2>1, <2>2
  <2>10. CASE ScaleDown(u)
    <3>1. op'[u].pc # "write"
      BY <2>10, <2>t, <2>4 DEF ScaleDown, At, Ops
    <3> QED BY <3>1, <2>1, <2>2
  <2>11. CASE RemoveCopies(u)
    <3>1. op'[u].pc # "write"
      BY <2>11, <2>t, <2>3 DEF RemoveCopies, At, Ops
    <3> QED BY <3>1, <2>1, <2>2
  <2>12. CASE Pull(u) \/ Replace(u) \/ Create(u) \/ StartFails(u) \/ DeployNative(u)
    BY <2>12, <2>1, <2>2, <2>3, <2>4 DEF Pull, Replace, Create, StartFails, DeployNative
  <2>13. CASE RecordRow(u) \/ RecordImage(u) \/ Call(u) \/ WriteRow(u)
    BY <2>13, <2>1, <2>2, <2>3, <2>4 DEF RecordRow, RecordImage, Call, WriteRow
  <2>14. CASE RemoveUnit(u) \/ DeleteRow(u) \/ Fails(u) \/ StopsThenFails(u)
    BY <2>14, <2>1, <2>2, <2>3, <2>4 DEF RemoveUnit, DeleteRow, Fails, StopsThenFails, GivesUp
  <2> QED BY <1>1, <2>6, <2>7, <2>8, <2>9, <2>10, <2>11, <2>12, <2>13, <2>14 DEF UserStep, Progress
<1>2. ASSUME NEW u \in Users, NEW s \in Slugs, Begin(u, s)
      PROVE  ReadFirst'
  <2> PICK dep \in GetDeployment(s) :
        \/ \E image \in Choices \cup {Keep}, want \in 0..MaxInstances : BeginDeploy(u, s, dep, image, want)
        \/ \E verb \in {"stop", "start", "restart"} : BeginLifecycle(u, s, dep, verb)
        \/ BeginRemove(u, s, dep)
    BY <1>2 DEF Begin
  <2>1. op \in [Users -> Ops] /\ IdleOp \in Ops
    BY Defaults DEF TypeOK
  <2>2. ASSUME NEW image \in Choices \cup {Keep}, NEW want \in 0..MaxInstances,
               BeginDeploy(u, s, dep, image, want)
        PROVE  op'[u].pc # "write" /\ \A v \in Users \ {u} : op'[v] = op[v]
    BY <2>1, <2>2 DEF BeginDeploy, Ops
  <2>3. ASSUME NEW verb, BeginLifecycle(u, s, dep, verb)
        PROVE  op'[u].pc # "write" /\ \A v \in Users \ {u} : op'[v] = op[v]
    BY <2>1, <2>3 DEF BeginLifecycle, Ops
  <2>4. BeginRemove(u, s, dep) => op'[u].pc # "write" /\ \A v \in Users \ {u} : op'[v] = op[v]
    BY <2>1 DEF BeginRemove, Ops
  <2>5. op'[u].pc # "write" /\ \A v \in Users \ {u} : op'[v] = op[v]
    BY <2>2, <2>3, <2>4
  <2> QED BY <2>5 DEF ReadFirst
<1>3. CASE AppRestart
  BY <1>3, <1>i DEF AppRestart, ReadFirst
<1>4. CASE UNCHANGED op
  BY <1>4 DEF ReadFirst
<1> QED BY ZenonT(60), <1>1, <1>2, <1>3, <1>4 DEF Next, Operation, Refresh, Around, RefreshStep, CopyCall,
          ListDocker, ListNative, SyncRow, EndSync, PruneRow, EndRefresh, DaemonToggles, Vanish,
          Exits, vars

\* TodoListed is kept by every step: only ListNative fills a Refresh's work list.
LEMMA TodoListedStep ==
  ASSUME TypeOK, TodoListed, [Next]_vars
  PROVE  TodoListed'
<1>i. IdleRf \in Refreshes /\ IdleRf.todo = {}
  BY Defaults DEF IdleRf
<1>1. CASE Refresh
  <2> PICK r \in Refreshers : ListDocker(r) \/ RefreshStep(r)
    BY <1>1 DEF Refresh
  <2>t. rf \in [Refreshers -> Refreshes] /\ rf[r] \in Refreshes
    BY DEF TypeOK
  <2>1. CASE ListDocker(r)
    <3>1. rf'[r].todo = {} /\ \A q \in Refreshers \ {r} : rf'[q] = rf[q]
      BY <2>1, <2>t, <1>i DEF ListDocker, Refreshes
    <3> QED BY <3>1 DEF TodoListed
  <2>2. CASE ListNative(r)
    <3>1. /\ rf'[r].dl = rf[r].dl /\ rf'[r].nl = native
          /\ \A s \in Slugs : <<"docker", s>> \in rf'[r].todo => rf[r].dl[s] # "none"
          /\ \A s \in Slugs : <<"native", s>> \in rf'[r].todo => native[s] # "none"
      BY <2>2, <2>t DEF ListNative, Refreshes
    <3>2. \A q \in Refreshers \ {r} : rf'[q] = rf[q]
      BY <2>2, <2>t DEF ListNative
    <3> QED BY <3>1, <3>2 DEF TodoListed
  <2>3. CASE EndRefresh(r)
    BY <2>3, <2>t, <1>i DEF EndRefresh, TodoListed
  <2> DEFINE Shrinks == /\ rf'[r].dl = rf[r].dl /\ rf'[r].nl = rf[r].nl
                        /\ rf'[r].todo \subseteq rf[r].todo
                        /\ \A q \in Refreshers \ {r} : rf'[q] = rf[q]
  <2>s. Shrinks => TodoListed'
    BY ZenonT(60) DEF TodoListed
  <2>4. ASSUME NEW s \in Slugs, PruneRow(r, s) PROVE Shrinks
    BY <2>4, <2>t DEF PruneRow, Refreshes
  <2>6. ASSUME NEW s \in Slugs, NEW k \in Kinds, SyncRow(r, k, s) PROVE Shrinks
    BY <2>6, <2>t DEF SyncRow, Refreshes
  <2>5. ASSUME EndSync(r) PROVE Shrinks
    BY <2>5, <2>t DEF EndSync, Refreshes
  <2> HIDE DEF Shrinks
  <2> QED BY <2>1, <2>2, <2>3, <2>4, <2>5, <2>6, <2>s DEF RefreshStep
<1>2. CASE AppRestart
  BY <1>2, <1>i DEF AppRestart, TodoListed
<1>3. CASE UNCHANGED rf
  BY ZenonT(60), <1>3 DEF TodoListed
<1>4. ASSUME NEW u \in Users, UserStep(u)
      PROVE  UNCHANGED rf
  BY <1>4 DEF UserStep, Progress, ListCopies, Pull, Replace, Create, StartCreated, StartFails,
     DeployNative, RecordRow, RecordImage, RecordInstances, ScaleDown, Call, ReadRow, WriteRow,
     RemoveCopies, RemoveUnit, DeleteRow, Fails, StopsThenFails, GivesUp
<1>5. ASSUME NEW u \in Users, NEW s \in Slugs, Begin(u, s)
      PROVE  UNCHANGED rf
  BY <1>5 DEF Begin, BeginDeploy, BeginLifecycle, BeginRemove
<1> QED BY <1>1, <1>2, <1>3, <1>4, <1>5 DEF Next, Operation, Around, CopyCall, DaemonToggles,
          Vanish, Exits, vars

\* The invariant that types the table: TypeOK with the two facts it rests on.
TypeInv == TypeOK /\ ReadFirst /\ TodoListed

\* TypeInv is kept by every step.
LEMMA TypeStep ==
  ASSUME TypeInv, [Next]_vars
  PROVE  TypeInv'
<1>1. TypeOK'
  <2>1. ASSUME NEW s \in Slugs, NEW n \in Extra, NEW verb, CopyCall(s, n, verb)
        PROVE  TypeOK'
    <3>1. n \in Copies /\ ctr[s][n] \in Containers
      BY Defaults DEF TypeInv, TypeOK
    <3>2. ASSUME NEW st \in ContainerStates PROVE [ctr[s][n] EXCEPT !.st = st] \in Containers
      BY <3>1 DEF Containers
    <3>3. ctr' \in [Slugs -> [Copies -> Containers]]
      BY <2>1, <3>1, <3>2 DEF CopyCall, TypeInv, TypeOK, ContainerStates
    <3> QED BY <2>1, <3>3 DEF CopyCall, TypeInv, TypeOK
  <2>2. CASE Operation
    BY <2>1, <2>2, TypeUser, TypeBegin DEF Operation, TypeInv
  <2>3. CASE Refresh
    BY <2>3, TypeRefresh DEF TypeInv
  <2>4. CASE Around
    BY <2>4, TypeAround DEF TypeInv
  <2>5. CASE UNCHANGED vars
    BY <2>5 DEF vars, TypeInv, TypeOK
  <2> QED BY <2>2, <2>3, <2>4, <2>5 DEF Next
<1>2. ReadFirst' /\ TodoListed'
  BY ReadFirstStep, TodoListedStep DEF TypeInv
<1> QED BY <1>1, <1>2 DEF TypeInv

\* Every reachable state is typed: in particular no Refresh ever writes a row for a
\* service it did not list, and no operation writes back a row it did not read.
THEOREM TypeCorrect == Spec => []TypeOK
<1>1. Init => TypeInv
  <2>1. Init => ReadFirst /\ TodoListed
    BY DEF Init, ReadFirst, TodoListed, IdleOp, IdleRf
  <2> QED BY <2>1, TypeInit DEF TypeInv
<1>2. TypeInv /\ [Next]_vars => TypeInv'
  BY TypeStep
<1>3. TypeInv => TypeOK
  BY DEF TypeInv
<1> QED BY <1>1, <1>2, <1>3, PTL DEF Spec

----------------------------------------------------------------------------
(* With no native service, nothing is ever native, and so a Refresh that     *)
(* lists anything at all has been answered by the daemon.                    *)

NoNative == NativeSlugs = {}

DockerUnits == \A s \in Slugs : native[s] = "none"
DockerRows  == \A s \in Slugs : row[s] # NoRow => row[s].runtime = "docker"
DockerOps   ==
  \A u \in Users : /\ op[u].kind = "docker"
                   /\ op[u].dep # NoRow => op[u].dep.runtime = "docker"
DockerLists == \A r \in Refreshers, s \in Slugs :
                 rf[r].nl[s] = "none" /\ <<"native", s>> \notin rf[r].todo
DockerOnly == DockerUnits /\ DockerRows /\ DockerOps /\ DockerLists

\* What a Refresh holds: an unanswered listing is empty, and what it will delete
\* the daemon did not list.
Evidence ==
  \A r \in Refreshers :
    /\ ~rf[r].dok => \A s \in Slugs : rf[r].dl[s] = "none" /\ rf[r].seen[s] = {}
    /\ \A s \in rf[r].stale : rf[r].dok /\ rf[r].dl[s] = "none"

\* No step makes anything native.
LEMMA DockerOnlyStep ==
  ASSUME NoNative, TypeInv, DockerOnly, [Next]_vars
  PROVE  DockerOnly'
<1>t. /\ op \in [Users -> Ops] /\ rf \in [Refreshers -> Refreshes]
      /\ row \in [Slugs -> Rows \cup {NoRow}] /\ native \in [Slugs -> NativeStates]
  BY DEF TypeInv, TypeOK
<1>u. ASSUME NEW u \in Users
      PROVE  /\ op[u] \in Ops /\ op[u].s \in Slugs /\ op[u].kind = "docker"
             /\ op[u].dep \in Rows \cup {NoRow}
  <2>1. op[u] \in Ops
    BY <1>t
  <2>2. op[u].s \in Slugs /\ op[u].dep \in Rows \cup {NoRow}
    BY <2>1 DEF Ops
  <2>3. op[u].kind = "docker"
    BY DEF DockerOnly, DockerOps
  <2> QED BY <2>1, <2>2, <2>3
<1>i. /\ IdleOp \in Ops /\ IdleOp.kind = "docker" /\ IdleOp.dep = NoRow
      /\ IdleRf \in Refreshes /\ IdleRf.todo = {} /\ \A s \in Slugs : IdleRf.nl[s] = "none"
  BY Defaults DEF IdleOp, IdleRf, NoList
<1>1. ASSUME NEW u \in Users, UserStep(u)
      PROVE  DockerOnly'
  <2>1. UNCHANGED native /\ UNCHANGED rf
    <3>1. CASE ListCopies(u) \/ Pull(u) \/ Replace(u) \/ Create(u) \/ StartCreated(u) \/ ScaleDown(u)
      BY <3>1 DEF ListCopies, Pull, Replace, Create, StartCreated, ScaleDown
    <3>2. CASE RecordRow(u) \/ RecordImage(u) \/ RecordInstances(u) \/ ReadRow(u) \/ WriteRow(u) \/ DeleteRow(u)
      BY <3>2 DEF RecordRow, RecordImage, RecordInstances, ReadRow, WriteRow, DeleteRow
    <3>3. CASE DeployNative(u) \/ Call(u) \/ RemoveCopies(u) \/ RemoveUnit(u)
      BY <3>3, <1>u DEF DeployNative, Call, RemoveCopies, RemoveUnit
    <3>4. CASE StartFails(u) \/ Fails(u)
      BY <3>4 DEF StartFails, Fails
    <3>5. CASE StopsThenFails(u)
      <4>1. UNCHANGED rf
        BY Zenon, <3>5 DEF StopsThenFails
      <4>2. UNCHANGED native \/ op[u].kind = "native"
        BY ZenonT(60), <3>5 DEF StopsThenFails
      <4> QED BY <4>1, <4>2, <1>u
    <3> QED BY <1>1, <3>1, <3>2, <3>3, <3>4, <3>5 DEF UserStep, Progress
  <2>2. DockerRows'
    <3>1. CASE UNCHANGED row
      BY <3>1 DEF DockerOnly, DockerRows
    <3>2. CASE RecordRow(u)
      BY <3>2, <1>t, <1>u DEF RecordRow, UpsertDeployment, Upserted, DockerOnly, DockerRows, Rows
    <3>3. CASE RecordImage(u)
      BY <3>3, <1>t, <1>u DEF RecordImage, SetCustomImage, DockerOnly, DockerRows, Rows
    <3>4. CASE RecordInstances(u)
      BY <3>4, <1>t, <1>u DEF RecordInstances, SetInstances, DockerOnly, DockerRows, Rows
    <3>5. CASE WriteRow(u)
      <4>1. op[u].dep.runtime = "docker"
        BY <3>5, <1>u DEF WriteRow, At, TypeInv, ReadFirst, DockerOnly, DockerOps
      <4> QED BY <3>5, <4>1, <1>t, <1>u
              DEF WriteRow, UpsertDeployment, Upserted, DockerOnly, DockerRows, Rows
    <3>6. CASE DeleteRow(u)
      BY <3>6, <1>t, <1>u DEF DeleteRow, DeleteDeployment, DockerOnly, DockerRows
    <3> QED BY <1>1, <3>1, <3>2, <3>3, <3>4, <3>5, <3>6 DEF UserStep, Progress, ListCopies, Pull,
        Replace, Create, StartCreated, StartFails, DeployNative, ScaleDown, Call, ReadRow,
        RemoveCopies, RemoveUnit, Fails, StopsThenFails, GivesUp
  <2>3. DockerOps'
    <3>1. \A v \in Users \ {u} : op'[v] = op[v]
      BY <1>1, <1>t DEF UserStep, Progress, ListCopies, Pull, Replace, Create, StartCreated, StartFails,
         DeployNative, RecordRow, RecordImage, RecordInstances, ScaleDown, Call, ReadRow, WriteRow,
         RemoveCopies, RemoveUnit, DeleteRow, Fails, StopsThenFails, GivesUp, Goto, End
    <3> DEFINE Kept(x) == x.kind = op[u].kind /\ x.dep = op[u].dep
    <3>2. ASSUME \/ Kept(op'[u])
                 \/ op'[u] = IdleOp
                 \/ op'[u].kind = "docker" /\ op'[u].dep = row[op[u].s]
          PROVE  DockerOps'
      BY <3>1, <3>2, <1>i, <1>u, <1>t DEF DockerOnly, DockerOps, DockerRows
    <3>3. ASSUME NEW pc, Goto(u, pc) PROVE Kept(op'[u])
      BY <3>3, <1>t, <1>u DEF Goto, Ops
    <3>4. End(u) => op'[u] = IdleOp
      BY <1>t DEF End
    <3>5. ASSUME NEW x \in Ops PROVE AfterCopy(x).kind = x.kind /\ AfterCopy(x).dep = x.dep
      BY DEF AfterCopy, Ops
    <3>6. ASSUME ListCopies(u) PROVE Kept(op'[u])
      BY <3>6, <1>t, <1>u DEF ListCopies, Ops
    <3>7. ASSUME StartCreated(u) PROVE Kept(op'[u])
      <4>1. ASSUME NEW d PROVE [op[u] EXCEPT !.done = d].kind = op[u].kind
                               /\ [op[u] EXCEPT !.done = d].dep = op[u].dep
        BY <1>u DEF Ops
      <4>2. /\ AfterCopy([op[u] EXCEPT !.done = @ \cup {op[u].n}]).kind = op[u].kind
            /\ AfterCopy([op[u] EXCEPT !.done = @ \cup {op[u].n}]).dep = op[u].dep
        BY <1>u DEF AfterCopy, Ops
      <4>3. /\ [op[u] EXCEPT !.pc = "upsert"].kind = op[u].kind
            /\ [op[u] EXCEPT !.pc = "upsert"].dep = op[u].dep
        BY <1>u DEF Ops
      <4> QED BY <3>7, <1>t, <4>2, <4>3 DEF StartCreated
    <3>8. ASSUME RecordInstances(u) PROVE Kept(op'[u])
      BY <3>8, <1>t, <1>u, <3>5 DEF RecordInstances
    <3>9. ASSUME ScaleDown(u) PROVE Kept(op'[u]) \/ op'[u] = IdleOp
      BY <3>9, <1>t, <1>u, <3>4 DEF ScaleDown, Ops
    <3>10. ASSUME RemoveCopies(u) PROVE Kept(op'[u])
      <4>1. CASE \E n \in op[u].run : op' = [op EXCEPT ![u].run = @ \ {n}]
        BY <4>1, <1>t, <1>u DEF Ops
      <4> QED BY <3>10, <3>3, <4>1 DEF RemoveCopies
    <3>11. ASSUME ReadRow(u)
           PROVE  op'[u] = IdleOp \/ (op'[u].kind = "docker" /\ op'[u].dep = row[op[u].s])
      <4>1. End(u) \/ \E dep \in GetDeployment(op[u].s) :
                       dep # NoRow /\ op' = [op EXCEPT ![u].dep = dep, ![u].pc = "write"]
        BY <3>11 DEF ReadRow
      <4>2. ASSUME NEW dep \in GetDeployment(op[u].s), dep # NoRow,
                   op' = [op EXCEPT ![u].dep = dep, ![u].pc = "write"]
            PROVE  op'[u].kind = "docker" /\ op'[u].dep = row[op[u].s]
        <5>1. dep = row[op[u].s]
          BY <4>2 DEF GetDeployment
        <5>2. op'[u] = [op[u] EXCEPT !.dep = dep, !.pc = "write"]
          BY <4>2, <1>t
        <5> QED BY <5>1, <5>2, <1>u DEF Ops
      <4> QED BY <4>1, <4>2, <3>4
    <3> HIDE DEF Kept
    <3>12. Kept(op'[u]) \/ op'[u] = IdleOp \/ (op'[u].kind = "docker" /\ op'[u].dep = row[op[u].s])
      BY <1>1, <3>3, <3>4, <3>6, <3>7, <3>8, <3>9, <3>10, <3>11 DEF UserStep, Progress, Pull, Replace,
         Create, StartFails, DeployNative, RecordRow, RecordImage, Call, WriteRow, RemoveUnit,
         DeleteRow, Fails, StopsThenFails, GivesUp
    <3> QED BY <3>12, <3>2
  <2>4. DockerUnits' /\ DockerLists'
    BY <2>1 DEF DockerOnly, DockerUnits, DockerLists
  <2> QED BY <2>2, <2>3, <2>4 DEF DockerOnly
<1>2. ASSUME NEW u \in Users, NEW s \in Slugs, Begin(u, s)
      PROVE  DockerOnly'
  <2> PICK dep \in GetDeployment(s) :
        \/ \E image \in Choices \cup {Keep}, want \in 0..MaxInstances : BeginDeploy(u, s, dep, image, want)
        \/ \E verb \in {"stop", "start", "restart"} : BeginLifecycle(u, s, dep, verb)
        \/ BeginRemove(u, s, dep)
    BY <1>2 DEF Begin
  <2>1. ProviderForSlug(dep) = "docker" /\ \A c : DeployKind(s, c) = "docker"
    BY DEF GetDeployment, ProviderForSlug, DeployKind, NoNative, DockerOnly, DockerRows
  <2>2. ASSUME NEW image \in Choices \cup {Keep}, NEW want \in 0..MaxInstances,
               BeginDeploy(u, s, dep, image, want)
        PROVE  op'[u].kind = "docker" /\ op'[u].dep = NoRow /\ \A v \in Users \ {u} : op'[v] = op[v]
    BY <2>1, <2>2, <1>t, <1>i DEF BeginDeploy, Ops
  <2>3. ASSUME NEW verb, BeginLifecycle(u, s, dep, verb)
        PROVE  op'[u].kind = "docker" /\ op'[u].dep = NoRow /\ \A v \in Users \ {u} : op'[v] = op[v]
    BY <2>1, <2>3, <1>t, <1>i DEF BeginLifecycle, Ops
  <2>4. ASSUME BeginRemove(u, s, dep)
        PROVE  op'[u].kind = "docker" /\ op'[u].dep = NoRow /\ \A v \in Users \ {u} : op'[v] = op[v]
    BY <2>1, <2>4, <1>t, <1>i DEF BeginRemove, Ops
  <2>5. DockerOps'
    BY <2>2, <2>3, <2>4 DEF DockerOnly, DockerOps
  <2>6. UNCHANGED <<native, row, rf>>
    BY <1>2 DEF Begin, BeginDeploy, BeginLifecycle, BeginRemove
  <2> QED BY <2>5, <2>6 DEF DockerOnly, DockerUnits, DockerRows, DockerLists
<1>3. ASSUME NEW r \in Refreshers, ListDocker(r) \/ RefreshStep(r)
      PROVE  DockerOnly'
  <2>t. rf[r] \in Refreshes
    BY <1>t
  <2>1. DockerRows'
    <3>1. ASSUME NEW k \in Kinds, NEW s \in Slugs, SyncRow(r, k, s)
          PROVE  DockerRows'
      <4>1. k = "docker"
        BY <3>1 DEF SyncRow, Kinds, DockerOnly, DockerLists
      <4>2. CASE UNCHANGED row BY <4>2 DEF DockerOnly, DockerRows
      <4>3. CASE UpsertDeployment(s, k, IF k = "native" THEN rf[r].nl[s] ELSE rf[r].dl[s])
        BY <4>1, <4>3, <1>t DEF UpsertDeployment, Upserted, DockerOnly, DockerRows, Rows
      <4> QED BY <3>1, <4>2, <4>3 DEF SyncRow
    <3>2. ASSUME NEW s \in Slugs, PruneRow(r, s)
          PROVE  DockerRows'
      BY <3>2, <1>t DEF PruneRow, DeleteDeployment, DockerOnly, DockerRows
    <3>3. CASE UNCHANGED row
      BY <3>3 DEF DockerOnly, DockerRows
    <3> QED BY <1>3, <3>1, <3>2, <3>3 DEF RefreshStep, ListDocker, ListNative, EndSync, EndRefresh
  <2>2. DockerLists'
    <3>1. \A q \in Refreshers \ {r} : rf'[q] = rf[q]
      BY <1>3, <1>t DEF RefreshStep, ListDocker, ListNative, EndSync, EndRefresh, SyncRow, PruneRow
    <3> DEFINE Same == rf'[r].nl = rf[r].nl /\ rf'[r].todo \subseteq rf[r].todo
    <3> DEFINE Clean == \A s \in Slugs : rf'[r].nl[s] = "none" /\ <<"native", s>> \notin rf'[r].todo
    <3>2. Same => Clean
      BY DEF DockerOnly, DockerLists
    <3>3. ASSUME ListDocker(r) PROVE Clean
      BY <3>3, <1>t, <1>i DEF ListDocker, Refreshes
    <3>4. ASSUME ListNative(r) PROVE Clean
      BY <3>4, <1>t, <2>t DEF ListNative, Refreshes, DockerOnly, DockerUnits
    <3>5. ASSUME NEW s \in Slugs, NEW k \in Kinds, SyncRow(r, k, s) PROVE Same
      BY <3>5, <1>t, <2>t DEF SyncRow, Refreshes
    <3>6. ASSUME NEW s \in Slugs, PruneRow(r, s) PROVE Same
      BY <3>6, <1>t, <2>t DEF PruneRow, Refreshes
    <3>7. ASSUME EndSync(r) PROVE Same
      BY <3>7, <1>t, <2>t DEF EndSync, Refreshes
    <3>8. ASSUME EndRefresh(r) PROVE Clean
      BY <3>8, <1>t, <1>i DEF EndRefresh
    <3> HIDE DEF Same, Clean
    <3>9. Clean
      BY <1>3, <3>2, <3>3, <3>4, <3>5, <3>6, <3>7, <3>8 DEF RefreshStep
    <3> QED BY <3>1, <3>9 DEF Clean, DockerOnly, DockerLists
  <2>3. UNCHANGED <<native, op>>
    BY <1>3 DEF RefreshStep, ListDocker, ListNative, EndSync, EndRefresh, SyncRow, PruneRow
  <2> QED BY <2>1, <2>2, <2>3 DEF DockerOnly, DockerUnits, DockerOps
<1>4. CASE AppRestart
  BY <1>4, <1>i DEF AppRestart, DockerOnly, DockerUnits, DockerRows, DockerOps, DockerLists
<1>5. ASSUME NEW s \in Slugs, Exits(s)
      PROVE  UNCHANGED native
  BY <1>5 DEF Exits, DockerOnly, DockerUnits
<1>6. CASE UNCHANGED <<native, row, op, rf>>
  BY <1>6 DEF DockerOnly, DockerUnits, DockerRows, DockerOps, DockerLists
<1> QED BY <1>1, <1>2, <1>3, <1>4, <1>5, <1>6 DEF Next, Operation, Refresh, Around, CopyCall,
          DaemonToggles, Vanish, Exits, vars

\* A Refresh keeps its evidence: what it lists, it lists with the daemon's answer.
LEMMA EvidenceStep ==
  ASSUME TypeInv, DockerOnly, Evidence, [Next]_vars
  PROVE  Evidence'
<1>t. rf \in [Refreshers -> Refreshes]
  BY DEF TypeInv, TypeOK
<1>i. /\ IdleRf \in Refreshes /\ ~IdleRf.dok /\ IdleRf.stale = {}
      /\ \A s \in Slugs : IdleRf.dl[s] = "none" /\ IdleRf.seen[s] = {}
  BY Defaults DEF IdleRf, NoList
<1>1. ASSUME NEW r \in Refreshers, ListDocker(r) \/ RefreshStep(r)
      PROVE  Evidence'
  <2>t. rf[r] \in Refreshes
    BY <1>t
  <2>1. \A q \in Refreshers \ {r} : rf'[q] = rf[q]
    BY <1>1, <1>t DEF RefreshStep, ListDocker, ListNative, EndSync, EndRefresh, SyncRow, PruneRow
  <2> DEFINE Good == /\ ~rf'[r].dok => \A s \in Slugs : rf'[r].dl[s] = "none" /\ rf'[r].seen[s] = {}
                     /\ \A s \in rf'[r].stale : rf'[r].dok /\ rf'[r].dl[s] = "none"
  <2> DEFINE Same == /\ rf'[r].dok = rf[r].dok /\ rf'[r].dl = rf[r].dl /\ rf'[r].seen = rf[r].seen
                     /\ rf'[r].stale \subseteq rf[r].stale
  <2>2. Same => Good
    BY DEF Evidence
  <2>3. ASSUME ListDocker(r) PROVE Good
    BY <2>3, <1>t, <1>i DEF ListDocker, Refreshes
  <2>4. ASSUME ListNative(r) PROVE Same
    BY <2>4, <1>t, <2>t DEF ListNative, Refreshes
  <2>5. ASSUME NEW s \in Slugs, NEW k \in Kinds, SyncRow(r, k, s) PROVE Same
    BY <2>5, <1>t, <2>t DEF SyncRow, Refreshes
  <2>6. ASSUME NEW s \in Slugs, PruneRow(r, s) PROVE Same
    BY <2>6, <1>t, <2>t DEF PruneRow, Refreshes
  <2>7. ASSUME EndSync(r) PROVE Good
    <3>1. /\ rf'[r].dok = rf[r].dok /\ rf'[r].dl = rf[r].dl /\ rf'[r].seen = rf[r].seen
          /\ rf'[r].stale = IF Total(r) THEN {s \in Slugs : row[s] # NoRow} \ Active(r) ELSE {}
      BY <2>7, <1>t, <2>t DEF EndSync, Refreshes
    <3>2. Total(r) => rf[r].dok
      BY DEF Total, Active, Evidence, DockerOnly, DockerLists
    <3>3. \A s \in Slugs \ Active(r) : rf[r].dl[s] = "none"
      BY DEF Active
    <3> QED BY <3>1, <3>2, <3>3 DEF Evidence
  <2>8. ASSUME EndRefresh(r) PROVE Good
    BY <2>8, <1>t, <1>i DEF EndRefresh
  <2> HIDE DEF Same, Good
  <2>9. Good
    BY <1>1, <2>2, <2>3, <2>4, <2>5, <2>6, <2>7, <2>8 DEF RefreshStep
  <2> QED BY <2>1, <2>9 DEF Good, Evidence
<1>2. CASE AppRestart
  BY <1>2, <1>i DEF AppRestart, Evidence
<1>3. CASE UNCHANGED rf
  BY <1>3 DEF Evidence
<1>4. ASSUME NEW u \in Users, UserStep(u)
      PROVE  UNCHANGED rf
  BY <1>4 DEF UserStep, Progress, ListCopies, Pull, Replace, Create, StartCreated, StartFails,
     DeployNative, RecordRow, RecordImage, RecordInstances, ScaleDown, Call, ReadRow, WriteRow,
     RemoveCopies, RemoveUnit, DeleteRow, Fails, StopsThenFails, GivesUp
<1>5. ASSUME NEW u \in Users, NEW s \in Slugs, Begin(u, s)
      PROVE  UNCHANGED rf
  BY ZenonT(60), <1>5 DEF Begin, BeginDeploy, BeginLifecycle, BeginRemove
<1> QED BY <1>1, <1>2, <1>3, <1>4, <1>5 DEF Next, Operation, Refresh, Around, CopyCall,
          DaemonToggles, Vanish, Exits, vars

\* A step from a state of the invariant loses no choice without a deploy, a removal
\* or the daemon's word for it.
LEMMA ChoiceStep ==
  ASSUME TypeInv, Evidence, [Next]_vars, NEW s \in Slugs, ChoiceChanges(s)
  PROVE  DeployOrRemoveActs(s) \/ PrunedOnDockersWord(s)
<1>t. /\ op \in [Users -> Ops] /\ rf \in [Refreshers -> Refreshes]
      /\ row \in [Slugs -> Rows \cup {NoRow}]
  BY DEF TypeInv, TypeOK
<1>0. row'[s] # row[s] /\ row[s] \in Rows
  BY <1>t DEF ChoiceChanges
<1>u. ASSUME NEW x \in Slugs, NEW k \in Kinds, NEW st \in Statuses, UpsertDeployment(x, k, st)
      PROVE  FALSE
  <2>1. ASSUME x = s
        PROVE  row'[s] # NoRow /\ row'[s].custom = row[s].custom /\ row'[s].instances = row[s].instances
    <3>1. row'[s] = Upserted(row[s], k, st)
      BY <1>u, <2>1, <1>t DEF UpsertDeployment
    <3>2. Upserted(row[s], k, st) \in Rows
      BY <1>0, UpsertType
    <3>3. Upserted(row[s], k, st).custom = row[s].custom
          /\ Upserted(row[s], k, st).instances = row[s].instances
      BY <1>0, RowAssumption DEF Upserted, Rows
    <3> QED BY <3>1, <3>2, <3>3, RowAssumption
  <2>2. x # s => row'[s] = row[s]
    BY <1>u, <1>t DEF UpsertDeployment
  <2>3. /\ row[s] # NoRow
        /\ row'[s] = NoRow \/ row'[s].custom # row[s].custom \/ row'[s].instances # row[s].instances
    BY <1>0 DEF ChoiceChanges
  <2>4. row'[s] # row[s]
    BY <1>0
  <2>5. x = s BY ZenonT(60), <2>2, <2>4
  <2> QED BY Zenon, <2>1, <2>3, <2>5
<1>1. ASSUME NEW u \in Users, UserStep(u)
      PROVE  DeployOrRemoveActs(s)
  <2>t. op[u] \in Ops /\ op[u].s \in Slugs /\ op[u].kind \in Kinds
    BY <1>t DEF Ops
  <2>1. CASE RecordRow(u)
    BY <2>1, <2>t, <1>u DEF RecordRow, Statuses
  <2>2. CASE WriteRow(u)
    <3>1. op[u].dep \in Rows
      BY <2>2, <2>t DEF WriteRow, At, TypeInv, ReadFirst, Ops
    <3>2. op[u].dep.runtime \in Kinds
      BY <3>1 DEF Rows
    <3> QED BY <2>2, <3>2, <2>t, <1>u DEF WriteRow, Statuses
  <2>3. CASE RecordImage(u)
    <3>1. op[u].s = s
      BY <2>3, <2>t, <1>t, <1>0 DEF RecordImage, SetCustomImage
    <3>2. op'[u] # op[u]
      BY <2>3, <2>t, <1>t DEF RecordImage, At, Goto, Ops
    <3> QED BY <2>3, <3>1, <3>2 DEF RecordImage, At, DeployOrRemoveActs
  <2>4. CASE RecordInstances(u)
    <3>1. op[u].s = s
      BY <2>4, <2>t, <1>t, <1>0 DEF RecordInstances, SetInstances
    <3>2. AfterCopy(op[u]).pc # op[u].pc
      BY <2>4, <2>t DEF RecordInstances, At, AfterCopy, Ops
    <3>3. op'[u] # op[u]
      BY <2>4, <3>2, <1>t DEF RecordInstances
    <3> QED BY <2>4, <3>1, <3>3 DEF RecordInstances, At, DeployOrRemoveActs
  <2>5. CASE DeleteRow(u)
    <3>1. op[u].s = s
      BY <2>5, <2>t, <1>t, <1>0 DEF DeleteRow, DeleteDeployment
    <3>2. IdleOp.pc = "idle"
      BY DEF IdleOp
    <3>3. op'[u] # op[u]
      BY <2>5, <3>2, <1>t DEF DeleteRow, At, End
    <3> QED BY <2>5, <3>1, <3>3 DEF DeleteRow, At, DeployOrRemoveActs
  <2>6. CASE UNCHANGED row
    BY <2>6, <1>0
  <2> QED BY <1>1, <2>1, <2>2, <2>3, <2>4, <2>5, <2>6 DEF UserStep, Progress, ListCopies, Pull,
        Replace, Create, StartCreated, StartFails, DeployNative, ScaleDown, Call, ReadRow,
        RemoveCopies, RemoveUnit, Fails, StopsThenFails, GivesUp
<1>2. ASSUME NEW r \in Refreshers, ListDocker(r) \/ RefreshStep(r)
      PROVE  PrunedOnDockersWord(s)
  <2>t. rf[r] \in Refreshes /\ rf[r].dl \in [Slugs -> ContainerStates] /\ rf[r].nl \in [Slugs -> NativeStates]
    BY <1>t DEF Refreshes
  <2>1. ASSUME NEW k \in Kinds, NEW x \in Slugs, SyncRow(r, k, x)
        PROVE  FALSE
    <3>1. (IF k = "native" THEN rf[r].nl[x] ELSE rf[r].dl[x]) \in Statuses
      BY <2>1, <2>t DEF SyncRow, TypeInv, TodoListed, Kinds, Statuses, ContainerStates, NativeStates
    <3> QED BY <2>1, <3>1, <1>u, <1>0 DEF SyncRow
  <2>2. ASSUME NEW x \in Slugs, PruneRow(r, x)
        PROVE  PrunedOnDockersWord(s)
    <3>1. x = s
      BY <2>2, <1>t, <1>0 DEF PruneRow, DeleteDeployment
    <3>2. s \in rf[r].stale /\ s \notin rf'[r].stale
      BY <2>2, <3>1, <2>t, <1>t DEF PruneRow, Refreshes
    <3> QED BY <3>2 DEF PrunedOnDockersWord, Evidence
  <2>3. CASE UNCHANGED row
    BY <2>3, <1>0
  <2> QED BY <1>2, <2>1, <2>2, <2>3 DEF RefreshStep, ListDocker, ListNative, EndSync, EndRefresh
<1>3. CASE UNCHANGED row
  BY <1>3, <1>0
<1>4. ASSUME NEW u \in Users, NEW x \in Slugs, Begin(u, x)
      PROVE  UNCHANGED row
  BY <1>4 DEF Begin, BeginDeploy, BeginLifecycle, BeginRemove
<1> QED BY <1>1, <1>2, <1>3, <1>4 DEF Next, Operation, Refresh, Around, CopyCall, DaemonToggles,
          AppRestart, Vanish, Exits, vars

\* On a computer with no native service, whatever the interleaving of operations and
\* refreshes and whatever fails, a chosen image and copy count are lost only by a
\* deploy or removal of that service, or on the daemon's word that it is gone.
THEOREM ChoiceSafe ==
  ASSUME NoNative
  PROVE  Spec => ChoiceLostOnlyOnEvidence
<1> DEFINE Inv == TypeInv /\ DockerOnly /\ Evidence
<1>1. Init => Inv
  <2>1. Init => TypeInv
    BY TypeInit DEF Init, TypeInv, ReadFirst, TodoListed, IdleOp, IdleRf
  <2>2. Init => DockerOnly /\ Evidence
    BY DEF Init, DockerOnly, DockerUnits, DockerRows, DockerOps, DockerLists, Evidence, IdleOp,
       IdleRf, NoList
  <2> QED BY <2>1, <2>2
<1>2. Inv /\ [Next]_vars => Inv'
  BY TypeStep, DockerOnlyStep, EvidenceStep
<1>3. Inv /\ [Next]_vars =>
        [\A s \in Slugs : ChoiceChanges(s) => DeployOrRemoveActs(s) \/ PrunedOnDockersWord(s)]_vars
  BY ChoiceStep
<1> HIDE DEF Inv
<1> QED BY <1>1, <1>2, <1>3, PTL DEF Spec, ChoiceLostOnlyOnEvidence

----------------------------------------------------------------------------
(* A removal that is alone leaves no container.                             *)

\* One operation at a time.  A deploy of another window may create a container between
\* the removal of the last one and the deletion of the row, so that two users break what
\* follows.
OneUser == \A u, v \in Users : u = v

\* What a removal has behind it at each of its steps: what it listed covers the extra
\* copies there are, then there are none, then the first copy is gone as well.
Removed(u) ==
  /\ At(u, "copies") => op[u].kind = "docker"
  /\ At(u, "rmcopy") => op[u].kind = "docker" /\ \A n \in Extra : Has(op[u].s, n) => n \in op[u].run
  /\ At(u, "rm") /\ op[u].kind = "docker" => \A n \in Extra : ~Has(op[u].s, n)
  /\ At(u, "delete") /\ op[u].kind = "docker" => \A n \in Copies : ~Has(op[u].s, n)
Removal == \A u \in Users : Removed(u)

\* Only the creation of a container makes one appear.
NoneAppears == \A s \in Slugs, n \in Copies : Has(s, n)' => Has(s, n)

LEMMA OnlyCreateCreates ==
  ASSUME TypeInv, [Next]_vars, \A u \in Users : ~Create(u)
  PROVE  NoneAppears
<1>t. /\ ctr \in [Slugs -> [Copies -> Containers]] /\ op \in [Users -> Ops] /\ 1 \in Copies
      /\ Extra \subseteq Copies /\ NoCtr.st = "none"
  BY Defaults DEF TypeInv, TypeOK
<1>c. ASSUME NEW s \in Slugs, NEW n \in Copies, SetCtr(s, n, NoCtr)
      PROVE  NoneAppears
  BY <1>c, <1>t DEF SetCtr, NoneAppears, Has
<1>x. ASSUME NEW s \in Slugs, NEW n \in Copies, NEW st, Has(s, n), ctr' = [ctr EXCEPT ![s][n].st = st]
      PROVE  NoneAppears
  BY <1>x, <1>t DEF NoneAppears, Has
<1>n. UNCHANGED ctr => NoneAppears
  BY DEF NoneAppears, Has
<1>1. ASSUME NEW u \in Users, UserStep(u)
      PROVE  NoneAppears
  <2>t. op[u] \in Ops /\ op[u].s \in Slugs /\ op[u].n \in Copies /\ op[u].run \subseteq Extra
    BY <1>t DEF Ops
  <2>1. CASE Replace(u)
    BY SMTT(30), <2>1, <2>t, <1>c, <1>x DEF Replace
  <2>2. CASE StartCreated(u)
    BY <2>2, <2>t, <1>x DEF StartCreated, Mine, Has
  <2>3. CASE StartFails(u)
    BY <2>3, <2>t, <1>c, <1>n DEF StartFails
  <2>4. CASE ScaleDown(u)
    BY <2>4, <2>t, <1>c, <1>n, <1>t DEF ScaleDown
  <2>5. CASE Call(u)
    BY <2>5, <2>t, <1>x, <1>n, <1>t DEF Call
  <2>6. CASE RemoveCopies(u)
    BY <2>6, <2>t, <1>c, <1>n, <1>t DEF RemoveCopies
  <2>7. CASE RemoveUnit(u)
    BY <2>7, <2>t, <1>c, <1>n, <1>t DEF RemoveUnit
  <2>8. CASE StopsThenFails(u)
    <3>1. NextToGo(op[u]) \subseteq Copies
      BY DEF NextToGo
    <3> QED BY <2>8, <3>1, <2>t, <1>x, <1>n DEF StopsThenFails
  <2> QED BY <1>1, <1>n, <2>1, <2>2, <2>3, <2>4, <2>5, <2>6, <2>7, <2>8 DEF UserStep, Progress,
          ListCopies, Pull, DeployNative, RecordRow, RecordImage, RecordInstances, ReadRow, WriteRow,
          DeleteRow, Fails
<1>2. ASSUME NEW s \in Slugs, NEW n \in Extra, NEW verb, CopyCall(s, n, verb)
      PROVE  NoneAppears
  BY <1>2, <1>x, <1>t DEF CopyCall
<1>3. ASSUME NEW s \in Slugs, Exits(s)
      PROVE  NoneAppears
  BY <1>3, <1>x, <1>n, <1>t DEF Exits, Has
<1>4. ASSUME NEW s \in Slugs, NEW n \in Copies, Vanish(s, n)
      PROVE  NoneAppears
  BY <1>4, <1>c DEF Vanish
<1>5. ASSUME NEW u \in Users, NEW s \in Slugs, Begin(u, s)
      PROVE  UNCHANGED ctr
  BY <1>5 DEF Begin, BeginDeploy, BeginLifecycle, BeginRemove
<1>6. CASE Refresh
  BY <1>6, <1>n DEF Refresh, RefreshStep, ListDocker, ListNative, SyncRow, EndSync, PruneRow, EndRefresh
<1> QED BY <1>1, <1>2, <1>3, <1>4, <1>5, <1>6, <1>n DEF Next, Operation, Around, DaemonToggles,
        AppRestart, vars

\* No step of the only user undoes what its removal has behind it.
LEMMA RemovalStep ==
  ASSUME OneUser, TypeInv, Removal, [Next]_vars
  PROVE  Removal'
<1>t. /\ ctr \in [Slugs -> [Copies -> Containers]] /\ op \in [Users -> Ops] /\ IdleOp.pc = "idle"
      /\ 1 \in Copies /\ Extra \subseteq Copies /\ NoCtr.st = "none"
      /\ \A n \in Copies : n = 1 \/ n \in Extra
  BY Defaults, InstanceAssumption DEF TypeInv, TypeOK, IdleOp, Copies, Extra
<1>s. \A u \in Users : op[u].s \in Slugs /\ op[u].kind \in Kinds /\ op[u] \in Ops
  BY <1>t DEF Ops
<1>i. ASSUME NEW u \in Users, op'[u].pc \notin {"copies", "rmcopy", "rm", "delete"}
      PROVE  Removed(u)'
  BY <1>i DEF Removed, At
<1>0. ASSUME NEW u \in Users, UNCHANGED op, NoneAppears
      PROVE  Removed(u)'
  BY <1>0, <1>t, <1>s DEF Removal, Removed, NoneAppears, At
<1>1. ASSUME NEW u \in Users, Create(u)
      PROVE  Removed(u)'
  <2>1. op'[u].pc = "start"
    BY <1>1, <1>t, <1>s DEF Create, Goto, Ops
  <2> QED BY <2>1, <1>i
<1>2. ASSUME NEW u \in Users, UserStep(u), NoneAppears
      PROVE  Removed(u)'
  <2>g. ASSUME NEW pc, pc \notin {"copies", "rmcopy", "rm", "delete"}, Goto(u, pc)
        PROVE  Removed(u)'
    BY <2>g, <1>i, <1>t, <1>s DEF Goto, Ops
  <2>e. End(u) => Removed(u)'
    BY <1>i, <1>t DEF End
  <2>a. ASSUME NEW o \in Ops, op' = [op EXCEPT ![u] = AfterCopy(o)]
        PROVE  Removed(u)'
    <3>1. AfterCopy(o).pc \in {"pull", "scaledown"}
      BY DEF AfterCopy, Ops
    <3> QED BY <2>a, <3>1, <1>i, <1>t
  <2>1. CASE ListCopies(u)
    <3>1. /\ op'[u].pc \in {"pull", "rmcopy"} /\ op'[u].s = op[u].s /\ op'[u].kind = op[u].kind
          /\ op'[u].run = ListedCopies(op[u].s) /\ op[u].pc = "copies"
      BY <2>1, <1>t, <1>s DEF ListCopies, At, Ops
    <3>2. op'[u].kind = "docker"
      BY <3>1 DEF Removal, Removed, At
    <3>3. \A n \in Extra : Has(op[u].s, n)' => n \in op'[u].run
      BY <3>1, <1>2, <1>t, <1>s DEF NoneAppears, ListedCopies, Has
    <3> QED BY <3>1, <3>2, <3>3 DEF Removed, At
  <2>2. CASE RemoveCopies(u)
    <3>0. /\ op[u].pc = "rmcopy" /\ op[u].kind = "docker"
          /\ \A n \in Extra : Has(op[u].s, n) => n \in op[u].run
      BY <2>2 DEF RemoveCopies, Removal, Removed, At
    <3>1. CASE op[u].run = {} /\ Goto(u, "rm")
      <4>1. op'[u].pc = "rm" /\ op'[u].s = op[u].s
        BY <3>1, <1>t, <1>s DEF Goto, Ops
      <4>2. \A n \in Extra : ~Has(op[u].s, n)'
        BY <3>0, <3>1, <4>1, <1>2, <1>t, <1>s DEF NoneAppears, Has
      <4> QED BY <4>1, <4>2 DEF Removed, At
    <3>2. ASSUME NEW n \in op[u].run, SetCtr(op[u].s, n, NoCtr), op' = [op EXCEPT ![u].run = @ \ {n}]
          PROVE  Removed(u)'
      <4>1. /\ op'[u].pc = "rmcopy" /\ op'[u].s = op[u].s /\ op'[u].kind = "docker"
            /\ op'[u].run = op[u].run \ {n}
        BY <3>0, <3>2, <1>t, <1>s DEF Ops
      <4>2. n \in Copies
        BY <1>t, <1>s DEF Ops
      <4>3. ~Has(op[u].s, n)'
        BY <3>2, <4>1, <4>2, <1>t, <1>s DEF SetCtr, Has
      <4>4. \A m \in Extra : Has(op[u].s, m)' => m \in op'[u].run
        BY <3>0, <4>1, <4>3, <1>2, <1>t, <1>s DEF NoneAppears, Has
      <4> QED BY <4>1, <4>4 DEF Removed, At
    <3> QED BY <2>2, <3>1, <3>2 DEF RemoveCopies
  <2>3. CASE RemoveUnit(u)
    <3>1. CASE End(u)
      BY <3>1, <2>e
    <3>2. CASE Goto(u, "delete")
      <4>1. op'[u].pc = "delete" /\ op'[u].s = op[u].s /\ op'[u].kind = op[u].kind /\ op[u].pc = "rm"
        BY <2>3, <3>2, <1>t, <1>s DEF Goto, Ops, RemoveUnit, At
      <4>2. CASE op[u].kind = "docker"
        <5>1. ~Has(op[u].s, 1)'
          BY <2>3, <4>1, <4>2, <1>t, <1>s DEF RemoveUnit, SetCtr, Has
        <5>2. \A n \in Extra : ~Has(op[u].s, n)'
          BY <4>1, <4>2, <1>2, <1>t, <1>s DEF Removal, Removed, At, NoneAppears, Has
        <5>3. \A n \in Copies : ~Has(op[u].s, n)'
          BY <5>1, <5>2, <1>t
        <5> QED BY <4>1, <5>3 DEF Removed, At
      <4> QED BY <4>1, <4>2 DEF Removed, At
    <3> QED BY <2>3, <3>1, <3>2 DEF RemoveUnit
  <2>4. CASE StartCreated(u)
    <3>1. [op[u] EXCEPT !.done = @ \cup {op[u].n}].n = op[u].n
      BY <1>s DEF Ops
    <3>2. AfterCopy([op[u] EXCEPT !.done = @ \cup {op[u].n}]).pc \in {"pull", "scaledown"}
      BY <1>s DEF AfterCopy, Ops
    <3>3. [op[u] EXCEPT !.pc = "upsert"].pc = "upsert"
      BY <1>s DEF Ops
    <3>4. op'[u].pc \in {"pull", "scaledown", "upsert"}
      BY <2>4, <3>2, <3>3, <1>t DEF StartCreated
    <3> QED BY <3>4, <1>i
  <2>5. CASE RecordInstances(u)
    BY <2>5, <2>a, <1>s DEF RecordInstances
  <2>6. CASE ScaleDown(u)
    <3>1. op[u].pc = "scaledown"
      BY <2>6 DEF ScaleDown, At
    <3>2. ASSUME NEW n, op' = [op EXCEPT ![u].run = @ \ {n}]
          PROVE  op'[u].pc = "scaledown"
      BY <3>1, <3>2, <1>t, <1>s DEF Ops
    <3> QED BY <2>6, <3>2, <2>e, <1>i DEF ScaleDown
  <2>7. CASE ReadRow(u)
    <3>1. ASSUME NEW d, op' = [op EXCEPT ![u].dep = d, ![u].pc = "write"]
          PROVE  op'[u].pc = "write"
      BY <3>1, <1>t, <1>s DEF Ops
    <3>2. PICK d : End(u) \/ op' = [op EXCEPT ![u].dep = d, ![u].pc = "write"]
      BY <2>7 DEF ReadRow
    <3> QED BY <3>1, <3>2, <2>e, <1>i
  <2>8. CASE Pull(u) \/ Replace(u) \/ Create(u) \/ StartFails(u) \/ DeployNative(u) \/ RecordRow(u)
    BY <2>8, <2>g, <2>e DEF Pull, Replace, Create, StartFails, DeployNative, RecordRow
  <2>9. CASE RecordImage(u) \/ Call(u) \/ WriteRow(u) \/ DeleteRow(u) \/ Fails(u) \/ StopsThenFails(u)
    BY <2>9, <2>g, <2>e DEF RecordImage, Call, WriteRow, DeleteRow, Fails, StopsThenFails, GivesUp
  <2> QED BY <1>2, <2>1, <2>2, <2>3, <2>4, <2>5, <2>6, <2>7, <2>8, <2>9 DEF UserStep, Progress
<1>3. ASSUME NEW u \in Users, NEW s \in Slugs, Begin(u, s), NoneAppears
      PROVE  Removed(u)'
  <2> PICK dep \in GetDeployment(s) :
        \/ \E image \in Choices \cup {Keep}, want \in 0..MaxInstances : BeginDeploy(u, s, dep, image, want)
        \/ \E verb \in {"stop", "start", "restart"} : BeginLifecycle(u, s, dep, verb)
        \/ BeginRemove(u, s, dep)
    BY <1>3 DEF Begin
  <2>o. IdleOp \in Ops
    BY Defaults
  <2>1. ASSUME NEW image, NEW want, BeginDeploy(u, s, dep, image, want)
        PROVE  op'[u].pc \in {"copies", "pull"} /\ (op'[u].pc = "copies" => op'[u].kind = "docker")
    BY <2>1, <2>o, <1>t DEF BeginDeploy, Ops
  <2>2. ASSUME NEW verb, BeginLifecycle(u, s, dep, verb)
        PROVE  op'[u].pc = "call"
    BY <2>2, <2>o, <1>t DEF BeginLifecycle, Ops
  <2>3. ASSUME BeginRemove(u, s, dep)
        PROVE  /\ op'[u].pc \in {"copies", "rm"}
               /\ op'[u].pc = "copies" => op'[u].kind = "docker"
               /\ op'[u].pc = "rm" => op'[u].kind # "docker"
    BY <2>3, <2>o, <1>t DEF BeginRemove, Ops
  <2>4. /\ op'[u].pc \notin {"rmcopy", "delete"}
        /\ op'[u].pc = "copies" => op'[u].kind = "docker"
        /\ op'[u].pc = "rm" => op'[u].kind # "docker"
    BY <2>1, <2>2, <2>3
  <2> QED BY <2>4 DEF Removed, At
<1>4. CASE AppRestart
  BY <1>4, <1>t, <1>i DEF AppRestart, Removal
<1>5. CASE UNCHANGED op /\ NoneAppears
  BY <1>5, <1>0 DEF Removal
<1>6. (\A u \in Users : ~Create(u)) => NoneAppears
  BY OnlyCreateCreates
<1>7. \/ \E u \in Users : Create(u)
      \/ NoneAppears /\ \E u \in Users : UserStep(u) \/ \E s \in Slugs : Begin(u, s)
      \/ AppRestart
      \/ NoneAppears /\ UNCHANGED op
  BY ZenonT(60), <1>6 DEF Next, Operation, Refresh, Around, RefreshStep, CopyCall, ListDocker, ListNative,
     SyncRow, EndSync, PruneRow, EndRefresh, DaemonToggles, Vanish, Exits, vars
<1> QED BY <1>1, <1>2, <1>3, <1>4, <1>5, <1>7 DEF Removal, OneUser

\* Whatever fails, whatever is removed by hand, and however many Refreshes run beside it, a
\* removal with no other operation beside it deletes the row of a Docker service only when
\* the daemon has neither its container nor any copy of it.
THEOREM RemoveLeavesNothing ==
  ASSUME OneUser
  PROVE  Spec => RemoveIsComplete
<1>1. Init => TypeInv /\ Removal
  <2>1. Init => TypeInv
    BY TypeInit DEF Init, TypeInv, ReadFirst, TodoListed, IdleOp, IdleRf
  <2>2. Init => Removal
    BY DEF Init, Removal, Removed, At, IdleOp
  <2> QED BY <2>1, <2>2
<1>2. TypeInv /\ Removal /\ [Next]_vars => (TypeInv /\ Removal)'
  BY TypeStep, RemovalStep
<1>3. TypeInv /\ Removal =>
        [\A u \in Users : At(u, "delete") /\ row'[op[u].s] = NoRow /\ row[op[u].s] # NoRow
           => \A n \in Copies : op[u].kind = "docker" => ~Has(op[u].s, n)]_vars
  BY DEF Removal, Removed
<1> QED BY <1>1, <1>2, <1>3, PTL DEF Spec, RemoveIsComplete

----------------------------------------------------------------------------
(* One operation or Refresh at a time on a service that may be native.      *)

\* Every step of AloneNext is a step of Next.
LEMMA AloneIsNext == [AloneNext]_vars => [Next]_vars
  BY DEF AloneNext, Next, Operation, Refresh, Around

BusyOn(u, s) == op[u].pc # "idle" /\ op[u].s = s

\* What being alone on s guarantees: at most one operation and then no Refresh; the row
\* about to be written has its unit, or was there already; what a Refresh listed is
\* still there.
AloneOn(s) ==
  /\ \A u, v \in Users : BusyOn(u, s) /\ BusyOn(v, s) => u = v
  /\ OpOn(s) => \A r \in Refreshers : rf[r].pc = "idle"
  /\ \A u \in Users : op[u].s = s =>
       /\ op[u].pc = "upsert" => Shown(s)
       /\ op[u].pc = "write" => row[s] # NoRow
  /\ \A r \in Refreshers : rf[r].pc # "idle" =>
       /\ rf[r].dl[s] # "none" => Has(s, 1)
       /\ <<"native", s>> \in rf[r].todo => native[s] # "none"

\* A step of u's operation leaves the other operations, every Refresh and the other
\* services alone, and keeps to its service.
LEMMA UserFrame ==
  ASSUME TypeInv, NEW u \in Users, UserStep(u)
  PROVE  /\ op[u].pc # "idle"
         /\ UNCHANGED rf
         /\ \A v \in Users \ {u} : op'[v] = op[v]
         /\ op'[u].pc # "idle" => op'[u].s = op[u].s
         /\ \A s \in Slugs : op[u].s # s =>
              (Has(s, 1)' <=> Has(s, 1)) /\ native'[s] = native[s] /\ row'[s] = row[s]
<1>t. /\ op \in [Users -> Ops] /\ op[u] \in Ops /\ op[u].s \in Slugs /\ op[u].n \in Copies
      /\ op[u].run \subseteq Copies /\ 1 \in Copies /\ ctr \in [Slugs -> [Copies -> Containers]]
      /\ native \in [Slugs -> NativeStates] /\ row \in [Slugs -> Rows \cup {NoRow}]
  <2>1. op \in [Users -> Ops] /\ ctr \in [Slugs -> [Copies -> Containers]]
        /\ native \in [Slugs -> NativeStates] /\ row \in [Slugs -> Rows \cup {NoRow}]
    BY DEF TypeInv, TypeOK
  <2>2. op[u] \in Ops
    BY <2>1
  <2> QED BY <2>1, <2>2, Defaults DEF Ops
<1>i. IdleOp.pc = "idle"
  BY DEF IdleOp
<1>1. op[u].pc # "idle"
  BY DEF UserStep, Progress, ListCopies, Pull, Replace, Create, StartCreated, StartFails,
     DeployNative, RecordRow, RecordImage, RecordInstances, ScaleDown, Call, ReadRow, WriteRow,
     RemoveCopies, RemoveUnit, DeleteRow, Fails, StopsThenFails, NextToGo, CanFail, At
<1>2. UNCHANGED rf
  BY DEF UserStep, Progress, ListCopies, Pull, Replace, Create, StartCreated, StartFails,
     DeployNative, RecordRow, RecordImage, RecordInstances, ScaleDown, Call, ReadRow, WriteRow,
     RemoveCopies, RemoveUnit, DeleteRow, Fails, StopsThenFails
<1>3. \A v \in Users \ {u} : op'[v] = op[v]
  BY <1>t DEF UserStep, Progress, ListCopies, Pull, Replace, Create, StartCreated, StartFails,
     DeployNative, RecordRow, RecordImage, RecordInstances, ScaleDown, Call, ReadRow, WriteRow,
     RemoveCopies, RemoveUnit, DeleteRow, Fails, StopsThenFails, GivesUp, Goto, End
<1>4. op'[u].pc # "idle" => op'[u].s = op[u].s
  <2>e. End(u) => op'[u].pc = "idle"
    BY <1>t, <1>i DEF End
  <2>g. ASSUME NEW pc, Goto(u, pc) PROVE op'[u].s = op[u].s
    BY <2>g, <1>t DEF Goto, Ops
  <2>a. ASSUME NEW x \in Ops PROVE AfterCopy(x).s = x.s
    BY DEF AfterCopy, Ops
  <2>1. ASSUME ListCopies(u) PROVE op'[u].s = op[u].s
    BY <2>1, <1>t DEF ListCopies, Ops
  <2>2. ASSUME StartCreated(u) PROVE op'[u].s = op[u].s
    <3>1. [op[u] EXCEPT !.pc = "upsert"].s = op[u].s
      BY <1>t DEF Ops
    <3>2. AfterCopy([op[u] EXCEPT !.done = @ \cup {op[u].n}]).s = op[u].s
      BY <1>t DEF AfterCopy, Ops
    <3> QED BY <2>2, <3>1, <3>2, <1>t DEF StartCreated
  <2>3. ASSUME RecordInstances(u) PROVE op'[u].s = op[u].s
    BY <2>3, <2>a, <1>t DEF RecordInstances
  <2>4. ASSUME NEW n, op' = [op EXCEPT ![u].run = @ \ {n}] PROVE op'[u].s = op[u].s
    BY <2>4, <1>t DEF Ops
  <2>5. ASSUME NEW d, op' = [op EXCEPT ![u].dep = d, ![u].pc = "write"] PROVE op'[u].s = op[u].s
    BY <2>5, <1>t DEF Ops
  <2>6. CASE ScaleDown(u)
    BY <2>6, <2>4, <2>e DEF ScaleDown
  <2>7. CASE RemoveCopies(u)
    BY <2>7, <2>4, <2>g DEF RemoveCopies
  <2>8. CASE ReadRow(u)
    BY <2>8, <2>5, <2>e DEF ReadRow
  <2>9. CASE Pull(u) \/ Replace(u) \/ Create(u) \/ StartFails(u) \/ DeployNative(u) \/ RecordRow(u)
    BY <2>9, <2>g, <2>e DEF Pull, Replace, Create, StartFails, DeployNative, RecordRow
  <2>10. CASE RecordImage(u) \/ Call(u) \/ WriteRow(u) \/ DeleteRow(u) \/ Fails(u) \/ StopsThenFails(u)
    BY <2>10, <2>g, <2>e DEF RecordImage, Call, WriteRow, DeleteRow, Fails, StopsThenFails, GivesUp
  <2>11. CASE RemoveUnit(u)
    BY <2>11, <2>g, <2>e DEF RemoveUnit
  <2> QED BY <2>1, <2>2, <2>3, <2>6, <2>7, <2>8, <2>9, <2>10, <2>11 DEF UserStep, Progress
<1>5. ASSUME NEW s \in Slugs, op[u].s # s
      PROVE  (Has(s, 1)' <=> Has(s, 1)) /\ native'[s] = native[s] /\ row'[s] = row[s]
  <2>1. ctr'[s] = ctr[s]
    BY <1>5, <1>t DEF UserStep, Progress, ListCopies, Pull, Replace, Create, StartCreated, StartFails,
       DeployNative, RecordRow, RecordImage, RecordInstances, ScaleDown, Call, ReadRow, WriteRow,
       RemoveCopies, RemoveUnit, DeleteRow, Fails, StopsThenFails, SetCtr
  <2>2. native'[s] = native[s]
    BY <1>5, <1>t DEF UserStep, Progress, ListCopies, Pull, Replace, Create, StartCreated, StartFails,
       DeployNative, RecordRow, RecordImage, RecordInstances, ScaleDown, Call, ReadRow, WriteRow,
       RemoveCopies, RemoveUnit, DeleteRow, Fails, StopsThenFails
  <2>3. row'[s] = row[s]
    BY <1>5, <1>t DEF UserStep, Progress, ListCopies, Pull, Replace, Create, StartCreated, StartFails,
       DeployNative, RecordRow, RecordImage, RecordInstances, ScaleDown, Call, ReadRow, WriteRow,
       RemoveCopies, RemoveUnit, DeleteRow, Fails, StopsThenFails, UpsertDeployment,
       SetCustomImage, SetInstances, DeleteDeployment
  <2> QED BY <2>1, <2>2, <2>3 DEF Has
<1> QED BY <1>1, <1>2, <1>3, <1>4, <1>5

\* A step of u's operation keeps what being alone on s guarantees.
LEMMA AloneUser ==
  ASSUME TypeInv, NEW s \in NativeSlugs, AloneOn(s), NEW u \in Users, UserStep(u)
  PROVE  AloneOn(s)'
<1>f. /\ op[u].pc # "idle" /\ UNCHANGED rf /\ \A v \in Users \ {u} : op'[v] = op[v]
      /\ op'[u].pc # "idle" => op'[u].s = op[u].s
      /\ op[u].s # s => (Has(s, 1)' <=> Has(s, 1)) /\ native'[s] = native[s] /\ row'[s] = row[s]
  BY UserFrame, SlugAssumption
<1>t. /\ op \in [Users -> Ops] /\ op[u] \in Ops /\ s \in Slugs /\ 1 \in Copies
      /\ ctr \in [Slugs -> [Copies -> Containers]] /\ native \in [Slugs -> NativeStates]
      /\ row \in [Slugs -> Rows \cup {NoRow}] /\ IdleOp.pc = "idle" /\ IdleOp \in Ops
  BY Defaults, SlugAssumption DEF TypeInv, TypeOK, IdleOp
<1>b. ASSUME NEW v \in Users, BusyOn(v, s)' PROVE BusyOn(v, s)
  BY <1>b, <1>f DEF BusyOn
<1>1. \A v, w \in Users : BusyOn(v, s)' /\ BusyOn(w, s)' => v = w
  BY <1>b DEF AloneOn
<1>2. OpOn(s)' => \A r \in Refreshers : rf'[r].pc = "idle"
  BY <1>b, <1>f DEF AloneOn, OpOn, BusyOn
<1>3. ASSUME NEW v \in Users \ {u}, op'[v].s = s
      PROVE  /\ op'[v].pc = "upsert" => Shown(s)'
             /\ op'[v].pc = "write" => row'[s] # NoRow
  <2>1. CASE op[v].pc = "idle"
    BY <2>1, <1>f
  <2>2. CASE op[v].pc # "idle"
    <3>1. op[u].s # s
      BY <2>2, <1>3, <1>f DEF AloneOn, BusyOn
    <3> QED BY <3>1, <1>3, <1>f DEF AloneOn, Shown
  <2> QED BY <2>1, <2>2
<1>4. ASSUME op'[u].s = s, op'[u].pc = "upsert"
      PROVE  Shown(s)'
  <2>1. op[u].s = s
    BY <1>4, <1>f
  <2>e. ~End(u)
    BY <1>4, <1>t DEF End
  <2>g. ASSUME NEW pc, Goto(u, pc) PROVE pc = "upsert"
    BY <2>g, <1>4, <1>t DEF Goto, Ops
  <2>a. ASSUME NEW x \in Ops PROVE AfterCopy(x).pc # "upsert"
        \/ x.pc = "upsert"
    BY DEF AfterCopy, Ops
  <2>2. CASE StartCreated(u)
    <3>1. [op[u] EXCEPT !.done = @ \cup {op[u].n}].pc = "start"
      BY <2>2, <1>t DEF StartCreated, At, Ops
    <3>2. AfterCopy([op[u] EXCEPT !.done = @ \cup {op[u].n}]).pc # "upsert"
      BY <1>t DEF AfterCopy, Ops
    <3>3. op[u].n = 1
      BY <2>2, <3>2, <1>4, <1>t DEF StartCreated
    <3>4. ctr' = [ctr EXCEPT ![s][1].st = "running"]
      BY <2>2, <3>3, <2>1 DEF StartCreated
    <3>5. ctr'[s][1].st = "running"
      BY <3>4, <1>t DEF Containers
    <3> QED BY <3>5 DEF Shown, Has
  <2>3. CASE DeployNative(u)
    <3>1. native' = [native EXCEPT ![s] = "running"]
      BY <2>3, <2>1, <2>e DEF DeployNative
    <3>2. native'[s] = "running"
      BY <3>1, <1>t
    <3> QED BY <3>2 DEF Shown
  <2>4. CASE ListCopies(u)
    BY <2>4, <1>4, <1>t DEF ListCopies, Ops
  <2>5. CASE RecordInstances(u)
    <3>1. op[u].pc # "upsert" BY <2>5 DEF RecordInstances, At
    <3> QED BY <2>5, <3>1, <2>a, <1>4, <1>t DEF RecordInstances
  <2>6. CASE ScaleDown(u) \/ RemoveCopies(u)
    <3>1. op[u].pc \in {"scaledown", "rmcopy"}
      BY <2>6 DEF ScaleDown, RemoveCopies, At
    <3>2. ASSUME NEW n, op' = [op EXCEPT ![u].run = @ \ {n}] PROVE op'[u].pc # "upsert"
      BY <3>1, <3>2, <1>t DEF Ops
    <3> QED BY <2>6, <3>2, <2>e, <2>g, <1>4 DEF ScaleDown, RemoveCopies
  <2>7. CASE ReadRow(u)
    <3>1. ASSUME NEW d, op' = [op EXCEPT ![u].dep = d, ![u].pc = "write"] PROVE op'[u].pc # "upsert"
      BY <3>1, <1>t DEF Ops
    <3> QED BY <2>7, <3>1, <2>e, <1>4 DEF ReadRow
  <2>8. CASE Pull(u) \/ Replace(u) \/ Create(u) \/ StartFails(u) \/ RecordRow(u) \/ RecordImage(u)
    BY <2>8, <2>g, <2>e DEF Pull, Replace, Create, StartFails, RecordRow, RecordImage
  <2>9. CASE Call(u) \/ WriteRow(u) \/ RemoveUnit(u) \/ DeleteRow(u) \/ Fails(u) \/ StopsThenFails(u)
    BY <2>9, <2>g, <2>e DEF Call, WriteRow, RemoveUnit, DeleteRow, Fails, StopsThenFails, GivesUp
  <2> QED BY <2>2, <2>3, <2>4, <2>5, <2>6, <2>7, <2>8, <2>9 DEF UserStep, Progress
<1>5. ASSUME op'[u].s = s, op'[u].pc = "write"
      PROVE  row'[s] # NoRow
  <2>1. op[u].s = s
    BY <1>5, <1>f
  <2>e. ~End(u)
    BY <1>5, <1>t DEF End
  <2>g. ASSUME NEW pc, Goto(u, pc) PROVE pc = "write"
    BY <2>g, <1>5, <1>t DEF Goto, Ops
  <2>a. ASSUME NEW x \in Ops PROVE AfterCopy(x).pc \in {"pull", "scaledown"}
    BY DEF AfterCopy, Ops
  <2>2. CASE ReadRow(u)
    <3>1. \E dep \in GetDeployment(s) : dep # NoRow
      BY <2>2, <2>1, <2>e DEF ReadRow
    <3> QED BY <2>2, <3>1 DEF GetDeployment, ReadRow
  <2>3. CASE StartCreated(u)
    <3>1. AfterCopy([op[u] EXCEPT !.done = @ \cup {op[u].n}]).pc # "write"
      BY <1>t DEF AfterCopy, Ops
    <3>2. [op[u] EXCEPT !.pc = "upsert"].pc # "write"
      BY <1>t DEF Ops
    <3> QED BY <2>3, <3>1, <3>2, <1>5, <1>t DEF StartCreated
  <2>4. CASE ListCopies(u)
    BY <2>4, <1>5, <1>t DEF ListCopies, Ops
  <2>5. CASE RecordInstances(u)
    BY <2>5, <2>a, <1>5, <1>t DEF RecordInstances
  <2>6. CASE ScaleDown(u) \/ RemoveCopies(u)
    <3>1. op[u].pc \in {"scaledown", "rmcopy"}
      BY <2>6 DEF ScaleDown, RemoveCopies, At
    <3>2. ASSUME NEW n, op' = [op EXCEPT ![u].run = @ \ {n}] PROVE op'[u].pc # "write"
      BY <3>1, <3>2, <1>t DEF Ops
    <3> QED BY <2>6, <3>2, <2>e, <2>g, <1>5 DEF ScaleDown, RemoveCopies
  <2>7. CASE Pull(u) \/ Replace(u) \/ Create(u) \/ StartFails(u) \/ DeployNative(u) \/ RecordRow(u)
    BY <2>7, <2>g, <2>e DEF Pull, Replace, Create, StartFails, DeployNative, RecordRow
  <2>8. CASE RecordImage(u) \/ Call(u) \/ WriteRow(u) \/ RemoveUnit(u)
    BY <2>8, <2>g, <2>e DEF RecordImage, Call, WriteRow, RemoveUnit
  <2>9. CASE DeleteRow(u) \/ Fails(u) \/ StopsThenFails(u)
    BY <2>9, <2>g, <2>e DEF DeleteRow, Fails, StopsThenFails, GivesUp
  <2> QED BY <2>2, <2>3, <2>4, <2>5, <2>6, <2>7, <2>8, <2>9 DEF UserStep, Progress
<1>6. ASSUME NEW r \in Refreshers, rf'[r].pc # "idle"
      PROVE  /\ rf'[r].dl[s] # "none" => Has(s, 1)'
             /\ <<"native", s>> \in rf'[r].todo => native'[s] # "none"
  <2>1. op[u].s # s
    BY <1>6, <1>f DEF AloneOn, OpOn
  <2> QED BY <1>6, <2>1, <1>f DEF AloneOn
<1>7. \A v \in Users : op'[v].s = s =>
        /\ op'[v].pc = "upsert" => Shown(s)'
        /\ op'[v].pc = "write" => row'[s] # NoRow
  BY <1>3, <1>4, <1>5
<1> QED BY <1>1, <1>2, <1>6, <1>7 DEF AloneOn

\* An operation that begins takes its service and its first step, neither of them a write.
LEMMA BeginFrame ==
  ASSUME TypeInv, NEW u \in Users, NEW s \in Slugs, Begin(u, s)
  PROVE  /\ op[u].pc = "idle" /\ op'[u].s = s /\ op'[u].pc \notin {"upsert", "write"}
         /\ \A v \in Users \ {u} : op'[v] = op[v]
<1>t. op \in [Users -> Ops] /\ IdleOp \in Ops
  BY Defaults DEF TypeInv, TypeOK
<1>0. PICK dep \in GetDeployment(s) :
        \/ \E image \in Choices \cup {Keep}, want \in 0..MaxInstances : BeginDeploy(u, s, dep, image, want)
        \/ \E verb \in {"stop", "start", "restart"} : BeginLifecycle(u, s, dep, verb)
        \/ BeginRemove(u, s, dep)
  BY DEF Begin
<1> DEFINE Began == /\ op[u].pc = "idle" /\ op'[u].s = s /\ op'[u].pc \notin {"upsert", "write"}
                    /\ \A v \in Users \ {u} : op'[v] = op[v]
<1>1. ASSUME NEW image \in Choices \cup {Keep}, NEW want \in 0..MaxInstances,
             BeginDeploy(u, s, dep, image, want)
      PROVE  Began
  <2>1. op[u].pc = "idle"
    BY <1>1 DEF BeginDeploy, At
  <2> DEFINE custom == IF image = Keep THEN RecordedImage(dep) ELSE image
  <2> DEFINE count == IF want # 0 THEN want
                      ELSE IF RecordedCopies(dep) > Limit[s] THEN Limit[s] ELSE RecordedCopies(dep)
  <2> DEFINE kind == DeployKind(s, custom)
  <2> DEFINE first == IF kind = "docker" /\ (want # 0 \/ RecordedCopies(dep) > 1) THEN "copies" ELSE "pull"
  <2>2. op' = [op EXCEPT ![u] = [IdleOp EXCEPT !.pc = first, !.verb = "deploy", !.s = s,
                                               !.kind = kind, !.img = custom, !.want = count]]
    BY Zenon, <1>1 DEF BeginDeploy
  <2>3. first \in {"copies", "pull"}
    BY Zenon
  <2> HIDE DEF custom, count, kind, first
  <2>4. op'[u].s = s /\ op'[u].pc = first /\ \A v \in Users \ {u} : op'[v] = op[v]
    BY <2>2, <1>t DEF Ops
  <2>5. first \notin {"upsert", "write"}
    BY <2>3
  <2> QED BY Zenon, <2>1, <2>4, <2>5
<1>2. ASSUME NEW verb \in {"stop", "start", "restart"}, BeginLifecycle(u, s, dep, verb)
      PROVE  Began
  BY <1>2, <1>t DEF BeginLifecycle, At, Ops
<1>3. ASSUME BeginRemove(u, s, dep) PROVE Began
  BY <1>3, <1>t DEF BeginRemove, At, Ops
<1> QED BY <1>0, <1>1, <1>2, <1>3

\* So do the start of an operation, a Refresh and what happens around them.
LEMMA AloneStep ==
  ASSUME TypeInv, NEW s \in NativeSlugs, AloneOn(s), [AloneNext]_vars
  PROVE  AloneOn(s)'
<1>t. /\ op \in [Users -> Ops] /\ rf \in [Refreshers -> Refreshes] /\ s \in Slugs /\ 1 \in Copies
      /\ ctr \in [Slugs -> [Copies -> Containers]] /\ native \in [Slugs -> NativeStates]
      /\ IdleOp.pc = "idle" /\ IdleOp \in Ops /\ IdleRf.pc = "idle" /\ IdleRf \in Refreshes
      /\ IdleRf.todo = {} /\ \A x \in Slugs : IdleRf.dl[x] = "none"
  BY Defaults, SlugAssumption DEF TypeInv, TypeOK, IdleOp, IdleRf, NoList
<1>1. ASSUME NEW u \in Users, UserStep(u) PROVE AloneOn(s)'
  BY <1>1, AloneUser
<1>2. ASSUME NEW u \in Users, NEW x \in Slugs, FreeToBegin(x), Begin(u, x)
      PROVE  AloneOn(s)'
  <2>1. UNCHANGED <<ctr, native, row, rf>>
    BY ZenonT(60), <1>2 DEF Begin, BeginDeploy, BeginLifecycle, BeginRemove
  <2>5. /\ op[u].pc = "idle" /\ op'[u].s = x /\ op'[u].pc \notin {"upsert", "write"}
        /\ \A v \in Users \ {u} : op'[v] = op[v]
    BY <1>2, BeginFrame
  <2>6. CASE x = s
    <3>1. (\A v \in Users : ~BusyOn(v, s)) /\ \A r \in Refreshers : rf[r].pc = "idle"
      BY <2>6, <1>2 DEF FreeToBegin, OpOn, BusyOn
    <3>2. \A v \in Users : BusyOn(v, s)' => v = u
      BY <3>1, <2>5 DEF BusyOn
    <3>3. \A v \in Users : op'[v].s = s => op'[v].pc \notin {"upsert", "write"}
      BY <3>1, <2>5 DEF BusyOn
    <3> QED BY <3>1, <3>2, <3>3, <2>1 DEF AloneOn
  <2>7. CASE x # s
    <3>1. \A v \in Users : BusyOn(v, s)' => BusyOn(v, s)
      BY <2>7, <2>5 DEF BusyOn
    <3>2. OpOn(s)' => OpOn(s)
      BY <3>1 DEF OpOn, BusyOn
    <3>3. \A v \in Users : op'[v].s = s => op'[v] = op[v]
      BY <2>7, <2>5
    <3>4. Shown(s)' <=> Shown(s)
      BY <2>1 DEF Shown, Has
    <3>5. Has(s, 1)' <=> Has(s, 1)
      BY <2>1 DEF Has
    <3> QED BY <3>1, <3>2, <3>3, <3>4, <3>5, <2>1 DEF AloneOn
  <2> QED BY <2>6, <2>7
<1>3. ASSUME NEW r \in Refreshers, RefreshStep(r) \/ (FreeToList /\ ListDocker(r))
      PROVE  AloneOn(s)'
  <2>1. UNCHANGED <<ctr, native, op>>
    BY <1>3 DEF RefreshStep, ListDocker, ListNative, SyncRow, EndSync, PruneRow, EndRefresh
  <2>2. ~OpOn(s)
    <3>1. ASSUME RefreshStep(r) PROVE rf[r].pc # "idle"
      BY <3>1 DEF RefreshStep, ListNative, SyncRow, EndSync, PruneRow, EndRefresh
    <3> QED BY <1>3, <3>1 DEF AloneOn, FreeToList
  <2>3. \A q \in Refreshers \ {r} : rf'[q] = rf[q]
    BY <1>3, <1>t DEF RefreshStep, ListDocker, ListNative, SyncRow, EndSync, PruneRow, EndRefresh
  <2>4. ASSUME rf'[r].pc # "idle"
        PROVE  /\ rf'[r].dl[s] # "none" => Has(s, 1)
               /\ <<"native", s>> \in rf'[r].todo => native[s] # "none"
    <3>t. rf[r] \in Refreshes
      BY <1>t
    <3>1. CASE ListDocker(r)
      <4>1. rf'[r].todo = {} /\ rf'[r].dl[s] \in {ctr[s][1].st, "none"}
        BY <3>1, <1>t DEF ListDocker, Refreshes
      <4> QED BY <4>1 DEF Has
    <3>2. CASE ListNative(r)
      <4>1. /\ rf[r].pc # "idle" /\ rf'[r].dl = rf[r].dl
            /\ <<"native", s>> \in rf'[r].todo => native[s] # "none"
        BY <3>2, <3>t, <1>t DEF ListNative, Refreshes
      <4> QED BY <4>1 DEF AloneOn
    <3> DEFINE Shrinks == /\ rf[r].pc # "idle" /\ rf'[r].dl = rf[r].dl
                          /\ rf'[r].todo \subseteq rf[r].todo
    <3>3. ASSUME NEW x \in Slugs, NEW k \in Kinds, SyncRow(r, k, x) PROVE Shrinks
      BY <3>3, <3>t, <1>t DEF SyncRow, Refreshes
    <3>4. ASSUME NEW x \in Slugs, PruneRow(r, x) PROVE Shrinks
      BY <3>4, <3>t, <1>t DEF PruneRow, Refreshes
    <3>5. ASSUME EndSync(r) PROVE Shrinks
      BY <3>5, <3>t, <1>t DEF EndSync, Refreshes
    <3>6. ~EndRefresh(r)
      BY <2>4, <1>t DEF EndRefresh
    <3>7. Shrinks => (rf'[r].dl[s] # "none" => Has(s, 1))
      BY DEF AloneOn
    <3>8. Shrinks => (<<"native", s>> \in rf'[r].todo => native[s] # "none")
      BY DEF AloneOn
    <3> HIDE DEF Shrinks
    <3> QED BY <1>3, <3>1, <3>2, <3>3, <3>4, <3>5, <3>6, <3>7, <3>8 DEF RefreshStep
  <2>5. /\ ~OpOn(s)' /\ (Has(s, 1)' <=> Has(s, 1)) /\ \A v \in Users : ~BusyOn(v, s)'
    BY <2>1, <2>2 DEF OpOn, Has, BusyOn
  <2>6. \A v \in Users : op'[v].s = s => op'[v].pc = "idle"
    BY <2>5 DEF BusyOn
  <2>7. ASSUME NEW q \in Refreshers, rf'[q].pc # "idle"
        PROVE  /\ rf'[q].dl[s] # "none" => Has(s, 1)'
               /\ <<"native", s>> \in rf'[q].todo => native'[s] # "none"
    <3>1. CASE q = r
      BY <3>1, <2>7, <2>4, <2>5, <2>1
    <3>2. CASE q # r
      BY <3>2, <2>7, <2>3, <2>5, <2>1 DEF AloneOn
    <3> QED BY <3>1, <3>2
  <2> QED BY <2>5, <2>6, <2>7 DEF AloneOn
<1>4. CASE AppRestart
  <2>1. (\A v \in Users : op'[v] = IdleOp) /\ \A r \in Refreshers : rf'[r] = IdleRf
    BY <1>4 DEF AppRestart
  <2> QED BY <2>1, <1>t DEF AloneOn, OpOn, BusyOn
<1>5. ASSUME UNCHANGED <<row, op, rf>>, Has(s, 1) => Has(s, 1)', native[s] # "none" => native'[s] # "none"
      PROVE  AloneOn(s)'
  <2>1. Shown(s) => Shown(s)'
    BY <1>5 DEF Shown
  <2>2. (OpOn(s)' <=> OpOn(s)) /\ \A v \in Users : BusyOn(v, s)' <=> BusyOn(v, s)
    BY <1>5 DEF OpOn, BusyOn
  <2> QED BY <1>5, <2>1, <2>2 DEF AloneOn
<1>6. ASSUME NEW x \in Slugs, NEW n \in Extra, NEW verb, CopyCall(x, n, verb)
      PROVE  AloneOn(s)'
  <2>1. n \in Copies /\ n # 1
    BY Defaults DEF Extra
  <2>2. ctr'[s][1] = ctr[s][1]
    BY <1>6, <2>1, <1>t DEF CopyCall
  <2> QED BY <1>6, <2>2, <1>5 DEF CopyCall, Has
<1>7. ASSUME NEW x \in Slugs, Exits(x)
      PROVE  AloneOn(s)'
  <2>1. UNCHANGED <<row, op, rf>>
    BY <1>7 DEF Exits
  <2>2. Has(s, 1) => Has(s, 1)'
    <3>1. CASE ctr' = [ctr EXCEPT ![x][1].st = "exited"]
      BY <3>1, <1>t DEF Has, Containers
    <3> QED BY <1>7, <3>1 DEF Exits, Has
  <2>3. native[s] # "none" => native'[s] # "none"
    BY <1>7, <1>t DEF Exits
  <2> QED BY <2>1, <2>2, <2>3, <1>5
<1>8. ASSUME NEW x \in Slugs \ NativeSlugs, NEW n \in Copies, Vanish(x, n)
      PROVE  AloneOn(s)'
  <2>1. ctr'[s] = ctr[s]
    BY <1>8, <1>t DEF Vanish, SetCtr
  <2> QED BY <1>8, <2>1, <1>5 DEF Vanish, Has
<1>9. CASE DaemonToggles \/ UNCHANGED vars
  <2>1. UNCHANGED <<ctr, native, row, op, rf>>
    BY <1>9 DEF DaemonToggles, vars
  <2> QED BY <2>1, <1>5 DEF Has
<1> QED BY <1>1, <1>2, <1>3, <1>4, <1>6, <1>7, <1>8, <1>9 DEF AloneNext

\* A row appears only by the upsert of a deploy or of a Refresh, of a unit that is there.
LEMMA RowStep ==
  ASSUME TypeInv, NEW s \in NativeSlugs, AloneOn(s), [AloneNext]_vars,
         row[s] = NoRow, row'[s] # NoRow
  PROVE  Shown(s)
<1>t. row \in [Slugs -> Rows \cup {NoRow}] /\ s \in Slugs
  <2>1. row \in [Slugs -> Rows \cup {NoRow}] BY Zenon DEF TypeInv, TypeOK
  <2>2. s \in Slugs BY ZenonT(60), SlugAssumption
  <2> QED BY <2>1, <2>2
<1>1. ASSUME NEW u \in Users, UserStep(u) PROVE Shown(s)
  <2>1. op[u].s = s
    BY <1>1, <1>t, UserFrame
  <2>2. CASE RecordRow(u)
    BY <2>2, <2>1 DEF RecordRow, At, AloneOn
  <2>3. CASE WriteRow(u)
    BY <2>3, <2>1 DEF WriteRow, At, AloneOn
  <2>4. ~RecordImage(u) /\ ~RecordInstances(u) /\ ~DeleteRow(u)
    BY <2>1, <1>t DEF RecordImage, RecordInstances, DeleteRow, SetCustomImage, SetInstances, DeleteDeployment
  <2> QED BY <1>1, <2>2, <2>3, <2>4 DEF UserStep, Progress, ListCopies, Pull, Replace, Create,
        StartCreated, StartFails, DeployNative, ScaleDown, Call, ReadRow, RemoveCopies, RemoveUnit,
        Fails, StopsThenFails
<1>2. ASSUME NEW r \in Refreshers, RefreshStep(r) \/ ListDocker(r) PROVE Shown(s)
  <2>1. ASSUME NEW x \in Slugs, NEW k \in Kinds, SyncRow(r, k, x) PROVE Shown(s)
    <3>1. x = s
      BY <2>1, <1>t DEF SyncRow, UpsertDeployment
    <3>2. <<k, s>> \in rf[r].todo /\ rf[r].pc # "idle"
      BY <2>1, <3>1 DEF SyncRow
    <3>3. CASE k = "docker"
      BY <3>2, <3>3, <1>t DEF TypeInv, TodoListed, AloneOn, Shown
    <3>4. CASE k = "native"
      BY <3>2, <3>4 DEF AloneOn, Shown
    <3> QED BY <3>3, <3>4 DEF Kinds
  <2>2. ASSUME NEW x \in Slugs, PruneRow(r, x) PROVE Shown(s)
    BY <2>2, <1>t DEF PruneRow, DeleteDeployment
  <2> QED BY <1>2, <2>1, <2>2 DEF RefreshStep, ListDocker, ListNative, EndSync, EndRefresh
<1>3. ASSUME NEW u \in Users, NEW x \in Slugs, Begin(u, x) PROVE UNCHANGED row
  BY ZenonT(60), <1>3 DEF Begin, BeginDeploy, BeginLifecycle, BeginRemove
<1> QED BY <1>1, <1>2, <1>3 DEF AloneNext, CopyCall, DaemonToggles, AppRestart, Exits, Vanish, vars

\* Whatever step of a deploy, a removal or a Refresh fails, and whenever the app dies, a
\* row is inserted only for a service whose container or native process is there, as
\* long as operations and Refreshes of that service do not overlap.
THEOREM RowsAreOfUnits == AloneSpec => RowsOnlyForUnits
<1> DEFINE Inv == TypeInv /\ \A s \in NativeSlugs : AloneOn(s)
<1>1. Init => Inv
  <2>1. Init => TypeInv
    BY TypeInit DEF Init, TypeInv, ReadFirst, TodoListed, IdleOp, IdleRf
  <2>2. ASSUME Init, NEW s \in NativeSlugs PROVE AloneOn(s)
    BY <2>2 DEF Init, AloneOn, BusyOn, OpOn, IdleOp, IdleRf
  <2> QED BY <2>1, <2>2
<1>2. Inv /\ [AloneNext]_vars => Inv'
  BY AloneIsNext, TypeStep, AloneStep
<1>3. Inv /\ [AloneNext]_vars =>
        [\A s \in NativeSlugs : row[s] = NoRow /\ row'[s] # NoRow => Shown(s)]_vars
  BY RowStep
<1> HIDE DEF Inv
<1> QED BY <1>1, <1>2, <1>3, PTL DEF AloneSpec, RowsOnlyForUnits
=============================================================================
