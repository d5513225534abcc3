-------------------------- MODULE ServiceDataProofs --------------------------
(***************************************************************************)
(* Proofs about ServiceData: for any number of the owner's calls at once   *)
(* and any number of slugs of one name, an added service starts with       *)
(* nothing and keeps its definition (AddedServicesHold), and what the      *)
(* backups of a service's state claim is true (BackupIsTrue).              *)
(***************************************************************************)
EXTENDS ServiceData, WellFoundedInduction, TLAPS

Pcs == {"idle", "list", "tombstone", "replace", "create", "row", "plan", "take", "volume", "unrow",
        "inspect", "pause", "read", "unpause", "save", "print", "confirm"}
Jobs == [pc : Pcs, op : {"", "deploy", "delete", "remove", "export", "confirm"}, s : Slugs,
         data : BOOLEAN, allow : BOOLEAN, crit : BOOLEAN, ok : BOOLEAN, mine : BOOLEAN,
         alone : BOOLEAN, crossed : BOOLEAN, file : Nat, id : Nat]

TypeOK ==
  /\ docker \in BOOLEAN /\ reported \in BOOLEAN
  /\ cont \in [Slugs -> [st : {"absent", "running", "paused", "exited"}, vol : Nat]]
  /\ vol \in [Slugs -> Nat] /\ made \in Nat
  /\ row \subseteq Slugs /\ def \in [Added -> {"never", "live", "deleted"}]
  /\ pr \in [Callers -> Jobs]

\* Where each call may stand; an export is of the catalog service.
PhaseOf(p) ==
  /\ pr[p].op = "" => At(p, "idle")
  /\ pr[p].op = "deploy" => pr[p].pc \in {"replace", "create", "row"}
  /\ pr[p].op = "delete" => pr[p].pc \in {"list", "tombstone"}
  /\ pr[p].op = "remove" => pr[p].pc \in {"plan", "take", "volume", "unrow"}
  /\ pr[p].op = "export" =>
       /\ pr[p].pc \in {"inspect", "pause", "read", "unpause", "save", "print", "confirm"}
       /\ pr[p].s = Cat
  /\ pr[p].op = "confirm" => pr[p].pc \in {"print", "confirm"}
  /\ pr[p].mine => pr[p].op = "export"
Typed == TypeOK /\ \A p \in Callers : PhaseOf(p)

----------------------------------------------------------------------------
(* What a step does to the calls.                                           *)

\* A call that is not under way.
LEMMA IdleType ==
  ASSUME Customs \in Nat
  PROVE  /\ Idle \in Jobs /\ Idle.pc = "idle" /\ Idle.op = "" /\ Idle.s = Cat
         /\ Idle.mine = FALSE /\ Idle.alone = TRUE /\ Idle.crossed = FALSE
  BY DEF Idle, Jobs, Pcs, Slugs, Cat

\* What stays of a call that does not move, or that another call marks.
SameBut(q) ==
  /\ pr'[q].pc = pr[q].pc /\ pr'[q].op = pr[q].op /\ pr'[q].s = pr[q].s /\ pr'[q].ok = pr[q].ok
  /\ pr'[q].mine = pr[q].mine /\ pr'[q].file = pr[q].file /\ pr'[q].id = pr[q].id
Same(q) == SameBut(q) /\ pr'[q].alone = pr[q].alone /\ pr'[q].crossed = pr[q].crossed

LEMMA OneMoves ==
  ASSUME TypeOK, NEW p \in Callers, NEW x \in Jobs, pr' = [pr EXCEPT ![p] = x]
  PROVE  /\ pr' \in [Callers -> Jobs] /\ pr'[p] = x
         /\ \A q \in Callers : q # p => Same(q)
  BY DEF TypeOK, Same, SameBut

LEMMA EndMoves ==
  ASSUME Customs \in Nat, TypeOK, NEW p \in Callers, End(p)
  PROVE  /\ pr' \in [Callers -> Jobs] /\ pr'[p] = Idle
         /\ \A q \in Callers : q # p => Same(q)
  BY OneMoves, IdleType DEF End

LEMMA GotoMoves ==
  ASSUME TypeOK, NEW p \in Callers, NEW pc \in Pcs, Goto(p, pc)
  PROVE  /\ pr' \in [Callers -> Jobs] /\ pr'[p].pc = pc /\ pr'[p].op = pr[p].op /\ pr'[p].s = pr[p].s
         /\ pr'[p].ok = pr[p].ok /\ pr'[p].mine = pr[p].mine /\ pr'[p].file = pr[p].file
         /\ pr'[p].id = pr[p].id /\ pr'[p].alone = pr[p].alone /\ pr'[p].crossed = pr[p].crossed
         /\ \A q \in Callers : q # p => Same(q)
<1>1. pr[p] \in Jobs
  BY DEF TypeOK
<1> DEFINE x == [pr[p] EXCEPT !.pc = pc]
<1>2. /\ x \in Jobs /\ x.pc = pc /\ x.op = pr[p].op /\ x.s = pr[p].s /\ x.ok = pr[p].ok
      /\ x.mine = pr[p].mine /\ x.file = pr[p].file /\ x.id = pr[p].id /\ x.alone = pr[p].alone
      /\ x.crossed = pr[p].crossed
  BY <1>1 DEF Jobs
<1>3. pr' = [pr EXCEPT ![p] = x]
  BY DEF Goto
<1> HIDE DEF x
<1> QED BY <1>2, <1>3, OneMoves

\* A call begins.
LEMMA Begins ==
  ASSUME Customs \in Nat, TypeOK, NEW p \in Callers, NEW pc \in Pcs, NEW s \in Slugs,
         NEW op \in {"deploy", "delete"},
         pr' = [pr EXCEPT ![p] = [Idle EXCEPT !.pc = pc, !.op = op, !.s = s]]
  PROVE  /\ pr' \in [Callers -> Jobs] /\ pr'[p].pc = pc /\ pr'[p].op = op /\ pr'[p].s = s
         /\ pr'[p].mine = FALSE
         /\ \A q \in Callers : q # p => Same(q)
<1> DEFINE x == [Idle EXCEPT !.pc = pc, !.op = op, !.s = s]
<1>1. x \in Jobs /\ x.pc = pc /\ x.op = op /\ x.s = s /\ x.mine = FALSE
  BY IdleType DEF Jobs
<1>2. pr' = [pr EXCEPT ![p] = x]
  OBVIOUS
<1> HIDE DEF x
<1> QED BY <1>1, <1>2, OneMoves

LEMMA RemoveBegins ==
  ASSUME Customs \in Nat, TypeOK, NEW p \in Callers, NEW s \in Slugs, NEW data \in BOOLEAN,
         NEW allow \in BOOLEAN, BeginRemove(p, s, data, allow)
  PROVE  /\ pr' \in [Callers -> Jobs] /\ pr'[p].pc = "plan" /\ pr'[p].op = "remove"
         /\ pr'[p].mine = FALSE
         /\ \A q \in Callers : q # p => Same(q)
<1> DEFINE crit == Critical(s)
<1> DEFINE x == [Idle EXCEPT !.pc = "plan", !.op = "remove", !.s = s, !.data = data,
                             !.allow = allow, !.crit = crit]
<1>1. crit \in BOOLEAN
  BY DEF Critical
<1>2. pr' = [pr EXCEPT ![p] = x]
  BY DEF BeginRemove
<1> HIDE DEF crit
<1>3. x \in Jobs /\ x.pc = "plan" /\ x.op = "remove" /\ x.mine = FALSE
  BY ZenonT(60), <1>1, IdleType DEF Jobs, Pcs
<1> HIDE DEF x
<1> QED BY <1>2, <1>3, OneMoves

LEMMA ExportBegins ==
  ASSUME Customs \in Nat, TypeOK, NEW p \in Callers, ExportStateBackup(p)
  PROVE  /\ pr' \in [Callers -> Jobs] /\ pr'[p].pc = "inspect" /\ pr'[p].op = "export"
         /\ pr'[p].s = Cat /\ pr'[p].mine = FALSE /\ pr'[p].alone = (Exporting = {})
         /\ \A q \in Callers : q # p =>
              SameBut(q) /\ pr'[q].crossed = pr[q].crossed /\ pr'[q].alone = (pr[q].alone /\ q \notin Exporting)
<1> DEFINE alone == Exporting = {}
<1> DEFINE x == [Idle EXCEPT !.pc = "inspect", !.op = "export", !.alone = alone]
<1> DEFINE y(q) == [pr[q] EXCEPT !.alone = @ /\ q \notin Exporting]
<1>1. alone \in BOOLEAN
  OBVIOUS
<1>2. pr' = [q \in Callers |-> IF q = p THEN x ELSE y(q)]
  BY DEF ExportStateBackup
<1>3. x \in Jobs /\ x.pc = "inspect" /\ x.op = "export" /\ x.s = Cat /\ x.mine = FALSE /\ x.alone = alone
  <2> HIDE DEF alone
  <2> QED BY <1>1, IdleType DEF Jobs, Pcs
<1>4. ASSUME NEW q \in Callers
      PROVE  /\ y(q) \in Jobs /\ y(q).pc = pr[q].pc /\ y(q).op = pr[q].op /\ y(q).s = pr[q].s
             /\ y(q).ok = pr[q].ok /\ y(q).mine = pr[q].mine /\ y(q).file = pr[q].file
             /\ y(q).id = pr[q].id /\ y(q).crossed = pr[q].crossed
             /\ y(q).alone = (pr[q].alone /\ q \notin Exporting)
  <2> DEFINE b == pr[q].alone /\ q \notin Exporting
  <2>1. pr[q] \in Jobs /\ b \in BOOLEAN /\ y(q) = [pr[q] EXCEPT !.alone = b]
    BY DEF TypeOK, Jobs
  <2> HIDE DEF b
  <2>2. /\ y(q) \in Jobs /\ y(q).pc = pr[q].pc /\ y(q).op = pr[q].op /\ y(q).s = pr[q].s
        /\ y(q).ok = pr[q].ok /\ y(q).mine = pr[q].mine /\ y(q).file = pr[q].file
        /\ y(q).id = pr[q].id /\ y(q).crossed = pr[q].crossed /\ y(q).alone = b
    BY <2>1 DEF Jobs
  <2> QED BY <2>2 DEF b
<1> HIDE DEF x, y
<1>5. pr' \in [Callers -> Jobs]
  BY <1>2, <1>3, <1>4
<1>6. pr'[p] = x /\ \A q \in Callers : q # p => pr'[q] = y(q)
  BY <1>2
<1> QED BY <1>3, <1>4, <1>5, <1>6 DEF SameBut

LEMMA VolumeTaken ==
  ASSUME Customs \in Nat, TypeOK, NEW p \in Callers, TakeVolume(p)
  PROVE  /\ pr' \in [Callers -> Jobs] /\ (pr'[p].mine => pr[p].mine)
         /\ pr'[p] = Idle \/ (pr'[p].pc = "unrow" /\ pr'[p].op = pr[p].op /\ pr'[p].s = pr[p].s)
         /\ \A q \in Callers : q # p =>
              SameBut(q) /\ pr'[q].alone = pr[q].alone /\ (pr[q].crossed => pr'[q].crossed)
         /\ \/ vol' = vol
            \/ /\ vol' = [vol EXCEPT ![pr[p].s] = 0] /\ ~Present(pr[p].s)
               /\ pr[p].s = Cat => \A q \in Callers : q # p => pr'[q].crossed
<1>1. CASE End(p) /\ UNCHANGED vol
  <2>1. /\ pr' \in [Callers -> Jobs] /\ pr'[p] = Idle /\ vol' = vol
        /\ \A q \in Callers : q # p => Same(q)
    BY <1>1, EndMoves
  <2>2. pr'[p].mine = FALSE
    BY <2>1, IdleType
  <2>3. ASSUME NEW q \in Callers, q # p
        PROVE  SameBut(q) /\ pr'[q].alone = pr[q].alone /\ (pr[q].crossed => pr'[q].crossed)
    BY <2>1, <2>3 DEF Same
  <2>4. pr'[p].mine => pr[p].mine
    BY <2>2
  <2> QED BY <2>1, <2>3, <2>4
<1>2. CASE /\ vol' = [vol EXCEPT ![pr[p].s] = 0] /\ ~Present(pr[p].s)
           /\ pr' = [q \in Callers |-> IF q = p THEN [pr[p] EXCEPT !.pc = "unrow"]
                                       ELSE [pr[q] EXCEPT !.crossed = @ \/ pr[p].s = Cat]]
  <2> DEFINE x == [pr[p] EXCEPT !.pc = "unrow"]
  <2> DEFINE y(q) == [pr[q] EXCEPT !.crossed = @ \/ pr[p].s = Cat]
  <2>1. pr' = [q \in Callers |-> IF q = p THEN x ELSE y(q)]
    BY <1>2
  <2>2. pr[p] \in Jobs
    BY DEF TypeOK
  <2>3. x \in Jobs /\ x.pc = "unrow" /\ x.op = pr[p].op /\ x.s = pr[p].s /\ x.mine = pr[p].mine
    BY <2>2 DEF Jobs, Pcs
  <2>4. ASSUME NEW q \in Callers
        PROVE  /\ y(q) \in Jobs /\ y(q).pc = pr[q].pc /\ y(q).op = pr[q].op /\ y(q).s = pr[q].s
               /\ y(q).ok = pr[q].ok /\ y(q).mine = pr[q].mine /\ y(q).file = pr[q].file
               /\ y(q).id = pr[q].id /\ y(q).alone = pr[q].alone
               /\ y(q).crossed = (pr[q].crossed \/ pr[p].s = Cat)
    <3> DEFINE b == pr[q].crossed \/ pr[p].s = Cat
    <3>1. pr[q] \in Jobs /\ b \in BOOLEAN /\ y(q) = [pr[q] EXCEPT !.crossed = b]
      BY DEF TypeOK, Jobs
    <3> HIDE DEF b
    <3>2. /\ y(q) \in Jobs /\ y(q).pc = pr[q].pc /\ y(q).op = pr[q].op /\ y(q).s = pr[q].s
          /\ y(q).ok = pr[q].ok /\ y(q).mine = pr[q].mine /\ y(q).file = pr[q].file
          /\ y(q).id = pr[q].id /\ y(q).alone = pr[q].alone /\ y(q).crossed = b
      BY <3>1 DEF Jobs
    <3> QED BY <3>2 DEF b
  <2> HIDE DEF x, y
  <2>5. pr' \in [Callers -> Jobs]
    BY <2>1, <2>3, <2>4
  <2>6. pr'[p] = x /\ \A q \in Callers : q # p => pr'[q] = y(q)
    BY <2>1
  <2>7. \A q \in Callers : q # p =>
          /\ SameBut(q) /\ pr'[q].alone = pr[q].alone
          /\ pr'[q].crossed = (pr[q].crossed \/ pr[p].s = Cat)
    BY <2>4, <2>6 DEF SameBut
  <2>8. \A q \in Callers : q # p =>
          /\ SameBut(q) /\ pr'[q].alone = pr[q].alone /\ (pr[q].crossed => pr'[q].crossed)
          /\ pr[p].s = Cat => pr'[q].crossed
    BY <2>7
  <2> QED BY <1>2, <2>3, <2>5, <2>6, <2>8
<1> QED BY <1>1, <1>2 DEF TakeVolume

----------------------------------------------------------------------------
(* Types, and the phases of the calls.                                      *)

Conts == [st : {"absent", "running", "paused", "exited"}, vol : Nat]

\* A container that is gone, or that changes its state, or that is made.
LEMMA ContGone ==
  ASSUME TypeOK, NEW s \in Slugs, cont' = [cont EXCEPT ![s] = NoCont]
  PROVE  /\ cont' \in [Slugs -> Conts] /\ cont'[s].st = "absent" /\ ~Present(s)'
         /\ \A t \in Slugs : t # s => cont'[t] = cont[t]
  BY DEF TypeOK, Conts, NoCont, Present

LEMMA ContTurns ==
  ASSUME TypeOK, NEW s \in Slugs, NEW st \in {"absent", "running", "paused", "exited"},
         cont' = [cont EXCEPT ![s].st = st]
  PROVE  /\ cont' \in [Slugs -> Conts] /\ cont'[s].st = st /\ cont'[s].vol = cont[s].vol
         /\ \A t \in Slugs : t # s => cont'[t] = cont[t]
<1> DEFINE x == [cont[s] EXCEPT !.st = st]
<1>1. cont[s] \in Conts /\ cont \in [Slugs -> Conts]
  BY DEF TypeOK, Conts
<1>2. x \in Conts /\ x.st = st /\ x.vol = cont[s].vol /\ cont' = [cont EXCEPT ![s] = x]
  BY <1>1 DEF Conts
<1> HIDE DEF x
<1> QED BY <1>1, <1>2

LEMMA ContMade ==
  ASSUME TypeOK, NEW s \in Slugs, NEW v \in Nat,
         cont' = [cont EXCEPT ![s] = [st |-> "running", vol |-> v]]
  PROVE  /\ cont' \in [Slugs -> Conts] /\ cont'[s].st = "running" /\ cont'[s].vol = v
         /\ \A t \in Slugs : t # s => cont'[t] = cont[t]
  BY DEF TypeOK, Conts

\* The volume a create finds or makes.
LEMMA VolumeMade ==
  ASSUME TypeOK, NEW p \in Callers, Create(p)
  PROVE  /\ vol' \in [Slugs -> Nat] /\ made' \in Nat /\ cont' \in [Slugs -> Conts]
         /\ \A t \in Slugs : t # pr[p].s => vol'[t] = vol[t] /\ cont'[t] = cont[t]
         /\ vol[pr[p].s] = 0 \/ vol'[pr[p].s] = vol[pr[p].s]
         /\ \/ End(p) /\ UNCHANGED <<cont, ran>>
            \/ /\ ~Present(pr[p].s) /\ cont'[pr[p].s].st = "running" /\ cont'[pr[p].s].vol = vol'[pr[p].s]
               /\ vol'[pr[p].s] # 0 /\ Goto(p, "row") /\ ran' = ran \cup Readers(pr[p].s)
<1> DEFINE s == pr[p].s
<1> DEFINE v == IF vol[s] = 0 THEN made + 1 ELSE vol[s]
<1>1. s \in Slugs /\ cont \in [Slugs -> Conts] /\ vol \in [Slugs -> Nat] /\ made \in Nat
  BY DEF TypeOK, Jobs, Conts
<1>2. v \in Nat /\ v # 0 /\ (vol[s] = 0 \/ v = vol[s])
  BY <1>1
<1>3. CASE End(p) /\ UNCHANGED <<cont, vol, made, ran>>
  BY <1>1, <1>3
<1>4. CASE /\ docker /\ ~Present(s)
           /\ vol' = [vol EXCEPT ![s] = v]
           /\ made' = IF v > made THEN v ELSE made
           /\ \/ cont' = [cont EXCEPT ![s] = [st |-> "running", vol |-> v]]
                 /\ Goto(p, "row") /\ ran' = ran \cup Readers(s)
              \/ End(p) /\ UNCHANGED <<cont, ran>>
  <2> HIDE DEF s, v
  <2>1. vol' \in [Slugs -> Nat] /\ vol'[s] = v /\ \A t \in Slugs : t # s => vol'[t] = vol[t]
    BY <1>1, <1>2, <1>4
  <2>2. made' \in Nat
    BY <1>1, <1>2, <1>4
  <2>3. CASE /\ cont' = [cont EXCEPT ![s] = [st |-> "running", vol |-> v]]
             /\ Goto(p, "row") /\ ran' = ran \cup Readers(s)
    <3>1. /\ cont' \in [Slugs -> Conts] /\ cont'[s].st = "running" /\ cont'[s].vol = v
          /\ \A t \in Slugs : t # s => cont'[t] = cont[t]
      BY <1>1, <1>2, <2>3, ContMade
    <3> QED BY <1>2, <1>4, <2>1, <2>2, <2>3, <3>1 DEF s
  <2>4. CASE End(p) /\ UNCHANGED <<cont, ran>>
    BY <1>1, <1>2, <2>1, <2>2, <2>4 DEF s
  <2> QED BY <1>4, <2>3, <2>4
<1>5. \/ End(p) /\ UNCHANGED <<cont, vol, made, ran>>
      \/ /\ docker /\ ~Present(s)
         /\ vol' = [vol EXCEPT ![s] = v]
         /\ made' = IF v > made THEN v ELSE made
         /\ \/ cont' = [cont EXCEPT ![s] = [st |-> "running", vol |-> v]]
               /\ Goto(p, "row") /\ ran' = ran \cup Readers(s)
            \/ End(p) /\ UNCHANGED <<cont, ran>>
  BY DEF Create
<1> QED BY <1>3, <1>4, <1>5

Rest == /\ docker \in BOOLEAN /\ reported \in BOOLEAN /\ cont \in [Slugs -> Conts]
        /\ vol \in [Slugs -> Nat] /\ made \in Nat
        /\ row \subseteq Slugs /\ def \in [Added -> {"never", "live", "deleted"}]

LEMMA SplitType == TypeOK <=> Rest /\ pr \in [Callers -> Jobs]
  BY DEF TypeOK, Rest, Conts

LEMMA StepRest ==
  ASSUME Customs \in Nat, Typed, NEW p \in Callers, Step(p)
  PROVE  Rest'
<1>1. Rest /\ TypeOK /\ pr[p].s \in Slugs /\ Cat \in Slugs
  <2>1. TypeOK /\ Rest /\ pr \in [Callers -> Jobs]
    BY SplitType DEF Typed
  <2>2. pr[p].s \in Slugs
    BY <2>1 DEF Jobs
  <2>3. Cat \in Slugs
    BY DEF Cat, Slugs
  <2> QED BY <2>1, <2>2, <2>3
<1>2. CASE \/ WriteRow(p) \/ Plan(p) \/ DeleteRow(p) \/ Inspect(p) \/ Read(p) \/ Save(p)
           \/ StateFingerprint(p) \/ Record(p) \/ ListForDelete(p) \/ Tombstone(p)
  <2>1. UNCHANGED <<docker, cont, vol, made, reported>> /\ row' \subseteq Slugs
        /\ (def' = def \/ def' = [def EXCEPT ![pr[p].s] = "deleted"])
    BY <1>1, <1>2 DEF Rest, WriteRow, Plan, DeleteRow, Inspect, Read, Save, StateFingerprint, Record,
         ListForDelete, Tombstone, history
  <2>2. def' \in [Added -> {"never", "live", "deleted"}]
    BY <1>1, <2>1 DEF Rest
  <2> QED BY <1>1, <2>1, <2>2 DEF Rest
<1>3. CASE Replace(p) \/ TakeContainer(p)
  <2>1. UNCHANGED <<docker, vol, made, reported, row, def>>
        /\ (cont' = cont \/ cont' = [cont EXCEPT ![pr[p].s] = NoCont])
    BY <1>3 DEF Replace, TakeContainer, history
  <2>2. cont' \in [Slugs -> Conts]
    BY <1>1, <2>1, ContGone DEF Rest
  <2> QED BY <1>1, <2>1, <2>2 DEF Rest
<1>4. CASE Create(p)
  <2>1. UNCHANGED <<docker, reported, row, def>>
    BY <1>4 DEF Create
  <2> QED BY <1>1, <1>4, <2>1, VolumeMade DEF Rest
<1>5. CASE TakeVolume(p)
  <2>1. UNCHANGED <<docker, reported, row, def, cont, made>>
        /\ (vol' = vol \/ vol' = [vol EXCEPT ![pr[p].s] = 0])
    BY <1>5 DEF TakeVolume, history
  <2>2. vol' \in [Slugs -> Nat]
    BY <1>1, <2>1 DEF Rest
  <2> QED BY <1>1, <2>1, <2>2 DEF Rest
<1>6. CASE Pause(p) \/ Unpause(p)
  <2>1. UNCHANGED <<docker, vol, made, row, def>>
        /\ (\/ cont' = cont \/ cont' = [cont EXCEPT ![Cat].st = "paused"]
            \/ cont' = [cont EXCEPT ![Cat].st = "running"])
    BY <1>6 DEF Pause, Unpause, history
  <2>2. cont' \in [Slugs -> Conts]
    BY <1>1, <2>1, ContTurns DEF Rest
  <2>3. reported' \in BOOLEAN
    BY <1>1, <1>6 DEF Pause, Unpause, history, Rest
  <2> QED BY <1>1, <2>1, <2>2, <2>3 DEF Rest
<1> QED BY <1>2, <1>3, <1>4, <1>5, <1>6 DEF Step

LEMMA OthersPhased ==
  ASSUME Typed, NEW q \in Callers, SameBut(q)
  PROVE  PhaseOf(q)'
  BY DEF Typed, PhaseOf, SameBut, At

LEMMA EndedPhased ==
  ASSUME Customs \in Nat, NEW p \in Callers, pr'[p] = Idle
  PROVE  PhaseOf(p)'
  BY IdleType DEF PhaseOf, At

\* How a call of the owner is under way after its step: where the phases allow.
LEMMA StepPhased ==
  ASSUME Customs \in Nat, Typed, NEW p \in Callers, Step(p)
  PROVE  /\ pr' \in [Callers -> Jobs] /\ PhaseOf(p)'
         /\ pr'[p].op \in {pr[p].op, ""} /\ (pr'[p].op # "" => pr'[p].s = pr[p].s)
         /\ \A q \in Callers : q # p => SameBut(q) /\ pr'[q].alone = pr[q].alone
<1>1. TypeOK /\ PhaseOf(p) /\ pr[p] \in Jobs
  BY DEF Typed, TypeOK
<1>2. CASE End(p)
  <2>1. /\ pr' \in [Callers -> Jobs] /\ pr'[p] = Idle /\ pr'[p].op = ""
        /\ \A q \in Callers : q # p => Same(q)
    BY <1>1, <1>2, EndMoves, IdleType
  <2> QED BY <2>1, EndedPhased DEF Same
<1>3. ASSUME NEW pc \in Pcs, Goto(p, pc),
             \/ pr[p].pc = "list" /\ pc = "tombstone"
             \/ pr[p].pc = "replace" /\ pc = "create"
             \/ pr[p].pc = "create" /\ pc = "row"
             \/ pr[p].pc = "plan" /\ pc = "take"
             \/ pr[p].pc = "take" /\ pc \in {"volume", "unrow"}
             \/ pr[p].pc = "inspect" /\ pc \in {"pause", "read"}
             \/ pr[p].pc = "unpause" /\ pc = "save"
             \/ pr[p].pc = "save" /\ pc = "print"
      PROVE  /\ pr' \in [Callers -> Jobs] /\ PhaseOf(p)'
             /\ pr'[p].op \in {pr[p].op, ""} /\ (pr'[p].op # "" => pr'[p].s = pr[p].s)
             /\ \A q \in Callers : q # p => SameBut(q) /\ pr'[q].alone = pr[q].alone
  <2>1. /\ pr' \in [Callers -> Jobs] /\ pr'[p].pc = pc /\ pr'[p].op = pr[p].op /\ pr'[p].s = pr[p].s
        /\ pr'[p].mine = pr[p].mine
        /\ \A q \in Callers : q # p => Same(q)
    BY <1>1, <1>3, GotoMoves
  <2>2. PhaseOf(p)'
    BY <1>1, <1>3, <2>1 DEF PhaseOf, At
  <2> QED BY <2>1, <2>2 DEF Same
<1>4. ASSUME NEW x \in Jobs, pr' = [pr EXCEPT ![p] = x], x.op = pr[p].op, x.s = pr[p].s,
             \/ pr[p].pc = "pause" /\ x.pc = "read"
             \/ pr[p].pc = "read" /\ x.pc = "unpause" /\ x.mine = pr[p].mine
             \/ pr[p].pc = "print" /\ x.pc = "confirm" /\ x.mine = pr[p].mine
      PROVE  /\ pr' \in [Callers -> Jobs] /\ PhaseOf(p)'
             /\ pr'[p].op \in {pr[p].op, ""} /\ (pr'[p].op # "" => pr'[p].s = pr[p].s)
             /\ \A q \in Callers : q # p => SameBut(q) /\ pr'[q].alone = pr[q].alone
  <2>1. /\ pr' \in [Callers -> Jobs] /\ pr'[p] = x /\ \A q \in Callers : q # p => Same(q)
    BY <1>1, <1>4, OneMoves
  <2>2. pr[p].op \in {"", "deploy", "delete", "remove", "export", "confirm"}
    BY <1>1 DEF Jobs
  <2>3. PhaseOf(p)'
    BY <1>1, <1>4, <2>1, <2>2 DEF PhaseOf, At
  <2> QED BY <1>4, <2>1, <2>3 DEF Same
<1>5. CASE ListForDelete(p) \/ Replace(p) \/ Plan(p) \/ TakeContainer(p) \/ Inspect(p) \/ Unpause(p)
           \/ Save(p)
  <2>1. \/ End(p)
        \/ pr[p].pc = "list" /\ Goto(p, "tombstone")
        \/ pr[p].pc = "replace" /\ Goto(p, "create")
        \/ pr[p].pc = "plan" /\ Goto(p, "take")
        \/ pr[p].pc = "take" /\ (Goto(p, "volume") \/ Goto(p, "unrow"))
        \/ pr[p].pc = "inspect" /\ (Goto(p, "pause") \/ Goto(p, "read"))
        \/ pr[p].pc = "unpause" /\ Goto(p, "save")
        \/ pr[p].pc = "save" /\ Goto(p, "print")
    BY <1>5 DEF ListForDelete, Replace, Plan, TakeContainer, Inspect, Unpause, Save, At
  <2> QED BY <1>2, <1>3, <2>1 DEF Pcs
<1>6. CASE Tombstone(p) \/ WriteRow(p) \/ DeleteRow(p) \/ Record(p)
  BY <1>2, <1>6 DEF Tombstone, WriteRow, DeleteRow, Record
<1>7. CASE Create(p)
  <2>1. pr[p].pc = "create" /\ (End(p) \/ Goto(p, "row"))
    BY <1>7 DEF Create, At
  <2> QED BY <1>2, <1>3, <2>1 DEF Pcs
<1>8. CASE TakeVolume(p)
  <2>1. /\ pr' \in [Callers -> Jobs] /\ (pr'[p].mine => pr[p].mine)
        /\ pr'[p] = Idle \/ (pr'[p].pc = "unrow" /\ pr'[p].op = pr[p].op /\ pr'[p].s = pr[p].s)
        /\ \A q \in Callers : q # p => SameBut(q) /\ pr'[q].alone = pr[q].alone
    BY <1>1, <1>8, VolumeTaken
  <2>2. pr[p].pc = "volume"
    BY <1>8 DEF TakeVolume, At
  <2>3. CASE pr'[p] = Idle
    BY <2>1, <2>3, EndedPhased, IdleType
  <2>4. CASE pr'[p].pc = "unrow" /\ pr'[p].op = pr[p].op /\ pr'[p].s = pr[p].s
    BY <1>1, <2>1, <2>2, <2>4 DEF PhaseOf, At
  <2> QED BY <2>1, <2>3, <2>4
<1>9. CASE Pause(p)
  <2> DEFINE x == [pr[p] EXCEPT !.pc = "read", !.mine = TRUE]
  <2>1. x \in Jobs /\ x.pc = "read" /\ x.op = pr[p].op /\ x.s = pr[p].s
    BY <1>1 DEF Jobs, Pcs
  <2>2. pr[p].pc = "pause" /\ (End(p) \/ pr' = [pr EXCEPT ![p] = x])
    BY <1>9 DEF Pause, At
  <2> HIDE DEF x
  <2> QED BY <1>2, <1>4, <2>1, <2>2
<1>10. CASE Read(p)
  <2> DEFINE ok == Reachable(Cat)
  <2> DEFINE file == IF Reachable(Cat) THEN cont[Cat].vol ELSE 0
  <2> DEFINE x == [pr[p] EXCEPT !.pc = "unpause", !.ok = ok, !.file = file]
  <2>1. pr[p].pc = "read" /\ pr' = [pr EXCEPT ![p] = x]
    BY <1>10 DEF Read, At
  <2>2. ok \in BOOLEAN /\ file \in Nat
    BY <1>1 DEF TypeOK, Reachable, Present, Slugs, Cat
  <2> HIDE DEF ok, file
  <2>3. x \in Jobs /\ x.pc = "unpause" /\ x.op = pr[p].op /\ x.s = pr[p].s /\ x.mine = pr[p].mine
    BY <1>1, <2>2 DEF Jobs, Pcs
  <2> HIDE DEF x
  <2> QED BY <1>4, <2>1, <2>3
<1>11. CASE StateFingerprint(p)
  <2> DEFINE id == Fingerprint
  <2> DEFINE x == [pr[p] EXCEPT !.pc = "confirm", !.id = id]
  <2>1. pr[p].pc = "print" /\ pr' = [pr EXCEPT ![p] = x]
    BY <1>11 DEF StateFingerprint, At
  <2>2. id \in Nat
    BY <1>1 DEF TypeOK, Fingerprint, Slugs, Cat
  <2> HIDE DEF id
  <2>3. x \in Jobs /\ x.pc = "confirm" /\ x.op = pr[p].op /\ x.s = pr[p].s /\ x.mine = pr[p].mine
    BY <1>1, <2>2 DEF Jobs, Pcs
  <2> HIDE DEF x
  <2> QED BY <1>4, <2>1, <2>3
<1> QED BY <1>5, <1>6, <1>7, <1>8, <1>9, <1>10, <1>11 DEF Step

LEMMA CallPhased ==
  ASSUME Customs \in Nat, Typed, NEW p \in Callers, Call(p)
  PROVE  /\ pr' \in [Callers -> Jobs] /\ PhaseOf(p)' /\ At(p, "idle") /\ pr'[p].mine = FALSE
         /\ UNCHANGED <<docker, cont, vol, made, row, def, conf, ran, blind, reported>>
         /\ \A q \in Callers : q # p => SameBut(q)
<1>1. TypeOK /\ Cat \in Slugs /\ Added \subseteq Slugs
  BY DEF Typed, Slugs, Cat, Added
<1>2. /\ At(p, "idle")
      /\ UNCHANGED <<docker, cont, vol, made, row, def, conf, ran, blind, reported>>
  BY DEF Call, DeleteCustom, BeginDeploy, BeginRemove, ExportStateBackup, ConfirmStateBackup, history
<1>3. ASSUME NEW s \in Added, DeleteCustom(p, s)
      PROVE  /\ pr' \in [Callers -> Jobs] /\ PhaseOf(p)' /\ pr'[p].mine = FALSE
             /\ \A q \in Callers : q # p => SameBut(q)
  <2>1. /\ pr' \in [Callers -> Jobs] /\ pr'[p].pc = "list" /\ pr'[p].op = "delete" /\ pr'[p].mine = FALSE
        /\ \A q \in Callers : q # p => Same(q)
    BY ZenonT(60), <1>1, <1>3, Begins DEF DeleteCustom, Pcs
  <2> QED BY <2>1 DEF PhaseOf, Same
<1>4. ASSUME NEW s \in Slugs, BeginDeploy(p, s)
      PROVE  /\ pr' \in [Callers -> Jobs] /\ PhaseOf(p)' /\ pr'[p].mine = FALSE
             /\ \A q \in Callers : q # p => SameBut(q)
  <2>1. /\ pr' \in [Callers -> Jobs] /\ pr'[p].pc = "replace" /\ pr'[p].op = "deploy" /\ pr'[p].mine = FALSE
        /\ \A q \in Callers : q # p => Same(q)
    BY ZenonT(60), <1>1, <1>4, Begins DEF BeginDeploy, Pcs
  <2> QED BY <2>1 DEF PhaseOf, Same
<1>5. ASSUME NEW s \in Slugs, NEW data \in BOOLEAN, NEW allow \in BOOLEAN, BeginRemove(p, s, data, allow)
      PROVE  /\ pr' \in [Callers -> Jobs] /\ PhaseOf(p)' /\ pr'[p].mine = FALSE
             /\ \A q \in Callers : q # p => SameBut(q)
  BY <1>1, <1>5, RemoveBegins DEF PhaseOf, Same
<1>6. CASE ExportStateBackup(p)
  BY <1>1, <1>2, <1>6, ExportBegins DEF PhaseOf
<1>7. CASE ConfirmStateBackup(p)
  <2> DEFINE none == vol[Cat] = 0
  <2> DEFINE x == [Idle EXCEPT !.pc = "print", !.op = "confirm", !.file = vol[Cat], !.crossed = none]
  <2>1. none \in BOOLEAN /\ vol[Cat] \in Nat /\ pr' = [pr EXCEPT ![p] = x]
    BY <1>1, <1>7 DEF TypeOK, ConfirmStateBackup
  <2> HIDE DEF none
  <2>2. x \in Jobs /\ x.pc = "print" /\ x.op = "confirm" /\ x.mine = FALSE
    BY <2>1, IdleType DEF Jobs, Pcs
  <2> HIDE DEF x
  <2>3. /\ pr' \in [Callers -> Jobs] /\ pr'[p] = x
        /\ \A q \in Callers : q # p => Same(q)
    BY <1>1, <2>1, <2>2, OneMoves
  <2>4. PhaseOf(p)'
    BY <2>2, <2>3 DEF PhaseOf
  <2> QED BY <1>2, <2>2, <2>3, <2>4 DEF Same
<1> QED BY <1>2, <1>3, <1>4, <1>5, <1>6, <1>7 DEF Call

LEMMA TypedStep ==
  ASSUME Customs \in Nat, Typed, [Next]_vars
  PROVE  Typed'
<1>1. TypeOK /\ Rest /\ pr \in [Callers -> Jobs]
  BY SplitType DEF Typed
<1>2. ASSUME NEW p \in Callers, Step(p)
      PROVE  Typed'
  <2>1. Rest' /\ pr' \in [Callers -> Jobs] /\ PhaseOf(p)' /\ \A q \in Callers : q # p => SameBut(q)
    BY <1>2, StepRest, StepPhased
  <2>2. \A q \in Callers : PhaseOf(q)'
    BY <2>1, OthersPhased
  <2> QED BY <2>1, <2>2 DEF Typed, TypeOK, Rest, Conts
<1>3. ASSUME NEW p \in Callers, Call(p)
      PROVE  Typed'
  <2>1. /\ UNCHANGED <<docker, cont, vol, made, row, def, reported>> /\ pr' \in [Callers -> Jobs]
        /\ PhaseOf(p)' /\ \A q \in Callers : q # p => SameBut(q)
    BY <1>3, CallPhased
  <2>2. \A q \in Callers : PhaseOf(q)'
    BY <2>1, OthersPhased
  <2> QED BY <1>1, <2>1, <2>2 DEF Typed, TypeOK
<1>4. CASE SaveCustom \/ UndoStateBackup \/ Daemon \/ UNCHANGED vars
  <2>1. /\ UNCHANGED <<cont, vol, made, row, reported, pr>> /\ docker' \in BOOLEAN
        /\ (def' = def \/ def' = [def EXCEPT ![MakeCustomSlug] = "live"])
    BY <1>1, <1>4 DEF SaveCustom, UndoStateBackup, Daemon, vars, history, TypeOK
  <2>2. def' \in [Added -> {"never", "live", "deleted"}]
    BY <1>1, <2>1 DEF TypeOK
  <2>3. \A q \in Callers : PhaseOf(q)'
    BY <2>1, OthersPhased DEF SameBut
  <2> QED BY <1>1, <2>1, <2>2, <2>3 DEF Typed, TypeOK
<1>5. ASSUME NEW s \in Slugs, NEW st \in {"running", "exited"}, Touch(s, st)
      PROVE  Typed'
  <2>1. UNCHANGED <<docker, vol, made, row, def, reported, pr>> /\ cont' = [cont EXCEPT ![s].st = st]
    BY <1>5 DEF Touch
  <2>2. cont' \in [Slugs -> Conts]
    BY <1>1, <2>1, ContTurns
  <2>3. \A q \in Callers : PhaseOf(q)'
    BY <2>1, OthersPhased DEF SameBut
  <2> QED BY <1>1, <2>1, <2>2, <2>3 DEF Typed, TypeOK, Conts
<1>6. CASE AppKilled
  <2>1. /\ UNCHANGED <<docker, cont, vol, made, row, def>> /\ reported' = TRUE
        /\ pr' = [p \in Callers |-> Idle]
    BY <1>6 DEF AppKilled
  <2>2. pr' \in [Callers -> Jobs] /\ \A q \in Callers : PhaseOf(q)'
    BY <2>1, IdleType, EndedPhased
  <2> QED BY <1>1, <2>1, <2>2 DEF Typed, TypeOK
<1> QED BY <1>2, <1>3, <1>4, <1>5, <1>6 DEF Next

LEMMA TypedInit ==
  ASSUME Customs \in Nat, Init
  PROVE  Typed
<1>1. docker \in BOOLEAN /\ reported \in BOOLEAN /\ made \in Nat /\ row \subseteq Slugs
  BY DEF Init
<1>2. /\ cont \in [Slugs -> [st : {"absent", "running", "paused", "exited"}, vol : Nat]]
      /\ vol \in [Slugs -> Nat] /\ def \in [Added -> {"never", "live", "deleted"}]
  BY DEF Init, NoCont
<1>3. pr \in [Callers -> Jobs] /\ \A p \in Callers : pr[p] = Idle
  BY IdleType DEF Init
<1>4. \A p \in Callers : PhaseOf(p)
  BY <1>3, IdleType DEF PhaseOf, At
<1> QED BY <1>1, <1>2, <1>3, <1>4 DEF Typed, TypeOK

----------------------------------------------------------------------------
(* Added services.                                                          *)

\* Whoever deploys or deletes a slug has its definition; a delete has it to itself, without
\* a row, and marks it deleted when it has no container or the daemon hid it.
AddedOf(p) ==
  /\ pr[p].op = "deploy" /\ pr[p].s \in Added => def[pr[p].s] = "live"
  /\ pr[p].op = "delete" => pr[p].s \in Added /\ def[pr[p].s] = "live" /\ pr[p].s \notin row
  /\ At(p, "tombstone") => ~Present(pr[p].s) \/ pr[p].s \in blind
Apart(p, q) ==
  pr[p].op = "delete" =>
    /\ pr[q].op = "deploy" => pr[p].s # pr[q].s
    /\ pr[q].op = "delete" => p = q
\* A slug that was never given out has nothing.
UnusedIsEmpty == \A s \in Added : def[s] = "never" => vol[s] = 0 /\ ~Present(s) /\ s \notin row
AddedInv ==
  /\ \A p \in Callers : AddedOf(p)
  /\ \A p, q \in Callers : Apart(p, q)
  /\ UnusedIsEmpty /\ ContainerHasDefinition

\* A call that has begun and neither deploys nor deletes, and one that has ended or gone on.
Milder(q) ==
  /\ pr'[q].op \in {"deploy", "delete"} => pr'[q].op = pr[q].op /\ pr'[q].s = pr[q].s
  /\ At(q, "tombstone")' => At(q, "tombstone")

\* What takes away, and gives nothing to a slug, keeps them.
LEMMA AddedFrame ==
  ASSUME Typed', AddedInv, def' = def, row' \subseteq row, blind \subseteq blind',
         \A s \in Slugs : (Present(s)' => Present(s)) /\ (vol[s] = 0 => vol'[s] = 0),
         \A q \in Callers : Milder(q)
  PROVE  AddedInv'
<1>1. Added \subseteq Slugs
  BY DEF Added
<1>2. ASSUME NEW q \in Callers
      PROVE  AddedOf(q)'
  <2>1. AddedOf(q) /\ Milder(q)
    BY DEF AddedInv
  <2>2. At(q, "tombstone")' => pr'[q].op = "delete" /\ pr'[q].s \in Slugs
    BY DEF Typed, TypeOK, Jobs, PhaseOf, At
  <2> QED BY <2>1, <2>2 DEF AddedOf, Milder
<1>3. ASSUME NEW p \in Callers, NEW q \in Callers
      PROVE  Apart(p, q)'
  <2>1. Apart(p, q) /\ Milder(p) /\ Milder(q)
    BY DEF AddedInv
  <2> QED BY <2>1 DEF Apart, Milder
<1>4. UnusedIsEmpty'
  BY <1>1 DEF AddedInv, UnusedIsEmpty
<1>5. ContainerHasDefinition'
  BY <1>1 DEF AddedInv, ContainerHasDefinition
<1> QED BY <1>2, <1>3, <1>4, <1>5 DEF AddedInv

\* The slug a save gives out was never used: there is a least one.
LEMMA MakesUnused ==
  ASSUME Customs \in Nat, Added \ Taken # {}
  PROVE  MakeCustomSlug \in Added \ Taken
<1> DEFINE T == Added \ Taken
<1>1. T \subseteq Nat /\ T # {}
  BY DEF Added, Slugs
<1> DEFINE less == OpToRel(<, Nat)
<1>2. IsWellFoundedOn(less, Nat)
  BY NatLessThanWellFounded
<1>3. \A x, y \in Nat : y < x => <<y, x>> \in less
  BY DEF OpToRel
<1> HIDE DEF less, T
<1>4. \E x \in T : \A y \in T : ~(<<y, x>> \in less)
  BY <1>1, <1>2, WFMin
<1>5. PICK x \in T : \A y \in T : ~(<<y, x>> \in less)
  BY <1>4
<1>6. ASSUME NEW y \in T
      PROVE  x <= y
  <2>1. x \in Nat /\ y \in Nat
    BY <1>1
  <2>2. ~(y < x)
    BY <1>3, <1>5, <2>1
  <2> QED BY <2>1, <2>2
<1> QED BY <1>5, <1>6 DEF MakeCustomSlug, T

LEMMA StepMilder ==
  ASSUME Customs \in Nat, Typed, Typed', NEW p \in Callers, Step(p),
         ~At(p, "list"), ~At(p, "tombstone")
  PROVE  \A q \in Callers : Milder(q)
<1>1. /\ PhaseOf(p) /\ PhaseOf(p)' /\ pr'[p].op \in {pr[p].op, ""}
      /\ pr'[p].op # "" => pr'[p].s = pr[p].s
      /\ \A q \in Callers : q # p => SameBut(q)
  BY StepPhased DEF Typed
<1>2. pr'[p] \in Jobs
  BY DEF Typed, TypeOK
<1>3. At(p, "tombstone")' => pr'[p].op = "delete"
  BY <1>1, <1>2 DEF PhaseOf, At, Jobs
<1>4. Milder(p)
  BY <1>1, <1>3 DEF Milder, PhaseOf, At
<1>5. ASSUME NEW q \in Callers, q # p
      PROVE  Milder(q)
  BY <1>1, <1>5 DEF Milder, SameBut, At
<1> QED BY <1>4, <1>5

\* What the steps of the calls that neither delete, create nor write a row do.
LEMMA AddedQuiet ==
  ASSUME Customs \in Nat, Typed, Typed', AddedInv, NEW p \in Callers, Step(p),
         ~(ListForDelete(p) \/ Tombstone(p) \/ Create(p) \/ WriteRow(p))
  PROVE  AddedInv' /\ def' = def
<1>1. TypeOK /\ pr[p].s \in Slugs /\ Cat \in Slugs
  <2>1. TypeOK /\ pr[p].s \in Slugs
    BY DEF Typed, TypeOK, Jobs
  <2>2. Cat \in Slugs
    BY DEF Slugs, Cat
  <2> QED BY <2>1, <2>2
<1>2. \/ Replace(p) \/ Plan(p) \/ TakeContainer(p) \/ TakeVolume(p) \/ DeleteRow(p)
      \/ Inspect(p) \/ Pause(p) \/ Read(p) \/ Unpause(p) \/ Save(p) \/ StateFingerprint(p) \/ Record(p)
  BY DEF Step
<1>3. ~At(p, "list") /\ ~At(p, "tombstone")
  BY <1>2 DEF Replace, Plan, TakeContainer, TakeVolume, DeleteRow, Inspect, Pause, Read, Unpause,
       Save, StateFingerprint, Record, At
<1>4. \A q \in Callers : Milder(q)
  BY <1>3, StepMilder
<1>5. def' = def /\ blind' = blind /\ row' \subseteq row
  BY <1>2 DEF Replace, Plan, TakeContainer, TakeVolume, DeleteRow, Inspect, Pause, Read, Unpause,
       Save, StateFingerprint, Record, history
<1>6. vol' = vol \/ vol' = [vol EXCEPT ![pr[p].s] = 0]
  BY <1>2 DEF Replace, Plan, TakeContainer, TakeVolume, DeleteRow, Inspect, Pause, Read, Unpause,
       Save, StateFingerprint, Record, history
<1>7. \A s \in Slugs : vol[s] = 0 => vol'[s] = 0
  BY <1>1, <1>6 DEF TypeOK
<1>8. \A s \in Slugs : Present(s)' => Present(s)
  <2>1. CASE Pause(p) \/ Unpause(p)
    <3>1. \/ cont' = cont
          \/ /\ cont[Cat].st \in {"running", "paused"}
             /\ cont' = [cont EXCEPT ![Cat].st = "paused"] \/ cont' = [cont EXCEPT ![Cat].st = "running"]
      BY <2>1 DEF Pause, Unpause
    <3> QED BY <1>1, <3>1, ContTurns DEF Present
  <2>2. CASE Replace(p) \/ TakeContainer(p)
    <3>1. cont' = cont \/ cont' = [cont EXCEPT ![pr[p].s] = NoCont]
      BY <2>2 DEF Replace, TakeContainer
    <3> QED BY <1>1, <3>1, ContGone DEF Present
  <2>3. CASE ~(Pause(p) \/ Unpause(p) \/ Replace(p) \/ TakeContainer(p))
    <3>1. cont' = cont
      BY <1>2, <2>3 DEF Plan, TakeVolume, DeleteRow, Inspect, Read, Save, StateFingerprint, Record, history
    <3> QED BY <3>1 DEF Present
  <2> QED BY <2>1, <2>2, <2>3
<1> QED BY <1>4, <1>5, <1>7, <1>8, AddedFrame

\* A delete goes on when there is no container, or the daemon does not say so.
LEMMA ListAdded ==
  ASSUME Customs \in Nat, Typed, Typed', AddedInv, NEW p \in Callers, ListForDelete(p)
  PROVE  AddedInv'
<1>1. /\ UNCHANGED <<cont, vol, row, def>> /\ At(p, "list") /\ TypeOK /\ blind \subseteq blind'
      /\ End(p) \/ (Goto(p, "tombstone") /\ (~Present(pr[p].s) \/ pr[p].s \in blind'))
  BY DEF ListForDelete, Reachable, Typed
<1>2. \A s \in Slugs : Present(s)' = Present(s)
  BY <1>1 DEF Present
<1>3. /\ \A q \in Callers : q # p => Same(q)
      /\ \/ pr'[p] = Idle
         \/ /\ pr'[p].op = pr[p].op /\ pr'[p].s = pr[p].s
            /\ ~Present(pr[p].s) \/ pr[p].s \in blind'
  BY <1>1, EndMoves, GotoMoves DEF Pcs
<1>4. /\ pr'[p].op \in {"deploy", "delete"} => pr'[p].op = pr[p].op /\ pr'[p].s = pr[p].s
      /\ At(p, "tombstone")' => pr'[p].s = pr[p].s /\ (~Present(pr[p].s) \/ pr[p].s \in blind')
  BY <1>3, IdleType DEF At
<1>5. pr[p].s \in Slugs
  BY <1>1 DEF TypeOK, Jobs
<1>6. AddedOf(p)'
  BY <1>1, <1>2, <1>4, <1>5 DEF AddedInv, AddedOf
<1>7. ASSUME NEW q \in Callers, q # p
      PROVE  AddedOf(q)'
  <2>1. AddedOf(q) /\ SameBut(q) /\ pr[q].s \in Slugs
    BY <1>1, <1>3, <1>7 DEF AddedInv, Same, TypeOK, Jobs
  <2> QED BY <1>1, <1>2, <2>1 DEF AddedOf, SameBut, At
<1>8. \A q \in Callers : pr'[q].op \in {"deploy", "delete"} => pr'[q].op = pr[q].op /\ pr'[q].s = pr[q].s
  BY <1>3, <1>4 DEF Same, SameBut
<1>9. \A q, r \in Callers : Apart(q, r)'
  BY <1>8 DEF AddedInv, Apart
<1>10. UnusedIsEmpty'
  BY <1>1, <1>2 DEF AddedInv, UnusedIsEmpty, Added
<1>11. ContainerHasDefinition'
  BY <1>1, <1>2 DEF AddedInv, ContainerHasDefinition, Added
<1> QED BY <1>6, <1>7, <1>9, <1>10, <1>11 DEF AddedInv

\* What is marked deleted has no container, and nobody deploys it.
LEMMA TombstoneAdded ==
  ASSUME Customs \in Nat, Typed, Typed', AddedInv, NEW p \in Callers, Tombstone(p)
  PROVE  AddedInv' /\ \A s \in Added : def'[s] = "live" => def[s] = "live"
<1> DEFINE s == pr[p].s
<1>1. /\ UNCHANGED <<cont, vol, row, blind>> /\ At(p, "tombstone") /\ TypeOK /\ End(p)
      /\ def' = [def EXCEPT ![s] = "deleted"]
  BY DEF Tombstone, Typed, history
<1>2. pr[p].op = "delete"
  BY <1>1 DEF Typed, TypeOK, Jobs, PhaseOf, At
<1>3. AddedOf(p)
  BY DEF AddedInv
<1>4. s \in Added /\ s \in Slugs /\ s \notin row /\ (~Present(s) \/ s \in blind)
  BY <1>1, <1>2, <1>3 DEF AddedOf, Added
<1>5. \A t \in Slugs : Present(t)' = Present(t)
  BY <1>1 DEF Present
<1>6. def'[s] = "deleted" /\ \A t \in Added : t # s => def'[t] = def[t]
  BY <1>1, <1>4 DEF TypeOK
<1>7. pr'[p] = Idle /\ \A q \in Callers : q # p => Same(q)
  BY <1>1, EndMoves
<1>8. AddedOf(p)' /\ pr'[p].op = ""
  BY <1>7, IdleType DEF AddedOf, At
<1>9. ASSUME NEW q \in Callers, q # p
      PROVE  AddedOf(q)'
  <2>1. AddedOf(q) /\ Apart(p, q) /\ SameBut(q) /\ pr[q].s \in Slugs
    BY <1>1, <1>7, <1>9 DEF AddedInv, Same, TypeOK, Jobs
  <2>2. pr[q].op \in {"deploy", "delete"} => pr[q].s # s
    BY <1>2, <1>9, <2>1 DEF Apart
  <2> HIDE DEF s
  <2> QED BY <1>1, <1>5, <1>6, <2>1, <2>2 DEF AddedOf, SameBut, At
<1>10. \A q \in Callers : pr'[q].op \in {"deploy", "delete"} => pr'[q].op = pr[q].op /\ pr'[q].s = pr[q].s
  BY <1>7, <1>8 DEF Same, SameBut
<1>11. \A q, r \in Callers : Apart(q, r)'
  BY <1>10 DEF AddedInv, Apart
<1> HIDE DEF s
<1>12. UnusedIsEmpty'
  BY <1>1, <1>5, <1>6 DEF AddedInv, UnusedIsEmpty, Added
<1>13. ContainerHasDefinition'
  BY <1>1, <1>4, <1>5, <1>6 DEF AddedInv, ContainerHasDefinition, Added
<1> QED BY <1>6, <1>8, <1>9, <1>11, <1>12, <1>13 DEF AddedInv

\* What is created or gets a row is of a service that is held.
LEMMA CreateAdded ==
  ASSUME Customs \in Nat, Typed, Typed', AddedInv, NEW p \in Callers, Create(p) \/ WriteRow(p)
  PROVE  AddedInv' /\ def' = def
<1> DEFINE s == pr[p].s
<1>1. /\ def' = def /\ blind' = blind /\ row' \subseteq row \cup {s} /\ TypeOK
      /\ pr[p].pc \in {"create", "row"} /\ (End(p) \/ Goto(p, "row"))
  BY DEF Create, WriteRow, Typed, history, At
<1>2. pr[p].op = "deploy" /\ s \in Slugs
  BY <1>1 DEF Typed, TypeOK, Jobs, PhaseOf, At
<1>3. AddedOf(p)
  BY DEF AddedInv
<1>4. s \in Added => def[s] = "live"
  BY <1>2, <1>3 DEF AddedOf
<1>5. \A t \in Slugs : t # s => vol'[t] = vol[t] /\ cont'[t] = cont[t]
  BY <1>1, VolumeMade DEF WriteRow
<1>6. \A t \in Slugs : t # s => Present(t)' = Present(t)
  BY <1>5 DEF Present
<1>7. /\ \A q \in Callers : q # p => Same(q)
      /\ pr'[p] = Idle \/ (pr'[p].op = pr[p].op /\ pr'[p].s = s /\ pr'[p].pc = "row")
  BY <1>1, EndMoves, GotoMoves DEF Pcs
<1>8. /\ pr'[p].op \in {"deploy", "delete"} => pr'[p].op = pr[p].op /\ pr'[p].s = s
      /\ ~At(p, "tombstone")'
  BY <1>7, IdleType DEF At
<1> HIDE DEF s
<1>9. AddedOf(p)'
  BY <1>1, <1>2, <1>4, <1>8 DEF AddedOf
<1>10. ASSUME NEW q \in Callers, q # p
       PROVE  AddedOf(q)'
  <2>1. AddedOf(q) /\ Apart(q, p) /\ SameBut(q) /\ pr[q].s \in Slugs
    BY <1>1, <1>7, <1>10 DEF AddedInv, Same, TypeOK, Jobs
  <2>2. pr[q].op = "delete" => pr[q].s # s
    BY <1>2, <2>1 DEF Apart, s
  <2>3. At(q, "tombstone") => pr[q].op = "delete"
    BY ZenonT(60) DEF Typed, TypeOK, Jobs, PhaseOf, At
  <2> QED BY <1>1, <1>6, <2>1, <2>2, <2>3 DEF AddedOf, SameBut, At
<1>11. \A q \in Callers : pr'[q].op \in {"deploy", "delete"} => pr'[q].op = pr[q].op /\ pr'[q].s = pr[q].s
  BY <1>7, <1>8 DEF Same, SameBut, s
<1>12. \A q, r \in Callers : Apart(q, r)'
  BY <1>11 DEF AddedInv, Apart
<1>13. UnusedIsEmpty'
  BY <1>1, <1>4, <1>5, <1>6 DEF AddedInv, UnusedIsEmpty, Added
<1>14. ContainerHasDefinition'
  BY <1>1, <1>4, <1>6 DEF AddedInv, ContainerHasDefinition, Added
<1> QED BY <1>1, <1>9, <1>10, <1>12, <1>13, <1>14 DEF AddedInv

\* A delete begins when nobody deploys the slug and no other delete is under way.
LEMMA DeleteAdded ==
  ASSUME Customs \in Nat, Typed, Typed', AddedInv, NEW p \in Callers, NEW s \in Added, DeleteCustom(p, s)
  PROVE  AddedInv'
<1>1. /\ UNCHANGED <<cont, vol, row, def, blind>> /\ At(p, "idle") /\ TypeOK /\ s \in Slugs
      /\ def[s] = "live" /\ s \notin row /\ Unlocked /\ Deploying(s) = {}
      /\ pr' = [pr EXCEPT ![p] = [Idle EXCEPT !.pc = "list", !.op = "delete", !.s = s]]
  BY DEF DeleteCustom, InFlight, history, Typed, Added
<1>2. /\ pr'[p].pc = "list" /\ pr'[p].op = "delete" /\ pr'[p].s = s
      /\ \A q \in Callers : q # p => Same(q)
  BY ZenonT(60), <1>1, Begins DEF Pcs
<1>3. \A t \in Slugs : Present(t)' = Present(t)
  BY <1>1 DEF Present
<1>4. AddedOf(p)'
  BY <1>1, <1>2 DEF AddedOf, At
<1>5. ASSUME NEW q \in Callers, q # p
      PROVE  AddedOf(q)'
  <2>1. AddedOf(q) /\ SameBut(q) /\ pr[q].s \in Slugs
    BY <1>1, <1>2, <1>5 DEF AddedInv, Same, TypeOK, Jobs
  <2> QED BY <1>1, <1>3, <2>1 DEF AddedOf, SameBut, At
<1>6. \A q \in Callers : pr[q].op # "delete" /\ (pr[q].op = "deploy" => pr[q].s # s)
  BY <1>1 DEF Unlocked, Deploying
<1>7. \A q, r \in Callers : Apart(q, r)'
  BY <1>2, <1>6 DEF Apart, Same, SameBut
<1>8. UnusedIsEmpty'
  BY <1>1, <1>3 DEF AddedInv, UnusedIsEmpty, Added
<1>9. ContainerHasDefinition'
  BY <1>1, <1>3 DEF AddedInv, ContainerHasDefinition, Added
<1> QED BY <1>4, <1>5, <1>7, <1>8, <1>9 DEF AddedInv

\* A deploy begins with the definition, and with no delete under way.
LEMMA DeployAdded ==
  ASSUME Customs \in Nat, Typed, Typed', AddedInv, NEW p \in Callers, NEW s \in Slugs, BeginDeploy(p, s)
  PROVE  AddedInv'
<1>1. /\ UNCHANGED <<cont, vol, row, def, blind>> /\ TypeOK
      /\ s \in Added => Unlocked /\ def[s] = "live"
      /\ pr' = [pr EXCEPT ![p] = [Idle EXCEPT !.pc = "replace", !.op = "deploy", !.s = s]]
  BY DEF BeginDeploy, history, Typed, Added
<1>2. /\ pr'[p].pc = "replace" /\ pr'[p].op = "deploy" /\ pr'[p].s = s
      /\ \A q \in Callers : q # p => Same(q)
  BY <1>1, Begins DEF Pcs
<1>3. \A t \in Slugs : Present(t)' = Present(t)
  BY <1>1 DEF Present
<1>4. AddedOf(p)'
  BY <1>1, <1>2 DEF AddedOf, At
<1>5. ASSUME NEW q \in Callers, q # p
      PROVE  AddedOf(q)'
  <2>1. AddedOf(q) /\ SameBut(q) /\ pr[q].s \in Slugs
    BY <1>1, <1>2, <1>5 DEF AddedInv, Same, TypeOK, Jobs
  <2> QED BY <1>1, <1>3, <2>1 DEF AddedOf, SameBut, At
<1>6. \A q \in Callers : pr[q].op = "delete" => pr[q].s # s
  BY <1>1 DEF Unlocked, AddedInv, AddedOf
<1>7. ASSUME NEW q \in Callers, NEW r \in Callers
      PROVE  Apart(q, r)'
  <2>1. Apart(q, r)
    BY DEF AddedInv
  <2>2. q # p => SameBut(q)
    BY <1>2 DEF Same
  <2>3. r # p => SameBut(r)
    BY <1>2 DEF Same
  <2> QED BY <1>2, <1>6, <2>1, <2>2, <2>3 DEF Apart, SameBut
<1>8. UnusedIsEmpty'
  BY <1>1, <1>3 DEF AddedInv, UnusedIsEmpty, Added
<1>9. ContainerHasDefinition'
  BY <1>1, <1>3 DEF AddedInv, ContainerHasDefinition, Added
<1> QED BY <1>4, <1>5, <1>7, <1>8, <1>9 DEF AddedInv

\* A save gives out a slug that was never used.
LEMMA SaveAdded ==
  ASSUME Customs \in Nat, Typed, Typed', AddedInv, SaveCustom
  PROVE  AddedInv' /\ StartsEmpty
<1> DEFINE m == MakeCustomSlug
<1>1. /\ UNCHANGED <<cont, vol, row, blind, pr>> /\ TypeOK /\ Added \subseteq Slugs
      /\ def' = [def EXCEPT ![m] = "live"] /\ Added \ Taken # {}
  BY DEF SaveCustom, history, Typed, Added
<1>2. m \in Added /\ def[m] = "never"
  BY <1>1, MakesUnused DEF Taken
<1> HIDE DEF m
<1>3. def'[m] = "live" /\ \A t \in Added : t # m => def'[t] = def[t]
  BY <1>1, <1>2 DEF TypeOK
<1>4. \A t \in Slugs : Present(t)' = Present(t)
  BY <1>1 DEF Present
<1>5. ASSUME NEW q \in Callers
      PROVE  AddedOf(q)'
  <2>1. AddedOf(q) /\ pr[q].s \in Slugs
    BY <1>1 DEF AddedInv, TypeOK, Jobs
  <2> QED BY <1>1, <1>3, <1>4, <2>1 DEF AddedOf, At
<1>6. \A q, r \in Callers : Apart(q, r)'
  BY <1>1 DEF AddedInv, Apart
<1>7. UnusedIsEmpty'
  BY <1>1, <1>3, <1>4 DEF AddedInv, UnusedIsEmpty
<1>8. ContainerHasDefinition'
  BY <1>1, <1>3, <1>4 DEF AddedInv, ContainerHasDefinition
<1>9. StartsEmpty
  BY <1>2, <1>3 DEF StartsEmpty, AddedInv, UnusedIsEmpty
<1> QED BY <1>5, <1>6, <1>7, <1>8, <1>9 DEF AddedInv

LEMMA AddedStep ==
  ASSUME Customs \in Nat, Typed, AddedInv, [Next]_vars
  PROVE  AddedInv' /\ StartsEmpty
<1>1. Typed' /\ TypeOK
  BY TypedStep DEF Typed
<1>2. ASSUME NEW p \in Callers, Step(p)
      PROVE  AddedInv' /\ StartsEmpty
  <2>1. CASE ListForDelete(p)
    BY <1>1, <2>1, ListAdded DEF StartsEmpty, ListForDelete
  <2>2. CASE Tombstone(p)
    BY <1>1, <2>2, TombstoneAdded DEF StartsEmpty
  <2>3. CASE Create(p) \/ WriteRow(p)
    BY <1>1, <2>3, CreateAdded DEF StartsEmpty
  <2>4. CASE ~(ListForDelete(p) \/ Tombstone(p) \/ Create(p) \/ WriteRow(p))
    BY <1>1, <1>2, <2>4, AddedQuiet DEF StartsEmpty
  <2> QED BY <2>1, <2>2, <2>3, <2>4
<1>3. ASSUME NEW p \in Callers, Call(p)
      PROVE  AddedInv' /\ StartsEmpty
  <2>1. UNCHANGED <<cont, vol, row, def, blind>> /\ \A q \in Callers : q # p => SameBut(q)
    BY <1>3, CallPhased
  <2>2. StartsEmpty
    BY <2>1 DEF StartsEmpty
  <2>3. ASSUME pr'[p].op \in {"remove", "export", "confirm"}
        PROVE  AddedInv'
    <3>1. ~At(p, "tombstone")'
      BY <1>1, <2>3 DEF Typed, PhaseOf, At
    <3>2. \A q \in Callers : Milder(q)
      BY <2>1, <2>3, <3>1 DEF Milder, SameBut, At
    <3>3. \A s \in Slugs : (Present(s)' => Present(s)) /\ (vol[s] = 0 => vol'[s] = 0)
      BY <2>1 DEF Present
    <3> QED BY <1>1, <2>1, <3>2, <3>3, AddedFrame
  <2>4. ASSUME NEW s \in Slugs, NEW data \in BOOLEAN, NEW allow \in BOOLEAN, BeginRemove(p, s, data, allow)
        PROVE  AddedInv'
    BY <1>1, <2>3, <2>4, RemoveBegins
  <2>5. CASE ExportStateBackup(p)
    BY <1>1, <2>2, <2>3, <2>5, ExportBegins
  <2>6. CASE ConfirmStateBackup(p)
    <3>1. pr'[p] = [Idle EXCEPT !.pc = "print", !.op = "confirm", !.file = vol[Cat], !.crossed = vol[Cat] = 0]
      BY <1>1, <2>6 DEF ConfirmStateBackup, TypeOK
    <3>2. pr'[p].op = "confirm"
      BY <3>1 DEF Idle
    <3> QED BY <2>2, <2>3, <3>2
  <2>7. ASSUME NEW s \in Added, DeleteCustom(p, s)
        PROVE  AddedInv'
    BY <1>1, <2>7, DeleteAdded
  <2>8. ASSUME NEW s \in Slugs, BeginDeploy(p, s)
        PROVE  AddedInv'
    BY <1>1, <2>8, DeployAdded
  <2> QED BY <1>3, <2>2, <2>4, <2>5, <2>6, <2>7, <2>8 DEF Call
<1>4. CASE UndoStateBackup \/ Daemon \/ UNCHANGED vars
  <2>1. UNCHANGED <<cont, vol, row, def, blind, pr>>
    BY <1>4 DEF UndoStateBackup, Daemon, vars, history
  <2>2. \A q \in Callers : Milder(q)
    BY <2>1 DEF Milder, At
  <2>3. \A s \in Slugs : (Present(s)' => Present(s)) /\ (vol[s] = 0 => vol'[s] = 0)
    BY <2>1 DEF Present
  <2> QED BY <1>1, <2>1, <2>2, <2>3, AddedFrame DEF StartsEmpty
<1>5. ASSUME NEW s \in Slugs, NEW st \in {"running", "exited"}, Touch(s, st)
      PROVE  AddedInv' /\ StartsEmpty
  <2>1. UNCHANGED <<vol, row, def, blind, pr>> /\ Present(s) /\ cont' = [cont EXCEPT ![s].st = st]
    BY <1>5 DEF Touch, Reachable
  <2>2. \A q \in Callers : Milder(q)
    BY <2>1 DEF Milder, At
  <2>3. \A t \in Slugs : (Present(t)' => Present(t)) /\ (vol[t] = 0 => vol'[t] = 0)
    BY <1>1, <2>1, ContTurns DEF Present
  <2> QED BY <1>1, <2>1, <2>2, <2>3, AddedFrame DEF StartsEmpty
<1>6. CASE AppKilled
  <2>1. UNCHANGED <<cont, vol, row, def, blind>> /\ \A q \in Callers : pr'[q] = Idle
    BY <1>6 DEF AppKilled
  <2>2. \A q \in Callers : Milder(q)
    BY <2>1, IdleType DEF Milder, At
  <2>3. \A s \in Slugs : (Present(s)' => Present(s)) /\ (vol[s] = 0 => vol'[s] = 0)
    BY <2>1 DEF Present
  <2> QED BY <1>1, <2>1, <2>2, <2>3, AddedFrame DEF StartsEmpty
<1>7. CASE SaveCustom
  BY <1>1, <1>7, SaveAdded
<1> QED BY <1>2, <1>3, <1>4, <1>5, <1>6, <1>7 DEF Next

\* However many of the owner's calls overlap, fail or are cut off, and however many services
\* share a name: a service the user adds starts with nothing of one that was deleted, and a
\* container of an added service has its definition (custom.go: MakeCustomSlug, DeleteCustom).
THEOREM AddedServicesStand ==
  ASSUME Customs \in Nat
  PROVE  Spec => AddedServicesHold
<1>1. Init => Typed /\ AddedInv
  <2> SUFFICES ASSUME Init PROVE Typed /\ AddedInv
    OBVIOUS
  <2>1. Typed
    BY TypedInit
  <2>2. \A p \in Callers : pr[p] = Idle
    BY DEF Init
  <2>3. \A s \in Added : vol[s] = 0 /\ ~Present(s) /\ s \notin row
    BY DEF Init, Added, Present, NoCont
  <2>4. \A p, q \in Callers : AddedOf(p) /\ Apart(p, q)
    BY <2>2, IdleType DEF AddedOf, Apart, At
  <2> QED BY <2>1, <2>3, <2>4 DEF AddedInv, UnusedIsEmpty, ContainerHasDefinition
<1>2. Typed /\ AddedInv /\ [Next]_vars => Typed' /\ AddedInv' /\ StartsEmpty
  BY TypedStep, AddedStep
<1>3. Typed /\ AddedInv /\ [Next]_vars => [StartsEmpty /\ ContainerHasDefinition']_vars
  BY <1>2 DEF AddedInv
<1> QED BY <1>1, <1>2, <1>3, PTL DEF Spec, AddedServicesHold

----------------------------------------------------------------------------
(* Backups.                                                                 *)

\* An export that paused the container, and is the only one, has seen it run only if it runs
\* no longer paused, and not at all once it has gone past the unpause.
WholeOf(p) ==
  /\ At(p, "pause") => p \notin ran
  /\ pr[p].mine /\ pr[p].alone =>
       /\ pr[p].pc \in {"read", "unpause"} /\ p \in ran => cont[Cat].st # "paused"
       /\ pr[p].pc \in {"save", "print", "confirm"} => p \notin ran
\* What was read, or the owner spoke of, is the volume in use until a removal crosses it.
FileOf(p) ==
  /\ pr[p].pc \in {"save", "print"} \/ (At(p, "unpause") /\ pr[p].ok) =>
       pr[p].crossed \/ (pr[p].file = vol[Cat] /\ vol[Cat] # 0)
  /\ At(p, "confirm") => pr[p].crossed \/ pr[p].id \in {0, pr[p].file}
Sole(p, q) == p # q /\ pr[p].op = "export" /\ pr[q].op = "export" => ~pr[p].alone
VolInv  == \A s \in Slugs : Present(s) => cont[s].vol = vol[s] /\ vol[s] # 0
CardInv == conf # NoConf /\ ~conf.crossed => conf.id \in {0, conf.file}
BackupInv ==
  /\ \A p \in Callers : WholeOf(p) /\ FileOf(p)
  /\ \A p, q \in Callers : Sole(p, q)
  /\ VolInv /\ CardInv /\ SavedIsWhole /\ PausedIsWatched

\* A step that pauses nothing, and whoever it adds to the readers of a running container
\* reads what it runs.
Gentle ==
  /\ cont'[Cat].st = "paused" => cont[Cat].st = "paused"
  /\ \A q \in Callers : q \in ran' => q \in ran \/ (At(q, "read") /\ cont'[Cat].st # "paused")
  /\ reported => reported'

LEMMA ReadersOfCat ==
  ASSUME Typed, NEW s \in Slugs, NEW q \in Callers, q \in Readers(s)
  PROVE  At(q, "read") /\ s = Cat
<1>1. At(q, "read") /\ pr[q].s = s
  BY DEF Readers
<1>2. pr[q].op = "export"
  BY <1>1 DEF Typed, TypeOK, Jobs, PhaseOf, At
<1> QED BY <1>1, <1>2 DEF Typed, PhaseOf

\* A call that did not move keeps what is true of it.
LEMMA UnmovedBacked ==
  ASSUME BackupInv, Gentle, NEW q \in Callers, SameBut(q), pr'[q].alone => pr[q].alone,
         pr[q].crossed => pr'[q].crossed,
         vol'[Cat] = vol[Cat] \/ vol[Cat] = 0 \/ pr'[q].crossed
  PROVE  WholeOf(q)' /\ FileOf(q)'
<1>1. WholeOf(q) /\ FileOf(q)
  BY DEF BackupInv
<1>2. WholeOf(q)'
  BY <1>1 DEF WholeOf, Gentle, SameBut, At
<1>3. FileOf(q)'
  BY <1>1 DEF FileOf, SameBut, At
<1> QED BY <1>2, <1>3

\* A call that is no backup has nothing to keep.
LEMMA OtherBacked ==
  ASSUME Typed', NEW p \in Callers, pr'[p].op \notin {"export", "confirm"}
  PROVE  WholeOf(p)' /\ FileOf(p)'
<1>1. PhaseOf(p)' /\ pr'[p] \in Jobs
  BY DEF Typed, TypeOK
<1>2. pr'[p].pc \notin {"pause", "read", "unpause", "save", "print", "confirm"}
  BY <1>1 DEF PhaseOf, At, Jobs
<1> QED BY <1>2 DEF WholeOf, FileOf, At

LEMMA SoleFrame ==
  ASSUME BackupInv,
         \A q \in Callers : pr'[q].op = "export" => pr[q].op = "export" /\ (pr'[q].alone => pr[q].alone)
  PROVE  \A p, q \in Callers : Sole(p, q)'
  BY DEF BackupInv, Sole

LEMMA CardFrame ==
  ASSUME BackupInv, conf' = conf \/ conf' = NoConf
  PROVE  CardInv' /\ SavedIsWhole'
  BY DEF BackupInv, CardInv, SavedIsWhole, NoConf

\* Who watches a paused container goes on watching.
LEMMA WatchFrame ==
  ASSUME BackupInv, Gentle,
         \A q \in Callers : pr[q].mine /\ pr[q].pc \in {"read", "unpause"} =>
           \/ pr'[q].mine /\ pr'[q].pc \in {"read", "unpause"}
           \/ cont'[Cat].st # "paused" \/ reported'
  PROVE  PausedIsWatched'
<1> SUFFICES ASSUME cont'[Cat].st = "paused", ~reported'
             PROVE  \E q \in Callers : pr'[q].mine /\ pr'[q].pc \in {"read", "unpause"}
  BY DEF PausedIsWatched
<1>1. PICK q \in Callers : pr[q].mine /\ pr[q].pc \in {"read", "unpause"}
  BY DEF BackupInv, PausedIsWatched, Gentle
<1> QED BY <1>1

\* The volume a container mounts is the one of its service.
LEMMA VolStep ==
  ASSUME Customs \in Nat, Typed, VolInv, [Next]_vars
  PROVE  VolInv'
<1>1. TypeOK
  BY DEF Typed
<1>2. Cat \in Slugs
  BY DEF Slugs, Cat
<1>3. ASSUME UNCHANGED <<cont, vol>>
      PROVE  VolInv'
  BY <1>3 DEF VolInv, Present
<1>4. ASSUME NEW s \in Slugs, NEW st \in {"running", "paused", "exited"}, Present(s),
             cont' = [cont EXCEPT ![s].st = st], vol' = vol
      PROVE  VolInv'
  BY <1>1, <1>4, ContTurns DEF VolInv, Present
<1>5. ASSUME NEW s \in Slugs, cont' = [cont EXCEPT ![s] = NoCont], vol' = vol
      PROVE  VolInv'
  BY <1>1, <1>5, ContGone DEF VolInv, Present
<1>6. ASSUME NEW p \in Callers, Step(p)
      PROVE  VolInv'
  <2>1. pr[p].s \in Slugs
    BY <1>1 DEF TypeOK, Jobs
  <2>2. CASE Create(p)
    <3>1. /\ \A t \in Slugs : t # pr[p].s => vol'[t] = vol[t] /\ cont'[t] = cont[t]
          /\ vol[pr[p].s] = 0 \/ vol'[pr[p].s] = vol[pr[p].s]
          /\ \/ cont' = cont
             \/ cont'[pr[p].s].vol = vol'[pr[p].s] /\ vol'[pr[p].s] # 0
      BY <1>1, <2>2, VolumeMade
    <3> QED BY <2>1, <3>1 DEF VolInv, Present
  <2>3. CASE TakeVolume(p)
    <3>1. /\ cont' = cont
          /\ \/ vol' = vol
             \/ vol' = [vol EXCEPT ![pr[p].s] = 0] /\ ~Present(pr[p].s)
      BY <1>1, <2>3, VolumeTaken DEF TakeVolume
    <3> QED BY <1>1, <2>1, <3>1 DEF VolInv, Present, TypeOK
  <2>4. CASE Replace(p) \/ TakeContainer(p)
    <3>1. vol' = vol /\ (cont' = cont \/ cont' = [cont EXCEPT ![pr[p].s] = NoCont])
      BY <2>4 DEF Replace, TakeContainer
    <3> QED BY <1>3, <1>5, <2>1, <3>1
  <2>5. CASE Pause(p) \/ Unpause(p)
    <3>1. /\ vol' = vol
          /\ \/ cont' = cont
             \/ /\ cont[Cat].st \in {"running", "paused"}
                /\ cont' = [cont EXCEPT ![Cat].st = "paused"] \/ cont' = [cont EXCEPT ![Cat].st = "running"]
      BY <2>5 DEF Pause, Unpause
    <3> QED BY <1>2, <1>3, <1>4, <3>1 DEF Present
  <2>6. CASE ~(Create(p) \/ TakeVolume(p) \/ Replace(p) \/ TakeContainer(p) \/ Pause(p) \/ Unpause(p))
    <3>1. UNCHANGED <<cont, vol>>
      BY <1>6, <2>6 DEF Step, ListForDelete, Tombstone, WriteRow, Plan, DeleteRow, Inspect, Read, Save,
           StateFingerprint, Record, history
    <3> QED BY <1>3, <3>1
  <2> QED BY <2>2, <2>3, <2>4, <2>5, <2>6
<1>7. ASSUME NEW p \in Callers, Call(p)
      PROVE  VolInv'
  BY <1>3, <1>7, CallPhased
<1>8. CASE SaveCustom \/ UndoStateBackup \/ Daemon \/ AppKilled \/ UNCHANGED vars
  BY <1>3, <1>8 DEF SaveCustom, UndoStateBackup, Daemon, AppKilled, vars, history
<1>9. ASSUME NEW s \in Slugs, NEW st \in {"running", "exited"}, Touch(s, st)
      PROVE  VolInv'
  BY <1>4, <1>9 DEF Touch, Reachable
<1> QED BY <1>6, <1>7, <1>8, <1>9 DEF Next

\* The steps of deploys, removals and deletes.
LEMMA OtherSteps ==
  ASSUME Customs \in Nat, Typed, Typed', BackupInv, NEW p \in Callers, Step(p),
         \/ ListForDelete(p) \/ Tombstone(p) \/ Replace(p) \/ Create(p) \/ WriteRow(p)
         \/ Plan(p) \/ TakeContainer(p) \/ TakeVolume(p) \/ DeleteRow(p),
         VolInv'
  PROVE  BackupInv'
<1>1. /\ pr'[p].op \in {pr[p].op, ""}
      /\ \A q \in Callers : q # p => SameBut(q) /\ pr'[q].alone = pr[q].alone
  BY StepPhased
<1>2. TypeOK /\ pr[p] \in Jobs /\ pr[p].s \in Slugs /\ PhaseOf(p)
  BY DEF Typed, TypeOK, Jobs
<1>3. Cat \in Slugs
  BY DEF Slugs, Cat
<1>4. pr[p].pc \in {"list", "tombstone", "replace", "create", "row", "plan", "take", "volume", "unrow"}
  BY DEF ListForDelete, Tombstone, Replace, Create, WriteRow, Plan, TakeContainer, TakeVolume, DeleteRow, At
<1>5. pr[p].op \notin {"export", "confirm"}
  BY <1>2, <1>4 DEF PhaseOf
<1>6. WholeOf(p)' /\ FileOf(p)'
  BY <1>1, <1>5, OtherBacked
<1>7. conf' = conf /\ reported' = reported
  BY DEF ListForDelete, Tombstone, Replace, Create, WriteRow, Plan, TakeContainer, TakeVolume, DeleteRow, history
<1>8. Gentle
  <2>1. CASE Create(p)
    <3>1. \/ UNCHANGED <<cont, ran>>
          \/ /\ cont'[pr[p].s].st = "running" /\ ran' = ran \cup Readers(pr[p].s)
             /\ \A t \in Slugs : t # pr[p].s => cont'[t] = cont[t]
      BY <1>2, <2>1, VolumeMade
    <3> QED BY <1>2, <1>3, <1>7, <3>1, ReadersOfCat DEF Gentle
  <2>2. CASE Replace(p) \/ TakeContainer(p)
    <3>1. ran' = ran /\ (cont' = cont \/ cont' = [cont EXCEPT ![pr[p].s] = NoCont])
      BY <2>2 DEF Replace, TakeContainer, history
    <3>2. cont'[Cat] = cont[Cat] \/ cont'[Cat].st = "absent"
      BY <1>2, <1>3, <3>1, ContGone
    <3> QED BY <1>7, <3>1, <3>2 DEF Gentle
  <2>3. CASE ~(Create(p) \/ Replace(p) \/ TakeContainer(p))
    <3>1. UNCHANGED <<cont, ran>>
      BY <2>3 DEF ListForDelete, Tombstone, WriteRow, Plan, TakeVolume, DeleteRow, history
    <3> QED BY <1>7, <3>1 DEF Gentle
  <2> QED BY <2>1, <2>2, <2>3
<1>9. ASSUME NEW q \in Callers, q # p
      PROVE  /\ pr[q].crossed => pr'[q].crossed
             /\ vol'[Cat] = vol[Cat] \/ vol[Cat] = 0 \/ pr'[q].crossed
  <2>1. CASE TakeVolume(p)
    <3>1. \/ vol' = vol
          \/ /\ vol' = [vol EXCEPT ![pr[p].s] = 0]
             /\ pr[p].s = Cat => pr'[q].crossed
      BY <1>2, <1>9, <2>1, VolumeTaken
    <3>2. vol'[Cat] = vol[Cat] \/ pr[p].s = Cat
      BY <1>2, <1>3, <3>1 DEF TypeOK
    <3>3. pr[q].crossed => pr'[q].crossed
      BY <1>2, <1>9, <2>1, VolumeTaken
    <3> QED BY <3>1, <3>2, <3>3
  <2>2. CASE ~TakeVolume(p)
    <3>1. \/ End(p) \/ Goto(p, "tombstone") \/ Goto(p, "create") \/ Goto(p, "row") \/ Goto(p, "take")
          \/ Goto(p, "volume") \/ Goto(p, "unrow")
      BY <2>2 DEF ListForDelete, Tombstone, Replace, Create, WriteRow, Plan, TakeContainer, DeleteRow
    <3>2. Same(q)
      BY <1>2, <1>9, <3>1, EndMoves, GotoMoves DEF Pcs
    <3>3. vol'[Cat] = vol[Cat] \/ vol[Cat] = 0
      <4>1. CASE Create(p)
        BY <1>2, <1>3, <4>1, VolumeMade
      <4>2. CASE ~Create(p)
        BY <2>2, <4>2 DEF ListForDelete, Tombstone, Replace, WriteRow, Plan, TakeContainer, DeleteRow, history
      <4> QED BY <4>1, <4>2
    <3> QED BY <3>2, <3>3 DEF Same
  <2> QED BY <2>1, <2>2
<1>10. ASSUME NEW q \in Callers
       PROVE  WholeOf(q)' /\ FileOf(q)'
  <2>1. CASE q = p
    BY <1>6, <2>1
  <2>2. CASE q # p
    <3>1. SameBut(q) /\ (pr'[q].alone => pr[q].alone)
      BY <1>1, <2>2
    <3> QED BY <1>8, <1>9, <2>2, <3>1, UnmovedBacked
  <2> QED BY <2>1, <2>2
<1>11. \A q \in Callers : pr'[q].op = "export" => pr[q].op = "export" /\ (pr'[q].alone => pr[q].alone)
  BY <1>1, <1>5 DEF SameBut
<1>12. \A q, r \in Callers : Sole(q, r)'
  BY <1>11, SoleFrame
<1>13. PausedIsWatched'
  BY <1>1, <1>4, <1>8, WatchFrame DEF SameBut
<1>14. CardInv' /\ SavedIsWhole'
  BY <1>7, CardFrame
<1> QED BY <1>10, <1>12, <1>13, <1>14 DEF BackupInv

\* What a step of an export or of the owner's word leaves of the others.
LEMMA BackupFrame ==
  ASSUME BackupInv, Gentle, NEW p \in Callers, vol' = vol, VolInv',
         \A q \in Callers : q # p => Same(q),
         pr'[p].op = "export" => pr[p].op = "export" /\ (pr'[p].alone => pr[p].alone),
         WholeOf(p)', FileOf(p)', PausedIsWatched', CardInv', SavedIsWhole'
  PROVE  BackupInv'
<1>1. ASSUME NEW q \in Callers
      PROVE  WholeOf(q)' /\ FileOf(q)'
  <2>1. CASE q # p
    <3>1. SameBut(q) /\ (pr'[q].alone => pr[q].alone) /\ (pr[q].crossed => pr'[q].crossed)
      BY <2>1 DEF Same
    <3> QED BY <3>1, UnmovedBacked
  <2> QED BY <2>1
<1>2. \A q \in Callers : pr'[q].op = "export" => pr[q].op = "export" /\ (pr'[q].alone => pr[q].alone)
  BY DEF Same, SameBut
<1>3. \A q, r \in Callers : Sole(q, r)'
  BY <1>2, SoleFrame
<1> QED BY <1>1, <1>3 DEF BackupInv

LEMMA InspectBacked ==
  ASSUME Customs \in Nat, Typed, Typed', BackupInv, NEW p \in Callers, Inspect(p), VolInv'
  PROVE  BackupInv'
<1>1. /\ At(p, "inspect") /\ UNCHANGED <<cont, vol, conf, reported>> /\ ran' = ran \ {p} /\ TypeOK
      /\ End(p) \/ Goto(p, "pause") \/ Goto(p, "read")
  BY DEF Inspect, Typed
<1>2. Gentle
  BY <1>1 DEF Gentle
<1>3. /\ \A q \in Callers : q # p => Same(q)
      /\ \/ pr'[p] = Idle
         \/ pr'[p].pc \in {"pause", "read"} /\ pr'[p].op = pr[p].op /\ pr'[p].alone = pr[p].alone
  BY <1>1, EndMoves, GotoMoves DEF Pcs
<1>4. WholeOf(p)' /\ FileOf(p)'
  BY <1>1, <1>3, IdleType DEF WholeOf, FileOf, At
<1>5. pr'[p].op = "export" => pr[p].op = "export" /\ (pr'[p].alone => pr[p].alone)
  BY <1>3, IdleType
<1>6. PausedIsWatched'
  BY <1>1, <1>2, <1>3, WatchFrame DEF At, Same, SameBut
<1>7. CardInv' /\ SavedIsWhole'
  BY <1>1, CardFrame
<1> QED BY <1>1, <1>2, <1>3, <1>4, <1>5, <1>6, <1>7, BackupFrame

\* The one step that pauses the container is the export's that watches it.
LEMMA PauseBacked ==
  ASSUME Customs \in Nat, Typed, Typed', BackupInv, NEW p \in Callers, Pause(p), VolInv'
  PROVE  BackupInv'
<1> DEFINE x == [pr[p] EXCEPT !.pc = "read", !.mine = TRUE]
<1>1. /\ At(p, "pause") /\ UNCHANGED <<vol, conf, reported, ran>> /\ TypeOK /\ pr[p] \in Jobs
      /\ \/ End(p) /\ cont' = cont
         \/ cont' = [cont EXCEPT ![Cat].st = "paused"] /\ pr' = [pr EXCEPT ![p] = x]
  BY DEF Pause, Typed, TypeOK, history
<1>2. x \in Jobs /\ x.pc = "read" /\ x.op = pr[p].op /\ x.alone = pr[p].alone /\ x.mine = TRUE
  BY <1>1 DEF Jobs, Pcs
<1> HIDE DEF x
<1>3. Cat \in Slugs
  BY DEF Slugs, Cat
<1>4. CardInv' /\ SavedIsWhole'
  BY <1>1, CardFrame
<1>5. CASE End(p) /\ cont' = cont
  <2>1. Gentle
    BY <1>1, <1>5 DEF Gentle
  <2>2. pr'[p] = Idle /\ \A q \in Callers : q # p => Same(q)
    BY <1>1, <1>5, EndMoves
  <2>3. WholeOf(p)' /\ FileOf(p)' /\ pr'[p].op # "export"
    BY <2>2, IdleType DEF WholeOf, FileOf, At
  <2>4. PausedIsWatched'
    BY <1>1, <2>1, <2>2, WatchFrame DEF At, Same, SameBut
  <2> QED BY <1>1, <1>4, <2>1, <2>2, <2>3, <2>4, BackupFrame
<1>6. CASE cont' = [cont EXCEPT ![Cat].st = "paused"] /\ pr' = [pr EXCEPT ![p] = x]
  <2>1. pr'[p] = x /\ \A q \in Callers : q # p => Same(q)
    BY <1>1, <1>2, <1>6, OneMoves
  <2>2. p \notin ran
    BY <1>1 DEF BackupInv, WholeOf
  <2>3. WholeOf(p)' /\ FileOf(p)'
    BY <1>1, <1>2, <2>1, <2>2 DEF WholeOf, FileOf, At
  <2>4. pr[p].op = "export"
    BY <1>1 DEF Typed, PhaseOf, At, Jobs
  <2>5. ASSUME NEW q \in Callers, q # p
        PROVE  WholeOf(q)' /\ FileOf(q)'
    <3>1. WholeOf(q) /\ FileOf(q) /\ Sole(q, p) /\ Same(q) /\ (pr[q].mine => pr[q].op = "export")
      BY <2>1, <2>5 DEF BackupInv, Typed, PhaseOf
    <3>2. ~(pr[q].mine /\ pr[q].alone)
      BY <2>4, <2>5, <3>1 DEF Sole
    <3>3. WholeOf(q)'
      BY <1>1, <3>1, <3>2 DEF WholeOf, Same, SameBut, At
    <3>4. FileOf(q)'
      BY <1>1, <3>1 DEF FileOf, Same, SameBut, At
    <3> QED BY <3>3, <3>4
  <2>6. \A q \in Callers : pr'[q].op = "export" => pr[q].op = "export" /\ (pr'[q].alone => pr[q].alone)
    BY <1>2, <2>1 DEF Same, SameBut
  <2>7. \A q, r \in Callers : Sole(q, r)'
    BY <2>6, SoleFrame
  <2>8. PausedIsWatched'
    BY <1>2, <2>1 DEF PausedIsWatched
  <2> QED BY <1>4, <2>3, <2>5, <2>7, <2>8 DEF BackupInv
<1> QED BY <1>1, <1>5, <1>6

LEMMA ReadBacked ==
  ASSUME Customs \in Nat, Typed, Typed', BackupInv, NEW p \in Callers, Read(p), VolInv'
  PROVE  BackupInv'
<1> DEFINE ok == Reachable(Cat)
<1> DEFINE file == IF Reachable(Cat) THEN cont[Cat].vol ELSE 0
<1> DEFINE x == [pr[p] EXCEPT !.pc = "unpause", !.ok = ok, !.file = file]
<1>1. /\ At(p, "read") /\ UNCHANGED <<cont, vol, conf, reported, ran>> /\ TypeOK /\ pr[p] \in Jobs
      /\ pr' = [pr EXCEPT ![p] = x]
  BY DEF Read, Typed, TypeOK, history
<1>2. Cat \in Slugs
  BY DEF Slugs, Cat
<1>3. ok \in BOOLEAN /\ file \in Nat
  BY <1>1, <1>2 DEF TypeOK, Reachable, Present
<1>4. ok => file = vol[Cat] /\ vol[Cat] # 0
  BY <1>2 DEF BackupInv, VolInv, Reachable
<1> HIDE DEF ok, file
<1>5. /\ x \in Jobs /\ x.pc = "unpause" /\ x.ok = ok /\ x.file = file /\ x.op = pr[p].op
      /\ x.mine = pr[p].mine /\ x.alone = pr[p].alone
  BY <1>1, <1>3 DEF Jobs, Pcs
<1> HIDE DEF x
<1>6. pr'[p] = x /\ \A q \in Callers : q # p => Same(q)
  BY <1>1, <1>5, OneMoves
<1>7. Gentle
  BY <1>1 DEF Gentle
<1>8. WholeOf(p)'
  BY <1>1, <1>5, <1>6 DEF BackupInv, WholeOf, At
<1>9. FileOf(p)'
  BY <1>1, <1>4, <1>5, <1>6 DEF FileOf, At
<1>10. pr'[p].op = "export" => pr[p].op = "export" /\ (pr'[p].alone => pr[p].alone)
  BY <1>5, <1>6
<1>11. PausedIsWatched'
  BY <1>5, <1>6, <1>7, WatchFrame DEF Same, SameBut
<1>12. CardInv' /\ SavedIsWhole'
  BY <1>1, CardFrame
<1> QED BY <1>1, <1>6, <1>7, <1>8, <1>9, <1>10, <1>11, <1>12, BackupFrame

\* An export that paused the container goes on only when it could unpause it: it was paused
\* until then.
LEMMA UnpauseBacked ==
  ASSUME Customs \in Nat, Typed, Typed', BackupInv, NEW p \in Callers, Unpause(p), VolInv'
  PROVE  BackupInv'
<1> DEFINE back == docker /\ cont[Cat].st = "paused"
<1>1. /\ At(p, "unpause") /\ UNCHANGED <<vol, conf>> /\ TypeOK
      /\ End(p) \/ (pr[p].ok /\ (pr[p].mine => back) /\ Goto(p, "save"))
      /\ \/ pr[p].mine /\ back /\ cont' = [cont EXCEPT ![Cat].st = "running"] /\ ran' = ran \cup Readers(Cat)
         \/ ~(pr[p].mine /\ back) /\ cont' = cont /\ ran' = ran
      /\ reported => reported'
      /\ pr[p].mine /\ ~back => reported'
  BY DEF Unpause, Typed
<1>2. Cat \in Slugs
  BY DEF Slugs, Cat
<1>3. back => cont[Cat].st = "paused"
  OBVIOUS
<1> HIDE DEF back
<1>4. pr[p].mine /\ back => cont'[Cat].st = "running"
  BY <1>1, <1>2, ContTurns
<1>5. Gentle
  BY <1>1, <1>2, <1>4, ReadersOfCat DEF Gentle
<1>6. /\ \A q \in Callers : q # p => Same(q)
      /\ \/ pr'[p] = Idle
         \/ /\ pr[p].ok /\ (pr[p].mine => back)
            /\ pr'[p].pc = "save" /\ pr'[p].op = pr[p].op /\ pr'[p].mine = pr[p].mine
            /\ pr'[p].alone = pr[p].alone /\ pr'[p].crossed = pr[p].crossed /\ pr'[p].file = pr[p].file
  BY <1>1, EndMoves, GotoMoves DEF Pcs
<1>7. ASSUME pr'[p] = Idle
      PROVE  WholeOf(p)' /\ FileOf(p)'
  <2>1. WholeOf(p)' /\ FileOf(p)' /\ pr'[p].op # "export"
    BY <1>7, IdleType DEF WholeOf, FileOf, At
  <2> QED BY <2>1
<1>8. ASSUME pr[p].ok, pr[p].mine => back,
             pr'[p].pc = "save" /\ pr'[p].op = pr[p].op /\ pr'[p].mine = pr[p].mine,
             pr'[p].alone = pr[p].alone /\ pr'[p].crossed = pr[p].crossed /\ pr'[p].file = pr[p].file
      PROVE  WholeOf(p)' /\ FileOf(p)'
  <2>1. pr[p].mine /\ pr[p].alone => p \notin ran'
    <3>1. p \notin Readers(Cat)
      BY <1>1, <1>2, ReadersOfCat DEF At
    <3>2. pr[p].mine /\ pr[p].alone => p \notin ran
      BY <1>1, <1>3, <1>8 DEF BackupInv, WholeOf, At
    <3> QED BY <1>1, <3>1, <3>2
  <2>2. WholeOf(p)'
    BY <1>8, <2>1 DEF WholeOf, At
  <2>3. FileOf(p)'
    BY <1>1, <1>8 DEF BackupInv, FileOf, At
  <2> QED BY <2>2, <2>3
<1>9. WholeOf(p)' /\ FileOf(p)'
  BY <1>6, <1>7, <1>8
<1>10. pr'[p].op = "export" => pr[p].op = "export" /\ (pr'[p].alone => pr[p].alone)
  BY <1>6, IdleType
<1>11. pr[p].mine => cont'[Cat].st # "paused" \/ reported'
  BY <1>1, <1>4
<1>12. PausedIsWatched'
  BY <1>5, <1>6, <1>11, WatchFrame DEF Same, SameBut
<1>13. CardInv' /\ SavedIsWhole'
  BY <1>1, CardFrame
<1> QED BY <1>1, <1>5, <1>6, <1>9, <1>10, <1>12, <1>13, BackupFrame

LEMMA SaveBacked ==
  ASSUME Customs \in Nat, Typed, Typed', BackupInv, NEW p \in Callers, Save(p), VolInv'
  PROVE  BackupInv'
<1>1. /\ At(p, "save") /\ UNCHANGED <<cont, vol, conf, reported, ran>> /\ TypeOK
      /\ End(p) \/ Goto(p, "print")
  BY DEF Save, Typed, history
<1>2. Gentle
  BY <1>1 DEF Gentle
<1>3. /\ \A q \in Callers : q # p => Same(q)
      /\ \/ pr'[p] = Idle
         \/ /\ pr'[p].pc = "print" /\ pr'[p].op = pr[p].op /\ pr'[p].mine = pr[p].mine
            /\ pr'[p].alone = pr[p].alone /\ pr'[p].crossed = pr[p].crossed /\ pr'[p].file = pr[p].file
  BY <1>1, EndMoves, GotoMoves DEF Pcs
<1>4. ASSUME pr'[p] = Idle
      PROVE  WholeOf(p)' /\ FileOf(p)'
  BY <1>4, IdleType DEF WholeOf, FileOf, At
<1>5. ASSUME pr'[p].pc = "print" /\ pr'[p].op = pr[p].op /\ pr'[p].mine = pr[p].mine,
             pr'[p].alone = pr[p].alone /\ pr'[p].crossed = pr[p].crossed /\ pr'[p].file = pr[p].file
      PROVE  WholeOf(p)' /\ FileOf(p)'
  <2>1. WholeOf(p)'
    BY <1>1, <1>5 DEF BackupInv, WholeOf, At
  <2>2. FileOf(p)'
    BY <1>1, <1>5 DEF BackupInv, FileOf, At
  <2> QED BY <2>1, <2>2
<1>6. WholeOf(p)' /\ FileOf(p)'
  BY <1>3, <1>4, <1>5
<1>7. pr'[p].op = "export" => pr[p].op = "export" /\ (pr'[p].alone => pr[p].alone)
  BY <1>3, IdleType
<1>8. PausedIsWatched'
  BY <1>1, <1>2, <1>3, WatchFrame DEF At, Same, SameBut
<1>9. CardInv' /\ SavedIsWhole'
  BY <1>1, CardFrame
<1> QED BY <1>1, <1>2, <1>3, <1>6, <1>7, <1>8, <1>9, BackupFrame

\* The fingerprint is of the volume in use, or none.
LEMMA FingerprintBacked ==
  ASSUME Customs \in Nat, Typed, Typed', BackupInv, NEW p \in Callers, StateFingerprint(p), VolInv'
  PROVE  BackupInv'
<1> DEFINE id == Fingerprint
<1> DEFINE x == [pr[p] EXCEPT !.pc = "confirm", !.id = id]
<1>1. /\ At(p, "print") /\ UNCHANGED <<cont, vol, conf, reported, ran>> /\ TypeOK /\ pr[p] \in Jobs
      /\ pr' = [pr EXCEPT ![p] = x]
  BY DEF StateFingerprint, Typed, TypeOK, history
<1>2. Cat \in Slugs
  BY DEF Slugs, Cat
<1>3. id \in Nat
  BY <1>1, <1>2 DEF TypeOK, Fingerprint
<1>4. id \in {0, vol[Cat]}
  BY <1>2 DEF BackupInv, VolInv, Reachable, Fingerprint
<1> HIDE DEF id
<1>5. /\ x \in Jobs /\ x.pc = "confirm" /\ x.id = id /\ x.file = pr[p].file /\ x.op = pr[p].op
      /\ x.mine = pr[p].mine /\ x.alone = pr[p].alone /\ x.crossed = pr[p].crossed
  BY <1>1, <1>3 DEF Jobs, Pcs
<1> HIDE DEF x
<1>6. pr'[p] = x /\ \A q \in Callers : q # p => Same(q)
  BY <1>1, <1>5, OneMoves
<1>7. Gentle
  BY <1>1 DEF Gentle
<1>8. WholeOf(p)'
  BY <1>1, <1>5, <1>6 DEF BackupInv, WholeOf, At
<1>9. FileOf(p)'
  BY <1>1, <1>4, <1>5, <1>6 DEF BackupInv, FileOf, At
<1>10. pr'[p].op = "export" => pr[p].op = "export" /\ (pr'[p].alone => pr[p].alone)
  BY <1>5, <1>6
<1>11. PausedIsWatched'
  BY <1>1, <1>6, <1>7, WatchFrame DEF At, Same, SameBut
<1>12. CardInv' /\ SavedIsWhole'
  BY <1>1, CardFrame
<1> QED BY <1>1, <1>6, <1>7, <1>8, <1>9, <1>10, <1>11, <1>12, BackupFrame

\* What is recorded is what the call knows.
LEMMA RecordBacked ==
  ASSUME Customs \in Nat, Typed, Typed', BackupInv, NEW p \in Callers, Record(p), VolInv'
  PROVE  BackupInv'
<1> DEFINE r == pr[p]
<1> DEFINE word == [method |-> r.op, id |-> r.id, file |-> r.file, crossed |-> r.crossed,
                    mine |-> r.mine, alone |-> r.alone, torn |-> p \in ran]
<1>1. /\ At(p, "confirm") /\ UNCHANGED <<cont, vol, reported, ran>> /\ TypeOK /\ End(p)
      /\ conf' = conf \/ conf' = word
  BY DEF Record, Typed, history
<1>2. Gentle
  BY <1>1 DEF Gentle
<1>3. pr'[p] = Idle /\ \A q \in Callers : q # p => Same(q)
  BY <1>1, EndMoves
<1>4. WholeOf(p)' /\ FileOf(p)' /\ pr'[p].op # "export"
  BY <1>3, IdleType DEF WholeOf, FileOf, At
<1>5. PausedIsWatched'
  BY <1>1, <1>2, <1>3, WatchFrame DEF At, Same, SameBut
<1>6. CardInv' /\ SavedIsWhole'
  <2>1. CASE conf' = conf
    BY <2>1, CardFrame
  <2>2. CASE conf' = word
    <3>1. /\ conf'.id = r.id /\ conf'.file = r.file /\ (conf'.crossed <=> r.crossed)
          /\ (conf'.mine <=> r.mine) /\ (conf'.alone <=> r.alone) /\ (conf'.torn <=> p \in ran)
      BY <2>2
    <3>2. r.crossed \/ r.id \in {0, r.file}
      BY <1>1 DEF BackupInv, FileOf
    <3>3. r.mine /\ r.alone => p \notin ran
      BY <1>1 DEF BackupInv, WholeOf, At
    <3> HIDE DEF r, word
    <3>4. CardInv'
      BY <3>1, <3>2 DEF CardInv
    <3>5. SavedIsWhole'
      BY <3>1, <3>3 DEF SavedIsWhole
    <3> QED BY <3>4, <3>5
  <2> QED BY <1>1, <2>1, <2>2
<1> QED BY <1>1, <1>2, <1>3, <1>4, <1>5, <1>6, BackupFrame

\* The calls that begin.
LEMMA CallBacked ==
  ASSUME Customs \in Nat, Typed, Typed', BackupInv, NEW p \in Callers, Call(p), VolInv'
  PROVE  BackupInv'
<1>1. /\ UNCHANGED <<docker, cont, vol, conf, ran, reported>> /\ At(p, "idle") /\ TypeOK
      /\ \A q \in Callers : q # p => SameBut(q)
  BY CallPhased DEF Typed
<1>2. Gentle
  BY <1>1 DEF Gentle
<1>3. PausedIsWatched'
  BY <1>1, <1>2, WatchFrame DEF At, SameBut
<1>4. CardInv' /\ SavedIsWhole'
  BY <1>1, CardFrame
<1>5. CASE ExportStateBackup(p)
  <2>1. /\ pr'[p].pc = "inspect" /\ pr'[p].op = "export" /\ pr'[p].mine = FALSE
        /\ pr'[p].alone = (Exporting = {})
        /\ \A q \in Callers : q # p =>
             SameBut(q) /\ pr'[q].crossed = pr[q].crossed /\ pr'[q].alone = (pr[q].alone /\ q \notin Exporting)
    BY <1>1, <1>5, ExportBegins
  <2>2. WholeOf(p)' /\ FileOf(p)'
    BY <2>1 DEF WholeOf, FileOf, At
  <2>3. ASSUME NEW q \in Callers, q # p
        PROVE  WholeOf(q)' /\ FileOf(q)'
    <3>1. SameBut(q) /\ (pr'[q].alone => pr[q].alone) /\ (pr[q].crossed => pr'[q].crossed)
      BY <2>1, <2>3
    <3> QED BY <1>1, <1>2, <3>1, UnmovedBacked
  <2>4. ASSUME NEW q \in Callers, NEW r \in Callers
        PROVE  Sole(q, r)'
    <3> SUFFICES ASSUME q # r, pr'[q].op = "export", pr'[r].op = "export"
                 PROVE  ~pr'[q].alone
      BY DEF Sole
    <3>1. CASE q = p
      <4>1. r \in Exporting
        BY <2>1, <3>1 DEF Exporting, SameBut
      <4> QED BY <2>1, <3>1, <4>1
    <3>2. CASE q # p
      <4>1. q \in Exporting
        BY <2>1, <3>2 DEF Exporting, SameBut
      <4> QED BY <2>1, <3>2, <4>1
    <3> QED BY <3>1, <3>2
  <2> QED BY <1>3, <1>4, <2>2, <2>3, <2>4 DEF BackupInv
<1>6. CASE ConfirmStateBackup(p)
  <2> DEFINE none == vol[Cat] = 0
  <2> DEFINE x == [Idle EXCEPT !.pc = "print", !.op = "confirm", !.file = vol[Cat], !.crossed = none]
  <2>1. none \in BOOLEAN /\ vol[Cat] \in Nat /\ pr' = [pr EXCEPT ![p] = x]
    BY <1>1, <1>6 DEF TypeOK, ConfirmStateBackup, Slugs, Cat
  <2>2. none <=> vol[Cat] = 0
    OBVIOUS
  <2> HIDE DEF none
  <2>3. /\ x \in Jobs /\ x.pc = "print" /\ x.op = "confirm" /\ x.mine = FALSE
        /\ x.file = vol[Cat] /\ x.crossed = none
    BY <2>1, IdleType DEF Jobs, Pcs
  <2> HIDE DEF x
  <2>4. pr'[p] = x /\ \A q \in Callers : q # p => Same(q)
    BY <1>1, <2>1, <2>3, OneMoves
  <2>5. WholeOf(p)'
    BY <2>3, <2>4 DEF WholeOf, At
  <2>6. FileOf(p)'
    BY <1>1, <2>2, <2>3, <2>4 DEF FileOf, At
  <2>7. pr'[p].op # "export"
    BY <2>3, <2>4
  <2> QED BY <1>1, <1>2, <1>3, <1>4, <2>4, <2>5, <2>6, <2>7, BackupFrame
<1>7. ASSUME pr'[p].op \in {"deploy", "delete", "remove"}, \A q \in Callers : q # p => Same(q)
      PROVE  BackupInv'
  <2>1. WholeOf(p)' /\ FileOf(p)'
    BY <1>7, OtherBacked
  <2>2. pr'[p].op # "export"
    BY <1>7
  <2> QED BY <1>1, <1>2, <1>3, <1>4, <1>7, <2>1, <2>2, BackupFrame
<1>8. ASSUME NEW s \in Slugs, NEW data \in BOOLEAN, NEW allow \in BOOLEAN, BeginRemove(p, s, data, allow)
      PROVE  BackupInv'
  BY <1>1, <1>7, <1>8, RemoveBegins
<1>9. ASSUME NEW s \in Added, DeleteCustom(p, s)
      PROVE  BackupInv'
  <2>1. pr'[p].op = "delete" /\ \A q \in Callers : q # p => Same(q)
    BY ZenonT(60), <1>1, <1>9, Begins DEF DeleteCustom, Pcs, Added
  <2> QED BY <1>7, <2>1
<1>10. ASSUME NEW s \in Slugs, BeginDeploy(p, s)
       PROVE  BackupInv'
  <2>1. pr'[p].op = "deploy" /\ \A q \in Callers : q # p => Same(q)
    BY <1>1, <1>10, Begins DEF BeginDeploy, Pcs
  <2> QED BY <1>7, <2>1
<1> QED BY <1>5, <1>6, <1>8, <1>9, <1>10 DEF Call

LEMMA BackupStep ==
  ASSUME Customs \in Nat, Typed, BackupInv, [Next]_vars
  PROVE  BackupInv'
<1>1. Typed' /\ TypeOK /\ VolInv'
  BY TypedStep, VolStep DEF Typed, BackupInv
<1>2. ASSUME NEW p \in Callers, Step(p)
      PROVE  BackupInv'
  BY <1>1, <1>2, OtherSteps, InspectBacked, PauseBacked, ReadBacked, UnpauseBacked, SaveBacked,
     FingerprintBacked, RecordBacked DEF Step
<1>3. ASSUME NEW p \in Callers, Call(p)
      PROVE  BackupInv'
  BY <1>1, <1>3, CallBacked
<1>4. ASSUME Gentle, UNCHANGED <<pr, vol>>, conf' = conf \/ conf' = NoConf
      PROVE  BackupInv'
  <2>1. \A q \in Callers : WholeOf(q)' /\ FileOf(q)'
    BY <1>4, UnmovedBacked DEF SameBut
  <2>2. \A q, r \in Callers : Sole(q, r)'
    BY <1>4 DEF BackupInv, Sole
  <2>3. PausedIsWatched'
    BY <1>4, WatchFrame
  <2>4. CardInv' /\ SavedIsWhole'
    BY <1>4, CardFrame
  <2> QED BY <1>1, <2>1, <2>2, <2>3, <2>4 DEF BackupInv
<1>5. CASE SaveCustom \/ UndoStateBackup \/ Daemon \/ UNCHANGED vars
  <2>1. UNCHANGED <<cont, vol, pr, ran, reported>> /\ (conf' = conf \/ conf' = NoConf)
    BY <1>5 DEF SaveCustom, UndoStateBackup, Daemon, vars, history
  <2>2. Gentle
    BY <2>1 DEF Gentle
  <2> QED BY <1>4, <2>1, <2>2
<1>6. ASSUME NEW s \in Slugs, NEW st \in {"running", "exited"}, Touch(s, st)
      PROVE  BackupInv'
  <2>1. /\ UNCHANGED <<vol, pr, conf, reported>> /\ cont' = [cont EXCEPT ![s].st = st]
        /\ ran' = ran \/ ran' = ran \cup Readers(s)
    BY <1>6 DEF Touch
  <2>2. Cat \in Slugs
    BY DEF Slugs, Cat
  <2>3. /\ s = Cat => cont'[Cat].st = st
        /\ s # Cat => cont'[Cat] = cont[Cat]
    BY <1>1, <2>1, <2>2, ContTurns
  <2>4. Gentle
    BY <2>1, <2>3, ReadersOfCat DEF Gentle
  <2> QED BY <1>4, <2>1, <2>4
<1>7. CASE AppKilled
  <2>1. UNCHANGED <<cont, vol, conf, ran>> /\ reported' = TRUE /\ \A q \in Callers : pr'[q] = Idle
    BY <1>7 DEF AppKilled
  <2>2. \A q \in Callers : WholeOf(q)' /\ FileOf(q)'
    BY <2>1, IdleType DEF WholeOf, FileOf, At
  <2>3. \A q, r \in Callers : Sole(q, r)'
    BY <2>1, IdleType DEF Sole
  <2>4. PausedIsWatched'
    BY <2>1 DEF PausedIsWatched
  <2>5. CardInv' /\ SavedIsWhole'
    BY <2>1, CardFrame
  <2> QED BY <1>1, <2>2, <2>3, <2>4, <2>5 DEF BackupInv
<1> QED BY <1>2, <1>3, <1>5, <1>6, <1>7 DEF Next

\* However exports, confirmations, deploys, removals, stops and starts overlap and fail: a
\* backup saved after a pause is whole, a paused container has somebody to unpause it or a
\* report, and a backup called confirmed is of the volume in use (state_backup_binding.go).
THEOREM BackupStaysTrue ==
  ASSUME Customs \in Nat
  PROVE  Spec => []BackupIsTrue
<1>1. Init => Typed /\ BackupInv
  <2> SUFFICES ASSUME Init PROVE Typed /\ BackupInv
    OBVIOUS
  <2>1. Typed
    BY TypedInit
  <2>2. /\ \A p \in Callers : pr[p] = Idle
        /\ conf = NoConf
        /\ \A s \in Slugs : ~Present(s) /\ cont[s].st = "absent"
    BY DEF Init, Present, NoCont
  <2>3. \A p, q \in Callers : WholeOf(p) /\ FileOf(p) /\ Sole(p, q)
    BY <2>2, IdleType DEF WholeOf, FileOf, Sole, At
  <2>4. Cat \in Slugs
    BY DEF Slugs, Cat
  <2>5. VolInv /\ CardInv /\ SavedIsWhole /\ PausedIsWatched
    BY <2>2, <2>4 DEF VolInv, CardInv, SavedIsWhole, PausedIsWatched
  <2> QED BY <2>1, <2>3, <2>5 DEF BackupInv
<1>2. Typed /\ BackupInv /\ [Next]_vars => Typed' /\ BackupInv'
  BY TypedStep, BackupStep
<1>3. BackupInv => BackupIsTrue
  <2> SUFFICES ASSUME BackupInv PROVE ConfirmedIsWhatRuns
    BY DEF BackupIsTrue, BackupInv
  <2> SUFFICES ASSUME Judge = "confirmed", Reachable(Cat), ~conf.crossed
               PROVE  conf.file = cont[Cat].vol
    BY DEF ConfirmedIsWhatRuns
  <2>1. Fingerprint = cont[Cat].vol /\ Fingerprint # 0
    BY DEF Fingerprint, BackupInv, VolInv, Reachable, Slugs, Cat
  <2>2. conf # NoConf /\ conf.id = Fingerprint
    BY <2>1 DEF Judge
  <2> QED BY <2>1, <2>2 DEF BackupInv, CardInv
<1> QED BY <1>1, <1>2, <1>3, PTL DEF Spec
=============================================================================
