------------------------------ MODULE DataProofs -----------------------------
(***************************************************************************)
(* For every catalog, image, version and quota: what a redeploy and a mute *)
(* do to the warnings of CatalogDrift; that the firewall's rules follow    *)
(* the launches and that a deploy executes a whole file (NativeBinaries);  *)
(* which device Earnings reports as missing; that CatalogSync's check       *)
(* tells the truth about the tree.                                         *)
(***************************************************************************)
EXTENDS CatalogDrift, NativeBinaries, Earnings, CatalogSync, SequenceTheorems, TLAPS

------------------------------------------------------------------------------
(* CatalogDrift: warnings.                                                   *)

\* A container built from an entry has no difference from it, on any daemon.
LEMMA BuiltAsListed ==
  ASSUME NEW e, NEW image, NEW keys, NEW eng, Defaulted(e) \subseteq keys,
         NEW custom, image = Wanted(e, custom, eng.arch)
  PROVE  ShapeDrift(e, shapeOf(e, image, keys, eng), custom, eng.arch) = {}
<1> DEFINE c == shapeOf(e, image, keys, eng)
<1>1. /\ c.image = image /\ c.keys = keys /\ c.devices = e.devices /\ c.mounts = e.mounts
      /\ c.ports = e.ports /\ c.privileged = e.privileged /\ c.host = e.host /\ c.entrypoint = e.entrypoint
      /\ c.capAdd = (IF eng.podman THEN (IF eng.os = "windows" THEN {} ELSE e.caps) \ podmanDefaultCaps
                     ELSE IF eng.os = "windows" THEN {} ELSE e.caps)
      /\ c.capDrop = (IF eng.os = "windows" THEN {}
                      ELSE IF eng.podman THEN podmanDefaultCaps \ (IF eng.os = "windows" THEN {} ELSE e.caps) ELSE {"ALL"})
  BY DEF shapeOf
<1>2. c.capDrop # {} => e.caps \ heldCaps(c) = {} /\ c.capAdd \ e.caps = {}
  <2>1. CASE eng.os = "windows" BY <1>1, <2>1
  <2>2. CASE eng.os # "windows" /\ eng.podman
    <3>1. c.capAdd = e.caps \ podmanDefaultCaps /\ c.capDrop = podmanDefaultCaps \ e.caps
      BY <1>1, <2>2
    <3>2. "ALL" \notin podmanDefaultCaps BY DEF podmanDefaultCaps
    <3>3. heldCaps(c) = (e.caps \ podmanDefaultCaps) \cup (podmanDefaultCaps \ (podmanDefaultCaps \ e.caps))
      BY <3>1, <3>2 DEF heldCaps
    <3> QED BY <3>1, <3>3
  <2>3. CASE eng.os # "windows" /\ ~eng.podman
    <3>1. c.capAdd = e.caps /\ c.capDrop = {"ALL"} BY <1>1, <2>3
    <3> QED BY <3>1 DEF heldCaps
  <2> QED BY <2>1, <2>2, <2>3
<1>3. e.devices \ c.devices = {} /\ c.devices \ e.devices = {} /\ e.ports \ c.ports = {} /\ e.mounts \ c.mounts = {}
  BY <1>1
<1>4. /\ {e.entrypoint} \ {"", c.entrypoint} = {} /\ {e.host} \ {c.host} = {}
      /\ {c.privileged} \ {FALSE, e.privileged} = {}
  BY ZenonT(60), <1>1
<1>5. wantEnv(e) \ c.keys = {}
  BY <1>1 DEF wantEnv
<1>6. {Wanted(e, custom, eng.arch).tag} \ {"", c.image.tag} = {}
  BY ZenonT(60), <1>1
<1> HIDE DEF c
<1>7. ShapeDrift(e, c, custom, eng.arch) = {}
  <2>1. /\ {<<"missing cap", x>> : x \in IF c.capDrop # {} THEN e.caps \ heldCaps(c) ELSE {}} = {}
        /\ {<<"extra cap", x>> : x \in IF c.capDrop # {} THEN c.capAdd \ e.caps ELSE {}} = {}
    BY <1>2
  <2>2. /\ {<<"missing device", x>> : x \in e.devices \ c.devices} = {}
        /\ {<<"extra device", x>> : x \in c.devices \ e.devices} = {}
        /\ {<<"missing mount", x>> : x \in e.mounts \ c.mounts} = {}
        /\ {<<"missing port", x>> : x \in IF e.host \/ c.host THEN {} ELSE e.ports \ c.ports} = {}
    BY <1>3
  <2>3. /\ {<<"entrypoint", x>> : x \in {e.entrypoint} \ {"", c.entrypoint}} = {}
        /\ {<<"host network", x>> : x \in {e.host} \ {c.host}} = {}
        /\ {<<"privileged", x>> : x \in {c.privileged} \ {FALSE, e.privileged}} = {}
    BY Zenon, <1>4
  <2>4. {<<"missing setting", x>> : x \in wantEnv(e) \ c.keys} = {}
    BY <1>5
  <2>5. {<<"other tag", x>> : x \in IF Wanted(e, custom, eng.arch).own /\ Wanted(e, custom, eng.arch).repo = c.image.repo
                                    THEN {Wanted(e, custom, eng.arch).tag} \ {"", c.image.tag} ELSE {}} = {}
    BY Zenon, <1>6
  <2> QED BY Zenon, <2>1, <2>2, <2>3, <2>4, <2>5 DEF ShapeDrift
<1> QED BY <1>7 DEF c

\* What is outdated is judged by repository and digest: not a reference against itself,
\* nor an entry's image for one architecture against its image.
LEMMA DeployedIsCurrent ==
  ASSUME NEW e \in Catalogs, NEW custom, NEW arch
  PROVE  ~ImageOutdated(Wanted(e, custom, arch), IF custom # NoImage THEN custom ELSE e.image)
<1>1. CASE custom # NoImage
  BY <1>1 DEF Wanted, ImageOutdated
<1>2. CASE custom = NoImage
  BY Zenon, <1>2, OverrideAssumption DEF Wanted, ImageForArch, ImageOutdated
<1> QED BY <1>1, <1>2

\* What RedeployClears says of a step.
DeployClears ==
  \A typed \in SUBSET Keys, custom \in Images \cup {CustomOf} :
    Deploy(typed, custom) => containerDrift' = {} /\ ~outdatedServices'

\* A redeploy clears both warnings (App.ContainerDrift, outdatedServices): what a deploy has
\* just built from the catalog, with whatever settings and image, on whatever daemon, is
\* neither drifted nor outdated.
THEOREM RedeployClearsThm == DriftSpec => RedeployClears
<1>1. ASSUME NEW typed \in SUBSET Keys, NEW custom, entry \in Catalogs, Deploy(typed, custom)
      PROVE  containerDrift' = {} /\ ~outdatedServices'
  <2> DEFINE image == Wanted(entry, custom, engine.arch)
             keys  == buildEnv(entry, stored')
  <2>1. /\ box' = shapeOf(entry, image, keys, engine)
        /\ boxRow' = [is |-> "row", image |-> image, custom |-> custom]
        /\ entry' = entry /\ engine' = engine
    BY <1>1 DEF Deploy
  <2>2. boxRow' # NoRow /\ boxRow'.custom = custom /\ boxRow'.image = image
    BY <2>1 DEF NoRow
  <2>3. CustomOf' = custom
    BY <2>2 DEF CustomOf
  <2>4. Defaulted(entry) \subseteq keys
    BY DEF buildEnv
  <2>5. ShapeDrift(entry, box', custom, engine.arch) = {}
    BY <2>1, <2>4, BuiltAsListed
  <2>6. containerDrift' = {}
    BY <2>1, <2>3, <2>5 DEF containerDrift
  <2>7. ~ImageOutdated(image, IF custom # NoImage THEN custom ELSE entry.image)
    BY <1>1, DeployedIsCurrent
  <2>8. ~outdatedServices'
    BY <2>1, <2>2, <2>7 DEF outdatedServices
  <2> QED BY <2>6, <2>8
<1>2. DriftInit => entry \in Catalogs
  BY DEF DriftInit
<1>3. entry \in Catalogs /\ [DriftNext]_driftVars => (entry \in Catalogs)'
  BY DEF DriftNext, driftVars, Release, IgnoreDrift, Move, Deploy, ByHand
<1>4. entry \in Catalogs => DeployClears
  BY <1>1 DEF DeployClears
<1>5. RedeployClears <=> [][DeployClears]_driftVars
  BY DEF RedeployClears, DeployClears
<1> QED BY <1>2, <1>3, <1>4, <1>5, PTL DEF DriftSpec

\* What a mute is tied to is the fingerprint of the entry the user saw.
MuteInv ==
  /\ entry \in Catalogs
  /\ ignored # NoMark => muted \in Catalogs /\ ignored = ShapeFingerprint(muted)

\* Entries of one fingerprint are judged alike.
LEMMA FingerprintDecides ==
  ASSUME NEW d \in Catalogs, NEW e \in Catalogs, ShapeFingerprint(d) = ShapeFingerprint(e),
         NEW c, NEW custom, NEW arch
  PROVE  ShapeDrift(d, c, custom, arch) = ShapeDrift(e, c, custom, arch)
<1> DEFINE blank == ""
<1>1. \A x \in Catalogs : ShapeFingerprint(x) = [x EXCEPT !.status = blank]
  BY Zenon DEF ShapeFingerprint
<1> HIDE DEF blank
<1>a. [d EXCEPT !.status = blank] = [e EXCEPT !.status = blank]
  BY ZenonT(60), <1>1
<1>b. ASSUME NEW x \in Catalogs
      PROVE  [x EXCEPT !.status = blank]
               = [image |-> x.image, arm |-> x.arm, status |-> blank, caps |-> x.caps, devices |-> x.devices,
                  privileged |-> x.privileged, ports |-> x.ports, mounts |-> x.mounts, host |-> x.host, entrypoint |-> x.entrypoint, env |-> x.env]
  BY EntryAssumption
<1>2. /\ d.image = e.image /\ d.arm = e.arm /\ d.caps = e.caps /\ d.devices = e.devices
      /\ d.privileged = e.privileged /\ d.ports = e.ports /\ d.mounts = e.mounts /\ d.host = e.host /\ d.entrypoint = e.entrypoint /\ d.env = e.env
  BY <1>a, <1>b
<1>3. Wanted(d, custom, arch) = Wanted(e, custom, arch) /\ wantEnv(d) = wantEnv(e)
  BY <1>2 DEF Wanted, ImageForArch, wantEnv, Defaulted
<1> QED BY ZenonT(60), <1>2, <1>3 DEF ShapeDrift

\* A mute hides nothing new (filterIgnoredDrift): every warning it keeps from the user is one
\* this container would have raised under the catalog the user was looking at when muting.
THEOREM MuteHidesNothingNewThm == DriftSpec => []MuteHidesNothingNew
<1>1. DriftInit => MuteInv
  BY DEF DriftInit, MuteInv
<1>2. MuteInv /\ [DriftNext]_driftVars => MuteInv'
  BY DEF MuteInv, DriftNext, driftVars, Release, IgnoreDrift, Move, Deploy, ByHand
<1>3. MuteInv => MuteHidesNothingNew
  BY FingerprintDecides DEF MuteInv, MuteHidesNothingNew, filterIgnoredDrift, containerDrift
<1> QED BY <1>1, <1>2, <1>3, PTL DEF DriftSpec

------------------------------------------------------------------------------
(* NativeBinaries: executable, marker, rule, entry.                          *)

Bins == {Versions[i] : i \in DOMAIN Versions} \cup {NoEntry}
Launching == {"rule", "prompt", "confirm", "exec", "record"}
Ensuring == {"ensure", "extract", "extracting", "mark"}
Steps == Ensuring \cup Launching \cup {"idle", "stop", "unrule", "delete"}

\* The fields of an entry; that the empty one blocks nothing.
LEMMA BinFields ==
  /\ \A b \in Bins : b.sha \in Int
  /\ NoEntry.block = {}
  /\ \A i \in DOMAIN Versions : Versions[i] \in Bins /\ Versions[i].path \in Paths
                                /\ Versions[i].sha \in Nat \ {0} /\ Versions[i].block \in SUBSET STRING
                                /\ Versions[i] # NoEntry
  /\ \A b \in Bins : b # NoEntry => b.path \in Paths /\ b.block \in SUBSET STRING
<1>1. NoEntry.block = {} /\ NoEntry.sha = 0
  BY Zenon DEF NoEntry, NoDigest
<1>2. ASSUME NEW i \in DOMAIN Versions
      PROVE  /\ Versions[i] \in Bins /\ Versions[i].path \in Paths
             /\ Versions[i].sha \in Nat \ {0} /\ Versions[i].block \in SUBSET STRING /\ Versions[i] # NoEntry
  <2> DEFINE T == [sha : Nat \ {0}, path : STRING, block : SUBSET STRING]
  <2>1. Versions \in Seq(T) BY VersionsAssumption
  <2>2. Versions[i] \in T
    <3> HIDE DEF T
    <3>1. DOMAIN Versions = 1..Len(Versions) BY <2>1, LenProperties
    <3> QED BY <2>1, <3>1, ElementOfSeq
  <2> QED BY <2>2, <1>1 DEF Bins, Paths
<1> QED BY <1>1, <1>2 DEF Bins

CallType == [op : {"none", "deploy", "start", "stop", "remove"}, pc : Steps, bin : Bins]
ProcType == [st : {"none", "live", "crashed"}, of : Bins, content : Int, watched : BOOLEAN, listed : BOOLEAN]

BinariesTypeOK ==
  /\ release \in DOMAIN Versions
  /\ file \in [Paths -> Int] /\ marker \in Int
  /\ rule \in [Paths -> SUBSET STRING]
  /\ registered \in Bins
  /\ proc \in ProcType /\ (proc.st # "none" => proc.of # NoEntry)
  /\ call \in CallType

\* Which call is at which step, and with which binary.
CallInv ==
  /\ call.pc = "idle" <=> call = NoCall
  /\ call.op = "deploy" => call.bin = Versions[release]
  /\ call.op = "start" => call.bin = registered /\ call.bin # NoEntry
  /\ call.pc \in Launching => call.op \in {"deploy", "start"}
  /\ call.pc \in Ensuring => call.op = "deploy"
  /\ call.pc = "delete" => call.op = "remove"
  /\ call.pc = "unrule" => call.op \in {"deploy", "remove"}
  /\ call.pc = "stop" => call.op \in {"deploy", "stop", "remove"}

CallsInv == BinariesTypeOK /\ CallInv

\* A call that is launching has a binary of the catalog.
LEMMA LaunchBin ==
  ASSUME CallsInv, call.pc \in Launching \cup Ensuring
  PROVE  /\ call.bin.path \in Paths /\ call.bin.block \in SUBSET STRING /\ call.bin.sha \in Int
         /\ \E i \in DOMAIN Versions : call.bin = Versions[i]
<1>1. call.bin \in Bins /\ \E i \in DOMAIN Versions : call.bin = Versions[i]
  BY DEF CallsInv, CallInv, BinariesTypeOK, CallType, Bins, Launching, Ensuring
<1> QED BY <1>1, BinFields

LEMMA Empties ==
  /\ NoCall \in CallType /\ NoCall.op = "none" /\ NoCall.pc = "idle"
  /\ NoProcess \in ProcType /\ NoProcess.st = "none" /\ ~NoProcess.watched /\ ~NoProcess.listed
<1>1. NoEntry \in Bins BY DEF Bins
<1> QED BY <1>1 DEF NoCall, NoProcess, CallType, ProcType, NoDigest, Steps

LEMMA CallsInit == BinariesInit => CallsInv
<1> SUFFICES ASSUME BinariesInit PROVE CallsInv OBVIOUS
<1>2. 1 \in DOMAIN Versions BY VersionsAssumption
<1>3. /\ release \in DOMAIN Versions /\ registered \in Bins /\ marker \in Int
      /\ proc \in ProcType /\ call \in CallType
  BY <1>2, Empties DEF BinariesInit, Bins, NoDigest
<1>4. file \in [Paths -> Int] /\ rule \in [Paths -> SUBSET STRING]
  BY DEF BinariesInit, NoDigest
<1>5. proc.st # "none" => proc.of # NoEntry
  BY Empties DEF BinariesInit
<1>6. CallInv
  BY Empties DEF BinariesInit, CallInv, Launching, Ensuring
<1> QED BY <1>3, <1>4, <1>5, <1>6 DEF CallsInv, BinariesTypeOK

\* A step of a call: it goes on, or returns.
LEMMA CallGoesOn ==
  ASSUME CallsInv, NEW pc \in Steps, Continue(pc)
  PROVE  call'.op = call.op /\ call'.bin = call.bin /\ call'.pc = pc /\ call' \in CallType
BY DEF CallsInv, BinariesTypeOK, CallType, Continue

LEMMA CallReturns ==
  ASSUME Return
  PROVE  call'.op = "none" /\ call'.pc = "idle" /\ call' = NoCall /\ call' \in CallType
BY Empties DEF Return

\* The type is kept.
LEMMA CallsStep == CallsInv /\ [BinariesNext]_binaryVars => CallsInv'
<1> SUFFICES ASSUME CallsInv, [BinariesNext]_binaryVars PROVE CallsInv' OBVIOUS
<1>t. /\ release \in DOMAIN Versions
      /\ file \in [Paths -> Int] /\ marker \in Int
      /\ rule \in [Paths -> SUBSET STRING]
      /\ registered \in Bins
      /\ proc \in ProcType /\ (proc.st # "none" => proc.of # NoEntry)
      /\ call \in CallType
  BY DEF CallsInv, BinariesTypeOK
<1>c. CallInv BY DEF CallsInv
<1>q. ASSUME UNCHANGED <<release, registered, call>> PROVE CallInv'
  BY <1>c, <1>q DEF CallInv
<1>r. ASSUME Return PROVE CallInv'
  BY <1>r, CallReturns DEF CallInv, Ensuring, Launching
<1>m. ASSUME NEW pc \in Steps \ {"idle"}, Continue(pc), UNCHANGED <<release, registered>>,
             call.pc # "idle",
             pc \in Launching => call.op \in {"deploy", "start"},
             pc \in Ensuring => call.op = "deploy",
             pc = "delete" => call.op = "remove",
             pc = "unrule" => call.op \in {"deploy", "remove"},
             pc = "stop" => call.op \in {"deploy", "stop", "remove"}
      PROVE  CallInv'
  <2>1. call'.op = call.op /\ call'.bin = call.bin /\ call'.pc = pc BY <1>m, CallGoesOn DEF Steps, Ensuring, Launching
  <2>2. call' # NoCall BY <2>1, <1>m, Empties
  <2> QED BY <2>1, <2>2, <1>m, <1>c DEF CallInv
<1>T. ASSUME release' \in DOMAIN Versions, file' \in [Paths -> Int], marker' \in Int, rule' \in [Paths -> SUBSET STRING],
             registered' \in Bins, proc' \in ProcType, proc'.st # "none" => proc'.of # NoEntry, call' \in CallType,
             CallInv'
      PROVE  CallsInv'
  BY <1>T DEF CallsInv, BinariesTypeOK
<1>1. ASSUME NEW op \in {"deploy", "start", "stop", "remove"}, NEW bin \in Bins, Begin(op, bin),
             op = "deploy" => bin = Versions[release], op = "start" => bin = registered /\ bin # NoEntry
      PROVE CallsInv'
  <2>1. /\ call'.op = op /\ call'.bin = bin
        /\ call'.pc = IF op = "deploy" THEN "ensure" ELSE IF op = "start" THEN "rule" ELSE "stop"
        /\ call' \in CallType
    BY <1>1 DEF Begin, CallType, Steps, Ensuring, Launching
  <2>2. UNCHANGED <<release, file, marker, rule, registered, proc>>
    BY <1>1 DEF Begin, disk, firewall
  <2>3. call' # NoCall BY <2>1, Empties
  <2>4. CallInv' BY <2>1, <2>2, <2>3, <1>1 DEF CallInv, Ensuring, Launching
  <2> QED BY <2>1, <2>2, <2>4, <1>t, <1>T
<1>2. CASE Reuse \/ Download
  <2>1. UNCHANGED <<release, file, marker, rule, registered, proc>> BY <1>2 DEF Reuse, Download, disk, firewall
  <2>2. call.op = "deploy" /\ call.pc = "ensure" /\ (Continue("stop") \/ Continue("extract")) BY <1>2 DEF Reuse, Download, Doing
  <2>3. call' \in CallType BY <2>2, CallGoesOn DEF Steps, Ensuring, Launching
  <2>4. CallInv' BY <2>1, <2>2, <1>m DEF Ensuring, Launching, Steps
  <2> QED BY <2>1, <2>3, <2>4, <1>t, <1>T
<1>2a. CASE CheckRule
  <2>1. UNCHANGED <<release, file, marker, rule, registered, proc>> BY <1>2a DEF CheckRule, disk, firewall
  <2>2. call.pc = "rule" /\ (Continue("exec") \/ Continue("prompt") \/ Return) BY <1>2a DEF CheckRule
  <2>3. call' \in CallType BY <2>2, CallGoesOn, CallReturns DEF Steps, Ensuring, Launching
  <2>4. call.op \in {"deploy", "start"} BY <2>2, <1>c DEF CallInv, Launching
  <2>5. CallInv' BY <2>1, <2>2, <2>4, <1>m, <1>r DEF Ensuring, Launching, Steps
  <2> QED BY <2>1, <2>3, <2>5, <1>t, <1>T
<1>2b. CASE Confirm
  <2>1. UNCHANGED <<release, file, marker, rule, registered, proc>> BY <1>2b DEF Confirm, disk
  <2>2. call.pc = "confirm" /\ (Continue("exec") \/ Return) BY <1>2b DEF Confirm
  <2>3. call' \in CallType BY <2>2, CallGoesOn, CallReturns DEF Steps, Ensuring, Launching
  <2>4. call.op \in {"deploy", "start"} BY <2>2, <1>c DEF CallInv, Launching
  <2>5. CallInv' BY <2>1, <2>2, <2>4, <1>m, <1>r DEF Ensuring, Launching, Steps
  <2> QED BY <2>1, <2>3, <2>5, <1>t, <1>T
<1>3. CASE Extract \/ Extracted \/ Mark
  <2>1. UNCHANGED <<release, rule, registered, proc>> BY <1>3 DEF Extract, Extracted, Mark, firewall
  <2>2. call.op = "deploy" /\ call.pc \in Ensuring /\ \E pc \in {"extracting", "mark", "stop"} : Continue(pc)
    BY <1>3 DEF Extract, Extracted, Mark, Doing, Ensuring
  <2>3. call' \in CallType BY <2>2, CallGoesOn DEF Steps, Ensuring, Launching
  <2>4. call.pc # "idle" BY <2>2 DEF Ensuring
  <2>5. CallInv' BY <2>1, <2>2, <2>4, <1>m DEF Ensuring, Launching, Steps
  <2>6. call.bin \in Bins /\ call.bin.sha \in Int BY <1>t, BinFields DEF CallType
  <2>7. file' \in [Paths -> Int] /\ marker' \in Int
    BY <1>3, <1>t, <2>6 DEF Extract, Extracted, Mark, Torn
  <2> QED BY <2>1, <2>3, <2>5, <2>7, <1>t, <1>T
<1>4. CASE StopOld
  <2>1. UNCHANGED <<release, file, marker, rule, registered>> /\ call.pc = "stop" /\ (proc' = NoProcess \/ proc' = proc)
    BY <1>4 DEF StopOld, Stops, disk, firewall
  <2>2. \/ Return
        \/ call.op = "deploy" /\ Continue("unrule")
        \/ call.op \notin {"deploy", "stop"} /\ Continue("delete")
    BY <1>4 DEF StopOld, Stops
  <2>3. call' \in CallType BY <2>2, CallGoesOn, CallReturns DEF Steps, Ensuring, Launching
  <2>4. call.op \in {"deploy", "stop", "remove"} BY <2>1, <1>c DEF CallInv
  <2>5. CallInv' BY <2>1, <2>2, <2>4, <1>m, <1>r DEF Ensuring, Launching, Steps
  <2> QED BY <2>1, <2>3, <2>5, <1>t, <1>T, Empties
<1>5. CASE RemoveAll
  <2>1. UNCHANGED <<release, rule, registered, proc>> /\ call.pc = "delete" /\ call.op = "remove" /\ Continue("unrule")
    BY <1>5 DEF RemoveAll, Doing, firewall
  <2>2. call' \in CallType BY <2>1, CallGoesOn DEF Steps, Ensuring, Launching
  <2>3. CallInv' BY <2>1, <1>m DEF Ensuring, Launching, Steps
  <2>4. file' \in [Paths -> Int] /\ marker' \in Int BY <1>5 DEF RemoveAll, NoDigest
  <2> QED BY <2>1, <2>2, <2>3, <2>4, <1>t, <1>T
<1>6. CASE Unrule
  <2>1. UNCHANGED <<release, file, marker, proc>> /\ rule' \in [Paths -> SUBSET STRING] /\ call.pc = "unrule"
    BY <1>6, <1>t DEF Unrule, disk
  <2>2. CASE call.op = "remove"
    <3>1. registered' = NoEntry /\ Return BY <1>6, <2>2 DEF Unrule
    <3>2. registered' \in Bins BY <3>1 DEF Bins
    <3>3. call' \in CallType /\ CallInv' BY <3>1, CallReturns, <1>r
    <3> QED BY <2>1, <3>2, <3>3, <1>t, <1>T
  <2>3. CASE call.op # "remove"
    <3>1. registered' = registered /\ Continue("rule") BY <1>6, <2>3 DEF Unrule
    <3>2. call.op = "deploy" BY <2>1, <2>3, <1>c DEF CallInv
    <3>3. call' \in CallType /\ CallInv' BY <3>1, <3>2, <2>1, CallGoesOn, <1>m DEF Ensuring, Launching, Steps
    <3> QED BY <2>1, <3>1, <3>3, <1>t, <1>T
  <2> QED BY <2>2, <2>3
<1>7. CASE Prompt
  <2>1. call.pc = "prompt" /\ UNCHANGED <<release, file, marker, registered, proc>> /\ (Continue("confirm") \/ Return)
    BY <1>7 DEF Prompt, disk
  <2>2. call.bin.block \in SUBSET STRING BY <2>1, LaunchBin DEF Launching
  <2>3. rule' \in [Paths -> SUBSET STRING] BY <1>7, <1>t, <2>2 DEF Prompt
  <2>4. call.op \in {"deploy", "start"} BY <2>1, <1>c DEF CallInv, Launching
  <2>5. call' \in CallType BY <2>1, CallGoesOn, CallReturns DEF Steps, Ensuring, Launching
  <2>6. CallInv' BY <2>1, <2>4, <1>m, <1>r DEF Ensuring, Launching, Steps
  <2> QED BY <2>1, <2>3, <2>5, <2>6, <1>t, <1>T
<1>8. CASE Exec
  <2>1. call.pc = "exec" /\ UNCHANGED <<release, file, marker, rule, registered>> /\ Continue("record")
    BY <1>8 DEF Exec, disk, firewall
  <2>2. file[call.bin.path] \in Int /\ call.bin # NoEntry
    BY <2>1, <1>t, LaunchBin, BinFields DEF Launching
  <2>3. proc' \in ProcType /\ proc'.of # NoEntry
    BY <1>8, <1>t, <2>2 DEF Exec, ProcType, CallType
  <2>4. call' \in CallType BY <2>1, CallGoesOn DEF Steps, Ensuring, Launching
  <2>5. call.op \in {"deploy", "start"} BY <2>1, <1>c DEF CallInv, Launching
  <2>6. CallInv' BY <2>1, <2>5, <1>m DEF Ensuring, Launching, Steps
  <2> QED BY <2>1, <2>3, <2>4, <2>6, <1>t, <1>T
<1>9. CASE persistRunning
  <2>1. UNCHANGED <<release, file, marker, rule>> /\ Return /\ registered' \in Bins
    BY <1>9, <1>t DEF persistRunning, disk, CallType
  <2>2. proc' \in ProcType /\ proc'.st = proc.st /\ proc'.of = proc.of
    BY <1>9, <1>t DEF persistRunning, ProcType
  <2> QED BY <2>1, <2>2, CallReturns, <1>r, <1>t, <1>T
<1>10. CASE Fails
  <2>1. UNCHANGED <<release, file, rule, registered, proc>> /\ Return /\ marker' \in {marker, Torn}
    BY <1>10 DEF Fails
  <2> QED BY <2>1, CallReturns, <1>r, <1>t, <1>T DEF Torn
<1>11. CASE AppDies
  <2>1. UNCHANGED <<release, file, marker, rule, registered>> /\ Return
    BY <1>11 DEF AppDies, disk
  <2>2. proc' = NoProcess \/ proc' = [proc EXCEPT !.watched = FALSE]
    BY <1>11 DEF AppDies
  <2>3. proc' \in ProcType /\ (proc'.st # "none" => proc'.of # NoEntry)
    BY <2>2, <1>t, Empties DEF ProcType
  <2> QED BY <2>1, <2>3, CallReturns, <1>r, <1>t, <1>T
<1>12. CASE Crash
  <2>1. UNCHANGED <<release, file, marker, rule, registered, call>> BY <1>12 DEF Crash, disk, firewall
  <2>2. proc' = NoProcess \/ (proc.st = "live" /\ proc' = [proc EXCEPT !.st = "crashed", !.listed = FALSE])
    BY <1>12 DEF Crash
  <2>3. proc' \in ProcType /\ (proc'.st # "none" => proc'.of # NoEntry)
    BY <2>2, <1>t, Empties DEF ProcType
  <2> QED BY <2>1, <2>3, <1>q, <1>t, <1>T
<1>12a. CASE Respawn
  <2>1. UNCHANGED <<release, file, marker, rule, registered, call>> /\ proc.st = "crashed"
        /\ proc' = [proc EXCEPT !.st = "live", !.content = file[proc.of.path], !.listed = registered # NoEntry]
    BY <1>12a DEF Respawn, disk, firewall
  <2>2. proc.of \in Bins /\ proc.of # NoEntry BY <2>1, <1>t DEF ProcType
  <2>3. file[proc.of.path] \in Int BY <2>2, <1>t, BinFields
  <2>4. proc' \in ProcType /\ proc'.of # NoEntry BY <2>1, <2>2, <2>3, <1>t DEF ProcType
  <2> QED BY <2>1, <2>4, <1>q, <1>t, <1>T
<1>13. CASE NextRelease
  <2>1. release' \in DOMAIN Versions
    BY <1>13, <1>t, VersionsAssumption DEF NextRelease
  <2>2. call = NoCall /\ UNCHANGED <<file, marker, rule, registered, proc, call>> BY <1>13 DEF NextRelease, disk, firewall
  <2>3. CallInv' BY <2>2, <1>c, Empties DEF CallInv, Ensuring, Launching
  <2> QED BY <2>1, <2>2, <2>3, <1>t, <1>T
<1>14. CASE SwitchFirewall
  <2>1. UNCHANGED <<release, file, marker, rule, registered, proc, call>> BY <1>14 DEF SwitchFirewall, disk
  <2> QED BY <2>1, <1>q, <1>t, <1>T
<1>15. ASSUME NEW p \in Paths, DeletesRule(p) PROVE CallsInv'
  <2>1. UNCHANGED <<release, file, marker, registered, proc, call>> /\ rule' = [rule EXCEPT ![p] = {}]
    BY <1>15 DEF DeletesRule, disk
  <2>2. rule' \in [Paths -> SUBSET STRING] BY <2>1, <1>t
  <2> QED BY <2>1, <2>2, <1>q, <1>t, <1>T
<1>16. CASE UNCHANGED binaryVars
  <2>1. UNCHANGED <<release, file, marker, rule, registered, proc, call>> BY <1>16 DEF binaryVars, disk, firewall
  <2> QED BY <2>1, <1>q, <1>t, <1>T
<1>17. CASE DeployBinary \/ StartBinary \/ StopBinary \/ RemoveBinary
  <2>1. Versions[release] \in Bins BY <1>t, BinFields
  <2> QED BY <1>17, <1>1, <2>1, <1>t DEF DeployBinary, StartBinary, StopBinary, RemoveBinary
<1> QED
  BY <1>2, <1>2a, <1>2b, <1>3, <1>4, <1>5, <1>6, <1>7, <1>8, <1>9, <1>10, <1>11, <1>12, <1>12a, <1>13, <1>14, <1>15,
     <1>16, <1>17 DEF BinariesNext

\* From the stop to the launch nothing runs that the app watches or the entry lists.
QuietInv ==
  call.pc \in {"delete", "unrule", "rule", "prompt", "confirm", "exec"} => ~proc.watched /\ ~proc.listed

\* What runs or may be started again runs behind its rule, and so does what is launched next.
BlockedInv ==
  /\ proc.st = "crashed" => proc.watched
  /\ (proc.watched \/ proc.listed) /\ proc.of.path \notin byHand => proc.of.block \subseteq rule[proc.of.path]
  /\ call.pc = "exec" /\ call.bin.path \notin byHand => call.bin.block \subseteq rule[call.bin.path]
  /\ call.pc = "record" => proc.watched

BehindInv == QuietInv /\ BlockedInv

\* Every rule is named by the entry, or is the one of the launch under way, or of one that
\* was not recorded.
KnownInv ==
  /\ \A p \in Paths \ strayed : rule[p] # {} =>
       \/ registered.path = p /\ registered.block # {}
       \/ call.pc \in {"confirm", "exec", "record"} /\ call.bin.path = p /\ call.bin.block # {}
  /\ call.op = "deploy" /\ call.pc \in Launching =>
       \A p \in Paths \ strayed : rule[p] # {} => call.bin.path = p /\ call.bin.block # {}

\* The marker is never that of a release to come; the pinned one's stands for a whole file.
MarkerInv ==
  /\ \A i \in DOMAIN Versions : marker = Versions[i].sha => i <= release
  /\ marker = Versions[release].sha => file[Versions[release].path] = marker
  /\ call.pc \in {"extract", "extracting", "mark"} => marker # call.bin.sha
  /\ call.pc = "mark" => file[call.bin.path] = call.bin.sha
  /\ call.op = "deploy" /\ call.pc \in {"stop", "unrule"} \cup Launching => file[call.bin.path] = call.bin.sha

\* What a step does to a call.
LEMMA CallThen ==
  ASSUME CallsInv
  PROVE  /\ \A pc \in Steps : Continue(pc) => call'.op = call.op /\ call'.bin = call.bin /\ call'.pc = pc
         /\ Return => call'.op = "none" /\ call'.pc = "idle"
BY CallGoesOn, CallReturns

\* Behind its rule: kept by every step.
LEMMA BehindStep == CallsInv /\ BehindInv /\ [BinariesNext]_binaryVars => BehindInv'
<1> SUFFICES ASSUME CallsInv, BehindInv, [BinariesNext]_binaryVars PROVE BehindInv' OBVIOUS
<1>t. /\ rule \in [Paths -> SUBSET STRING]
      /\ proc \in ProcType /\ (proc.st # "none" => proc.of # NoEntry)
      /\ call \in CallType
  BY DEF CallsInv, BinariesTypeOK
<1>b. QuietInv /\ BlockedInv BY DEF BehindInv
<1>e. ~NoProcess.watched /\ ~NoProcess.listed /\ NoProcess.st = "none" BY Empties
<1>i. call = NoCall => call.op = "none" /\ call.pc = "idle" BY Empties
<1>q. ASSUME UNCHANGED <<rule, byHand, proc>>,
             call'.pc \in {"delete", "unrule", "rule", "prompt", "confirm", "exec"} => ~proc.watched /\ ~proc.listed,
             call'.pc = "exec" /\ call'.bin.path \notin byHand => call'.bin.block \subseteq rule[call'.bin.path],
             call'.pc # "record"
      PROVE  BehindInv'
  BY <1>q, <1>b DEF BehindInv, QuietInv, BlockedInv
<1>n. ASSUME UNCHANGED rule, proc' = NoProcess \/ (UNCHANGED proc /\ UNCHANGED byHand), call'.pc \notin {"exec", "record"},
             call'.pc \in {"delete", "unrule", "rule", "prompt", "confirm"} => ~proc'.watched /\ ~proc'.listed
      PROVE  BehindInv'
  BY <1>n, <1>b, <1>e DEF BehindInv, QuietInv, BlockedInv
<1>1. ASSUME NEW op \in {"deploy", "start", "stop", "remove"}, NEW bin, Begin(op, bin),
             op = "start" => proc.st # "crashed" /\ ~proc.watched /\ ~proc.listed
      PROVE  BehindInv'
  <2>1. UNCHANGED <<rule, byHand, proc>> /\ call'.pc = IF op = "deploy" THEN "ensure" ELSE IF op = "start" THEN "rule" ELSE "stop"
    BY <1>1 DEF Begin, firewall
  <2> QED BY <2>1, <1>1, <1>q
<1>2. CASE Reuse \/ Download \/ Extract \/ Extracted \/ Mark
  <2>1. UNCHANGED <<rule, byHand, proc>> /\ \E pc \in {"stop", "extract", "extracting", "mark"} : Continue(pc)
    BY <1>2 DEF Reuse, Download, Extract, Extracted, Mark, firewall
  <2>2. call'.pc \in {"stop", "extract", "extracting", "mark"} BY <2>1, CallThen DEF Steps, Ensuring
  <2> QED BY <2>1, <2>2, <1>q
<1>3. CASE StopOld
  <2>1. UNCHANGED <<rule, byHand>> /\ (IF proc.watched \/ proc.listed THEN proc' = NoProcess ELSE UNCHANGED proc)
        /\ (Return \/ \E pc \in {"unrule", "delete"} : Continue(pc))
    BY <1>3 DEF StopOld, Stops, firewall
  <2>2. call'.pc \in {"idle", "unrule", "delete"} BY <2>1, CallThen DEF Steps
  <2> QED BY <2>1, <2>2, <1>n, <1>e
<1>4. CASE RemoveAll
  <2>1. UNCHANGED <<rule, byHand, proc>> /\ call.pc = "delete" /\ Continue("unrule")
    BY <1>4 DEF RemoveAll, firewall, Doing
  <2>2. call'.pc = "unrule" BY <2>1, CallThen DEF Steps
  <2> QED BY <2>1, <2>2, <1>q, <1>b DEF QuietInv
<1>5. CASE Unrule
  <2>1. call.pc = "unrule" /\ UNCHANGED <<proc, byHand>> /\ (Return \/ Continue("rule"))
    BY <1>5 DEF Unrule
  <2>2. call'.pc \in {"idle", "rule"} BY <2>1, CallThen DEF Steps, Launching
  <2>3. ~proc.watched /\ ~proc.listed BY <2>1, <1>b DEF QuietInv
  <2> QED BY <2>1, <2>2, <2>3, <1>b DEF BehindInv, QuietInv, BlockedInv
<1>6. CASE CheckRule
  <2>1. call.pc = "rule" /\ UNCHANGED <<rule, byHand, proc>>
        /\ (Return \/ Continue("prompt") \/ (Continue("exec") /\ (call.bin.block = {} \/ Matches)))
    BY <1>6 DEF CheckRule, firewall
  <2>2. \/ call'.pc \in {"idle", "prompt"}
        \/ call'.pc = "exec" /\ call'.bin = call.bin /\ (call.bin.block = {} \/ Matches)
    BY <2>1, CallThen DEF Steps, Launching
  <2>3. ~proc.watched /\ ~proc.listed BY <2>1, <1>b DEF QuietInv
  <2> QED BY <2>1, <2>2, <2>3, <1>q DEF Matches
<1>7. CASE Prompt
  <2>1. call.pc = "prompt" /\ UNCHANGED proc /\ (Continue("confirm") \/ Return)
    BY <1>7 DEF Prompt
  <2>2. call'.pc \in {"idle", "confirm"} BY <2>1, CallThen DEF Steps, Launching
  <2>3. ~proc.watched /\ ~proc.listed BY <2>1, <1>b DEF QuietInv
  <2> QED BY <2>1, <2>2, <2>3, <1>b DEF BehindInv, QuietInv, BlockedInv
<1>8. CASE Confirm
  <2>1. call.pc = "confirm" /\ UNCHANGED <<rule, byHand, proc>> /\ (Return \/ (Continue("exec") /\ Matches))
    BY <1>8 DEF Confirm
  <2>2. call'.pc = "idle" \/ (call'.pc = "exec" /\ call'.bin = call.bin /\ Matches)
    BY <2>1, CallThen DEF Steps, Launching
  <2>3. ~proc.watched /\ ~proc.listed BY <2>1, <1>b DEF QuietInv
  <2> QED BY <2>1, <2>2, <2>3, <1>q DEF Matches
<1>9. CASE Exec
  <2>1. call.pc = "exec" /\ UNCHANGED <<rule, byHand>> /\ Continue("record")
        /\ proc'.st = "live" /\ proc'.of = call.bin /\ proc'.watched
    BY <1>9 DEF Exec, firewall
  <2>2. call'.pc = "record" BY <2>1, CallThen DEF Steps, Launching
  <2> QED BY <2>1, <2>2, <1>b DEF BehindInv, QuietInv, BlockedInv
<1>10. CASE persistRunning
  <2>1. call.pc = "record" /\ UNCHANGED <<rule, byHand>> /\ Return
        /\ proc'.st = proc.st /\ proc'.of = proc.of /\ proc'.watched = proc.watched
    BY <1>10, <1>t DEF persistRunning, ProcType
  <2>2. call'.pc = "idle" BY <2>1, CallThen
  <2> QED BY <2>1, <2>2, <1>b DEF BehindInv, QuietInv, BlockedInv
<1>11. CASE Fails
  <2>1. UNCHANGED <<rule, byHand, proc>> /\ Return BY <1>11 DEF Fails
  <2>2. call'.pc = "idle" BY <2>1, CallThen
  <2> QED BY <2>1, <2>2, <1>q
<1>12. CASE AppDies
  <2>1. UNCHANGED <<rule, byHand>> /\ Return
        /\ (proc' = NoProcess \/ (proc.st = "live" /\ proc' = [proc EXCEPT !.watched = FALSE]))
    BY <1>12 DEF AppDies
  <2>2. call'.pc = "idle" BY <2>1, CallThen
  <2>3. CASE proc' = NoProcess BY <2>1, <2>2, <2>3, <1>n
  <2>4. CASE proc.st = "live" /\ proc' = [proc EXCEPT !.watched = FALSE]
    <3>1. proc'.st = "live" /\ proc'.of = proc.of /\ ~proc'.watched /\ proc'.listed = proc.listed
      BY <2>4, <1>t DEF ProcType
    <3> QED BY <3>1, <2>1, <2>2, <1>b DEF BehindInv, QuietInv, BlockedInv
  <2> QED BY <2>1, <2>3, <2>4
<1>13. CASE Crash
  <2>1. UNCHANGED <<rule, byHand, call>>
        /\ IF proc.watched THEN proc' = [proc EXCEPT !.st = "crashed", !.listed = FALSE] ELSE proc' = NoProcess
    BY <1>13 DEF Crash, firewall
  <2>2. CASE proc.watched
    <3>1. proc'.st = "crashed" /\ proc'.of = proc.of /\ proc'.watched /\ ~proc'.listed
      BY <2>1, <2>2, <1>t DEF ProcType
    <3> QED BY <3>1, <2>1, <2>2, <1>b DEF BehindInv, QuietInv, BlockedInv
  <2>3. CASE ~proc.watched
    <3>1. proc' = NoProcess BY <2>1, <2>3
    <3> QED BY <3>1, <2>1, <2>3, <1>b, <1>e DEF BehindInv, QuietInv, BlockedInv
  <2> QED BY <2>2, <2>3
<1>14. CASE Respawn
  <2>1. UNCHANGED <<rule, byHand, call>> /\ proc.st = "crashed"
        /\ proc' = [proc EXCEPT !.st = "live", !.content = file[proc.of.path], !.listed = registered # NoEntry]
    BY <1>14 DEF Respawn, firewall
  <2>2. proc'.st = "live" /\ proc'.of = proc.of /\ proc'.watched = proc.watched
    BY <2>1, <1>t DEF ProcType
  <2>3. proc.watched BY <2>1, <1>b DEF BlockedInv
  <2> QED BY <2>1, <2>2, <2>3, <1>b DEF BehindInv, QuietInv, BlockedInv
<1>15. CASE NextRelease \/ SwitchFirewall \/ UNCHANGED binaryVars
  <2>1. UNCHANGED <<rule, byHand, proc, call>>
    BY <1>15 DEF NextRelease, SwitchFirewall, binaryVars, firewall
  <2> QED BY <2>1, <1>b DEF BehindInv, QuietInv, BlockedInv
<1>16. ASSUME NEW p \in Paths, DeletesRule(p) PROVE BehindInv'
  <2>1. UNCHANGED <<proc, call>> /\ byHand' = byHand \cup {p} /\ rule' = [rule EXCEPT ![p] = {}]
    BY <1>16 DEF DeletesRule
  <2>2. \A q : q # p => rule'[q] = rule[q] BY <2>1, <1>t
  <2> QED BY <2>1, <2>2, <1>b DEF BehindInv, QuietInv, BlockedInv
<1>17. CASE DeployBinary \/ StartBinary \/ StopBinary \/ RemoveBinary
  BY <1>17, <1>1 DEF DeployBinary, StartBinary, StopBinary, RemoveBinary
<1> QED
  BY <1>2, <1>3, <1>4, <1>5, <1>6, <1>7, <1>8, <1>9, <1>10, <1>11, <1>12, <1>13, <1>14, <1>15, <1>16, <1>17 DEF BinariesNext

\* No rule is forgotten: kept by every step.
LEMMA KnownStep == CallsInv /\ CallsInv' /\ KnownInv /\ [BinariesNext]_binaryVars => KnownInv'
<1> SUFFICES ASSUME CallsInv, CallsInv', KnownInv, [BinariesNext]_binaryVars PROVE KnownInv' OBVIOUS
<1>t. rule \in [Paths -> SUBSET STRING] /\ call \in CallType
  BY DEF CallsInv, BinariesTypeOK
<1>i. call = NoCall => call.op = "none" /\ call.pc = "idle" BY Empties
<1>o. call.pc \in Launching => call.op \in {"deploy", "start"} BY DEF CallsInv, CallInv
<1>s. call.op = "start" => call.bin = registered BY DEF CallsInv, CallInv
\* A step outside the launch that leaves rules and entry alone.
<1>q. ASSUME UNCHANGED <<rule, registered, strayed>>, call.pc \notin {"confirm", "exec", "record"},
             call'.op = "deploy" /\ call'.pc \in Launching =>
               call.op = "deploy" /\ call.pc \in Launching /\ call'.bin = call.bin
      PROVE  KnownInv'
  BY <1>q DEF KnownInv
\* A step inside it.
<1>l. ASSUME UNCHANGED <<rule, registered, strayed>>, call.pc \in Launching, call'.op = call.op, call'.bin = call.bin,
             call'.pc \in {"confirm", "exec", "record"}
      PROVE  KnownInv'
  BY <1>l DEF KnownInv, Launching
\* A launch that goes no further: its rule is the entry's, or strays.
<1>x. ASSUME UNCHANGED <<rule, registered>>, Stray, call'.pc = "idle"
      PROVE  KnownInv'
  <2>1. \A p \in Paths \ strayed' : rule[p] # {} => registered.path = p /\ registered.block # {}
    BY <1>x DEF KnownInv, Stray, Named
  <2> QED BY <2>1, <1>x DEF KnownInv, Launching
<1>1. ASSUME NEW op \in {"deploy", "start", "stop", "remove"}, NEW bin, Begin(op, bin)
      PROVE  KnownInv'
  <2>1. UNCHANGED <<rule, registered, strayed>> /\ call.pc = "idle" /\ call'.op = op
        /\ call'.pc = IF op = "deploy" THEN "ensure" ELSE IF op = "start" THEN "rule" ELSE "stop"
    BY <1>1, <1>i DEF Begin, firewall
  <2> QED BY <2>1, <1>q DEF Launching
<1>2. CASE Reuse \/ Download \/ Extract \/ Extracted \/ Mark
  <2>1. UNCHANGED <<rule, registered, strayed>> /\ (\E pc \in {"stop", "extract", "extracting", "mark"} : Continue(pc))
        /\ call.pc \in Ensuring
    BY <1>2 DEF Reuse, Download, Extract, Extracted, Mark, Doing, firewall, Ensuring
  <2>2. call'.pc \in {"stop", "extract", "extracting", "mark"} BY <2>1, CallThen DEF Steps, Ensuring
  <2> QED BY <2>1, <2>2, <1>q DEF Ensuring, Launching
<1>3. CASE StopOld
  <2>1. UNCHANGED <<rule, registered, strayed>> /\ call.pc = "stop"
        /\ (Return \/ \E pc \in {"unrule", "delete"} : Continue(pc))
    BY <1>3 DEF StopOld, Stops, firewall
  <2>2. call'.pc \in {"idle", "unrule", "delete"} BY <2>1, CallThen DEF Steps
  <2> QED BY <2>1, <2>2, <1>q DEF Launching
<1>4. CASE RemoveAll
  <2>1. UNCHANGED <<rule, registered, strayed>> /\ call.pc = "delete" /\ Continue("unrule")
    BY <1>4 DEF RemoveAll, firewall, Doing
  <2>2. call'.pc = "unrule" BY <2>1, CallThen DEF Steps
  <2> QED BY <2>1, <2>2, <1>q DEF Launching
<1>5. CASE Unrule
  <2>1. call.pc = "unrule" /\ UNCHANGED strayed
    BY <1>5 DEF Unrule
  <2>2. \A p \in Paths \ strayed : rule[p] # {} => registered.path = p /\ registered.block # {}
    BY <2>1 DEF KnownInv
  <2>3. \A p \in Paths : rule'[p] # {} => rule[p] # {} /\ (Unwanted => p # registered.path)
    BY <1>5, <1>t DEF Unrule
  <2>4. \A p \in Paths \ strayed : rule'[p] # {} => registered.path = p /\ registered.block # {} /\ ~Unwanted
    BY <2>2, <2>3
  <2>5. CASE call.op = "remove"
    <3>1. \A p \in Paths \ strayed' : rule'[p] = {} BY <2>4, <2>1, <2>5 DEF Unwanted
    <3>2. Return BY <1>5, <2>5 DEF Unrule
    <3> QED BY <3>1, <3>2, CallThen DEF KnownInv, Launching
  <2>6. CASE call.op # "remove"
    <3>1. UNCHANGED registered /\ Continue("rule") BY <1>5, <2>6 DEF Unrule
    <3>2. call'.bin = call.bin /\ call'.pc = "rule" BY <3>1, CallThen DEF Steps, Launching
    <3>3. \A p \in Paths \ strayed : rule'[p] # {} => call.bin.path = p /\ call.bin.block # {}
      BY <2>4 DEF Unwanted
    <3> QED BY <2>1, <2>4, <3>1, <3>2, <3>3 DEF KnownInv
  <2> QED BY <2>5, <2>6
<1>6. CASE CheckRule
  <2>1. call.pc = "rule" /\ UNCHANGED <<rule, registered, strayed>> /\ (Return \/ Continue("prompt") \/ Continue("exec"))
    BY <1>6 DEF CheckRule, firewall
  <2>2. call'.pc \in {"idle", "prompt"} \/ (call'.pc = "exec" /\ call'.op = call.op /\ call'.bin = call.bin)
    BY <2>1, CallThen DEF Steps, Launching
  <2>3. call'.pc = "prompt" => call'.op = call.op /\ call'.bin = call.bin
    BY <2>1, CallThen DEF Steps, Launching
  <2> QED BY <2>1, <2>2, <2>3, <1>q, <1>l DEF Launching
<1>7. CASE Prompt
  <2>1. call.pc = "prompt" /\ UNCHANGED <<registered, strayed>> BY <1>7 DEF Prompt
  <2>2. \A p \in Paths \ strayed : rule[p] # {} => registered.path = p /\ registered.block # {}
    BY <2>1 DEF KnownInv
  <2>3. CASE rule' = [rule EXCEPT ![call.bin.path] = call.bin.block] /\ Continue("confirm")
    <3>1. call'.op = call.op /\ call'.bin = call.bin /\ call'.pc = "confirm" BY <2>3, CallThen DEF Steps, Launching
    <3>2. \A p \in Paths : rule'[p] = IF p = call.bin.path THEN call.bin.block ELSE rule[p] BY <2>3, <1>t
    <3> QED BY <2>1, <2>2, <3>1, <3>2 DEF KnownInv, Launching
  <2>4. CASE rule' = [rule EXCEPT ![call.bin.path] = {}] /\ Return
    <3>1. \A p \in Paths : rule'[p] # {} => rule[p] # {} BY <2>4, <1>t
    <3> QED BY <2>1, <2>2, <2>4, <3>1, CallThen DEF KnownInv, Launching
  <2> QED BY <1>7, <2>3, <2>4 DEF Prompt
<1>8. CASE Confirm
  <2>1. call.pc = "confirm" /\ UNCHANGED <<rule, registered>>
        /\ ((Return /\ Stray) \/ (Continue("exec") /\ UNCHANGED strayed))
    BY <1>8 DEF Confirm
  <2>2. CASE Return /\ Stray BY <2>1, <2>2, <1>x, CallThen
  <2>3. CASE Continue("exec") /\ UNCHANGED strayed
    <3>1. call'.op = call.op /\ call'.bin = call.bin /\ call'.pc = "exec" BY <2>3, CallThen DEF Steps, Launching
    <3> QED BY <2>1, <2>3, <3>1, <1>l DEF Launching
  <2> QED BY <2>1, <2>2, <2>3
<1>9. CASE Exec
  <2>1. call.pc = "exec" /\ UNCHANGED <<rule, registered, strayed>> /\ Continue("record")
    BY <1>9 DEF Exec, firewall
  <2>2. call'.op = call.op /\ call'.bin = call.bin /\ call'.pc = "record" BY <2>1, CallThen DEF Steps, Launching
  <2> QED BY <2>1, <2>2, <1>l DEF Launching
<1>10. CASE persistRunning
  <2>1. call.pc = "record" /\ UNCHANGED rule /\ Return BY <1>10 DEF persistRunning
  <2>2. call'.pc = "idle" BY <2>1, CallThen
  <2>3. CASE registered' = call.bin /\ strayed' = IF call.bin.block # {} THEN strayed \ {call.bin.path} ELSE strayed
    <3>1. call.op \in {"deploy", "start"} BY <2>1, <1>o DEF Launching
    <3>2. \A p \in Paths \ strayed : rule[p] # {} => call.bin.path = p /\ call.bin.block # {}
      BY <2>1, <3>1, <1>s DEF KnownInv, Launching
    <3>3. \A p \in Paths \ strayed' : rule[p] # {} => call.bin.path = p /\ call.bin.block # {}
      BY <2>3, <3>2
    <3> QED BY <2>1, <2>2, <2>3, <3>3 DEF KnownInv, Launching
  <2>4. CASE Stray /\ UNCHANGED registered
    BY <2>1, <2>2, <2>4, <1>x
  <2> QED BY <1>10, <2>3, <2>4 DEF persistRunning
<1>11. CASE Fails
  <2>1. UNCHANGED <<rule, registered>> /\ Return /\ call.pc # "record"
        /\ IF call.pc \in {"confirm", "exec"} THEN Stray ELSE UNCHANGED strayed
    BY <1>11 DEF Fails
  <2>2. call'.pc = "idle" BY <2>1, CallThen
  <2> QED BY <2>1, <2>2, <1>q, <1>x DEF Launching
<1>12. CASE AppDies
  <2>1. UNCHANGED <<rule, registered>> /\ Return
        /\ IF call.pc \in {"confirm", "exec", "record"} THEN Stray ELSE UNCHANGED strayed
    BY <1>12 DEF AppDies
  <2>2. call'.pc = "idle" BY <2>1, CallThen
  <2> QED BY <2>1, <2>2, <1>q, <1>x DEF Launching
<1>13. CASE Crash \/ Respawn \/ NextRelease \/ SwitchFirewall \/ UNCHANGED binaryVars
  <2>1. UNCHANGED <<rule, registered, strayed, call>>
    BY <1>13 DEF Crash, Respawn, NextRelease, SwitchFirewall, binaryVars, firewall
  <2> QED BY <2>1 DEF KnownInv
<1>14. ASSUME NEW p \in Paths, DeletesRule(p) PROVE KnownInv'
  <2>1. UNCHANGED <<registered, strayed, call>> /\ rule' = [rule EXCEPT ![p] = {}] BY <1>14 DEF DeletesRule
  <2>2. \A q \in Paths : rule'[q] # {} => rule[q] # {} BY <2>1, <1>t
  <2> QED BY <2>1, <2>2 DEF KnownInv
<1>15. CASE DeployBinary \/ StartBinary \/ StopBinary \/ RemoveBinary
  BY <1>15, <1>1 DEF DeployBinary, StartBinary, StopBinary, RemoveBinary
<1> QED
  BY <1>2, <1>3, <1>4, <1>5, <1>6, <1>7, <1>8, <1>9, <1>10, <1>11, <1>12, <1>13, <1>14, <1>15 DEF BinariesNext

\* The firewall's rules follow the launches, both ways (launchProcess, Deploy, Remove): what
\* the app watches or its registry names runs behind the rule its version declares, unless
\* the user deleted that; and every rule there is, is named by the entry or strayed.
THEOREM RulesFollowLaunchesThm == BinariesSpec => []RulesFollowLaunches
<1>1. BinariesInit => CallsInv /\ BehindInv /\ KnownInv
  <2>1. BinariesInit => BehindInv
    BY Empties DEF BinariesInit, BehindInv, QuietInv, BlockedInv
  <2>2. BinariesInit => KnownInv
    BY Empties DEF BinariesInit, KnownInv, Launching
  <2> QED BY <2>1, <2>2, CallsInit
<1>2. CallsInv /\ BehindInv /\ KnownInv /\ [BinariesNext]_binaryVars => (CallsInv /\ BehindInv /\ KnownInv)'
  BY CallsStep, BehindStep, KnownStep
<1>3. CallsInv /\ BehindInv /\ KnownInv => RulesFollowLaunches
  <2>1. BehindInv => RunsBehindItsRule BY DEF BehindInv, BlockedInv, RunsBehindItsRule
  <2>2. KnownInv => NoRuleForgotten BY Empties DEF KnownInv, NoRuleForgotten
  <2> QED BY <2>1, <2>2 DEF RulesFollowLaunches
<1> QED BY <1>1, <1>2, <1>3, PTL DEF BinariesSpec

\* What the marker stands for: kept by every step.
LEMMA MarkerStep == CallsInv /\ MarkerInv /\ [BinariesNext]_binaryVars => MarkerInv'
<1> SUFFICES ASSUME CallsInv, MarkerInv, [BinariesNext]_binaryVars PROVE MarkerInv' OBVIOUS
<1>t. /\ release \in DOMAIN Versions /\ file \in [Paths -> Int] /\ marker \in Int
      /\ call \in CallType
  BY DEF CallsInv, BinariesTypeOK
<1>v. /\ Versions[release].path \in Paths
      /\ \A i \in DOMAIN Versions : Versions[i].sha # NoDigest /\ Versions[i].sha # Torn
  BY <1>t, BinFields DEF NoDigest, Torn
<1>i. call = NoCall => call.op = "none" /\ call.pc = "idle" BY Empties
<1>d. call.op = "deploy" => call.bin = Versions[release] BY DEF CallsInv, CallInv
<1>p. call.pc \in Ensuring => call.op = "deploy" BY DEF CallsInv, CallInv
\* A step that leaves the disk alone.
<1>q. ASSUME UNCHANGED <<release, file, marker>>,
             call'.pc \notin {"extract", "extracting", "mark"},
             call'.op = "deploy" /\ call'.pc \in {"stop", "unrule"} \cup Launching =>
               /\ call.op = "deploy" /\ call'.bin = call.bin
               /\ call.pc \in {"stop", "unrule"} \cup Launching
      PROVE  MarkerInv'
  BY <1>q DEF MarkerInv
<1>1. ASSUME NEW op \in {"deploy", "start", "stop", "remove"}, NEW bin, Begin(op, bin)
      PROVE  MarkerInv'
  <2>1. UNCHANGED <<release, file, marker>> /\ call'.op = op
        /\ call'.pc = IF op = "deploy" THEN "ensure" ELSE IF op = "start" THEN "rule" ELSE "stop"
    BY <1>1 DEF Begin, disk
  <2> QED BY <2>1, <1>q DEF Launching
<1>2. CASE Reuse
  <2>1. UNCHANGED <<release, file, marker>> /\ call.op = "deploy" /\ marker = call.bin.sha /\ Continue("stop")
    BY <1>2 DEF Reuse, Recorded, Doing, disk
  <2>2. call'.op = "deploy" /\ call'.bin = call.bin /\ call'.pc = "stop" BY <2>1, CallThen DEF Steps
  <2> QED BY <2>1, <2>2, <1>d DEF MarkerInv
<1>3. CASE Download
  <2>1. UNCHANGED <<release, file, marker>> /\ call.op = "deploy" /\ ~Recorded(call.bin) /\ Continue("extract")
    BY <1>3 DEF Download, Doing, disk
  <2>2. call'.op = "deploy" /\ call'.bin = call.bin /\ call'.pc = "extract" BY <2>1, CallThen DEF Steps, Ensuring
  <2>3. marker # call.bin.sha BY <2>1, <1>d, <1>t, <1>v DEF Recorded, MarkerInv
  <2> QED BY <2>1, <2>2, <2>3 DEF MarkerInv, Launching
<1>4. CASE Extract
  <2>1. UNCHANGED <<release, marker>> /\ call.op = "deploy" /\ call.pc = "extract" /\ Continue("extracting")
    BY <1>4 DEF Extract, Doing
  <2>2. call'.op = "deploy" /\ call'.bin = call.bin /\ call'.pc = "extracting" BY <2>1, CallThen DEF Steps, Ensuring
  <2>3. marker # Versions[release].sha BY <2>1, <1>d DEF MarkerInv
  <2> QED BY <2>1, <2>2, <2>3, <1>d DEF MarkerInv, Launching
<1>5. CASE Extracted
  <2>1. UNCHANGED <<release, marker>> /\ call.op = "deploy" /\ call.pc = "extracting" /\ Continue("mark")
        /\ file' = [file EXCEPT ![call.bin.path] = call.bin.sha]
    BY <1>5 DEF Extracted, Doing
  <2>2. call'.op = "deploy" /\ call'.bin = call.bin /\ call'.pc = "mark" BY <2>1, CallThen DEF Steps, Ensuring
  <2>3. marker # Versions[release].sha BY <2>1, <1>d DEF MarkerInv
  <2>4. file'[call.bin.path] = call.bin.sha BY <2>1, <1>d, <1>v, <1>t
  <2> QED BY <2>1, <2>2, <2>3, <2>4, <1>d DEF MarkerInv, Launching
<1>6. CASE Mark
  <2>1. UNCHANGED <<release, file>> /\ call.op = "deploy" /\ call.pc = "mark" /\ Continue("stop") /\ marker' = call.bin.sha
    BY <1>6 DEF Mark, Doing
  <2>2. call'.op = "deploy" /\ call'.bin = call.bin /\ call'.pc = "stop" BY <2>1, CallThen DEF Steps
  <2>3. file[call.bin.path] = call.bin.sha /\ call.bin = Versions[release] BY <2>1, <1>d DEF MarkerInv
  <2>4. \A i \in DOMAIN Versions : marker' = Versions[i].sha => i = release
    BY <2>1, <2>3, <1>t, VersionsAssumption
  <2>5. DOMAIN Versions \subseteq Int BY VersionsAssumption
  <2> QED BY <2>1, <2>2, <2>3, <2>4, <2>5, <1>t DEF MarkerInv
<1>7. CASE StopOld
  <2>1. UNCHANGED <<release, file, marker>> /\ call.pc = "stop" /\ (Return \/ \E pc \in {"unrule", "delete"} : Continue(pc))
    BY <1>7 DEF StopOld, Stops, disk
  <2>2. \/ call'.pc = "idle" /\ call'.op = "none"
        \/ call'.pc \in {"unrule", "delete"} /\ call'.op = call.op /\ call'.bin = call.bin
    BY <2>1, CallThen DEF Steps
  <2> QED BY <2>1, <2>2, <1>q
<1>8. CASE RemoveAll
  <2>1. UNCHANGED release /\ marker' = NoDigest /\ call.op = "remove" /\ Continue("unrule")
    BY <1>8 DEF RemoveAll, Doing
  <2>2. call'.op = "remove" /\ call'.pc = "unrule" BY <2>1, CallThen DEF Steps
  <2> QED BY <2>1, <2>2, <1>v, <1>t DEF MarkerInv
<1>9. CASE Unrule
  <2>1. UNCHANGED <<release, file, marker>> /\ call.pc = "unrule" /\ (Return \/ Continue("rule"))
    BY <1>9 DEF Unrule, disk
  <2>2. \/ call'.pc = "idle" /\ call'.op = "none"
        \/ call'.pc = "rule" /\ call'.op = call.op /\ call'.bin = call.bin
    BY <2>1, CallThen DEF Steps, Launching
  <2> QED BY <2>1, <2>2, <1>q
<1>10. CASE CheckRule \/ Prompt \/ Confirm \/ Exec
  <2>1. UNCHANGED <<release, file, marker>> /\ call.pc \in Launching
        /\ (Return \/ \E pc \in {"exec", "prompt", "confirm", "record"} : Continue(pc))
    BY <1>10 DEF CheckRule, Prompt, Confirm, Exec, disk, Launching
  <2>2. \/ call'.pc = "idle" /\ call'.op = "none"
        \/ call'.pc \in {"exec", "prompt", "confirm", "record"} /\ call'.op = call.op /\ call'.bin = call.bin
    BY <2>1, CallThen DEF Steps, Launching
  <2> QED BY <2>1, <2>2, <1>q
<1>11. CASE persistRunning \/ AppDies
  <2>1. UNCHANGED <<release, file, marker>> /\ Return BY <1>11 DEF persistRunning, AppDies, disk
  <2>2. call'.pc = "idle" /\ call'.op = "none" BY <2>1, CallThen
  <2> QED BY <2>1, <2>2, <1>q
<1>12. CASE Fails
  <2>1. UNCHANGED <<release, file>> /\ Return /\ marker' \in {marker, Torn} BY <1>12 DEF Fails
  <2>2. call'.pc = "idle" /\ call'.op = "none" BY <2>1, CallThen
  <2>3. CASE marker' = marker BY <2>1, <2>2, <2>3, <1>q
  <2>4. CASE marker' = Torn BY <2>1, <2>2, <2>4, <1>v, <1>t DEF MarkerInv
  <2> QED BY <2>1, <2>3, <2>4
<1>13. CASE Crash \/ Respawn \/ SwitchFirewall \/ UNCHANGED binaryVars
  <2>1. UNCHANGED <<release, file, marker, call>>
    BY <1>13 DEF Crash, Respawn, SwitchFirewall, binaryVars, disk
  <2> QED BY <2>1 DEF MarkerInv
<1>14. CASE NextRelease
  <2>1. UNCHANGED <<file, marker, call>> /\ release' = release + 1 /\ release + 1 \in DOMAIN Versions
    BY <1>14, <1>t, VersionsAssumption DEF NextRelease, disk
  <2>2. call.pc = "idle" /\ call.op = "none" BY <1>14, <1>i DEF NextRelease
  <2>3. DOMAIN Versions \subseteq Int BY VersionsAssumption
  <2>4. marker # Versions[release + 1].sha BY <2>1, <2>3, <1>t DEF MarkerInv
  <2>5. \A i \in DOMAIN Versions : marker = Versions[i].sha => i <= release + 1 BY <2>3, <1>t DEF MarkerInv
  <2> QED BY <2>1, <2>2, <2>4, <2>5 DEF MarkerInv
<1>15. ASSUME NEW p \in Paths, DeletesRule(p) PROVE MarkerInv'
  <2>1. UNCHANGED <<release, file, marker, call>> BY <1>15 DEF DeletesRule, disk
  <2> QED BY <2>1 DEF MarkerInv
<1>16. CASE DeployBinary \/ StartBinary \/ StopBinary \/ RemoveBinary
  BY <1>16, <1>1 DEF DeployBinary, StartBinary, StopBinary, RemoveBinary
<1> QED
  BY <1>2, <1>3, <1>4, <1>5, <1>6, <1>7, <1>8, <1>9, <1>10, <1>11, <1>12, <1>13, <1>14, <1>15, <1>16 DEF BinariesNext

\* What DeployRunsWhole says of a step.
RunsWhole == Doing({"deploy"}, "exec") /\ call'.pc = "record" => proc'.content = call.bin.sha

\* A deploy executes the whole file its version's digest was verified for (ensureBinary's
\* marker), whatever earlier deploys left half written.
THEOREM DeployRunsWholeThm == BinariesSpec => DeployRunsWhole
<1>1. BinariesInit => CallsInv /\ MarkerInv
  <2>1. BinariesInit => MarkerInv
    <3> SUFFICES ASSUME BinariesInit PROVE MarkerInv OBVIOUS
    <3>1. marker = NoDigest /\ call.pc = "idle" /\ call.op = "none" /\ release \in DOMAIN Versions
      BY Empties, VersionsAssumption DEF BinariesInit
    <3>2. \A i \in DOMAIN Versions : Versions[i].sha # NoDigest BY BinFields DEF NoDigest
    <3> QED BY <3>1, <3>2 DEF MarkerInv
  <2> QED BY <2>1, CallsInit
<1>2. CallsInv /\ MarkerInv /\ [BinariesNext]_binaryVars => (CallsInv /\ MarkerInv)'
  BY CallsStep, MarkerStep
<1>3. CallsInv /\ MarkerInv /\ [BinariesNext]_binaryVars => RunsWhole
  <2> SUFFICES ASSUME CallsInv, MarkerInv, [BinariesNext]_binaryVars, Doing({"deploy"}, "exec"), call'.pc = "record"
               PROVE  proc'.content = call.bin.sha
    BY DEF RunsWhole
  <2>1. call.op = "deploy" /\ call.pc = "exec" BY DEF Doing
  <2>2. file[call.bin.path] = call.bin.sha BY <2>1 DEF MarkerInv, Launching
  <2>3. Return => call'.pc = "idle" BY CallThen
  <2>4. Exec
    BY <2>1, <2>3, Empties DEF BinariesNext, DeployBinary, StartBinary, StopBinary, RemoveBinary, Begin, Reuse, Download,
       Extract, Extracted, Mark, Doing, StopOld, Stops, RemoveAll, Unrule, CheckRule, Prompt, Confirm, persistRunning,
       Fails, AppDies, Crash, Respawn, NextRelease, SwitchFirewall, DeletesRule, binaryVars
  <2> QED BY <2>2, <2>4 DEF Exec
<1>4. DeployRunsWhole <=> [][RunsWhole]_binaryVars
  BY DEF DeployRunsWhole, RunsWhole
<1> QED BY <1>1, <1>2, <1>3, <1>4, PTL DEF BinariesSpec
------------------------------------------------------------------------------
(* Earnings: the device that is missing.                                     *)

\* The fields of what is known of the devices; the answer is about the id noted last, which is
\* the newest unless an older one was noted after it.
DevicesInv ==
  /\ DOMAIN devs = {"current", "unlinked", "added"} /\ devs = [f \in DOMAIN devs |-> devs[f]]
  /\ devs.unlinked \in {0, devs.current}
  /\ noted.older \/ noted.newest = devs.current

LEMMA NoteKeeps == ASSUME DevicesInv, NEW id, Note(id) PROVE DevicesInv'
BY DEF DevicesInv, Note

LEMMA CheckKeeps ==
  ASSUME DevicesInv, NEW id, NEW linked \in BOOLEAN
  PROVE  LET d == recordDeviceCheck(id, linked) IN
         /\ DOMAIN d = {"current", "unlinked", "added"} /\ d = [f \in DOMAIN d |-> d[f]]
         /\ d.unlinked \in {0, d.current} /\ d.current = devs.current
BY DEF DevicesInv, recordDeviceCheck, Judged

\* A device is reported as missing only while it is the newest that anybody has asked about
\* (noteDevice, recordDeviceCheck, RegisterDevice), for any number of redeploys and of checks
\* that outlive them, unless one of an older id was noted after it and no newer one since.
THEOREM UnlinkedIsCurrentThm == EarningsSpec => []UnlinkedIsCurrent
<1>1. EarningsInit => DevicesInv
  BY DEF EarningsInit, DevicesInv
<1>2. DevicesInv /\ [EarningsNext]_earnings => DevicesInv'
  <2> SUFFICES ASSUME DevicesInv, [EarningsNext]_earnings PROVE DevicesInv' OBVIOUS
  <2>1. ASSUME UNCHANGED <<devs, noted>> PROVE DevicesInv'
    BY <2>1 DEF DevicesInv
  <2>2. ASSUME NEW c \in Starters, Collecting(c) PROVE DevicesInv'
    <3>1. CASE NoteDevice(c) BY <3>1, NoteKeeps DEF NoteDevice
    <3>2. CASE CheckDevice(c)
      <4>1. devs' = recordDeviceCheck(coll[c].id, coll[c].id \in acct.linked) /\ UNCHANGED noted BY <3>2 DEF CheckDevice
      <4>2. ASSUME NEW linked \in BOOLEAN, devs' = recordDeviceCheck(coll[c].id, linked), UNCHANGED noted PROVE DevicesInv'
        BY <4>2, CheckKeeps DEF DevicesInv
      <4>3. (coll[c].id \in acct.linked) \in BOOLEAN OBVIOUS
      <4> QED BY <4>1, <4>2, <4>3
    <3>3. CASE ~NoteDevice(c) /\ ~CheckDevice(c)
      <4>1. UNCHANGED <<devs, noted>>
        BY <2>2, <3>3 DEF Collecting, BeginCollect, Answered, AnsweredBlank, Refused, doWithRetry, SaveEarnings,
           SaveFails, devices
      <4> QED BY <4>1, <2>1
    <3> QED BY <3>1, <3>2, <3>3
  <2>3. CASE Registering
    <3>1. CASE RegisterNotes BY <3>1, NoteKeeps DEF RegisterNotes
    <3>2. CASE RegisterDevice
      <4>1. PICK linked \in BOOLEAN :
              devs' = [(IF linked THEN recordDeviceCheck(reg.id, TRUE) ELSE devs) EXCEPT !.added = IF linked THEN reg.id ELSE 0]
        BY <3>2 DEF RegisterDevice
      <4> DEFINE d == IF linked THEN recordDeviceCheck(reg.id, TRUE) ELSE devs
      <4>2. /\ DOMAIN d = {"current", "unlinked", "added"} /\ d = [f \in DOMAIN d |-> d[f]]
            /\ d.unlinked \in {0, d.current} /\ d.current = devs.current
        BY CheckKeeps DEF DevicesInv
      <4> HIDE DEF d
      <4>3. devs' = [d EXCEPT !.added = IF linked THEN reg.id ELSE 0] /\ UNCHANGED noted BY <3>2, <4>1 DEF d, RegisterDevice
      <4> QED BY <4>2, <4>3 DEF DevicesInv
    <3>3. CASE collectOne BY <3>3, <2>1 DEF collectOne
    <3>4. ASSUME NEW id, Redeploy(id) PROVE DevicesInv' BY <3>4, <2>1 DEF Redeploy
    <3> QED BY <2>3, <3>1, <3>2, <3>3, <3>4 DEF Registering
  <2>4. CASE PurgeOldData BY <2>4, <2>1 DEF PurgeOldData, devices
  <2>5. CASE Ledger BY <2>5, <2>1 DEF Ledger, RecordPayout, removePayout, devices
  <2>6. CASE Fetching BY <2>6, <2>1 DEF Fetching, RatesAge, Refresh, fetchCrypto, fetchFiat, FetchFails, devices
  <2>7. CASE Provider BY <2>7, <2>1 DEF Provider, Earn, CashOut, DayPasses, LinkDevice, devices
  <2>8. CASE UNCHANGED earnings BY <2>8, <2>1 DEF earnings, devices
  <2> QED BY <2>2, <2>3, <2>4, <2>5, <2>6, <2>7, <2>8 DEF EarningsNext
<1>3. DevicesInv => UnlinkedIsCurrent BY DEF DevicesInv, UnlinkedIsCurrent
<1> QED BY <1>1, <1>2, <1>3, PTL DEF EarningsSpec

------------------------------------------------------------------------------
(* CatalogSync: the web catalog, the overlay, and the tree of the two.       *)

\* The pieces of state, entry by entry.
IsTree(files) == files = [p \in EntryPaths |-> files[p]]
SyncTypes ==
  /\ web = [files |-> web.files, single |-> web.single]
  /\ DOMAIN web.files = EntryPaths /\ \A p \in EntryPaths : IsEntry(web.files[p])
  /\ overlay \in Overlays
  /\ tree = [files |-> tree.files, single |-> tree.single] /\ IsTree(tree.files)
  /\ run = [at |-> run.at, check |-> run.check, attempt |-> run.attempt, touched |-> run.touched, left |-> run.left,
            stale |-> run.stale, seen |-> run.seen, want |-> run.want]
  /\ DOMAIN run.seen.files = EntryPaths /\ \A p \in EntryPaths : IsEntry(run.seen.files[p])
  /\ IsTree(run.want)

\* What an untouched run has read and will write is what web and overlay say.
RunInv ==
  /\ run.at \in {"apply", "write"} /\ ~run.touched => run.seen = web
  /\ run.at = "write" => \A p \in run.stale : run.want[p] = Missing
  /\ run.at = "write" /\ ~run.touched =>
       /\ run.want = Apply(web.files, overlay)
       /\ \A p \in EntryPaths \ (run.left \cup run.stale) : tree.files[p] = run.want[p]
\* A settled tree is in order, and the run under way began after it was written.
InOrderInv ==
  settled =>
    /\ ~run.touched /\ verdict # "drift"
    /\ tree.files = Apply(web.files, overlay)
    /\ ~SingleDiffers(web.single, tree.single)
SyncInv == SyncTypes /\ RunInv /\ InOrderInv

\* The shapes of the special entries, references and runs.
LEMMA EmptyShapes == IsEntry(Missing) /\ IsReference(Imageless) /\ Missing.image = Imageless
<1> DEFINE blank == ""
<1>1. PICK none : Imageless = [repo |-> none, tag |-> none, digest |-> none]
  BY Zenon DEF Imageless
<1>2. PICK text : Missing = [[is |-> "file", image |-> Imageless, tag |-> text, status |-> text, extra |-> FALSE] EXCEPT !.is = "absent"]
  BY Zenon DEF Missing, Nothing, Entry
<1> QED BY <1>1, <1>2 DEF IsEntry, IsReference

LEMMA NoRunShape ==
  /\ NoRun = [at |-> NoRun.at, check |-> NoRun.check, attempt |-> NoRun.attempt, touched |-> NoRun.touched, left |-> NoRun.left,
              stale |-> NoRun.stale, seen |-> NoRun.seen, want |-> NoRun.want]
  /\ NoRun.at = "idle" /\ ~NoRun.touched
  /\ DOMAIN NoRun.seen.files = EntryPaths /\ \A p \in EntryPaths : IsEntry(NoRun.seen.files[p])
  /\ IsTree(NoRun.want)
BY EmptyShapes DEF NoRun, RunAt, IsTree

\* Repository and tag of the web catalog's image.
LEMMA Reference == ASSUME NEW e, IsEntry(e) PROVE upstreamReference(e).repo = e.image.repo
<1>1. upstreamReference(e) = e.image \/ \E t : upstreamReference(e) = [e.image EXCEPT !.tag = t]
  BY Zenon DEF upstreamReference
<1> QED BY <1>1 DEF IsEntry, IsReference

\* The image of each file of the tree that must be.
LEMMA Applied ==
  ASSUME NEW upstream, NEW over, \A p \in EntryPaths : IsEntry(upstream[p]), NEW p \in EntryPaths
  PROVE  Apply(upstream, over)[p].image = IF over.pins[p] = Imageless THEN upstream[p].image ELSE over.pins[p]
BY DEF Apply, IsEntry

\* The vendored tree starts in order.
LEMMA SyncStart == SyncInit => SyncInv
<1> SUFFICES ASSUME SyncInit PROVE SyncInv OBVIOUS
<1>1. SyncTypes
  <2>1. /\ web = [files |-> web.files, single |-> web.single] /\ DOMAIN web.files = EntryPaths
        /\ \A p \in EntryPaths : web.files[p] \in WebEntries[p]
    BY DEF SyncInit
  <2>2. /\ overlay \in Overlays /\ run = NoRun
        /\ tree = [files |-> Apply(web.files, overlay), single |-> "v1"]
    BY DEF SyncInit
  <2>3. IsTree(Apply(web.files, overlay)) BY DEF Apply, IsTree
  <2> QED BY <2>1, <2>2, <2>3, NoRunShape, SyncAssumption DEF SyncTypes
<1>2. RunInv BY NoRunShape DEF SyncInit, RunInv
<1>3. InOrderInv BY NoRunShape DEF SyncInit, InOrderInv, SingleDiffers
<1> QED BY <1>1, <1>2, <1>3 DEF SyncInv

\* Every step of the tool, and every edit beside it, keeps the invariant.
LEMMA SyncStep == SyncInv /\ [SyncNext]_syncVars => SyncInv'
<1> SUFFICES ASSUME SyncInv, [SyncNext]_syncVars PROVE SyncInv' OBVIOUS
<1>0. SyncTypes /\ RunInv /\ InOrderInv BY DEF SyncInv
<1>1. ASSUME NEW check \in BOOLEAN, Invoke(check) PROVE SyncInv'
  <2>1. run' = RunAt("fetch", check) /\ UNCHANGED <<web, overlay, tree, settled>> /\ verdict' = "none"
    BY <1>1 DEF Invoke
  <2>2. SyncTypes' BY <1>0, <2>1, EmptyShapes DEF SyncTypes, RunAt, IsTree
  <2>3. RunInv' BY <2>1 DEF RunInv, RunAt
  <2>4. InOrderInv' BY <1>0, <2>1 DEF InOrderInv, RunAt
  <2> QED BY <2>2, <2>3, <2>4 DEF SyncInv
<1>2. CASE TarballFails
  <2>1. UNCHANGED <<web, overlay, tree, settled>> BY <1>2 DEF TarballFails
  <2>2. CASE run' = NoRun /\ verdict' = "failure"
    <3>1. SyncTypes' BY <1>0, <2>1, <2>2, NoRunShape DEF SyncTypes
    <3>2. RunInv' BY <2>2, NoRunShape DEF RunInv
    <3>3. InOrderInv' BY <1>0, <2>1, <2>2, NoRunShape DEF InOrderInv
    <3> QED BY <3>1, <3>2, <3>3 DEF SyncInv
  <2>3. CASE run' = [run EXCEPT !.attempt = @ + 1] /\ run.at = "fetch" /\ UNCHANGED verdict
    <3>1. SyncTypes' BY <1>0, <2>1, <2>3 DEF SyncTypes
    <3>2. RunInv' BY <1>0, <2>3 DEF SyncTypes, RunInv
    <3>3. InOrderInv' BY <1>0, <2>1, <2>3 DEF SyncTypes, InOrderInv
    <3> QED BY <3>1, <3>2, <3>3 DEF SyncInv
  <2> QED BY <1>2, <2>2, <2>3 DEF TarballFails, Exit
<1>3. CASE Fetched
  <2>1. run' = [run EXCEPT !.at = "apply", !.seen = web] /\ UNCHANGED <<web, overlay, tree, settled, verdict>>
    BY <1>3 DEF Fetched
  <2>2. SyncTypes' BY <1>0, <2>1 DEF SyncTypes
  <2>3. RunInv' BY <1>0, <2>1 DEF SyncTypes, RunInv
  <2>4. InOrderInv' BY <1>0, <2>1 DEF SyncTypes, InOrderInv
  <2> QED BY <2>2, <2>3, <2>4 DEF SyncInv
<1>4. CASE Compare
  <2>1. run.at = "apply" /\ UNCHANGED <<web, overlay, tree, settled>>
    BY <1>4 DEF Compare
  <2> DEFINE want == Apply(run.seen.files, overlay)
  <2>2. CASE run' = NoRun /\ verdict' \in {"failure", "matches"}
    <3>1. SyncTypes' BY <1>0, <2>1, <2>2, NoRunShape DEF SyncTypes
    <3>2. RunInv' BY <2>2, NoRunShape DEF RunInv
    <3>3. InOrderInv' BY <1>0, <2>1, <2>2, NoRunShape DEF InOrderInv
    <3> QED BY <3>1, <3>2, <3>3 DEF SyncInv
  <2>3. CASE run' = NoRun /\ ~(Diff(want, tree.files) = {} /\ ~SingleDiffers(run.seen.single, tree.single))
    <3>1. ~settled
      <4>1. settled => run.seen = web /\ tree.files = want /\ ~SingleDiffers(run.seen.single, tree.single)
        BY <1>0, <2>1 DEF InOrderInv, RunInv
      <4> QED BY <4>1, <2>3 DEF Diff
    <3>2. SyncTypes' BY <1>0, <2>1, <2>3, NoRunShape DEF SyncTypes
    <3>3. RunInv' BY <2>3, NoRunShape DEF RunInv
    <3>4. InOrderInv' BY <3>1, <2>1 DEF InOrderInv
    <3> QED BY <3>2, <3>3, <3>4 DEF SyncInv
  <2>4. CASE /\ run' = [run EXCEPT !.at = "write", !.want = want, !.left = {p \in EntryPaths : want[p] # Missing},
                                   !.stale = Stale(want, tree.files)]
             /\ UNCHANGED verdict
    <3>1. IsTree(want) BY DEF Apply, IsTree
    <3> HIDE DEF want
    <3>2. /\ run'.at = "write" /\ run'.want = want /\ run'.left = {p \in EntryPaths : want[p] # Missing}
          /\ run'.stale = Stale(want, tree.files) /\ run'.seen = run.seen /\ run'.touched = run.touched
          /\ run' = [at |-> run'.at, check |-> run'.check, attempt |-> run'.attempt, touched |-> run'.touched, left |-> run'.left,
                     stale |-> run'.stale, seen |-> run'.seen, want |-> run'.want]
      BY <1>0, <2>4 DEF SyncTypes
    <3>3. SyncTypes' BY <1>0, <2>1, <3>1, <3>2 DEF SyncTypes
    <3>4. RunInv'
      <4>1. ~run.touched => run.seen = web BY <1>0, <2>1 DEF RunInv
      <4>2. ~run.touched => want = Apply(web.files, overlay) BY <4>1 DEF want
      <4>3. \A p \in EntryPaths \ (run'.left \cup run'.stale) : tree.files[p] = want[p] BY <3>2 DEF Stale
      <4>4. \A p \in run'.stale : want[p] = Missing BY <3>2 DEF Stale
      <4> QED BY <2>1, <3>2, <4>1, <4>2, <4>3, <4>4 DEF RunInv
    <3>5. InOrderInv' BY <1>0, <2>1, <2>4, <3>2 DEF InOrderInv
    <3> QED BY <3>3, <3>4, <3>5 DEF SyncInv
  <2> QED BY <1>4, <2>2, <2>3, <2>4, Zenon DEF Compare, Exit
<1>5. ASSUME NEW p \in EntryPaths, Write(p) PROVE SyncInv'
  <2>1. /\ run.at = "write" /\ p \in run.left /\ UNCHANGED <<web, overlay, verdict, settled>>
        /\ tree' = [tree EXCEPT !.files[p] = run.want[p]] /\ run' = [run EXCEPT !.left = @ \ {p}]
    BY <1>5 DEF Write
  <2>2. /\ tree' = [files |-> tree'.files, single |-> tree.single] /\ IsTree(tree'.files)
        /\ tree'.files[p] = run.want[p] /\ \A q \in EntryPaths \ {p} : tree'.files[q] = tree.files[q]
    BY <1>0, <2>1 DEF SyncTypes, IsTree
  <2>3. /\ run'.at = "write" /\ run'.want = run.want /\ run'.left = run.left \ {p}
        /\ run'.stale = run.stale /\ run'.seen = run.seen /\ run'.touched = run.touched
        /\ run' = [at |-> run'.at, check |-> run'.check, attempt |-> run'.attempt, touched |-> run'.touched, left |-> run'.left,
                   stale |-> run'.stale, seen |-> run'.seen, want |-> run'.want]
    BY <1>0, <2>1 DEF SyncTypes
  <2>4. SyncTypes' BY <1>0, <2>1, <2>2, <2>3 DEF SyncTypes
  <2>5. RunInv' BY <1>0, <2>1, <2>2, <2>3 DEF RunInv
  <2>6. InOrderInv'
    <3>1. settled => tree'.files = tree.files
      <4>1. settled => tree.files[p] = run.want[p] BY <1>0, <2>1 DEF InOrderInv, RunInv
      <4> QED BY <1>0, <2>1, <2>2, <4>1 DEF SyncTypes, IsTree
    <3> QED BY <1>0, <2>1, <2>2, <2>3, <3>1 DEF InOrderInv
  <2> QED BY <2>4, <2>5, <2>6 DEF SyncInv
<1>6. ASSUME NEW p \in EntryPaths, Delete(p) PROVE SyncInv'
  <2>1. /\ run.at = "write" /\ p \in run.stale /\ UNCHANGED <<web, overlay, verdict, settled>>
        /\ tree' = [tree EXCEPT !.files[p] = Missing] /\ run' = [run EXCEPT !.stale = @ \ {p}]
    BY <1>6 DEF Delete
  <2>2. /\ tree' = [files |-> tree'.files, single |-> tree.single] /\ IsTree(tree'.files)
        /\ tree'.files[p] = Missing /\ \A q \in EntryPaths \ {p} : tree'.files[q] = tree.files[q]
    BY <1>0, <2>1 DEF SyncTypes, IsTree
  <2>3. /\ run'.at = "write" /\ run'.want = run.want /\ run'.left = run.left
        /\ run'.stale = run.stale \ {p} /\ run'.seen = run.seen /\ run'.touched = run.touched
        /\ run' = [at |-> run'.at, check |-> run'.check, attempt |-> run'.attempt, touched |-> run'.touched, left |-> run'.left,
                   stale |-> run'.stale, seen |-> run'.seen, want |-> run'.want]
    BY <1>0, <2>1 DEF SyncTypes
  <2>4. SyncTypes' BY <1>0, <2>1, <2>2, <2>3 DEF SyncTypes
  <2>5. RunInv' BY <1>0, <2>1, <2>2, <2>3 DEF RunInv
  <2>6. InOrderInv'
    <3>1. settled => tree'.files = tree.files
      <4>1. settled => tree.files[p] = Missing BY <1>0, <2>1 DEF InOrderInv, RunInv
      <4> QED BY <1>0, <2>1, <2>2, <4>1 DEF SyncTypes, IsTree
    <3> QED BY <1>0, <2>1, <2>2, <2>3, <3>1 DEF InOrderInv
  <2> QED BY <2>4, <2>5, <2>6 DEF SyncInv
<1>7. CASE WriteSingle
  <2>1. /\ run.at = "write" /\ run.left = {} /\ run.stale = {} /\ UNCHANGED <<web, overlay>>
        /\ tree' = [tree EXCEPT !.single = IF run.seen.single = "none" THEN @ ELSE run.seen.single]
        /\ settled' = ~run.touched /\ run' = NoRun /\ verdict' = "synced"
    BY <1>7 DEF WriteSingle, Exit
  <2>2. /\ tree' = [files |-> tree.files, single |-> tree'.single]
        /\ run.seen.single # "none" => tree'.single = run.seen.single
    BY <1>0, <2>1 DEF SyncTypes
  <2>3. SyncTypes' BY <1>0, <2>1, <2>2, NoRunShape DEF SyncTypes
  <2>4. RunInv' BY <2>1, NoRunShape DEF RunInv
  <2>5. InOrderInv'
    <3> SUFFICES ASSUME ~run.touched PROVE InOrderInv' BY <2>1 DEF InOrderInv
    <3>1. run.seen = web /\ run.want = Apply(web.files, overlay) /\ \A p \in EntryPaths : tree.files[p] = run.want[p]
      BY <1>0, <2>1 DEF RunInv
    <3>2. tree.files = run.want
      <4>1. tree.files = [p \in EntryPaths |-> tree.files[p]] /\ run.want = [p \in EntryPaths |-> run.want[p]]
        BY <1>0 DEF SyncTypes, IsTree
      <4> QED BY <3>1, <4>1
    <3> QED BY <2>1, <2>2, <3>1, <3>2, NoRunShape DEF InOrderInv, SingleDiffers
  <2> QED BY <2>3, <2>4, <2>5 DEF SyncInv
<1>8. CASE Breaks
  <2>1. run' = NoRun /\ ~settled' /\ UNCHANGED <<web, overlay>> BY <1>8 DEF Breaks, Exit
  <2>2. tree' = [files |-> tree'.files, single |-> tree'.single] /\ IsTree(tree'.files)
    BY <1>0, <1>8 DEF Breaks, SyncTypes, IsTree
  <2>3. SyncTypes' BY <1>0, <2>1, <2>2, NoRunShape DEF SyncTypes
  <2>4. RunInv' BY <2>1, NoRunShape DEF RunInv
  <2> QED BY <2>1, <2>3, <2>4 DEF SyncInv, InOrderInv
<1>9. CASE Edit
  <2>1. ~settled' /\ (run' = NoRun \/ run' = [run EXCEPT !.touched = TRUE]) BY <1>9 DEF Edit
  <2>2. /\ web' = [files |-> web'.files, single |-> web'.single]
        /\ DOMAIN web'.files = EntryPaths /\ \A p \in EntryPaths : IsEntry(web'.files[p])
        /\ overlay' \in Overlays
        /\ tree' = [files |-> tree'.files, single |-> tree'.single] /\ IsTree(tree'.files)
    <3>1. CASE \E p \in EntryPaths : \E e \in WebEntries[p] : web' = [web EXCEPT !.files[p] = e] /\ UNCHANGED <<overlay, tree>>
      BY <1>0, <3>1, SyncAssumption DEF SyncTypes
    <3>2. CASE \E s \in {"none", "v2"} : web' = [web EXCEPT !.single = s] /\ UNCHANGED <<overlay, tree>>
      BY <1>0, <3>2 DEF SyncTypes
    <3>3. CASE overlay' \in Overlays /\ UNCHANGED <<web, tree>>
      BY <1>0, <3>3 DEF SyncTypes
    <3>4. CASE \E p \in EntryPaths : \E e \in WebEntries[p] : tree' = [tree EXCEPT !.files[p] = e] /\ UNCHANGED <<web, overlay>>
      BY <1>0, <3>4 DEF SyncTypes, IsTree
    <3> QED BY <1>9, <3>1, <3>2, <3>3, <3>4 DEF Edit
  <2>3. SyncTypes' BY <1>0, <2>1, <2>2, NoRunShape DEF SyncTypes
  <2>4. RunInv'
    <3>1. CASE run' = NoRun BY <3>1, NoRunShape DEF RunInv
    <3>2. CASE run' = [run EXCEPT !.touched = TRUE] BY <1>0, <3>2 DEF SyncTypes, RunInv
    <3> QED BY <2>1, <3>1, <3>2
  <2> QED BY <2>1, <2>3, <2>4 DEF SyncInv, InOrderInv
<1>10. CASE UNCHANGED syncVars
  BY <1>0, <1>10 DEF syncVars, SyncInv, SyncTypes, RunInv, InOrderInv
<1> QED BY <1>1, <1>2, <1>3, <1>4, <1>5, <1>6, <1>7, <1>8, <1>9, <1>10 DEF SyncNext

\* Only Compare answers, and it answers "matches" only for a tree that is pinned.
LEMMA MatchesPinned == ASSUME SyncInv, [SyncNext]_syncVars PROVE MatchingIsPinned
<1> SUFFICES ASSUME verdict # "matches", verdict' = "matches", NEW p \in EntryPaths,
                    run.seen.files[p].image # Imageless, ~Retired(run.seen.files[p].status)
             PROVE  /\ HasDigestPin(tree.files[p].image)
                    /\ tree.files[p].image.repo = run.seen.files[p].image.repo
                    /\ IF HasDigestPin(run.seen.files[p].image) THEN tree.files[p].image = run.seen.files[p].image
                       ELSE tree.files[p].image.tag = upstreamReference(run.seen.files[p]).tag
  BY DEF MatchingIsPinned
<1> DEFINE theirs == run.seen.files[p]
<1> DEFINE ours == tree.files[p].image
<1> DEFINE want == Apply(run.seen.files, overlay)
<1>0. /\ \A q \in EntryPaths : IsEntry(run.seen.files[q])
      /\ IsTree(tree.files)
  BY DEF SyncInv, SyncTypes
<1>1. Compare
  BY Zenon DEF SyncNext, syncVars, Invoke, TarballFails, Fetched, Write, Delete, WriteSingle, Breaks, Edit, Exit
<1>2. ~Disagrees(run.seen.files, overlay.pins) /\ Diff(want, tree.files) = {}
  BY <1>1, Zenon DEF Compare, Exit
<1>3. tree.files[p] = want[p] BY <1>2 DEF Diff
<1>4. ours = IF overlay.pins[p] = Imageless THEN theirs.image ELSE overlay.pins[p]
  BY <1>0, <1>3, Applied
<1>5. theirs # Missing BY EmptyShapes
<1>6. upstreamReference(theirs).repo = theirs.image.repo BY <1>0, Reference
<1>7. CASE overlay.pins[p] = Imageless
  <2>1. HasDigestPin(theirs.image) BY <1>2, <1>5, <1>7 DEF Disagrees, needsPin
  <2> QED BY <1>4, <1>7, <2>1
<1>8. CASE overlay.pins[p] # Imageless
  <2>1. needsPin(theirs) /\ pinMatchesUpstream(overlay.pins[p], upstreamReference(theirs))
    BY <1>2, <1>8 DEF Disagrees
  <2> QED BY <1>4, <1>6, <1>8, <2>1 DEF needsPin, pinMatchesUpstream
<1> QED BY <1>7, <1>8

\* A settled tree is what an untouched check compares with, so it cannot drift.
LEMMA InOrderStaysSo == ASSUME SyncInv, [SyncNext]_syncVars PROVE SyncedIsInOrder
<1> SUFFICES ASSUME settled, verdict' = "drift" PROVE FALSE BY DEF SyncedIsInOrder
<1>0. verdict # "drift" BY DEF SyncInv, InOrderInv
<1>1. Compare
  BY <1>0, Zenon DEF SyncNext, syncVars, Invoke, TarballFails, Fetched, Write, Delete, WriteSingle, Breaks, Edit, Exit
<1>2. /\ run.at = "apply"
      /\ ~(Diff(Apply(run.seen.files, overlay), tree.files) = {} /\ ~SingleDiffers(run.seen.single, tree.single))
  BY <1>0, <1>1, Zenon DEF Compare, Exit
<1>3. run.seen = web /\ tree.files = Apply(web.files, overlay) /\ ~SingleDiffers(web.single, tree.single)
  BY <1>2 DEF SyncInv, RunInv, InOrderInv
<1> QED BY <1>2, <1>3 DEF Diff

\* A check tells the truth both ways: a tree it calls matching is pinned to what the web names,
\* and one that a whole run wrote is in order until something is edited, for any catalogs and
\* overlays, and whatever earlier runs and edits left half written (cmd/catalogsync).
THEOREM SyncIsSoundThm == SyncSpec => SyncIsSound
<1>1. SyncInv /\ [SyncNext]_syncVars => MatchingIsPinned /\ SyncedIsInOrder
  BY MatchesPinned, InOrderStaysSo
<1>2. SyncIsSound <=> [][MatchingIsPinned /\ SyncedIsInOrder]_syncVars
  BY DEF SyncIsSound
<1> QED BY SyncStart, SyncStep, <1>1, <1>2, PTL DEF SyncSpec
==============================================================================
