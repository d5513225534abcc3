------------------------------- MODULE MCData --------------------------------
(***************************************************************************)
(* Five parts that do not meet, in one run: added services with backups of *)
(* state, earnings, the catalog's synchronisation, drift, native binaries.  *)
(* A behaviour moves one of them (scene) and leaves the others where they   *)
(* started.                                                                *)
(***************************************************************************)
EXTENDS ServiceData, CatalogDrift, NativeBinaries, Earnings, CatalogSync, TLC

CONSTANTS p1, p2
VARIABLE scene

parts == <<vars, earnings, syncVars, driftVars, binaryVars>>
Of(kinds, f) == [k \in kinds |-> IF k \in DOMAIN f THEN f[k] ELSE 0]

------------------------------------------------------------------------------
\* A balance that accumulates over days, one that is cashed out, one that carries a device,
\* and each other collector's way of failing.
EarningsKinds == {"collect", "fail", "blank", "deploy", "record", "unrecord", "refresh", "age", "earn", "cashout", "link", "day"}
EarningsScenarios ==
  {[service |-> "salad", quota |-> Of(EarningsKinds, [collect |-> 3, fail |-> 1, earn |-> 2, cashout |-> 1, day |-> 3])],
   [service |-> "packetstream",
    quota |-> Of(EarningsKinds, [collect |-> 2, record |-> 2, unrecord |-> 1, fail |-> 1, cashout |-> 1, refresh |-> 2, age |-> 1])],
   [service |-> "proxyrack", quota |-> Of(EarningsKinds, [collect |-> 1, fail |-> 1, deploy |-> 2, link |-> 1])]}
  \cup [service : {"bytelixir", "storj", "grass", "earnapp"},
        quota : {Of(EarningsKinds, [collect |-> 2, fail |-> 2, blank |-> 1])}]
  \cup [service : {"mysterium"}, quota : {Of(EarningsKinds, [collect |-> 2, fail |-> 1, blank |-> 1, earn |-> 1])}]

\* Services that come and go under one name; overlapping exports beside calls that move
\* the container; a volume deleted and made again around a confirmation.
ServiceKinds == {"save", "delete", "deploy", "remove", "export", "confirm", "undo", "touch", "daemon", "kill"}
ServiceQuotas ==
  {Of(ServiceKinds, [save |-> 2, delete |-> 2, deploy |-> 2, remove |-> 1, daemon |-> 2]),
   Of(ServiceKinds, [deploy |-> 2, export |-> 2, touch |-> 2, daemon |-> 1, kill |-> 1]),
   Of(ServiceKinds, [deploy |-> 2, remove |-> 1, export |-> 1, confirm |-> 1, undo |-> 1])}

\* An entry that is pinned, retagged (by its image or its legacy key), pinned upstream, badly
\* pinned upstream, retired or gone, beside one that comes and goes.
Ref(repo, tag, digest) == [repo |-> repo, tag |-> tag, digest |-> digest]
Unpinned(repo, tag) == Ref(repo, tag, "")
Live(image, tag) == [is |-> "file", image |-> image, tag |-> tag, status |-> "active", extra |-> FALSE]
Gone == [is |-> "absent", image |-> Unpinned("", ""), tag |-> "", status |-> "", extra |-> FALSE]
SyncPaths == {p1, p2}
SyncEntries ==
  p1 :> {Gone, Live(Unpinned("r1", ""), "t1"), Live(Unpinned("r1", "t2"), "t1"), Live(Ref("r1", "t1", "sha2"), ""),
         Live(Ref("r1", "t1", "short"), ""), [Live(Unpinned("r1", "t1"), "") EXCEPT !.status = "dropped"]}
  @@ p2 :> {Gone, Live(Unpinned("r2", "t1"), "")}
SyncOverlays ==
  [pins : {p1 :> a @@ p2 :> b : a \in {Unpinned("", ""), Ref("r1", "t1", "sha1"), Ref("r1", "t1", "short"), Ref("r1", "t2", "sha2")},
                                b \in {Unpinned("", ""), Ref("r2", "t1", "sha1")}},
   appends : {{}, {p1}}]

\* Six entries that differ in every judged field, three daemons.  The privileged one is never
\* deployed (its device is refused), only made by hand: no entry of the catalog sets it.
Image(repo, tag, digest, own) == [repo |-> repo, tag |-> tag, digest |-> digest, own |-> own]
Plain == [image |-> Image("r1", "t1", "d1", TRUE), arm |-> NoImage, status |-> "active", caps |-> {}, devices |-> {},
          privileged |-> FALSE, ports |-> {"9000"}, mounts |-> {}, host |-> FALSE, entrypoint |-> "", env |-> [k \in {"k1", "k2"} |-> "none"]]
Retagged == [Plain EXCEPT !.image = Image("r1", "t2", "d2", TRUE), !.caps = {"SETUID"}, !.mounts = {"/data"}]
PerArch == [Plain EXCEPT !.image = Image("r2", "t1", "d1", FALSE), !.arm = Image("r2", "t3", "", FALSE)]
DriftCatalogs ==
  {[Plain EXCEPT !.caps = {"CHOWN", "NET_ADMIN"}, !.devices = {"tun"}, !.env["k1"] = "required"],
   [Retagged EXCEPT !.env["k1"] = "default"],
   [Retagged EXCEPT !.env["k1"] = "plain"],
   [Plain EXCEPT !.host = TRUE, !.entrypoint = "/run", !.env["k2"] = "default", !.status = "dropped"],
   [PerArch EXCEPT !.devices = {"kvm"}, !.privileged = TRUE],
   [PerArch EXCEPT !.host = TRUE, !.entrypoint = "/run"]}
DriftEngines == {[os |-> "linux", podman |-> FALSE, arch |-> "amd64"], [os |-> "linux", podman |-> TRUE, arch |-> "arm64"],
                 [os |-> "windows", podman |-> FALSE, arch |-> "amd64"]}
DriftImages == {NoImage, Image("r1", "t9", "", TRUE)}

\* Three releases: one that moves the executable, one that stays there and blocks nothing.
BinaryVersions == <<[sha |-> 1, path |-> "a", block |-> {"lan"}],
                    [sha |-> 2, path |-> "b", block |-> {"lan"}], [sha |-> 3, path |-> "b", block |-> {}]>>
BinaryQuota == [deploy |-> 3, start |-> 1, stop |-> 1, remove |-> 1, fail |-> 1, die |-> 1, crash |-> 1, byhand |-> 1, switch |-> 1]

------------------------------------------------------------------------------
Scenes == {"earnings", "services", "sync", "drift", "binaries"}

\* The parts that stand still all start in one state.
Stage ==
  /\ EarningsInit /\ (scene # "earnings" => plan = collectProxyRack /\ rates.known)
  /\ Init /\ (scene # "services" => left = Of(ServiceKinds, [deploy |-> 2, remove |-> 1, export |-> 1, confirm |-> 1, undo |-> 1]))
  /\ SyncInit /\ (scene # "sync" => web.files[p1] = Live(Unpinned("r1", ""), "t1") /\ web.files[p2] = Gone /\ overlay.appends = {})
  /\ DriftInit /\ (scene # "drift" => entry = [PerArch EXCEPT !.devices = {"kvm"}, !.privileged = TRUE] /\ engine.os = "windows")
  /\ BinariesInit
PartsInit == scene \in Scenes /\ Stage

PartsNext ==
  \/ scene = "earnings" /\ EarningsNext /\ UNCHANGED <<scene, vars, syncVars, driftVars, binaryVars>>
  \/ scene = "services" /\ Next /\ UNCHANGED <<scene, earnings, syncVars, driftVars, binaryVars>>
  \/ scene = "sync" /\ SyncNext /\ UNCHANGED <<scene, vars, earnings, driftVars, binaryVars>>
  \/ scene = "drift" /\ DriftNext /\ UNCHANGED <<scene, vars, earnings, syncVars, binaryVars>>
  \/ scene = "binaries" /\ BinariesNext /\ UNCHANGED <<scene, vars, earnings, syncVars, driftVars>>
PartsSpec == PartsInit /\ [][PartsNext]_<<scene, parts>>
==============================================================================
