# CashPilot Desktop in TLA+

Specifications of the parts of CashPilot Desktop in which several things happen at
once: what they do, model-checked with TLC on small instances, and what they
guarantee, proved with TLAPS for every value of the constants. Paths below are
relative to the repository.

1. [The system](#the-system)
2. [Modules](#modules)
3. [Runs](#runs)
4. [Fairness](#fairness)
5. [Proofs](#proofs)
6. [Disagreements between code and documentation](#disagreements)
7. [Not modelled](#not-modelled)
8. [Plan](#plan)

## The system

A desktop program (Go backend, web frontend in a Wails window) deploys
bandwidth-sharing services as Docker containers or native processes on the user's
computer, collects what each provider says it has earned, serves as a hub for other
devices of the same user, and can itself be paired with a CashPilot server.

| Part | State it keeps | Operations | What makes it correct |
|---|---|---|---|
| `services.Manager` (internal/services) | the `deployments` table; `copies`, a cache of the extra copies last seen | DeployWith, Stop, Start, Restart, Remove, StopCopy, StartCopy, Refresh | the user's choices (image, number of copies) survive everything but a deploy or a removal; what runs is shown; what is shown exists; Remove leaves nothing behind |
| Docker runtime (internal/runtime) | none; the daemon has the containers | Deploy, Start, Stop, Restart, Remove, List, the copy calls | a call touches the containers it names; an outage is an error and not an empty answer |
| Native runtime (native.go) | `procs`, one supervisor goroutine per child, `state.json` | the same, plus supervise and the respawn backoff | no process runs that nobody watches; a stop ends; a crashed process comes back; after Stop nothing runs |
| Fleet server (fleet_server.go) | `fleet_devices`, `fleetMu` | heartbeat, sweep, add, remove | a confirmed key is the key its device holds; a device is never shut out by a race |
| Scheduler (app.go) | `schedCancel`, `schedDone`, `collecting` | runScheduler, collectAll, collectOne, Shutdown | one collection at a time; bounded provider calls; nothing runs after the store is closed |
| Pairing (upstream_client.go) | `upstream.*` under a mutex, the worker key, the history marker | startUpstream, stopUpstream, heartbeat, history push, SaveSettings | key, figures and marker belong to the server that is configured; history is handed over once and whole |
| Configuration (internal/config) | config.json, its copy in memory, keychain items and fallback files | Load, Save, Update, the master key, the worker key | a write of one field does not undo another's; no start makes new keys for old ones |
| LAN fence (lanfence.go, app.go) | the network, the firewall table, the helper container; the setting and the remembered mode | the tick's reconcile, a deploy's way through it, EnableIsolation, the setting | the setting the user leaves in place prevails; the fence never starts an earner on a table without drops |
| Proxied copies (services/proxies.go, runtime/proxied.go) | proxies with their cap, a record per copy; a tunnel and an earner container each | deploy, stop, start, remove a copy; save, reset, delete a proxy; the minute's pass | the cap holds; no copy is forgotten; a deleted proxy leaves nothing |
| Custom services, state backup (services/custom.go, backup, statebackup) | definitions and tombstones; containers and volumes; the state_backups row | save, delete, deploy, remove; export, confirm, undo | a new service starts empty; a container has its definition; a backup is a copy of state nobody wrote to, of the volume there is |
| Usage and health (usage_sampler.go, internal/usage, internal/health, lastrun.go) | counters, hourly rows; a cache of log verdicts | sampling by two processes, purge; Collect | traffic is counted once; a verdict is about what runs now |
| Activity sampling (activity_app.go, activity_sampler.go, internal/activity) | the switch, addresses and alerts; helper containers, last counters | on, off, erase, the round, the sweep, the purge | nothing is stored after a delete; off gets clean; a window is honest about what it compares |
| Earnings (internal/collectors, internal/exchange, payouts.go) | earnings, payouts, rates, devices | collect, record, summarise, refresh rates, check devices | nothing earned is invented; what was cashed out is not earned again; "unlinked" is about this device |
| Catalog (cmd/catalogsync, internal/catalogsync, runtime drift) | the vendored files; the mute | sync and check; drift, update available, ignore | a tree that "matches" is pinned; a redeploy clears the warning; a mute hides nothing new |
| Data of a service (runtime/mounts.go, removal.go) | none; containers, volumes and folders have it | what a deploy mounts, the removal dialog, the removal | a replaced container keeps its data where it is; nothing is destroyed that the dialog did not name |
| Native binaries (native.go, firewall) | executables, digest markers, firewall rules, registry | deploy, start, stop, remove, respawn | a deploy executes what was verified; rules follow launches |

How they interact. The window calls bindings (`App` methods), each on a goroutine of
its own, and refreshes on backend events (frontend/src/main.ts:167-168, 2139). The
bindings call the manager; the manager calls a runtime provider and then the store,
one statement at a time, and **holds no lock across two calls**. The scheduler's loop
collects, samples health, purges old rows and sweeps the fleet table, for which it
takes the lock that the heartbeat handlers take. SaveSettings replaces the scheduler's
loop and restarts the pairing. Shutdown stops the loops and closes the store.

What is hard in it: operations of the window against the background refresh over the
table and the daemon; a deploy that fails or dies half way; one provider of two being
down; heartbeats that time out and are sent again while the first still waits for a
lock; an answer that arrives after the address it came from was replaced; a supervisor
in its backoff against a Stop or a Start; a loop that drains next to its successor; passes
that act on a listing taken before the user's call; a field of the configuration written
while another call holds the whole of it; readings of counters that restart between the
listing and the record; a file, a network or a tree left half written.
`PROJECT.json` lists each of these at its line, under `hazards`, with the properties
that cover it.

## Modules

An action is one step between two points at which another goroutine, the daemon or a
crash can come in: one call to the daemon, one SQL statement, one critical section.
Program counters (`pc`) name the place in the code; each definition is mapped to its
lines in `PROJECT.json`. Definitions marked *Mutant* are plausible bugs, kept next to
the definition they would replace; they take no part in the specifications and exist to
show that a property can fail.

### Deployments (internal/services/manager.go, instances.go; runtime.go, copies.go; store.go)

| Variable | Code |
|---|---|
| `ctr[s][n]` | the containers `cashpilot-<s>` (n = 1) and its copies, with state, image and the deploy that created them |
| `native[s]` | the entry of `state.json` and whether its process runs |
| `row[s]` | the row of `deployments`: runtime, status, custom_image, instances |
| `copies[s]` | `Manager.copies` |
| `op[u]`, `rf[r]` | the binding a user's goroutine is in, and the Refresh a window event started |
| `dockerUp` | the daemon answers |

DeployWith is `BeginDeploy` (reads the recorded choice, settles count and runtime),
`ListCopies`, then for every copy `Pull`, `Replace`, `Create`, `StartCreated` or
`StartFails`, with `RecordRow`, `RecordImage`, `RecordInstances` after the first, and
`ScaleDown`. Stop, Start and Restart are `BeginLifecycle`, `Call`, `ReadRow`,
`WriteRow`. Remove is `BeginRemove`, `ListCopies`, `RemoveCopies`, `RemoveUnit`,
`DeleteRow`. Refresh is `ListDocker`, `ListNative`, `SyncRow` for each listed unit,
`EndSync`, `PruneRow` for each stale row, `EndRefresh`. `Fails`, `StopsThenFails` and `StartFails`
are the error returns. `AppRestart` is a crash at any point. `GetDeployment` returns the
row or nothing, since callers treat a failed read as "no row".

Around it: the daemon comes and goes (`DaemonToggles`), containers are removed by hand
(`Vanish`) or exit (`Exits`).

### NativeSupervisor (internal/runtime/native.go)

One service. `run[q]` is what each process is: dead, a child of this run of the app, or
an orphan of an earlier run. `sup[m]` is a `managedProcess` with its goroutine: its
command, whether it was told to stop (`requestStop`), whether `beginStop` has been
passed. `procs` and `reg` are the map and the registry entry. `call[c]` is a call of the
manager. `p.mu`, `mp.mu` and `regMu` each cover one step.

A process is an identity (pid, executable, creation time), so `entryIsOurs` is "the
recorded process is alive", and a process that ends can come back only as one that no
supervisor, call or entry remembers (`Fresh`).

### FleetKeys (fleet_server.go, app.go, store.go; internal/upstream for the client)

`dev` is `fleet_devices`, `mu` is `fleetMu`, `req[q]` a handler goroutine, `held[d]` and
`waiting[d]` the client's key and the request it waits for. The handler is refused
before the lock (`Refuse`) or goes through `Admit`, `Lock`, `ReadKeyState`,
`UpsertFleetHeartbeat`, and `IssueKey` or `Confirm`. The client follows internal/upstream: it
presents its own key or else the shared one, and keeps a key that a reply brings.
`GiveUp` is its timeout (the request lives on), `Lose` a lost answer, a late one is
delivered to nobody. Keys are values; hashing is injective.

### Scheduler (app.go)

`pc[l]` is where each loop goroutine is, `todo`, `cur`, `work` and `aborted` its batch;
`collecting` the single-flight guard; `sched` the pair schedCancel/schedDone;
`fetch` the goroutines of collectOne; `shut` the progress of Shutdown. The worker's
calls (credentials, provider, balance or error record) are one step, since nothing else in
the module reads what they write.

### Upstream (upstream_client.go, app.go SaveSettings, internal/upstream)

A key, a set of figures and an address are all named by the server they belong to, so
"the key of another server" is a comparison. `loop[l]` is a heartbeat loop, `save[s]` a
SaveSettings call, `handle` the pair cancel/done. `handed[u]` is what server `u` has
accepted: a history variable that only properties read. `enrolled` is the servers' side of a key:
the ones that have seen this machine present its own. Such a server refuses the enrolment key
(internal/upstream/upstream.go:84-86), one that has not issues a key again.

### HistoryHandover (abstract)

What the pairing promises of the history, without loops, saves or failures: a server
accepts batches oldest first (`accepted`), and the history is done with a server
(`done`) only when that one has all of it. Upstream implements it with `handed` for
`accepted` and `marker` for `done`.

### LanFence (runtime/lanfence.go; app.go)

| Variable | Code |
|---|---|
| `cfg` | the isolation setting, and isolationOn: the mode that auto remembers |
| `net`, `table`, `helper` | the network named cashpilot-isolated, its firewall table (none, full with drops, masquerade only), the helper container that writes it |
| `box[e]` | an earner's container and the network it is bound to |
| `lock` | `f.mu` (the helper) and `f.reconcileMu` |
| `status` | the cached status the window shows |
| `pr[p]` | the callers: the tick, the check after a changed setting, a deploy, EnableIsolation |

A reconcile is `Ping`, `LockReconcile`, `listEarners`, `Look`, `Record` (mode and
memory), `Lock`, `ensureNetwork`, `clearHelper`, `CreateHelper`, `RunHelper`, `reattach`,
`Relist`, `Publish`; a deploy goes through part of it and then `RemoveOld`, `Place`,
`Recount`. `Place` finds a container that has taken the name meanwhile and is refused. Docker may lose the network or the table, the daemon may go, another app may own the
helper's name, the user may stop an earner, the app may die.

### ProxiedCopies (services/proxies.go, runtime/proxied.go)

`proxy` is the stored proxy (its cap, settings version, whether the allowance is used,
capped, due for a reset), `rec[s]` the record of a copy with its stopped_by_cap flag, `tun[s]`
and `ear[s]` the two containers: an earner joins one incarnation of its tunnel (`gen`,
`of`), which is how "up inside a tunnel that is gone" is seen. `calls` are the owner's calls
and the ticker's pass; only sections under proxyMu are one step. `Cleanup` is what a failed
deploy does: the stop and the removal of what it made may each fail unheard (removeQuietly,
proxied.go:668-672), and the record goes all the same. `wish`, `overlap` and `stranded` (the
copies such a clean-up left) are history. Mutants `SaveUnchecked`, `TargetsOnce`, `MarkOnly`.

### Config, Activity (internal/config, app.go; activity_app.go, activity_sampler.go)

`Config`: `app` is the step of startCore, `disk` and `mem` the file and Manager.cfg, `call[w]` a
binding that writes; `ring` and `files` are keychain and fallback, `sealed` and `issued` the keys
that stored credentials and workers depend on. `Update` is one step (it is under the
lock), a whole `Save` two: `Persist`, then `Set`. A write truncates first, so it can fail
into a torn file. `asked` (each field as the last successful write wanted it) and `raced`
(something came between the reading and the writing of a whole Save) are history.

`Activity` extends it with `raw` and `alerts` (stored rows: old, late), the sampler's
`round`, the `switch` call that deletes under the lock, `pending` (deletePending) and
`dueHour`. `StartSampler` is composed with the step by which the app comes up.

### ActivityRound (internal/activity)

`box` are the machine's containers with their network namespaces, `opened` and `ever` the
connections made in them, `last` the counters of the round before (Deltas.prev), `helper` the
helper container of each id, `round` the round under way, `window` what it delivered.
A round sweeps, lists, groups by namespace (`OwnerOf`, `GroupsOf`), and for each group creates,
starts, waits for, reads and removes a helper. `BuildSample` decides by the owner of the namespace alone
whether destinations are shown, so those of a container that has joined an earner are shown as the
earner's, be it an earner or not; `Fit` cuts samples to the budget. `Fit` is checked
against its definition over bounded inputs by the assumption `FitKeepsTheBudget` of MCWorkers.

### Readings (usage_sampler.go, internal/usage, store/usage.go; internal/health, lastrun.go)

One service whose container (`cont`) is restarted and replaced. `sampler[p]` is the
reading a process has in hand (`List`, `Stamp`, `RecordUsage`), `base` and `hours` the two
tables, `moved` the truth (the bytes moved by the end of each tick) and `counted` what the rows were
given altogether, both history. `entry` and `check` are windowCache with its refresh; `judge`
is Collect reading the log of the last run (`InspectRun`, `ReadLog`, `Assess`), `badge` its verdict.
`past` is history: whether Collect has found the service down since the check behind the verdict
began, since the one under way began, and with one under way.
`seq` notes that two processes recorded in another order than they read, which the
property excludes (see below).

### ServiceData (services/custom.go, services/backup.go, runtime.go, store)

`cont`, `vol`, `row`, `def` and `conf` are container, named volume, deployment row,
definition and state_backups row per slug; `pr[p]` the calls: Delete (`ListForDelete`,
`Tombstone`), Deploy (`Replace`, `Create`, `WriteRow`), Remove (`Plan`,
`TakeContainer`, `TakeVolume`, `DeleteRow`), Export (`Inspect`, `Pause`, `Read`,
`Unpause`, `Save`), Confirm (`StateFingerprint`, `Record`) and Undo. `ran`, `blind` and
`reported` are history and name the exceptions.

### DataMounts (runtime/mounts.go, removal.go; runtime.go, app.go)

Where one catalog service keeps its data. `ctr` is the container under its name with its
mount and the path its environment carries, `listed` the entry of the running release,
`path` the stored path field, `data` what each volume or folder holds, `jobs[p]` the calls:
Deploy (`DeployService` with a form or with what is stored, `Inspect`, `Replace`, `Create`)
and Remove (`AskAboutRemoval`, which is the dialog over PlanRemoval, then `Plan`, `TakeContainer`,
`TakeVolume`). Somebody may put a container of his own under the name (`ByHand`), and a
restart may bring another release. `keepLiveMounts` is the rule under test. `asked`, `heir` and `crossed` are
history: the owner gave another path; this deploy read the very container it removes; the
container changed while a dialog was open. `DataIsKept` is `StaysPut` and `GoesAsNamed`.

### Earnings (internal/collectors, internal/exchange, payouts.go, store, app.go)

`plan` is a service's collector: the requests it makes in order and what the failure of
each means (`Must`, `May`); every JSON collector is one such sequence. `coll[c]` is a collection by the
cycle, after a deploy, or by hand; `rows` the earnings table, `payouts` the payouts, `rates`
and `fetch` the exchange cache, `reg` and `devs` the device check, `noted` the ids it was told of (history). `acct` and `moves` are the
provider's truth. The summary reads the rows of `Window` days (daysBack, app.go:738: 36 to 69), of the
`Retention` (400) that are kept. `Total`, `EarnedAllTime` and the daily deltas are folds over `rows`.

### CatalogSync, CatalogDrift (cmd/catalogsync, internal/catalogsync; runtime, app.go)

`CatalogSync`: `web`, `overlay` and `tree` are the three sources, `run` the tool's progress (fetch
with retries, apply, compare, write file by file), `verdict` its exit. `CatalogDrift`: `entry` is
the running release's catalog entry, `box` and `boxRow` what a deploy built of it, `ignored` the mute
with its fingerprint; `ShapeDrift`, `ImageOutdated` and `ShapeFingerprint` are the code's
predicates.

### NativeBinaries (native.go)

`file`, `marker` and `rule` are the executable, .verified-sha256 and the Windows
Firewall rule by path, `registered` the registry, `proc` the process, `call` the one call under way:
a deploy is `Reuse` or `Download`, `Extract`, `Mark`, then `StopOld`, `Unrule`, `CheckRule`,
`Prompt`, `Confirm`, `Exec`, `persistRunning`. `strayed` and `byHand` are history.

### How the modules fit together

Each module keeps tables or goroutines that no other module writes, except where one
extends the other (Activity extends Config: the switch is a field of the configuration). Where one
part calls another, the callee's outcome is a choice of the caller: `Deployments` lets a native
start succeed or fail, which NativeSupervisor details; NativeSupervisor lets an executable be
there, which NativeBinaries details; `Scheduler` lets a sweep happen, which FleetKeys details;
`Activity` takes a round as a delay and a result, which ActivityRound details.

The MC modules put several small instances into one run as **scenes**: a behaviour picks a
scene, moves that part and leaves the others in a state where none of their actions that
fairness asks for is enabled. A scene adds no interaction; it is one TLC run for
several questions. A module that something is proved about is extended, so that the run and the
theorem name one definition.
Modules that are extended together share no name, which is why a few names say which part
they belong to (`FenceQuotas`, `BinariesSpec`). MCWorkers holds FleetKeys, DataMounts, Readings and ActivityRound; MCScheduler the
Scheduler and the live FleetKeys; MCHost LanFence, ProxiedCopies and Activity with
Config; MCData Earnings, ServiceData, CatalogSync, CatalogDrift and NativeBinaries.

## Runs

Run with `tlc -config X.cfg M`. Model values stand for services, keys, processes.

| Run | Instance | Shows |
|---|---|---|
| `deployments_concurrent` | `EachSpec`: a container service with 2 copies on which everything interleaves; a service that is native unless an image is chosen, on which one operation or refresh goes on at a time | the choice is lost only on a deploy, a removal, or the daemon's own word (`ChoiceLostOnlyOnEvidence`); Remove is complete (`RemoveIsComplete`); a row is inserted only for a unit that exists (`RowsOnlyForUnits`), with every failure, outage and crash |
| `deployments_live` | `LiveSpec`: 2 services, fair refreshes | `SettledContainerIsShown`, `StaleRowGoes` |
| `deployments_outage` | `OutageSpec`: one operation or refresh at a time, the daemon comes and goes | `RefreshKeepsChoice` is violated, see below |
| `workers` | fleet: 1 device, 3 handlers, 3 keys; mounts: 2 calls, 4 releases, 4 places for the data, 3 containers made by hand; readings: 2 samplers, 4 choices of events; round: 2 earners and an app that is none, 3 hosts, 4 choices of events | `ConfirmedKeyIsHeld`, `ConfirmedKeyIsKept`, `ActsOnWhatItRead`; `DataIsKept`; `CountedOnce`, `BadgeIsCurrent`; `WindowIsHonest`, `LeftoverIsReported` |
| `scheduler` | collection: 2 loops, 2 services, pool of 1, 1 fetch; fleet: 1 device, 1 handler, 3 keys, fair | `LoopsAreOrderly` (single flight, the pool's bound, a batch is over, no forgotten loop), `JoinedBeforeClose`, `NobodyWaitsForEver` (a loop collects, Shutdown ends); `DeviceGetsConfirmed` |
| `fleet_keys_retry` | `RetrySpec`: 2 handlers, no failures at all | `HeldKeyIsStored` is violated |
| `upstream` | `FairSpec`: 2 servers, 1 loop, 1 save, 2 batches | `OnePairing` (no forgotten loop, figures of the pairing), `HandsOver` (implements HistoryHandover), `HistoryArrives` |
| `upstream_old_key` | `Spec`: the same with 1 batch | `KeyOfServer` is violated |
| `native` | `FairSpec`: 2 calls, 1 supervisor, 3 processes, 1 orphan | `NoStray`, `SupervisorsMoveOn` (a stop ends, a crashed process comes back) |
| `native_start` | `SteadySpec`: 1 call, 2 supervisors, 3 processes, nothing fails | `StopStops` is violated |
| `host` | fence: an earner and a proxied copy's tunnel, 1 check, 2 networks, 11 choices of events; copies: 1 owner beside the ticker, 9 choices; owner: 2 writers, 5 choices | `ReattachedBehindDrops`, `SettingPrevails`; `CapPrevails`, `NoCopyForgotten`, `DeletedLeavesNothing`; `FieldsKept`, `KeysAreStable`; `NothingAfterDelete`, `OffGetsClean` |
| `data` | earnings: 8 of the collectors' shapes, 3 days; services: 2 calls, 2 slugs of one name; sync: 2 paths, 1 edit; drift: 6 entries, 3 daemons; binaries: 3 releases | `EarningsAreTrue`, `UnlinkedIsCurrent`; `AddedServicesHold`, `BackupIsTrue`; `SyncIsSound`; `RedeployClears`, `MuteHidesNothingNew`; `RulesFollowLaunches`, `DeployRunsWhole` |

The modules about which something is proved have a type invariant `TypeOK`, which the proofs
establish; it takes no place in a run.

### Bounds, and why they are enough

- **Copies (2), services (2).** Operations on different services share only `dockerUp`
  and the prune guard `Total`; the second service is there for that guard. In
  `deployments_concurrent` a service is touched only while the other is as it was at first.
  The second copy is the first one that RemoveCopies, ScaleDown and the copy branch of a
  deploy act on.
- **One user and one refresher.** The concurrent run is an operation against a Refresh.
  Two users are covered by the proof of `ChoiceSafe`, which has no bound; `RemoveIsComplete`
  is false of two (see below) and proved for one beside any number of refreshers.
- **Handlers (3), keys (3).** Three handlers are one holding the lock and two waiting with
  different credentials. A key can be minted when nothing remembers it. With three keys a mint
  has to wait while three are remembered; `ConfirmedKeyIsHeld` and `ConfirmedKeyIsKept`
  are proved for any number.
- **Loops (2), services (2), pool (1).** A replaced loop and its successor; one service
  more than the pool. Once both loops have been used there is no third interval change;
  single flight, the pool's bound and no forgotten loop are proved for more.
- **Upstream with one loop.** A save joins the loop it took before it launches the next, so
  one goroutine can be reused; that this is so with one save at a time is what
  `NoForgottenLoop`, a part of `OnePairing`, checks. `OnePairingHolds` proves
  it for any number of servers and loops.
- **Batches (2)**: a middle and a last one.
- **Processes (3), `MaxOrphans` (1).** The one in the entry, the one in a supervisor, the one
  about to be started. `MaxOrphans` bounds how many processes may be alive when the app
  ends; the proofs do not use it.
- **One supervisor in `native`.** Two calls that both launch need two supervisors;
  `NoStray` for any number is proved, and `native_start` has two.

- **Quotas.** In the scenes each kind of event (a call, a failure, a crash, a restart, a day)
  may happen a stated number of times; `Quotas` and `Scenarios` list the combinations, and a
  behaviour begins by choosing one. Each combination asks one question: a setting against a
  failing helper, a stop against a reset, a cash-out against a lost answer. Internal
  steps, ticks and passes are not counted. Quotas bound how much trouble there is in one
  behaviour, not in what order it comes.
- **Networks (`MaxNet` 2).** The one that is lost and the one made in its place.
- **Proxied copies (1 slug).** Copies of two services share the proxy's state, whose sections
  are single steps, and are listed and acted on one by one.
- **Earnings.** `MaxDay` 3 with `Retention` 2 and `Window` 1: a day that the summary reads, one that
  is only kept, and one beyond both. The eight collectors of the scenarios stand for the shapes that the others repeat.
- **Samplers (2).** The window's and the daemon's, which is what the code has. `MaxClock`
  4 is two hours of two ticks, with a baseline that is too old after one.
- **Slugs of one name (`Customs` 2)**: the deleted service and its namesake; proved for any number
  of slugs and calls.
- **Catalog entries of the mounts (4)**: a marked volume, the owner's folder at the same path, and
  two that move the container path and have no mark, one read-only, one writable: the last is how
  there is data at a path that another release's mark does not cover. The proof takes any
  entries, containers and paths.
- **Releases (3)**: one that moves the executable, one that replaces it where it lies and
  drops the rule.

Deadlock is checked in the runs in which something can always go on. `workers`, `scheduler`,
`host` and `data` say CHECK_DEADLOCK FALSE: their quotas run out, or the program ends with the
store closed and all loops gone.

## Fairness

- **Deployments.** `UserStep` is weakly fair: calls to the daemon and the store return.
  The refresher is weakly fair *including its start*: the window refreshes on
  `earnings:changed` and `deployment:changed` (main.ts:167-168), and each
  collection run sends the former. The two strong assumptions say that rewriting, or
  deleting, a row that is attempted again and again does not fail for ever. Users need not act.
- **FleetKeys.** Strong fairness of each stage for one device: an answer, an
  admission or a statement that is tried for ever succeeds in the end. The liveness
  instance has one handler per device (a client that waits for its answer) and a hub that
  stays on; no device is removed.
- **Scheduler.** Weak fairness of loops, workers, fetches and Shutdown's steps: collectors
  carry timeouts, and cancelling a context ends the request. `SF(Exit)`: Go's `select` picks
  at random among ready cases, so a loop that finds its context done at every pass leaves
  in the end. It is strong because a pass may take the ticker instead. Starting a loop,
  a fetch or the Shutdown itself is never required.
- **Upstream.** As Scheduler; a heartbeat, key write, batch or marker write that is
  repeated for ever succeeds in the end. `HistoryArrives` asks in its premise that the user leaves
  the pairing alone and that the cached key is not another server's; and, where there is none, that the
  server may still issue one: from a machine that has proved its own key it refuses the enrolment key, and
  no fairness makes it answer. `ReturnArrives`, without that premise, is false of the code (below).
- **NativeSupervisor.** Calls and supervisors proceed. `SF(Respawn)`: a binary that is
  started again and again starts in the end; without it the code retries for ever, which is
  also what it should do.
- **LanFence.** The tick comes again and its steps go on, every other caller's steps go on, a
  helper ends (it has a timeout), a daemon that is down is started again. Nothing is
  assumed of who gets a lock.
- **ProxiedCopies.** The owner's calls go on once begun, the ticker ticks and its pass goes on, a
  tunnel that runs gets ready. No call need begin.
- **Activity.** A start goes on, a delete is carried out, the sampler's loop goes on, and
  (strong) not every retried delete fails.

The parts of MCWorkers and MCData are checked for safety only.

## Proofs

| Theorem | Module | Statement |
|---|---|---|
| `TypeCorrect` | DeploymentsProofs | `Spec => []TypeOK` |
| `ChoiceSafe` | DeploymentsProofs | without native services, `ChoiceLostOnlyOnEvidence` |
| `RemoveLeavesNothing` | DeploymentsProofs | with one user, `RemoveIsComplete` |
| `RowsAreOfUnits` | DeploymentsProofs | `AloneSpec => RowsOnlyForUnits` |
| `TypeCorrect` | WorkersProofs | `Spec => []TypeOK` of FleetKeys |
| `ConfirmedSafe`, `KeptSafe` | WorkersProofs | `[]ConfirmedKeyIsHeld`, `ConfirmedKeyIsKept` |
| `ReadSafe` | WorkersProofs | `Spec => []ActsOnWhatItRead` |
| `DataStaysAndGoesAsNamed` | WorkersProofs | `DataIsKept`, for any well-formed inputs |
| `CountedOnceThm` | WorkersProofs | `ReadingsSpec => []CountedOnce` |
| `BadgeIsCurrentThm` | WorkersProofs | `ReadingsSpec => []BadgeIsCurrent` (one check at a time, no old verdict) |
| `WindowIsHonestThm`, `LeftoverIsReportedThm` | WorkersProofs | `RoundSpec => []WindowIsHonest`, `RoundSpec => LeftoverIsReported` |
| `SchedulerTypes`, `LoopsAreOrderlyHolds`, `JoinHolds` | SchedulerProofs | `[]TypeOK`, `[]LoopsAreOrderly`, `[]JoinedBeforeClose` |
| `SingleFlightHolds`, `PoolBoundHolds`, `NoForgottenLoopHolds` | SchedulerProofs | three parts of `LoopsAreOrderly` by themselves |
| `UpstreamTypes`, `MarkerHonest` | UpstreamProofs | `[]TypeOK`, `[]MarkedIsHanded` |
| `OnePairingHolds` | UpstreamProofs | with one save at a time, `[]OnePairing` |
| `HistoryIsHandedOver` | UpstreamProofs | `Spec => HandsOver`: Upstream implements HistoryHandover |
| `NativeTypes`, `NoStrayHolds` | NativeSupervisorProofs | `[]TypeOK`, `[]NoStray` |
| `ConfigTypesHold`, `FieldsAreKept`, `KeysStayStable` | HostProofs | `[]ConfigTypes`, `[]FieldsKept`, `KeysAreStable` |
| `NothingIsStoredAfterDelete` | HostProofs | `[]NothingAfterDelete` |
| `ReattachedBehindDropsThm` | HostProofs | `FenceSpec => ReattachedBehindDrops` |
| `DeletedLeavesNothingThm` | HostProofs | with one call of the owner at a time, `CopiesSpec => []DeletedLeavesNothing` |
| `AddedServicesStand`, `BackupStaysTrue` | ServiceDataProofs | `AddedServicesHold`, `[]BackupIsTrue` |
| `RedeployClearsThm`, `MuteHidesNothingNewThm` | DataProofs | `RedeployClears`, `[]MuteHidesNothingNew` |
| `RulesFollowLaunchesThm`, `DeployRunsWholeThm` | DataProofs | `[]RulesFollowLaunches`, `DeployRunsWhole` |
| `UnlinkedIsCurrentThm` | DataProofs | `[]UnlinkedIsCurrent` |
| `SyncIsSoundThm` | DataProofs | `SyncSpec => SyncIsSound` |

Check one with `tlapm M.tla`. The assumptions are the named ASSUMEs of each module: special
values are not members of the sets they stand apart from, the pool has at least one
slot, a native service runs once (instances.go, ScalingLimit), tunnels are earners
(`TunnelAssumption`), a catalog entry and a pin are records of their fields (`EntryAssumption`,
`SyncAssumption`), an hour has a tick and a replacement of the container is a counted event
(`TicksAssumption`, `ScenariosAssumption`), a machine starts with finitely many containers that are records
of their fields, each with an id of its own (`HostsAssumption`). Two of them say
something of what the catalog may hold: `OverrideAssumption`, that an image for one architecture is
of the entry's own repository, and pinned by the entry's digest if at all (the one override there
is, services/bandwidth/traffmonetizer.yml:25, has a tag; the code compares repositories first, so without
it a redeploy could leave the row it was asked to clear), and `VersionsAssumption`, that no two
releases pin one digest with different archives (a pin that is rolled back is the exception among the
[disagreements](#disagreements)). Five theorems have a hypothesis of their own. `OneUser`, `OneSave` and `OneOwner`: without them the conclusion is
false of the code, see the [disagreements](#disagreements). `Inputs` says that the catalog's entries and
the containers made by hand are records of their types and that no typed path is empty
(DeployService refuses a required field that is), `Customs \in Nat` that the slugs are numbered.
The scenes of MCWorkers, MCHost and MCData begin in the part's initial states and take steps of its
next-state relation, within quotas. The theorems are about the part's own specification
(`Spec`, `DataSpec`, `FenceSpec`, `DriftSpec`, `BinariesSpec`, `EarningsSpec`, `SyncSpec`, `CopiesSpec`, `ReadingsSpec`, `RoundSpec`), whatever the quotas are.

The inductive invariants:

- **Deployments.** Types need `ReadFirst` (a writer of a lifecycle call has read a row)
  and `TodoListed` (what a Refresh is about to write was in its listing, so it is a status
  and not "none"). `ChoiceSafe` adds `DockerOnly` (no row, operation or listing is native)
  and `Evidence` (a stale slug is one the daemon answered about and did not list). The
  premise `NativeSlugs = {}` is needed: with a native service a Refresh prunes Docker's rows
  without the daemon's word (disagreement 2). TLC checks the conclusion on the same kind of
  instance. `RemoveLeavesNothing` says at each step of a Remove what is behind it
  (`Removed`): while it goes through the copies it listed, these cover the extra copies there are;
  at the removal of the first copy there are no others; at the deletion of the row there is
  none. That nothing appears meanwhile is `OnlyCreateCreates`. `RowsAreOfUnits` is about `AloneSpec`:
  an operation on a service that may be native begins with no other and no Refresh under way
  (`FreeToBegin`), no Refresh begins while there is one (`FreeToList`), and nobody removes its container by hand.
  The steps of EachNext, which the run checks, are among those of AloneNext: it has the same guards, and
  leaves each of its two services alone until the other is done. `AloneOn` says what follows: the row about
  to be inserted has its unit, a row that a lifecycle call has read is still there when it writes
  it back, and what a Refresh listed is still there when it writes its rows.
- **FleetKeys.** The lock is held exactly by the handler between its Lock and Unlock
  (`LockedOut`). A request presents the shared key or the key its client holds
  (`TokenIsOwn`), and only one that presented the shared key is answered with a key
  (`KeyForShared`). The request a client waits for is its own and presents what it would
  still present (`AwaitsOwn`), so a key that arrives never replaces one that was confirmed. What a
  handler read under the lock still holds when it acts on it (`ClassifiedRight`); without
  that a confirmation could be for a key replaced in between, which is what the mutant
  `LockNotTaken` shows. `ReadSafe` is that fact as a property: from the reading of the key state to the
  answer the classification is the one of the table as it is, and a row that a heartbeat has written
  stays until then. AddFleetDevice writes the row without the lock (app.go:1202) and is the case to look
  at: it leaves the key columns alone. A sweep that deletes without the lock breaks it (`SweepReapUnlocked`).
- **Scheduler.** A loop in a run has set the guard (`GuardHeld`) and is the only one; workers
  exist only while their batch is launched or waited for (`WorkInBatch`), which carries the
  pool's bound from one loop to all; Shutdown takes, joins and closes in that order
  (`ShutdownOrder`).
- **Upstream.** `PushedSoFar`: a loop that has pushed `n` batches has handed over `1..n`.
  The refinement follows from it: an accepted batch finds its older ones accepted
  (`Accept`), a marker is written for a server that has them all (`Finish`), and every other
  action changes neither. The proof covers any number of overlapping saves. `OnePairing` adds
  `HandleRuns` (the loop of the handle runs and is not told to stop; any other that runs has been taken
  by the save that waits for it) and `Restarting` (from the stop to the launch there is no handle, and
  once the taken loop is gone there is no loop and there are no figures).
- **NativeSupervisor.** `WatchInv` is `NoStray` with what its step needs: a supervisor in its
  backoff has nothing running, one that is over has no command, one that has just respawned has a
  process (`SupersInv`); a launch under way has a supervisor to itself that has not begun, and a
  stop under way has taken one (`CallsInv`).
- **Configuration.** `WritesInv` follows a write from the call to the memory: a Save that is
  about to persist has read what memory holds (`SnapIsFresh`), what is about to be set is what
  was asked for and is in the file (`SetIsAsked`, `FileIsAsked`), a writer changes its own field only
  (`OwnField`). All but the last hold while `raced` is false, which is exactly when nobody has
  saved an older snapshot. `SecretsInv` says where a key in use is: in the keychain, or, a token
  of an older release, in the configuration that file, memory and every write under way carry
  (`KeysInRing`). `LegacyHeld` is what makes it inductive, as a write may still carry
  the token that the start has just moved.
- **Activity.** A delete that is done has moved the generation on (`StaleIsMoved`), so what the round
  reads under the lock tells it whether a delete has come since it began.
- **DataMounts.** `PathInv`: unless the owner gave another path, a container that carries the
  field carries what is stored, and a deploy that inherits holds the path of the container it
  replaced, so the catalog's mount and the live one are the same folder. `DialogInv`: until
  another container takes the name, what the dialog named and warned of is what the removal
  finds, plans for and takes. The proof failed at first for a good reason: `GoesAsNamed` asked for a
  warning whenever the running release marks its path, while the code looks whether the mark is on the
  path where this container keeps its data (`Critical`, manager.go:420). Where a release has
  moved the path these differ, and no warning is given, which the disagreements
  name. The property now asks for what the code promises, and the fourth entry is that case.
- **LanFence.** Only the fence itself starts what a missing network stopped, and it does so at
  `reattach`. `MuHeld` says who may be between `Lock` and `UnlockMu`: the holder of f.mu and nobody else.
  `DropsInv` says of a caller at its reattach that the table is not the one without drops, and that no
  helper which is still at work will make it so: the caller's own has ended, one of another
  process or of a run of the app that died writes the drops, and one that takes them away is started
  under f.mu. `JobInv` is needed for the ways out: a call that fails or is over leads out of the locked
  part, since it is a reconcile, an EnableIsolation or a deploy.
- **ProxiedCopies.** What the property rests on is that the record is there before the first container
  and goes after the last: `Recorded` (a copy that is not on record has neither earner nor tunnel, unless it is `stranded`) and
  `Undeleted` (a deleted proxy has no copy on record). `InOrder` is which call may be at which of its steps, so that only
  the owner's deploy and remove make a container or take one away. `Holds` says what has been reached
  when one of them gives the record up: a deploy that found no record has made whatever stands under
  the name, by its identity, so its clean-up takes all of it or leaves it `stranded`; a remove has taken each part it has
  passed. The starts and stops of the ticker, the cap and the reset change what a container does and never whether it is there (`CopiesStand`).
- **CatalogDrift.** `RedeployClears` is about one step, a deploy, and needs what the catalog may hold
  (see the assumptions). `MuteInv` is that the muted fingerprint is one that an entry gave, so that a
  container which is drifted under it was drifted when the user said yes (`FingerprintDecides`: the
  fingerprint has every field the comparison reads).
- **NativeBinaries.** `QuietInv` (a launch that has stopped the old process has nothing running that is
  watched or listed), `BlockedInv` (what is watched or listed, and what is about to be executed, has the
  rule its release asks for, unless the user took the rule away) and `KnownInv` (a rule there is, and that
  no failed launch left behind, is for the path which the registry or the call under way has) carry
  `RulesFollowLaunches` through deploys, respawns and releases that move the executable. `MarkerInv` is
  what `DeployRunsWhole` rests on: the marker names the digest of this release or an earlier one, the
  digest of this release only if the file at its path is that one, whole, and it is gone while a
  file is written.
- **Earnings.** `DevicesInv`: the device that is shown as missing is the current one, whatever answers
  arrive and when, since a note of another device clears the warning in the same write (`Note`) and an
  answer is compared with the current device when it is recorded (`Judged`); and the current device is
  the newest that was noted, unless an older one was noted after it. That exception happens (disagreement 8).
- **CatalogSync.** `RunInv` says what an untouched run holds (one revision of the web catalog, the tree
  that follows from it, and every path it has dealt with as it should be), `InOrderInv` that a settled
  tree is the one that web and overlay make. A settled tree is read by no run that began before it was
  written, since an edit both unsettles the tree and touches the run under way.
- **ServiceData.** `AddedOf` is, for each call, why the definition it relies on is there (the
  hold of a deploy, customMu and the listing of a delete), `Apart` that two such calls are not on the
  same slug, `UnusedIsEmpty` that a slug nobody has used has no container, volume or row; that there
  is a least unused slug is by well-founded induction on the numbers. For the backups:
  `WholeOf` (a lone export that paused the container has seen it run only if it is no longer paused,
  and not at all once it is past the unpause), `FileOf` (what was read is the volume in use until a
  removal crosses the call), `Sole` (of two exports neither is `alone`), `VolInv`
  (a container's volume is the one under the name) and `CardInv` (the recorded fingerprint is of the
  recorded file).
- **Readings.** `ReadInOrder`: every reading in hand, and the one recorded last, is of a moment that has
  passed, and of two of them the earlier is of an earlier moment; the counter either shows what was moved
  since or has begun anew and shows no more than that (`Since`). `BaseInv` is about the baselines: the one
  of the newest reading's container, if it has one, is that reading, and any other is of a container before it. `RowsInv`
  says that no hour holds more than was moved from a baseline's age before it up
  to that reading (`ReadBy`). So each recording starts where the one before ended. `crossed` gives this up,
  and with it the property. `VerdictInv` is that a check is under way only while the entry says so,
  in one slot, and that a check which the service was found down under is known as such (`past.crossed`):
  so a verdict that outlives the finding came from there, or was forgotten.
- **ActivityRound.** `MarkInv`: whatever a box, a baseline or a reading says of one namespace number, it
  gives the same difference between the connections since the namespace was made and those since the name
  was first used (`Mark`), and no number at or above `fresh` has been given out. A change is shown only
  between two readings of one number (`Comparable`), so it is the true one. `IsListed` and `IsGroup` carry
  from the listing to the sample who is an earner; several groups may have one owner. That a destination
  is of the namespace that is shown (`HoldsNoElse`) rests on the ids: what joins a container joins an id that
  is there, and one container has it (`OneById`, `JoinedOwner`). `LeftInv`
  says where a helper that has read something is: in a group that is not done, in what the round has
  named, or in a round that could not list.

Only model-checked: every liveness property and the properties stated with fairness
(both are outside the prover), and `EarningsAreTrue`. What the recursive folds of Earnings and `Fit`
compute for every input is an induction over data and stays with TLC.

<a name="disagreements"></a>
## Disagreements between code and documentation

Found by a run:

1. **A stopped native service runs on** (`native_start`, `StopStops`). Start takes a child in
   its crash backoff for dead (native.go:331) and launches a second process, whose
   supervisor replaces the first one in the map. Stop then stops the second, and the first
   respawns. native.go:626 says that no respawn survives a stop.
2. **An outage of Docker loses the user's image and count** (`deployments_outage`,
   `RefreshKeepsChoice`). With the daemon down and one native service listed, Refresh
   counts every Docker row as stale and deletes it (manager.go:649). manager.go:560-561 says
   one backend being down cannot blank a healthy one; store.go:42-43 says the refresh
   cannot drop the choice.
3. **A retry replaces a key that was already delivered** (`fleet_keys_retry`,
   `HeldKeyIsStored`). The lock orders handlers, not a client's retries: the queued first
   attempt is classified after the second one's key was delivered and before it is
   confirmed. app.go:91-93 and CHANGELOG.md:227 say that cannot happen. From then on the
   device presents a key that matches nothing and is refused: the client's rule
   (internal/upstream/upstream.go:156) never goes back to the shared key while it holds one
   of its own. `DeviceGetsConfirmed` is therefore about clients that wait for their answer.
4. **The key of the previous server is presented to the next** (`upstream_old_key`,
   `KeyOfServer`). SaveSettings clears the key before it stops the loop, and a heartbeat in
   flight stores its own afterwards. app.go:1026-1030 says repointing must discard it.

False of the code as well, defined in the modules and not kept as runs. Each is
reproduced by naming the property in a copy of the cfg given:

| Property | Copy of | Specification | What happens |
|---|---|---|---|
| `RefreshKeepsChoice` | DeploymentsConcurrent.cfg | `EachSpec` | a Refresh that lists while a redeploy has just removed the old container prunes the row when the new one is already there. The redeploy writes row, image and count again unless it fails first; `ChoiceLostOnlyOnEvidence` permits it, since the daemon did answer without the service |
| `RowsOnlyForUnits` | DeploymentsConcurrent.cfg, with the guards `FreeToBegin` and `FreeToList` of EachNext dropped | `EachSpec` | Refresh writes the row of a service that Remove, or a deploy that failed, took away after the listing; it stays until the next Refresh that lists anything. docs/how-it-works.md:340 and e2e/lifecycle_test.go:240 describe Remove without an overlap. (Under `Spec` the shortest trace is a container removed by hand while its deploy returns) |
| `OneRuntime` | DeploymentsOutage.cfg | `OutageSpec` | a native service redeployed with an image gets a container and keeps its process |
| `CopiesAreShown` | DeploymentsConcurrent.cfg | `EachSpec` | a scaled redeploy whose first container fails leaves the running copies with neither a row nor a first container once a Refresh prunes |
| `RemoveIsComplete` | DeploymentsConcurrent.cfg with `Users = {u1, u2}`, `Slugs = {docker1}` | `Spec` | a deploy from a second window creates its container between a Remove's last removal and the deletion of the row; the row comes back when the deploy ends |
| `DeletedLeavesNothing` | Host.cfg with `Owners = {o1, o2}` and a deploy, a remove and a delete in one of `CopyScenes` | `HostSpec` | a second deploy of a copy makes its containers between a RemoveProxied's last removal and the deletion of the record (proxies.go:515-519, not under proxyMu); DeleteProxy then finds no copy, and a copy runs through no proxy (proxies.go:242 says it deletes a proxy that no copy runs through) |
| `ReturnArrives` | Upstream.cfg | `FairSpec` | repointing away and back discards the key (app.go:1031) that the server had confirmed, and the server refuses the enrolment key from then on (internal/upstream/upstream.go:84-86, 152-156): the pairing never works again and the history does not arrive. upstream_client.go:36 and 217 say that re-pairing is safe |
| `DeletedHasNoCopy` | Host.cfg | `HostSpec` | a deploy of a proxied copy fails, and so do the stop and the removal of what it made, which nobody hears of (proxied.go:668-672). The record goes all the same (proxies.go:415-417), so DeleteProxy counts no copy, and the tunnel, and an earner started behind it, may run on. proxies.go:242 says no copy runs through a proxy it deletes, proxies.go:386-388 why there must be a record. `DeletedLeavesNothing` is about every other copy |
| `RefusalIsOfLastRun` | Workers.cfg | `WorkersSpec` | for a service that is up for less than two minutes the log is read up to its start, with no lower bound (lastrun.go:58-62): after a short run before, the last lines are of earlier ones too, and a refusal in these is judged. lastrun.go:23 and 29-30 say it is the last finished run only |
| `TotalIsOfLatest` | Data.cfg | `PartsSpec` | the summary reads the balances of 36 to 69 days (app.go:738), while the newest row of a service is kept for ever (store.go:608-611). A service whose collections have failed for longer vanishes from Total and from the lifetime figure, and TotalKnown stays true. app.go:812 says the total is of each platform's latest balance, app.go:394 that absent is not zero. `EarningsAreTrue` is about services that were read within these days |
| `OutlivedAnswersAreIgnored` | Data.cfg | `PartsSpec` | a collection reads the device id when it begins and notes it after the balance (devices.go:130); when a redeploy has noted the new one meanwhile (devices.go:159), the old one is current again, and an answer about it is shown. devices.go:22-24 says such an answer is ignored. `UnlinkedIsCurrent` excepts it |
| `NoWriteAfterClose` | Scheduler.cfg | `SceneSpec` | a replaced loop, or a fetch after a deploy, is joined by nobody and records into the closed store. app.go:294-295 and 1813-1814 say nothing writes to a closing database; the writes fail and the balance is not recorded |
| `ShownUnderItsName` | UpstreamOldKey.cfg | `Spec` | between the writing of the new address and the end of the join, the old server's figures are shown under it |
| `NoForgottenLoop` (Upstream) | Upstream.cfg with two savers and two loops | `Spec` | two overlapping SaveSettings each find no loop to stop and each launch one; the first one's handle is overwritten |
| `StartRunsWhole` (NativeBinaries) | Data.cfg | `PartsSpec` | extraction truncates the executable in place (native.go:1042-1065), and Start looks only at whether the file is there (native.go:335-352): after a deploy that was cut short Start launches a torn file. native.go:874-876 says a caller never executes unverified content |

Met while modelling, by reading or as an exception that a property had to name:

- **Configuration.** IgnoreDrift (app.go:654) and CompleteOnboarding (app.go:1253) Save a
  snapshot read earlier: an acknowledged change of another field, the activity switch
  included, is undone (config.go:228-229 warns of it; activity_app.go:214-216 promises that off
  deletes every address). `raced` names it. A write that is cut short leaves a config.json
  that no later start accepts. On a platform whose keychain may be absent keys can be made anew
  (`goos = "maybe"`). A fallback file is never deleted, so a cleared worker key comes back
  (config.go:398).
- **LAN fence.** A tick that lists between a deploy's removal of the only bridge earner
  and its return resolves to "on" and remembers it (lanfence.go:75-76 says legacy hosts stay as they
  are). A deploy that resolved "on" remembers it after the user saved "off" (app.go:1072); the next
  tick repairs it, which is what `SettingPrevails` shows.
- **Proxied copies.** With overlapping passes, or a pass beside a call that starts the copy,
  a wanted copy may stay down after the cap is lifted; `overlap` names it. A stop by the owner beside the pass marks the copy
  "capped", so that a later reset starts it. RemoveProxied beside DeployProxied deletes the
  record of a copy that then runs. SaveProxy writes definition and state in two statements.
- **Custom services, backup.** With Docker down and the native runtime answering, DeleteCustom
  does not refuse (custom.go:443); `blind` names it. Overlapping exports unpause each other
  and may tear the copy (`alone`); an app killed between pause and unpause leaves the container
  paused (`reported`). A Remove whose volume deletion failed cannot be
  repeated (runtime.go:485, 1242).
- **Data mounts.** Where a container made by hand keeps its data is known only as long as it
  exists. A deploy that fails at its create or start after the removal, and a removal that keeps
  the data, forget it, and the next deploy mounts the catalog's own volume and starts a new
  identity; removal.go:28-30 says deploying again picks the data back up. "Redeploy" on a drift row sends
  no form and takes the stored one: a path saved after the deployment moves the data, while the
  question says it keeps the settings it was deployed with (frontend/src/main.ts:2076).
  The yes to a dialog is not tied to what it named: RemoveService plans again and deletes the
  volume of whatever container has the name by then (app.go:1440); `crossed` names it. A release that renames a
  container path starts the service on new data, and takes the mark off the old one.
- **Usage, health.** Two samplers that record in another order than they read count traffic again
  (store/usage.go:96-97); `seq` names it. A windowed check that is under way when the service is found down is
  not forgotten (windowed.go:181) and leaves the old run's verdict for the next one, until the check after
  (windowEvery); `past.crossed` names it. A service that is stopped and started, or redeployed, between two looks
  at the dashboard is never found down, and the verdict about its log before stands just as long;
  `BadgeIsCurrent` is about a service that was found down.
- **Earnings.** The purge keeps the newest row per service, which may be an error row: the
  last balance of a service that fails for longer than the retention goes (store.go:596-611). A 200 answer
  without the balance field books zero, and the next reading
  counts the whole balance as a day's earnings; so it is with Mysterium when only some of the nodes can be
  read, whose sum is recorded as the balance (collectors.go:530-563); an older reading can be saved after a newer one;
  `crossed` names these. A payout is priced at a cached rate that may be old
  (payouts.go:100-107).
- **Catalog.** "Update available" compares with the image of the entry, not with that of the
  architecture. A retired service may "need fixing" though its redeploy is refused.
- **Native binaries.** A pin that is rolled back after a torn extraction finds the old
  marker and reuses the torn file. An unreadable state.json is read as empty. A rule made for a launch
  that fails is known to nobody (`strayed`).
- **Activity round.** A container that joined an earner's namespace and is no earner is shown with its
  destinations as the earner's, since only the owner of the namespace is looked at (payload.go:261-267); of the
  reverse case, an earner in a namespace that an app owns, the window says that other apps may share it
  (frontend/src/render/activity.ts:82-85). An app that dies in a round and starts with the switch off does not sweep, so
  its helper and its log stay (activity_sampler.go:126). Deltas.Reset beside a running round can
  leave a baseline from before the switch.

## Not modelled

- **Pure functions and parsing** (importers, compose export, URL policy, preflight
  questions, service state view, rating, parsing of the catalog and of the providers'
  answers): no state, and best tested by table.
- **Operating-system integration** (background service, tray, window, encryption): one call out
  each; their success or failure is a choice where a modelled part calls them.
- **Metrics and the node reader**: they read what other parts keep.
- **Within the modelled parts**: networks other than the fence's, resource limits,
  log streams; anonymous volumes and how a host path is spelled in the daemon's VM; the rate limiter of the fleet
  server is one more refusal, and starting and closing its listener is left out; the
  content and validation of a custom definition; the age limit of a backup; display
  currencies, points and month figures; scores of health over days; the findings and geography
  of activity; individual rules of the firewall table (it is full, without drops, or absent).
- **Assumed in a model**: network namespace numbers are not used again while a round is under
  way, and a helper that was created is started before another app's sweep may take it for
  a leftover (30 s). A process identity is not used again while anything remembers it.

## Plan

Order: what loses a user's data or money first, what is only displayed last.

| Step | Module | What |
|---|---|---|
| done | Deployments, FleetKeys, Scheduler, Upstream, NativeSupervisor | the core, with proofs |
| done | HistoryHandover | the abstract hand-over, and that Upstream implements it |
| done | LanFence, ProxiedCopies, Config, Activity | what the app does on its host |
| done | Readings, ActivityRound | what it reads off the containers |
| done | DataMounts, Earnings, ServiceData, CatalogSync, CatalogDrift, NativeBinaries | what it keeps |
| done | HostProofs, WorkersProofs, ServiceDataProofs | proofs about the configuration and its secrets, the activity delete, the fence, the copies of a deleted proxy, the data of a service, the usage and health readings, a round of activity, added services and backups |
| done | DataProofs | proofs about drift and its mute, the native binaries and their rules, the device check, the synchronisation |
| done | `LoopsAreOrderly`, `OnePairing`, `RemoveIsComplete`, `ActsOnWhatItRead` | proofs, in the modules of the core |
| next | *native unit* (none, running, stopped), implemented by NativeSupervisor, which is the entry that Deployments keeps; *enrolment* (unknown, issued, confirmed), implemented by FleetKeys | abstract specifications |
| next | Bundle | splitting and merging a backup, restore over an existing store |
| next | Figures | pure: health scores, display currencies, importers and compose export, against reference definitions over bounded inputs |
