----------------------------- MODULE FleetKeys -----------------------------
(***************************************************************************)
(* The fleet server's per-worker keys: handleWorkerHeartbeat, the stale     *)
(* device sweep, the removal and the manual adding of devices, over the     *)
(* fleet_devices table.                                                     *)
(*                                                                          *)
(* A heartbeat is a handler goroutine: it is refused before the lock, or    *)
(* waits for fleetMu and then reads the key state, classifies the token,    *)
(* records the device and issues or confirms its key, one statement at a    *)
(* time.  The clients follow the rule of internal/upstream: present the     *)
(* own key when one is held, else the shared key, and keep a key that a     *)
(* reply brings.  They time out and try again, and replies get lost.        *)
(***************************************************************************)
EXTENDS FiniteSets

CONSTANTS
  Devices,    \* the (kind, name) identities
  Requests,   \* handler goroutines
  Keys,       \* the keys newFleetKey can mint
  Shared,     \* the shared bootstrap key (fleetKey)
  NoKey,      \* "": no key
  NoRow,      \* no row in fleet_devices
  Nobody,     \* the lock is free; the client waits for no request
  Sweeper     \* collectAll's sweep, as holder of the lock

Tokens   == Keys \cup {Shared}
MaybeKey == Keys \cup {NoKey}
Rows == [hash : MaybeKey, confirmed : BOOLEAN, status : {"online", "offline"},
         seen : {"never", "fresh", "silent", "dead"}]

ASSUME DeviceAssumption == Devices # {}
ASSUME KeyAssumption == Shared \notin Keys /\ NoKey \notin Tokens
ASSUME HolderAssumption ==
  /\ Nobody \notin Requests /\ Sweeper \notin Requests /\ Nobody # Sweeper
ASSUME FleetRowAssumption == NoRow \notin Rows

VARIABLES
  enabled,   \* cfg.FleetServerEnabled
  dev,       \* fleet_devices
  mu,        \* fleetMu
  req,       \* the heartbeat each goroutine handles
  held,      \* the key each client keeps
  waiting    \* the request each client awaits an answer to

vars == <<enabled, dev, mu, req, held, waiting>>

AnyDevice == CHOOSE d \in Devices : TRUE
Idle == [pc |-> "idle", d |-> AnyDevice, token |-> Shared, key |-> NoKey]
NewRow == [hash |-> NoKey, confirmed |-> FALSE, status |-> "offline", seen |-> "never"]

Init ==
  /\ enabled \in BOOLEAN
  /\ dev = [d \in Devices |-> NoRow]
  /\ mu = Nobody
  /\ req = [q \in Requests |-> Idle]
  /\ held = [d \in Devices |-> NoKey]
  /\ waiting = [d \in Devices |-> Nobody]

At(q, pc)   == req[q].pc = pc
Goto(q, pc) == req' = [req EXCEPT ![q].pc = pc]
Unlock      == mu' = Nobody
Owner(q)    == req[q].d

----------------------------------------------------------------------------
(* The client.                                                             *)

AuthToken(d) == IF held[d] # NoKey THEN held[d] ELSE Shared

KeyToPersist(d, received) == IF received = NoKey THEN held[d] ELSE received

\* The next heartbeat; the one before was answered or given up.
Beat(d, q) ==
  /\ At(q, "idle")
  /\ waiting[d] = Nobody
  /\ req' = [req EXCEPT ![q] = [pc |-> "arrived", d |-> d, token |-> AuthToken(d), key |-> NoKey]]
  /\ waiting' = [waiting EXCEPT ![d] = q]
  /\ UNCHANGED <<enabled, dev, mu, held>>

\* The client's timeout: the request goes on in the network or in the handler.
GiveUp(d) ==
  /\ waiting[d] # Nobody
  /\ waiting' = [waiting EXCEPT ![d] = Nobody]
  /\ UNCHANGED <<enabled, dev, mu, req, held>>

Answered(q) ==
  waiting' = [waiting EXCEPT ![Owner(q)] = IF @ = q THEN Nobody ELSE @]

\* An answer arrives; nobody reads one that came too late.
Deliver(q) ==
  /\ At(q, "sent")
  /\ held' = [held EXCEPT ![Owner(q)] =
                IF waiting[Owner(q)] = q THEN KeyToPersist(Owner(q), req[q].key) ELSE @]
  /\ Answered(q)
  /\ req' = [req EXCEPT ![q] = Idle]
  /\ UNCHANGED <<enabled, dev, mu>>

\* The answer is lost: the client sees an error.
Lose(q) ==
  /\ At(q, "sent")
  /\ Answered(q)
  /\ req' = [req EXCEPT ![q] = Idle]
  /\ UNCHANGED <<enabled, dev, mu, held>>

----------------------------------------------------------------------------
(* handleWorkerHeartbeat.                                                  *)

\* Before the lock: 403 with the hub off, 429 over the rate limit, 400 and 403 on
\* a body or a device type that is refused.
Refuse(q) ==
  /\ At(q, "arrived")
  /\ Goto(q, "sent")
  /\ UNCHANGED <<enabled, dev, mu, held, waiting>>

Admit(q) ==
  /\ At(q, "arrived")
  /\ enabled
  /\ Goto(q, "queued")
  /\ UNCHANGED <<enabled, dev, mu, held, waiting>>

\* Mutant: the handler does not take the lock.
LockNotTaken(q) ==
  /\ At(q, "queued")
  /\ Goto(q, "read")
  /\ UNCHANGED <<enabled, dev, mu, held, waiting>>

Lock(q) ==
  /\ At(q, "queued")
  /\ mu = Nobody
  /\ mu' = q
  /\ Goto(q, "read")
  /\ UNCHANGED <<enabled, dev, held, waiting>>

\* Mutants: an unconfirmed device is not issued a second key; a confirmed one is.
ClassifyOnce(hash, confirmed, token) ==
  CASE token = hash -> "ok"
    [] token # hash /\ token = Shared /\ hash = NoKey -> "issue"
    [] OTHER -> "reject"
ClassifyAlways(hash, confirmed, token) ==
  CASE token = hash -> "ok"
    [] token # hash /\ token = Shared -> "issue"
    [] OTHER -> "reject"

\* Hashes are compared; tokens are never "".
classifyFleetAuth(hash, confirmed, token) ==
  CASE token = hash -> "ok"
    [] token # hash /\ token = Shared /\ (hash = NoKey \/ ~confirmed) -> "issue"
    [] OTHER -> "reject"

StoredHash(d)      == IF dev[d] = NoRow THEN NoKey ELSE dev[d].hash
StoredConfirmed(d) == dev[d] # NoRow /\ dev[d].confirmed

\* FleetDeviceKeyState, then the classification: 401 ends the request.
ReadKeyState(q) ==
  LET action == classifyFleetAuth(StoredHash(Owner(q)), StoredConfirmed(Owner(q)), req[q].token)
  IN /\ At(q, "read")
     /\ IF action = "reject" THEN Goto(q, "sent") /\ Unlock
        ELSE /\ Goto(q, IF action = "ok" THEN "record_ok" ELSE "record_issue")
             /\ UNCHANGED mu
     /\ UNCHANGED <<enabled, dev, held, waiting>>

\* UpsertFleetHeartbeat leaves the key columns of a row that exists alone.
Upserted(old, status, seen) ==
  [IF old = NoRow THEN NewRow ELSE old EXCEPT !.status = status, !.seen = seen]

UpsertFleetHeartbeat(q) ==
  /\ req[q].pc \in {"record_ok", "record_issue"}
  /\ dev' = [dev EXCEPT ![Owner(q)] = Upserted(@, "online", "fresh")]
  /\ Goto(q, IF At(q, "record_ok") THEN "confirm" ELSE "issue")
  /\ UNCHANGED <<enabled, mu, held, waiting>>

\* newFleetKey: 32 random bytes, a key that is nowhere to be found.
InUse == {StoredHash(d) : d \in Devices} \cup {held[d] : d \in Devices}
         \cup {req[p].token : p \in Requests} \cup {req[p].key : p \in Requests}

\* newFleetKey and SetFleetDeviceKey; the answer carries the key.  Without a row to
\* update no key is handed out.
IssueKey(q, k) ==
  /\ At(q, "issue")
  /\ k \in Keys \ InUse
  /\ dev[Owner(q)] # NoRow
  /\ dev' = [dev EXCEPT ![Owner(q)].hash = k, ![Owner(q)].confirmed = FALSE]
  /\ req' = [req EXCEPT ![q].pc = "sent", ![q].key = k]
  /\ Unlock
  /\ UNCHANGED <<enabled, held, waiting>>

\* ConfirmFleetDeviceKey; its error is only reported.
Confirm(q) ==
  /\ At(q, "confirm")
  /\ \/ dev[Owner(q)] # NoRow /\ dev' = [dev EXCEPT ![Owner(q)].confirmed = TRUE]
     \/ UNCHANGED dev
  /\ Goto(q, "sent")
  /\ Unlock
  /\ UNCHANGED <<enabled, held, waiting>>

\* A statement fails before anything was written by it: 500.
StoreFails(q) ==
  /\ req[q].pc \in {"read", "record_ok", "record_issue", "issue"}
  /\ Goto(q, "sent")
  /\ Unlock
  /\ UNCHANGED <<enabled, dev, held, waiting>>

----------------------------------------------------------------------------
(* The other writers of fleet_devices.                                     *)

\* SweepStaleFleetDevices, first statement: the silent go offline.
SweepOffline ==
  /\ mu = Nobody
  /\ mu' = Sweeper
  /\ dev' = [d \in Devices |->
       IF dev[d] # NoRow /\ dev[d].seen \in {"silent", "dead"}
       THEN [dev[d] EXCEPT !.status = "offline"] ELSE dev[d]]
  /\ UNCHANGED <<enabled, req, held, waiting>>

\* Mutant: the second statement runs without the lock.
SweepReapUnlocked ==
  /\ mu' = IF mu = Sweeper THEN Nobody ELSE mu
  /\ dev' = [d \in Devices |->
       IF dev[d] # NoRow /\ dev[d].status = "offline" /\ dev[d].seen = "dead"
       THEN NoRow ELSE dev[d]]
  /\ UNCHANGED <<enabled, req, held, waiting>>

\* Second statement: the offline and long silent are deleted, or it fails.
SweepReap ==
  /\ mu = Sweeper
  /\ Unlock
  /\ \/ dev' = [d \in Devices |->
          IF dev[d] # NoRow /\ dev[d].status = "offline" /\ dev[d].seen = "dead"
          THEN NoRow ELSE dev[d]]
     \/ UNCHANGED dev
  /\ UNCHANGED <<enabled, req, held, waiting>>

\* RemoveFleetDevice, under the lock.
RemoveFleetDevice(d) ==
  /\ mu = Nobody
  /\ dev[d] # NoRow
  /\ dev' = [dev EXCEPT ![d] = NoRow]
  /\ UNCHANGED <<enabled, mu, req, held, waiting>>

\* AddFleetDevice does not take the lock; it keeps the key columns too.
AddFleetDevice(d) ==
  /\ dev' = [dev EXCEPT ![d] = Upserted(@, "offline", "never")]
  /\ UNCHANGED <<enabled, mu, req, held, waiting>>

\* SaveSettings turns the hub on or off.
ToggleHub ==
  /\ enabled' = ~enabled
  /\ UNCHANGED <<dev, mu, req, held, waiting>>

\* Time passes without a heartbeat of d.
Silence(d) ==
  /\ dev[d] # NoRow
  /\ \/ dev[d].seen = "fresh" /\ dev' = [dev EXCEPT ![d].seen = "silent"]
     \/ dev[d].seen = "silent" /\ dev' = [dev EXCEPT ![d].seen = "dead"]
  /\ UNCHANGED <<enabled, mu, req, held, waiting>>

----------------------------------------------------------------------------
Handle(q) ==
  \/ Refuse(q) \/ Admit(q) \/ Lock(q) \/ ReadKeyState(q) \/ UpsertFleetHeartbeat(q)
  \/ Confirm(q) \/ StoreFails(q) \/ \E k \in Keys : IssueKey(q, k)

Network(q) == Deliver(q) \/ Lose(q)

Client(d) == GiveUp(d) \/ \E q \in Requests : Beat(d, q)

Fleet ==
  \/ SweepOffline \/ SweepReap \/ ToggleHub
  \/ \E d \in Devices : RemoveFleetDevice(d) \/ AddFleetDevice(d) \/ Silence(d)

Next ==
  \/ \E q \in Requests : Handle(q) \/ Network(q)
  \/ \E d \in Devices : Client(d)
  \/ Fleet

Spec == Init /\ [][Next]_vars

----------------------------------------------------------------------------
(* Properties.                                                             *)

InLock == {"read", "record_ok", "record_issue", "issue", "confirm"}
Handlers == [pc : InLock \cup {"idle", "arrived", "queued", "sent"}, d : Devices,
             token : Tokens, key : MaybeKey]

\* The types of the table, the lock, the handlers and the clients.
TypeOK ==
  /\ enabled \in BOOLEAN
  /\ dev \in [Devices -> Rows \cup {NoRow}]
  /\ mu \in Requests \cup {Nobody, Sweeper}
  /\ req \in [Requests -> Handlers]
  /\ held \in [Devices -> MaybeKey]
  /\ waiting \in [Devices -> Requests \cup {Nobody}]

\* A key is confirmed only when the device's client holds that very key.  From
\* then on the shared key is refused for it, so a client confirmed on any other
\* key would be shut out for good.
ConfirmedKeyIsHeld ==
  \A d \in Devices : StoredConfirmed(d) => held[d] = dev[d].hash /\ held[d] # NoKey

\* As long as its row is there, a confirmed device's key is neither replaced nor
\* set back to unconfirmed, however many heartbeats are under way.
ConfirmedKeyIsKept ==
  [][\A d \in Devices : StoredConfirmed(d) /\ dev'[d] # NoRow
        => dev'[d].hash = dev[d].hash /\ dev'[d].confirmed]_vars

\* What a heartbeat read of its device is still so when it acts on it: until it answers,
\* the stored key asks for the treatment it settled on, and once it has recorded the
\* device the row stays, whatever the sweep, a removal, an addition by hand (which takes
\* no lock) and other heartbeats do meanwhile.
ActsOnWhatItRead ==
  \A q \in Requests :
    LET action == classifyFleetAuth(StoredHash(Owner(q)), StoredConfirmed(Owner(q)), req[q].token)
    IN /\ req[q].pc \in {"record_ok", "confirm"} => action = "ok"
       /\ req[q].pc \in {"record_issue", "issue"} => action = "issue"
       /\ req[q].pc \in {"confirm", "issue"} => dev[Owner(q)] # NoRow

\* A client that holds a key holds the one the table has for it, as long as its row
\* is there.
HeldKeyIsStored ==
  \A d \in Devices : held[d] # NoKey /\ dev[d] # NoRow => StoredHash(d) = held[d]

\* A device that is up gets in touch and ends up with a confirmed key, whatever
\* answers are lost and whatever statements fail on the way.
DeviceGetsConfirmed == \A d \in Devices : <>StoredConfirmed(d)
=============================================================================
