---------------------------- MODULE WorkersProofs ----------------------------
(***************************************************************************)
(* Proofs about FleetKeys and DataMounts, for any number of devices,       *)
(* requests, overlapping calls, containers put under a name by hand and    *)
(* updates of the app; about Readings, for any samplers, checks, clock and *)
(* log; and about ActivityRound, for any machine and number of faults.     *)
(***************************************************************************)
EXTENDS FleetKeys, DataMounts, Readings, ActivityRound, TLAPS, FiniteSetTheorems

------------------------------------------------------------------------------
(* FleetKeys: why a confirmed key is the one its client holds.  The lock     *)
(* orders the statements of the handlers, and a client presents its own key  *)
(* from the moment it has one, so no request of its can be given a second.   *)

\* The lock is held exactly by the handler that is between its Lock and Unlock.
LockedOut == \A q \in Requests : req[q].pc \in InLock <=> mu = q

\* Every request under way presents the shared key, or the key its client holds.
TokenIsOwn == \A q \in Requests : req[q].token # Shared => req[q].token = held[Owner(q)]

\* Only a request that presented the shared key is answered with a key.
KeyForShared ==
  \A q \in Requests :
    /\ req[q].pc \in {"record_issue", "issue"} => req[q].token = Shared
    /\ req[q].key # NoKey => req[q].token = Shared

\* The request a client awaits is its own, and presents what it would still present.
AwaitsOwn ==
  \A d \in Devices : waiting[d] # Nobody =>
    /\ req[waiting[d]].pc # "idle"
    /\ Owner(waiting[d]) = d
    /\ req[waiting[d]].token = AuthToken(d)

\* What a handler read under the lock still holds when it acts on it.
ClassifiedRight ==
  \A q \in Requests :
    /\ req[q].pc \in {"record_ok", "confirm"} =>
         dev[Owner(q)] # NoRow /\ dev[Owner(q)].hash = req[q].token
    /\ req[q].pc \in {"record_issue", "issue"} => ~StoredConfirmed(Owner(q))
    /\ req[q].pc = "issue" => dev[Owner(q)] # NoRow

KeyInv ==
  /\ TypeOK
  /\ LockedOut
  /\ TokenIsOwn
  /\ KeyForShared
  /\ AwaitsOwn
  /\ ClassifiedRight
  /\ ConfirmedKeyIsHeld

----------------------------------------------------------------------------
(* Types.                                                                  *)

\* What the table keeps stays a row, whoever writes it.
LEMMA UpsertedIsRow ==
  ASSUME NEW old \in Rows \cup {NoRow}, NEW status \in {"online", "offline"},
         NEW seen \in {"never", "fresh", "silent", "dead"}
  PROVE  /\ Upserted(old, status, seen) \in Rows
         /\ Upserted(old, status, seen).hash = IF old = NoRow THEN NoKey ELSE old.hash
         /\ Upserted(old, status, seen).confirmed = IF old = NoRow THEN FALSE ELSE old.confirmed
  BY DEF Upserted, NewRow, Rows, MaybeKey

\* An idle handler is a handler.
LEMMA IdleIsHandler == Idle \in Handlers /\ AnyDevice \in Devices
  BY DeviceAssumption DEF Idle, AnyDevice, Handlers, Tokens, MaybeKey

\* The types hold at the start.
LEMMA TypeInit == Init => TypeOK
  BY IdleIsHandler DEF Init, TypeOK, MaybeKey

\* Every action keeps the types of what it writes.
LEMMA TypeStep == TypeOK /\ [Next]_vars => TypeOK'
<1> SUFFICES ASSUME TypeOK, [Next]_vars PROVE TypeOK'
  OBVIOUS
<1> USE DEF TypeOK, Handlers, InLock
<1>1. ASSUME NEW q \in Requests, Handle(q) PROVE TypeOK'
  <2>1. CASE Refuse(q) BY <2>1 DEF Refuse, At, Goto
  <2>2. CASE Admit(q) BY <2>2 DEF Admit, At, Goto
  <2>3. CASE Lock(q) BY <2>3 DEF Lock, At, Goto
  <2>4. CASE ReadKeyState(q) BY <2>4 DEF ReadKeyState, At, Goto, Unlock
  <2>5. CASE UpsertFleetHeartbeat(q)
    <3>1. Upserted(dev[Owner(q)], "online", "fresh") \in Rows
      BY UpsertedIsRow DEF Owner
    <3> QED BY <2>5, <3>1 DEF UpsertFleetHeartbeat, At, Goto, Owner
  <2>6. CASE Confirm(q)
    <3>1. dev[Owner(q)] # NoRow => [dev[Owner(q)] EXCEPT !.confirmed = TRUE] \in Rows
      BY DEF Rows, Owner
    <3>2. dev' \in [Devices -> Rows \cup {NoRow}]
      BY <2>6, <3>1 DEF Confirm, Owner
    <3>3. req' \in [Requests -> Handlers]
      BY ZenonT(60), <2>6 DEF Confirm, Goto
    <3> QED BY <2>6, <3>2, <3>3 DEF Confirm, Unlock
  <2>7. CASE StoreFails(q) BY <2>7 DEF StoreFails, Goto, Unlock
  <2>8. ASSUME NEW k \in Keys, IssueKey(q, k) PROVE TypeOK'
    <3>1. [dev[Owner(q)] EXCEPT !.hash = k, !.confirmed = FALSE] \in Rows
      BY <2>8 DEF Rows, Owner, MaybeKey, IssueKey
    <3>2. dev' = [dev EXCEPT ![Owner(q)] = [dev[Owner(q)] EXCEPT !.hash = k, !.confirmed = FALSE]]
      BY <2>8 DEF IssueKey, Owner
    <3>3. dev' \in [Devices -> Rows \cup {NoRow}]
      BY <3>1, <3>2 DEF Owner
    <3>4. req' = [req EXCEPT ![q].pc = "sent", ![q].key = k] /\ k \in MaybeKey
      BY <2>8 DEF IssueKey, MaybeKey
    <3>5. req' \in [Requests -> Handlers]
      BY ZenonT(60), <3>4
    <3> QED BY <2>8, <3>3, <3>5 DEF IssueKey, Unlock
  <2> QED BY <1>1, <2>1, <2>2, <2>3, <2>4, <2>5, <2>6, <2>7, <2>8 DEF Handle
<1>2. ASSUME NEW q \in Requests, Network(q) PROVE TypeOK'
  <2>1. Idle \in Handlers BY IdleIsHandler
  <2>2. CASE Deliver(q) BY <2>1, <2>2 DEF Deliver, At, Answered, Owner, KeyToPersist
  <2>3. CASE Lose(q) BY <2>1, <2>3 DEF Lose, At, Answered, Owner
  <2> QED BY <1>2, <2>2, <2>3 DEF Network
<1>3. ASSUME NEW d \in Devices, Client(d) PROVE TypeOK'
  <2>1. CASE GiveUp(d) BY <2>1 DEF GiveUp
  <2>2. ASSUME NEW q \in Requests, Beat(d, q) PROVE TypeOK'
    <3>1. AuthToken(d) \in Tokens BY DEF AuthToken, Tokens, MaybeKey
    <3> QED BY <2>2, <3>1 DEF Beat, At, MaybeKey
  <2> QED BY <1>3, <2>1, <2>2 DEF Client
<1>4. CASE Fleet
  <2>1. CASE SweepOffline BY <2>1 DEF SweepOffline, Rows
  <2>2. CASE SweepReap BY <2>2 DEF SweepReap, Unlock
  <2>3. CASE ToggleHub BY <2>3 DEF ToggleHub
  <2>4. ASSUME NEW d \in Devices, RemoveFleetDevice(d) PROVE TypeOK'
    BY <2>4 DEF RemoveFleetDevice
  <2>5. ASSUME NEW d \in Devices, AddFleetDevice(d) PROVE TypeOK'
    <3>1. Upserted(dev[d], "offline", "never") \in Rows
      BY UpsertedIsRow
    <3> QED BY <2>5, <3>1 DEF AddFleetDevice
  <2>6. ASSUME NEW d \in Devices, Silence(d) PROVE TypeOK'
    BY <2>6 DEF Silence, Rows
  <2> QED BY <1>4, <2>1, <2>2, <2>3, <2>4, <2>5, <2>6 DEF Fleet
<1>5. CASE UNCHANGED vars BY <1>5 DEF vars
<1> QED BY <1>1, <1>2, <1>3, <1>4, <1>5 DEF Next

\* The table, the lock, the handlers and the clients keep their types.
THEOREM TypeCorrect == Spec => []TypeOK
<1>1. Init => TypeOK BY TypeInit
<1>2. TypeOK /\ [Next]_vars => TypeOK' BY TypeStep
<1> QED BY <1>1, <1>2, PTL DEF Spec

----------------------------------------------------------------------------
(* The keys.                                                               *)

\* An idle handler carries nothing.
LEMMA IdleCarriesNothing == Idle.pc = "idle" /\ Idle.token = Shared /\ Idle.key = NoKey
  BY DEF Idle

\* At the start nobody holds anything.
LEMMA KeyInit == Init => KeyInv
<1> SUFFICES ASSUME Init PROVE KeyInv
  OBVIOUS
<1>1. TypeOK BY TypeInit
<1> QED BY <1>1, IdleCarriesNothing, HolderAssumption
      DEF Init, KeyInv, LockedOut, TokenIsOwn, KeyForShared, AwaitsOwn, ClassifiedRight,
          ConfirmedKeyIsHeld, StoredConfirmed, InLock

\* Moving a handler along changes nothing about who presents what.
LEMMA PcStep ==
  ASSUME TypeOK, TokenIsOwn, AwaitsOwn, NEW q \in Requests, NEW x, x # "idle", req' = [req EXCEPT ![q].pc = x], UNCHANGED <<held, waiting>>
  PROVE  TokenIsOwn' /\ AwaitsOwn'
<1> USE DEF TypeOK, Handlers
<1>1. \A p \in Requests : req'[p].token = req[p].token /\ req'[p].d = req[p].d
  OBVIOUS
<1>2. \A p \in Requests : req'[p].pc = "idle" => req[p].pc = "idle"
  OBVIOUS
<1> QED BY <1>1, <1>2 DEF TokenIsOwn, AwaitsOwn, Owner, AuthToken

\* A handler's step keeps the invariant: it acts on what it read under the lock.
LEMMA HandleStep ==
  ASSUME KeyInv, TypeOK', NEW q \in Requests, Handle(q)
  PROVE  KeyInv'
<1> USE DEF TypeOK, Handlers, InLock, KeyInv
<1> USE KeyAssumption, HolderAssumption
<1>1. CASE Refuse(q)
  BY <1>1 DEF Refuse, At, Goto, Owner, AuthToken, LockedOut, TokenIsOwn, KeyForShared, AwaitsOwn, ClassifiedRight, ConfirmedKeyIsHeld, StoredConfirmed
<1>2. CASE Admit(q)
  BY <1>2 DEF Admit, At, Goto, Owner, AuthToken, LockedOut, TokenIsOwn, KeyForShared, AwaitsOwn, ClassifiedRight, ConfirmedKeyIsHeld, StoredConfirmed
<1>3. CASE Lock(q)
  BY <1>3 DEF Lock, At, Goto, Owner, AuthToken, LockedOut, TokenIsOwn, KeyForShared, AwaitsOwn, ClassifiedRight, ConfirmedKeyIsHeld, StoredConfirmed
<1>4. CASE StoreFails(q)
  BY <1>4 DEF StoreFails, Goto, Unlock, Owner, AuthToken, LockedOut, TokenIsOwn, KeyForShared, AwaitsOwn, ClassifiedRight, ConfirmedKeyIsHeld, StoredConfirmed
<1>5. CASE ReadKeyState(q)
  <2> DEFINE action == classifyFleetAuth(StoredHash(Owner(q)), StoredConfirmed(Owner(q)), req[q].token)
  <2>1. /\ action = "ok" => dev[Owner(q)] # NoRow /\ dev[Owner(q)].hash = req[q].token
        /\ action = "issue" => req[q].token = Shared /\ ~StoredConfirmed(Owner(q))
        /\ action \in {"ok", "issue", "reject"}
    <3>1. StoredHash(Owner(q)) \in MaybeKey /\ req[q].token \in Tokens
      BY DEF StoredHash, Owner, Rows, MaybeKey
    <3>2. CASE req[q].token = StoredHash(Owner(q))
      <4>1. action = "ok" BY <3>2 DEF classifyFleetAuth
      <4>2. StoredHash(Owner(q)) # NoKey BY <3>1, <3>2
      <4> QED BY <3>2, <4>1, <4>2 DEF StoredHash
    <3>3. CASE req[q].token # StoredHash(Owner(q))
      <4>1. \/ action = "issue" /\ req[q].token = Shared
                              /\ (StoredHash(Owner(q)) = NoKey \/ ~StoredConfirmed(Owner(q)))
            \/ action = "reject"
        BY <3>3 DEF classifyFleetAuth
      <4>2. StoredHash(Owner(q)) = NoKey => ~StoredConfirmed(Owner(q))
        BY DEF StoredHash, StoredConfirmed, ConfirmedKeyIsHeld, Owner
      <4> QED BY <4>1, <4>2
    <3> QED BY <3>2, <3>3
  <2> HIDE DEF action
  <2>2. /\ req[q].pc = "read"
        /\ UNCHANGED <<enabled, dev, held, waiting>>
        /\ \/ action = "reject" /\ req' = [req EXCEPT ![q].pc = "sent"] /\ mu' = Nobody
           \/ action = "ok" /\ req' = [req EXCEPT ![q].pc = "record_ok"] /\ mu' = mu
           \/ action = "issue" /\ req' = [req EXCEPT ![q].pc = "record_issue"] /\ mu' = mu
    BY <1>5, <2>1 DEF ReadKeyState, At, Goto, Unlock, action
  <2>3. PICK x \in {"sent", "record_ok", "record_issue"} : req' = [req EXCEPT ![q].pc = x]
    BY <2>2
  <2>4. LockedOut' BY <2>2 DEF LockedOut
  <2>5. TokenIsOwn' /\ AwaitsOwn'
    BY <2>2, <2>3, PcStep DEF KeyInv
  <2>6. KeyForShared' BY <2>1, <2>2 DEF KeyForShared, Owner
  <2>7. ClassifiedRight' BY <2>1, <2>2 DEF ClassifiedRight, Owner, StoredConfirmed
  <2>8. ConfirmedKeyIsHeld' BY <2>2 DEF ConfirmedKeyIsHeld, StoredConfirmed
  <2> QED BY <2>4, <2>5, <2>6, <2>7, <2>8
<1>6. CASE UpsertFleetHeartbeat(q)
  <2> DEFINE old == dev[Owner(q)]
             new == Upserted(dev[Owner(q)], "online", "fresh")
  <2>1. Owner(q) \in Devices /\ old \in Rows \cup {NoRow}
    BY DEF Owner
  <2>2. /\ new \in Rows
        /\ new.hash = IF old = NoRow THEN NoKey ELSE old.hash
        /\ new.confirmed = IF old = NoRow THEN FALSE ELSE old.confirmed
    BY <2>1, UpsertedIsRow
  <2>3. dev' = [dev EXCEPT ![Owner(q)] = new]
    BY <1>6 DEF UpsertFleetHeartbeat
  <2> HIDE DEF new
  <2>4. \A d \in Devices : StoredConfirmed(d)' <=> StoredConfirmed(d)
    BY <2>1, <2>2, <2>3, FleetRowAssumption DEF StoredConfirmed
  <2>5. \A d \in Devices : dev[d] # NoRow => dev'[d] # NoRow /\ dev'[d].hash = dev[d].hash
    BY <2>1, <2>2, <2>3, FleetRowAssumption
  <2>6. /\ UNCHANGED <<enabled, mu, held, waiting>>
        /\ \/ req[q].pc = "record_ok" /\ req' = [req EXCEPT ![q].pc = "confirm"]
           \/ req[q].pc = "record_issue" /\ req' = [req EXCEPT ![q].pc = "issue"]
    BY <1>6 DEF UpsertFleetHeartbeat, At, Goto
  <2>7. ConfirmedKeyIsHeld'
    BY <2>4, <2>5, <2>6 DEF ConfirmedKeyIsHeld, StoredConfirmed
  <2>8. ClassifiedRight'
    <3>1. dev'[Owner(q)] # NoRow BY <2>1, <2>2, <2>3, FleetRowAssumption
    <3> QED BY <2>1, <2>4, <2>5, <2>6, <3>1 DEF ClassifiedRight, Owner
  <2>9. PICK x \in {"confirm", "issue"} : req' = [req EXCEPT ![q].pc = x]
    BY <2>6
  <2>10. TokenIsOwn' /\ AwaitsOwn'
    BY <2>6, <2>9, PcStep
  <2>11. LockedOut' BY <2>6 DEF LockedOut
  <2>12. KeyForShared' BY <2>6 DEF KeyForShared
  <2> QED BY <2>7, <2>8, <2>10, <2>11, <2>12
<1>7. CASE Confirm(q)
  <2>1. /\ Owner(q) \in Devices
        /\ req[q].pc = "confirm"
        /\ dev[Owner(q)] # NoRow /\ dev[Owner(q)].hash = req[q].token
        /\ req[q].token = held[Owner(q)] /\ held[Owner(q)] # NoKey
    BY <1>7 DEF Confirm, At, ClassifiedRight, TokenIsOwn, Owner, Rows, MaybeKey, Tokens
  <2>2. /\ req' = [req EXCEPT ![q].pc = "sent"]
        /\ mu' = Nobody
        /\ UNCHANGED <<enabled, held, waiting>>
        /\ \/ dev' = dev
           \/ dev' = [dev EXCEPT ![Owner(q)].confirmed = TRUE]
    BY <1>7 DEF Confirm, Goto, Unlock
  <2>3. /\ mu = q
        /\ \A p \in Requests \ {q} : req[p].pc \notin InLock
    BY <2>1 DEF LockedOut
  <2>4. \A d \in Devices : d # Owner(q) => dev'[d] = dev[d]
    BY <2>1, <2>2
  <2>5. dev'[Owner(q)] # NoRow /\ dev'[Owner(q)].hash = dev[Owner(q)].hash
    <3>1. dev[Owner(q)] \in Rows BY <2>1
    <3>2. [dev[Owner(q)] EXCEPT !.confirmed = TRUE] \in Rows BY <3>1 DEF Rows
    <3>3. [dev[Owner(q)] EXCEPT !.confirmed = TRUE].hash = dev[Owner(q)].hash BY <3>1 DEF Rows
    <3> QED BY <2>1, <2>2, <3>2, <3>3, FleetRowAssumption
  <2>6. ConfirmedKeyIsHeld'
    BY <2>1, <2>2, <2>4, <2>5 DEF ConfirmedKeyIsHeld, StoredConfirmed
  <2>7. LockedOut' /\ ClassifiedRight'
    BY <2>1, <2>2, <2>3 DEF LockedOut, ClassifiedRight
  <2>8. TokenIsOwn' /\ AwaitsOwn'
    BY <2>2, PcStep
  <2>9. KeyForShared' BY <2>2 DEF KeyForShared
  <2> QED BY <2>6, <2>7, <2>8, <2>9
<1>8. ASSUME NEW k \in Keys, IssueKey(q, k) PROVE KeyInv'
  <2>1. /\ Owner(q) \in Devices
        /\ req[q].pc = "issue" /\ req[q].token = Shared
        /\ dev[Owner(q)] # NoRow /\ ~StoredConfirmed(Owner(q))
    BY <1>8 DEF IssueKey, At, ClassifiedRight, KeyForShared, Owner
  <2>2. /\ req' = [req EXCEPT ![q].pc = "sent", ![q].key = k]
        /\ mu' = Nobody
        /\ UNCHANGED <<enabled, held, waiting>>
        /\ dev' = [dev EXCEPT ![Owner(q)].hash = k, ![Owner(q)].confirmed = FALSE]
    BY <1>8 DEF IssueKey, Unlock
  <2>3. /\ mu = q
        /\ \A p \in Requests \ {q} : req[p].pc \notin InLock
    BY <2>1 DEF LockedOut
  <2>4. \A d \in Devices : d # Owner(q) => dev'[d] = dev[d]
    BY <2>1, <2>2
  <2>5. ~StoredConfirmed(Owner(q))'
    <3>1. dev[Owner(q)] \in Rows BY <2>1
    <3> QED BY <2>1, <2>2, <3>1 DEF StoredConfirmed, Rows, Owner
  <2>6. ConfirmedKeyIsHeld'
    <3> SUFFICES ASSUME NEW d \in Devices, StoredConfirmed(d)'
                 PROVE  held'[d] = dev'[d].hash /\ held'[d] # NoKey
      BY DEF ConfirmedKeyIsHeld
    <3>1. Owner(q)' = Owner(q) BY <2>2 DEF Owner
    <3>2. d # Owner(q) BY <2>5, <3>1 DEF StoredConfirmed
    <3> QED BY <2>2, <2>4, <3>2 DEF ConfirmedKeyIsHeld, StoredConfirmed
  <2>7. LockedOut' /\ ClassifiedRight'
    BY <2>2, <2>3 DEF LockedOut, ClassifiedRight
  <2>8. \A p \in Requests : /\ req'[p].token = req[p].token /\ req'[p].d = req[p].d
                           /\ req'[p].pc = "idle" => req[p].pc = "idle"
    BY <2>2
  <2>9. TokenIsOwn' /\ AwaitsOwn'
    BY <2>2, <2>8 DEF TokenIsOwn, AwaitsOwn, Owner, AuthToken
  <2>10. KeyForShared' BY <2>1, <2>2 DEF KeyForShared
  <2> QED BY <2>6, <2>7, <2>9, <2>10
<1> QED BY <1>1, <1>2, <1>3, <1>4, <1>5, <1>6, <1>7, <1>8 DEF Handle

\* An answer changes what a client holds only when it held nothing: a key comes
\* back only to a request that presented the shared key.
LEMMA NetworkStep ==
  ASSUME KeyInv, TypeOK', NEW q \in Requests, Network(q)
  PROVE  KeyInv'
<1> USE DEF TypeOK, Handlers, InLock, KeyInv
<1> USE KeyAssumption, HolderAssumption, IdleCarriesNothing
<1>1. /\ req[q].pc = "sent"
      /\ req' = [req EXCEPT ![q] = Idle]
      /\ UNCHANGED <<enabled, dev, mu>>
      /\ waiting' = [waiting EXCEPT ![Owner(q)] = IF @ = q THEN Nobody ELSE @]
      /\ Owner(q) \in Devices
  BY DEF Network, Deliver, Lose, At, Answered, Owner
<1>2. \A d \in Devices : held[d] # NoKey => held'[d] = held[d]
  <2>1. CASE Lose(q) BY <2>1 DEF Lose
  <2>2. CASE Deliver(q)
    <3>1. CASE waiting[Owner(q)] = q /\ req[q].key # NoKey
      <4>1. req[q].token = Shared /\ req[q].token = AuthToken(Owner(q))
        BY <1>1, <3>1 DEF KeyForShared, AwaitsOwn
      <4>2. held[Owner(q)] = NoKey
        BY <1>1, <4>1 DEF AuthToken, MaybeKey
      <4> QED BY <2>2, <4>2 DEF Deliver
    <3>2. CASE ~(waiting[Owner(q)] = q /\ req[q].key # NoKey)
      BY <2>2, <3>2 DEF Deliver, KeyToPersist
    <3> QED BY <3>1, <3>2
  <2> QED BY <2>1, <2>2 DEF Network
<1>3. \A d \in Devices : held'[d] # held[d] => waiting[d] = q
  BY <1>1 DEF Network, Deliver, Lose, KeyToPersist
<1>4. ConfirmedKeyIsHeld'
  BY <1>1, <1>2 DEF ConfirmedKeyIsHeld, StoredConfirmed
<1>5. TokenIsOwn'
  <2> SUFFICES ASSUME NEW p \in Requests, req'[p].token # Shared
               PROVE  req'[p].token = held'[req'[p].d]
    BY DEF TokenIsOwn, Owner
  <2>1. p # q /\ req'[p] = req[p] BY <1>1
  <2>2. req[p].token = held[req[p].d] BY <2>1 DEF TokenIsOwn, Owner
  <2>3. held[req[p].d] # NoKey BY <2>2 DEF Tokens
  <2> QED BY <1>2, <2>1, <2>2, <2>3
<1>6. AwaitsOwn'
  <2> SUFFICES ASSUME NEW d \in Devices, waiting'[d] # Nobody
               PROVE  /\ req'[waiting'[d]].pc # "idle"
                      /\ req'[waiting'[d]].d = d
                      /\ req'[waiting'[d]].token = AuthToken(d)'
    BY DEF AwaitsOwn, Owner
  <2>1. waiting'[d] = waiting[d] BY <1>1
  <2>2. waiting[d] # q BY <1>1, <2>1 DEF AwaitsOwn
  <2>3. req'[waiting[d]] = req[waiting[d]] BY <1>1, <2>1, <2>2
  <2>4. held'[d] = held[d] BY <1>3, <2>2
  <2> QED BY <2>1, <2>3, <2>4 DEF AwaitsOwn, AuthToken, Owner
<1>7. LockedOut' /\ KeyForShared' /\ ClassifiedRight'
  BY <1>1 DEF LockedOut, KeyForShared, ClassifiedRight, Owner, StoredConfirmed
<1> QED BY <1>4, <1>5, <1>6, <1>7

\* A client's own steps: it waits for nothing, or for a request it has just made.
LEMMA ClientStep ==
  ASSUME KeyInv, TypeOK', NEW d \in Devices, Client(d)
  PROVE  KeyInv'
<1> USE DEF TypeOK, Handlers, InLock, KeyInv
<1> USE KeyAssumption, HolderAssumption
<1>1. CASE GiveUp(d)
  BY <1>1 DEF GiveUp, LockedOut, TokenIsOwn, KeyForShared, AwaitsOwn, ClassifiedRight,
              ConfirmedKeyIsHeld, Owner, AuthToken, StoredConfirmed
<1>2. ASSUME NEW q \in Requests, Beat(d, q) PROVE KeyInv'
  <2>1. /\ req[q].pc = "idle"
        /\ req' = [req EXCEPT ![q] = [pc |-> "arrived", d |-> d, token |-> AuthToken(d), key |-> NoKey]]
        /\ waiting[d] = Nobody
        /\ waiting' = [waiting EXCEPT ![d] = q]
        /\ UNCHANGED <<enabled, dev, mu, held>>
    BY <1>2 DEF Beat, At
  <2>2. TokenIsOwn'
    BY <2>1 DEF TokenIsOwn, Owner, AuthToken
  <2>3. AwaitsOwn'
    <3> SUFFICES ASSUME NEW e \in Devices, waiting'[e] # Nobody
                 PROVE  /\ req'[waiting'[e]].pc # "idle"
                        /\ req'[waiting'[e]].d = e
                        /\ req'[waiting'[e]].token = AuthToken(e)'
      BY DEF AwaitsOwn, Owner
    <3>1. AuthToken(e)' = AuthToken(e) BY <2>1 DEF AuthToken
    <3>2. CASE e = d BY <2>1, <3>1, <3>2
    <3>3. CASE e # d
      <4>1. waiting'[e] = waiting[e] BY <2>1, <3>3
      <4>2. waiting[e] # q BY <2>1, <4>1 DEF AwaitsOwn
      <4> QED BY <2>1, <3>1, <4>1, <4>2 DEF AwaitsOwn, Owner
    <3> QED BY <3>2, <3>3
  <2>4. LockedOut' /\ KeyForShared' /\ ClassifiedRight' /\ ConfirmedKeyIsHeld'
    BY <2>1 DEF LockedOut, KeyForShared, ClassifiedRight, ConfirmedKeyIsHeld, Owner, StoredConfirmed
  <2> QED BY <2>2, <2>3, <2>4
<1> QED BY <1>1, <1>2 DEF Client

\* Whatever else writes the table either keeps the key columns of a row, or deletes
\* the row while no handler holds the lock.
LEMMA FleetStep ==
  ASSUME KeyInv, TypeOK', Fleet
  PROVE  KeyInv'
<1> USE DEF TypeOK, Handlers, InLock, KeyInv
<1> USE KeyAssumption, HolderAssumption
<1> DEFINE Keeps == \A d \in Devices :
             /\ dev[d] # NoRow => dev'[d] # NoRow /\ dev'[d].hash = dev[d].hash
             /\ StoredConfirmed(d)' <=> StoredConfirmed(d)
           Drops == /\ mu \notin Requests
                    /\ \A d \in Devices : dev'[d] = dev[d] \/ dev'[d] = NoRow
<1>1. /\ UNCHANGED <<req, held, waiting>>
      /\ mu' = mu \/ (mu \notin Requests /\ mu' \notin Requests)
  BY DEF Fleet, SweepOffline, SweepReap, ToggleHub, RemoveFleetDevice, AddFleetDevice, Silence, Unlock
<1>2. Keeps \/ Drops
  <2>1. CASE SweepOffline
    <3>1. \A d \in Devices : dev[d] # NoRow =>
            /\ [dev[d] EXCEPT !.status = "offline"] \in Rows
            /\ [dev[d] EXCEPT !.status = "offline"].hash = dev[d].hash
            /\ [dev[d] EXCEPT !.status = "offline"].confirmed = dev[d].confirmed
      BY DEF Rows
    <3> QED BY <2>1, <3>1, FleetRowAssumption DEF SweepOffline, StoredConfirmed
  <2>2. CASE SweepReap BY <2>2 DEF SweepReap
  <2>3. CASE ToggleHub BY <2>3 DEF ToggleHub, StoredConfirmed
  <2>4. ASSUME NEW d \in Devices, RemoveFleetDevice(d) PROVE Drops
    BY <2>4 DEF RemoveFleetDevice
  <2>5. ASSUME NEW d \in Devices, AddFleetDevice(d) PROVE Keeps
    <3> DEFINE new == Upserted(dev[d], "offline", "never")
    <3>1. /\ new \in Rows
          /\ new.hash = IF dev[d] = NoRow THEN NoKey ELSE dev[d].hash
          /\ new.confirmed = IF dev[d] = NoRow THEN FALSE ELSE dev[d].confirmed
      BY UpsertedIsRow
    <3>2. dev' = [dev EXCEPT ![d] = new] BY <2>5 DEF AddFleetDevice
    <3> HIDE DEF new
    <3> QED BY <3>1, <3>2, FleetRowAssumption DEF StoredConfirmed
  <2>6. ASSUME NEW d \in Devices, Silence(d) PROVE Keeps
    <3>1. PICK x \in {"silent", "dead"} : dev' = [dev EXCEPT ![d].seen = x]
      BY <2>6 DEF Silence
    <3>2. dev[d] \in Rows BY <2>6 DEF Silence
    <3>3. /\ [dev[d] EXCEPT !.seen = x] \in Rows
          /\ [dev[d] EXCEPT !.seen = x].hash = dev[d].hash
          /\ [dev[d] EXCEPT !.seen = x].confirmed = dev[d].confirmed
      BY <3>2 DEF Rows
    <3> QED BY <3>1, <3>2, <3>3, FleetRowAssumption DEF StoredConfirmed
  <2> QED BY <2>1, <2>2, <2>3, <2>4, <2>5, <2>6 DEF Fleet
<1>3. TokenIsOwn' /\ KeyForShared' /\ AwaitsOwn'
  BY <1>1 DEF TokenIsOwn, KeyForShared, AwaitsOwn, Owner, AuthToken
<1>4. LockedOut'
  BY <1>1 DEF LockedOut
<1>5. CASE Keeps
  <2>1. ClassifiedRight' BY <1>1, <1>5 DEF ClassifiedRight, Owner
  <2>2. ConfirmedKeyIsHeld' BY <1>1, <1>5 DEF ConfirmedKeyIsHeld, StoredConfirmed
  <2> QED BY <1>3, <1>4, <2>1, <2>2
<1>6. CASE Drops
  <2>1. \A q \in Requests : req[q].pc \notin InLock BY <1>6 DEF LockedOut
  <2>2. ClassifiedRight' BY <1>1, <2>1 DEF ClassifiedRight
  <2>3. ConfirmedKeyIsHeld' BY <1>1, <1>6 DEF ConfirmedKeyIsHeld, StoredConfirmed
  <2> QED BY <1>3, <1>4, <2>2, <2>3
<1> QED BY <1>2, <1>5, <1>6

\* The invariant is inductive.
LEMMA KeyStep == KeyInv /\ [Next]_vars => KeyInv'
<1> SUFFICES ASSUME KeyInv, [Next]_vars PROVE KeyInv'
  OBVIOUS
<1>1. TypeOK' BY TypeStep DEF KeyInv
<1>2. CASE UNCHANGED vars
  BY <1>2 DEF vars, KeyInv, TypeOK, LockedOut, TokenIsOwn, KeyForShared, AwaitsOwn,
              ClassifiedRight, ConfirmedKeyIsHeld, Owner, AuthToken, StoredConfirmed
<1>3. CASE Next
  BY <1>1, <1>3, HandleStep, NetworkStep, ClientStep, FleetStep DEF Next
<1> QED BY <1>2, <1>3

\* A key is confirmed only when the device's client holds that very key: no order
\* of retried heartbeats, lost answers, sweeps and removals leaves a client shut
\* out by a confirmed key it never received.
THEOREM ConfirmedSafe == Spec => []ConfirmedKeyIsHeld
<1>1. Init => KeyInv BY KeyInit
<1>2. KeyInv /\ [Next]_vars => KeyInv' BY KeyStep
<1>3. KeyInv => ConfirmedKeyIsHeld BY DEF KeyInv
<1> QED BY <1>1, <1>2, <1>3, PTL DEF Spec

KeepsConfirmed ==
  \A d \in Devices : StoredConfirmed(d) /\ dev'[d] # NoRow
     => dev'[d].hash = dev[d].hash /\ dev'[d].confirmed

\* Only IssueKey writes a hash or takes a confirmation back, and it runs under a lock
\* taken before the device was found unconfirmed.
LEMMA KeptStep == KeyInv /\ [Next]_vars => KeepsConfirmed
<1> SUFFICES ASSUME KeyInv, [Next]_vars, NEW d \in Devices, StoredConfirmed(d), dev'[d] # NoRow
             PROVE  dev'[d].hash = dev[d].hash /\ dev'[d].confirmed
  BY DEF KeepsConfirmed
<1> USE DEF KeyInv, TypeOK
<1>1. dev[d] \in Rows /\ dev[d].confirmed
  BY DEF StoredConfirmed
<1>2. CASE UNCHANGED dev BY <1>1, <1>2
<1>3. ASSUME NEW q \in Requests, Handle(q), dev' # dev
      PROVE  dev'[d].hash = dev[d].hash /\ dev'[d].confirmed
  <2>1. Owner(q) \in Devices BY DEF Owner, Handlers
  <2>2. CASE UpsertFleetHeartbeat(q)
    <3>1. /\ Upserted(dev[d], "online", "fresh").hash = dev[d].hash
          /\ Upserted(dev[d], "online", "fresh").confirmed = dev[d].confirmed
      BY <1>1, UpsertedIsRow, FleetRowAssumption
    <3>2. dev'[d] = dev[d] \/ dev'[d] = Upserted(dev[d], "online", "fresh")
      BY <2>1, <2>2 DEF UpsertFleetHeartbeat
    <3> QED BY <1>1, <3>1, <3>2
  <2>3. CASE Confirm(q)
    BY <1>1, <1>3, <2>1, <2>3 DEF Confirm, Rows
  <2>4. ASSUME NEW k \in Keys, IssueKey(q, k) PROVE dev'[d] = dev[d]
    <3>1. ~StoredConfirmed(Owner(q)) BY <2>4 DEF IssueKey, At, ClassifiedRight
    <3>2. Owner(q) # d BY <3>1
    <3> QED BY <2>1, <2>4, <3>2 DEF IssueKey
  <2> QED BY <1>1, <1>3, <2>2, <2>3, <2>4
        DEF Handle, Refuse, Admit, Lock, ReadKeyState, StoreFails
<1>4. ASSUME NEW q \in Requests, Network(q) PROVE UNCHANGED dev
  BY <1>4 DEF Network, Deliver, Lose
<1>5. ASSUME NEW e \in Devices, Client(e) PROVE UNCHANGED dev
  BY <1>5 DEF Client, GiveUp, Beat
<1>6. CASE Fleet
  <2>1. CASE SweepOffline BY <1>1, <2>1 DEF SweepOffline, Rows
  <2>2. CASE SweepReap BY <1>1, <2>2 DEF SweepReap
  <2>3. CASE ToggleHub BY <1>1, <2>3 DEF ToggleHub
  <2>4. ASSUME NEW e \in Devices, RemoveFleetDevice(e) PROVE dev'[d] = dev[d]
    BY <2>4 DEF RemoveFleetDevice
  <2>5. ASSUME NEW e \in Devices, AddFleetDevice(e)
        PROVE  dev'[d].hash = dev[d].hash /\ dev'[d].confirmed
    <3>1. /\ Upserted(dev[d], "offline", "never").hash = dev[d].hash
          /\ Upserted(dev[d], "offline", "never").confirmed = dev[d].confirmed
      BY <1>1, UpsertedIsRow, FleetRowAssumption
    <3>2. dev'[d] = dev[d] \/ dev'[d] = Upserted(dev[d], "offline", "never")
      BY <2>5 DEF AddFleetDevice
    <3> QED BY <1>1, <3>1, <3>2
  <2>6. ASSUME NEW e \in Devices, Silence(e)
        PROVE  dev'[d].hash = dev[d].hash /\ dev'[d].confirmed
    BY <1>1, <2>6 DEF Silence, Rows
  <2> QED BY <1>1, <1>6, <2>1, <2>2, <2>3, <2>4, <2>5, <2>6 DEF Fleet
<1> QED BY <1>2, <1>3, <1>4, <1>5, <1>6 DEF Next, vars

\* A confirmed device's key stays, whatever heartbeats of it are under way, until
\* its row is deleted.
THEOREM KeptSafe == Spec => ConfirmedKeyIsKept
<1>1. Init => KeyInv BY KeyInit
<1>2. KeyInv /\ [Next]_vars => KeyInv' BY KeyStep
<1>3. KeyInv /\ [Next]_vars => KeepsConfirmed BY KeptStep
<1>4. ConfirmedKeyIsKept <=> [][KeepsConfirmed]_vars
  BY DEF ConfirmedKeyIsKept, KeepsConfirmed
<1> QED BY <1>1, <1>2, <1>3, <1>4, PTL DEF Spec

\* The classification is the same function of a state that the lock keeps.
LEMMA ReadIsActedOn == KeyInv => ActsOnWhatItRead
<1> SUFFICES ASSUME KeyInv, NEW q \in Requests
             PROVE  LET action == classifyFleetAuth(StoredHash(Owner(q)), StoredConfirmed(Owner(q)), req[q].token)
                    IN /\ req[q].pc \in {"record_ok", "confirm"} => action = "ok"
                       /\ req[q].pc \in {"record_issue", "issue"} => action = "issue"
                       /\ req[q].pc \in {"confirm", "issue"} => dev[Owner(q)] # NoRow
  BY DEF ActsOnWhatItRead
<1> USE DEF KeyInv, TypeOK, Handlers
<1>1. Owner(q) \in Devices /\ dev[Owner(q)] \in Rows \cup {NoRow}
  BY DEF Owner
<1>2. StoredHash(Owner(q)) \in MaybeKey
  BY <1>1 DEF StoredHash, Rows, MaybeKey
<1>3. Shared \notin MaybeKey
  BY KeyAssumption DEF Tokens, MaybeKey
<1>4. CASE req[q].pc \in {"record_ok", "confirm"}
  <2>1. dev[Owner(q)] # NoRow /\ dev[Owner(q)].hash = req[q].token
    BY <1>4 DEF ClassifiedRight
  <2>2. req[q].token = StoredHash(Owner(q))
    BY <2>1 DEF StoredHash
  <2>. QED  BY <1>4, <2>1, <2>2 DEF classifyFleetAuth
<1>5. CASE req[q].pc \in {"record_issue", "issue"}
  <2>1. req[q].token = Shared /\ ~StoredConfirmed(Owner(q))
    BY <1>5 DEF ClassifiedRight, KeyForShared
  <2>2. req[q].token # StoredHash(Owner(q))
    BY <1>2, <1>3, <2>1
  <2>3. req[q].pc = "issue" => dev[Owner(q)] # NoRow
    BY DEF ClassifiedRight
  <2>. QED  BY <1>5, <2>1, <2>2, <2>3 DEF classifyFleetAuth
<1>. QED  BY <1>4, <1>5

\* A heartbeat acts on a key state that is still the one it read, and on a row that is
\* still there, for any number of devices, handlers and keys: every writer of the key
\* columns and every deletion takes the lock, and the one that does not keeps them.
THEOREM ReadSafe == Spec => []ActsOnWhatItRead
<1>1. Init => KeyInv BY KeyInit
<1>2. KeyInv /\ [Next]_vars => KeyInv' BY KeyStep
<1>3. KeyInv => ActsOnWhatItRead BY ReadIsActedOn
<1> QED BY <1>1, <1>2, <1>3, PTL DEF Spec

------------------------------------------------------------------------------
(* DataMounts: the data of a service stays where it is and goes by the       *)
(* owner's word (DataIsKept).                                                *)

\* What the catalog, the daemon and the form hand over: entries, containers, and paths that
\* are not empty (the form refuses to submit a required field that is).
Texts == {""} \cup Typed \cup UNION {{r.target, r.host} : r \in Releases}
              \cup UNION {{c.target, c.src, c.env} : c \in Hands}
Entries    == [target : Texts, host : Texts, ro : BOOLEAN, crit : BOOLEAN]
Containers == [there : BOOLEAN, mine : BOOLEAN, target : Texts, src : Texts, ro : BOOLEAN, env : Texts]
Inputs     == Releases \subseteq Entries /\ Hands \subseteq Containers /\ "" \notin Typed

Jobs == [pc : {"idle", "inspect", "replace", "create", "plan", "take", "volume"}, path : Texts,
         live : Containers, heir : BOOLEAN, delete : BOOLEAN, allow : BOOLEAN, vol : Texts,
         named : Texts, warned : BOOLEAN, crossed : BOOLEAN]

MountsTypeOK ==
  /\ listed \in Entries /\ path \in Texts /\ ctr \in Containers
  /\ data \in [Sources -> Nat] /\ ids \in Nat
  /\ jobs \in [Callers -> Jobs] /\ asked \in BOOLEAN

\* As long as the owner gave no other path, a container that carries the field carries what
\* is stored; a deploy whose entry has the field has a path, and one that inherits holds the
\* path of the container it replaced.
PathOf(p) ==
  /\ jobs[p].heir => Doing(p, "create")
  /\ jobs[p].pc \in {"inspect", "replace", "create"} /\ listed.host = Field => jobs[p].path # ""
  /\ Doing(p, "create") /\ jobs[p].heir =>
       jobs[p].live.there /\ (listed.host = Field => jobs[p].live.env \in {"", jobs[p].path})
PathInv ==
  /\ ~asked /\ ctr.there => ctr.env \in {"", path} \/ path = ""
  /\ \A p \in Callers : PathOf(p)

\* Until another container takes the name, what the dialog named and warned of is what the
\* removal finds, plans for and takes.
DialogOf(p) ==
  /\ Doing(p, "plan") /\ jobs[p].delete /\ ~jobs[p].crossed /\ ctr.there =>
       /\ jobs[p].named = Volume
       /\ Volume # "" /\ Critical(ctr.target) => jobs[p].warned
       /\ jobs[p].allow => jobs[p].warned
  /\ jobs[p].pc \in {"take", "volume"} /\ jobs[p].delete /\ ~jobs[p].crossed =>
       /\ jobs[p].named = jobs[p].vol
       /\ jobs[p].vol # "" /\ Critical(jobs[p].live.target) => jobs[p].warned
  /\ Doing(p, "volume") => jobs[p].delete
DialogInv == \A p \in Callers : DialogOf(p)

KeepInv == MountsTypeOK /\ PathInv /\ DialogInv

LEMMA TextsHold == "" \in Texts /\ Typed \subseteq Texts
  BY DEF Texts

\* A call that is not under way.
LEMMA IdleType ==
  /\ NoJob \in Jobs /\ NoJob.pc = "idle" /\ NoCtr \in Containers /\ ~NoCtr.there /\ NoEntry \in Entries
  /\ ~NoJob.heir /\ ~NoJob.delete /\ ~NoJob.crossed
<1>1. NoCtr \in Containers /\ ~NoCtr.there
  BY TextsHold DEF NoCtr, Containers
<1>2. NoEntry \in Entries
  BY TextsHold DEF NoEntry, Entries
<1>3. NoJob \in Jobs
  BY <1>1, TextsHold DEF NoJob, Jobs
<1>4. NoJob.pc = "idle" /\ ~NoJob.heir /\ ~NoJob.delete /\ ~NoJob.crossed
  BY DEF NoJob
<1> QED BY <1>1, <1>2, <1>3, <1>4

\* Only a container the name did not have crosses the calls under way: what else they hold stays.
LEMMA Crossing ==
  ASSUME MountsTypeOK, NEW q \in Callers, NEW b \in BOOLEAN
  PROVE  /\ [jobs[q] EXCEPT !.crossed = b] \in Jobs
         /\ [jobs[q] EXCEPT !.crossed = b].crossed = b
         /\ [jobs[q] EXCEPT !.crossed = b].pc = jobs[q].pc
         /\ [jobs[q] EXCEPT !.crossed = b].path = jobs[q].path
         /\ [jobs[q] EXCEPT !.crossed = b].live = jobs[q].live
         /\ [jobs[q] EXCEPT !.crossed = b].heir = jobs[q].heir
         /\ [jobs[q] EXCEPT !.crossed = b].delete = jobs[q].delete
  BY DEF MountsTypeOK, Jobs

\* The data a container finds or makes: nothing is lost.
LEMMA RunsKeeps ==
  ASSUME MountsTypeOK, NEW c \in Containers, Runs(c)
  PROVE  /\ ctr' = c /\ data' \in [Sources -> Nat] /\ ids' \in Nat
         /\ \A s \in Sources : data[s] # 0 => data'[s] # 0
<1>1. data \in [Sources -> Nat] /\ ids \in Nat
  BY DEF MountsTypeOK
<1>2. CASE data[c.src] = 0 /\ ~c.ro
  <2>1. ids' = ids + 1 /\ data' = [data EXCEPT ![c.src] = ids'] /\ ctr' = c
    BY <1>2 DEF Runs
  <2>2. ids + 1 \in Nat /\ ids + 1 # 0
    BY <1>1
  <2> DEFINE new == ids + 1
  <2>3. data' = [data EXCEPT ![c.src] = new] /\ new \in Nat /\ new # 0
    BY <2>1, <2>2
  <2> HIDE DEF new
  <2>4. data' \in [Sources -> Nat]
    BY <1>1, <2>3
  <2>5. ASSUME NEW s \in Sources, data[s] # 0
        PROVE  data'[s] # 0
    BY <1>1, <2>3, <2>5
  <2> QED BY <2>1, <2>2, <2>4, <2>5
<1>3. CASE ~(data[c.src] = 0 /\ ~c.ro)
  BY <1>1, <1>3 DEF Runs
<1> QED BY <1>2, <1>3

\* What a deploy mounts is a mount: of the entry, or of the live container.
LEMMA MountType ==
  ASSUME Inputs, MountsTypeOK, NEW p \in Callers
  PROVE  LET env   == buildEnv(jobs[p].path)
             mount == keepLiveMounts(buildMounts(env), env, jobs[p].live)
         IN  /\ env \in Texts
             /\ mount \in [target : Texts, src : Texts, ro : BOOLEAN]
             /\ mount.target = listed.target
             /\ jobs[p].live.there /\ jobs[p].live.target = listed.target /\ ~movedOnPurpose(env, jobs[p].live)
                  => mount.src = jobs[p].live.src /\ (jobs[p].live.ro => mount.ro)
<1> DEFINE env == buildEnv(jobs[p].path)
<1> DEFINE live == jobs[p].live
<1>1. jobs[p] \in Jobs /\ listed \in Entries
  BY DEF MountsTypeOK
<1>2. live \in Containers /\ jobs[p].path \in Texts
  BY <1>1 DEF Jobs
<1>3. env \in Texts
  <2>1. CASE listed.host = Field
    BY <1>2, <2>1 DEF buildEnv
  <2>2. CASE listed.host # Field
    BY <2>2, TextsHold DEF buildEnv
  <2> QED BY <2>1, <2>2
<1> HIDE DEF env
<1> DEFINE mount == buildMounts(env)
<1>4. mount \in [target : Texts, src : Texts, ro : BOOLEAN] /\ mount.target = listed.target
  BY <1>1, <1>3 DEF buildMounts, Entries
<1>5. live.src \in Texts /\ live.ro \in BOOLEAN
  BY <1>2 DEF Containers
<1> HIDE DEF mount
<1>6. (mount.ro \/ live.ro) \in BOOLEAN
  OBVIOUS
<1>7. ASSUME NEW b \in BOOLEAN
      PROVE  /\ [mount EXCEPT !.src = live.src, !.ro = b] \in [target : Texts, src : Texts, ro : BOOLEAN]
             /\ [mount EXCEPT !.src = live.src, !.ro = b].target = listed.target
             /\ [mount EXCEPT !.src = live.src, !.ro = b].src = live.src
             /\ [mount EXCEPT !.src = live.src, !.ro = b].ro = b
  BY <1>4, <1>5
<1>8. [mount EXCEPT !.src = live.src, !.ro = mount.ro \/ live.ro].ro = (mount.ro \/ live.ro)
  BY <1>6, <1>7
<1> DEFINE kept == [mount EXCEPT !.src = live.src, !.ro = mount.ro \/ live.ro]
<1>9. /\ kept \in [target : Texts, src : Texts, ro : BOOLEAN] /\ kept.target = listed.target
      /\ kept.src = live.src /\ (live.ro => kept.ro)
  BY <1>6, <1>7, <1>8
<1>10. keepLiveMounts(mount, env, live) =
         IF live.there /\ live.target = mount.target /\ ~movedOnPurpose(env, live) THEN kept ELSE mount
  BY DEF keepLiveMounts
<1> HIDE DEF kept, live
<1>11. /\ keepLiveMounts(mount, env, live) \in [target : Texts, src : Texts, ro : BOOLEAN]
       /\ keepLiveMounts(mount, env, live).target = listed.target
       /\ live.there /\ live.target = listed.target /\ ~movedOnPurpose(env, live)
            => keepLiveMounts(mount, env, live).src = live.src
               /\ (live.ro => keepLiveMounts(mount, env, live).ro)
  BY <1>4, <1>9, <1>10
<1> QED BY <1>3, <1>11 DEF env, mount, live

----------------------------------------------------------------------------
(* What a step does to the calls it is not a step of.                       *)

\* One call moves, the others do not.
LEMMA OneMoves ==
  ASSUME MountsTypeOK, NEW p \in Callers, NEW x \in Jobs, jobs' = [jobs EXCEPT ![p] = x]
  PROVE  /\ jobs' \in [Callers -> Jobs] /\ jobs'[p] = x
         /\ \A q \in Callers : q # p => jobs'[q] = jobs[q]
  BY DEF MountsTypeOK

LEMMA EndMoves ==
  ASSUME MountsTypeOK, NEW p \in Callers, End(p)
  PROVE  /\ jobs' \in [Callers -> Jobs] /\ jobs'[p] = NoJob
         /\ \A q \in Callers : q # p => jobs'[q] = jobs[q]
  BY OneMoves, IdleType DEF End

LEMMA GotoMoves ==
  ASSUME MountsTypeOK, NEW p \in Callers, NEW pc \in {"replace", "create", "volume"}, Proceed(p, pc)
  PROVE  /\ jobs' \in [Callers -> Jobs] /\ jobs'[p] = [jobs[p] EXCEPT !.pc = pc]
         /\ jobs'[p].pc = pc /\ jobs'[p].path = jobs[p].path /\ jobs'[p].heir = jobs[p].heir
         /\ jobs'[p].live = jobs[p].live /\ jobs'[p].delete = jobs[p].delete
         /\ jobs'[p].vol = jobs[p].vol /\ jobs'[p].named = jobs[p].named
         /\ jobs'[p].warned = jobs[p].warned /\ jobs'[p].crossed = jobs[p].crossed
         /\ \A q \in Callers : q # p => jobs'[q] = jobs[q]
<1>1. jobs[p] \in Jobs
  BY DEF MountsTypeOK
<1>2. [jobs[p] EXCEPT !.pc = pc] \in Jobs
  BY <1>1 DEF Jobs
<1>3. jobs' = [jobs EXCEPT ![p] = [jobs[p] EXCEPT !.pc = pc]]
  BY DEF Proceed
<1>4. /\ jobs' \in [Callers -> Jobs] /\ jobs'[p] = [jobs[p] EXCEPT !.pc = pc]
      /\ \A q \in Callers : q # p => jobs'[q] = jobs[q]
  BY <1>2, <1>3, OneMoves
<1> QED BY <1>1, <1>4 DEF Jobs

\* A call that ended holds nothing to be true of.
LEMMA EndedHolds ==
  ASSUME NEW p \in Callers, jobs'[p] = NoJob
  PROVE  PathOf(p)' /\ DialogOf(p)'
  BY IdleType DEF PathOf, DialogOf, Doing

\* A call that did not move keeps what was true of it, unless another container came.
LEMMA UnmovedHolds ==
  ASSUME KeepInv, NEW q \in Callers, jobs'[q] = jobs[q], listed' = listed,
         ctr' = ctr \/ ~ctr'.there
  PROVE  PathOf(q)' /\ DialogOf(q)'
<1>1. PathOf(q)'
  BY DEF KeepInv, PathInv, PathOf, Doing
<1>2. DialogOf(q)
  BY DEF KeepInv, DialogInv
<1>3. Critical(jobs[q].live.target)' = Critical(jobs[q].live.target)
  BY DEF Critical
<1>4. ctr' = ctr => Critical(ctr.target)' = Critical(ctr.target) /\ Volume' = Volume
  BY DEF Critical, Volume
<1>5. DialogOf(q)'
  BY <1>2, <1>3, <1>4 DEF DialogOf, Doing
<1> QED BY <1>1, <1>5

\* A call that was crossed is excused from the rest.
LEMMA CrossedHolds ==
  ASSUME KeepInv, NEW q \in Callers, jobs'[q] = [jobs[q] EXCEPT !.crossed = jobs[q].pc # "idle"],
         listed' = listed
  PROVE  PathOf(q)' /\ DialogOf(q)'
<1> DEFINE b == jobs[q].pc # "idle"
<1>1. b \in BOOLEAN
  OBVIOUS
<1>2. jobs'[q] = [jobs[q] EXCEPT !.crossed = b]
  OBVIOUS
<1>3. /\ jobs'[q].pc = jobs[q].pc /\ jobs'[q].path = jobs[q].path /\ jobs'[q].live = jobs[q].live
      /\ jobs'[q].heir = jobs[q].heir /\ jobs'[q].delete = jobs[q].delete /\ jobs'[q].crossed = b
  <2>1. MountsTypeOK
    BY DEF KeepInv
  <2> HIDE DEF b
  <2> DEFINE x == [jobs[q] EXCEPT !.crossed = b]
  <2>2. /\ x.pc = jobs[q].pc /\ x.path = jobs[q].path /\ x.live = jobs[q].live
        /\ x.heir = jobs[q].heir /\ x.delete = jobs[q].delete /\ x.crossed = b
    BY <1>1, <2>1, Crossing
  <2>3. jobs'[q] = x
    BY <1>2
  <2> HIDE DEF x
  <2> QED BY <2>2, <2>3
<1>4. PathOf(q)'
  BY <1>3 DEF KeepInv, PathInv, PathOf, Doing
<1>5. DialogOf(q)'
  BY <1>3 DEF KeepInv, DialogInv, DialogOf, Doing
<1> QED BY <1>4, <1>5

----------------------------------------------------------------------------
(* Every step keeps the invariant.                                          *)

\* A stored path that changes without the owner asking was empty, or is now.
LEMMA SavedPath ==
  ASSUME KeepInv, NEW v \in Texts, SaveCredentials(v), ctr' = ctr
  PROVE  /\ path' \in Texts /\ asked' \in BOOLEAN
         /\ ~asked' /\ ctr'.there => ctr'.env \in {"", path'} \/ path' = ""
<1>1. path' = v /\ asked' = (asked \/ v \notin {"", path}) /\ asked \in BOOLEAN
  BY DEF SaveCredentials, KeepInv, MountsTypeOK
<1>2. asked' \in BOOLEAN
  BY <1>1
<1>3. ~asked /\ ctr.there => ctr.env \in {"", path} \/ path = ""
  BY DEF KeepInv, PathInv
<1> QED BY <1>1, <1>2, <1>3

LEMMA DeployKeeps ==
  ASSUME Inputs, KeepInv, NEW p \in Callers, DeployService(p)
  PROVE  KeepInv'
<1>1. Doing(p, "idle") /\ UNCHANGED <<listed, ctr, data, ids>>
  BY DEF DeployService
<1>2. \/ \E v \in Forms : SaveCredentials(v)
      \/ (listed.host = Field => path # "") /\ UNCHANGED <<path, asked>>
  BY DEF DeployService
<1>3. /\ path' \in Texts /\ asked' \in BOOLEAN
      /\ ~asked' /\ ctr'.there => ctr'.env \in {"", path'} \/ path' = ""
      /\ listed.host = Field => path' # ""
  <2>1. ASSUME NEW v \in Forms, SaveCredentials(v)
        PROVE  /\ path' \in Texts /\ asked' \in BOOLEAN
               /\ ~asked' /\ ctr'.there => ctr'.env \in {"", path'} \/ path' = ""
               /\ listed.host = Field => path' # ""
    <3>1. v \in Texts /\ (listed.host = Field => v # "")
      BY TextsHold DEF Forms, Inputs
    <3> QED BY <2>1, <3>1, <1>1, SavedPath DEF SaveCredentials
  <2>2. CASE (listed.host = Field => path # "") /\ UNCHANGED <<path, asked>>
    BY <2>2, <1>1 DEF KeepInv, MountsTypeOK, PathInv
  <2> QED BY <1>2, <2>1, <2>2
<1> DEFINE x == [NoJob EXCEPT !.pc = "inspect", !.path = path']
<1>4. x \in Jobs /\ x.pc = "inspect" /\ x.path = path' /\ ~x.heir
  BY <1>3, IdleType DEF Jobs
<1>5. jobs' = [jobs EXCEPT ![p] = x]
  BY DEF DeployService
<1> HIDE DEF x
<1>6. /\ jobs' \in [Callers -> Jobs] /\ jobs'[p] = x /\ \A q \in Callers : q # p => jobs'[q] = jobs[q]
  BY <1>4, <1>5, OneMoves DEF KeepInv
<1>7. PathOf(p)' /\ DialogOf(p)'
  BY <1>1, <1>3, <1>4, <1>6 DEF PathOf, DialogOf, Doing
<1>8. \A q \in Callers : PathOf(q)' /\ DialogOf(q)'
  BY <1>1, <1>6, <1>7, UnmovedHolds
<1>9. MountsTypeOK'
  BY <1>1, <1>3, <1>6 DEF KeepInv, MountsTypeOK
<1> QED BY <1>3, <1>8, <1>9 DEF KeepInv, PathInv, DialogInv

LEMMA InspectKeeps ==
  ASSUME KeepInv, NEW p \in Callers, Inspect(p)
  PROVE  KeepInv'
<1>1. Doing(p, "inspect") /\ UNCHANGED <<listed, path, ctr, data, ids, asked>>
  BY DEF Inspect
<1>2. jobs[p] \in Jobs /\ ctr \in Containers
  BY DEF KeepInv, MountsTypeOK
<1> DEFINE x == [jobs[p] EXCEPT !.pc = "replace", !.live = ctr]
<1>3. x \in Jobs /\ x.pc = "replace" /\ x.path = jobs[p].path /\ x.heir = jobs[p].heir
  BY <1>2 DEF Jobs
<1>4. End(p) \/ jobs' = [jobs EXCEPT ![p] = x]
  BY DEF Inspect
<1> HIDE DEF x
<1>5. /\ jobs' \in [Callers -> Jobs] /\ jobs'[p] \in {NoJob, x}
      /\ \A q \in Callers : q # p => jobs'[q] = jobs[q]
  BY <1>3, <1>4, OneMoves, EndMoves DEF KeepInv
<1>6. jobs'[p] = x => PathOf(p)' /\ DialogOf(p)'
  BY <1>1, <1>3 DEF PathOf, DialogOf, Doing, KeepInv, PathInv
<1>7. \A q \in Callers : PathOf(q)' /\ DialogOf(q)'
  BY <1>1, <1>5, <1>6, UnmovedHolds, EndedHolds
<1>8. MountsTypeOK'
  BY <1>1, <1>5 DEF KeepInv, MountsTypeOK
<1>9. (~asked /\ ctr.there => ctr.env \in {"", path} \/ path = "")'
  BY <1>1 DEF KeepInv, PathInv
<1> QED BY <1>7, <1>8, <1>9 DEF KeepInv, PathInv, DialogInv

\* What a deploy inherits, it inherits from a container made with the path it has.
LEMMA ReplaceKeeps ==
  ASSUME KeepInv, NEW p \in Callers, Replace(p)
  PROVE  KeepInv'
<1>1. Doing(p, "replace") /\ UNCHANGED <<listed, path, data, ids, asked>>
  BY DEF Replace
<1>2. jobs[p] \in Jobs
  BY DEF KeepInv, MountsTypeOK
<1>3. CASE Proceed(p, "create") /\ UNCHANGED ctr
  <2>1. ~jobs[p].heir \/ jobs[p].heir
    OBVIOUS
  <2>2. /\ jobs' \in [Callers -> Jobs] /\ jobs'[p].pc = "create" /\ jobs'[p].path = jobs[p].path
        /\ jobs'[p].heir = jobs[p].heir
        /\ \A q \in Callers : q # p => jobs'[q] = jobs[q]
    BY <1>3, GotoMoves DEF KeepInv
  <2>3. ~jobs[p].heir
    BY <1>1 DEF Doing, KeepInv, PathInv, PathOf
  <2>4. PathOf(p)' /\ DialogOf(p)'
    BY <1>1, <2>2, <2>3 DEF PathOf, DialogOf, Doing, KeepInv, PathInv
  <2>5. \A q \in Callers : PathOf(q)' /\ DialogOf(q)'
    BY <1>1, <1>3, <2>2, <2>4, UnmovedHolds
  <2>6. MountsTypeOK'
    BY <1>1, <1>3, <2>2 DEF KeepInv, MountsTypeOK
  <2>7. (~asked /\ ctr.there => ctr.env \in {"", path} \/ path = "")'
    BY <1>1, <1>3 DEF KeepInv, PathInv
  <2> QED BY <2>5, <2>6, <2>7 DEF KeepInv, PathInv, DialogInv
<1>4. CASE /\ jobs' = [jobs EXCEPT ![p].pc = "create", ![p].heir = Heir(p)]
           /\ ctr' = NoCtr
  <2> DEFINE h == Heir(p)
  <2>1. h \in BOOLEAN
    BY DEF Heir
  <2> DEFINE x == [jobs[p] EXCEPT !.pc = "create", !.heir = h]
  <2>2. jobs' = [jobs EXCEPT ![p] = x]
    BY <1>4
  <2>3. x \in Jobs /\ x.pc = "create" /\ x.path = jobs[p].path /\ x.heir = h /\ x.live = jobs[p].live
    <3> HIDE DEF h
    <3> QED BY <1>2, <2>1 DEF Jobs
  <2>4. h /\ listed.host = Field => ctr.there /\ jobs[p].live = ctr /\ ctr.env \in {"", jobs[p].path}
    BY <1>1 DEF Heir, KeepInv, PathInv, PathOf, Doing
  <2>5. h => jobs[p].live.there
    BY DEF Heir
  <2> HIDE DEF h, x
  <2>6. /\ jobs' \in [Callers -> Jobs] /\ jobs'[p] = x /\ \A q \in Callers : q # p => jobs'[q] = jobs[q]
    BY <2>2, <2>3, OneMoves DEF KeepInv
  <2>7. PathOf(p)'
    BY <1>1, <2>3, <2>4, <2>5, <2>6 DEF PathOf, Doing, KeepInv, PathInv
  <2>8. DialogOf(p)'
    BY <2>3, <2>6 DEF DialogOf, Doing
  <2>9. \A q \in Callers : PathOf(q)' /\ DialogOf(q)'
    BY <1>1, <1>4, <2>6, <2>7, <2>8, IdleType, UnmovedHolds
  <2>10. MountsTypeOK'
    BY <1>1, <1>4, <2>6, IdleType DEF KeepInv, MountsTypeOK
  <2>11. (~asked /\ ctr.there => ctr.env \in {"", path} \/ path = "")'
    BY <1>4, IdleType
  <2> QED BY <2>9, <2>10, <2>11 DEF KeepInv, PathInv, DialogInv
<1> QED BY <1>3, <1>4 DEF Replace

LEMMA CreateKeeps ==
  ASSUME Inputs, KeepInv, NEW p \in Callers, Create(p)
  PROVE  KeepInv'
<1> DEFINE env == buildEnv(jobs[p].path)
<1> DEFINE mount == keepLiveMounts(buildMounts(env), env, jobs[p].live)
<1> DEFINE c == [there |-> TRUE, mine |-> TRUE, target |-> mount.target, src |-> mount.src, ro |-> mount.ro, env |-> env]
<1>1. Doing(p, "create") /\ UNCHANGED <<listed, path>>
  BY DEF Create
<1>2. \/ End(p) /\ UNCHANGED <<ctr, data, ids, asked>>
      \/ Runs(c) /\ jobs' = CrossedBut(p) /\ asked' = (jobs[p].path # path)
  BY DEF Create
<1>3. CASE End(p) /\ UNCHANGED <<ctr, data, ids, asked>>
  <2>1. /\ jobs' \in [Callers -> Jobs] /\ jobs'[p] = NoJob
        /\ \A q \in Callers : q # p => jobs'[q] = jobs[q]
    BY <1>3, EndMoves DEF KeepInv
  <2>2. \A q \in Callers : PathOf(q)' /\ DialogOf(q)'
    BY <1>1, <1>3, <2>1, EndedHolds, UnmovedHolds
  <2>3. MountsTypeOK'
    BY <1>1, <1>3, <2>1 DEF KeepInv, MountsTypeOK
  <2>4. (~asked /\ ctr.there => ctr.env \in {"", path} \/ path = "")'
    BY <1>1, <1>3 DEF KeepInv, PathInv
  <2> QED BY <2>2, <2>3, <2>4 DEF KeepInv, PathInv, DialogInv
<1>4. CASE Runs(c) /\ jobs' = CrossedBut(p) /\ asked' = (jobs[p].path # path)
  <2>1. env \in Texts /\ mount \in [target : Texts, src : Texts, ro : BOOLEAN]
    BY MountType DEF KeepInv
  <2>2. env \in {"", jobs[p].path}
    BY DEF buildEnv
  <2> HIDE DEF mount, env
  <2>3. c \in Containers /\ c.env = env
    BY <2>1 DEF Containers
  <2> HIDE DEF c
  <2>4. ctr' = c /\ data' \in [Sources -> Nat] /\ ids' \in Nat
    BY <1>4, <2>3, RunsKeeps DEF KeepInv
  <2>5. /\ jobs'[p] = NoJob
        /\ \A q \in Callers : q # p => jobs'[q] = [jobs[q] EXCEPT !.crossed = jobs[q].pc # "idle"]
    BY <1>4 DEF CrossedBut
  <2>6. jobs' \in [Callers -> Jobs]
    <3>1. ASSUME NEW q \in Callers
          PROVE  [jobs[q] EXCEPT !.crossed = jobs[q].pc # "idle"] \in Jobs
      <4> DEFINE b == jobs[q].pc # "idle"
      <4>1. b \in BOOLEAN
        OBVIOUS
      <4> HIDE DEF b
      <4>2. [jobs[q] EXCEPT !.crossed = b] \in Jobs
        BY <4>1, Crossing DEF KeepInv
      <4> QED BY <4>2 DEF b
    <3> QED BY <1>4, <3>1, IdleType DEF CrossedBut
  <2>7. \A q \in Callers : PathOf(q)' /\ DialogOf(q)'
    BY <1>1, <2>5, EndedHolds, CrossedHolds
  <2>8. asked' \in BOOLEAN
    BY <1>4
  <2>9. MountsTypeOK'
    BY <1>1, <2>3, <2>4, <2>6, <2>8 DEF KeepInv, MountsTypeOK
  <2>10. (~asked /\ ctr.there => ctr.env \in {"", path} \/ path = "")'
    BY <1>1, <1>4, <2>2, <2>3, <2>4
  <2> QED BY <2>7, <2>9, <2>10 DEF KeepInv, PathInv, DialogInv
<1> QED BY <1>2, <1>3, <1>4

LEMMA ByHandKeeps ==
  ASSUME Inputs, KeepInv, NEW c \in Hands, ByHand(c)
  PROVE  KeepInv'
<1>1. /\ Runs(c) /\ UNCHANGED <<listed, path>> /\ c \in Containers
      /\ jobs' = [q \in Callers |-> [jobs[q] EXCEPT !.crossed = jobs[q].pc # "idle"]]
      /\ asked' = (asked \/ c.env \notin {"", path})
  BY DEF ByHand, Inputs
<1>2. ctr' = c /\ data' \in [Sources -> Nat] /\ ids' \in Nat
  BY <1>1, RunsKeeps DEF KeepInv
<1>3. jobs' \in [Callers -> Jobs]
  <2>1. ASSUME NEW q \in Callers
        PROVE  [jobs[q] EXCEPT !.crossed = jobs[q].pc # "idle"] \in Jobs
    <3> DEFINE b == jobs[q].pc # "idle"
    <3>1. b \in BOOLEAN
      OBVIOUS
    <3> HIDE DEF b
    <3>2. [jobs[q] EXCEPT !.crossed = b] \in Jobs
      BY <3>1, Crossing DEF KeepInv
    <3> QED BY <3>2 DEF b
  <2> QED BY <1>1, <2>1
<1>4. \A q \in Callers : PathOf(q)' /\ DialogOf(q)'
  BY <1>1, CrossedHolds
<1>5. asked' \in BOOLEAN
  BY <1>1 DEF KeepInv, MountsTypeOK
<1>6. MountsTypeOK'
  BY <1>1, <1>2, <1>3, <1>5 DEF KeepInv, MountsTypeOK
<1>7. (~asked /\ ctr.there => ctr.env \in {"", path} \/ path = "")'
  BY <1>1, <1>2
<1> QED BY <1>4, <1>6, <1>7 DEF KeepInv, PathInv, DialogInv

\* The dialog shows the container it finds.
LEMMA AskKeeps ==
  ASSUME Inputs, KeepInv, NEW p \in Callers, NEW delete \in BOOLEAN, AskAboutRemoval(p, delete)
  PROVE  KeepInv'
<1> DEFINE warned == Volume # "" /\ Critical(ctr.target)
<1> DEFINE allow == delete /\ warned
<1> DEFINE named == Volume
<1> DEFINE x == [NoJob EXCEPT !.pc = "plan", !.delete = delete, !.allow = allow, !.named = named, !.warned = warned]
<1>1. jobs' = [jobs EXCEPT ![p] = x] /\ UNCHANGED <<listed, path, ctr, data, ids, asked>>
  BY DEF AskAboutRemoval
<1>2. warned \in BOOLEAN /\ allow \in BOOLEAN /\ (allow => warned)
  OBVIOUS
<1>3. named \in Texts
  BY TextsHold DEF Volume, KeepInv, MountsTypeOK, Containers
<1>4. warned = (named # "" /\ Critical(ctr.target)) /\ named = Volume
  OBVIOUS
<1> HIDE DEF warned, allow, named
<1>5. /\ x \in Jobs /\ x.pc = "plan" /\ ~x.heir /\ x.named = named /\ x.warned = warned /\ x.allow = allow
  BY <1>2, <1>3, IdleType DEF Jobs
<1> HIDE DEF x
<1>6. /\ jobs' \in [Callers -> Jobs] /\ jobs'[p] = x /\ \A q \in Callers : q # p => jobs'[q] = jobs[q]
  BY <1>1, <1>5, OneMoves DEF KeepInv
<1>7. PathOf(p)'
  BY <1>5, <1>6 DEF PathOf, Doing
<1>8. Volume' = Volume /\ Critical(ctr.target)' = Critical(ctr.target)
  BY <1>1 DEF Volume, Critical
<1>9. DialogOf(p)'
  BY <1>2, <1>4, <1>5, <1>6, <1>8 DEF DialogOf, Doing
<1>10. \A q \in Callers : PathOf(q)' /\ DialogOf(q)'
  BY <1>1, <1>6, <1>7, <1>9, UnmovedHolds
<1>11. MountsTypeOK'
  BY <1>1, <1>6 DEF KeepInv, MountsTypeOK
<1>12. (~asked /\ ctr.there => ctr.env \in {"", path} \/ path = "")'
  BY <1>1 DEF KeepInv, PathInv
<1> QED BY <1>10, <1>11, <1>12 DEF KeepInv, PathInv, DialogInv

\* What passes the second plan is what the dialog named, and was warned of.
LEMMA PlanKeeps ==
  ASSUME KeepInv, NEW p \in Callers, Plan(p)
  PROVE  KeepInv'
<1> DEFINE vol == Volume
<1> DEFINE x == [jobs[p] EXCEPT !.pc = "take", !.vol = vol, !.live = ctr]
<1> DEFINE blocked == jobs[p].delete /\ ~jobs[p].allow /\ Volume # "" /\ Critical(ctr.target)
<1>1. Doing(p, "plan") /\ UNCHANGED <<listed, path, ctr, data, ids, asked>>
  BY DEF Plan
<1>2. End(p) \/ (ctr.there /\ ~blocked /\ jobs' = [jobs EXCEPT ![p] = x])
  BY DEF Plan
<1>3. jobs[p] \in Jobs /\ vol \in Texts /\ ctr \in Containers
  BY TextsHold DEF KeepInv, MountsTypeOK, Volume, Containers
<1>4. vol = Volume
  OBVIOUS
<1> HIDE DEF vol
<1>5. /\ x \in Jobs /\ x.pc = "take" /\ x.heir = jobs[p].heir /\ x.delete = jobs[p].delete
      /\ x.crossed = jobs[p].crossed /\ x.named = jobs[p].named /\ x.warned = jobs[p].warned
      /\ x.vol = vol /\ x.live = ctr
  BY <1>3 DEF Jobs
<1> HIDE DEF x
<1>6. CASE ctr.there /\ ~blocked /\ jobs' = [jobs EXCEPT ![p] = x]
  <2>1. /\ jobs' \in [Callers -> Jobs] /\ jobs'[p] = x /\ \A q \in Callers : q # p => jobs'[q] = jobs[q]
    BY <1>5, <1>6, OneMoves DEF KeepInv
  <2>2. ~jobs[p].heir
    BY <1>1 DEF Doing, KeepInv, PathInv, PathOf
  <2>3. PathOf(p)'
    BY <1>5, <2>1, <2>2 DEF PathOf, Doing
  <2>4. jobs[p].delete /\ ~jobs[p].crossed =>
          jobs[p].named = vol /\ (vol # "" /\ Critical(ctr.target) => jobs[p].warned)
    BY <1>1, <1>4, <1>6 DEF KeepInv, DialogInv, DialogOf
  <2>5. Critical(jobs[p].live.target)' = Critical(ctr.target)
    BY <1>1, <1>5, <2>1 DEF Critical
  <2>6. DialogOf(p)'
    BY <1>5, <2>1, <2>4, <2>5 DEF DialogOf, Doing
  <2>7. \A q \in Callers : PathOf(q)' /\ DialogOf(q)'
    BY <1>1, <2>1, <2>3, <2>6, UnmovedHolds
  <2>8. MountsTypeOK'
    BY <1>1, <2>1 DEF KeepInv, MountsTypeOK
  <2>9. (~asked /\ ctr.there => ctr.env \in {"", path} \/ path = "")'
    BY <1>1 DEF KeepInv, PathInv
  <2> QED BY <2>7, <2>8, <2>9 DEF KeepInv, PathInv, DialogInv
<1>7. CASE End(p)
  <2>1. /\ jobs' \in [Callers -> Jobs] /\ jobs'[p] = NoJob
        /\ \A q \in Callers : q # p => jobs'[q] = jobs[q]
    BY <1>7, EndMoves DEF KeepInv
  <2>2. \A q \in Callers : PathOf(q)' /\ DialogOf(q)'
    BY <1>1, <2>1, EndedHolds, UnmovedHolds
  <2>3. MountsTypeOK'
    BY <1>1, <2>1 DEF KeepInv, MountsTypeOK
  <2>4. (~asked /\ ctr.there => ctr.env \in {"", path} \/ path = "")'
    BY <1>1 DEF KeepInv, PathInv
  <2> QED BY <2>2, <2>3, <2>4 DEF KeepInv, PathInv, DialogInv
<1> QED BY <1>2, <1>6, <1>7

LEMMA TakeKeeps ==
  ASSUME KeepInv, NEW p \in Callers, TakeContainer(p) \/ TakeVolume(p)
  PROVE  KeepInv'
<1>1. /\ UNCHANGED <<listed, path, ids, asked>> /\ (ctr' = ctr \/ ctr' = NoCtr)
      /\ End(p) \/ (Doing(p, "take") /\ jobs[p].delete /\ Proceed(p, "volume"))
      /\ ctr' \in Containers
  BY IdleType DEF TakeContainer, TakeVolume, KeepInv, MountsTypeOK
<1>2. data' \in [Sources -> Nat]
  <2>1. data \in [Sources -> Nat]
    BY DEF KeepInv, MountsTypeOK
  <2>2. data' = data \/ \E vol : data' = [data EXCEPT ![vol] = 0]
    BY DEF TakeContainer, TakeVolume
  <2> QED BY <2>1, <2>2
<1>3. ctr' = ctr \/ ~ctr'.there
  BY <1>1, IdleType
<1>4. CASE End(p)
  <2>1. /\ jobs' \in [Callers -> Jobs] /\ jobs'[p] = NoJob
        /\ \A q \in Callers : q # p => jobs'[q] = jobs[q]
    BY <1>4, EndMoves DEF KeepInv
  <2>2. \A q \in Callers : PathOf(q)' /\ DialogOf(q)'
    BY <1>1, <1>3, <2>1, EndedHolds, UnmovedHolds
  <2>3. MountsTypeOK'
    BY <1>1, <1>2, <2>1 DEF KeepInv, MountsTypeOK
  <2>4. (~asked /\ ctr.there => ctr.env \in {"", path} \/ path = "")'
    BY <1>1, <1>3 DEF KeepInv, PathInv
  <2> QED BY <2>2, <2>3, <2>4 DEF KeepInv, PathInv, DialogInv
<1>5. CASE Doing(p, "take") /\ jobs[p].delete /\ Proceed(p, "volume")
  <2>1. /\ jobs' \in [Callers -> Jobs] /\ jobs'[p].pc = "volume" /\ jobs'[p].heir = jobs[p].heir
        /\ jobs'[p].live = jobs[p].live /\ jobs'[p].delete = jobs[p].delete
        /\ jobs'[p].vol = jobs[p].vol /\ jobs'[p].named = jobs[p].named
        /\ jobs'[p].warned = jobs[p].warned /\ jobs'[p].crossed = jobs[p].crossed
        /\ \A q \in Callers : q # p => jobs'[q] = jobs[q]
    BY <1>5, GotoMoves DEF KeepInv
  <2>2. ~jobs[p].heir
    BY <1>5 DEF Doing, KeepInv, PathInv, PathOf
  <2>3. PathOf(p)'
    BY <2>1, <2>2 DEF PathOf, Doing
  <2>4. Critical(jobs[p].live.target)' = Critical(jobs[p].live.target)
    BY <1>1, <2>1 DEF Critical
  <2>5. DialogOf(p)
    BY DEF KeepInv, DialogInv
  <2>6. DialogOf(p)'
    BY <1>5, <2>1, <2>4, <2>5 DEF DialogOf, Doing
  <2>7. \A q \in Callers : PathOf(q)' /\ DialogOf(q)'
    BY <1>1, <1>3, <2>1, <2>3, <2>6, UnmovedHolds
  <2>8. MountsTypeOK'
    BY <1>1, <1>2, <2>1 DEF KeepInv, MountsTypeOK
  <2>9. (~asked /\ ctr.there => ctr.env \in {"", path} \/ path = "")'
    BY <1>1, <1>3 DEF KeepInv, PathInv
  <2> QED BY <2>7, <2>8, <2>9 DEF KeepInv, PathInv, DialogInv
<1> QED BY <1>1, <1>4, <1>5

LEMMA SaveKeeps ==
  ASSUME Inputs, KeepInv, SaveForm
  PROVE  KeepInv'
<1>1. UNCHANGED <<listed, ctr, data, ids, jobs>>
  BY DEF SaveForm
<1>2. PICK v \in Forms : SaveCredentials(v)
  BY DEF SaveForm
<1>3. v \in Texts
  BY TextsHold DEF Forms
<1>4. /\ path' \in Texts /\ asked' \in BOOLEAN
      /\ ~asked' /\ ctr'.there => ctr'.env \in {"", path'} \/ path' = ""
  BY <1>1, <1>2, <1>3, SavedPath
<1>5. \A q \in Callers : PathOf(q)' /\ DialogOf(q)'
  BY <1>1, UnmovedHolds
<1>6. MountsTypeOK'
  BY <1>1, <1>4 DEF KeepInv, MountsTypeOK
<1> QED BY <1>4, <1>5, <1>6 DEF KeepInv, PathInv, DialogInv

LEMMA RestartKeeps ==
  ASSUME Inputs, KeepInv, NEW r \in Releases \cup {NoEntry}, Restart(r)
  PROVE  KeepInv'
<1>1. listed' = r /\ r \in Entries /\ jobs' = [p \in Callers |-> NoJob] /\ UNCHANGED <<path, ctr, data, ids, asked>>
  BY IdleType DEF Restart, Inputs
<1>2. \A q \in Callers : PathOf(q)' /\ DialogOf(q)'
  BY <1>1, EndedHolds
<1>3. MountsTypeOK'
  BY <1>1, IdleType DEF KeepInv, MountsTypeOK
<1>4. (~asked /\ ctr.there => ctr.env \in {"", path} \/ path = "")'
  BY <1>1 DEF KeepInv, PathInv
<1> QED BY <1>2, <1>3, <1>4 DEF KeepInv, PathInv, DialogInv

LEMMA KeepStep ==
  ASSUME Inputs, KeepInv, [DataNext]_dataVars
  PROVE  KeepInv'
<1>1. CASE UNCHANGED dataVars
  <2>1. UNCHANGED <<listed, path, ctr, data, ids, jobs, asked>>
    BY <1>1 DEF dataVars
  <2>2. \A q \in Callers : PathOf(q)' /\ DialogOf(q)'
    BY <2>1, UnmovedHolds
  <2>3. MountsTypeOK'
    BY <2>1 DEF KeepInv, MountsTypeOK
  <2>4. (~asked /\ ctr.there => ctr.env \in {"", path} \/ path = "")'
    BY <2>1 DEF KeepInv, PathInv
  <2> QED BY <2>2, <2>3, <2>4 DEF KeepInv, PathInv, DialogInv
<1>2. CASE DataNext
  BY <1>2, DeployKeeps, InspectKeeps, ReplaceKeeps, CreateKeeps, AskKeeps, PlanKeeps, TakeKeeps,
     SaveKeeps, ByHandKeeps, RestartKeeps DEF DataNext
<1> QED BY <1>1, <1>2

----------------------------------------------------------------------------
(* What the invariant is for.                                               *)

\* Only the creation of a deploy ends a call that was about to create and puts a container
\* there.
LEMMA StaysPutStep ==
  ASSUME Inputs, KeepInv, DataNext
  PROVE  StaysPut
<1> SUFFICES ASSUME NEW p \in Callers, Doing(p, "create"), jobs'[p] = NoJob, ctr' # ctr, jobs[p].heir,
                    jobs[p].live.target = ctr'.target
             PROVE  ctr'.src = jobs[p].live.src /\ (jobs[p].live.ro => ctr'.ro)
  BY DEF StaysPut
<1>t. jobs[p] \in Jobs /\ jobs[p].pc = "create" /\ NoJob.pc = "idle" /\ jobs'[p].pc = "idle"
      /\ ctr \in Containers /\ jobs \in [Callers -> Jobs]
  BY IdleType DEF Doing, KeepInv, MountsTypeOK
<1>1. ASSUME NEW q \in Callers, Create(q)
      PROVE  q = p
  <2>1. CASE End(q) /\ UNCHANGED ctr
    BY <2>1
  <2>2. CASE q # p /\ jobs' = CrossedBut(q)
    <3>1. jobs'[p].pc = jobs[p].pc
      BY <2>2, <1>t DEF CrossedBut, Jobs
    <3> QED BY <3>1, <1>t
  <2> QED BY <1>1, <2>1, <2>2 DEF Create
<1>2. ASSUME NEW q \in Callers, Replace(q) \/ TakeContainer(q)
      PROVE  FALSE
  <2>1. \A o \in Callers : o # q => jobs'[o] = jobs[o]
    BY <1>2, <1>t DEF Replace, TakeContainer, Proceed, End
  <2>2. Doing(q, "replace") \/ Doing(q, "take")
    BY <1>2 DEF Replace, TakeContainer
  <2> QED BY <2>1, <2>2, <1>t DEF Doing
<1>3. ASSUME NEW c \in Hands, ByHand(c)
      PROVE  FALSE
  <2>1. jobs'[p].pc = jobs[p].pc
    BY <1>3, <1>t DEF ByHand, Jobs
  <2> QED BY <2>1, <1>t
<1>4. Create(p)
  BY <1>1, <1>2, <1>3 DEF DataNext, DeployService, Inspect, AskAboutRemoval, Plan, TakeVolume, SaveForm, Restart
<1> DEFINE env == buildEnv(jobs[p].path)
<1> DEFINE mount == keepLiveMounts(buildMounts(env), env, jobs[p].live)
<1> DEFINE c == [there |-> TRUE, mine |-> TRUE, target |-> mount.target, src |-> mount.src, ro |-> mount.ro, env |-> env]
<1>5. Runs(c)
  BY <1>4 DEF Create
<1>6. ~movedOnPurpose(env, jobs[p].live)
  BY <1>t DEF movedOnPurpose, buildEnv, KeepInv, PathInv, PathOf, Doing
<1>7. jobs[p].live.there
  BY <1>t DEF KeepInv, PathInv, PathOf, Doing
<1>8. /\ mount.target = listed.target
      /\ jobs[p].live.there /\ jobs[p].live.target = listed.target /\ ~movedOnPurpose(env, jobs[p].live)
           => mount.src = jobs[p].live.src /\ (jobs[p].live.ro => mount.ro)
  BY MountType DEF KeepInv
<1>9. ctr'.target = mount.target /\ ctr'.src = mount.src /\ ctr'.ro = mount.ro
  BY <1>5 DEF Runs
<1> HIDE DEF mount, env
<1> QED BY <1>6, <1>7, <1>8, <1>9

\* Only the deletion of a volume loses data.
LEMMA GoesAsNamedStep ==
  ASSUME Inputs, KeepInv, DataNext
  PROVE  GoesAsNamed
<1> SUFFICES ASSUME NEW s \in Sources, data[s] # 0, data'[s] = 0
             PROVE  \E p \in Callers :
                      /\ Doing(p, "volume") /\ jobs[p].delete
                      /\ jobs[p].crossed \/ jobs[p].named = s
                      /\ Critical(jobs[p].live.target) => jobs[p].warned \/ jobs[p].crossed
  BY DEF GoesAsNamed
<1>1. ASSUME NEW q \in Callers, Create(q)
      PROVE  FALSE
  <2> DEFINE env == buildEnv(jobs[q].path)
  <2> DEFINE mount == keepLiveMounts(buildMounts(env), env, jobs[q].live)
  <2> DEFINE c == [there |-> TRUE, mine |-> TRUE, target |-> mount.target, src |-> mount.src, ro |-> mount.ro, env |-> env]
  <2>1. Runs(c)
    BY <1>1 DEF Create
  <2>2. env \in Texts /\ mount \in [target : Texts, src : Texts, ro : BOOLEAN]
    BY MountType DEF KeepInv
  <2> HIDE DEF mount, env
  <2>3. c \in Containers
    BY <2>2 DEF Containers
  <2> QED BY <2>1, <2>3, RunsKeeps DEF KeepInv
<1>2. ASSUME NEW c \in Hands, ByHand(c)
      PROVE  FALSE
  BY <1>2, RunsKeeps DEF ByHand, Inputs, KeepInv
<1>3. PICK p \in Callers : TakeVolume(p)
  BY <1>1, <1>2 DEF DataNext, DeployService, Inspect, Replace, AskAboutRemoval, Plan, TakeContainer, SaveForm, Restart
<1>4. Doing(p, "volume") /\ jobs[p].vol = s /\ s # ""
  BY <1>3 DEF TakeVolume, KeepInv, MountsTypeOK
<1>5. DialogOf(p)
  BY DEF KeepInv, DialogInv
<1>6. /\ jobs[p].delete
      /\ ~jobs[p].crossed => jobs[p].named = s /\ (Critical(jobs[p].live.target) => jobs[p].warned)
  BY <1>4, <1>5 DEF DialogOf, Doing
<1> QED BY <1>4, <1>6

\* Whatever the catalog marks or moves, whoever puts containers under the name, and however
\* deploys, removals and updates of the app overlap: a redeploy keeps the data where it
\* is, and only a volume the dialog named goes, with its warning when it cannot be made again.
THEOREM DataStaysAndGoesAsNamed ==
  ASSUME Inputs
  PROVE  DataSpec => DataIsKept
<1>1. DataInit => KeepInv
  <2> SUFFICES ASSUME DataInit PROVE KeepInv
    OBVIOUS
  <2>1. /\ listed \in Entries /\ path = "" /\ ctr = NoCtr /\ data \in [Sources -> Nat] /\ ids \in Nat
        /\ jobs = [p \in Callers |-> NoJob] /\ asked = FALSE
    BY DEF DataInit, Inputs
  <2>2. MountsTypeOK
    BY <2>1, IdleType, TextsHold DEF MountsTypeOK
  <2>3. \A p \in Callers : PathOf(p) /\ DialogOf(p)
    BY <2>1, IdleType DEF PathOf, DialogOf, Doing
  <2> QED BY <2>1, <2>2, <2>3, IdleType DEF KeepInv, PathInv, DialogInv
<1>2. KeepInv /\ [DataNext]_dataVars => KeepInv'
  BY KeepStep
<1>3. KeepInv /\ [DataNext]_dataVars => [StaysPut /\ GoesAsNamed]_dataVars
  BY StaysPutStep, GoesAsNamedStep
<1> QED BY <1>1, <1>2, <1>3, PTL DEF DataSpec, DataIsKept

------------------------------------------------------------------------------
(* Readings: every reading in hand, and the one recorded last, was true at  *)
(* a moment that has passed, and they are ordered. What an hour shows was   *)
(* moved within it, for every recording starts where the one before ended.  *)

Reads == [pc : {"listed", "stamped"}, id : Nat \ {0}, rx : Nat, at : Nat, no : Nat, by : Nat]
HourRows == [beats : Nat, bytes : Nat, seconds : Nat, lost : Nat]
UsageTypes ==
  /\ {"id", "rx"} \subseteq DOMAIN cont /\ cont.id \in Nat \ {0} /\ cont.rx \in Nat
  /\ clock \in 0..MaxClock /\ moved \in [0..MaxClock -> Nat]
  /\ sampler \in [Samplers -> {AtRest} \cup Reads]
  /\ "redeploy" \in DOMAIN left /\ left["redeploy"] \in Nat
  /\ base \in [1..(cont.id + left["redeploy"]) -> [rx : Int, at : Nat]]
  /\ hours \in [Hours -> HourRows] /\ counted \in HourRows
  /\ seq \in [taken : Nat, newest : Reads, crossed : BOOLEAN]

\* Every reading that matters: the newest one recorded, and the ones in hand.
Taken == {seq.newest} \cup {sampler[p] : p \in {q \in Samplers : sampler[q].pc # "idle"}}

\* The counter is the bytes moved since a reading, or has begun anew since: then no more than those.
Since(a, rx, by) == (a.rx <= rx /\ rx - a.rx = by - a.by) \/ rx <= by - a.by

\* A reading is of a moment that has passed: of the counter, the clock and what had moved.
ReadThen(a) ==
  /\ a.at <= clock /\ a.no <= seq.taken /\ a.id <= cont.id
  /\ a.by <= moved[a.at]
  /\ a.at > 0 => moved[a.at - 1] <= a.by
  /\ Since(a, cont.rx, moved[clock])
Before(a, b) == a.id <= b.id /\ a.at <= b.at /\ a.by <= b.by /\ Since(a, b.rx, b.by)
ReadInOrder ==
  /\ \A a \in Taken : ReadThen(a)
  /\ \A a, b \in Taken : a.no < b.no => Before(a, b)
  /\ \A p \in Samplers : sampler[p].pc = "listed" => sampler[p].at = clock

MovedInv ==
  /\ \A s, t \in 0..MaxClock : s <= t => moved[s] <= moved[t]
  /\ \A t \in 0..MaxClock : t >= clock => moved[t] = moved[clock]

\* The baselines: the newest reading recorded, or older ones of containers that are gone.
BaseInv ==
  ~seq.crossed => \A id \in DOMAIN base :
     base[id] # NoBase => id < seq.newest.id \/ (id = seq.newest.id /\ base[id] = [rx |-> seq.newest.rx, at |-> seq.newest.at])
Least(a, b) == IF a <= b THEN a ELSE b
\* Of what was moved up to a tick, what had been at the newest reading recorded.
ReadBy(t) == Least(MovedBy(t), seq.newest.by)
First(h) == h * HourTicks - MaxBaselineAge - 1
Final(h) == (h + 1) * HourTicks - 1
RowsInv ==
  ~seq.crossed =>
    /\ counted.bytes <= seq.newest.by /\ counted.seconds <= seq.newest.at
    /\ \A h \in Hours : hours[h].bytes <= ReadBy(Final(h)) - ReadBy(First(h))
UsageInv == UsageTypes /\ ReadInOrder /\ MovedInv /\ BaseInv /\ RowsInv

LEMMA HourFacts ==
  ASSUME NEW t \in Nat
  PROVE  HourOf(t) \in Nat /\ HourOf(t) * HourTicks <= t /\ t < (HourOf(t) + 1) * HourTicks
BY TicksAssumption DEF HourOf
LEMMA HourBounds ==
  ASSUME NEW h \in Hours
  PROVE  First(h) \in Int /\ Final(h) \in Int /\ First(h) <= Final(h)
<1>1. h \in Nat BY DEF Hours
<1>2. PICK a : a = h * HourTicks OBVIOUS
<1>3. a \in Int /\ (h + 1) * HourTicks = a + HourTicks BY <1>1, <1>2, TicksAssumption
<1> QED BY <1>2, <1>3, TicksAssumption DEF First, Final

LEMMA MovedByFacts ==
  ASSUME UsageInv
  PROVE  /\ \A t \in Int : MovedBy(t) \in Nat
         /\ \A s, t \in Int : s <= t => MovedBy(s) <= MovedBy(t)
         /\ \A a \in Taken, t \in Int : (t < a.at => MovedBy(t) <= a.by) /\ (t >= a.at => a.by <= MovedBy(t))
<1>1. ASSUME NEW t \in Int PROVE MovedBy(t) \in Nat
  BY <1>1, TicksAssumption DEF MovedBy, UsageInv, UsageTypes
<1>2. ASSUME NEW s \in Int, NEW t \in Int, s <= t PROVE MovedBy(s) <= MovedBy(t)
  BY <1>2, TicksAssumption DEF MovedBy, UsageInv, UsageTypes, MovedInv
<1>3. ASSUME NEW a \in Taken, NEW t \in Int
      PROVE (t < a.at => MovedBy(t) <= a.by) /\ (t >= a.at => a.by <= MovedBy(t))
  <2>1. a \in Reads BY DEF UsageInv, UsageTypes, Taken, AtRest
  <2>2. ReadThen(a) BY DEF UsageInv, ReadInOrder
  <2>3. MovedBy(a.at) = moved[a.at] /\ (a.at > 0 => MovedBy(a.at - 1) = moved[a.at - 1])
    <3>1. PICK at : at = a.at OBVIOUS
    <3>2. at \in Nat /\ at <= MaxClock BY <2>1, <2>2, <3>1, TicksAssumption DEF UsageInv, UsageTypes, ReadThen, Reads
    <3> QED BY <3>1, <3>2, TicksAssumption DEF MovedBy
  <2>4. CASE t >= a.at BY <1>1, <1>2, <2>1, <2>2, <2>3, <2>4 DEF ReadThen, Reads
  <2>5. CASE t < a.at
    <3>1. CASE a.at > 0 BY <1>1, <1>2, <2>1, <2>2, <2>3, <2>5, <3>1 DEF ReadThen, Reads
    <3>2. CASE a.at = 0 BY <2>1, <2>5, <3>2 DEF MovedBy, Reads
    <3> QED BY <2>1, <3>1, <3>2 DEF Reads
  <2> QED BY <2>1, <2>4, <2>5 DEF Reads
<1> QED BY <1>1, <1>2, <1>3

\* What one reading adds, where the baseline is the reading before or none.
LEMMA FoldBounds ==
  ASSUME NEW n \in Reads, NEW r \in Reads, Before(n, r), NEW prev, prev = NoBase \/ prev = [rx |-> n.rx, at |-> n.at]
  PROVE  /\ Fold(r, prev) \in HourRows
         /\ Fold(r, prev).bytes <= r.by - n.by /\ Fold(r, prev).seconds <= r.at - n.at
         /\ Fold(r, prev).bytes # 0 => r.at - n.at <= MaxBaselineAge
<1>1. /\ r.rx \in Nat /\ n.rx \in Nat /\ r.by \in Nat /\ n.by \in Nat /\ r.at \in Nat /\ n.at \in Nat
      /\ n.by <= r.by /\ n.at <= r.at /\ Since(n, r.rx, r.by)
  BY DEF Reads, Before
<1>2. PICK row : row = Fold(r, prev) OBVIOUS
<1>3. ASSUME NEW b \in 0..1, row = [beats |-> 1, bytes |-> 0, seconds |-> 0, lost |-> b]
      PROVE  row \in HourRows /\ row.bytes <= r.by - n.by /\ row.seconds <= r.at - n.at /\ (row.bytes # 0 => r.at - n.at <= MaxBaselineAge)
  BY <1>1, <1>3 DEF HourRows
<1>4. /\ [NoUsage EXCEPT !.beats = 1] = [beats |-> 1, bytes |-> 0, seconds |-> 0, lost |-> 0]
      /\ [NoUsage EXCEPT !.beats = 1, !.lost = 1] = [beats |-> 1, bytes |-> 0, seconds |-> 0, lost |-> 1]
  <2>1. PICK u : u = NoUsage OBVIOUS
  <2>2. u = [beats |-> 0, bytes |-> 0, seconds |-> 0, lost |-> 0] BY <2>1 DEF NoUsage
  <2>3. [u EXCEPT !.beats = 1] = [beats |-> 1, bytes |-> 0, seconds |-> 0, lost |-> 0] BY <2>2
  <2>4. [u EXCEPT !.beats = 1, !.lost = 1] = [beats |-> 1, bytes |-> 0, seconds |-> 0, lost |-> 1]
    <3>1. PICK v : v = [beats |-> 1, bytes |-> 0, seconds |-> 0, lost |-> 0] OBVIOUS
    <3>2. [v EXCEPT !.lost = 1] = [beats |-> 1, bytes |-> 0, seconds |-> 0, lost |-> 1] BY <3>1
    <3>3. [u EXCEPT !.beats = 1, !.lost = 1] = [v EXCEPT !.lost = 1] BY <2>3, <3>1, Zenon
    <3> QED BY <3>2, <3>3
  <2> QED BY <2>1, <2>3, <2>4
<1>5. ASSUME row # [NoUsage EXCEPT !.beats = 1], row # [NoUsage EXCEPT !.beats = 1, !.lost = 1]
      PROVE  row \in HourRows /\ row.bytes <= r.by - n.by /\ row.seconds <= r.at - n.at /\ (row.bytes # 0 => r.at - n.at <= MaxBaselineAge)
  <2>1. /\ prev # NoBase /\ r.at - prev.at > 0 /\ ~(r.at - prev.at > MaxBaselineAge)
        /\ row = [beats |-> 1, lost |-> 0, bytes |-> CounterDelta(prev.rx, r.rx), seconds |-> r.at - prev.at]
    <3>1. prev # NoBase /\ ~(r.at - prev.at <= 0) BY <1>2, <1>5 DEF Fold
    <3>2. ~(r.at - prev.at > MaxBaselineAge) BY <1>2, <1>5, <3>1 DEF Fold
    <3>3. prev.at \in Int BY <1>1, <3>1
    <3>4. row = [beats |-> 1, lost |-> 0, bytes |-> CounterDelta(prev.rx, r.rx), seconds |-> r.at - prev.at]
      BY <1>2, <3>1, <3>2 DEF Fold
    <3> QED BY <1>1, <3>1, <3>2, <3>3, <3>4
  <2>2. prev.rx = n.rx /\ prev.at = n.at BY <2>1
  <2>3. CounterDelta(n.rx, r.rx) \in Nat /\ CounterDelta(n.rx, r.rx) <= r.by - n.by BY <1>1 DEF CounterDelta, Since
  <2> QED BY <1>1, <2>1, <2>2, <2>3, TicksAssumption DEF HourRows
<1> QED BY <1>2, <1>3, <1>4, <1>5
LEMMA FoldTypes ==
  ASSUME NEW r \in Reads, NEW prev \in [rx : Int, at : Nat]
  PROVE  Fold(r, prev) \in HourRows
<1>1. PICK row : row = Fold(r, prev) OBVIOUS
<1>2. PICK u : u = NoUsage OBVIOUS
<1>3. u = [beats |-> 0, bytes |-> 0, seconds |-> 0, lost |-> 0] BY <1>2 DEF NoUsage
<1>4. [u EXCEPT !.beats = 1] \in HourRows /\ [u EXCEPT !.beats = 1, !.lost = 1] \in HourRows BY <1>3 DEF HourRows
<1>5. r.rx \in Nat /\ r.at \in Nat /\ prev.rx \in Int /\ prev.at \in Nat BY DEF Reads
<1>6. CounterDelta(prev.rx, r.rx) \in Nat BY <1>5 DEF CounterDelta
<1>7. r.at - prev.at > 0 => [beats |-> 1, lost |-> 0, bytes |-> CounterDelta(prev.rx, r.rx), seconds |-> r.at - prev.at] \in HourRows
  BY <1>5, <1>6 DEF HourRows
<1>8. \/ row = [u EXCEPT !.beats = 1] \/ row = [u EXCEPT !.beats = 1, !.lost = 1]
      \/ r.at - prev.at > 0 /\ row = [beats |-> 1, lost |-> 0, bytes |-> CounterDelta(prev.rx, r.rx), seconds |-> r.at - prev.at]
  BY <1>1, <1>2, <1>5 DEF Fold
<1> QED BY <1>1, <1>4, <1>7, <1>8

LEMMA ReadingsStart == ReadingsInit => UsageInv
<1> SUFFICES ASSUME ReadingsInit PROVE UsageInv OBVIOUS
<1>1. NoReading \in Reads /\ NoUsage \in HourRows /\ AtRest.pc = "idle" /\ NoBase \in [rx : Int, at : Nat]
  BY DEF NoReading, NoUsage, AtRest, NoBase, Reads, HourRows
<1>2. /\ cont.id = 1 /\ cont.rx = 0 /\ {"id", "rx"} \subseteq DOMAIN cont
      /\ "redeploy" \in DOMAIN left /\ left["redeploy"] \in Nat
  BY ScenariosAssumption DEF ReadingsInit, Fresh
<1>3. /\ seq.newest = NoReading /\ seq.taken = 0 /\ Taken = {NoReading} /\ seq \in [taken : Nat, newest : Reads, crossed : BOOLEAN]
  BY <1>1 DEF ReadingsInit, Taken
<1>4. UsageTypes BY <1>1, <1>2, <1>3, TicksAssumption DEF ReadingsInit, UsageTypes
<1>5. ReadInOrder
  <2>1. NoReading.by = 0 /\ NoReading.at = 0 /\ NoReading.id = 1 /\ NoReading.no = 0 /\ NoReading.rx = 0 BY DEF NoReading
  <2>2. ReadThen(NoReading) BY <1>2, <1>3, <2>1, TicksAssumption DEF ReadThen, Since, ReadingsInit
  <2> QED BY <1>1, <1>3, <2>1, <2>2 DEF ReadInOrder, ReadingsInit
<1>6. MovedInv BY TicksAssumption DEF MovedInv, ReadingsInit
<1>7. BaseInv BY DEF BaseInv, ReadingsInit
<1>8. RowsInv
  <2>1. NoUsage.bytes = 0 /\ NoUsage.seconds = 0 /\ NoReading.by = 0 /\ NoReading.at = 0 BY DEF NoUsage, NoReading
  <2>2. \A t \in Int : MovedBy(t) = 0 BY TicksAssumption DEF ReadingsInit, MovedBy
  <2>3. \A h \in Hours : ReadBy(First(h)) = 0 /\ ReadBy(Final(h)) = 0 BY <1>3, <2>1, <2>2, HourBounds DEF ReadBy, Least
  <2> QED BY <1>3, <2>1, <2>3 DEF RowsInv, ReadingsInit
<1> QED BY <1>4, <1>5, <1>6, <1>7, <1>8 DEF UsageInv

\* Nothing of the usage moves but what is in hand, and that only from listed to stamped or away.
LEMMA Elsewhere ==
  ASSUME UsageInv, UNCHANGED <<clock, moved, base, hours, counted>>,
         {"id", "rx"} \subseteq DOMAIN cont', cont'.id = cont.id, cont'.rx = cont.rx,
         "redeploy" \in DOMAIN left', left'["redeploy"] = left["redeploy"],
         sampler' = sampler, seq' = seq
  PROVE  UsageInv'
<1>1. UsageTypes' BY DEF UsageInv, UsageTypes
<1>2. Taken' = Taken BY DEF Taken
<1>3. ReadInOrder' BY <1>2 DEF UsageInv, ReadInOrder, ReadThen, Before, Since
<1>4. MovedInv' /\ BaseInv' BY DEF UsageInv, MovedInv, BaseInv
<1>5. RowsInv' BY DEF UsageInv, RowsInv, ReadBy, MovedBy
<1> QED BY <1>1, <1>3, <1>4, <1>5 DEF UsageInv

LEMMA BeginsAnew ==
  ASSUME UsageInv, StartAgain \/ Redeploy
  PROVE  UsageInv'
<1>1. /\ UNCHANGED <<clock, moved, sampler, base, hours, counted, seq>>
      /\ {"id", "rx"} \subseteq DOMAIN cont' /\ cont'.rx = 0
      /\ cont'.id \in Nat \ {0} /\ cont'.id >= cont.id /\ "redeploy" \in DOMAIN left' /\ left'["redeploy"] \in Nat
      /\ cont'.id + left'["redeploy"] = cont.id + left["redeploy"]
  <2>1. CASE StartAgain BY SMTT(30), <2>1 DEF StartAgain, StartRun, UsageInv, UsageTypes, usage
  <2>2. CASE Redeploy BY <2>2 DEF Redeploy, Fresh, Allow, UsageInv, UsageTypes, usage
  <2> QED BY <2>1, <2>2
<1>2. UsageTypes' BY <1>1 DEF UsageInv, UsageTypes
<1>3. Taken' = Taken BY <1>1 DEF Taken
<1>4. ReadInOrder'
  <2>1. ASSUME NEW a \in Taken PROVE ReadThen(a)'
    <3>1. ReadThen(a) /\ a \in Reads BY DEF UsageInv, ReadInOrder, UsageTypes, Taken, AtRest
    <3>2. a.by <= moved[clock]
      <4>1. a.at \in 0..MaxClock BY SMTT(30), <3>1, TicksAssumption DEF ReadThen, Reads, UsageInv, UsageTypes
      <4> QED BY SMTT(30), <3>1, <4>1 DEF ReadThen, Reads, UsageInv, UsageTypes, MovedInv
    <3>3. Since(a, cont'.rx, moved'[clock'])
      <4>1. a.by \in Nat /\ moved'[clock'] \in Nat /\ a.by <= moved'[clock'] BY <1>1, <3>1, <3>2 DEF Reads, UsageInv, UsageTypes
      <4> QED BY <1>1, <4>1 DEF Since
    <3>4. a.id <= cont'.id BY SMTT(30), <1>1, <3>1 DEF ReadThen, Reads, UsageInv, UsageTypes
    <3> QED BY <1>1, <3>1, <3>3, <3>4 DEF ReadThen
  <2> QED BY <1>1, <1>3, <2>1 DEF UsageInv, ReadInOrder, Before, Since
<1>5. MovedInv' /\ BaseInv' BY <1>1 DEF UsageInv, MovedInv, BaseInv
<1>6. RowsInv' BY <1>1 DEF UsageInv, RowsInv, ReadBy, MovedBy
<1> QED BY <1>2, <1>4, <1>5, <1>6 DEF UsageInv

\* What is known of each reading: its fields, and that what it saw is behind the counter and the clock.
LEMMA TakenFacts ==
  ASSUME UsageInv, NEW a \in Taken
  PROVE  /\ a \in Reads /\ ReadThen(a) /\ a.at \in 0..MaxClock
         /\ moved[clock] \in Nat /\ moved[a.at] \in Nat /\ a.by <= moved[clock]
<1>1. ReadThen(a) /\ a \in Reads BY DEF UsageInv, ReadInOrder, UsageTypes, Taken, AtRest
<1>2. a.at \in 0..MaxClock BY SMTT(30), <1>1, TicksAssumption DEF ReadThen, Reads, UsageInv, UsageTypes
<1> QED BY SMTT(30), <1>1, <1>2 DEF ReadThen, Reads, UsageInv, UsageTypes, MovedInv

LEMMA TrafficCounts == ASSUME UsageInv, Traffic PROVE UsageInv'
<1>1. /\ UNCHANGED <<clock, sampler, base, hours, counted, seq>>
      /\ {"id", "rx"} \subseteq DOMAIN cont' /\ cont'.rx = cont.rx + 1 /\ cont'.id = cont.id
      /\ "redeploy" \in DOMAIN left' /\ left'["redeploy"] = left["redeploy"]
  BY DEF Traffic, Allow, UsageInv, UsageTypes
<1>2. moved' = [t \in 0..MaxClock |-> IF t >= clock THEN moved[t] + 1 ELSE moved[t]] BY DEF Traffic
<1>3. UsageTypes' BY <1>1, <1>2 DEF UsageInv, UsageTypes
<1>4. MovedInv' BY SMTT(30), <1>1, <1>2, TicksAssumption DEF UsageInv, UsageTypes, MovedInv
<1>5. Taken' = Taken BY <1>1 DEF Taken
<1>6. ReadInOrder'
  <2>1. ASSUME NEW a \in Taken PROVE ReadThen(a)'
    <3>1. ReadThen(a) /\ a \in Reads /\ a.at \in 0..MaxClock BY TakenFacts
    <3>2. moved'[clock] = moved[clock] + 1 /\ moved[clock] \in Nat BY <1>2, TicksAssumption DEF UsageInv, UsageTypes
    <3>3. Since(a, cont'.rx, moved'[clock'])
      <4>1. Since(a, cont.rx, moved[clock]) /\ cont.rx \in Nat /\ a.rx \in Nat /\ a.by \in Nat
        BY <3>1 DEF ReadThen, Reads, UsageInv, UsageTypes
      <4> QED BY <1>1, <3>2, <4>1 DEF Since
    <3>4. moved'[a.at] >= moved[a.at] /\ moved[a.at] \in Nat /\ moved'[a.at] \in Nat
      BY <1>2, <3>1 DEF UsageInv, UsageTypes
    <3>5. a.at > 0 => moved'[a.at - 1] = moved[a.at - 1]
      <4>1. a.at \in Nat /\ a.at <= clock BY <3>1 DEF ReadThen, Reads
      <4>2. a.at > 0 => a.at - 1 \in 0..MaxClock /\ a.at - 1 < clock
        <5>1. PICK at : at = a.at OBVIOUS
        <5>2. clock \in Nat /\ clock <= MaxClock BY TicksAssumption DEF UsageInv, UsageTypes
        <5> QED BY <4>1, <5>1, <5>2, TicksAssumption
      <4> QED BY <1>2, <4>2, TicksAssumption DEF UsageInv, UsageTypes
    <3>6. a.by <= moved'[a.at] BY <3>1, <3>4 DEF ReadThen, Reads
    <3> QED BY <1>1, <3>1, <3>3, <3>5, <3>6 DEF ReadThen
  <2> QED BY <1>1, <1>5, <2>1 DEF UsageInv, ReadInOrder, Before, Since
<1>7. BaseInv' BY <1>1 DEF UsageInv, BaseInv
<1>8. RowsInv'
  <2>1. ASSUME NEW t \in Int PROVE ReadBy(t)' = ReadBy(t)
    <3>1. seq.newest \in Taken BY DEF Taken
    <3>2. seq.newest \in Reads /\ ReadThen(seq.newest) BY <3>1, TakenFacts
    <3>3. CASE t < clock
      <4>1. MovedBy(t)' = MovedBy(t) BY <1>2, <3>3, TicksAssumption DEF MovedBy, UsageInv, UsageTypes
      <4> QED BY <1>1, <4>1 DEF ReadBy
    <3>4. CASE t >= clock
      <4>1. MovedBy(t)' = MovedBy(t) + 1 BY <1>2, <3>4, TicksAssumption DEF MovedBy, UsageInv, UsageTypes
      <4>2. seq.newest.at <= clock BY <3>2 DEF ReadThen
      <4>3. MovedBy(t) >= seq.newest.by /\ MovedBy(t) \in Nat
        <5>1. PICK n : n = seq.newest OBVIOUS
        <5>2. n \in Taken /\ n.at \in Nat /\ n.by \in Nat /\ n.at <= t
          BY <3>1, <3>2, <3>4, <4>2, <5>1 DEF Reads, UsageInv, UsageTypes
        <5>3. n.by <= MovedBy(t) /\ MovedBy(t) \in Nat BY <5>2, MovedByFacts
        <5> QED BY <5>1, <5>2, <5>3
      <4> QED BY <1>1, <3>2, <4>1, <4>3 DEF ReadBy, Least, Reads
    <3> QED BY <3>3, <3>4 DEF UsageInv, UsageTypes
  <2>2. \A h \in Hours : ReadBy(First(h))' = ReadBy(First(h)) /\ ReadBy(Final(h))' = ReadBy(Final(h))
    BY <2>1, HourBounds DEF First, Final
  <2> QED BY <1>1, <2>2 DEF UsageInv, RowsInv
<1> QED BY <1>3, <1>4, <1>6, <1>7, <1>8 DEF UsageInv

LEMMA TimePasses == ASSUME UsageInv, Tick PROVE UsageInv'
<1>1. /\ UNCHANGED <<cont, moved, sampler, base, hours, counted, seq>> /\ clock < MaxClock /\ clock' = clock + 1
      /\ \A p \in Samplers : sampler[p].pc # "listed"
      /\ "redeploy" \in DOMAIN left' /\ left'["redeploy"] = left["redeploy"]
  BY DEF Tick, Allow, UsageInv, UsageTypes
<1>2. UsageTypes' BY <1>1, TicksAssumption DEF UsageInv, UsageTypes
<1>3. moved'[clock'] = moved[clock] BY <1>1, TicksAssumption DEF UsageInv, UsageTypes, MovedInv
<1>4. MovedInv' BY <1>1, <1>3, TicksAssumption DEF UsageInv, UsageTypes, MovedInv
<1>5. Taken' = Taken BY <1>1 DEF Taken
<1>6. ReadInOrder'
  <2>1. ASSUME NEW a \in Taken PROVE ReadThen(a)'
    <3>1. ReadThen(a) /\ a.at \in 0..MaxClock BY TakenFacts
    <3> QED BY <1>1, <1>3, <3>1 DEF ReadThen, UsageInv, UsageTypes
  <2> QED BY <1>1, <1>5, <2>1 DEF UsageInv, ReadInOrder, Before, Since
<1>7. BaseInv' /\ RowsInv' BY <1>1 DEF UsageInv, BaseInv, RowsInv, ReadBy, MovedBy
<1> QED BY <1>2, <1>4, <1>6, <1>7 DEF UsageInv

LEMMA Lists == ASSUME UsageInv, NEW p \in Samplers, List(p) PROVE UsageInv'
<1>1. PICK r : r = [pc |-> "listed", id |-> cont.id, rx |-> cont.rx, at |-> clock, no |-> seq.taken + 1, by |-> moved[clock]]
  OBVIOUS
<1>2. /\ UNCHANGED <<cont, clock, moved, base, hours, counted>>
      /\ "redeploy" \in DOMAIN left' /\ left'["redeploy"] = left["redeploy"]
      /\ sampler' = [sampler EXCEPT ![p] = r] /\ seq' = [seq EXCEPT !.taken = @ + 1]
  BY <1>1 DEF List, Allow, UsageInv, UsageTypes
<1>3. /\ r \in Reads /\ r.at = clock /\ r.no = seq.taken + 1 /\ r.id = cont.id /\ r.rx = cont.rx /\ r.by = moved[clock]
      /\ r.pc = "listed" /\ moved[clock] \in Nat /\ clock \in 0..MaxClock /\ clock \in Nat
  BY <1>1, TicksAssumption DEF UsageInv, UsageTypes, Reads
<1>4. seq'.newest = seq.newest /\ seq'.taken = seq.taken + 1 /\ seq'.crossed = seq.crossed /\ seq' \in [taken : Nat, newest : Reads, crossed : BOOLEAN]
  <2>1. seq \in [taken : Nat, newest : Reads, crossed : BOOLEAN] BY DEF UsageInv, UsageTypes
  <2>2. PICK n : n = seq.taken + 1 OBVIOUS
  <2>3. n \in Nat BY <2>1, <2>2
  <2>4. seq' = [seq EXCEPT !.taken = n] BY <1>2, <2>2
  <2> HIDE DEF Reads
  <2> QED BY <2>1, <2>2, <2>3, <2>4
<1>5. UsageTypes' BY <1>2, <1>3, <1>4 DEF UsageInv, UsageTypes
<1>6. Taken' \subseteq Taken \cup {r} BY <1>2, <1>4 DEF Taken, UsageInv, UsageTypes
<1>7. ReadThen(r)'
  <2>1. clock > 0 => moved[clock - 1] <= moved[clock]
    <3>1. clock > 0 => clock - 1 \in 0..MaxClock BY <1>3, TicksAssumption
    <3> QED BY <1>3, <3>1 DEF UsageInv, MovedInv
  <2>2. Since(r, cont.rx, moved[clock]) BY <1>3 DEF Since, Reads
  <2> QED BY <1>2, <1>3, <1>4, <2>1, <2>2 DEF ReadThen, UsageInv, UsageTypes
<1>8. ASSUME NEW a \in Taken PROVE ReadThen(a)' /\ Before(a, r) /\ a.no < r.no
  <2>1. ReadThen(a) /\ a \in Reads /\ a.by <= moved[clock] BY TakenFacts
  <2>2. a.no <= seq.taken /\ a.no \in Nat /\ seq.taken \in Nat BY <2>1 DEF ReadThen, Reads, UsageInv, UsageTypes
  <2>3. ReadThen(a)' BY <1>2, <1>4, <2>1, <2>2 DEF ReadThen
  <2> QED BY <1>3, <2>1, <2>2, <2>3 DEF ReadThen, Before
<1>9. ReadInOrder'
  <2>1. \A a \in Taken' : ReadThen(a)' BY <1>6, <1>7, <1>8
  <2>2. ASSUME NEW a \in Taken', NEW b \in Taken', a.no < b.no PROVE Before(a, b)'
    <3>1. a \in Taken \cup {r} /\ b \in Taken \cup {r} BY <1>6
    <3>2. CASE a \in Taken /\ b \in Taken BY <2>2, <3>2 DEF UsageInv, ReadInOrder, Before, Since
    <3>3. CASE a \in Taken /\ b = r BY <1>8, <3>3 DEF Before, Since
    <3>4. a # r
      <4>1. CASE b \in Taken
        <5>1. b.no < r.no /\ b.no \in Nat /\ r.no \in Nat BY <1>3, <1>8, <4>1, TakenFacts DEF Reads
        <5> QED BY <2>2, <5>1
      <4>2. CASE b = r BY <1>3, <2>2, <4>2 DEF Reads
      <4> QED BY <3>1, <4>1, <4>2
    <3> QED BY <3>1, <3>2, <3>3, <3>4
  <2>3. \A q \in Samplers : sampler'[q].pc = "listed" => sampler'[q].at = clock'
    BY <1>2, <1>3 DEF UsageInv, UsageTypes, ReadInOrder
  <2> QED BY <2>1, <2>2, <2>3 DEF ReadInOrder
<1>10. MovedInv' BY <1>2 DEF UsageInv, MovedInv
<1>11. BaseInv' /\ RowsInv' BY <1>2, <1>4 DEF UsageInv, BaseInv, RowsInv, ReadBy, MovedBy
<1> QED BY <1>5, <1>9, <1>10, <1>11 DEF UsageInv

LEMMA Stamps == ASSUME UsageInv, NEW p \in Samplers, Stamp(p) PROVE UsageInv'
<1>1. PICK r, s : r = sampler[p] /\ s = [r EXCEPT !.pc = "stamped"] OBVIOUS
<1>2. r.pc = "listed" /\ r \in Reads /\ r.at = clock /\ r \in Taken
  BY <1>1 DEF Stamp, UsageInv, UsageTypes, AtRest, ReadInOrder, Taken
<1>3. /\ s \in Reads /\ s.pc = "stamped" /\ s.id = r.id /\ s.rx = r.rx /\ s.at = r.at /\ s.no = r.no /\ s.by = r.by
      /\ s = [r EXCEPT !.pc = "stamped", !.at = clock]
  BY <1>1, <1>2 DEF Reads
<1>4. UNCHANGED <<cont, clock, moved, base, hours, counted, seq, left>> /\ sampler' = [sampler EXCEPT ![p] = s]
  BY <1>1, <1>3 DEF Stamp, UsageInv, UsageTypes
<1>5. UsageTypes' BY <1>3, <1>4 DEF UsageInv, UsageTypes
<1>6. Taken' \subseteq Taken \cup {s} BY <1>3, <1>4 DEF Taken, UsageInv, UsageTypes
<1>7. \A b \in Taken' : \E a \in Taken : b.id = a.id /\ b.rx = a.rx /\ b.at = a.at /\ b.no = a.no /\ b.by = a.by
  BY <1>2, <1>3, <1>6
<1>8. ReadInOrder'
  <2>1. ASSUME NEW b \in Taken' PROVE ReadThen(b)'
    <3>1. PICK a \in Taken : b.id = a.id /\ b.rx = a.rx /\ b.at = a.at /\ b.no = a.no /\ b.by = a.by BY <1>7
    <3> QED BY <1>4, <3>1 DEF UsageInv, ReadInOrder, ReadThen, Since
  <2>2. ASSUME NEW b \in Taken', NEW d \in Taken', b.no < d.no PROVE Before(b, d)'
    <3>1. PICK a \in Taken : b.id = a.id /\ b.rx = a.rx /\ b.at = a.at /\ b.no = a.no /\ b.by = a.by BY <1>7
    <3>2. PICK c \in Taken : d.id = c.id /\ d.rx = c.rx /\ d.at = c.at /\ d.no = c.no /\ d.by = c.by BY <1>7
    <3> QED BY <2>2, <3>1, <3>2 DEF UsageInv, ReadInOrder, Before, Since
  <2>3. \A q \in Samplers : sampler'[q].pc = "listed" => sampler'[q].at = clock'
    BY <1>3, <1>4 DEF UsageInv, UsageTypes, ReadInOrder
  <2> QED BY <2>1, <2>2, <2>3 DEF ReadInOrder
<1>9. MovedInv' /\ BaseInv' BY <1>4 DEF UsageInv, MovedInv, BaseInv
<1>10. RowsInv' BY <1>4 DEF UsageInv, RowsInv, ReadBy, MovedBy
<1> QED BY <1>5, <1>8, <1>9, <1>10 DEF UsageInv

\* PurgeUsage, and the transaction that failed.
LEMMA Purges == ASSUME UsageInv, PurgeUsage PROVE UsageInv'
<1>1. PICK id \in DOMAIN base : base' = [base EXCEPT ![id] = NoBase] BY DEF PurgeUsage
<1>2. UNCHANGED <<cont, clock, moved, sampler, hours, counted, seq, left>> BY DEF PurgeUsage
<1>3. NoBase \in [rx : Int, at : Nat] BY DEF NoBase
<1>4. UsageTypes' BY <1>1, <1>2, <1>3 DEF UsageInv, UsageTypes
<1>5. Taken' = Taken BY <1>2 DEF Taken
<1>6. ReadInOrder' BY <1>2, <1>5 DEF UsageInv, ReadInOrder, ReadThen, Before, Since
<1>7. MovedInv' BY <1>2 DEF UsageInv, MovedInv
<1>8. BaseInv' BY <1>1, <1>2 DEF UsageInv, BaseInv, UsageTypes
<1>9. RowsInv' BY <1>2 DEF UsageInv, RowsInv, ReadBy, MovedBy
<1> QED BY <1>4, <1>6, <1>7, <1>8, <1>9 DEF UsageInv

LEMMA RowAdds ==
  ASSUME NEW a \in HourRows, NEW b \in HourRows, NEW c, c = [k \in DOMAIN NoUsage |-> a[k] + b[k]]
  PROVE  c \in HourRows /\ c.bytes = a.bytes + b.bytes /\ c.seconds = a.seconds + b.seconds
<1>1. DOMAIN NoUsage = {"beats", "bytes", "seconds", "lost"} BY DEF NoUsage
<1>2. c = [beats |-> a.beats + b.beats, bytes |-> a.bytes + b.bytes, seconds |-> a.seconds + b.seconds, lost |-> a.lost + b.lost]
  BY <1>1
<1> QED BY <1>2 DEF HourRows

\* A window that the reading before and this one lie in grows by all that moved between them.
LEMMA WindowGrows ==
  ASSUME NEW x \in Nat, NEW y \in Nat, x <= y, NEW a \in Nat, NEW b \in Nat, b <= a
  PROVE  /\ Least(a, x) - Least(b, x) <= Least(a, y) - Least(b, y)
         /\ b <= x /\ y <= a => Least(a, y) - Least(b, y) = Least(a, x) - Least(b, x) + (y - x)
BY DEF Least

LEMMA Records == ASSUME UsageInv, NEW p \in Samplers, RecordUsage(p) PROVE UsageInv'
<1>1. PICK r : r = sampler[p] OBVIOUS
<1>2. PICK n : n = seq.newest OBVIOUS
<1>3. /\ r.pc = "stamped" /\ r \in Reads /\ r \in Taken /\ n \in Taken /\ n \in Reads /\ ReadThen(r)
      /\ UNCHANGED <<cont, clock, moved, left>> /\ sampler' = [sampler EXCEPT ![p] = AtRest]
      /\ seq \in [taken : Nat, newest : Reads, crossed : BOOLEAN]
  BY <1>1, <1>2 DEF RecordUsage, UsageInv, UsageTypes, AtRest, Taken, ReadInOrder
<1>4. AtRest.pc = "idle" BY DEF AtRest
<1>5. sampler' \in [Samplers -> {AtRest} \cup Reads] BY <1>3 DEF UsageInv, UsageTypes
<1>6. ASSUME Taken' \subseteq Taken, seq'.taken = seq.taken PROVE ReadInOrder' /\ MovedInv'
  <2>1. \A q \in Samplers : sampler'[q].pc = "listed" => sampler'[q].at = clock'
    BY <1>3, <1>4 DEF UsageInv, UsageTypes, ReadInOrder
  <2> QED BY <1>3, <1>6, <2>1 DEF UsageInv, ReadInOrder, ReadThen, Before, Since, MovedInv
<1>7. CASE UNCHANGED <<base, hours, counted, seq>>
  <2>1. Taken' \subseteq Taken BY <1>3, <1>4, <1>7 DEF Taken, UsageInv, UsageTypes
  <2>2. UsageTypes' /\ BaseInv' BY <1>3, <1>5, <1>7 DEF UsageInv, UsageTypes, BaseInv
  <2>3. RowsInv' BY <1>3, <1>7 DEF UsageInv, RowsInv, ReadBy, MovedBy
  <2> QED BY <1>6, <1>7, <2>1, <2>2, <2>3 DEF UsageInv
<1>8. CASE /\ AddRow(HourOf(r.at), Fold(r, base[r.id]))
           /\ base' = [base EXCEPT ![r.id] = [rx |-> r.rx, at |-> r.at]]
           /\ seq' = IF r.no > seq.newest.no THEN [seq EXCEPT !.newest = r] ELSE [seq EXCEPT !.crossed = TRUE]
  <2>1. PICK d, h0 : d = Fold(r, base[r.id]) /\ h0 = HourOf(r.at) OBVIOUS
  <2>2. r.id \in DOMAIN base /\ base[r.id] \in [rx : Int, at : Nat]
    <3>1. PICK id : id = r.id OBVIOUS
    <3>2. id \in Nat \ {0} /\ id <= cont.id BY <1>3, <3>1 DEF Reads, ReadThen
    <3>3. id \in 1..(cont.id + left["redeploy"]) BY <3>2 DEF UsageInv, UsageTypes
    <3> QED BY <3>1, <3>3 DEF UsageInv, UsageTypes
  <2>3. d \in HourRows BY <1>3, <2>1, <2>2, FoldTypes
  <2>4. /\ hours' \in [Hours -> HourRows]
        /\ \A h \in Hours : hours'[h].bytes = IF h = h0 THEN hours[h].bytes + d.bytes ELSE hours[h].bytes
    <3>1. PICK c : c = [k \in DOMAIN NoUsage |-> hours[h0][k] + d[k]] OBVIOUS
    <3>2. hours' = [hours EXCEPT ![h0] = c] BY <1>8, <2>1, <3>1 DEF AddRow
    <3>3. h0 \in Hours => c \in HourRows /\ c.bytes = hours[h0].bytes + d.bytes
      BY <2>3, <3>1, RowAdds DEF UsageInv, UsageTypes
    <3> QED BY <3>2, <3>3 DEF UsageInv, UsageTypes
  <2>5. counted' \in HourRows /\ counted'.bytes = counted.bytes + d.bytes /\ counted'.seconds = counted.seconds + d.seconds
    <3>1. counted' = [k \in DOMAIN NoUsage |-> counted[k] + d[k]] /\ counted \in HourRows
      BY <1>8, <2>1 DEF AddRow, UsageInv, UsageTypes
    <3> QED BY <2>3, <3>1, RowAdds
  <2>6. base' \in [1..(cont.id + left["redeploy"]) -> [rx : Int, at : Nat]]
    <3>1. [rx |-> r.rx, at |-> r.at] \in [rx : Int, at : Nat] BY <1>3 DEF Reads
    <3> QED BY <1>8, <3>1 DEF UsageInv, UsageTypes
  <2>7. /\ seq' \in [taken : Nat, newest : Reads, crossed : BOOLEAN] /\ seq'.taken = seq.taken
        /\ seq'.newest \in {r, n}
        /\ ~seq'.crossed => ~seq.crossed /\ r.no > n.no /\ seq'.newest = r
    <3> HIDE DEF Reads
    <3>1. CASE r.no > n.no BY <1>2, <1>3, <1>8, <3>1
    <3>2. CASE ~(r.no > n.no) BY <1>2, <1>3, <1>8, <3>2
    <3> QED BY <3>1, <3>2
  <2>8. UsageTypes' BY <1>3, <1>5, <2>4, <2>5, <2>6, <2>7 DEF UsageInv, UsageTypes
  <2>9. Taken' \subseteq Taken BY <1>3, <1>4, <2>7 DEF Taken, UsageInv, UsageTypes
  <2>10. ASSUME ~seq'.crossed PROVE BaseInv' /\ RowsInv'
    <3>1. ~seq.crossed /\ seq'.newest = r /\ Before(n, r) BY <1>3, <2>7, <2>10 DEF UsageInv, ReadInOrder
    <3>2. base[r.id] = NoBase \/ base[r.id] = [rx |-> n.rx, at |-> n.at]
      BY <1>2, <1>3, <2>2, <3>1 DEF UsageInv, BaseInv, Before, Reads
    <3>3. /\ d.bytes \in Nat /\ d.seconds \in Nat /\ d.bytes <= r.by - n.by /\ d.seconds <= r.at - n.at
          /\ d.bytes # 0 => r.at - n.at <= MaxBaselineAge
      BY <1>3, <2>1, <2>3, <3>1, <3>2, FoldBounds DEF HourRows
    <3>4. BaseInv'
      <4>1. ASSUME NEW id \in DOMAIN base', base'[id] # NoBase
            PROVE  id < r.id \/ (id = r.id /\ base'[id] = [rx |-> r.rx, at |-> r.at])
        <5>1. DOMAIN base' = DOMAIN base /\ id \in Nat /\ n.id \in Nat /\ r.id \in Nat /\ n.id <= r.id
          BY SMTT(30), <1>3, <1>8, <3>1, <4>1 DEF UsageInv, UsageTypes, Before, Reads
        <5>2. CASE id = r.id BY <1>8, <2>2, <5>2
        <5>3. CASE id # r.id
          <6>1. base'[id] = base[id] BY <1>8, <5>1, <5>3
          <6>2. id < n.id \/ id = n.id BY <1>2, <3>1, <4>1, <5>1, <6>1 DEF UsageInv, BaseInv
          <6> QED BY <5>1, <5>3, <6>2
        <5> QED BY <5>2, <5>3
      <4> QED BY <3>1, <4>1 DEF BaseInv
    <3>5. /\ n.by \in Nat /\ r.by \in Nat /\ n.at \in Nat /\ r.at \in Nat /\ n.by <= r.by
          /\ counted.bytes \in Nat /\ counted.seconds \in Nat /\ counted.bytes <= n.by /\ counted.seconds <= n.at
      BY <1>2, <1>3, <3>1 DEF Reads, Before, HourRows, UsageInv, UsageTypes, RowsInv
    <3>6. ASSUME NEW h \in Hours PROVE (hours[h].bytes <= ReadBy(Final(h)) - ReadBy(First(h)))'
      <4>1. PICK a, b : a = MovedBy(Final(h)) /\ b = MovedBy(First(h)) OBVIOUS
      <4>2. First(h) \in Int /\ Final(h) \in Int /\ First(h) <= Final(h) BY HourBounds
      <4>3. a \in Nat /\ b \in Nat /\ b <= a BY <4>1, <4>2, MovedByFacts
      <4>4. MovedBy(Final(h))' = a /\ MovedBy(First(h))' = b BY <1>3, <4>1 DEF MovedBy, First, Final
      <4>5. hours[h].bytes \in Nat /\ hours[h].bytes <= Least(a, n.by) - Least(b, n.by)
        BY <1>2, <3>1, <4>1 DEF UsageInv, UsageTypes, HourRows, RowsInv, ReadBy
      <4>6. Least(a, n.by) - Least(b, n.by) <= Least(a, r.by) - Least(b, r.by) BY <3>5, <4>3, WindowGrows
      <4>7. Least(a, n.by) \in Nat /\ Least(b, n.by) \in Nat /\ Least(a, r.by) \in Nat /\ Least(b, r.by) \in Nat
        BY <3>5, <4>3 DEF Least
      <4>8. CASE h = h0 /\ d.bytes # 0
        <5>1. h * HourTicks <= r.at /\ r.at < (h + 1) * HourTicks /\ h \in Nat BY <2>1, <3>5, <4>8, HourFacts
        <5>2. First(h) < n.at /\ r.at <= Final(h)
          <6>1. PICK e, f : e = h * HourTicks /\ f = (h + 1) * HourTicks OBVIOUS
          <6>2. e \in Int /\ f \in Int BY <5>1, <6>1, TicksAssumption
          <6> QED BY <3>3, <3>5, <4>8, <5>1, <6>1, <6>2, TicksAssumption DEF First, Final
        <5>3. b <= n.by /\ r.by <= a BY <1>3, <3>5, <4>1, <4>2, <5>2, MovedByFacts
        <5>4. Least(a, r.by) - Least(b, r.by) = Least(a, n.by) - Least(b, n.by) + (r.by - n.by)
          BY <3>5, <4>3, <5>3, WindowGrows
        <5>5. hours'[h].bytes = hours[h].bytes + d.bytes BY <2>4, <4>8
        <5>6. hours'[h].bytes <= Least(a, r.by) - Least(b, r.by) BY <3>3, <3>5, <4>5, <4>7, <5>4, <5>5
        <5> QED BY <3>1, <4>4, <5>6 DEF ReadBy
      <4>9. CASE ~(h = h0 /\ d.bytes # 0)
        <5>1. hours'[h].bytes = hours[h].bytes BY <2>4, <4>5, <4>9
        <5>2. hours'[h].bytes <= Least(a, r.by) - Least(b, r.by) BY <4>5, <4>6, <4>7, <5>1
        <5> QED BY <3>1, <4>4, <5>2 DEF ReadBy
      <4> QED BY <4>8, <4>9
    <3>7. counted'.bytes <= seq'.newest.by /\ counted'.seconds <= seq'.newest.at BY <2>5, <3>1, <3>3, <3>5
    <3> QED BY <3>4, <3>6, <3>7 DEF RowsInv
  <2>11. BaseInv' /\ RowsInv' BY <2>10 DEF BaseInv, RowsInv
  <2> QED BY <1>6, <2>7, <2>8, <2>9, <2>11 DEF UsageInv
<1> QED BY <1>1, <1>7, <1>8 DEF RecordUsage

LEMMA UsageStep == UsageInv /\ [ReadingsNext]_readingVars => UsageInv'
<1> SUFFICES ASSUME UsageInv, [ReadingsNext]_readingVars PROVE UsageInv' OBVIOUS
<1>1. ASSUME UNCHANGED usage, {"id", "rx"} \subseteq DOMAIN cont', cont'.id = cont.id, cont'.rx = cont.rx,
             "redeploy" \in DOMAIN left', left'["redeploy"] = left["redeploy"]
      PROVE  UsageInv'
  BY <1>1, Elsewhere DEF usage
<1>2. {"id", "rx"} \subseteq DOMAIN cont /\ "redeploy" \in DOMAIN left BY DEF UsageInv, UsageTypes
<1>3. ASSUME NEW w, Says(w) PROVE UsageInv' BY <1>1, <1>2, <1>3 DEF Says, Allow
<1>4. ASSUME NEW st, Exit(st) PROVE UsageInv' BY <1>1, <1>2, <1>4 DEF Exit, Allow
<1>5. CASE Proven BY <1>1, <1>2, <1>5 DEF Proven, Allow
<1>6. CASE FaultShows \/ FaultEnds \/ Refresh \/ Due
  BY <1>1, <1>2, <1>6 DEF FaultShows, FaultEnds, Refresh, Due, Allow
<1>7. CASE Collect BY <1>1, <1>2, <1>7 DEF Collect
<1>8. CASE CheckStep BY <1>1, <1>2, <1>8 DEF CheckStep, ReadWindow, WindowUnread, KeepVerdict
<1>9. CASE Judging BY <1>1, <1>2, <1>9 DEF Judging, InspectRun, ReadLog, Assess
<1>10. CASE Sampling BY <1>10, Lists, Stamps, Records DEF Sampling
<1>11. CASE UNCHANGED readingVars BY <1>1, <1>2, <1>11 DEF readingVars
<1> QED BY <1>3, <1>4, <1>5, <1>6, <1>7, <1>8, <1>9, <1>10, <1>11, BeginsAnew, TrafficCounts, TimePasses, Purges DEF ReadingsNext

\* Traffic is never counted twice, nor an interval, and no hour shows more than was moved in it
\* or at most MaxBaselineAge before (RecordUsage, Fold), for any number of samplers, restarts,
\* replaced containers and failed transactions, while readings are recorded in the order they were taken.
THEOREM CountedOnceThm == ReadingsSpec => []CountedOnce
<1>1. UsageInv => CountedOnce
  <2> SUFFICES ASSUME UsageInv, ~seq.crossed 
      PROVE  /\ counted.bytes <= MovedBy(clock) /\ counted.seconds <= clock
             /\ \A h \in Hours : hours[h].bytes <= MovedBy(Final(h)) - MovedBy(First(h))
    BY DEF CountedOnce, First, Final
  <2>1. PICK n : n = seq.newest OBVIOUS
  <2>2. n \in Taken /\ n.by \in Nat /\ n.at \in Nat /\ n.by <= moved[clock] /\ n.at <= clock
    <3>1. n \in Taken BY <2>1 DEF Taken
    <3> QED BY <3>1, TakenFacts DEF Reads, ReadThen
  <2>3. MovedBy(clock) = moved[clock] /\ moved[clock] \in Nat /\ clock \in Nat
    BY TicksAssumption DEF MovedBy, UsageInv, UsageTypes
  <2>4. counted.bytes <= n.by /\ counted.seconds <= n.at /\ counted.bytes \in Nat /\ counted.seconds \in Nat
    BY <2>1 DEF UsageInv, UsageTypes, HourRows, RowsInv
  <2>5. ASSUME NEW h \in Hours PROVE hours[h].bytes <= MovedBy(Final(h)) - MovedBy(First(h))
    <3>1. PICK a, b : a = MovedBy(Final(h)) /\ b = MovedBy(First(h)) OBVIOUS
    <3>2. a \in Nat /\ b \in Nat /\ b <= a BY <3>1, HourBounds, MovedByFacts
    <3>3. hours[h].bytes \in Nat /\ hours[h].bytes <= Least(a, n.by) - Least(b, n.by)
      BY <2>1, <3>1 DEF UsageInv, UsageTypes, HourRows, RowsInv, ReadBy
    <3> QED BY <2>2, <3>1, <3>2, <3>3 DEF Least
  <2> QED BY <2>2, <2>3, <2>4, <2>5
<1> QED BY <1>1, ReadingsStart, UsageStep, PTL DEF ReadingsSpec

\* One check of the hours of log at a time, and the entry says that it runs; a check that the
\* service was found down under is known to be one.
OneCheck == \A c, d \in Checks : check[c] # AtRest => entry.running /\ (check[d] # AtRest => c = d)
VerdictInv ==
  /\ {"running", "hit"} \subseteq DOMAIN entry /\ {"verdict", "check", "crossed"} \subseteq DOMAIN past
  /\ OneCheck /\ check = [c \in Checks |-> check[c]]
  /\ entry.running /\ past.check => past.crossed
  /\ NoOldVerdict

LEMMA VerdictStep == VerdictInv /\ [ReadingsNext]_readingVars => VerdictInv'
<1> SUFFICES ASSUME VerdictInv, [ReadingsNext]_readingVars PROVE VerdictInv' OBVIOUS
<1>0. AtRest.pc = "idle" BY DEF AtRest
<1>1. CASE UNCHANGED <<entry, check, past>> BY <1>1 DEF VerdictInv, OneCheck, NoOldVerdict
<1>2. CASE Due
  <2>1. entry' = [entry EXCEPT !.due = TRUE] /\ UNCHANGED <<check, past>> BY <1>2 DEF Due
  <2> QED BY <2>1 DEF VerdictInv, OneCheck, NoOldVerdict
<1>3. CASE Collect
  <2>1. CASE forget /\ past' = [verdict |-> TRUE, check |-> TRUE, crossed |-> entry.running] /\ UNCHANGED check
    <3>1. {"running", "hit"} \subseteq DOMAIN NoVerdict /\ ~NoVerdict.running /\ ~NoVerdict.hit BY DEF NoVerdict
    <3>2. CASE entry.running
      <4>1. UNCHANGED <<entry, check>> /\ past'.crossed BY <2>1, <3>2 DEF forget
      <4> QED BY <2>1, <4>1 DEF VerdictInv, OneCheck, NoOldVerdict
    <3>3. CASE ~entry.running
      <4>1. entry' = NoVerdict /\ \A c \in Checks : check[c] = AtRest BY <2>1, <3>3 DEF forget, VerdictInv, OneCheck
      <4> QED BY <2>1, <3>1, <4>1 DEF VerdictInv, OneCheck, NoOldVerdict
    <3> QED BY <3>2, <3>3
  <2>2. CASE hits
    <3>1. CASE entry' = [entry EXCEPT !.there = TRUE] /\ UNCHANGED <<check, past>>
      BY <3>1 DEF VerdictInv, OneCheck, NoOldVerdict
    <3>2. CASE /\ ~entry.running /\ entry' = [entry EXCEPT !.there = TRUE, !.running = TRUE]
               /\ past' = [past EXCEPT !.check = FALSE]
               /\ \E c \in Checks : check[c] = AtRest /\ check' = [check EXCEPT ![c] = [pc |-> "read"]]
      <4>1. PICK c \in Checks : check[c] = AtRest /\ check' = [check EXCEPT ![c] = [pc |-> "read"]] BY <3>2
      <4>2. \A d \in Checks : check[d] = AtRest BY <3>2 DEF VerdictInv, OneCheck
      <4>3. {"running", "hit"} \subseteq DOMAIN entry' /\ entry'.running /\ entry'.hit = entry.hit BY <3>2 DEF VerdictInv
      <4>4. OneCheck' /\ check' = [d \in Checks |-> check'[d]] BY <4>1, <4>2, <4>3 DEF VerdictInv, OneCheck
      <4>5. /\ {"verdict", "check", "crossed"} \subseteq DOMAIN past' /\ ~past'.check
            /\ past'.verdict = past.verdict /\ past'.crossed = past.crossed
        BY <3>2 DEF VerdictInv
      <4> QED BY <4>3, <4>4, <4>5 DEF VerdictInv, NoOldVerdict
    <3> QED BY <2>2, <3>1, <3>2 DEF hits
  <2> QED BY <1>1, <1>3, <2>1, <2>2 DEF Collect
<1>4. ASSUME NEW c \in Checks, ReadWindow(c) \/ WindowUnread(c) \/ KeepVerdict(c) PROVE VerdictInv'
  <2>1. check[c] # AtRest /\ entry.running /\ \A d \in Checks : d # c => check[d] = AtRest
    BY <1>0, <1>4 DEF ReadWindow, WindowUnread, KeepVerdict, VerdictInv, OneCheck
  <2>2. CASE UNCHANGED <<entry, past>> /\ \E v : check' = [check EXCEPT ![c] = v]
    BY <2>1, <2>2 DEF VerdictInv, OneCheck, NoOldVerdict
  <2>3. CASE KeepVerdict(c)
    <3>1. check' = [check EXCEPT ![c] = AtRest] BY <2>3 DEF KeepVerdict
    <3>2. \A d \in Checks : check'[d] = AtRest BY <2>1, <3>1 DEF VerdictInv
    <3>3. {"running", "hit"} \subseteq DOMAIN entry' /\ ~entry'.running BY <2>3 DEF KeepVerdict
    <3>4. {"verdict", "check", "crossed"} \subseteq DOMAIN past' /\ NoOldVerdict'
      <4>1. CASE check[c].pc = "judged"
        <5>1. past' = [past EXCEPT !.verdict = past.check] BY <2>3, <4>1 DEF KeepVerdict
        <5> QED BY <2>1, <5>1 DEF VerdictInv, NoOldVerdict
      <4>2. CASE check[c].pc # "judged"
        <5>1. UNCHANGED past /\ entry'.hit = entry.hit BY <2>3, <4>2 DEF KeepVerdict
        <5> QED BY <5>1 DEF VerdictInv, NoOldVerdict
      <4> QED BY <4>1, <4>2
    <3> QED BY <3>1, <3>2, <3>3, <3>4 DEF VerdictInv, OneCheck
  <2> QED BY <1>4, <2>2, <2>3 DEF ReadWindow, WindowUnread
<1> QED BY <1>1, <1>2, <1>3, <1>4
    DEF ReadingsNext, Says, Exit, StartAgain, Redeploy, Proven, Traffic, Tick, Sampling, List, Stamp, RecordUsage, PurgeUsage,
        FaultShows, FaultEnds, Refresh, CheckStep, Judging, InspectRun, ReadLog, Assess, health, readingVars

LEMMA VerdictStart == ReadingsInit => VerdictInv
<1> SUFFICES ASSUME ReadingsInit PROVE VerdictInv OBVIOUS
<1>1. {"running", "hit"} \subseteq DOMAIN NoVerdict /\ ~NoVerdict.running /\ ~NoVerdict.hit BY DEF NoVerdict
<1> QED BY <1>1 DEF ReadingsInit, VerdictInv, OneCheck, NoOldVerdict

\* The hours of log are read once at a time, for any number of checks begun, and a verdict held
\* against a service that Collect found down and that came back was read after that, unless its
\* check was under way then (windowCache.forget, hits, refresh), for any sequence of restarts,
\* redeploys, failed reads and refreshes of the dashboard.
THEOREM BadgeIsCurrentThm == ReadingsSpec => []BadgeIsCurrent
<1>1. VerdictInv => OneCheckAtATime
  <2> SUFFICES ASSUME VerdictInv PROVE OneCheckAtATime OBVIOUS
  <2>1. PICK s : s = {c \in Checks : check[c] # AtRest} OBVIOUS
  <2>2. CASE s = {} BY <2>1, <2>2, FS_EmptySet DEF OneCheckAtATime
  <2>3. ASSUME NEW c, s = {c} PROVE OneCheckAtATime
    <3>1. Cardinality(s) = 1 BY <2>3, FS_Singleton
    <3> QED BY <2>1, <3>1 DEF OneCheckAtATime
  <2> QED BY <2>1, <2>2, <2>3 DEF VerdictInv, OneCheck
<1>2. VerdictInv => BadgeIsCurrent BY <1>1 DEF VerdictInv, BadgeIsCurrent
<1> QED BY <1>2, VerdictStart, VerdictStep, PTL DEF ReadingsSpec

------------------------------------------------------------------------------
(* ActivityRound: a namespace is known by how many connections its name had *)
(* when it was made, so two readings of one namespace differ by what was    *)
(* opened between them.                                                     *)

RoundSteps == {"todo", "start", "wait", "log", "remove", "done"}
Phases == {"idle", "list", "plan", "probe"}
ReadRows == [is : {"read"}, ns : Nat, opens : Nat, ever : Nat, counted : BOOLEAN, told : BOOLEAN,
             out : SUBSET (Names \cup {"the machine"})]
LastRows == [is : {"read"}, ns : Nat, opens : Nat, ever : Nat, recent : BOOLEAN]
BoxOf(n) == [name : {n}, id : Ids, up : BOOLEAN, earner : BOOLEAN, plain : BOOLEAN,
             mode : {"bridge", "host", "none", "container"}, joins : Nat, ns : Nat]

MachineInv ==
  /\ IsFiniteSet(Names)
  /\ box = [n \in Names |-> box[n]]
  /\ \A n \in Names : box[n] \in BoxOf(n)
  /\ opened \in [Names -> Nat] /\ ever \in [Names -> Nat]
  /\ fresh \in Nat
  /\ \A n, m \in Names : box[n].id \in Nat /\ box[n].id < fresh /\ (box[n].id = box[m].id => n = m)
\* A listed earner and a group name a container of the machine; an earner's is an earner.
IsListed(c) == c.name \in Names /\ c.id \in Ids /\ box[c.name].earner
IsGroup(g) ==
  /\ g.id \in Ids /\ g.name \in Names
  /\ g.kind \in {"cgroup", "netns"}
  /\ g.kind = "cgroup" \/ g.ours => box[g.name].earner
\* What a reading that tells the sockets apart may hold: its group's own, and in a namespace
\* those of what joined it, by an id that was there.
MayHold(name, kind, n) == n = name \/ (kind = "netns" /\ n \in Names /\ JoinsOnly(n, name) /\ box[n].joins < fresh)
HoldsNoElse(g, r) == g.kind = "netns" \/ r.told => \A n \in r.out : MayHold(g.name, g.kind, n)
RoundShape ==
  /\ round = [pc |-> round.pc, earners |-> round.earners, groups |-> round.groups, at |-> round.at,
              read |-> round.read, leftover |-> round.leftover, blind |-> round.blind]
  /\ round.pc \in Phases /\ (round.pc # "probe" => round.groups = {})
  /\ \A c \in round.earners : IsListed(c)
  /\ \A g \in round.groups : IsGroup(g)
  /\ round.groups # {} => /\ round.at = [g \in round.groups |-> round.at[g]]
                          /\ round.read = [g \in round.groups |-> round.read[g]]
  /\ \A g \in round.groups :
       /\ round.at[g] \in RoundSteps
       /\ round.read[g] # None => round.read[g] \in ReadRows /\ HoldsNoElse(g, round.read[g])
HelperInv ==
  /\ helper = [id \in Ids |-> helper[id]]
  /\ \A id \in Ids : helper[id] = [st |-> helper[id].st, stale |-> helper[id].stale]
LastInv ==
  /\ last = [id \in Ids |-> last[id]]
  /\ \A id \in Ids : last[id] # None => last[id] \in LastRows

WindowInv ==
  \A s \in window : /\ s.of \in Names /\ (s.delta.known => s.delta.opens = s.delta.truth)
                    /\ (s.out # {} => box[s.of].earner) /\ \A n \in s.out : MayHold(s.of, s.kind, n)

\* A namespace's mark: how much its name's connections were when it was made.
Mark(r) == <<r.ns, r.ever - r.opens>>
BoxMark(n) == <<box[n].ns, ever[n] - opened[n]>>
Marks ==
  {BoxMark(n) : n \in Names} \cup {Mark(last[id]) : id \in {k \in Ids : last[k] # None}}
    \cup {Mark(round.read[g]) : g \in {k \in round.groups : round.read[k] # None}}
MarkInv ==
  /\ \A m \in Marks : m[1] < fresh
  /\ \A m, k \in Marks : m[1] = k[1] => m[2] = k[2]

RoundInv == MachineInv /\ RoundShape /\ HelperInv /\ LastInv /\ MarkInv /\ WindowInv

\* A helper that read something has a group that is not done, or is told of.
Watched(id) == round.pc = "probe" /\ \E g \in round.groups : g.id = id /\ round.at[g] \notin {"todo", "done"}
LeftInv ==
  /\ ~up => round.pc = "idle"
  /\ round.pc # "idle" /\ ~round.blind =>
       \A id \in Ids : helper[id].st \in {"running", "exited"} => id \in round.leftover \/ Watched(id)

------------------------------------------------------------------------------
(* What the operators give.                                                *)

\* The container that has an id is the one found by it.
LEMMA OneById == ASSUME MachineInv, NEW k \in Names PROVE By(box[k].id) = k
<1>1. PICK id : id = box[k].id OBVIOUS
<1>2. \A n \in Names : box[n].id = id => n = k BY <1>1 DEF MachineInv
<1> QED BY <1>1, <1>2 DEF By

\* What joins the namespace of o joins an id that is there, and no namespace but o's.
LEMMA JoinedOwner ==
  ASSUME MachineInv, NEW n \in Names, NEW o, Joins(box[n]), o \in OwnerOf(box[n])
  PROVE  JoinsOnly(n, o) /\ box[n].joins < fresh
<1>1. PICK j : j = box[n].joins OBVIOUS
<1>2. PICK k \in Names : box[k].id = j BY <1>1 DEF OwnerOf, Found
<1>3. By(j) = k BY <1>2, OneById
<1>4. ~Joins(box[k]) => o = k BY <1>1, <1>3 DEF OwnerOf, Followed
<1>5. \A m \in Names : box[m].id = j => m = k BY <1>2 DEF MachineInv
<1>6. j < fresh BY <1>2 DEF MachineInv
<1> QED BY <1>1, <1>4, <1>5, <1>6 DEF JoinsOnly

LEMMA OwnersAreBoxes == \A c : OwnerOf(c) \subseteq Names
BY DEF OwnerOf

\* A group names a container of the machine, and one that counts as ours is an earner.
LEMMA GroupsFacts ==
  ASSUME MachineInv, RoundShape
  PROVE  \A g \in GroupsOf(round.earners) : IsGroup(g)
<1>1. \A c \in round.earners : IsListed(c)
  BY DEF RoundShape
<1>2. \A n \in Names : box[n].id \in Ids /\ box[n].name = n
  BY DEF MachineInv, BoxOf
<1>. DEFINE probed == {c \in round.earners : Fixed(c) = "probed"}
            inNet == {c \in probed : ~OnHost(c)}
            owners(c) == {[id |-> box[n].id, name |-> n] : n \in OwnerOf(c)}
            of(c) == IF Joins(c) THEN CHOOSE o \in owners(c) : TRUE ELSE [id |-> c.id, name |-> c.name]
            names == {c.name : c \in round.earners}
<1>3. GroupsOf(round.earners) =
        {Group(c.id, c.name, "cgroup", {c.name}, TRUE) : c \in probed \ inNet}
        \cup {Group(o.id, o.name, "netns", {c.name : c \in {x \in inNet : of(x) = o}}, o.name \in names) : o \in {of(c) : c \in inNet}}
  BY DEF GroupsOf
<1>4. ASSUME NEW c \in inNet
      PROVE  of(c).id \in Ids /\ of(c).name \in Names
  <2>1. c \in round.earners /\ Fixed(c) = "probed"
    OBVIOUS
  <2>2. CASE ~Joins(c)
    <3>1. of(c) = [id |-> c.id, name |-> c.name]
      BY <2>2
    <3>. QED  BY <3>1, <2>1, <1>1 DEF IsListed
  <2>3. CASE Joins(c)
    <3>1. OwnerOf(c) # {}
      BY <2>1, <2>3 DEF Fixed
    <3>2. of(c) \in owners(c)
      BY <3>1, <2>3
    <3>3. PICK n \in OwnerOf(c) : of(c) = [id |-> box[n].id, name |-> n]
      BY <3>2
    <3>. QED  BY <3>3, <1>2, OwnersAreBoxes
  <2>. QED  BY <2>2, <2>3
<1>5. ASSUME NEW c \in probed \ inNet
      PROVE  IsGroup(Group(c.id, c.name, "cgroup", {c.name}, TRUE))
  <2>1. c \in round.earners
    OBVIOUS
  <2>. QED  BY <2>1, <1>1 DEF IsGroup, Group, IsListed
<1>6. ASSUME NEW c \in inNet, NEW m, NEW b, b <=> of(c).name \in names
      PROVE  IsGroup(Group(of(c).id, of(c).name, "netns", m, b))
  <2>1. ASSUME NEW i \in Ids, NEW n \in Names, b <=> n \in names
        PROVE  IsGroup(Group(i, n, "netns", m, b))
    <3>1. n \in names => box[n].earner
      BY <1>1 DEF IsListed
    <3>. QED  BY <2>1, <3>1 DEF IsGroup, Group
  <2>. QED  BY <1>4, <1>6, <2>1
<1>7. ASSUME NEW g \in GroupsOf(round.earners)
      PROVE  IsGroup(g)
  <2>1. CASE \E c \in probed \ inNet : g = Group(c.id, c.name, "cgroup", {c.name}, TRUE)
    BY <2>1, <1>5
  <2>2. CASE \E c \in inNet : g = Group(of(c).id, of(c).name, "netns", {d.name : d \in {x \in inNet : of(x) = of(c)}}, of(c).name \in names)
    BY <2>2, <1>6, ZenonT(60)
  <2>. QED  BY <1>3, <2>1, <2>2
<1>. QED  BY <1>7

\* A reading of a group bears its container's mark.
LEMMA ReadingFacts ==
  ASSUME MachineInv, NEW g, IsGroup(g), NEW had \in BOOLEAN, NEW told \in BOOLEAN, g.kind = "netns" => told
  PROVE  /\ Reading(g, had, told) \in ReadRows /\ Reading(g, had, told) # None
         /\ Mark(Reading(g, had, told)) = BoxMark(g.name)
         /\ HoldsNoElse(g, Reading(g, had, told))
         /\ Reading(g, had, told).told = told
<1>1. PICK n \in Names : n = g.name
  BY DEF IsGroup
<1>2. box[n].ns \in Nat /\ opened[n] \in Nat /\ ever[n] \in Nat
  BY DEF MachineInv, BoxOf
<1>3. PICK s : s = IF told THEN Openers(g) ELSE Names \cup {"the machine"}
  OBVIOUS
<1>4. s \in SUBSET (Names \cup {"the machine"})
  BY <1>3, <1>1 DEF Openers
<1>5. told => \A k \in s : MayHold(n, g.kind, k)
  BY <1>3, <1>1, JoinedOwner DEF Openers, InNamespace, MayHold, IsGroup
<1>6. Reading(g, had, told) = [is |-> "read", ns |-> box[n].ns, opens |-> opened[n], ever |-> ever[n],
                                   counted |-> had, told |-> told, out |-> s]
  BY <1>1, <1>3 DEF Reading
<1>7. PICK r : r = Reading(g, had, told)
  OBVIOUS
<1>8. /\ r.is = "read" /\ r.ns = box[n].ns /\ r.opens = opened[n] /\ r.ever = ever[n]
      /\ r.counted = had /\ r.told = told /\ r.out = s
  BY <1>6, <1>7
<1>9. r \in ReadRows
  <2>1. PICK x, y, z : x = box[n].ns /\ y = opened[n] /\ z = ever[n]
    OBVIOUS
  <2>2. PICK outs : outs = SUBSET (Names \cup {"the machine"})
    OBVIOUS
  <2>3. r = [is |-> "read", ns |-> x, opens |-> y, ever |-> z, counted |-> had, told |-> told, out |-> s]
    BY <1>6, <1>7, <2>1
  <2>4. x \in Nat /\ y \in Nat /\ z \in Nat /\ s \in outs
    BY <1>2, <1>4, <2>1, <2>2
  <2>5. r \in [is : {"read"}, ns : Nat, opens : Nat, ever : Nat, counted : BOOLEAN, told : BOOLEAN, out : outs]
    BY <2>3, <2>4
  <2>. QED  BY <2>5, <2>2 DEF ReadRows
<1>10. r # None
  BY <1>8 DEF None
<1>11. Mark(r) = BoxMark(g.name)
  BY <1>8, <1>1 DEF Mark, BoxMark
<1>12. HoldsNoElse(g, r)
  BY <1>1, <1>5, <1>8 DEF HoldsNoElse
<1>. QED  BY <1>7, <1>8, <1>9, <1>10, <1>11, <1>12

------------------------------------------------------------------------------
(* What a step leaves.                                                     *)

LEMMA MachineStays ==
  ASSUME MachineInv, UNCHANGED machine
  PROVE  /\ MachineInv'
         /\ \A c : IsListed(c)' <=> IsListed(c)
         /\ \A g : IsGroup(g)' <=> IsGroup(g)
         /\ \A g, r : HoldsNoElse(g, r)' <=> HoldsNoElse(g, r)
         /\ ReadRows' = ReadRows
<1>. USE DEF machine, Names
<1>1. MachineInv'
  BY DEF MachineInv, BoxOf
<1>2. \A c : IsListed(c)' <=> IsListed(c)
  BY DEF IsListed
<1>3. \A g : IsGroup(g)' <=> IsGroup(g)
  BY DEF IsGroup
<1>4. ReadRows' = ReadRows
  BY DEF ReadRows
<1>5. \A g, r : HoldsNoElse(g, r)' <=> HoldsNoElse(g, r)
  BY DEF HoldsNoElse, MayHold, JoinsOnly, Joins
<1>. QED  BY <1>1, <1>2, <1>3, <1>4, <1>5

LEMMA WindowStays ==
  ASSUME WindowInv, UNCHANGED <<machine, window>>
  PROVE  WindowInv'
BY DEF WindowInv, MayHold, JoinsOnly, Joins, machine, Names

\* No mark is new.
LEMMA MarksStay ==
  ASSUME MarkInv, UNCHANGED machine,
         \A id \in Ids : last'[id] # None => Mark(last'[id]) \in Marks,
         \A g \in round'.groups : round'.read[g] # None => Mark(round'.read[g]) \in Marks
  PROVE  MarkInv'
<1>. USE DEF machine, Names
<1>1. \A n \in Names' : BoxMark(n)' \in Marks
  BY DEF Marks, BoxMark
<1>2. \A m \in Marks' : m \in Marks
  BY <1>1 DEF Marks, Mark
<1>. QED  BY <1>2 DEF MarkInv
LEMMA OldMarks ==
  /\ \A id \in Ids : last[id] # None => Mark(last[id]) \in Marks
  /\ \A g \in round.groups : round.read[g] # None => Mark(round.read[g]) \in Marks
  /\ \A n \in Names : BoxMark(n) \in Marks
BY DEF Marks

Moved(g, a, r, l) ==
  [pc |-> round.pc, earners |-> round.earners, groups |-> round.groups, at |-> [round.at EXCEPT ![g] = a],
   read |-> [round.read EXCEPT ![g] = r], leftover |-> l, blind |-> round.blind]
GoodReading(g, r) == r # None => r \in ReadRows /\ HoldsNoElse(g, r)
LEMMA GroupMoves ==
  ASSUME MachineInv, RoundShape, UNCHANGED machine, NEW g \in round.groups, NEW a \in RoundSteps, NEW r, NEW l,
         GoodReading(g, r), round' = Moved(g, a, r, l)
  PROVE  /\ RoundShape'
         /\ round'.pc = round.pc /\ round'.groups = round.groups
         /\ round'.leftover = l /\ round'.blind = round.blind
         /\ \A k \in round.groups : /\ round'.at[k] = IF k = g THEN a ELSE round.at[k]
                                    /\ round'.read[k] = IF k = g THEN r ELSE round.read[k]
<1>1. PICK at : at = [round.at EXCEPT ![g] = a]
  OBVIOUS
<1>2. PICK read : read = [round.read EXCEPT ![g] = r]
  OBVIOUS
<1>3. /\ round' = [pc |-> round.pc, earners |-> round.earners, groups |-> round.groups, at |-> at,
                   read |-> read, leftover |-> l, blind |-> round.blind]
      /\ round'.pc = round.pc /\ round'.groups = round.groups /\ round'.earners = round.earners
      /\ round'.leftover = l /\ round'.blind = round.blind /\ round'.at = at /\ round'.read = read
  BY <1>1, <1>2 DEF Moved
<1>4. /\ at = [k \in round.groups |-> IF k = g THEN a ELSE round.at[k]]
      /\ read = [k \in round.groups |-> IF k = g THEN r ELSE round.read[k]]
  BY <1>1, <1>2 DEF RoundShape
<1>5. \A k \in round.groups : /\ at[k] = IF k = g THEN a ELSE round.at[k]
                              /\ read[k] = IF k = g THEN r ELSE round.read[k]
  BY <1>4
<1>6. RoundShape'
  <2>1. round' = [pc |-> round'.pc, earners |-> round'.earners, groups |-> round'.groups, at |-> round'.at,
                  read |-> round'.read, leftover |-> round'.leftover, blind |-> round'.blind]
    BY <1>3
  <2>2. /\ round'.pc \in Phases /\ (round'.pc # "probe" => round'.groups = {})
        /\ \A c \in round'.earners : IsListed(c)'
        /\ \A k \in round'.groups : IsGroup(k)'
    BY <1>3, MachineStays DEF RoundShape
  <2>3. round'.at = [k \in round'.groups |-> round'.at[k]] /\ round'.read = [k \in round'.groups |-> round'.read[k]]
    BY <1>3, <1>4
  <2>4. ASSUME NEW k \in round'.groups
        PROVE  /\ round'.at[k] \in RoundSteps
               /\ round'.read[k] # None => round'.read[k] \in ReadRows /\ HoldsNoElse(k, round'.read[k])
    <3>1. CASE k = g
      BY <3>1, <1>3, <1>5 DEF GoodReading
    <3>2. CASE k # g
      BY <3>2, <1>3, <1>5 DEF RoundShape
    <3>. QED  BY <3>1, <3>2
  <2>. QED  BY <2>1, <2>2, <2>3, <2>4, MachineStays DEF RoundShape
<1>. QED  BY <1>3, <1>5, <1>6

RoundRecord(p, e, s, t, d, l, b) ==
  [pc |-> p, earners |-> e, groups |-> s, at |-> t, read |-> d, leftover |-> l, blind |-> b]
LEMMA StepMoves ==
  ASSUME RoundShape, NEW g \in round.groups, NEW a
  PROVE  /\ [round EXCEPT !.at[g] = a] = Moved(g, a, round.read[g], round.leftover)
         /\ \A r : [round EXCEPT !.at[g] = a, !.read[g] = r] = Moved(g, a, r, round.leftover)
         /\ GoodReading(g, round.read[g])
<1>1. [round.read EXCEPT ![g] = round.read[g]] = round.read
  BY DEF RoundShape
<1>2. round = RoundRecord(round.pc, round.earners, round.groups, round.at, round.read, round.leftover, round.blind)
  BY DEF RoundShape, RoundRecord
<1>3. PICK y : y = [round EXCEPT !.at[g] = a]
  OBVIOUS
<1>4. PICK at : at = [round.at EXCEPT ![g] = a]
  OBVIOUS
<1>10. PICK p, e, s, t, d, l, b : /\ p = round.pc /\ e = round.earners /\ s = round.groups /\ t = round.at
                                 /\ d = round.read /\ l = round.leftover /\ b = round.blind
  OBVIOUS
<1>5. y = RoundRecord(p, e, s, at, d, l, b)
  <2>1. PICK x : x = round
    OBVIOUS
  <2>2. x = [pc |-> p, earners |-> e, groups |-> s, at |-> t, read |-> d, leftover |-> l, blind |-> b]
    BY <2>1, <1>2, <1>10 DEF RoundRecord
  <2>3. at = [t EXCEPT ![g] = a] /\ y = [x EXCEPT !.at[g] = a]
    BY <1>3, <1>4, <1>10, <2>1
  <2>. QED  BY <2>2, <2>3 DEF RoundRecord
<1>6. y = Moved(g, a, round.read[g], round.leftover)
  BY <1>1, <1>4, <1>5, <1>10 DEF Moved, RoundRecord
<1>7. ASSUME NEW r
      PROVE  [round EXCEPT !.at[g] = a, !.read[g] = r] = Moved(g, a, r, round.leftover)
  <2>1. [round EXCEPT !.at[g] = a, !.read[g] = r] = [[round EXCEPT !.at[g] = a] EXCEPT !.read[g] = r]
    OBVIOUS
  <2>2. [y EXCEPT !.read[g] = r] =
          RoundRecord(p, e, s, at, [d EXCEPT ![g] = r], l, b)
    BY <1>5 DEF RoundRecord
  <2>. QED  BY <2>1, <2>2, <1>3, <1>4, <1>10 DEF Moved, RoundRecord
<1>9. GoodReading(g, round.read[g])
  BY DEF RoundShape, GoodReading
<1>. QED  BY <1>3, <1>6, <1>7, <1>9

\* A round before it plans has no group.
LEMMA EmptyRound ==
  ASSUME MachineInv, UNCHANGED machine, NEW p \in Phases, NEW e, \A c \in e : IsListed(c), NEW t, NEW d, NEW l, NEW b,
         round' = [pc |-> p, earners |-> e, groups |-> {}, at |-> t, read |-> d, leftover |-> l, blind |-> b]
  PROVE  /\ RoundShape'
         /\ round'.pc = p /\ round'.groups = {} /\ round'.leftover = l /\ round'.blind = b
<1>1. /\ round'.pc = p /\ round'.groups = {} /\ round'.leftover = l /\ round'.blind = b /\ round'.earners = e
      /\ round'.at = t /\ round'.read = d
  OBVIOUS
<1>2. round' = [pc |-> round'.pc, earners |-> round'.earners, groups |-> round'.groups, at |-> round'.at,
                read |-> round'.read, leftover |-> round'.leftover, blind |-> round'.blind]
  BY <1>1
<1>. QED  BY <1>1, <1>2, MachineStays DEF RoundShape

LEMMA SweepFacts ==
  ASSUME MachineInv, HelperInv, UNCHANGED machine, NEW p \in Phases, Sweep(p)
  PROVE  /\ RoundShape' /\ HelperInv'
         /\ round'.pc = p /\ round'.groups = {}
         /\ round'.blind \/ \A id \in Ids : helper'[id].st \in {"running", "exited"} => id \in round'.leftover
<1>. DEFINE Empty(l, b) == [pc |-> p, earners |-> {}, groups |-> {}, at |-> <<>>, read |-> <<>>, leftover |-> l, blind |-> b]
<1>1. ASSUME NEW l, NEW b, round' = Empty(l, b)
      PROVE  RoundShape' /\ round'.pc = p /\ round'.groups = {} /\ round'.leftover = l /\ round'.blind = b
  BY <1>1, EmptyRound
<1>2. ASSUME NEW gone, Swept({id \in gone : ShouldSweep(helper[id], TRUE)}), gone \subseteq Ids
      PROVE  /\ HelperInv'
             /\ \A id \in gone : helper'[id].st = "none"
  <2>1. helper' = [id \in Ids |-> IF id \in gone /\ ShouldSweep(helper[id], TRUE) THEN NoHelper ELSE helper[id]]
    BY <1>2 DEF Swept
  <2>2. \A id \in gone : helper'[id].st = "none"
    BY <2>1, <1>2 DEF ShouldSweep, NoHelper
  <2>3. HelperInv'
    BY <2>1 DEF HelperInv, NoHelper
  <2>. QED  BY <2>2, <2>3
<1>3. CASE round' = [NoRound EXCEPT !.pc = p] /\ Swept({id \in Ids : ShouldSweep(helper[id], TRUE)})
  <2>1. round' = Empty({}, FALSE)
    BY <1>3 DEF NoRound
  <2>2. HelperInv' /\ \A id \in Ids : helper'[id].st = "none"
    BY <1>2, <1>3
  <2>. QED  BY <1>1, <2>1, <2>2
<1>4. CASE round' = [NoRound EXCEPT !.pc = p, !.blind = TRUE] /\ UNCHANGED helper
  <2>1. round' = Empty({}, TRUE)
    BY <1>4 DEF NoRound
  <2>2. HelperInv'
    BY <1>4 DEF HelperInv
  <2>. QED  BY <1>1, <2>1, <2>2
<1>5. ASSUME NEW id \in Ids, round' = [NoRound EXCEPT !.pc = p, !.leftover = {id}],
             Swept({k \in Ids \ {id} : ShouldSweep(helper[k], TRUE)})
      PROVE  /\ RoundShape' /\ HelperInv'
             /\ round'.pc = p /\ round'.groups = {}
             /\ \A k \in Ids : helper'[k].st \in {"running", "exited"} => k \in round'.leftover
  <2>1. round' = Empty({id}, FALSE)
    BY <1>5 DEF NoRound
  <2>2. PICK gone : gone = Ids \ {id}
    OBVIOUS
  <2>3. HelperInv' /\ \A k \in Ids \ {id} : helper'[k].st = "none"
    BY <1>2, <1>5, <2>2
  <2>. QED  BY <1>1, <2>1, <2>3
<1>. QED  BY <1>3, <1>4, <1>5 DEF Sweep

------------------------------------------------------------------------------
(* A group's turn.                                                         *)

LEMMA GroupKeeps ==
  ASSUME RoundInv, UNCHANGED machine, NEW g \in round.groups, NEW a \in RoundSteps, NEW r, NEW l,
         GoodReading(g, r), r # None => Mark(r) \in Marks, round' = Moved(g, a, r, l),
         \A id \in Ids : last'[id] # None => Mark(last'[id]) \in Marks
  PROVE  MachineInv' /\ RoundShape' /\ MarkInv'
<1>. USE DEF RoundInv
<1>1. RoundShape' /\ round'.groups = round.groups
      /\ \A k \in round.groups : round'.read[k] = IF k = g THEN r ELSE round.read[k]
  BY GroupMoves
<1>2. \A k \in round'.groups : round'.read[k] # None => Mark(round'.read[k]) \in Marks
  BY <1>1, OldMarks
<1>3. MarkInv'
  BY <1>2, MarksStay
<1>. QED  BY <1>1, <1>3, MachineStays

LEMMA MakesFacts ==
  ASSUME HelperInv, NEW g, g.id \in Ids, NEW st, Makes(g, st)
  PROVE  /\ HelperInv'
         /\ \A id \in Ids : helper'[id].st = IF id = g.id THEN st ELSE helper[id].st
<1>1. helper' = [id \in Ids |-> IF id = g.id THEN [st |-> st, stale |-> FALSE] ELSE helper[id]]
  BY DEF Makes, HelperInv
<1>. QED  BY <1>1 DEF HelperInv

\* A group that leaves its helper behind tells of it.
LEMMA LeftGroup ==
  ASSUME MachineInv, RoundShape, LeftInv, UNCHANGED <<machine, up>>, NEW g \in round.groups, NEW a \in RoundSteps, NEW r, NEW l,
         up, round.pc = "probe", GoodReading(g, r), round' = Moved(g, a, r, l), round.leftover \subseteq l,
         \A id \in Ids : id # g.id => helper'[id].st = helper[id].st,
         \/ a \notin {"todo", "done"}
         \/ helper'[g.id].st \notin {"running", "exited"}
         \/ g.id \in l
         \/ round.at[g] = "todo" /\ helper' = helper
  PROVE  LeftInv'
<1>1. /\ round'.pc = round.pc /\ round'.groups = round.groups
      /\ round'.leftover = l /\ round'.blind = round.blind
      /\ \A k \in round.groups : round'.at[k] = IF k = g THEN a ELSE round.at[k]
  BY GroupMoves
<1>. SUFFICES ASSUME ~round'.blind, NEW id \in Ids, helper'[id].st \in {"running", "exited"}
              PROVE  id \in round'.leftover \/ Watched(id)'
  BY DEF LeftInv
<1>2. CASE id = g.id /\ ~(round.at[g] = "todo" /\ helper' = helper)
  BY <1>1, <1>2 DEF Watched
<1>3. CASE id # g.id \/ (round.at[g] = "todo" /\ helper' = helper)
  <2>1. helper[id].st \in {"running", "exited"}
    BY <1>3
  <2>2. CASE id \in round.leftover
    BY <2>2, <1>1
  <2>3. CASE Watched(id)
    <3>1. PICK k \in round.groups : k.id = id /\ round.at[k] \notin {"todo", "done"}
      BY <2>3 DEF Watched
    <3>2. k # g
      BY <3>1, <1>3
    <3>. QED  BY <3>1, <3>2, <1>1 DEF Watched
  <2>. QED  BY <2>1, <2>2, <2>3, <1>1 DEF LeftInv
<1>. QED  BY <1>2, <1>3

\* What one group does keeps the invariants.
LEMMA GroupStep ==
  ASSUME RoundInv, LeftInv, NEW g \in round.groups,
         CreateHelper(g) \/ Start(g) \/ Wait(g) \/ Log(g) \/ Finish(g) \/ Skip(g)
  PROVE  RoundInv' /\ LeftInv' /\ round'.pc = round.pc
<1>1. MachineInv /\ RoundShape /\ HelperInv /\ LastInv /\ MarkInv /\ WindowInv
  BY DEF RoundInv
<1>2. IsGroup(g) /\ g.id \in Ids /\ g.name \in Names
  BY <1>1 DEF RoundShape, IsGroup
<1>3. GoodReading(g, round.read[g]) /\ (round.read[g] # None => Mark(round.read[g]) \in Marks)
  BY <1>1, StepMoves, OldMarks
<1>4. GoodReading(g, None)
  BY DEF GoodReading
\* Anything but a finish.
<1>5. ASSUME NEW a \in RoundSteps, NEW r, round' = Moved(g, a, r, round.leftover), GoodReading(g, r),
             r # None => Mark(r) \in Marks, up, round.pc = "probe", UNCHANGED <<machine, last, on, up>>,
             HelperInv', WindowInv', \A id \in Ids : id # g.id => helper'[id].st = helper[id].st,
             a \notin {"todo", "done"} \/ (round.at[g] = "todo" /\ helper' = helper)
      PROVE  RoundInv' /\ LeftInv' /\ round'.pc = round.pc
  <2>1. \A id \in Ids : last'[id] # None => Mark(last'[id]) \in Marks
    BY <1>5, OldMarks
  <2>2. MachineInv' /\ RoundShape' /\ MarkInv'
    BY <2>1, <1>5, GroupKeeps
  <2>3. LastInv'
    BY <1>1, <1>5 DEF LastInv
  <2>4. LeftInv'
    BY <1>1, <1>5, LeftGroup
  <2>5. round'.pc = round.pc
    BY <1>5 DEF Moved
  <2>. QED  BY <2>2, <2>3, <2>4, <2>5, <1>5 DEF RoundInv
<1>6. ASSUME NEW st, Makes(g, st)
      PROVE  HelperInv' /\ \A id \in Ids : id # g.id => helper'[id].st = helper[id].st
  BY <1>1, <1>2, <1>6, MakesFacts
<1>7. ASSUME UNCHANGED helper
      PROVE  HelperInv' /\ \A id \in Ids : id # g.id => helper'[id].st = helper[id].st
  BY <1>1, <1>7 DEF HelperInv
<1>8. ASSUME NEW a \in RoundSteps, Step(g, a)
      PROVE  round' = Moved(g, a, round.read[g], round.leftover)
  BY <1>1, <1>8, StepMoves DEF Step
<1>9. ASSUME NEW a \in RoundSteps, NEW r, round' = [round EXCEPT !.at[g] = a, !.read[g] = r]
      PROVE  round' = Moved(g, a, r, round.leftover)
  BY <1>1, <1>9, StepMoves
<1>10. "start" \in RoundSteps /\ "wait" \in RoundSteps /\ "log" \in RoundSteps /\ "remove" \in RoundSteps /\ "done" \in RoundSteps
  BY DEF RoundSteps
<1>11. ASSUME NEW had \in BOOLEAN, NEW told \in BOOLEAN, g.kind = "netns" => told
       PROVE  GoodReading(g, Reading(g, had, told)) /\ Mark(Reading(g, had, told)) \in Marks
  <2>1. /\ Reading(g, had, told) \in ReadRows /\ HoldsNoElse(g, Reading(g, had, told))
        /\ Mark(Reading(g, had, told)) = BoxMark(g.name)
    BY <1>1, <1>2, <1>11, ReadingFacts
  <2>. QED  BY <2>1, <1>2, OldMarks DEF GoodReading
<1>12. CASE CreateHelper(g)
  <2>1. up /\ round.pc = "probe" /\ UNCHANGED <<machine, last, window, on, up>>
    BY <1>12 DEF CreateHelper, InProbe, RoundAt
  <2>2. PICK a \in {"start", "remove"}, st \in {"created", "none"} : Step(g, a) /\ Makes(g, st)
    BY <1>12 DEF CreateHelper
  <2>. QED  BY <2>1, <2>2, <1>1, <1>3, <1>5, <1>6, <1>8, <1>10, WindowStays
<1>13. CASE Start(g)
  <2>1. up /\ round.pc = "probe" /\ UNCHANGED <<machine, last, window, on, up>>
    BY <1>13 DEF Start, InProbe, RoundAt
  <2>2. CASE Makes(g, "running") /\ round' = [round EXCEPT !.at[g] = "wait", !.read[g] = Reading(g, TRUE, g.kind = "netns")]
    <3>1. (g.kind = "netns") \in BOOLEAN
      OBVIOUS
    <3>2. PICK r : r = Reading(g, TRUE, g.kind = "netns")
      OBVIOUS
    <3>3. GoodReading(g, r) /\ Mark(r) \in Marks
      BY <3>1, <3>2, <1>11
    <3>7. round' = [round EXCEPT !.at[g] = "wait", !.read[g] = r]
      BY <2>2, <3>2
    <3>4. round' = Moved(g, "wait", r, round.leftover)
      BY <3>7, <1>9, <1>10
    <3>5. HelperInv' /\ \A id \in Ids : id # g.id => helper'[id].st = helper[id].st
      BY <2>2, <1>6
    <3>6. WindowInv'
      BY <2>1, <1>1, WindowStays
    <3>. QED  BY <2>1, <3>3, <3>4, <3>5, <3>6, <1>5, <1>10
  <2>3. CASE Step(g, "remove") /\ UNCHANGED helper
    BY <2>1, <2>3, <1>1, <1>3, <1>5, <1>7, <1>8, <1>10, WindowStays
  <2>4. CASE Step(g, "remove") /\ Makes(g, "running")
    BY <2>1, <2>4, <1>1, <1>3, <1>5, <1>6, <1>8, <1>10, WindowStays
  <2>. QED  BY <1>13, <2>2, <2>3, <2>4 DEF Start
<1>14. CASE Wait(g)
  <2>1. up /\ round.pc = "probe" /\ UNCHANGED <<machine, last, window, on, up>>
    BY <1>14 DEF Wait, InProbe, RoundAt
  <2>2. ASSUME NEW r \in Printed(g), Makes(g, "exited"), round' = [round EXCEPT !.at[g] = "log", !.read[g] = r]
        PROVE  RoundInv' /\ LeftInv' /\ round'.pc = round.pc
    <3>1. CASE r \in ParseProbe(g)
      <4>1. PICK s : s = IF g.kind = "cgroup" THEN BOOLEAN ELSE {TRUE}
        OBVIOUS
      <4>2. ParseProbe(g) = {Reading(g, had, told) : had \in BOOLEAN, told \in s}
        BY <4>1 DEF ParseProbe
      <4>3. PICK had \in BOOLEAN, told \in s : r = Reading(g, had, told)
        BY <3>1, <4>2
      <4>4. told \in BOOLEAN /\ (g.kind = "netns" => told)
        BY <4>1
      <4>5. GoodReading(g, r) /\ Mark(r) \in Marks
        BY <4>3, <4>4, <1>11
      <4>6. round' = Moved(g, "log", r, round.leftover)
        BY <2>2, <1>9, <1>10
      <4>7. HelperInv' /\ \A id \in Ids : id # g.id => helper'[id].st = helper[id].st
        BY <2>2, <1>6
      <4>8. WindowInv'
        BY <2>1, <1>1, WindowStays
      <4>. QED  BY <2>1, <4>5, <4>6, <4>7, <4>8, <1>5, <1>10
    <3>2. CASE r = round.read[g]
      BY <2>1, <2>2, <3>2, <1>1, <1>3, <1>5, <1>6, <1>9, <1>10, WindowStays
    <3>. QED  BY <2>2, <3>1, <3>2 DEF Printed
  <2>3. CASE round' = [round EXCEPT !.at[g] = "remove", !.read[g] = None] /\ UNCHANGED helper
    BY <2>1, <2>3, <1>1, <1>4, <1>5, <1>7, <1>9, <1>10, WindowStays
  <2>. QED  BY <1>14, <2>2, <2>3 DEF Wait
<1>15. CASE Log(g)
  <2>1. up /\ round.pc = "probe" /\ UNCHANGED <<machine, last, helper, window, on, up>>
    BY <1>15 DEF Log, InProbe, RoundAt
  <2>2. CASE Step(g, "remove")
    BY <2>1, <2>2, <1>1, <1>3, <1>5, <1>7, <1>8, <1>10, WindowStays
  <2>3. CASE round' = [round EXCEPT !.at[g] = "remove", !.read[g] = None]
    BY <2>1, <2>3, <1>1, <1>4, <1>5, <1>7, <1>9, <1>10, WindowStays
  <2>. QED  BY <1>15, <2>2, <2>3 DEF Log
<1>16. CASE Skip(g)
  <2>1. up /\ round.pc = "probe" /\ round.at[g] = "todo" /\ Step(g, "done") /\ UNCHANGED <<machine, last, helper, on, up>>
    BY <1>16 DEF Skip, InProbe, RoundAt
  <2>2. window' = window \cup {Sample(g.name, g.kind, "skipped_budget", Unknown, {})}
    BY <1>16 DEF Skip
  <2>3. WindowInv'
    BY <1>1, <1>2, <2>1, <2>2 DEF WindowInv, machine, Names, Sample, Unknown, MayHold, JoinsOnly, Joins
  <2>. QED  BY <2>1, <2>3, <1>1, <1>3, <1>5, <1>7, <1>8, <1>10
<1>17. CASE Finish(g)
  <2>1. /\ up /\ round.pc = "probe" /\ UNCHANGED <<machine, on, up>>
        /\ RemoveHelper(g)
        /\ last' = [last EXCEPT ![g.id] = IF round.read[g] = None \/ g.kind = "cgroup" THEN None ELSE Kept(round.read[g])]
        /\ window' = window \cup {IF round.read[g] = None THEN Sample(g.name, g.kind, "probe_failed", Unknown, {})
                                 ELSE BuildSample(g, round.read[g])}
    BY <1>17 DEF Finish, InProbe, RoundAt
  <2>2. PICK r : r = round.read[g]
    OBVIOUS
  <2>3. r # None => r \in ReadRows /\ Mark(r) \in Marks /\ HoldsNoElse(g, r)
    BY <2>2, <1>3 DEF GoodReading
  <2>4. PICK l : /\ round' = Moved(g, "done", r, l) /\ round.leftover \subseteq l
                 /\ HelperInv' /\ \A id \in Ids : id # g.id => helper'[id].st = helper[id].st
                 /\ helper'[g.id].st \notin {"running", "exited"} \/ g.id \in l
    <3>1. CASE Makes(g, "none") /\ round' = [round EXCEPT !.at[g] = "done"]
      <4>1. round' = Moved(g, "done", r, round.leftover)
        BY <3>1, <2>2, <1>1, <1>10, StepMoves
      <4>2. HelperInv' /\ \A id \in Ids : helper'[id].st = IF id = g.id THEN "none" ELSE helper[id].st
        BY <3>1, <1>1, <1>2, MakesFacts
      <4>. QED  BY <4>1, <4>2, <1>2
    <3>2. CASE UNCHANGED helper /\ round' = [round EXCEPT !.at[g] = "done", !.leftover = @ \cup {g.id}]
      <4>1. round' = Moved(g, "done", r, round.leftover \cup {g.id})
        <5>1. PICK y : y = [round EXCEPT !.at[g] = "done"]
          OBVIOUS
        <5>2. PICK k, l : k = g.id /\ l = round.leftover \cup {k}
          OBVIOUS
        <5>3. y = Moved(g, "done", r, round.leftover)
          BY <5>1, <2>2, <1>1, StepMoves
        <5>4. y.leftover \cup {k} = l
          BY <5>2, <5>3 DEF Moved
        <5>5. round' = [[round EXCEPT !.at[g] = "done"] EXCEPT !.leftover = [round EXCEPT !.at[g] = "done"].leftover \cup {g.id}]
          BY <3>2
        <5>6. round' = [y EXCEPT !.leftover = l]
          BY <5>1, <5>2, <5>4, <5>5
        <5>7. [y EXCEPT !.leftover = l] = Moved(g, "done", r, l)
          BY <5>3 DEF Moved
        <5>. QED  BY <5>2, <5>6, <5>7
      <4>. QED  BY <4>1, <3>2, <1>7
    <3>. QED  BY <2>1, <3>1, <3>2 DEF RemoveHelper
  <2>5. LastInv' /\ \A id \in Ids : last'[id] # None => Mark(last'[id]) \in Marks
    <3>1. PICK x : x = IF r = None \/ g.kind = "cgroup" THEN None ELSE Kept(r)
      OBVIOUS
    <3>2. last' = [last EXCEPT ![g.id] = x]
      BY <2>1, <2>2, <3>1
    <3>3. last' = [id \in Ids |-> IF id = g.id THEN x ELSE last[id]]
      BY <3>2, <1>1 DEF LastInv
    <3>4. x # None => x \in LastRows /\ Mark(x) = Mark(r) /\ r # None
      <4>1. SUFFICES ASSUME x # None
                     PROVE  x \in LastRows /\ Mark(x) = Mark(r) /\ r # None
        OBVIOUS
      <4>2. r \in ReadRows /\ x = [is |-> "read", ns |-> r.ns, opens |-> r.opens, ever |-> r.ever, recent |-> TRUE]
        BY <4>1, <3>1, <2>3 DEF Kept
      <4>3. x \in LastRows
        BY <4>2 DEF ReadRows, LastRows
      <4>4. Mark(x) = Mark(r)
        BY <4>2 DEF Mark
      <4>. QED  BY <4>1, <4>3, <4>4, <3>1
    <3>5. LastInv'
      BY <3>3, <3>4, <1>1 DEF LastInv
    <3>6. \A id \in Ids : last'[id] # None => Mark(last'[id]) \in Marks
      BY <3>3, <3>4, <2>3, <1>1, OldMarks
    <3>. QED  BY <3>5, <3>6
  <2>6. WindowInv'
    <3>1. PICK s : /\ window' = window \cup {s}
                   /\ s = IF r = None THEN Sample(g.name, g.kind, "probe_failed", Unknown, {}) ELSE BuildSample(g, r)
      BY <2>1, <2>2
    <3>2. \A d : d = Delta(g.id, r) /\ r # None => (d.known => d.opens = d.truth)
      <4>1. SUFFICES ASSUME NEW d, d = Delta(g.id, r), r # None, d.known
                     PROVE  d.opens = d.truth
        OBVIOUS
      <4>2. PICK prev : prev = last[g.id]
        OBVIOUS
      <4>3. Comparable(prev, r) /\ d = [known |-> TRUE, opens |-> r.opens - prev.opens, truth |-> r.ever - prev.ever]
        BY <4>1, <4>2 DEF Delta, Unknown
      <4>4. prev # None /\ prev.ns = r.ns
        BY <4>3 DEF Comparable
      <4>5. prev \in LastRows /\ Mark(prev) \in Marks
        BY <4>2, <4>4, <1>1, <1>2, OldMarks DEF LastInv
      <4>6. Mark(prev)[1] = prev.ns /\ Mark(prev)[2] = prev.ever - prev.opens /\ Mark(r)[1] = r.ns /\ Mark(r)[2] = r.ever - r.opens
        BY DEF Mark
      <4>7. prev.ever - prev.opens = r.ever - r.opens
        BY <4>4, <4>5, <4>6, <4>1, <2>3, <1>1 DEF MarkInv
      <4>8. prev.ever \in Nat /\ prev.opens \in Nat /\ r.ever \in Nat /\ r.opens \in Nat
        BY <4>5, <4>1, <2>3 DEF LastRows, ReadRows
      <4>9. r.opens - prev.opens = r.ever - prev.ever
        BY <4>7, <4>8
      <4>. QED  BY <4>3, <4>9
    <3>3. s.delta.known => s.delta.opens = s.delta.truth
      BY <3>1, <3>2 DEF BuildSample, Sample, Unknown
    <3>4. s.of = g.name /\ s.kind = g.kind
      BY <3>1 DEF BuildSample, Sample
    <3>5. s.out # {} => box[g.name].earner /\ \A n \in s.out : MayHold(g.name, g.kind, n)
      <4>1. CASE r = None
        BY <4>1, <3>1 DEF Sample
      <4>2. CASE r # None /\ g.kind = "cgroup"
        BY <4>2, <3>1, <2>3, <1>2 DEF BuildSample, Sample, IsGroup, HoldsNoElse
      <4>3. CASE r # None /\ g.kind # "cgroup"
        BY <4>3, <3>1, <2>3, <1>2 DEF BuildSample, Sample, IsGroup, HoldsNoElse
      <4>. QED  BY <4>1, <4>2, <4>3
    <3>6. UNCHANGED <<box, fresh, Names>>
      BY <2>1 DEF machine, Names
    <3>7. \A t \in window' : t.of \in Names /\ (t.delta.known => t.delta.opens = t.delta.truth)
                             /\ (t.out # {} => box[t.of].earner) /\ \A n \in t.out : MayHold(t.of, t.kind, n)
      BY <3>1, <3>3, <3>4, <3>5, <1>1, <1>2 DEF WindowInv
    <3>. QED  BY <3>6, <3>7 DEF WindowInv, MayHold, JoinsOnly, Joins
  <2>7. GoodReading(g, r) /\ (r # None => Mark(r) \in Marks)
    BY <2>2, <1>3
  <2>8. MachineInv' /\ RoundShape' /\ MarkInv'
    BY <2>1, <2>4, <2>5, <2>7, <1>10, GroupKeeps
  <2>9. LeftInv'
    BY <2>1, <2>4, <2>7, <1>1, <1>10, LeftGroup
  <2>10. round'.pc = round.pc
    BY <2>4 DEF Moved
  <2>. QED  BY <2>4, <2>5, <2>6, <2>8, <2>9, <2>10 DEF RoundInv
<1>. QED  BY <1>12, <1>13, <1>14, <1>15, <1>16, <1>17

------------------------------------------------------------------------------
(* The round, the app and the machine.                                     *)

LEMMA LimitsNat == MachineInv => \A n \in Names : opened[n] \in Nat /\ ever[n] \in Nat
BY DEF MachineInv

\* A step of the round that no group takes, and what the app does.
LEMMA QuietStep ==
  ASSUME RoundInv, UNCHANGED machine, RoundShape', HelperInv', WindowInv',
         UNCHANGED last \/ (last' = [id \in Ids |-> last'[id]] /\ \A id \in Ids : last'[id] \in {None, last[id]}),
         UNCHANGED round \/ round'.groups = {}
  PROVE  RoundInv'
<1>1. MachineInv /\ RoundShape /\ HelperInv /\ LastInv /\ MarkInv /\ WindowInv
  BY DEF RoundInv
<1>2. LastInv'
  BY <1>1 DEF LastInv, LastRows
<1>3. \A id \in Ids : last'[id] # None => Mark(last'[id]) \in Marks
  BY OldMarks
<1>4. \A g \in round'.groups : round'.read[g] # None => Mark(round'.read[g]) \in Marks
  BY OldMarks
<1>5. MarkInv'
  BY <1>1, <1>3, <1>4, MarksStay
<1>. QED  BY <1>1, <1>2, <1>5, MachineStays DEF RoundInv

LEMMA EarlyEnd ==
  ASSUME RoundInv, UNCHANGED machine, EndEarly
  PROVE  /\ RoundShape' /\ round'.groups = {} /\ round'.pc = "idle"
         /\ round'.leftover = round.leftover /\ round'.blind = round.blind
<1>1. round' = [pc |-> "idle", earners |-> {}, groups |-> {}, at |-> <<>>, read |-> <<>>,
                leftover |-> round.leftover, blind |-> round.blind]
  BY DEF EndEarly, NoRound
<1>. QED  BY <1>1, EmptyRound DEF RoundInv, Phases

LEMMA BeginStep ==
  ASSUME RoundInv, Begin
  PROVE  RoundInv' /\ LeftInv' /\ round'.pc # "idle"
<1>1. UNCHANGED <<machine, last, on, up>> /\ window' = {} /\ Sweep("list") /\ up
  BY DEF Begin, RoundAt
<1>2. /\ RoundShape' /\ HelperInv' /\ round'.pc = "list" /\ round'.groups = {}
      /\ round'.blind \/ \A id \in Ids : helper'[id].st \in {"running", "exited"} => id \in round'.leftover
  BY <1>1, SweepFacts DEF RoundInv, Phases
<1>3. WindowInv'
  BY <1>1 DEF WindowInv
<1>4. RoundInv'
  BY <1>1, <1>2, <1>3, QuietStep
<1>5. LeftInv'
  BY <1>1, <1>2 DEF LeftInv
<1>. QED  BY <1>2, <1>4, <1>5

LEMMA ListStep ==
  ASSUME RoundInv, LeftInv, ListEarners
  PROVE  RoundInv' /\ LeftInv'
<1>1. UNCHANGED <<machine, last, helper, window, on, up>> /\ up /\ round.pc = "list"
  BY DEF ListEarners, RoundAt
<1>2. MachineInv /\ RoundShape /\ HelperInv /\ WindowInv
  BY DEF RoundInv
<1>3. HelperInv' /\ WindowInv'
  BY <1>1, <1>2, WindowStays DEF HelperInv
<1>4. CASE EndEarly
  <2>1. RoundShape' /\ round'.groups = {} /\ round'.pc = "idle"
    BY <1>1, <1>4, EarlyEnd
  <2>. QED  BY <2>1, <1>1, <1>3, QuietStep DEF LeftInv
<1>5. CASE round' = [round EXCEPT !.pc = "plan", !.earners = Earners]
  <2>1. \A c \in Earners : IsListed(c)
    BY <1>2 DEF Earners, IsListed, MachineInv, BoxOf
  <2>2. RoundShape' /\ round'.groups = {} /\ round'.pc = "plan" /\ round'.leftover = round.leftover /\ round'.blind = round.blind
    <3>1. PICK p, l, b, t, d : p = "plan" /\ l = round.leftover /\ b = round.blind /\ t = round.at /\ d = round.read
      OBVIOUS
    <3>2. round = [pc |-> round.pc, earners |-> round.earners, groups |-> {}, at |-> t, read |-> d, leftover |-> l, blind |-> b]
      BY <1>1, <1>2, <3>1 DEF RoundShape
    <3>5. PICK x, e : x = round /\ e = Earners
      OBVIOUS
    <3>6. x = [pc |-> "list", earners |-> round.earners, groups |-> {}, at |-> t, read |-> d, leftover |-> l, blind |-> b]
      BY <1>1, <3>2, <3>5
    <3>7. round' = [[x EXCEPT !.pc = "plan"] EXCEPT !.earners = e]
      BY <1>5, <3>5
    <3>3. round' = [pc |-> p, earners |-> Earners, groups |-> {}, at |-> t, read |-> d, leftover |-> l, blind |-> b]
      <4>1. PICK y, f : y = [x EXCEPT !.pc = p] /\ f = round.earners
        OBVIOUS
      <4>2. y = [pc |-> p, earners |-> f, groups |-> {}, at |-> t, read |-> d, leftover |-> l, blind |-> b]
        BY <3>6, <4>1
      <4>3. [y EXCEPT !.earners = e] = [pc |-> p, earners |-> e, groups |-> {}, at |-> t, read |-> d, leftover |-> l, blind |-> b]
        BY <4>2
      <4>. QED  BY <3>1, <3>5, <3>7, <4>1, <4>3
    <3>4. p \in Phases
      BY <3>1 DEF Phases
    <3>. QED  BY <1>1, <1>2, <2>1, <3>1, <3>3, <3>4, EmptyRound
  <2>3. RoundInv'
    BY <1>1, <1>3, <2>2, QuietStep
  <2>4. LeftInv'
    BY <1>1, <2>2 DEF LeftInv, Watched
  <2>. QED  BY <2>3, <2>4
<1>. QED  BY <1>1, <1>4, <1>5 DEF ListEarners

\* The plan's groups have yet to read.
LEMMA PlanStep ==
  ASSUME RoundInv, LeftInv, MakePlan
  PROVE  RoundInv' /\ LeftInv' /\ round'.pc = "probe"
<1>1. /\ UNCHANGED <<machine, last, helper, on, up>> /\ up /\ round.pc = "plan"
      /\ window' = {Sample(c.name, "fixed", Fixed(c), Unknown, {}) : c \in {x \in round.earners : Fixed(x) # "probed"}}
  BY DEF MakePlan, RoundAt
<1>2. MachineInv /\ RoundShape /\ HelperInv /\ LastInv /\ MarkInv
  BY DEF RoundInv
<1>3. PICK gs : gs = GroupsOf(round.earners)
  OBVIOUS
<1>4. PICK t, d : t = [g \in gs |-> "todo"] /\ d = [g \in gs |-> None]
  OBVIOUS
<1>5. round' = [round EXCEPT !.pc = "probe", !.groups = gs, !.at = t, !.read = d]
  BY <1>3, <1>4 DEF MakePlan
<1>6. round' = [pc |-> "probe", earners |-> round.earners, groups |-> gs, at |-> t, read |-> d,
                leftover |-> round.leftover, blind |-> round.blind]
  <2>1. PICK e, l, b : e = round.earners /\ l = round.leftover /\ b = round.blind
    OBVIOUS
  <2>2. PICK x : x = round /\ x = [pc |-> "plan", earners |-> e, groups |-> {}, at |-> round.at, read |-> round.read, leftover |-> l, blind |-> b]
    BY <1>1, <1>2, <2>1 DEF RoundShape
  <2>3. round' = [[[[x EXCEPT !.pc = "probe"] EXCEPT !.groups = gs] EXCEPT !.at = t] EXCEPT !.read = d]
    BY <1>5, <2>2
  <2>. QED  BY <2>1, <2>2, <2>3
<1>7. /\ round'.pc = "probe" /\ round'.earners = round.earners /\ round'.groups = gs /\ round'.at = t /\ round'.read = d
      /\ round'.leftover = round.leftover /\ round'.blind = round.blind
  BY <1>6
<1>8. \A g \in gs : t[g] = "todo" /\ d[g] = None
  BY <1>4
<1>9. RoundShape'
  <2>1. \A g \in gs : IsGroup(g)'
    BY <1>1, <1>2, <1>3, GroupsFacts, MachineStays
  <2>2. \A c \in round'.earners : IsListed(c)'
    BY <1>1, <1>2, <1>7, MachineStays DEF RoundShape
  <2>3. round' = [pc |-> round'.pc, earners |-> round'.earners, groups |-> round'.groups, at |-> round'.at,
                  read |-> round'.read, leftover |-> round'.leftover, blind |-> round'.blind]
    BY <1>6, <1>7
  <2>4. round'.at = [g \in round'.groups |-> round'.at[g]] /\ round'.read = [g \in round'.groups |-> round'.read[g]]
    BY <1>4, <1>7
  <2>. QED  BY <1>7, <1>8, <2>1, <2>2, <2>3, <2>4 DEF RoundShape, Phases, RoundSteps
<1>10. WindowInv'
  <2>1. \A c \in round.earners : c.name \in Names'
    BY <1>1, <1>2 DEF RoundShape, IsListed, machine, Names
  <2>. QED  BY <1>1, <2>1 DEF WindowInv, Sample, Unknown
<1>11. MarkInv'
  <2>1. \A g \in round'.groups : round'.read[g] = None
    BY <1>7, <1>8
  <2>. QED  BY <1>1, <1>2, <2>1, MarksStay, OldMarks
<1>12. RoundInv'
  BY <1>1, <1>2, <1>9, <1>10, <1>11, MachineStays DEF RoundInv, HelperInv, LastInv, LastRows
<1>13. LeftInv'
  BY <1>1, <1>7 DEF LeftInv, Watched
<1>. QED  BY <1>7, <1>12, <1>13

LEMMA HelpersKept ==
  ASSUME HelperInv, NEW gone, Swept(gone)
  PROVE  HelperInv' /\ \A id \in Ids : helper'[id].st \in {"none", helper[id].st}
<1>1. helper' = [id \in Ids |-> IF id \in gone THEN NoHelper ELSE helper[id]]
  BY DEF Swept
<1>. QED  BY <1>1 DEF HelperInv, NoHelper

\* The app's and the other app's steps, and a helper that nobody waits for.
LEMMA AppStep ==
  ASSUME RoundInv, LeftInv,
         Switch \/ AppDies \/ AppStarts \/ TimeGoesBy \/ OtherAppSweeps \/ \E id \in Ids : HelperExits(id)
  PROVE  RoundInv' /\ LeftInv' /\ (round'.pc = round.pc \/ ~up \/ ~up')
<1>1. MachineInv /\ RoundShape /\ HelperInv /\ LastInv /\ MarkInv /\ WindowInv
  BY DEF RoundInv
<1>2. UNCHANGED <<machine, window>>
  BY DEF Switch, AppDies, AppStarts, TimeGoesBy, OtherAppSweeps, HelperExits
<1>3. WindowInv'
  BY <1>1, <1>2, WindowStays
<1>4. ASSUME UNCHANGED round
      PROVE  RoundShape'
  BY <1>1, <1>2, <1>4, MachineStays DEF RoundShape
<1>5. CASE Switch
  <2>1. /\ UNCHANGED <<helper, round, up>>
        /\ last' = (IF on THEN [id \in Ids |-> None] ELSE last)
    BY <1>5 DEF Switch
  <2>2. HelperInv' /\ LeftInv'
    BY <2>1, <1>1 DEF HelperInv, LeftInv, Watched
  <2>3. UNCHANGED last \/ (last' = [id \in Ids |-> last'[id]] /\ \A id \in Ids : last'[id] \in {None, last[id]})
    BY <2>1
  <2>4. RoundInv'
    BY <1>2, <1>3, <1>4, <2>1, <2>2, <2>3, QuietStep
  <2>. QED  BY <2>1, <2>2, <2>4
<1>6. CASE AppDies
  <2>1. UNCHANGED helper /\ up' = FALSE /\ round' = NoRound /\ last' = [id \in Ids |-> None]
    BY <1>6 DEF AppDies
  <2>2. RoundShape' /\ round'.groups = {}
    BY <1>1, <1>2, <2>1, EmptyRound DEF NoRound, Phases
  <2>3. HelperInv' /\ LeftInv'
    BY <2>1, <1>1 DEF HelperInv, LeftInv, NoRound
  <2>4. last' = [id \in Ids |-> last'[id]] /\ \A id \in Ids : last'[id] \in {None, last[id]}
    BY <2>1
  <2>5. RoundInv'
    BY <1>2, <1>3, <2>2, <2>3, <2>4, QuietStep
  <2>. QED  BY <2>1, <2>3, <2>5
<1>7. CASE AppStarts
  <2>1. ~up /\ UNCHANGED last /\ (Sweep("idle") \/ UNCHANGED <<round, helper>>)
    BY <1>7 DEF AppStarts
  <2>2. CASE Sweep("idle")
    <3>1. RoundShape' /\ HelperInv' /\ round'.pc = "idle" /\ round'.groups = {}
      BY <2>2, <1>1, <1>2, SweepFacts DEF Phases
    <3>. QED  BY <2>1, <3>1, <1>2, <1>3, QuietStep DEF LeftInv
  <2>3. CASE UNCHANGED <<round, helper>>
    <3>1. HelperInv'
      BY <2>3, <1>1 DEF HelperInv
    <3>2. RoundInv'
      BY <2>1, <2>3, <3>1, <1>2, <1>3, <1>4, QuietStep
    <3>3. LeftInv'
      BY <2>1, <2>3 DEF LeftInv
    <3>. QED  BY <3>2, <3>3, <2>1
  <2>. QED  BY <2>1, <2>2, <2>3
<1>8. CASE TimeGoesBy
  <2>1. /\ UNCHANGED <<round, up>>
        /\ last' = [id \in Ids |-> IF last[id] = None THEN None ELSE [last[id] EXCEPT !.recent = FALSE]]
        /\ helper' = [id \in Ids |-> [helper[id] EXCEPT !.stale = @ \/ ~\E g \in round.groups : g.id = id /\ round.at[g] \in {"start", "log"}]]
    BY <1>8 DEF TimeGoesBy
  <2>2. HelperInv' /\ \A id \in Ids : helper'[id].st = helper[id].st
    BY <2>1, <1>1 DEF HelperInv
  <2>3. ASSUME NEW id \in Ids, last'[id] # None
        PROVE  last'[id] \in LastRows /\ Mark(last'[id]) \in Marks
    <3>1. PICK x, y : x = last[id] /\ y = last'[id]
      OBVIOUS
    <3>2. x # None /\ y = [x EXCEPT !.recent = FALSE]
      BY <2>1, <2>3, <3>1
    <3>3. x \in LastRows /\ Mark(x) \in Marks
      BY <3>1, <3>2, <1>1, OldMarks DEF LastInv
    <3>4. y \in LastRows /\ y.ns = x.ns /\ y.opens = x.opens /\ y.ever = x.ever
      BY <3>2, <3>3 DEF LastRows
    <3>. QED  BY <3>1, <3>3, <3>4 DEF Mark
  <2>4. LastInv'
    BY <2>1, <2>3 DEF LastInv
  <2>5. MarkInv'
    BY <1>1, <1>2, <2>1, <2>3, OldMarks, MarksStay
  <2>6. LeftInv'
    BY <2>1, <2>2 DEF LeftInv, Watched
  <2>. QED  BY <1>1, <1>2, <1>3, <1>4, <2>1, <2>2, <2>4, <2>5, <2>6, MachineStays DEF RoundInv
<1>9. CASE OtherAppSweeps
  <2>1. UNCHANGED <<last, round, up>>
    BY <1>9 DEF OtherAppSweeps
  <2>2. HelperInv' /\ \A id \in Ids : helper'[id].st \in {"none", helper[id].st}
    BY <1>9, <1>1, HelpersKept DEF OtherAppSweeps
  <2>3. LeftInv'
    BY <2>1, <2>2 DEF LeftInv, Watched
  <2>4. RoundInv'
    BY <1>2, <1>3, <1>4, <2>1, <2>2, QuietStep
  <2>. QED  BY <2>1, <2>3, <2>4
<1>10. ASSUME NEW id \in Ids, HelperExits(id)
       PROVE  RoundInv' /\ LeftInv' /\ round'.pc = round.pc
  <2>1. /\ UNCHANGED <<last, round, up>> /\ helper[id].st = "running"
        /\ helper' = [helper EXCEPT ![id].st = "exited"]
    BY <1>10 DEF HelperExits
  <2>2. PICK x : x = helper[id] /\ x = [st |-> "running", stale |-> helper[id].stale]
    BY <2>1, <1>1 DEF HelperInv
  <2>3. helper' = [k \in Ids |-> IF k = id THEN [st |-> "exited", stale |-> helper[id].stale] ELSE helper[k]]
    BY <2>1, <1>1, <2>2 DEF HelperInv
  <2>4. HelperInv' /\ \A k \in Ids : helper'[k].st = IF k = id THEN "exited" ELSE helper[k].st
    BY <2>3, <1>1 DEF HelperInv
  <2>5. LeftInv'
    BY <2>1, <2>4 DEF LeftInv, Watched
  <2>6. RoundInv'
    BY <1>2, <1>3, <1>4, <2>1, <2>4, QuietStep
  <2>. QED  BY <2>1, <2>5, <2>6
<1>. QED  BY <1>5, <1>6, <1>7, <1>8, <1>9, <1>10

\* A container keeps what it is, whether it earns and what it joins.
SameBut(k) == box'[k].earner = box[k].earner /\ box'[k].mode = box[k].mode /\ box'[k].joins = box[k].joins
\* A connection raises what was opened with what was ever opened; a new namespace has no
\* mark yet.
LEMMA MachineStep ==
  ASSUME RoundInv, LeftInv, NEW n \in Names, Connects(n) \/ RestartBox(n) \/ GoesDown(n)
  PROVE  RoundInv' /\ LeftInv' /\ UNCHANGED <<round, up>>
<1>1. MachineInv /\ RoundShape /\ HelperInv /\ LastInv /\ MarkInv /\ WindowInv
  BY DEF RoundInv
<1>2. UNCHANGED <<last, helper, round, window, on, up>>
  BY DEF Connects, RestartBox, GoesDown
<1>3. HelperInv' /\ LastInv' /\ LeftInv'
  BY <1>1, <1>2 DEF HelperInv, LastInv, LeftInv, Watched, LastRows
\* What is asked of each of the three.
<1>4. ASSUME Names' = Names, MachineInv', fresh' >= fresh,
             \A k \in Names : SameBut(k), \A k \in Names : box'[k].id \in {box[k].id, fresh},
             \A k \in Names : BoxMark(k)' \in Marks \/ (BoxMark(k)'[1] = fresh /\ k = n /\ fresh' = fresh + 1)
      PROVE  RoundInv'
  <2>. DEFINE MayStill == \A m, kd, k : MayHold(m, kd, k) => MayHold(m, kd, k)'
  <2>0. MayStill
    <3>1. \A k \in Names : box'[k].joins = box[k].joins /\ (Joins(box'[k]) <=> Joins(box[k]))
      BY <1>4 DEF SameBut, Joins
    <3>2. ASSUME NEW m, NEW k \in Names, JoinsOnly(k, m), box[k].joins < fresh
          PROVE  JoinsOnly(k, m)' /\ box'[k].joins < fresh'
      <4>1. box[k].joins \in Nat /\ fresh \in Nat /\ fresh' \in Nat
        BY <1>1, <1>4 DEF MachineInv, BoxOf
      <4>2. \A l \in Names : box'[l].id = box[k].joins => box[l].id = box[k].joins
        BY <4>1, <3>2, <1>4
      <4>. QED  BY <3>1, <3>2, <4>1, <4>2, <1>4 DEF JoinsOnly
    <3>. QED  BY <3>2, <1>4 DEF MayHold
  <2>1. WindowInv'
    <3>1. \A s \in window' : s \in window /\ box'[s.of].earner = box[s.of].earner /\ s.of \in Names'
      BY <1>1, <1>2, <1>4 DEF WindowInv, SameBut
    <3>2. \A s \in window' : \A k \in s.out : MayHold(s.of, s.kind, k)'
      BY <1>1, <1>2, <2>0 DEF WindowInv
    <3>. QED  BY <3>1, <3>2, <1>1 DEF WindowInv
  <2>2. RoundShape'
    <3>1. \A c : IsListed(c) => IsListed(c)'
      BY <1>4 DEF IsListed, SameBut
    <3>2. \A g : IsGroup(g) => IsGroup(g)'
      BY <1>4 DEF IsGroup, SameBut
    <3>3. ReadRows' = ReadRows
      BY <1>4 DEF ReadRows
    <3>4. \A g, r : HoldsNoElse(g, r) => HoldsNoElse(g, r)'
      BY <2>0 DEF HoldsNoElse
    <3>. QED  BY <1>1, <1>2, <3>1, <3>2, <3>3, <3>4 DEF RoundShape
  <2>3. MarkInv'
    <3>1. \A m \in Marks' : m \in Marks \/ (m = BoxMark(n)' /\ m[1] = fresh /\ fresh' = fresh + 1)
      BY <1>2, <1>4 DEF Marks, Mark
    <3>2. fresh \in Nat /\ fresh' \in Nat
      BY <1>1, <1>4 DEF MachineInv
    <3>3. \A m \in Marks : m[1] \in Nat
      <4>1. \A k \in Names : BoxMark(k)[1] \in Nat
        BY <1>1 DEF BoxMark, MachineInv, BoxOf
      <4>2. \A id \in Ids : last[id] # None => Mark(last[id])[1] \in Nat
        BY <1>1 DEF Mark, LastInv, LastRows
      <4>3. \A g \in round.groups : round.read[g] # None => Mark(round.read[g])[1] \in Nat
        BY <1>1 DEF Mark, RoundShape, ReadRows
      <4>. QED  BY <4>1, <4>2, <4>3 DEF Marks
    <3>. QED  BY <3>1, <3>2, <3>3, <1>1, <1>4 DEF MarkInv
  <2>. QED  BY <1>3, <1>4, <2>1, <2>2, <2>3 DEF RoundInv
<1>5. CASE Connects(n)
  <2>1. /\ UNCHANGED <<box, fresh>>
        /\ opened' = [opened EXCEPT ![n] = @ + 1] /\ ever' = [ever EXCEPT ![n] = @ + 1]
    BY <1>5 DEF Connects
  <2>2. MachineInv'
    BY <2>1, <1>1 DEF MachineInv, Names, BoxOf
  <2>3. \A k \in Names : BoxMark(k)' = BoxMark(k)
    <3>1. SUFFICES ASSUME NEW k \in Names
                   PROVE  ever'[k] - opened'[k] = ever[k] - opened[k]
      BY <2>1 DEF BoxMark
    <3>2. ever[k] \in Nat /\ opened[k] \in Nat
      BY <1>1 DEF MachineInv
    <3>3. ever'[k] = (IF k = n THEN ever[k] + 1 ELSE ever[k]) /\ opened'[k] = (IF k = n THEN opened[k] + 1 ELSE opened[k])
      BY <2>1, <1>1 DEF MachineInv
    <3>. QED  BY <3>2, <3>3
  <2>4. fresh' >= fresh /\ Names' = Names /\ \A k \in Names : SameBut(k) /\ box'[k].id \in {box[k].id, fresh}
    BY <2>1, <1>1 DEF MachineInv, Names, SameBut
  <2>5. \A k \in Names : BoxMark(k)' \in Marks
    BY <2>3, OldMarks
  <2>. QED  BY <2>2, <2>4, <2>5, <1>2, <1>3, <1>4
<1>6. ASSUME NEW b \in BOOLEAN, NEW id \in Ids, NEW ns \in Nat,
             box' = [box EXCEPT ![n] = [name |-> box[n].name, id |-> id, up |-> b, earner |-> box[n].earner, plain |-> box[n].plain,
                                        mode |-> box[n].mode, joins |-> box[n].joins, ns |-> ns]]
      PROVE  /\ box' = [k \in Names |-> box'[k]] /\ Names' = Names
             /\ \A k \in Names : box'[k] \in BoxOf(k) /\ SameBut(k) /\ box'[k].id = IF k = n THEN id ELSE box[k].id
             /\ \A k \in Names : box'[k].ns = IF k = n THEN ns ELSE box[k].ns
  <2>1. PICK x : x = [name |-> box[n].name, id |-> id, up |-> b, earner |-> box[n].earner, plain |-> box[n].plain,
                      mode |-> box[n].mode, joins |-> box[n].joins, ns |-> ns]
    OBVIOUS
  <2>2. box' = [k \in Names |-> IF k = n THEN x ELSE box[k]]
    BY <1>6, <2>1, <1>1 DEF MachineInv
  <2>3. x \in BoxOf(n) /\ x.earner = box[n].earner /\ x.mode = box[n].mode /\ x.joins = box[n].joins /\ x.ns = ns /\ x.id = id
    BY <2>1, <1>1 DEF MachineInv, BoxOf
  <2>. QED  BY <2>2, <2>3, <1>1 DEF MachineInv, Names, SameBut
<1>7. PICK x : x = box[n]
  OBVIOUS
<1>8. PICK nm, i, u, e, p, m, j, s :
        /\ x = [name |-> nm, id |-> i, up |-> u, earner |-> e, plain |-> p, mode |-> m, joins |-> j, ns |-> s]
        /\ i \in Ids /\ s \in Nat
  BY <1>1, <1>7 DEF MachineInv, BoxOf
<1>11. x.name = nm /\ x.id = i /\ x.earner = e /\ x.plain = p /\ x.mode = m /\ x.joins = j /\ x.ns = s
  BY <1>8
<1>12. \A b : [x EXCEPT !.up = b] = [name |-> nm, id |-> i, up |-> b, earner |-> e, plain |-> p,
                                      mode |-> m, joins |-> j, ns |-> s]
  BY <1>8
<1>9. CASE GoesDown(n)
  <2>1. UNCHANGED <<opened, ever, fresh>> /\ box' = [box EXCEPT ![n].up = FALSE]
    BY <1>9 DEF GoesDown
  <2>2. [x EXCEPT !.up = FALSE] = [name |-> nm, id |-> i, up |-> FALSE, earner |-> e, plain |-> p,
                                   mode |-> m, joins |-> j, ns |-> s]
    BY <1>12
  <2>3. box' = [box EXCEPT ![n] = [name |-> box[n].name, id |-> x.id, up |-> FALSE, earner |-> box[n].earner, plain |-> box[n].plain,
                                   mode |-> box[n].mode, joins |-> box[n].joins, ns |-> x.ns]]
    BY <2>1, <2>2, <1>7, <1>11
  <2>4. /\ box' = [k \in Names |-> box'[k]] /\ Names' = Names
        /\ \A k \in Names : box'[k] \in BoxOf(k) /\ SameBut(k) /\ box'[k].id = box[k].id
        /\ \A k \in Names : box'[k].ns = box[k].ns
    BY <2>3, <1>6, <1>7, <1>8, <1>11
  <2>5. MachineInv' /\ \A k \in Names : BoxMark(k)' = BoxMark(k)
    <3>1. \A k, l \in Names' : box'[k].id \in Nat /\ box'[k].id < fresh' /\ (box'[k].id = box'[l].id => k = l)
      BY <2>1, <2>4, <1>1 DEF MachineInv
    <3>. QED  BY <2>1, <2>4, <3>1, <1>1 DEF MachineInv, BoxMark, BoxOf
  <2>6. fresh' >= fresh
    BY <2>1, <1>1 DEF MachineInv
  <2>7. \A k \in Names : BoxMark(k)' \in Marks
    BY <2>5, OldMarks
  <2>. QED  BY <2>4, <2>5, <2>6, <2>7, <1>2, <1>3, <1>4
<1>10. CASE RestartBox(n)
  <2>1. PICK again \in BOOLEAN :
          /\ ~again => fresh \in Ids
          /\ box' = [box EXCEPT ![n].up = TRUE, ![n].ns = fresh, ![n].id = IF again THEN @ ELSE fresh]
          /\ opened' = [opened EXCEPT ![n] = 0] /\ fresh' = fresh + 1 /\ UNCHANGED ever
    BY <1>10 DEF RestartBox
  <2>2. PICK id \in Ids : id = IF again THEN x.id ELSE fresh
    BY <2>1, <1>8, <1>11
  <2>3. box' = [box EXCEPT ![n] = [name |-> box[n].name, id |-> id, up |-> TRUE, earner |-> box[n].earner, plain |-> box[n].plain,
                                   mode |-> box[n].mode, joins |-> box[n].joins, ns |-> fresh]]
    <3>1. PICK b, c : b = [box EXCEPT ![n].up = TRUE] /\ c = [b EXCEPT ![n].ns = fresh]
      OBVIOUS
    <3>2. box' = [[[box EXCEPT ![n].up = TRUE] EXCEPT ![n].ns = fresh]
                   EXCEPT ![n].id = IF again THEN [[box EXCEPT ![n].up = TRUE] EXCEPT ![n].ns = fresh][n].id ELSE fresh]
      BY <2>1
    <3>3. box' = [c EXCEPT ![n].id = IF again THEN c[n].id ELSE fresh]
      BY <3>1, <3>2
    <3>4. PICK y, z, w : /\ y = [name |-> nm, id |-> i, up |-> TRUE, earner |-> e, plain |-> p, mode |-> m, joins |-> j, ns |-> s]
                         /\ z = [name |-> nm, id |-> i, up |-> TRUE, earner |-> e, plain |-> p, mode |-> m, joins |-> j, ns |-> fresh]
                         /\ w = [name |-> nm, id |-> id, up |-> TRUE, earner |-> e, plain |-> p, mode |-> m, joins |-> j, ns |-> fresh]
      OBVIOUS
    <3>5. /\ [x EXCEPT !.up = TRUE] = y /\ [y EXCEPT !.ns = fresh] = z
          /\ z.id = i /\ [z EXCEPT !.id = id] = w
      <4>1. \A v : [[name |-> nm, id |-> i, up |-> v, earner |-> e, plain |-> p, mode |-> m, joins |-> j, ns |-> s] EXCEPT !.ns = fresh]
                  = [name |-> nm, id |-> i, up |-> v, earner |-> e, plain |-> p, mode |-> m, joins |-> j, ns |-> fresh]
        OBVIOUS
      <4>2. \A v : [[name |-> nm, id |-> i, up |-> v, earner |-> e, plain |-> p, mode |-> m, joins |-> j, ns |-> fresh] EXCEPT !.id = id]
                  = [name |-> nm, id |-> id, up |-> v, earner |-> e, plain |-> p, mode |-> m, joins |-> j, ns |-> fresh]
        OBVIOUS
      <4>3. z.id = i
        BY <3>4
      <4>. QED  BY <3>4, <4>1, <4>2, <4>3, <1>12
    <3>6. b = [k \in Names |-> IF k = n THEN y ELSE box[k]]
      BY <3>1, <3>5, <1>1, <1>7 DEF MachineInv
    <3>7. c = [k \in Names |-> IF k = n THEN z ELSE box[k]]
      BY <3>1, <3>5, <3>6
    <3>8. c[n].id = i /\ id = IF again THEN c[n].id ELSE fresh
      BY <3>7, <3>5, <2>2, <1>11
    <3>9. box' = [k \in Names |-> IF k = n THEN w ELSE box[k]]
      BY <3>3, <3>5, <3>7, <3>8
    <3>. QED  BY <3>4, <3>9, <1>1, <1>7, <1>11 DEF MachineInv
  <2>4. fresh \in Nat /\ fresh + 1 > fresh
    BY <1>1 DEF MachineInv
  <2>5. /\ box' = [k \in Names |-> box'[k]] /\ Names' = Names
        /\ \A k \in Names : box'[k] \in BoxOf(k) /\ SameBut(k) /\ box'[k].id = IF k = n THEN id ELSE box[k].id
        /\ \A k \in Names : box'[k].ns = IF k = n THEN fresh ELSE box[k].ns
    BY <2>3, <2>4, <1>6
  <2>6. opened' \in [Names -> Nat] /\ \A k \in Names : k # n => opened'[k] = opened[k]
    BY <2>1, <1>1 DEF MachineInv
  <2>11. id \in {box[n].id, fresh} /\ \A k \in Names : box'[k].id \in {box[k].id, fresh}
    BY <2>2, <2>5, <1>7
  <2>7. MachineInv'
    <3>1. \A k, l \in Names : box'[k].id \in Nat /\ box'[k].id < fresh' /\ (box'[k].id = box'[l].id => k = l)
      BY <2>1, <2>4, <2>5, <2>11, <1>1 DEF MachineInv
    <3>. QED  BY <2>1, <2>4, <2>5, <2>6, <3>1, <1>1 DEF MachineInv, BoxOf
  <2>8. \A k \in Names : IF k = n THEN BoxMark(k)'[1] = fresh ELSE BoxMark(k)' = BoxMark(k)
    BY <2>1, <2>5, <2>6 DEF BoxMark
  <2>9. fresh' >= fresh /\ fresh' = fresh + 1
    BY <2>1, <2>4
  <2>10. \A k \in Names : BoxMark(k)' \in Marks \/ (BoxMark(k)'[1] = fresh /\ k = n /\ fresh' = fresh + 1)
    BY <2>8, <2>9, OldMarks
  <2>. QED  BY <2>5, <2>7, <2>9, <2>10, <2>11, <1>2, <1>3, <1>4
<1>. QED  BY <1>2, <1>3, <1>5, <1>9, <1>10

------------------------------------------------------------------------------
\* A round that ends early, or with every group done, tells of what it left.
LEMMA EndStep ==
  ASSUME RoundInv, LeftInv, NoWindow \/ EndRound
  PROVE  /\ RoundInv' /\ LeftInv' /\ round'.pc = "idle"
         /\ round'.blind \/ \A id \in Ids : helper'[id].st \in {"running", "exited"} => id \in round'.leftover
<1>1. MachineInv /\ RoundShape /\ HelperInv /\ LastInv /\ MarkInv /\ WindowInv
  BY DEF RoundInv
<1>2. EndEarly /\ UNCHANGED <<machine, helper, window, on, up>> /\ round.pc # "idle"
  BY DEF NoWindow, EndRound, RoundAt
<1>3. /\ RoundShape' /\ round'.groups = {} /\ round'.pc = "idle"
      /\ round'.leftover = round.leftover /\ round'.blind = round.blind
  BY <1>2, EarlyEnd
<1>4. HelperInv' /\ WindowInv' /\ LeftInv'
  BY <1>1, <1>2, <1>3, WindowStays DEF HelperInv, LeftInv
<1>5. UNCHANGED last \/ (last' = [id \in Ids |-> last'[id]] /\ \A id \in Ids : last'[id] \in {None, last[id]})
  BY DEF NoWindow, EndRound
<1>6. RoundInv'
  BY <1>2, <1>3, <1>4, <1>5, QuietStep
<1>7. \A id \in Ids : ~Watched(id)
  BY DEF Watched, NoWindow, EndRound, RoundAt
<1>8. round'.blind \/ \A id \in Ids : helper'[id].st \in {"running", "exited"} => id \in round'.leftover
  BY <1>2, <1>3, <1>7 DEF LeftInv
<1>. QED  BY <1>3, <1>4, <1>6, <1>8

LEMMA RoundStarts == RoundInit => RoundInv /\ LeftInv
<1>. SUFFICES ASSUME RoundInit
              PROVE  RoundInv /\ LeftInv
  OBVIOUS
<1>1. /\ opened = [n \in Names |-> 0] /\ ever = opened
      /\ last = [id \in Ids |-> None] /\ helper = [id \in Ids |-> NoHelper]
      /\ round = NoRound /\ window = {} /\ fresh = Cardinality(Names) + 1 /\ up = TRUE
  BY DEF RoundInit
<1>2. /\ IsFiniteSet(Names)
      /\ \A n \in Names : /\ box[n] \in [name : {n}, id : Ids, up : BOOLEAN, earner : BOOLEAN, plain : BOOLEAN,
                                        mode : {"bridge", "host", "none", "container"}, joins : Nat, ns : 1..Cardinality(Names)]
  BY HostsAssumption DEF RoundInit, Names
<1>3. Cardinality(Names) \in Nat
  BY <1>2, FS_CardinalityType
<1>4. MachineInv
  <2>1. \A n \in Names : box[n] \in BoxOf(n)
    BY <1>2, <1>3 DEF BoxOf
  <2>2. box = [n \in Names |-> box[n]]
    BY HostsAssumption DEF RoundInit, Names
  <2>3. \A n, m \in Names : box[n].id \in 1..Cardinality(Names) /\ (box[n].id = box[m].id => n = m)
    BY HostsAssumption DEF RoundInit, Names
  <2>4. \A n \in Names : box[n].id \in Nat /\ box[n].id < fresh
    BY <1>1, <1>3, <2>3
  <2>. QED  BY <1>1, <1>2, <1>3, <2>1, <2>2, <2>3, <2>4 DEF MachineInv
<1>5. RoundShape
  BY <1>1 DEF RoundShape, NoRound, Phases
<1>6. HelperInv /\ LastInv
  BY <1>1 DEF HelperInv, LastInv, NoHelper
<1>7. MarkInv
  <2>1. \A m \in Marks : \E n \in Names : m = <<box[n].ns, 0>>
    BY <1>1, <1>5 DEF Marks, BoxMark, NoRound
  <2>2. \A n \in Names : box[n].ns < fresh
    BY <1>1, <1>2, <1>3
  <2>. QED  BY <2>1, <2>2 DEF MarkInv
<1>8. WindowInv
  BY <1>1 DEF WindowInv
<1>9. LeftInv
  BY <1>1 DEF LeftInv, NoRound
<1>. QED  BY <1>4, <1>5, <1>6, <1>7, <1>8, <1>9 DEF RoundInv

\* One step, with what a round's end says.
LeavesNothing ==
  up /\ round.pc # "idle" /\ round'.pc = "idle" /\ up' =>
    \A id \in Ids : helper'[id].st \in {"running", "exited"} => id \in round'.leftover \/ round'.blind

LEMMA RoundStep ==
  ASSUME RoundInv, LeftInv, [RoundNext]_roundVars
  PROVE  RoundInv' /\ LeftInv' /\ LeavesNothing
<1>1. CASE Begin
  BY <1>1, BeginStep DEF LeavesNothing
<1>2. CASE ListEarners
  <2>1. RoundInv' /\ LeftInv'
    BY <1>2, ListStep
  <2>2. /\ round.pc = "list" /\ UNCHANGED helper
        /\ round' = [NoRound EXCEPT !.leftover = round.leftover, !.blind = round.blind]
           \/ round' = [round EXCEPT !.pc = "plan", !.earners = Earners]
    BY <1>2 DEF ListEarners, RoundAt, EndEarly
  <2>3. \A id \in Ids : ~Watched(id)
    BY <2>2 DEF Watched
  <2>4. CASE EndEarly
    <3>1. round'.leftover = round.leftover /\ round'.blind = round.blind
      BY <2>4 DEF EndEarly, NoRound
    <3>. QED  BY <2>1, <2>2, <2>3, <3>1 DEF LeftInv, LeavesNothing
  <2>5. CASE round' = [round EXCEPT !.pc = "plan", !.earners = Earners]
    <3>1. round'.pc = "plan"
      BY <2>5 DEF RoundInv, RoundShape
    <3>. QED  BY <2>1, <3>1 DEF LeavesNothing
  <2>. QED  BY <2>4, <2>5, <1>2 DEF ListEarners
<1>3. CASE NoWindow \/ EndRound
  BY <1>3, EndStep DEF LeavesNothing
<1>4. CASE MakePlan
  BY <1>4, PlanStep DEF LeavesNothing
<1>5. ASSUME NEW g \in round.groups, CreateHelper(g) \/ Start(g) \/ Wait(g) \/ Log(g) \/ Finish(g) \/ Skip(g)
      PROVE  RoundInv' /\ LeftInv' /\ LeavesNothing
  BY <1>5, GroupStep DEF LeavesNothing
<1>6. CASE Switch \/ AppDies \/ AppStarts \/ TimeGoesBy \/ OtherAppSweeps \/ \E id \in Ids : HelperExits(id)
  BY <1>6, AppStep DEF LeavesNothing
<1>7. ASSUME NEW n \in Names, Connects(n) \/ RestartBox(n) \/ GoesDown(n)
      PROVE  RoundInv' /\ LeftInv' /\ LeavesNothing
  BY <1>7, MachineStep DEF LeavesNothing
<1>8. CASE UNCHANGED roundVars
  <2>1. UNCHANGED <<box, opened, ever, last, helper, round, window, fresh, up>>
    BY <1>8 DEF roundVars
  <2>2. RoundInv' /\ LeftInv'
    <3>1. UNCHANGED machine
      BY <2>1 DEF machine
    <3>2. MachineInv /\ RoundShape /\ HelperInv /\ LastInv /\ MarkInv /\ WindowInv
      BY DEF RoundInv
    <3>3. RoundShape' /\ HelperInv' /\ WindowInv' /\ LeftInv'
      BY <2>1, <3>1, <3>2, MachineStays, WindowStays DEF RoundShape, HelperInv, LeftInv, Watched
    <3>. QED  BY <2>1, <3>1, <3>3, QuietStep
  <2>. QED  BY <2>1, <2>2 DEF LeavesNothing
<1>. QED  BY <1>1, <1>2, <1>3, <1>4, <1>5, <1>6, <1>7, <1>8 DEF RoundNext

\* Whatever restarts, fails or is made anew, a change shown is what the earner's namespace opened
\* since the reading before, and the destinations shown with an earner are its own or those of
\* containers that join a namespace: none of the machine's, none of a namespace no earner owns.
THEOREM WindowIsHonestThm == RoundSpec => []WindowIsHonest
<1>1. RoundInv => WindowIsHonest
  BY DEF RoundInv, WindowInv, WindowIsHonest, MayHold
<1>. QED  BY <1>1, RoundStarts, RoundStep, PTL DEF RoundSpec

\* No helper that has read anything outlives its round unsaid.
THEOREM LeftoverIsReportedThm == RoundSpec => LeftoverIsReported
<1>1. RoundInv /\ LeftInv /\ [RoundNext]_roundVars =>
        [up /\ round.pc # "idle" /\ round'.pc = "idle" /\ up' =>
           \A id \in Ids : helper'[id].st \in {"running", "exited"} => id \in round'.leftover \/ round'.blind]_roundVars
  BY RoundStep DEF LeavesNothing
<1>. QED  BY <1>1, RoundStarts, RoundStep, PTL DEF RoundSpec, LeftoverIsReported
==============================================================================
