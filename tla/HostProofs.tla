---------------------------- MODULE HostProofs -----------------------------
(***************************************************************************)
(* Proofs about Config, Activity, LanFence and ProxiedCopies: the fields   *)
(* of the configuration are kept while its writers overlap and the app     *)
(* restarts, the keys are stable where the keychain is always there, no    *)
(* round stores what a delete has taken, the fence starts no earner        *)
(* without drops, and a deleted proxy leaves no copy.                      *)
(***************************************************************************)
EXTENDS LanFence, Activity, ProxiedCopies, TLAPS

Cfg == [isolation : {"auto", "off"}, mutes : SUBSET Slugs, onboarded : BOOLEAN, activity : BOOLEAN,
        isolationOn : BOOLEAN, legacy : {0, 1}]
Calls == [pc : {"idle", "write", "persist", "set"}, op : {"", "settings", "mute", "onboard"}, snap : Cfg, next : Cfg]
Row   == [old : BOOLEAN, late : BOOLEAN]

ConfigTypes ==
  /\ app \in {"down", "load", "store", "fleet", "strip", "up", "refused"}
  /\ disk \in [st : {"whole", "missing", "torn"}, cfg : Cfg]
  /\ mem \in Cfg /\ asked \in Cfg /\ raced \in BOOLEAN
  /\ call \in [Writers -> Calls]

SamplerTypes ==
  /\ raw \in SUBSET Row /\ alerts \in SUBSET Row
  /\ round \in [pc : {"idle", "choose", "round", "store", "retry", "purge", "spikes"}, moved : BOOLEAN, stale : BOOLEAN]

----------------------------------------------------------------------------
(* The writes of the configuration.                                        *)

\* Calls are under way only while the app is up.
CallsWhileUp == app # "up" => \A w \in Writers : call[w].pc = "idle"
\* What a whole Save will write is what it read, with its own field changed.
ChangesItsField(c) ==
  /\ c.pc = "write" <=> c.op = "settings"
  /\ c.pc \in {"persist", "set"} =>
       \/ c.op = "mute" /\ \E s \in Slugs : c.next = [c.snap EXCEPT !.mutes = @ \cup {s}]
       \/ c.op = "onboard" /\ c.next = [c.snap EXCEPT !.onboarded = TRUE]
OwnField == \A w \in Writers : ChangesItsField(call[w])
\* Unless writes have come between: a Save has read what memory holds, and what it has
\* put in the file is what was asked for, as is the file itself.
SnapIsFresh == ~raced => \A w \in Writers : call[w].pc = "persist" => call[w].snap = mem
SetIsAsked  == ~raced => \A w \in Writers : call[w].pc = "set" => call[w].next = asked
FileIsAsked ==
  /\ ~raced /\ disk.st # "torn" => disk.cfg = asked
  /\ disk.st = "missing" => disk.cfg = Default
\* Memory follows once the file is read.
MemIsAsked ==
  (app \notin {"down", "load", "refused"} /\ ~raced /\ \A w \in Writers : call[w].pc # "set") => mem = asked

WritesInv == ConfigTypes /\ CallsWhileUp /\ OwnField /\ SnapIsFresh /\ SetIsAsked /\ FileIsAsked /\ MemIsAsked

----------------------------------------------------------------------------
(* The secrets.                                                            *)

Keys == 0..6
\* The keys there are, are few enough that a new one is never an old one.
KeysAreFew ==
  /\ sealed \in {0, ring.items["master"], files["master"]}
  /\ issued \in {0, 1, ring.items["fleet"], files["fleet"]}
SecretTypes ==
  /\ goos \in {"always", "maybe"}
  /\ ring \in [up : BOOLEAN, items : [Names -> Keys]]
  /\ files \in [Names -> Keys]
  /\ sealed \in Keys /\ issued \in Keys
  /\ KeysAreFew
\* The token of an older configuration, wherever the configuration is.
LegacyHeld(n) ==
  /\ disk.cfg.legacy = n
  /\ app \notin {"down", "load", "refused"} => mem.legacy = n
  /\ \A w \in Writers : call[w].pc \in {"persist", "set"} => call[w].next.legacy = n
\* Where the keychain is always there no file is used, and what is in use is in the
\* keychain; a token that is not in it yet is the one of the older configuration, which
\* the file, the memory and every write under way still have.
KeysInRing ==
  goos = "always" =>
    /\ \A s \in Names : files[s] = 0
    /\ sealed # 0 => ring.items["master"] = sealed
    /\ ring.items["fleet"] # 0 => issued = ring.items["fleet"]
    /\ app = "strip" => ring.items["fleet"] # 0
    /\ ring.items["fleet"] = 0 => LegacyHeld(issued)

SecretsInv == SecretTypes /\ KeysInRing

----------------------------------------------------------------------------
(* The sampler.                                                            *)

\* A delete that is done has moved the generation on.
StaleIsMoved == round.stale => round.moved
RoundInv == SamplerTypes /\ StaleIsMoved /\ NothingAfterDelete


----------------------------------------------------------------------------
\* What a step may do: a step of the configuration, the switch, or one of the sampler,
\* which leaves the configuration and the secrets alone.
LEMMA Steps ==
  ASSUME [Next]_vars
  PROVE  \/ ConfigNext
         \/ SetActivityOn \/ SetActivityOff
         \/ UNCHANGED <<app, settings, secrets>>
<1>1. CASE UNCHANGED vars
  BY <1>1 DEF vars
<1>2. CASE Next
  BY <1>2 DEF Next, DeleteAddresses, DeleteActivityData, Sampler, Tick, Choose, Round, storeActivityRound,
              retryActivityDelete, PurgeActivity, activitySpikes, HourPasses, DayPasses
<1> QED BY <1>1, <1>2

\* Fields, one at a time, of a configuration.
LEMMA FieldTypes ==
  ASSUME NEW c \in Cfg
  PROVE  /\ \A i \in {"auto", "off"} : FormOn(c, i) \in Cfg /\ FormOn(c, i).legacy = c.legacy
         /\ \A s \in Slugs : [c EXCEPT !.mutes = @ \cup {s}] \in Cfg
         /\ [c EXCEPT !.onboarded = TRUE] \in Cfg
         /\ \A on \in BOOLEAN : [c EXCEPT !.isolationOn = on] \in Cfg /\ [c EXCEPT !.activity = on] \in Cfg
         /\ [c EXCEPT !.legacy = 0] \in Cfg
         /\ Default \in Cfg
BY DEF Cfg, FormOn, Default

LEMMA IdleFields == Idle.pc = "idle" /\ Idle.op = "" /\ ChangesItsField(Idle)
BY DEF Idle, ChangesItsField

LEMMA WritesInit == Init => WritesInv
<1> SUFFICES ASSUME Init PROVE WritesInv
  OBVIOUS
<1> USE DEF Init, ConfigInit
<1>1. \A n \in {0, 1} : [Default EXCEPT !.legacy = n] \in Cfg
  BY DEF Default, Cfg
<1>2. Default \in Cfg /\ Idle \in Calls
  BY FieldTypes, <1>1 DEF Idle, Calls, Default, Cfg
<1>3. ConfigTypes
  <2>1. PICK n \in {0, 1} : /\ disk = [st |-> IF n = 0 THEN "missing" ELSE "whole", cfg |-> [Default EXCEPT !.legacy = n]]
                            /\ asked = [Default EXCEPT !.legacy = n]
    OBVIOUS
  <2>2. disk \in [st : {"whole", "missing", "torn"}, cfg : Cfg] /\ asked \in Cfg
    BY <1>1, <2>1
  <2> QED BY <1>2, <2>2 DEF ConfigTypes
<1>4. \A w \in Writers : call[w] = Idle
  OBVIOUS
<1>5. disk.cfg = asked /\ (disk.st = "missing" => disk.cfg = Default)
  BY DEF Default
<1> QED BY <1>3, <1>4, <1>5, IdleFields DEF WritesInv, CallsWhileUp, OwnField, SnapIsFresh, SetIsAsked, FileIsAsked, MemIsAsked

\* A call that ends, or one that goes on while nothing else of the configuration moves.
LEMMA CallTypes ==
  ASSUME ConfigTypes, NEW w \in Writers
  PROVE  /\ call[w] \in Calls /\ Idle \in Calls
         /\ \A c \in Calls : [call EXCEPT ![w] = c] \in [Writers -> Calls]
<1>1. Idle \in Calls
  BY FieldTypes DEF ConfigTypes, Idle, Calls
<1> QED BY <1>1 DEF ConfigTypes

LEMMA OwnFieldKept ==
  ASSUME OwnField, \A o \in Writers : call'[o] = call[o] \/ ChangesItsField(call'[o])
  PROVE  OwnField'
BY DEF OwnField

\* One section under the lock keeps the invariant, whichever field it writes and whether
\* or not the writing succeeds.
LEMMA UpdateKeeps ==
  ASSUME WritesInv, app \in {"strip", "up"}, app' = "up",
         NEW next \in Cfg, NEW wanted \in Cfg, mem = asked => next = wanted,
         Update(next, wanted),
         \/ UNCHANGED call
         \/ \E w \in Writers : call[w].pc = "write" /\ call' = [call EXCEPT ![w] = Idle]
  PROVE  WritesInv'
<1> USE DEF WritesInv
<1>0. \A w \in Writers : call'[w] = call[w] \/ call'[w] = Idle
  BY DEF ConfigTypes
<1>1. ConfigTypes'
  <2>1. call' \in [Writers -> Calls]
    BY CallTypes DEF ConfigTypes
  <2>2. raced' \in BOOLEAN
    BY DEF ConfigTypes, Update, persist, PersistFails
  <2>3. disk' \in [st : {"whole", "missing", "torn"}, cfg : Cfg]
    BY DEF ConfigTypes, Update, persist, PersistFails
  <2>4. mem' \in Cfg /\ asked' \in Cfg
    BY DEF ConfigTypes, Update, PersistFails
  <2> QED BY <2>1, <2>2, <2>3, <2>4 DEF ConfigTypes
<1>2. OwnField'
  BY <1>0, IdleFields, OwnFieldKept
<1>3. \A w \in Writers : call'[w].pc \in {"persist", "set"} => call'[w] = call[w]
  BY <1>0, IdleFields
<1>4. CASE PersistFails
  BY <1>1, <1>2, <1>3, <1>4 DEF PersistFails, ConfigTypes, CallsWhileUp, SnapIsFresh, SetIsAsked, FileIsAsked, MemIsAsked
<1>5. CASE persist(next, Saving) /\ mem' = next /\ asked' = wanted
  <2>1. CASE raced'
    BY <1>1, <1>2, <2>1, <1>5 DEF persist, CallsWhileUp, SnapIsFresh, SetIsAsked, FileIsAsked, MemIsAsked
  <2>2. CASE ~raced'
    <3>1. ~raced /\ Saving = {}
      BY <2>2, <1>5 DEF persist
    <3>2. \A w \in Writers : call[w].pc \notin {"persist", "set"}
      BY <3>1 DEF Saving, OwnField, ChangesItsField
    <3>3. next = wanted
      BY <3>1, <3>2 DEF MemIsAsked
    <3> QED BY <1>1, <1>2, <1>3, <1>5, <3>2, <3>3
            DEF persist, ConfigTypes, CallsWhileUp, SnapIsFresh, SetIsAsked, FileIsAsked, MemIsAsked
  <2> QED BY <2>1, <2>2
<1> QED BY <1>4, <1>5 DEF Update

\* Starting: only the reading of the file and the stripping of the old token touch the
\* configuration, and no call is under way.
LEMMA StartKeeps ==
  ASSUME WritesInv, StartStep
  PROVE  WritesInv'
<1> USE DEF WritesInv
<1>1. CASE Start
  BY <1>1 DEF Start, settings, ConfigTypes, CallsWhileUp, OwnField, SnapIsFresh, SetIsAsked, FileIsAsked, MemIsAsked
<1>2. CASE load
  <2>1. UNCHANGED <<call, asked, raced>>
    BY <1>2 DEF load
  <2>2. \A w \in Writers : call[w].pc = "idle"
    BY <1>2 DEF load, CallsWhileUp
  <2>3. CASE disk.st = "torn"
    BY <2>1, <2>2, <2>3, <1>2, FieldTypes
       DEF load, ConfigTypes, CallsWhileUp, OwnField, SnapIsFresh, SetIsAsked, FileIsAsked, MemIsAsked
  <2>4. CASE disk.st # "torn"
    <3>1. /\ mem' = disk.cfg /\ app' = "store"
          /\ disk' = disk \/ (disk.st = "missing" /\ disk' = [st |-> "whole", cfg |-> Default])
      BY <1>2, <2>4 DEF load
    <3> QED BY <2>1, <2>2, <2>4, <3>1
            DEF load, ConfigTypes, CallsWhileUp, OwnField, SnapIsFresh, SetIsAsked, FileIsAsked, MemIsAsked
  <2> QED BY <2>3, <2>4
<1>3. CASE MasterKey \/ FleetKey
  BY <1>3 DEF MasterKey, FleetKey, settings, ConfigTypes, CallsWhileUp, OwnField, SnapIsFresh, SetIsAsked, FileIsAsked, MemIsAsked
<1>4. CASE ensureFleetAPIKey
  <2>1. CASE mem.legacy = 0
    BY <1>4, <2>1 DEF ensureFleetAPIKey, ConfigTypes, CallsWhileUp, OwnField, SnapIsFresh, SetIsAsked, FileIsAsked, MemIsAsked
  <2>2. CASE mem.legacy # 0
    BY <1>4, <2>2, FieldTypes, UpdateKeeps DEF ensureFleetAPIKey, ConfigTypes
  <2> QED BY <2>1, <2>2
<1> QED BY <1>1, <1>2, <1>3, <1>4 DEF StartStep

\* A call that begins has read memory as it is.
LEMMA CallBegins ==
  ASSUME WritesInv, NEW w \in Writers, NEW c \in Calls,
         app = "up", call[w].pc = "idle", Become(w, c), UNCHANGED <<app, disk, mem, asked, raced>>,
         ChangesItsField(c), c.pc \in {"write", "persist"}, c.snap = mem
  PROVE  WritesInv'
<1> USE DEF WritesInv
<1>1. call' \in [Writers -> Calls] /\ \A o \in Writers : call'[o] = IF o = w THEN c ELSE call[o]
  BY DEF Become, ConfigTypes
<1>2. ConfigTypes'
  BY <1>1 DEF ConfigTypes
<1> QED BY <1>1, <1>2 DEF CallsWhileUp, OwnField, SnapIsFresh, SetIsAsked, FileIsAsked, MemIsAsked

LEMMA CallKeeps ==
  ASSUME WritesInv, NEW w \in Writers, CallStep(w)
  PROVE  WritesInv'
<1> USE DEF WritesInv
<1>1. ASSUME NEW i \in {"auto", "off"}, SaveSettings(w, i) PROVE WritesInv'
  <2> DEFINE c == [pc |-> "write", op |-> "settings", snap |-> mem, next |-> FormOn(mem, i)]
  <2>1. c \in Calls
    BY FieldTypes DEF Calls, ConfigTypes
  <2>2. ChangesItsField(c)
    BY DEF ChangesItsField
  <2> QED BY <1>1, <2>1, <2>2, CallBegins DEF SaveSettings
<1>2. ASSUME NEW s \in Slugs, IgnoreDrift(w, s) PROVE WritesInv'
  <2> DEFINE c == [pc |-> "persist", op |-> "mute", snap |-> mem, next |-> [mem EXCEPT !.mutes = @ \cup {s}]]
  <2>1. c \in Calls
    BY FieldTypes DEF Calls, ConfigTypes
  <2>2. ChangesItsField(c)
    BY DEF ChangesItsField
  <2> QED BY <1>2, <2>1, <2>2, CallBegins DEF IgnoreDrift
<1>3. CASE CompleteOnboarding(w)
  <2> DEFINE c == [pc |-> "persist", op |-> "onboard", snap |-> mem, next |-> [mem EXCEPT !.onboarded = TRUE]]
  <2>1. c \in Calls
    BY FieldTypes DEF Calls, ConfigTypes
  <2>2. ChangesItsField(c)
    BY DEF ChangesItsField
  <2> QED BY <1>3, <2>1, <2>2, CallBegins DEF CompleteOnboarding
<1>4. CASE UpdateForm(w)
  <2> DEFINE i == call[w].next.isolation
  <2>1. i \in {"auto", "off"}
    BY DEF ConfigTypes, Calls, Cfg
  <2>2. FormOnto(mem, call[w].next) = FormOn(mem, i)
    BY DEF FormOnto
  <2>3. FormOn(mem, i) \in Cfg /\ FormOn(asked, i) \in Cfg
    BY <2>1, FieldTypes DEF ConfigTypes
  <2>4. /\ app = "up" /\ app' = "up" /\ Update(FormOn(mem, i), FormOn(asked, i))
        /\ call[w].pc = "write" /\ call' = [call EXCEPT ![w] = Idle]
    BY <1>4, <2>2 DEF UpdateForm, Become
  <2> QED BY <2>3, <2>4, UpdateKeeps
<1>5. CASE Persist(w)
  <2> DEFINE c == call[w]
  <2>1. c \in Calls /\ app = "up" /\ app' = "up" /\ c.pc = "persist"
    BY <1>5 DEF Persist, ConfigTypes
  <2>2. CASE PersistFails /\ Become(w, Idle)
    <3>1. call' \in [Writers -> Calls] /\ \A o \in Writers : call'[o] = IF o = w THEN Idle ELSE call[o]
      BY <2>2, CallTypes DEF Become, ConfigTypes
    <3>2. ConfigTypes' /\ OwnField'
      BY <2>1, <2>2, <3>1, IdleFields, OwnFieldKept DEF PersistFails, ConfigTypes
    <3>3. disk'.st = "torn" /\ UNCHANGED <<mem, asked, raced>>
      BY <2>2 DEF PersistFails, ConfigTypes
    <3>4. \A o \in Writers : call'[o].pc \in {"persist", "set"} => call'[o] = call[o]
      BY <3>1, IdleFields
    <3>5. MemIsAsked'
      BY <2>1, <3>1, <3>3, IdleFields DEF MemIsAsked
    <3> QED BY <2>1, <3>2, <3>3, <3>4, <3>5 DEF CallsWhileUp, SnapIsFresh, SetIsAsked, FileIsAsked
  <2>3. ASSUME persist(c.next, Saving \ {w}), Become(w, [c EXCEPT !.pc = "set"]), UNCHANGED mem,
               asked' = [asked EXCEPT !.mutes = IF c.op = "mute" THEN @ \cup (c.next.mutes \ c.snap.mutes) ELSE @,
                                      !.onboarded = @ \/ c.op = "onboard"]
        PROVE  WritesInv'
    <3> DEFINE d == [c EXCEPT !.pc = "set"]
    <3>1. d \in Calls /\ d.pc = "set" /\ d.op = c.op /\ d.snap = c.snap /\ d.next = c.next
      BY <2>1 DEF Calls
    <3>2. call' \in [Writers -> Calls] /\ \A o \in Writers : call'[o] = IF o = w THEN d ELSE call[o]
      BY <2>3, <3>1 DEF Become, ConfigTypes
    <3>3. asked' \in Cfg /\ c.next \in Cfg
      BY ZenonT(60), <2>1, <2>3 DEF Calls, ConfigTypes, Cfg
    <3>4. disk' = [st |-> "whole", cfg |-> c.next] /\ raced' \in BOOLEAN
      BY <2>3 DEF persist, ConfigTypes
    <3>5. ConfigTypes'
      BY <2>1, <2>3, <3>2, <3>3, <3>4 DEF ConfigTypes
    <3>6. OwnField'
      <4>1. ChangesItsField(c)
        BY DEF OwnField
      <4>2. ChangesItsField(d)
        BY <2>1, <3>1, <4>1 DEF ChangesItsField
      <4> QED BY <3>2, <4>2, OwnFieldKept
    <3>7. CASE raced'
      BY <2>1, <3>4, <3>5, <3>6, <3>7 DEF CallsWhileUp, SnapIsFresh, SetIsAsked, FileIsAsked, MemIsAsked
    <3>8. CASE ~raced'
      <4>1. ~raced /\ \A o \in Writers \ {w} : call[o].pc \notin {"persist", "set"}
        BY <2>3, <3>8 DEF persist, Saving, OwnField, ChangesItsField
      <4>2. c.snap = mem /\ mem = asked
        BY <2>1, <4>1 DEF SnapIsFresh, MemIsAsked
      <4>3. c.next = asked'
        <5>1. CASE c.op = "mute"
          <6>1. PICK s \in Slugs : c.next = [mem EXCEPT !.mutes = @ \cup {s}]
            BY ZenonT(60), <2>1, <4>2, <5>1 DEF OwnField, ChangesItsField
          <6>2. asked' = [mem EXCEPT !.mutes = @ \cup (c.next.mutes \ mem.mutes)]
            BY <2>3, <4>2, <5>1 DEF ConfigTypes, Cfg
          <6>3. mem.mutes \cup (c.next.mutes \ mem.mutes) = mem.mutes \cup {s}
            BY <6>1 DEF ConfigTypes, Cfg
          <6> QED BY <6>1, <6>2, <6>3
        <5>2. CASE c.op = "onboard"
          <6>1. c.next = [mem EXCEPT !.onboarded = TRUE]
            BY <2>1, <4>2, <5>2 DEF OwnField, ChangesItsField
          <6>2. asked' = [mem EXCEPT !.onboarded = TRUE]
            BY <2>3, <4>2, <5>2 DEF ConfigTypes, Cfg
          <6> QED BY <6>1, <6>2
        <5> QED BY <2>1, <5>1, <5>2 DEF OwnField, ChangesItsField
      <4> QED
        BY ZenonT(60), <2>1, <3>1, <3>2, <3>4, <3>5, <3>6, <4>1, <4>3
           DEF CallsWhileUp, SnapIsFresh, SetIsAsked, FileIsAsked, MemIsAsked
    <3> QED BY <3>7, <3>8
  <2> QED BY <1>5, <2>2, <2>3 DEF Persist
<1>6. CASE Set(w)
  <2> DEFINE c == call[w]
  <2>1. c \in Calls /\ app = "up" /\ app' = "up" /\ c.pc = "set" /\ mem' = c.next /\ UNCHANGED <<disk, asked>>
    BY <1>6 DEF Set, ConfigTypes
  <2>2. call' \in [Writers -> Calls] /\ \A o \in Writers : call'[o] = IF o = w THEN Idle ELSE call[o]
    BY <1>6, CallTypes DEF Set, Become, ConfigTypes
  <2>3. raced' = (raced \/ Saving \ {w} # {}) /\ raced' \in BOOLEAN
    BY <1>6 DEF Set, ConfigTypes
  <2>4. ConfigTypes' /\ OwnField'
    BY <2>1, <2>2, <2>3, IdleFields, OwnFieldKept DEF ConfigTypes, Calls
  <2>5. CASE raced'
    BY <2>1, <2>4, <2>5 DEF CallsWhileUp, SnapIsFresh, SetIsAsked, FileIsAsked, MemIsAsked
  <2>6. CASE ~raced'
    <3>1. ~raced /\ \A o \in Writers \ {w} : call[o].pc \notin {"persist", "set"}
      BY <2>3, <2>6 DEF Saving, OwnField, ChangesItsField
    <3> QED
      BY <2>1, <2>2, <2>4, <3>1, IdleFields DEF CallsWhileUp, SnapIsFresh, SetIsAsked, FileIsAsked, MemIsAsked
  <2> QED BY <2>5, <2>6
<1> QED BY <1>1, <1>2, <1>3, <1>4, <1>5, <1>6 DEF CallStep

\* The switch of the sampler and the fence's memory write one field, under the lock.
LEMMA SwitchKeeps ==
  ASSUME WritesInv, SetActivityOn \/ SetActivityOff \/ \E on \in BOOLEAN : SetIsolationMemory(on)
  PROVE  WritesInv'
<1> USE DEF WritesInv
<1>1. CASE SetActivityOn
  BY <1>1, FieldTypes, UpdateKeeps DEF SetActivityOn, Running, ConfigTypes
<1>2. CASE SetActivityOff
  BY <1>2, FieldTypes, UpdateKeeps DEF SetActivityOff, Running, ConfigTypes
<1>3. ASSUME NEW on \in BOOLEAN, SetIsolationMemory(on) PROVE WritesInv'
  BY <1>3, FieldTypes, UpdateKeeps DEF SetIsolationMemory, ConfigTypes
<1> QED BY <1>1, <1>2, <1>3

\* The app may end at any moment: what is in the file is what the next start reads.
LEMMA CrashKeeps ==
  ASSUME WritesInv, Crash
  PROVE  WritesInv'
<1> USE DEF WritesInv
<1>1. /\ app' = "down" /\ UNCHANGED <<mem, asked, raced>>
      /\ disk' = disk \/ disk' = [disk EXCEPT !.st = "torn"]
  BY DEF Crash
<1>2. call' \in [Writers -> Calls] /\ \A w \in Writers : call'[w] = Idle
  BY FieldTypes DEF Crash, Idle, Calls, ConfigTypes
<1>3. ConfigTypes' /\ OwnField'
  BY <1>1, <1>2, IdleFields, OwnFieldKept DEF ConfigTypes
<1> QED BY <1>1, <1>2, <1>3, IdleFields DEF ConfigTypes, CallsWhileUp, SnapIsFresh, SetIsAsked, FileIsAsked, MemIsAsked

LEMMA WritesStep == WritesInv /\ [Next]_vars => WritesInv'
<1> SUFFICES ASSUME WritesInv, [Next]_vars PROVE WritesInv'
  OBVIOUS
<1>1. CASE UNCHANGED <<app, settings, secrets>> \/ RingToggles
  BY <1>1 DEF WritesInv, RingToggles, settings, ConfigTypes, CallsWhileUp, OwnField, SnapIsFresh, SetIsAsked, FileIsAsked,
              MemIsAsked
<1>2. CASE SetActivityOn \/ SetActivityOff
  BY <1>2, SwitchKeeps
<1>3. CASE ConfigNext
  BY <1>1, <1>3, StartKeeps, CallKeeps, SwitchKeeps, CrashKeeps DEF ConfigNext
<1> QED BY <1>1, <1>2, <1>3, Steps

\* The configuration and the calls under way keep their types.
THEOREM ConfigTypesHold == Spec => []ConfigTypes
<1>1. WritesInv => ConfigTypes BY DEF WritesInv
<1> QED BY <1>1, WritesInit, WritesStep, PTL DEF Spec

\* Every field is as its last write left it, in memory and across restarts, for any number
\* of callers, unless a whole Save overlaps another write.
THEOREM FieldsAreKept == Spec => []FieldsKept
<1>1. WritesInv => FieldsKept BY DEF WritesInv, MemIsAsked, FieldsKept
<1> QED BY <1>1, WritesInit, WritesStep, PTL DEF Spec

----------------------------------------------------------------------------
(* The secrets.                                                            *)

LEMMA SecretsInit == Init => SecretsInv
<1> SUFFICES ASSUME Init PROVE SecretsInv
  OBVIOUS
<1> USE DEF Init, ConfigInit
<1>1. SecretTypes
  BY DEF SecretTypes, KeysAreFew, Keys, Names
<1>2. KeysInRing
  <2>1. PICK n \in {0, 1} : issued = n /\ disk.cfg = [Default EXCEPT !.legacy = n]
    OBVIOUS
  <2>2. disk.cfg.legacy = issued
    BY <2>1 DEF Default
  <2>3. \A w \in Writers : call[w] = Idle
    OBVIOUS
  <2>4. LegacyHeld(issued)
    BY <2>2, <2>3, IdleFields DEF LegacyHeld
  <2> QED BY <2>4 DEF KeysInRing, Names
<1> QED BY <1>1, <1>2 DEF SecretsInv

\* There is always a key that was never minted.
LEMMA NewKeyIsNew ==
  ASSUME ConfigTypes, SecretTypes
  PROVE  NewKey \in 1..6 /\ NewKey \notin Minted
<1> DEFINE a == ring.items["master"]
           b == ring.items["fleet"]
           c == files["master"]
           d == files["fleet"]
<1>1. a \in Keys /\ b \in Keys /\ c \in Keys /\ d \in Keys
  BY DEF SecretTypes, Names
<1>2. Minted \subseteq {0, 1, a, b, c, d}
  BY DEF Minted, Names, SecretTypes, KeysAreFew, ConfigTypes, Cfg
<1>3. \E k \in 1..6 : k \notin {0, 1, a, b, c, d}
  BY <1>1 DEF Keys
<1>4. \E k \in 1..6 : k \notin Minted
  BY <1>2, <1>3
<1> QED BY <1>4 DEF NewKey

\* The token of an older configuration is carried by every write of the configuration.
LEMMA LegacyCarried ==
  ASSUME WritesInv, NEW n, LegacyHeld(n), [Next]_vars, app # "strip", app' # "strip"
  PROVE  LegacyHeld(n)'
<1> USE DEF LegacyHeld
<1>1. CASE UNCHANGED settings /\ (app \in {"down", "load", "refused"} => app' \in {"down", "load", "refused"})
  BY <1>1 DEF settings
<1>2. CASE Start
  BY <1>2 DEF Start, settings
<1>3. CASE load
  BY <1>3 DEF load, WritesInv, FileIsAsked, CallsWhileUp, ConfigTypes
<1>4. ASSUME NEW w \in Writers, CallStep(w) PROVE LegacyHeld(n)'
  <2>1. app = "up" /\ app' = "up" /\ mem.legacy = n /\ call[w] \in Calls /\ mem \in Cfg
    BY <1>4 DEF CallStep, SaveSettings, IgnoreDrift, CompleteOnboarding, UpdateForm, Persist, Set, WritesInv, ConfigTypes
  <2>2. ASSUME NEW i \in {"auto", "off"}, SaveSettings(w, i) PROVE LegacyHeld(n)'
    BY <2>1, <2>2 DEF SaveSettings, Become, WritesInv, ConfigTypes
  <2>3. ASSUME NEW s \in Slugs, IgnoreDrift(w, s) PROVE LegacyHeld(n)'
    BY <2>1, <2>3 DEF IgnoreDrift, Become, WritesInv, ConfigTypes, Cfg
  <2>4. CASE CompleteOnboarding(w)
    BY <2>1, <2>4 DEF CompleteOnboarding, Become, WritesInv, ConfigTypes, Cfg
  <2>5. CASE UpdateForm(w)
    <3>1. call[w].next.isolation \in {"auto", "off"}
      BY <2>1 DEF Calls, Cfg
    <3>2. FormOnto(mem, call[w].next).legacy = n
      BY <2>1, <3>1, FieldTypes DEF FormOnto
    <3>3. \A o \in Writers : call'[o] = IF o = w THEN Idle ELSE call[o]
      BY <2>5 DEF UpdateForm, Become, WritesInv, ConfigTypes
    <3>4. disk'.cfg.legacy = n /\ mem'.legacy = n
      BY <2>1, <2>5, <3>2 DEF UpdateForm, Update, persist, PersistFails, WritesInv, ConfigTypes
    <3> QED BY <2>1, <3>3, <3>4, IdleFields
  <2>6. CASE Persist(w)
    <3>1. disk'.cfg.legacy = n /\ mem' = mem
      BY <2>1, <2>6 DEF Persist, persist, PersistFails, WritesInv, ConfigTypes
    <3>2. call' = [call EXCEPT ![w] = Idle] \/ call' = [call EXCEPT ![w] = [call[w] EXCEPT !.pc = "set"]]
      BY <2>6 DEF Persist, Become
    <3>3. [call[w] EXCEPT !.pc = "set"].next = call[w].next /\ call[w].pc = "persist"
      BY <2>1, <2>6 DEF Persist, Calls
    <3>4. \A o \in Writers \ {w} : call'[o] = call[o]
      BY <3>2 DEF WritesInv, ConfigTypes
    <3>5. call'[w].pc = "idle" \/ call'[w].next = call[w].next
      BY <3>2, <3>3, IdleFields DEF WritesInv, ConfigTypes
    <3> QED BY <2>1, <3>1, <3>3, <3>4, <3>5
  <2>7. CASE Set(w)
    BY <2>1, <2>7, IdleFields DEF Set, Become, WritesInv, ConfigTypes
  <2> QED BY <1>4, <2>2, <2>3, <2>4, <2>5, <2>6, <2>7 DEF CallStep
<1>5. ASSUME NEW on \in BOOLEAN, SetIsolationMemory(on) PROVE LegacyHeld(n)'
  BY <1>5 DEF SetIsolationMemory, Update, persist, PersistFails, WritesInv, ConfigTypes, Cfg
<1>6. CASE Crash
  BY <1>6, IdleFields DEF Crash, WritesInv, ConfigTypes
<1>7. CASE SetActivityOn \/ SetActivityOff
  <2>1. app = "up" /\ app' = "up" /\ UNCHANGED call /\ mem \in Cfg
    BY <1>7 DEF SetActivityOn, SetActivityOff, Running, WritesInv, ConfigTypes
  <2>2. PICK on \in BOOLEAN : Update([mem EXCEPT !.activity = on], [asked EXCEPT !.activity = on])
    BY <1>7 DEF SetActivityOn, SetActivityOff
  <2>3. disk'.cfg.legacy = n /\ mem'.legacy = n
    BY <2>1, <2>2 DEF Update, persist, PersistFails, WritesInv, ConfigTypes, Cfg
  <2> QED BY <2>1, <2>3
<1>8. CASE MasterKey \/ FleetKey \/ RingToggles \/ UNCHANGED <<app, settings, secrets>>
  BY <1>1, <1>8 DEF MasterKey, FleetKey, RingToggles
<1>9. ~ensureFleetAPIKey
  BY DEF ensureFleetAPIKey
<1> QED BY <1>2, <1>3, <1>4, <1>5, <1>6, <1>7, <1>8, <1>9, Steps DEF ConfigNext, StartStep

\* What the two steps of a start that take a secret do to the keys.
LEMMA KeyTypesKept ==
  ASSUME ConfigTypes, SecretTypes, MasterKey \/ FleetKey
  PROVE  SecretTypes'
<1>1. NewKey \in Keys
  BY NewKeyIsNew DEF Keys
<1>2. /\ ring.up \in BOOLEAN
      /\ \A s \in Names : ring.items[s] \in Keys /\ files[s] \in Keys
      /\ {"master", "fleet"} = Names /\ mem.legacy \in Keys
  BY DEF SecretTypes, ConfigTypes, Cfg, Names, Keys
<1>3. ASSUME NEW s \in Names, Migrate(s)
      PROVE  /\ ring' \in [up : BOOLEAN, items : [Names -> Keys]]
             /\ \A o \in Names \ {s} : ring'.items[o] = ring.items[o]
             /\ ring'.items[s] = ring.items[s] \/ (ring.items[s] = 0 /\ ring'.items[s] = files[s])
             /\ Stored(s) \in {ring'.items[s], files[s]} \cap Keys
  BY <1>2, <1>3 DEF Migrate, Stored, Found, SecretTypes
<1>4. ASSUME NEW s \in Names, NEW key \in Keys, Stored(s) = 0, writeSecret(s, key)
      PROVE  /\ ring' \in [up : BOOLEAN, items : [Names -> Keys]] /\ files' \in [Names -> Keys]
             /\ \A o \in Names \ {s} : ring'.items[o] = ring.items[o] /\ files'[o] = files[o]
             /\ key \in {ring'.items[s], files'[s]}
  BY <1>2, <1>4 DEF writeSecret, Stored, Found, SecretTypes
<1>5. CASE MasterKey
  <2>1. CASE Stored("master") # 0 /\ Migrate("master") /\ UNCHANGED files /\ sealed' = Stored("master")
    BY <1>2, <1>3, <1>5, <2>1 DEF MasterKey, SecretTypes, KeysAreFew
  <2>2. CASE UNCHANGED <<ring, files, sealed>>
    BY <1>5, <2>2 DEF MasterKey, SecretTypes, KeysAreFew
  <2>3. CASE Stored("master") = 0 /\ writeSecret("master", NewKey) /\ sealed' = NewKey
    BY <1>1, <1>2, <1>4, <1>5, <2>3 DEF MasterKey, SecretTypes, KeysAreFew
  <2> QED BY <1>5, <2>1, <2>2, <2>3 DEF MasterKey
<1>6. CASE FleetKey
  <2>1. CASE Stored("fleet") # 0 /\ Migrate("fleet") /\ UNCHANGED files /\ issued' = Stored("fleet")
    BY <1>2, <1>3, <1>6, <2>1 DEF FleetKey, SecretTypes, KeysAreFew
  <2>2. CASE UNCHANGED <<ring, files, issued>>
    BY <1>6, <2>2 DEF FleetKey, SecretTypes, KeysAreFew
  <2>3. ASSUME NEW token \in {mem.legacy, NewKey}, Stored("fleet") = 0, writeSecret("fleet", token), issued' = token
        PROVE  SecretTypes'
    BY ZenonT(60), <1>1, <1>2, <1>4, <1>6, <2>3 DEF FleetKey, SecretTypes, KeysAreFew
  <2> QED BY <1>6, <2>1, <2>2, <2>3 DEF FleetKey
<1> QED BY <1>5, <1>6

\* A start takes the keys it finds; where the keychain is always there, it makes a key only
\* when there is none, and puts it in the keychain.
LEMMA MasterKeyKept ==
  ASSUME ConfigTypes, SecretsInv, goos = "always", MasterKey
  PROVE  /\ sealed # 0 => sealed' = sealed
         /\ sealed' # 0 => ring'.items["master"] = sealed'
         /\ ring'.items["fleet"] = ring.items["fleet"] /\ UNCHANGED <<issued, files>>
<1>1. /\ ring \in [up : BOOLEAN, items : [Names -> Keys]] /\ {"master", "fleet"} = Names
      /\ files["master"] = 0 /\ (sealed # 0 => ring.items["master"] = sealed)
  BY DEF SecretsInv, SecretTypes, KeysInRing, Names
<1>2. NewKey # 0
  BY NewKeyIsNew DEF SecretsInv
<1>3. CASE Stored("master") # 0 /\ Migrate("master") /\ UNCHANGED files /\ sealed' = Stored("master")
  BY <1>1, <1>3 DEF MasterKey, Stored, Found, Migrate
<1>4. CASE UNCHANGED <<ring, files, sealed>>
  BY <1>1, <1>4 DEF MasterKey
<1>5. CASE Stored("master") = 0 /\ ~refuseKeyRegen("master") /\ writeSecret("master", NewKey) /\ sealed' = NewKey
  <2>1. ring.up /\ ring.items["master"] = 0
    BY <1>1, <1>5 DEF refuseKeyRegen, Stored, Found
  <2> QED BY <1>1, <1>2, <1>5, <2>1, MasterKey DEF writeSecret, MasterKey
<1> QED BY <1>3, <1>4, <1>5 DEF MasterKey

LEMMA FleetKeyKept ==
  ASSUME ConfigTypes, SecretsInv, goos = "always", FleetKey
  PROVE  /\ issued # 0 => issued' = issued
         /\ ring'.items["fleet"] # 0 => issued' = ring'.items["fleet"]
         /\ app' = "strip" => ring'.items["fleet"] # 0
         /\ ring'.items["fleet"] = 0 => ring.items["fleet"] = 0 /\ UNCHANGED issued
         /\ ring'.items["master"] = ring.items["master"] /\ UNCHANGED <<sealed, files>>
<1>1. /\ ring \in [up : BOOLEAN, items : [Names -> Keys]] /\ {"master", "fleet"} = Names
      /\ files["fleet"] = 0 /\ (ring.items["fleet"] # 0 => issued = ring.items["fleet"])
      /\ ring.items["fleet"] = 0 => mem.legacy = issued
  BY DEF SecretsInv, SecretTypes, KeysInRing, LegacyHeld, Names, FleetKey
<1>2. NewKey # 0
  BY NewKeyIsNew DEF SecretsInv
<1>3. CASE Stored("fleet") # 0 /\ Migrate("fleet") /\ UNCHANGED files /\ issued' = Stored("fleet")
  BY <1>1, <1>3 DEF FleetKey, Stored, Found, Migrate
<1>4. CASE app' = "up" /\ UNCHANGED <<ring, files, issued>>
  BY <1>1, <1>4 DEF FleetKey
<1>5. ASSUME Stored("fleet") = 0, ~refuseKeyRegen("fleet"),
             NEW token, token = IF mem.legacy # 0 THEN mem.legacy ELSE NewKey,
             writeSecret("fleet", token), issued' = token
      PROVE  /\ issued # 0 => issued' = issued
             /\ ring'.items["fleet"] = token /\ token # 0
             /\ ring'.items["master"] = ring.items["master"] /\ UNCHANGED files
  <2>1. ring.up /\ ring.items["fleet"] = 0
    BY <1>1, <1>5 DEF refuseKeyRegen, Stored, Found
  <2> QED BY <1>1, <1>2, <1>5, <2>1 DEF writeSecret
<1> QED BY <1>3, <1>4, <1>5 DEF FleetKey

LEMMA SecretsStep ==
  ASSUME WritesInv, SecretsInv, [Next]_vars
  PROVE  /\ SecretsInv'
         /\ goos = "always" => (sealed # 0 => sealed' = sealed) /\ (issued # 0 => issued' = issued)
<1>1. ConfigTypes /\ ConfigTypes'
  BY WritesStep DEF WritesInv
<1>2. CASE MasterKey
  <2>1. SecretTypes'
    BY <1>1, <1>2, KeyTypesKept DEF SecretsInv
  <2>2. app # "strip" /\ app' # "strip" /\ UNCHANGED goos
    BY <1>2 DEF MasterKey
  <2>3. KeysInRing'
    BY <1>1, <1>2, <2>2, MasterKeyKept, LegacyCarried DEF SecretsInv, KeysInRing
  <2> QED BY <1>1, <1>2, <2>1, <2>3, MasterKeyKept DEF SecretsInv
<1>3. CASE FleetKey
  <2>1. SecretTypes'
    BY <1>1, <1>3, KeyTypesKept DEF SecretsInv
  <2>2. app # "strip" /\ UNCHANGED goos /\ app' \in {"strip", "up"}
    BY <1>3 DEF FleetKey
  <2>3. ASSUME goos = "always", ring'.items["fleet"] = 0 PROVE LegacyHeld(issued)' /\ UNCHANGED issued
    <3>1. ring.items["fleet"] = 0 /\ UNCHANGED issued /\ app' # "strip"
      BY <1>1, <1>3, <2>3, FleetKeyKept
    <3>2. LegacyHeld(issued)
      BY <2>3, <3>1 DEF SecretsInv, KeysInRing
    <3> QED BY <2>2, <3>1, <3>2, LegacyCarried DEF LegacyHeld
  <2>4. KeysInRing'
    BY <1>1, <1>3, <2>2, <2>3, FleetKeyKept DEF SecretsInv, KeysInRing
  <2> QED BY <1>1, <1>3, <2>1, <2>4, FleetKeyKept DEF SecretsInv, FleetKey
<1>4. CASE RingToggles
  <2>1. ring' \in [up : BOOLEAN, items : [Names -> Keys]] /\ ring'.items = ring.items
    BY <1>4 DEF RingToggles, SecretsInv, SecretTypes
  <2> QED
    BY <1>4, <2>1 DEF RingToggles, settings, SecretsInv, SecretTypes, KeysAreFew, KeysInRing, LegacyHeld
<1>5. CASE UNCHANGED <<ring, files, sealed, issued, goos>> /\ ~FleetKey
  <2>1. SecretTypes'
    BY <1>5 DEF SecretsInv, SecretTypes, KeysAreFew
  <2>2. app' = "strip" => app = "strip"
    BY <1>5, Steps DEF ConfigNext, StartStep, Start, load, MasterKey, ensureFleetAPIKey, CallStep, SaveSettings, IgnoreDrift,
                       CompleteOnboarding, UpdateForm, Persist, Set, SetIsolationMemory, Crash, RingToggles,
                       SetActivityOn, SetActivityOff
  <2>3. KeysInRing'
    BY <1>5, <2>2, LegacyCarried DEF SecretsInv, KeysInRing
  <2> QED BY <1>5, <2>1, <2>3 DEF SecretsInv
<1>6. MasterKey \/ FleetKey \/ RingToggles \/ UNCHANGED <<ring, files, sealed, issued, goos>>
  BY Steps DEF ConfigNext, StartStep, Start, load, ensureFleetAPIKey, CallStep, SaveSettings, IgnoreDrift,
               CompleteOnboarding, UpdateForm, Persist, Set, SetIsolationMemory, Crash, SetActivityOn, SetActivityOff, secrets
<1> QED BY <1>2, <1>3, <1>4, <1>5, <1>6

\* Where the keychain is always there, no start ever replaces a key that is in use, though
\* the keychain is locked and the app dies between any two steps.
THEOREM KeysStayStable == Spec => KeysAreStable
<1>1. WritesInv /\ SecretsInv /\ [Next]_vars => (WritesInv /\ SecretsInv)'
  BY WritesStep, SecretsStep
<1>2. WritesInv /\ SecretsInv /\ [Next]_vars =>
        [goos = "always" => /\ sealed # 0 => sealed' = sealed
                            /\ issued # 0 => issued' = issued]_secrets
  BY SecretsStep
<1> QED BY <1>1, <1>2, WritesInit, SecretsInit, PTL DEF Spec, KeysAreStable

----------------------------------------------------------------------------
(* The sampler.                                                            *)

\* A start of the app, which starts a sampler that has no round.
LEMMA SamplerStarts ==
  ASSUME RoundInv, StartSampler
  PROVE  RoundInv'
BY DEF RoundInv, SamplerTypes, StaleIsMoved, NothingAfterDelete, StartSampler, stored, NoRound

\* A delete, done or not, moves the generation on.
LEMMA DeleteMoves ==
  ASSUME SamplerTypes, NEW pc \in {"idle", "choose", "round", "store", "retry", "purge", "spikes"},
         NEW done \in MayFail, Deletes(pc, done)
  PROVE  /\ round' \in [pc : {"idle", "choose", "round", "store", "retry", "purge", "spikes"}, moved : BOOLEAN, stale : BOOLEAN]
         /\ round'.moved
<1>1. done \in BOOLEAN
  BY DEF MayFail
<1>2. (round.stale \/ done) \in BOOLEAN
  OBVIOUS
<1> QED BY <1>2 DEF Deletes

LEMMA RoundStep == RoundInv /\ [Next]_vars => RoundInv'
<1> SUFFICES ASSUME RoundInv, [Next]_vars PROVE RoundInv'
  OBVIOUS
<1> USE DEF RoundInv, SamplerTypes, StaleIsMoved
<1>1. CASE UNCHANGED activity
  BY <1>1 DEF activity, NothingAfterDelete
<1>2. CASE StartSampler
  BY <1>2, SamplerStarts
<1>3. CASE SetActivityOn \/ HourPasses
  BY <1>3 DEF SetActivityOn, HourPasses, stored, NothingAfterDelete
<1>4. CASE SetActivityOff
  BY <1>4 DEF SetActivityOff, stored, Deletes, NothingAfterDelete
<1>5. CASE DeleteAddresses \/ DeleteActivityData
  <2>1. round.pc \in {"idle", "choose", "round", "store", "retry", "purge", "spikes"}
    OBVIOUS
  <2>2. PICK done \in MayFail : /\ Deletes(round.pc, done)
                               /\ raw' \in {{}, raw} /\ alerts' \in {{}, alerts}
    BY <1>5 DEF DeleteAddresses, DeleteActivityData
  <2> QED BY <2>1, <2>2, DeleteMoves DEF NothingAfterDelete
<1>6. CASE Tick \/ Choose \/ Round
  BY <1>6 DEF Tick, Choose, Round, NoRound, Goto, At, stored, NothingAfterDelete
<1>7. CASE storeActivityRound
  <2>1. Allowed => ~round.stale /\ Written(round) \in Row /\ ~Written(round).late
    BY DEF Allowed, Written, Row
  <2> QED BY <1>7, <2>1 DEF storeActivityRound, Goto, stored, NothingAfterDelete
<1>8. CASE retryActivityDelete
  <2>1. CASE Goto("purge") /\ UNCHANGED raw
    BY <1>8, <2>1 DEF retryActivityDelete, Goto, NothingAfterDelete
  <2>2. ASSUME NEW done \in MayFail, Deletes("purge", done), raw' \in {{}, raw} PROVE RoundInv'
    BY <1>8, <2>2, DeleteMoves DEF retryActivityDelete, NothingAfterDelete
  <2> QED BY <1>8, <2>1, <2>2 DEF retryActivityDelete
<1>9. CASE PurgeActivity
  BY <1>9 DEF PurgeActivity, Goto, MayFail, NothingAfterDelete
<1>10. CASE activitySpikes
  <2>1. Allowed => ~round.stale /\ Written(round) \in Row /\ ~Written(round).late
    BY DEF Allowed, Written, Row
  <2> QED BY <1>10, <2>1 DEF activitySpikes, Goto, NothingAfterDelete
<1>11. CASE DayPasses
  BY ZenonT(60), <1>11 DEF DayPasses, Row, NothingAfterDelete
<1>12. CASE UNCHANGED vars
  BY <1>1, <1>12 DEF vars, activity
<1> QED
  BY <1>1, <1>2, <1>3, <1>4, <1>5, <1>6, <1>7, <1>8, <1>9, <1>10, <1>11, <1>12 DEF Next, Sampler

\* Nothing a delete should have taken is stored after it, whatever the switch does while
\* the round is under way.
THEOREM NothingIsStoredAfterDelete == Spec => []NothingAfterDelete
<1>1. Init => RoundInv
  BY DEF Init, RoundInv, SamplerTypes, StaleIsMoved, NothingAfterDelete, NoRound
<1>2. RoundInv => NothingAfterDelete
  BY DEF RoundInv
<1> QED BY <1>1, <1>2, RoundStep, PTL DEF Spec

----------------------------------------------------------------------------
(* The fence: what runs under f.mu, and what an earner is started behind.   *)

InMu   == {"ensure", "clear", "create", "run", "reattach"}
Toward == {"ping", "reconcile", "list", "look", "record", "mu"} \cup InMu

\* The shape of what is changed field by field.
FenceShape ==
  /\ DOMAIN pr = Callers /\ \A p \in Callers : {"pc", "job", "act"} \subseteq DOMAIN pr[p]
  /\ {"mu", "rec"} \subseteq DOMAIN lock
  /\ {"who", "busy", "act"} \subseteq DOMAIN helper
  /\ DOMAIN box = Earners /\ \A e \in Earners : {"st", "at"} \subseteq DOMAIN box[e]

\* Who works on network, helper and table holds f.mu; a call on its way there is one of three.
MuHeld == \A p \in Callers : pr[p].pc \in InMu => lock.mu = p
JobInv == \A p \in Callers : pr[p].pc \in Toward => pr[p].job \in {"reconcile", "enable", "deploy"}

\* From the helper that wrote the drops to the reattach, no helper that takes them away runs.
DropsInv ==
  \A p \in Callers : pr[p].pc = "reattach" => table # "masq" /\ (helper.busy => helper.act = "apply")

FenceInv == FenceShape /\ MuHeld /\ JobInv /\ DropsInv

\* A caller at rest is in none of the fence's code.
LEMMA RestingFacts == Resting.pc = "idle" /\ {"pc", "job", "act"} \subseteq DOMAIN Resting
<1> DEFINE blank == ""
<1>1. PICK seen, e : Resting = [pc |-> "idle", job |-> blank, chosen |-> "auto", mode |-> blank, managed |-> FALSE, seen |-> seen,
                                act |-> "apply", try |-> 1, at |-> 0, e |-> e, todo |-> {}]
  BY Zenon DEF Resting, Bridge
<1> HIDE DEF blank
<1> QED BY <1>1

\* The invariant holds at the start.
LEMMA FenceStart == FenceInit => FenceInv
<1> SUFFICES ASSUME FenceInit PROVE FenceInv OBVIOUS
<1>1. /\ pr = [p \in Callers |-> Resting] /\ helper = NoHelper /\ lock = [mu |-> Nobody, rec |-> Nobody]
  BY DEF FenceInit, Quiet
<1>2. box \in [Earners -> [st : {"absent", "running"}, at : Int]]
  <2>1. NoBox \in [st : {"absent", "running"}, at : Int] /\ \A n \in Int : RunningOn(n) \in [st : {"absent", "running"}, at : Int]
    BY DEF NoBox, RunningOn, Bridge
  <2>2. PICK earner \in [st : {"absent", "running"}, at : Int], tunnel \in [st : {"absent", "running"}, at : Int] : box = With(earner, tunnel)
    <3>1. CASE Fresh
      <4>1. box = With(NoBox, NoBox) \/ box = With(RunningOn(Other), NoBox) BY <3>1 DEF Fresh
      <4>2. Other \in Int BY DEF Other
      <4> QED BY <2>1, <4>1, <4>2
    <3>2. CASE Upgraded BY <2>1, <3>2 DEF Upgraded, Bridge
    <3>3. CASE Fenced BY <2>1, <3>3 DEF Fenced
    <3> QED BY <3>1, <3>2, <3>3 DEF FenceInit
  <2> QED BY <2>2 DEF With
<1> QED BY <1>1, <1>2, RestingFacts DEF FenceInv, FenceShape, MuHeld, JobInv, DropsInv, NoHelper, InMu, Toward

\* Where a call of a caller that is over leads it: never into the locked part.
LEMMA LeadsOut ==
  ASSUME FenceInv, NEW p \in Callers
  PROVE  /\ AfterDeploy(p).pc \in {"ping", "idle", "list"} /\ {"pc", "job", "act"} \subseteq DOMAIN AfterDeploy(p)
         /\ AfterDeploy(p).pc # "idle" => AfterDeploy(p).job \in {"reconcile", "deploy"}
         /\ pr[p].pc \in Toward =>
              /\ AfterFailure(p).pc \notin InMu /\ {"pc", "job", "act"} \subseteq DOMAIN AfterFailure(p)
              /\ AfterFailure(p).pc \in Toward => AfterFailure(p).job \in {"reconcile", "enable", "deploy"}
              /\ AfterSuccess(p).pc \notin Toward /\ {"pc", "job", "act"} \subseteq DOMAIN AfterSuccess(p)
<1>1. /\ AfterDeploy(p).pc \in {"ping", "idle", "list"} /\ {"pc", "job", "act"} \subseteq DOMAIN AfterDeploy(p)
      /\ AfterDeploy(p).pc # "idle" => AfterDeploy(p).job \in {"reconcile", "deploy"}
  BY RestingFacts DEF AfterDeploy
<1>2. ASSUME pr[p].pc \in Toward
      PROVE  /\ AfterFailure(p).pc \notin InMu /\ {"pc", "job", "act"} \subseteq DOMAIN AfterFailure(p)
             /\ AfterFailure(p).pc \in Toward => AfterFailure(p).job \in {"reconcile", "enable", "deploy"}
  <2>1. pr[p].job \in {"reconcile", "enable", "deploy"} /\ {"pc", "job", "act"} \subseteq DOMAIN pr[p]
    BY <1>2 DEF FenceInv, FenceShape, JobInv
  <2>2. CASE pr[p].job = "reconcile"
    <3>1. AfterFailure(p) = [pr[p] EXCEPT !.pc = IF pr[p].act = "apply" THEN "relist" ELSE "publish"]
      BY <2>2 DEF AfterFailure
    <3> QED BY <3>1, <2>1 DEF InMu, Toward
  <2>3. CASE pr[p].job = "enable"
    <3>1. AfterFailure(p) = Resting BY <2>3 DEF AfterFailure
    <3> QED BY <3>1, RestingFacts DEF InMu, Toward
  <2>4. CASE pr[p].job = "deploy"
    <3>1. AfterFailure(p) = AfterDeploy(p) BY <2>4 DEF AfterFailure
    <3> QED BY <3>1, <1>1 DEF InMu, Toward
  <2> QED BY <2>1, <2>2, <2>3, <2>4
<1>3. ASSUME pr[p].pc \in Toward
      PROVE  AfterSuccess(p).pc \notin Toward /\ {"pc", "job", "act"} \subseteq DOMAIN AfterSuccess(p)
  <2>1. pr[p].job \in {"reconcile", "enable", "deploy"} /\ {"pc", "job", "act"} \subseteq DOMAIN pr[p]
    BY <1>3 DEF FenceInv, FenceShape, JobInv
  <2> DEFINE to == CASE pr[p].job = "reconcile" -> IF pr[p].act = "apply" THEN "relist" ELSE "publish"
                     [] pr[p].job = "enable"    -> "remember"
                     [] pr[p].job = "deploy"    -> "remove"
  <2>2. to \in {"relist", "publish", "remember", "remove"}
    BY <2>1
  <2> HIDE DEF to
  <2>3. AfterSuccess(p) = [pr[p] EXCEPT !.pc = to, !.at = IF pr[p].job = "deploy" THEN 1 ELSE @, !.act = "apply", !.try = 1]
    BY Zenon DEF AfterSuccess, to
  <2> QED BY <2>1, <2>2, <2>3 DEF Toward, InMu
<1> QED BY <1>1, <1>2, <1>3

\* A caller moves outside the locked part, or out of it.
LEMMA TurnsOut ==
  ASSUME FenceInv, NEW p \in Callers, NEW r, Turn(p, r),
         {"pc", "job", "act"} \subseteq DOMAIN r, r.pc \notin InMu,
         r.pc \in Toward => r.job \in {"reconcile", "enable", "deploy"},
         \A q \in Callers \ {p} : lock.mu = q => lock'.mu = q,
         {"mu", "rec"} \subseteq DOMAIN lock', {"who", "busy", "act"} \subseteq DOMAIN helper',
         DOMAIN box' = Earners, \A e \in Earners : {"st", "at"} \subseteq DOMAIN box'[e],
         \/ table' \in {table, "none", "full"}
         \/ pr[p].pc \in InMu,
         helper' = helper \/ ~helper'.busy
  PROVE  FenceInv'
<1>1. DOMAIN pr' = Callers /\ pr'[p] = r /\ \A q \in Callers \ {p} : pr'[q] = pr[q]
  BY DEF Turn, FenceInv, FenceShape
<1>2. FenceShape' BY <1>1 DEF FenceInv, FenceShape
<1>3. MuHeld' BY <1>1 DEF FenceInv, MuHeld
<1>4. JobInv' BY <1>1 DEF FenceInv, JobInv
<1>5. \A q \in Callers \ {p} : pr[q].pc = "reattach" => pr[p].pc \notin InMu
  BY DEF FenceInv, MuHeld, InMu
<1>6. DropsInv' BY <1>1, <1>5 DEF FenceInv, DropsInv, InMu
<1> QED BY <1>2, <1>3, <1>4, <1>6 DEF FenceInv

\* A caller moves within it.
LEMMA TurnsIn ==
  ASSUME FenceInv, NEW p \in Callers, NEW r, Turn(p, r), pr[p].pc \in InMu, r.pc \in InMu,
         {"pc", "job", "act"} \subseteq DOMAIN r, r.job = pr[p].job,
         UNCHANGED lock, {"who", "busy", "act"} \subseteq DOMAIN helper',
         UNCHANGED box, r.pc = "reattach" => table' # "masq" /\ ~helper'.busy
  PROVE  FenceInv'
<1>1. DOMAIN pr' = Callers /\ pr'[p] = r /\ \A q \in Callers \ {p} : pr'[q] = pr[q]
  BY DEF Turn, FenceInv, FenceShape
<1>2. FenceShape' BY <1>1 DEF FenceInv, FenceShape
<1>3. MuHeld' BY <1>1 DEF FenceInv, MuHeld
<1>4. JobInv' BY <1>1 DEF FenceInv, JobInv, Toward
<1>5. \A q \in Callers \ {p} : pr'[q].pc # "reattach"
  BY <1>1 DEF FenceInv, MuHeld, InMu
<1>6. DropsInv' BY <1>1, <1>5 DEF DropsInv
<1> QED BY <1>2, <1>3, <1>4, <1>6 DEF FenceInv

\* No caller moves: containers, helper or table change, as the invariant allows.
LEMMA WorldMoves ==
  ASSUME FenceInv, UNCHANGED <<pr, lock>>,
         {"who", "busy", "act"} \subseteq DOMAIN helper',
         DOMAIN box' = Earners, \A e \in Earners : {"st", "at"} \subseteq DOMAIN box'[e],
         (\E p \in Callers : pr[p].pc = "reattach") =>
           /\ table' # "masq" \/ table' = table
           /\ helper'.busy => (helper.busy /\ helper'.act = helper.act) \/ helper'.act = "apply"
  PROVE  FenceInv'
<1>1. FenceShape' BY DEF FenceInv, FenceShape
<1>2. MuHeld' /\ JobInv' BY DEF FenceInv, MuHeld, JobInv
<1>3. DropsInv' BY DEF FenceInv, DropsInv
<1> QED BY <1>1, <1>2, <1>3 DEF FenceInv

\* A call begins outside the locked part.
LEMMA BeginsSafe ==
  ASSUME FenceInv, NEW p \in Callers, NEW pc, NEW job, UNCHANGED <<world, lock>>,
         pc \in Toward \ InMu, job \in {"reconcile", "enable", "deploy"},
         \/ Turn(p, [Resting EXCEPT !.pc = pc, !.job = job])
         \/ \E e \in Earners : Turn(p, [Resting EXCEPT !.pc = pc, !.job = job, !.e = e])
  PROVE  FenceInv'
<1> DEFINE Starts(r) == {"pc", "job", "act"} \subseteq DOMAIN r /\ r.pc = pc /\ r.job = job
<1>1. Starts([Resting EXCEPT !.pc = pc, !.job = job])
  BY RestingFacts
<1>2. \A e \in Earners : Starts([Resting EXCEPT !.pc = pc, !.job = job, !.e = e])
  BY RestingFacts
<1>3. PICK r : Turn(p, r) /\ Starts(r)
  <2> HIDE DEF Starts
  <2> QED BY <1>1, <1>2, Zenon
<1> QED BY <1>3, TurnsOut DEF world, FenceInv, FenceShape

\* The steps of a caller outside f.mu, and those that leave it.
LEMMA OutsideSteps ==
  ASSUME FenceInv, NEW p \in Callers,
         \/ Ping(p) \/ LockReconcile(p) \/ listEarners(p) \/ Look(p) \/ ModeFails(p) \/ Record(p)
         \/ Relist(p) \/ Publish(p) \/ Remember(p) \/ NextRedeploy(p)
         \/ RemoveOld(p) \/ Place(p) \/ PlaceFails(p) \/ Recount(p)
  PROVE  FenceInv'
<1>0. /\ {"pc", "job", "act"} \subseteq DOMAIN pr[p] /\ {"mu", "rec"} \subseteq DOMAIN lock
      /\ {"who", "busy", "act"} \subseteq DOMAIN helper
      /\ DOMAIN box = Earners /\ \A e \in Earners : {"st", "at"} \subseteq DOMAIN box[e]
      /\ pr[p].pc \in Toward => pr[p].job \in {"reconcile", "enable", "deploy"}
      /\ \A q \in Callers \ {p} : lock.mu = q => Freed(p).mu = q
      /\ {"mu", "rec"} \subseteq DOMAIN Freed(p)
  BY DEF FenceInv, FenceShape, JobInv, Freed
<1>1. CASE Ping(p)
  <2>1. CASE up
    <3>1. Turn(p, [pr[p] EXCEPT !.pc = "reconcile"]) BY <1>1, <2>1 DEF Ping, Proceed
    <3> QED BY <3>1, <1>0, <1>1, TurnsOut DEF Ping, Stands, Toward, InMu, world
  <2>2. CASE ~up
    BY <2>2, <1>0, <1>1, TurnsOut, RestingFacts DEF Ping, Toward, InMu, world
  <2> QED BY <2>1, <2>2
<1>2. CASE LockReconcile(p)
  BY <1>0, <1>2, TurnsOut DEF LockReconcile, Stands, Toward, InMu, world
<1>3. CASE listEarners(p)
  BY <1>0, <1>3, TurnsOut DEF listEarners, Stands, Toward, InMu, world
<1>4. CASE Look(p)
  <2>1. PICK m, d, z : Turn(p, [pr[p] EXCEPT !.pc = "record", !.mode = m, !.managed = d, !.seen = z])
    BY <1>4, Zenon DEF Look
  <2> QED BY <1>0, <1>4, <2>1, TurnsOut DEF Look, Stands, Toward, InMu, world
<1>5. CASE ModeFails(p)
  <2>1. CASE pr[p].job = "reconcile"
    BY <1>0, <1>5, <2>1, TurnsOut, RestingFacts DEF ModeFails, Toward, InMu, world
  <2>2. CASE pr[p].job # "reconcile"
    BY <1>0, <1>5, <2>2, TurnsOut, LeadsOut DEF ModeFails, Toward, InMu, world
  <2> QED BY <2>1, <2>2
<1>6. CASE Record(p)
  <2> DEFINE Goes(r) == /\ {"pc", "job", "act"} \subseteq DOMAIN r
                        /\ r.pc \in {"mu", "publish", "remove"}
                        /\ r.job \in {pr[p].job, "deploy"}
  <2>1. PICK r : Turn(p, r) /\ Goes(r)
    <3>1. \A m, a : Goes([pr[p] EXCEPT !.pc = "mu", !.managed = FALSE, !.mode = m, !.act = a])
      BY <1>0
    <3>2. Goes([pr[p] EXCEPT !.pc = "publish"])
      BY <1>0
    <3>3. \A e, todo : Goes([Resting EXCEPT !.pc = "remove", !.job = "deploy", !.e = e, !.todo = todo])
      BY RestingFacts
    <3> HIDE DEF Goes
    <3> QED BY <1>6, <3>1, <3>2, <3>3, ZenonT(60) DEF Record, Proceed
  <2> QED BY <1>0, <1>6, <2>1, TurnsOut DEF Record, Stands, Toward, InMu, world
<1>7. CASE Relist(p)
  <2> DEFINE Goes(r) == {"pc", "job", "act"} \subseteq DOMAIN r /\ r.pc = "publish"
  <2>1. PICK r : Turn(p, r) /\ Goes(r)
    <3>1. \A z : Goes([pr[p] EXCEPT !.pc = "publish", !.seen = z])
      BY <1>0
    <3>2. Goes([pr[p] EXCEPT !.pc = "publish"])
      BY <1>0
    <3> HIDE DEF Goes
    <3> QED BY <1>7, <3>1, <3>2, Zenon DEF Relist, Proceed
  <2> QED BY <1>0, <1>7, <2>1, TurnsOut DEF Relist, Toward, InMu, world
<1>8. CASE Publish(p)
  BY <1>0, <1>8, TurnsOut, RestingFacts DEF Publish, Toward, InMu, world
<1>9. CASE Remember(p)
  <2> DEFINE Goes(r) == {"pc", "job", "act"} \subseteq DOMAIN r /\ r.pc \in {"next", "idle"}
  <2>1. PICK r : Turn(p, r) /\ Goes(r)
    <3>1. Goes(Resting) /\ \A todo : Goes([Resting EXCEPT !.pc = "next", !.todo = todo])
      BY RestingFacts
    <3> HIDE DEF Goes
    <3> QED BY <1>9, <3>1, Zenon DEF Remember
  <2> QED BY <1>0, <1>9, <2>1, TurnsOut DEF Remember, Toward, InMu, world
<1>10. CASE NextRedeploy(p)
  BY <1>0, <1>10, TurnsOut, LeadsOut DEF NextRedeploy, Toward, InMu, world
<1>11. CASE RemoveOld(p)
  BY <1>0, <1>11, TurnsOut DEF RemoveOld, Proceed, NoBox, Toward, InMu
<1>12. CASE Place(p)
  <2>1. /\ DOMAIN box' = Earners /\ \A e \in Earners : {"st", "at"} \subseteq DOMAIN box'[e]
    BY <1>0, <1>12 DEF Place
  <2> QED BY <1>0, <1>12, <2>1, TurnsOut DEF Place, Proceed, Toward, InMu
<1>13. CASE PlaceFails(p)
  BY <1>0, <1>13, TurnsOut DEF PlaceFails, Proceed, Toward, InMu, world
<1>14. CASE Recount(p)
  BY <1>0, <1>14, TurnsOut, LeadsOut DEF Recount, Toward, InMu, world
<1> QED BY <1>1, <1>2, <1>3, <1>4, <1>5, <1>6, <1>7, <1>8, <1>9, <1>10, <1>11, <1>12, <1>13, <1>14

\* The steps from taking f.mu to giving it up.
LEMMA LockedSteps ==
  ASSUME FenceInv, NEW p \in Callers,
         \/ Lock(p) \/ ensureNetwork(p) \/ clearHelper(p) \/ CreateHelper(p) \/ CreateConflict(p)
         \/ RunHelper(p) \/ ApplyFails(p) \/ reattach(p)
  PROVE  FenceInv'
<1>0. /\ {"pc", "job", "act"} \subseteq DOMAIN pr[p] /\ {"mu", "rec"} \subseteq DOMAIN lock
      /\ {"who", "busy", "act"} \subseteq DOMAIN helper
      /\ DOMAIN box = Earners /\ \A e \in Earners : {"st", "at"} \subseteq DOMAIN box[e]
      /\ \A q \in Callers \ {p} : lock.mu = q => UnlockMu(p).mu = q
      /\ {"mu", "rec"} \subseteq DOMAIN UnlockMu(p)
      /\ {"who", "busy", "act"} \subseteq DOMAIN NoHelper /\ ~NoHelper.busy
  BY DEF FenceInv, FenceShape, UnlockMu, NoHelper
<1>1. CASE Lock(p)
  <2>1. \A q \in Callers : pr[q].pc \notin InMu
    <3>1. Nobody \notin Callers BY ChecksAssumption DEF Callers, Nobody
    <3> QED BY <1>1, <3>1 DEF Lock, Held, FenceInv, MuHeld
  <2>2. PICK to \in {"ensure", "clear"} : Turn(p, [pr[p] EXCEPT !.pc = to])
    BY <1>1 DEF Lock, Proceed
  <2>3. DOMAIN pr' = Callers /\ pr'[p] = [pr[p] EXCEPT !.pc = to] /\ \A q \in Callers \ {p} : pr'[q] = pr[q]
    BY <2>2 DEF Turn, FenceInv, FenceShape
  <2>4. FenceShape' BY <1>0, <1>1, <2>3 DEF Lock, world, FenceInv, FenceShape
  <2>5. MuHeld' BY <1>0, <1>1, <2>1, <2>3 DEF Lock, MuHeld
  <2>6. JobInv' BY <1>0, <1>1, <2>3 DEF Lock, Stands, FenceInv, JobInv, Toward
  <2>7. DropsInv' BY <1>0, <1>1, <2>1, <2>3 DEF Lock, DropsInv, InMu
  <2> QED BY <2>4, <2>5, <2>6, <2>7 DEF FenceInv
<1>2. CASE ensureNetwork(p)
  BY <1>0, <1>2, TurnsIn DEF ensureNetwork, Proceed, Stands, InMu
<1>3. CASE clearHelper(p)
  BY <1>0, <1>3, TurnsIn DEF clearHelper, Proceed, Stands, InMu
<1>4. CASE CreateHelper(p)
  BY <1>0, <1>4, TurnsIn DEF CreateHelper, Proceed, Stands, InMu
<1>5. CASE CreateConflict(p)
  <2>1. CASE pr[p].try = 1
    BY <1>0, <1>5, <2>1, TurnsIn DEF CreateConflict, Stands, InMu, world
  <2>2. CASE pr[p].try # 1
    BY <1>0, <1>5, <2>2, TurnsOut, LeadsOut DEF CreateConflict, Stands, Toward, InMu, world
  <2> QED BY <2>1, <2>2
<1>6. CASE RunHelper(p)
  <2>1. CASE pr[p].act = "apply"
    BY <1>0, <1>6, <2>1, TurnsIn DEF RunHelper, Proceed, Stands, InMu, TableOf
  <2>2. CASE pr[p].act # "apply"
    BY <1>0, <1>6, <2>2, TurnsOut, LeadsOut DEF RunHelper, Stands, Toward, InMu
  <2> QED BY <2>1, <2>2
<1>7. CASE ApplyFails(p)
  <2>1. /\ pr[p].pc \in InMu /\ Turn(p, AfterFailure(p)) /\ lock' = UnlockMu(p) /\ UNCHANGED box
        /\ helper' = helper \/ helper' = NoHelper
    BY <1>7 DEF ApplyFails, InMu
  <2> QED BY <1>0, <2>1, TurnsOut, LeadsOut DEF Toward
<1>8. CASE reattach(p)
  <2>1. /\ DOMAIN box' = Earners /\ \A e \in Earners : {"st", "at"} \subseteq DOMAIN box'[e]
    BY <1>0, <1>8 DEF reattach
  <2> QED BY <1>0, <1>8, <2>1, TurnsOut, LeadsOut DEF reattach, Stands, Toward, InMu
<1> QED BY <1>1, <1>2, <1>3, <1>4, <1>5, <1>6, <1>7, <1>8

\* Every step keeps the invariant.
LEMMA FenceStep == FenceInv /\ [FenceNext]_fenceVars => FenceInv'
<1> SUFFICES ASSUME FenceInv, [FenceNext]_fenceVars PROVE FenceInv' OBVIOUS
<1>0. /\ {"who", "busy", "act"} \subseteq DOMAIN helper
      /\ DOMAIN box = Earners /\ \A e \in Earners : {"st", "at"} \subseteq DOMAIN box[e]
  BY DEF FenceInv, FenceShape
<1>1. CASE FenceTick
  BY <1>1, BeginsSafe DEF FenceTick, Callers, Toward, InMu
<1>2. ASSUME NEW s \in Settings, ChangeSetting(s) PROVE FenceInv'
  <2>1. PICK c \in Checks : Turn(c, [Resting EXCEPT !.pc = "ping", !.job = "reconcile"])
    BY <1>2 DEF ChangeSetting
  <2> QED BY <1>2, <2>1, BeginsSafe DEF ChangeSetting, Callers, Toward, InMu
<1>3. ASSUME NEW e \in Earners, Deploy(e) PROVE FenceInv'
  BY <1>3, BeginsSafe DEF Deploy, Callers, Toward, InMu
<1>4. CASE EnableFence
  BY <1>4, BeginsSafe DEF EnableFence, Callers, Toward, InMu
<1>5. ASSUME NEW p \in Callers, Step(p) PROVE FenceInv'
  BY <1>5, OutsideSteps, LockedSteps DEF Step
<1>6. CASE NetworkGoes
  <2>1. DOMAIN box' = Earners /\ \A e \in Earners : {"st", "at"} \subseteq DOMAIN box'[e]
    BY <1>0, <1>6 DEF NetworkGoes
  <2> QED BY <1>0, <1>6, <2>1, WorldMoves DEF NetworkGoes
<1>7. CASE TableGoes BY <1>0, <1>7, WorldMoves DEF TableGoes
<1>8. CASE DaemonToggles BY <1>0, <1>8, WorldMoves DEF DaemonToggles
<1>9. CASE OtherHelper BY <1>0, <1>9, WorldMoves DEF OtherHelper
<1>10. CASE HelperEnds
  <2>1. (\E p \in Callers : pr[p].pc = "reattach") => table' = "full"
    BY <1>10 DEF HelperEnds, FenceInv, DropsInv, TableOf
  <2>2. {"who", "busy", "act"} \subseteq DOMAIN helper' /\ ~helper'.busy
    BY <1>0, <1>10 DEF HelperEnds, NoHelper
  <2> QED BY <1>0, <1>10, <2>1, <2>2, WorldMoves DEF HelperEnds
<1>11. ASSUME NEW e \in Earners, UserStops(e) PROVE FenceInv'
  <2>1. DOMAIN box' = Earners /\ \A x \in Earners : {"st", "at"} \subseteq DOMAIN box'[x]
    BY <1>0, <1>11 DEF UserStops
  <2> QED BY <1>0, <1>11, <2>1, WorldMoves DEF UserStops
<1>12. CASE AppRestart
  <2>1. pr' = [p \in Callers |-> Resting] /\ lock' = [mu |-> Nobody, rec |-> Nobody] /\ UNCHANGED box
    BY <1>12 DEF AppRestart
  <2>2. {"who", "busy", "act"} \subseteq DOMAIN helper'
    BY <1>0, <1>12 DEF AppRestart
  <2> QED BY <1>0, <2>1, <2>2, RestingFacts DEF FenceInv, FenceShape, MuHeld, JobInv, DropsInv, Toward, InMu
<1>13. CASE UNCHANGED fenceVars
  BY <1>0, <1>13, WorldMoves DEF fenceVars
<1> QED BY <1>1, <1>2, <1>3, <1>4, <1>5, <1>6, <1>7, <1>8, <1>9, <1>10, <1>11, <1>12, <1>13 DEF FenceNext

\* What ReattachedBehindDrops says of one step.
StartsBehindDrops == \A e \in Earners : (box[e].st = "lost" /\ box'[e].st = "running") => table # "masq"

\* Only the reattach starts a container that its missing network stopped.
LEMMA OnlyReattachStarts ==
  ASSUME FenceInv, [FenceNext]_fenceVars PROVE StartsBehindDrops
<1> SUFFICES ASSUME NEW e \in Earners, box[e].st = "lost", box'[e].st = "running" PROVE table # "masq"
  BY DEF StartsBehindDrops
<1>0. /\ DOMAIN box = Earners /\ \A x \in Earners : {"st", "at"} \subseteq DOMAIN box[x]
      /\ ~UNCHANGED box
  BY DEF FenceInv, FenceShape
<1>1. ASSUME NEW p \in Callers, Step(p) PROVE table # "masq"
  <2>1. CASE reattach(p) BY <2>1 DEF reattach, Stands, FenceInv, DropsInv
  <2>2. CASE RemoveOld(p)
    BY <1>0, <2>2 DEF RemoveOld, NoBox
  <2>3. CASE Place(p)
    BY <1>0, <2>3 DEF Place
  <2>4. reattach(p) \/ RemoveOld(p) \/ Place(p) \/ UNCHANGED box
    BY <1>1, Zenon DEF Step, world, Ping, LockReconcile, listEarners, Look, ModeFails, Record, Lock, ensureNetwork, clearHelper,
       CreateHelper, CreateConflict, RunHelper, ApplyFails, Relist, Publish, PlaceFails, Recount, Remember, NextRedeploy
  <2> QED BY <1>0, <2>1, <2>2, <2>3, <2>4
<1>2. CASE NetworkGoes BY <1>0, <1>2 DEF NetworkGoes
<1>3. ASSUME NEW x \in Earners, UserStops(x) PROVE FALSE
  BY <1>0, <1>3 DEF UserStops
<1>4. \/ \E p \in Callers : Step(p)
      \/ NetworkGoes \/ \E x \in Earners : UserStops(x)
      \/ UNCHANGED box
  BY Zenon DEF FenceNext, fenceVars, world, FenceTick, ChangeSetting, Deploy, EnableFence, TableGoes, DaemonToggles, OtherHelper,
     HelperEnds, AppRestart
<1> QED BY <1>0, <1>1, <1>2, <1>3, <1>4

\* An earner that its missing network stopped is started again only while the helper that
\* wrote the drops still holds f.mu, so behind them: whatever other callers, processes,
\* failures and restarts of Docker or the app come in between.
THEOREM ReattachedBehindDropsThm == FenceSpec => ReattachedBehindDrops
<1>1. FenceInv /\ [FenceNext]_fenceVars => StartsBehindDrops BY OnlyReattachStarts
<1>2. ReattachedBehindDrops <=> [][StartsBehindDrops]_fenceVars
  BY DEF ReattachedBehindDrops, StartsBehindDrops
<1> QED BY FenceStart, FenceStep, <1>1, <1>2, PTL DEF FenceSpec

----------------------------------------------------------------------------
(* ProxiedCopies: what a deleted proxy leaves.                             *)

USE DEF history

\* The owner makes one call at a time.
OneOwner == \A a, b \in Owners : a = b

PairShape ==
  /\ tun = [s \in CopySlugs |-> tun[s]] /\ ear = [s \in CopySlugs |-> ear[s]] /\ rec = [s \in CopySlugs |-> rec[s]]
  /\ \A s \in CopySlugs : {"st", "id"} \subseteq DOMAIN tun[s] /\ {"st", "of"} \subseteq DOMAIN ear[s]
CopyShape ==
  /\ PairShape
  /\ proxy = [exists |-> proxy.exists, cap |-> proxy.cap, ver |-> proxy.ver, used |-> proxy.used,
              capped |-> proxy.capped, due |-> proxy.due]
  /\ calls = [p \in CopyCallers |-> calls[p]]

\* Which call is at which of its steps: only the owner's deploy and remove take away or make.
IsCall(r) == r = [pc |-> r.pc, op |-> r.op, s |-> r.s, had |-> r.had, was |-> r.was, ver |-> r.ver, todo |-> r.todo,
                  id |-> r.id, hasEar |-> r.hasEar, hasTun |-> r.hasTun, crossed |-> r.crossed, seen |-> r.seen]
InOrder(p, r) ==
  /\ IsCall(r)
  /\ r.op \in {"deploy", "remove"} => p \in Owners /\ r.s \in CopySlugs
  /\ r.op = "deploy" => r.pc \in {"record", "clear", "rmEar", "rmTun", "mkTun", "startTun", "wait", "mkEar", "startEar", "cleanup"}
  /\ r.op = "remove" => r.pc \in {"clear", "rmEar", "rmTun", "unrecord"}
  /\ r.pc \in {"record", "mkTun", "mkEar", "cleanup"} => r.op = "deploy"
  /\ r.pc \in {"clear", "rmEar", "rmTun"} => r.op \in {"deploy", "remove"}
  /\ r.pc = "unrecord" => r.op = "remove"

\* A deploy has its copy on record, and what stands under the name, where none was on record
\* before, it has made; a remove has taken away what it has not yet to take.
NoTunnel(s) == tun[s].st = "absent"
NoEarner(s) == ear[s].st = "absent"
Early == {"clear", "rmEar", "rmTun", "mkTun"}
Holds(r) ==
  /\ r.op = "deploy" /\ r.pc # "record" =>
       /\ rec[r.s] # "none"
       /\ ~r.had /\ r.s \notin stranded =>
            /\ NoTunnel(r.s) \/ (r.pc \notin Early /\ tun[r.s].id = r.id)
            /\ NoEarner(r.s) \/ (r.pc \notin Early /\ ear[r.s].of = r.id)
  /\ r.op = "remove" =>
       /\ r.pc = "rmEar" => (NoEarner(r.s) \/ r.hasEar)
       /\ r.pc \in {"rmTun", "unrecord"} => NoEarner(r.s)
       /\ r.pc \in {"rmEar", "rmTun"} => (NoTunnel(r.s) \/ r.hasTun)
       /\ r.pc = "unrecord" => NoTunnel(r.s)

\* A copy that is not on record has no container, but for those a failed deploy could not
\* take away; a deleted proxy has no copy on record.
Recorded == \A s \in CopySlugs \ stranded : rec[s] = "none" => NoEarner(s) /\ NoTunnel(s)
Undeleted == ~proxy.exists => \A s \in CopySlugs : rec[s] = "none"
CopiesInv ==
  /\ CopyShape
  /\ \A p \in CopyCallers : InOrder(p, calls[p]) /\ Holds(calls[p])
  /\ Recorded /\ Undeleted

\* What a step leaves as it is that neither makes nor takes away a container or a record.
CopiesStand ==
  /\ DOMAIN tun' = CopySlugs /\ DOMAIN ear' = CopySlugs /\ DOMAIN rec' = CopySlugs
  /\ CopyShape'
  /\ \A s \in CopySlugs :
       /\ NoTunnel(s)' <=> NoTunnel(s)
       /\ NoEarner(s)' <=> NoEarner(s)
       /\ tun[s].id' = tun[s].id /\ ear[s].of' = ear[s].of
       /\ rec'[s] = "none" <=> rec[s] = "none"
  /\ proxy.exists' = proxy.exists /\ stranded' = stranded

LEMMA NoCallShape == ASSUME NEW p PROVE InOrder(p, NoCall) /\ InOrder(p, Pass) /\ NoCall.op \notin {"deploy", "remove"} /\ Pass.op = "pass"
  /\ NoCall.pc = "idle" /\ Pass.pc = "list"
<1>1. PICK none : none = "" OBVIOUS
<1>2. NoCall = [pc |-> "idle", op |-> none, s |-> Slot, had |-> FALSE, was |-> FALSE, ver |-> 0, todo |-> {}, id |-> 0,
         hasEar |-> FALSE, hasTun |-> FALSE, crossed |-> FALSE, seen |-> NothingSeen]
  BY <1>1, Zenon DEF NoCall
<1>3. none \notin {"deploy", "remove"} BY <1>1, Zenon
<1>4. InOrder(p, NoCall) /\ NoCall.op = none /\ NoCall.pc = "idle" BY <1>2, <1>3 DEF InOrder, IsCall
<1>5. Pass = [pc |-> "list", op |-> "pass", s |-> Slot, had |-> FALSE, was |-> FALSE, ver |-> 0, todo |-> {}, id |-> 0,
              hasEar |-> FALSE, hasTun |-> FALSE, crossed |-> FALSE, seen |-> NothingSeen]
  <2> DEFINE d == NoCall
  <2>1. PICK sl, ns, td : sl = Slot /\ ns = NothingSeen /\ td = {} OBVIOUS
  <2>2. d = [pc |-> "idle", op |-> none, s |-> sl, had |-> FALSE, was |-> FALSE, ver |-> 0, todo |-> td, id |-> 0,
             hasEar |-> FALSE, hasTun |-> FALSE, crossed |-> FALSE, seen |-> ns]
    BY <1>2, <2>1
  <2>3. Pass = [d EXCEPT !.pc = "list", !.op = "pass"] BY DEF Pass
  <2> HIDE DEF d
  <2>4. Pass = [pc |-> "list", op |-> "pass", s |-> sl, had |-> FALSE, was |-> FALSE, ver |-> 0, todo |-> td, id |-> 0,
              hasEar |-> FALSE, hasTun |-> FALSE, crossed |-> FALSE, seen |-> ns]
    BY <2>2, <2>3
  <2> QED BY <2>1, <2>4
<1>6. InOrder(p, Pass) /\ Pass.op = "pass" /\ Pass.pc = "list" BY <1>5 DEF InOrder, IsCall
<1> QED BY <1>3, <1>4, <1>6

\* A step that makes nothing and takes nothing away, of one caller.
LEMMA StandsOn ==
  ASSUME CopiesInv, CopiesStand, NEW p \in CopyCallers, calls' = [calls EXCEPT ![p] = calls'[p]],
         InOrder(p, calls'[p]), Holds(calls[p])'
  PROVE  CopiesInv'
<1>1. \A q \in CopyCallers : InOrder(q, calls'[q])
  BY DEF CopiesInv, CopyShape, PairShape
<1>2. \A q \in CopyCallers : Holds(calls[q])'
  <2>1. SUFFICES ASSUME NEW q \in CopyCallers, q # p PROVE Holds(calls[q])' OBVIOUS
  <2>2. calls'[q] = calls[q] BY <2>1 DEF CopiesInv, CopyShape, PairShape
  <2>3. Holds(calls[q]) /\ InOrder(q, calls[q]) BY DEF CopiesInv
  <2> QED BY <2>2, <2>3 DEF Holds, InOrder, CopiesStand
<1>3. Recorded' /\ Undeleted' BY DEF CopiesInv, CopiesStand, Recorded, Undeleted
<1> QED BY <1>1, <1>2, <1>3 DEF CopiesInv, CopiesStand

\* The step of a call that is over, or that fails.
LEMMA FailedShape ==
  ASSUME CopiesInv, NEW p \in CopyCallers, calls[p].pc # "record"
  PROVE  /\ InOrder(p, Failed(p)) /\ Failed(p).op # "remove"
         /\ Failed(p).op = "deploy" =>
              /\ Failed(p).pc = "cleanup" /\ calls[p].op = "deploy"
              /\ Failed(p).s = calls[p].s /\ Failed(p).had = calls[p].had /\ Failed(p).id = calls[p].id
<1>1. InOrder(p, calls[p]) BY DEF CopiesInv
<1>2. CASE calls[p].op = "deploy"
  <2>1. Failed(p) = [calls[p] EXCEPT !.pc = "cleanup"] BY <1>2 DEF Failed
  <2> QED BY <1>1, <1>2, <2>1 DEF InOrder, IsCall
<1>3. CASE calls[p].op \in {"release", "reset"}
  <2>1. Failed(p) = [calls[p] EXCEPT !.pc = "releaseNext"] BY <1>3 DEF Failed
  <2> QED BY <1>1, <1>3, <2>1 DEF InOrder, IsCall
<1>4. CASE calls[p].op \in {"cap", "undo"}
  <2>1. Failed(p) = [calls[p] EXCEPT !.pc = "stopNext"] BY <1>4 DEF Failed
  <2> QED BY <1>1, <1>4, <2>1 DEF InOrder, IsCall
<1>5. CASE calls[p].op \notin {"deploy", "release", "reset", "cap", "undo"}
  <2>1. Failed(p) = NoCall BY <1>5 DEF Failed
  <2> QED BY <2>1, NoCallShape
<1> QED BY <1>2, <1>3, <1>4, <1>5

LEMMA DoneShape ==
  ASSUME CopiesInv, NEW p \in CopyCallers
  PROVE  /\ InOrder(p, Done(p)) /\ Done(p).op # "deploy" /\ Done(p).s = calls[p].s
         /\ Done(p).op = "remove" => Done(p).pc = "unrecord" /\ calls[p].op = "remove"
<1>1. InOrder(p, calls[p]) BY DEF CopiesInv
<1>2. CASE calls[p].op = "deploy"
  <2>1. Done(p) = [calls[p] EXCEPT !.pc = "list", !.op = "pass"] BY <1>2 DEF Done
  <2> QED BY <1>1, <1>2, <2>1 DEF InOrder, IsCall
<1>3. CASE calls[p].op = "remove"
  <2>1. Done(p) = [calls[p] EXCEPT !.pc = "unrecord", !.op = "remove"] BY <1>3 DEF Done
  <2> QED BY <1>1, <1>3, <2>1 DEF InOrder, IsCall
<1>4. CASE calls[p].op \notin {"deploy", "remove"}
  <2>1. \E pc \in {"mark", "stopNext", "flag"} : Done(p) = [calls[p] EXCEPT !.pc = pc, !.op = calls[p].op]
    BY <1>4 DEF Done
  <2> QED BY <1>1, <1>4, <2>1 DEF InOrder, IsCall
<1> QED BY <1>2, <1>3, <1>4

\* One caller goes on.
LEMMA OneGoes ==
  ASSUME CopiesInv, NEW p \in CopyCallers, NEW r, CallIs(p, r)
  PROVE  /\ calls' = [calls EXCEPT ![p] = calls'[p]] /\ calls'[p] = r
         /\ calls' = [q \in CopyCallers |-> calls'[q]]
         /\ \A q \in CopyCallers : q # p => calls'[q] = calls[q]
BY DEF CopiesInv, CopyShape, PairShape, CallIs

\* Only what it does next changes.
LEMMA OnlyGoes ==
  ASSUME CopiesInv, NEW p \in CopyCallers, NEW r, CallIs(p, r), UNCHANGED <<stranded, proxy, rec, pair>>
  PROVE  CopiesStand
<1>1. calls' = [q \in CopyCallers |-> calls'[q]] BY OneGoes
<1> QED BY <1>1 DEF CopiesInv, CopyShape, PairShape, CopiesStand, NoTunnel, NoEarner, pair

\* A step of a call that is neither a deploy nor a remove, or of a deploy that goes on.
LEMMA GoesOn ==
  ASSUME CopiesInv, CopiesStand, NEW p \in CopyCallers, NEW r, CallIs(p, r), InOrder(p, r), r.op # "remove",
         r.op = "deploy" => /\ calls[p].op = "deploy" /\ calls[p].pc # "record"
                            /\ (r.pc \in Early => calls[p].pc \in Early)
                            /\ r.s = calls[p].s /\ r.had = calls[p].had /\ r.id = calls[p].id
  PROVE  CopiesInv'
<1>1. calls' = [calls EXCEPT ![p] = calls'[p]] /\ calls'[p] = r BY OneGoes
<1>2. Holds(calls[p])'
  <2>1. InOrder(p, calls[p]) /\ Holds(calls[p]) BY DEF CopiesInv
  <2> QED BY <1>1, <2>1 DEF Holds, InOrder, CopiesStand, Early
<1> QED BY <1>1, <1>2, StandsOn

LEMMA FailsOn ==
  ASSUME CopiesInv, CopiesStand, NEW p \in CopyCallers, CallIs(p, Failed(p)), calls[p].pc # "record"
  PROVE  CopiesInv'
BY FailedShape, GoesOn DEF Early

\* The owner is alone with what its call makes and takes away.
LEMMA Alone ==
  ASSUME CopiesInv, OneOwner, NEW p \in Owners, NEW r, CallIs(p, r), InOrder(p, r), Holds(calls[p])',
         PairShape', proxy' = proxy, Recorded', Undeleted'
  PROVE  CopiesInv'
<1>1. p \in CopyCallers BY DEF CopyCallers
<1>2. /\ calls'[p] = r /\ calls' = [q \in CopyCallers |-> calls'[q]]
      /\ \A q \in CopyCallers : q # p => calls'[q] = calls[q]
  BY <1>1, OneGoes
<1>3. CopyShape' BY <1>2 DEF CopyShape, CopiesInv
<1>4. ASSUME NEW q \in CopyCallers, q # p PROVE InOrder(q, calls'[q]) /\ Holds(calls[q])'
  <2>1. q \notin Owners BY <1>4 DEF OneOwner
  <2>2. calls'[q] = calls[q] /\ InOrder(q, calls[q]) BY <1>2, <1>4 DEF CopiesInv
  <2> QED BY <2>1, <2>2 DEF InOrder, Holds
<1> QED BY <1>2, <1>3, <1>4 DEF CopiesInv

\* The containers stand, whatever runs in them.
TunStands(s) ==
  /\ {"st", "id"} \subseteq DOMAIN tun'[s] /\ tun'[s].id = tun[s].id
  /\ tun'[s].st = "absent" <=> tun[s].st = "absent"
EarStands(s) ==
  /\ {"st", "of"} \subseteq DOMAIN ear'[s] /\ ear'[s].of = ear[s].of
  /\ ear'[s].st = "absent" <=> ear[s].st = "absent"

LEMMA PairStands ==
  ASSUME CopiesInv, UNCHANGED <<stranded, proxy, rec>>, calls' = [p \in CopyCallers |-> calls'[p]],
         tun' = [s \in CopySlugs |-> tun'[s]], ear' = [s \in CopySlugs |-> ear'[s]],
         \A s \in CopySlugs : TunStands(s) /\ EarStands(s)
  PROVE  CopiesStand
<1>1. ASSUME NEW s \in CopySlugs
      PROVE  /\ {"st", "id"} \subseteq DOMAIN tun'[s]
             /\ tun'[s].id = tun[s].id /\ (tun'[s].st = "absent" <=> tun[s].st = "absent")
  BY DEF TunStands
<1>2. ASSUME NEW s \in CopySlugs
      PROVE  /\ {"st", "of"} \subseteq DOMAIN ear'[s]
             /\ ear'[s].of = ear[s].of /\ (ear'[s].st = "absent" <=> ear[s].st = "absent")
  BY DEF EarStands
<1>3. CopyShape' BY <1>1, <1>2 DEF CopiesInv, CopyShape, PairShape
<1> QED BY <1>1, <1>2, <1>3 DEF CopiesStand, NoTunnel, NoEarner, CopiesInv, CopyShape, PairShape

\* Steps that read, decide and wait.
LEMMA ReadsOn ==
  ASSUME CopiesInv, NEW p \in CopyCallers,
         \/ pairOf(p) \/ Wait(p) \/ CallFails(p) \/ ReleaseList(p) \/ ReleaseNext(p) \/ List(p) \/ Targets(p) \/ StopNext(p)
  PROVE  CopiesInv'
<1>0. InOrder(p, calls[p]) /\ Holds(calls[p]) BY DEF CopiesInv
<1>1. CASE pairOf(p)
  <2>1. UNCHANGED <<stranded, proxy, rec, pair>> /\ calls[p].pc \in {"stop", "start", "clear"} BY <1>1 DEF pairOf
  <2>2. CASE CallIs(p, Failed(p)) BY <2>1, <2>2, OnlyGoes, FailsOn
  <2>3. CASE ~CallIs(p, Failed(p))
    <3> DEFINE s == calls[p].s
               e == ear[s].st # "absent"
               t == tun[s].st # "absent"
               next == CASE CallAt(p, "stop") -> "stopEar" [] CallAt(p, "start") -> "settings" [] OTHER -> "rmEar"
    <3>0. PICK r : r = [calls[p] EXCEPT !.hasEar = e, !.hasTun = t, !.was = PairRuns(s), !.pc = next] OBVIOUS
    <3>1. CallIs(p, r) BY <1>1, <2>3, <3>0, Zenon DEF pairOf
    <3>2. next \in {"stopEar", "settings", "rmEar"} /\ (next = "rmEar" <=> calls[p].pc = "clear") BY <2>1 DEF CallAt
    <3> HIDE DEF next
    <3>3. /\ r.pc = next /\ r.op = calls[p].op /\ r.s = s /\ r.had = calls[p].had /\ r.id = calls[p].id
          /\ r.hasEar = e /\ r.hasTun = t /\ IsCall(r)
      BY <1>0, <3>0 DEF InOrder, IsCall
    <3>4. InOrder(p, r) BY <1>0, <2>1, <3>2, <3>3 DEF InOrder
    <3>5. CASE r.op # "remove"
      <4>1. r.op = "deploy" => calls[p].pc # "record" BY <2>1
      <4> QED BY <2>1, <3>1, <3>2, <3>3, <3>4, <3>5, <4>1, OnlyGoes, GoesOn DEF Early
    <3>6. CASE r.op = "remove"
      <4>1. CopiesStand /\ calls'[p] = r /\ calls' = [calls EXCEPT ![p] = calls'[p]] BY <2>1, <3>1, OnlyGoes, OneGoes
      <4>2. next = "rmEar" BY <1>0, <2>1, <3>2, <3>3, <3>6 DEF InOrder
      <4>3. Holds(calls[p])' BY <2>1, <3>3, <3>6, <4>1, <4>2 DEF Holds, NoTunnel, NoEarner, pair
      <4> QED BY <3>4, <4>1, <4>3, StandsOn
    <3> QED BY <3>5, <3>6
  <2> QED BY <2>2, <2>3
<1>2. CASE Wait(p)
  <2>1. UNCHANGED <<stranded, proxy, rec, pair>> /\ calls[p].pc = "wait" BY <1>2 DEF Wait, CallAt
  <2>2. CASE CallIs(p, Failed(p)) BY <2>1, <2>2, OnlyGoes, FailsOn
  <2>3. CASE CallTo(p, IF calls[p].op = "deploy" THEN "mkEar" ELSE "startEar")
    <3>0. PICK r : r = [calls[p] EXCEPT !.pc = IF calls[p].op = "deploy" THEN "mkEar" ELSE "startEar"] OBVIOUS
    <3>1. CallIs(p, r) BY <2>3, <3>0 DEF CallTo
    <3>2. InOrder(p, r) /\ r.pc \in {"mkEar", "startEar"} /\ r.op # "remove" /\ r.op = calls[p].op /\ r.s = calls[p].s /\ r.had = calls[p].had /\ r.id = calls[p].id
      BY <1>0, <2>1, <3>0 DEF InOrder, IsCall
    <3> QED BY <2>1, <3>0, <3>1, <3>2, OnlyGoes, GoesOn DEF Early
  <2> QED BY <1>2, <2>2, <2>3 DEF Wait
<1>3. CASE CallFails(p)
  <2>1. UNCHANGED <<stranded, proxy, rec, pair>> /\ CallIs(p, Failed(p)) /\ calls[p].pc # "record" BY <1>3 DEF CallFails
  <2> QED BY <2>1, OnlyGoes, FailsOn
<1>4. CASE ReleaseList(p) \/ ReleaseNext(p) \/ Targets(p) \/ StopNext(p)
  <2>1. /\ UNCHANGED <<stranded, proxy, rec, pair>> /\ calls[p].pc \in {"releaseList", "releaseNext", "targets", "stopNext"}
    BY <1>4 DEF ReleaseList, ReleaseNext, Targets, StopNext, CallAt
  <2>2. calls[p].op \notin {"deploy", "remove"} BY <1>0, <2>1 DEF InOrder
  <2>3. \E r : CallIs(p, r) /\ InOrder(p, r) /\ r.op \notin {"deploy", "remove"}
    <3>1. CASE CallIs(p, NoCall) \/ CallIs(p, Pass) BY <3>1, NoCallShape
    <3>2. CASE \E todo : CallIs(p, [calls[p] EXCEPT !.pc = "releaseNext", !.todo = todo])
      <4>1. PICK todo : CallIs(p, [calls[p] EXCEPT !.pc = "releaseNext", !.todo = todo]) BY <3>2
      <4>2. PICK r : r = [calls[p] EXCEPT !.pc = "releaseNext", !.todo = todo] OBVIOUS
      <4>3. InOrder(p, r) /\ r.op \notin {"deploy", "remove"} BY <1>0, <2>2, <4>2 DEF InOrder, IsCall
      <4> QED BY <4>1, <4>2, <4>3
    <3>3. CASE \E todo : CallIs(p, [calls[p] EXCEPT !.pc = "stopNext", !.todo = todo])
      <4>1. PICK todo : CallIs(p, [calls[p] EXCEPT !.pc = "stopNext", !.todo = todo]) BY <3>3
      <4>2. PICK r : r = [calls[p] EXCEPT !.pc = "stopNext", !.todo = todo] OBVIOUS
      <4>3. InOrder(p, r) /\ r.op \notin {"deploy", "remove"} BY <1>0, <2>2, <4>2 DEF InOrder, IsCall
      <4> QED BY <4>1, <4>2, <4>3
    <3>4. CASE \E s, todo : CallIs(p, [calls[p] EXCEPT !.pc = "start", !.s = s, !.todo = todo])
      <4>1. PICK s, todo : CallIs(p, [calls[p] EXCEPT !.pc = "start", !.s = s, !.todo = todo]) BY <3>4
      <4>2. PICK r : r = [calls[p] EXCEPT !.pc = "start", !.s = s, !.todo = todo] OBVIOUS
      <4>3. InOrder(p, r) /\ r.op \notin {"deploy", "remove"} BY <1>0, <2>2, <4>2 DEF InOrder, IsCall
      <4> QED BY <4>1, <4>2, <4>3
    <3>5. CASE \E s, todo : CallIs(p, [calls[p] EXCEPT !.pc = "stop", !.op = "cap", !.s = s, !.todo = todo])
      <4>1. PICK s, todo : CallIs(p, [calls[p] EXCEPT !.pc = "stop", !.op = "cap", !.s = s, !.todo = todo]) BY <3>5
      <4>2. PICK r : r = [calls[p] EXCEPT !.pc = "stop", !.op = "cap", !.s = s, !.todo = todo] OBVIOUS
      <4>3. InOrder(p, r) /\ r.op \notin {"deploy", "remove"} BY <1>0, <2>2, <4>2 DEF InOrder, IsCall
      <4> QED BY <4>1, <4>2, <4>3
    <3> QED BY <1>4, <3>1, <3>2, <3>3, <3>4, <3>5, Zenon DEF ReleaseList, ReleaseNext, Targets, StopNext
  <2> QED BY <2>1, <2>3, OnlyGoes, GoesOn
<1>5. CASE List(p)
  <2>1. \E r : CallIs(p, r) /\ InOrder(p, r) /\ r.op \notin {"deploy", "remove"}
    <3>1. PICK seen, r : r = [Pass EXCEPT !.pc = "act", !.todo = CopySlugs, !.seen = seen] /\ CallIs(p, r) BY <1>5 DEF List
    <3>2. InOrder(p, Pass) /\ Pass.op = "pass" BY NoCallShape
    <3>3. InOrder(p, r) /\ r.op \notin {"deploy", "remove"} BY <3>1, <3>2 DEF InOrder, IsCall
    <3> QED BY <3>1, <3>3
  <2> QED BY <1>5, <2>1, OnlyGoes, GoesOn DEF List
<1> QED BY <1>1, <1>2, <1>3, <1>4, <1>5

\* What stands untouched.
LEMMA Untouched ==
  ASSUME CopiesInv
  PROVE  /\ tun' = tun => tun' = [s \in CopySlugs |-> tun'[s]] /\ \A s \in CopySlugs : TunStands(s)
         /\ ear' = ear => ear' = [s \in CopySlugs |-> ear'[s]] /\ \A s \in CopySlugs : EarStands(s)
BY DEF CopiesInv, CopyShape, PairShape, TunStands, EarStands

\* One container is edited and stands.
LEMMA EarEdited ==
  ASSUME CopiesInv, NEW c, NEW e, ear' = [ear EXCEPT ![c] = e],
         c \in CopySlugs => {"st", "of"} \subseteq DOMAIN e /\ e.of = ear[c].of /\ (e.st = "absent" <=> ear[c].st = "absent")
  PROVE  ear' = [s \in CopySlugs |-> ear'[s]] /\ \A s \in CopySlugs : EarStands(s)
BY DEF CopiesInv, CopyShape, PairShape, EarStands

LEMMA TunEdited ==
  ASSUME CopiesInv, NEW c, NEW t, tun' = [tun EXCEPT ![c] = t],
         c \in CopySlugs => {"st", "id"} \subseteq DOMAIN t /\ t.id = tun[c].id /\ (t.st = "absent" <=> tun[c].st = "absent")
  PROVE  tun' = [s \in CopySlugs |-> tun'[s]] /\ \A s \in CopySlugs : TunStands(s)
BY DEF CopiesInv, CopyShape, PairShape, TunStands

\* A caller moves on to a step that neither makes nor takes away.
LEMMA MovesOn ==
  ASSUME CopiesInv, CopiesStand, NEW p \in CopyCallers, calls[p].pc \in {"stopEar", "settings", "startTun"},
         NEW pc \in {"stopTun", "startTun", "wait"}, CallTo(p, pc), calls[p].op = "deploy" => pc # "stopTun"
  PROVE  CopiesInv'
<1>1. InOrder(p, calls[p]) BY DEF CopiesInv
<1>2. PICK r : r = [calls[p] EXCEPT !.pc = pc] /\ CallIs(p, r) BY DEF CallTo
<1>3. /\ InOrder(p, r) /\ r.op # "remove" /\ r.op = calls[p].op
      /\ r.s = calls[p].s /\ r.had = calls[p].had /\ r.id = calls[p].id
  BY <1>1, <1>2 DEF InOrder, IsCall
<1> QED BY <1>1, <1>2, <1>3, GoesOn DEF Early, IsCall, InOrder

\* Steps that start, stop and restart.
LEMMA EditsOn ==
  ASSUME CopiesInv, NEW p \in CopyCallers,
         StopEar(p) \/ StopTun(p) \/ TunSettings(p) \/ StartTun(p) \/ StartEar(p) \/ Act(p)
  PROVE  CopiesInv'
<1>0. /\ InOrder(p, calls[p]) /\ Holds(calls[p])
      /\ tun = [s \in CopySlugs |-> tun[s]] /\ ear = [s \in CopySlugs |-> ear[s]]
  BY DEF CopiesInv, CopyShape, PairShape
<1>a. \A s \in CopySlugs :
        /\ {"st", "id"} \subseteq DOMAIN tun[s]
        /\ {"st", "of"} \subseteq DOMAIN ear[s]
  BY DEF CopiesInv, CopyShape, PairShape
<1>1. ASSUME UNCHANGED <<stranded, proxy, rec>>, NEW r, CallIs(p, r),
             tun' = [s \in CopySlugs |-> tun'[s]], \A s \in CopySlugs : TunStands(s),
             ear' = [s \in CopySlugs |-> ear'[s]], \A s \in CopySlugs : EarStands(s)
      PROVE  CopiesStand
  BY <1>1, OneGoes, PairStands
<1>2. CASE StopEar(p)
  <2>1. /\ UNCHANGED <<stranded, proxy, rec, tun>> /\ calls[p].pc = "stopEar"
        /\ \E r : CallIs(p, r)
    BY <1>2, Zenon DEF StopEar, CallAt, CallTo
  <2>2. ear' = [s \in CopySlugs |-> ear'[s]] /\ \A s \in CopySlugs : EarStands(s)
    <3>1. ear' = [ear EXCEPT ![calls[p].s].st = IF calls[p].hasEar /\ Up(@) THEN "exited" ELSE @] BY <1>2 DEF StopEar
    <3>2. PICK e, st : e = [ear[calls[p].s] EXCEPT !.st = st] /\ st = (IF calls[p].hasEar /\ Up(ear[calls[p].s].st) THEN "exited" ELSE ear[calls[p].s].st)
      OBVIOUS
    <3>3. ear' = [ear EXCEPT ![calls[p].s] = e] BY <3>1, <3>2
    <3>4. calls[p].s \in CopySlugs => {"st", "of"} \subseteq DOMAIN e /\ e.of = ear[calls[p].s].of /\ e.st = st
      BY <1>a, <3>2
    <3> QED BY <3>2, <3>3, <3>4, EarEdited DEF Up
  <2>3. CopiesStand BY <1>1, <2>1, <2>2, Untouched
  <2>4. CASE CallIs(p, Failed(p)) BY <2>1, <2>3, <2>4, FailsOn
  <2>5. CASE CallTo(p, "stopTun")
    <3>1. calls[p].op # "deploy" BY <1>0, <2>1 DEF InOrder
    <3> QED BY <2>1, <2>3, <2>5, <3>1, MovesOn
  <2> QED BY <1>2, <2>4, <2>5 DEF StopEar
<1>3. CASE StopTun(p)
  <2>1. /\ UNCHANGED <<stranded, proxy, rec, ear>> /\ calls[p].pc = "stopTun"
        /\ \E r : CallIs(p, r)
    BY <1>3, Zenon DEF StopTun, CallAt
  <2>2. tun' = [s \in CopySlugs |-> tun'[s]] /\ \A s \in CopySlugs : TunStands(s)
    <3>1. tun' = [tun EXCEPT ![calls[p].s].st = IF calls[p].hasTun /\ Up(@) THEN "exited" ELSE @,
                             ![calls[p].s].ready = @ /\ ~calls[p].hasTun]
      BY <1>3 DEF StopTun
    <3>2. PICK st : st = (IF calls[p].hasTun /\ Up(tun[calls[p].s].st) THEN "exited" ELSE tun[calls[p].s].st) OBVIOUS
    <3>r. PICK ready : ready = (tun[calls[p].s].ready /\ ~calls[p].hasTun) OBVIOUS
    <3>t. PICK t : t = [tun[calls[p].s] EXCEPT !.st = st, !.ready = ready] BY ZenonT(60)
    <3>3. tun' = [tun EXCEPT ![calls[p].s] = t] BY <1>0, <3>1, <3>2, <3>r, <3>t
    <3>4. calls[p].s \in CopySlugs => {"st", "id"} \subseteq DOMAIN t /\ t.id = tun[calls[p].s].id /\ t.st = st
      BY <1>a, <3>t
    <3> QED BY <3>2, <3>3, <3>4, TunEdited DEF Up
  <2>3. CopiesStand BY <1>1, <2>1, <2>2, Untouched
  <2>4. CASE CallIs(p, Failed(p)) BY <2>1, <2>3, <2>4, FailsOn
  <2>5. CASE CallIs(p, Done(p))
    <3>1. calls[p].op # "remove" BY <1>0, <2>1 DEF InOrder
    <3> QED BY <2>3, <2>5, <3>1, DoneShape, GoesOn
  <2> QED BY <1>3, <2>4, <2>5 DEF StopTun
<1>4. CASE TunSettings(p)
  <2>k. PICK c : c = calls[p].s OBVIOUS
  <2>o. PICK other : other = (Up(tun[c].st) /\ tun[c].file # calls[p].ver) BY ZenonT(60)
  <2>1. UNCHANGED <<stranded, proxy, rec>> /\ calls[p].pc = "settings" BY <1>4 DEF TunSettings, CallAt
  <2>2. CASE CallIs(p, Failed(p)) /\ UNCHANGED pair
    <3>1. UNCHANGED <<stranded, proxy, rec, pair>> BY <2>1, <2>2
    <3>2. CopiesStand BY <2>2, <3>1, OnlyGoes
    <3> QED BY <2>1, <2>2, <3>2, FailsOn
  <2>3. CASE ~(CallIs(p, Failed(p)) /\ UNCHANGED pair)
    <3>1. /\ ear[c].st # "absent" /\ tun[c].st # "absent"
          /\ ear' = [ear EXCEPT ![c].st = IF other /\ Up(@) THEN "exited" ELSE @]
          /\ tun' = [tun EXCEPT ![c].st = IF other THEN "exited" ELSE @, ![c].ready = @ /\ ~other,
                                ![c].file = IF ~other /\ Up(tun[c].st) THEN @ ELSE calls[p].ver]
          /\ CallTo(p, "startTun")
      BY ZenonT(60), <1>4, <2>k, <2>o, <2>3 DEF TunSettings
    <3>2. PICK e : e = [ear[c] EXCEPT !.st = IF other /\ Up(@) THEN "exited" ELSE @] OBVIOUS
    <3>3. ear' = [ear EXCEPT ![c] = e] BY <3>1, <3>2
    <3>4. c \in CopySlugs => {"st", "of"} \subseteq DOMAIN e /\ e.of = ear[c].of /\ e.st # "absent"
      BY <1>a, <3>1, <3>2
    <3>5. ear' = [s \in CopySlugs |-> ear'[s]] /\ \A s \in CopySlugs : EarStands(s)
      BY <3>1, <3>3, <3>4, EarEdited
    <3>6. PICK t : t = [tun[c] EXCEPT !.st = IF other THEN "exited" ELSE @, !.ready = @ /\ ~other,
                                      !.file = IF ~other /\ Up(tun[c].st) THEN @ ELSE calls[p].ver]
      OBVIOUS
    <3>7. tun' = [tun EXCEPT ![c] = t] BY <1>0, <3>1, <3>6
    <3>8. c \in CopySlugs => {"st", "id"} \subseteq DOMAIN t /\ t.id = tun[c].id /\ t.st # "absent"
      BY <1>a, <3>1, <3>6
    <3>9. tun' = [s \in CopySlugs |-> tun'[s]] /\ \A s \in CopySlugs : TunStands(s)
      BY <3>1, <3>7, <3>8, TunEdited
    <3>10. PICK r : CallIs(p, r) BY <3>1 DEF CallTo
    <3>11. CopiesStand BY <1>1, <2>1, <3>5, <3>9, <3>10
    <3> QED BY <2>1, <3>1, <3>11, MovesOn
  <2> QED BY <2>2, <2>3
<1>5. CASE StartTun(p)
  <2>1. UNCHANGED <<stranded, proxy, rec, ear>> /\ calls[p].pc = "startTun" BY <1>5 DEF StartTun, CallAt
  <2>2. CASE CallIs(p, Failed(p)) /\ UNCHANGED tun
    <3>1. CopiesStand BY <1>1, <2>1, <2>2, Untouched
    <3> QED BY <2>1, <2>2, <3>1, FailsOn
  <2>3. CASE ~(CallIs(p, Failed(p)) /\ UNCHANGED tun)
    <3>1. /\ TunOf(p).st # "absent" /\ CallTo(p, "wait")
          /\ tun' = tun \/ tun' = [tun EXCEPT ![calls[p].s] = Started(tun[calls[p].s], NewNumber)]
      BY <1>5, <2>3 DEF StartTun
    <3>2. tun[calls[p].s].st # "absent" BY <3>1 DEF TunOf, NoTun
    <3>3. tun' = [s \in CopySlugs |-> tun'[s]] /\ \A s \in CopySlugs : TunStands(s)
      <4>1. CASE tun' = tun BY <4>1, Untouched
      <4>2. CASE tun' # tun
        <5>1. PICK t : t = Started(tun[calls[p].s], NewNumber) OBVIOUS
        <5>2. tun' = [tun EXCEPT ![calls[p].s] = t] BY <3>1, <4>2, <5>1
        <5>3. calls[p].s \in CopySlugs => {"st", "id"} \subseteq DOMAIN t /\ t.id = tun[calls[p].s].id /\ t.st = "running"
          BY <1>a, <5>1 DEF Started
        <5> QED BY <3>2, <5>2, <5>3, TunEdited
      <4> QED BY <4>1, <4>2
    <3>4. CopiesStand BY <1>1, <2>1, <3>1, <3>3, Untouched DEF CallTo
    <3> QED BY <2>1, <3>1, <3>4, MovesOn
  <2> QED BY <2>2, <2>3
<1>6. CASE StartEar(p)
  <2> DEFINE c == calls[p].s
  <2>1. /\ UNCHANGED <<stranded, proxy, rec, tun>> /\ calls[p].pc = "startEar"
        /\ CallIs(p, Done(p)) \/ CallIs(p, Failed(p))
    BY <1>6, Zenon DEF StartEar, CallAt
  <2>2. \/ ear' = [ear EXCEPT ![c] = Joined(c)] /\ CanJoin(c)
        \/ ear' = [ear EXCEPT ![c] = [ear[c] EXCEPT !.st = "exited"]] /\ Up(EarOf(p).st)
        \/ ear' = [ear EXCEPT ![c] = ear[c]]
    BY <1>6, Zenon DEF StartEar
  <2>3. Up(EarOf(p).st) => ear[c].st # "absent" BY DEF Up, EarOf, NoEar
  <2>4. ear' = [s \in CopySlugs |-> ear'[s]] /\ \A s \in CopySlugs : EarStands(s)
    <3>1. PICK e : /\ ear' = [ear EXCEPT ![c] = e]
                   /\ \/ e = Joined(c) /\ CanJoin(c)
                      \/ e = [ear[c] EXCEPT !.st = "exited"] /\ ear[c].st # "absent"
                      \/ e = ear[c]
      BY <2>2, <2>3
    <3>2. c \in CopySlugs => {"st", "of"} \subseteq DOMAIN e /\ e.of = ear[c].of /\ (e.st = "absent" <=> ear[c].st = "absent")
      BY <1>a, <3>1 DEF Joined, CanJoin
    <3> QED BY <3>1, <3>2, EarEdited
  <2>5. CopiesStand BY <1>1, <2>1, <2>4, Untouched
  <2>6. CASE CallIs(p, Failed(p)) BY <2>1, <2>5, <2>6, FailsOn
  <2>7. CASE CallIs(p, Done(p))
    <3>1. calls[p].op # "remove" BY <1>0, <2>1 DEF InOrder
    <3> QED BY <2>5, <2>7, <3>1, DoneShape, GoesOn
  <2> QED BY <2>1, <2>6, <2>7
<1>7. CASE Act(p)
  <2>1. PICK c \in calls[p].todo, acts \in BOOLEAN :
          /\ calls[p].pc = "act" /\ (acts => CanJoin(c))
          /\ ear' = IF acts THEN [ear EXCEPT ![c] = Joined(c)] ELSE ear
          /\ \E todo, seen : CallIs(p, [calls[p] EXCEPT !.todo = todo, !.seen = seen])
          /\ UNCHANGED <<stranded, proxy, rec, tun>>
    <3>1. PICK c \in calls[p].todo :
            LET action == earnerAction(calls[p].seen[c], c)
                acts == action # "" /\ CanJoin(c) /\ ~(action = "start" /\ Up(ear[c].st))
            IN  /\ CallAt(p, "act")
                /\ ear' = IF acts THEN [ear EXCEPT ![c] = Joined(c)] ELSE ear
                /\ CallIs(p, [calls[p] EXCEPT !.todo = @ \ {c}, !.seen[c].ear.st = IF acts THEN "running" ELSE @])
                /\ UNCHANGED <<proxy, rec, tun, history, spare>>
      BY <1>7, Zenon DEF Act
    <3> QED BY <3>1, Zenon DEF CallAt
  <2>2. ear' = [s \in CopySlugs |-> ear'[s]] /\ \A s \in CopySlugs : EarStands(s)
    <3>1. CASE ~acts BY <2>1, <3>1, Untouched
    <3>2. CASE acts
      <4>1. PICK e : e = Joined(c) OBVIOUS
      <4>2. ear' = [ear EXCEPT ![c] = e] BY <2>1, <3>2, <4>1
      <4>3. CanJoin(c) BY <2>1, <3>2
      <4>4. c \in CopySlugs => {"st", "of"} \subseteq DOMAIN e /\ e.of = ear[c].of /\ e.st = "running"
        BY <1>a, <4>1 DEF Joined
      <4> QED BY <4>2, <4>3, <4>4, EarEdited DEF CanJoin
    <3> QED BY <3>1, <3>2
  <2>3. PICK todo, seen, r : r = [calls[p] EXCEPT !.todo = todo, !.seen = seen] /\ CallIs(p, r) BY <2>1
  <2>4. CopiesStand BY <1>1, <2>1, <2>2, <2>3, Untouched
  <2>5. calls[p].pc = "act" BY <2>1
  <2>6. calls[p].op \notin {"deploy", "remove"} BY <1>0, <2>5 DEF InOrder
  <2>7. InOrder(p, r) /\ r.op \notin {"deploy", "remove"} BY <1>0, <2>3, <2>5, <2>6 DEF InOrder, IsCall
  <2> QED BY <2>3, <2>4, <2>7, GoesOn
<1> QED BY <1>2, <1>3, <1>4, <1>5, <1>6, <1>7

\* The owner's steps that make a container or take one away.
LEMMA OwnersSteps ==
  ASSUME CopiesInv, OneOwner, NEW p \in CopyCallers,
         \/ RemoveEar(p) \/ RemoveTun(p) \/ MakeTun(p) \/ MakeEar(p) \/ Cleanup(p) \/ DeleteProxiedCopy(p)
         \/ SaveProxiedCopy(p)
  PROVE  CopiesInv'
<1>c. PICK c : c = calls[p].s OBVIOUS
<1>0. /\ c = calls[p].s /\ InOrder(p, calls[p]) /\ Holds(calls[p]) /\ Recorded /\ Undeleted /\ PairShape
      /\ tun = [s \in CopySlugs |-> tun[s]] /\ ear = [s \in CopySlugs |-> ear[s]] /\ rec = [s \in CopySlugs |-> rec[s]]
  BY <1>c DEF CopiesInv, CopyShape, PairShape
<1>1. CASE RemoveEar(p)
  <2>1. /\ UNCHANGED <<stranded, proxy, rec, tun>> /\ calls[p].pc = "rmEar"
        /\ ear' = [ear EXCEPT ![c] = IF calls[p].hasEar THEN NoEar ELSE @]
    BY <1>c, <1>1 DEF RemoveEar, CallAt
  <2>2. p \in Owners /\ c \in CopySlugs /\ calls[p].op \in {"deploy", "remove"} BY <1>0, <2>1 DEF InOrder
  <2>3. /\ NoEarner(c) => NoEarner(c)'
        /\ calls[p].op = "remove" => NoEarner(c)'
        /\ {"st", "of"} \subseteq DOMAIN NoEar /\ NoEar.st = "absent"
    <3>1. {"st", "of"} \subseteq DOMAIN NoEar /\ NoEar.st = "absent" BY DEF NoEar
    <3>2. ear'[c] = IF calls[p].hasEar THEN NoEar ELSE ear[c] BY <1>0, <2>1, <2>2
    <3>3. calls[p].op = "remove" => NoEarner(c) \/ calls[p].hasEar BY <1>0, <2>1 DEF Holds
    <3> QED BY <3>1, <3>2, <3>3 DEF NoEarner
  <2>4. PairShape' /\ Recorded' /\ Undeleted'
    BY <1>0, <2>1, <2>3 DEF PairShape, Recorded, Undeleted, NoEarner, NoTunnel
  <2>5. CASE CallIs(p, Failed(p))
    <3>1. Holds(calls[p])'
      <4>1. calls'[p] = Failed(p) BY <2>5, OneGoes
      <4>2. /\ Failed(p).op # "remove"
            /\ Failed(p).op = "deploy" =>
                 /\ Failed(p).pc = "cleanup" /\ calls[p].op = "deploy"
                 /\ Failed(p).s = c /\ Failed(p).had = calls[p].had /\ Failed(p).id = calls[p].id
        BY <1>c, <2>1, FailedShape
      <4> QED BY <1>0, <2>1, <2>3, <4>1, <4>2 DEF Holds, Early, NoTunnel
    <3> QED BY <2>1, <2>2, <2>4, <2>5, <3>1, FailedShape, Alone
  <2>6. CASE CallTo(p, "rmTun")
    <3>1. PICK r : r = [calls[p] EXCEPT !.pc = "rmTun"] /\ CallIs(p, r) BY <2>6 DEF CallTo
    <3>2. /\ InOrder(p, r) /\ r.pc = "rmTun" /\ r.op = calls[p].op /\ r.s = c /\ r.had = calls[p].had /\ r.id = calls[p].id
          /\ r.hasTun = calls[p].hasTun
      BY <1>0, <2>1, <2>2, <3>1 DEF InOrder, IsCall
    <3>3. Holds(calls[p])'
      <4>1. calls'[p] = r BY <3>1, OneGoes
      <4> QED BY <1>0, <2>1, <2>3, <3>2, <4>1 DEF Holds, Early, NoTunnel
    <3> QED BY <2>1, <2>2, <2>4, <3>1, <3>2, <3>3, Alone
  <2> QED BY <1>c, <1>1, <2>5, <2>6 DEF RemoveEar
<1>2. CASE RemoveTun(p)
  <2>1. /\ UNCHANGED <<stranded, proxy, rec, ear>> /\ calls[p].pc = "rmTun"
        /\ tun' = [tun EXCEPT ![c] = IF calls[p].hasTun THEN NoTun ELSE @]
    BY <1>c, <1>2 DEF RemoveTun, CallAt
  <2>2. p \in Owners /\ c \in CopySlugs /\ calls[p].op \in {"deploy", "remove"} BY <1>0, <2>1 DEF InOrder
  <2>3. /\ NoTunnel(c) => NoTunnel(c)'
        /\ calls[p].op = "remove" => NoTunnel(c)'
        /\ {"st", "id"} \subseteq DOMAIN NoTun /\ NoTun.st = "absent"
    <3>1. {"st", "id"} \subseteq DOMAIN NoTun /\ NoTun.st = "absent" BY DEF NoTun
    <3>2. tun'[c] = IF calls[p].hasTun THEN NoTun ELSE tun[c] BY <1>0, <2>1, <2>2
    <3>3. calls[p].op = "remove" => NoTunnel(c) \/ calls[p].hasTun BY <1>0, <2>1 DEF Holds
    <3> QED BY <3>1, <3>2, <3>3 DEF NoTunnel
  <2>4. PairShape' /\ Recorded' /\ Undeleted'
    BY <1>0, <2>1, <2>3 DEF PairShape, Recorded, Undeleted, NoEarner, NoTunnel
  <2>5. CASE CallIs(p, Failed(p))
    <3>1. Holds(calls[p])'
      <4>1. calls'[p] = Failed(p) BY <2>5, OneGoes
      <4>2. /\ Failed(p).op # "remove"
            /\ Failed(p).op = "deploy" =>
                 /\ Failed(p).pc = "cleanup" /\ calls[p].op = "deploy"
                 /\ Failed(p).s = c /\ Failed(p).had = calls[p].had /\ Failed(p).id = calls[p].id
        BY <1>c, <2>1, FailedShape
      <4> QED BY <1>0, <2>1, <2>3, <4>1, <4>2 DEF Holds, Early, NoEarner
    <3> QED BY <2>1, <2>2, <2>4, <2>5, <3>1, FailedShape, Alone
  <2>6. CASE calls[p].op = "deploy" /\ CallIs(p, [calls[p] EXCEPT !.pc = "mkTun"])
    <3>1. PICK r : r = [calls[p] EXCEPT !.pc = "mkTun"] /\ CallIs(p, r) BY <2>6
    <3>2. /\ InOrder(p, r) /\ r.pc = "mkTun" /\ r.op = "deploy" /\ r.s = c /\ r.had = calls[p].had /\ r.id = calls[p].id
      BY <1>0, <2>1, <2>2, <2>6, <3>1 DEF InOrder, IsCall
    <3>3. Holds(calls[p])'
      <4>1. calls'[p] = r BY <3>1, OneGoes
      <4> QED BY <1>0, <2>1, <2>3, <2>6, <3>2, <4>1 DEF Holds, Early, NoEarner
    <3> QED BY <2>1, <2>2, <2>4, <3>1, <3>2, <3>3, Alone
  <2>7. CASE calls[p].op # "deploy" /\ CallIs(p, Done(p))
    <3>1. calls'[p] = Done(p) BY <2>7, OneGoes
    <3>2. InOrder(p, Done(p)) /\ Done(p).op # "deploy" /\ Done(p).s = c /\ (Done(p).op = "remove" => Done(p).pc = "unrecord")
      BY <1>c, DoneShape
    <3>3. Holds(calls[p])' BY <1>0, <2>1, <2>2, <2>3, <2>7, <3>1, <3>2 DEF Holds, NoEarner
    <3> QED BY <2>1, <2>2, <2>4, <2>7, <3>2, <3>3, Alone
  <2> QED BY <1>2, <2>5, <2>6, <2>7, Zenon DEF RemoveTun
<1>3. CASE MakeTun(p)
  <2>1. UNCHANGED <<stranded, proxy, rec, ear>> /\ calls[p].pc = "mkTun" BY <1>c, <1>3 DEF MakeTun, CallAt
  <2>2. p \in Owners /\ c \in CopySlugs /\ calls[p].op = "deploy" BY <1>0, <2>1 DEF InOrder
  <2>3. CASE CallIs(p, Failed(p)) /\ UNCHANGED tun
    <3>1. UNCHANGED <<stranded, proxy, rec, pair>> BY <2>1, <2>3 DEF pair
    <3> QED BY <2>1, <2>3, <3>1, OnlyGoes, FailsOn
  <2>4. CASE ~(CallIs(p, Failed(p)) /\ UNCHANGED tun)
    <3>1. /\ tun' = [tun EXCEPT ![c] = [NoTun EXCEPT !.st = "created", !.id = NewNumber, !.file = calls[p].ver]]
          /\ CallIs(p, [calls[p] EXCEPT !.pc = "startTun", !.id = NewNumber])
      BY <1>c, <1>3, <2>4 DEF MakeTun
    <3>2. PICK r : r = [calls[p] EXCEPT !.pc = "startTun", !.id = NewNumber] /\ CallIs(p, r) BY <3>1
    <3>3. /\ InOrder(p, r) /\ r.pc = "startTun" /\ r.op = "deploy" /\ r.s = c /\ r.had = calls[p].had /\ r.id = NewNumber
      BY <1>0, <2>1, <2>2, <3>2 DEF InOrder, IsCall
    <3>4. tun'[c].id = NewNumber /\ {"st", "id"} \subseteq DOMAIN tun'[c] BY <1>0, <2>2, <3>1 DEF NoTun
    <3>5. rec[c] # "none" /\ (~calls[p].had => NoEarner(c) \/ c \in stranded) BY <1>0, <2>1, <2>2 DEF Holds, Early
    <3>6. PairShape' /\ Recorded' /\ Undeleted'
      BY <1>0, <2>1, <3>1, <3>4, <3>5 DEF PairShape, Recorded, Undeleted, NoEarner, NoTunnel
    <3>7. Holds(calls[p])'
      <4>1. calls'[p] = r BY <3>2, OneGoes
      <4> QED BY <2>1, <3>3, <3>4, <3>5, <4>1 DEF Holds, Early, NoEarner
    <3> QED BY <2>1, <2>2, <3>2, <3>3, <3>6, <3>7, Alone
  <2> QED BY <2>3, <2>4
<1>4. CASE MakeEar(p)
  <2>1. UNCHANGED <<stranded, proxy, rec, tun>> /\ calls[p].pc = "mkEar" BY <1>c, <1>4 DEF MakeEar, CallAt
  <2>2. p \in Owners /\ c \in CopySlugs /\ calls[p].op = "deploy" BY <1>0, <2>1 DEF InOrder
  <2>3. CASE CallIs(p, Failed(p)) /\ UNCHANGED ear
    <3>1. UNCHANGED <<stranded, proxy, rec, pair>> BY <2>1, <2>3 DEF pair
    <3> QED BY <2>1, <2>3, <3>1, OnlyGoes, FailsOn
  <2>4. CASE ~(CallIs(p, Failed(p)) /\ UNCHANGED ear)
    <3>1. /\ ear' = [ear EXCEPT ![c] = [st |-> "created", of |-> calls[p].id, gen |-> 0]]
          /\ CallTo(p, "startEar")
      BY <1>c, <1>4, <2>4 DEF MakeEar
    <3>2. PICK r : r = [calls[p] EXCEPT !.pc = "startEar"] /\ CallIs(p, r) BY <3>1 DEF CallTo
    <3>3. /\ InOrder(p, r) /\ r.pc = "startEar" /\ r.op = "deploy" /\ r.s = c /\ r.had = calls[p].had /\ r.id = calls[p].id
      BY <1>0, <2>1, <2>2, <3>2 DEF InOrder, IsCall
    <3>4. ear'[c].of = calls[p].id /\ {"st", "of"} \subseteq DOMAIN ear'[c] BY <1>0, <2>2, <3>1
    <3>5. rec[c] # "none" /\ (~calls[p].had => NoTunnel(c) \/ tun[c].id = calls[p].id \/ c \in stranded)
      BY <1>0, <2>1, <2>2 DEF Holds, Early
    <3>6. PairShape' /\ Recorded' /\ Undeleted'
      BY <1>0, <2>1, <3>1, <3>4, <3>5 DEF PairShape, Recorded, Undeleted, NoEarner, NoTunnel
    <3>7. Holds(calls[p])'
      <4>1. calls'[p] = r BY <3>2, OneGoes
      <4> QED BY <2>1, <3>3, <3>4, <3>5, <4>1 DEF Holds, Early, NoTunnel
    <3> QED BY <2>1, <2>2, <3>2, <3>3, <3>6, <3>7, Alone
  <2> QED BY <2>3, <2>4
<1>5. CASE Cleanup(p)
  <2>0. PICK e \in QuietEar(p), t \in QuietTun(p) : ear' = [ear EXCEPT ![c] = e] /\ tun' = [tun EXCEPT ![c] = t]
    BY <1>c, <1>5 DEF Cleanup
  <2>1. /\ calls[p].pc = "cleanup" /\ CallIs(p, NoCall) /\ proxy' = proxy
        /\ rec' = [rec EXCEPT ![c] = IF calls[p].had THEN @ ELSE "none"]
    BY <1>c, <1>5 DEF Cleanup, CallAt
  <2>2. p \in Owners /\ c \in CopySlugs /\ calls[p].op = "deploy" BY <1>0, <2>1 DEF InOrder
  <2>3. ear'[c] = e /\ tun'[c] = t BY <1>0, <2>0, <2>2
  <2>s. /\ stranded \subseteq stranded' /\ stranded' \subseteq stranded \cup {c}
        /\ ~calls[p].had /\ c \notin stranded' =>
             /\ EarOf(p).st = "absent" \/ e.st = "absent"
             /\ TunOf(p).st = "absent" \/ t.st = "absent"
    <3>1. stranded' = IF /\ (EarOf(p).st # "absent" /\ e.st # "absent") \/ (TunOf(p).st # "absent" /\ t.st # "absent")
                         /\ ~calls[p].had
                      THEN stranded \cup {c} ELSE stranded
      BY <1>c, <1>5, <2>3, Zenon DEF Cleanup
    <3> QED BY <3>1
  <2>e. {"st", "of"} \subseteq DOMAIN e /\ (NoEarner(c) => e = ear[c])
    <3>1. {"st", "of"} \subseteq DOMAIN NoEar /\ NoEar.st = "absent" BY DEF NoEar
    <3>2. {"st", "of"} \subseteq DOMAIN EarOf(p) /\ {"st", "of"} \subseteq DOMAIN Halted(EarOf(p))
      BY <1>c, <1>0, <2>2, <3>1 DEF EarOf, PairShape, Halted
    <3>3. NoEarner(c) => EarOf(p).st = "absent" BY <1>c, <3>1 DEF EarOf, NoEarner
    <3> QED BY <1>c, <1>0, <2>2, <3>1, <3>2, <3>3 DEF QuietEar, PairShape
  <2>t. {"st", "id"} \subseteq DOMAIN t /\ (NoTunnel(c) => t = tun[c])
    <3>1. {"st", "id"} \subseteq DOMAIN NoTun /\ NoTun.st = "absent" BY DEF NoTun
    <3>2. {"st", "id"} \subseteq DOMAIN TunOf(p) BY <1>c, <1>0, <2>2, <3>1 DEF TunOf, PairShape
    <3>3. {"st", "id"} \subseteq DOMAIN [Halted(TunOf(p)) EXCEPT !.ready = FALSE] BY <3>2 DEF Halted
    <3>4. NoTunnel(c) => TunOf(p).st = "absent" BY <1>c, <3>1 DEF TunOf, NoTunnel
    <3> QED BY <1>c, <1>0, <2>2, <3>1, <3>2, <3>3, <3>4 DEF QuietTun, PairShape
  <2>4. rec[c] # "none" /\ (~calls[p].had /\ c \notin stranded' => NoTunnel(c)' /\ NoEarner(c)')
    <3>1. /\ rec[c] # "none"
          /\ ~calls[p].had /\ c \notin stranded =>
               (NoTunnel(c) \/ tun[c].id = calls[p].id) /\ (NoEarner(c) \/ ear[c].of = calls[p].id)
      BY <1>0, <2>1, <2>2 DEF Holds
    <3>2. tun[c].id = calls[p].id => TunOf(p) = tun[c] BY <1>c DEF TunOf
    <3>3. ear[c].of = calls[p].id => EarOf(p) = ear[c] BY <1>c DEF EarOf
    <3>4. ASSUME ~calls[p].had, c \notin stranded' PROVE NoTunnel(c)'
      BY <2>3, <2>s, <2>t, <3>1, <3>2, <3>4 DEF NoTunnel, QuietTun
    <3>5. ASSUME ~calls[p].had, c \notin stranded' PROVE NoEarner(c)'
      BY <2>3, <2>s, <2>e, <3>1, <3>3, <3>5 DEF NoEarner, QuietEar
    <3> QED BY <3>1, <3>4, <3>5
  <2>5. PairShape' BY <1>0, <2>0, <2>1, <2>e, <2>t DEF PairShape
  <2>6. Recorded' /\ Undeleted'
    <3>1. ASSUME NEW s \in CopySlugs, s \notin stranded', rec'[s] = "none" PROVE NoTunnel(s)' /\ NoEarner(s)'
      <4>1. CASE s = c /\ ~calls[p].had BY <2>4, <3>1, <4>1
      <4>2. CASE s = c /\ calls[p].had BY <1>0, <2>1, <2>2, <2>4, <3>1, <4>2
      <4>3. CASE s # c
        <5>1. rec'[s] = rec[s] /\ tun'[s] = tun[s] /\ ear'[s] = ear[s] BY <1>0, <2>0, <2>1, <4>3
        <5> QED BY <1>0, <2>s, <3>1, <5>1 DEF Recorded, NoTunnel, NoEarner
      <4> QED BY <4>1, <4>2, <4>3
    <3>2. Undeleted'
      <4>1. \A s \in CopySlugs : rec'[s] = rec[s] \/ rec'[s] = "none" BY <1>0, <2>1
      <4> QED BY <1>0, <2>1, <4>1 DEF Undeleted
    <3> QED BY <3>1, <3>2 DEF Recorded
  <2>7. Holds(calls[p])'
    <3>1. calls'[p] = NoCall BY <2>1, OneGoes
    <3> QED BY <3>1, NoCallShape DEF Holds
  <2> QED BY <2>1, <2>2, <2>5, <2>6, <2>7, NoCallShape, Alone
<1>6. CASE DeleteProxiedCopy(p)
  <2>1. /\ calls[p].pc = "unrecord" /\ CallIs(p, Pass) /\ UNCHANGED <<proxy, tun, ear>>
        /\ rec' = [rec EXCEPT ![c] = "none"] /\ stranded' = stranded \ {c}
    BY <1>c, <1>6 DEF DeleteProxiedCopy, CallAt, pair
  <2>2. p \in Owners /\ c \in CopySlugs /\ calls[p].op = "remove" BY <1>0, <2>1 DEF InOrder
  <2>3. NoTunnel(c) /\ NoEarner(c) BY <1>0, <2>1, <2>2 DEF Holds
  <2>4. PairShape' BY <1>0, <2>1 DEF PairShape
  <2>5. Recorded' /\ Undeleted' BY <1>0, <2>1, <2>3 DEF Recorded, Undeleted, NoTunnel, NoEarner
  <2>6. Holds(calls[p])'
    <3>1. calls'[p] = Pass BY <2>1, OneGoes
    <3> QED BY <3>1, NoCallShape DEF Holds
  <2> QED BY <2>1, <2>2, <2>4, <2>5, <2>6, NoCallShape, Alone
<1>7. CASE SaveProxiedCopy(p)
  <2>1. calls[p].pc = "record" /\ UNCHANGED <<stranded, proxy, tun, ear>> BY <1>c, <1>7 DEF SaveProxiedCopy, CallAt, pair
  <2>2. p \in Owners /\ c \in CopySlugs /\ calls[p].op = "deploy" BY <1>0, <2>1 DEF InOrder
  <2>3. CASE ~proxy.exists \/ proxy.capped
    <3>1. CallIs(p, NoCall) /\ UNCHANGED <<stranded, proxy, rec, pair>> BY <1>c, <1>7, <2>1, <2>3 DEF SaveProxiedCopy, pair
    <3> QED BY <3>1, NoCallShape, OnlyGoes, GoesOn
  <2>4. CASE ~(~proxy.exists \/ proxy.capped)
    <3>1. /\ rec' = [rec EXCEPT ![c] = "kept"] /\ proxy.exists
          /\ CallIs(p, [calls[p] EXCEPT !.pc = "clear", !.ver = proxy.ver, !.had = rec[c] # "none"])
      BY <1>c, <1>7, <2>4 DEF SaveProxiedCopy
    <3>2. PICK r, h : /\ h = (rec[c] # "none") /\ r = [calls[p] EXCEPT !.pc = "clear", !.ver = proxy.ver, !.had = h]
                      /\ CallIs(p, r)
      BY <3>1
    <3>3. InOrder(p, r) /\ r.pc = "clear" /\ r.op = "deploy" /\ r.s = c /\ r.had = h
      BY <1>0, <2>1, <2>2, <3>2 DEF InOrder, IsCall
    <3>4. PairShape' /\ Recorded' /\ Undeleted'
      BY <1>0, <2>1, <3>1 DEF PairShape, Recorded, Undeleted, NoTunnel, NoEarner
    <3>5. Holds(calls[p])'
      <4>1. calls'[p] = r BY <3>2, OneGoes
      <4>2. rec'[c] = "kept" /\ (~h /\ c \notin stranded => NoTunnel(c) /\ NoEarner(c)) BY <1>0, <2>2, <3>1, <3>2 DEF Recorded
      <4> QED BY <2>1, <3>3, <4>1, <4>2 DEF Holds, Early, NoTunnel, NoEarner
    <3> QED BY <2>1, <2>2, <3>2, <3>3, <3>4, <3>5, Alone
  <2> QED BY <2>3, <2>4
<1> QED BY <1>1, <1>2, <1>3, <1>4, <1>5, <1>6, <1>7

\* The other steps of a call, the owner's requests and the ticker's.
LEMMA RequestsOn ==
  ASSUME CopiesInv, NEW p \in CopyCallers,
         \/ ProxyTick /\ p = Ticker
         \/ p \in Owners /\ Begin(p)
         \/ SetProxiedCopyCapped(p) \/ Mark(p) \/ AccountStep(p)
  PROVE  CopiesInv'
<1>0. /\ InOrder(p, calls[p]) /\ CopyShape /\ PairShape
      /\ proxy = [exists |-> proxy.exists, cap |-> proxy.cap, ver |-> proxy.ver, used |-> proxy.used,
                  capped |-> proxy.capped, due |-> proxy.due]
      /\ rec = [s \in CopySlugs |-> rec[s]]
  BY DEF CopiesInv, CopyShape, PairShape
\* A flag is put on a copy that is on record.
<1>1. ASSUME UNCHANGED <<stranded, proxy, tun, ear>>, NEW s, NEW v, v # "none", Flag(s, v) \/ UNCHANGED rec, NEW r, CallIs(p, r)
      PROVE  CopiesStand
  <2>1. calls' = [q \in CopyCallers |-> calls'[q]] BY <1>1, OneGoes
  <2>2. rec' = [q \in CopySlugs |-> rec'[q]] /\ \A q \in CopySlugs : rec'[q] = "none" <=> rec[q] = "none"
    BY <1>0, <1>1 DEF Flag
  <2> QED BY <1>0, <1>1, <2>1, <2>2 DEF CopyShape, PairShape, CopiesStand, NoTunnel, NoEarner
\* The state of the proxy is written.
<1>2. ASSUME UNCHANGED <<stranded, rec, tun, ear>>, calls' = [q \in CopyCallers |-> calls'[q]], proxy'.exists = proxy.exists,
             proxy' = [exists |-> proxy'.exists, cap |-> proxy'.cap, ver |-> proxy'.ver, used |-> proxy'.used,
                       capped |-> proxy'.capped, due |-> proxy'.due]
      PROVE  CopiesStand
  BY <1>0, <1>2 DEF CopyShape, PairShape, CopiesStand, NoTunnel, NoEarner
<1>3. ASSUME ProxyTick, p = Ticker PROVE CopiesInv'
  <2>1. CallIs(p, Pass) /\ UNCHANGED <<stranded, proxy, rec, pair>> BY <1>3 DEF ProxyTick
  <2> QED BY <2>1, NoCallShape, OnlyGoes, GoesOn
<1>4. ASSUME NEW s \in CopySlugs, p \in Owners, DeployProxied(p, s) \/ StopProxied(p, s) \/ StartProxied(p, s) \/ RemoveProxied(p, s)
      PROVE  CopiesInv'
  <2>1. UNCHANGED <<stranded, proxy, rec, pair>> BY <1>4 DEF DeployProxied, StopProxied, StartProxied, RemoveProxied
  <2>2. PICK pc, op : /\ \/ op = "deploy" /\ pc = "record"
                         \/ op = "remove" /\ pc = "clear"
                         \/ op \notin {"deploy", "remove"} /\ pc \in {"stop", "start"}
                      /\ CallIs(p, [NoCall EXCEPT !.pc = pc, !.op = op, !.s = s, !.ver = proxy.ver])
    <3>1. CASE DeployProxied(p, s)
      <4>1. CallIs(p, [NoCall EXCEPT !.pc = "record", !.op = "deploy", !.s = s, !.ver = proxy.ver])
        BY <3>1 DEF DeployProxied, Call
      <4> WITNESS "record", "deploy"
      <4> QED BY <4>1
    <3>2. CASE RemoveProxied(p, s) BY <3>2, Zenon DEF RemoveProxied, Call
    <3>3. "stop" \notin {"deploy", "remove"} /\ "start" \notin {"deploy", "remove"} OBVIOUS
    <3>4. CASE StopProxied(p, s) BY <3>3, <3>4, Zenon DEF StopProxied, Call
    <3>5. CASE StartProxied(p, s) BY <3>3, <3>5, Zenon DEF StartProxied, Call
    <3> QED BY <1>4, <3>1, <3>2, <3>4, <3>5
  <2>r. PICK r : r = [NoCall EXCEPT !.pc = pc, !.op = op, !.s = s, !.ver = proxy.ver] OBVIOUS
  <2>c. CallIs(p, r) BY <2>2, <2>r
  <2>3. IsCall(NoCall) BY NoCallShape DEF InOrder
  <2>4. InOrder(p, r) /\ r.pc = pc /\ r.op = op BY <1>4, <2>2, <2>3, <2>r DEF InOrder, IsCall
  <2>5. Holds(calls[p])'
    <3>1. calls'[p] = r BY <2>c, OneGoes
    <3> QED BY <2>2, <2>4, <3>1 DEF Holds
  <2>6. CopiesStand /\ calls' = [calls EXCEPT ![p] = calls'[p]] /\ calls'[p] = r BY <2>1, <2>c, OnlyGoes, OneGoes
  <2> QED BY <2>4, <2>5, <2>6, StandsOn
<1>5. ASSUME NEW cap, NEW ver, p \in Owners, SaveProxy(p, cap, ver) PROVE CopiesInv'
  <2>1. UNCHANGED <<stranded, rec, tun, ear>> BY <1>5 DEF SaveProxy, pair
  <2>2. PICK state : /\ proxy' = [state EXCEPT !.cap = cap, !.ver = ver]
                     /\ state \in {proxy, ResetState(proxy), [proxy EXCEPT !.capped = FALSE]}
    <3>1. CapChange(proxy.cap, cap, proxy).state \in {proxy, ResetState(proxy), [proxy EXCEPT !.capped = FALSE]}
      BY DEF CapChange
    <3>2. \/ proxy' = [CapChange(proxy.cap, cap, proxy).state EXCEPT !.cap = cap, !.ver = ver]
          \/ proxy' = [proxy EXCEPT !.cap = cap, !.ver = ver]
      BY <1>5, Zenon DEF SaveProxy
    <3> QED BY <3>1, <3>2
  <2>3. /\ proxy'.exists = proxy.exists
        /\ proxy' = [exists |-> proxy'.exists, cap |-> proxy'.cap, ver |-> proxy'.ver, used |-> proxy'.used,
                     capped |-> proxy'.capped, due |-> proxy'.due]
    <3>1. CASE state = proxy BY <1>0, <2>2, <3>1
    <3>2. CASE state = ResetState(proxy) BY <1>0, <2>2, <3>2 DEF ResetState
    <3>3. CASE state = [proxy EXCEPT !.capped = FALSE] BY <1>0, <2>2, <3>3
    <3> QED BY <2>2, <3>1, <3>2, <3>3
  <2>4. calls' = calls \/ \E r : CallIs(p, r) /\ InOrder(p, r) /\ r.op \notin {"deploy", "remove"}
    <3>1. CASE CallIs(p, NoCall) BY <3>1, NoCallShape
    <3>2. CASE CallIs(p, [NoCall EXCEPT !.pc = "releaseList", !.op = "release", !.ver = ver])
      <4>1. PICK r : r = [NoCall EXCEPT !.pc = "releaseList", !.op = "release", !.ver = ver] /\ CallIs(p, r) BY <3>2
      <4>2. IsCall(NoCall) BY NoCallShape DEF InOrder
      <4>3. InOrder(p, r) /\ r.op = "release" BY <4>1, <4>2 DEF InOrder, IsCall
      <4> QED BY <4>1, <4>3
    <3> QED BY <1>5, <3>1, <3>2, Zenon DEF SaveProxy
  <2>5. CASE calls' = calls
    <3>1. CopiesStand BY <1>0, <1>2, <2>1, <2>3, <2>5 DEF CopyShape
    <3> QED BY <2>5, <3>1, StandsOn DEF CopiesInv, Holds, CopiesStand, InOrder, CopyShape
  <2>6. CASE \E r : CallIs(p, r) /\ InOrder(p, r) /\ r.op \notin {"deploy", "remove"}
    <3>1. CopiesStand BY <1>2, <2>1, <2>3, <2>6, OneGoes
    <3> QED BY <2>6, <3>1, GoesOn
  <2> QED BY <2>4, <2>5, <2>6
<1>6. ASSUME p \in Owners, ResetProxy(p) PROVE CopiesInv'
  <2>1. PICK r : r = [NoCall EXCEPT !.pc = "releaseList", !.op = "reset", !.ver = proxy.ver] /\ CallIs(p, r)
    BY <1>6 DEF ResetProxy
  <2>2. IsCall(NoCall) BY NoCallShape DEF InOrder
  <2>3. InOrder(p, r) /\ r.op = "reset" BY <2>1, <2>2 DEF InOrder, IsCall
  <2>4. UNCHANGED <<stranded, rec, tun, ear>> /\ proxy' = ResetState(proxy) BY <1>6 DEF ResetProxy, pair
  <2>5. CopiesStand BY <1>0, <1>2, <2>1, <2>4, OneGoes DEF ResetState
  <2> QED BY <2>1, <2>3, <2>5, GoesOn
<1>7. ASSUME SetProxiedCopyCapped(p) PROVE CopiesInv'
  <2>1. UNCHANGED <<stranded, proxy, tun, ear>> /\ calls[p].pc = "flag" /\ Flag(calls[p].s, "kept") BY <1>7 DEF SetProxiedCopyCapped, CallAt, pair
  <2>2. calls[p].op \notin {"deploy", "remove"} BY <1>0, <2>1 DEF InOrder
  <2>3. PICK r : CallIs(p, r) /\ InOrder(p, r) /\ r.op \notin {"deploy", "remove"}
    <3>1. CASE CallIs(p, Pass) BY <3>1, NoCallShape
    <3>2. CASE CallIs(p, [calls[p] EXCEPT !.pc = "releaseNext"])
      <4>1. PICK r : r = [calls[p] EXCEPT !.pc = "releaseNext"] /\ CallIs(p, r) BY <3>2
      <4>2. InOrder(p, r) /\ r.op = calls[p].op BY <1>0, <2>2, <4>1 DEF InOrder, IsCall
      <4> QED BY <2>2, <4>1, <4>2
    <3> QED BY <1>7, <3>1, <3>2, Zenon DEF SetProxiedCopyCapped
  <2>4. CopiesStand BY <1>1, <2>1, <2>3
  <2> QED BY <2>3, <2>4, GoesOn
<1>8. ASSUME Mark(p) PROVE CopiesInv'
  <2>1. /\ UNCHANGED <<stranded, proxy, tun, ear>> /\ calls[p].pc = "mark"
        /\ Flag(calls[p].s, "capped") \/ UNCHANGED rec
    BY <1>8 DEF Mark, CallAt, pair
  <2>2. calls[p].op \notin {"deploy", "remove"} BY <1>0, <2>1 DEF InOrder
  <2>3. PICK r : CallIs(p, r) /\ InOrder(p, r) /\ r.op \notin {"deploy", "remove"}
    <3>1. CASE CallIs(p, [calls[p] EXCEPT !.pc = "start", !.op = "undo", !.ver = proxy.ver])
      <4>1. PICK r : r = [calls[p] EXCEPT !.pc = "start", !.op = "undo", !.ver = proxy.ver] /\ CallIs(p, r) BY <3>1
      <4>2. InOrder(p, r) /\ r.op = "undo" BY <1>0, <2>2, <4>1 DEF InOrder, IsCall
      <4> QED BY <4>1, <4>2
    <3>2. CASE CallIs(p, [calls[p] EXCEPT !.pc = "stopNext"])
      <4>1. PICK r : r = [calls[p] EXCEPT !.pc = "stopNext"] /\ CallIs(p, r) BY <3>2
      <4>2. InOrder(p, r) /\ r.op = calls[p].op BY <1>0, <2>2, <4>1 DEF InOrder, IsCall
      <4> QED BY <2>2, <4>1, <4>2
    <3> QED BY <1>8, <3>1, <3>2, Zenon DEF Mark
  <2>4. CopiesStand
    <3>1. CASE Flag(calls[p].s, "capped")
      <4>1. "capped" # "none" OBVIOUS
      <4> QED BY <1>1, <2>1, <2>3, <3>1, <4>1, ZenonT(30)
    <3>2. CASE UNCHANGED rec
      <4>1. UNCHANGED <<stranded, proxy, rec, pair>> BY <2>1, <3>2, ZenonT(30) DEF pair
      <4> QED BY <2>3, <4>1, OnlyGoes
    <3> QED BY <2>1, <3>1, <3>2
  <2> QED BY <2>3, <2>4, GoesOn
<1>9. ASSUME AccountStep(p) PROVE CopiesInv'
  <2>1. UNCHANGED <<stranded, rec, tun, ear>> /\ calls[p].pc = "act" BY <1>9 DEF AccountStep, CallAt, pair
  <2>2. calls[p].op \notin {"deploy", "remove"} BY <1>0, <2>1 DEF InOrder
  <2>3. PICK begun, used, next :
          /\ begun = (IF proxy.due THEN ResetState(proxy) ELSE proxy) /\ next = Account(begun, used)
          /\ proxy' \in {proxy, next}
          /\ \/ CallIs(p, NoCall)
             \/ \E live : CallIs(p, [calls[p] EXCEPT !.pc = "targets", !.op = "cap", !.todo = live, !.crossed = ~begun.capped,
                                                     !.seen = NothingSeen])
             \/ CallIs(p, [NoCall EXCEPT !.pc = "releaseList", !.op = "release", !.ver = next.ver])
    BY <1>9, ZenonT(60) DEF AccountStep
  <2>4. /\ proxy'.exists = proxy.exists
        /\ proxy' = [exists |-> proxy'.exists, cap |-> proxy'.cap, ver |-> proxy'.ver, used |-> proxy'.used,
                     capped |-> proxy'.capped, due |-> proxy'.due]
    BY <1>0, <2>3 DEF ResetState, Account
  <2>5. PICK r : CallIs(p, r) /\ InOrder(p, r) /\ r.op \notin {"deploy", "remove"}
    <3>1. CASE CallIs(p, NoCall) BY <3>1, NoCallShape
    <3>2. ASSUME NEW live, CallIs(p, [calls[p] EXCEPT !.pc = "targets", !.op = "cap", !.todo = live, !.crossed = ~begun.capped,
                                                      !.seen = NothingSeen])
          PROVE  \E r : CallIs(p, r) /\ InOrder(p, r) /\ r.op \notin {"deploy", "remove"}
      <4>1. PICK r, cr, ns : r = [calls[p] EXCEPT !.pc = "targets", !.op = "cap", !.todo = live, !.crossed = cr, !.seen = ns]
                             /\ CallIs(p, r)
        BY <3>2
      <4>2. InOrder(p, r) /\ r.op = "cap" BY <1>0, <4>1 DEF InOrder, IsCall
      <4> QED BY <4>1, <4>2
    <3>3. CASE CallIs(p, [NoCall EXCEPT !.pc = "releaseList", !.op = "release", !.ver = next.ver])
      <4>1. PICK r : r = [NoCall EXCEPT !.pc = "releaseList", !.op = "release", !.ver = next.ver] /\ CallIs(p, r) BY <3>3
      <4>2. IsCall(NoCall) BY NoCallShape DEF InOrder
      <4>3. InOrder(p, r) /\ r.op = "release" BY <4>1, <4>2 DEF InOrder, IsCall
      <4> QED BY <4>1, <4>3
    <3> QED BY <2>3, <3>1, <3>2, <3>3
  <2>6. CopiesStand BY <1>2, <2>1, <2>4, <2>5, OneGoes
  <2> QED BY <2>5, <2>6, GoesOn
<1> QED BY <1>3, <1>4, <1>5, <1>6, <1>7, <1>8, <1>9 DEF Begin

\* What happens around the calls: a tunnel gets ready, an earner dies, a month begins, the host
\* reboots, the owner deletes the proxy.
LEMMA AroundOn ==
  ASSUME CopiesInv,
         \/ \E s \in CopySlugs : TunnelReady(s) \/ EarnerDies(s)
         \/ ResetDayComes \/ Reboot \/ DeleteProxy
  PROVE  CopiesInv'
<1>0. /\ CopyShape /\ PairShape
      /\ proxy = [exists |-> proxy.exists, cap |-> proxy.cap, ver |-> proxy.ver, used |-> proxy.used,
                  capped |-> proxy.capped, due |-> proxy.due]
      /\ calls = [p \in CopyCallers |-> calls[p]]
      /\ tun = [s \in CopySlugs |-> tun[s]] /\ ear = [s \in CopySlugs |-> ear[s]]
  BY DEF CopiesInv, CopyShape, PairShape
<1>a. \A s \in CopySlugs : {"st", "id"} \subseteq DOMAIN tun[s] /\ {"st", "of"} \subseteq DOMAIN ear[s]
  BY <1>0 DEF PairShape
<1>1. ASSUME CopiesStand, calls' = calls PROVE CopiesInv'
  <2>1. \A p \in CopyCallers : InOrder(p, calls'[p]) /\ Holds(calls[p])'
    BY <1>1 DEF CopiesInv, Holds, InOrder, CopiesStand
  <2>2. Recorded' /\ Undeleted' BY <1>1 DEF CopiesInv, CopiesStand, Recorded, Undeleted
  <2> QED BY <1>1, <2>1, <2>2 DEF CopiesInv, CopiesStand
<1>2. ASSUME NEW s \in CopySlugs, TunnelReady(s) PROVE CopiesInv'
  <2>1. UNCHANGED <<stranded, proxy, rec, ear, calls>> BY <1>2 DEF TunnelReady
  <2>2. PICK t : t = [tun[s] EXCEPT !.ready = TRUE] OBVIOUS
  <2>3. tun' = [tun EXCEPT ![s] = t] BY <1>2, <2>2 DEF TunnelReady
  <2>4. {"st", "id"} \subseteq DOMAIN t /\ t.id = tun[s].id /\ t.st = tun[s].st BY <1>a, <2>2
  <2>5. tun' = [q \in CopySlugs |-> tun'[q]] /\ \A q \in CopySlugs : TunStands(q) BY <2>3, <2>4, TunEdited
  <2>6. CopiesStand BY <1>0, <2>1, <2>5, Untouched, PairStands
  <2> QED BY <1>1, <2>1, <2>6
<1>3. ASSUME NEW s \in CopySlugs, EarnerDies(s) PROVE CopiesInv'
  <2>1. UNCHANGED <<stranded, proxy, rec, tun, calls>> /\ ear[s].st # "absent" BY <1>3 DEF EarnerDies, Up
  <2>2. PICK e : e = [ear[s] EXCEPT !.st = "exited"] OBVIOUS
  <2>3. ear' = [ear EXCEPT ![s] = e] BY <1>3, <2>2 DEF EarnerDies
  <2>4. {"st", "of"} \subseteq DOMAIN e /\ e.of = ear[s].of /\ e.st = "exited" BY <1>a, <2>2
  <2>5. ear' = [q \in CopySlugs |-> ear'[q]] /\ \A q \in CopySlugs : EarStands(q) BY <2>1, <2>3, <2>4, EarEdited
  <2>6. CopiesStand BY <1>0, <2>1, <2>5, Untouched, PairStands
  <2> QED BY <1>1, <2>1, <2>6
<1>4. CASE ResetDayComes
  <2>1. UNCHANGED <<stranded, rec, tun, ear, calls>> /\ proxy' = [proxy EXCEPT !.due = TRUE] BY <1>4 DEF ResetDayComes, pair
  <2>2. CopiesStand BY <1>0, <2>1 DEF CopyShape, PairShape, CopiesStand, NoTunnel, NoEarner
  <2> QED BY <1>1, <2>1, <2>2
<1>5. CASE Reboot
  <2>1. /\ UNCHANGED <<stranded, proxy, rec>>
        /\ tun' = [s \in CopySlugs |-> IF Up(tun[s].st) THEN Started(tun[s], NewNumber) ELSE tun[s]]
        /\ ear' = [s \in CopySlugs |-> IF Up(ear[s].st) THEN [ear[s] EXCEPT !.st = "exited"] ELSE ear[s]]
        /\ calls' = [p \in CopyCallers |-> NoCall]
    BY <1>5 DEF Reboot
  <2>2. ASSUME NEW s \in CopySlugs PROVE TunStands(s)
    <3>1. CASE Up(tun[s].st)
      <4>1. tun'[s] = Started(tun[s], NewNumber) BY <2>1, <3>1
      <4> QED BY <1>a, <3>1, <4>1 DEF Started, TunStands, Up
    <3>2. CASE ~Up(tun[s].st)
      <4>1. tun'[s] = tun[s] BY <2>1, <3>2
      <4> QED BY <1>a, <4>1 DEF TunStands
    <3> QED BY <3>1, <3>2
  <2>3. ASSUME NEW s \in CopySlugs PROVE EarStands(s)
    <3>1. CASE Up(ear[s].st)
      <4>1. ear'[s] = [ear[s] EXCEPT !.st = "exited"] BY <2>1, <3>1
      <4> QED BY <1>a, <3>1, <4>1 DEF EarStands, Up
    <3>2. CASE ~Up(ear[s].st)
      <4>1. ear'[s] = ear[s] BY <2>1, <3>2
      <4> QED BY <1>a, <4>1 DEF EarStands
    <3> QED BY <3>1, <3>2
  <2>4. tun' = [s \in CopySlugs |-> tun'[s]] /\ ear' = [s \in CopySlugs |-> ear'[s]] /\ calls' = [p \in CopyCallers |-> calls'[p]]
    BY <2>1
  <2>5. CopiesStand BY <2>1, <2>2, <2>3, <2>4, PairStands
  <2>6. ASSUME NEW p \in CopyCallers PROVE InOrder(p, calls'[p]) /\ Holds(calls[p])'
    <3>1. calls'[p] = NoCall BY <2>1
    <3> QED BY <3>1, NoCallShape DEF Holds
  <2>7. Recorded' /\ Undeleted' BY <2>5 DEF CopiesInv, CopiesStand, Recorded, Undeleted
  <2> QED BY <2>5, <2>6, <2>7 DEF CopiesInv, CopiesStand
<1>6. CASE DeleteProxy
  <2>1. /\ UNCHANGED <<stranded, rec, tun, ear, calls>> /\ proxy' = [proxy EXCEPT !.exists = FALSE]
        /\ \A s \in CopySlugs : rec[s] = "none"
    BY <1>6 DEF DeleteProxy, pair
  <2>2. CopyShape' BY <1>0, <2>1 DEF CopyShape, PairShape
  <2>3. \A p \in CopyCallers : InOrder(p, calls'[p]) /\ Holds(calls[p])'
    BY <2>1 DEF CopiesInv, Holds, InOrder, NoTunnel, NoEarner
  <2>4. Recorded' /\ Undeleted' BY <2>1 DEF CopiesInv, Recorded, Undeleted, NoTunnel, NoEarner
  <2> QED BY <2>2, <2>3, <2>4 DEF CopiesInv
<1> QED BY <1>2, <1>3, <1>4, <1>5, <1>6

LEMMA CopiesStart == CopiesInit => CopiesInv
<1> SUFFICES ASSUME CopiesInit PROVE CopiesInv OBVIOUS
<1>1. PICK there \in BOOLEAN, cap \in Caps :
        /\ proxy = [exists |-> TRUE, cap |-> cap, ver |-> 1, used |-> FALSE, capped |-> FALSE, due |-> FALSE]
        /\ rec = [s \in CopySlugs |-> IF there THEN "kept" ELSE "none"]
        /\ tun = [s \in CopySlugs |-> IF there THEN RunningPair.tun ELSE NoTun]
        /\ ear = [s \in CopySlugs |-> IF there THEN RunningPair.ear ELSE NoEar]
        /\ calls = [p \in CopyCallers |-> NoCall]
  BY Zenon DEF CopiesInit
<1>2. /\ {"st", "of"} \subseteq DOMAIN NoEar /\ NoEar.st = "absent" /\ {"st", "id"} \subseteq DOMAIN NoTun /\ NoTun.st = "absent"
      /\ {"st", "of"} \subseteq DOMAIN RunningPair.ear /\ {"st", "id"} \subseteq DOMAIN RunningPair.tun
  BY DEF NoEar, NoTun, RunningPair
<1>3. CopyShape BY <1>1, <1>2 DEF CopyShape, PairShape
<1>4. ASSUME NEW p \in CopyCallers PROVE InOrder(p, calls[p]) /\ Holds(calls[p])
  <2>1. calls[p] = NoCall BY <1>1
  <2> QED BY <2>1, NoCallShape DEF Holds
<1>5. Recorded /\ Undeleted BY <1>1, <1>2 DEF Recorded, Undeleted, NoTunnel, NoEarner
<1> QED BY <1>3, <1>4, <1>5 DEF CopiesInv

\* A deleted proxy leaves no copy behind (services/proxies.go, DeleteProxy) but those that a
\* failed deploy could not take away and took off the record all the same, for any number of
\* services, whatever fails, dies or reboots meanwhile, while the owner makes one call at a time:
\* beside a removal a second deploy of the same copy can lose its record.
THEOREM DeletedLeavesNothingThm == ASSUME OneOwner PROVE CopiesSpec => []DeletedLeavesNothing
<1>1. ASSUME CopiesInv, [CopiesNext]_copyVars PROVE CopiesInv'
  <2>1. ASSUME NEW o \in Owners, Begin(o) \/ SaveProxiedCopy(o) PROVE CopiesInv'
    <3>1. o \in CopyCallers BY DEF CopyCallers
    <3> QED BY <1>1, <2>1, <3>1, RequestsOn, OwnersSteps
  <2>2. ASSUME NEW p \in CopyCallers, CopyStep(p) \/ CallFails(p) PROVE CopiesInv'
    BY <1>1, <2>2, ReadsOn, EditsOn, OwnersSteps, RequestsOn DEF CopyStep
  <2>3. CASE ProxyTick
    <3>1. Ticker \in CopyCallers BY DEF CopyCallers
    <3> QED BY <1>1, <2>3, <3>1, RequestsOn
  <2>4. CASE (\E s \in CopySlugs : TunnelReady(s) \/ EarnerDies(s)) \/ ResetDayComes \/ Reboot \/ DeleteProxy
    BY <1>1, <2>4, AroundOn
  <2>5. CASE UNCHANGED copyVars
    BY <1>1, <2>5 DEF copyVars, CopiesInv, CopyShape, PairShape, InOrder, Holds, Recorded, Undeleted, NoTunnel, NoEarner
  <2> QED BY <1>1, <2>1, <2>2, <2>3, <2>4, <2>5 DEF CopiesNext
<1>2. CopiesInv => DeletedLeavesNothing BY DEF CopiesInv, Recorded, Undeleted, NoTunnel, NoEarner, NoneLeft, DeletedLeavesNothing
<1> QED BY <1>1, <1>2, CopiesStart, PTL DEF CopiesSpec
=============================================================================
