------------------------------- MODULE Config -------------------------------
(***************************************************************************)
(* The stored configuration and the secrets beside it (internal/config),   *)
(* with the calls of the app that write them.  Update is one section under *)
(* the manager's lock; Save writes the file before it takes the lock, and   *)
(* the whole object: what its caller has read, a field changed.             *)
(***************************************************************************)
EXTENDS Naturals, FiniteSets

CONSTANTS
  Slugs,    \* services whose drift warning may be muted
  Writers,  \* calls of the window under way at once
  Quotas    \* bound: how often each call and each mishap may happen, one choice per behaviour

VARIABLES
  app,     \* "down", a step of startCore, "up", or "refused": it ended with an error
  disk,    \* config.json: "whole", "missing" or "torn", and what it holds
  mem,     \* Manager.cfg
  call,    \* the calls under way
  asked,   \* history: each field as the last write that succeeded wanted it
  raced,   \* history: a write has come between the reading and the end of a whole Save
  goos,    \* the platform's keychain: one that is "always" there, or "maybe" not
  ring,    \* the keychain: whether it answers, and its items
  files,   \* the fallback files
  sealed,  \* the key the stored credentials are encrypted with
  issued,  \* the fleet token the workers have been given
  left     \* what remains of the calls and mishaps allowed

settings == <<disk, mem, call, asked, raced>>
secrets  == <<goos, ring, files, sealed, issued>>

\* The configuration: the fields of the settings window, here the choice of LAN
\* isolation, and those each of which another call or background work writes.
Default == [isolation |-> "auto", mutes |-> {}, onboarded |-> FALSE, activity |-> FALSE, isolationOn |-> FALSE,
            legacy |-> 0]
Names   == {"master", "fleet"}
Idle    == [pc |-> "idle", op |-> "", snap |-> Default, next |-> Default]

Spend(k)     == left[k] > 0 /\ left' = [left EXCEPT ![k] = @ - 1]
Become(w, r) == call' = [call EXCEPT ![w] = r]
\* The calls that end in a whole Save, of what they read when they began.
Saving == {w \in Writers : call[w].pc # "idle" /\ call[w].op # "settings"}

----------------------------------------------------------------------------
(* Writing the configuration.                                              *)

\* persist leaves a file that is whole, or truncated when the write fails; others are the
\* whole Saves under way beside it.
persist(next, others) ==
  /\ disk' = [st |-> "whole", cfg |-> next]
  /\ raced' = (raced \/ others # {})
PersistFails == left.fail > 0 /\ disk' = [disk EXCEPT !.st = "torn"] /\ UNCHANGED <<mem, asked, raced>>

\* Update: read, changed, written and kept under the lock.  A whole Save under way sees
\* none of it, so the history goes by what the fields were asked to be.
Update(next, wanted) ==
  \/ persist(next, Saving) /\ mem' = next /\ asked' = wanted
  \/ PersistFails

\* The settings form owns its fields; turning isolation off forgets that it was on.
FormOn(cfg, isolation) == [cfg EXCEPT !.isolation = isolation, !.isolationOn = @ /\ isolation # "off"]
\* Mutant: the form writes the whole configuration as it was when it was read.
FormWhole(cfg, next) == next
FormOnto(cfg, next) == FormOn(cfg, next.isolation)

\* The calls read the configuration first.
SaveSettings(w, isolation) ==
  /\ app = "up" /\ call[w].pc = "idle" /\ Spend("settings")
  /\ Become(w, [pc |-> "write", op |-> "settings", snap |-> mem, next |-> FormOn(mem, isolation)])
  /\ UNCHANGED <<app, disk, mem, asked, raced, secrets>>
\* One at a time, under driftMu.
IgnoreDrift(w, slug) ==
  /\ app = "up" /\ call[w].pc = "idle" /\ Spend("mute")
  /\ \A o \in Writers : call[o].op # "mute"
  /\ Become(w, [pc |-> "persist", op |-> "mute", snap |-> mem, next |-> [mem EXCEPT !.mutes = @ \cup {slug}]])
  /\ UNCHANGED <<app, disk, mem, asked, raced, secrets>>
CompleteOnboarding(w) ==
  /\ app = "up" /\ call[w].pc = "idle" /\ Spend("onboard")
  /\ Become(w, [pc |-> "persist", op |-> "onboard", snap |-> mem, next |-> [mem EXCEPT !.onboarded = TRUE]])
  /\ UNCHANGED <<app, disk, mem, asked, raced, secrets>>

UpdateForm(w) ==
  /\ app = "up" /\ call[w].pc = "write"
  /\ Update(FormOnto(mem, call[w].next), FormOn(asked, call[w].next.isolation))
  /\ Become(w, Idle)
  /\ UNCHANGED <<app, secrets, left>>
\* Save: the file, then under the lock the copy in memory.
Persist(w) ==
  /\ app = "up" /\ call[w].pc = "persist"
  /\ LET c == call[w] IN
       \/ /\ persist(c.next, Saving \ {w})
          /\ asked' = [asked EXCEPT !.mutes = IF c.op = "mute" THEN @ \cup (c.next.mutes \ c.snap.mutes) ELSE @,
                                    !.onboarded = @ \/ c.op = "onboard"]
          /\ Become(w, [c EXCEPT !.pc = "set"])
          /\ UNCHANGED mem
       \/ PersistFails /\ Become(w, Idle)
  /\ UNCHANGED <<app, secrets, left>>
Set(w) ==
  /\ app = "up" /\ call[w].pc = "set"
  /\ mem' = call[w].next
  /\ raced' = (raced \/ Saving \ {w} # {})
  /\ Become(w, Idle)
  /\ UNCHANGED <<app, disk, asked, secrets, left>>

\* The fence remembers that isolation is on, or off.
SetIsolationMemory(on) ==
  /\ app = "up" /\ mem.isolationOn # on /\ left.fence > 0
  /\ Update([mem EXCEPT !.isolationOn = on], [asked EXCEPT !.isolationOn = on])
  /\ UNCHANGED <<app, call, secrets, left>>

----------------------------------------------------------------------------
(* The secrets: keychain first, a file when it does not take them.         *)

\* keyring.Get, whose "not found" is told apart from every other failure.
Found(s)  == ring.up /\ ring.items[s] # 0
\* Mutant: a keychain that does not answer is taken for an empty one.
NeverRefuse(s) == FALSE
refuseKeyRegen(s) == ~ring.up /\ goos = "always"
\* What a read of the secret gives, 0 when it is not stored.
Stored(s) == IF Found(s) THEN ring.items[s] ELSE files[s]
\* The readers put the file's value into the keychain.
Migrate(s) == ring' = IF ring.up /\ ring.items[s] = 0 THEN [ring EXCEPT !.items[s] = files[s]] ELSE ring
\* The writers keep it in a file when the keychain does not take it.
writeSecret(s, key) ==
  IF ring.up THEN ring' = [ring EXCEPT !.items[s] = key] /\ UNCHANGED files
  ELSE files' = [files EXCEPT ![s] = key] /\ UNCHANGED ring
\* A key that was never minted.
Minted == {ring.items[s] : s \in Names} \cup {files[s] : s \in Names} \cup {sealed, issued, mem.legacy}
NewKey == CHOOSE k \in 1..6 : k \notin Minted

----------------------------------------------------------------------------
(* startCore, step by step.                                                *)

Start ==
  /\ app \in {"down", "refused"} /\ Spend("start")
  /\ app' = "load"
  /\ UNCHANGED <<settings, secrets>>
\* NewManager: a missing file is written with the defaults, one that cannot be read ends
\* the start.
load ==
  /\ app = "load"
  /\ app' = IF disk.st = "torn" THEN "refused" ELSE "store"
  /\ disk' = IF disk.st = "missing" THEN [st |-> "whole", cfg |-> Default] ELSE disk
  /\ mem' = IF disk.st = "torn" THEN Default ELSE disk.cfg
  /\ UNCHANGED <<call, asked, raced, secrets, left>>
\* store.Open takes the master key the credentials are sealed with.
MasterKey ==
  /\ app = "store"
  /\ \/ /\ Stored("master") # 0
        /\ Migrate("master") /\ UNCHANGED files
        /\ sealed' = Stored("master") /\ app' = "fleet"
     \/ /\ Stored("master") = 0 /\ refuseKeyRegen("master")
        /\ app' = "refused" /\ UNCHANGED <<ring, files, sealed>>
     \/ /\ Stored("master") = 0 /\ ~refuseKeyRegen("master")
        /\ writeSecret("master", NewKey)
        /\ sealed' = NewKey /\ app' = "fleet"
  /\ UNCHANGED <<settings, goos, issued, left>>
\* ensureFleetAPIKey: a token of an older configuration is kept, and its copy in the file
\* goes once the secret is stored.  A failure is shown, and the hub stays closed.
FleetKey ==
  LET token == IF Stored("fleet") # 0 THEN Stored("fleet") ELSE IF mem.legacy # 0 THEN mem.legacy ELSE NewKey IN
  /\ app = "fleet"
  /\ IF Stored("fleet") = 0 /\ refuseKeyRegen("fleet")
     THEN app' = "up" /\ UNCHANGED <<ring, files, issued>>
     ELSE /\ IF Stored("fleet") # 0 THEN Migrate("fleet") /\ UNCHANGED files ELSE writeSecret("fleet", token)
          /\ issued' = token
          /\ app' = "strip"
  /\ UNCHANGED <<settings, goos, sealed, left>>
ensureFleetAPIKey ==
  LET stripped == [mem EXCEPT !.legacy = 0] IN
  /\ app = "strip"
  /\ app' = "up"
  /\ IF mem.legacy = 0 THEN UNCHANGED <<disk, mem, asked, raced>>
     ELSE Update(stripped, [asked EXCEPT !.legacy = 0])
  /\ UNCHANGED <<call, secrets, left>>

\* The app ends at any moment, in the middle of a write with a file that is torn.
Crash ==
  /\ app # "down"
  /\ Spend("crash")
  /\ app' = "down"
  /\ \/ UNCHANGED disk
     \/ left.tear > 0 /\ disk' = [disk EXCEPT !.st = "torn"] /\ \E w \in Writers : call[w].pc \in {"write", "persist"}
  /\ call' = [w \in Writers |-> Idle]
  /\ UNCHANGED <<mem, asked, raced, secrets>>
\* The keychain is locked, or opened again.
RingToggles ==
  /\ Spend("ring")
  /\ ring' = [ring EXCEPT !.up = ~@]
  /\ UNCHANGED <<app, settings, goos, files, sealed, issued>>

----------------------------------------------------------------------------
\* A first start, or one of an install whose token is still in its configuration.
ConfigInit ==
  /\ app = "down"
  /\ \E legacy \in {0, 1} :
       /\ disk = [st |-> IF legacy = 0 THEN "missing" ELSE "whole", cfg |-> [Default EXCEPT !.legacy = legacy]]
       /\ asked = [Default EXCEPT !.legacy = legacy]
       /\ issued = legacy
  /\ mem = Default
  /\ call = [w \in Writers |-> Idle]
  /\ raced = FALSE
  /\ goos \in {"always", "maybe"}
  /\ ring = [up |-> TRUE, items |-> [s \in Names |-> 0]]
  /\ files = [s \in Names |-> 0]
  /\ sealed = 0
  /\ left \in Quotas

StartStep == Start \/ load \/ MasterKey \/ FleetKey \/ ensureFleetAPIKey
CallStep(w) ==
  \/ \E i \in {"auto", "off"} : SaveSettings(w, i)
  \/ \E s \in Slugs : IgnoreDrift(w, s)
  \/ CompleteOnboarding(w) \/ UpdateForm(w) \/ Persist(w) \/ Set(w)
ConfigNext ==
  \/ StartStep
  \/ \E w \in Writers : CallStep(w)
  \/ \E on \in BOOLEAN : SetIsolationMemory(on)
  \/ Crash \/ RingToggles

----------------------------------------------------------------------------
(* Properties.                                                             *)

\* Every field is as the last write of it left it, in memory and across restarts, whatever
\* calls overlap, unless a whole Save was one of them; only a failed write spoils the file.
FieldsKept ==
  (app = "up" /\ ~raced /\ \A w \in Writers : call[w].pc # "set") => mem = asked

\* Where the keychain is always there, no start ever makes new keys for old ones: the
\* credentials stay readable and the workers' token stays theirs, though the keychain is
\* locked and the app dies between any two steps.
KeysAreStable ==
  [][goos = "always" => /\ sealed # 0 => sealed' = sealed
                        /\ issued # 0 => issued' = issued]_secrets
=============================================================================
