------------------------------ MODULE Upstream ------------------------------
(***************************************************************************)
(* Pairing with a CashPilot server: the heartbeat loop (sendUpstream and    *)
(* pushHistoryOnce), and SaveSettings, which changes the address, drops the *)
(* worker key of the previous server and restarts the loop (startUpstream,  *)
(* stopUpstream).  upstream.mu guards single reads and writes only, so the  *)
(* steps of the loop and of SaveSettings interleave.                        *)
(*                                                                          *)
(* A worker key, a set of figures and an address are all named by the       *)
(* server they belong to.                                                   *)
(***************************************************************************)
EXTENDS Integers

CONSTANTS
  Servers,   \* the CashPilot servers a user may pair with
  NoServer,  \* "": standalone, no key, no figures, nothing pushed
  Loops,     \* the loop goroutines
  NoLoop,
  Savers,    \* SaveSettings calls that may be in flight together
  Batches    \* the number of import requests the history takes

Maybe == Servers \cup {NoServer}

ASSUME ServerAssumption == NoServer \notin Servers /\ NoLoop \notin Loops
ASSUME BatchAssumption == Batches \in Nat

VARIABLES
  url,          \* cfg.UpstreamURL
  marker,       \* cfg.UpstreamHistoryPushedTo
  diskKey,      \* the stored worker key
  memKey,       \* upstream.workerKey
  figures,      \* upstream.fleetEarnings
  unsupported,  \* upstream.historyUnsupported
  handle,       \* upstream.cancel and upstream.done
  loop,         \* the loops
  save,         \* the SaveSettings calls
  handed,       \* the batches each server has accepted
  enrolled      \* the servers at which this machine has proved its own key

vars == <<url, marker, diskKey, memKey, figures, unsupported, handle, loop, save, handed, enrolled>>
pairing == <<url, marker, diskKey, memKey, figures, unsupported, handle>>

Gone == [pc |-> "gone", url |-> NoServer, key |-> NoServer, reply |-> NoServer,
         figs |-> FALSE, n |-> 0, cancelled |-> FALSE]
Unsaved == [pc |-> "idle", new |-> NoServer, takes |-> NoLoop, key |-> NoServer]

Init ==
  /\ url = NoServer /\ marker = NoServer
  /\ diskKey = NoServer /\ memKey = NoServer
  /\ figures = NoServer /\ unsupported = FALSE
  /\ handle = NoLoop
  /\ loop = [l \in Loops |-> Gone]
  /\ save = [s \in Savers |-> Unsaved]
  /\ handed = [u \in Servers |-> {}]
  /\ enrolled = {}

At(l, pc)   == loop[l].pc = pc
Goto(l, pc) == loop' = [loop EXCEPT ![l].pc = pc]
In(s, pc)   == save[s].pc = pc
Then(s, pc) == save' = [save EXCEPT ![s].pc = pc]

----------------------------------------------------------------------------
(* sendUpstream.                                                           *)

ReadKey(l) ==
  /\ At(l, "read")
  /\ loop' = [loop EXCEPT ![l].key = memKey, ![l].pc = "send"]
  /\ UNCHANGED <<pairing, save, handed, enrolled>>

\* The server answers: it issues a key to a machine that presents the enrolment key,
\* and does so again until that machine has proved it received one by presenting it;
\* from then on it refuses the enrolment key.  The figures may be absent.
Send(l) ==
  /\ At(l, "send")
  /\ \/ loop[l].key = NoServer /\ loop[l].url \notin enrolled
     \/ loop[l].key = loop[l].url
  /\ enrolled' = enrolled \cup ({loop[l].key} \ {NoServer})
  /\ \E f \in BOOLEAN :
       loop' = [loop EXCEPT ![l].figs = f,
                  ![l].reply = IF loop[l].key = NoServer THEN loop[l].url ELSE NoServer,
                  ![l].pc = IF loop[l].key = NoServer THEN "persist" ELSE "figures"]
  /\ UNCHANGED <<pairing, save, handed>>

\* It does not: unreachable, cancelled, or it refuses the key; or it took the key and
\* its answer is lost.
SendFails(l) ==
  /\ At(l, "send")
  /\ Goto(l, "select")
  /\ \/ UNCHANGED enrolled
     \/ loop[l].key = loop[l].url /\ enrolled' = enrolled \cup {loop[l].url}
  /\ UNCHANGED <<pairing, save, handed>>

\* SetUpstreamWorkerKey, which may fail, then the cached copy.  The context is not
\* looked at again once the answer is there.
PersistKey(l) ==
  /\ At(l, "persist")
  /\ \/ diskKey' = loop[l].reply /\ Goto(l, "remember")
     \/ Goto(l, "select") /\ UNCHANGED diskKey
  /\ UNCHANGED <<url, marker, memKey, figures, unsupported, handle, save, handed, enrolled>>

RememberKey(l) ==
  /\ At(l, "remember")
  /\ memKey' = loop[l].reply
  /\ Goto(l, "figures")
  /\ UNCHANGED <<url, marker, diskKey, figures, unsupported, handle, save, handed, enrolled>>

\* Mutant: the server is expected to echo the key.
ConfirmedOnEcho(l) == loop[l].key # NoServer /\ loop[l].reply = loop[l].key

Confirmed(l) == loop[l].key # NoServer /\ loop[l].reply = NoServer

\* An absent block leaves the previous figures alone.
StoreFigures(l) ==
  /\ At(l, "figures")
  /\ figures' = IF loop[l].figs THEN loop[l].url ELSE figures
  /\ Goto(l, IF Confirmed(l) THEN "history" ELSE "select")
  /\ UNCHANGED <<url, marker, diskKey, memKey, unsupported, handle, save, handed, enrolled>>

----------------------------------------------------------------------------
(* pushHistoryOnce.                                                        *)

StartHistory(l) ==
  /\ At(l, "history")
  /\ IF marker = loop[l].url \/ unsupported THEN Goto(l, "select")
     ELSE loop' = [loop EXCEPT ![l].pc = "push", ![l].n = 0]
  /\ UNCHANGED <<pairing, save, handed, enrolled>>

\* Mutant: a batch that fails is passed over.
PushBatchAnyway(l) ==
  /\ At(l, "push")
  /\ loop[l].n < Batches
  /\ loop' = [loop EXCEPT ![l].n = @ + 1]
  /\ \/ handed' = [handed EXCEPT ![loop[l].url] = @ \cup {loop[l].n + 1}]
     \/ UNCHANGED handed
  /\ UNCHANGED <<pairing, save, enrolled>>

PushBatch(l) ==
  /\ At(l, "push")
  /\ loop[l].n < Batches
  /\ handed' = [handed EXCEPT ![loop[l].url] = @ \cup {loop[l].n + 1}]
  /\ loop' = [loop EXCEPT ![l].n = @ + 1]
  /\ UNCHANGED <<pairing, save, enrolled>>

\* A batch that fails ends the push; one that reached the server and whose answer was
\* lost fails too; a server without the endpoint is not asked again.
PushFails(l) ==
  /\ At(l, "push")
  /\ loop[l].n < Batches
  /\ Goto(l, "select")
  /\ \/ UNCHANGED <<unsupported, handed>>
     \/ unsupported' = TRUE /\ UNCHANGED handed
     \/ /\ handed' = [handed EXCEPT ![loop[l].url] = @ \cup {loop[l].n + 1}]
        /\ UNCHANGED unsupported
  /\ UNCHANGED <<url, marker, diskKey, memKey, figures, handle, save, enrolled>>

\* cfg.Update, or its failure.
MarkPushed(l) ==
  /\ At(l, "push")
  /\ loop[l].n = Batches
  /\ \/ marker' = loop[l].url \/ UNCHANGED marker
  /\ Goto(l, "select")
  /\ UNCHANGED <<url, diskKey, memKey, figures, unsupported, handle, save, handed, enrolled>>

Tick(l) ==
  /\ At(l, "select")
  /\ Goto(l, "read")
  /\ UNCHANGED <<pairing, save, handed, enrolled>>

Exit(l) ==
  /\ At(l, "select")
  /\ loop[l].cancelled
  /\ loop' = [loop EXCEPT ![l] = Gone]
  /\ UNCHANGED <<pairing, save, handed, enrolled>>

----------------------------------------------------------------------------
(* SaveSettings, as far as it concerns the pairing.                        *)

\* The form is compared with a snapshot of the config.
BeginSave(s, new) ==
  /\ In(s, "idle")
  /\ save' = [save EXCEPT ![s].new = new, ![s].pc = IF new # url THEN "cleardisk" ELSE "update"]
  /\ UNCHANGED <<pairing, loop, handed, enrolled>>

ClearStoredKey(s) ==
  /\ In(s, "cleardisk")
  /\ diskKey' = NoServer
  /\ Then(s, "clearmem")
  /\ UNCHANGED <<url, marker, memKey, figures, unsupported, handle, loop, handed, enrolled>>

ClearCachedKey(s) ==
  /\ In(s, "clearmem")
  /\ memKey' = NoServer
  /\ Then(s, "update")
  /\ UNCHANGED <<url, marker, diskKey, figures, unsupported, handle, loop, handed, enrolled>>

UpdateConfig(s) ==
  /\ In(s, "update")
  /\ url' = save[s].new
  /\ Then(s, "stop")
  /\ UNCHANGED <<marker, diskKey, memKey, figures, unsupported, handle, loop, handed, enrolled>>

\* Clearing the key, or writing the config, fails: the binding returns the error.
SaveFails(s) ==
  /\ save[s].pc \in {"cleardisk", "update"}
  /\ save' = [save EXCEPT ![s] = Unsaved]
  /\ UNCHANGED <<pairing, loop, handed, enrolled>>

\* stopUpstream takes the handle and cancels the loop,
TakeLoop(s) ==
  /\ In(s, "stop")
  /\ save' = [save EXCEPT ![s].takes = handle, ![s].pc = "join"]
  /\ handle' = NoLoop
  /\ loop' = IF handle = NoLoop THEN loop ELSE [loop EXCEPT ![handle].cancelled = TRUE]
  /\ UNCHANGED <<url, marker, diskKey, memKey, figures, unsupported, handed, enrolled>>

\* Mutant: the figures are not dropped.
KeepFigures(s) ==
  /\ In(s, "join")
  /\ save[s].takes # NoLoop => At(save[s].takes, "gone")
  /\ unsupported' = FALSE
  /\ save' = [save EXCEPT ![s].pc = "boot", ![s].takes = NoLoop]
  /\ UNCHANGED <<url, marker, diskKey, memKey, figures, handle, loop, handed, enrolled>>

\* waits for it, and only then drops what it caches.
DropFigures(s) ==
  /\ In(s, "join")
  /\ save[s].takes # NoLoop => At(save[s].takes, "gone")
  /\ figures' = NoServer
  /\ unsupported' = FALSE
  /\ save' = [save EXCEPT ![s].pc = "boot", ![s].takes = NoLoop]
  /\ UNCHANGED <<url, marker, diskKey, memKey, handle, loop, handed, enrolled>>

\* startUpstream reads the config and the stored key; standalone, or a key store that
\* cannot be read, is the end of it.
ReadPairing(s) ==
  /\ In(s, "boot")
  /\ \/ /\ url # NoServer
        /\ save' = [save EXCEPT ![s].new = url, ![s].pc = "key"]
     \/ save' = [save EXCEPT ![s] = Unsaved]
  /\ UNCHANGED <<pairing, loop, handed, enrolled>>

ReadStoredKey(s) ==
  /\ In(s, "key")
  /\ save' = [save EXCEPT ![s].key = diskKey, ![s].pc = "launch"]
  /\ UNCHANGED <<pairing, loop, handed, enrolled>>

Launch(s, l) ==
  /\ In(s, "launch")
  /\ At(l, "gone") /\ \A t \in Savers : save[t].takes # l
  /\ handle' = l
  /\ memKey' = save[s].key
  /\ loop' = [loop EXCEPT ![l] = [Gone EXCEPT !.pc = "read", !.url = save[s].new]]
  /\ save' = [save EXCEPT ![s] = Unsaved]
  /\ UNCHANGED <<url, marker, diskKey, figures, unsupported, handed, enrolled>>

----------------------------------------------------------------------------
Beat(l) ==
  \/ ReadKey(l) \/ Send(l) \/ SendFails(l) \/ PersistKey(l) \/ RememberKey(l) \/ StoreFigures(l)
  \/ StartHistory(l) \/ PushBatch(l) \/ PushFails(l) \/ MarkPushed(l)

SaveStep(s) ==
  \/ ClearStoredKey(s) \/ ClearCachedKey(s) \/ UpdateConfig(s) \/ SaveFails(s)
  \/ TakeLoop(s) \/ DropFigures(s) \/ ReadPairing(s) \/ ReadStoredKey(s)
  \/ \E l \in Loops : Launch(s, l)

Next ==
  \/ \E l \in Loops : Beat(l) \/ Tick(l) \/ Exit(l)
  \/ \E s \in Savers : SaveStep(s) \/ \E new \in Maybe : BeginSave(s, new)

Spec == Init /\ [][Next]_vars

\* Requests end, the ticker ticks, SaveSettings returns; a heartbeat or a batch that is
\* sent again and again is answered in the end, and the loop's select finds the
\* context done.
Fairness ==
  /\ \A l \in Loops :
       /\ WF_vars(Beat(l)) /\ WF_vars(Tick(l) \/ Exit(l)) /\ SF_vars(Exit(l))
       /\ SF_vars(Send(l)) /\ SF_vars(PersistKey(l) /\ loop'[l].pc = "remember")
       /\ \A n \in 0..Batches : SF_vars(PushBatch(l) /\ loop[l].n = n)
       /\ SF_vars(MarkPushed(l) /\ marker' = loop[l].url)
  /\ \A s \in Savers : WF_vars(SaveStep(s))

FairSpec == Spec /\ Fairness

----------------------------------------------------------------------------
(* Properties.                                                             *)

LoopTypes == [pc : {"gone", "read", "send", "persist", "remember", "figures", "history", "push", "select"},
              url : Maybe, key : Maybe, reply : Maybe, figs : BOOLEAN, n : 0..Batches,
              cancelled : BOOLEAN]
SaveTypes == [pc : {"idle", "cleardisk", "clearmem", "update", "stop", "join", "boot", "key", "launch"},
              new : Maybe, takes : Loops \cup {NoLoop}, key : Maybe]

\* The types of the pairing, the loops and the saves.
TypeOK ==
  /\ url \in Maybe /\ marker \in Maybe /\ diskKey \in Maybe /\ memKey \in Maybe
  /\ figures \in Maybe
  /\ unsupported \in BOOLEAN
  /\ handle \in Loops \cup {NoLoop}
  /\ loop \in [Loops -> LoopTypes]
  /\ save \in [Savers -> SaveTypes]
  /\ handed \in [Servers -> SUBSET (1..Batches)]
  /\ enrolled \subseteq Servers

Live(l) == ~At(l, "gone")

\* No loop escapes being stopped: one that still runs is the one the app holds the
\* handle of, or one that a restart has taken, cancelled and waits for.
NoForgottenLoop ==
  \A l \in Loops : Live(l) =>
    handle = l \/ \E s \in Savers : save[s].takes = l /\ loop[l].cancelled

\* The figures of one server are never those a loop of another server runs with.
FiguresOfPairing == handle # NoLoop /\ figures # NoServer => figures = loop[handle].url

\* One loop, and what is shown is what that one found.
OnePairing == NoForgottenLoop /\ FiguresOfPairing

\* The history is marked as handed over to a server only when that server has
\* accepted every batch of it, whatever was retried, lost or interrupted.
MarkedIsHanded == marker # NoServer => handed[marker] = 1..Batches

\* Seen as HistoryHandover's, the batches that arrived and the marker follow it: oldest
\* first, none lost, and a server marked only when it has accepted them all, with
\* batches repeated, answers lost and loops replaced underneath.
Handover == INSTANCE HistoryHandover WITH accepted <- handed, done <- marker
HandsOver == Handover!Spec

\* False of the code (README): what fleetView puts under the configured address came
\* from that address.
ShownUnderItsName == url # NoServer /\ figures # NoServer => figures = url

\* The loop presents to a server the key which that server issued, or none.
KeyOfServer == \A l \in Loops : At(l, "send") => loop[l].key \in {NoServer, loop[l].url}

\* A pairing with server u that is left alone, with no other server's key in its hands
\* and one to prove or still to be issued.
LeftAlone(u, key) ==
  /\ url = u /\ memKey = key
  /\ key = NoServer => u \notin enrolled
  /\ \A s \in Savers : In(s, "idle")

\* A pairing that is left alone has its history handed over in the end, whatever is
\* refused, lost or repeated on the way, unless the server cannot take it.
HistoryArrives ==
  \A u \in Servers :
    <>[](\E key \in {NoServer, u} : LeftAlone(u, key)) /\ []<>(handle # NoLoop)
      => <>(marker = u \/ unsupported)

\* False of the code (README): so has one that returns to a server it was paired with.
ReturnArrives ==
  \A u \in Servers :
    <>[](url = u /\ memKey \in {NoServer, u} /\ \A s \in Savers : In(s, "idle"))
      /\ []<>(handle # NoLoop)
      => <>(marker = u \/ unsupported)
=============================================================================
