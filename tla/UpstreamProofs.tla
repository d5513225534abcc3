--------------------------- MODULE UpstreamProofs ---------------------------
(***************************************************************************)
(* The history marker is honest for any number of servers, loops, settings  *)
(* saves in flight and batches, and the loops implement HistoryHandover.    *)
(***************************************************************************)
EXTENDS Upstream, TLAPS

\* A loop that runs, and a save that is about to start one, has an address.
HasServer ==
  /\ \A l \in Loops : loop[l].pc # "gone" => loop[l].url \in Servers
  /\ \A s \in Savers : save[s].pc \in {"key", "launch"} => save[s].new \in Servers

\* A push that has come to batch n has had the batches before it accepted.
PushedSoFar ==
  \A l \in Loops : loop[l].pc = "push" => 1..loop[l].n \subseteq handed[loop[l].url]

PairInv == TypeOK /\ HasServer /\ PushedSoFar /\ MarkedIsHanded

\* Loops and saves start with well-typed records.
LEMMA Fresh == Gone \in LoopTypes /\ Unsaved \in SaveTypes
  BY BatchAssumption DEF Gone, Unsaved, LoopTypes, SaveTypes, Maybe

\* At the start the machine is standalone.
LEMMA PairInit == Init => PairInv
<1> SUFFICES ASSUME Init PROVE PairInv
  OBVIOUS
<1>1. TypeOK BY Fresh DEF Init, TypeOK, Maybe
<1>2. HasServer /\ PushedSoFar BY DEF Init, HasServer, PushedSoFar, Gone, Unsaved
<1>3. MarkedIsHanded BY DEF Init, MarkedIsHanded
<1> QED BY <1>1, <1>2, <1>3 DEF PairInv

\* A loop's steps keep the types.
LEMMA BeatTypes ==
  ASSUME TypeOK, HasServer, NEW l \in Loops, Beat(l) \/ Tick(l) \/ Exit(l)
  PROVE  TypeOK'
<1> USE DEF TypeOK, LoopTypes, At, Goto, pairing
<1>1. CASE ReadKey(l) BY <1>1 DEF ReadKey
<1>2. CASE Send(l)
  <2>1. \E f \in BOOLEAN, r \in Maybe, p \in {"persist", "figures"} :
          loop' = [loop EXCEPT ![l].figs = f, ![l].reply = r, ![l].pc = p]
    BY <1>2 DEF Send, Maybe
  <2>2. PICK f \in BOOLEAN, r \in Maybe, p \in {"persist", "figures"} :
          loop' = [loop EXCEPT ![l].figs = f, ![l].reply = r, ![l].pc = p]
    BY <2>1
  <2>3. loop' \in [Loops -> LoopTypes]
    <3> DEFINE new == [loop[l] EXCEPT !.figs = f, !.reply = r, !.pc = p]
    <3>1. loop[l] \in LoopTypes OBVIOUS
    <3>2. [loop[l] EXCEPT !.reply = r, !.pc = p] \in LoopTypes BY <3>1
    <3>3. new \in LoopTypes BY <3>1, <3>2, Zenon
    <3>4. loop' = [loop EXCEPT ![l] = new] BY <2>2
    <3> HIDE DEF new
    <3> QED BY <3>3, <3>4
  <2>4. enrolled' \subseteq Servers
    <3>1. loop[l].key \in Maybe OBVIOUS
    <3> QED BY <1>2, <3>1 DEF Send, Maybe
  <2> QED BY <1>2, <2>3, <2>4 DEF Send
<1>3. CASE SendFails(l)
  <2>1. loop' \in [Loops -> LoopTypes] BY <1>3 DEF SendFails
  <2>2. enrolled' \subseteq Servers BY <1>3 DEF SendFails, HasServer
  <2> QED BY <1>3, <2>1, <2>2 DEF SendFails
<1>4. CASE PersistKey(l) BY <1>4 DEF PersistKey
<1>5. CASE RememberKey(l) BY <1>5 DEF RememberKey
<1>6. CASE StoreFigures(l) BY <1>6 DEF StoreFigures
<1>7. CASE StartHistory(l)
  <2>1. loop' \in [Loops -> LoopTypes] BY <1>7, BatchAssumption DEF StartHistory
  <2> QED BY <1>7, <2>1 DEF StartHistory
<1>8. CASE PushBatch(l)
  <2>1. loop' \in [Loops -> LoopTypes] BY <1>8, BatchAssumption DEF PushBatch
  <2>2. handed' \in [Servers -> SUBSET (1..Batches)]
    <3>1. loop[l].n \in 0..Batches /\ loop[l].n < Batches BY <1>8 DEF PushBatch
    <3>2. loop[l].n + 1 \in 1..Batches BY <3>1, BatchAssumption
    <3> QED BY <1>8, <3>2 DEF PushBatch
  <2> QED BY <1>8, <2>1, <2>2 DEF PushBatch
<1>9. CASE PushFails(l)
  <2>1. loop' \in [Loops -> LoopTypes] BY <1>9 DEF PushFails
  <2>2. handed' \in [Servers -> SUBSET (1..Batches)] BY <1>9, BatchAssumption DEF PushFails
  <2>3. unsupported' \in BOOLEAN BY <1>9 DEF PushFails
  <2> QED BY <1>9, <2>1, <2>2, <2>3 DEF PushFails
<1>10. CASE MarkPushed(l) BY <1>10 DEF MarkPushed
<1>11. CASE Tick(l) BY <1>11 DEF Tick
<1>12. CASE Exit(l) BY <1>12, Fresh DEF Exit
<1> QED BY <1>1, <1>2, <1>3, <1>4, <1>5, <1>6, <1>7, <1>8, <1>9, <1>10, <1>11, <1>12 DEF Beat

\* What a beat does to the loops: only the one that beats moves, and it keeps its
\* address until it is gone.
LEMMA BeatFrame ==
  ASSUME TypeOK, NEW l \in Loops, Beat(l) \/ Tick(l) \/ Exit(l)
  PROVE  /\ save' = save
         /\ \A m \in Loops : m # l => loop'[m] = loop[m]
         /\ loop[l].pc # "gone"
         /\ loop'[l].pc # "gone" => loop'[l].url = loop[l].url
<1> USE DEF TypeOK, LoopTypes, At, Goto
<1>1. CASE ReadKey(l) BY <1>1 DEF ReadKey
<1>2. CASE Send(l) BY <1>2 DEF Send
<1>3. CASE SendFails(l) BY <1>3 DEF SendFails
<1>4. CASE PersistKey(l) BY <1>4 DEF PersistKey
<1>5. CASE RememberKey(l) BY <1>5 DEF RememberKey
<1>6. CASE StoreFigures(l) BY <1>6 DEF StoreFigures
<1>7. CASE StartHistory(l) BY <1>7 DEF StartHistory
<1>8. CASE PushBatch(l) BY <1>8 DEF PushBatch
<1>9. CASE PushFails(l) BY <1>9 DEF PushFails
<1>10. CASE MarkPushed(l) BY <1>10 DEF MarkPushed
<1>11. CASE Tick(l) BY <1>11 DEF Tick
<1>12. CASE Exit(l) BY <1>12 DEF Exit, Gone
<1> QED BY <1>1, <1>2, <1>3, <1>4, <1>5, <1>6, <1>7, <1>8, <1>9, <1>10, <1>11, <1>12 DEF Beat

\* What a beat does to the history: a server is handed batches and never loses one, the
\* push that goes on is one batch further, and only a push that is through is marked.
LEMMA BeatPushes ==
  ASSUME TypeOK, HasServer, NEW l \in Loops, Beat(l) \/ Tick(l) \/ Exit(l)
  PROVE  /\ \A u \in Servers : handed[u] \subseteq handed'[u]
         /\ loop'[l].pc = "push" =>
              \/ loop'[l].n = 0
              \/ /\ loop[l].pc = "push" /\ loop'[l].n = loop[l].n + 1
                 /\ loop'[l].n \in handed'[loop[l].url]
         /\ marker' # marker => /\ loop[l].pc = "push" /\ loop[l].n = Batches
                                /\ marker' = loop[l].url /\ handed' = handed
<1> USE DEF TypeOK, LoopTypes, At, Goto, pairing
<1>1. CASE ReadKey(l) BY <1>1 DEF ReadKey
<1>2. CASE Send(l) BY <1>2 DEF Send
<1>3. CASE SendFails(l) BY <1>3 DEF SendFails
<1>4. CASE PersistKey(l) BY <1>4 DEF PersistKey
<1>5. CASE RememberKey(l) BY <1>5 DEF RememberKey
<1>6. CASE StoreFigures(l) BY <1>6 DEF StoreFigures
<1>7. CASE StartHistory(l) BY <1>7 DEF StartHistory
<1>8. CASE PushBatch(l)
  <2>1. loop[l].url \in Servers BY <1>8 DEF PushBatch, HasServer
  <2>2. handed' = [handed EXCEPT ![loop[l].url] = @ \cup {loop[l].n + 1}] BY <1>8 DEF PushBatch
  <2>3. /\ \A u \in Servers : handed[u] \subseteq handed'[u]
        /\ loop[l].n + 1 \in handed'[loop[l].url]
    BY <2>1, <2>2
  <2>4. loop'[l].n = loop[l].n + 1 /\ loop[l].pc = "push" BY <1>8 DEF PushBatch
  <2> QED BY <1>8, <2>3, <2>4 DEF PushBatch
<1>9. CASE PushFails(l)
  <2>1. \A u \in Servers : handed[u] \subseteq handed'[u] BY <1>9 DEF PushFails
  <2>2. loop'[l].pc = "select" /\ marker' = marker BY <1>9 DEF PushFails
  <2> QED BY <2>1, <2>2
<1>10. CASE MarkPushed(l) BY <1>10 DEF MarkPushed
<1>11. CASE Tick(l) BY <1>11 DEF Tick
<1>12. CASE Exit(l) BY <1>12 DEF Exit, Gone
<1> QED BY <1>1, <1>2, <1>3, <1>4, <1>5, <1>6, <1>7, <1>8, <1>9, <1>10, <1>11, <1>12 DEF Beat

\* So a loop's steps keep the invariant.
LEMMA BeatKeeps ==
  ASSUME PairInv, NEW l \in Loops, Beat(l) \/ Tick(l) \/ Exit(l)
  PROVE  PairInv'
<1> USE DEF PairInv
<1>1. TypeOK' BY BeatTypes
<1>2. /\ save' = save
      /\ \A m \in Loops : m # l => loop'[m] = loop[m]
      /\ loop[l].pc # "gone"
      /\ loop'[l].pc # "gone" => loop'[l].url = loop[l].url
  BY BeatFrame
<1>3. HasServer' BY <1>2 DEF HasServer
<1>4. /\ \A u \in Servers : handed[u] \subseteq handed'[u]
      /\ loop'[l].pc = "push" =>
           \/ loop'[l].n = 0
           \/ /\ loop[l].pc = "push" /\ loop'[l].n = loop[l].n + 1
              /\ loop'[l].n \in handed'[loop[l].url]
      /\ marker' # marker => /\ loop[l].pc = "push" /\ loop[l].n = Batches
                             /\ marker' = loop[l].url /\ handed' = handed
  BY BeatPushes
<1>5. PushedSoFar'
  <2> SUFFICES ASSUME NEW m \in Loops, loop'[m].pc = "push", NEW i \in 1..loop'[m].n
               PROVE  i \in handed'[loop'[m].url]
    BY DEF PushedSoFar
  <2>1. CASE m # l
    <3>1. loop'[m] = loop[m] /\ loop[m].url \in Servers BY <1>2, <2>1 DEF HasServer
    <3>2. i \in handed[loop[m].url] BY <3>1 DEF PushedSoFar
    <3> QED BY <1>4, <3>1, <3>2
  <2>2. CASE m = l
    <3>1. loop[l].url \in Servers /\ loop'[l].url = loop[l].url BY <1>2, <2>2 DEF HasServer
    <3>2. loop[l].n \in Nat BY BatchAssumption DEF TypeOK, LoopTypes
    <3>3. /\ loop[l].pc = "push" /\ loop'[l].n = loop[l].n + 1
          /\ loop'[l].n \in handed'[loop[l].url]
      BY <1>4, <2>2
    <3>4. i \in 1..loop[l].n => i \in handed[loop[l].url] BY <3>3 DEF PushedSoFar
    <3>5. i \in 1..loop[l].n \/ i = loop'[l].n BY <2>2, <3>2, <3>3
    <3> QED BY <1>4, <2>2, <3>1, <3>3, <3>4, <3>5
  <2> QED BY <2>1, <2>2
<1>6. MarkedIsHanded'
  <2> SUFFICES ASSUME marker' # NoServer PROVE handed'[marker'] = 1..Batches
    BY DEF MarkedIsHanded
  <2>1. marker' \in Servers /\ handed'[marker'] \subseteq 1..Batches
    BY <1>1 DEF TypeOK, Maybe
  <2>2. CASE marker' = marker BY <1>4, <2>1, <2>2 DEF MarkedIsHanded
  <2>3. CASE marker' # marker
    <3>1. 1..Batches \subseteq handed[marker'] BY <1>4, <2>3 DEF PushedSoFar
    <3> QED BY <1>4, <2>1, <2>3, <3>1
  <2> QED BY <2>2, <2>3
<1> QED BY <1>1, <1>3, <1>5, <1>6

\* The steps of a save keep the types.
LEMMA SaveTypesKept ==
  ASSUME TypeOK, NEW s \in Savers, SaveStep(s) \/ \E new \in Maybe : BeginSave(s, new)
  PROVE  TypeOK'
<1> USE DEF TypeOK, SaveTypes, In, Then, pairing
<1>1. CASE ClearStoredKey(s) BY ZenonT(60), <1>1 DEF ClearStoredKey, Maybe
<1>2. CASE ClearCachedKey(s) BY ZenonT(60), <1>2 DEF ClearCachedKey, Maybe
<1>3. CASE UpdateConfig(s) BY <1>3 DEF UpdateConfig
<1>4. CASE SaveFails(s) BY <1>4, Fresh DEF SaveFails
<1>5. CASE TakeLoop(s)
  <2>1. loop' \in [Loops -> LoopTypes] BY <1>5 DEF TakeLoop, LoopTypes
  <2> QED BY <1>5, <2>1 DEF TakeLoop
<1>6. CASE DropFigures(s) BY ZenonT(60), <1>6 DEF DropFigures, Maybe
<1>7. CASE ReadPairing(s) BY <1>7, Fresh DEF ReadPairing
<1>8. CASE ReadStoredKey(s) BY <1>8 DEF ReadStoredKey
<1>9. ASSUME NEW l \in Loops, Launch(s, l) PROVE TypeOK'
  <2>1. [Gone EXCEPT !.pc = "read", !.url = save[s].new] \in LoopTypes
    BY Fresh DEF LoopTypes
  <2>2. loop' \in [Loops -> LoopTypes] BY <1>9, <2>1 DEF Launch
  <2>3. save' \in [Savers -> SaveTypes] BY <1>9, Fresh DEF Launch
  <2>4. handle' \in Loops \cup {NoLoop} /\ memKey' \in Maybe BY <1>9 DEF Launch
  <2> QED BY <1>9, <2>2, <2>3, <2>4 DEF Launch
<1>10. ASSUME NEW new \in Maybe, BeginSave(s, new) PROVE TypeOK'
  <2>1. PICK p \in {"cleardisk", "update"} : save' = [save EXCEPT ![s].new = new, ![s].pc = p]
    BY <1>10 DEF BeginSave
  <2>2. save' \in [Savers -> SaveTypes] BY ZenonT(60), <2>1
  <2> QED BY <1>10, <2>2 DEF BeginSave
<1> QED BY <1>1, <1>2, <1>3, <1>4, <1>5, <1>6, <1>7, <1>8, <1>9, <1>10 DEF SaveStep

\* What a save does to the loops: it cancels one, or starts one with the address it read,
\* and it writes neither the marker nor what was handed over.
LEMMA SaveFrame ==
  ASSUME TypeOK, HasServer, NEW s \in Savers, SaveStep(s) \/ \E new \in Maybe : BeginSave(s, new)
  PROVE  /\ marker' = marker /\ handed' = handed
         /\ \A t \in Savers : t # s => save'[t] = save[t]
         /\ save'[s].pc \in {"key", "launch"} => save'[s].new \in Servers
         /\ \A m \in Loops :
              \/ /\ loop'[m].pc = loop[m].pc /\ loop'[m].url = loop[m].url
                 /\ loop'[m].n = loop[m].n
              \/ loop'[m].pc = "read" /\ loop'[m].url \in Servers
<1> USE DEF TypeOK, SaveTypes, In, Then, pairing
<1>1. CASE ClearStoredKey(s) BY <1>1 DEF ClearStoredKey
<1>2. CASE ClearCachedKey(s) BY <1>2 DEF ClearCachedKey
<1>3. CASE UpdateConfig(s) BY <1>3 DEF UpdateConfig
<1>4. CASE SaveFails(s) BY <1>4 DEF SaveFails, Unsaved
<1>5. CASE TakeLoop(s) BY <1>5 DEF TakeLoop, LoopTypes
<1>6. CASE DropFigures(s) BY <1>6 DEF DropFigures
<1>7. CASE ReadPairing(s) BY <1>7 DEF ReadPairing, Unsaved, Maybe
<1>8. CASE ReadStoredKey(s)
  <2>1. save[s].pc = "boot" \/ save[s].pc = "key" BY <1>8 DEF ReadStoredKey
  <2> QED BY <1>8, <2>1 DEF ReadStoredKey, HasServer
<1>9. ASSUME NEW l \in Loops, Launch(s, l)
      PROVE  /\ marker' = marker /\ handed' = handed
             /\ \A t \in Savers : t # s => save'[t] = save[t]
             /\ save'[s].pc \in {"key", "launch"} => save'[s].new \in Servers
             /\ \A m \in Loops : loop'[m] = loop[m] \/ (loop'[m].pc = "read" /\ loop'[m].url \in Servers)
  <2>1. save[s].new \in Servers BY <1>9 DEF Launch, HasServer
  <2>2. save' = [save EXCEPT ![s] = Unsaved] BY <1>9 DEF Launch
  <2>3. /\ \A t \in Savers : t # s => save'[t] = save[t]
        /\ save'[s].pc \notin {"key", "launch"}
    BY <2>2 DEF Unsaved
  <2>4. loop' = [loop EXCEPT ![l] = [Gone EXCEPT !.pc = "read", !.url = save[s].new]]
    BY <1>9 DEF Launch
  <2>5. loop'[l].pc = "read" /\ loop'[l].url = save[s].new BY <2>4 DEF Gone
  <2>6. \A m \in Loops : m # l => loop'[m] = loop[m] BY <2>4
  <2>7. marker' = marker /\ handed' = handed BY <1>9 DEF Launch
  <2>8. \A m \in Loops : loop'[m] = loop[m] \/ (loop'[m].pc = "read" /\ loop'[m].url \in Servers)
    <3> SUFFICES ASSUME NEW m \in Loops
                 PROVE  loop'[m] = loop[m] \/ (loop'[m].pc = "read" /\ loop'[m].url \in Servers)
      OBVIOUS
    <3>1. CASE m = l BY <2>1, <2>5, <3>1
    <3>2. CASE m # l BY <2>6, <3>2
    <3> QED BY <3>1, <3>2
  <2> QED BY <2>3, <2>7, <2>8
<1>10. CASE \E new \in Maybe : BeginSave(s, new)
  <2>1. PICK new \in Maybe : BeginSave(s, new) BY <1>10
  <2>2. save'[s].pc \notin {"key", "launch"} BY ZenonT(60), <2>1 DEF BeginSave
  <2> QED BY <2>1, <2>2 DEF BeginSave
<1> QED BY <1>1, <1>2, <1>3, <1>4, <1>5, <1>6, <1>7, <1>8, <1>9, <1>10 DEF SaveStep

\* So the steps of a save keep the invariant.
LEMMA SaveKeeps ==
  ASSUME PairInv, NEW s \in Savers, SaveStep(s) \/ \E new \in Maybe : BeginSave(s, new)
  PROVE  PairInv'
<1> USE DEF PairInv
<1>1. TypeOK' BY SaveTypesKept
<1>2. /\ marker' = marker /\ handed' = handed
      /\ \A t \in Savers : t # s => save'[t] = save[t]
      /\ save'[s].pc \in {"key", "launch"} => save'[s].new \in Servers
      /\ \A m \in Loops :
           \/ /\ loop'[m].pc = loop[m].pc /\ loop'[m].url = loop[m].url
              /\ loop'[m].n = loop[m].n
           \/ loop'[m].pc = "read" /\ loop'[m].url \in Servers
  BY SaveFrame
<1>3. HasServer' BY <1>2 DEF HasServer
<1>4. PushedSoFar' BY <1>2 DEF PushedSoFar
<1>5. MarkedIsHanded' BY <1>2 DEF MarkedIsHanded
<1> QED BY <1>1, <1>3, <1>4, <1>5

\* The invariant is inductive.
LEMMA PairStep == PairInv /\ [Next]_vars => PairInv'
<1> SUFFICES ASSUME PairInv, [Next]_vars PROVE PairInv'
  OBVIOUS
<1>1. CASE UNCHANGED vars
  BY <1>1 DEF vars, PairInv, TypeOK, HasServer, PushedSoFar, MarkedIsHanded
<1>2. CASE Next BY <1>2, BeatKeeps, SaveKeeps DEF Next
<1> QED BY <1>1, <1>2

\* The pairing, the loops and the saves keep their types.
THEOREM UpstreamTypes == Spec => []TypeOK
<1>1. PairInv => TypeOK BY DEF PairInv
<1> QED BY <1>1, PairInit, PairStep, PTL DEF Spec

\* A server is recorded as having the history only when it has accepted all of it.
THEOREM MarkerHonest == Spec => []MarkedIsHanded
<1>1. PairInv => MarkedIsHanded BY DEF PairInv
<1> QED BY <1>1, PairInit, PairStep, PTL DEF Spec

\* What a beat does to the history is a step of the handover, or none: batch n + 1 goes
\* to a server that has the n before it, and the marker is set when there is no other.
LEMMA BeatHandsOver ==
  ASSUME PairInv, PairInv', NEW l \in Loops, Beat(l) \/ Tick(l) \/ Exit(l)
  PROVE  [Handover!Next]_<<handed, marker>>
<1> USE DEF PairInv, At, Goto, pairing
<1>1. ASSUME loop[l].pc = "push", loop[l].n < Batches, marker' = marker,
             handed' = [handed EXCEPT ![loop[l].url] = @ \cup {loop[l].n + 1}]
      PROVE  Handover!Next
  <2>1. loop[l].url \in Servers BY <1>1 DEF HasServer
  <2>2. loop[l].n \in Nat BY BatchAssumption DEF TypeOK, LoopTypes
  <2>3. loop[l].n + 1 \in 1..Batches /\ (loop[l].n + 1) - 1 = loop[l].n
    BY <1>1, <2>2, BatchAssumption
  <2>4. 1..((loop[l].n + 1) - 1) \subseteq handed[loop[l].url] BY <1>1, <2>3 DEF PushedSoFar
  <2>5. Handover!Accept(loop[l].url) BY <1>1, <2>3, <2>4 DEF Handover!Accept
  <2> QED BY <2>1, <2>5 DEF Handover!Next
<1>2. CASE PushBatch(l) BY <1>1, <1>2 DEF PushBatch
<1>3. CASE PushFails(l)
  <2>1. marker' = marker /\ loop[l].pc = "push" /\ loop[l].n < Batches BY <1>3 DEF PushFails
  <2>2. \/ handed' = handed
        \/ handed' = [handed EXCEPT ![loop[l].url] = @ \cup {loop[l].n + 1}]
    BY <1>3 DEF PushFails
  <2> QED BY <1>1, <2>1, <2>2
<1>4. CASE MarkPushed(l)
  <2>1. handed' = handed BY <1>4 DEF MarkPushed
  <2>2. CASE marker' = marker BY <2>1, <2>2
  <2>3. CASE marker' # marker
    <3>1. marker' = loop[l].url /\ loop[l].pc = "push" BY <1>4, <2>3 DEF MarkPushed
    <3>2. loop[l].url \in Servers BY <3>1 DEF HasServer
    <3>3. marker' # NoServer BY <3>1, <3>2, ServerAssumption
    <3>4. handed[loop[l].url] = 1..Batches BY <2>1, <3>1, <3>3 DEF MarkedIsHanded
    <3>5. Handover!Finish(loop[l].url) BY <2>1, <3>1, <3>4 DEF Handover!Finish
    <3> QED BY <3>2, <3>5 DEF Handover!Next
  <2> QED BY <2>2, <2>3
<1>5. CASE ReadKey(l) BY <1>5 DEF ReadKey
<1>6. CASE Send(l) BY <1>6 DEF Send
<1>7. CASE SendFails(l) BY <1>7 DEF SendFails
<1>8. CASE PersistKey(l) BY <1>8 DEF PersistKey
<1>9. CASE RememberKey(l) BY <1>9 DEF RememberKey
<1>10. CASE StoreFigures(l) BY <1>10 DEF StoreFigures
<1>11. CASE StartHistory(l) BY <1>11 DEF StartHistory
<1>12. CASE Tick(l) BY <1>12 DEF Tick
<1>13. CASE Exit(l) BY <1>13 DEF Exit
<1> QED BY <1>2, <1>3, <1>4, <1>5, <1>6, <1>7, <1>8, <1>9, <1>10, <1>11, <1>12, <1>13 DEF Beat

\* Every step of the machine is a step of the handover, or none.
LEMMA HandoverStep ==
  ASSUME PairInv, PairInv', [Next]_vars
  PROVE  [Handover!Next]_<<handed, marker>>
<1>1. CASE UNCHANGED vars BY <1>1 DEF vars
<1>2. ASSUME NEW l \in Loops, Beat(l) \/ Tick(l) \/ Exit(l)
      PROVE  [Handover!Next]_<<handed, marker>>
  BY <1>2, BeatHandsOver
<1>3. ASSUME NEW s \in Savers, SaveStep(s) \/ \E new \in Maybe : BeginSave(s, new)
      PROVE  UNCHANGED <<handed, marker>>
  BY <1>3, SaveFrame DEF PairInv
<1> QED BY <1>1, <1>2, <1>3 DEF Next

\* The machine implements the handover of the history: whatever the loops, the saves,
\* the lost answers and the restarts do, a server is handed the batches oldest first,
\* loses none, and is marked only when it has them all.
THEOREM HistoryIsHandedOver == Spec => HandsOver
<1>1. Init => Handover!Init BY DEF Init, Handover!Init
<1>2. PairInv /\ PairInv' /\ [Next]_vars => [Handover!Next]_<<handed, marker>>
  BY HandoverStep
<1> QED BY <1>1, <1>2, PairInit, PairStep, PTL DEF Spec, HandsOver, Handover!Spec

----------------------------------------------------------------------------
(* One pairing, with one save at a time.                                   *)

OneSave == \A s, t \in Savers : s = t

\* The loop of the handle runs and is not told to stop; any other that runs has been
\* taken by the save that waits for it.
HandleRuns ==
  /\ handle # NoLoop => Live(handle) /\ ~loop[handle].cancelled
  /\ \A l \in Loops : Live(l) /\ handle # l => \E s \in Savers : save[s].takes = l /\ loop[l].cancelled
\* From the stop to the launch there is no handle; once the loop that was taken is gone,
\* there is no loop and there are no figures.
Restarting ==
  \A s \in Savers :
    /\ save[s].takes # NoLoop => save[s].pc = "join"
    /\ save[s].pc \in {"join", "boot", "key", "launch"} => handle = NoLoop
    /\ save[s].pc \in {"boot", "key", "launch"} => figures = NoServer /\ \A l \in Loops : ~Live(l)

OneInv == PairInv /\ HandleRuns /\ Restarting /\ FiguresOfPairing

\* A beat leaves the handle alone, ends a loop only when it was told to stop, and shows
\* figures of its own server only.
LEMMA BeatFigures ==
  ASSUME TypeOK, NEW l \in Loops, Beat(l) \/ Tick(l) \/ Exit(l)
  PROVE  /\ handle' = handle
         /\ loop'[l].pc = "gone" => loop[l].cancelled
         /\ loop'[l].pc # "gone" => loop'[l].cancelled = loop[l].cancelled
         /\ figures' = figures \/ figures' = loop[l].url
<1> USE DEF TypeOK, LoopTypes, At, Goto, pairing
<1>1. CASE ReadKey(l) BY <1>1 DEF ReadKey
<1>2. CASE Send(l) BY <1>2 DEF Send
<1>3. CASE SendFails(l) BY <1>3 DEF SendFails
<1>4. CASE PersistKey(l) BY <1>4 DEF PersistKey
<1>5. CASE RememberKey(l) BY <1>5 DEF RememberKey
<1>6. CASE StoreFigures(l) BY <1>6 DEF StoreFigures
<1>7. CASE StartHistory(l) BY <1>7 DEF StartHistory
<1>8. CASE PushBatch(l) BY <1>8 DEF PushBatch
<1>9. CASE PushFails(l) BY <1>9 DEF PushFails
<1>10. CASE MarkPushed(l) BY <1>10 DEF MarkPushed
<1>11. CASE Tick(l) BY <1>11 DEF Tick
<1>12. CASE Exit(l) BY <1>12 DEF Exit, Gone
<1> QED BY <1>1, <1>2, <1>3, <1>4, <1>5, <1>6, <1>7, <1>8, <1>9, <1>10, <1>11, <1>12 DEF Beat

LEMMA BeatOne ==
  ASSUME OneInv, OneSave, NEW l \in Loops, Beat(l) \/ Tick(l) \/ Exit(l)
  PROVE  HandleRuns' /\ Restarting' /\ FiguresOfPairing'
<1> USE DEF OneInv, PairInv, Live, At
<1>1. /\ save' = save /\ handle' = handle
      /\ \A m \in Loops : m # l => loop'[m] = loop[m]
      /\ loop[l].pc # "gone"
      /\ loop'[l].pc # "gone" => loop'[l].url = loop[l].url /\ loop'[l].cancelled = loop[l].cancelled
      /\ loop'[l].pc = "gone" => loop[l].cancelled
      /\ figures' = figures \/ figures' = loop[l].url
  BY BeatFrame, BeatFigures
<1>2. handle \in Loops \cup {NoLoop}
  BY DEF TypeOK
<1>3. HandleRuns'
  BY <1>1, <1>2 DEF HandleRuns
<1>4. \A s \in Savers : save[s].pc \notin {"boot", "key", "launch"}
  BY <1>1 DEF Restarting
<1>5. Restarting'
  BY <1>1, <1>4 DEF Restarting
<1>6. handle # NoLoop => l = handle
  BY <1>1, ServerAssumption DEF HandleRuns, Restarting
<1>7. handle # NoLoop => loop'[handle].url = loop[handle].url
  BY <1>1, <1>2, <1>6 DEF HandleRuns
<1>8. FiguresOfPairing'
  BY <1>1, <1>6, <1>7 DEF FiguresOfPairing
<1> QED BY <1>3, <1>5, <1>8

LEMMA SaveOne ==
  ASSUME OneInv, OneSave, NEW s \in Savers, SaveStep(s) \/ \E new \in Maybe : BeginSave(s, new)
  PROVE  HandleRuns' /\ Restarting' /\ FiguresOfPairing'
<1> USE DEF OneInv, PairInv, Live, At, In, Then, pairing
<1>0. /\ Savers = {s} /\ save \in [Savers -> SaveTypes] /\ handle \in Loops \cup {NoLoop} /\ NoLoop \notin Loops
      /\ loop \in [Loops -> LoopTypes]
  BY ServerAssumption DEF OneSave, TypeOK
<1>1. CASE \/ ClearStoredKey(s) \/ ClearCachedKey(s) \/ UpdateConfig(s) \/ \E new \in Maybe : BeginSave(s, new)
  <2>1. /\ UNCHANGED <<handle, loop, figures>>
        /\ save[s].pc \in {"idle", "cleardisk", "clearmem", "update"}
        /\ save'[s].takes = save[s].takes /\ save'[s].pc \in {"cleardisk", "clearmem", "update", "stop"}
    <3>1. CASE ClearStoredKey(s) BY <1>0, <3>1 DEF ClearStoredKey, SaveTypes
    <3>2. CASE ClearCachedKey(s) BY <1>0, <3>2 DEF ClearCachedKey, SaveTypes
    <3>3. CASE UpdateConfig(s) BY <1>0, <3>3 DEF UpdateConfig, SaveTypes
    <3>4. ASSUME NEW new \in Maybe, BeginSave(s, new)
          PROVE  /\ UNCHANGED <<handle, loop, figures>>
                 /\ save[s].pc \in {"idle", "cleardisk", "clearmem", "update"}
                 /\ save'[s].takes = save[s].takes /\ save'[s].pc \in {"cleardisk", "clearmem", "update", "stop"}
      BY ZenonT(60), <1>0, <3>4 DEF BeginSave, SaveTypes
    <3> QED BY <1>1, <3>1, <3>2, <3>3, <3>4
  <2> QED BY <1>0, <2>1 DEF HandleRuns, Restarting, FiguresOfPairing
<1>2. CASE SaveFails(s) \/ ReadPairing(s) \/ ReadStoredKey(s)
  <2>1. /\ UNCHANGED <<handle, loop, figures>>
        /\ save[s].pc \in {"cleardisk", "update", "boot", "key"}
        /\ save'[s].takes \in {NoLoop, save[s].takes}
        /\ \/ save'[s].pc = "idle"
           \/ save[s].pc \in {"boot", "key"} /\ save'[s].pc \in {"key", "launch"}
    BY <1>0, <1>2 DEF SaveFails, ReadPairing, ReadStoredKey, SaveTypes, Unsaved
  <2>2. save[s].takes = NoLoop
    BY <2>1 DEF Restarting
  <2> QED BY <1>0, <2>1, <2>2 DEF HandleRuns, Restarting, FiguresOfPairing
<1>3. CASE TakeLoop(s)
  <2>1. /\ handle' = NoLoop /\ figures' = figures /\ save[s].pc = "stop"
        /\ save'[s].takes = handle /\ save'[s].pc = "join"
        /\ \A l \in Loops : /\ loop'[l].pc = loop[l].pc
                            /\ l = handle => loop'[l].cancelled
                            /\ l # handle => loop'[l] = loop[l]
    BY <1>0, <1>3 DEF TakeLoop, SaveTypes, LoopTypes
  <2>2. save[s].takes = NoLoop
    BY <2>1 DEF Restarting
  <2> QED BY <1>0, <2>1, <2>2 DEF HandleRuns, Restarting, FiguresOfPairing
<1>4. CASE DropFigures(s)
  <2>1. /\ UNCHANGED <<handle, loop>> /\ figures' = NoServer /\ save[s].pc = "join"
        /\ save'[s].takes = NoLoop /\ save'[s].pc = "boot"
        /\ save[s].takes # NoLoop => loop[save[s].takes].pc = "gone"
    BY <1>0, <1>4 DEF DropFigures, SaveTypes
  <2>2. handle = NoLoop
    BY <2>1 DEF Restarting
  <2>3. \A l \in Loops : loop[l].pc = "gone"
    BY <1>0, <2>1, <2>2 DEF HandleRuns
  <2> QED BY <1>0, <2>1, <2>2, <2>3 DEF HandleRuns, Restarting, FiguresOfPairing
<1>5. ASSUME NEW l \in Loops, Launch(s, l) PROVE HandleRuns' /\ Restarting' /\ FiguresOfPairing'
  <2>1. /\ handle' = l /\ figures' = figures /\ save[s].pc = "launch"
        /\ save'[s] = Unsaved
        /\ \A m \in Loops : m # l => loop'[m] = loop[m]
        /\ loop'[l] = [Gone EXCEPT !.pc = "read", !.url = save[s].new]
    BY <1>0, <1>5 DEF Launch
  <2>2. loop'[l].pc = "read" /\ loop'[l].cancelled = FALSE
    BY <2>1 DEF Gone
  <2>3. save'[s].takes = NoLoop /\ save'[s].pc = "idle"
    BY <2>1 DEF Unsaved
  <2>4. figures = NoServer /\ \A m \in Loops : loop[m].pc = "gone"
    BY <2>1 DEF Restarting
  <2> QED BY <1>0, <2>1, <2>2, <2>3, <2>4 DEF HandleRuns, Restarting, FiguresOfPairing
<1> QED BY <1>1, <1>2, <1>3, <1>4, <1>5 DEF SaveStep

\* While saves come one at a time, one loop runs for the app, and the figures shown are
\* those it found: for any number of servers and of restarts.
THEOREM OnePairingHolds == ASSUME OneSave PROVE Spec => []OnePairing
<1>1. Init => OneInv
  <2> SUFFICES ASSUME Init PROVE OneInv
    OBVIOUS
  <2>1. \A s \in Savers : save[s].takes = NoLoop /\ save[s].pc = "idle"
    BY DEF Init, Unsaved
  <2>2. \A l \in Loops : loop[l].pc = "gone"
    BY DEF Init, Gone
  <2> QED BY <2>1, <2>2, PairInit DEF OneInv, HandleRuns, Restarting, FiguresOfPairing, Live, At, Init
<1>2. OneInv /\ [Next]_vars => OneInv'
  <2> SUFFICES ASSUME OneInv, [Next]_vars PROVE OneInv'
    OBVIOUS
  <2>1. PairInv'
    BY PairStep DEF OneInv
  <2>2. CASE UNCHANGED vars
    BY <2>1, <2>2 DEF vars, OneInv, HandleRuns, Restarting, FiguresOfPairing, Live, At
  <2> QED BY <2>1, <2>2, BeatOne, SaveOne DEF OneInv, Next
<1>3. OneInv => OnePairing
  BY DEF OneInv, HandleRuns, OnePairing, NoForgottenLoop
<1> QED BY <1>1, <1>2, <1>3, PTL DEF Spec
=============================================================================
