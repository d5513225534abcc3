--------------------------- MODULE ActivityRound ---------------------------
(***************************************************************************)
(* One round of Activity sampling on the Docker side (internal/activity):   *)
(* the helpers earlier rounds left are swept, the earners are grouped by    *)
(* network namespace, one helper per group reads the sockets, and counters  *)
(* become changes since the round before. Containers restart, come and go   *)
(* meanwhile, the daemon fails any call, the app dies, and another app on   *)
(* the same daemon sweeps too. (Activity models what is stored of a round.) *)
(*                                                                         *)
(* A container is [name, id, up, earner, plain, mode, joins, ns]: mode is   *)
(* "bridge", "host", "none" or "container", which joins an id; ns is the    *)
(* namespace it was given when it started.                                 *)
(***************************************************************************)
EXTENDS Naturals, FiniteSets, Sequences, SequencesExt

CONSTANTS Hosts,   \* the containers a machine starts with: a name's container each
          Ids,     \* bound: the container ids ever used
          RoundLimits   \* bounds: how often each fault and each move may happen

ASSUME HostsAssumption ==
  \A h \in Hosts :
    /\ IsFiniteSet(DOMAIN h) /\ h = [n \in DOMAIN h |-> h[n]]
    /\ \A n, m \in DOMAIN h : h[n].id \in 1..Cardinality(DOMAIN h) /\ (h[n].id = h[m].id => n = m)
    /\ \A n \in DOMAIN h :
         h[n] \in [name : {n}, id : Ids, up : BOOLEAN, earner : BOOLEAN, plain : BOOLEAN,
                  mode : {"bridge", "host", "none", "container"}, joins : Nat, ns : 1..Cardinality(DOMAIN h)]

VARIABLES box,      \* the containers by name
          opened,   \* connections opened in a name's namespace since it was made
          ever,     \* history: and since the name was first used
          last,     \* Deltas.prev: an id's last counters, or None
          helper,   \* our helper for an id: "none", "created", "running", "exited"; stale
          round,    \* the round under way
          window,   \* the samples of the last round
          fresh,    \* the next id and namespace number
          on, up,   \* the switch; the app runs
          spare      \* what remains of its quota

roundVars == <<box, opened, ever, last, helper, round, window, fresh, on, up, spare>>
machine == <<box, opened, ever, fresh>>

None == [is |-> "none"]
NoHelper == [st |-> "none", stale |-> FALSE]
NoRound == [pc |-> "idle", earners |-> {}, groups |-> {}, at |-> <<>>, read |-> <<>>, leftover |-> {}, blind |-> FALSE]
Names == DOMAIN box
Take(k) == spare[k] > 0 /\ spare' = [spare EXCEPT ![k] = @ - 1]
RoundAt(pc) == up /\ round.pc = pc
Fault == Take("fault")

\* Inspect: the container that has an id, which its name's new container has not.
Found(id) == \E n \in Names : box[n].id = id
By(id) == CHOOSE n \in Names : box[n].id = id

------------------------------------------------------------------------------
(* Grouping.                                                               *)

Joins(c) == c.mode = "container"
\* A joined container is followed to the owner of its namespace; at most 8 hops.
Hops == 8
Followed(c) ==
  LET step[k \in 0..Hops, n \in Names] ==
        IF ~Joins(box[n]) THEN {n}
        ELSE IF k = 0 \/ ~Found(box[n].joins) THEN {}
        ELSE step[k - 1, By(box[n].joins)]
      first == By(c.joins)
  IN IF Joins(box[first]) THEN step[Hops, first] ELSE {first}
OwnerOf(c) == {n \in Names : Found(c.joins) /\ n \in Followed(c)}

\* An earner as the list showed it, by the namespaces there are now.
OnHost(c) == c.mode = "host" \/ (Joins(c) /\ \E o \in OwnerOf(c) : box[o].mode = "host")
Fixed(c) ==
  IF c.mode = "none" THEN "no_network"
  ELSE IF ~c.plain THEN "sandboxed"
  ELSE IF Joins(c) /\ OwnerOf(c) = {} THEN "probe_failed"
  ELSE IF Joins(c) /\ \E o \in OwnerOf(c) : box[o].mode # "host" /\ ~box[o].plain THEN "sandboxed"
  ELSE "probed"
Group(id, name, kind, members, ours) == [id |-> id, name |-> name, kind |-> kind, members |-> members, ours |-> ours]
\* A host-network earner is a group of its own, told apart by its cgroup.
GroupsOf(earners) ==
  LET probed == {c \in earners : Fixed(c) = "probed"}
      inNet == {c \in probed : ~OnHost(c)}
      of(c) == IF Joins(c) THEN CHOOSE o \in {[id |-> box[n].id, name |-> n] : n \in OwnerOf(c)} : TRUE ELSE [id |-> c.id, name |-> c.name]
      names == {c.name : c \in earners}
  IN {Group(c.id, c.name, "cgroup", {c.name}, TRUE) : c \in probed \ inNet}
     \cup {Group(o.id, o.name, "netns", {c.name : c \in {x \in inNet : of(x) = o}}, o.name \in names) : o \in {of(c) : c \in inNet}}

------------------------------------------------------------------------------
(* A helper's reading, and the sample it becomes.                          *)

\* What the helper sees: the namespace it joined, or, by cgroup, the earner's own sockets;
\* when it cannot tell those apart, the whole machine's.
InNamespace(n, o) == n = o \/ (Joins(box[n]) /\ o \in OwnerOf(box[n]))
Openers(g) ==
  IF g.kind = "cgroup" THEN {g.name} ELSE {n \in Names : box[n].up /\ InNamespace(n, g.name)}
Reading(g, counted, told) ==
  [is |-> "read", ns |-> box[g.name].ns, opens |-> opened[g.name], ever |-> ever[g.name], counted |-> counted,
   told |-> told, out |-> IF told THEN Openers(g) ELSE Names \cup {"the machine"}]
\* ParseProbe: output that is not classified or cannot be read is no reading (Wait); the
\* counters may be missing.
ParseProbe(g) == {Reading(g, counted, told) : counted \in BOOLEAN, told \in IF g.kind = "cgroup" THEN BOOLEAN ELSE {TRUE}}

Unknown == [known |-> FALSE, opens |-> 0, truth |-> 0]
\* Mutant: the namespace is not compared.
AnyNamespace(prev, r) == prev # None /\ r.counted /\ prev.recent
\* Deltas.Apply: a change only within one namespace and a recent reading, none going backwards.
Comparable(prev, r) == prev # None /\ r.counted /\ prev.recent /\ prev.ns = r.ns
Delta(id, r) ==
  IF Comparable(last[id], r) /\ r.opens >= last[id].opens
  THEN [known |-> TRUE, opens |-> r.opens - last[id].opens, truth |-> r.ever - last[id].ever]
  ELSE Unknown
Kept(r) == IF r.counted THEN [is |-> "read", ns |-> r.ns, opens |-> r.opens, ever |-> r.ever, recent |-> TRUE] ELSE None

Sample(of, kind, status, delta, out) == [of |-> of, kind |-> kind, status |-> status, delta |-> delta, out |-> out]
\* Mutant: what a sidecar's namespace holds is shown.
BuildAnyOwner(g, r) ==
  IF g.kind = "cgroup"
  THEN IF r.told THEN Sample(g.name, g.kind, "ok", Unknown, r.out) ELSE Sample(g.name, g.kind, "host_network", Unknown, {})
  ELSE Sample(g.name, g.kind, "ok", Delta(g.id, r), r.out)
\* A reading not matched by cgroup is the machine's; a namespace of a container that is no
\* earner may be shared with other apps: only its counters are kept.
BuildSample(g, r) ==
  IF g.kind = "cgroup"
  THEN IF r.told THEN Sample(g.name, g.kind, "ok", Unknown, r.out) ELSE Sample(g.name, g.kind, "host_network", Unknown, {})
  ELSE Sample(g.name, g.kind, "ok", Delta(g.id, r), IF g.ours THEN r.out ELSE {})

\* Fit: the destinations of a window, each sample's first rows while the budget lasts.
Fit(samples, budget) ==
  FoldLeft(LAMBDA done, s :
             LET room == budget - FoldLeft(LAMBDA sum, t : sum + t.out + t.in, 0, done)
                 out == IF s.out + s.in > room /\ s.out > room THEN room ELSE s.out
                 in == IF s.out + s.in > room /\ s.in > room - out THEN room - out ELSE s.in
             IN Append(done, [out |-> out, in |-> in, truncated |-> s.truncated \/ s.out + s.in > room]),
           <<>>, samples)

------------------------------------------------------------------------------
(* A round.                                                                *)

\* ShouldSweep: every helper of ours; of another app only one that sat finished, or only
\* created, for longer than a helper lives.
ShouldSweep(h, own) == h.st # "none" /\ (own \/ (h.st \in {"created", "exited"} /\ h.stale))

Swept(ids) == helper' = [id \in Ids |-> IF id \in ids THEN NoHelper ELSE helper[id]]
\* A sweep that cannot list removes nothing; Docker may refuse to remove one.
Sweep(pc) ==
  \/ /\ round' = [NoRound EXCEPT !.pc = pc] /\ UNCHANGED spare
     /\ Swept({id \in Ids : ShouldSweep(helper[id], TRUE)})
  \/ /\ Fault /\ round' = [NoRound EXCEPT !.pc = pc, !.blind = TRUE]
     /\ UNCHANGED helper
  \/ \E id \in Ids :
       /\ ShouldSweep(helper[id], TRUE) /\ Fault
       /\ round' = [NoRound EXCEPT !.pc = pc, !.leftover = {id}]
       /\ Swept({k \in Ids \ {id} : ShouldSweep(helper[k], TRUE)})
Begin == RoundAt("idle") /\ on /\ Sweep("list") /\ window' = {} /\ UNCHANGED <<machine, last, on, up>>

EndEarly == round' = [NoRound EXCEPT !.leftover = round.leftover, !.blind = round.blind]
\* Earners and EnsureImage: a daemon that does not list, an image that cannot be pulled, or
\* no earner: no samples.
Earners == {box[n] : n \in {x \in Names : box[x].up /\ box[x].earner}}
ListEarners ==
  /\ RoundAt("list")
  /\ IF Earners = {} THEN EndEarly ELSE round' = [round EXCEPT !.pc = "plan", !.earners = Earners]
  /\ UNCHANGED <<machine, last, helper, window, on, up, spare>>
NoWindow ==
  /\ RoundAt("list") \/ RoundAt("plan")
  /\ Fault /\ EndEarly
  /\ UNCHANGED <<machine, last, helper, window, on, up>>
MakePlan ==
  /\ RoundAt("plan")
  /\ LET groups == GroupsOf(round.earners) IN
       round' = [round EXCEPT !.pc = "probe", !.groups = groups, !.at = [g \in groups |-> "todo"], !.read = [g \in groups |-> None]]
  /\ window' = {Sample(c.name, "fixed", Fixed(c), Unknown, {}) : c \in {x \in round.earners : Fixed(x) # "probed"}}
  /\ UNCHANGED <<machine, last, helper, on, up, spare>>

Step(g, pc) == round' = [round EXCEPT !.at[g] = pc]
InProbe(g, pc) == RoundAt("probe") /\ g \in round.groups /\ round.at[g] = pc
GroupRuns(g) == Found(g.id) /\ box[By(g.id)].up
Makes(g, st) == helper' = [helper EXCEPT ![g.id] = [st |-> st, stale |-> FALSE]]
\* RunProbe. A helper of a crashed round would hold the name; a create that Docker refuses, or
\* answers too late.
CreateHelper(g) ==
  /\ InProbe(g, "todo")
  /\ \/ Found(g.id) /\ Makes(g, "created") /\ Step(g, "start") /\ UNCHANGED spare
     \/ ~Found(g.id) /\ Makes(g, "none") /\ Step(g, "remove") /\ UNCHANGED spare
     \/ Found(g.id) /\ Makes(g, "created") /\ Step(g, "remove") /\ Fault
  /\ UNCHANGED <<machine, last, window, on, up>>
Start(g) ==
  /\ InProbe(g, "start")
  /\ \/ /\ GroupRuns(g) /\ helper[g.id].st = "created" /\ UNCHANGED spare
        /\ Makes(g, "running") /\ round' = [round EXCEPT !.at[g] = "wait", !.read[g] = Reading(g, TRUE, g.kind = "netns")]
     \/ ~(GroupRuns(g) /\ helper[g.id].st = "created") /\ Step(g, "remove") /\ UNCHANGED <<helper, spare>>
     \/ GroupRuns(g) /\ helper[g.id].st = "created" /\ Fault /\ Makes(g, "running") /\ Step(g, "remove")
  /\ UNCHANGED <<machine, last, window, on, up>>
\* The helper prints what it read last and exits; one whose container started anew under it is
\* still in the namespace that went. It may fail, hang, or print something else.
Printed(g) == IF GroupRuns(g) /\ box[g.name].ns = round.read[g].ns THEN ParseProbe(g) ELSE {round.read[g]}
Wait(g) ==
  /\ InProbe(g, "wait")
  /\ \/ /\ helper[g.id].st # "none" /\ Makes(g, "exited") /\ UNCHANGED spare
        /\ \E r \in Printed(g) : round' = [round EXCEPT !.at[g] = "log", !.read[g] = r]
     \/ /\ helper[g.id].st = "none" \/ Fault
        /\ helper[g.id].st = "none" => UNCHANGED spare
        /\ round' = [round EXCEPT !.at[g] = "remove", !.read[g] = None] /\ UNCHANGED helper
  /\ UNCHANGED <<machine, last, window, on, up>>
Log(g) ==
  /\ InProbe(g, "log")
  /\ \/ helper[g.id].st = "exited" /\ Step(g, "remove") /\ UNCHANGED spare
     \/ /\ helper[g.id].st = "none" \/ Fault
        /\ helper[g.id].st = "none" => UNCHANGED spare
        /\ round' = [round EXCEPT !.at[g] = "remove", !.read[g] = None]
  /\ UNCHANGED <<machine, last, helper, window, on, up>>

\* Mutant: the helper of a probe that failed stays.
RemoveRead(g) ==
  /\ IF round.read[g] # None THEN Makes(g, "none") ELSE UNCHANGED helper
  /\ round' = [round EXCEPT !.at[g] = "done"] /\ UNCHANGED spare
\* The helper goes on every path, or is told of; a group without a reading starts over.
RemoveHelper(g) ==
  \/ Makes(g, "none") /\ UNCHANGED spare /\ round' = [round EXCEPT !.at[g] = "done"]
  \/ /\ helper[g.id].st # "none" /\ Fault /\ UNCHANGED helper
     /\ round' = [round EXCEPT !.at[g] = "done", !.leftover = @ \cup {g.id}]
Finish(g) ==
  /\ InProbe(g, "remove") /\ RemoveHelper(g)
  /\ LET r == round.read[g] IN
     /\ last' = [last EXCEPT ![g.id] = IF r = None \/ g.kind = "cgroup" THEN None ELSE Kept(r)]
     /\ window' = window \cup {IF r = None THEN Sample(g.name, g.kind, "probe_failed", Unknown, {}) ELSE BuildSample(g, r)}
  /\ UNCHANGED <<machine, on, up>>
\* The round's budget is spent before this group's turn.
Skip(g) ==
  /\ InProbe(g, "todo") /\ Fault
  /\ Step(g, "done")
  /\ window' = window \cup {Sample(g.name, g.kind, "skipped_budget", Unknown, {})}
  /\ UNCHANGED <<machine, last, helper, on, up>>
EndRound ==
  /\ RoundAt("probe") /\ \A g \in round.groups : round.at[g] = "done"
  /\ last' = [id \in Ids |-> IF \E g \in round.groups : g.id = id THEN last[id] ELSE None]
  /\ EndEarly
  /\ UNCHANGED <<machine, helper, window, on, up, spare>>

------------------------------------------------------------------------------
(* The switch, the app, the machine and its other app.                     *)

Switch ==
  /\ up /\ Take("switch")
  /\ on' = ~on /\ last' = IF on THEN [id \in Ids |-> None] ELSE last
  /\ UNCHANGED <<machine, helper, round, window, up>>
AppDies ==
  /\ up /\ Take("die")
  /\ up' = FALSE /\ round' = NoRound /\ last' = [id \in Ids |-> None]
  /\ UNCHANGED <<machine, helper, window, on>>
AppStarts ==
  /\ ~up /\ up' = TRUE
  /\ IF on THEN Sweep("idle") ELSE UNCHANGED <<round, helper, spare>>
  /\ UNCHANGED <<machine, last, window, on>>
\* More than two windows, or a clock put back.
TimeGoesBy ==
  /\ Take("time")
  /\ last' = [id \in Ids |-> IF last[id] = None THEN None ELSE [last[id] EXCEPT !.recent = FALSE]]
  /\ helper' = [id \in Ids |-> [helper[id] EXCEPT !.stale = @ \/ ~\E g \in round.groups : g.id = id /\ round.at[g] \in {"start", "log"}]]
  /\ UNCHANGED <<machine, round, window, on, up>>
\* One that nobody waits for any more.
HelperExits(id) ==
  /\ helper[id].st = "running" /\ ~\E g \in round.groups : g.id = id /\ round.at[g] = "wait"
  /\ helper' = [helper EXCEPT ![id].st = "exited"]
  /\ UNCHANGED <<machine, last, round, window, on, up, spare>>
OtherAppSweeps ==
  /\ Take("other")
  /\ Swept({id \in Ids : ShouldSweep(helper[id], FALSE)})
  /\ UNCHANGED <<machine, last, round, window, on, up>>

Connects(n) ==
  /\ box[n].up /\ Take("connect")
  /\ opened' = [opened EXCEPT ![n] = @ + 1] /\ ever' = [ever EXCEPT ![n] = @ + 1]
  /\ UNCHANGED <<box, fresh, last, helper, round, window, on, up>>
\* Made again, it has another id; started again, another namespace.
RestartBox(n) ==
  /\ Take("restart")
  /\ \E again \in {TRUE} \cup IF fresh \in Ids THEN {FALSE} ELSE {} :
       box' = [box EXCEPT ![n].up = TRUE, ![n].ns = fresh, ![n].id = IF again THEN @ ELSE fresh]
  /\ opened' = [opened EXCEPT ![n] = 0] /\ fresh' = fresh + 1
  /\ UNCHANGED <<ever, last, helper, round, window, on, up>>
GoesDown(n) ==
  /\ box[n].up /\ Take("restart")
  /\ box' = [box EXCEPT ![n].up = FALSE]
  /\ UNCHANGED <<opened, ever, fresh, last, helper, round, window, on, up>>

------------------------------------------------------------------------------
RoundInit ==
  /\ box \in Hosts /\ opened = [n \in Names |-> 0] /\ ever = opened
  /\ last = [id \in Ids |-> None] /\ helper = [id \in Ids |-> NoHelper]
  /\ round = NoRound /\ window = {} /\ fresh = Cardinality(Names) + 1 /\ on = TRUE /\ up = TRUE /\ spare \in RoundLimits

RoundNext ==
  \/ Begin \/ ListEarners \/ NoWindow \/ MakePlan \/ EndRound
  \/ \E g \in round.groups : CreateHelper(g) \/ Start(g) \/ Wait(g) \/ Log(g) \/ Finish(g) \/ Skip(g)
  \/ Switch \/ AppDies \/ AppStarts \/ TimeGoesBy \/ OtherAppSweeps
  \/ \E id \in Ids : HelperExits(id)
  \/ \E n \in Names : Connects(n) \/ RestartBox(n) \/ GoesDown(n)
RoundSpec == RoundInit /\ [][RoundNext]_roundVars

------------------------------------------------------------------------------
\* A container joins o's namespace and, unless by way of another that joins, no other.
JoinsOnly(n, o) == Joins(box[n]) /\ \A k \in Names : box[k].id = box[n].joins => k = o \/ Joins(box[k])
\* A window is honest: a change it shows is what the earner's namespace opened since the
\* reading before, over restarts, containers made anew, failed helpers and missed rounds
\* (Deltas).  It holds no destination of the machine, none of a namespace that a container
\* which is no earner owns, and none that another namespace reached (BuildSample): an earner's
\* own and, shown as the earner's, those of what joined its namespace, be it an earner or not,
\* for BuildSample looks at the owner alone.
WindowIsHonest ==
  \A s \in window :
    /\ s.delta.known => s.delta.opens = s.delta.truth
    /\ s.out # {} => box[s.of].earner
    /\ \A n \in s.out : n = s.of \/ (s.kind = "netns" /\ n \in Names /\ JoinsOnly(n, s.of))

\* A helper that has read anything is gone when its round ends, or the round says it is left
\* over, unless Docker could not list: its log holds addresses (Sweep, RunProbe).
LeftoverIsReported ==
  [][up /\ round.pc # "idle" /\ round'.pc = "idle" /\ up' =>
       \A id \in Ids : helper'[id].st \in {"running", "exited"} => id \in round'.leftover \/ round'.blind]_roundVars
==============================================================================
