--------------------------- MODULE NativeBinaries ----------------------------
(***************************************************************************)
(* What lies on disk and in the Windows Firewall behind one native         *)
(* service: its downloaded executable, the marker of the digest that was   *)
(* verified, its firewall rule and its registry entry, over deploys of     *)
(* successive catalog versions, starts, stops and removals, whose every    *)
(* step may fail, with the app dying and the process crashing in between.  *)
(* One call at a time: overlapping calls are NativeSupervisor's subject.   *)
(*                                                                         *)
(* A version is [sha, path, block]: its digest, where in the service's     *)
(* directory the executable lies, the networks the rule must block.        *)
(***************************************************************************)
EXTENDS Integers, Sequences
CONSTANTS Versions,  \* the versions of the binary, in the order of the releases
          Quota      \* bound: how often each call and each mishap may happen

\* No digest is pinned twice (README: what a pin that is rolled back may find).
ASSUME VersionsAssumption ==
  /\ Versions \in Seq([sha : Nat \ {0}, path : STRING, block : SUBSET STRING]) /\ Versions # <<>>
  /\ \A i, j \in DOMAIN Versions : Versions[i].sha = Versions[j].sha => i = j

VARIABLES release,  \* the version the catalog pins
          file,     \* the executable at a path: the digest it was verified for, NoDigest or Torn
          marker,   \* .verified-sha256
          rule,     \* the rule of the program at a path: what it blocks
          enforced, \* Windows Firewall is on and heeds the rules of this machine
          registered, \* the registry entry: a version, NoEntry
          proc,     \* the process launched last: st "none", "live" or "crashed" (the supervisor
                    \* waits); watched by this app, listed in the registry
          call,     \* the call under way
          strayed,  \* history: paths whose rule was made by a launch that was never recorded
          byHand,   \* history: paths whose rule the user deleted
          spare     \* what remains of Quota

binaryVars == <<release, file, marker, rule, enforced, registered, proc, call, strayed, byHand, spare>>
disk == <<file, marker>>
firewall == <<rule, enforced, strayed, byHand>>

NoDigest == 0
Torn == -1
Paths == {Versions[i].path : i \in DOMAIN Versions}
NoEntry == [sha |-> NoDigest, path |-> "", block |-> {}]
NoProcess == [st |-> "none", of |-> NoEntry, content |-> NoDigest, watched |-> FALSE, listed |-> FALSE]
NoCall == [op |-> "none", pc |-> "idle", bin |-> NoEntry]
Uses(k) == spare[k] > 0 /\ spare' = [spare EXCEPT ![k] = @ - 1]
Doing(op, pc) == call.pc = pc /\ call.op \in op
Continue(pc) == call' = [call EXCEPT !.pc = pc]
Return == call' = NoCall
Busy(p) == proc.st = "live" /\ proc.of.path = p

\* The rule of a launch that goes no further is known to nobody, unless the entry names it.
Named == registered.path = call.bin.path /\ registered.block # {}
Stray == strayed' = IF call.bin.block # {} /\ ~Named THEN strayed \cup {call.bin.path} ELSE strayed

------------------------------------------------------------------------------
Begin(op, bin) ==
  /\ call = NoCall /\ Uses(op)
  /\ call' = [op |-> op, pc |-> IF op = "deploy" THEN "ensure" ELSE IF op = "start" THEN "rule" ELSE "stop", bin |-> bin]
  /\ UNCHANGED <<release, disk, firewall, registered, proc>>

DeployBinary == Begin("deploy", Versions[release])
\* Nothing runs that the app watches or finds by its entry: the entry says what to launch, if
\* its file is there. (Beside a supervisor that waits to respawn, Start is NativeSupervisor's
\* subject.)
StartBinary ==
  /\ proc.st # "crashed" /\ ~proc.watched /\ ~proc.listed
  /\ registered # NoEntry /\ file[registered.path] # NoDigest
  /\ Begin("start", registered)
StopBinary == Begin("stop", registered)
RemoveBinary == Begin("remove", registered)

\* ensureBinary: an extraction whose recorded digest matches is used again.
RecordedPath(bin) == file[bin.path] # NoDigest
Recorded(bin) == marker = bin.sha /\ file[bin.path] # NoDigest
Reuse ==
  /\ Doing({"deploy"}, "ensure") /\ Recorded(call.bin)
  /\ Continue("stop")
  /\ UNCHANGED <<release, disk, firewall, registered, proc, spare>>

\* The bytes are there only once their digest matched; anything else is an error.
Download ==
  /\ Doing({"deploy"}, "ensure") /\ ~Recorded(call.bin)
  /\ Continue("extract")
  /\ UNCHANGED <<release, disk, firewall, registered, proc, spare>>

\* Written in place: the file is truncated first, and one that is being executed cannot be.
Extract ==
  /\ Doing({"deploy"}, "extract") /\ ~Busy(call.bin.path)
  /\ file' = [file EXCEPT ![call.bin.path] = Torn]
  /\ Continue("extracting")
  /\ UNCHANGED <<release, marker, firewall, registered, proc, spare>>
Extracted ==
  /\ Doing({"deploy"}, "extracting")
  /\ file' = [file EXCEPT ![call.bin.path] = call.bin.sha]
  /\ Continue("mark")
  /\ UNCHANGED <<release, marker, firewall, registered, proc, spare>>
Mark ==
  /\ Doing({"deploy"}, "mark")
  /\ marker' = call.bin.sha
  /\ Continue("stop")
  /\ UNCHANGED <<release, file, firewall, registered, proc, spare>>

\* Stop and stopInternal: the watched child, or the process the entry names.
Stops(known) ==
  /\ call.pc = "stop"
  /\ proc' = IF known THEN NoProcess ELSE proc
  /\ IF call.op = "stop" THEN Return ELSE Continue(IF call.op = "deploy" THEN "unrule" ELSE "delete")
  /\ UNCHANGED <<release, disk, firewall, registered, spare>>
StopOld == Stops(proc.watched \/ proc.listed)

RemoveAll ==
  /\ Doing({"remove"}, "delete") /\ \A p \in Paths : ~Busy(p)
  /\ file' = [p \in Paths |-> NoDigest] /\ marker' = NoDigest
  /\ Continue("unrule")
  /\ UNCHANGED <<release, firewall, registered, proc, spare>>

\* The rule of the deploy before that this one no longer wants; of a service that goes.
UnwantedUnblocked == registered.block # {} /\ (call.op = "remove" \/ call.bin.block = {})
Unwanted ==
  /\ registered.block # {}
  /\ call.op = "remove" \/ call.bin.block = {} \/ registered.path # call.bin.path
Unrule ==
  /\ call.pc = "unrule"
  /\ rule' = IF Unwanted THEN [rule EXCEPT ![registered.path] = {}] ELSE rule
  /\ IF call.op = "remove" THEN registered' = NoEntry /\ Return ELSE Continue("rule") /\ UNCHANGED registered
  /\ UNCHANGED <<release, disk, enforced, proc, strayed, byHand, spare>>

\* launchProcess: a binary that declares networks never starts without its rule.
\* ensureFirewallBlock reads the rule, and whether this machine would enforce one: exactly
\* the rule asked for will do, another one is replaced behind an admin prompt.
Matches == rule[call.bin.path] = call.bin.block
CheckRule ==
  /\ call.pc = "rule"
  /\ IF call.bin.block = {} \/ (enforced /\ Matches) THEN Continue("exec")
     ELSE IF enforced THEN Continue("prompt") ELSE Return
  /\ UNCHANGED <<release, disk, firewall, registered, proc, spare>>

\* The script deletes the rule of that name and makes the new one, and may stop in between.
Prompt ==
  /\ call.pc = "prompt"
  /\ \/ /\ rule' = [rule EXCEPT ![call.bin.path] = call.bin.block]
        /\ byHand' = byHand \ {call.bin.path}
        /\ Continue("confirm") /\ UNCHANGED spare
     \/ /\ rule' = [rule EXCEPT ![call.bin.path] = {}]
        /\ UNCHANGED byHand
        /\ Uses("fail") /\ Return
  /\ UNCHANGED <<release, disk, enforced, registered, proc, strayed>>

\* What the prompt left is read again.
Confirm ==
  /\ call.pc = "confirm"
  /\ IF Matches /\ enforced THEN Continue("exec") /\ UNCHANGED strayed ELSE Return /\ Stray
  /\ UNCHANGED <<release, disk, rule, enforced, byHand, registered, proc, spare>>

Exec ==
  /\ call.pc = "exec"
  /\ proc' = [st |-> "live", of |-> call.bin, content |-> file[call.bin.path], watched |-> TRUE, listed |-> FALSE]
  /\ Continue("record")
  /\ UNCHANGED <<release, disk, firewall, registered, spare>>

\* persistRunning; when it fails the process runs and the entry stays as it was.
persistRunning ==
  /\ call.pc = "record"
  /\ \/ /\ registered' = call.bin /\ UNCHANGED spare
        /\ proc' = [proc EXCEPT !.listed = @ \/ proc.st = "live"]
        /\ strayed' = IF call.bin.block # {} THEN strayed \ {call.bin.path} ELSE strayed
     \/ Uses("fail") /\ Stray /\ UNCHANGED <<registered, proc>>
  /\ Return
  /\ UNCHANGED <<release, disk, rule, enforced, byHand>>

\* Any other step fails and the call returns its error: a download refused or cut, a full
\* disk, a binary that does not start, an admin prompt declined. An executable that runs can
\* neither be written nor deleted.
Fails ==
  /\ call.pc \in {"ensure", "extract", "extracting", "mark", "delete", "unrule", "rule", "prompt", "confirm", "exec"}
  /\ \/ Uses("fail")
     \/ call.pc = "extract" /\ Busy(call.bin.path) /\ UNCHANGED spare
     \/ call.pc = "delete" /\ (\E p \in Paths : Busy(p)) /\ UNCHANGED spare
  /\ marker' = IF call.pc = "mark" THEN Torn ELSE marker
  /\ IF call.pc \in {"confirm", "exec"} THEN Stray ELSE UNCHANGED strayed
  /\ call.pc = "unrule" => Unwanted
  /\ call.pc = "rule" => call.bin.block # {}
  /\ Return
  /\ UNCHANGED <<release, file, rule, enforced, byHand, registered, proc>>

\* The app dies: a process it watched goes on as an orphan.
AppDies ==
  /\ Uses("die")
  /\ IF call.pc \in {"confirm", "exec", "record"} THEN Stray ELSE UNCHANGED strayed
  /\ Return
  /\ proc' = IF proc.st = "live" THEN [proc EXCEPT !.watched = FALSE] ELSE NoProcess
  /\ UNCHANGED <<release, disk, rule, enforced, byHand, registered>>

Crash ==
  /\ proc.st = "live" /\ Uses("crash")
  /\ proc' = IF proc.watched THEN [proc EXCEPT !.st = "crashed", !.listed = FALSE] ELSE NoProcess
  /\ UNCHANGED <<release, disk, firewall, registered, call>>
\* The supervisor starts what lies at the path now, and does not look at the rule.
Respawn ==
  /\ proc.st = "crashed" /\ call.pc # "extracting" /\ file[proc.of.path] # NoDigest
  /\ proc' = [proc EXCEPT !.st = "live", !.content = file[proc.of.path], !.listed = registered # NoEntry]
  /\ UNCHANGED <<release, disk, firewall, registered, call, spare>>

NextRelease ==
  /\ call = NoCall /\ release < Len(Versions)
  /\ release' = release + 1
  /\ UNCHANGED <<disk, firewall, registered, proc, call, spare>>
DeletesRule(p) ==
  /\ rule[p] # {} /\ Uses("byhand")
  /\ rule' = [rule EXCEPT ![p] = {}] /\ byHand' = byHand \cup {p}
  /\ UNCHANGED <<release, disk, enforced, strayed, registered, proc, call>>
\* The user, or a group policy, at any time: while the admin prompt waits, too.
SwitchFirewall ==
  /\ Uses("switch")
  /\ enforced' = ~enforced
  /\ UNCHANGED <<release, disk, rule, strayed, byHand, registered, proc, call>>

BinariesInit ==
  /\ release = 1 /\ file = [p \in Paths |-> NoDigest] /\ marker = NoDigest
  /\ rule = [p \in Paths |-> {}] /\ enforced = TRUE /\ registered = NoEntry /\ proc = NoProcess /\ call = NoCall
  /\ strayed = {} /\ byHand = {} /\ spare = Quota

BinariesNext ==
  \/ DeployBinary \/ StartBinary \/ StopBinary \/ RemoveBinary
  \/ Reuse \/ Download \/ Extract \/ Extracted \/ Mark
  \/ StopOld \/ RemoveAll \/ Unrule \/ CheckRule \/ Prompt \/ Confirm \/ Exec \/ persistRunning
  \/ Fails \/ AppDies \/ Crash \/ Respawn \/ NextRelease
  \/ SwitchFirewall \/ \E p \in Paths : DeletesRule(p)

BinariesSpec == BinariesInit /\ [][BinariesNext]_binaryVars

------------------------------------------------------------------------------
\* A process the app watches or its registry names runs behind the rule its version declares,
\* unless the user deleted it: a rule is made before the launch and deleted only after the stop
\* (launchProcess, Deploy, Remove), whatever fails, crashes or dies in between.
RunsBehindItsRule ==
  /\ proc.st = "live" /\ (proc.watched \/ proc.listed)
  /\ proc.of.path \notin byHand
  => proc.of.block \subseteq rule[proc.of.path]

\* No rule is forgotten: the entry names every rule there is, so that a later deploy or
\* removal deletes it, except one whose launch failed or was cut before it was recorded.
NoRuleForgotten ==
  \A p \in Paths \ strayed : rule[p] # {} /\ call = NoCall => registered.path = p /\ registered.block # {}

\* The firewall's rules follow the launches, both ways.
RulesFollowLaunches == RunsBehindItsRule /\ NoRuleForgotten

\* A deploy executes the whole file its version's digest was verified for, whatever earlier
\* deploys left half written (ensureBinary's marker).
DeployRunsWhole ==
  [][Doing({"deploy"}, "exec") /\ call'.pc = "record" => proc'.content = call.bin.sha]_binaryVars

\* False of the code (README): "a caller can never end up execing unverified content"
\* (native.go:876). What Start launches from the registry is whole too: it looks only at
\* whether the file is there, and a deploy that was cut short leaves a torn one.
StartRunsWhole ==
  [][Doing({"start"}, "exec") /\ call'.pc = "record" => proc'.content = call.bin.sha]_binaryVars
==============================================================================
