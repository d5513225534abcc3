------------------------------- MODULE MCHost --------------------------------
(***************************************************************************)
(* Three parts of the app on its host, in one run: the LAN fence, the       *)
(* copies behind proxies, and the configuration with the activity sampler.  *)
(* A behaviour moves one of them (scene); the others stand where none of    *)
(* their fair actions is enabled.                                          *)
(***************************************************************************)
EXTENDS LanFence, Activity, ProxiedCopies

VARIABLE scene

Of(kinds, f) == [k \in kinds |-> IF k \in DOMAIN f THEN f[k] ELSE 0]

------------------------------------------------------------------------------
\* A change of the setting and a deploy against the tick, with one kind of trouble at a time:
\* a network that goes with both of them where the earners are fenced, with one elsewhere.
FenceCalm == [save |-> 1, deploy |-> 1, enable |-> 0, nets |-> MaxNet, fail |-> 0, prune |-> 0, reload |-> 0,
              down |-> 0, other |-> 0, stop |-> 0, crash |-> 0]
FenceLimits ==
  { [FenceCalm EXCEPT !.prune = 1], [FenceCalm EXCEPT !.prune = 1, !.deploy = 0], [FenceCalm EXCEPT !.prune = 1, !.save = 0],
    [FenceCalm EXCEPT !.stop = 1, !.save = 0], [FenceCalm EXCEPT !.fail = 1, !.save = 0],
    [FenceCalm EXCEPT !.reload = 1, !.save = 0], [FenceCalm EXCEPT !.down = 1, !.deploy = 0],
    [FenceCalm EXCEPT !.other = 2, !.save = 0], [FenceCalm EXCEPT !.crash = 1, !.deploy = 0],
    [FenceCalm EXCEPT !.enable = 1, !.deploy = 0, !.fail = 1, !.save = 0], [FenceCalm EXCEPT !.save = 2, !.deploy = 0] }

\* Two of the owner's calls against each other and the ticker's pass.
CopyCalm == [deploy |-> 0, stop |-> 0, start |-> 0, remove |-> 0, reset |-> 0, save |-> 0, delete |-> 0,
             fail |-> 1, cross |-> 1, month |-> 0, die |-> 0, reboot |-> 0]
CopyScenes ==
  { [CopyCalm EXCEPT !.deploy = 1, !.delete = 1], [CopyCalm EXCEPT !.remove = 1, !.delete = 1],
    [CopyCalm EXCEPT !.reset = 1, !.stop = 1], [CopyCalm EXCEPT !.start = 1, !.save = 1],
    [CopyCalm EXCEPT !.month = 1, !.start = 1], [CopyCalm EXCEPT !.save = 1, !.reset = 1],
    [CopyCalm EXCEPT !.deploy = 1, !.remove = 1, !.delete = 1],
    [CopyCalm EXCEPT !.reboot = 1, !.deploy = 1], [CopyCalm EXCEPT !.die = 1, !.reset = 1] }

\* Starts and a keychain that comes and goes; the window's writes; the switch against the
\* sampler, with a start in between and without.
SwitchCalm == [settings |-> 0, mute |-> 0, onboard |-> 0, fence |-> 0, fail |-> 0, start |-> 1, crash |-> 0, tear |-> 0,
               ring |-> 0, on |-> 0, off |-> 0, erase |-> 0, day |-> 0, tick |-> 0]
SwitchQuotas ==
  { [SwitchCalm EXCEPT !.start = 3, !.crash = 2, !.ring = 4],
    [SwitchCalm EXCEPT !.start = 2, !.crash = 1, !.settings = 1, !.mute = 1, !.fail = 1, !.tear = 1],
    [SwitchCalm EXCEPT !.settings = 1, !.mute = 1, !.onboard = 1, !.fence = 1],
    [SwitchCalm EXCEPT !.start = 2, !.crash = 1, !.on = 1, !.off = 1, !.fail = 1, !.tick = 1, !.day = 1],
    [SwitchCalm EXCEPT !.on = 2, !.off = 1, !.erase = 2, !.tick = 1] }

------------------------------------------------------------------------------
\* No caller is left, no proxy is there, and the app never starts.
FenceStill ==
  /\ Fresh /\ net = NoNet
  /\ up = TRUE /\ helper = NoHelper /\ lock = [mu |-> Nobody, rec |-> Nobody]
  /\ status = [mode |-> "", state |-> "", outside |-> {}]
  /\ pr = [p \in Callers |-> [Resting EXCEPT !.pc = "none"]]
  /\ allowed = FenceCalm
CopiesStill ==
  /\ proxy = [exists |-> FALSE, cap |-> "none", ver |-> 1, used |-> FALSE, capped |-> FALSE, due |-> FALSE]
  /\ rec = [s \in CopySlugs |-> "none"] /\ tun = [s \in CopySlugs |-> NoTun] /\ ear = [s \in CopySlugs |-> NoEar]
  /\ calls = [p \in CopyCallers |-> [NoCall EXCEPT !.pc = "none"]]
  /\ wish = [s \in CopySlugs |-> "gone"] /\ overlap = FALSE /\ stranded = {} /\ spare = CopyCalm
OwnerStill ==
  /\ Init /\ goos = "maybe" /\ disk.st = "missing"
  /\ left = [SwitchCalm EXCEPT !.start = 3, !.crash = 2, !.ring = 4]

HostInit ==
  \/ /\ scene = "fence" /\ FenceInit /\ CopiesStill /\ OwnerStill
     /\ (allowed = [FenceCalm EXCEPT !.prune = 1] => Fenced)
  \/ scene = "copies" /\ FenceStill  /\ CopiesInit /\ OwnerStill
  \/ scene = "owner"  /\ FenceStill  /\ CopiesStill  /\ Init
HostNext ==
  \/ scene = "fence"  /\ FenceNext  /\ UNCHANGED <<scene, copyVars, vars>>
  \/ scene = "copies" /\ CopiesNext /\ UNCHANGED <<scene, fenceVars, vars>>
  \/ scene = "owner"  /\ Next        /\ UNCHANGED <<scene, fenceVars, copyVars>>
HostSpec ==
  /\ HostInit
  /\ [][HostNext]_<<scene, fenceVars, copyVars, vars>>
  /\ FenceFairness /\ CopiesFairness /\ Fairness
==============================================================================
