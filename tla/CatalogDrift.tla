---------------------------- MODULE CatalogDrift -----------------------------
(***************************************************************************)
(* What a deploy builds from a catalog entry, and what the window later    *)
(* says of that container: "needs fixing" (ShapeDrift), "update available" *)
(* (ImageOutdated), and nothing where the user muted the warning           *)
(* (ShapeFingerprint).  One service; the catalog is the running release's. *)
(*                                                                         *)
(* An entry is the fields that are judged: image and its per-architecture  *)
(* override [repo, tag, digest], own (CashPilot's own repository), status, *)
(* caps, devices, privileged, ports, mounts, host (network mode),          *)
(* entrypoint and env, per key "none", "plain", "required" or "default".   *)
(***************************************************************************)
EXTENDS FiniteSets
CONSTANTS Catalogs,  \* entries a release may carry
          Images,    \* images the user may choose
          Keys,      \* environment keys
          Engines,   \* daemons the user may run: [os, podman, arch]
          NoImage    \* no image chosen, no override

\* An entry is a record of the judged fields and its status.
ASSUME EntryAssumption ==
  \A e \in Catalogs :
    e = [image |-> e.image, arm |-> e.arm, status |-> e.status, caps |-> e.caps, devices |-> e.devices,
         privileged |-> e.privileged, ports |-> e.ports, mounts |-> e.mounts, host |-> e.host, entrypoint |-> e.entrypoint, env |-> e.env]

\* An image for one architecture is another tag of the entry's repository, pinned to no other
\* digest (image_by_arch: services/bandwidth/traffmonetizer.yml:25 is the only one).
ASSUME OverrideAssumption ==
  \A e \in Catalogs : e.arm # NoImage => e.arm.repo = e.image.repo /\ e.arm.digest \in {"", e.image.digest}

VARIABLES entry,    \* the entry of the running release
          engine,   \* the daemon
          box,      \* the container, NoContainer when there is none
          boxRow,   \* the deployments row: [image, custom], NoRow
          stored,   \* keys with a stored value
          ignored,  \* DriftIgnored: what the mute is tied to
          muted     \* the entry the user saw when muting (history variable)

driftVars == <<entry, engine, box, boxRow, stored, ignored, muted>>

NoContainer == [is |-> "none"]
NoRow == [is |-> "none"]
NoMark == [is |-> "none"]

podmanDefaultCaps == {"CHOWN", "SETUID"}   \* two of the eleven names stand for the set
allowedDevices == {"tun"}

------------------------------------------------------------------------------
(* What a deploy builds. *)

IsRetired(status) == status \in {"dead", "broken", "dropped"}
ImageForArch(e, arch) == IF arch = "arm64" /\ e.arm # NoImage THEN e.arm ELSE e.image
Wanted(e, custom, arch) == IF custom # NoImage THEN custom ELSE ImageForArch(e, arch)

Declared(e) == {k \in Keys : e.env[k] # "none"}
Defaulted(e) == {k \in Keys : e.env[k] = "default"}
buildEnv(e, typed) == Defaulted(e) \cup (Declared(e) \cap typed)
validateRequired(e, typed) == \A k \in Keys : e.env[k] = "required" => k \in typed
\* A device outside the ceiling fails the deploy before anything is replaced.
Buildable(e) == e.devices \subseteq allowedDevices

\* The container as the daemon reports it.  A Windows daemon takes no capabilities; Podman
\* reports against its default set, Docker the request.  Privileged is asked for on every daemon.
shapeOf(e, image, keys, eng) ==
  LET caps == IF eng.os = "windows" THEN {} ELSE e.caps IN
  [is |-> "container", image |-> image, keys |-> keys, devices |-> e.devices, privileged |-> e.privileged,
   mounts |-> e.mounts, ports |-> e.ports, host |-> e.host, entrypoint |-> e.entrypoint,
   capAdd |-> IF eng.podman THEN caps \ podmanDefaultCaps ELSE caps,
   capDrop |-> IF eng.os = "windows" THEN {}
               ELSE IF eng.podman THEN podmanDefaultCaps \ caps ELSE {"ALL"}]

------------------------------------------------------------------------------
(* What the window says of it. *)

heldAsListed(c) == c.capAdd
heldCaps(c) == c.capAdd \cup (IF "ALL" \in c.capDrop THEN {} ELSE podmanDefaultCaps \ c.capDrop)

\* The keys a redeploy sets on its own.
wantEnv(e) == Defaulted(e)

ShapeDrift(e, c, custom, arch) ==
  LET want == Wanted(e, custom, arch)
      hardened == c.capDrop # {}
  IN  {<<"missing cap", x>> : x \in IF hardened THEN e.caps \ heldCaps(c) ELSE {}}
      \cup {<<"extra cap", x>> : x \in IF hardened THEN c.capAdd \ e.caps ELSE {}}
      \cup {<<"missing device", x>> : x \in e.devices \ c.devices}
      \cup {<<"extra device", x>> : x \in c.devices \ e.devices}
      \cup {<<"privileged", x>> : x \in {c.privileged} \ {FALSE, e.privileged}}
      \cup {<<"entrypoint", x>> : x \in {e.entrypoint} \ {"", c.entrypoint}}
      \cup {<<"host network", x>> : x \in {e.host} \ {c.host}}
      \cup {<<"missing port", x>> : x \in IF e.host \/ c.host THEN {} ELSE e.ports \ c.ports}
      \cup {<<"missing mount", x>> : x \in e.mounts \ c.mounts}
      \cup {<<"missing setting", x>> : x \in wantEnv(e) \ c.keys}
      \cup {<<"other tag", x>> : x \in IF want.own /\ want.repo = c.image.repo
                                       THEN {want.tag} \ {"", c.image.tag} ELSE {}}

ImageOutdated(deployed, catalogImage) ==
  \/ deployed.repo # catalogImage.repo
  \/ deployed.digest # catalogImage.digest /\ deployed.digest # "" /\ catalogImage.digest # ""

\* Hash of every judged field; status and notes are not among them.
FingerprintOfKeys(e) == [e EXCEPT !.status = "", !.env = Declared(e)]
ShapeFingerprint(e) == [e EXCEPT !.status = ""]

CustomOf == IF boxRow = NoRow THEN NoImage ELSE boxRow.custom
containerDrift == IF box = NoContainer THEN {} ELSE ShapeDrift(entry, box, CustomOf, engine.arch)
filterIgnoredDrift == IF ignored = ShapeFingerprint(entry) THEN {} ELSE containerDrift
outdatedServices ==
  boxRow # NoRow /\ ImageOutdated(boxRow.image, IF boxRow.custom # NoImage THEN boxRow.custom ELSE entry.image)

------------------------------------------------------------------------------
DriftInit ==
  /\ entry \in Catalogs /\ engine \in Engines
  /\ box = NoContainer /\ boxRow = NoRow /\ stored = {} /\ ignored = NoMark /\ muted = NoMark

\* The next release of the app carries another catalog.
Release ==
  /\ entry' \in Catalogs
  /\ UNCHANGED <<engine, box, boxRow, stored, ignored, muted>>

\* The setup form (typed), or a redeploy with what is stored (typed = {}); the image box
\* may be left out, which keeps the recorded choice.
Deploy(typed, custom) ==
  LET image == Wanted(entry, custom, engine.arch) IN
  /\ custom \in {CustomOf} \cup Images
  /\ ~IsRetired(entry.status)
  /\ validateRequired(entry, stored \cup typed)
  /\ Buildable(entry)
  /\ stored' = stored \cup typed
  /\ box' = shapeOf(entry, image, buildEnv(entry, stored'), engine)
  /\ boxRow' = [is |-> "row", image |-> image, custom |-> custom]
  /\ UNCHANGED <<entry, engine, ignored, muted>>

IgnoreDrift ==
  /\ filterIgnoredDrift # {}
  /\ ignored' = ShapeFingerprint(entry)
  /\ muted' = entry
  /\ UNCHANGED <<entry, engine, box, boxRow, stored>>

\* The user makes the container again by hand, another way; or moves to another daemon,
\* where it has to be deployed anew.
ByHand(e, keys) ==
  /\ box # NoContainer
  /\ box' = shapeOf(e, box.image, keys, engine)
  /\ UNCHANGED <<entry, engine, boxRow, stored, ignored, muted>>

Move ==
  /\ engine' \in Engines \ {engine}
  /\ box' = NoContainer
  /\ UNCHANGED <<entry, boxRow, stored, ignored, muted>>

DriftNext ==
  \/ Release \/ IgnoreDrift \/ Move
  \/ \E typed \in SUBSET Keys, custom \in Images \cup {CustomOf} : Deploy(typed, custom)
  \/ \E e \in Catalogs, keys \in SUBSET Keys : ByHand(e, keys)

DriftSpec == DriftInit /\ [][DriftNext]_driftVars

------------------------------------------------------------------------------
\* A redeploy clears both warnings: what a deploy has just built from the current catalog,
\* with whatever settings and image, on any daemon, is neither drifted nor outdated.
RedeployClears ==
  [][\A typed \in SUBSET Keys, custom \in Images \cup {CustomOf} :
       Deploy(typed, custom) => containerDrift' = {} /\ ~outdatedServices']_driftVars

\* A mute hides nothing new: every warning kept from the user now is one that this container
\* would have raised under the catalog the user was looking at when muting it.
MuteHidesNothingNew ==
  ignored # NoMark /\ box # NoContainer /\ filterIgnoredDrift = {}
    => containerDrift \subseteq ShapeDrift(muted, box, CustomOf, engine.arch)
==============================================================================
