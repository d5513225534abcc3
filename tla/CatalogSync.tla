----------------------------- MODULE CatalogSync -----------------------------
(***************************************************************************)
(* cmd/catalogsync and internal/catalogsync: the web catalog is fetched,   *)
(* the overlay applied to it, and the result compared with the vendored    *)
(* tree (-check) or written over it, file by file.                         *)
(*                                                                         *)
(* An entry is the part of its file the tool reads: the image reference,   *)
(* the legacy docker.tag key and the status; extra says that the overlay's *)
(* text is in the file.  A path stands for the slug of its entry.  Files   *)
(* whose name starts with "_" are entries without an image.                *)
(***************************************************************************)
EXTENDS Naturals
CONSTANTS EntryPaths,       \* paths of catalog files
          WebEntries,  \* per path, what the web catalog may publish there
          Overlays,    \* what catalog-overlay/ may hold: [pins, appends]
          MaxEdits     \* changes made to web, overlay or tree

VARIABLES web,      \* the web repository at the ref: [files, single]
          overlay,  \* catalog-overlay/: [pins : EntryPaths -> reference, appends]
          tree,     \* the vendored files: [files, single]
          run,      \* the run of the tool under way
          verdict,  \* the exit of the last run
          settled,  \* the tree was written by a whole run and nothing changed since
          edits     \* changes made so far

syncVars == <<web, overlay, tree, run, verdict, settled, edits>>

Imageless == [repo |-> "", tag |-> "", digest |-> ""]
Entry(image, tag, status) == [is |-> "file", image |-> image, tag |-> tag, status |-> status, extra |-> FALSE]
Nothing(is) == [Entry(Imageless, "", "") EXCEPT !.is = is]
Missing == Nothing("absent")
TornFile == Nothing("torn")

\* What the tool reads of a file, and what is published and pinned, is of that shape.
IsReference(x) == x = [repo |-> x.repo, tag |-> x.tag, digest |-> x.digest]
IsEntry(e) == /\ e = [is |-> e.is, image |-> e.image, tag |-> e.tag, status |-> e.status, extra |-> e.extra]
              /\ IsReference(e.image)
ASSUME SyncAssumption ==
  /\ \A p \in EntryPaths : \A e \in WebEntries[p] : IsEntry(e)
  /\ \A o \in Overlays : DOMAIN o.pins = EntryPaths /\ \A p \in EntryPaths : IsReference(o.pins[p])

\* sha256 followed by 64 lowercase hex characters, anything else resolves to nothing
HasDigestPin(image) == image.digest \in {"sha1", "sha2"}
Retired(status) == status \in {"dead", "broken", "dropped"}

\* The legacy tag counts where the image string carries none of its own.
upstreamReference(e) == IF e.image.tag = "" THEN [e.image EXCEPT !.tag = e.tag] ELSE e.image
needsPin(e) == e.image # Imageless /\ ~HasDigestPin(e.image) /\ ~Retired(e.status)
pinByRepo(pin, upstream) == HasDigestPin(pin) /\ pin.repo = upstream.repo
pinMatchesUpstream(pin, upstream) ==
  HasDigestPin(pin) /\ pin.repo = upstream.repo /\ pin.tag = upstream.tag

\* Overlay and web catalog contradict each other: Apply fails and nothing is written.
Disagrees(upstream, pins) ==
  \E p \in EntryPaths :
    IF pins[p] # Imageless
      THEN ~(/\ upstream[p] # Missing
             /\ needsPin(upstream[p])
             /\ pinMatchesUpstream(pins[p], upstreamReference(upstream[p])))
      ELSE upstream[p] # Missing /\ needsPin(upstream[p])

\* What the tree must contain.
Apply(upstream, over) ==
  [p \in EntryPaths |->
    LET pinned == IF over.pins[p] = Imageless THEN upstream[p]
                  ELSE [upstream[p] EXCEPT !.image = over.pins[p]]
    IN IF p \in over.appends THEN [pinned EXCEPT !.is = "file", !.extra = TRUE] ELSE pinned]

\* Files the web catalog no longer has are deleted.
Stale(want, have) == {p \in EntryPaths : want[p] = Missing /\ have[p] # Missing}
Diff(want, have) == {p \in EntryPaths : want[p] # have[p]}

RunAt(at, check) == [at |-> at, check |-> check, attempt |-> 1, touched |-> FALSE, left |-> {}, stale |-> {},
                    seen |-> [files |-> [p \in EntryPaths |-> Missing], single |-> "none"],
                    want |-> [p \in EntryPaths |-> Missing]]
NoRun == RunAt("idle", FALSE)
Exit(v) == run' = NoRun /\ verdict' = v

------------------------------------------------------------------------------
SyncInit ==
  /\ web \in [files : {f \in [EntryPaths -> UNION {WebEntries[p] : p \in EntryPaths}] : \A p \in EntryPaths : f[p] \in WebEntries[p]},
              single : {"v1"}]
  /\ overlay \in Overlays
  /\ ~Disagrees(web.files, overlay.pins)
  /\ tree = [files |-> Apply(web.files, overlay), single |-> "v1"]
  /\ run = NoRun /\ verdict = "none" /\ settled = TRUE /\ edits = 0

Invoke(check) ==
  /\ run = NoRun
  /\ run' = RunAt("fetch", check)
  /\ verdict' = "none"
  /\ UNCHANGED <<web, overlay, tree, settled, edits>>

fetchAttempts == 3

\* A ref that does not exist is not asked for again; anything else is, up to the last attempt.
TarballFails ==
  /\ run.at = "fetch"
  /\ \/ Exit("failure")
     \/ run.attempt < fetchAttempts /\ run' = [run EXCEPT !.attempt = @ + 1] /\ UNCHANGED verdict
  /\ UNCHANGED <<web, overlay, tree, settled, edits>>

\* One tarball is one revision of the web repository.
Fetched ==
  /\ run.at = "fetch"
  /\ run' = [run EXCEPT !.at = "apply", !.seen = web]
  /\ UNCHANGED <<web, overlay, tree, verdict, settled, edits>>

SingleDiffers(seen, local) == seen # "none" /\ seen # local

\* The overlay is read and applied; a check answers, a sync reads the tree it will replace.
Compare ==
  /\ run.at = "apply"
  /\ IF \/ \A p \in EntryPaths : run.seen.files[p] = Missing
        \/ Disagrees(run.seen.files, overlay.pins)
       THEN Exit("failure")
       ELSE LET want == Apply(run.seen.files, overlay) IN
            IF run.check
              THEN Exit(IF Diff(want, tree.files) = {} /\ ~SingleDiffers(run.seen.single, tree.single)
                        THEN "matches" ELSE "drift")
              ELSE /\ run' = [run EXCEPT !.at = "write", !.want = want,
                                         !.left = {p \in EntryPaths : want[p] # Missing},
                                         !.stale = Stale(want, tree.files)]
                   /\ UNCHANGED verdict
  /\ UNCHANGED <<web, overlay, tree, settled, edits>>

\* writeDir in the order of a map; what the web no longer has is deleted after all writes.
Write(p) ==
  /\ run.at = "write" /\ p \in run.left
  /\ tree' = [tree EXCEPT !.files[p] = run.want[p]]
  /\ run' = [run EXCEPT !.left = @ \ {p}]
  /\ UNCHANGED <<web, overlay, verdict, settled, edits>>

WriteSingle ==
  /\ run.at = "write" /\ run.left = {} /\ run.stale = {}
  /\ tree' = [tree EXCEPT !.single = IF run.seen.single = "none" THEN @ ELSE run.seen.single]
  /\ settled' = ~run.touched
  /\ Exit("synced")
  /\ UNCHANGED <<web, overlay, edits>>

Delete(p) ==
  /\ run.at = "write" /\ run.left = {} /\ p \in run.stale
  /\ tree.files[p] # Missing
  /\ tree' = [tree EXCEPT !.files[p] = Missing]
  /\ run' = [run EXCEPT !.stale = @ \ {p}]
  /\ UNCHANGED <<web, overlay, verdict, settled, edits>>

\* A write or a removal fails, or the tool is killed: os.WriteFile truncates first.
Breaks ==
  /\ run.at = "write"
  /\ \/ \E p \in run.left : tree' = [tree EXCEPT !.files[p] = TornFile]
     \/ run.left = {} /\ run.stale = {} /\ tree' = [tree EXCEPT !.single = "torn"]
     \/ UNCHANGED tree
  /\ Exit("failure")
  /\ settled' = FALSE
  /\ UNCHANGED <<web, overlay, edits>>

\* The web repository moves on, the overlay is edited, a vendored file is edited by hand.
Edit ==
  /\ edits < MaxEdits
  /\ edits' = edits + 1
  /\ settled' = FALSE
  /\ run' = IF run = NoRun THEN NoRun ELSE [run EXCEPT !.touched = TRUE]
  /\ \/ \E p \in EntryPaths : \E e \in WebEntries[p] : web' = [web EXCEPT !.files[p] = e] /\ UNCHANGED <<overlay, tree>>
     \/ \E s \in {"none", "v2"} : web' = [web EXCEPT !.single = s] /\ UNCHANGED <<overlay, tree>>
     \/ overlay' \in Overlays /\ UNCHANGED <<web, tree>>
     \/ \E p \in EntryPaths : \E e \in WebEntries[p] : tree' = [tree EXCEPT !.files[p] = e] /\ UNCHANGED <<web, overlay>>
  /\ UNCHANGED verdict

SyncNext ==
  \/ \E check \in BOOLEAN : Invoke(check)
  \/ TarballFails \/ Fetched \/ Compare
  \/ \E p \in EntryPaths : Write(p)
  \/ \E p \in EntryPaths : Delete(p)
  \/ WriteSingle \/ Breaks \/ Edit

SyncSpec == SyncInit /\ [][SyncNext]_syncVars

------------------------------------------------------------------------------
\* When -check says that the tree matches, every live entry of the web catalog that names an
\* image is vendored with a digest that resolves, of the repository and tag the web names,
\* whatever was edited or half written before.
MatchingIsPinned ==
  verdict # "matches" /\ verdict' = "matches" =>
    \A p \in EntryPaths :
      LET theirs == run.seen.files[p]
          ours == tree.files[p].image
      IN theirs.image # Imageless /\ ~Retired(theirs.status)
           => /\ HasDigestPin(ours)
              /\ ours.repo = theirs.image.repo
              /\ IF HasDigestPin(theirs.image) THEN ours = theirs.image
                 ELSE ours.tag = upstreamReference(theirs).tag

\* A tree that a run wrote to its end is what the next run finds in order: as long as nothing
\* is edited a check never reports drift, whatever earlier runs left half written.
SyncedIsInOrder == settled => verdict' # "drift"

\* A check tells the truth both ways (cmd/catalog-sync).
SyncIsSound == [][MatchingIsPinned /\ SyncedIsInOrder]_syncVars
==============================================================================
