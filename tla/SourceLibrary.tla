--------------------------- MODULE SourceLibrary ---------------------------
(***************************************************************************)
(* What the editor derives from a library for the console: the artwork of   *)
(* its entries, the bitmap fonts, the patched resources of the game/ tree   *)
(* (runtime_assets.rs, usb.rs, fonts.rs), the native settings files and the *)
(* two markers that make the console read the library itself, written by    *)
(* source_library::prepare at every opening and, for libraries without the  *)
(* console's runtime, by the legacy publication (publish_pipeline.rs).      *)
(*                                                                          *)
(* Five jobs of the editor run: an opening, a publication, the import of a  *)
(* cover, the save of the catalogue and the save of the genres.  The first  *)
(* three are modal.  A job is a program counter; every file it writes is a  *)
(* step, after which it may fail and the editor may be killed.              *)
(*                                                                          *)
(* One game stands for all entries: its cover image, the shape its metadata *)
(* give it, its title, and the sleeve of a retail game.                     *)
(***************************************************************************)
EXTENDS Naturals, FiniteSets, TLC

CONSTANTS Covers, Shapes,    \* cover images; geometries in game.json
          Chars,             \* titles and genres, one character each
          Unsupported,       \* the characters no font can be made with
          Fonts,             \* the bitmap fonts of the console
          None,
          Faults,            \* subset of {"write", "kill", "tear"}
          MaxFaults,         \* bound: faults in a behaviour
          MaxEdits,          \* bound: changes the user makes
          Patient            \* the user opens a library once the last save ended

ASSUME CharsAssumption == Unsupported \subseteq Chars /\ "ui" \notin Fonts

Resources == Fonts \cup {"ui"}
Contents == [kind : {"absent", "orig", "made", "torn"}, chars : SUBSET Chars]
Absent == [kind |-> "absent", chars |-> {}]
Orig == [kind |-> "orig", chars |-> {}]
Torn == [kind |-> "torn", chars |-> {}]
Made(chars) == [kind |-> "made", chars |-> chars]

\* Files that are written whole, have no other version and are replaced by none.
Parts == {"profile", "bootstrap", "store", "motion", "clear", "back", "scripts"}

Workers == {"open", "publish", "cover", "save", "genre"}
Modal == {"open", "publish", "cover"}
Remembered == {"open", "save", "genre"}    \* whose last answer still matters

VARIABLES
    cover, shape, title, genre, sleeve,    \* the library: cover.png, game.json, settings
    art, dirty,                            \* runtime/ of the game, its retry flag
    base, live, fontMark, have,            \* templates/, game/, the marker of the fonts
    data, meta, markers,                   \* the settings pair; the two opt-in markers
    up, shown, view, asked, job, failed,   \* the window, its jobs, the failures it knows
    coverLock, fontLock,                   \* COVER_UPDATE, FONT_UPDATE
    edits, faults, spoiled                 \* bounds and history

metadata == <<cover, shape, title, genre, sleeve>>
artwork == <<art, dirty>>
tree == <<base, live, fontMark, have>>
settings == <<data, meta>>
window == <<up, shown, view, asked, edits>>
locks == <<coverLock, fontLock>>
history == <<faults, spoiled>>
vars == <<metadata, artwork, tree, settings, markers, window, job, failed, locks, history>>

-----------------------------------------------------------------------------
(* What the code computes from the disk. *)

Enabled == "v2" \in markers
OnDisk == [title |-> title, shape |-> shape]
CanPrepare == Enabled \/ "runtime" \in have

\* The hash of everything the artwork of the entry is made from.  Strips count
\* once their geometry exists.
Revision == [cover |-> cover, shape |-> shape,
             sleeve |-> IF sleeve \in {"legacy", "whole"} THEN sleeve ELSE "none"]
Revisions == [cover : Covers, shape : Shapes, sleeve : {"none", "legacy", "whole"}]
ASSUME NoneAssumption == None \notin Workers \cup Revisions

\* A descriptor is reused for its revision while its two files are whole.
ValidCache(rev) == art.named = rev /\ rev \in art.covers \cap art.thumbs

\* The characters the fonts must have.
Glyphs == {title, genre}

\* has_user_state looks for anything but zeros in the first 4 KiB; of a torn
\* file it may see either.
HasUserState ==
    CASE data \in {"prefs", "user"} -> {TRUE}
      [] data = "torn" /\ "prefs" \in have -> BOOLEAN
      [] OTHER -> {FALSE}

FreshData == IF "prefs" \in have THEN "prefs" ELSE "blank"

\* fonts::generate needs a whole original and a glyph for every character.
CanGenerate(chars) ==
    /\ chars \cap Unsupported = {}
    /\ \A f \in Fonts : base[f] # Torn

-----------------------------------------------------------------------------
(* Jobs. *)

IdleJob == [at |-> "idle", rev |-> None, old |-> None, chars |-> {}, todo |-> {},
            cover |-> None, shape |-> None, title |-> None]
At(w, pc) == up /\ job[w].at = pc
Goto(w, pc) == job' = [job EXCEPT ![w].at = pc]
AllIdle == \A w \in Workers : job[w].at = "idle"
UserActs == up /\ \A w \in Modal : job[w].at = "idle"

Release(lock, w) == IF lock = w THEN None ELSE lock
Unlock(w) == coverLock' = Release(coverLock, w) /\ fontLock' = Release(fontLock, w)

End(w, outcome) ==
    /\ job' = [job EXCEPT ![w] = IdleJob]
    /\ failed' = IF outcome = "failed" THEN failed \cup ({w} \cap Remembered) ELSE failed \ {w}
    /\ Unlock(w)

-----------------------------------------------------------------------------
(* The window. *)

Start ==
    /\ ~up /\ AllIdle
    /\ up' = TRUE
    /\ UNCHANGED <<metadata, artwork, tree, settings, markers, shown, view, asked, edits, job,
                   failed, locks, history>>

\* The last snapshot is written; the user leaves with nothing pending.
Close ==
    /\ up /\ AllIdle /\ ~asked
    /\ up' = FALSE /\ shown' = FALSE /\ failed' = {} /\ view' = OnDisk
    /\ UNCHANGED <<metadata, artwork, tree, settings, markers, asked, edits, job, locks, history>>

\* Change the title or the shape of the game: the debounce starts.
Edit(t, s) ==
    /\ UserActs /\ shown
    /\ edits < MaxEdits
    /\ [title |-> t, shape |-> s] # view
    /\ t = view.title \/ s = view.shape
    /\ view' = [title |-> t, shape |-> s]
    /\ asked' = TRUE
    /\ edits' = edits + 1
    /\ UNCHANGED <<metadata, artwork, tree, settings, markers, up, shown, job, failed, locks,
                   history>>

\* The snapshot is taken when the save starts, one save at a time.
BeginSave ==
    /\ up /\ asked /\ job.save.at = "idle"
    /\ asked' = FALSE
    /\ job' = [job EXCEPT !.save.at = "lock", !.save.title = view.title, !.save.shape = view.shape]
    /\ UNCHANGED <<metadata, artwork, tree, settings, markers, up, shown, view, edits, failed,
                   locks, history>>

BeginGenre(g) ==
    /\ UserActs /\ shown /\ job.genre.at = "idle"
    /\ edits < MaxEdits /\ g # genre
    /\ edits' = edits + 1
    /\ job' = [job EXCEPT !.genre.at = "settingsFile", !.genre.title = g]
    /\ UNCHANGED <<metadata, artwork, tree, settings, markers, up, shown, view, asked, failed,
                   locks, history>>

\* Imports and publications save first and wait for it.
BeginModal(w, c) ==
    /\ UserActs /\ shown
    /\ IF w = "cover" THEN edits < MaxEdits /\ edits' = edits + 1
                      ELSE w = "publish" /\ ~Enabled /\ c = cover /\ edits' = edits
    /\ asked' = TRUE
    /\ job' = [job EXCEPT ![w].at = "await", ![w].cover = c]
    /\ UNCHANGED <<metadata, artwork, tree, settings, markers, up, shown, view, failed, locks,
                   history>>

Saved == ~asked /\ job.save.at = "idle"

AwaitSave(w) ==
    /\ At(w, "await") /\ Saved /\ "save" \notin failed
    /\ Goto(w, IF w = "cover" THEN "lock" ELSE "store")
    /\ UNCHANGED <<metadata, artwork, tree, settings, markers, window, failed, locks, history>>

\* load_library: only libraries with the console's runtime are prepared.
BeginOpen ==
    /\ UserActs
    /\ Patient => Saved /\ job.genre.at = "idle"
    /\ CanPrepare
    /\ Goto("open", "profile")
    /\ UNCHANGED <<metadata, artwork, tree, settings, markers, window, failed, locks, history>>

Show ==
    /\ shown' = TRUE
    /\ view' = OnDisk

OpenBare ==
    /\ UserActs
    /\ Patient => Saved /\ job.genre.at = "idle"
    /\ ~CanPrepare
    /\ Show
    /\ failed' = failed \ {"open"}
    /\ UNCHANGED <<metadata, artwork, tree, settings, markers, up, asked, edits, job, locks,
                   history>>

-----------------------------------------------------------------------------
(* Files with one version. *)

Successor(w, part) ==
    CASE part = "profile"   -> "bootstrap"
      [] part = "bootstrap" -> "settings"
      [] part = "store"     -> IF w = "open" THEN "sleeve" ELSE "pubFonts"
      [] part = "motion"    -> "uiKeep"
      [] part = "clear"     -> "back"
      [] part = "back"      -> "read"
      [] part = "scripts"   -> IF w = "open" THEN "perGame" ELSE "install"

InstallPart(w) ==
    /\ up /\ job[w].at \in Parts
    /\ have' = have \cup {job[w].at}
    /\ job' = [job EXCEPT ![w].at = Successor(w, @),
                          ![w].todo = IF Successor(w, job[w].at) \in {"pubFonts", "install"}
                                      THEN Fonts ELSE {}]
    /\ UNCHANGED <<metadata, artwork, base, live, fontMark, settings, markers, window, failed,
                   locks, history>>

-----------------------------------------------------------------------------
(* The native settings: prepare_native_working_save_source for an opening,   *)
(* emit_data_008_with_save_schema for both.                                  *)

AfterSettings(w) == IF w = "open" THEN "store" ELSE "scripts"

CheckSettings(w) ==
    /\ At(w, "settings")
    /\ \/ w = "open" /\ data # "none" /\ meta # "none" /\ Goto(w, "store")
       \/ w = "open" /\ data # "none" /\ meta = "none" /\ Goto(w, "meta")
       \/ w = "open" /\ data = "none" /\ meta = "none" /\ Goto(w, "data")
       \/ w = "publish" /\ \E keep \in HasUserState : Goto(w, IF keep THEN "scripts" ELSE "data")
    /\ UNCHANGED <<metadata, artwork, tree, settings, markers, window, failed, locks, history>>

WriteData(w) ==
    /\ At(w, "data")
    /\ data' = FreshData
    /\ Goto(w, "meta")
    /\ UNCHANGED <<metadata, artwork, tree, meta, markers, window, failed, locks, history>>

\* system_save_metadata: the length and the digest of the data.
WriteMeta(w) ==
    /\ At(w, "meta")
    /\ meta' = data
    /\ Goto(w, AfterSettings(w))
    /\ UNCHANGED <<metadata, artwork, tree, data, markers, window, failed, locks, history>>

-----------------------------------------------------------------------------
(* The sleeve of a retail game: prepare_stock_entry_assets.                  *)

CheckSleeve ==
    /\ At("open", "sleeve")
    /\ \/ sleeve \in {"plain", "whole"} /\ Goto("open", "motion") /\ UNCHANGED sleeve
       \/ sleeve = "legacy" /\ Goto("open", "motion") /\ sleeve' = "whole"
       \/ sleeve = "none" /\ Goto("open", "left") /\ UNCHANGED sleeve
    /\ UNCHANGED <<cover, shape, title, genre, artwork, tree, settings, markers, window, failed,
                   locks, history>>

\* The two strips, then the geometry that commits them.
WriteSleeve ==
    /\ \/ At("open", "left") /\ sleeve' = "left" /\ Goto("open", "right")
       \/ At("open", "right") /\ sleeve' = "both" /\ Goto("open", "geometry")
       \/ At("open", "geometry") /\ sleeve' = "whole" /\ Goto("open", "motion")
    /\ UNCHANGED <<cover, shape, title, genre, artwork, tree, settings, markers, window, failed,
                   locks, history>>

\* A bug: the strips of a failed attempt stay.
RollbackNothing(s) == s

\* On an error the bytes of this attempt are removed, unless it was committed.
Rollback(s) == IF s \in {"left", "both"} THEN "none" ELSE s

-----------------------------------------------------------------------------
(* Originals are preserved before their live copies are replaced.            *)

\* A bug: the live copy is replaced first.
KeepUiLate ==
    /\ At("open", "uiKeep")
    /\ live' = [live EXCEPT !["ui"] = Made({})]
    /\ Goto("open", "ui")
    /\ UNCHANGED <<metadata, artwork, base, fontMark, have, settings, markers, window, failed,
                   locks, history>>

\* original_resource for the user interface.
KeepUi ==
    /\ At("open", "uiKeep")
    /\ base' = [base EXCEPT !["ui"] = IF @ = Absent THEN live["ui"] ELSE @]
    /\ Goto("open", "ui")
    /\ UNCHANGED <<metadata, artwork, live, fontMark, have, settings, markers, window, failed,
                   locks, history>>

PatchUi ==
    /\ At("open", "ui")
    /\ base["ui"].kind = "orig"
    /\ live' = [live EXCEPT !["ui"] = Made({})]
    /\ Goto("open", "clear")
    /\ UNCHANGED <<metadata, artwork, base, fontMark, have, settings, markers, window, failed,
                   locks, history>>

-----------------------------------------------------------------------------
(* The artwork of an entry: prepare_entry_assets, under the cover lock except *)
(* when a library is opened.                                                  *)

TakeCoverLock(w) ==
    /\ At(w, "lock") /\ coverLock = None
    /\ coverLock' = w
    /\ Goto(w, IF w = "save" THEN "compareShape" ELSE IF Enabled THEN "flag" ELSE "png")
    /\ UNCHANGED <<metadata, artwork, tree, settings, markers, window, failed, fontLock, history>>

\* A bug: a changed shape is not flagged.
ChangedNever == FALSE

Changed == job.save.shape # shape

\* save_game_json_locked: the retry flag comes before the new metadata.
CompareShape ==
    /\ At("save", "compareShape")
    /\ Goto("save", IF Enabled /\ Changed THEN "flag" ELSE "json")
    /\ UNCHANGED <<metadata, artwork, tree, settings, markers, window, failed, locks, history>>

MarkCoverDirty(w) ==
    /\ At(w, "flag")
    /\ dirty' = TRUE
    /\ Goto(w, IF w = "save" THEN "json" ELSE "png")
    /\ UNCHANGED <<metadata, art, tree, settings, markers, window, failed, locks, history>>

\* Artwork is made if the inputs changed, or an earlier attempt failed.
WriteJson ==
    /\ At("save", "json")
    /\ title' = job.save.title /\ shape' = job.save.shape
    /\ Goto("save", IF Enabled /\ (Changed \/ dirty) THEN "read" ELSE "unlock")
    /\ UNCHANGED <<cover, genre, sleeve, artwork, tree, settings, markers, window, failed, locks,
                   history>>

WritePng ==
    /\ At("cover", "png")
    /\ cover' = job.cover.cover
    /\ Goto("cover", IF Enabled THEN "read" ELSE "unlock")
    /\ UNCHANGED <<shape, title, genre, sleeve, artwork, tree, settings, markers, window, failed,
                   locks, history>>

AfterArt(w) == IF w = "open" THEN "fonts" ELSE "clearFlag"

\* The inputs are hashed, then the previous descriptor is read.
ReadInputs(w) ==
    /\ At(w, "read")
    /\ job' = [job EXCEPT ![w].at = "previous", ![w].rev = Revision]
    /\ UNCHANGED <<metadata, artwork, tree, settings, markers, window, failed, locks, history>>

ReadPrevious(w) ==
    /\ At(w, "previous")
    /\ job' = [job EXCEPT ![w].at = IF ValidCache(job[w].rev) THEN AfterArt(w) ELSE "coverFile",
                          ![w].old = art.named]
    /\ UNCHANGED <<metadata, artwork, tree, settings, markers, window, failed, locks, history>>

\* A bug: the descriptor is written before the files it names.
WriteArtDescriptorFirst(w) ==
    /\ up
    /\ \/ At(w, "coverFile") /\ art' = [art EXCEPT !.named = job[w].rev] /\ Goto(w, "thumbFile")
       \/ At(w, "thumbFile") /\ art' = [art EXCEPT !.thumbs = @ \cup {job[w].rev}]
                             /\ Goto(w, "descriptor")
       \/ At(w, "descriptor") /\ art' = [art EXCEPT !.covers = @ \cup {job[w].rev}]
                              /\ Goto(w, "sweep")
    /\ UNCHANGED <<metadata, dirty, tree, settings, markers, window, failed, locks, history>>

\* The descriptor is committed last.
WriteArt(w) ==
    /\ up
    /\ \/ At(w, "coverFile") /\ art' = [art EXCEPT !.covers = @ \cup {job[w].rev}]
                             /\ Goto(w, "thumbFile")
       \/ At(w, "thumbFile") /\ art' = [art EXCEPT !.thumbs = @ \cup {job[w].rev}]
                             /\ Goto(w, "descriptor")
       \/ At(w, "descriptor") /\ art' = [art EXCEPT !.named = job[w].rev] /\ Goto(w, "sweep")
    /\ UNCHANGED <<metadata, dirty, tree, settings, markers, window, failed, locks, history>>

\* The current and the previous revision stay.
Sweep(w) ==
    /\ At(w, "sweep")
    /\ LET kept == {job[w].rev, job[w].old}
       IN art' = [art EXCEPT !.covers = @ \cap kept, !.thumbs = @ \cap kept]
    /\ Goto(w, AfterArt(w))
    /\ UNCHANGED <<metadata, dirty, tree, settings, markers, window, failed, locks, history>>

ClearFlag(w) ==
    /\ At(w, "clearFlag")
    /\ dirty' = FALSE
    /\ Goto(w, "unlock")
    /\ UNCHANGED <<metadata, art, tree, settings, markers, window, failed, locks, history>>

ReleaseCoverLock(w) ==
    /\ At(w, "unlock")
    /\ \/ w = "save" /\ Enabled
          /\ Goto(w, "fonts") /\ coverLock' = None /\ UNCHANGED <<failed, fontLock>>
       \/ (w = "cover" \/ ~Enabled) /\ End(w, "ok")
    /\ UNCHANGED <<metadata, artwork, tree, settings, markers, window, history>>

-----------------------------------------------------------------------------
(* The fonts: prepare_runtime_fonts, and the genres that also need them.      *)

WriteGenres ==
    /\ At("genre", "settingsFile")
    /\ genre' = job.genre.title
    /\ IF Enabled THEN Goto("genre", "fonts") /\ UNCHANGED <<failed, locks>> ELSE End("genre", "ok")
    /\ UNCHANGED <<cover, shape, title, sleeve, artwork, tree, settings, markers, window, history>>

\* A bug: the library is read before the lock is taken.
TakeFontLockStale(w) ==
    /\ \/ At(w, "fonts") /\ job[w].chars = {}
          /\ job' = [job EXCEPT ![w].chars = Glyphs] /\ UNCHANGED fontLock
       \/ At(w, "fonts") /\ job[w].chars # {} /\ fontLock = None
          /\ fontLock' = w /\ Goto(w, "keep")
    /\ UNCHANGED <<metadata, artwork, tree, settings, markers, window, failed, coverLock, history>>

\* The library is read under the lock that covers the installation.
TakeFontLock(w) ==
    /\ At(w, "fonts") /\ fontLock = None
    /\ fontLock' = w
    /\ job' = [job EXCEPT ![w].at = "keep", ![w].chars = Glyphs]
    /\ UNCHANGED <<metadata, artwork, tree, settings, markers, window, failed, coverLock, history>>

KeepFont(w) ==
    /\ At(w, "keep")
    /\ \/ \E f \in Fonts : base[f] = Absent /\ base' = [base EXCEPT ![f] = live[f]] /\ UNCHANGED job
       \/ (\A f \in Fonts : base[f] # Absent) /\ Goto(w, "compare") /\ UNCHANGED base
    /\ UNCHANGED <<metadata, artwork, live, fontMark, have, settings, markers, window, failed,
                   locks, history>>

\* The marker names the characters and the digest of every file.
FontsCached(chars) == fontMark = chars /\ \A f \in Fonts : live[f] = Made(chars)

AfterFonts(w) ==
    \/ w = "open" /\ Goto(w, "scripts") /\ Unlock(w) /\ UNCHANGED failed
    \/ w # "open" /\ End(w, "ok")

\* A bug: fonts that cannot be made are a warning.
CompareFontsTolerant(w) ==
    /\ At(w, "compare")
    /\ IF FontsCached(job[w].chars) \/ ~CanGenerate(job[w].chars)
       THEN AfterFonts(w)
       ELSE /\ job' = [job EXCEPT ![w].at = "write", ![w].todo = Fonts]
            /\ UNCHANGED <<failed, locks>>
    /\ UNCHANGED <<metadata, artwork, tree, settings, markers, window, history>>

CompareFonts(w) ==
    /\ At(w, "compare")
    /\ LET chars == job[w].chars IN
       \/ FontsCached(chars) /\ AfterFonts(w)
       \/ ~FontsCached(chars) /\ CanGenerate(chars)
          /\ job' = [job EXCEPT ![w].at = "write", ![w].todo = Fonts]
          /\ UNCHANGED <<failed, locks>>
    /\ UNCHANGED <<metadata, artwork, tree, settings, markers, window, history>>

WriteFont(w) ==
    /\ At(w, "write")
    /\ \E f \in job[w].todo :
         /\ live' = [live EXCEPT ![f] = Made(job[w].chars)]
         /\ job' = [job EXCEPT ![w].todo = @ \ {f},
                               ![w].at = IF job[w].todo = {f} THEN "markFonts" ELSE "write"]
    /\ UNCHANGED <<metadata, artwork, base, fontMark, have, settings, markers, window, failed,
                   locks, history>>

MarkFonts(w) ==
    /\ At(w, "markFonts")
    /\ fontMark' = job[w].chars
    /\ AfterFonts(w)
    /\ UNCHANGED <<metadata, artwork, base, live, have, settings, markers, window, history>>

-----------------------------------------------------------------------------
(* What only a publication does: fonts::prepare and fonts::install.           *)

Source(f) == IF base[f] = Absent THEN live[f] ELSE base[f]

\* Each font is generated, and its original copied to the templates.
PublishFonts ==
    /\ At("publish", "pubFonts")
    /\ \E f \in job.publish.todo :
         /\ Source(f).kind = "orig" /\ title \notin Unsupported
         /\ base' = [base EXCEPT ![f] = Source(f)]
         /\ job' = [job EXCEPT !.publish.todo = @ \ {f}, !.publish.chars = {title},
                               !.publish.at = IF job.publish.todo = {f} THEN "settings"
                                              ELSE "pubFonts"]
    /\ UNCHANGED <<metadata, artwork, live, fontMark, have, settings, markers, window, failed,
                   locks, history>>

InstallFont ==
    /\ At("publish", "install")
    /\ \E f \in job.publish.todo :
         /\ live' = [live EXCEPT ![f] = Made(job.publish.chars)]
         /\ job' = [job EXCEPT !.publish.todo = @ \ {f},
                               !.publish.at = IF job.publish.todo = {f} THEN "perGame"
                                              ELSE "install"]
    /\ UNCHANGED <<metadata, artwork, base, fontMark, have, settings, markers, window, failed,
                   locks, history>>

-----------------------------------------------------------------------------
(* The markers, last. *)

MarkPerGame(w) ==
    /\ At(w, "perGame")
    /\ markers' = markers \cup {"perGame"}
    /\ IF w = "open" THEN Goto(w, "v2") /\ UNCHANGED <<failed, locks>> ELSE End(w, "ok")
    /\ UNCHANGED <<metadata, artwork, tree, settings, window, history>>

MarkLibrary ==
    /\ At("open", "v2")
    /\ markers' = markers \cup {"v2"}
    /\ End("open", "ok")
    /\ Show
    /\ UNCHANGED <<metadata, artwork, tree, settings, up, asked, edits, history>>

-----------------------------------------------------------------------------
(* What a job refuses, and what may befall it. *)

Refused(w) ==
    \/ At(w, "await") /\ Saved /\ "save" \in failed
    \/ At(w, "sleeve") /\ sleeve \in {"left", "both"}
    \/ At(w, "settings") /\ w = "open" /\ data = "none" /\ meta # "none"
    \/ At(w, "compare") /\ ~FontsCached(job[w].chars) /\ ~CanGenerate(job[w].chars)
    \/ At(w, "pubFonts") /\ \/ title \in Unsupported
                            \/ \E f \in job[w].todo : Source(f).kind # "orig"

Refuse(w) ==
    /\ Refused(w)
    /\ End(w, "failed")
    /\ UNCHANGED <<metadata, artwork, tree, settings, markers, window, history>>

Fault(kind) ==
    /\ kind \in Faults
    /\ faults < MaxFaults
    /\ faults' = faults + 1

WritePcs == Parts \cup {"data", "meta", "left", "right", "geometry", "uiKeep", "ui", "flag", "json",
    "png", "coverFile", "thumbFile", "descriptor", "clearFlag", "settingsFile", "keep", "write",
    "markFonts", "pubFonts", "install", "perGame", "v2"}

\* A write fails and replaces nothing.
WriteFails(w) ==
    /\ Fault("write")
    /\ up /\ job[w].at \in WritePcs
    /\ sleeve' = IF job[w].at \in {"left", "right", "geometry"} THEN Rollback(sleeve) ELSE sleeve
    /\ End(w, "failed")
    /\ UNCHANGED <<cover, shape, title, genre, artwork, tree, settings, markers, window, spoiled>>

\* The geometry is installed, but its directory is not synced.
GeometryFailsLate ==
    /\ Fault("write")
    /\ At("open", "geometry")
    /\ sleeve' = "whole"
    /\ End("open", "failed")
    /\ UNCHANGED <<cover, shape, title, genre, artwork, tree, settings, markers, window, spoiled>>

Gone ==
    /\ up' = FALSE /\ shown' = FALSE /\ asked' = FALSE
    /\ job' = [w \in Workers |-> IdleJob]
    /\ coverLock' = None /\ fontLock' = None
    /\ failed' = {} /\ view' = OnDisk
    /\ UNCHANGED edits

Kill ==
    /\ Fault("kill")
    /\ up
    /\ Gone
    /\ spoiled' = (spoiled \/ sleeve \in {"left", "both"})
    /\ UNCHANGED <<metadata, artwork, tree, settings, markers>>

\* Four writes replace a file in place: a kill leaves a part of it.
KillTearing(w) ==
    /\ Fault("tear")
    /\ \/ At(w, "data") /\ data' = "torn" /\ UNCHANGED <<meta, base, live>>
       \/ At(w, "meta") /\ w = "publish" /\ meta' = "torn" /\ UNCHANGED <<data, base, live>>
       \/ At(w, "pubFonts") /\ UNCHANGED <<settings, live>>
          /\ \E f \in job[w].todo : base[f] = Absent /\ base' = [base EXCEPT ![f] = Torn]
       \/ At(w, "install") /\ UNCHANGED <<settings, base>>
          /\ \E f \in job[w].todo : live' = [live EXCEPT ![f] = Torn]
    /\ Gone
    /\ spoiled' = TRUE
    /\ UNCHANGED <<metadata, artwork, fontMark, have, markers>>


-----------------------------------------------------------------------------
(* The world outside: the user copies the console's dump into game/, and      *)
(* plays on the console, which rewrites the settings pair.                    *)

UserCopiesRuntime ==
    /\ AllIdle /\ "runtime" \notin have
    /\ have' = have \cup {"runtime"}
    /\ live' = [r \in Resources |-> Orig]
    /\ UNCHANGED <<metadata, artwork, base, fontMark, settings, markers, window, job, failed,
                   locks, history>>

Play ==
    /\ AllIdle /\ ~asked
    /\ {"runtime", "scripts"} \subseteq have
    /\ data = meta /\ data \in {"blank", "prefs"}
    /\ data' = "user" /\ meta' = "user"
    /\ UNCHANGED <<metadata, artwork, tree, markers, window, job, failed, locks, history>>

-----------------------------------------------------------------------------
Init ==
    /\ cover \in Covers /\ shape \in Shapes
    /\ title \in Chars \ Unsupported /\ genre = title
    /\ sleeve \in {"plain", "none", "legacy"}
    /\ art = [covers |-> {}, thumbs |-> {}, named |-> None] /\ dirty = FALSE
    /\ have \in SUBSET {"runtime", "prefs"}
    /\ live = [r \in Resources |-> IF "runtime" \in have THEN Orig ELSE Absent]
    /\ \E file \in {Absent, Orig} : base = [r \in Resources |-> file]
    /\ fontMark = None
    /\ data = "none" /\ meta = "none" /\ markers = {}
    /\ up = FALSE /\ shown = FALSE /\ asked = FALSE
    /\ view = OnDisk
    /\ job = [w \in Workers |-> IdleJob]
    /\ failed = {}
    /\ coverLock = None /\ fontLock = None
    /\ edits = 0 /\ faults = 0 /\ spoiled = FALSE

UserNext ==
    \/ Start \/ Close \/ BeginSave \/ BeginOpen \/ OpenBare
    \/ \E t \in Chars, s \in Shapes : Edit(t, s)
    \/ \E g \in Chars : BeginGenre(g)
    \/ \E w \in {"cover", "publish"}, c \in Covers : BeginModal(w, c)

OpenNext ==
    \/ CheckSleeve \/ WriteSleeve \/ KeepUi \/ PatchUi \/ MarkLibrary
    \/ PublishFonts \/ InstallFont
    \/ \E w \in {"open", "publish"} :
         InstallPart(w) \/ CheckSettings(w) \/ WriteData(w) \/ WriteMeta(w) \/ MarkPerGame(w)

EntryNext ==
    \/ CompareShape \/ WriteJson \/ WritePng
    \/ \E w \in {"save", "cover"} :
         TakeCoverLock(w) \/ MarkCoverDirty(w) \/ ClearFlag(w) \/ ReleaseCoverLock(w)
    \/ \E w \in {"open", "save", "cover"} :
         ReadInputs(w) \/ ReadPrevious(w) \/ WriteArt(w) \/ Sweep(w)

FontNext ==
    \/ WriteGenres
    \/ \E w \in {"open", "save", "genre"} :
         TakeFontLock(w) \/ KeepFont(w) \/ CompareFonts(w) \/ WriteFont(w) \/ MarkFonts(w)

FaultNext ==
    \/ Kill \/ GeometryFailsLate
    \/ \E w \in Workers : Refuse(w) \/ WriteFails(w) \/ KillTearing(w)

Next ==
    \/ UserNext \/ OpenNext \/ EntryNext \/ FontNext \/ FaultNext
    \/ \E w \in {"cover", "publish"} : AwaitSave(w)
    \/ UserCopiesRuntime \/ Play

Spec == Init /\ [][Next]_vars

TypeOK ==
    /\ cover \in Covers /\ shape \in Shapes /\ title \in Chars /\ genre \in Chars
    /\ sleeve \in {"plain", "none", "legacy", "left", "both", "whole"}
    /\ art \in [covers : SUBSET Revisions, thumbs : SUBSET Revisions, named : Revisions \cup {None}]
    /\ dirty \in BOOLEAN
    /\ base \in [Resources -> Contents] /\ live \in [Resources -> Contents]
    /\ fontMark \in (SUBSET Chars) \cup {None}
    /\ have \subseteq Parts \cup {"runtime", "prefs"}
    /\ {data, meta} \subseteq {"none", "blank", "prefs", "user", "torn"}
    /\ markers \subseteq {"perGame", "v2"}
    /\ coverLock \in Workers \cup {None} /\ fontLock \in Workers \cup {None}

-----------------------------------------------------------------------------
(* Properties. *)

Whole(rev) == rev \in art.covers \cap art.thumbs

\* The descriptor the console reads never names a file that is not there, at
\* whatever point a preparation fails or the editor is killed.
DescriptorWhole == art.named # None => Whole(art.named)

\* Whenever no job holds the entry, an enabled library shows artwork made from
\* the cover and the shape on the disk, or carries the flag that makes the next
\* save prepare it again.
StaleIsFlagged ==
    shown /\ Enabled /\ coverLock = None /\ job.open.at = "idle"
        => art.named = Revision \/ dirty

\* Once every save ended well, whatever order the title and the genres were
\* saved in, each live font has the characters of both.
FontsCoverTitles ==
    /\ shown /\ Enabled
    /\ \A w \in {"open", "save", "genre"} : job[w].at = "idle" /\ w \notin failed
    => \A f \in Fonts : live[f].kind = "made" /\ Glyphs \subseteq live[f].chars

\* The marker that makes the console read the library itself is there only with
\* all the console reads: scripts, patched resources, artwork and settings.
EnabledMeansReady ==
    Enabled => /\ Parts \subseteq have /\ "runtime" \in have /\ "perGame" \in markers
               /\ \A r \in Resources : live[r].kind = "made"
               /\ art.named # None
               /\ data # "none" /\ (spoiled \/ data = meta)

\* What the console reads is whole at every moment, and speaks of the titles
\* and covers that are on the disk once the saves have ended.
ConsoleReadsWhole == DescriptorWhole /\ EnabledMeansReady /\ FontsCoverTitles

\* A resource is replaced only once its original is among the templates.
OriginalsKept ==
    \A r \in Resources : live[r].kind \in {"made", "torn"} => base[r] = Orig

\* Failed writes never leave what a later opening refuses; only a kill can.
RefusedOnlyAfterKill ==
    AllIdle /\ ~spoiled => /\ sleeve \notin {"left", "both"}
                           /\ \A r \in Resources : base[r] # Torn
                           /\ data = "none" => meta = "none"
=============================================================================
