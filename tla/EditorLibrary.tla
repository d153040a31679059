--------------------------- MODULE EditorLibrary ---------------------------
(***************************************************************************)
(* The desktop editor's catalogue transactions: the window (app.js) with    *)
(* its debounced, queued saves, and the back end's commands on the library  *)
(* directory (lib.rs, library_delete.rs, library_move.rs, rom_store.rs).    *)
(*                                                                          *)
(* On disk a list is a gamelist.json (rows) beside one directory per game;  *)
(* here there are two, a lineup and one folder in it.  A directory is its   *)
(* game.json (identity and chosen ROM) and its deletion marker.  The ROMs   *)
(* are in one shared pool, with .rom-cleanup.json naming those to remove.   *)
(*                                                                          *)
(* A save, a deletion and a move each hold the one mutex of the process for *)
(* their whole length; creating a directory, importing a ROM and removing a *)
(* replaced one do not.  Every write may fail before or after the file is   *)
(* replaced, and the editor may stop between any two steps.                 *)
(***************************************************************************)
EXTENDS Naturals, Sequences, FiniteSets

CONSTANTS Names,      \* directory names
          Games,      \* game identities (game_id)
          Roms,       \* ROM files
          NoDir, NoGame, NoRom,
          Faults,     \* subset of {"write", "rename", "crash"}
          MaxFaults,  \* bound: faults in a behaviour
          MaxSaves,   \* bound: snapshots queued at once
          Patient     \* the user waits for the saves before navigating or adding

Lists == {"lineup", "folder"}
Entry == [name : Names, game : Games, rom : Roms \cup {NoRom}]
Dir == [game : Games \cup {NoGame}, rom : Roms \cup {NoRom}, marked : BOOLEAN]

ASSUME DistinctAssumption ==
    /\ NoDir \notin Dir
    /\ NoGame \notin Games
    /\ NoRom \notin Roms

ASSUME BoundsAssumption == MaxFaults \in Nat /\ MaxSaves \in Nat

VARIABLES
    rows, dirs, pool, cleanup,                      \* the disk
    up, shown, view, timer, saves, writing, left,   \* the window and its save
    op, creating,                                   \* its operation, its "add game"
    fresh,                                          \* identities not given out yet
    deleted, chosen, torn, spoiled, faults          \* history

disk == <<rows, dirs, pool, cleanup>>
window == <<shown, view, timer>>
saving == <<saves, writing, left>>
history == <<deleted, chosen, torn, spoiled, faults>>
vars == <<disk, up, window, saving, op, creating, fresh, history>>

-----------------------------------------------------------------------------
(* What the back end reads from the disk. *)

Exists(l, n) == dirs[l][n] # NoDir
HasGame(l, n) == Exists(l, n) /\ dirs[l][n].game # NoGame
Places == {p \in Lists \X Names : HasGame(p[1], p[2])}
GameAt(p) == dirs[p[1]][p[2]].game
RomAt(p) == dirs[p[1]][p[2]].rom

\* load_lineup: the listed games whose metadata can be read.
Load(l) == {[name |-> n, game |-> dirs[l][n].game, rom |-> dirs[l][n].rom] :
              n \in {m \in rows[l] : HasGame(l, m)}}

NamesOf(entries) == {e.name : e \in entries}

\* The list after another ROM is chosen for a game.
WithRom(entries, g, r) ==
    {IF e.game = g THEN [e EXCEPT !.rom = r] ELSE e : e \in entries}

\* A bug: saves do not look at the marker.
NotDeletedIgnoresMarker(l, n) == TRUE

\* A marker is active only once the parent list no longer names the directory.
NotDeleted(l, n) == ~(dirs[l][n].marked /\ n \notin rows[l])

\* migrate_library refuses two directories with one identity.
IdentitiesDistinct == \A p, q \in Places : GameAt(p) = GameAt(q) => p = q

\* migrate refuses a game.json naming a ROM that is not in the pool.
RomsPresent == \A p \in Places : RomAt(p) # NoRom => RomAt(p) \in pool

\* A bug: only the listed games are asked.
ReferencedByRows == {RomAt(p) : p \in {q \in Places : q[2] \in rows[q[1]]}} \ {NoRom}

\* The ROMs some game.json under the lists names, whether or not it is listed.
Referenced == {RomAt(p) : p \in Places} \ {NoRom}

-----------------------------------------------------------------------------
(* Faults.  A failed write may have replaced the file or not (landed). *)

Fault(kind) ==
    /\ kind \in Faults
    /\ faults < MaxFaults
    /\ faults' = faults + 1

NoFault == faults' = faults

-----------------------------------------------------------------------------
(* The window's operation.  Fields beyond pc and kind are fixed at its start *)
(* or by the step that computes them.                                        *)

NoOp == [pc |-> "none", kind |-> "none", list |-> "lineup", name |-> NoDir,
         game |-> NoGame, rom |-> NoRom, old |-> NoRom, as |-> NoDir,
         freshMark |-> FALSE, before |-> [l \in Lists |-> {}], keep |-> {},
         plan |-> [l \in Lists |-> {}], result |-> [l \in Lists |-> {}]]
NoCreate == [pc |-> "none", list |-> "lineup", name |-> NoDir,
             game |-> NoGame, detached |-> FALSE]

Other(l) == IF l = "lineup" THEN "folder" ELSE "lineup"

DeletePcs == {"delRows", "delUndo", "delDir"}
MovePcs == {"mvRename", "mvDest", "mvSource", "undoDir", "undoDest", "undoSource"}
CleanPcs == {"queue", "clean", "purge", "requeue"}

\* lock_cover_update: held by the save being written, or by a deletion (to its
\* end, the ROM cleanup included) or a move.
Locked ==
    \/ writing
    \/ op.pc \in DeletePcs \cup MovePcs
    \/ op.pc \in CleanPcs /\ op.kind = "delete"

Settled == ~timer /\ saves = <<>> /\ creating.pc = "none"
Saved == view[shown] = Load(shown)
UserActs == up /\ op.pc = "none"
MayLeave == UserActs /\ (Patient => Settled)
MayNavigate == MayLeave /\ (Patient => Saved)

Snapshot(by, games) == [list |-> shown, games |-> games, by |-> by]

-----------------------------------------------------------------------------
(* The user's edits, the debounced save and the queue of snapshots. *)

\* A bug: the choice does not start the debounce.
EditRomUnsaved(e, r) ==
    /\ UserActs
    /\ e \in view[shown] /\ r \in pool /\ r # e.rom
    /\ view' = [view EXCEPT ![shown] = (@ \ {e}) \cup {[e EXCEPT !.rom = r]}]
    /\ chosen' = [chosen EXCEPT ![e.game] = r]
    /\ UNCHANGED <<disk, up, shown, timer, saving, op, creating, fresh, deleted, torn,
                   spoiled, faults>>

\* Choose another ROM of the pool for a shown game.
EditRom(e, r) ==
    /\ UserActs
    /\ e \in view[shown] /\ r \in pool /\ r # e.rom
    /\ view' = [view EXCEPT ![shown] = (@ \ {e}) \cup {[e EXCEPT !.rom = r]}]
    /\ timer' = TRUE
    /\ chosen' = [chosen EXCEPT ![e.game] = r]
    /\ UNCHANGED <<disk, up, shown, saving, op, creating, fresh, deleted, torn,
                   spoiled, faults>>

\* The debounce ends: saveNow copies whatever list is shown now.
TimerFires ==
    /\ up /\ timer
    /\ Len(saves) < MaxSaves
    /\ timer' = FALSE
    /\ saves' = Append(saves, Snapshot("timer", view[shown]))
    /\ UNCHANGED <<disk, up, shown, view, writing, left, op, creating, fresh, history>>

Current == Head(saves)

\* The plan of a deletion or a move: the lists as the window holds them, and a
\* destination folder as loaded.
Plan == [l \in Lists |-> IF l = "folder" /\ op.list = "lineup" THEN Load(l) ELSE view[l]]

\* What the operation that awaited this save does with its outcome.  An import
\* whose second save failed puts the former ROM back into the form.
Awaited(ok) ==
    IF Current.by = "timer" THEN UNCHANGED <<op, view, chosen>>
    ELSE IF ok
    THEN /\ op' = IF op.pc = "resave" THEN [op EXCEPT !.pc = "replace"]
                  ELSE [op EXCEPT !.pc = "run",
                                  !.plan = IF op.kind = "import" THEN @ ELSE Plan]
         /\ UNCHANGED <<view, chosen>>
    ELSE /\ op' = NoOp
         /\ IF op.pc = "resave"
            THEN /\ view' = [view EXCEPT ![op.list] = WithRom(@, op.game, op.old)]
                 /\ chosen' = [chosen EXCEPT ![op.game] = op.old]
            ELSE UNCHANGED <<view, chosen>>

EndSave(ok) ==
    /\ saves' = Tail(saves)
    /\ writing' = FALSE
    /\ left' = {}
    /\ Awaited(ok)
    /\ spoiled' = (spoiled \/ ~ok)
    /\ UNCHANGED <<up, shown, timer, creating, fresh, deleted, torn>>

\* save_lineup's preflight: no entry was deleted, every directory is there.
Preflight(s) == \A e \in s.games : Exists(s.list, e.name) /\ NotDeleted(s.list, e.name)

BeginSave ==
    /\ up /\ saves # <<>> /\ ~Locked
    /\ Preflight(Current)
    /\ writing' = TRUE
    /\ left' = Current.games
    /\ UNCHANGED <<disk, up, window, saves, op, creating, fresh, history>>

RefuseSave ==
    /\ up /\ saves # <<>> /\ ~Locked
    /\ ~Preflight(Current)
    /\ EndSave(FALSE)
    /\ NoFault
    /\ UNCHANGED disk

\* save_game_json_locked: the entry may be written over a directory without
\* metadata, or over the metadata of the same game.
MayWrite(l, e) ==
    /\ Exists(l, e.name) /\ NotDeleted(l, e.name)
    /\ HasGame(l, e.name) => dirs[l][e.name].game = e.game

PutGame(l, e) ==
    dirs' = [dirs EXCEPT ![l][e.name] = [@ EXCEPT !.game = e.game, !.rom = e.rom]]

SaveGame(e) ==
    /\ up /\ writing /\ e \in left
    /\ MayWrite(Current.list, e)
    /\ PutGame(Current.list, e)
    /\ left' = left \ {e}
    /\ UNCHANGED <<rows, pool, cleanup, up, window, saves, writing, op, creating,
                   fresh, history>>

SaveGameFails(e) ==
    /\ up /\ writing /\ e \in left
    /\ \/ /\ ~MayWrite(Current.list, e)
          /\ UNCHANGED dirs
          /\ NoFault
       \/ /\ MayWrite(Current.list, e)
          /\ Fault("write")
          /\ UNCHANGED dirs \/ PutGame(Current.list, e)
    /\ EndSave(FALSE)
    /\ UNCHANGED <<rows, pool, cleanup>>

SaveRows(ok) ==
    /\ up /\ writing /\ left = {}
    /\ IF ok THEN NoFault ELSE Fault("write")
    /\ \E landed \in {TRUE, ok} :
         rows' = IF landed THEN [rows EXCEPT ![Current.list] = NamesOf(Current.games)]
                           ELSE rows
    /\ EndSave(ok)
    /\ UNCHANGED <<dirs, pool, cleanup>>

-----------------------------------------------------------------------------
(* Navigation and "add game". *)

\* Open the library, at the start or again over the window's contents (picking
\* the directory takes longer than the debounce and the saves).
Open ==
    /\ ~up \/ (UserActs /\ Settled)
    /\ IdentitiesDistinct /\ RomsPresent
    /\ up' = TRUE
    /\ shown' = "lineup"
    /\ view' = [l \in Lists |-> IF l = "lineup" THEN Load(l) ELSE {}]
    /\ creating' = IF creating.pc = "none" THEN creating
                                           ELSE [creating EXCEPT !.detached = TRUE]
    /\ UNCHANGED <<disk, timer, saving, op, fresh, history>>

EnterFolder ==
    /\ MayNavigate /\ shown = "lineup"
    /\ IdentitiesDistinct
    /\ shown' = "folder"
    /\ view' = [view EXCEPT !["folder"] = Load("folder")]
    /\ UNCHANGED <<disk, up, timer, saving, op, creating, fresh, history>>

ExitFolder ==
    /\ MayNavigate /\ shown = "folder"
    /\ shown' = "lineup"
    /\ view' = [view EXCEPT !["folder"] = {}]
    /\ UNCHANGED <<disk, up, timer, saving, op, creating, fresh, history>>

AddGame(n, g) ==
    /\ MayLeave /\ creating.pc = "none"
    /\ n \notin NamesOf(view[shown])
    /\ g \in fresh
    /\ fresh' = fresh \ {g}
    /\ creating' = [pc |-> "mkdir", list |-> shown, name |-> n, game |-> g,
                    detached |-> FALSE]
    /\ UNCHANGED <<disk, up, window, saving, op, history>>

\* create_game makes the directory without the mutex.
CreateDir ==
    /\ up /\ creating.pc = "mkdir"
    /\ IF IdentitiesDistinct /\ ~Exists(creating.list, creating.name)
       THEN /\ dirs' = [dirs EXCEPT ![creating.list][creating.name] =
                          [game |-> NoGame, rom |-> NoRom, marked |-> FALSE]]
            /\ creating' = [creating EXCEPT !.pc = "json"]
       ELSE /\ creating' = NoCreate
            /\ UNCHANGED dirs
    /\ UNCHANGED <<rows, pool, cleanup, up, window, saving, op, fresh, history>>

Created == [name |-> creating.name, game |-> creating.game, rom |-> NoRom]

CreateJson ==
    /\ up /\ creating.pc = "json" /\ ~Locked
    /\ MayWrite(creating.list, Created)
    /\ PutGame(creating.list, Created)
    /\ creating' = [creating EXCEPT !.pc = "reply"]
    /\ UNCHANGED <<rows, pool, cleanup, up, window, saving, op, fresh, history>>

CreateFails ==
    /\ up /\ creating.pc = "json" /\ ~Locked
    /\ \/ /\ ~MayWrite(creating.list, Created)
          /\ UNCHANGED dirs
          /\ NoFault
       \/ /\ MayWrite(creating.list, Created)
          /\ Fault("write")
          /\ UNCHANGED dirs \/ PutGame(creating.list, Created)
    /\ creating' = NoCreate
    /\ UNCHANGED <<rows, pool, cleanup, up, window, saving, op, fresh, deleted,
                   chosen, torn, spoiled>>

\* The answer is pushed onto whatever the list object captured by addGame holds
\* now: the shown list, or nothing that is still displayed.
CreateReply ==
    /\ up /\ creating.pc = "reply"
    /\ view' = IF creating.detached THEN view
                                    ELSE [view EXCEPT ![shown] = @ \cup {Created}]
    /\ timer' = TRUE
    /\ creating' = NoCreate
    /\ UNCHANGED <<disk, up, shown, saving, op, fresh, history>>

-----------------------------------------------------------------------------
(* Operations: each clears the timer, saves the shown list and awaits it. *)

Start(kind, e, r) ==
    /\ UserActs
    /\ e \in view[shown]
    /\ Len(saves) < MaxSaves
    /\ timer' = FALSE
    /\ saves' = Append(saves, Snapshot("op", view[shown]))
    /\ op' = [NoOp EXCEPT !.pc = "drain", !.kind = kind, !.list = shown,
                          !.name = e.name, !.game = e.game, !.rom = r, !.old = e.rom]
    /\ UNCHANGED <<disk, up, shown, view, writing, left, creating, fresh, history>>

StartDelete(e) == Start("delete", e, NoRom)
StartMove(e) == Start("move", e, NoRom)
StartImport(e, r) == Start("import", e, r)

Running(kind, pc) == up /\ op.kind = kind /\ op.pc = pc

\* The operation ends with an error: nothing is applied to the window.
Abandon ==
    /\ op' = NoOp
    /\ UNCHANGED <<up, window, saving, creating, fresh>>

Advance(next) ==
    /\ op' = next
    /\ UNCHANGED <<up, window, saving, creating, fresh>>

\* The sort plan sent by the window names exactly the other rows.
PlanFits(entries, names) ==
    /\ NamesOf(entries) = names
    /\ Cardinality(entries) = Cardinality(names)

RestOfPlan == {e \in op.plan[op.list] : <<e.name, e.game>> # <<op.name, op.game>>}

RowsExist(l) == \A n \in rows[l] : Exists(l, n)

-----------------------------------------------------------------------------
(* Import a ROM and remove the one it replaces. *)

ImportRom ==
    /\ Running("import", "run")
    /\ Len(saves) < MaxSaves
    /\ LET now == WithRom(view[shown], op.game, op.rom)
       IN  /\ view' = [view EXCEPT ![shown] = now]
           /\ saves' = Append(saves, Snapshot("op", now))
    /\ pool' = pool \cup {op.rom}
    /\ chosen' = [chosen EXCEPT ![op.game] = op.rom]
    /\ op' = [op EXCEPT !.pc = "resave"]
    /\ UNCHANGED <<rows, dirs, cleanup, up, shown, timer, writing, left, creating,
                   fresh, deleted, torn, spoiled, faults>>

\* The import fails before anything is visible.
ImportFails ==
    /\ Running("import", "run")
    /\ Fault("write")
    /\ Abandon
    /\ UNCHANGED <<disk, deleted, chosen, torn, spoiled>>

\* remove_replaced_rom: only once the metadata on disk names the new ROM.
RemoveReplaced ==
    /\ Running("import", "replace")
    /\ IF op.old \notin {NoRom, op.rom} /\ HasGame(op.list, op.name)
          /\ dirs[op.list][op.name].rom = op.rom
       THEN Advance([op EXCEPT !.pc = "queue", !.rom = op.old])
       ELSE Abandon
    /\ UNCHANGED <<disk, history>>

-----------------------------------------------------------------------------
(* Delete a game. *)

DeleteValid ==
    /\ op.name \in rows[op.list]
    /\ RowsExist(op.list)
    /\ HasGame(op.list, op.name)
    /\ PlanFits(RestOfPlan, rows[op.list] \ {op.name})

Mark(on) == dirs' = [dirs EXCEPT ![op.list][op.name].marked = on]

\* A bug: the directory is removed before the list is committed.
DeleteMarkThenDir ==
    /\ Running("delete", "run") /\ ~Locked
    /\ DeleteValid
    /\ Mark(TRUE)
    /\ Advance([op EXCEPT !.pc = "delDir", !.before = rows,
                  !.rom = dirs[op.list][op.name].rom])
    /\ UNCHANGED <<rows, pool, cleanup, history>>

\* Validate, then persist the marker before the list is touched.
DeleteMark ==
    /\ Running("delete", "run") /\ ~Locked
    /\ \/ /\ ~DeleteValid
          /\ UNCHANGED dirs
          /\ Abandon
          /\ NoFault
       \/ /\ DeleteValid
          /\ Mark(TRUE)
          /\ Advance([op EXCEPT !.pc = "delRows", !.before = rows, !.plan = NoOp.plan,
                        !.game = dirs[op.list][op.name].game,
                        !.rom = dirs[op.list][op.name].rom,
                        !.freshMark = ~dirs[op.list][op.name].marked])
          /\ NoFault
       \/ /\ DeleteValid
          /\ Fault("write")
          /\ UNCHANGED dirs \/ Mark(TRUE)
          /\ Abandon
    /\ UNCHANGED <<rows, pool, cleanup, deleted, chosen, torn, spoiled>>

WithoutRow == [rows EXCEPT ![op.list] = @ \ {op.name}]

\* The commit: the list no longer names the game.
DeleteRows ==
    /\ Running("delete", "delRows")
    /\ \/ /\ rows' = WithoutRow
          /\ deleted' = deleted \cup {op.game}
          /\ Advance([op EXCEPT !.pc = "delDir"])
          /\ NoFault
       \/ /\ Fault("write")
          /\ rows' \in {rows, WithoutRow}
          /\ Advance([op EXCEPT !.pc = "delUndo"])
          /\ UNCHANGED deleted
    /\ UNCHANGED <<dirs, pool, cleanup, chosen, torn, spoiled>>

\* Restore the list's bytes; drop the marker only if this attempt made it.
DeleteUndo ==
    /\ Running("delete", "delUndo")
    /\ \/ /\ rows' = op.before
          /\ IF op.freshMark THEN Mark(FALSE) ELSE UNCHANGED dirs
          /\ NoFault
       \/ /\ Fault("write")
          /\ \/ rows' = op.before
             \/ UNCHANGED rows
          /\ UNCHANGED dirs
    /\ Abandon
    /\ UNCHANGED <<pool, cleanup, deleted, chosen, torn, spoiled>>

\* Rename into a quarantine outside the lists and remove it there.
DeleteDir ==
    /\ Running("delete", "delDir")
    /\ \/ /\ dirs' = [dirs EXCEPT ![op.list][op.name] = NoDir]
          /\ NoFault
       \/ /\ Fault("rename")
          /\ UNCHANGED dirs
    /\ Advance([op EXCEPT !.pc = "queue"])
    /\ UNCHANGED <<rows, pool, cleanup, deleted, chosen, torn, spoiled>>

-----------------------------------------------------------------------------
(* rom_store: queue one name, then remove the queued names no game uses. *)

Loaded == [l \in Lists |-> Load(l)]

\* After the cleanup, whatever became of it, a deletion reads its answer under
\* the mutex; an import has nothing left to apply.
AfterCleanup ==
    IF op.kind = "delete" THEN Advance([op EXCEPT !.pc = "answer", !.result = Loaded])
                          ELSE Abandon

\* A deletion goes on to the cleanup even if its ROM could not be queued.
QueueCleanup ==
    /\ up /\ op.pc = "queue"
    /\ \/ /\ cleanup' = cleanup \cup ({op.rom} \ {NoRom})
          /\ Advance([op EXCEPT !.pc = "clean"])
          /\ NoFault
       \/ /\ Fault("write")
          /\ UNCHANGED cleanup
          /\ IF op.kind = "delete" THEN Advance([op EXCEPT !.pc = "clean"]) ELSE Abandon
    /\ UNCHANGED <<rows, dirs, pool, deleted, chosen, torn, spoiled>>

ReadReferences ==
    /\ up /\ op.pc = "clean"
    /\ Advance([op EXCEPT !.pc = "purge", !.keep = cleanup \cap Referenced])
    /\ UNCHANGED <<disk, history>>

\* A removal that fails stops the cleanup with its queue unchanged.
Purge ==
    /\ up /\ op.pc = "purge"
    /\ \/ /\ pool' = pool \ (cleanup \ op.keep)
          /\ Advance([op EXCEPT !.pc = "requeue"])
          /\ NoFault
       \/ /\ Fault("write")
          /\ \E gone \in SUBSET (cleanup \ op.keep) : pool' = pool \ gone
          /\ AfterCleanup
    /\ UNCHANGED <<rows, dirs, cleanup, deleted, chosen, torn, spoiled>>

WriteQueue ==
    /\ up /\ op.pc = "requeue"
    /\ \/ /\ cleanup' = op.keep
          /\ NoFault
       \/ /\ Fault("write")
          /\ UNCHANGED cleanup
    /\ AfterCleanup
    /\ UNCHANGED <<rows, dirs, pool, deleted, chosen, torn, spoiled>>

\* The window replaces its lists with the back end's answer.
Answer ==
    /\ up /\ op.pc = "answer"
    /\ view' = [l \in Lists |-> IF l = "lineup" \/ shown = l THEN op.result[l] ELSE {}]
    /\ op' = NoOp
    /\ creating' = IF creating.pc = "none" THEN creating
                                           ELSE [creating EXCEPT !.detached = TRUE]
    /\ UNCHANGED <<disk, up, shown, timer, saving, fresh, history>>

-----------------------------------------------------------------------------
(* Move a game between the two lists. *)

Dest == Other(op.list)

MoveValid ==
    /\ op.name \in rows[op.list]
    /\ RowsExist("lineup") /\ RowsExist("folder")
    /\ PlanFits(RestOfPlan, rows[op.list] \ {op.name})
    /\ PlanFits(op.plan[Dest], rows[Dest])
    /\ IdentitiesDistinct
    /\ HasGame(op.list, op.name)

FreeNames == {n \in Names : ~Exists(Dest, n)}

\* Validate and choose the final name: its own, or with a suffix when taken.
MoveCheck ==
    /\ Running("move", "run") /\ ~Locked
    /\ IF MoveValid /\ FreeNames # {}
       THEN \E as \in FreeNames :
              /\ op.name \in FreeNames => as = op.name
              /\ Advance([op EXCEPT !.pc = "mvRename", !.as = as, !.before = rows,
                                  !.plan = NoOp.plan])
       ELSE Abandon
    /\ UNCHANGED <<disk, history>>

\* rename(2) replaces an empty directory and fails on any other.
Renamable(l, n) == ~HasGame(l, n)
Renamed(l, n, k, m) == [dirs EXCEPT ![k][m] = dirs[l][n], ![l][n] = NoDir]

MoveRename ==
    /\ Running("move", "mvRename")
    /\ \/ /\ Renamable(Dest, op.as)
          /\ dirs' = Renamed(op.list, op.name, Dest, op.as)
          /\ Advance([op EXCEPT !.pc = "mvDest"])
          /\ NoFault
       \/ /\ IF Renamable(Dest, op.as) THEN Fault("rename") ELSE NoFault
          /\ UNCHANGED dirs
          /\ Abandon
    /\ UNCHANGED <<rows, pool, cleanup, deleted, chosen, torn, spoiled>>

\* game.json, then the destination's list, then the source's; any failure
\* undoes all three.
MoveWrite(pc, then, new) ==
    /\ Running("move", pc)
    /\ \/ /\ rows' = new
          /\ Advance(then)
          /\ NoFault
       \/ /\ Fault("write")
          /\ rows' \in {rows, new}
          /\ Advance([op EXCEPT !.pc = "undoDir"])
    /\ UNCHANGED <<dirs, pool, cleanup, deleted, chosen, torn, spoiled>>

MoveDest == MoveWrite("mvDest", [op EXCEPT !.pc = "mvSource"],
                      [rows EXCEPT ![Dest] = @ \cup {op.as}])

MoveSource ==
    MoveWrite("mvSource",
              [op EXCEPT !.pc = "answer", !.result = [l \in Lists |->
                 LET listed == IF l = op.list THEN rows[l] \ {op.name} ELSE rows[l]
                 IN  {[name |-> n, game |-> dirs[l][n].game, rom |-> dirs[l][n].rom] :
                        n \in {m \in listed : HasGame(l, m)}}]],
              WithoutRow)

UndoDir ==
    /\ Running("move", "undoDir")
    /\ \/ /\ Renamable(op.list, op.name)
          /\ dirs' = Renamed(Dest, op.as, op.list, op.name)
          /\ NoFault
          /\ UNCHANGED torn
       \/ /\ IF Renamable(op.list, op.name) THEN Fault("rename") ELSE NoFault
          /\ UNCHANGED dirs
          /\ torn' = TRUE
    /\ Advance([op EXCEPT !.pc = "undoDest"])
    /\ UNCHANGED <<rows, pool, cleanup, deleted, chosen, spoiled>>

UndoRows(pc, then, l) ==
    /\ Running("move", pc)
    /\ \/ /\ rows' = [rows EXCEPT ![l] = op.before[l]]
          /\ NoFault
          /\ UNCHANGED torn
       \/ /\ Fault("write")
          /\ UNCHANGED rows
          /\ torn' = TRUE
    /\ then
    /\ UNCHANGED <<dirs, pool, cleanup, deleted, chosen, spoiled>>

UndoDest == UndoRows("undoDest", Advance([op EXCEPT !.pc = "undoSource"]), Dest)
UndoSource == UndoRows("undoSource", Abandon, op.list)

-----------------------------------------------------------------------------
(* The editor stops; the next one opens the library from the disk alone. *)

Crash ==
    /\ up /\ Fault("crash")
    /\ up' = FALSE
    /\ shown' = "lineup" /\ view' = [l \in Lists |-> {}] /\ timer' = FALSE
    /\ saves' = <<>> /\ writing' = FALSE /\ left' = {}
    /\ op' = NoOp /\ creating' = NoCreate
    /\ torn' = (torn \/ op.pc \in MovePcs \ {"mvRename"})
    /\ spoiled' = TRUE
    /\ UNCHANGED <<disk, fresh, deleted, chosen>>

-----------------------------------------------------------------------------
\* A closed editor beside a library with one listed game per list, sharing
\* names as generated names do, every ROM of theirs in the pool.
Init ==
    /\ \E n \in Names, a, b \in Games, r, s \in Roms :
         /\ a # b
         /\ rows = [l \in Lists |-> {n}]
         /\ dirs = [l \in Lists |-> [m \in Names |->
                      IF m # n THEN NoDir
                      ELSE [game |-> IF l = "lineup" THEN a ELSE b,
                            rom |-> IF l = "lineup" THEN r ELSE s, marked |-> FALSE]]]
         /\ pool = {r, s}
         /\ fresh = Games \ {a, b}
         /\ chosen = [g \in Games |-> IF g = a THEN r ELSE IF g = b THEN s ELSE NoRom]
    /\ cleanup = {}
    /\ up = FALSE /\ shown = "lineup" /\ view = [l \in Lists |-> {}] /\ timer = FALSE
    /\ saves = <<>> /\ writing = FALSE /\ left = {}
    /\ op = NoOp /\ creating = NoCreate
    /\ deleted = {} /\ torn = FALSE /\ spoiled = FALSE /\ faults = 0

Next ==
    \/ \E e \in view[shown], r \in Roms : EditRom(e, r) \/ StartImport(e, r)
    \/ \E e \in view[shown] : StartDelete(e) \/ StartMove(e)
    \/ TimerFires \/ BeginSave \/ RefuseSave
    \/ \E e \in left : SaveGame(e) \/ SaveGameFails(e)
    \/ \E ok \in BOOLEAN : SaveRows(ok)
    \/ Open \/ EnterFolder \/ ExitFolder
    \/ \E n \in Names, g \in Games : AddGame(n, g)
    \/ CreateDir \/ CreateJson \/ CreateFails \/ CreateReply
    \/ ImportRom \/ ImportFails \/ RemoveReplaced
    \/ DeleteMark \/ DeleteRows \/ DeleteUndo \/ DeleteDir
    \/ QueueCleanup \/ ReadReferences \/ Purge \/ WriteQueue \/ Answer
    \/ MoveCheck \/ MoveRename \/ MoveDest \/ MoveSource
    \/ UndoDir \/ UndoDest \/ UndoSource
    \/ Crash

Spec == Init /\ [][Next]_vars

-----------------------------------------------------------------------------
TypeOK ==
    /\ rows \in [Lists -> SUBSET Names]
    /\ dirs \in [Lists -> [Names -> Dir \cup {NoDir}]]
    /\ pool \subseteq Roms /\ cleanup \subseteq Roms
    /\ up \in BOOLEAN /\ shown \in Lists /\ timer \in BOOLEAN
    /\ view \in [Lists -> SUBSET Entry]
    /\ Len(saves) <= MaxSaves
    /\ \A i \in DOMAIN saves : saves[i].list \in Lists /\ saves[i].games \subseteq Entry
    /\ writing \in BOOLEAN /\ left \subseteq Entry
    /\ op.rom \in Roms \cup {NoRom} /\ op.keep \subseteq Roms
    /\ creating.list \in Lists
    /\ fresh \subseteq Games /\ deleted \subseteq Games
    /\ chosen \in [Games -> Roms \cup {NoRom}]
    /\ torn \in BOOLEAN /\ spoiled \in BOOLEAN /\ faults \in 0..MaxFaults

\* A list names only directories that hold a game, unless a move is under way
\* or was cut short: a deletion never leaves a row with a missing game.
RowsHaveGames ==
    ~torn /\ op.pc \notin MovePcs =>
        \A l \in Lists : \A n \in rows[l] : HasGame(l, n)

\* The library can be opened at any moment (library.rs, rom_store.rs): no
\* identity is in two directories, every game.json, listed or not, names a ROM
\* the pool still has, and every row is a game.
CanOpen == IdentitiesDistinct /\ RomsPresent /\ RowsHaveGames

\* No late save brings a game back into a list once its deletion committed.
NoResurrection == \A p \in Places : p[2] \in rows[p[1]] => GameAt(p) \notin deleted

\* Whatever fails, a game's metadata leaves the disk only by its own committed
\* deletion; a move, a save or a rollback never loses or overwrites it.
GamesAreKept ==
    [][\A p \in Places : GameAt(p) \notin deleted =>
         \E q \in Places' : dirs'[q[1]][q[2]].game = GameAt(p)]_vars

\* When nothing is pending and nothing failed, the last ROM the user chose for
\* a game is the one on disk.
EditsReachDisk ==
    up /\ Settled /\ op.pc = "none" /\ ~spoiled =>
        \A p \in Places : GameAt(p) \notin deleted => RomAt(p) = chosen[GameAt(p)]

=============================================================================
