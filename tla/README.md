# A TLA+ verification development of Project Chronos Engine

Project Chronos lets a PC Engine Mini play games from a USB key: a desktop
editor prepares the key, shell scripts on the console mount it and restart the
stock engine, a preloaded library (the *hook*) redirects the engine's files, and
Squirrel scripts drive it from the menu. What can go wrong is nearly always the
same thing: power is cut, the key is pulled, a write fails, or two processes meet
in an unforeseen order, and afterwards somebody's save, ROM or mount is lost,
stale, or taken for another's. This directory states what must hold then, checks
it with TLC and proves part of it with TLAPS.

Paths below are relative to the repository root.

## 1. Inventory

| component | where | state it keeps | operations | what is hard |
|---|---|---|---|---|
| Native SRAM ownership | `console-mod/hook-src/save_owner.h`, `save_files.h`, `save_digest.h`; callers in `m2hook_print.c`, `mod-assets/scripts-src/chronos_saves.nut`, `systemdata_saveload.nut` | one SRAM slot in `data_008`, its MD5 in `meta_008`, the owner marker, `sram.bin` and its schema per game on USB, snapshots on NAND, the owner in memory | bind, activate, flush, release, boot, the engine's own saves | about a dozen durable steps per activation, a crash or an I/O error between any two; two copies of each save; games that move |
| USB hot-plug | `console-mod/pce-usb-lib.sh`, `mount-usb-drives`, `pce-usb-attach`, `pce-usb-detach`, `gameapp` | mount table, `/tmp/.game.exit`, engine, wrapper and shutdown-detection processes | attach, detach, boot mount, start, engine exit | shell processes that run concurrently without a lock; a wrapper that outlives the engine it started; failed unmounts |
| Folder catalogue | `console-mod/hook-src/catalog_runtime.h`, `catalog_library.h`, `folder_worker.h`, `mod-assets/scripts-src/chronos_library.nut` | request ticket, state, staged snapshot, worker thread, `.current-v2`, the script's live snapshot | begin, poll, take, remember, current | a background thread, stale tickets, the library replaced while it is read |
| Legacy pack swap | `m2hook_print.c` (`do_folder_swap`, init) | `.current`, `.sram-pack`, live files, binds, pack `saves/` | begin/poll swap, boot repair | a transaction over ten files and binds with restart recovery |
| Save session scripts | `chronos_saves.nut`, `systemdata_saveload.nut`, `emulator.nut` | active, pending and failed flags | capture, change game, activate, complete, abort | exceptions between steps, ordering with the stock engine |
| Save-state routing | `console-mod/hook-src/save_route.h`, `save_interpose.h` | bindings (capacity 125), enabled flag | bind, find, resolve, interposed open/rename/unlink | which file a native path means; atomics against a mutex |
| SRAM slice and JSON readers | `save_slice.h`, `catalog_json.h` | none | export, import, parse | data |
| Console layout detection | `console_layout.h`, `psb_header.h` | none | detect | data |
| Covers | `mod-assets/scripts-src/chronos_covers.nut` | cover cache | load, evict | bounded cache, asynchronous loads |
| Menu and engine scripts | other `mod-assets/scripts-src/*.nut` | the stock menu | | stock code, changed in a few places |
| Library deletion | `editor/src-tauri/src/library_delete.rs` | a marker in the directory, the list, a quarantine directory | delete a game or a folder | crash between steps of a multi-file transaction; saves of an older list |
| Library move | `editor/src-tauri/src/library_move.rs`, `m2-publish/src/identity.rs` | two game lists and the directories | move | rollback of three files and a rename |
| ROM store | `editor/crates/m2-publish/src/rom_store.rs`, `m2-import/src/replacement.rs` | shared pool, cleanup queue | store, migrate, clean up | a ROM shared by games, delayed cleanup |
| Save migration | `editor/crates/m2-publish/src/sync.rs`, `save_format.rs`, `identity.rs` | fingerprints, markers, pair journal | import SRAM, locks, states | idempotence, ambiguous owners, interrupted pair replacement |
| Publish pipeline | `publish_pipeline.rs`, `runtime_assets.rs`, `source_library.rs`, `usb.rs`, `library.rs` | templates, settings pair, artwork, resources, fonts, markers | publish; prepare at every opening | dozens of files written one by one, a marker that promises all of them |
| Derived fonts and artwork | `fonts.rs`, `runtime_assets.rs`; `import_commands.rs`, `lib.rs` | descriptors, retry flag, font marker, two locks | import a cover, save, edit genres | what was derived is stale after a failure; commands side by side |
| Library creation and first run | `m2-import/src/stock.rs`, `lib.rs` | staging directory, the destination's entries | create a library from a dump, initialise one in place, open a folder | rename and rollback beside other programs; a first run cut short |
| Editor saves and game creation | `editor/src-tauri/src/lib.rs`, `import_commands.rs`, `editor/src/app.js` | the window's list, debounce and queue of snapshots; one mutex in the back end | edit, save, create, import, open, enter a folder | snapshots written long after they were taken, commands outside the mutex |
| Editor partition commands | `partition_commands.rs`, `editor/src/partitions.js` | running job, prepared restore | dump, restore | a long job against another command |
| Recovery over the network | `recovery/crates/pce-recovery/src/nc.rs`, `ssh.rs` | remote listener, lock, transfer | dump, restore | a shell, nc, the host and a cancellation side by side; two applications on one console |
| Recovery over FEL | `recovery/crates/pce-fel`, `sunxi-fel` | USB device | read, write flash | a device pulled, switched or left in the middle of an exchange |
| Recovery application | `recovery/apps/pce-gui` | running operation | start, cancel | one operation at a time |
| Codecs, atlas, CD and cover import | `editor/crates/m2-psb`, `m2-mzs`, `m2-import` (`cd.rs`), `m2-publish` (`covers.rs`, atlas, motion, title_select) | none | encode, decode | data, no control to check |
| Test environment, research, tools, packaging, CI | `test-environment`, `research`, `tools`, `.github`, `editor/packaging` | | | not the product |

How they interact. The editor writes the key while it is on the PC; the console
scripts bind it over `/usr/game` and start the engine with the hook; the menu
scripts call the hook's natives on one thread; the hook reads the catalogue on a
worker thread and moves saves between the key, NAND and the engine's own files;
pulling the key makes udev kill the engine at any point of any of these. The
files are the only shared memory: what one process leaves half done, another
process, later, has to understand.

The properties that make each component correct are listed with its module in
sections 3 to 12; section 13 says why the others are not modelled.

## 2. Plan

In order of importance to the user's data:

1. **SaveOwner** (core; refines **PerGameSaves**): done; three inductive invariants, the refinement and all its properties proved (section 3).
2. **UsbHotplug**: done; inductive invariant and all its safety properties proved (section 4).
3. **CatalogRuntime**: done; inductive invariant and its five safety properties proved (section 5).
4. **FolderSwap**: done; two inductive invariants and all its safety properties proved (section 6).
5. **EditorLibrary**: saves, creation, import, deletion and move on one library, done; two inductive invariants and all its properties proved (section 7). A second lineup and the deletion of folders are left.
6. **SaveMigration**, on keys that **LegacyExport** computes: done (section 8).
7. **MmcTransfer**: backup and restore over the network, done; inductive invariant and its safety properties proved (section 9).
8. **FelBoot**: the recovery boot over USB, done; inductive invariant and its safety properties proved (section 10).
9. **SourceLibrary**: what the editor derives for the console, done; two inductive invariants and all its properties proved (section 11).
10. **LibraryCreation**: done; inductive invariant and all its properties proved (section 12).
11. **SaveSession** and **SaveRoute** were considered and are not written (section 13).

Two safety properties stay with TLC, `NoForeignSave` and `OnceOnly` of SaveMigration, for the reasons section 8 gives.

## 3. SaveOwner and PerGameSaves

**What is modelled.** `SaveOwner.tla` is `save_owner.h` with its callers. The files are variables: `schema`,
`canonical` (`sram.bin`), `where` (the folder a game is in) on the key; `recDir` and `recovery` on NAND; `marker`,
`live` and `digestOk` (the slot in `data_008` and whether `meta_008` holds its MD5). `owner`, `enabled`, `bound` and
`failed` are the hook's and the script's memory, `bank` is the SRAM in the engine's memory. A save is a record of
the game it belongs to and a version; `Junk` is a bank nobody claims. Every durable step is one action, and `pc`,
`op`, `next`, `bytes` are the call under way, so that `Crash` can fall between any two steps.
`save_files_atomic` has three outcomes: `ok`, `old` (error, old file) and `new` (error of the last directory fsync,
new file already visible).

| actions | code |
|---|---|
| `WriteSchema`, `StoreCanonical`, `FallBackToNand`, `UnlinkSnapshot`, `MakeRecoveryDir`, `RenameRecoverySchema`, `StoreSnapshot`, `NandUnavailable` | `save_owner_flush` |
| `Disown` | `save_owner_deactivate` and the two legacy releases |
| `ActivateRefused/Same/Switch/Fresh`, `Invalidate`, `ImportUnreadable`, `WriteSlot`, `WriteSlotFails`, `RefreshDigest`, `Commit` | `save_owner_activate` |
| `CallFlush`, `CallRelease`, `ResetBindings`, `ResetLegacy`, `Bind`, `InitFails` | the natives, as `chronos_saves.nut` calls them |
| `EngineWritesData`, `EngineWritesMeta`, `Boot`, `StoppedEngineWrites`, `Crash`, `EditorMoves` | the engine's own save, `m2hook_init`, power loss, the editor |

`PerGameSaves.tla` is the promise without files: every game has a value, one game at most holds the bank, only the
holder's value moves, and only forward. `ImplementsPerGameSaves` maps a game's value to the version its next
activation would read (`Authoritative`) and the holder to the owner a ready marker names.

**Run.** `save_owner`: two games, two folders, two versions per game, on 5.9 million states. Two games are enough for every pair
(outgoing, incoming) and a third would only be a bystander; two versions let a copy be older than another. Games and folders
are permuted (`Symmetry`): no definition tells one from another and no liveness is checked. `Faults` names what the code does not
look at: an `unlinkat` of a snapshot that fails, and an engine that saves on after the legacy set-up stopped. Each behaviour has
either none of them or both (`ignored`, which never changes), and each property says for which behaviours it is claimed.
`SchemaPrecedesData` and `LegacySramUntouched` hold in all; `NoMisattribution` holds where no stopped engine writes, whether
unlinking fails or not; `FlushedSurvives` and the refinement are claimed where neither happens, for a snapshot that stays outranks the newer
`sram.bin` (`save_owner.h:221`, the result of `unlinkat` is not looked at), and the bank of a legacy process is later taken for
the claimed game's (`m2hook_print.c:1531`). In the other behaviours the refinement mapping is a constant: nothing is promised of them. One sentence of
the sources is not kept either: a power cut while the recovery directory gets its schema leaves a directory that is neither empty
nor marked, which `save_owner_recovery_directory` says cannot be; later flushes then go without the snapshot.

**Assumptions.** The engine's own save runs to its end before another native is called (the script waits for it);
an engine that holds no bank does not save over a claimed slot (`EngineWritesData`: `bank.game = NoGame => owner =
Absent`, because `chronos_capture_sram` and `save_systemdata` of an owner need a loaded bank); the editor moves
games only while the console is off; `fsync` means durable.

**Proved** (`SaveOwnerProofs.tla`, for any sets of games and folders, any version bound and any faults). Three invariants, each inductive
for its behaviours. `BaseInductive`, for all of them: types, the order of schema markers and data, and that while a copy is written
marker, digest and owner agree (`FlushInv`). `Inductive`, where no stopped engine writes: `IInv`. `NoMisattribution` alone is not
inductive: a flush copies `live` under the name of `owner`, so one must also know that while a game is imported the marker is pending
and the bytes are that game's (`ImportInv`), and that a ready marker beside a verified bank is true and survives the engine's
saves (`BankInv`). `TypeCorrect`, `SchemaFirst` and `NeverMisattributed` follow. One lemma per conjunct, one step per action that
can disturb it.

`SurvivalInductive` is the third, where nothing is ignored: every flushed version is in one of the two copies of a save that
nobody has claimed, and in the bank of the claimed one (`CopyInv`); the engine holds what it was given (`HeldInv`); and a flush
under way has its bytes somewhere at each step (`KeptInv`). From it `FlushedIsKept`, and `Implements`, the refinement: every step
leaves each game's value as it was or is the engine writing the claimed game's. `LegacyUntouched` needs no invariant.

The scripts are only the order in which these natives are called, which the model leaves free, and
`s_chronos_save_failed` (`failed`), which stops them all: whatever order `chronos_saves.nut` comes to, the properties hold.

## 4. UsbHotplug

**What is modelled.** The shell scripts as concurrent processes: one per partition for the udev handlers (udev
serialises the events of one device and no others), one for the boot script, and the `gameapp` wrappers. `mnt` and
`game` are the stacks of mounts on `/mnt/usb` and `/usr/game`, the latter with the binds of ROMs and saves on each
layer; `exitFile` is `/tmp/.game.exit`; `starts` the detached `gameapp start` commands not run yet. `proc[p].at` is the
next command of a script, `todo` and `left` the targets and the count of `pop_sd_binds_on`. One action per command
another process can observe or disturb; the functions of the library (`DropThen` and `then`) are shared by attach,
detach and boot as in the code. A device name is only given out again when nothing uses the old device (`Held`).
The kernel refuses to mount the same file system twice on one directory. `AfterEngine` stands for
shutdown-detection and for the poweroff that follows it.

**Run.** `usb_hotplug` checks two *sessions*, chosen at the start. A session is *calm* when people wait: a key is plugged or
pulled only when all is quiet, and the boot script starts after the cold-plug events. `faults` says what else may happen: a
failing `bind`, a failing lazy `umount`, an engine that `crash`es or ends with an `ioError` when its key is gone, a wrapper that
needs longer than the handler's `sleep 1` (`slowWrapper`). The calm session has three partitions, two of them with a library,
and four events, and binds fail; the hurried one a single key that comes and goes at any moment while unmounts and engines
fail. 982,547 states. In the calm session, after each event: one engine, from the visible tree, the key bound whole or not at
all (`SettledWhole`); mounts are only replaced without an engine (`MountsReplacedWithoutEngine`); only the user powers off
(`PowerOffOnlyByUser`). In both, the scripts come to rest (`Settles`).

The conditions are what the code needs, and without them the same properties give counterexamples. With `slowWrapper` or
`crash` in the calm session `PowerOffOnlyByUser` fails (`gameapp:73` never looks at the runtime it computes). When people do not
wait, a key inserted during boot violates `MountsReplacedWithoutEngine` (`pidof` answers for one moment only, `pce-usb-attach:35`),
and one pulled during boot starts two engines (`pce-usb-detach:23` schedules a start besides that of S99first_startup). `SettledWhole`
fails then too, against `pce-usb-lib.sh:41` ("Count first, then umount exactly that many times"): the boot script and the attach
handler count the same layer on `/usr/game`, both unmount once, and the second takes the stock partition.

Two wrappers suffice: the code intends one, and a second is what the counterexamples need. Four events cover insert, pull,
another key, and a partition without a library in between.

**Fairness** (`UsbFairSpec`): weak fairness of every script and wrapper, which are processes the kernel schedules. The
user, the crashes and the plugs are not fair. Only `Settles` needs it; an engine that runs forever is quiet.

**Not modelled**: a plain `umount` of the key that fails, the remount of a read-only key, the remote-access service.

**Proved** (`ConsoleProofs.tla`, any partitions, libraries, wrappers, any number of events). The theorems share one assumption, `Gentle`: in a
calm session binds may fail and nothing else does, which is the condition the counterexamples above call for; hurried sessions are not restricted.
`CalmAgrees`: `UsbSpec => []CalmInv`, that is, `Calm` in every calm session. Each script is at a step its kind has, with the targets it can have
there (`JobInv`); each step has its mount table, and when no script is at a step that changes mounts the key is bound whole or not at
all (`MountInv`); a device is gone if and only if its removal has been handled or is waiting, and no attach is on its way for a key
that is bound (`EventInv`); boot, events and starts take turns (`TurnInv`); an engine runs from the visible tree, has ended because of the user, or
was killed after `.game.exit` was touched, and no script is past its kill while one runs (`EngineInv`); an engine runs, is being started, will be
started by a script, or has been quit (`StartInv`). The count of a target and what one pop leaves are lemmas (`CountFor`, `PopFor`). From it:
`SettlesWhole`, `OnlyUserPowersOff` and the action property `NoMountUnderEngine`. The module also holds the proofs of CatalogRuntime, the
other component that runs on the console; the temporal formulas of UsbHotplug carry its name for that reason.

## 5. CatalogRuntime

**What is modelled.** Reading a folder, from the scripts (`ensure`, `wait_folder_swap`, `read`) through the natives to
the worker thread. `state`, `ticket`, `taken`, `stage` and `thread` are the globals of `catalog_runtime.h` and
`folder_worker.h`; `task` is where each Squirrel task stands in `read`, `live` is `ChronosLibrary.snapshot`. `root` is
what is mounted at the library path and can change at any moment (`SwapKey`); a snapshot records the library its
anchor was opened in and the set of libraries its bytes came from; a read that failed leaves one that holds only its
error (`Broken`), or none for want of memory, and the native that joins the thread frees it. The worker's steps (`ReadMarker`, `OpenAnchor`,
`ReadPart`, `StoreStage` or, after an error, `StoreError`, then `PostResult`) interleave with everything; Squirrel tasks hand over only in `wait(0)`, which is
what `turn` says: a task keeps the turn from a poll that answers "ready" to the tables `takeFolder` builds, and
`static_profile` may wait again between these and the commit. `Throw` is an exception in `read`: `ensure` tries the
root of the lineup once, a navigation keeps its folder. A navigation whose artwork is rejected after the commit
reads the previous folder again (`Commit`, `finish_source_folder_swap`).

**Run.** `catalog_runtime`: two tasks, two V2 libraries and one old one, two reads, two changes of the key; 202,355
states. Two reads are what a stale ticket needs, two changes let a key come back. `ReadsEnd` holds under `FairSpec`:
weak fairness of the thread, and strong fairness of each task, because the engine resumes every waiting task each
frame whereas the turn of one comes and goes. `CHECK_DEADLOCK FALSE`: at `MaxTicket` everybody rests.

**Proved** (`ConsoleProofs.tla`, any number of tasks, folders, libraries, tickets). `CatalogOrdered`: `Spec =>
[]IInv`. What must be added to make the properties inductive: what the thread has read so far comes from the library
it opened (`ReadsWhole`); a ticket is issued to one task only (`TicketsIssued`); thread and stage serve the task that
holds the latest ticket, and `taken` describes what that task got (`LatestServed`); nobody runs between "ready" and
`takeFolder` (`TurnKept`). From it: `StageHasOneOwner`, `SnapshotsWhole`, `ResultsMatchRequests`, and the action
properties `WorkerAlone` and `RememberedIsShown`. The tickets are natural numbers; the wrap at 2^31 is out of the
reach of a session.

**Not modelled**: the JSON, the tables and textures built of it, `chronosLibraryEnabled`, an invalid `.current-v2`.
`Current` is one step although
`catalog_snapshot_current` looks twice, at the directory and then at the marker (`catalog_library.h:335-336`): a key that is
unmounted and another one mounted between these two system calls is not met; with it the marker of the second key could vouch for a
folder read from an old one. Two tasks in `ensure` at once are allowed by the code and so by the model; whether the stock boot has two is not in
the sources.

## 6. FolderSwap

**What is modelled.** `do_folder_swap` and the start-up of `m2hook_init` for a library of packs. Files: `current` and
`sramPack` (the two markers), `sram` and `states` (each pack's `saves/`), `live` and `digestOk` (the bank in `data_008`,
its MD5 in `meta_008`), `under` (the save-state files of the live directory, beneath any bind). Memory and mounts:
`bound`, `profile`, `bank`. A start and a swap run the same installation (`BindProfile` to `WriteOwner`); they differ in
what an error does, which is `Fails` and `GiveUpBank`: a swap returns -1 and `wait_folder_swap` throws, so nobody plays
on (`stopped`), a start counts a failure and lets the engine run. `Crash` loses binds and memory, at any step.

| actions | code |
|---|---|
| `BeginSwap`, `StayInPack` | `wait_folder_swap` and the checks of `do_folder_swap` |
| `ExportSram`, `MigrateFile`, `DropMigrated`, `SyncPack`, `MarkPending`, `UnbindState`, `Unbound` | phase 1, the outgoing pack |
| `BindProfile`, `ProfilesBound`, `BindState`, `StatesBound`, `ImportSram`, `CopySram`, `RefreshDigest` | phases 2 and 3, and `m2hook_init` |
| `WriteOwner`, `WriteCurrent` | `write_current` |
| `EngineWritesData`, `EngineWritesMeta`, `EngineSavesState`, `Boot`, `Crash` | the engine, starts, power |

**Runs.** `folder_swap`: two packs, two save-state files, two versions of everything, every error of a swap and a crash
anywhere; 3,064,138 states: no pack gets another's bytes (`NoForeignBytes`), no completed save is lost, of the bank or of
a state (`SavesSurvive`), and a bank, its owner and its binds belong to one pack (`OneContext`). Two files let a loop be cut in the middle, two versions let a copy be stale; file names are
permuted. `SavesSurvive` promises what `live_sram_is_current` says: a *completed* save is kept. A save of the engine cut
between data and digest costs the pack everything since it was last left, because `sram.bin` is only written then; the
model says so in `EngineWritesData`. `ghost_slots` is a finding: a crash is enough to give a pack empty save states.

**Faults.** What the code does not look at is a constant, empty in `folder_swap`. With `install` (an error at a start,
only counted: `m2hook_print.c:1583`) all three properties fail, `NoForeignBytes` after a crash during an import whose
restore then fails. With `unreadable` (`read_current` takes an unreadable `.current` for `jp/_root`) they fail as well.
With `lostRename` (`migrate_new_saves` unlinks the live file before the pack's directory is synced) `StatesSurvive` fails.

**Proved** (`FolderSwapProofs.tla`, any packs, files and version bound; a start must not go on after an error and `.current` must
be readable: neither `install` nor `unreadable` in `Faults`). `Inductive1`: each step knows who calls it and for which pack
(`CallInv`), what is bound when (`MountInv`), whose bytes are in the slot and where the last completed save of a pack is
(`BankInv`, `BankSurvives`), and what lies under the binds (`UnderInv`). `TypeCorrect`, `OwnBytesOnly` and `PlaysOnePack` follow.
`Inductive2` adds the state files and needs that no rename is lost; with it `NothingLost`, which is `SavesSurvive`.

**Not modelled**: the V2 mode of the same functions, in which nothing is exported or imported; the binds left by an
engine that is restarted without the mounts being dropped; a failing `umount2`.

## 7. EditorLibrary

**What is modelled.** The editor's window and its back end on one library: a lineup and one folder in it. On disk,
`rows` is what the two `gamelist.json` name, `dirs` each game directory (identity and ROM of its `game.json`, deletion
marker), `pool` the shared ROMs, `cleanup` the names in `.rom-cleanup.json`. In the window, `view` is the list objects,
`shown` the one displayed, `timer` the debounce, `saves` the chain of `saveInFlight`, each a copy of the list that was
shown; `writing` and `left` are `save_lineup` in progress. `op` is the operation behind the overlay (`runOperation`, one
at a time), `creating` the "Add game" that the overlay does not cover. `Locked` is the one mutex of the process
(`lock_cover_update`); `create_game` makes its directory, `import_rom` and `remove_replaced_rom` do all their work
without it.

| actions | code |
|---|---|
| `EditRom`, `TimerFires`, `BeginSave`, `RefuseSave`, `SaveGame`, `SaveGameFails`, `SaveRows` | `onFieldChange`, `autoSave`, `saveNow`, `save_lineup` |
| `Open`, `EnterFolder`, `ExitFolder`, `AddGame`, `CreateDir`, `CreateJson`, `CreateFails`, `CreateReply` | `load_library`, navigation, `addGame`, `create_game` |
| `StartImport`, `ImportRom`, `ImportFails`, `RemoveReplaced` | `importRomFile`, `import_library_rom`, `remove_replaced_rom` |
| `StartDelete`, `DeleteMark`, `DeleteRows`, `DeleteUndo`, `DeleteDir` | `deleteGame`, `library_delete.rs` |
| `QueueCleanup`, `ReadReferences`, `Purge`, `WriteQueue` | `rom_store.rs` |
| `StartMove`, `MoveCheck`, `MoveRename`, `MoveDest`, `MoveSource`, `UndoDir`, `UndoDest`, `UndoSource` | `moveGame`, `library_move.rs` |
| `Answer`, `Crash` | the window takes the back end's lists; the editor ends |

A failed write may have replaced the file or not, as the comments of both transactions expect. `rename` over an empty
directory succeeds and over any other fails (`Renamable`), as on Unix. `MoveRename` stands for the rename and the write of
`game.json` after it (`library_move.rs:231-234`), which changes the country only, a field the model does not have: if it fails, the
rollback meets what it meets after a first list write that replaced nothing.

**Run.** `editor_library`: two lists that share their directory names, as generated names do, three identities, two
ROMs (so that a ROM can be shared, replaced and chosen again), one queued snapshot, one fault anywhere; 1,786,766 states.
Names, games and ROMs are permuted; no definition tells them apart and no liveness is checked. A second fault would
mean a failing rollback, which the code reports and does not repair (`torn`: a row may then lack its game).
`CanOpen` is what an opening needs: distinct identities, a ROM for every game, a game for every row. `NoResurrection`: no queued
snapshot brings a deleted game back; `GamesAreKept`: no other command loses one; `EditsReachDisk`: an edit shown as saved is on
the disk. `Patient` is the condition under which the properties hold: the user navigates and adds a game only when no save is due
and the last one succeeded. `spoiled` remembers a failed save, whose edits the window still shows as unsaved.

**Without patience.** An edit followed by a click on a folder within 300 ms is not saved (`EditsReachDisk` fails). More
follows from the same cause. If that edit chose a ROM, an import in the folder may remove the ROM from the pool (no
`game.json` names it yet), and the next save of the list writes a name without a file: `CanOpen` fails, and
`load_library` stops with "ROM migration stopped". The same happens after a failed save, which is why `Patient` also
asks for `Saved`. The answer of `create_game` is pushed on the list shown when it arrives (`app.js:2283`), which after
`exitFolder` is the wrong one: every later save of that list is refused until the library is opened again. With
`MaxSaves = 2` and four games `IdentitiesDistinct` fails: `create_game` makes its directory outside the mutex
(`lib.rs:651`), so that an old snapshot naming it passes the preflight of `save_lineup` and writes another game's
identity there, after which the library cannot be opened. It takes two answers of the back end in an unlucky order.

**Assumptions.** Picking a directory to open takes longer than the debounce and the saves (`Open`). A new game has an
identity nobody has (`fresh`). The window's `selectedIndex` may change during the first save of an operation, when an "Add
game" is answered then; the plan sent is then refused, which the model's plan, by name, need not be.

**Not modelled**: covers, fonts and sort order; the deletion of a folder; the other lineup, saved by the same command
after the first; directories without identity (`migrate_library` gives them one); local ROM copies, published packs and
the bootstrap ROM; the marker on a parent.

**Proved** (`EditorLibraryProofs.tla`, any names, games and ROMs, any number of queued saves, of failed writes and of crashes):
all four properties and the shapes. The assumptions are `Patient` and `OneFault`: a rename that fails is the only fault of its
run, or renames do not fail, because a failing rollback tears the library and the code does not repair it. None of the four
is inductive: whether an opening works depends on what every snapshot still in the queue will write, and that on what the
window showed when it was taken. `InductiveInv` (`EditorAgrees`) joins them:

- `PhaseInv`: which steps each kind of operation has, and which of its variables mean something at each of them;
- `ViewInv`: an entry the window shows is a game on disk, unless the operation took it away, and unsaved only in its ROM;
- `QueueInv`: a queued save is of the shown list and never finds an empty directory (it would create a game there); the
  operation waits for one save at most, and nothing queued from then on differs from what the window shows;
- `WriteInv`: the entries a save in progress has handled are on disk, and none of them is marked for deletion;
- `DiskInv`: identities are distinct and one given out is new; a ROM some metadata names is in the pool and not about to be
  purged; a deleted game still on disk is marked and unlisted; an answer under way says what is on disk;
- `DeleteInv`, `MoveInv`: how far the deletion or the move under way is, in the directories, both lists and their undo;
  `RowsInv`: the lists name games, or did before the operation that is under way.

From it follow `AlwaysOpens`, `DeletedStaysDeleted` and `NoGameIsLost`. `EditsAreKept` needs a second one, `ChoiceInv`, on top
of the first: until a save fails, the window shows the user's choices, each is on disk or in an entry of the shown list, and without a
timer the last queued save carries such an entry, or the disk has it and no queued save says otherwise. TLC checked both on the
run's instance, and without faults with two and three queued saves, before they were proved.

## 8. SaveMigration and LegacyExport

**What is modelled.** Before a library is enabled for per-game saves, one run of the editor gives every game its identity,
imports what the console saved by *position* in the last published menus, checks every canonical save and writes the marker.
`world` is the library and the published menus, and never changes; `from` holds the legacy states by directory and position.
`data`, `meta`, `journal`, `backup` are the canonical state pairs, `bank`, `schema`, `bankBackup`, `locks`, `flags` the SRAM and the
lock masks, `gid`, `native`, `owner` the identities, `kept` the manifest and `v2` the marker. `run` is the run under way. A payload
says which game made it, when, and under which tag.

| actions | code |
|---|---|
| `Identify`, `IdentifyRefuse` | `identity.rs`: the whole plan is checked, then one `game.json` after the other |
| `Sync`, `SkipPack`, `NextPack`, `SyncEnd` | `sync_library_from_published` |
| `SramRefuse/Skip/Retain/Replace/Mark` | `migrate_sram`, `retain_original` |
| `Scan`, `StateSkip/Recover/Refuse/Keep/Import` | `migrate_states` |
| `BackupData`, `BackupMeta`, `WriteJournal`, `InstallData`, `InstallMeta`, `DropJournal`, `RecoverRefuse` | `prepare_pair`, `recover_state_pair` |
| `MigrateLocks`, `WriteManifest` | `migrate_locks`, the manifest |
| `StoreRecover/Retag/Owner/Schema/Refuse`, `Finish` | `prepare_per_game_save_store` |
| `PlayLegacy`, `PlayCanonical`, `Delete`, `OlderEditor`, `Stop`, `StopInCopy` | the console and an older editor between two runs; errors and kills |

`LegacyExport.tla` computes, without state, what a publication puts on the key: menus, pack names, profiles, save files and
refusals. The code that emits packs survives for standalone exports; here it stands for the editors that published the keys
the migration meets.

**Run.** `save_migration` starts from eight keys (`MCSaveMigration`). LegacyExport computes two of them: a folder in the second
lineup, and a folder that was dissolved, so that games moved and the old pack stayed. The others are what editors from before
identities left: tags without identities, SRAM of the old layout, live SRAM that `.sram-pack` assigns to
another menu than `.current` (a folder swap cut short), a tag two games share, a game that was retagged, a stranger's state in
a game's directory. The run stops anywhere twice (error, kill, or the use of an older editor in between) and the player makes
two saves (one on the larger key). 601,039 states. `NoForeignSave`: a game's directory only gets saves the game made, however
menus were reordered. `WholeOrJournalled`: at every moment both files of a state agree or the journal completes them. `NeverOlder`:
no run, also none that finishes an earlier journal, puts an older state over a newer one. `OnceOnly`: a snapshot that was handled does
not come back after the player deleted it. Two stops are what a recovery cut short needs.

**Proved** (`SaveMigrationProofs.tla`, for every library and every set of published menus). The inductive invariant `MigrationInv` has
six parts: what was published and the native tags (`NameInv`), the legacy states (`FromInv`), the shape of states, metadata and
journals (`PairInv`), where a run can be and what it has read there (`RunInv`), the order of times (`TimeInv`), and
`WholeOrJournalled` itself. `WholeOrJournalled` is inductive only with `RunInv`, which knows that between the two installs the data file is the
journal's and the stage of the metadata is still there. `NeverOlder` is an action property: the only step of a run that replaces a state is
`InstallData`, and `TimeInv` says that what a journal installs is not older than what it names as the old contents. That holds because
`migrate_states` imports only what is newer than the *metadata* in place, and the metadata is never older than its data. An
interrupted journal keeps it, because `recover_state_pair` refuses a pair that the player has changed since. The choices of
`migrate_states` (the first position left, the newest copy, the owner) are shown to choose something that exists, from the
least number principle. Assumed: `None` is not a payload, a record or a tag, menus are no longer than `MaxMenu`, and a key found by the
editor is `Plausible`: its positions with a game name games of the library, and nothing on it was written later than now (the
console and the editor share a clock that does not run backwards). `NoForeignSave` and `OnceOnly` stay with TLC. The first depends
on which tags and positions the published keys can carry (see Limits: it is false for keys that cannot be told from
others), so that a theorem would assume about all identities of a run what it is to show. The second is about the manifest of all earlier
runs, and its invariant would restate the choices of every pack.

**Limits.** An item without identity whose game is gone and whose tag a new game took cannot be told from that game's; no
world has one, and nothing in the files could decide it. The times of legacy files are those at which the console wrote
them. The key is in one machine at a time. A copy of an original cut by a kill stays torn as "the backup" (`StopInCopy`): the
canonical save is not hurt, the backup is worthless. Blocks abstract from the offset of four bytes between the profile's slice
(`publish_pipeline.rs:1072`, `docs/per-game-saves.md:29`) and the engine's. Publications that are refused leave the key as it was and
make no world. Where `read_dir` decides the order of packs (`sync.rs:392`) the model takes any.

## 9. MmcTransfer

**What is modelled.** Backups and restores of the console's partitions, by the editor (`ed`) and the recovery utility (`gui`), on
one console. `op` is the operation of an application, `preview`, `archive`, `folder` and `manifest` what it has on the computer;
`lock` and `cancels` are the files in `/tmp` of the console, `shell` and `nc` its processes by transfer; `disk` the blocks, `mounted` and
`system` what the console runs. Host, SSH worker, remote shell and nc are processes of their own.

| actions | code |
|---|---|
| `Prepare`, `RestoreImage`, `CancelRestore`, `Restore`, `Backup`, `Dump` | the commands of both applications |
| `Stage`, `Name`, `RequireRecovery`, `RecheckFails`, `Preflight` | the image and its digest, again before it is written; what must hold of the target |
| `Acquire`, `AcquireNoMore`, `AcquireLost`, `ReadyCheck`, `ReadyTimeout`, `Connect`, `Send`, `Receive`, `StreamFails` | the lock, the listener and the stream (`nc.rs`) |
| `Finish`, `FinishTimeout`, `Sha1`, `Cancel`, `Join`, `Release`, `SshFails`, `RestoreEnds`, `DumpEnds`, `BackupEnds`, `Manifest` | verification, cancellation, the results |
| `ShellTest`, `ShellPid`, `ShellWait`, `NcListen`, `NcWrite`, `NcEnd`, `WorkerStart`, `WorkerEnds`, `WorkerLost` | the remote script, nc, `ssh.rs` |
| `ChangeFile`, `ConsoleStops`, `ConsoleStarts` | the user, the console |

The remote shell tests owner and cancellation in one step, forks and writes the pid in another, and tests again in a third;
the release is one remote command. A timeout is a fault except where the wait really is stalled.

**Run.** `mmc_transfer`: a disk of three blocks in two partitions, one application of each kind, two transfers, one fault anywhere (a
failed command, a lost answer, a timeout, an image file that changes, a power cut). Two transfers are what a stale listener
needs to meet another, two blocks what a cut stream needs. `OnlyQuietTargets`: no operation touches a mounted partition or one of an
unexpected size; one on the whole disk only looks at the size of the disk. `VerifiedIsConfirmed`: what is reported verified is what the user confirmed, whatever became of the file.
`BackupsAreWhole`: a saved backup is the partition at one moment, and is never replaced. `OperationEnds` (temporal): the application becomes
usable again. Its fairness is weak fairness of host, worker, shell and nc: processes that the two systems schedule, and SSH has
time limits of its own. The user, the faults and the power are not fair.

A shell of a transfer that was cancelled earlier may still write its pid into the next one's lock, which the comments at
`nc.rs:223` and `nc.rs:350` exclude; the host then connects to the wrong nc, and the digest fails the transfer. The properties hold
because of that digest.

**Proved** (`RecoveryProofs.tla`, any applications, partitions, images, faults and disk, with `LayoutAssumption`: partitions are
numbered from 1 and share no block; and `BatchesAssumption`: a backup names partitions or the whole disk). `Inductive`: operations and
processes exist and have their fields (`ShapeInv`); between the preflight and the release the target is what was found
(`TargetInv`); a process on the console keeps off what is mounted until it is gone (`ProcessInv`); a restore carries what was
confirmed (`RestoreInv`); what an operation verified, its partition has held (`SeenInv`); what a
backup was asked for is saved or still to do (`TodoInv`). `TargetsAreQuiet`, `VerifiedRestores` and `SavedBackups` follow. That an operation ends stays with TLC.

## 10. FelBoot

**What is modelled.** The boot of the recovery system: detection and trigger of the console, opening the FEL device, both boot
sequences down to each bulk transfer (`plan`, then `todo`), and the network set-up. The device (`mode`, `phase`, `request`, `mem`, `dram`,
`flushed`) is the firmware as `sunxi-fel` uses it, which is external: an envelope, its payload and a status take turns, an
exec request jumps when its status is asked for, and FES1 initialises the DRAM or does not, which no status tells the host
(`pce-fel/src/lib.rs:320`). Payload files may change between two boots, and between the two checks of one (`lib.rs:261`).

| Actions | Code |
|---|---|
| `StartRecovery`, `Detected`, `WaitFails`, `Trigger`, `TriggerFails`, `FelSeen`, `FelTimeout`, `Open` | `recovery.rs` up to the boot, `trigger` |
| `StartStep`, `Transfer`, `BootSent` | `boot_recovery`, `bulk_out`, `bulk_in`, `read_status`, the end of `run_inner` |
| `TransferFails`, `TransferErrs` | a transfer fails because the device is gone, or although it is there |
| `NetworkConnect`, `LinkCommand`, `LinkFails`, `Inspect` | `connect`, `configure`, `inspect` |
| `SwitchOn`, `SwitchOff`, `Udev`, `StartsNormally`, `EntersFel`, `StartsRecovery`, `Killed`, `ChangeFiles` | the console, udev, the user |

A transfer that fails although the device is there (`device.rs:275-312`: a USB error, a short transfer, a bad status) may have been taken by
the device or not, so host and device may be out of step from then on. Every such error ends the boot, but for those of the status
after the last exec, which `exe_no_return` discards (`device.rs:188`).

**Runs.** `fel_boot`: one console, which is switched, triggered and unplugged at any moment (four enumerations), another device in
its place, an application killed once, one transfer that fails although the device is there, two boots, complete and incomplete payloads;
425,046 states. Four enumerations give boot ROM and FEL twice; the second boot is what meets a device left in the middle, by the
error or by the kill. `InStep`: host and device agree on the next transfer, unless an exchange with this very enumeration of the
device was broken off by a kill or an error (`broken`, history); switching the console off and on makes it good. `RunsOnlyWhole`: only what this boot wrote as a whole is executed, after FES1 where it is in DRAM and with a
clean cache. If FES1 could not initialise the DRAM the boot goes on all the same and jumps to what is not there: the host cannot know, and the property
claims nothing of what DRAM holds then. `SentJumpsWithoutError`: a boot none of whose transfers failed and that is reported as sent did
jump, or its console is gone. `BootEnds` (temporal, weak fairness of the application and the USB stack, none of kills, errors and the
user): a boot ends, or waits for a device that is out of step - bulk transfers have no time limit. The console's own steps need
no fairness: detection and the FEL device have time limits.

`sent_boots` is the finding: without "none of whose transfers failed" the property is false (`SentMeansJumped`). `exe_no_return` tolerates
errors of "the trailing reads" because the device may have jumped by then, but it discards an error of the prompt before them too, without
which, as the same comment says, the device does not jump. The trace: the envelope that asks for the last status fails while the
console is there and has not taken it, the boot goes on to its end and is reported as sent, and the console waits in FEL mode. The
application looks whether the device is still on USB (`recovery.rs:252`), writes a warning into its log, and answers `BootSent` all the same.

**Proved** (`RecoveryProofs.tla`, any payload directories and sizes, kinds of device, and numbers of enumerations, kills, errors and boots).
`BootInductive`: the window and the application agree (`AppInv`); the device of a session is the one that was opened, or it is gone
for good (`HandleInv`); a device nobody talks to is at the start of an exchange unless one with it was broken off (`PhaseInv`); and
a boot whose device is still in FEL mode is at one place of its plan, of the operation there and of the turn of that operation, with
what the operations before it wrote, ran or flushed in the device, or nothing of it was sent yet, or an exchange with
this enumeration was broken off (`SessionInv`). The properties alone are not inductive: that the next transfer fits is known only from all
transfers before it, so the invariant says for each place what memory, DRAM and phase are. `StaysInStep`, `WholeBootsRun` and
`SentBootsJumped` follow. `BootEnds` stays with TLC. The assumptions are that `Nothing` is none of the records
(`NothingAssumption`) and that payload files are not empty (`PayloadsAssumption`). The code does not enforce the second:
`RecoveryPayloads::check` asks only for a file, and `device.rs:119` makes no transfer for an empty one. Such a set of
payloads is not one that a recovery release contains; the model keeps it out.

## 11. SourceLibrary

**What is modelled.** What the editor derives from a library so that the console can read it in place: artwork, fonts, patched
resources, the settings pair and the two markers. One game stands for all entries. `cover`, `shape`, `title`, `genre`, `sleeve` are the
library; `art` and `dirty` the artwork with its descriptor and retry flag; `base` and `live` the templates and the resources
derived from them, `fontMark` the fonts' marker; `data`, `meta` the settings; `markers` what enables the library. `job` holds the five
jobs: opening and publication, import of a cover, save, genres; `coverLock` and `fontLock` are the mutexes. `failed` are the jobs whose last answer
was an error.

| actions | code |
|---|---|
| `Edit`, `BeginSave`, `BeginGenre`, `BeginModal`, `AwaitSave`, `BeginOpen`, `OpenBare`, `Start`, `Close` | the window (`app.js`) and its commands |
| `InstallPart`, `CheckSettings`, `WriteData`, `WriteMeta`, `CheckSleeve`, `WriteSleeve`, `KeepUi`, `PatchUi`, `MarkPerGame`, `MarkLibrary` | `source_library::prepare` |
| `TakeCoverLock`, `MarkCoverDirty`, `CompareShape`, `WriteJson`, `WritePng`, `ReadInputs`, `ReadPrevious`, `WriteArt`, `Sweep`, `ClearFlag`, `ReleaseCoverLock` | `prepare_entry_assets` and its callers |
| `WriteGenres`, `TakeFontLock`, `KeepFont`, `CompareFonts`, `WriteFont`, `MarkFonts` | `prepare_runtime_fonts` |
| `PublishFonts`, `InstallFont` | the legacy publication |
| `Refuse`, `WriteFails`, `GeometryFailsLate`, `Kill`, `KillTearing`, `UserCopiesRuntime`, `Play` | errors, kills, the user, the console |

**Run.** `source_library`: two covers, two shapes, two fonts, three characters of which one has no glyph, two edits, one failed
write or kill anywhere; 1,617,687 states. Two values of each are what a stale one needs; a second fault would hit a
preparation that starts again from the same disk. `ConsoleReadsWhole`: the descriptor names files that are there, the enabling
marker comes with everything the console reads, and once every save ended well each font has the characters of every
title. `StaleIsFlagged`: artwork that is not of the current cover and shape carries the retry flag. `OriginalsKept`: no resource is
replaced before its original is safe. `RefusedOnlyAfterKill`: what a later opening refuses is only left by a kill.
`publish_library` is a synchronous command; the window takes no input meanwhile. The code prepares the artwork of a
retail entry twice, the model once.

A write can also fail after its rename, when the directory does not sync. The model has this where it decides what is rolled
back, for the geometry (`GeometryFailsLate`). Elsewhere a job that stops with one more file replaced leaves what a failure of its next
write leaves (`WriteFails`); after its last write it leaves the files of a success, and the model has no error there.

**Known weaknesses**, which the properties exempt or the constants keep out:
a title with a character outside the fonts is saved, and every later opening fails (`fonts.rs:108`, against
`docs/JAPANESE-FONT.md:16`); an opening does not take the cover lock, so reopening during an autosave (`Patient = FALSE`) can leave
the descriptor stale or naming a file that was swept; a kill between the strips of a sleeve and their geometry is refused for
ever (`runtime_assets.rs:472`). `data_008`, `meta_008` and the originals of the fonts are written in place: a kill tears them, and
a torn settings pair is accepted (`spoiled`). `prepare_usb` replaces its assets one by one, which is one
step here: a kill leaves a mixed set on a library that is enabled already.

**Proved** (`SourceLibraryProofs.tla`, any covers, shapes, characters, fonts, edits and faults; `CharsAssumption`, `NoneAssumption`:
the names of the model do not clash). `Inductive` needs no patience: `LibraryInv` says where each job can be (`JobInv`), what the
files are as long as no kill fell into a write in place (`TreeInv`, `FilesInv`), and that an original is kept before its file is
patched (`KeptInv`). `OriginalsAreKept` and `NothingRefused` follow. `PatientInductive` assumes `Patient`: an opening is alone (`AloneInv`),
locks have one holder (`LockInv`), and a job that changed the library is behind until artwork, settings and fonts were seen to
(`MetaInv`, `ArtInv`, `InstalledInv`, `PassedInv`, `SettingsInv`, `ReadyInv`, `MadeInv`, `GlyphInv`, `FlagInv`, `EnabledInv`). From it
`ReadsWhole` and `StaleGetsFlagged`; without patience both are false, as said above.

## 12. LibraryCreation

**What is modelled.** How a library comes to a key. `create_library` stages one from a dump in a private directory and moves its
entries into the destination, or takes them back; `init_library` completes the older layout in place. `exists` and `dest` are the
destination, each entry with who made it and what it holds, `stage` each window's staging directory, `job` its command, `told`
what it was told, `stuck` what a rollback could not take back.

| actions | code |
|---|---|
| `BeginCreate`, `StageResources`, `StageGames`, `StageRuntime`, `StageFails`, `GiveUp` | the preparation; nobody else sees it, so a step is a stage |
| `CheckAgain`, `InstallWhole`, `RequireAbsent`, `Rename`, `RenameFails`, `RollBack`, `RolledBack`, `Identify` | the installation: second check, renames that replace nothing, rollback |
| `BeginInit`, `InitList`, `CopyResource`, `CopyTemplate`, `InitEnable`, `InitFails`, `OpenFolder` | `init_library`, opening a folder |
| `UserPuts`, `UserMakesDirectory`, `UserClears`, `Kill` | other programs, the user, an editor that ends |

**Run.** `library_creation`: two windows, three dumps (whole, one without a ROM, an ambiguous one), two acts of other programs, two
faults and a kill; 169,931 states. Two windows because the renames are what keeps them apart; two faults because the second may
hit the rollback of the first. `VisibleWhole`: a library made here is never visible without what it needs. `OutcomeTrue`: what the window is told
is true - after "created" the whole library is there, after a failure all of it or nothing, after a failed rollback each entry
in the destination or in the directory that was kept. `OthersKept`: nothing that another program or window put there is replaced or removed. A failed
rollback is exempt (`stuck`): it goes on after an error, so the game directory may go back while the library stays.

An initialisation that ends after both lists exist counts as a library from then on (`check_library_status`): it is not
offered again, and the opening either answers that the runtime is incomplete or opens it bare (`lib.rs:1276`, `source_library.rs:143`).
If `migrate_library` fails after the installation, the user is told that the creation failed although the library is complete.
Two environments are left out, and `OutcomeTrue` and `OthersKept` would fail in them. Initialising or opening a key on which another
window is creating (`NobodyCreates`; nothing in the code prevents it): the rollback of the creation may take back a game directory
the other is completing. And another program that exchanges an installed entry for one of its own before the rollback, which moves
back whatever has the name (`stock.rs:335`). Several windows may initialise or open at once. Menus, covers and the BIOS are data.

**Proved** (`LibraryCreationProofs.tla`, any windows, dumps, acts and faults; `SlotsAssumption`: the names of the model do not clash;
`LibrariesAssumption`: a library the user brings carries no marker and lists what is there). `Inductive`: a job moves nothing before its
staging is whole and knows what it moved (`JobInv`, `StageInv`, `MineInv`); an initialisation in place meets no creation
(`PlaceInv`); what windows put into the destination is complete, and never a later entry without the earlier (`DestInv`); a marked
library of the user has all it needs (`UserInv`); and the last answers are true (`ToldInv`). All three properties follow (`NothingVisibleIsTorn`, `AnswersAreTrue`, `NothingIsOverwritten`).

## 13. What the tools show, and what they do not

Model checking covers the instances above completely; a proof covers every value of the constants. Proved are the safety properties
of SaveOwner, UsbHotplug, CatalogRuntime, FolderSwap, EditorLibrary, MmcTransfer, FelBoot, SourceLibrary and LibraryCreation and two
of the four of SaveMigration, each under the assumptions its section names. Only model-checked are the other two of SaveMigration
and all liveness: `Settles`, `ReadsEnd`, `OperationEnds`, `BootEnds`. Liveness and ENABLED stay with TLC because the prover handles
neither. Induction over data is out of its reach too: what a fold computes for every sequence (the keys of LegacyExport) cannot be
proved. No module has a RECURSIVE operator: folds are those of the community modules. Each property has a mutant, an
operator of the module that is a plausible bug of the code it replaces, and TLC finds the property violated by it;
these operators are introduced by "A bug". A property that joins several parts has one for each of them where they fail
for different reasons.

Bounds are of two kinds. Sizes (games, packs, windows, blocks) are the smallest in which the actors of a hazard can meet.
Counters (faults, kills, saves, events) bound how often the environment acts; they are in the guards of its actions and never in
those of the code. Symmetry is used only in runs without liveness, and only for values that no definition tells apart.

**Not modelled**, and why. The order in which `chronos_saves.nut` meets the stock menu (`mode_main`, the autosave dialog, the
shutdown handler): these callers are not in the repository, so that a model of them would be a guess; SaveOwner lets the
natives be called in any order instead, and stops them with the script's own flag. The save-state routing of `save_route.h` and
`save_interpose.h`: one table of 125 entries behind a mutex, read and written by single calls; `SaveOwner` has its effect (`bound`,
`enabled`, the identity check of the directory), not the parsing of paths. The SRAM slice and JSON readers, the console layout detection: functions of
bytes that do not change, without an order to get wrong. Covers and menu scripts: presentation around the calls that are
modelled. The codecs, the atlas, the CD and cover import: pure functions over large data. The test environment, research, tools and
packaging: not the product. What each modelled component leaves out is said in its section and in `PROJECT.json`.

The models say nothing of the contents of files, of time other than its order, or of the stock engine beyond the
saves and exits described.
