----------------------------- MODULE FolderSwap -----------------------------
(***************************************************************************)
(* The swap of legacy packs (console-mod/hook-src/m2hook_print.c,          *)
(* do_folder_swap and the start-up part of m2hook_init).                   *)
(*                                                                         *)
(* A legacy library is published as packs, one per folder and lineup.      *)
(* Opening a folder replaces, under the running engine, the three profile  *)
(* files and the save-state files by binds of the incoming pack's, and     *)
(* the SRAM bank inside data_008 by a copy of the incoming pack's.         *)
(* .current names the pack that is installed and .sram-pack the pack the   *)
(* live bank belongs to ("pending" during a swap).  Binds vanish at a      *)
(* restart, files stay.  One action per step a crash can fall between.     *)
(*                                                                         *)
(* A start runs the same installation (profiles, states, bank, marker) as  *)
(* a swap; it goes on after an error and lets the engine start anyway,     *)
(* where a swap gives up and the script stops the menu by an exception.    *)
(***************************************************************************)
EXTENDS Naturals, FiniteSets, FiniteSetsExt

CONSTANTS
  Packs,        \* the published packs, "<lineup>/<dir>"
  Root,         \* jp/_root, the pack of a missing or unreadable .current
  NoPack,       \* not a pack
  Files,        \* names of save-state files (data_011_*, meta_012_*, ...)
  Absent,       \* "no such file"
  MaxVersion,   \* bound on the saves made of one bank and of one file
  Faults        \* what the code ignores and this instance lets happen

ASSUME FolderSwapAssumption ==
  /\ Root \in Packs
  /\ NoPack \notin Packs
  /\ Packs \cap {Absent, "pending"} = {} /\ Absent # "pending"
  /\ MaxVersion \in Nat \ {0}
  /\ Absent \notin [pack : Packs \cup {NoPack}, n : 0..MaxVersion]
  /\ Faults \subseteq {"install", "lostRename", "unreadable"}

VARIABLES
  current,      \* folders/.current
  sramPack,     \* save/.sram-pack
  sram,         \* <pack>/saves/sram.bin
  states,       \* <pack>/saves/<file>
  live,         \* the SRAM slice of save/data_008
  digestOk,     \* does save/meta_008 hold the MD5 of data_008?
  under,        \* save/<file> itself, beneath any bind
  unsynced,     \* files renamed into a pack whose directory is not synced yet
  bound,        \* the pack whose file is bound over save/<file>
  profile,      \* the packs whose profile files are bound
  pc,           \* the step the hook or the engine is at
  booting,      \* the installation is the one of m2hook_init
  from, target, \* outgoing and incoming pack; target stays the session's
  todo,         \* what the loop under way has not handled yet
  bank,         \* the SRAM in the engine's memory
  made,         \* history: versions made of each pack's bank
  kept,         \* history: the version of its bank each pack was promised
  stateKept     \* history: the version last saved of each pack's files

packFiles == <<sram, states>>
liveFiles == <<sramPack, live, digestOk, under>>
mounts == <<bound, profile>>
call == <<pc, booting, from, target, todo>>
history == <<made, kept, stateKept>>
vars == <<current, packFiles, liveFiles, unsynced, mounts, call, bank, history>>

-----------------------------------------------------------------------------
(* Data *)

Contents == [pack : Packs \cup {NoPack}, n : 0..MaxVersion]

\* What a missing sram.bin is imported as, and a bank nobody has written yet;
\* also the file bind_mount_file creates to have something to mount over.
Zero == [pack |-> NoPack, n |-> 0]

\* Some blocks of a bank and some of another.
Torn == [pack |-> NoPack, n |-> MaxVersion]

\* title_mode_top, title_prof and the motion sheet, in the order they are bound.
Profiles == 1..3

Steps == {"off", "menu", "meta", "export", "migrate", "drop", "pending",
          "unbind", "profiles", "states", "import", "copy", "digest", "own",
          "commit", "stopped"}

Bank(p) == IF sram[p] = Absent THEN Zero ELSE sram[p]

\* What the engine sees as a save-state file.
Visible(f) == IF bound[f] # NoPack THEN states[bound[f]][f] ELSE under[f]

\* A bug: the owner of the live bank is not compared.
LiveSramUnowned(p) == digestOk

LiveSramIsCurrent(p) == sramPack \in {Absent, p} /\ digestOk

ReadCurrent == {current} \cup (IF "unreadable" \in Faults THEN {Root} ELSE {})

StateFiles(p) == {f \in Files : states[p][f] # Absent}

\* A bug: only what is bound is looked at.
LiveBoundFiles == {f \in Files : bound[f] # NoPack}

LiveFiles == {f \in Files : under[f] # Absent \/ bound[f] # NoPack}

\* A marker file, or sram.bin, is replaced by a temporary, an fsync, a rename
\* and an fsync of the directory: an error leaves the old file, or the new one.
Outcomes == {"ok", "old", "new"}

-----------------------------------------------------------------------------
Init ==
  /\ current = Root
  /\ sramPack \in {Absent, Root}
  /\ sram = [p \in Packs |-> Absent]
  /\ states = [p \in Packs |-> [f \in Files |-> Absent]]
  /\ live = Zero
  /\ digestOk = TRUE
  /\ under = [f \in Files |-> Absent]
  /\ unsynced = {}
  /\ bound = [f \in Files |-> NoPack]
  /\ profile = [i \in Profiles |-> NoPack]
  /\ pc = "off"
  /\ booting = FALSE
  /\ from = Root
  /\ target = Root
  /\ todo = {}
  /\ bank = Zero
  /\ made = [p \in Packs |-> 0]
  /\ kept = [p \in Packs |-> 0]
  /\ stateKept = [p \in Packs |-> [f \in Files |-> 0]]

Goto(step, work) == pc' = step /\ todo' = work /\ UNCHANGED <<booting, from, target>>

\* do_folder_swap returns -1 and the script throws; m2hook_init counts a failure
\* and goes on with the next part, nextStep.
Fails(nextStep, work) ==
  \/ ~booting /\ Goto("stopped", {})
  \/ booting /\ "install" \in Faults /\ Goto(nextStep, work)

\* m2hook_init is done, or pollGameFolderSwap said "ok" and
\* refresh_pack_save_context loads the bank just installed; the engine takes a
\* bank with a wrong digest for an empty one.
Play ==
  /\ pc' = "menu"
  /\ todo' = {}
  /\ booting' = FALSE
  /\ bank' = IF digestOk' THEN live' ELSE Zero
  /\ UNCHANGED <<from, target>>

-----------------------------------------------------------------------------
(* The engine *)

Game(b) == IF b.pack = NoPack THEN target ELSE b.pack

\* The native save of the title data: data_008 first, its digest afterwards.
EngineWritesData ==
  /\ pc = "menu"
  /\ made[Game(bank)] < MaxVersion
  /\ LET g == Game(bank) IN
     /\ live' = [pack |-> g, n |-> made[g] + 1]
     /\ bank' = live'
     /\ made' = [made EXCEPT ![g] = @ + 1]
     \* a save cut short leaves the pack only what it was last left with
     /\ kept' = [kept EXCEPT ![g] = IF sram[g] = Absent THEN 0 ELSE sram[g].n]
  /\ digestOk' = FALSE
  /\ Goto("meta", {})
  /\ UNCHANGED <<current, packFiles, sramPack, under, unsynced, mounts, stateKept>>

EngineWritesMeta ==
  /\ pc = "meta"
  /\ digestOk' = TRUE
  /\ kept' = [kept EXCEPT ![Game(live)] = live.n]
  /\ Goto("menu", {})
  /\ UNCHANGED <<current, packFiles, sramPack, live, under, unsynced, mounts, bank,
                 made, stateKept>>

\* A save state goes to the file that is visible, bound or not.
EngineSavesState(f) ==
  /\ pc = "menu"
  /\ stateKept[target][f] < MaxVersion
  /\ LET new == [pack |-> target, n |-> stateKept[target][f] + 1] IN
     /\ stateKept' = [stateKept EXCEPT ![target][f] = new.n]
     /\ IF bound[f] # NoPack
        THEN states' = [states EXCEPT ![bound[f]][f] = new] /\ UNCHANGED under
        ELSE under' = [under EXCEPT ![f] = new] /\ UNCHANGED states
  /\ UNCHANGED <<current, sram, sramPack, live, digestOk, unsynced, mounts, call,
                 bank, made, kept>>

-----------------------------------------------------------------------------
(* do_folder_swap: the outgoing pack *)

\* wait_folder_swap is called after TryAutosave has written the bank.
Saved == pc = "menu" /\ live = bank /\ digestOk

\* Already at p: "ok", with nothing done.
StayInPack(p) ==
  /\ Saved
  /\ p \in ReadCurrent
  /\ target' = p
  /\ UNCHANGED <<current, packFiles, liveFiles, unsynced, mounts, pc, booting, from,
                 todo, bank, history>>

BeginSwap(p) ==
  /\ Saved
  /\ \E cur \in ReadCurrent : p # cur /\ from' = cur
  /\ target' = p
  /\ todo' = {}
  \* a profile of the pack that cannot be read refuses the swap at once
  /\ pc' \in {"export", "stopped"}
  /\ UNCHANGED <<current, packFiles, liveFiles, unsynced, mounts, booting, bank, history>>

\* sram_splice_out; an equal file is left alone.
ExportSram ==
  /\ pc = "export"
  /\ \E out \in Outcomes :
       /\ sram' = IF out = "old" THEN sram ELSE [sram EXCEPT ![from] = live]
       /\ IF out = "ok" \/ sram[from] = live
          THEN Goto("migrate", LiveFiles)
          ELSE Goto("stopped", {})
  /\ UNCHANGED <<current, states, liveFiles, unsynced, mounts, bank, history>>

\* migrate_new_saves: what the pack does not have is new, and moved to it.
MigrateFile ==
  /\ pc = "migrate"
  /\ \E f \in todo :
       \/ /\ states[from][f] # Absent
          /\ Goto("migrate", todo \ {f})
          /\ UNCHANGED <<states, unsynced>>
       \/ /\ states[from][f] = Absent
          /\ states' = [states EXCEPT ![from][f] = Visible(f)]
          /\ unsynced' = unsynced \cup {f}
          /\ pc' = "drop"
          /\ UNCHANGED <<booting, from, target, todo>>
       \/ /\ states[from][f] = Absent          \* the copy or the rename fails
          /\ Goto("stopped", {})
          /\ unsynced' = {}
          /\ UNCHANGED states
  /\ UNCHANGED <<current, sram, liveFiles, mounts, bank, history>>

\* Then the live copy is unlinked; a mount point cannot be.
DropMigrated ==
  /\ pc = "drop"
  /\ \E f \in todo \cap unsynced :
       \/ /\ bound[f] = NoPack
          /\ under' = [under EXCEPT ![f] = Absent]
          /\ Goto("migrate", todo \ {f})
          /\ UNCHANGED unsynced
       \/ /\ Goto("stopped", {})
          /\ unsynced' = IF unsynced = {f} THEN unsynced ELSE {}
          /\ UNCHANGED under
  /\ UNCHANGED <<current, packFiles, sramPack, live, digestOk, mounts, bank, history>>

\* The directory of the pack is synced when the loop is over.
SyncPack ==
  /\ pc = "migrate" /\ todo = {}
  /\ unsynced' = {}
  /\ Goto("pending", {})
  /\ UNCHANGED <<current, packFiles, liveFiles, mounts, bank, history>>

\* A bug: the import starts without a pending marker.
MarkNothing ==
  /\ pc = "pending"
  /\ Goto("unbind", StateFiles(from))
  /\ UNCHANGED <<current, packFiles, liveFiles, unsynced, mounts, bank, history>>

MarkPending ==
  /\ pc = "pending"
  /\ \E out \in Outcomes :
       /\ sramPack' = IF out = "old" THEN sramPack ELSE "pending"
       /\ IF out = "ok" THEN Goto("unbind", StateFiles(from)) ELSE Goto("stopped", {})
  /\ UNCHANGED <<current, packFiles, live, digestOk, under, unsynced, mounts, bank, history>>

\* A bug: the binds of the outgoing pack stay.
UnbindNothing ==
  /\ pc = "unbind"
  /\ \E f \in todo : Goto("unbind", todo \ {f})
  /\ UNCHANGED <<current, packFiles, liveFiles, unsynced, mounts, bank, history>>

\* unbind_state_files: the bind, then the file created to carry it.
UnbindState ==
  /\ pc = "unbind"
  /\ \E f \in todo :
       /\ bound' = [bound EXCEPT ![f] = NoPack]
       /\ under' = [under EXCEPT ![f] = Absent]
       /\ Goto("unbind", todo \ {f})
  /\ UNCHANGED <<current, packFiles, sramPack, live, digestOk, unsynced, profile,
                 bank, history>>

Unbound ==
  /\ pc = "unbind" /\ todo = {}
  /\ Goto("profiles", Profiles)
  /\ UNCHANGED <<current, packFiles, liveFiles, unsynced, mounts, bank, history>>

-----------------------------------------------------------------------------
(* The incoming pack, in a swap and at a start *)

\* bind_mount_file: what was bound is unbound first, so an error leaves nothing.
BindProfile ==
  /\ pc = "profiles" /\ todo # {}
  /\ LET i == Min(todo) IN
     \/ profile' = [profile EXCEPT ![i] = target] /\ Goto("profiles", todo \ {i})
     \/ profile' = [profile EXCEPT ![i] = NoPack] /\ Fails("profiles", todo \ {i})
  /\ UNCHANGED <<current, packFiles, liveFiles, unsynced, bound, bank, history>>

ProfilesBound ==
  /\ pc = "profiles" /\ todo = {}
  /\ Goto("states", StateFiles(target))
  /\ UNCHANGED <<current, packFiles, liveFiles, unsynced, mounts, bank, history>>

\* bind_state_files, over a file created for it; the first error ends the loop.
BindState ==
  /\ pc = "states"
  /\ \E f \in todo :
       /\ under' = [under EXCEPT ![f] = IF @ = Absent THEN Zero ELSE @]
       /\ \/ bound' = [bound EXCEPT ![f] = target] /\ Goto("states", todo \ {f})
          \/ bound' = [bound EXCEPT ![f] = NoPack] /\ Fails("states", {})
  /\ UNCHANGED <<current, packFiles, sramPack, live, digestOk, unsynced, profile,
                 bank, history>>

\* A start keeps the live bank when it is the pack's; a swap always imports.
StatesBound ==
  /\ pc = "states" /\ todo = {}
  /\ Goto(IF booting /\ LiveSramIsCurrent(target) THEN "own" ELSE "import", {})
  /\ UNCHANGED <<current, packFiles, liveFiles, unsynced, mounts, bank, history>>

\* A start that cannot restore the bank writes no marker and lets the engine run.
GiveUpBank ==
  \/ ~booting /\ Goto("stopped", {}) /\ UNCHANGED bank
  \/ booting /\ "install" \in Faults /\ Play

\* sram_splice_in: the slice is overwritten block by block unless it is equal.
ImportSram ==
  /\ pc = "import"
  /\ \/ /\ live = Bank(target)
        /\ Goto("digest", {})
        /\ UNCHANGED <<live, digestOk, bank>>
     \/ /\ live # Bank(target)
        /\ live' = Torn
        /\ digestOk' = FALSE
        /\ Goto("copy", {})
        /\ UNCHANGED bank
     \/ UNCHANGED <<live, digestOk>> /\ GiveUpBank
  /\ UNCHANGED <<current, packFiles, sramPack, under, unsynced, mounts, history>>

CopySram ==
  /\ pc = "copy"
  /\ UNCHANGED <<current, packFiles, sramPack, digestOk, under, unsynced, mounts, history>>
  /\ \/ live' = Bank(target) /\ Goto("digest", {}) /\ UNCHANGED bank
     \/ live' \in {live, Bank(target)} /\ GiveUpBank    \* the fsync may fail

RefreshDigest ==
  /\ pc = "digest"
  /\ UNCHANGED <<current, packFiles, sramPack, live, under, unsynced, mounts, history>>
  /\ \/ digestOk' = TRUE /\ Goto("own", {}) /\ UNCHANGED bank
     \/ digestOk' \in {digestOk, TRUE} /\ GiveUpBank

\* The marker of the live bank; at a start its failure is only counted.
WriteOwner ==
  /\ pc = "own"
  /\ UNCHANGED <<current, packFiles, live, digestOk, under, unsynced, mounts, history>>
  /\ \E out \in Outcomes :
       /\ sramPack' = IF out = "old" THEN sramPack ELSE target
       /\ \/ out = "ok" /\ ~booting /\ Goto("commit", {}) /\ UNCHANGED bank
          \/ out = "ok" /\ booting /\ Play
          \/ out # "ok" /\ GiveUpBank

WriteCurrent ==
  /\ pc = "commit"
  /\ UNCHANGED <<packFiles, liveFiles, unsynced, mounts, history>>
  /\ \E out \in Outcomes :
       /\ current' = IF out = "old" THEN current ELSE target
       /\ \/ out = "ok" /\ Play
          \/ out # "ok" /\ Goto("stopped", {}) /\ UNCHANGED bank

-----------------------------------------------------------------------------
(* Starts and crashes *)

Boot ==
  /\ pc = "off"
  /\ target' \in ReadCurrent
  /\ booting' = TRUE
  /\ pc' = "profiles"
  /\ todo' = Profiles
  /\ UNCHANGED <<current, packFiles, liveFiles, unsynced, mounts, from, bank, history>>

\* Power is cut, or the user switches off.  Binds and memory are gone; a rename
\* whose directory was not synced may be gone too.
Crash ==
  /\ pc # "off"
  /\ pc' = "off"
  /\ bound' = [f \in Files |-> NoPack]
  /\ profile' = [i \in Profiles |-> NoPack]
  /\ bank' = Zero
  /\ booting' = FALSE
  /\ todo' = {}
  /\ unsynced' = {}
  /\ \E lost \in SUBSET unsynced :
       /\ lost = {} \/ "lostRename" \in Faults
       /\ states' = [states EXCEPT ![from] =
            [f \in Files |-> IF f \in lost THEN Absent ELSE @[f]]]
  /\ UNCHANGED <<current, sram, liveFiles, from, target, history>>

Next ==
  \/ EngineWritesData \/ EngineWritesMeta
  \/ \E f \in Files : EngineSavesState(f)
  \/ \E p \in Packs : StayInPack(p) \/ BeginSwap(p)
  \/ ExportSram \/ MigrateFile \/ DropMigrated \/ SyncPack \/ MarkPending
  \/ UnbindState \/ Unbound
  \/ BindProfile \/ ProfilesBound \/ BindState \/ StatesBound
  \/ ImportSram \/ CopySram \/ RefreshDigest \/ WriteOwner \/ WriteCurrent
  \/ Boot \/ Crash

Spec == Init /\ [][Next]_vars

-----------------------------------------------------------------------------
(* Properties *)

TypeOK ==
  /\ current \in Packs
  /\ sramPack \in Packs \cup {Absent, "pending"}
  /\ sram \in [Packs -> Contents \cup {Absent}]
  /\ states \in [Packs -> [Files -> Contents \cup {Absent}]]
  /\ live \in Contents /\ bank \in Contents
  /\ digestOk \in BOOLEAN /\ booting \in BOOLEAN
  /\ under \in [Files -> Contents \cup {Absent}]
  /\ unsynced \subseteq Files
  /\ bound \in [Files -> Packs \cup {NoPack}]
  /\ profile \in [Profiles -> Packs \cup {NoPack}]
  /\ pc \in Steps
  /\ from \in Packs /\ target \in Packs
  /\ todo \subseteq Files \cup Profiles
  /\ made \in [Packs -> 0..MaxVersion] /\ kept \in [Packs -> 0..MaxVersion]
  /\ stateKept \in [Packs -> [Files -> 0..MaxVersion]]

\* "Incoming bytes never look like a valid outgoing save" (do_folder_swap): no
\* pack's sram.bin or state file ever holds another pack's bytes or a mixture.
NoForeignBytes ==
  \A p \in Packs :
    /\ sram[p] # Absent => sram[p].pack = p \/ sram[p] = Zero
    /\ \A f \in StateFiles(p) : states[p][f].pack = p \/ states[p][f] = Zero

\* The bank the pack would start with: at the next start if it is current, when
\* its folder is opened otherwise.
NextBank(p) == IF p = current /\ LiveSramIsCurrent(p) THEN live ELSE Bank(p)

\* "Valid live data belongs to the active pack, and can be newer than its
\* snapshot" (live_sram_is_current): wherever a swap or a start is cut or fails,
\* no pack falls behind the last save that was completed for it.
BankSurvives ==
  \A p \in Packs : NextBank(p).n >= kept[p] /\ NextBank(p).pack \in {p, NoPack}

\* The save-state file the pack would start with; a file the engine made and no
\* swap has moved yet is only in the live directory.
NextState(p, f) ==
  IF states[p][f] # Absent THEN states[p][f]
  ELSE IF p = current /\ under[f] # Absent THEN under[f] ELSE Zero

\* No save state is lost or replaced by an older one or another pack's, though
\* it may be in the pack, below a bind, or on its way (migrate_new_saves).
StatesSurvive ==
  \A p \in Packs, f \in Files :
    stateKept[p][f] > 0 => NextState(p, f) = [pack |-> p, n |-> stateKept[p][f]]

\* No completed save of either kind is lost to a swap, an error or a crash.
SavesSurvive == BankSurvives /\ StatesSurvive

\* "Input/demo/shutdown processing waits until the worker completes and the
\* script has loaded the incoming SRAM" (console-mod/README.md): whoever plays
\* has the profiles, the states and the bank of one pack, the current one.
OneContext ==
  pc = "menu" =>
    /\ target = current
    /\ profile = [i \in Profiles |-> current]
    /\ \A f \in Files : bound[f] = IF states[current][f] # Absent THEN current ELSE NoPack
    /\ live = bank /\ digestOk /\ bank.pack \in {current, NoPack}

\* "Unlink the 0-byte underlay so the next pack doesn't see ghost slots"
\* (unbind_state_files): no pack gets a save-state file nobody saved.
NoGhostSlots ==
  \A p \in Packs : \A f \in StateFiles(p) : stateKept[p][f] > 0
=============================================================================
