-------------------------- MODULE FolderSwapProofs --------------------------
(***************************************************************************)
(* Proofs about FolderSwap, for every set of packs and of save-state files *)
(* and every MaxVersion.  Inductive1 is inductive when no start goes on    *)
(* after an error and .current can be read; with it NoForeignBytes,        *)
(* BankSurvives and OneContext hold in every reachable state.              *)
(* Inductive2 adds the save-state files, which survive if, moreover, no    *)
(* rename is lost.  One lemma per conjunct, one step per action.           *)
(***************************************************************************)
EXTENDS FolderSwap, TLAPS

-----------------------------------------------------------------------------
(* The inductive invariant *)

\* The steps from the pending marker to the marker of the incoming pack.
Installing == {"profiles", "states", "import", "copy", "digest", "own", "commit"}
Outgoing == {"export", "migrate", "drop", "pending", "unbind"}

Swapping == ~booting /\ pc \in Outgoing \cup Installing

\* Who calls: a start installs the current pack, a swap leaves it for another.
CallInv ==
  /\ booting => pc \in Installing \ {"commit"} /\ target = current
  /\ Swapping => from = current
  /\ pc \in {"menu", "meta"} => target = current
  /\ unsynced # {} => from = current /\ pc \in {"migrate", "drop", "stopped"}
  /\ pc = "profiles" => todo \subseteq Profiles
  /\ pc \in {"migrate", "drop", "unbind", "states"} => todo \subseteq Files

\* The file that shows a state: the pack's if it has one, otherwise the live one.
BoundTo(p) == \A f \in Files : bound[f] = IF states[p][f] = Absent THEN NoPack ELSE p
NotBound == \A f \in Files : bound[f] = NoPack
Profiled(p) == \A i \in Profiles : profile[i] = p

\* What is bound at each step.
MountInv ==
  /\ pc \in {"off", "profiles"} => NotBound
  /\ pc \in {"menu", "meta", "export"} => BoundTo(current) /\ (pc # "export" => Profiled(current))
  /\ pc \in {"migrate", "drop", "pending", "unbind"} =>
       \A f \in Files : bound[f] = NoPack \/ (bound[f] = from /\ states[from][f] # Absent)
  /\ pc = "unbind" => \A f \in Files : bound[f] # NoPack => f \in todo
  /\ pc = "profiles" => \A i \in Profiles \ todo : profile[i] = target
  /\ pc = "states" =>
       /\ Profiled(target)
       /\ \A f \in todo : states[target][f] # Absent
       /\ \A f \in Files : bound[f] = IF states[target][f] = Absent \/ f \in todo
                                      THEN NoPack ELSE target
  /\ pc \in {"import", "copy", "digest", "own", "commit"} => BoundTo(target) /\ Profiled(target)

\* Whose bank is where at each step: the live one is the current pack's while
\* its marker says so, and a swap has exported it before the marker says pending.
BankInv ==
  /\ LiveSramIsCurrent(current) => live.pack = current \/ live = Zero
  /\ pc = "menu" => live = bank
  /\ pc \in {"menu", "export", "migrate", "drop", "pending"} =>
       sramPack = current /\ digestOk
  /\ pc = "meta" => sramPack = current /\ ~digestOk /\ live.pack = current /\ live = bank
  /\ ~booting /\ pc \in {"migrate", "drop", "pending", "unbind"} \cup Installing =>
       Bank(from).n >= kept[from]
  /\ ~booting /\ pc \in ({"unbind"} \cup Installing) \ {"commit"} => sramPack = "pending"
  /\ pc = "import" => ~LiveSramIsCurrent(target)
  /\ pc = "copy" => ~digestOk
  /\ pc = "digest" => live = Bank(target) /\ Bank(current).n >= kept[current]
  /\ pc = "own" => \/ booting /\ LiveSramIsCurrent(target)
                   \/ digestOk /\ live = Bank(target) /\ Bank(current).n >= kept[current]
  /\ pc = "commit" => sramPack = target /\ digestOk /\ live = Bank(target)

\* The live directory never holds the file of a pack that is not current, and
\* is empty but for the files made to carry a bind once a swap has left its pack.
UnderInv ==
  /\ \A f \in Files : under[f] # Absent => under[f].pack = current \/ under[f] = Zero
  /\ pc \in {"migrate", "drop", "pending", "unbind"} =>
       \A f \in Files : under[f] # Absent =>
         states[from][f] # Absent \/ (f \in todo /\ pc \in {"migrate", "drop"})
  /\ pc = "unbind" => \A f \in Files : under[f] # Absent => f \in todo
  /\ ~booting /\ pc \in Installing =>
       \A f \in Files : under[f] # Absent => under[f] = Zero

Inductive1Inv ==
  TypeOK /\ CallInv /\ MountInv /\ BankInv /\ UnderInv /\ NoForeignBytes /\ BankSurvives

\* A file holds the last state saved, or is one created to carry a bind.
LastSaved(p, f, c) ==
  \/ stateKept[p][f] > 0 /\ c = [pack |-> p, n |-> stateKept[p][f]]
  \/ stateKept[p][f] = 0 /\ c = Zero

\* Where the last state of every file is at each step.
StateInv ==
  /\ \A p \in Packs, f \in Files :
       IF states[p][f] # Absent THEN LastSaved(p, f, states[p][f])
       ELSE stateKept[p][f] > 0 => p = current /\ under[f] # Absent
  /\ \A f \in Files : states[current][f] = Absent /\ under[f] # Absent =>
       LastSaved(current, f, under[f])
  /\ pc \in {"migrate", "drop"} => \A f \in todo : under[f] # Absent \/ bound[f] # NoPack
  /\ pc = "unbind" => \A f \in todo : states[from][f] # Absent
  /\ \A f \in unsynced : states[from][f] # Absent

Inductive2Inv == Inductive1Inv /\ StateInv

-----------------------------------------------------------------------------
(* Operators the actions are built from *)

\* Where .current can be read, it says what is installed.
LEMMA CurrentIsRead ==
  ASSUME "unreadable" \notin Faults
  PROVE  ReadCurrent = {current}
  BY DEF ReadCurrent

\* Banks and files are contents, absence is not.
LEMMA ContentsTyped ==
  /\ Zero \in Contents /\ Zero.pack = NoPack /\ Zero.n = 0
  /\ Torn \in Contents /\ Torn.pack = NoPack /\ Torn.n = MaxVersion
  /\ Zero # Torn
  /\ Absent \notin Contents
  /\ \A c \in Contents : c.pack \in Packs \cup {NoPack} /\ c.n \in 0..MaxVersion
  /\ \A p \in Packs \cup {NoPack}, n \in 0..MaxVersion : [pack |-> p, n |-> n] \in Contents
  BY FolderSwapAssumption DEF Zero, Torn, Contents

\* A pack's bank is a content.
LEMMA BankTyped ==
  ASSUME TypeOK, NEW p \in Packs
  PROVE  Bank(p) \in Contents
  BY ContentsTyped DEF Bank, TypeOK

\* The game that plays belongs to a pack.
LEMMA GameTyped ==
  ASSUME TypeOK
  PROVE  Game(bank) \in Packs
  BY ContentsTyped DEF Game, TypeOK

\* A file written into a pack is the only one that changes.
LEMMA StateWritten ==
  ASSUME TypeOK, NEW p \in Packs, NEW f \in Files, NEW c \in Contents \cup {Absent},
         states' = [states EXCEPT ![p][f] = c]
  PROVE  /\ states' \in [Packs -> [Files -> Contents \cup {Absent}]]
         /\ \A q \in Packs, g \in Files :
              states'[q][g] = IF q = p /\ g = f THEN c ELSE states[q][g]
<1>1. states' = [states EXCEPT ![p] = [states[p] EXCEPT ![f] = c]] OBVIOUS
<1>2. states[p] \in [Files -> Contents \cup {Absent}] BY DEF TypeOK
<1>3. [states[p] EXCEPT ![f] = c] \in [Files -> Contents \cup {Absent}] BY <1>2
<1>4. QED BY <1>1, <1>2, <1>3 DEF TypeOK

\* The least of the profiles that are left is one of them.
LEMMA MinProfile ==
  ASSUME NEW S \in SUBSET Profiles, S # {}
  PROVE  Min(S) \in S
<1>1. \E x \in S : \A y \in S : x <= y
  <2>1. CASE 1 \in S BY <2>1 DEF Profiles
  <2>2. CASE 1 \notin S /\ 2 \in S BY <2>2 DEF Profiles
  <2>3. CASE 1 \notin S /\ 2 \notin S
    <3>1. PICK x \in S : TRUE OBVIOUS
    <3>2. \A y \in S : y = 3 BY <2>3 DEF Profiles
    <3>3. QED BY <3>1, <3>2
  <2>4. QED BY <2>1, <2>2, <2>3
<1>2. QED BY <1>1 DEF Min

SavedInto(f, new) ==
  /\ new \in Contents /\ new # Absent /\ new.pack = current
  /\ \/ /\ bound[f] = current /\ states[current][f] # Absent /\ UNCHANGED under
        /\ \A p \in Packs, g \in Files :
             states'[p][g] = IF p = current /\ g = f THEN new ELSE states[p][g]
     \/ /\ bound[f] = NoPack /\ states[current][f] = Absent /\ UNCHANGED states
        /\ \A g \in Files : under'[g] = IF g = f THEN new ELSE under[g]
  /\ \A p \in Packs, g \in Files :
       stateKept'[p][g] = IF p = current /\ g = f THEN new.n ELSE stateKept[p][g]

\* A save state goes to the file that shows it, in the pack or in the live
\* directory, and to nothing else.
LEMMA StateSaved ==
  ASSUME TypeOK, CallInv, MountInv, NEW f \in Files, EngineSavesState(f)
  PROVE  SavedInto(f, [pack |-> current, n |-> stateKept[current][f] + 1])
<1>. DEFINE new == [pack |-> current, n |-> stateKept[current][f] + 1]
<1>1. target = current /\ current \in Packs /\ pc = "menu" /\ new \in Contents
  <2>1. target = current /\ current \in Packs /\ pc = "menu"
    BY DEF EngineSavesState, CallInv, TypeOK
  <2>2. stateKept[current][f] \in 0..MaxVersion BY <2>1 DEF TypeOK
  <2>3. stateKept[current][f] + 1 \in 0..MaxVersion
    BY <2>1, <2>2, FolderSwapAssumption DEF EngineSavesState
  <2>4. QED BY <2>1, <2>3, ContentsTyped
<1>2. \A p \in Packs, g \in Files :
        stateKept'[p][g] = IF p = current /\ g = f THEN new.n ELSE stateKept[p][g]
  <2>1. stateKept' = [stateKept EXCEPT ![current] = [stateKept[current] EXCEPT ![f] = new.n]]
    BY <1>1 DEF EngineSavesState
  <2>2. stateKept[current] \in [Files -> 0..MaxVersion] BY <1>1 DEF TypeOK
  <2>3. QED BY <2>1, <2>2 DEF TypeOK
<1>3. CASE states[current][f] # Absent
  <2>1. bound[f] = current BY <1>1, <1>3 DEF MountInv, BoundTo
  <2>2. states' = [states EXCEPT ![current][f] = new] /\ UNCHANGED under
    BY <1>1, <2>1, FolderSwapAssumption DEF EngineSavesState
  <2>3. \A p \in Packs, g \in Files :
          states'[p][g] = IF p = current /\ g = f THEN new ELSE states[p][g]
    BY <1>1, <2>2, StateWritten
  <2>4. new # Absent /\ new.pack = current /\ new.n = stateKept[current][f] + 1
    BY <1>1, ContentsTyped
  <2>5. QED BY <1>1, <1>2, <1>3, <2>1, <2>2, <2>3, <2>4 DEF SavedInto
<1>4. CASE states[current][f] = Absent
  <2>1. bound[f] = NoPack BY <1>1, <1>4 DEF MountInv, BoundTo
  <2>2. under' = [under EXCEPT ![f] = new] /\ UNCHANGED states
    BY <1>1, <2>1 DEF EngineSavesState
  <2>3. QED BY <1>1, <1>2, <1>4, <2>1, <2>2, ContentsTyped DEF TypeOK, SavedInto
<1>5. QED BY <1>3, <1>4

\* Migration moves the live file of the current pack into it.
Migrated(f) ==
  /\ f \in Files /\ f \in todo /\ states[from][f] = Absent /\ bound[f] = NoPack
  /\ unsynced' = unsynced \cup {f} /\ pc' = "drop" /\ todo' = todo
  /\ \A p \in Packs, g \in Files :
       states'[p][g] = IF p = from /\ g = f THEN under[f] ELSE states[p][g]

LEMMA FileMigrated ==
  ASSUME TypeOK, CallInv, MountInv, MigrateFile
  PROVE  \/ UNCHANGED states /\ unsynced' \subseteq unsynced /\ pc' \in {"migrate", "stopped"}
            /\ todo' \subseteq todo
         \/ \E f \in Files : Migrated(f)
<1>1. ASSUME NEW f \in todo, states[from][f] = Absent,
             states' = [states EXCEPT ![from][f] = Visible(f)],
             unsynced' = unsynced \cup {f}, pc' = "drop", todo' = todo
      PROVE  f \in Files /\ Migrated(f)
  <2>1. f \in Files /\ bound[f] = NoPack /\ from \in Packs
    BY <1>1 DEF MigrateFile, CallInv, MountInv, TypeOK
  <2>2. Visible(f) = under[f] /\ under[f] \in Contents \cup {Absent}
    BY <2>1 DEF Visible, TypeOK
  <2>3. QED BY <1>1, <2>1, <2>2, StateWritten DEF Migrated
<1>2. QED BY <1>1 DEF MigrateFile, Goto

\* Without a start that goes on after an error, who gives up stops a swap.
LEMMA GiveUpStops ==
  ASSUME "install" \notin Faults, GiveUpBank
  PROVE  ~booting /\ Goto("stopped", {}) /\ bank' = bank
  BY DEF GiveUpBank

\* After the digest the bank is owned, or a swap has stopped.
LEMMA RefreshDigestEnds ==
  ASSUME "install" \notin Faults, RefreshDigest
  PROVE  /\ pc = "digest" /\ bank' = bank
         /\ UNCHANGED <<current, packFiles, sramPack, live, under, unsynced, mounts, history>>
         /\ \/ digestOk' /\ Goto("own", {})
            \/ ~booting /\ Goto("stopped", {})
<1>1. CASE digestOk' = TRUE /\ Goto("own", {}) /\ UNCHANGED bank
  BY <1>1 DEF RefreshDigest
<1>2. CASE GiveUpBank
  BY <1>2, GiveUpStops DEF RefreshDigest
<1>3. QED BY <1>1, <1>2 DEF RefreshDigest

-----------------------------------------------------------------------------
(* Every action preserves every part of the invariant *)

\* Files, mounts and the call keep their shape.
LEMMA TypeOKStep ==
  ASSUME TypeOK, CallInv, "unreadable" \notin Faults, Next
  PROVE  TypeOK'
<1>1. CASE EngineWritesData
  <2>1. Game(bank) \in Packs /\ made[Game(bank)] + 1 \in 0..MaxVersion
    BY <1>1, GameTyped, FolderSwapAssumption DEF EngineWritesData, TypeOK
  <2>2. live' \in Contents /\ bank' \in Contents
    BY <1>1, <2>1, ContentsTyped DEF EngineWritesData
  <2>3. made' \in [Packs -> 0..MaxVersion]
    BY <1>1, <2>1 DEF EngineWritesData, TypeOK
  <2>4. \A p \in Packs : sram[p] # Absent => sram[p].n \in 0..MaxVersion
    BY ContentsTyped DEF TypeOK
  <2>5. kept' \in [Packs -> 0..MaxVersion]
    BY <1>1, <2>1, <2>4, FolderSwapAssumption DEF EngineWritesData, TypeOK
  <2>6. QED
    BY <1>1, <2>2, <2>3, <2>5
       DEF EngineWritesData, Goto, TypeOK, Steps, packFiles, mounts
<1>2. CASE EngineWritesMeta
  BY <1>2, CurrentIsRead, ContentsTyped, BankTyped, GameTyped, MinProfile
     DEF EngineWritesMeta, Goto, Game, TypeOK, CallInv, packFiles, mounts,
         Steps, Profiles
<1>3. ASSUME NEW f \in Files, EngineSavesState(f)
      PROVE  TypeOK'
  <2>1. target \in Packs /\ stateKept[target][f] + 1 \in 0..MaxVersion
    BY <1>3, FolderSwapAssumption DEF EngineSavesState, TypeOK
  <2>2. [pack |-> target, n |-> stateKept[target][f] + 1] \in Contents
    BY <2>1, ContentsTyped
  <2>3. stateKept' \in [Packs -> [Files -> 0..MaxVersion]]
    BY <1>3, <2>1 DEF EngineSavesState, TypeOK
  <2>4. states' \in [Packs -> [Files -> Contents \cup {Absent}]]
    BY <1>3, <2>2, StateWritten DEF EngineSavesState, TypeOK
  <2>5. under' \in [Files -> Contents \cup {Absent}]
    BY <1>3, <2>2 DEF EngineSavesState, TypeOK
  <2>6. QED
    BY <1>3, <2>3, <2>4, <2>5 DEF EngineSavesState, TypeOK, mounts, call
<1>4. ASSUME NEW p \in Packs, StayInPack(p)
      PROVE  TypeOK'
  BY <1>4, CurrentIsRead, ContentsTyped, BankTyped, GameTyped, MinProfile
     DEF StayInPack, Saved, TypeOK, CallInv, vars, packFiles, liveFiles,
         mounts, call, history, Steps, StateFiles, LiveFiles, Profiles
<1>5. ASSUME NEW p \in Packs, BeginSwap(p)
      PROVE  TypeOK'
  BY <1>5, CurrentIsRead, ContentsTyped, BankTyped, GameTyped, MinProfile
     DEF BeginSwap, Saved, TypeOK, CallInv, vars, packFiles, liveFiles,
         mounts, call, history, Steps, StateFiles, LiveFiles, Profiles
<1>6. CASE ExportSram
  BY <1>6, CurrentIsRead, ContentsTyped, BankTyped, GameTyped, MinProfile
     DEF ExportSram, Goto, Outcomes, TypeOK, CallInv, vars, packFiles,
         liveFiles, mounts, call, history, Steps, StateFiles, LiveFiles,
         Profiles
<1>7. CASE MigrateFile
  <2>1. \A f \in Files : Visible(f) \in Contents \cup {Absent}
    BY DEF Visible, TypeOK
  <2>2. states' \in [Packs -> [Files -> Contents \cup {Absent}]]
    BY <1>7, <2>1, StateWritten DEF MigrateFile, TypeOK, CallInv
  <2>3. QED
    BY <1>7, <2>2 DEF MigrateFile, Goto, TypeOK, CallInv, Steps, liveFiles, mounts, history
<1>8. CASE DropMigrated
  BY <1>8, CurrentIsRead, ContentsTyped, BankTyped, GameTyped, MinProfile
     DEF DropMigrated, Goto, TypeOK, CallInv, vars, packFiles, liveFiles,
         mounts, call, history, Steps, StateFiles, LiveFiles, Profiles
<1>9. CASE SyncPack
  BY <1>9, CurrentIsRead, ContentsTyped, BankTyped, GameTyped, MinProfile
     DEF SyncPack, Goto, TypeOK, CallInv, vars, packFiles, liveFiles, mounts,
         call, history, Steps, StateFiles, LiveFiles, Profiles
<1>10. CASE MarkPending
  BY <1>10, CurrentIsRead, ContentsTyped, BankTyped, GameTyped, MinProfile
     DEF MarkPending, Goto, Outcomes, TypeOK, CallInv, vars, packFiles,
         liveFiles, mounts, call, history, Steps, StateFiles, LiveFiles,
         Profiles
<1>11. CASE UnbindState
  BY <1>11, CurrentIsRead, ContentsTyped, BankTyped, GameTyped, MinProfile
     DEF UnbindState, Goto, TypeOK, CallInv, vars, packFiles, liveFiles,
         mounts, call, history, Steps, StateFiles, LiveFiles, Profiles
<1>12. CASE Unbound
  BY <1>12, CurrentIsRead, ContentsTyped, BankTyped, GameTyped, MinProfile
     DEF Unbound, Goto, TypeOK, CallInv, vars, packFiles, liveFiles, mounts,
         call, history, Steps, StateFiles, LiveFiles, Profiles
<1>13. CASE BindProfile
  <2>1. Min(todo) \in Profiles
    BY <1>13, MinProfile DEF BindProfile, CallInv
  <2>2. profile' \in [Profiles -> Packs \cup {NoPack}]
    BY <1>13, <2>1 DEF BindProfile, TypeOK
  <2>3. QED
    BY <1>13, <2>2
       DEF BindProfile, Goto, Fails, TypeOK, Steps, packFiles, liveFiles, history
<1>14. CASE ProfilesBound
  BY <1>14, CurrentIsRead, ContentsTyped, BankTyped, GameTyped, MinProfile
     DEF ProfilesBound, Goto, TypeOK, CallInv, vars, packFiles, liveFiles,
         mounts, call, history, Steps, StateFiles, LiveFiles, Profiles
<1>15. CASE BindState
  <2>1. under' \in [Files -> Contents \cup {Absent}]
    BY <1>15, ContentsTyped DEF BindState, TypeOK
  <2>2. bound' \in [Files -> Packs \cup {NoPack}]
    BY <1>15 DEF BindState, TypeOK
  <2>3. QED
    BY <1>15, <2>1, <2>2
       DEF BindState, Goto, Fails, TypeOK, Steps, packFiles, history
<1>16. CASE StatesBound
  BY <1>16, CurrentIsRead, ContentsTyped, BankTyped, GameTyped, MinProfile
     DEF StatesBound, Goto, TypeOK, CallInv, vars, packFiles, liveFiles,
         mounts, call, history, Steps, StateFiles, LiveFiles, Profiles
<1>17. CASE ImportSram
  BY <1>17, CurrentIsRead, ContentsTyped, BankTyped, GameTyped, MinProfile
     DEF ImportSram, Goto, GiveUpBank, Play, TypeOK, CallInv, vars, packFiles,
         liveFiles, mounts, call, history, Steps, StateFiles, LiveFiles,
         Profiles
<1>18. CASE CopySram
  <2>1. live' \in Contents /\ bank' \in Contents
    BY <1>18, BankTyped, ContentsTyped DEF CopySram, GiveUpBank, Play, TypeOK
  <2>2. QED
    BY <1>18, <2>1
       DEF CopySram, GiveUpBank, Play, Goto, TypeOK, Steps, packFiles, mounts, history
<1>19. CASE RefreshDigest
  BY <1>19, CurrentIsRead, ContentsTyped, BankTyped, GameTyped, MinProfile
     DEF RefreshDigest, Goto, GiveUpBank, Play, TypeOK, CallInv, vars,
         packFiles, liveFiles, mounts, call, history, Steps, StateFiles,
         LiveFiles, Profiles
<1>20. CASE WriteOwner
  BY <1>20, CurrentIsRead, ContentsTyped, BankTyped, GameTyped, MinProfile
     DEF WriteOwner, Goto, GiveUpBank, Play, Outcomes, TypeOK, CallInv, vars,
         packFiles, liveFiles, mounts, call, history, Steps, StateFiles,
         LiveFiles, Profiles
<1>21. CASE WriteCurrent
  BY <1>21, CurrentIsRead, ContentsTyped, BankTyped, GameTyped, MinProfile
     DEF WriteCurrent, Goto, Play, Outcomes, TypeOK, CallInv, vars, packFiles,
         liveFiles, mounts, call, history, Steps, StateFiles, LiveFiles,
         Profiles
<1>22. CASE Boot
  BY <1>22, CurrentIsRead, ContentsTyped, BankTyped, GameTyped, MinProfile
     DEF Boot, TypeOK, CallInv, vars, packFiles, liveFiles, mounts, call,
         history, Steps, StateFiles, LiveFiles, Profiles
<1>23. CASE Crash
  <2>1. states' \in [Packs -> [Files -> Contents \cup {Absent}]]
    BY <1>23 DEF Crash, TypeOK
  <2>2. bound' \in [Files -> Packs \cup {NoPack}]
        /\ profile' \in [Profiles -> Packs \cup {NoPack}]
    BY <1>23 DEF Crash
  <2>3. QED
    BY <1>23, <2>1, <2>2, ContentsTyped DEF Crash, TypeOK, Steps, liveFiles, history
<1>24. QED
  BY <1>1, <1>2, <1>3, <1>4, <1>5, <1>6, <1>7, <1>8, <1>9, <1>10, <1>11,
     <1>12, <1>13, <1>14, <1>15, <1>16, <1>17, <1>18, <1>19, <1>20, <1>21,
     <1>22, <1>23
     DEF Next

\* A start installs the current pack, a swap leaves it.
LEMMA CallInvStep ==
  ASSUME Inductive1Inv, "install" \notin Faults, "unreadable" \notin Faults, Next
  PROVE  CallInv'
<1>1. CASE EngineWritesData
  BY <1>1, CurrentIsRead
     DEF EngineWritesData, Goto, Game, Inductive1Inv, CallInv, TypeOK, BankInv,
         MountInv, Installing, Outgoing, Swapping, mounts, packFiles
<1>2. CASE EngineWritesMeta
  BY <1>2, CurrentIsRead
     DEF EngineWritesMeta, Goto, Game, Inductive1Inv, CallInv, TypeOK,
         BankInv, MountInv, StateFiles, LiveFiles, Installing, Outgoing,
         Swapping, mounts, liveFiles, packFiles, history, call
<1>3. ASSUME NEW f \in Files, EngineSavesState(f)
      PROVE  CallInv'
  BY <1>3, CurrentIsRead
     DEF EngineSavesState, Inductive1Inv, CallInv, TypeOK, BankInv, MountInv,
         StateFiles, LiveFiles, Installing, Outgoing, Swapping, mounts,
         liveFiles, packFiles, history, call
<1>4. ASSUME NEW p \in Packs, StayInPack(p)
      PROVE  CallInv'
  BY <1>4, CurrentIsRead
     DEF StayInPack, Saved, Inductive1Inv, CallInv, TypeOK, BankInv, MountInv,
         StateFiles, LiveFiles, Installing, Outgoing, Swapping, mounts,
         liveFiles, packFiles, history, call
<1>5. ASSUME NEW p \in Packs, BeginSwap(p)
      PROVE  CallInv'
  BY <1>5, CurrentIsRead
     DEF BeginSwap, Saved, Inductive1Inv, CallInv, TypeOK, BankInv, MountInv,
         StateFiles, LiveFiles, Installing, Outgoing, Swapping, mounts,
         liveFiles, packFiles, history, call
<1>6. CASE ExportSram
  BY <1>6, CurrentIsRead
     DEF ExportSram, Goto, Outcomes, Inductive1Inv, CallInv, TypeOK, BankInv,
         MountInv, StateFiles, LiveFiles, Installing, Outgoing, Swapping,
         mounts, liveFiles, packFiles, history, call
<1>7. CASE MigrateFile
  BY <1>7, CurrentIsRead
     DEF MigrateFile, Goto, Visible, Inductive1Inv, CallInv, TypeOK, BankInv,
         MountInv, StateFiles, LiveFiles, Installing, Outgoing, Swapping,
         mounts, liveFiles, packFiles, history, call
<1>8. CASE DropMigrated
  BY <1>8, CurrentIsRead
     DEF DropMigrated, Goto, Inductive1Inv, CallInv, TypeOK, BankInv,
         MountInv, StateFiles, LiveFiles, Installing, Outgoing, Swapping,
         mounts, liveFiles, packFiles, history, call
<1>9. CASE SyncPack
  BY <1>9, CurrentIsRead
     DEF SyncPack, Goto, Inductive1Inv, CallInv, TypeOK, BankInv, MountInv,
         StateFiles, LiveFiles, Installing, Outgoing, Swapping, mounts,
         liveFiles, packFiles, history, call
<1>10. CASE MarkPending
  BY <1>10, CurrentIsRead
     DEF MarkPending, Goto, Outcomes, Inductive1Inv, CallInv, TypeOK, BankInv,
         MountInv, StateFiles, LiveFiles, Installing, Outgoing, Swapping,
         mounts, liveFiles, packFiles, history, call
<1>11. CASE UnbindState
  BY <1>11, CurrentIsRead
     DEF UnbindState, Goto, Inductive1Inv, CallInv, TypeOK, BankInv, MountInv,
         StateFiles, LiveFiles, Installing, Outgoing, Swapping, mounts,
         liveFiles, packFiles, history, call
<1>12. CASE Unbound
  BY <1>12, CurrentIsRead
     DEF Unbound, Goto, Inductive1Inv, CallInv, TypeOK, BankInv, MountInv,
         StateFiles, LiveFiles, Installing, Outgoing, Swapping, mounts,
         liveFiles, packFiles, history, call
<1>13. CASE BindProfile
  BY <1>13, CurrentIsRead
     DEF BindProfile, Goto, Fails, Inductive1Inv, CallInv, TypeOK, BankInv,
         MountInv, StateFiles, LiveFiles, Installing, Outgoing, Swapping,
         mounts, liveFiles, packFiles, history, call
<1>14. CASE ProfilesBound
  BY <1>14, CurrentIsRead
     DEF ProfilesBound, Goto, Inductive1Inv, CallInv, TypeOK, BankInv,
         MountInv, StateFiles, LiveFiles, Installing, Outgoing, Swapping,
         mounts, liveFiles, packFiles, history, call
<1>15. CASE BindState
  BY <1>15, CurrentIsRead
     DEF BindState, Goto, Fails, Inductive1Inv, CallInv, TypeOK, BankInv,
         MountInv, StateFiles, LiveFiles, Installing, Outgoing, Swapping,
         mounts, liveFiles, packFiles, history, call
<1>16. CASE StatesBound
  BY <1>16, CurrentIsRead
     DEF StatesBound, Goto, Inductive1Inv, CallInv, TypeOK, BankInv, MountInv,
         StateFiles, LiveFiles, Installing, Outgoing, Swapping, mounts,
         liveFiles, packFiles, history, call
<1>17. CASE ImportSram
  BY <1>17, CurrentIsRead
     DEF ImportSram, Goto, GiveUpBank, Play, Inductive1Inv, CallInv, TypeOK,
         BankInv, MountInv, StateFiles, LiveFiles, Installing, Outgoing,
         Swapping, mounts, liveFiles, packFiles, history, call
<1>18. CASE CopySram
  BY <1>18, CurrentIsRead
     DEF CopySram, Goto, GiveUpBank, Play, Inductive1Inv, CallInv, TypeOK,
         BankInv, MountInv, StateFiles, LiveFiles, Installing, Outgoing,
         Swapping, mounts, liveFiles, packFiles, history, call
<1>19. CASE RefreshDigest
  BY <1>19, CurrentIsRead, RefreshDigestEnds
     DEF Goto, Inductive1Inv, CallInv, TypeOK, BankInv, MountInv, StateFiles,
         LiveFiles, Installing, Outgoing, Swapping, mounts, liveFiles,
         packFiles, history, call
<1>20. CASE WriteOwner
  BY <1>20, CurrentIsRead
     DEF WriteOwner, Goto, GiveUpBank, Play, Outcomes, Inductive1Inv, CallInv,
         TypeOK, BankInv, MountInv, StateFiles, LiveFiles, Installing,
         Outgoing, Swapping, mounts, liveFiles, packFiles, history, call
<1>21. CASE WriteCurrent
  BY <1>21, CurrentIsRead
     DEF WriteCurrent, Goto, Play, Outcomes, Inductive1Inv, CallInv, TypeOK,
         BankInv, MountInv, StateFiles, LiveFiles, Installing, Outgoing,
         Swapping, mounts, liveFiles, packFiles, history, call
<1>22. CASE Boot
  BY <1>22, CurrentIsRead
     DEF Boot, Inductive1Inv, CallInv, TypeOK, BankInv, MountInv, StateFiles,
         LiveFiles, Installing, Outgoing, Swapping, mounts, liveFiles,
         packFiles, history, call
<1>23. CASE Crash
  BY <1>23, CurrentIsRead
     DEF Crash, Inductive1Inv, CallInv, TypeOK, BankInv, MountInv, StateFiles,
         LiveFiles, Installing, Outgoing, Swapping, mounts, liveFiles,
         packFiles, history, call
<1>24. QED
  BY <1>1, <1>2, <1>3, <1>4, <1>5, <1>6, <1>7, <1>8, <1>9, <1>10, <1>11,
     <1>12, <1>13, <1>14, <1>15, <1>16, <1>17, <1>18, <1>19, <1>20, <1>21,
     <1>22, <1>23
     DEF Next

\* What is bound at each step.
LEMMA MountInvStep ==
  ASSUME Inductive1Inv, "install" \notin Faults, "unreadable" \notin Faults, Next
  PROVE  MountInv'
<1>1. CASE EngineWritesData
  BY <1>1, CurrentIsRead, FolderSwapAssumption
     DEF EngineWritesData, Goto, Game, Inductive1Inv, CallInv, TypeOK, MountInv,
         BoundTo, NotBound, Profiled, Installing, Outgoing, Swapping, mounts,
         packFiles
<1>2. CASE EngineWritesMeta
  BY <1>2, CurrentIsRead, FolderSwapAssumption
     DEF EngineWritesMeta, Goto, Game, Inductive1Inv, CallInv, TypeOK,
         MountInv, StateFiles, BoundTo, NotBound, Profiled, Installing,
         Outgoing, Swapping, mounts, liveFiles, packFiles, history, call
<1>3. ASSUME NEW f \in Files, EngineSavesState(f)
      PROVE  MountInv'
  <2>1. /\ pc = "menu" /\ target = current /\ current \in Packs /\ current # NoPack
        /\ UNCHANGED <<current, sram, sramPack, live, unsynced, bound, profile, pc, todo,
                       booting, from, target>>
    BY <1>3, FolderSwapAssumption
       DEF EngineSavesState, Inductive1Inv, CallInv, TypeOK, mounts, call
  <2>2. PICK new \in Contents : SavedInto(f, new)
    BY <1>3, StateSaved DEF Inductive1Inv, SavedInto
  <2>3. QED
    BY <2>1, <2>2 DEF SavedInto, Inductive1Inv, TypeOK, MountInv, CallInv, BoundTo, NotBound, Profiled
<1>4. ASSUME NEW p \in Packs, StayInPack(p)
      PROVE  MountInv'
  BY <1>4, CurrentIsRead, FolderSwapAssumption
     DEF StayInPack, Saved, Inductive1Inv, CallInv, TypeOK, MountInv,
         StateFiles, BoundTo, NotBound, Profiled, Installing, Outgoing,
         Swapping, mounts, liveFiles, packFiles, history, call
<1>5. ASSUME NEW p \in Packs, BeginSwap(p)
      PROVE  MountInv'
  BY <1>5, CurrentIsRead, FolderSwapAssumption
     DEF BeginSwap, Saved, Inductive1Inv, CallInv, TypeOK, MountInv,
         StateFiles, BoundTo, NotBound, Profiled, Installing, Outgoing,
         Swapping, mounts, liveFiles, packFiles, history, call
<1>6. CASE ExportSram
  BY <1>6, CurrentIsRead, FolderSwapAssumption
     DEF ExportSram, Goto, Outcomes, Inductive1Inv, CallInv, TypeOK, MountInv,
         StateFiles, BoundTo, NotBound, Profiled, Installing, Outgoing,
         Swapping, mounts, liveFiles, packFiles, history, call
<1>7. CASE MigrateFile
  BY <1>7, CurrentIsRead, FolderSwapAssumption
     DEF MigrateFile, Goto, Visible, Inductive1Inv, CallInv, TypeOK, MountInv,
         StateFiles, BoundTo, NotBound, Profiled, Installing, Outgoing,
         Swapping, mounts, liveFiles, packFiles, history, call
<1>8. CASE DropMigrated
  BY <1>8, CurrentIsRead, FolderSwapAssumption
     DEF DropMigrated, Goto, Inductive1Inv, CallInv, TypeOK, MountInv,
         StateFiles, BoundTo, NotBound, Profiled, Installing, Outgoing,
         Swapping, mounts, liveFiles, packFiles, history, call
<1>9. CASE SyncPack
  BY <1>9, CurrentIsRead, FolderSwapAssumption
     DEF SyncPack, Goto, Inductive1Inv, CallInv, TypeOK, MountInv, StateFiles,
         BoundTo, NotBound, Profiled, Installing, Outgoing, Swapping, mounts,
         liveFiles, packFiles, history, call
<1>10. CASE MarkPending
  BY <1>10, CurrentIsRead, FolderSwapAssumption
     DEF MarkPending, Goto, Outcomes, Inductive1Inv, CallInv, TypeOK,
         MountInv, StateFiles, BoundTo, NotBound, Profiled, Installing,
         Outgoing, Swapping, mounts, liveFiles, packFiles, history, call
<1>11. CASE UnbindState
  BY <1>11, CurrentIsRead, FolderSwapAssumption
     DEF UnbindState, Goto, Inductive1Inv, CallInv, TypeOK, MountInv,
         StateFiles, BoundTo, NotBound, Profiled, Installing, Outgoing,
         Swapping, mounts, liveFiles, packFiles, history, call
<1>12. CASE Unbound
  BY <1>12, CurrentIsRead, FolderSwapAssumption
     DEF Unbound, Goto, Inductive1Inv, CallInv, TypeOK, MountInv, StateFiles,
         BoundTo, NotBound, Profiled, Installing, Outgoing, Swapping, mounts,
         liveFiles, packFiles, history, call
<1>13. CASE BindProfile
  BY <1>13, CurrentIsRead, FolderSwapAssumption
     DEF BindProfile, Goto, Fails, Inductive1Inv, CallInv, TypeOK, MountInv,
         StateFiles, BoundTo, NotBound, Profiled, Installing, Outgoing,
         Swapping, mounts, liveFiles, packFiles, history, call
<1>14. CASE ProfilesBound
  BY <1>14, CurrentIsRead, FolderSwapAssumption
     DEF ProfilesBound, Goto, Inductive1Inv, CallInv, TypeOK, MountInv,
         StateFiles, BoundTo, NotBound, Profiled, Installing, Outgoing,
         Swapping, mounts, liveFiles, packFiles, history, call
<1>15. CASE BindState
  BY <1>15, CurrentIsRead, FolderSwapAssumption, SMTT(30)
     DEF BindState, Goto, Fails, Inductive1Inv, CallInv, TypeOK, MountInv,
         StateFiles, BoundTo, NotBound, Profiled, Installing, Outgoing,
         Swapping, mounts, liveFiles, packFiles, history, call
<1>16. CASE StatesBound
  BY <1>16, CurrentIsRead, FolderSwapAssumption
     DEF StatesBound, Goto, Inductive1Inv, CallInv, TypeOK, MountInv,
         StateFiles, BoundTo, NotBound, Profiled, Installing, Outgoing,
         Swapping, mounts, liveFiles, packFiles, history, call
<1>17. CASE ImportSram
  BY <1>17, CurrentIsRead, FolderSwapAssumption
     DEF ImportSram, Goto, GiveUpBank, Play, Inductive1Inv, CallInv, TypeOK,
         MountInv, StateFiles, BoundTo, NotBound, Profiled, Installing,
         Outgoing, Swapping, mounts, liveFiles, packFiles, history, call
<1>18. CASE CopySram
  BY <1>18, CurrentIsRead, FolderSwapAssumption
     DEF CopySram, Goto, GiveUpBank, Play, Inductive1Inv, CallInv, TypeOK,
         MountInv, StateFiles, BoundTo, NotBound, Profiled, Installing,
         Outgoing, Swapping, mounts, liveFiles, packFiles, history, call
<1>19. CASE RefreshDigest
  BY <1>19, CurrentIsRead, FolderSwapAssumption
     DEF RefreshDigest, Goto, GiveUpBank, Play, Inductive1Inv, CallInv,
         TypeOK, MountInv, StateFiles, BoundTo, NotBound, Profiled,
         Installing, Outgoing, Swapping, mounts, liveFiles, packFiles,
         history, call
<1>20. CASE WriteOwner
  BY <1>20, CurrentIsRead, FolderSwapAssumption
     DEF WriteOwner, Goto, GiveUpBank, Play, Outcomes, Inductive1Inv, CallInv,
         TypeOK, MountInv, StateFiles, BoundTo, NotBound, Profiled,
         Installing, Outgoing, Swapping, mounts, liveFiles, packFiles,
         history, call
<1>21. CASE WriteCurrent
  BY <1>21, CurrentIsRead, FolderSwapAssumption
     DEF WriteCurrent, Goto, Play, Outcomes, Inductive1Inv, CallInv, TypeOK,
         MountInv, StateFiles, BoundTo, NotBound, Profiled, Installing,
         Outgoing, Swapping, mounts, liveFiles, packFiles, history, call
<1>22. CASE Boot
  BY <1>22, CurrentIsRead, FolderSwapAssumption
     DEF Boot, Inductive1Inv, CallInv, TypeOK, MountInv, StateFiles, BoundTo,
         NotBound, Profiled, Installing, Outgoing, Swapping, mounts,
         liveFiles, packFiles, history, call
<1>23. CASE Crash
  BY <1>23, CurrentIsRead, FolderSwapAssumption
     DEF Crash, Inductive1Inv, CallInv, TypeOK, MountInv, StateFiles, BoundTo,
         NotBound, Profiled, Installing, Outgoing, Swapping, mounts,
         liveFiles, packFiles, history, call
<1>24. QED
  BY <1>1, <1>2, <1>3, <1>4, <1>5, <1>6, <1>7, <1>8, <1>9, <1>10, <1>11,
     <1>12, <1>13, <1>14, <1>15, <1>16, <1>17, <1>18, <1>19, <1>20, <1>21,
     <1>22, <1>23
     DEF Next

\* Whose bank is where at each step.
LEMMA BankInvStep ==
  ASSUME Inductive1Inv, "install" \notin Faults, "unreadable" \notin Faults, Next
  PROVE  BankInv'
<1>1. CASE EngineWritesData
  BY <1>1, CurrentIsRead, FolderSwapAssumption, ContentsTyped
     DEF EngineWritesData, Goto, Game, Inductive1Inv, CallInv, TypeOK, BankInv,
         LiveSramIsCurrent, Bank, BankSurvives, NextBank, NoForeignBytes,
         Installing, Outgoing, Swapping, mounts, packFiles
<1>2. CASE EngineWritesMeta
  BY <1>2, CurrentIsRead, FolderSwapAssumption, ContentsTyped
     DEF EngineWritesMeta, Goto, Game, Inductive1Inv, CallInv, TypeOK,
         BankInv, LiveSramIsCurrent, Bank, BankSurvives, NextBank,
         NoForeignBytes, Installing, Outgoing, Swapping, mounts, liveFiles,
         packFiles, history, call
<1>3. ASSUME NEW f \in Files, EngineSavesState(f)
      PROVE  BankInv'
  BY <1>3, CurrentIsRead, FolderSwapAssumption, ContentsTyped
     DEF EngineSavesState, Inductive1Inv, CallInv, TypeOK, BankInv,
         LiveSramIsCurrent, Bank, BankSurvives, NextBank, NoForeignBytes,
         Installing, Outgoing, Swapping, mounts, liveFiles, packFiles,
         history, call
<1>4. ASSUME NEW p \in Packs, StayInPack(p)
      PROVE  BankInv'
  BY <1>4, CurrentIsRead, FolderSwapAssumption, ContentsTyped
     DEF StayInPack, Saved, Inductive1Inv, CallInv, TypeOK, BankInv,
         LiveSramIsCurrent, Bank, BankSurvives, NextBank, NoForeignBytes,
         Installing, Outgoing, Swapping, mounts, liveFiles, packFiles,
         history, call
<1>5. ASSUME NEW p \in Packs, BeginSwap(p)
      PROVE  BankInv'
  BY <1>5, CurrentIsRead, FolderSwapAssumption, ContentsTyped
     DEF BeginSwap, Saved, Inductive1Inv, CallInv, TypeOK, BankInv,
         LiveSramIsCurrent, Bank, BankSurvives, NextBank, NoForeignBytes,
         Installing, Outgoing, Swapping, mounts, liveFiles, packFiles,
         history, call
<1>6. CASE ExportSram
  BY <1>6, CurrentIsRead, FolderSwapAssumption, ContentsTyped
     DEF ExportSram, Goto, Outcomes, Inductive1Inv, CallInv, TypeOK, BankInv,
         LiveSramIsCurrent, Bank, BankSurvives, NextBank, NoForeignBytes,
         Installing, Outgoing, Swapping, mounts, liveFiles, packFiles,
         history, call
<1>7. CASE MigrateFile
  BY <1>7, CurrentIsRead, FolderSwapAssumption, ContentsTyped
     DEF MigrateFile, Goto, Visible, Inductive1Inv, CallInv, TypeOK, BankInv,
         LiveSramIsCurrent, Bank, BankSurvives, NextBank, NoForeignBytes,
         Installing, Outgoing, Swapping, mounts, liveFiles, packFiles,
         history, call
<1>8. CASE DropMigrated
  BY <1>8, CurrentIsRead, FolderSwapAssumption, ContentsTyped
     DEF DropMigrated, Goto, Inductive1Inv, CallInv, TypeOK, BankInv,
         LiveSramIsCurrent, Bank, BankSurvives, NextBank, NoForeignBytes,
         Installing, Outgoing, Swapping, mounts, liveFiles, packFiles,
         history, call
<1>9. CASE SyncPack
  BY <1>9, CurrentIsRead, FolderSwapAssumption, ContentsTyped
     DEF SyncPack, Goto, Inductive1Inv, CallInv, TypeOK, BankInv,
         LiveSramIsCurrent, Bank, BankSurvives, NextBank, NoForeignBytes,
         Installing, Outgoing, Swapping, mounts, liveFiles, packFiles,
         history, call
<1>10. CASE MarkPending
  BY <1>10, CurrentIsRead, FolderSwapAssumption, ContentsTyped
     DEF MarkPending, Goto, Outcomes, Inductive1Inv, CallInv, TypeOK, BankInv,
         LiveSramIsCurrent, Bank, BankSurvives, NextBank, NoForeignBytes,
         Installing, Outgoing, Swapping, mounts, liveFiles, packFiles,
         history, call
<1>11. CASE UnbindState
  BY <1>11, CurrentIsRead, FolderSwapAssumption, ContentsTyped
     DEF UnbindState, Goto, Inductive1Inv, CallInv, TypeOK, BankInv,
         LiveSramIsCurrent, Bank, BankSurvives, NextBank, NoForeignBytes,
         Installing, Outgoing, Swapping, mounts, liveFiles, packFiles,
         history, call
<1>12. CASE Unbound
  BY <1>12, CurrentIsRead, FolderSwapAssumption, ContentsTyped
     DEF Unbound, Goto, Inductive1Inv, CallInv, TypeOK, BankInv,
         LiveSramIsCurrent, Bank, BankSurvives, NextBank, NoForeignBytes,
         Installing, Outgoing, Swapping, mounts, liveFiles, packFiles,
         history, call
<1>13. CASE BindProfile
  BY <1>13, CurrentIsRead, FolderSwapAssumption, ContentsTyped
     DEF BindProfile, Goto, Fails, Inductive1Inv, CallInv, TypeOK, BankInv,
         LiveSramIsCurrent, Bank, BankSurvives, NextBank, NoForeignBytes,
         Installing, Outgoing, Swapping, mounts, liveFiles, packFiles,
         history, call
<1>14. CASE ProfilesBound
  BY <1>14, CurrentIsRead, FolderSwapAssumption, ContentsTyped
     DEF ProfilesBound, Goto, Inductive1Inv, CallInv, TypeOK, BankInv,
         LiveSramIsCurrent, Bank, BankSurvives, NextBank, NoForeignBytes,
         Installing, Outgoing, Swapping, mounts, liveFiles, packFiles,
         history, call
<1>15. CASE BindState
  BY <1>15, CurrentIsRead, FolderSwapAssumption, ContentsTyped
     DEF BindState, Goto, Fails, Inductive1Inv, CallInv, TypeOK, BankInv,
         LiveSramIsCurrent, Bank, BankSurvives, NextBank, NoForeignBytes,
         Installing, Outgoing, Swapping, mounts, liveFiles, packFiles,
         history, call
<1>16. CASE StatesBound
  BY <1>16, CurrentIsRead, FolderSwapAssumption, ContentsTyped
     DEF StatesBound, Goto, Inductive1Inv, CallInv, TypeOK, BankInv,
         LiveSramIsCurrent, Bank, BankSurvives, NextBank, NoForeignBytes,
         Installing, Outgoing, Swapping, mounts, liveFiles, packFiles,
         history, call
<1>17. CASE ImportSram
  BY <1>17, CurrentIsRead, FolderSwapAssumption, ContentsTyped
     DEF ImportSram, Goto, GiveUpBank, Play, Inductive1Inv, CallInv, TypeOK,
         BankInv, LiveSramIsCurrent, Bank, BankSurvives, NextBank,
         NoForeignBytes, Installing, Outgoing, Swapping, mounts, liveFiles,
         packFiles, history, call
<1>18. CASE CopySram
  BY <1>18, CurrentIsRead, FolderSwapAssumption, ContentsTyped
     DEF CopySram, Goto, GiveUpBank, Play, Inductive1Inv, CallInv, TypeOK,
         BankInv, LiveSramIsCurrent, Bank, BankSurvives, NextBank,
         NoForeignBytes, Installing, Outgoing, Swapping, mounts, liveFiles,
         packFiles, history, call
<1>19. CASE RefreshDigest
  BY <1>19, CurrentIsRead, FolderSwapAssumption, ContentsTyped,
     RefreshDigestEnds
     DEF Goto, Inductive1Inv, CallInv, TypeOK, BankInv, LiveSramIsCurrent,
         Bank, BankSurvives, NextBank, NoForeignBytes, Installing, Outgoing,
         Swapping, mounts, liveFiles, packFiles, history, call
<1>20. CASE WriteOwner
  BY <1>20, CurrentIsRead, FolderSwapAssumption, ContentsTyped
     DEF WriteOwner, Goto, GiveUpBank, Play, Outcomes, Inductive1Inv, CallInv,
         TypeOK, BankInv, LiveSramIsCurrent, Bank, BankSurvives, NextBank,
         NoForeignBytes, Installing, Outgoing, Swapping, mounts, liveFiles,
         packFiles, history, call
<1>21. CASE WriteCurrent
  BY <1>21, CurrentIsRead, FolderSwapAssumption, ContentsTyped
     DEF WriteCurrent, Goto, Play, Outcomes, Inductive1Inv, CallInv, TypeOK,
         BankInv, LiveSramIsCurrent, Bank, BankSurvives, NextBank,
         NoForeignBytes, Installing, Outgoing, Swapping, mounts, liveFiles,
         packFiles, history, call
<1>22. CASE Boot
  BY <1>22, CurrentIsRead, FolderSwapAssumption, ContentsTyped
     DEF Boot, Inductive1Inv, CallInv, TypeOK, BankInv, LiveSramIsCurrent,
         Bank, BankSurvives, NextBank, NoForeignBytes, Installing, Outgoing,
         Swapping, mounts, liveFiles, packFiles, history, call
<1>23. CASE Crash
  BY <1>23, CurrentIsRead, FolderSwapAssumption, ContentsTyped
     DEF Crash, Inductive1Inv, CallInv, TypeOK, BankInv, LiveSramIsCurrent,
         Bank, BankSurvives, NextBank, NoForeignBytes, Installing, Outgoing,
         Swapping, mounts, liveFiles, packFiles, history, call
<1>24. QED
  BY <1>1, <1>2, <1>3, <1>4, <1>5, <1>6, <1>7, <1>8, <1>9, <1>10, <1>11,
     <1>12, <1>13, <1>14, <1>15, <1>16, <1>17, <1>18, <1>19, <1>20, <1>21,
     <1>22, <1>23
     DEF Next

\* The live directory holds files of the current pack.
LEMMA UnderInvStep ==
  ASSUME Inductive1Inv, "install" \notin Faults, "unreadable" \notin Faults, Next
  PROVE  UnderInv'
<1>1. CASE EngineWritesData
  BY <1>1, CurrentIsRead, FolderSwapAssumption, ContentsTyped
     DEF EngineWritesData, Goto, Game, Inductive1Inv, CallInv, TypeOK, UnderInv,
         MountInv, BoundTo, NotBound, Installing, Outgoing, Swapping, mounts,
         packFiles
<1>2. CASE EngineWritesMeta
  BY <1>2, CurrentIsRead, FolderSwapAssumption, ContentsTyped
     DEF EngineWritesMeta, Goto, Game, Inductive1Inv, CallInv, TypeOK,
         UnderInv, MountInv, BoundTo, NotBound, StateFiles, LiveFiles,
         Installing, Outgoing, Swapping, mounts, liveFiles, packFiles,
         history, call
<1>3. ASSUME NEW f \in Files, EngineSavesState(f)
      PROVE  UnderInv'
  <2>1. /\ pc = "menu" /\ target = current /\ current \in Packs /\ current # NoPack
        /\ UNCHANGED <<current, sram, sramPack, live, unsynced, bound, profile, pc, todo,
                       booting, from, target>>
    BY <1>3, FolderSwapAssumption
       DEF EngineSavesState, Inductive1Inv, CallInv, TypeOK, mounts, call
  <2>2. PICK new \in Contents : SavedInto(f, new)
    BY <1>3, StateSaved DEF Inductive1Inv, SavedInto
  <2>3. QED
    BY <2>1, <2>2 DEF SavedInto, Inductive1Inv, TypeOK, UnderInv, CallInv, Installing, Outgoing
<1>4. ASSUME NEW p \in Packs, StayInPack(p)
      PROVE  UnderInv'
  BY <1>4, CurrentIsRead, FolderSwapAssumption, ContentsTyped
     DEF StayInPack, Saved, Inductive1Inv, CallInv, TypeOK, UnderInv,
         MountInv, BoundTo, NotBound, StateFiles, LiveFiles, Installing,
         Outgoing, Swapping, mounts, liveFiles, packFiles, history, call
<1>5. ASSUME NEW p \in Packs, BeginSwap(p)
      PROVE  UnderInv'
  BY <1>5, CurrentIsRead, FolderSwapAssumption, ContentsTyped
     DEF BeginSwap, Saved, Inductive1Inv, CallInv, TypeOK, UnderInv, MountInv,
         BoundTo, NotBound, StateFiles, LiveFiles, Installing, Outgoing,
         Swapping, mounts, liveFiles, packFiles, history, call
<1>6. CASE ExportSram
  BY <1>6, CurrentIsRead, FolderSwapAssumption, ContentsTyped
     DEF ExportSram, Goto, Outcomes, Inductive1Inv, CallInv, TypeOK, UnderInv,
         MountInv, BoundTo, NotBound, StateFiles, LiveFiles, Installing,
         Outgoing, Swapping, mounts, liveFiles, packFiles, history, call
<1>7. CASE MigrateFile
  BY <1>7, FileMigrated
     DEF MigrateFile, Goto, Visible, Inductive1Inv, CallInv, TypeOK, UnderInv,
         MountInv, BoundTo, NotBound, StateFiles, LiveFiles, Installing,
         Outgoing, Swapping, mounts, liveFiles, packFiles, history, call
<1>8. CASE DropMigrated
  <2>1. \/ pc' = "stopped" /\ UNCHANGED under
        \/ /\ pc' = "migrate"
           /\ \E f \in Files : /\ under' = [under EXCEPT ![f] = Absent]
                               /\ todo' = todo \ {f}
    BY <1>8 DEF DropMigrated, Goto, Inductive1Inv, CallInv
  <2>2. pc = "drop" /\ UNCHANGED <<current, from, states, booting>>
    BY <1>8 DEF DropMigrated, Goto, packFiles
  <2>3. QED
    BY <2>1, <2>2 DEF Inductive1Inv, TypeOK, UnderInv, Installing
<1>9. CASE SyncPack
  BY <1>9, CurrentIsRead, FolderSwapAssumption, ContentsTyped
     DEF SyncPack, Goto, Inductive1Inv, CallInv, TypeOK, UnderInv, MountInv,
         BoundTo, NotBound, StateFiles, LiveFiles, Installing, Outgoing,
         Swapping, mounts, liveFiles, packFiles, history, call
<1>10. CASE MarkPending
  BY <1>10, CurrentIsRead, FolderSwapAssumption, ContentsTyped
     DEF MarkPending, Goto, Outcomes, Inductive1Inv, CallInv, TypeOK,
         UnderInv, MountInv, BoundTo, NotBound, StateFiles, LiveFiles,
         Installing, Outgoing, Swapping, mounts, liveFiles, packFiles,
         history, call
<1>11. CASE UnbindState
  BY <1>11, CurrentIsRead, FolderSwapAssumption, ContentsTyped
     DEF UnbindState, Goto, Inductive1Inv, CallInv, TypeOK, UnderInv,
         MountInv, BoundTo, NotBound, StateFiles, LiveFiles, Installing,
         Outgoing, Swapping, mounts, liveFiles, packFiles, history, call
<1>12. CASE Unbound
  BY <1>12, CurrentIsRead, FolderSwapAssumption, ContentsTyped
     DEF Unbound, Goto, Inductive1Inv, CallInv, TypeOK, UnderInv, MountInv,
         BoundTo, NotBound, StateFiles, LiveFiles, Installing, Outgoing,
         Swapping, mounts, liveFiles, packFiles, history, call
<1>13. CASE BindProfile
  BY <1>13, CurrentIsRead, FolderSwapAssumption, ContentsTyped
     DEF BindProfile, Goto, Fails, Inductive1Inv, CallInv, TypeOK, UnderInv,
         MountInv, BoundTo, NotBound, StateFiles, LiveFiles, Installing,
         Outgoing, Swapping, mounts, liveFiles, packFiles, history, call
<1>14. CASE ProfilesBound
  BY <1>14, CurrentIsRead, FolderSwapAssumption, ContentsTyped
     DEF ProfilesBound, Goto, Inductive1Inv, CallInv, TypeOK, UnderInv,
         MountInv, BoundTo, NotBound, StateFiles, LiveFiles, Installing,
         Outgoing, Swapping, mounts, liveFiles, packFiles, history, call
<1>15. CASE BindState
  BY <1>15, CurrentIsRead, FolderSwapAssumption, ContentsTyped
     DEF BindState, Goto, Fails, Inductive1Inv, CallInv, TypeOK, UnderInv,
         MountInv, BoundTo, NotBound, StateFiles, LiveFiles, Installing,
         Outgoing, Swapping, mounts, liveFiles, packFiles, history, call
<1>16. CASE StatesBound
  BY <1>16, CurrentIsRead, FolderSwapAssumption, ContentsTyped
     DEF StatesBound, Goto, Inductive1Inv, CallInv, TypeOK, UnderInv,
         MountInv, BoundTo, NotBound, StateFiles, LiveFiles, Installing,
         Outgoing, Swapping, mounts, liveFiles, packFiles, history, call
<1>17. CASE ImportSram
  BY <1>17, CurrentIsRead, FolderSwapAssumption, ContentsTyped
     DEF ImportSram, Goto, GiveUpBank, Play, Inductive1Inv, CallInv, TypeOK,
         UnderInv, MountInv, BoundTo, NotBound, StateFiles, LiveFiles,
         Installing, Outgoing, Swapping, mounts, liveFiles, packFiles,
         history, call
<1>18. CASE CopySram
  BY <1>18, CurrentIsRead, FolderSwapAssumption, ContentsTyped
     DEF CopySram, Goto, GiveUpBank, Play, Inductive1Inv, CallInv, TypeOK,
         UnderInv, MountInv, BoundTo, NotBound, StateFiles, LiveFiles,
         Installing, Outgoing, Swapping, mounts, liveFiles, packFiles,
         history, call
<1>19. CASE RefreshDigest
  BY <1>19, CurrentIsRead, FolderSwapAssumption, ContentsTyped
     DEF RefreshDigest, Goto, GiveUpBank, Play, Inductive1Inv, CallInv,
         TypeOK, UnderInv, MountInv, BoundTo, NotBound, StateFiles, LiveFiles,
         Installing, Outgoing, Swapping, mounts, liveFiles, packFiles,
         history, call
<1>20. CASE WriteOwner
  BY <1>20, CurrentIsRead, FolderSwapAssumption, ContentsTyped
     DEF WriteOwner, Goto, GiveUpBank, Play, Outcomes, Inductive1Inv, CallInv,
         TypeOK, UnderInv, MountInv, BoundTo, NotBound, StateFiles, LiveFiles,
         Installing, Outgoing, Swapping, mounts, liveFiles, packFiles,
         history, call
<1>21. CASE WriteCurrent
  BY <1>21, CurrentIsRead, FolderSwapAssumption, ContentsTyped
     DEF WriteCurrent, Goto, Play, Outcomes, Inductive1Inv, CallInv, TypeOK,
         UnderInv, MountInv, BoundTo, NotBound, StateFiles, LiveFiles,
         Installing, Outgoing, Swapping, mounts, liveFiles, packFiles,
         history, call
<1>22. CASE Boot
  BY <1>22, CurrentIsRead, FolderSwapAssumption, ContentsTyped
     DEF Boot, Inductive1Inv, CallInv, TypeOK, UnderInv, MountInv, BoundTo,
         NotBound, StateFiles, LiveFiles, Installing, Outgoing, Swapping,
         mounts, liveFiles, packFiles, history, call
<1>23. CASE Crash
  BY <1>23, CurrentIsRead, FolderSwapAssumption, ContentsTyped
     DEF Crash, Inductive1Inv, CallInv, TypeOK, UnderInv, MountInv, BoundTo,
         NotBound, StateFiles, LiveFiles, Installing, Outgoing, Swapping,
         mounts, liveFiles, packFiles, history, call
<1>24. QED
  BY <1>1, <1>2, <1>3, <1>4, <1>5, <1>6, <1>7, <1>8, <1>9, <1>10, <1>11,
     <1>12, <1>13, <1>14, <1>15, <1>16, <1>17, <1>18, <1>19, <1>20, <1>21,
     <1>22, <1>23
     DEF Next

\* No pack receives the bytes of another.
LEMMA NoForeignBytesStep ==
  ASSUME Inductive1Inv, "install" \notin Faults, "unreadable" \notin Faults, Next
  PROVE  NoForeignBytes'
<1>1. CASE EngineWritesData
  BY <1>1, CurrentIsRead, FolderSwapAssumption, ContentsTyped
     DEF EngineWritesData, Goto, Game, Inductive1Inv, CallInv, TypeOK, BankInv,
         UnderInv, MountInv, BoundTo, NoForeignBytes, StateFiles,
         LiveSramIsCurrent, Installing, Outgoing, Swapping, mounts, packFiles
<1>2. CASE EngineWritesMeta
  BY <1>2, CurrentIsRead, FolderSwapAssumption, ContentsTyped
     DEF EngineWritesMeta, Goto, Game, Inductive1Inv, CallInv, TypeOK,
         BankInv, UnderInv, MountInv, BoundTo, NoForeignBytes, StateFiles,
         LiveSramIsCurrent, Installing, Outgoing, Swapping, mounts, liveFiles,
         packFiles, history, call
<1>3. ASSUME NEW f \in Files, EngineSavesState(f)
      PROVE  NoForeignBytes'
  <2>1. /\ pc = "menu" /\ target = current /\ current \in Packs /\ current # NoPack
        /\ UNCHANGED <<current, sram, sramPack, live, unsynced, bound, profile, pc, todo,
                       booting, from, target>>
    BY <1>3, FolderSwapAssumption
       DEF EngineSavesState, Inductive1Inv, CallInv, TypeOK, mounts, call
  <2>2. PICK new \in Contents : SavedInto(f, new)
    BY <1>3, StateSaved DEF Inductive1Inv, SavedInto
  <2>3. QED
    BY <2>1, <2>2 DEF SavedInto, Inductive1Inv, TypeOK, NoForeignBytes, StateFiles, CallInv
<1>4. ASSUME NEW p \in Packs, StayInPack(p)
      PROVE  NoForeignBytes'
  BY <1>4, CurrentIsRead, FolderSwapAssumption, ContentsTyped
     DEF StayInPack, Saved, Inductive1Inv, CallInv, TypeOK, BankInv, UnderInv,
         MountInv, BoundTo, NoForeignBytes, StateFiles, LiveSramIsCurrent,
         Installing, Outgoing, Swapping, mounts, liveFiles, packFiles,
         history, call
<1>5. ASSUME NEW p \in Packs, BeginSwap(p)
      PROVE  NoForeignBytes'
  BY <1>5, CurrentIsRead, FolderSwapAssumption, ContentsTyped
     DEF BeginSwap, Saved, Inductive1Inv, CallInv, TypeOK, BankInv, UnderInv,
         MountInv, BoundTo, NoForeignBytes, StateFiles, LiveSramIsCurrent,
         Installing, Outgoing, Swapping, mounts, liveFiles, packFiles,
         history, call
<1>6. CASE ExportSram
  BY <1>6, CurrentIsRead, FolderSwapAssumption, ContentsTyped
     DEF ExportSram, Goto, Outcomes, Inductive1Inv, CallInv, TypeOK, BankInv,
         UnderInv, MountInv, BoundTo, NoForeignBytes, StateFiles,
         LiveSramIsCurrent, Installing, Outgoing, Swapping, mounts, liveFiles,
         packFiles, history, call
<1>7. CASE MigrateFile
  <2>1. UNCHANGED sram BY <1>7 DEF MigrateFile
  <2>2. CASE UNCHANGED states
    BY <2>1, <2>2 DEF Inductive1Inv, NoForeignBytes, StateFiles
  <2>3. CASE \E f \in Files : Migrated(f)
    <3>1. PICK f \in Files : Migrated(f)
      BY <2>3
    <3>2. from = current /\ from \in Packs
      BY <1>7 DEF Inductive1Inv, CallInv, Swapping, Outgoing, Installing, MigrateFile, TypeOK
    <3>3. QED
      BY <2>1, <3>1, <3>2
         DEF Migrated, Inductive1Inv, NoForeignBytes, StateFiles, UnderInv
  <2>4. QED BY <1>7, <2>2, <2>3, FileMigrated DEF Inductive1Inv
<1>8. CASE DropMigrated
  BY <1>8, CurrentIsRead, FolderSwapAssumption, ContentsTyped
     DEF DropMigrated, Goto, Inductive1Inv, CallInv, TypeOK, BankInv,
         UnderInv, MountInv, BoundTo, NoForeignBytes, StateFiles,
         LiveSramIsCurrent, Installing, Outgoing, Swapping, mounts, liveFiles,
         packFiles, history, call
<1>9. CASE SyncPack
  BY <1>9, CurrentIsRead, FolderSwapAssumption, ContentsTyped
     DEF SyncPack, Goto, Inductive1Inv, CallInv, TypeOK, BankInv, UnderInv,
         MountInv, BoundTo, NoForeignBytes, StateFiles, LiveSramIsCurrent,
         Installing, Outgoing, Swapping, mounts, liveFiles, packFiles,
         history, call
<1>10. CASE MarkPending
  BY <1>10, CurrentIsRead, FolderSwapAssumption, ContentsTyped
     DEF MarkPending, Goto, Outcomes, Inductive1Inv, CallInv, TypeOK, BankInv,
         UnderInv, MountInv, BoundTo, NoForeignBytes, StateFiles,
         LiveSramIsCurrent, Installing, Outgoing, Swapping, mounts, liveFiles,
         packFiles, history, call
<1>11. CASE UnbindState
  BY <1>11, CurrentIsRead, FolderSwapAssumption, ContentsTyped
     DEF UnbindState, Goto, Inductive1Inv, CallInv, TypeOK, BankInv, UnderInv,
         MountInv, BoundTo, NoForeignBytes, StateFiles, LiveSramIsCurrent,
         Installing, Outgoing, Swapping, mounts, liveFiles, packFiles,
         history, call
<1>12. CASE Unbound
  BY <1>12, CurrentIsRead, FolderSwapAssumption, ContentsTyped
     DEF Unbound, Goto, Inductive1Inv, CallInv, TypeOK, BankInv, UnderInv,
         MountInv, BoundTo, NoForeignBytes, StateFiles, LiveSramIsCurrent,
         Installing, Outgoing, Swapping, mounts, liveFiles, packFiles,
         history, call
<1>13. CASE BindProfile
  BY <1>13, CurrentIsRead, FolderSwapAssumption, ContentsTyped
     DEF BindProfile, Goto, Fails, Inductive1Inv, CallInv, TypeOK, BankInv,
         UnderInv, MountInv, BoundTo, NoForeignBytes, StateFiles,
         LiveSramIsCurrent, Installing, Outgoing, Swapping, mounts, liveFiles,
         packFiles, history, call
<1>14. CASE ProfilesBound
  BY <1>14, CurrentIsRead, FolderSwapAssumption, ContentsTyped
     DEF ProfilesBound, Goto, Inductive1Inv, CallInv, TypeOK, BankInv,
         UnderInv, MountInv, BoundTo, NoForeignBytes, StateFiles,
         LiveSramIsCurrent, Installing, Outgoing, Swapping, mounts, liveFiles,
         packFiles, history, call
<1>15. CASE BindState
  BY <1>15, CurrentIsRead, FolderSwapAssumption, ContentsTyped
     DEF BindState, Goto, Fails, Inductive1Inv, CallInv, TypeOK, BankInv,
         UnderInv, MountInv, BoundTo, NoForeignBytes, StateFiles,
         LiveSramIsCurrent, Installing, Outgoing, Swapping, mounts, liveFiles,
         packFiles, history, call
<1>16. CASE StatesBound
  BY <1>16, CurrentIsRead, FolderSwapAssumption, ContentsTyped
     DEF StatesBound, Goto, Inductive1Inv, CallInv, TypeOK, BankInv, UnderInv,
         MountInv, BoundTo, NoForeignBytes, StateFiles, LiveSramIsCurrent,
         Installing, Outgoing, Swapping, mounts, liveFiles, packFiles,
         history, call
<1>17. CASE ImportSram
  BY <1>17, CurrentIsRead, FolderSwapAssumption, ContentsTyped
     DEF ImportSram, Goto, GiveUpBank, Play, Inductive1Inv, CallInv, TypeOK,
         BankInv, UnderInv, MountInv, BoundTo, NoForeignBytes, StateFiles,
         LiveSramIsCurrent, Installing, Outgoing, Swapping, mounts, liveFiles,
         packFiles, history, call
<1>18. CASE CopySram
  BY <1>18, CurrentIsRead, FolderSwapAssumption, ContentsTyped
     DEF CopySram, Goto, GiveUpBank, Play, Inductive1Inv, CallInv, TypeOK,
         BankInv, UnderInv, MountInv, BoundTo, NoForeignBytes, StateFiles,
         LiveSramIsCurrent, Installing, Outgoing, Swapping, mounts, liveFiles,
         packFiles, history, call
<1>19. CASE RefreshDigest
  BY <1>19, CurrentIsRead, FolderSwapAssumption, ContentsTyped
     DEF RefreshDigest, Goto, GiveUpBank, Play, Inductive1Inv, CallInv,
         TypeOK, BankInv, UnderInv, MountInv, BoundTo, NoForeignBytes,
         StateFiles, LiveSramIsCurrent, Installing, Outgoing, Swapping,
         mounts, liveFiles, packFiles, history, call
<1>20. CASE WriteOwner
  BY <1>20, CurrentIsRead, FolderSwapAssumption, ContentsTyped
     DEF WriteOwner, Goto, GiveUpBank, Play, Outcomes, Inductive1Inv, CallInv,
         TypeOK, BankInv, UnderInv, MountInv, BoundTo, NoForeignBytes,
         StateFiles, LiveSramIsCurrent, Installing, Outgoing, Swapping,
         mounts, liveFiles, packFiles, history, call
<1>21. CASE WriteCurrent
  BY <1>21, CurrentIsRead, FolderSwapAssumption, ContentsTyped
     DEF WriteCurrent, Goto, Play, Outcomes, Inductive1Inv, CallInv, TypeOK,
         BankInv, UnderInv, MountInv, BoundTo, NoForeignBytes, StateFiles,
         LiveSramIsCurrent, Installing, Outgoing, Swapping, mounts, liveFiles,
         packFiles, history, call
<1>22. CASE Boot
  BY <1>22, CurrentIsRead, FolderSwapAssumption, ContentsTyped
     DEF Boot, Inductive1Inv, CallInv, TypeOK, BankInv, UnderInv, MountInv,
         BoundTo, NoForeignBytes, StateFiles, LiveSramIsCurrent, Installing,
         Outgoing, Swapping, mounts, liveFiles, packFiles, history, call
<1>23. CASE Crash
  BY <1>23, CurrentIsRead, FolderSwapAssumption, ContentsTyped
     DEF Crash, Inductive1Inv, CallInv, TypeOK, BankInv, UnderInv, MountInv,
         BoundTo, NoForeignBytes, StateFiles, LiveSramIsCurrent, Installing,
         Outgoing, Swapping, mounts, liveFiles, packFiles, history, call
<1>24. QED
  BY <1>1, <1>2, <1>3, <1>4, <1>5, <1>6, <1>7, <1>8, <1>9, <1>10, <1>11,
     <1>12, <1>13, <1>14, <1>15, <1>16, <1>17, <1>18, <1>19, <1>20, <1>21,
     <1>22, <1>23
     DEF Next

\* No completed save of a bank is lost.
LEMMA BankSurvivesStep ==
  ASSUME Inductive1Inv, "install" \notin Faults, "unreadable" \notin Faults, Next
  PROVE  BankSurvives'
<1>1. CASE EngineWritesData
  BY <1>1, CurrentIsRead, FolderSwapAssumption, ContentsTyped
     DEF EngineWritesData, Goto, Game, Inductive1Inv, CallInv, TypeOK, BankInv,
         LiveSramIsCurrent, Bank, BankSurvives, NextBank, NoForeignBytes,
         Installing, Outgoing, Swapping, mounts, packFiles
<1>2. CASE EngineWritesMeta
  BY <1>2, CurrentIsRead, FolderSwapAssumption, ContentsTyped
     DEF EngineWritesMeta, Goto, Game, Inductive1Inv, CallInv, TypeOK,
         BankInv, LiveSramIsCurrent, Bank, BankSurvives, NextBank,
         NoForeignBytes, Installing, Outgoing, Swapping, mounts, liveFiles,
         packFiles, history, call
<1>3. ASSUME NEW f \in Files, EngineSavesState(f)
      PROVE  BankSurvives'
  BY <1>3, CurrentIsRead, FolderSwapAssumption, ContentsTyped
     DEF EngineSavesState, Inductive1Inv, CallInv, TypeOK, BankInv,
         LiveSramIsCurrent, Bank, BankSurvives, NextBank, NoForeignBytes,
         Installing, Outgoing, Swapping, mounts, liveFiles, packFiles,
         history, call
<1>4. ASSUME NEW p \in Packs, StayInPack(p)
      PROVE  BankSurvives'
  BY <1>4, CurrentIsRead, FolderSwapAssumption, ContentsTyped
     DEF StayInPack, Saved, Inductive1Inv, CallInv, TypeOK, BankInv,
         LiveSramIsCurrent, Bank, BankSurvives, NextBank, NoForeignBytes,
         Installing, Outgoing, Swapping, mounts, liveFiles, packFiles,
         history, call
<1>5. ASSUME NEW p \in Packs, BeginSwap(p)
      PROVE  BankSurvives'
  BY <1>5, CurrentIsRead, FolderSwapAssumption, ContentsTyped
     DEF BeginSwap, Saved, Inductive1Inv, CallInv, TypeOK, BankInv,
         LiveSramIsCurrent, Bank, BankSurvives, NextBank, NoForeignBytes,
         Installing, Outgoing, Swapping, mounts, liveFiles, packFiles,
         history, call
<1>6. CASE ExportSram
  BY <1>6, CurrentIsRead, FolderSwapAssumption, ContentsTyped
     DEF ExportSram, Goto, Outcomes, Inductive1Inv, CallInv, TypeOK, BankInv,
         LiveSramIsCurrent, Bank, BankSurvives, NextBank, NoForeignBytes,
         Installing, Outgoing, Swapping, mounts, liveFiles, packFiles,
         history, call
<1>7. CASE MigrateFile
  BY <1>7, CurrentIsRead, FolderSwapAssumption, ContentsTyped
     DEF MigrateFile, Goto, Visible, Inductive1Inv, CallInv, TypeOK, BankInv,
         LiveSramIsCurrent, Bank, BankSurvives, NextBank, NoForeignBytes,
         Installing, Outgoing, Swapping, mounts, liveFiles, packFiles,
         history, call
<1>8. CASE DropMigrated
  BY <1>8, CurrentIsRead, FolderSwapAssumption, ContentsTyped
     DEF DropMigrated, Goto, Inductive1Inv, CallInv, TypeOK, BankInv,
         LiveSramIsCurrent, Bank, BankSurvives, NextBank, NoForeignBytes,
         Installing, Outgoing, Swapping, mounts, liveFiles, packFiles,
         history, call
<1>9. CASE SyncPack
  BY <1>9, CurrentIsRead, FolderSwapAssumption, ContentsTyped
     DEF SyncPack, Goto, Inductive1Inv, CallInv, TypeOK, BankInv,
         LiveSramIsCurrent, Bank, BankSurvives, NextBank, NoForeignBytes,
         Installing, Outgoing, Swapping, mounts, liveFiles, packFiles,
         history, call
<1>10. CASE MarkPending
  BY <1>10, CurrentIsRead, FolderSwapAssumption, ContentsTyped
     DEF MarkPending, Goto, Outcomes, Inductive1Inv, CallInv, TypeOK, BankInv,
         LiveSramIsCurrent, Bank, BankSurvives, NextBank, NoForeignBytes,
         Installing, Outgoing, Swapping, mounts, liveFiles, packFiles,
         history, call
<1>11. CASE UnbindState
  BY <1>11, CurrentIsRead, FolderSwapAssumption, ContentsTyped
     DEF UnbindState, Goto, Inductive1Inv, CallInv, TypeOK, BankInv,
         LiveSramIsCurrent, Bank, BankSurvives, NextBank, NoForeignBytes,
         Installing, Outgoing, Swapping, mounts, liveFiles, packFiles,
         history, call
<1>12. CASE Unbound
  BY <1>12, CurrentIsRead, FolderSwapAssumption, ContentsTyped
     DEF Unbound, Goto, Inductive1Inv, CallInv, TypeOK, BankInv,
         LiveSramIsCurrent, Bank, BankSurvives, NextBank, NoForeignBytes,
         Installing, Outgoing, Swapping, mounts, liveFiles, packFiles,
         history, call
<1>13. CASE BindProfile
  BY <1>13, CurrentIsRead, FolderSwapAssumption, ContentsTyped
     DEF BindProfile, Goto, Fails, Inductive1Inv, CallInv, TypeOK, BankInv,
         LiveSramIsCurrent, Bank, BankSurvives, NextBank, NoForeignBytes,
         Installing, Outgoing, Swapping, mounts, liveFiles, packFiles,
         history, call
<1>14. CASE ProfilesBound
  BY <1>14, CurrentIsRead, FolderSwapAssumption, ContentsTyped
     DEF ProfilesBound, Goto, Inductive1Inv, CallInv, TypeOK, BankInv,
         LiveSramIsCurrent, Bank, BankSurvives, NextBank, NoForeignBytes,
         Installing, Outgoing, Swapping, mounts, liveFiles, packFiles,
         history, call
<1>15. CASE BindState
  BY <1>15, CurrentIsRead, FolderSwapAssumption, ContentsTyped
     DEF BindState, Goto, Fails, Inductive1Inv, CallInv, TypeOK, BankInv,
         LiveSramIsCurrent, Bank, BankSurvives, NextBank, NoForeignBytes,
         Installing, Outgoing, Swapping, mounts, liveFiles, packFiles,
         history, call
<1>16. CASE StatesBound
  BY <1>16, CurrentIsRead, FolderSwapAssumption, ContentsTyped
     DEF StatesBound, Goto, Inductive1Inv, CallInv, TypeOK, BankInv,
         LiveSramIsCurrent, Bank, BankSurvives, NextBank, NoForeignBytes,
         Installing, Outgoing, Swapping, mounts, liveFiles, packFiles,
         history, call
<1>17. CASE ImportSram
  BY <1>17, CurrentIsRead, FolderSwapAssumption, ContentsTyped
     DEF ImportSram, Goto, GiveUpBank, Play, Inductive1Inv, CallInv, TypeOK,
         BankInv, LiveSramIsCurrent, Bank, BankSurvives, NextBank,
         NoForeignBytes, Installing, Outgoing, Swapping, mounts, liveFiles,
         packFiles, history, call
<1>18. CASE CopySram
  BY <1>18, CurrentIsRead, FolderSwapAssumption, ContentsTyped
     DEF CopySram, Goto, GiveUpBank, Play, Inductive1Inv, CallInv, TypeOK,
         BankInv, LiveSramIsCurrent, Bank, BankSurvives, NextBank,
         NoForeignBytes, Installing, Outgoing, Swapping, mounts, liveFiles,
         packFiles, history, call
<1>19. CASE RefreshDigest
  BY <1>19, CurrentIsRead, FolderSwapAssumption, ContentsTyped,
     RefreshDigestEnds
     DEF Goto, Inductive1Inv, CallInv, TypeOK, BankInv, LiveSramIsCurrent,
         Bank, BankSurvives, NextBank, NoForeignBytes, Installing, Outgoing,
         Swapping, mounts, liveFiles, packFiles, history, call
<1>20. CASE WriteOwner
  BY <1>20, CurrentIsRead, FolderSwapAssumption, ContentsTyped
     DEF WriteOwner, Goto, GiveUpBank, Play, Outcomes, Inductive1Inv, CallInv,
         TypeOK, BankInv, LiveSramIsCurrent, Bank, BankSurvives, NextBank,
         NoForeignBytes, Installing, Outgoing, Swapping, mounts, liveFiles,
         packFiles, history, call
<1>21. CASE WriteCurrent
  BY <1>21, CurrentIsRead, FolderSwapAssumption, ContentsTyped
     DEF WriteCurrent, Goto, Play, Outcomes, Inductive1Inv, CallInv, TypeOK,
         BankInv, LiveSramIsCurrent, Bank, BankSurvives, NextBank,
         NoForeignBytes, Installing, Outgoing, Swapping, mounts, liveFiles,
         packFiles, history, call
<1>22. CASE Boot
  BY <1>22, CurrentIsRead, FolderSwapAssumption, ContentsTyped
     DEF Boot, Inductive1Inv, CallInv, TypeOK, BankInv, LiveSramIsCurrent,
         Bank, BankSurvives, NextBank, NoForeignBytes, Installing, Outgoing,
         Swapping, mounts, liveFiles, packFiles, history, call
<1>23. CASE Crash
  BY <1>23, CurrentIsRead, FolderSwapAssumption, ContentsTyped
     DEF Crash, Inductive1Inv, CallInv, TypeOK, BankInv, LiveSramIsCurrent,
         Bank, BankSurvives, NextBank, NoForeignBytes, Installing, Outgoing,
         Swapping, mounts, liveFiles, packFiles, history, call
<1>24. QED
  BY <1>1, <1>2, <1>3, <1>4, <1>5, <1>6, <1>7, <1>8, <1>9, <1>10, <1>11,
     <1>12, <1>13, <1>14, <1>15, <1>16, <1>17, <1>18, <1>19, <1>20, <1>21,
     <1>22, <1>23
     DEF Next

\* No save state is lost on its way from one directory to the other.
LEMMA StateInvStep ==
  ASSUME Inductive2Inv, "install" \notin Faults, "unreadable" \notin Faults, "lostRename" \notin Faults, Next
  PROVE  StateInv'
<1>1. CASE EngineWritesData
  BY <1>1, CurrentIsRead, ContentsTyped, FolderSwapAssumption
     DEF EngineWritesData, Goto, Game, Inductive2Inv, Inductive1Inv, StateInv,
         LastSaved, CallInv, TypeOK, UnderInv, MountInv, Installing, Outgoing,
         Swapping, mounts, packFiles
<1>2. CASE EngineWritesMeta
  BY <1>2, CurrentIsRead, ContentsTyped, FolderSwapAssumption
     DEF EngineWritesMeta, Goto, Game, Inductive2Inv, Inductive1Inv, StateInv,
         LastSaved, CallInv, TypeOK, UnderInv, MountInv, Installing, Outgoing,
         Swapping, mounts, liveFiles, packFiles, history, call
<1>3. ASSUME NEW f \in Files, EngineSavesState(f)
      PROVE  StateInv'
  <2>1. /\ pc = "menu" /\ target = current /\ current \in Packs
        /\ UNCHANGED <<current, unsynced, pc, from, booting>>
    BY <1>3 DEF EngineSavesState, Inductive2Inv, Inductive1Inv, CallInv, TypeOK, call
  <2>2. PICK new \in Contents : new = [pack |-> current, n |-> stateKept[current][f] + 1]
                                /\ SavedInto(f, new)
    BY <1>3, StateSaved DEF Inductive2Inv, Inductive1Inv, SavedInto
  <2>3. stateKept[current][f] + 1 > 0
    BY <2>1 DEF Inductive2Inv, Inductive1Inv, TypeOK
  <2>4. QED
    BY <2>1, <2>2, <2>3
       DEF SavedInto, StateInv, LastSaved, Installing, Inductive2Inv, Inductive1Inv, CallInv
<1>4. ASSUME NEW p \in Packs, StayInPack(p)
      PROVE  StateInv'
  BY <1>4, CurrentIsRead, ContentsTyped, FolderSwapAssumption
     DEF StayInPack, Saved, Inductive2Inv, Inductive1Inv, StateInv, LastSaved,
         CallInv, TypeOK, UnderInv, MountInv, Installing, Outgoing, Swapping,
         mounts, liveFiles, packFiles, history, call
<1>5. ASSUME NEW p \in Packs, BeginSwap(p)
      PROVE  StateInv'
  BY <1>5, CurrentIsRead, ContentsTyped, FolderSwapAssumption
     DEF BeginSwap, Saved, Inductive2Inv, Inductive1Inv, StateInv, LastSaved,
         CallInv, TypeOK, UnderInv, MountInv, Installing, Outgoing, Swapping,
         mounts, liveFiles, packFiles, history, call
<1>6. CASE ExportSram
  <2>1. /\ pc = "export"
        /\ \/ pc' = "migrate" /\ todo' = LiveFiles
           \/ pc' = "stopped"
        /\ UNCHANGED <<states, under, unsynced, bound, current, from, booting, stateKept>>
    BY <1>6 DEF ExportSram, Goto, liveFiles, mounts, history
  <2>2. QED
    BY <2>1 DEF Inductive2Inv, StateInv, LastSaved, LiveFiles
<1>7. CASE MigrateFile
  <2>1. pc = "migrate" /\ from = current /\ from \in Packs
        /\ UNCHANGED <<current, from, booting, under, bound, stateKept>>
    BY <1>7 DEF MigrateFile, Goto, liveFiles, mounts, history, Inductive2Inv, Inductive1Inv,
              CallInv, Swapping, Outgoing, Installing, TypeOK
  <2>2. CASE UNCHANGED states /\ unsynced' \subseteq unsynced /\ todo' \subseteq todo
             /\ pc' \in {"migrate", "stopped"}
    BY <2>1, <2>2 DEF Inductive2Inv, StateInv, LastSaved, Installing
  <2>3. CASE \E f \in Files : Migrated(f)
    <3>1. PICK f \in Files : Migrated(f)
      BY <2>3
    <3>2. under[f] # Absent
      BY <2>1, <3>1 DEF Migrated, Inductive2Inv, StateInv
    <3>3. \A p \in Packs, g \in Files :
            states'[p][g] = IF p = from /\ g = f THEN under[f] ELSE states[p][g]
      BY <3>1 DEF Migrated
    <3>4. f \in todo /\ todo' = todo /\ unsynced' = unsynced \cup {f} /\ pc' = "drop"
      BY <3>1 DEF Migrated
    <3>5. LastSaved(from, f, under[f])
      BY <2>1, <3>1, <3>2 DEF Migrated, Inductive2Inv, StateInv
    <3>6. \A p \in Packs, g \in Files :
            IF states'[p][g] # Absent THEN LastSaved(p, g, states'[p][g])
            ELSE stateKept[p][g] > 0 => p = current /\ under[g] # Absent
      BY <3>2, <3>3, <3>5 DEF Inductive2Inv, StateInv
    <3>7. \A g \in Files : states'[current][g] = Absent /\ under[g] # Absent =>
            LastSaved(current, g, under[g])
      BY <2>1, <3>2, <3>3 DEF Inductive2Inv, StateInv
    <3>8. \A g \in unsynced' : states'[from][g] # Absent
      BY <2>1, <3>2, <3>3, <3>4 DEF Inductive2Inv, Inductive1Inv, TypeOK, StateInv
    <3>9. QED
      BY <2>1, <3>4, <3>6, <3>7, <3>8 DEF Inductive2Inv, StateInv, LastSaved
  <2>4. QED BY <1>7, <2>2, <2>3, FileMigrated DEF Inductive2Inv, Inductive1Inv
<1>8. CASE DropMigrated
  BY <1>8, CurrentIsRead, ContentsTyped, FolderSwapAssumption
     DEF DropMigrated, Goto, Inductive2Inv, Inductive1Inv, StateInv,
         LastSaved, CallInv, TypeOK, UnderInv, MountInv, Installing, Outgoing,
         Swapping, mounts, liveFiles, packFiles, history, call
<1>9. CASE SyncPack
  BY <1>9, CurrentIsRead, ContentsTyped, FolderSwapAssumption
     DEF SyncPack, Goto, Inductive2Inv, Inductive1Inv, StateInv, LastSaved,
         CallInv, TypeOK, UnderInv, MountInv, Installing, Outgoing, Swapping,
         mounts, liveFiles, packFiles, history, call
<1>10. CASE MarkPending
  <2>1. /\ pc = "pending"
        /\ \/ pc' = "unbind" /\ todo' = StateFiles(from)
           \/ pc' = "stopped"
        /\ UNCHANGED <<states, under, unsynced, bound, current, from, booting, stateKept>>
    BY <1>10 DEF MarkPending, Goto, packFiles, mounts, history
  <2>2. QED
    BY <2>1 DEF Inductive2Inv, StateInv, LastSaved, StateFiles
<1>11. CASE UnbindState
  BY <1>11, CurrentIsRead, ContentsTyped, FolderSwapAssumption
     DEF UnbindState, Goto, Inductive2Inv, Inductive1Inv, StateInv, LastSaved,
         CallInv, TypeOK, UnderInv, MountInv, Installing, Outgoing, Swapping,
         mounts, liveFiles, packFiles, history, call
<1>12. CASE Unbound
  BY <1>12, CurrentIsRead, ContentsTyped, FolderSwapAssumption
     DEF Unbound, Goto, Inductive2Inv, Inductive1Inv, StateInv, LastSaved,
         CallInv, TypeOK, UnderInv, MountInv, Installing, Outgoing, Swapping,
         mounts, liveFiles, packFiles, history, call
<1>13. CASE BindProfile
  BY <1>13, CurrentIsRead, ContentsTyped, FolderSwapAssumption
     DEF BindProfile, Goto, Fails, Inductive2Inv, Inductive1Inv, StateInv,
         LastSaved, CallInv, TypeOK, UnderInv, MountInv, Installing, Outgoing,
         Swapping, mounts, liveFiles, packFiles, history, call
<1>14. CASE ProfilesBound
  BY <1>14, CurrentIsRead, ContentsTyped, FolderSwapAssumption
     DEF ProfilesBound, Goto, Inductive2Inv, Inductive1Inv, StateInv,
         LastSaved, CallInv, TypeOK, UnderInv, MountInv, Installing, Outgoing,
         Swapping, mounts, liveFiles, packFiles, history, call
<1>15. CASE BindState
  BY <1>15, CurrentIsRead, ContentsTyped, FolderSwapAssumption
     DEF BindState, Goto, Fails, Inductive2Inv, Inductive1Inv, StateInv,
         LastSaved, CallInv, TypeOK, UnderInv, MountInv, Installing, Outgoing,
         Swapping, mounts, liveFiles, packFiles, history, call
<1>16. CASE StatesBound
  BY <1>16, CurrentIsRead, ContentsTyped, FolderSwapAssumption
     DEF StatesBound, Goto, Inductive2Inv, Inductive1Inv, StateInv, LastSaved,
         CallInv, TypeOK, UnderInv, MountInv, Installing, Outgoing, Swapping,
         mounts, liveFiles, packFiles, history, call
<1>17. CASE ImportSram
  BY <1>17, CurrentIsRead, ContentsTyped, FolderSwapAssumption
     DEF ImportSram, Goto, GiveUpBank, Play, Inductive2Inv, Inductive1Inv,
         StateInv, LastSaved, CallInv, TypeOK, UnderInv, MountInv, Installing,
         Outgoing, Swapping, mounts, liveFiles, packFiles, history, call
<1>18. CASE CopySram
  BY <1>18, CurrentIsRead, ContentsTyped, FolderSwapAssumption
     DEF CopySram, Goto, GiveUpBank, Play, Inductive2Inv, Inductive1Inv,
         StateInv, LastSaved, CallInv, TypeOK, UnderInv, MountInv, Installing,
         Outgoing, Swapping, mounts, liveFiles, packFiles, history, call
<1>19. CASE RefreshDigest
  BY <1>19, RefreshDigestEnds
     DEF Goto, Inductive2Inv, Inductive1Inv, CallInv, StateInv, LastSaved,
         Installing, packFiles, history
<1>20. CASE WriteOwner
  BY <1>20, CurrentIsRead, ContentsTyped, FolderSwapAssumption
     DEF WriteOwner, Goto, GiveUpBank, Play, Outcomes, Inductive2Inv,
         Inductive1Inv, StateInv, LastSaved, CallInv, TypeOK, UnderInv,
         MountInv, Installing, Outgoing, Swapping, mounts, liveFiles,
         packFiles, history, call
<1>21. CASE WriteCurrent
  <2>1. /\ pc = "commit" /\ pc' \in {"menu", "stopped"} /\ ~booting
        /\ current' = current \/ current' = target
        /\ UNCHANGED <<states, under, unsynced, bound, from, stateKept>>
    BY <1>21 DEF WriteCurrent, Goto, Play, packFiles, liveFiles, mounts, history,
              Inductive2Inv, Inductive1Inv, CallInv
  <2>2. \A f \in Files : under[f] # Absent => under[f] = Zero
    BY <2>1 DEF Inductive2Inv, Inductive1Inv, UnderInv, Installing
  <2>3. \A f \in Files : states[current][f] = Absent => stateKept[current][f] = 0
    <3>1. current # NoPack /\ current \in Packs
      BY FolderSwapAssumption DEF Inductive2Inv, Inductive1Inv, TypeOK
    <3>2. \A f \in Files : under[f] # Absent => under[f].pack # current
      BY <2>2, <3>1, ContentsTyped
    <3>3. \A f \in Files : stateKept[current][f] \in Nat
      BY <3>1, FolderSwapAssumption DEF Inductive2Inv, Inductive1Inv, TypeOK
    <3>4. ASSUME NEW f \in Files, states[current][f] = Absent, stateKept[current][f] > 0
          PROVE  FALSE
      <4>1. under[f] # Absent /\ LastSaved(current, f, under[f])
        BY <3>1, <3>4 DEF Inductive2Inv, StateInv
      <4>2. under[f].pack = current
        BY <3>3, <3>4, <4>1 DEF LastSaved
      <4>3. QED BY <3>2, <4>1, <4>2
    <3>5. QED BY <3>3, <3>4
  <2>4. CASE current' = current
    BY <2>1, <2>4 DEF Inductive2Inv, StateInv, LastSaved, Installing
  <2>5. CASE current' = target /\ target # current
    <3>1. \A p \in Packs, f \in Files : states[p][f] = Absent => stateKept[p][f] = 0
      BY <2>3, FolderSwapAssumption
         DEF Inductive2Inv, Inductive1Inv, TypeOK, StateInv
    <3>2. target \in Packs
      BY DEF Inductive2Inv, Inductive1Inv, TypeOK
    <3>3. QED
      BY <2>1, <2>2, <2>5, <3>1, <3>2 DEF Inductive2Inv, StateInv, LastSaved, Installing
  <2>6. QED BY <2>1, <2>4, <2>5
<1>22. CASE Boot
  BY <1>22, CurrentIsRead, ContentsTyped, FolderSwapAssumption
     DEF Boot, Inductive2Inv, Inductive1Inv, StateInv, LastSaved, CallInv,
         TypeOK, UnderInv, MountInv, Installing, Outgoing, Swapping, mounts,
         liveFiles, packFiles, history, call
<1>23. CASE Crash
  BY <1>23, CurrentIsRead, ContentsTyped, FolderSwapAssumption
     DEF Crash, Inductive2Inv, Inductive1Inv, StateInv, LastSaved, CallInv,
         TypeOK, UnderInv, MountInv, Installing, Outgoing, Swapping, mounts,
         liveFiles, packFiles, history, call
<1>24. QED
  BY <1>1, <1>2, <1>3, <1>4, <1>5, <1>6, <1>7, <1>8, <1>9, <1>10, <1>11,
     <1>12, <1>13, <1>14, <1>15, <1>16, <1>17, <1>18, <1>19, <1>20, <1>21,
     <1>22, <1>23
     DEF Next

-----------------------------------------------------------------------------
(* The theorems *)

\* Nothing is saved, bound or imported before the first start.
LEMMA InitInv == Init => Inductive2Inv
<1> SUFFICES ASSUME Init PROVE Inductive2Inv
  OBVIOUS
<1>1. TypeOK
  BY ContentsTyped, FolderSwapAssumption DEF Init, TypeOK, Steps
<1>2. CallInv /\ MountInv /\ UnderInv
  BY DEF Init, CallInv, MountInv, UnderInv, Installing, Outgoing, Swapping, NotBound
<1>3. BankInv /\ BankSurvives /\ NoForeignBytes
  BY ContentsTyped DEF Init, BankInv, BankSurvives, NextBank, Bank, NoForeignBytes,
     StateFiles, Installing
<1>4. StateInv
  BY DEF Init, StateInv
<1>5. QED BY <1>1, <1>2, <1>3, <1>4 DEF Inductive1Inv, Inductive2Inv

\* The invariants speak of the declared variables only.
LEMMA Stutter1 == Inductive1Inv /\ UNCHANGED vars => Inductive1Inv'
  BY DEF vars, packFiles, liveFiles, mounts, call, history, Inductive1Inv, TypeOK, CallInv,
         MountInv, BankInv, UnderInv, NoForeignBytes, BankSurvives, NextBank, Bank,
         LiveSramIsCurrent, BoundTo, NotBound, Profiled, Swapping, StateFiles

LEMMA StutterStates == StateInv /\ UNCHANGED vars => StateInv'
  BY DEF vars, packFiles, liveFiles, mounts, call, history, StateInv, LastSaved

\* As long as no start goes on after an error and .current can be read, every
\* reachable state satisfies the first invariant, lost renames or not.
THEOREM Inductive1 ==
  ASSUME "install" \notin Faults, "unreadable" \notin Faults
  PROVE  Spec => []Inductive1Inv
<1>1. Init => Inductive1Inv BY InitInv DEF Inductive2Inv
<1>2. ASSUME Inductive1Inv, [Next]_vars PROVE Inductive1Inv'
  <2>1. CASE Next
    <3>1. TypeOK' /\ CallInv' /\ MountInv'
      BY <1>2, <2>1, TypeOKStep, CallInvStep, MountInvStep DEF Inductive1Inv
    <3>2. BankInv' /\ UnderInv'
      BY <1>2, <2>1, BankInvStep, UnderInvStep
    <3>3. NoForeignBytes' /\ BankSurvives'
      BY <1>2, <2>1, NoForeignBytesStep, BankSurvivesStep
    <3>4. QED BY <3>1, <3>2, <3>3 DEF Inductive1Inv
  <2>2. QED BY <1>2, <2>1, Stutter1
<1>3. QED BY <1>1, <1>2, PTL DEF Spec

\* Where a rename once done is not lost either, the save-state files are
\* accounted for at every step.
THEOREM Inductive2 ==
  ASSUME "install" \notin Faults, "unreadable" \notin Faults, "lostRename" \notin Faults
  PROVE  Spec => []Inductive2Inv
<1>1. ASSUME Inductive2Inv, Inductive1Inv', [Next]_vars PROVE Inductive2Inv'
  <2>1. CASE Next
    BY <1>1, <2>1, StateInvStep DEF Inductive2Inv
  <2>2. QED BY <1>1, <2>1, StutterStates DEF Inductive2Inv
<1>2. QED BY <1>1, InitInv, Inductive1, PTL DEF Spec

\* Markers, banks, files, mounts and the call keep their shape.
THEOREM TypeCorrect ==
  ASSUME "install" \notin Faults, "unreadable" \notin Faults
  PROVE  Spec => []TypeOK
<1>1. Inductive1Inv => TypeOK BY DEF Inductive1Inv
<1>2. QED BY <1>1, Inductive1, PTL

\* No pack's sram.bin or state file ever holds another pack's bytes or a
\* half-copied bank, whatever step of a swap fails or is cut by a crash.
THEOREM OwnBytesOnly ==
  ASSUME "install" \notin Faults, "unreadable" \notin Faults
  PROVE  Spec => []NoForeignBytes
<1>1. Inductive1Inv => NoForeignBytes BY DEF Inductive1Inv
<1>2. QED BY <1>1, Inductive1, PTL

\* No completed save of a bank or of a state file is lost to a swap, an error
\* or a crash.
THEOREM NothingLost ==
  ASSUME "install" \notin Faults, "unreadable" \notin Faults, "lostRename" \notin Faults
  PROVE  Spec => []SavesSurvive
<1>1. Inductive2Inv => BankSurvives BY DEF Inductive2Inv, Inductive1Inv
<1>2. Inductive2Inv => StatesSurvive
  BY DEF Inductive2Inv, StateInv, LastSaved, StatesSurvive, NextState
<1>3. QED BY <1>1, <1>2, Inductive2, PTL DEF SavesSurvive

\* Whoever plays has the profiles, the states and the bank of one pack, the
\* current one.
THEOREM PlaysOnePack ==
  ASSUME "install" \notin Faults, "unreadable" \notin Faults
  PROVE  Spec => []OneContext
<1>1. ASSUME Inductive1Inv, pc = "menu"
      PROVE  /\ target = current
             /\ profile = [i \in Profiles |-> current]
             /\ \A f \in Files : bound[f] = IF states[current][f] # Absent THEN current ELSE NoPack
             /\ live = bank /\ digestOk /\ bank.pack \in {current, NoPack}
  <2>1. target = current BY <1>1 DEF Inductive1Inv, CallInv
  <2>2. profile = [i \in Profiles |-> current]
    BY <1>1 DEF Inductive1Inv, TypeOK, MountInv, Profiled
  <2>3. \A f \in Files : bound[f] = IF states[current][f] # Absent THEN current ELSE NoPack
    BY <1>1 DEF Inductive1Inv, MountInv, BoundTo
  <2>4. live = bank /\ digestOk /\ bank.pack \in {current, NoPack}
    BY <1>1, ContentsTyped DEF Inductive1Inv, BankInv, LiveSramIsCurrent
  <2>5. QED BY <2>1, <2>2, <2>3, <2>4
<1>2. Inductive1Inv => OneContext BY <1>1 DEF OneContext
<1>3. QED BY <1>2, Inductive1, PTL
=============================================================================
