------------------------- MODULE SaveMigrationProofs -------------------------
(***************************************************************************)
(* Proofs about SaveMigration, for every library, every number of packs    *)
(* and slots, every published menu and every bound on saves and stops.     *)
(* MigrationInv is inductive.  Its first five parts type the state, say    *)
(* where a run can be, and keep the order of times: a state waiting to be  *)
(* installed is not older than the one it replaces.  The sixth is          *)
(* WholeOrJournalled.  NeverOlder follows from them, step by step.         *)
(***************************************************************************)
EXTENDS SaveMigration, FiniteSetTheorems, WellFoundedInduction, TLAPS

-----------------------------------------------------------------------------
(* The inductive invariant. *)

\* The steps of a run; those in a pack; those that replace a state; those with a journal.
Pcs == {"idle", "identify", "pack", "sram", "state", "manifest", "store", "backup", "backupMeta",
        "journal", "recover", "recoverMeta", "recoverEnd"}
PackSteps == {"sram", "state", "manifest"}
PairSteps == {"backup", "backupMeta", "journal", "recover", "recoverMeta", "recoverEnd"}
Recovering == {"recover", "recoverMeta", "recoverEnd"}

\* Legacy states, none from the future.
FromInv ==
    /\ clock \in Nat
    /\ from \in [Packs \cup {Live} -> [(1 .. MaxMenu) \X Slots -> Payload \cup {None}]]
    /\ \A d \in Packs \cup {Live}, k \in (1 .. MaxMenu) \X Slots :
          from[d][k] # None => from[d][k].at <= clock

\* States, their metadata and the journals of their replacement.
PairInv ==
    /\ data \in [Files -> Payload \cup {None}]
    /\ meta \in [Files -> Metadata \cup {None}]
    /\ journal \in [Files -> Journal \cup {None}]

\* What was published, and tags for the games.
NameInv == world \in Worlds /\ native \in [Games -> Tags \cup {None}]

\* Where a run can be, and what it has read when it is there.
RunInv ==
    /\ DOMAIN run = DOMAIN Idle
    /\ run.pc \in Pcs /\ run.then \in {"none", "state", "record", "store"}
    /\ run.pc \in PackSteps => run.pack \in Packs
    /\ run.pc \in {"backup", "backupMeta", "journal"} => run.payload \in Payload
    /\ run.pc \in PairSteps =>
         /\ run.file \in Files
         /\ run.then \in {"state", "record", "store"}
         /\ run.then # "store" => run.pack \in Packs
    /\ run.pc \in Recovering => journal[run.file] # None
    /\ run.pc \in {"recoverMeta", "recoverEnd"} => data[run.file] = journal[run.file].new

\* No state is from the future, and what a run installs is not older than what it replaces.
TimeInv ==
    /\ \A f \in Files :
         /\ data[f] # None => data[f].at <= clock
         /\ meta[f] # None => meta[f].time >= meta[f].digest.at
         /\ journal[f] # None =>
              /\ journal[f].new.at <= journal[f].time
              /\ journal[f].oldData # None => journal[f].oldData.at <= journal[f].new.at
              /\ journal[f].new.at <= clock
    /\ run.pc \in {"backup", "backupMeta", "journal"} =>
         /\ run.payload.at <= clock
         /\ data[run.file] # None => data[run.file].at <= run.payload.at

MigrationInv == NameInv /\ FromInv /\ PairInv /\ RunInv /\ TimeInv /\ WholeOrJournalled
-----------------------------------------------------------------------------
(* What the choices of migrate_states choose. *)

\* A set of numbers that is not empty has a least one.
LEMMA LeastOf ==
  ASSUME NEW S, S \subseteq Nat, S # {}
  PROVE  \E m \in S : \A n \in S : m <= n
<1> DEFINE Below == {ss \in Nat \X Nat : ss[1] < ss[2]}
<1>1. IsWellFoundedOn(Below, Nat) BY NatLessThanWellFounded DEF OpToRel
<1>2. PICK m \in S : \A n \in S : <<n, m>> \notin Below BY <1>1, WFMin
<1>3. ASSUME NEW n \in S PROVE m <= n
  <2>1. <<n, m>> \in Nat \X Nat /\ <<n, m>>[1] = n /\ <<n, m>>[2] = m OBVIOUS
  <2>2. ~(n < m) BY <1>2, <2>1
  <2>3. QED BY <2>2
<1>4. QED BY <1>3

\* The first position of a set is one of the set.
LEMMA FirstIsThere ==
  ASSUME NEW S, S \subseteq Nat \X Nat, S # {}
  PROVE  FirstOf(S) \in S
<1>1. PICK i \in {k[1] : k \in S} : \A j \in {k[1] : k \in S} : i <= j
  <2>1. {k[1] : k \in S} # {} /\ {k[1] : k \in S} \subseteq Nat OBVIOUS
  <2>2. QED BY <2>1, LeastOf
<1> DEFINE Row == {k \in S : k[1] = i}
<1>2. PICK n \in {k[2] : k \in Row} : \A m \in {k[2] : k \in Row} : n <= m
  <2>1. {k[2] : k \in Row} # {} /\ {k[2] : k \in Row} \subseteq Nat BY <1>1
  <2>2. QED BY <2>1, LeastOf
<1>3. PICK k \in Row : k[2] = n BY <1>2
<1>4. \A j \in S \ {k} : Before(k, j)
  <2> SUFFICES ASSUME NEW j \in S, j # k PROVE Before(k, j) OBVIOUS
  <2>1. /\ k[1] = i /\ k[2] = n /\ k \in Nat \X Nat /\ j \in Nat \X Nat
        /\ i <= j[1] /\ (j[1] = i => n <= j[2])
    BY <1>1, <1>2, <1>3
  <2>2. j = <<j[1], j[2]>> /\ k = <<k[1], k[2]>> BY <2>1
  <2>3. QED BY <2>1, <2>2 DEF Before
<1>5. QED BY <1>3, <1>4 DEF FirstOf

\* The newest of at most two copies is one of them: a position has its pack's and the live one.
LEMMA NewestIsThere ==
  ASSUME NEW S, NEW x, NEW y, S \subseteq {x, y}, S # {}, \A s \in S : s.at \in Nat
  PROVE  NewestOf(S) \in S
<1>1. \E s \in S : \A t \in S : s.at >= t.at
  OBVIOUS
<1>2. QED BY <1>1 DEF NewestOf

\* The position being imported is one of the menu, and a game's save is usable there.
LEMMA CurrentThere ==
  ASSUME NameInv, run.pack \in Packs, Remaining # {}
  PROVE  /\ Current \in Remaining /\ Current \in (1 .. MaxMenu) \X Slots
         /\ Current[1] \in 1 .. Len(Menu(run.pack)) /\ Usable(run.pack, Current) # {}
<1>1. Len(Menu(run.pack)) \in 0 .. MaxMenu
  BY WorldsAssumption DEF NameInv, Plausible, Menu
<1>2. Keys(run.pack) \subseteq (1 .. MaxMenu) \X Slots /\ Keys(run.pack) \subseteq Nat \X Nat
  <2>1. 1 .. Len(Menu(run.pack)) \subseteq 1 .. MaxMenu /\ 1 .. Len(Menu(run.pack)) \subseteq Nat
    BY <1>1, BoundsAssumption
  <2>2. QED BY <2>1, BoundsAssumption DEF Keys
<1>3. Remaining \subseteq Keys(run.pack) BY DEF Remaining, Work
<1>4. Current \in Remaining BY <1>2, <1>3, FirstIsThere DEF Current
<1>5. Usable(run.pack, Current) # {}
  <2>1. Cardinality({Kind(s) : s \in Usable(run.pack, Current)}) = 1
    BY <1>4 DEF Remaining, Work
  <2>2. {Kind(s) : s \in Usable(run.pack, Current)} # {} BY <2>1, FS_EmptySet
  <2>3. QED BY <2>2
<1>6. QED BY <1>2, <1>3, <1>4, <1>5 DEF Keys

\* What is found at a position is a payload from the past.
LEMMA FoundTyped ==
  ASSUME NameInv, FromInv, NEW p \in Packs, NEW k \in (1 .. MaxMenu) \X Slots,
         NEW s \in Found(p, k)
  PROVE  s \in Payload /\ s.at <= clock
<1>1. PICK d \in Directories(p) : s = from[d][k] /\ s # None BY DEF Found
<1>2. d \in Packs \cup {Live} BY <1>1 DEF Directories
<1>3. QED BY <1>1, <1>2 DEF FromInv

\* resolve returns a game of the library.
LEMMA OwnerTyped ==
  ASSUME NEW item, Resolved(item)
  PROVE  Owner(item) \in Games
<1>1. Candidates(item) # {} BY FS_EmptySet DEF Resolved
<1>2. QED BY <1>1 DEF Owner, Candidates

\* destination_tag returns a tag or nothing.
LEMMA TagTyped ==
  ASSUME NameInv, NEW item, NEW g \in Games, NEW tag \in Tags,
         DestinationTag(item, g, tag) # None
  PROVE  DestinationTag(item, g, tag) \in Tags
BY DEF DestinationTag, NameInv

\* The native region tag of a game is a tag.
LEMMA RegionTyped ==
  ASSUME NameInv, NEW g \in Games
  PROVE  RegionTag(g) \in Tags
BY WorldsAssumption DEF RegionTag, NameInv, Plausible, lib

\* What is imported is a payload from the past, into a file of the library, under a tag.
LEMMA SourceTyped ==
  ASSUME NameInv, FromInv, run.pack \in Packs, Remaining # {}
  PROVE  /\ Source \in Payload /\ Source.at <= clock
         /\ Target \in Files /\ TagFor(Source) \in Tags
<1> DEFINE U == Usable(run.pack, Current)
<1>1. /\ Current \in (1 .. MaxMenu) \X Slots /\ U # {} BY CurrentThere
<1>2. U \subseteq Found(run.pack, Current) BY DEF Usable
<1>3. \A s \in U : s \in Payload /\ s.at <= clock BY <1>1, <1>2, FoundTyped
<1>4. U \subseteq {from[run.pack][Current], from[Live][Current]}
  BY <1>2 DEF Found, Directories
<1>5. \A s \in U : s.at \in Nat BY <1>3 DEF Payload
<1>6. Source \in U BY <1>1, <1>4, <1>5, NewestIsThere DEF Source
<1>7. Resolved(CurrentItem) /\ DestinationTag(CurrentItem, Owner(CurrentItem), Source.tag) # None
  BY <1>6 DEF Usable, CurrentItem
<1>8. Owner(CurrentItem) \in Games BY <1>7, OwnerTyped
<1>9. Target \in Files /\ Target[1] = Owner(CurrentItem) BY <1>1, <1>8 DEF Target, Files
<1>10. Source.tag \in Tags BY <1>3, <1>6 DEF Payload
<1>11. TagFor(Source) \in Tags BY <1>7, <1>8, <1>9, <1>10, TagTyped DEF TagFor
<1>12. QED BY <1>3, <1>6, <1>9, <1>11

-----------------------------------------------------------------------------
(* One lemma per part of the invariant, one step per action. *)

\* The world stays, and native tags stay tags.
LEMMA NameStep ==
  ASSUME NameInv, PairInv, Next
  PROVE  NameInv'
<1>1. ASSUME NEW g \in Games, Identify(g) PROVE NameInv'
  <2>1. PlannedTag(g) \in Tags
    <3>1. StateTags(g) \subseteq Tags BY PairInv DEF PairInv, StateTags, Payload, Whole, Files
    <3>2. QED
      BY <3>1, TagsAssumption, WorldsAssumption, NameInv DEF PlannedTag, NameInv, Plausible, lib
  <2>2. QED BY <1>1, <2>1, NameInv DEF Identify, NameInv
<1> USE NameInv DEF pairs, sram, idents, marks, history, NameInv
<1>2. ASSUME Start PROVE NameInv' BY <1>2 DEF Start, Idle
<1>3. ASSUME IdentifyRefuse PROVE NameInv' BY <1>3 DEF IdentifyRefuse, Refuse, Idle
<1>4. ASSUME Sync PROVE NameInv' BY <1>4 DEF Sync
<1>5. ASSUME ScanRefuse PROVE NameInv' BY <1>5 DEF ScanRefuse, Refuse, Idle
<1>6. ASSUME Scan PROVE NameInv' BY <1>6 DEF Scan
<1>7. ASSUME SyncEnd PROVE NameInv' BY <1>7 DEF SyncEnd, Idle
<1>8. ASSUME NEW g \in Games, StoreRefuse(g) PROVE NameInv'
  BY <1>8 DEF StoreRefuse, StoreGame, Refuse, Idle
<1>9. ASSUME NEW g \in Games, StoreOwner(g) PROVE NameInv'
  BY <1>9 DEF StoreOwner, StoreReady, StoreGame
<1>10. ASSUME NEW g \in Games, StoreSchema(g) PROVE NameInv'
  BY <1>10 DEF StoreSchema, StoreReady, StoreGame
<1>11. ASSUME NEW g \in Games, OlderEditor(g) PROVE NameInv' BY <1>11 DEF OlderEditor, Between
<1>12. ASSUME NEW p \in Packs, SkipPack(p) PROVE NameInv' BY <1>12 DEF SkipPack
<1>13. ASSUME NEW p \in Packs, NextPack(p) PROVE NameInv' BY <1>13 DEF NextPack
<1>14. ASSUME NEW i \in 1 .. MaxMenu, SramRefuse(i) PROVE NameInv'
  BY <1>14 DEF SramRefuse, SramAt, Refuse, Idle
<1>15. ASSUME NEW i \in 1 .. MaxMenu, SramSkip(i) PROVE NameInv'
  BY <1>15 DEF SramSkip, SramAt, Advance
<1>16. ASSUME NEW i \in 1 .. MaxMenu, SramRetain(i) PROVE NameInv' BY <1>16 DEF SramRetain, SramAt
<1>17. ASSUME NEW i \in 1 .. MaxMenu, SramReplace(i) PROVE NameInv'
  BY <1>17 DEF SramReplace, SramAt
<1>18. ASSUME NEW i \in 1 .. MaxMenu, SramMark(i) PROVE NameInv' BY <1>18 DEF SramMark, SramAt
<1>19. ASSUME RecoverRefuse PROVE NameInv' BY <1>19 DEF RecoverRefuse, Refuse, Idle
<1>20. ASSUME InstallData PROVE NameInv' BY <1>20 DEF InstallData, Go
<1>21. ASSUME InstallMeta PROVE NameInv' BY <1>21 DEF InstallMeta, Go
<1>22. ASSUME DropJournal PROVE NameInv' BY <1>22 DEF DropJournal, Record, Go
<1>23. ASSUME BackupData PROVE NameInv' BY <1>23 DEF BackupData, Go
<1>24. ASSUME BackupMeta PROVE NameInv' BY <1>24 DEF BackupMeta, Go
<1>25. ASSUME WriteJournal PROVE NameInv' BY <1>25 DEF WriteJournal, Go
<1>26. ASSUME StateSkip PROVE NameInv' BY <1>26 DEF StateSkip, AtState
<1>27. ASSUME StateRecover PROVE NameInv' BY <1>27 DEF StateRecover, AtState, Recover
<1>28. ASSUME StateRefuse PROVE NameInv' BY <1>28 DEF StateRefuse, AtState, Refuse, Idle
<1>29. ASSUME StateKeep PROVE NameInv' BY <1>29 DEF StateKeep, AtState, Record
<1>30. ASSUME StateImport PROVE NameInv' BY <1>30 DEF StateImport, AtState, Prepare
<1>31. ASSUME MigrateLocks PROVE NameInv' BY <1>31 DEF MigrateLocks, Go
<1>32. ASSUME WriteManifest PROVE NameInv' BY <1>32 DEF WriteManifest, Go
<1>33. ASSUME Finish PROVE NameInv' BY <1>33 DEF Finish, Idle
<1>34. ASSUME NEW f \in Files, StoreRecover(f) PROVE NameInv'
  BY <1>34 DEF StoreRecover, StoreGame, Recover
<1>35. ASSUME NEW f \in Files, StoreRetag(f) PROVE NameInv'
  BY <1>35 DEF StoreRetag, StoreGame, Prepare
<1>36. ASSUME NEW f \in Files, PlayCanonical(f) PROVE NameInv' BY <1>36 DEF PlayCanonical, Between
<1>37. ASSUME NEW f \in Files, Delete(f) PROVE NameInv' BY <1>37 DEF Delete, Between
<1>38. ASSUME NEW k \in (1 .. MaxMenu) \X Slots, PlayLegacy(k) PROVE NameInv'
  BY <1>38 DEF PlayLegacy, Between
<1>39. ASSUME Stop PROVE NameInv' BY <1>39 DEF Stop, Idle
<1>40. ASSUME StopInCopy PROVE NameInv' BY <1>40 DEF StopInCopy, Idle
<1>41. QED BY <1>1, <1>2, <1>3, <1>4, <1>5, <1>6, <1>7, <1>8, <1>9, <1>10, <1>11, <1>12, <1>13,
   <1>14, <1>15, <1>16, <1>17, <1>18, <1>19, <1>20, <1>21, <1>22, <1>23, <1>24, <1>25, <1>26,
   <1>27, <1>28, <1>29, <1>30, <1>31, <1>32, <1>33, <1>34, <1>35, <1>36, <1>37, <1>38, <1>39,
   <1>40 DEF Next

\* No legacy state is from the future.
LEMMA FromStep ==
  ASSUME NameInv, FromInv, Next
  PROVE  FromInv'
<1>1. ASSUME NEW f \in Files, PlayCanonical(f) PROVE FromInv'
  <2>1. clock' = clock + 1 /\ from' = from BY <1>1 DEF PlayCanonical
  <2>2. clock \in Nat /\ clock' \in Nat BY <2>1, FromInv DEF FromInv
  <2>3. ASSUME NEW d \in Packs \cup {Live}, NEW j \in (1 .. MaxMenu) \X Slots,
               from[d][j] # None
        PROVE  from[d][j].at <= clock'
    <3>1. from[d][j] \in Payload /\ from[d][j].at <= clock BY <2>3, FromInv DEF FromInv
    <3>2. QED BY <2>1, <2>2, <3>1 DEF Payload
  <2>4. QED BY <2>1, <2>2, <2>3, FromInv DEF FromInv
<1>2. ASSUME NEW k \in (1 .. MaxMenu) \X Slots, PlayLegacy(k) PROVE FromInv'
  <2> DEFINE item == Item(world.active, Position(k))
             new == [tag |-> item.tag, of |-> item.of, at |-> clock + 1]
  <2>1. /\ k \in Keys(world.active) /\ world.active # None /\ item.game
        /\ from' = [from EXCEPT ![Live][k] = new] /\ clock' = clock + 1
    BY <1>2 DEF PlayLegacy
  <2>2. world.active \in Packs /\ k[1] \in 1 .. Len(Menu(world.active))
    BY <2>1, WorldsAssumption, NameInv DEF NameInv, Plausible, Keys
  <2>3. item.tag \in Tags /\ item.of \in Games
    BY <2>1, <2>2, WorldsAssumption, NameInv
       DEF NameInv, Plausible, Item, Menu, Position
  <2>4. new \in Payload /\ new.at = clock + 1 /\ clock \in Nat
    BY <2>3, FromInv DEF Payload, FromInv
  <2> HIDE DEF new
  <2>5. from' \in [Packs \cup {Live} -> [(1 .. MaxMenu) \X Slots -> Payload \cup {None}]]
    BY <2>1, <2>4, FromInv DEF FromInv
  <2>6. ASSUME NEW d \in Packs \cup {Live}, NEW j \in (1 .. MaxMenu) \X Slots,
               from'[d][j] # None
        PROVE  from'[d][j].at <= clock'
    <3>1. from'[d][j] = IF d = Live /\ j = k THEN new ELSE from[d][j]
      BY <2>1, FromInv DEF FromInv
    <3>2. CASE d = Live /\ j = k BY <2>1, <2>4, <3>1, <3>2
    <3>3. CASE ~(d = Live /\ j = k)
      <4>1. from[d][j] \in Payload /\ from[d][j].at <= clock
        BY <2>6, <3>1, <3>3, FromInv DEF FromInv
      <4>2. QED BY <2>1, <2>4, <3>1, <3>3, <4>1 DEF Payload
    <3>4. QED BY <3>2, <3>3
  <2>7. clock' \in Nat BY <2>1, <2>4
  <2>8. QED BY <2>5, <2>6, <2>7 DEF FromInv
<1> USE FromInv DEF pairs, sram, idents, marks, history, FromInv
<1>3. ASSUME Start PROVE FromInv' BY <1>3 DEF Start, Idle
<1>4. ASSUME IdentifyRefuse PROVE FromInv' BY <1>4 DEF IdentifyRefuse, Refuse, Idle
<1>5. ASSUME Sync PROVE FromInv' BY <1>5 DEF Sync
<1>6. ASSUME ScanRefuse PROVE FromInv' BY <1>6 DEF ScanRefuse, Refuse, Idle
<1>7. ASSUME Scan PROVE FromInv' BY <1>7 DEF Scan
<1>8. ASSUME SyncEnd PROVE FromInv' BY <1>8 DEF SyncEnd, Idle
<1>9. ASSUME NEW g \in Games, Identify(g) PROVE FromInv' BY <1>9 DEF Identify
<1>10. ASSUME NEW g \in Games, StoreRefuse(g) PROVE FromInv'
  BY <1>10 DEF StoreRefuse, StoreGame, Refuse, Idle
<1>11. ASSUME NEW g \in Games, StoreOwner(g) PROVE FromInv'
  BY <1>11 DEF StoreOwner, StoreReady, StoreGame
<1>12. ASSUME NEW g \in Games, StoreSchema(g) PROVE FromInv'
  BY <1>12 DEF StoreSchema, StoreReady, StoreGame
<1>13. ASSUME NEW g \in Games, OlderEditor(g) PROVE FromInv' BY <1>13 DEF OlderEditor, Between
<1>14. ASSUME NEW p \in Packs, SkipPack(p) PROVE FromInv' BY <1>14 DEF SkipPack
<1>15. ASSUME NEW p \in Packs, NextPack(p) PROVE FromInv' BY <1>15 DEF NextPack
<1>16. ASSUME NEW i \in 1 .. MaxMenu, SramRefuse(i) PROVE FromInv'
  BY <1>16 DEF SramRefuse, SramAt, Refuse, Idle
<1>17. ASSUME NEW i \in 1 .. MaxMenu, SramSkip(i) PROVE FromInv'
  BY <1>17 DEF SramSkip, SramAt, Advance
<1>18. ASSUME NEW i \in 1 .. MaxMenu, SramRetain(i) PROVE FromInv' BY <1>18 DEF SramRetain, SramAt
<1>19. ASSUME NEW i \in 1 .. MaxMenu, SramReplace(i) PROVE FromInv'
  BY <1>19 DEF SramReplace, SramAt
<1>20. ASSUME NEW i \in 1 .. MaxMenu, SramMark(i) PROVE FromInv' BY <1>20 DEF SramMark, SramAt
<1>21. ASSUME RecoverRefuse PROVE FromInv' BY <1>21 DEF RecoverRefuse, Refuse, Idle
<1>22. ASSUME InstallData PROVE FromInv' BY <1>22 DEF InstallData, Go
<1>23. ASSUME InstallMeta PROVE FromInv' BY <1>23 DEF InstallMeta, Go
<1>24. ASSUME DropJournal PROVE FromInv' BY <1>24 DEF DropJournal, Record, Go
<1>25. ASSUME BackupData PROVE FromInv' BY <1>25 DEF BackupData, Go
<1>26. ASSUME BackupMeta PROVE FromInv' BY <1>26 DEF BackupMeta, Go
<1>27. ASSUME WriteJournal PROVE FromInv' BY <1>27 DEF WriteJournal, Go
<1>28. ASSUME StateSkip PROVE FromInv' BY <1>28 DEF StateSkip, AtState
<1>29. ASSUME StateRecover PROVE FromInv' BY <1>29 DEF StateRecover, AtState, Recover
<1>30. ASSUME StateRefuse PROVE FromInv' BY <1>30 DEF StateRefuse, AtState, Refuse, Idle
<1>31. ASSUME StateKeep PROVE FromInv' BY <1>31 DEF StateKeep, AtState, Record
<1>32. ASSUME StateImport PROVE FromInv' BY <1>32 DEF StateImport, AtState, Prepare
<1>33. ASSUME MigrateLocks PROVE FromInv' BY <1>33 DEF MigrateLocks, Go
<1>34. ASSUME WriteManifest PROVE FromInv' BY <1>34 DEF WriteManifest, Go
<1>35. ASSUME Finish PROVE FromInv' BY <1>35 DEF Finish, Idle
<1>36. ASSUME NEW f \in Files, StoreRecover(f) PROVE FromInv'
  BY <1>36 DEF StoreRecover, StoreGame, Recover
<1>37. ASSUME NEW f \in Files, StoreRetag(f) PROVE FromInv'
  BY <1>37 DEF StoreRetag, StoreGame, Prepare
<1>38. ASSUME NEW f \in Files, Delete(f) PROVE FromInv' BY <1>38 DEF Delete, Between
<1>39. ASSUME Stop PROVE FromInv' BY <1>39 DEF Stop, Idle
<1>40. ASSUME StopInCopy PROVE FromInv' BY <1>40 DEF StopInCopy, Idle
<1>41. QED BY <1>1, <1>2, <1>3, <1>4, <1>5, <1>6, <1>7, <1>8, <1>9, <1>10, <1>11, <1>12, <1>13,
   <1>14, <1>15, <1>16, <1>17, <1>18, <1>19, <1>20, <1>21, <1>22, <1>23, <1>24, <1>25, <1>26,
   <1>27, <1>28, <1>29, <1>30, <1>31, <1>32, <1>33, <1>34, <1>35, <1>36, <1>37, <1>38, <1>39,
   <1>40 DEF Next

\* States, their metadata and journals keep their shape.
LEMMA PairStep ==
  ASSUME NameInv, FromInv, PairInv, RunInv, Next
  PROVE  PairInv'
<1>1. ASSUME InstallData PROVE PairInv'
  <2>1. run.file \in Files /\ journal[run.file] # None
    BY <1>1, RunInv DEF InstallData, RunInv, PairSteps, Recovering
  <2>2. QED BY <1>1, <2>1, PairInv DEF InstallData, PairInv, Journal
<1>2. ASSUME InstallMeta PROVE PairInv'
  <2>1. run.file \in Files /\ journal[run.file] # None
    BY <1>2, RunInv DEF InstallMeta, RunInv, PairSteps, Recovering
  <2>2. QED BY <1>2, <2>1, PairInv DEF InstallMeta, PairInv, Journal, Metadata
<1>3. ASSUME WriteJournal PROVE PairInv'
  <2>1. run.file \in Files /\ run.payload \in Payload
    BY <1>3, RunInv DEF WriteJournal, RunInv, PairSteps
  <2>2. MetaDigest(run.file) \in Payload \cup {None}
    BY <2>1, PairInv DEF MetaDigest, PairInv, Metadata
  <2>3. clock \in Nat BY FromInv DEF FromInv
  <2>4. QED BY <1>3, <2>1, <2>2, <2>3, PairInv DEF WriteJournal, PairInv, Journal
<1>4. ASSUME NEW f \in Files, PlayCanonical(f) PROVE PairInv'
  <2>1. [tag |-> RegionTag(f[1]), of |-> f[1], at |-> clock + 1] \in Payload
    BY RegionTyped, FromInv DEF Files, Payload, FromInv
  <2>2. QED BY <1>4, <2>1, PairInv, FromInv DEF PlayCanonical, PairInv, FromInv, Metadata
<1> USE PairInv DEF pairs, sram, idents, marks, history, PairInv, Metadata, Journal
<1>5. ASSUME Start PROVE PairInv' BY <1>5 DEF Start, Idle
<1>6. ASSUME IdentifyRefuse PROVE PairInv' BY <1>6 DEF IdentifyRefuse, Refuse, Idle
<1>7. ASSUME Sync PROVE PairInv' BY <1>7 DEF Sync
<1>8. ASSUME ScanRefuse PROVE PairInv' BY <1>8 DEF ScanRefuse, Refuse, Idle
<1>9. ASSUME Scan PROVE PairInv' BY <1>9 DEF Scan
<1>10. ASSUME SyncEnd PROVE PairInv' BY <1>10 DEF SyncEnd, Idle
<1>11. ASSUME NEW g \in Games, Identify(g) PROVE PairInv' BY <1>11 DEF Identify
<1>12. ASSUME NEW g \in Games, StoreRefuse(g) PROVE PairInv'
  BY <1>12 DEF StoreRefuse, StoreGame, Refuse, Idle
<1>13. ASSUME NEW g \in Games, StoreOwner(g) PROVE PairInv'
  BY <1>13 DEF StoreOwner, StoreReady, StoreGame
<1>14. ASSUME NEW g \in Games, StoreSchema(g) PROVE PairInv'
  BY <1>14 DEF StoreSchema, StoreReady, StoreGame
<1>15. ASSUME NEW g \in Games, OlderEditor(g) PROVE PairInv' BY <1>15 DEF OlderEditor, Between
<1>16. ASSUME NEW p \in Packs, SkipPack(p) PROVE PairInv' BY <1>16 DEF SkipPack
<1>17. ASSUME NEW p \in Packs, NextPack(p) PROVE PairInv' BY <1>17 DEF NextPack
<1>18. ASSUME NEW i \in 1 .. MaxMenu, SramRefuse(i) PROVE PairInv'
  BY <1>18 DEF SramRefuse, SramAt, Refuse, Idle
<1>19. ASSUME NEW i \in 1 .. MaxMenu, SramSkip(i) PROVE PairInv'
  BY <1>19 DEF SramSkip, SramAt, Advance
<1>20. ASSUME NEW i \in 1 .. MaxMenu, SramRetain(i) PROVE PairInv' BY <1>20 DEF SramRetain, SramAt
<1>21. ASSUME NEW i \in 1 .. MaxMenu, SramReplace(i) PROVE PairInv'
  BY <1>21 DEF SramReplace, SramAt
<1>22. ASSUME NEW i \in 1 .. MaxMenu, SramMark(i) PROVE PairInv' BY <1>22 DEF SramMark, SramAt
<1>23. ASSUME RecoverRefuse PROVE PairInv' BY <1>23 DEF RecoverRefuse, Refuse, Idle
<1>24. ASSUME DropJournal PROVE PairInv' BY <1>24 DEF DropJournal, Record, Go
<1>25. ASSUME BackupData PROVE PairInv' BY <1>25 DEF BackupData, Go
<1>26. ASSUME BackupMeta PROVE PairInv' BY <1>26 DEF BackupMeta, Go
<1>27. ASSUME StateSkip PROVE PairInv' BY <1>27 DEF StateSkip, AtState
<1>28. ASSUME StateRecover PROVE PairInv' BY <1>28 DEF StateRecover, AtState, Recover
<1>29. ASSUME StateRefuse PROVE PairInv' BY <1>29 DEF StateRefuse, AtState, Refuse, Idle
<1>30. ASSUME StateKeep PROVE PairInv' BY <1>30 DEF StateKeep, AtState, Record
<1>31. ASSUME StateImport PROVE PairInv' BY <1>31 DEF StateImport, AtState, Prepare
<1>32. ASSUME MigrateLocks PROVE PairInv' BY <1>32 DEF MigrateLocks, Go
<1>33. ASSUME WriteManifest PROVE PairInv' BY <1>33 DEF WriteManifest, Go
<1>34. ASSUME Finish PROVE PairInv' BY <1>34 DEF Finish, Idle
<1>35. ASSUME NEW f \in Files, StoreRecover(f) PROVE PairInv'
  BY <1>35 DEF StoreRecover, StoreGame, Recover
<1>36. ASSUME NEW f \in Files, StoreRetag(f) PROVE PairInv'
  BY <1>36 DEF StoreRetag, StoreGame, Prepare
<1>37. ASSUME NEW f \in Files, Delete(f) PROVE PairInv' BY <1>37 DEF Delete, Between
<1>38. ASSUME NEW k \in (1 .. MaxMenu) \X Slots, PlayLegacy(k) PROVE PairInv'
  BY <1>38 DEF PlayLegacy, Between
<1>39. ASSUME Stop PROVE PairInv' BY <1>39 DEF Stop, Idle
<1>40. ASSUME StopInCopy PROVE PairInv' BY <1>40 DEF StopInCopy, Idle
<1>41. QED BY <1>1, <1>2, <1>3, <1>4, <1>5, <1>6, <1>7, <1>8, <1>9, <1>10, <1>11, <1>12, <1>13,
   <1>14, <1>15, <1>16, <1>17, <1>18, <1>19, <1>20, <1>21, <1>22, <1>23, <1>24, <1>25, <1>26,
   <1>27, <1>28, <1>29, <1>30, <1>31, <1>32, <1>33, <1>34, <1>35, <1>36, <1>37, <1>38, <1>39,
   <1>40 DEF Next

\* The run is where the code can be.
LEMMA RunStep ==
  ASSUME NameInv, FromInv, PairInv, RunInv, Next
  PROVE  RunInv'
<1>1. ASSUME InstallData PROVE RunInv'
  <2> DEFINE f == run.file
  <2>1. f \in Files /\ journal[f] # None /\ run.pc = "recover"
    BY <1>1, RunInv DEF InstallData, RunInv, PairSteps, Recovering
  <2>2. data'[f] = journal[f].new /\ journal'[f] = [journal[f] EXCEPT !.staged = @ \ {"data"}]
    BY <1>1, <2>1, PairInv DEF InstallData, PairInv
  <2>3. journal'[f].new = journal[f].new /\ journal'[f] # None
    BY <2>1, <2>2, PairInv, NamesAssumption DEF PairInv, Journal
  <2>4. /\ DOMAIN run' = DOMAIN run /\ run'.pc = "recoverMeta" /\ run'.file = f
        /\ run'.then = run.then /\ run'.pack = run.pack
    BY <1>1, RunInv DEF InstallData, Go, RunInv, Idle
  <2>5. QED BY <2>1, <2>2, <2>3, <2>4, RunInv DEF RunInv, Pcs, PackSteps, PairSteps, Recovering
<1>2. ASSUME InstallMeta PROVE RunInv'
  <2> DEFINE f == run.file
  <2>1. f \in Files /\ journal[f] # None /\ run.pc = "recoverMeta" /\ data[f] = journal[f].new
    BY <1>2, RunInv DEF InstallMeta, RunInv, PairSteps, Recovering
  <2>2. data' = data /\ journal'[f] = [journal[f] EXCEPT !.staged = {}]
    BY <1>2, <2>1, PairInv DEF InstallMeta, PairInv
  <2>3. journal'[f].new = journal[f].new /\ journal'[f] # None
    BY <2>1, <2>2, PairInv, NamesAssumption DEF PairInv, Journal
  <2>4. /\ DOMAIN run' = DOMAIN run /\ run'.pc = "recoverEnd" /\ run'.file = f
        /\ run'.then = run.then /\ run'.pack = run.pack
    BY <1>2, RunInv DEF InstallMeta, Go, RunInv, Idle
  <2>5. QED BY <2>1, <2>2, <2>3, <2>4, RunInv DEF RunInv, Pcs, PackSteps, PairSteps, Recovering
<1>3. ASSUME DropJournal PROVE RunInv'
  <2>1. run.pc = "recoverEnd" /\ run.then \in {"state", "record", "store"}
    BY <1>3, RunInv DEF DropJournal, RunInv, PairSteps
  <2>2. DOMAIN run' = DOMAIN run /\ run'.pc \in {"state", "store"} /\ run'.then = run.then
        /\ (run'.pc = "state" => run.then # "store") /\ run'.pack = run.pack
    BY <1>3, <2>1, RunInv DEF DropJournal, Record, Go, RunInv, Idle
  <2>3. QED BY <2>1, <2>2, RunInv DEF RunInv, Pcs, PackSteps, PairSteps, Recovering
<1>4. ASSUME WriteJournal PROVE RunInv'
  <2> DEFINE f == run.file
  <2>1. f \in Files /\ run.pc = "journal"
    BY <1>4, RunInv DEF WriteJournal, RunInv, PairSteps
  <2>2. journal'[f] = [oldData |-> data[f], oldMeta |-> MetaDigest(f), new |-> run.payload,
                       time |-> clock, staged |-> {"data", "meta"}]
    BY <1>4, <2>1, PairInv DEF WriteJournal, PairInv
  <2>3. journal'[f] # None
    <3>1. run.payload \in Payload BY <2>1, RunInv DEF RunInv
    <3>2. MetaDigest(f) \in Payload \cup {None}
      BY <2>1, PairInv DEF MetaDigest, PairInv, Metadata
    <3>3. data[f] \in Payload \cup {None} /\ clock \in Nat
      BY <2>1, PairInv, FromInv DEF PairInv, FromInv
    <3>4. journal'[f] \in Journal BY <2>2, <3>1, <3>2, <3>3 DEF Journal
    <3>5. QED BY <3>4, NamesAssumption
  <2>4. /\ DOMAIN run' = DOMAIN run /\ run'.pc = "recover" /\ run'.file = f
        /\ run'.then = run.then /\ run'.pack = run.pack
    BY <1>4, RunInv DEF WriteJournal, Go, RunInv, Idle
  <2>5. QED BY <2>1, <2>3, <2>4, RunInv DEF RunInv, Pcs, PackSteps, PairSteps, Recovering
<1>5. ASSUME NEW f \in Files, StoreRetag(f) PROVE RunInv'
  <2>1. data[f] \in Payload BY <1>5, PairInv DEF StoreRetag, NeedsRetag, PairInv
  <2>2. RegionTag(f[1]) \in Tags BY RegionTyped, NameInv DEF Files
  <2>3. [data[f] EXCEPT !.tag = RegionTag(f[1])] \in Payload BY <2>1, <2>2 DEF Payload
  <2>4. /\ DOMAIN run' = DOMAIN run /\ run'.pc = "backup" /\ run'.file = f /\ run'.then = "store"
        /\ run'.payload = [data[f] EXCEPT !.tag = RegionTag(f[1])]
    BY <1>5, RunInv DEF StoreRetag, Prepare, RunInv, Idle
  <2>5. QED BY <2>3, <2>4, RunInv DEF RunInv, Pcs, PackSteps, PairSteps, Recovering
<1> USE RunInv, PairInv DEF pairs, sram, idents, marks, history, RunInv, Pcs, PackSteps,
   PairSteps, Recovering
<1>6. ASSUME Start PROVE RunInv' BY <1>6 DEF Start, Idle
<1>7. ASSUME IdentifyRefuse PROVE RunInv' BY <1>7 DEF IdentifyRefuse, Refuse, Idle
<1>8. ASSUME Sync PROVE RunInv' BY <1>8 DEF Sync
<1>9. ASSUME ScanRefuse PROVE RunInv' BY <1>9 DEF ScanRefuse, Refuse, Idle
<1>10. ASSUME Scan PROVE RunInv' BY <1>10 DEF Scan
<1>11. ASSUME SyncEnd PROVE RunInv' BY <1>11 DEF SyncEnd, Idle
<1>12. ASSUME NEW g \in Games, Identify(g) PROVE RunInv' BY <1>12 DEF Identify
<1>13. ASSUME NEW g \in Games, StoreRefuse(g) PROVE RunInv'
  BY <1>13 DEF StoreRefuse, StoreGame, Refuse, Idle
<1>14. ASSUME NEW g \in Games, StoreOwner(g) PROVE RunInv'
  BY <1>14 DEF StoreOwner, StoreReady, StoreGame
<1>15. ASSUME NEW g \in Games, StoreSchema(g) PROVE RunInv'
  BY <1>15 DEF StoreSchema, StoreReady, StoreGame
<1>16. ASSUME NEW g \in Games, OlderEditor(g) PROVE RunInv' BY <1>16 DEF OlderEditor, Between
<1>17. ASSUME NEW p \in Packs, SkipPack(p) PROVE RunInv' BY <1>17 DEF SkipPack
<1>18. ASSUME NEW p \in Packs, NextPack(p) PROVE RunInv' BY <1>18 DEF NextPack
<1>19. ASSUME NEW i \in 1 .. MaxMenu, SramRefuse(i) PROVE RunInv'
  BY <1>19 DEF SramRefuse, SramAt, Refuse, Idle
<1>20. ASSUME NEW i \in 1 .. MaxMenu, SramSkip(i) PROVE RunInv'
  BY <1>20 DEF SramSkip, SramAt, Advance
<1>21. ASSUME NEW i \in 1 .. MaxMenu, SramRetain(i) PROVE RunInv' BY <1>21 DEF SramRetain, SramAt
<1>22. ASSUME NEW i \in 1 .. MaxMenu, SramReplace(i) PROVE RunInv'
  BY <1>22 DEF SramReplace, SramAt
<1>23. ASSUME NEW i \in 1 .. MaxMenu, SramMark(i) PROVE RunInv' BY <1>23 DEF SramMark, SramAt
<1>24. ASSUME RecoverRefuse PROVE RunInv' BY <1>24 DEF RecoverRefuse, Refuse, Idle
<1>25. ASSUME BackupData PROVE RunInv' BY <1>25 DEF BackupData, Go
<1>26. ASSUME BackupMeta PROVE RunInv' BY <1>26 DEF BackupMeta, Go
<1>27. ASSUME StateSkip PROVE RunInv' BY <1>27 DEF StateSkip, AtState
<1>28. ASSUME StateRecover PROVE RunInv'
  BY <1>28, SourceTyped, NameInv, FromInv DEF StateRecover, AtState, Recover
<1>29. ASSUME StateRefuse PROVE RunInv' BY <1>29 DEF StateRefuse, AtState, Refuse, Idle
<1>30. ASSUME StateKeep PROVE RunInv' BY <1>30 DEF StateKeep, AtState, Record
<1>31. ASSUME StateImport PROVE RunInv'
  BY <1>31, SourceTyped, NameInv, FromInv DEF StateImport, AtState, Prepare, Payload
<1>32. ASSUME MigrateLocks PROVE RunInv' BY <1>32 DEF MigrateLocks, Go
<1>33. ASSUME WriteManifest PROVE RunInv' BY <1>33 DEF WriteManifest, Go
<1>34. ASSUME Finish PROVE RunInv' BY <1>34 DEF Finish, Idle
<1>35. ASSUME NEW f \in Files, StoreRecover(f) PROVE RunInv'
  BY <1>35 DEF StoreRecover, StoreGame, Recover
<1>36. ASSUME NEW f \in Files, PlayCanonical(f) PROVE RunInv' BY <1>36 DEF PlayCanonical, Between
<1>37. ASSUME NEW f \in Files, Delete(f) PROVE RunInv' BY <1>37 DEF Delete, Between
<1>38. ASSUME NEW k \in (1 .. MaxMenu) \X Slots, PlayLegacy(k) PROVE RunInv'
  BY <1>38 DEF PlayLegacy, Between
<1>39. ASSUME Stop PROVE RunInv' BY <1>39 DEF Stop, Idle
<1>40. ASSUME StopInCopy PROVE RunInv' BY <1>40 DEF StopInCopy, Idle
<1>41. QED BY <1>1, <1>2, <1>3, <1>4, <1>5, <1>6, <1>7, <1>8, <1>9, <1>10, <1>11, <1>12, <1>13,
   <1>14, <1>15, <1>16, <1>17, <1>18, <1>19, <1>20, <1>21, <1>22, <1>23, <1>24, <1>25, <1>26,
   <1>27, <1>28, <1>29, <1>30, <1>31, <1>32, <1>33, <1>34, <1>35, <1>36, <1>37, <1>38, <1>39,
   <1>40 DEF Next

\* Times only grow: a run never has an older state to install than the one in place.
LEMMA TimeStep ==
  ASSUME NameInv, FromInv, PairInv, RunInv, TimeInv, Next
  PROVE  TimeInv'
<1>1. ASSUME InstallData PROVE TimeInv'
  <2> DEFINE f == run.file
  <2>1. f \in Files /\ journal[f] \in Journal /\ run.pc = "recover"
    BY <1>1, RunInv, PairInv DEF InstallData, RunInv, PairInv, PairSteps, Recovering
  <2>2. data' = [data EXCEPT ![f] = journal[f].new] /\ meta' = meta /\ clock' = clock
        /\ journal' = [journal EXCEPT ![f].staged = @ \ {"data"}] /\ run'.pc = "recoverMeta"
    BY <1>1, RunInv DEF InstallData, Go, history, RunInv, Idle
  <2>3. \A e \in Files : e # f => journal'[e] = journal[e] /\ data'[e] = data[e]
    BY <2>2, PairInv DEF PairInv
  <2>4. /\ data'[f] = journal[f].new /\ journal[f] # None /\ journal'[f].new = journal[f].new
        /\ journal'[f].oldData = journal[f].oldData /\ journal'[f].time = journal[f].time
    BY <2>1, <2>2, PairInv, NamesAssumption DEF PairInv, Journal
  <2>5. QED BY <2>1, <2>2, <2>3, <2>4, TimeInv DEF TimeInv
<1>2. ASSUME InstallMeta PROVE TimeInv'
  <2> DEFINE f == run.file
             new == [digest |-> journal[f].new, time |-> journal[f].time]
  <2>1. f \in Files /\ journal[f] \in Journal /\ journal[f] # None /\ run.pc = "recoverMeta"
    BY <1>2, RunInv, PairInv DEF InstallMeta, RunInv, PairInv, PairSteps, Recovering
  <2>2. meta' \in {meta, [meta EXCEPT ![f] = new]} /\ data' = data /\ clock' = clock
        /\ journal' = [journal EXCEPT ![f].staged = {}] /\ run'.pc = "recoverEnd"
    BY <1>2, RunInv DEF InstallMeta, Go, history, RunInv, Idle
  <2>3. \A e \in Files : e # f => journal'[e] = journal[e] /\ meta'[e] = meta[e]
    BY <2>2, PairInv DEF PairInv
  <2>4. /\ meta'[f] \in {meta[f], new} /\ journal'[f].new = journal[f].new
        /\ journal'[f].oldData = journal[f].oldData /\ journal'[f].time = journal[f].time
    BY <2>1, <2>2, PairInv DEF PairInv, Journal
  <2>5. new.time >= new.digest.at BY <2>1, TimeInv DEF TimeInv, Journal, Payload
  <2>6. meta'[f] # None => meta'[f].time >= meta'[f].digest.at
    BY <2>1, <2>4, <2>5, TimeInv DEF TimeInv
  <2>7. QED BY <2>1, <2>2, <2>3, <2>4, <2>6, TimeInv DEF TimeInv
<1>3. ASSUME DropJournal PROVE TimeInv'
  <2>1. run.pc = "recoverEnd" /\ run'.pc \in {"state", "store"}
    BY <1>3, RunInv DEF DropJournal, Record, Go, RunInv, PairSteps, Idle
  <2>2. \A e \in Files : journal'[e] \in {journal[e], None}
    BY <1>3, PairInv DEF DropJournal, PairInv
  <2>3. data' = data /\ meta' = meta /\ clock' = clock BY <1>3 DEF DropJournal, history
  <2>4. QED BY <2>1, <2>2, <2>3, TimeInv DEF TimeInv
<1>4. ASSUME BackupData PROVE TimeInv'
  <2>1. run.pc = "backup" /\ run'.payload = run.payload /\ run'.file = run.file
    BY <1>4, RunInv DEF BackupData, Go, RunInv, Idle
  <2>2. data' = data /\ meta' = meta /\ journal' = journal /\ clock' = clock
    BY <1>4 DEF BackupData, history
  <2>3. QED BY <2>1, <2>2, TimeInv DEF TimeInv
<1>5. ASSUME BackupMeta PROVE TimeInv'
  <2>1. run.pc = "backupMeta" /\ run'.payload = run.payload /\ run'.file = run.file
    BY <1>5, RunInv DEF BackupMeta, Go, RunInv, Idle
  <2>2. data' = data /\ meta' = meta /\ journal' = journal /\ clock' = clock
    BY <1>5 DEF BackupMeta, history
  <2>3. QED BY <2>1, <2>2, TimeInv DEF TimeInv
<1>6. ASSUME WriteJournal PROVE TimeInv'
  <2> DEFINE f == run.file
             j == [oldData |-> data[f], oldMeta |-> MetaDigest(f), new |-> run.payload,
                   time |-> clock, staged |-> {"data", "meta"}]
  <2>1. run.pc = "journal" /\ run'.pc = "recover" /\ f \in Files
    BY <1>6, RunInv DEF WriteJournal, Go, RunInv, Idle, PairSteps
  <2>2. data' = data /\ meta' = meta /\ clock' = clock BY <1>6 DEF WriteJournal, history
  <2>3. journal' = [journal EXCEPT ![f] = j] BY <1>6 DEF WriteJournal
  <2>4. \A e \in Files : journal'[e] = IF e = f THEN j ELSE journal[e]
    BY <2>1, <2>3, PairInv DEF PairInv
  <2>5. j.new = run.payload /\ j.time = clock /\ j.oldData = data[f] OBVIOUS
  <2> HIDE DEF j
  <2>6. QED BY <2>1, <2>2, <2>4, <2>5, TimeInv DEF TimeInv
<1>7. ASSUME StateImport PROVE TimeInv'
  <2>1. Source \in Payload /\ Source.at <= clock /\ Target \in Files /\ TagFor(Source) \in Tags
    BY <1>7, SourceTyped, RunInv DEF StateImport, AtState, RunInv, PackSteps
  <2>2. data[Target] # None => data[Target].at <= Source.at
    <3>1. CASE Retags(Target) BY <2>1, <3>1 DEF Retags, Payload
    <3>2. CASE Imports(Target)
      <4>1. ASSUME data[Target] # None PROVE data[Target].at <= Source.at
        <5>1. Whole(Target) BY <1>7, <4>1 DEF StateImport, InPlaceRefused
        <5>2. meta[Target] \in Metadata /\ meta[Target].digest = data[Target]
          BY <2>1, <5>1, PairInv DEF Whole, PairInv
        <5>3. meta[Target].time >= data[Target].at BY <2>1, <5>1, <5>2, TimeInv DEF Whole, TimeInv
        <5>4. Source.at > meta[Target].time BY <3>2, <4>1 DEF Imports
        <5>5. QED BY <2>1, <5>2, <5>3, <5>4 DEF Payload, Metadata
      <4>2. QED BY <4>1
    <3>3. QED BY <1>7, <3>1, <3>2 DEF StateImport
  <2>3. /\ run'.pc = "backup" /\ run'.file = Target
        /\ run'.payload = [Source EXCEPT !.tag = TagFor(Source)]
    BY <1>7, RunInv DEF StateImport, Prepare, RunInv, Idle
  <2>4. run'.payload.at = Source.at BY <2>1, <2>3 DEF Payload
  <2>5. data' = data /\ meta' = meta /\ journal' = journal /\ clock' = clock
    BY <1>7 DEF StateImport, pairs, history
  <2>6. QED BY <2>1, <2>2, <2>3, <2>4, <2>5, TimeInv DEF TimeInv
<1>8. ASSUME NEW f \in Files, StoreRetag(f) PROVE TimeInv'
  <2>1. data[f] \in Payload /\ data[f].at <= clock
    BY <1>8, PairInv, TimeInv DEF StoreRetag, NeedsRetag, PairInv, TimeInv
  <2>2. /\ run'.pc = "backup" /\ run'.file = f
        /\ run'.payload = [data[f] EXCEPT !.tag = RegionTag(f[1])]
    BY <1>8, RunInv DEF StoreRetag, Prepare, RunInv, Idle
  <2>3. run'.payload.at = data[f].at BY <2>1, <2>2 DEF Payload
  <2>4. data' = data /\ meta' = meta /\ journal' = journal /\ clock' = clock
    BY <1>8 DEF StoreRetag, pairs, history
  <2>5. QED BY <2>1, <2>2, <2>3, <2>4, TimeInv DEF TimeInv, Payload
<1>9. ASSUME NEW f \in Files, PlayCanonical(f) PROVE TimeInv'
  <2> DEFINE new == [tag |-> RegionTag(f[1]), of |-> f[1], at |-> clock + 1]
  <2>1. clock \in Nat /\ clock' = clock + 1 /\ journal' = journal /\ run' = run
        /\ run.pc = "idle"
    BY <1>9, FromInv DEF PlayCanonical, FromInv, Between
  <2>2. /\ data' = [data EXCEPT ![f] = new]
        /\ meta' = [meta EXCEPT ![f] = [digest |-> data'[f], time |-> clock + 1]]
    BY <1>9 DEF PlayCanonical
  <2>3. data'[f] = new /\ \A e \in Files : e # f => data'[e] = data[e] BY <2>2, PairInv DEF PairInv
  <2>4. /\ meta'[f].time = clock + 1 /\ meta'[f].digest = new
        /\ \A e \in Files : e # f => meta'[e] = meta[e]
    BY <2>2, <2>3, PairInv DEF PairInv
  <2>5. new.at = clock + 1 OBVIOUS
  <2> HIDE DEF new
  <2>6. ASSUME NEW e \in Files
        PROVE  /\ data'[e] # None => data'[e].at <= clock'
               /\ meta'[e] # None => meta'[e].time >= meta'[e].digest.at
               /\ journal'[e] # None => journal'[e].new.at <= clock'
    <3>1. data[e] # None => data[e] \in Payload /\ data[e].at <= clock
      BY PairInv, TimeInv DEF PairInv, TimeInv
    <3>2. journal[e] # None => journal[e] \in Journal /\ journal[e].new.at <= clock
      BY PairInv, TimeInv DEF PairInv, TimeInv
    <3>3. data'[e] # None => data'[e].at <= clock'
      BY <2>1, <2>5, <2>3, <3>1 DEF Payload
    <3>4. meta'[e] # None => meta'[e].time >= meta'[e].digest.at
      BY <2>1, <2>5, <2>4, TimeInv DEF TimeInv
    <3>5. journal'[e] # None => journal'[e].new.at <= clock'
      BY <2>1, <3>2 DEF Journal, Payload
    <3>6. QED BY <3>3, <3>4, <3>5
  <2>7. QED BY <2>1, <2>6, TimeInv DEF TimeInv
<1>10. ASSUME NEW f \in Files, Delete(f) PROVE TimeInv'
  <2>1. \A e \in Files : data'[e] \in {data[e], None} /\ meta'[e] \in {meta[e], None}
    BY <1>10, PairInv DEF Delete, PairInv
  <2>2. journal' = journal /\ clock' = clock /\ run' = run /\ run.pc = "idle"
    BY <1>10 DEF Delete, history, Between
  <2>3. QED BY <2>1, <2>2, TimeInv DEF TimeInv
<1>11. ASSUME NEW k \in (1 .. MaxMenu) \X Slots, PlayLegacy(k) PROVE TimeInv'
  <2>1. clock \in Nat /\ clock' = clock + 1 /\ run' = run /\ run.pc = "idle"
        /\ data' = data /\ meta' = meta /\ journal' = journal
    BY <1>11, FromInv DEF PlayLegacy, FromInv, Between, pairs
  <2>2. ASSUME NEW e \in Files
        PROVE  /\ data'[e] # None => data'[e].at <= clock'
               /\ journal'[e] # None => journal'[e].new.at <= clock'
    <3>1. data[e] # None => data[e] \in Payload /\ data[e].at <= clock
      BY PairInv, TimeInv DEF PairInv, TimeInv
    <3>2. journal[e] # None => journal[e] \in Journal /\ journal[e].new.at <= clock
      BY PairInv, TimeInv DEF PairInv, TimeInv
    <3>3. QED BY <2>1, <3>1, <3>2 DEF Journal, Payload
  <2>3. QED BY <2>1, <2>2, TimeInv DEF TimeInv
<1> USE TimeInv DEF pairs, sram, idents, marks, history, TimeInv
<1>12. ASSUME Start PROVE TimeInv' BY <1>12 DEF Start, Idle
<1>13. ASSUME IdentifyRefuse PROVE TimeInv' BY <1>13 DEF IdentifyRefuse, Refuse, Idle
<1>14. ASSUME Sync PROVE TimeInv' BY <1>14 DEF Sync
<1>15. ASSUME ScanRefuse PROVE TimeInv' BY <1>15 DEF ScanRefuse, Refuse, Idle
<1>16. ASSUME Scan PROVE TimeInv' BY <1>16 DEF Scan
<1>17. ASSUME SyncEnd PROVE TimeInv' BY <1>17 DEF SyncEnd, Idle
<1>18. ASSUME NEW g \in Games, Identify(g) PROVE TimeInv' BY <1>18 DEF Identify
<1>19. ASSUME NEW g \in Games, StoreRefuse(g) PROVE TimeInv'
  BY <1>19 DEF StoreRefuse, StoreGame, Refuse, Idle
<1>20. ASSUME NEW g \in Games, StoreOwner(g) PROVE TimeInv'
  BY <1>20 DEF StoreOwner, StoreReady, StoreGame
<1>21. ASSUME NEW g \in Games, StoreSchema(g) PROVE TimeInv'
  BY <1>21 DEF StoreSchema, StoreReady, StoreGame
<1>22. ASSUME NEW g \in Games, OlderEditor(g) PROVE TimeInv' BY <1>22 DEF OlderEditor, Between
<1>23. ASSUME NEW p \in Packs, SkipPack(p) PROVE TimeInv' BY <1>23 DEF SkipPack
<1>24. ASSUME NEW p \in Packs, NextPack(p) PROVE TimeInv' BY <1>24 DEF NextPack
<1>25. ASSUME NEW i \in 1 .. MaxMenu, SramRefuse(i) PROVE TimeInv'
  BY <1>25 DEF SramRefuse, SramAt, Refuse, Idle
<1>26. ASSUME NEW i \in 1 .. MaxMenu, SramSkip(i) PROVE TimeInv'
  BY <1>26 DEF SramSkip, SramAt, Advance
<1>27. ASSUME NEW i \in 1 .. MaxMenu, SramRetain(i) PROVE TimeInv' BY <1>27 DEF SramRetain, SramAt
<1>28. ASSUME NEW i \in 1 .. MaxMenu, SramReplace(i) PROVE TimeInv'
  BY <1>28 DEF SramReplace, SramAt
<1>29. ASSUME NEW i \in 1 .. MaxMenu, SramMark(i) PROVE TimeInv' BY <1>29 DEF SramMark, SramAt
<1>30. ASSUME RecoverRefuse PROVE TimeInv' BY <1>30 DEF RecoverRefuse, Refuse, Idle
<1>31. ASSUME StateSkip PROVE TimeInv' BY <1>31 DEF StateSkip, AtState
<1>32. ASSUME StateRecover PROVE TimeInv' BY <1>32 DEF StateRecover, AtState, Recover
<1>33. ASSUME StateRefuse PROVE TimeInv' BY <1>33 DEF StateRefuse, AtState, Refuse, Idle
<1>34. ASSUME StateKeep PROVE TimeInv' BY <1>34 DEF StateKeep, AtState, Record
<1>35. ASSUME MigrateLocks PROVE TimeInv' BY <1>35 DEF MigrateLocks, Go
<1>36. ASSUME WriteManifest PROVE TimeInv' BY <1>36 DEF WriteManifest, Go
<1>37. ASSUME Finish PROVE TimeInv' BY <1>37 DEF Finish, Idle
<1>38. ASSUME NEW f \in Files, StoreRecover(f) PROVE TimeInv'
  BY <1>38 DEF StoreRecover, StoreGame, Recover
<1>39. ASSUME Stop PROVE TimeInv' BY <1>39 DEF Stop, Idle
<1>40. ASSUME StopInCopy PROVE TimeInv' BY <1>40 DEF StopInCopy, Idle
<1>41. QED BY <1>1, <1>2, <1>3, <1>4, <1>5, <1>6, <1>7, <1>8, <1>9, <1>10, <1>11, <1>12, <1>13,
   <1>14, <1>15, <1>16, <1>17, <1>18, <1>19, <1>20, <1>21, <1>22, <1>23, <1>24, <1>25, <1>26,
   <1>27, <1>28, <1>29, <1>30, <1>31, <1>32, <1>33, <1>34, <1>35, <1>36, <1>37, <1>38, <1>39,
   <1>40 DEF Next

\* Both files of a state agree, or its journal completes them.
LEMMA WholeStep ==
  ASSUME NameInv, FromInv, PairInv, RunInv, TimeInv, WholeOrJournalled, Next
  PROVE  WholeOrJournalled'
<1>1. ASSUME InstallData PROVE WholeOrJournalled'
  <2>1. PICK f \in Files : f = run.file /\ journal[f] \in Journal /\ journal[f] # None
    BY <1>1, RunInv, PairInv DEF InstallData, RunInv, PairInv, PairSteps, Recovering
  <2>2. meta' = meta /\ data'[f] = journal[f].new /\ Completable(f)
        /\ journal'[f] = [journal[f] EXCEPT !.staged = @ \ {"data"}]
    BY <1>1, <2>1, PairInv DEF InstallData, PairInv
  <2>3. \A e \in Files : e # f => journal'[e] = journal[e] /\ data'[e] = data[e]
    BY <1>1, <2>1, PairInv DEF InstallData, PairInv
  <2>4. /\ journal'[f].new = journal[f].new /\ journal'[f].oldMeta = journal[f].oldMeta
        /\ journal'[f].staged = journal[f].staged \ {"data"} /\ journal'[f] # None
    BY <2>1, <2>2, NamesAssumption DEF Journal
  <2>5. Completable(f)' BY <2>2, <2>4 DEF Completable, MetaDigest
  <2>6. ASSUME NEW e \in Files
        PROVE  Empty(e)' \/ Whole(e)' \/ (journal'[e] # None /\ Completable(e)')
    <3>1. CASE e = f BY <2>4, <2>5, <3>1
    <3>2. CASE e # f
      BY <2>2, <2>3, <3>2, WholeOrJournalled
         DEF WholeOrJournalled, Empty, Whole, Completable, MetaDigest
    <3>3. QED BY <3>1, <3>2
  <2>7. QED BY <2>6 DEF WholeOrJournalled
<1>2. ASSUME InstallMeta PROVE WholeOrJournalled'
  <2> DEFINE f == run.file
  <2>1. f \in Files /\ journal[f] \in Journal /\ journal[f] # None /\ data[f] = journal[f].new
    BY <1>2, RunInv, PairInv DEF InstallMeta, RunInv, PairInv, PairSteps, Recovering
  <2>2. data' = data /\ meta' \in [Files -> Metadata \cup {None}]
        /\ meta'[f] = IF MetaDigest(f) = journal[f].new THEN meta[f]
                      ELSE [digest |-> journal[f].new, time |-> journal[f].time]
    BY <1>2, <2>1, PairInv, PairStep, NameInv, FromInv, RunInv, Next DEF InstallMeta, PairInv
  <2>3. \A e \in Files : e # f => journal'[e] = journal[e] /\ meta'[e] = meta[e]
    BY <1>2, PairInv DEF InstallMeta, PairInv
  <2>4. data'[f] # None /\ meta'[f] # None /\ meta'[f].digest = data'[f]
    BY <2>1, <2>2, NamesAssumption DEF MetaDigest, Journal, Metadata
  <2>5. QED
    BY <2>2, <2>3, <2>4, WholeOrJournalled
       DEF WholeOrJournalled, Empty, Whole, Completable, MetaDigest
<1>3. ASSUME DropJournal PROVE WholeOrJournalled'
  <2>1. Whole(run.file) /\ data' = data /\ meta' = meta BY <1>3 DEF DropJournal
  <2>2. \A e \in Files : e # run.file => journal'[e] = journal[e]
    BY <1>3, PairInv DEF DropJournal, PairInv
  <2>3. QED
    BY <2>1, <2>2, WholeOrJournalled
       DEF WholeOrJournalled, Empty, Whole, Completable, MetaDigest
<1>4. ASSUME WriteJournal PROVE WholeOrJournalled'
  <2> DEFINE f == run.file
             j == [oldData |-> data[f], oldMeta |-> MetaDigest(f), new |-> run.payload,
                   time |-> clock, staged |-> {"data", "meta"}]
  <2>1. f \in Files /\ data' = data /\ meta' = meta
    BY <1>4, RunInv DEF WriteJournal, RunInv, PairSteps
  <2>2. journal' = [journal EXCEPT ![f] = j] BY <1>4 DEF WriteJournal
  <2>3. \A e \in Files : journal'[e] = IF e = f THEN j ELSE journal[e]
    BY <2>1, <2>2, PairInv DEF PairInv
  <2>4. j.oldData = data[f] /\ j.oldMeta = MetaDigest(f) /\ j.staged = {"data", "meta"} OBVIOUS
  <2>5. j # None
    <3>1. journal' \in [Files -> Journal \cup {None}] /\ j \in Journal
      BY <2>1, <1>4 , RunInv, PairInv, FromInv
         DEF WriteJournal, RunInv, PairInv, FromInv, Journal, MetaDigest, Metadata
    <3>2. QED BY <3>1, NamesAssumption
  <2> HIDE DEF j
  <2>6. QED
    BY <2>1, <2>3, <2>4, <2>5, WholeOrJournalled
       DEF WholeOrJournalled, Empty, Whole, Completable, MetaDigest
<1>5. ASSUME NEW f \in Files, PlayCanonical(f) PROVE WholeOrJournalled'
  <2> DEFINE new == [tag |-> RegionTag(f[1]), of |-> f[1], at |-> clock + 1]
  <2>1. \A e \in Files : e # f => data'[e] = data[e] /\ meta'[e] = meta[e] /\ journal' = journal
    BY <1>5, PairInv DEF PlayCanonical, PairInv
  <2>2. data'[f] = new /\ meta'[f] = [digest |-> new, time |-> clock + 1]
    BY <1>5, PairInv DEF PlayCanonical, PairInv
  <2>3. new \in Payload /\ [digest |-> new, time |-> clock + 1] \in Metadata
    BY RegionTyped, FromInv, NameInv DEF Files, Payload, Metadata, FromInv
  <2>4. data'[f] # None /\ meta'[f] # None /\ meta'[f].digest = data'[f]
    BY <2>2, <2>3, NamesAssumption
  <2>5. QED
    BY <2>1, <2>4, WholeOrJournalled
       DEF WholeOrJournalled, Empty, Whole, Completable, MetaDigest
<1>6. ASSUME NEW f \in Files, Delete(f) PROVE WholeOrJournalled'
  <2>1. \A e \in Files : e # f => data'[e] = data[e] /\ meta'[e] = meta[e] /\ journal' = journal
    BY <1>6, PairInv DEF Delete, PairInv
  <2>2. data'[f] = None /\ meta'[f] = None BY <1>6, PairInv DEF Delete, PairInv
  <2>3. QED
    BY <2>1, <2>2, WholeOrJournalled
       DEF WholeOrJournalled, Empty, Whole, Completable, MetaDigest
<1> USE WholeOrJournalled DEF pairs, sram, idents, marks, history, WholeOrJournalled, Empty,
   Whole, Completable, MetaDigest
<1>7. ASSUME Start PROVE WholeOrJournalled' BY <1>7 DEF Start, Idle
<1>8. ASSUME IdentifyRefuse PROVE WholeOrJournalled' BY <1>8 DEF IdentifyRefuse, Refuse, Idle
<1>9. ASSUME Sync PROVE WholeOrJournalled' BY <1>9 DEF Sync
<1>10. ASSUME ScanRefuse PROVE WholeOrJournalled' BY <1>10 DEF ScanRefuse, Refuse, Idle
<1>11. ASSUME Scan PROVE WholeOrJournalled' BY <1>11 DEF Scan
<1>12. ASSUME SyncEnd PROVE WholeOrJournalled' BY <1>12 DEF SyncEnd, Idle
<1>13. ASSUME NEW g \in Games, Identify(g) PROVE WholeOrJournalled' BY <1>13 DEF Identify
<1>14. ASSUME NEW g \in Games, StoreRefuse(g) PROVE WholeOrJournalled'
  BY <1>14 DEF StoreRefuse, StoreGame, Refuse, Idle
<1>15. ASSUME NEW g \in Games, StoreOwner(g) PROVE WholeOrJournalled'
  BY <1>15 DEF StoreOwner, StoreReady, StoreGame
<1>16. ASSUME NEW g \in Games, StoreSchema(g) PROVE WholeOrJournalled'
  BY <1>16 DEF StoreSchema, StoreReady, StoreGame
<1>17. ASSUME NEW g \in Games, OlderEditor(g) PROVE WholeOrJournalled'
  BY <1>17 DEF OlderEditor, Between
<1>18. ASSUME NEW p \in Packs, SkipPack(p) PROVE WholeOrJournalled' BY <1>18 DEF SkipPack
<1>19. ASSUME NEW p \in Packs, NextPack(p) PROVE WholeOrJournalled' BY <1>19 DEF NextPack
<1>20. ASSUME NEW i \in 1 .. MaxMenu, SramRefuse(i) PROVE WholeOrJournalled'
  BY <1>20 DEF SramRefuse, SramAt, Refuse, Idle
<1>21. ASSUME NEW i \in 1 .. MaxMenu, SramSkip(i) PROVE WholeOrJournalled'
  BY <1>21 DEF SramSkip, SramAt, Advance
<1>22. ASSUME NEW i \in 1 .. MaxMenu, SramRetain(i) PROVE WholeOrJournalled'
  BY <1>22 DEF SramRetain, SramAt
<1>23. ASSUME NEW i \in 1 .. MaxMenu, SramReplace(i) PROVE WholeOrJournalled'
  BY <1>23 DEF SramReplace, SramAt
<1>24. ASSUME NEW i \in 1 .. MaxMenu, SramMark(i) PROVE WholeOrJournalled'
  BY <1>24 DEF SramMark, SramAt
<1>25. ASSUME RecoverRefuse PROVE WholeOrJournalled' BY <1>25 DEF RecoverRefuse, Refuse, Idle
<1>26. ASSUME BackupData PROVE WholeOrJournalled' BY <1>26 DEF BackupData, Go
<1>27. ASSUME BackupMeta PROVE WholeOrJournalled' BY <1>27 DEF BackupMeta, Go
<1>28. ASSUME StateSkip PROVE WholeOrJournalled' BY <1>28 DEF StateSkip, AtState
<1>29. ASSUME StateRecover PROVE WholeOrJournalled' BY <1>29 DEF StateRecover, AtState, Recover
<1>30. ASSUME StateRefuse PROVE WholeOrJournalled' BY <1>30 DEF StateRefuse, AtState, Refuse, Idle
<1>31. ASSUME StateKeep PROVE WholeOrJournalled' BY <1>31 DEF StateKeep, AtState, Record
<1>32. ASSUME StateImport PROVE WholeOrJournalled' BY <1>32 DEF StateImport, AtState, Prepare
<1>33. ASSUME MigrateLocks PROVE WholeOrJournalled' BY <1>33 DEF MigrateLocks, Go
<1>34. ASSUME WriteManifest PROVE WholeOrJournalled' BY <1>34 DEF WriteManifest, Go
<1>35. ASSUME Finish PROVE WholeOrJournalled' BY <1>35 DEF Finish, Idle
<1>36. ASSUME NEW f \in Files, StoreRecover(f) PROVE WholeOrJournalled'
  BY <1>36 DEF StoreRecover, StoreGame, Recover
<1>37. ASSUME NEW f \in Files, StoreRetag(f) PROVE WholeOrJournalled'
  BY <1>37 DEF StoreRetag, StoreGame, Prepare
<1>38. ASSUME NEW k \in (1 .. MaxMenu) \X Slots, PlayLegacy(k) PROVE WholeOrJournalled'
  BY <1>38 DEF PlayLegacy, Between
<1>39. ASSUME Stop PROVE WholeOrJournalled' BY <1>39 DEF Stop, Idle
<1>40. ASSUME StopInCopy PROVE WholeOrJournalled' BY <1>40 DEF StopInCopy, Idle
<1>41. QED BY <1>1, <1>2, <1>3, <1>4, <1>5, <1>6, <1>7, <1>8, <1>9, <1>10, <1>11, <1>12, <1>13,
   <1>14, <1>15, <1>16, <1>17, <1>18, <1>19, <1>20, <1>21, <1>22, <1>23, <1>24, <1>25, <1>26,
   <1>27, <1>28, <1>29, <1>30, <1>31, <1>32, <1>33, <1>34, <1>35, <1>36, <1>37, <1>38, <1>39,
   <1>40 DEF Next


\* What a step of a run leaves of the states in place: each of them, or a newer one.
KeptOrNewer ==
    \A f \in Files : run.pc # "idle" /\ data[f] # None =>
        data'[f] # None /\ data'[f].at >= data[f].at

\* The only step of a run that replaces a state installs the newer one of its journal.
LEMMA KeptStep ==
  ASSUME PairInv, RunInv, TimeInv, Next
  PROVE  KeptOrNewer
<1>1. ASSUME InstallData PROVE KeptOrNewer
  <2>1. PICK f \in Files : f = run.file /\ journal[f] \in Journal /\ journal[f] # None
    BY <1>1, RunInv, PairInv DEF InstallData, RunInv, PairInv, PairSteps, Recovering
  <2>2. /\ data' = [data EXCEPT ![f] = journal[f].new]
        /\ data[f] = journal[f].new \/ data[f] = journal[f].oldData
    BY <1>1, <2>1 DEF InstallData, Completable
  <2>3. /\ data'[f] = journal[f].new
        /\ \A e \in Files : e # f => data'[e] = data[e]
    BY <2>1, <2>2, PairInv DEF PairInv
  <2>4. journal[f].new \in Payload /\ journal[f].new # None
    BY <2>1, NamesAssumption DEF Journal
  <2>5. data[f] # None => journal[f].new.at >= data[f].at
    <3>1. CASE data[f] = journal[f].new BY <2>4, <3>1 DEF Payload
    <3>2. CASE data[f] = journal[f].oldData
      BY <2>1, <2>4, <3>2, PairInv, TimeInv DEF TimeInv, PairInv, Payload
    <3>3. QED BY <2>2, <3>1, <3>2
  <2>6. ASSUME NEW e \in Files, data[e] # None
        PROVE  data'[e] # None /\ data'[e].at >= data[e].at
    <3>1. CASE e = f BY <2>3, <2>4, <2>5, <2>6, <3>1
    <3>2. CASE e # f BY <2>3, <2>6, <3>2, PairInv DEF PairInv, Payload
    <3>3. QED BY <3>1, <3>2
  <2>7. QED BY <2>6 DEF KeptOrNewer
<1>2. ASSUME NEW f \in Files, PlayCanonical(f) PROVE KeptOrNewer
  BY <1>2 DEF PlayCanonical, Between, KeptOrNewer
<1>3. ASSUME NEW f \in Files, Delete(f) PROVE KeptOrNewer
  BY <1>3 DEF Delete, Between, KeptOrNewer
<1> USE PairInv DEF pairs, sram, idents, marks, history, KeptOrNewer, PairInv, Payload
<1>4. ASSUME Start PROVE KeptOrNewer BY <1>4 DEF Start, Idle
<1>5. ASSUME IdentifyRefuse PROVE KeptOrNewer BY <1>5 DEF IdentifyRefuse, Refuse, Idle
<1>6. ASSUME Sync PROVE KeptOrNewer BY <1>6 DEF Sync
<1>7. ASSUME ScanRefuse PROVE KeptOrNewer BY <1>7 DEF ScanRefuse, Refuse, Idle
<1>8. ASSUME Scan PROVE KeptOrNewer BY <1>8 DEF Scan
<1>9. ASSUME SyncEnd PROVE KeptOrNewer BY <1>9 DEF SyncEnd, Idle
<1>10. ASSUME NEW g \in Games, Identify(g) PROVE KeptOrNewer BY <1>10 DEF Identify
<1>11. ASSUME NEW g \in Games, StoreRefuse(g) PROVE KeptOrNewer
  BY <1>11 DEF StoreRefuse, StoreGame, Refuse, Idle
<1>12. ASSUME NEW g \in Games, StoreOwner(g) PROVE KeptOrNewer
  BY <1>12 DEF StoreOwner, StoreReady, StoreGame
<1>13. ASSUME NEW g \in Games, StoreSchema(g) PROVE KeptOrNewer
  BY <1>13 DEF StoreSchema, StoreReady, StoreGame
<1>14. ASSUME NEW g \in Games, OlderEditor(g) PROVE KeptOrNewer BY <1>14 DEF OlderEditor, Between
<1>15. ASSUME NEW p \in Packs, SkipPack(p) PROVE KeptOrNewer BY <1>15 DEF SkipPack
<1>16. ASSUME NEW p \in Packs, NextPack(p) PROVE KeptOrNewer BY <1>16 DEF NextPack
<1>17. ASSUME NEW i \in 1 .. MaxMenu, SramRefuse(i) PROVE KeptOrNewer
  BY <1>17 DEF SramRefuse, SramAt, Refuse, Idle
<1>18. ASSUME NEW i \in 1 .. MaxMenu, SramSkip(i) PROVE KeptOrNewer
  BY <1>18 DEF SramSkip, SramAt, Advance
<1>19. ASSUME NEW i \in 1 .. MaxMenu, SramRetain(i) PROVE KeptOrNewer
  BY <1>19 DEF SramRetain, SramAt
<1>20. ASSUME NEW i \in 1 .. MaxMenu, SramReplace(i) PROVE KeptOrNewer
  BY <1>20 DEF SramReplace, SramAt
<1>21. ASSUME NEW i \in 1 .. MaxMenu, SramMark(i) PROVE KeptOrNewer BY <1>21 DEF SramMark, SramAt
<1>22. ASSUME RecoverRefuse PROVE KeptOrNewer BY <1>22 DEF RecoverRefuse, Refuse, Idle
<1>23. ASSUME InstallMeta PROVE KeptOrNewer BY <1>23 DEF InstallMeta, Go
<1>24. ASSUME DropJournal PROVE KeptOrNewer BY <1>24 DEF DropJournal, Record, Go
<1>25. ASSUME BackupData PROVE KeptOrNewer BY <1>25 DEF BackupData, Go
<1>26. ASSUME BackupMeta PROVE KeptOrNewer BY <1>26 DEF BackupMeta, Go
<1>27. ASSUME WriteJournal PROVE KeptOrNewer BY <1>27 DEF WriteJournal, Go
<1>28. ASSUME StateSkip PROVE KeptOrNewer BY <1>28 DEF StateSkip, AtState
<1>29. ASSUME StateRecover PROVE KeptOrNewer BY <1>29 DEF StateRecover, AtState, Recover
<1>30. ASSUME StateRefuse PROVE KeptOrNewer BY <1>30 DEF StateRefuse, AtState, Refuse, Idle
<1>31. ASSUME StateKeep PROVE KeptOrNewer BY <1>31 DEF StateKeep, AtState, Record
<1>32. ASSUME StateImport PROVE KeptOrNewer BY <1>32 DEF StateImport, AtState, Prepare
<1>33. ASSUME MigrateLocks PROVE KeptOrNewer BY <1>33 DEF MigrateLocks, Go
<1>34. ASSUME WriteManifest PROVE KeptOrNewer BY <1>34 DEF WriteManifest, Go
<1>35. ASSUME Finish PROVE KeptOrNewer BY <1>35 DEF Finish, Idle
<1>36. ASSUME NEW f \in Files, StoreRecover(f) PROVE KeptOrNewer
  BY <1>36 DEF StoreRecover, StoreGame, Recover
<1>37. ASSUME NEW f \in Files, StoreRetag(f) PROVE KeptOrNewer
  BY <1>37 DEF StoreRetag, StoreGame, Prepare
<1>38. ASSUME NEW k \in (1 .. MaxMenu) \X Slots, PlayLegacy(k) PROVE KeptOrNewer
  BY <1>38 DEF PlayLegacy, Between
<1>39. ASSUME Stop PROVE KeptOrNewer BY <1>39 DEF Stop, Idle
<1>40. ASSUME StopInCopy PROVE KeptOrNewer BY <1>40 DEF StopInCopy, Idle
<1>41. QED BY <1>1, <1>2, <1>3, <1>4, <1>5, <1>6, <1>7, <1>8, <1>9, <1>10, <1>11, <1>12, <1>13,
   <1>14, <1>15, <1>16, <1>17, <1>18, <1>19, <1>20, <1>21, <1>22, <1>23, <1>24, <1>25, <1>26,
   <1>27, <1>28, <1>29, <1>30, <1>31, <1>32, <1>33, <1>34, <1>35, <1>36, <1>37, <1>38, <1>39,
   <1>40 DEF Next


\* A run starts from what is published: typed, unjournalled, with nothing from the future.
LEMMA InitInv ==
  ASSUME Init
  PROVE  MigrationInv
<1>1. Plausible(world) BY WorldsAssumption DEF Init
<1>2. NameInv BY <1>1 DEF Init, NameInv, Plausible
<1>3. FromInv BY <1>1 DEF Init, FromInv, Plausible
<1>4. /\ data \in [Files -> Payload \cup {None}]
      /\ \A f \in Files : data[f] # None => data[f].at <= clock
  BY <1>1 DEF Init, Plausible
<1>5. \A f \in Files :
        /\ data[f] = None => meta[f] = None
        /\ data[f] # None => meta[f] = [digest |-> data[f], time |-> data[f].at]
  BY DEF Init
<1>6. journal = [f \in Files |-> None] /\ run = Idle BY DEF Init
<1>7. ASSUME NEW f \in Files, data[f] # None
      PROVE  meta[f] \in Metadata /\ meta[f].digest = data[f] /\ meta[f].time = data[f].at
             /\ data[f].at \in Nat
  <2>1. data[f] \in Payload /\ data[f].at \in Nat BY <1>4, <1>7 DEF Payload
  <2>2. meta[f] = [digest |-> data[f], time |-> data[f].at] BY <1>5, <1>7
  <2>3. QED BY <2>1, <2>2 DEF Metadata
<1>8. PairInv
  <2>1. meta = [f \in Files |-> meta[f]] BY DEF Init
  <2>2. QED BY <1>4, <1>5, <1>6, <1>7, <2>1 DEF PairInv
<1>9. RunInv
  BY <1>6 DEF RunInv, Idle, Pcs, PackSteps, PairSteps, Recovering
<1>10. \A f \in Files : meta[f] # None => meta[f].time >= meta[f].digest.at
  <2>1. ASSUME NEW f \in Files, meta[f] # None PROVE meta[f].time >= meta[f].digest.at
    <3>1. data[f] # None BY <1>5, <2>1
    <3>2. meta[f].digest.at = data[f].at /\ meta[f].time = data[f].at /\ data[f].at \in Nat
      BY <1>7, <3>1
    <3>3. QED BY <3>2
  <2>2. QED BY <2>1
<1>11. TimeInv BY <1>4, <1>6, <1>10 DEF TimeInv, Idle
<1>12. WholeOrJournalled
  <2>1. ASSUME NEW f \in Files, data[f] # None PROVE Whole(f)
    BY <1>7, <2>1, NamesAssumption DEF Whole
  <2>2. QED BY <1>5, <2>1 DEF WholeOrJournalled, Empty
<1>13. QED BY <1>2, <1>3, <1>8, <1>9, <1>11, <1>12 DEF MigrationInv

\* A step that changes nothing keeps everything.
LEMMA Stutter ==
  ASSUME MigrationInv, UNCHANGED vars
  PROVE  MigrationInv'
<1>1. /\ world' = world /\ from' = from /\ native' = native /\ run' = run /\ clock' = clock
      /\ data' = data /\ meta' = meta /\ journal' = journal
  BY DEF vars, pairs, idents, history
<1>2. NameInv' /\ FromInv' BY <1>1 DEF MigrationInv, NameInv, FromInv
<1>3. PairInv' /\ RunInv' BY <1>1 DEF MigrationInv, PairInv, RunInv
<1>4. TimeInv' BY <1>1 DEF MigrationInv, TimeInv
<1>5. WholeOrJournalled'
  BY <1>1 DEF MigrationInv, WholeOrJournalled, Empty, Whole, Completable, MetaDigest
<1>6. QED BY <1>2, <1>3, <1>4, <1>5 DEF MigrationInv

-----------------------------------------------------------------------------
\* Whatever was published, wherever runs were cut short and whatever was played
\* between them: prepare_per_game_save_store and the synchronisation keep the
\* states and the journals of their replacement in step.
THEOREM Inductive == Spec => []MigrationInv
<1>1. Init => MigrationInv BY InitInv
<1>2. MigrationInv /\ [Next]_vars => MigrationInv'
  <2>1. ASSUME MigrationInv, Next PROVE MigrationInv'
    <3>1. NameInv /\ FromInv /\ PairInv /\ RunInv /\ TimeInv /\ WholeOrJournalled
      BY <2>1 DEF MigrationInv
    <3>2. NameInv' BY <2>1, <3>1, NameStep
    <3>3. FromInv' BY <2>1, <3>1, FromStep
    <3>4. PairInv' BY <2>1, <3>1, PairStep
    <3>5. RunInv' BY <2>1, <3>1, RunStep
    <3>6. TimeInv' BY <2>1, <3>1, TimeStep
    <3>7. WholeOrJournalled' BY <2>1, <3>1, WholeStep
    <3>8. QED BY <3>2, <3>3, <3>4, <3>5, <3>6, <3>7 DEF MigrationInv
  <2>2. QED BY <2>1, Stutter
<1>3. QED BY <1>1, <1>2, PTL DEF Spec

\* No kill between the steps of replace_state_pair makes a state unreadable for
\* good: both files agree, or recover_state_pair completes them.
THEOREM WholeOrJournalledHolds == Spec => []WholeOrJournalled
<1>1. MigrationInv => WholeOrJournalled BY DEF MigrationInv
<1>2. QED BY <1>1, Inductive, PTL

\* A run, also one that finishes the journal of an earlier one, never puts an
\* older state over a newer one and never removes one.
THEOREM NeverOlderHolds == Spec => NeverOlder
<1>1. MigrationInv /\ [Next]_vars =>
        [\A f \in Files : run.pc # "idle" /\ data[f] # None =>
           data'[f] # None /\ data'[f].at >= data[f].at]_vars
  <2>1. ASSUME MigrationInv, Next
        PROVE  \A f \in Files : run.pc # "idle" /\ data[f] # None =>
                 data'[f] # None /\ data'[f].at >= data[f].at
    <3>1. PairInv /\ RunInv /\ TimeInv BY <2>1 DEF MigrationInv
    <3>2. KeptOrNewer BY <2>1, <3>1, KeptStep
    <3>3. QED BY <3>2 DEF KeptOrNewer
  <2>2. QED BY <2>1
<1>2. QED BY <1>1, Inductive, PTL DEF Spec, NeverOlder

=============================================================================
