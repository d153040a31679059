---------------------------- MODULE SaveMigration ----------------------------
(***************************************************************************)
(* Preparing a library for per-game saves (m2-publish: identity.rs, sync.rs, *)
(* save_format.rs, prepare_per_game_save_store).  One run of the editor      *)
(* gives every game its identity, imports the positional saves of the last   *)
(* published menus, checks every canonical save, and writes the V2 marker.   *)
(*                                                                           *)
(* A canonical state is a data file and a metadata file holding its digest;  *)
(* they are replaced through a journal that names the old and new contents.  *)
(* The run may stop at any step, by an error or by a kill.  The console only *)
(* plays between runs: the key is in one machine at a time.                  *)
(*                                                                           *)
(* A payload is [tag, of, at]: its native tag, the game and the time that    *)
(* wrote it.  Two payloads have one digest iff they are equal.               *)
(***************************************************************************)
EXTENDS Naturals, Sequences, FiniteSets

CONSTANTS Games, Tags, Packs,
          Slots,        \* state slots of a game, 0 .. n
          CdGames,      \* games whose states have the CD layout
          SafeTags,     \* tags of 1 to 14 safe characters
          GeneratedTag, \* the tag made from a new identity
          LockWords,    \* the live flags, in words
          MaxMenu,      \* length of the longest published menu
          Worlds,       \* published menus, bindings and library tags to start from
          Faults,       \* subset of {"stop", "copy", "olderEditor"}
          MaxClock,     \* bound: saves the player makes
          MaxStops,     \* bound: runs cut short, uses of an older editor
          None, Live, Fresh, Torn

ASSUME TagsAssumption == SafeTags \subseteq Tags /\ GeneratedTag \in [Games -> SafeTags]

Files == Games \X Slots
Payload == [tag : Tags, of : Games, at : Nat]

\* The metadata of a state, and the journal of its replacement.
Metadata == [digest : Payload, time : Nat]
Journal == [oldData : Payload \cup {None}, oldMeta : Payload \cup {None}, new : Payload,
            time : Nat, staged : SUBSET {"data", "meta"}]

ASSUME NamesAssumption == None \notin Payload \cup Metadata \cup Journal \cup Tags
ASSUME BoundsAssumption == MaxMenu \in Nat /\ Slots \subseteq Nat

\* What an editor finds: positions with a game lead to payloads, and none of
\* them was written later than now.
Plausible(w) ==
    /\ w.clock \in Nat
    /\ {w.active, w.sramPack} \subseteq Packs \cup {None}
    /\ \A p \in Packs :
         /\ Len(w.menus[p]) \in 0 .. MaxMenu
         /\ \A i \in 1 .. Len(w.menus[p]) : w.menus[p][i].game =>
              w.menus[p][i].tag \in Tags /\ w.menus[p][i].of \in Games
    /\ w.from \in [Packs \cup {Live} -> [(1 .. MaxMenu) \X Slots -> Payload \cup {None}]]
    /\ \A d \in Packs \cup {Live}, k \in (1 .. MaxMenu) \X Slots :
          w.from[d][k] # None => w.from[d][k].at <= w.clock
    /\ w.data \in [Files -> Payload \cup {None}]
    /\ \A f \in Files : w.data[f] # None => w.data[f].at <= w.clock
    /\ w.native \in [Games -> Tags \cup {None}]
    /\ \A g \in Games : w.lib[g].primary \in Tags

ASSUME WorldsAssumption == \A w \in Worlds : Plausible(w)

VARIABLES
    world,                            \* what was published; never changes
    from,                             \* legacy states, by directory and position
    data, meta, journal, backup,      \* canonical states
    bank, schema, bankBackup, locks,  \* canonical SRAM and lock masks
    flags,                            \* the library holds the live backup flags
    gid, native, owner,               \* game.json identity, saves/.chronos-game-id
    kept, v2,                         \* migration manifest, .per-game-saves-v2
    run,
    clock, stops, settled             \* bounds and history

pairs == <<data, meta, journal, backup>>
sram == <<bank, schema, bankBackup, locks, flags>>
idents == <<gid, native, owner>>
marks == <<kept, v2>>
history == <<clock, stops, settled>>
vars == <<world, from, pairs, sram, idents, marks, run, history>>

-----------------------------------------------------------------------------
(* The library as loaded, and the menus as published. *)

lib == world.lib
Menu(p) == world.menus[p]
Position(k) == k[1]
Keys(p) == (1 .. Len(Menu(p))) \X Slots
Item(p, i) == Menu(p)[i]

RegionTag(g) == IF native[g] # None THEN native[g] ELSE lib[g].primary

\* index_games: the tags a published item may know the game by.
Aliases(g) == {RegionTag(g), lib[g].dir, lib[g].primary} \cup lib[g].alts

\* resolve: the games an item may stand for; it is bound only if there is one.
Candidates(item) ==
    {g \in Games : /\ item.game
                   /\ IF item.id # None THEN gid[g] = item.id ELSE item.tag \in Aliases(g)}

Resolved(item) == Cardinality(Candidates(item)) = 1
Owner(item) == CHOOSE g \in Candidates(item) : TRUE
Ambiguous(item) == item.id = None /\ Cardinality({g \in Games : item.tag \in Aliases(g)}) > 1

\* A bug: the payload's own tag is not looked at.
DestinationTagTrusting(item, g, tag) == RegionTag(g)

\* destination_tag: the tag a payload gets in its game, or None if it is not its.
DestinationTag(item, g, tag) ==
    CASE tag \notin item.tags \cup Aliases(g)                      -> None
      [] native[g] = None                                          -> tag
      [] tag \in {item.tag, lib[g].primary, native[g]}             -> native[g]
      [] tag \in lib[g].alts                                       -> tag
      [] OTHER                                                     -> None

Kind(payload) == IF payload.of \in CdGames THEN 11 ELSE 12
Directories(p) == IF world.active = p THEN {p, Live} ELSE {p}

\* The legacy states at one position; a damaged pair is reported, not found.
Found(p, k) == {from[d][k] : d \in Directories(p)} \ {None}

Usable(p, k) ==
    LET item == Item(p, Position(k)) IN
    {s \in Found(p, k) : Resolved(item) /\ DestinationTag(item, Owner(item), s.tag) # None}

\* What identifies a save, whatever tag it has got.
Made(s) == <<s.of, s.at>>

NewestOf(S) == CHOOSE s \in S : \A t \in S : s.at >= t.at

\* The positions with one layout to import, in order.
Work(p) == {k \in Keys(p) : Cardinality({Kind(s) : s \in Usable(p, k)}) = 1}
Before(j, k) == j[1] < k[1] \/ (j[1] = k[1] /\ j[2] < k[2])
FirstOf(S) == CHOOSE k \in S : \A j \in S \ {k} : Before(k, j)

-----------------------------------------------------------------------------
(* The manifest: what was imported, so that it is imported once. *)

\* migration_key survives a move of the library.
Key(p, i, slot) ==
    <<p, IF Item(p, i).id # None THEN Item(p, i).id ELSE Item(p, i).tag, slot>>

\* Imported::suppresses: the same snapshot, or one that is not newer.
Suppressed(m, key, s) == \E r \in m : r.key = key /\ (r.digest = s \/ s.at <= r.digest.at)

Note(m, key, s) == {r \in m : r.key # key} \cup {[key |-> key, digest |-> s]}

-----------------------------------------------------------------------------
(* The run. *)

Idle == [pc |-> "idle", left |-> {}, pack |-> None, at |-> <<0, 0>>, file |-> None,
         payload |-> None, source |-> None, then |-> "none", mem |-> {}]

Go(pc) == run' = [run EXCEPT !.pc = pc]
\* Every error ends the run with what is on the disk; the record in memory is lost.
Refuse(condition) ==
    /\ condition
    /\ run' = Idle
    /\ UNCHANGED <<world, from, pairs, sram, idents, marks, history>>

Start ==
    /\ run.pc = "idle"
    /\ run' = [Idle EXCEPT !.pc = "identify"]
    /\ UNCHANGED <<world, from, pairs, sram, idents, marks, history>>

-----------------------------------------------------------------------------
(* identity.rs: every game.json gets game_id and native_region_tag. *)

Whole(f) == data[f] # None /\ meta[f] # None /\ meta[f].digest = data[f]
StateTags(g) == {data[f].tag : f \in {e \in Files : e[1] = g /\ Whole(e)}}

\* saved_game_id: an older editor may have dropped game_id; the marker keeps it.
PlannedId(g) ==
    IF gid[g] # None THEN gid[g] ELSE IF owner[g] # None THEN owner[g] ELSE Fresh

Known(g) == {lib[g].primary} \cup lib[g].alts

PlannedTag(g) ==
    LET own == StateTags(g) \ lib[g].alts IN
    CASE native[g] # None                                      -> native[g]
      [] lib[g].primary \in SafeTags /\ StateTags(g) \subseteq Known(g) -> lib[g].primary
      [] own # {}                                              -> CHOOSE t \in own : TRUE
      [] lib[g].primary \in SafeTags                           -> lib[g].primary
      [] OTHER                                                 -> GeneratedTag[g]

\* plan_identity: the game is refused rather than given a guessed identity.
PlanRefused(g) ==
    \/ gid[g] # None /\ owner[g] # None /\ gid[g] # owner[g]
    \/ /\ gid[g] = None \/ native[g] = None
       /\ \/ \E t \in StateTags(g) : t \notin SafeTags
          \/ Cardinality(StateTags(g)) > 1 /\ ~(StateTags(g) \subseteq Known(g))
          \/ native[g] # None /\ \E t \in StateTags(g) : t # native[g] /\ t \notin lib[g].alts
          \/ /\ native[g] = None /\ lib[g].primary \notin SafeTags
             /\ StateTags(g) \subseteq lib[g].alts /\ \E slot \in Slots : data[<<g, slot>>] # None

Clashes(g, h) ==
    \/ PlannedId(g) = PlannedId(h) /\ PlannedId(g) # Fresh
    \/ lib[g].list = lib[h].list /\ PlannedTag(g) = PlannedTag(h)

\* The whole plan is checked before the first file is written.
LibraryRefused ==
    \/ \E g \in Games : PlanRefused(g)
    \/ \E g, h \in Games : g # h /\ Clashes(g, h)

Identified(g) == gid[g] # None /\ native[g] # None

IdentifyRefuse == Refuse(run.pc = "identify" /\ LibraryRefused)

\* The identities that are made now are distinct: the game stands for its own.
Identify(g) ==
    /\ run.pc = "identify" /\ ~LibraryRefused
    /\ ~Identified(g)
    /\ native' = [native EXCEPT ![g] = PlannedTag(g)]
    /\ gid' = [gid EXCEPT ![g] = IF PlannedId(g) = Fresh THEN <<Fresh, g>> ELSE PlannedId(g)]
    /\ UNCHANGED <<world, from, pairs, sram, owner, marks, run, history>>

-----------------------------------------------------------------------------
(* sync_library_from_published. *)

Sync ==
    /\ run.pc = "identify" /\ ~LibraryRefused
    /\ \A g \in Games : Identified(g)
    /\ flags' = (flags \/ world.liveValid)
    /\ run' = IF v2 THEN [run EXCEPT !.pc = "store", !.left = Games]
              ELSE [run EXCEPT !.pc = "pack", !.left = Packs, !.mem = kept]
    /\ UNCHANGED <<world, from, pairs, bank, schema, bankBackup, locks, idents, marks, history>>

\* A pack without a readable catalogue is reported and left alone.
SkipPack(p) ==
    /\ run.pc = "pack" /\ p \in run.left
    /\ \A other \in run.left : world.base[p] <= world.base[other]
    /\ Menu(p) = <<>>
    /\ run' = [run EXCEPT !.left = @ \ {p}]
    /\ UNCHANGED <<world, from, pairs, sram, idents, marks, history>>

\* The lineups one after the other, the packs of one in the order of the disk.
NextPack(p) ==
    /\ run.pc = "pack" /\ p \in run.left
    /\ \A other \in run.left : world.base[p] <= world.base[other]
    /\ Menu(p) # <<>>
    /\ run' = [run EXCEPT !.pc = "sram", !.left = @ \ {p}, !.pack = p, !.at = <<1, 0>>]
    /\ UNCHANGED <<world, from, pairs, sram, idents, marks, history>>

\* The live file is sound, and .sram-pack says it is this pack's.
LiveIsOf(p) == world.liveValid /\ world.sramPack = p

\* The block of a position: None without a usable source, at = 0 when it is empty.
Block(i) ==
    IF world.active # run.pack THEN world.banks[run.pack][i]
    ELSE IF LiveIsOf(run.pack) THEN world.banks[Live][i] ELSE None

SramKey(i) == Key(run.pack, i, None)  \* a record of its own, without a slot
SramAt(i) == run.pc = "sram" /\ i = Position(run.at) /\ i <= Len(Menu(run.pack))
Advance == run' = [run EXCEPT !.at = <<@[1] + 1, 0>>]

\* A marked file is never touched; an empty block is due only over an old file.
SramDue(i) ==
    /\ Block(i) # None /\ Resolved(Item(run.pack, i))
    /\ ~schema[Owner(Item(run.pack, i))]
    /\ Block(i).at = 0 => bank[Owner(Item(run.pack, i))] # None
    /\ ~Suppressed(run.mem, SramKey(i), Block(i))

SramRefused(i) ==
    LET item == Item(run.pack, i) IN
    item.game /\ Block(i) # None /\ Block(i).at > 0 /\ ~Resolved(item) /\ Ambiguous(item)

SramRefuse(i) == SramAt(i) /\ Refuse(SramRefused(i))

SramSkip(i) ==
    /\ SramAt(i) /\ ~SramDue(i) /\ ~SramRefused(i)
    /\ Advance
    /\ UNCHANGED <<world, from, pairs, sram, idents, marks, history>>

\* An unmarked file holds a shifted slice: it is kept aside once, then replaced.
SramRetain(i) ==
    /\ SramAt(i) /\ SramDue(i)
    /\ LET g == Owner(Item(run.pack, i)) IN
       /\ bank[g] \notin {None, Block(i)} /\ bankBackup[g] = None
       /\ bankBackup' = [bankBackup EXCEPT ![g] = bank[g]]
    /\ UNCHANGED <<world, from, pairs, bank, schema, locks, flags, idents, marks, run, history>>

SramReplace(i) ==
    /\ SramAt(i) /\ SramDue(i)
    /\ LET g == Owner(Item(run.pack, i)) IN
       /\ bank[g] # Block(i) /\ (bank[g] # None => bankBackup[g] # None)
       /\ bank' = [bank EXCEPT ![g] = Block(i)]
    /\ UNCHANGED <<world, from, pairs, schema, bankBackup, locks, flags, idents, marks, run,
                   history>>

SramMark(i) ==
    /\ SramAt(i) /\ SramDue(i)
    /\ LET g == Owner(Item(run.pack, i)) IN
       /\ bank[g] = Block(i)
       /\ schema' = [schema EXCEPT ![g] = TRUE]
    /\ run' = [run EXCEPT !.at = <<@[1] + 1, 0>>, !.mem = Note(@, SramKey(i), Block(i))]
    /\ UNCHANGED <<world, from, pairs, bank, bankBackup, locks, flags, idents, marks, history>>

-----------------------------------------------------------------------------
(* The position being imported, and its record. *)

Remaining == {k \in Work(run.pack) : Before(run.at, k)}
Current == FirstOf(Remaining)
CurrentItem == Item(run.pack, Position(Current))
CurrentKey == Key(run.pack, Position(Current), Current[2])
Source == NewestOf(Usable(run.pack, Current))
Target == <<Owner(CurrentItem), Current[2]>>
TagFor(payload) == DestinationTag(CurrentItem, Target[1], payload.tag)

Record(source) ==
    run' = [run EXCEPT !.pc = "state", !.at = Current, !.mem = Note(@, CurrentKey, source)]

-----------------------------------------------------------------------------
(* recover_state_pair: finish a journalled replacement, or refuse it. *)

MetaDigest(f) == IF meta[f] = None THEN None ELSE meta[f].digest

\* A bug: a destination that changed since is replaced all the same.
CompletableAlways(f) == journal[f].staged = {"data", "meta"} \/ data[f] = journal[f].new

\* Both members are as the journal left them, and what is staged makes a whole pair.
Completable(f) ==
    LET j == journal[f] IN
    /\ data[f] = j.new \/ (data[f] = j.oldData /\ "data" \in j.staged)
    /\ MetaDigest(f) = j.new \/ (MetaDigest(f) = j.oldMeta /\ "meta" \in j.staged)

RecoverRefuse == Refuse(run.pc = "recover" /\ ~Completable(run.file))

\* A bug: the journal and both stages go as soon as the data file is in place.
InstallDataAndForget ==
    LET f == run.file IN
    /\ run.pc = "recover" /\ Completable(f)
    /\ data' = [data EXCEPT ![f] = journal[f].new]
    /\ journal' = [journal EXCEPT ![f].staged = {}]
    /\ Go("recoverMeta")
    /\ UNCHANGED <<world, from, meta, backup, sram, idents, marks, history>>

InstallData ==
    LET f == run.file IN
    /\ run.pc = "recover" /\ Completable(f)
    /\ data' = [data EXCEPT ![f] = journal[f].new]
    /\ journal' = [journal EXCEPT ![f].staged = @ \ {"data"}]
    /\ Go("recoverMeta")
    /\ UNCHANGED <<world, from, meta, backup, sram, idents, marks, history>>

\* A renamed metadata file keeps the time it was staged at.
InstallMeta ==
    LET f == run.file IN
    /\ run.pc = "recoverMeta"
    /\ meta' = IF MetaDigest(f) = journal[f].new THEN meta
               ELSE [meta EXCEPT ![f] = [digest |-> journal[f].new, time |-> journal[f].time]]
    /\ journal' = [journal EXCEPT ![f].staged = {}]
    /\ Go("recoverEnd")
    /\ UNCHANGED <<world, from, data, backup, sram, idents, marks, history>>

\* Where the caller goes on: the same slot again, or the next one with a record.
DropJournal ==
    /\ run.pc = "recoverEnd" /\ Whole(run.file)
    /\ journal' = [journal EXCEPT ![run.file] = None]
    /\ IF run.then = "record" THEN Record(run.source)
       ELSE Go(run.then)
    /\ UNCHANGED <<world, from, data, meta, backup, sram, idents, marks, history>>

\* prepare_pair: keep the originals, then journal the staged replacement.
BackupData ==
    /\ run.pc = "backup"
    /\ backup' = [backup EXCEPT ![run.file].data = IF @ = None THEN data[run.file] ELSE @]
    /\ Go("backupMeta")
    /\ UNCHANGED <<world, from, data, meta, journal, sram, idents, marks, history>>

BackupMeta ==
    /\ run.pc = "backupMeta"
    /\ backup' = [backup EXCEPT ![run.file].meta = IF @ = None THEN MetaDigest(run.file) ELSE @]
    /\ Go("journal")
    /\ UNCHANGED <<world, from, data, meta, journal, sram, idents, marks, history>>

WriteJournal ==
    LET f == run.file IN
    /\ run.pc = "journal"
    /\ journal' = [journal EXCEPT ![f] =
                     [oldData |-> data[f], oldMeta |-> MetaDigest(f), new |-> run.payload,
                      time |-> clock, staged |-> {"data", "meta"}]]
    /\ Go("recover")
    /\ UNCHANGED <<world, from, data, meta, backup, sram, idents, marks, history>>

-----------------------------------------------------------------------------
(* migrate_states, migrate_locks and the manifest of one pack. *)

\* The whole pack is read before anything is written.
ScanRefused(p) ==
    \E k \in Keys(p) : \E s \in Found(p, k) :
        LET item == Item(p, Position(k)) IN
        item.game /\ ~Resolved(item) /\ Ambiguous(item) /\ s.tag \in item.tags

ScanRefuse ==
    /\ run.pc = "sram" /\ Position(run.at) > Len(Menu(run.pack))
    /\ Refuse(ScanRefused(run.pack))

Scan ==
    /\ run.pc = "sram" /\ Position(run.at) > Len(Menu(run.pack))
    /\ ~ScanRefused(run.pack)
    /\ run' = [run EXCEPT !.pc = "state", !.then = "state", !.at = <<0, 0>>]
    /\ UNCHANGED <<world, from, pairs, sram, idents, marks, history>>

AtState == run.pc = "state" /\ Remaining # {}
Due == ~Suppressed(run.mem, CurrentKey, Source)

StateSkip ==
    /\ AtState /\ ~Due
    /\ run' = [run EXCEPT !.at = Current]
    /\ UNCHANGED <<world, from, pairs, sram, idents, marks, history>>

Recover(f, then) ==
    /\ journal[f] # None
    /\ run' = [run EXCEPT !.pc = "recover", !.file = f, !.then = then]
    /\ UNCHANGED <<world, from, pairs, sram, idents, marks, history>>

StateRecover == AtState /\ Due /\ Recover(Target, "state")

\* What the state in place says: import over it, only retag it, or leave it.
Imports(f) == data[f] # None => data[f] # Source /\ Source.at > meta[f].time
Retags(f) == data[f] = Source /\ data[f].tag # TagFor(Source)
InPlaceRefused(f) == data[f] # None /\ (~Whole(f) \/ TagFor(data[f]) = None)

StateRefuse ==
    /\ AtState /\ Due /\ journal[Target] = None
    /\ Refuse(InPlaceRefused(Target))

\* A bug: an older snapshot is passed over without a record.
StateKeepUnrecorded ==
    /\ AtState /\ Due /\ journal[Target] = None /\ ~InPlaceRefused(Target)
    /\ ~Imports(Target) /\ ~Retags(Target)
    /\ run' = [run EXCEPT !.at = Current]
    /\ UNCHANGED <<world, from, pairs, sram, idents, marks, history>>

\* A snapshot that is there already, or older, is recorded all the same.
StateKeep ==
    /\ AtState /\ Due /\ journal[Target] = None /\ ~InPlaceRefused(Target)
    /\ ~Imports(Target) /\ ~Retags(Target)
    /\ Record(Source)
    /\ UNCHANGED <<world, from, pairs, sram, idents, marks, history>>

\* prepare_pair: both members are staged and checked before anything else.
Prepare(f, payload, tag, then) ==
    run' = [run EXCEPT !.pc = "backup", !.file = f, !.source = payload,
                       !.payload = [payload EXCEPT !.tag = tag], !.then = then]

StateImport ==
    /\ AtState /\ Due /\ journal[Target] = None /\ ~InPlaceRefused(Target)
    /\ Imports(Target) \/ Retags(Target)
    /\ Prepare(Target, Source, TagFor(Source), "record")
    /\ UNCHANGED <<world, from, pairs, sram, idents, marks, history>>

\* legacy_lock_offset: the hundred lock fields lie in the order of their names,
\* _10_ to _69_ and _100_ to _139_; ":" stands for a character after "9".
LexKey(i) == LET n == IF i < 60 THEN i + 10 ELSE i + 40
             IN  IF n >= 100 THEN 2 * n ELSE 20 * n + 19
LockWord(i) == 10 + Cardinality({j \in 0 .. 99 : LexKey(j) < LexKey(i)})

LockMask(i) == LockWords[LockWord(world.base[run.pack] + i - 1)]

\* Only the active pack owns the live masks; a canonical or damaged mask stays out.
MigrateLocks ==
    /\ run.pc = "state" /\ Remaining = {}
    /\ LET bound(g) == {i \in 1 .. Len(Menu(run.pack)) :
                           LET item == Item(run.pack, i) IN
                           Resolved(item) /\ Owner(item) = g /\ LockMask(i) <= 15} IN
       locks' = IF world.active = run.pack /\ LiveIsOf(run.pack)
                THEN [g \in Games |-> IF locks[g] = None /\ bound(g) # {}
                                       THEN LockMask(CHOOSE i \in bound(g) :
                                                       \A j \in bound(g) : i <= j)
                                       ELSE locks[g]]
                ELSE locks
    /\ Go("manifest")
    /\ UNCHANGED <<world, from, pairs, bank, schema, bankBackup, flags, idents, marks, history>>

WriteManifest ==
    /\ run.pc = "manifest"
    /\ kept' = run.mem
    /\ Go("pack")
    /\ UNCHANGED <<world, from, pairs, sram, idents, v2, history>>

SyncEnd ==
    /\ run.pc = "pack" /\ run.left = {}
    /\ run' = [Idle EXCEPT !.pc = "store", !.left = Games]
    /\ settled' = settled \cup UNION {{Made(NewestOf(Usable(p, k))) : k \in Work(p)} :
                                        p \in {q \in Packs : Menu(q) # <<>>}}
    /\ UNCHANGED <<world, from, pairs, sram, idents, marks, clock, stops>>

-----------------------------------------------------------------------------
(* prepare_per_game_save_store, then the marker. *)

FilesOf(g) == {g} \X Slots
Journalled(g) == \E f \in FilesOf(g) : journal[f] # None
Empty(f) == data[f] = None /\ meta[f] = None

\* validate_canonical_states: the game's own layout and one of its tags.
StateAccepted(f) ==
    \/ Empty(f)
    \/ /\ Whole(f) /\ Kind(data[f]) = Kind([of |-> f[1]])
       /\ data[f].tag \in {RegionTag(f[1]), lib[f[1]].primary} \cup lib[f[1]].alts

NeedsRetag(f) ==
    data[f] # None /\ data[f].tag # RegionTag(f[1]) /\ data[f].tag \notin lib[f[1]].alts

StoreRefused(g) ==
    \/ \E f \in FilesOf(g) : ~StateAccepted(f)
    \/ owner[g] \notin {None, gid[g]}
    \/ owner[g] = gid[g] /\ bank[g] # None /\ ~schema[g]

StoreGame(g) == run.pc = "store" /\ g \in run.left

StoreRecover(f) == StoreGame(f[1]) /\ Recover(f, "store")

StoreRefuse(g) == StoreGame(g) /\ ~Journalled(g) /\ Refuse(StoreRefused(g))

\* Every slot of the game is accepted before the first is retagged.
StoreRetag(f) ==
    /\ StoreGame(f[1]) /\ ~Journalled(f[1])
    /\ \A e \in FilesOf(f[1]) : StateAccepted(e)
    /\ NeedsRetag(f)
    /\ Prepare(f, data[f], RegionTag(f[1]), "store")
    /\ UNCHANGED <<world, from, pairs, sram, idents, marks, history>>

StoreReady(g) ==
    /\ StoreGame(g) /\ ~Journalled(g) /\ ~StoreRefused(g)
    /\ \A f \in FilesOf(g) : ~NeedsRetag(f)

StoreOwner(g) ==
    /\ StoreReady(g) /\ owner[g] = None
    /\ owner' = [owner EXCEPT ![g] = gid[g]]
    /\ UNCHANGED <<world, from, pairs, sram, gid, native, marks, run, history>>

StoreSchema(g) ==
    /\ StoreReady(g) /\ owner[g] = gid[g]
    /\ schema' = [schema EXCEPT ![g] = TRUE]
    /\ run' = [run EXCEPT !.left = @ \ {g}]
    /\ UNCHANGED <<world, from, pairs, bank, bankBackup, locks, flags, idents, marks, history>>

Finish ==
    /\ run.pc = "store" /\ run.left = {}
    /\ v2' = TRUE
    /\ run' = Idle
    /\ UNCHANGED <<world, from, pairs, sram, idents, kept, history>>

-----------------------------------------------------------------------------
(* A run cut short, and what happens to the key between two runs. *)

Stop ==
    /\ "stop" \in Faults /\ stops < MaxStops
    /\ run.pc # "idle"
    /\ run' = Idle
    /\ stops' = stops + 1
    /\ UNCHANGED <<world, from, pairs, sram, idents, marks, clock, settled>>

\* Killed while the original is being copied aside.
StopInCopy ==
    LET f == run.file IN
    /\ "copy" \in Faults /\ stops < MaxStops
    /\ run.pc = "backup" /\ data[f] # None /\ backup[f].data = None
    /\ backup' = [backup EXCEPT ![f].data = Torn]
    /\ run' = Idle
    /\ stops' = stops + 1
    /\ UNCHANGED <<world, from, data, meta, journal, sram, idents, marks, clock, settled>>

Between == run.pc = "idle"

\* The old console saves a state of the active pack.
PlayLegacy(k) ==
    /\ Between /\ ~v2 /\ clock < MaxClock
    /\ world.active # None
    /\ k \in Keys(world.active)
    /\ LET item == Item(world.active, Position(k)) IN
       /\ item.game
       /\ from' = [from EXCEPT ![Live][k] = [tag |-> item.tag, of |-> item.of, at |-> clock + 1]]
    /\ clock' = clock + 1
    /\ UNCHANGED <<world, pairs, sram, idents, marks, run, stops, settled>>

\* A newer state gets into the game's own directory, or is deleted there.
PlayCanonical(f) ==
    /\ Between /\ clock < MaxClock
    /\ data' = [data EXCEPT ![f] = [tag |-> RegionTag(f[1]), of |-> f[1], at |-> clock + 1]]
    /\ meta' = [meta EXCEPT ![f] = [digest |-> data'[f], time |-> clock + 1]]
    /\ clock' = clock + 1
    /\ UNCHANGED <<world, from, journal, backup, sram, idents, marks, run, stops, settled>>

Delete(f) ==
    /\ Between /\ ~Empty(f)
    /\ data' = [data EXCEPT ![f] = None]
    /\ meta' = [meta EXCEPT ![f] = None]
    /\ UNCHANGED <<world, from, journal, backup, sram, idents, marks, run, history>>

\* An older editor rewrites game.json without the two fields.
OlderEditor(g) ==
    /\ Between /\ "olderEditor" \in Faults /\ stops < MaxStops
    /\ Identified(g)
    /\ stops' = stops + 1
    /\ gid' = [gid EXCEPT ![g] = None]
    /\ native' = [native EXCEPT ![g] = None]
    /\ UNCHANGED <<world, from, pairs, sram, owner, marks, run, clock, settled>>

-----------------------------------------------------------------------------
Init ==
    /\ world \in Worlds
    /\ from = world.from
    /\ data = [f \in Files |-> world.data[f]]
    /\ meta = [f \in Files |-> IF data[f] = None THEN None ELSE [digest |-> data[f], time |-> data[f].at]]
    /\ journal = [f \in Files |-> None]
    /\ backup = [f \in Files |-> [data |-> None, meta |-> None]]
    /\ bank = world.sram
    /\ schema = [g \in Games |-> FALSE] /\ bankBackup = [g \in Games |-> None]
    /\ locks = [g \in Games |-> None] /\ flags = FALSE
    /\ gid = world.gid /\ native = world.native
    /\ owner = [g \in Games |-> None]
    /\ kept = {} /\ v2 = FALSE
    /\ run = Idle
    /\ clock = world.clock /\ stops = 0
    /\ settled = {}

Next ==
    \/ Start \/ IdentifyRefuse \/ Sync \/ ScanRefuse \/ Scan \/ SyncEnd
    \/ \E g \in Games : Identify(g) \/ StoreRefuse(g) \/ StoreOwner(g) \/ StoreSchema(g)
                        \/ OlderEditor(g)
    \/ \E p \in Packs : SkipPack(p) \/ NextPack(p)
    \/ \E i \in 1 .. MaxMenu : SramRefuse(i) \/ SramSkip(i) \/ SramRetain(i) \/ SramReplace(i)
                             \/ SramMark(i)
    \/ RecoverRefuse \/ InstallData \/ InstallMeta \/ DropJournal
    \/ BackupData \/ BackupMeta \/ WriteJournal
    \/ StateSkip \/ StateRecover \/ StateRefuse \/ StateKeep \/ StateImport
    \/ MigrateLocks \/ WriteManifest \/ Finish
    \/ \E f \in Files : StoreRecover(f) \/ StoreRetag(f) \/ PlayCanonical(f) \/ Delete(f)
    \/ \E k \in (1 .. MaxMenu) \X Slots : PlayLegacy(k)
    \/ Stop \/ StopInCopy

Spec == Init /\ [][Next]_vars

-----------------------------------------------------------------------------
(* Safety. *)

\* However menus were reordered, games moved or tags reused since the last
\* publication, a game's directory only gets saves that this game made.
NoForeignSave ==
    /\ \A f \in Files : data[f] # None => data[f].of = f[1]
    /\ \A g \in Games : bank[g] # None => bank[g].of = g

\* At every moment the two files of a state agree, or the journal beside them
\* still completes the pair: no kill makes a save unreadable for good.
WholeOrJournalled ==
    \A f \in Files : Empty(f) \/ Whole(f) \/ (journal[f] # None /\ Completable(f))

\* A run, also one that finishes the journal of an earlier one, never puts an
\* older state over a newer one, and never removes a state.
NeverOlder ==
    [][\A f \in Files : run.pc # "idle" /\ data[f] # None =>
         data'[f] # None /\ data'[f].at >= data[f].at]_vars

Installs(f, seen) ==
    /\ run.pc # "idle" /\ data'[f] # data[f]
    /\ data[f] = None \/ data'[f].at # data[f].at
    /\ Made(data'[f]) \in seen

\* A snapshot that a complete synchronisation has handled is never imported
\* again, even when the player has deleted the state since.
OnceOnly == [][\A f \in Files : ~Installs(f, settled)]_vars

=============================================================================
