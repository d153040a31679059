---------------------------- MODULE LegacyExport ----------------------------
(***************************************************************************)
(* A legacy publication: what m2-publish writes for a library (library.rs,  *)
(* publish_pipeline.rs, title_mode_top.rs, title_prof.rs), and what the      *)
(* migration reads back of it (sync.rs).                                     *)
(*                                                                           *)
(* A library is two lineups.  A list is its gamelist.json (rows) and the     *)
(* directories beside it, a folder being a list of its own.  A pack is       *)
(* published for the root of a lineup and for each folder: a menu, a         *)
(* profile, and the saves at the positions of the menu.                      *)
(*                                                                           *)
(* Nothing here changes: these are functions of the library on the disk and  *)
(* of the packs published before.  Editors from before per-game saves wrote  *)
(* published/ in this way, and a standalone export is still written so.      *)
(* An SRAM block stands for one game's bytes wherever the array is taken to  *)
(* begin (the migration reads four bytes further on than the export writes). *)
(***************************************************************************)
EXTENDS Naturals, Sequences, FiniteSets

CONSTANT None

LineupMax == 50      \* items of a lineup in the menu
SavesPerGame == 4
SramGameCount == 150
Lineups == {"jp", "us"}

First(lineup) == IF lineup = "us" THEN LineupMax ELSE 0
SlotOffset(lineup) == SavesPerGame * First(lineup)

-----------------------------------------------------------------------------
(* The library as loaded (library.rs). *)

Rows(list) == DOMAIN list.rows
Dir(list, i) == list.dirs[list.rows[i]]
Folders(list) == {i \in Rows(list) : Dir(list, i).kind = "folder"}

\* A row without a directory, or a game without its game.json.
GamesRefused(list) ==
    \E i \in Rows(list) : \/ list.rows[i] \notin DOMAIN list.dirs
                          \/ Dir(list, i).kind = "game" /\ Dir(list, i).json = None

\* There is one level of folders.
LoadRefused(list) ==
    \/ GamesRefused(list)
    \/ \E i \in Folders(list) : GamesRefused(Dir(list, i)) \/ Folders(Dir(list, i)) # {}

\* load_game: the tag is the native one, the one of the ROM or the directory's name.
LoadGame(name, dir) ==
    [json |-> dir.json, dir |-> name, states |-> dir.states, sram |-> dir.sram,
     tag |-> CHOOSE t \in {dir.json.native, dir.json.region, name} :
               \/ t = dir.json.native /\ t # None
               \/ dir.json.native = None /\ t = dir.json.region /\ t # None
               \/ dir.json.native = None /\ dir.json.region = None /\ t = name]

LoadFolder(name, list) ==
    [kind |-> "folder", dir |-> name,
     games |-> [j \in Rows(list) |-> LoadGame(list.rows[j], Dir(list, j))]]

LoadLineup(list) ==
    [i \in Rows(list) |->
        IF i \in Folders(list) THEN LoadFolder(list.rows[i], Dir(list, i))
        ELSE [kind |-> "game", game |-> LoadGame(list.rows[i], Dir(list, i))]]

Load(library) == [l \in Lineups |-> LoadLineup(library[l])]

GamesOf(entry) ==
    IF entry.kind = "game" THEN {entry.game}
    ELSE {entry.games[j] : j \in DOMAIN entry.games}

AllGames(loaded) == UNION {UNION {GamesOf(loaded[l][i]) : i \in DOMAIN loaded[l]} : l \in Lineups}

\* save_state_type: the layout of the game's states, None for a card.
SaveType(game) ==
    CASE game.json.arch = "folder" -> None
      [] game.json.arch = "cd"     -> 11
      [] OTHER                     -> 12

-----------------------------------------------------------------------------
(* pack_roms. *)

\* No name, or a name that is no file, is passed over.
HasRom(game) == game.json.rom.file # None

\* game.pce, and a packed game.pce.m or .M, are published as game.pce.m.
PublishedRom(rom) == <<rom.file, IF rom.form = "disc" THEN "disc" ELSE "card">>

\* A file is missing, or two games publish different files under one name.
RomsRefused(games) ==
    \/ \E g \in games : HasRom(g) /\ g.json.rom.bytes = None
    \/ \E g, h \in games :
         /\ HasRom(g) /\ HasRom(h)
         /\ PublishedRom(g.json.rom) = PublishedRom(h.json.rom)
         /\ <<g.json.rom.form, g.json.rom.bytes>> # <<h.json.rom.form, h.json.rom.bytes>>

-----------------------------------------------------------------------------
(* The entries of a pack: games, and cards that have the shape of one. *)

\* A card's tag, and the short name the engine knows a long one by.
CardTag(lineup, dir) == <<"FOLDER", lineup, dir>>
Alias(i) == <<"FOLDER", i - 1>>

Card(lineup, dir, csize) ==
    [json |-> [of |-> None, id |-> None, native |-> None, region |-> CardTag(lineup, dir),
               alts |-> {}, arch |-> "folder", csize |-> csize,
               rom |-> [file |-> None, form |-> "raw", bytes |-> None]],
     dir |-> dir, tag |-> CardTag(lineup, dir), states |-> <<>>, sram |-> None]

FolderToGame(folder, lineup) == Card(lineup, folder.dir, 10)
BackCard(lineup) == Card(lineup, "BACK", 11)

\* emit_root_pack: folders are cards among the games.
RootList(entries, lineup) ==
    [i \in DOMAIN entries |-> IF entries[i].kind = "game" THEN entries[i].game
                              ELSE FolderToGame(entries[i], lineup)]

\* emit_folder_pack: the first entry leaves the folder.
FolderList(folder, lineup) == <<BackCard(lineup)>> \o folder.games

\* The packs of one lineup: their entries, by name.
PackLists(entries, lineup) ==
    LET folders == {i \in DOMAIN entries : entries[i].kind = "folder"} IN
    [name \in {"_root"} \cup {entries[i].dir : i \in folders} |->
        IF name = "_root" THEN RootList(entries, lineup)
        ELSE FolderList(entries[CHOOSE i \in folders : entries[i].dir = name], lineup)]

-----------------------------------------------------------------------------
(* The menu: the two lineups, in two languages. *)

MakeRealItem(game) ==
    [regionTag |-> game.tag, alts |-> game.json.alts, game_id |-> game.json.id,
     save_type |-> SaveType(game), csize |-> game.json.csize]

Dummy == [regionTag |-> "DUMMY", alts |-> {}, game_id |-> None, save_type |-> None, csize |-> 0]

MenuOf(list, lineup) ==
    [items |-> [k \in 0 .. 4 * LineupMax - 1 |->
                   LET i == (k % LineupMax) + 1
                       owner == IF (k \div LineupMax) % 2 = 0 THEN "jp" ELSE "us"
                   IN  IF owner = lineup /\ i \in DOMAIN list THEN MakeRealItem(list[i]) ELSE Dummy],
     titleNum |-> IF lineup = "jp" THEN Len(list) ELSE 0,
     titleNumTG |-> IF lineup = "us" THEN Len(list) ELSE 0]

(* The profile: by tag, the ROM and the index of the game's SRAM. *)

Claims(game) == {game.tag} \cup game.json.alts
\* Only a folder's tag is too long for the engine.
ProfileKeys(list, i) == IF list[i].json.csize = 10 THEN {Alias(i)} ELSE Claims(list[i])

\* Of two entries that claim one tag the later has it.
ProfileOf(list) ==
    [t \in UNION {ProfileKeys(list, i) : i \in DOMAIN list} |->
        LET claimants == {i \in DOMAIN list : t \in ProfileKeys(list, i)}
            last == CHOOSE i \in claimants : \A j \in claimants : j <= i
        IN  [index |-> last - 1, of |-> list[last].json.of]]

\* Too many entries, or a game with the name that stands for a card.
ListRefused(list) ==
    \/ Len(list) > LineupMax
    \/ \E i, j \in DOMAIN list : list[i].json.csize = 10 /\ Alias(i) \in Claims(list[j])

-----------------------------------------------------------------------------
(* The saves at their positions. *)

\* emit_pack_state_files: what an earlier publication left is removed first.
EmitStates(old, list, lineup) ==
    {f \in old : f.type \notin {11, 12}}
    \cup UNION {{[type |-> SaveType(list[i]), state |-> list[i].states[s],
                  slot |-> (i - 1) * SavesPerGame + s + SlotOffset(lineup)] :
                    s \in {n \in DOMAIN list[i].states : list[i].states[n] # None}} :
                  i \in {n \in DOMAIN list : SaveType(list[n]) # None}}

\* emit_pack_sram_bin: zeros (None) where there is no block of the right size.
EmitSram(list) == [i \in 1 .. SramGameCount |-> IF i \in DOMAIN list THEN list[i].sram ELSE None]

-----------------------------------------------------------------------------
(* publish: a folder that is gone leaves its pack where it was. *)

Refused(library) ==
    \/ \E l \in Lineups : LoadRefused(library[l])
    \/ RomsRefused(AllGames(Load(library)))
    \/ \E l \in Lineups :
         LET lists == PackLists(Load(library)[l], l)
         IN  \E name \in DOMAIN lists : ListRefused(lists[name])

Emit(old, list, lineup) ==
    [menu |-> MenuOf(list, lineup), profile |-> ProfileOf(list), sram |-> EmitSram(list),
     states |-> EmitStates(old, list, lineup)]

Publish(before, library) ==
    LET lists == [l \in Lineups |-> PackLists(Load(library)[l], l)]
        packs == UNION {{l} \X DOMAIN lists[l] : l \in Lineups}
        Old(p) == IF p \in DOMAIN before THEN before[p].states ELSE {}
    IN  [p \in packs \cup DOMAIN before |->
            IF p \in packs THEN Emit(Old(p), lists[p[1]][p[2]], p[1]) ELSE before[p]]

-----------------------------------------------------------------------------
(* What the migration reads of a pack. *)

\* published_items: the part of the menu that belongs to the lineup.
ReadItem(item, profile) ==
    [tag |-> item.regionTag, id |-> item.game_id, tags |-> {item.regionTag} \cup item.alts,
     game |-> item.csize \notin {10, 11} /\ item.save_type # None,
     of |-> IF item.regionTag \in DOMAIN profile THEN profile[item.regionTag].of ELSE None]

ReadMenu(pack, lineup) ==
    [i \in 1 .. (IF lineup = "us" THEN pack.menu.titleNumTG ELSE pack.menu.titleNum) |->
        ReadItem(pack.menu.items[First(lineup) + i - 1], pack.profile)]

\* migrate_states: the position and the slot in the number of a file.
ReadStates(pack, lineup, i, s) ==
    {f.state : f \in {e \in pack.states : e.slot >= SlotOffset(lineup)
                                       /\ (e.slot - SlotOffset(lineup)) \div SavesPerGame = i - 1
                                       /\ (e.slot - SlotOffset(lineup)) % SavesPerGame = s}}

ReadSram(pack, i) == pack.sram[i]

\* The console saves the SRAM of the game it plays at the index in the profile.
PlaySram(pack, tag, block) ==
    [pack EXCEPT !.sram[pack.profile[tag].index + 1] = [block EXCEPT !.of = pack.profile[tag].of]]
=============================================================================
