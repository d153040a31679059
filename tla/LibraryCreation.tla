--------------------------- MODULE LibraryCreation ---------------------------
(***************************************************************************)
(* How a library comes to a key: create_library stages one from a dump of  *)
(* the console and moves its three entries into the destination, which     *)
(* other programs use too; init_library completes the older layout with a  *)
(* BACKUP/game in place, file by file.  Either may fail or be killed.      *)
(*                                                                         *)
(* What the staging directory holds nobody else sees, so that a step there *)
(* is a whole stage of the preparation; outside each rename and each file  *)
(* is a step.                                                              *)
(***************************************************************************)
EXTENDS Naturals, Sequences, FiniteSets, SequencesExt

CONSTANTS
  Windows,     \* editors running on this computer
  User,        \* whatever else writes to the destination
  None,
  Files,       \* the console's own files a library needs, the engine among them
  Engine,
  Templates,   \* originals the editor derives the menu's resources from
  Lineups,
  Slots,       \* what a slot of a lineup may hold: a tag and a ROM
  Dummy,       \* the tag of an unused slot
  Dumps,       \* dumps one can choose
  Backups,     \* what BACKUP/game of the destination may hold
  Libraries,   \* what a library directory of the user may hold
  MaxActs,     \* bound: what the user does to the destination
  MaxFaults,   \* bound: failing steps
  MaxKills     \* bound: editors killed

\* A bug: the library is installed before what it needs.
LibraryFirst == <<"library", "game", "source">>

\* LIBRARY_ENTRIES, in the order they are installed.
Entries == <<"game", "library", "source">>
Names == {"game", "library", "source"}

TagNames == {s.tag : s \in Slots}
RomNames == {s.rom : s \in Slots}
Games == Lineups \X Slots

\* What library/ holds: originals, ROMs, games, a list for each lineup, and
\* the marker that makes the console read it.
LibraryDirs == [tmpl : SUBSET Templates, roms : SUBSET RomNames, dirs : SUBSET Games,
                lists : [Lineups -> {None} \cup SUBSET TagNames], marker : BOOLEAN]

\* Each listed game has its directory and its ROM.
Listed(library) ==
  \A l \in Lineups : library.lists[l] # None =>
    \A t \in library.lists[l] : \E g \in library.roms : <<l, [tag |-> t, rom |-> g]>> \in library.dirs

ASSUME CreationAssumption ==
  /\ User \notin Windows /\ None \notin Windows \cup {User}
  /\ Engine \in Files
  /\ MaxActs \in Nat /\ MaxFaults \in Nat /\ MaxKills \in Nat

\* A slot is a pair of names, and what is absent is neither a directory nor a list.
ASSUME SlotsAssumption ==
  /\ \A s \in Slots : s = [tag |-> s.tag, rom |-> s.rom]
  /\ \A d \in Dumps \cup Backups : d.slots \in [Lineups -> Seq(Slots)]
  /\ \A tags \in SUBSET TagNames : tags # None
  /\ None \notin [by : Windows \cup {User}, has : (SUBSET Files) \cup LibraryDirs]

\* The directories of the user are of the older layout: no marker, and lists
\* that name what is there.
ASSUME LibrariesAssumption ==
  /\ Libraries \subseteq LibraryDirs
  /\ \A c \in Libraries : ~c.marker /\ Listed(c)

VARIABLES
  exists,   \* is the destination a directory yet?
  dest,     \* its entries: None, or who made them and what they hold
  stage,    \* the same of each window's staging directory
  job,      \* the command each window runs
  told,     \* what it was told last
  stuck,    \* entries a rollback could not take back
  bounds    \* user acts, faults and kills so far

vars == <<exists, dest, stage, job, told, stuck, bounds>>

-----------------------------------------------------------------------------
(* Dumps *)

\* Source::open: an archive must be whole, and no name may be in it and beside it.
Opens(d) == ~d.truncated /\ d.loose \cap d.packed = {}

Listing(d) == d.loose \cup d.packed

\* "Check the full set up front, before a destination is visible."
Complete(d) == Opens(d) /\ Files \cup Templates \subseteq Listing(d)

\* extract_games skips the unused slots of a lineup.
Used(slots) == {i \in DOMAIN slots : slots[i].tag # Dummy}
Tags(slots) == {slots[i].tag : i \in Used(slots)}
Roms(slots) == {slots[i].rom : i \in Used(slots)}

\* No tag twice in a lineup, and the ROM every profile names is in the dump.
Extractable(d) ==
  \A l \in Lineups : /\ Cardinality(Tags(d.slots[l])) = Cardinality(Used(d.slots[l]))
                     /\ Roms(d.slots[l]) \subseteq Listing(d)

-----------------------------------------------------------------------------
(* Directories *)

Owned(w, content) == [by |-> w, has |-> content]
Nothing == [e \in Names |-> None]
Bare == [tmpl |-> {}, roms |-> {}, dirs |-> {}, lists |-> [l \in Lineups |-> None], marker |-> FALSE]

GameFiles == IF dest["game"] = None THEN {} ELSE dest["game"].has

\* check_library_status: a library is what has both lists.
HasLibrary == dest["library"] # None /\ \A l \in Lineups : dest["library"].has.lists[l] # None

\* source_library::prepare asks for the whole runtime and its originals.
Prepares(files, library) == Files \subseteq files /\ Templates \subseteq library.tmpl

Idle == [at |-> "idle", dump |-> None, games |-> FALSE, new |-> FALSE, moved |-> <<>>]
InPlace == {"lists", "resources", "templates", "enable"}
At(w, step) == job[w].at = step
Goto(w, step) == job' = [job EXCEPT ![w].at = step]
End(w, what) == job' = [job EXCEPT ![w] = Idle] /\ told' = [told EXCEPT ![w] = what]
AllIdle == \A w \in Windows : At(w, "idle")
NobodyCreates == \A w \in Windows : job[w].at \in InPlace \cup {"idle"}

Fault == bounds.faults < MaxFaults /\ bounds' = [bounds EXCEPT !.faults = @ + 1]

Init ==
  /\ exists \in BOOLEAN
  /\ dest = Nothing
  /\ stage = [w \in Windows |-> Nothing]
  /\ job = [w \in Windows |-> Idle]
  /\ told = [w \in Windows |-> "nothing"]
  /\ stuck = {}
  /\ bounds = [acts |-> 0, faults |-> 0, kills |-> 0]

-----------------------------------------------------------------------------
(* create_library: staging, in a directory of its own *)

\* library_destination: whatever else is there, none of the three names is.
Vacant == dest = Nothing

\* Windows may create side by side; none initialises the same key meanwhile.
BeginCreate(w, d, games) ==
  /\ At(w, "idle") /\ stage[w] = Nothing
  /\ \A v \in Windows : job[v].at \notin InPlace
  /\ Vacant /\ Complete(d)
  /\ job' = [job EXCEPT ![w] = [Idle EXCEPT !.at = "copy", !.dump = d, !.games = games, !.new = ~exists]]
  /\ told' = [told EXCEPT ![w] = "nothing"]
  /\ UNCHANGED <<exists, dest, stage, stuck, bounds>>

StageResources(w) ==
  /\ At(w, "copy")
  /\ stage' = [stage EXCEPT ![w].game = Owned(w, Files \cap Listing(job[w].dump)),
                            ![w].library = Owned(w, [Bare EXCEPT !.tmpl = Templates])]
  /\ Goto(w, "extract")
  /\ UNCHANGED <<exists, dest, told, stuck, bounds>>

\* One pool for the ROMs of both lineups; empty lists if no games are wanted.
StageGames(w) ==
  /\ At(w, "extract") /\ (job[w].games => Extractable(job[w].dump))
  /\ LET slots == [l \in Lineups |-> IF job[w].games THEN job[w].dump.slots[l] ELSE <<>>]
     IN stage' = [stage EXCEPT ![w].library = [@ EXCEPT
          !.has.roms = UNION {Roms(slots[l]) : l \in Lineups},
          !.has.dirs = UNION {{<<l, slots[l][i]>> : i \in Used(slots[l])} : l \in Lineups},
          !.has.lists = [l \in Lineups |-> Tags(slots[l])]]]
  /\ Goto(w, "prepare")
  /\ UNCHANGED <<exists, dest, told, stuck, bounds>>

\* source_library::prepare on the staged tree, then source.json.
StageRuntime(w) ==
  /\ At(w, "prepare")
  /\ Prepares(stage[w].game.has, stage[w].library.has)
  /\ stage' = [stage EXCEPT ![w].library.has.marker = TRUE, ![w].source = Owned(w, {})]
  /\ Goto(w, "check")
  /\ UNCHANGED <<exists, dest, told, stuck, bounds>>

\* The staging directory goes with its TempDir.
GiveUp(w) == stage' = [stage EXCEPT ![w] = Nothing] /\ End(w, "failed")

StageFails(w) ==
  /\ job[w].at \in {"copy", "extract", "prepare"}
  /\ \/ Fault
     \/ At(w, "extract") /\ job[w].games /\ ~Extractable(job[w].dump) /\ UNCHANGED bounds
  /\ GiveUp(w)
  /\ UNCHANGED <<exists, dest, stuck>>

-----------------------------------------------------------------------------
(* finish_staged_library *)

CheckAgain(w) ==
  /\ At(w, "check")
  /\ IF Vacant /\ job[w].new = ~exists
       THEN Goto(w, IF job[w].new THEN "whole" ELSE "absent") /\ UNCHANGED <<stage, told>>
       ELSE GiveUp(w)
  /\ UNCHANGED <<exists, dest, stuck, bounds>>

\* A new destination takes the whole directory in one rename.
InstallWhole(w) ==
  /\ At(w, "whole")
  /\ IF exists THEN GiveUp(w) /\ UNCHANGED <<exists, dest>>
               ELSE /\ exists' = TRUE /\ dest' = stage[w]
                    /\ stage' = [stage EXCEPT ![w] = Nothing]
                    /\ Goto(w, "identify") /\ UNCHANGED told
  /\ UNCHANGED <<stuck, bounds>>

NextEntry(w) == Entries[Len(job[w].moved) + 1]

\* require_absent; all three installed, the creation goes on.
RequireAbsent(w) ==
  /\ At(w, "absent")
  /\ Goto(w, IF Len(job[w].moved) = 3 THEN "identify"
             ELSE IF dest[NextEntry(w)] = None THEN "rename" ELSE "rollback")
  /\ UNCHANGED <<exists, dest, stage, told, stuck, bounds>>

Move(w, e) ==
  /\ dest' = [dest EXCEPT ![e] = stage[w][e]]
  /\ stage' = [stage EXCEPT ![w][e] = None]
  /\ job' = [job EXCEPT ![w].at = "absent", ![w].moved = Append(@, e)]

\* A bug: a plain rename replaces what has appeared since.
RenameReplacing(w) ==
  /\ At(w, "rename")
  /\ Move(w, NextEntry(w))
  /\ UNCHANGED <<exists, told, stuck, bounds>>

\* rename_without_replacement
Rename(w) ==
  /\ At(w, "rename")
  /\ IF dest[NextEntry(w)] = None THEN Move(w, NextEntry(w))
                              ELSE Goto(w, "rollback") /\ UNCHANGED <<dest, stage>>
  /\ UNCHANGED <<exists, told, stuck, bounds>>

RenameFails(w) ==
  /\ job[w].at \in {"whole", "rename"} /\ Fault
  /\ IF At(w, "whole") THEN GiveUp(w) ELSE Goto(w, "rollback") /\ UNCHANGED <<stage, told>>
  /\ UNCHANGED <<exists, dest, stuck>>

\* The last entry installed goes back first; a failure does not end the loop.
RollBack(w) ==
  /\ At(w, "rollback") /\ job[w].moved # <<>>
  /\ LET e == Last(job[w].moved) IN
       \/ /\ stage' = [stage EXCEPT ![w][e] = dest[e]]
          /\ dest' = [dest EXCEPT ![e] = None]
          /\ UNCHANGED <<stuck, bounds>>
       \/ Fault /\ stuck' = stuck \cup {e} /\ UNCHANGED <<stage, dest>>
  /\ job' = [job EXCEPT ![w].moved = Front(@)]
  /\ UNCHANGED <<exists, told>>

\* A bug: what could not go back is left, and the rest removed.
RemoveAlways(w) ==
  /\ At(w, "rollback") /\ job[w].moved = <<>>
  /\ stage' = [stage EXCEPT ![w] = Nothing]
  /\ End(w, IF \E e \in stuck : dest[e].by = w THEN "kept" ELSE "failed")
  /\ UNCHANGED <<exists, dest, stuck, bounds>>

\* "Never let TempDir delete the remaining half of a recovery set."
RolledBack(w) ==
  /\ At(w, "rollback") /\ job[w].moved = <<>>
  /\ IF \E e \in stuck : dest[e].by = w
       THEN End(w, "kept") /\ UNCHANGED stage
       ELSE GiveUp(w)
  /\ UNCHANGED <<exists, dest, stuck, bounds>>

\* migrate_library, in place: the games have their identities already.  When it
\* cannot read them the window says the creation failed.
Identify(w) ==
  /\ At(w, "identify")
  /\ \/ End(w, "done") /\ UNCHANGED bounds
     \/ End(w, "failed") /\ Fault
  /\ UNCHANGED <<exists, dest, stage, stuck>>

-----------------------------------------------------------------------------
(* init_library: in place, file by file *)

\* What is made in place belongs to the user, as what was there before does.
\* Windows may initialise side by side; none creates on the same key meanwhile.
BeginInit(w, d) ==
  /\ At(w, "idle") /\ NobodyCreates /\ stage[w] = Nothing
  /\ exists /\ ~HasLibrary
  /\ Files \cup Templates \subseteq d.loose
  /\ dest' = [dest EXCEPT !["library"] = IF @ = None THEN Owned(User, Bare) ELSE @]
  /\ job' = [job EXCEPT ![w] = [Idle EXCEPT !.at = "lists", !.dump = d]]
  /\ told' = [told EXCEPT ![w] = "nothing"]
  /\ UNCHANGED <<exists, stage, stuck, bounds>>

InitList(w) ==
  /\ At(w, "lists")
  /\ LET missing == {l \in Lineups : dest["library"].has.lists[l] = None} IN
       IF missing = {} THEN Opens(job[w].dump) /\ Goto(w, "resources") /\ UNCHANGED dest
       ELSE /\ \E l \in missing : dest' = [dest EXCEPT !["library"].has.lists[l] = {}]
            /\ UNCHANGED job
  /\ UNCHANGED <<exists, stage, told, stuck, bounds>>

\* copy_missing_resource: a file that is there stays, another comes whole or not.
CopyResource(w) ==
  /\ At(w, "resources")
  /\ IF Files \subseteq GameFiles THEN Goto(w, "templates") /\ UNCHANGED dest
     ELSE /\ \E f \in Files \ GameFiles :
               dest' = [dest EXCEPT !["game"] = IF @ = None THEN Owned(User, {f}) ELSE Owned(@.by, @.has \cup {f})]
          /\ UNCHANGED job
  /\ UNCHANGED <<exists, stage, told, stuck, bounds>>

CopyTemplate(w) ==
  /\ At(w, "templates")
  /\ LET missing == Templates \ dest["library"].has.tmpl IN
       IF missing = {} THEN Goto(w, "enable") /\ UNCHANGED dest
       ELSE /\ \E t \in missing : dest' = [dest EXCEPT !["library"].has.tmpl = @ \cup {t}]
            /\ UNCHANGED job
  /\ UNCHANGED <<exists, stage, told, stuck, bounds>>

Enable == dest' = [dest EXCEPT !["library"].has.marker = TRUE]

InitEnable(w) ==
  /\ At(w, "enable")
  /\ Prepares(GameFiles, dest["library"].has)
  /\ Enable /\ End(w, "initialised")
  /\ UNCHANGED <<exists, stage, stuck, bounds>>

\* An ambiguous backup is only found out once the lists are there.
InitFails(w) ==
  /\ job[w].at \in InPlace
  /\ Fault \/ (At(w, "lists") /\ HasLibrary /\ ~Opens(job[w].dump) /\ UNCHANGED bounds)
  /\ End(w, "initFailed")
  /\ UNCHANGED <<exists, dest, stage, stuck>>

\* openFolder with a library there: it is prepared if it has the engine, which
\* fails if anything else is missing; without it the editor works on it as it is.
OpenFolder(w) ==
  /\ At(w, "idle") /\ NobodyCreates /\ HasLibrary
  /\ IF ~dest["library"].has.marker /\ Engine \notin GameFiles
       THEN told' = [told EXCEPT ![w] = "bare"] /\ UNCHANGED dest
       ELSE IF Prepares(GameFiles, dest["library"].has)
              THEN Enable /\ told' = [told EXCEPT ![w] = "open"]
              ELSE told' = [told EXCEPT ![w] = "refused"] /\ UNCHANGED dest
  /\ UNCHANGED <<exists, stage, job, stuck, bounds>>

-----------------------------------------------------------------------------
(* Everybody else *)

Act == bounds.acts < MaxActs /\ bounds' = [bounds EXCEPT !.acts = @ + 1]

\* Another program makes the destination, or an entry of the same name in it.
UserPuts(e) ==
  /\ Act /\ exists /\ dest[e] = None
  /\ \E content \in CASE e = "game"    -> {{}, {Engine}, Files}
                       [] e = "library" -> Libraries
                       [] e = "source"  -> {{}} :
       dest' = [dest EXCEPT ![e] = Owned(User, content)]
  /\ UNCHANGED <<exists, stage, job, told, stuck>>

UserMakesDirectory ==
  /\ Act /\ ~exists /\ exists' = TRUE
  /\ UNCHANGED <<dest, stage, job, told, stuck>>

\* The user removes what is left of an attempt, the kept directories with it.
UserClears ==
  /\ Act /\ AllIdle /\ dest # Nothing
  /\ dest' = Nothing /\ stuck' = {}
  /\ stage' = [w \in Windows |-> Nothing]
  /\ told' = [w \in Windows |-> "nothing"]
  /\ UNCHANGED <<exists, job>>

\* The staging directory of a killed editor stays, under a name nobody reads.
Kill(w) ==
  /\ bounds.kills < MaxKills /\ ~At(w, "idle")
  /\ bounds' = [bounds EXCEPT !.kills = @ + 1]
  /\ stage' = [stage EXCEPT ![w] = Nothing]
  /\ End(w, "nothing")
  /\ UNCHANGED <<exists, dest, stuck>>

-----------------------------------------------------------------------------
Create(w) ==
  \/ \E d \in Dumps, games \in BOOLEAN : BeginCreate(w, d, games)
  \/ StageResources(w) \/ StageGames(w) \/ StageRuntime(w) \/ StageFails(w)
  \/ CheckAgain(w) \/ InstallWhole(w) \/ RequireAbsent(w) \/ Rename(w) \/ RenameFails(w)
  \/ RollBack(w) \/ RolledBack(w) \/ Identify(w)

Initialise(w) ==
  \/ (\E d \in Backups : BeginInit(w, d)) \/ InitList(w) \/ CopyResource(w) \/ CopyTemplate(w) \/ InitEnable(w) \/ InitFails(w)
  \/ OpenFolder(w)

Next ==
  \/ \E w \in Windows : Create(w) \/ Initialise(w) \/ Kill(w)
  \/ (\E e \in Names : UserPuts(e)) \/ UserMakesDirectory \/ UserClears

Spec == Init /\ [][Next]_vars

-----------------------------------------------------------------------------
(* Properties *)

Windowed(e) == dest[e] # None /\ dest[e].by \in Windows

\* Nothing that was in an entry has changed, whatever was added.
Keeps(e, old, new) ==
  CASE e = "game"    -> old \subseteq new
    [] e = "library" -> /\ old.tmpl \subseteq new.tmpl /\ old.roms = new.roms /\ old.dirs = new.dirs
                        /\ \A l \in Lineups : old.lists[l] # None => old.lists[l] = new.lists[l]
    [] e = "source"  -> TRUE

\* "Existing files were kept" (stock.rs): an entry only leaves the destination
\* through the rollback of the window that put it there, or by the user's hand,
\* and only gains files; whatever appears between a check and a rename.  Nobody
\* exchanges an entry that is installed.
OthersKept ==
  [][\A e \in Names : dest[e] # None =>
       \/ /\ dest'[e] # None /\ dest'[e].by = dest[e].by
          /\ Keeps(e, dest[e].has, dest'[e].has)
       \/ Windowed(e) /\ At(dest[e].by, "rollback")
       \/ bounds'.acts > bounds.acts]_vars

\* At every moment, kills included: a library a window has installed stands
\* beside the game directory of the same dump unless a rollback failed, and
\* each listed game has its directory and its ROM.
VisibleWhole ==
  dest["library"] # None =>
    LET library == dest["library"].has IN
      /\ Windowed("library") /\ stuck = {} =>
           /\ Windowed("game") /\ dest["game"].by = dest["library"].by
           /\ Files \subseteq GameFiles /\ library.marker
      /\ Listed(library)
      /\ library.marker /\ stuck = {} => Prepares(GameFiles, library)

\* What a window was told is true: after "done" the whole library is there;
\* after a failure all of it or nothing; and when the rollback failed each
\* entry is either in the destination or in the directory that was kept.
OutcomeTrue ==
  \A w \in Windows :
    LET mine == {e \in Names : dest[e] # None /\ dest[e].by = w} IN
      /\ told[w] = "done" => mine = Names
      /\ told[w] = "failed" => mine \in {{}, Names}
      /\ told[w] = "kept" => \A e \in Names : e \in mine \/ stage[w][e] # None
      /\ told[w] \in {"initialised", "open"} => HasLibrary /\ dest["library"].has.marker
=============================================================================
