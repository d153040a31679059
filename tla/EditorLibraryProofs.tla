------------------------ MODULE EditorLibraryProofs ------------------------
(***************************************************************************)
(* Proofs about EditorLibrary, for every set of names, games and ROMs, any *)
(* number of queued saves and of failed writes and crashes, and a user who *)
(* waits for the saves.  Renames either do not fail or are the only fault: *)
(* OneFault.  InductiveInv is inductive; CanOpen and NoResurrection follow *)
(* from it, and so does GamesAreKept, step by step.  ChoiceInv, which      *)
(* holds on top of it until a save fails, leads to EditsReachDisk.         *)
(***************************************************************************)
EXTENDS EditorLibrary, TLAPS

\* A rename that fails is the only fault: undoing a move then renames back.
OneFault == "rename" \in Faults => MaxFaults <= 1

-----------------------------------------------------------------------------
(* The inductive invariant *)

OpPcs == {"none", "drain", "run", "resave", "replace", "answer"}
           \cup DeletePcs \cup MovePcs \cup CleanPcs

Ops == [pc : OpPcs, kind : {"none", "delete", "move", "import"}, list : Lists,
        name : Names \cup {NoDir}, game : Games \cup {NoGame},
        rom : Roms \cup {NoRom}, old : Roms \cup {NoRom}, as : Names \cup {NoDir},
        freshMark : BOOLEAN, before : [Lists -> SUBSET Names], keep : SUBSET Roms,
        plan : [Lists -> SUBSET Entry], result : [Lists -> SUBSET Entry]]
Creations == [pc : {"none", "mkdir", "json", "reply"}, list : Lists,
              name : Names \cup {NoDir}, game : Games \cup {NoGame}, detached : BOOLEAN]
Snapshots == [list : Lists, games : SUBSET Entry, by : {"timer", "op"}]

DiskShape ==
  /\ rows \in [Lists -> SUBSET Names]
  /\ dirs \in [Lists -> [Names -> Dir \cup {NoDir}]]
  /\ pool \subseteq Roms /\ cleanup \subseteq Roms
WindowShape ==
  /\ up \in BOOLEAN /\ shown \in Lists /\ timer \in BOOLEAN
  /\ view \in [Lists -> SUBSET Entry]
QueueShape ==
  /\ saves \in Seq(Snapshots) /\ Len(saves) <= MaxSaves
  /\ writing \in BOOLEAN /\ left \subseteq Entry
OpShape == op \in Ops /\ creating \in Creations
HistoryShape ==
  /\ fresh \subseteq Games /\ deleted \subseteq Games
  /\ chosen \in [Games -> Roms \cup {NoRom}]
  /\ torn \in BOOLEAN /\ spoiled \in BOOLEAN /\ faults \in 0..MaxFaults
Shapes == DiskShape /\ WindowShape /\ QueueShape /\ OpShape /\ HistoryShape

\* The awaited save is behind the operation, which works from the disk.
Calm == op.pc \notin {"none", "drain", "resave"}

\* The directory the operation took away from the list it started in.
Gone == \/ op.kind = "delete" /\ op.pc \in CleanPcs \cup {"answer"}
        \/ op.kind = "move" /\ op.pc \in {"mvDest", "mvSource", "undoDir", "answer"}

Matches(l, e) == HasGame(l, e.name) /\ dirs[l][e.name].game = e.game
OnDisk(l, e) == Matches(l, e) /\ dirs[l][e.name].rom = e.rom
OneEach(entries) == \A e, f \in entries : e.name = f.name => e = f
Empty(l, n) == Exists(l, n) /\ ~HasGame(l, n)

\* Which steps each kind of operation takes, and in which window.
PhaseInv ==
  /\ ~up => /\ op = NoOp /\ creating = NoCreate /\ saves = <<>> /\ ~timer
            /\ ~writing /\ \A l \in Lists : view[l] = {}
  /\ op.pc # "none" => op.list = shown /\ op.name \in Names /\ op.game \in Games
  /\ op.pc \in DeletePcs => op.kind = "delete"
  /\ op.pc \in MovePcs => op.kind = "move" /\ op.as \in Names
  /\ op.pc \in CleanPcs => op.kind \in {"delete", "import"}
  /\ op.pc = "answer" => op.kind \in {"delete", "move"}
  /\ op.pc \in {"resave", "replace"} => op.kind = "import"
  /\ op.kind = "import" => op.rom \in Roms
  /\ op.pc \in {"undoDir", "undoDest", "undoSource"} => faults >= 1
  /\ creating.pc # "none" =>
       creating.list = shown /\ creating.name \in Names /\ creating.game \in Games
  /\ creating.pc # "none" /\ op.pc # "none" => ~timer

\* A shown entry is a game on disk, unless the operation took it away; what the
\* window holds unsaved is never more than its choice of ROM.
ViewLists ==
  /\ shown = "lineup" => view["folder"] = {}
  /\ \A l \in Lists : OneEach(view[l])
ViewGames ==
  \A l \in Lists : \A e \in view[l] :
    Matches(l, e) \/ (Gone /\ l = op.list /\ e.name = op.name)
ViewRoms ==
  \A l \in Lists : \A e \in view[l] : Matches(l, e) => e.rom \in pool \cup {NoRom}
ViewSaved ==
  /\ shown = "folder" => \A e \in view["lineup"] : OnDisk("lineup", e)
  /\ Calm => \A e \in view[shown] : Matches(shown, e) => OnDisk(shown, e)
ViewOp ==
  /\ op.pc # "none" =>
       \E e \in view[shown] : e.name = op.name /\ (op.kind # "delete" => e.game = op.game)
  /\ op.kind = "import" /\ op.pc \in {"drain", "run", "resave"} =>
       op.old \in pool \cup {NoRom}
  /\ op.pc = "resave" => op.rom \in pool
ViewNew ==
  /\ creating.pc # "none" /\ ~creating.detached =>
       \A e \in view[shown] : e.name # creating.name
  /\ creating.pc \in {"mkdir", "json"} =>
       \A l \in Lists : \A e \in view[l] : e.game # creating.game
ViewMoved ==
  op.pc \in {"mvDest", "mvSource", "undoDir"} =>
    /\ \A e \in view[shown] : e.name = op.name =>
         e.game = dirs[Dest][op.as].game /\ e.rom = dirs[Dest][op.as].rom
    /\ \A e \in view[Dest] : e.name # op.as
ViewInv ==
  /\ ViewLists /\ ViewGames /\ ViewRoms /\ ViewSaved
  /\ ViewOp /\ ViewNew /\ ViewMoved

\* The queue: a save never finds an empty directory, at most one save is awaited,
\* and after it nothing is queued but what the window showed then.
EntryFine(e) ==
  /\ ~Empty(shown, e.name)
  /\ Matches(shown, e) => e.rom \in pool \cup {NoRom}
  /\ creating.pc = "mkdir" /\ e.name = creating.name => Exists(shown, e.name)
  /\ creating.pc # "none" /\ ~creating.detached => e.name # creating.name
AwaitedAt(k) ==
  /\ \A i \in DOMAIN saves : saves[i].by = "op" <=> i = k
  /\ \A i \in DOMAIN saves : i >= k => saves[i].games \subseteq view[shown]
  /\ \A e \in view[shown] :
       \/ e \in saves[k].games
       \/ /\ OnDisk(shown, e)
          /\ \A i \in DOMAIN saves : \A f \in saves[i].games : i < k => f.name # e.name
  /\ creating.pc # "none" => k = Len(saves)
QueueHolds ==
  \A i \in DOMAIN saves :
    /\ saves[i].list = shown /\ OneEach(saves[i].games)
    /\ \A e \in saves[i].games : EntryFine(e)
QueueBy ==
  /\ op.pc \notin {"drain", "resave"} => \A i \in DOMAIN saves : saves[i].by = "timer"
  /\ op.pc \in {"drain", "resave"} => \E k \in DOMAIN saves : AwaitedAt(k)
QueueCalm ==
  /\ Calm => \A i \in DOMAIN saves : saves[i].games \subseteq view[shown]
  /\ Calm /\ creating.pc # "none" => saves = <<>>
QueueGone ==
  Gone /\ Empty(op.list, op.name) =>
    /\ ~timer /\ saves = <<>>
    /\ creating.pc = "none" \/ (creating.pc = "json" /\ creating.name = op.name)
QueueInv == QueueHolds /\ QueueBy /\ QueueCalm /\ QueueGone

\* The save under the mutex: what it wrote is on disk.
WriteInv ==
  /\ ~writing => left = {}
  /\ writing =>
       /\ saves # <<>> /\ left \subseteq Current.games
       /\ op.pc \notin DeletePcs \cup MovePcs
       /\ ~(op.pc \in CleanPcs /\ op.kind = "delete")
       /\ \A e \in Current.games : Exists(shown, e.name) /\ NotDeleted(shown, e.name)
       /\ \A e \in Current.games \ left : OnDisk(shown, e)

\* Identities on disk are distinct; one given out is new.
DiskIds ==
  /\ IdentitiesDistinct
  /\ \A p \in Places : GameAt(p) \notin fresh
  /\ fresh \cap deleted = {}
  /\ creating.pc \in {"mkdir", "json"} =>
       /\ creating.game \notin fresh \cup deleted
       /\ \A p \in Places : GameAt(p) # creating.game

\* A ROM some metadata names is in the pool, and no cleanup is about to remove it.
DiskRoms ==
  /\ RomsPresent
  /\ op.pc = "purge" => \A p \in Places : RomAt(p) \notin cleanup \ op.keep

\* A deleted game that is still on disk is marked and unlisted.
DiskDeleted ==
  \A p \in Places : GameAt(p) \in deleted => dirs[p[1]][p[2]].marked /\ p[2] \notin rows[p[1]]

\* What the window is about to show is on disk.
DiskAnswers ==
  /\ creating.pc = "reply" /\ ~creating.detached => OnDisk(shown, Created)
  /\ op.pc = "answer" => \A l \in Lists :
       OneEach(op.result[l]) /\ \A e \in op.result[l] : OnDisk(l, e)

DiskInv == DiskIds /\ DiskRoms /\ DiskDeleted /\ DiskAnswers

\* A deletion: the row leaves before the directory, and comes back only if the
\* deletion did not commit.
DeleteInv ==
  op.pc \in DeletePcs =>
    /\ HasGame(op.list, op.name) /\ dirs[op.list][op.name].game = op.game
    /\ op.pc = "delDir" => op.game \in deleted
    /\ op.pc # "delDir" =>
         /\ op.game \notin deleted /\ dirs[op.list][op.name].marked
         /\ rows \in {op.before, [op.before EXCEPT ![op.list] = @ \ {op.name}]}

\* A move: where its directory is, and how far the lists are from before.
MoveInv ==
  op.pc \in MovePcs =>
    LET source == op.before[op.list]
        dest == op.before[Dest]
    IN
    /\ op.name \in source /\ op.as \notin dest
    /\ op.pc \in {"mvRename", "undoDest", "undoSource"} =>
         /\ HasGame(op.list, op.name) /\ dirs[op.list][op.name].game = op.game
         /\ ~Exists(Dest, op.as)
    /\ op.pc \in {"mvDest", "mvSource", "undoDir"} =>
         /\ HasGame(Dest, op.as) /\ dirs[Dest][op.as].game = op.game
         /\ ~HasGame(op.list, op.name)
    /\ op.game \notin deleted
    /\ rows[op.list] \in {source, source \ {op.name}}
    /\ rows[Dest] \in {dest, dest \cup {op.as}}
    /\ op.pc \in {"mvRename", "mvDest", "mvSource"} => rows[op.list] = source
    /\ op.pc \in {"mvRename", "mvDest"} => rows[Dest] = dest
    /\ op.pc = "undoSource" /\ ~torn => rows[Dest] = dest

\* The lists name games, or did before the operation that is under way.
RowsInv ==
  /\ RowsHaveGames
  /\ ~torn /\ op.pc \in MovePcs \cup {"delRows", "delUndo"} =>
       \A l \in Lists : \A n \in op.before[l] :
         HasGame(l, n) \/ (Gone /\ l = op.list /\ n = op.name)

InductiveInv ==
  /\ Shapes /\ PhaseInv /\ ViewInv /\ QueueInv /\ WriteInv
  /\ DiskInv /\ DeleteInv /\ MoveInv /\ RowsInv

\* What the steps that change the operation leave of its shape.
LEMMA OpTyped ==
  ASSUME op \in Ops, NEW p \in OpPcs
  PROVE  /\ [op EXCEPT !.pc = p] \in Ops
         /\ \A r \in Roms \cup {NoRom} : [op EXCEPT !.pc = p, !.rom = r] \in Ops
         /\ \A k \in SUBSET Roms : [op EXCEPT !.pc = p, !.keep = k] \in Ops
         /\ \A q \in [Lists -> SUBSET Entry] :
              /\ [op EXCEPT !.pc = p, !.plan = q] \in Ops
              /\ [op EXCEPT !.pc = p, !.result = q] \in Ops
<1>1. [op EXCEPT !.pc = p] \in Ops BY DEF Ops
<1>2. ASSUME NEW r \in Roms \cup {NoRom} PROVE [op EXCEPT !.pc = p, !.rom = r] \in Ops
  BY DEF Ops
<1>3. ASSUME NEW k \in SUBSET Roms PROVE [op EXCEPT !.pc = p, !.keep = k] \in Ops
  BY DEF Ops
<1>4. ASSUME NEW q \in [Lists -> SUBSET Entry]
      PROVE  [op EXCEPT !.pc = p, !.plan = q] \in Ops
  BY DEF Ops
<1>5. ASSUME NEW q \in [Lists -> SUBSET Entry]
      PROVE  [op EXCEPT !.pc = p, !.result = q] \in Ops
  BY DEF Ops
<1>6. QED BY <1>1, <1>2, <1>3, <1>4, <1>5

\* No operation and no creation are of their shapes.
LEMMA NoOpTyped == NoOp \in Ops /\ NoCreate \in Creations
BY DEF NoOp, Ops, OpPcs, Lists, NoCreate, Creations

\* What a game's metadata holds is of its shape.
LEMMA DirTyped ==
  ASSUME DiskShape, NEW l \in Lists, NEW n \in Names, dirs[l][n] # NoDir
  PROVE  /\ dirs[l][n] \in Dir /\ dirs[l][n].game \in Games \cup {NoGame}
         /\ dirs[l][n].rom \in Roms \cup {NoRom} /\ dirs[l][n].marked \in BOOLEAN
BY DEF DiskShape, Dir

\* The window loads entries.
LEMMA LoadTyped ==
  ASSUME DiskShape, NEW l \in Lists
  PROVE  Load(l) \in SUBSET Entry
<1>1. ASSUME NEW n \in rows[l], HasGame(l, n)
      PROVE  [name |-> n, game |-> dirs[l][n].game, rom |-> dirs[l][n].rom] \in Entry
  <2>1. n \in Names BY DEF DiskShape
  <2>2. QED BY <1>1, <2>1, DirTyped DEF Entry, HasGame, Exists
<1>2. QED BY <1>1 DEF Load

\* Changing one directory leaves the others alone.
LEMMA OneDir ==
  ASSUME DiskShape, NEW l \in Lists, NEW n \in Names, NEW d \in Dir \cup {NoDir},
         dirs' = [dirs EXCEPT ![l][n] = d]
  PROVE  /\ dirs' \in [Lists -> [Names -> Dir \cup {NoDir}]]
         /\ dirs'[l][n] = d
         /\ \A k \in Lists, m \in Names : k # l \/ m # n => dirs'[k][m] = dirs[k][m]
BY DEF DiskShape

\* Writing a game's metadata keeps its marker.
LEMMA PutGameEffect ==
  ASSUME DiskShape, NEW l \in Lists, NEW e \in Entry, Exists(l, e.name), PutGame(l, e)
  PROVE  /\ dirs' \in [Lists -> [Names -> Dir \cup {NoDir}]]
         /\ dirs'[l][e.name] # NoDir /\ dirs'[l][e.name].game = e.game
         /\ dirs'[l][e.name].rom = e.rom
         /\ dirs'[l][e.name].marked = dirs[l][e.name].marked
         /\ \A k \in Lists, m \in Names : k # l \/ m # e.name => dirs'[k][m] = dirs[k][m]
<1> DEFINE d == [dirs[l][e.name] EXCEPT !.game = e.game, !.rom = e.rom]
<1>1. e.name \in Names /\ e.game \in Games /\ e.rom \in Roms \cup {NoRom} BY DEF Entry
<1>2. dirs[l][e.name] \in Dir BY <1>1, DirTyped DEF Exists
<1>3. /\ d \in Dir /\ d # NoDir
      /\ d.game = e.game /\ d.rom = e.rom /\ d.marked = dirs[l][e.name].marked
  BY <1>1, <1>2, DistinctAssumption DEF Dir
<1>4. dirs' = [dirs EXCEPT ![l][e.name] = d] BY DEF PutGame
<1> HIDE DEF d
<1>5. /\ dirs' \in [Lists -> [Names -> Dir \cup {NoDir}]] /\ dirs'[l][e.name] = d
      /\ \A k \in Lists, m \in Names : k # l \/ m # e.name => dirs'[k][m] = dirs[k][m]
  <2>1. d \in Dir \cup {NoDir} BY <1>3
  <2>2. ASSUME NEW n \in Names, dirs' = [dirs EXCEPT ![l][n] = d]
        PROVE  /\ dirs' \in [Lists -> [Names -> Dir \cup {NoDir}]] /\ dirs'[l][n] = d
               /\ \A k \in Lists, m \in Names : k # l \/ m # n => dirs'[k][m] = dirs[k][m]
    BY <2>1, <2>2 DEF DiskShape
  <2>3. QED BY <1>1, <1>4, <2>2, Zenon
<1>6. QED BY <1>3, <1>5

Marks(l, n, on) == dirs' = [dirs EXCEPT ![l][n].marked = on]

\* Setting a marker changes nothing else.
LEMMA MarkEffect ==
  ASSUME DiskShape, NEW l \in Lists, NEW n \in Names, Exists(l, n), NEW on \in BOOLEAN,
         Marks(l, n, on)
  PROVE  /\ dirs' \in [Lists -> [Names -> Dir \cup {NoDir}]]
         /\ dirs'[l][n] # NoDir /\ dirs'[l][n].game = dirs[l][n].game
         /\ dirs'[l][n].rom = dirs[l][n].rom /\ dirs'[l][n].marked = on
         /\ \A k \in Lists, m \in Names : k # l \/ m # n => dirs'[k][m] = dirs[k][m]
<1> DEFINE d == [dirs[l][n] EXCEPT !.marked = on]
<1>1. dirs[l][n] \in Dir BY DirTyped DEF Exists
<1>2. /\ d # NoDir
      /\ d.game = dirs[l][n].game /\ d.rom = dirs[l][n].rom /\ d.marked = on
  BY <1>1, DistinctAssumption DEF Dir
<1>3. d \in Dir \cup {NoDir} BY <1>1 DEF Dir
<1>4. dirs' = [dirs EXCEPT ![l][n] = d] BY DEF Marks
<1> HIDE DEF d
<1>5. /\ dirs' \in [Lists -> [Names -> Dir \cup {NoDir}]] /\ dirs'[l][n] = d
      /\ \A k \in Lists, m \in Names : k # l \/ m # n => dirs'[k][m] = dirs[k][m]
  BY <1>3, <1>4 DEF DiskShape
<1>6. QED BY <1>2, <1>5

\* A rename moves one directory over another place.
LEMMA RenamedEffect ==
  ASSUME DiskShape, NEW l \in Lists, NEW n \in Names, NEW k \in Lists, NEW m \in Names,
         k # l, dirs' = Renamed(l, n, k, m)
  PROVE  /\ dirs' \in [Lists -> [Names -> Dir \cup {NoDir}]]
         /\ dirs'[k][m] = dirs[l][n] /\ dirs'[l][n] = NoDir
         /\ \A i \in Lists, j \in Names :
              (i # l \/ j # n) /\ (i # k \/ j # m) => dirs'[i][j] = dirs[i][j]
<1>1. /\ dirs[l] \in [Names -> Dir \cup {NoDir}] /\ dirs[k] \in [Names -> Dir \cup {NoDir}]
      /\ DOMAIN dirs = Lists
  BY DEF DiskShape
<1>2. /\ dirs'[k] = [dirs[k] EXCEPT ![m] = dirs[l][n]]
      /\ dirs'[l] = [dirs[l] EXCEPT ![n] = NoDir]
      /\ \A i \in Lists : i # k /\ i # l => dirs'[i] = dirs[i]
      /\ DOMAIN dirs' = Lists /\ dirs' = [i \in Lists |-> dirs'[i]]
  BY <1>1 DEF Renamed
<1>3. /\ dirs'[k] \in [Names -> Dir \cup {NoDir}] /\ dirs'[l] \in [Names -> Dir \cup {NoDir}]
  BY <1>1, <1>2
<1>4. dirs' \in [Lists -> [Names -> Dir \cup {NoDir}]]
  BY <1>2, <1>3 DEF DiskShape
<1>5. QED BY <1>1, <1>2, <1>4

\* A created directory holds no game yet.
LEMMA EmptyDirTyped ==
  [game |-> NoGame, rom |-> NoRom, marked |-> FALSE] \in Dir
BY DEF Dir

\* The snapshot at the head of the queue, and the queue without it.
LEMMA CurrentTyped ==
  ASSUME QueueShape, saves # <<>>
  PROVE  /\ Current \in Snapshots /\ Current.list \in Lists
         /\ Current.games \subseteq Entry
         /\ Current = saves[1] /\ 1 \in DOMAIN saves
         /\ Tail(saves) \in Seq(Snapshots) /\ Len(Tail(saves)) = Len(saves) - 1
         /\ \A i \in DOMAIN Tail(saves) : Tail(saves)[i] = saves[i + 1] /\ i + 1 \in DOMAIN saves
         /\ Len(saves) \in Nat /\ Len(saves) >= 1
<1>1. saves \in Seq(Snapshots) BY DEF QueueShape
<1>2. Len(saves) \in Nat /\ Len(saves) >= 1 /\ DOMAIN saves = 1..Len(saves) BY <1>1
<1>3. Current = saves[1] BY DEF Current
<1>4. saves[1] \in Snapshots BY <1>1, <1>2
<1>5. /\ Tail(saves) \in Seq(Snapshots) /\ Len(Tail(saves)) = Len(saves) - 1
      /\ \A i \in DOMAIN Tail(saves) : Tail(saves)[i] = saves[i + 1] /\ i + 1 \in DOMAIN saves
  BY <1>1, <1>2
<1>6. QED BY <1>2, <1>3, <1>4, <1>5 DEF Snapshots

\* A snapshot added to the queue is its last.
LEMMA AppendTyped ==
  ASSUME QueueShape, NEW s \in Snapshots
  PROVE  /\ Append(saves, s) \in Seq(Snapshots)
         /\ Len(Append(saves, s)) = Len(saves) + 1 /\ Len(saves) \in Nat
         /\ DOMAIN Append(saves, s) = 1..(Len(saves) + 1) /\ DOMAIN saves = 1..Len(saves)
         /\ Append(saves, s)[Len(saves) + 1] = s
         /\ \A i \in DOMAIN saves : Append(saves, s)[i] = saves[i]
BY DEF QueueShape

\* A fault is counted up to the bound.
LEMMA FaultCounted ==
  ASSUME HistoryShape, NoFault \/ \E k \in {"write", "rename", "crash"} : Fault(k)
  PROVE  faults' \in 0..MaxFaults /\ faults' >= faults
BY BoundsAssumption DEF HistoryShape, Fault, NoFault

-----------------------------------------------------------------------------
(* What the steps do, field by field. *)

OpKept == /\ op'.kind = op.kind /\ op'.list = op.list /\ op'.name = op.name
          /\ op'.old = op.old /\ op'.as = op.as
OpMoves(pc) == op'.pc = pc /\ OpKept /\ op'.game = op.game /\ op'.rom = op.rom
OpDirs(pc) == OpMoves(pc) /\ op'.before = op.before /\ op'.freshMark = op.freshMark
OnlyDir(l, n) == \A k \in Lists, m \in Names : k # l \/ m # n => dirs'[k][m] = dirs[k][m]
OpEnds == op' = NoOp /\ op'.pc = "none" /\ op'.kind = "none"

\* What no operation and no creation hold.
LEMMA Idle ==
  /\ NoOp.pc = "none" /\ NoOp.kind = "none" /\ NoOp.list = "lineup"
  /\ NoCreate.pc = "none" /\ NoCreate.detached = FALSE
BY DEF NoOp, NoCreate

\* The shapes, as the other proofs use them.
LEMMA InvShapes ==
  ASSUME InductiveInv
  PROVE  /\ DiskShape /\ WindowShape /\ QueueShape /\ OpShape /\ HistoryShape
         /\ op \in Ops /\ creating \in Creations /\ shown \in Lists
         /\ op.list \in Lists /\ creating.list \in Lists /\ faults \in Nat
         /\ op.pc # "none" => up
         /\ creating.pc # "none" => up
BY Idle, BoundsAssumption
   DEF InductiveInv, Shapes, OpShape, WindowShape, HistoryShape, Ops, Creations, PhaseInv

\* The head of the queue is a save of the shown list.
LEMMA HeadOfQueue ==
  ASSUME InductiveInv, saves # <<>>
  PROVE  /\ Current = saves[1] /\ 1 \in DOMAIN saves /\ Current.list = shown
         /\ Current.games \subseteq Entry /\ OneEach(Current.games)
         /\ Current.by \in {"timer", "op"}
         /\ Current.by = "op" => op.pc \in {"drain", "resave"}
<1>1. Current = saves[1] /\ 1 \in DOMAIN saves /\ Current \in Snapshots
  BY InvShapes, CurrentTyped
<1>2. Current.list = shown /\ OneEach(Current.games)
  BY <1>1 DEF InductiveInv, QueueInv, QueueHolds
<1>3. Current.by = "op" => op.pc \in {"drain", "resave"}
  BY <1>1 DEF InductiveInv, QueueInv, QueueBy
<1>4. QED BY <1>1, <1>2, <1>3 DEF Snapshots

\* A save succeeds: the operation that awaits it goes on.
LEMMA EndSaveOk ==
  ASSUME InductiveInv, saves # <<>>, EndSave(TRUE)
  PROVE  /\ saves' = Tail(saves) /\ writing' = FALSE /\ left' = {}
         /\ UNCHANGED <<up, shown, timer, creating, fresh, deleted, torn, view, chosen>>
         /\ \/ Current.by = "timer" /\ op' = op
            \/ Current.by = "op" /\ op.pc = "resave" /\ OpMoves("replace")
            \/ Current.by = "op" /\ op.pc = "drain" /\ OpMoves("run")
<1>1. Current.by \in {"timer", "op"} /\ (Current.by = "op" => op.pc \in {"drain", "resave"})
  BY HeadOfQueue
<1>2. op \in Ops BY InvShapes
<1>3. ASSUME NEW q, op' = [op EXCEPT !.pc = "run", !.plan = q] PROVE OpMoves("run")
  BY <1>2, <1>3 DEF OpMoves, OpKept, Ops
<1>4. ASSUME op' = [op EXCEPT !.pc = "replace"] PROVE OpMoves("replace")
  BY <1>2, <1>4 DEF OpMoves, OpKept, Ops
<1>5. CASE Current.by = "timer" BY <1>5 DEF EndSave, Awaited
<1>6. CASE Current.by = "op"
  <2>1. UNCHANGED <<view, chosen>> /\ (op.pc = "resave" => op' = [op EXCEPT !.pc = "replace"])
        /\ (op.pc = "drain" => op' = [op EXCEPT !.pc = "run",
              !.plan = IF op.kind = "import" THEN op.plan ELSE Plan])
    BY <1>6 DEF EndSave, Awaited
  <2>2. QED BY <1>1, <1>3, <1>4, <1>6, <2>1 DEF EndSave
<1>7. QED BY <1>1, <1>5, <1>6

\* A save fails: so does the operation that awaits it, and an import takes its
\* choice of ROM back.
LEMMA EndSaveFails ==
  ASSUME InductiveInv, saves # <<>>, EndSave(FALSE)
  PROVE  /\ saves' = Tail(saves) /\ writing' = FALSE /\ left' = {}
         /\ UNCHANGED <<up, shown, timer, creating, fresh, deleted, torn>>
         /\ \/ Current.by = "timer" /\ UNCHANGED <<op, view>>
            \/ Current.by = "op" /\ op.pc = "drain" /\ OpEnds /\ UNCHANGED view
            \/ /\ Current.by = "op" /\ op.pc = "resave" /\ OpEnds
               /\ view' = [view EXCEPT ![op.list] = WithRom(@, op.game, op.old)]
<1>1. Current.by \in {"timer", "op"} /\ (Current.by = "op" => op.pc \in {"drain", "resave"})
  BY HeadOfQueue
<1>2. CASE Current.by = "timer" BY <1>2 DEF EndSave, Awaited
<1>3. CASE Current.by = "op" BY <1>1, <1>3, Idle DEF EndSave, Awaited, OpEnds
<1>4. QED BY <1>1, <1>2, <1>3

\* The metadata a save writes is that of the same game, with the ROM of its entry;
\* while an operation works from the disk it changes nothing.
LEMMA SavePut ==
  ASSUME InductiveInv, writing, NEW e \in left, MayWrite(Current.list, e)
  PROVE  /\ saves # <<>> /\ e \in Current.games /\ e \in Entry /\ Current.list = shown
         /\ Matches(shown, e) /\ e.rom \in pool \cup {NoRom}
         /\ Calm => e \in view[shown] /\ OnDisk(shown, e)
<1>1. saves # <<>> /\ e \in Current.games BY DEF InductiveInv, WriteInv
<1>2. e \in Entry /\ Current.list = shown /\ Current = saves[1] /\ 1 \in DOMAIN saves
  BY <1>1, HeadOfQueue
<1>3. ~Empty(shown, e.name) /\ (Matches(shown, e) => e.rom \in pool \cup {NoRom})
      /\ (Calm => Current.games \subseteq view[shown])
  BY <1>1, <1>2 DEF InductiveInv, QueueInv, QueueHolds, QueueCalm, EntryFine
<1>4. Matches(shown, e) BY <1>2, <1>3 DEF MayWrite, Empty, Matches
<1>5. QED BY <1>1, <1>2, <1>3, <1>4 DEF InductiveInv, ViewInv, ViewSaved

Rewrites(e) ==
  /\ \A k \in Lists, n \in Names :
       /\ dirs'[k][n] = NoDir <=> dirs[k][n] = NoDir
       /\ dirs'[k][n] # NoDir =>
            /\ dirs'[k][n].game = dirs[k][n].game /\ dirs'[k][n].marked = dirs[k][n].marked
            /\ IF k = shown /\ n = e.name THEN dirs'[k][n].rom = e.rom
                                          ELSE dirs'[k][n].rom = dirs[k][n].rom
  /\ Calm => \A k \in Lists, n \in Names :
               dirs'[k][n] # NoDir => dirs'[k][n].rom = dirs[k][n].rom

\* So writing it changes one ROM at most.
LEMMA SavePutEffect ==
  ASSUME InductiveInv, writing, NEW e \in left, MayWrite(Current.list, e),
         PutGame(Current.list, e)
  PROVE  Rewrites(e)
<1>1. /\ e \in Entry /\ Current.list = shown /\ Matches(shown, e) /\ (Calm => OnDisk(shown, e))
      /\ shown \in Lists /\ DiskShape
  BY SavePut, InvShapes
<1>2. Exists(shown, e.name) /\ e.name \in Names BY <1>1 DEF Matches, HasGame, Entry
<1>3. /\ dirs'[shown][e.name] # NoDir /\ dirs'[shown][e.name].game = e.game
      /\ dirs'[shown][e.name].rom = e.rom
      /\ dirs'[shown][e.name].marked = dirs[shown][e.name].marked
      /\ \A k \in Lists, m \in Names : k # shown \/ m # e.name => dirs'[k][m] = dirs[k][m]
  BY <1>1, <1>2, PutGameEffect
<1>4. QED BY <1>1, <1>2, <1>3 DEF Rewrites, OnDisk, Matches, Exists, HasGame

\* Add game: an empty directory, then its metadata.
NewDir == [game |-> NoGame, rom |-> NoRom, marked |-> FALSE]

\* A new directory holds no game.
LEMMA MadeEffect ==
  ASSUME DiskShape, NEW l \in Lists, NEW n \in Names, dirs' = [dirs EXCEPT ![l][n] = NewDir]
  PROVE  /\ dirs'[l][n] # NoDir /\ dirs'[l][n].game = NoGame /\ ~dirs'[l][n].marked
         /\ OnlyDir(l, n)
<1>1. NewDir # NoDir /\ NewDir.game = NoGame /\ ~NewDir.marked
  BY EmptyDirTyped, DistinctAssumption DEF NewDir
<1>2. NewDir \in Dir \cup {NoDir} BY EmptyDirTyped DEF NewDir
<1>3. dirs'[l][n] = NewDir BY <1>2, OneDir
<1>4. OnlyDir(l, n) BY <1>2, OneDir DEF OnlyDir
<1>5. QED BY <1>1, <1>3, <1>4

\* Creation: the directory, or nothing when the name is taken.
LEMMA CreateDirEffect ==
  ASSUME InductiveInv, CreateDir
  PROVE  /\ creating.pc = "mkdir" /\ creating.list = shown /\ creating.name \in Names
         /\ \/ /\ creating' = NoCreate /\ UNCHANGED dirs
            \/ /\ ~Exists(shown, creating.name)
               /\ dirs'[shown][creating.name] # NoDir
               /\ dirs'[shown][creating.name].game = NoGame
               /\ ~dirs'[shown][creating.name].marked
               /\ OnlyDir(shown, creating.name)
               /\ creating'.pc = "json" /\ creating'.list = creating.list
               /\ creating'.name = creating.name /\ creating'.game = creating.game
               /\ creating'.detached = creating.detached
<1>1. creating.pc = "mkdir" /\ creating.list = shown /\ creating.name \in Names /\ shown \in Lists
  BY InvShapes DEF CreateDir, InductiveInv, PhaseInv
<1>2. CASE IdentitiesDistinct /\ ~Exists(shown, creating.name)
  <2>1. dirs' = [dirs EXCEPT ![shown][creating.name] = NewDir]
    BY <1>1, <1>2 DEF CreateDir, NewDir
  <2>2. /\ dirs'[shown][creating.name] # NoDir /\ dirs'[shown][creating.name].game = NoGame
        /\ ~dirs'[shown][creating.name].marked /\ OnlyDir(shown, creating.name)
    BY <1>1, <2>1, MadeEffect, InvShapes
  <2>3. creating' = [creating EXCEPT !.pc = "json"] BY <1>1, <1>2 DEF CreateDir
  <2>4. /\ creating'.pc = "json" /\ creating'.list = creating.list
        /\ creating'.name = creating.name /\ creating'.game = creating.game
        /\ creating'.detached = creating.detached
    BY <2>3, InvShapes DEF Creations
  <2>5. QED BY <1>1, <1>2, <2>2, <2>4
<1>3. CASE ~(IdentitiesDistinct /\ ~Exists(shown, creating.name))
  BY <1>1, <1>3 DEF CreateDir
<1>4. QED BY <1>2, <1>3

\* The metadata of a new game goes into a directory that holds no game.
LEMMA CreatedPut ==
  ASSUME InductiveInv, creating.pc = "json", MayWrite(creating.list, Created),
         PutGame(creating.list, Created)
  PROVE  /\ creating.list = shown /\ creating.name \in Names /\ creating.game \in Games
         /\ Empty(shown, creating.name)
         /\ dirs'[shown][creating.name] # NoDir
         /\ dirs'[shown][creating.name].game = creating.game
         /\ dirs'[shown][creating.name].rom = NoRom
         /\ dirs'[shown][creating.name].marked = dirs[shown][creating.name].marked
         /\ OnlyDir(shown, creating.name)
<1>1. creating.list = shown /\ creating.name \in Names /\ creating.game \in Games /\ shown \in Lists
  BY InvShapes DEF InductiveInv, PhaseInv
<1>2. Created \in Entry /\ Created.name = creating.name /\ Created.game = creating.game
      /\ Created.rom = NoRom
  BY <1>1 DEF Created, Entry
<1>3. Exists(shown, creating.name) BY <1>1, <1>2 DEF MayWrite
<1>4. ~HasGame(shown, creating.name)
  <2>1. SUFFICES ASSUME HasGame(shown, creating.name) PROVE FALSE OBVIOUS
  <2>2. dirs[shown][creating.name].game = creating.game BY <1>1, <1>2, <2>1 DEF MayWrite
  <2>3. <<shown, creating.name>> \in Places BY <1>1, <2>1 DEF Places
  <2>4. QED BY <2>2, <2>3 DEF InductiveInv, DiskInv, DiskIds, GameAt
<1>5. /\ dirs'[shown][Created.name] # NoDir /\ dirs'[shown][Created.name].game = Created.game
      /\ dirs'[shown][Created.name].rom = Created.rom
      /\ dirs'[shown][Created.name].marked = dirs[shown][Created.name].marked
      /\ \A k \in Lists, m \in Names : k # shown \/ m # Created.name => dirs'[k][m] = dirs[k][m]
  BY <1>1, <1>2, <1>3, PutGameEffect, InvShapes
<1>6. QED BY <1>1, <1>2, <1>3, <1>4, <1>5 DEF Empty, OnlyDir

\* Deletion: the marker.
LEMMA DeleteMarkEffect ==
  ASSUME InductiveInv, DeleteMark
  PROVE  /\ op.kind = "delete" /\ op.pc = "run" /\ ~Locked /\ op.list = shown /\ op.name \in Names
         /\ \/ UNCHANGED dirs /\ OpEnds
            \/ /\ DeleteValid /\ Marks(op.list, op.name, TRUE)
               /\ \/ OpEnds
                  \/ /\ op'.pc = "delRows" /\ OpKept /\ op'.before = rows
                     /\ op'.game = dirs[op.list][op.name].game
                     /\ op'.rom = dirs[op.list][op.name].rom
<1>1. op.kind = "delete" /\ op.pc = "run" /\ ~Locked /\ op.list = shown /\ op.name \in Names
      /\ op \in Ops
  BY InvShapes DEF DeleteMark, Running, InductiveInv, PhaseInv
<1>2. ASSUME NEW m, op' = [op EXCEPT !.pc = "delRows", !.before = rows, !.plan = NoOp.plan,
                        !.game = dirs[op.list][op.name].game,
                        !.rom = dirs[op.list][op.name].rom, !.freshMark = m]
      PROVE  /\ op'.pc = "delRows" /\ OpKept /\ op'.before = rows
             /\ op'.game = dirs[op.list][op.name].game
             /\ op'.rom = dirs[op.list][op.name].rom
  BY <1>1, <1>2 DEF Ops, OpKept
<1>3. CASE DeleteValid
  <2>1. \/ UNCHANGED dirs /\ op' = NoOp
        \/ Mark(TRUE) /\ op' = NoOp
        \/ Mark(TRUE) /\ \E m : op' = [op EXCEPT !.pc = "delRows", !.before = rows,
             !.plan = NoOp.plan, !.game = dirs[op.list][op.name].game,
             !.rom = dirs[op.list][op.name].rom, !.freshMark = m]
    BY <1>3, Zenon DEF DeleteMark, Abandon, Advance
  <2>2. Mark(TRUE) => Marks(op.list, op.name, TRUE) BY DEF Mark, Marks
  <2>3. QED BY <1>1, <1>2, <1>3, <2>1, <2>2, Idle DEF OpEnds
<1>4. CASE ~DeleteValid BY <1>1, <1>4, Idle DEF DeleteMark, Abandon, OpEnds
<1>5. QED BY <1>3, <1>4

\* Deletion: the marker changes nothing else.
LEMMA MarksEffect ==
  ASSUME InductiveInv, NEW on \in BOOLEAN, op.name \in Names, Exists(op.list, op.name),
         Marks(op.list, op.name, on)
  PROVE  /\ dirs'[op.list][op.name] # NoDir
         /\ dirs'[op.list][op.name].game = dirs[op.list][op.name].game
         /\ dirs'[op.list][op.name].rom = dirs[op.list][op.name].rom
         /\ dirs'[op.list][op.name].marked = on
         /\ OnlyDir(op.list, op.name)
BY InvShapes, MarkEffect DEF OnlyDir

\* Deletion: the list without the row.
LEMMA DeleteRowsEffect ==
  ASSUME InductiveInv, DeleteRows
  PROVE  /\ op.kind = "delete" /\ op.pc = "delRows" /\ op.list = shown /\ op.name \in Names
         /\ op.game \in Games
         /\ \/ /\ rows' = WithoutRow /\ deleted' = deleted \cup {op.game}
               /\ op' = [op EXCEPT !.pc = "delDir"] /\ OpMoves("delDir")
            \/ /\ rows' \in {rows, WithoutRow} /\ deleted' = deleted
               /\ op' = [op EXCEPT !.pc = "delUndo"] /\ OpDirs("delUndo")
<1>1. op.kind = "delete" /\ op.pc = "delRows" /\ op.list = shown /\ op.name \in Names
      /\ op.game \in Games /\ op \in Ops
  BY InvShapes DEF DeleteRows, Running, InductiveInv, PhaseInv
<1>2. op' = [op EXCEPT !.pc = "delDir"] => OpMoves("delDir")
  BY <1>1 DEF OpMoves, OpKept, Ops
<1>3. op' = [op EXCEPT !.pc = "delUndo"] => OpDirs("delUndo")
  BY <1>1 DEF OpDirs, OpMoves, OpKept, Ops
<1>4. QED BY <1>1, <1>2, <1>3 DEF DeleteRows, Advance

\* Deletion: undoing it puts the list back, and perhaps the marker.
LEMMA DeleteUndoEffect ==
  ASSUME InductiveInv, DeleteUndo
  PROVE  /\ op.kind = "delete" /\ op.pc = "delUndo" /\ op.list = shown /\ op.name \in Names
         /\ rows' \in {rows, op.before} /\ OpEnds
         /\ UNCHANGED dirs \/ (rows' = op.before /\ Marks(op.list, op.name, FALSE))
<1>1. op.kind = "delete" /\ op.pc = "delUndo" /\ op.list = shown /\ op.name \in Names
  BY InvShapes DEF DeleteUndo, Running, InductiveInv, PhaseInv
<1>2. Mark(FALSE) => Marks(op.list, op.name, FALSE) BY DEF Mark, Marks
<1>3. QED BY <1>1, <1>2, Idle, Zenon DEF DeleteUndo, Abandon, OpEnds

\* Deletion: the directory.
LEMMA RemovedEffect ==
  ASSUME DiskShape, NEW l \in Lists, NEW n \in Names, dirs' = [dirs EXCEPT ![l][n] = NoDir]
  PROVE  dirs'[l][n] = NoDir /\ OnlyDir(l, n)
BY DEF DiskShape, OnlyDir

\* Deletion: the directory goes, or stays marked.
LEMMA DeleteDirEffect ==
  ASSUME InductiveInv, DeleteDir
  PROVE  /\ op.kind = "delete" /\ op.pc = "delDir" /\ op.list = shown /\ op.name \in Names
         /\ OpMoves("queue")
         /\ UNCHANGED dirs \/ (dirs'[op.list][op.name] = NoDir /\ OnlyDir(op.list, op.name))
<1>1. op.kind = "delete" /\ op.pc = "delDir" /\ op.list = shown /\ op.name \in Names
      /\ op \in Ops /\ op.list \in Lists /\ DiskShape
  BY InvShapes DEF DeleteDir, Running, InductiveInv, PhaseInv
<1>2. OpMoves("queue") BY <1>1 DEF DeleteDir, Advance, OpMoves, OpKept, Ops
<1>3. dirs' = [dirs EXCEPT ![op.list][op.name] = NoDir] =>
        dirs'[op.list][op.name] = NoDir /\ OnlyDir(op.list, op.name)
  BY <1>1, RemovedEffect
<1>4. QED BY <1>1, <1>2, <1>3 DEF DeleteDir

\* The cleanup goes on to its answer, or an import ends.
LEMMA AfterCleanupEffect ==
  ASSUME InductiveInv, op.pc \in CleanPcs, AfterCleanup
  PROVE  /\ UNCHANGED <<up, window, saving, creating, fresh>>
         /\ op.list = shown /\ op.name \in Names
         /\ \/ op.kind = "delete" /\ OpMoves("answer") /\ op'.result = Loaded
            \/ op.kind = "import" /\ OpEnds
<1>1. op.kind \in {"delete", "import"} /\ op.list = shown /\ op.name \in Names /\ op \in Ops
  BY InvShapes DEF InductiveInv, PhaseInv, CleanPcs
<1>2. op' = [op EXCEPT !.pc = "answer", !.result = Loaded] =>
        OpMoves("answer") /\ op'.result = Loaded
  BY <1>1 DEF OpMoves, OpKept, Ops
<1>3. QED BY <1>1, <1>2, Idle DEF AfterCleanup, Advance, Abandon, OpEnds

\* Cleanup: the ROM is queued; an import that cannot queue it ends.
LEMMA QueueCleanupEffect ==
  ASSUME InductiveInv, QueueCleanup
  PROVE  /\ op.pc = "queue" /\ op.list = shown /\ op.name \in Names
         /\ op.kind \in {"delete", "import"}
         /\ OpMoves("clean") \/ (op.kind = "import" /\ OpEnds)
<1>1. op.pc = "queue" /\ op.kind \in {"delete", "import"} /\ op.list = shown
      /\ op.name \in Names /\ op \in Ops
  BY InvShapes DEF QueueCleanup, InductiveInv, PhaseInv, CleanPcs
<1>2. op' = [op EXCEPT !.pc = "clean"] => OpMoves("clean")
  BY <1>1 DEF OpMoves, OpKept, Ops
<1>3. QED BY <1>1, <1>2, Idle DEF QueueCleanup, Advance, Abandon, OpEnds

\* Cleanup: the ROMs in use are read from the disk.
LEMMA ReadReferencesEffect ==
  ASSUME InductiveInv, ReadReferences
  PROVE  /\ op.pc = "clean" /\ op.list = shown /\ op.name \in Names
         /\ op.kind \in {"delete", "import"}
         /\ OpMoves("purge") /\ op'.keep = cleanup \cap Referenced
<1>1. op.pc = "clean" /\ op.kind \in {"delete", "import"} /\ op.list = shown
      /\ op.name \in Names /\ op \in Ops
  BY InvShapes DEF ReadReferences, InductiveInv, PhaseInv, CleanPcs
<1>2. QED BY <1>1 DEF ReadReferences, Advance, OpMoves, OpKept, Ops

\* Cleanup: only queued ROMs not in use leave the pool.
LEMMA PurgeEffect ==
  ASSUME InductiveInv, Purge
  PROVE  /\ op.pc = "purge" /\ op.list = shown /\ op.name \in Names
         /\ op.kind \in {"delete", "import"}
         /\ pool \ (cleanup \ op.keep) \subseteq pool' /\ pool' \subseteq pool
         /\ UNCHANGED <<up, window, saving, creating, fresh>>
         /\ \/ OpMoves("requeue")
            \/ op.kind = "delete" /\ OpMoves("answer") /\ op'.result = Loaded
            \/ op.kind = "import" /\ OpEnds
<1>1. op.pc = "purge" /\ op.kind \in {"delete", "import"} /\ op.list = shown
      /\ op.name \in Names /\ op \in Ops
  BY InvShapes DEF Purge, InductiveInv, PhaseInv, CleanPcs
<1>2. op' = [op EXCEPT !.pc = "requeue"] => OpMoves("requeue")
  BY <1>1 DEF OpMoves, OpKept, Ops
<1>3. pool \ (cleanup \ op.keep) \subseteq pool' /\ pool' \subseteq pool
  BY DEF Purge
<1>4. Advance([op EXCEPT !.pc = "requeue"]) \/ AfterCleanup BY DEF Purge
<1>5. QED BY <1>1, <1>2, <1>3, <1>4, AfterCleanupEffect DEF Advance, CleanPcs

\* Cleanup: the queue is written back and the operation answers.
LEMMA WriteQueueEffect ==
  ASSUME InductiveInv, WriteQueue
  PROVE  /\ op.pc = "requeue" /\ op.list = shown /\ op.name \in Names
         /\ UNCHANGED <<up, window, saving, creating, fresh>>
         /\ \/ op.kind = "delete" /\ OpMoves("answer") /\ op'.result = Loaded
            \/ op.kind = "import" /\ OpEnds
BY AfterCleanupEffect DEF WriteQueue, CleanPcs

\* Import: the replaced ROM is queued, or the import ends.
LEMMA RemoveReplacedEffect ==
  ASSUME InductiveInv, RemoveReplaced
  PROVE  /\ op.pc = "replace" /\ op.kind = "import" /\ op.list = shown /\ op.name \in Names
         /\ \/ OpEnds
            \/ op'.pc = "queue" /\ OpKept /\ op'.game = op.game /\ op'.rom = op.old
               /\ op'.rom \in Roms
<1>1. op.pc = "replace" /\ op.kind = "import" /\ op.list = shown /\ op.name \in Names
      /\ op \in Ops /\ op.old \in Roms \cup {NoRom}
  BY InvShapes DEF RemoveReplaced, Running, InductiveInv, PhaseInv, Ops
<1>2. op' = [op EXCEPT !.pc = "queue", !.rom = op.old] =>
        op'.pc = "queue" /\ OpKept /\ op'.game = op.game /\ op'.rom = op.old
  BY <1>1 DEF OpKept, Ops
<1>3. QED BY <1>1, <1>2, Idle DEF RemoveReplaced, Advance, Abandon, OpEnds

\* Import: the ROM is in the pool and the window names it.
LEMMA ImportRomEffect ==
  ASSUME InductiveInv, ImportRom
  PROVE  /\ op.pc = "run" /\ op.kind = "import" /\ op.list = shown /\ op.name \in Names
         /\ op.rom \in Roms /\ OpMoves("resave")
         /\ view' = [view EXCEPT ![shown] = WithRom(view[shown], op.game, op.rom)]
         /\ saves' = Append(saves, [list |-> shown, by |-> "op",
                                    games |-> WithRom(view[shown], op.game, op.rom)])
         /\ pool' = pool \cup {op.rom}
<1>1. op.pc = "run" /\ op.kind = "import" /\ op.list = shown /\ op.name \in Names
      /\ op \in Ops /\ op.rom \in Roms
  BY InvShapes DEF ImportRom, Running, InductiveInv, PhaseInv
<1>2. OpMoves("resave") BY <1>1 DEF ImportRom, OpMoves, OpKept, Ops
<1>3. QED BY <1>1, <1>2 DEF ImportRom, Snapshot

\* An operation begins with a save of what the window shows.
LEMMA StartEffect ==
  ASSUME InductiveInv, NEW kind \in {"delete", "move", "import"}, NEW e \in view[shown],
         NEW r \in Roms \cup {NoRom}, Start(kind, e, r)
  PROVE  /\ up /\ op.pc = "none" /\ op'.pc = "drain" /\ op'.kind = kind /\ op'.list = shown
         /\ op'.name = e.name /\ op'.game = e.game /\ op'.rom = r /\ op'.old = e.rom
         /\ saves' = Append(saves, [list |-> shown, games |-> view[shown], by |-> "op"])
<1>1. op' = [NoOp EXCEPT !.pc = "drain", !.kind = kind, !.list = shown,
                          !.name = e.name, !.game = e.game, !.rom = r, !.old = e.rom]
  BY DEF Start
<1>2. /\ op'.pc = "drain" /\ op'.kind = kind /\ op'.list = shown
      /\ op'.name = e.name /\ op'.game = e.game /\ op'.rom = r /\ op'.old = e.rom
  BY <1>1 DEF NoOp
<1>3. QED BY <1>2 DEF Start, UserActs, Snapshot

\* Moves.
LEMMA MoveLists ==
  ASSUME InductiveInv, op.pc \in MovePcs \/ (op.kind = "move" /\ op.pc = "run")
  PROVE  /\ op.list = shown /\ op.list \in Lists /\ Dest \in Lists /\ Dest # op.list
         /\ op.name \in Names /\ op.kind = "move" /\ op \in Ops
         /\ \A l \in Lists : l = op.list \/ l = Dest
         /\ op.pc \in MovePcs => op.as \in Names
BY InvShapes DEF InductiveInv, PhaseInv, Dest, Other, Lists, MovePcs

\* Move: a name that is free in the other list.
LEMMA MoveCheckEffect ==
  ASSUME InductiveInv, MoveCheck
  PROVE  /\ op.kind = "move" /\ op.pc = "run" /\ ~Locked /\ op.list = shown /\ op.name \in Names
         /\ \/ OpEnds
            \/ MoveValid /\ \E as \in Names :
                 /\ ~Exists(Dest, as) /\ op'.pc = "mvRename" /\ op'.as = as
                 /\ op'.before = rows /\ op'.kind = op.kind /\ op'.list = op.list
                 /\ op'.name = op.name /\ op'.game = op.game /\ op'.rom = op.rom
                 /\ op'.old = op.old
<1>1. op.kind = "move" /\ op.pc = "run" /\ ~Locked /\ op.list = shown /\ op.name \in Names
      /\ op \in Ops
  BY MoveLists DEF MoveCheck, Running
<1>2. ASSUME NEW as \in FreeNames,
             op' = [op EXCEPT !.pc = "mvRename", !.as = as, !.before = rows,
                              !.plan = NoOp.plan]
      PROVE  /\ as \in Names /\ ~Exists(Dest, as) /\ op'.pc = "mvRename" /\ op'.as = as
             /\ op'.before = rows /\ op'.kind = op.kind /\ op'.list = op.list
             /\ op'.name = op.name /\ op'.game = op.game /\ op'.rom = op.rom
             /\ op'.old = op.old
  BY <1>1, <1>2 DEF Ops, FreeNames
<1>3. QED BY <1>1, <1>2, Idle DEF MoveCheck, Advance, Abandon, OpEnds

\* Move: the directory changes list, or the move ends.
LEMMA MoveRenameEffect ==
  ASSUME InductiveInv, MoveRename
  PROVE  /\ op.pc = "mvRename"
         /\ \/ /\ OpDirs("mvDest") /\ dirs'[Dest][op.as] = dirs[op.list][op.name]
               /\ dirs'[op.list][op.name] = NoDir
               /\ \A i \in Lists, j \in Names :
                    /\ (i # op.list \/ j # op.name) /\ (i # Dest \/ j # op.as)
                    => dirs'[i][j] = dirs[i][j]
            \/ OpEnds /\ UNCHANGED dirs
<1>1. op.pc = "mvRename" BY DEF MoveRename, Running
<1>2. op.list \in Lists /\ Dest \in Lists /\ Dest # op.list /\ op.name \in Names
      /\ op.as \in Names /\ op \in Ops /\ DiskShape
  BY <1>1, MoveLists, InvShapes DEF MovePcs
<1>3. dirs' = Renamed(op.list, op.name, Dest, op.as) =>
        /\ dirs'[Dest][op.as] = dirs[op.list][op.name]
        /\ dirs'[op.list][op.name] = NoDir
        /\ \A i \in Lists, j \in Names :
             (i # op.list \/ j # op.name) /\ (i # Dest \/ j # op.as) => dirs'[i][j] = dirs[i][j]
  BY <1>2, RenamedEffect
<1>4. op' = [op EXCEPT !.pc = "mvDest"] => OpDirs("mvDest")
  BY <1>2 DEF OpDirs, OpMoves, OpKept, Ops
<1>5. QED BY <1>1, <1>3, <1>4, Idle DEF MoveRename, Advance, Abandon, OpEnds

\* Move: the other list names the game.
LEMMA MoveDestEffect ==
  ASSUME InductiveInv, MoveDest
  PROVE  /\ op.pc = "mvDest"
         /\ \/ OpDirs("mvSource") /\ rows' = [rows EXCEPT ![Dest] = @ \cup {op.as}]
            \/ /\ OpDirs("undoDir") /\ faults' >= 1
               /\ rows' \in {rows, [rows EXCEPT ![Dest] = @ \cup {op.as}]}
<1>1. op \in Ops /\ faults \in Nat BY InvShapes
<1>2. \A p \in {"mvSource", "undoDir"} : op' = [op EXCEPT !.pc = p] => OpDirs(p)
  BY <1>1 DEF OpDirs, OpMoves, OpKept, Ops
<1>3. op' = [op EXCEPT !.pc = "mvSource"] => OpDirs("mvSource") BY <1>2
<1>4. op' = [op EXCEPT !.pc = "undoDir"] => OpDirs("undoDir") BY <1>2
<1>5. \/ op' = [op EXCEPT !.pc = "mvSource"] /\ rows' = [rows EXCEPT ![Dest] = @ \cup {op.as}]
      \/ /\ op' = [op EXCEPT !.pc = "undoDir"] /\ faults' >= 1
         /\ rows' \in {rows, [rows EXCEPT ![Dest] = @ \cup {op.as}]}
  BY <1>1 DEF MoveDest, MoveWrite, Advance, Fault
<1>6. QED BY <1>3, <1>4, <1>5 DEF MoveDest, MoveWrite, Running

MoveResult(l) ==
  LET listed == IF l = op.list THEN rows[l] \ {op.name} ELSE rows[l]
  IN  {[name |-> n, game |-> dirs[l][n].game, rom |-> dirs[l][n].rom] :
         n \in {m \in listed : HasGame(l, m)}}

\* Move: its own list no longer does.
LEMMA MoveSourceEffect ==
  ASSUME InductiveInv, MoveSource
  PROVE  /\ op.pc = "mvSource"
         /\ \/ /\ OpMoves("answer") /\ rows' = WithoutRow
               /\ op'.result = [l \in Lists |-> MoveResult(l)]
            \/ OpDirs("undoDir") /\ faults' >= 1 /\ rows' \in {rows, WithoutRow}
<1>1. op \in Ops /\ faults \in Nat BY InvShapes
<1>2. op' = [op EXCEPT !.pc = "undoDir"] => OpDirs("undoDir")
  BY <1>1 DEF OpDirs, OpMoves, OpKept, Ops
<1>3. ASSUME NEW q, op' = [op EXCEPT !.pc = "answer", !.result = q]
      PROVE  OpMoves("answer") /\ op'.result = q
  BY <1>1, <1>3 DEF OpMoves, OpKept, Ops
<1>4. \/ rows' = WithoutRow
         /\ op' = [op EXCEPT !.pc = "answer", !.result = [l \in Lists |-> MoveResult(l)]]
      \/ /\ op' = [op EXCEPT !.pc = "undoDir"] /\ faults' >= 1
         /\ rows' \in {rows, WithoutRow}
  BY <1>1 DEF MoveSource, MoveWrite, Advance, MoveResult, Fault
<1>5. QED BY <1>2, <1>3, <1>4 DEF MoveSource, MoveWrite, Running

\* Undoing a move: the directory goes back, since a fault was already counted.
LEMMA UndoDirEffect ==
  ASSUME InductiveInv, OneFault, UndoDir
  PROVE  /\ op.pc = "undoDir" /\ OpDirs("undoDest") /\ torn' = torn
         /\ dirs'[op.list][op.name] = dirs[Dest][op.as] /\ dirs'[Dest][op.as] = NoDir
         /\ \A i \in Lists, j \in Names :
              (i # op.list \/ j # op.name) /\ (i # Dest \/ j # op.as) => dirs'[i][j] = dirs[i][j]
<1>1. op.pc = "undoDir" BY DEF UndoDir, Running
<1>2. op.list \in Lists /\ Dest \in Lists /\ Dest # op.list /\ op.name \in Names
      /\ op.as \in Names /\ op \in Ops /\ DiskShape /\ faults \in Nat
  BY <1>1, MoveLists, InvShapes DEF MovePcs
<1>3. Renamable(op.list, op.name) /\ faults >= 1
  BY <1>1 DEF Renamable, InductiveInv, MoveInv, PhaseInv, MovePcs
<1>4. ~Fault("rename") BY <1>2, <1>3, BoundsAssumption DEF Fault, OneFault
<1>5. dirs' = Renamed(Dest, op.as, op.list, op.name) /\ torn' = torn
  BY <1>3, <1>4 DEF UndoDir
<1>6. OpDirs("undoDest") BY <1>2 DEF UndoDir, Advance, OpDirs, OpMoves, OpKept, Ops
<1>7. /\ dirs'[op.list][op.name] = dirs[Dest][op.as] /\ dirs'[Dest][op.as] = NoDir
      /\ \A i \in Lists, j \in Names :
           (i # op.list \/ j # op.name) /\ (i # Dest \/ j # op.as) => dirs'[i][j] = dirs[i][j]
  BY <1>2, <1>5, RenamedEffect
<1>8. QED BY <1>1, <1>5, <1>6, <1>7

\* Undoing a move: the other list is as before, or the library is torn.
LEMMA UndoDestEffect ==
  ASSUME InductiveInv, UndoDest
  PROVE  /\ op.pc = "undoDest" /\ OpDirs("undoSource")
         /\ \/ rows' = [rows EXCEPT ![Dest] = op.before[Dest]] /\ torn' = torn
            \/ rows' = rows /\ torn' = TRUE
BY InvShapes DEF UndoDest, UndoRows, Running, Advance, OpDirs, OpMoves, OpKept, Ops

\* Undoing a move: so is its own list.
LEMMA UndoSourceEffect ==
  ASSUME InductiveInv, UndoSource
  PROVE  /\ op.pc = "undoSource" /\ OpEnds
         /\ \/ rows' = [rows EXCEPT ![op.list] = op.before[op.list]] /\ torn' = torn
            \/ rows' = rows /\ torn' = TRUE
BY Idle DEF UndoSource, UndoRows, Running, Abandon, OpEnds

-----------------------------------------------------------------------------
(* What the steps of an operation leave alone. *)

\* Importing leaves the directories alone.
LEMMA ImportRomFrame ==
  ASSUME ImportRom
  PROVE  UNCHANGED <<rows, dirs, cleanup, up, shown, timer, writing, left,
                    creating, fresh, deleted, torn>>
BY DEF ImportRom, disk, window, saving, history

LEMMA ImportFailsFrame ==
  ASSUME ImportFails
  PROVE  UNCHANGED <<rows, dirs, pool, cleanup, deleted, torn, up, shown,
                    view, timer, saves, writing, left, creating, fresh>>
BY DEF ImportFails, Abandon, disk, window, saving, history

LEMMA RemoveReplacedFrame ==
  ASSUME RemoveReplaced
  PROVE  UNCHANGED <<rows, dirs, pool, cleanup, deleted, torn, up, shown,
                    view, timer, saves, writing, left, creating, fresh>>
BY DEF RemoveReplaced, Advance, Abandon, disk, window, saving, history

LEMMA DeleteMarkFrame ==
  ASSUME DeleteMark
  PROVE  UNCHANGED <<rows, pool, cleanup, deleted, torn, up, shown, view,
                    timer, saves, writing, left, creating, fresh>>
BY DEF DeleteMark, Abandon, Advance, disk, window, saving, history

LEMMA DeleteRowsFrame ==
  ASSUME DeleteRows
  PROVE  UNCHANGED <<dirs, pool, cleanup, torn, up, shown, view, timer, saves,
                    writing, left, creating, fresh>>
BY DEF DeleteRows, Advance, disk, window, saving, history

LEMMA DeleteUndoFrame ==
  ASSUME DeleteUndo
  PROVE  UNCHANGED <<pool, cleanup, deleted, torn, up, shown, view, timer,
                    saves, writing, left, creating, fresh>>
BY DEF DeleteUndo, Abandon, disk, window, saving, history

LEMMA DeleteDirFrame ==
  ASSUME DeleteDir
  PROVE  UNCHANGED <<rows, pool, cleanup, deleted, torn, up, shown, view,
                    timer, saves, writing, left, creating, fresh>>
BY DEF DeleteDir, Advance, disk, window, saving, history

LEMMA QueueCleanupFrame ==
  ASSUME QueueCleanup
  PROVE  UNCHANGED <<rows, dirs, pool, deleted, torn, up, shown, view, timer,
                    saves, writing, left, creating, fresh>>
BY DEF QueueCleanup, Advance, Abandon, disk, window, saving, history

LEMMA ReadReferencesFrame ==
  ASSUME ReadReferences
  PROVE  UNCHANGED <<rows, dirs, pool, cleanup, deleted, torn, up, shown,
                    view, timer, saves, writing, left, creating, fresh>>
BY DEF ReadReferences, Advance, disk, window, saving, history

LEMMA PurgeFrame ==
  ASSUME Purge
  PROVE  UNCHANGED <<rows, dirs, cleanup, deleted, torn, up, shown, view,
                    timer, saves, writing, left, creating, fresh>>
BY DEF Purge, Advance, Abandon, AfterCleanup, disk, window, saving, history

LEMMA WriteQueueFrame ==
  ASSUME WriteQueue
  PROVE  UNCHANGED <<rows, dirs, pool, deleted, torn, up, shown, view, timer,
                    saves, writing, left, creating, fresh>>
BY DEF WriteQueue, Advance, Abandon, AfterCleanup, disk, window, saving,
       history

LEMMA MoveCheckFrame ==
  ASSUME MoveCheck
  PROVE  UNCHANGED <<rows, dirs, pool, cleanup, deleted, torn, up, shown,
                    view, timer, saves, writing, left, creating, fresh>>
BY DEF MoveCheck, Advance, Abandon, disk, window, saving, history

LEMMA MoveRenameFrame ==
  ASSUME MoveRename
  PROVE  UNCHANGED <<rows, pool, cleanup, deleted, torn, up, shown, view,
                    timer, saves, writing, left, creating, fresh>>
BY DEF MoveRename, Advance, Abandon, disk, window, saving, history

LEMMA MoveDestFrame ==
  ASSUME MoveDest
  PROVE  UNCHANGED <<dirs, pool, cleanup, deleted, torn, up, shown, view,
                    timer, saves, writing, left, creating, fresh>>
BY DEF MoveDest, MoveWrite, Advance, disk, window, saving, history

LEMMA MoveSourceFrame ==
  ASSUME MoveSource
  PROVE  UNCHANGED <<dirs, pool, cleanup, deleted, torn, up, shown, view,
                    timer, saves, writing, left, creating, fresh>>
BY DEF MoveSource, MoveWrite, Advance, disk, window, saving, history

LEMMA UndoDirFrame ==
  ASSUME UndoDir
  PROVE  UNCHANGED <<rows, pool, cleanup, deleted, up, shown, view, timer,
                    saves, writing, left, creating, fresh>>
BY DEF UndoDir, Advance, disk, window, saving, history

LEMMA UndoDestFrame ==
  ASSUME UndoDest
  PROVE  UNCHANGED <<dirs, pool, cleanup, deleted, up, shown, view, timer,
                    saves, writing, left, creating, fresh>>
BY DEF UndoDest, UndoRows, Advance, disk, window, saving, history

LEMMA UndoSourceFrame ==
  ASSUME UndoSource
  PROVE  UNCHANGED <<dirs, pool, cleanup, deleted, up, shown, view, timer,
                    saves, writing, left, creating, fresh>>
BY DEF UndoSource, UndoRows, Abandon, disk, window, saving, history

\* Faults are only counted up.
Counts == NoFault \/ \E k \in {"write", "rename", "crash"} : Fault(k)

\* They do.
LEMMA FaultsGrow ==
  ASSUME InductiveInv, Counts
  PROVE  faults' >= faults /\ faults \in Nat /\ faults' \in Nat
<1>1. faults' \in 0..MaxFaults /\ faults' >= faults BY FaultCounted, InvShapes DEF Counts
<1>2. QED BY <1>1, InvShapes, BoundsAssumption

-----------------------------------------------------------------------------
(* Steps that change no game's identity. *)

SameGames ==
  \A k \in Lists, n \in Names :
    /\ dirs'[k][n] = NoDir <=> dirs[k][n] = NoDir
    /\ dirs[k][n] # NoDir => dirs'[k][n].game = dirs[k][n].game
SameRoms ==
  \A k \in Lists, n \in Names : dirs[k][n] # NoDir => dirs'[k][n].rom = dirs[k][n].rom
SameElsewhere ==
  \A k \in Lists, n \in Names :
    k # shown /\ dirs[k][n] # NoDir => dirs'[k][n].rom = dirs[k][n].rom

\* Then what is shown matches the disk as before.
LEMMA SameMatches ==
  ASSUME SameGames, NEW l \in Lists, NEW e \in Entry
  PROVE  /\ (Matches(l, e))' <=> Matches(l, e)
         /\ (Empty(l, e.name))' <=> Empty(l, e.name)
         /\ (Exists(l, e.name))' <=> Exists(l, e.name)
         /\ SameRoms => ((OnDisk(l, e))' <=> OnDisk(l, e))
<1>1. e.name \in Names BY DEF Entry
<1>2. QED BY <1>1 DEF SameGames, SameRoms, Matches, OnDisk, Empty, HasGame, Exists

\* Unchanged directories are the same games.
LEMMA SameDirs ==
  ASSUME UNCHANGED dirs
  PROVE  SameGames /\ SameRoms /\ SameElsewhere
BY DEF SameGames, SameRoms, SameElsewhere

\* So are those of which a save rewrites one.
LEMMA SameRewrites ==
  ASSUME NEW e, Rewrites(e)
  PROVE  SameGames /\ SameElsewhere /\ (Calm => SameRoms)
<1>1. SameGames /\ SameElsewhere BY DEF SameGames, SameElsewhere, Rewrites
<1>2. Calm => SameRoms BY DEF SameRoms, Rewrites
<1>3. QED BY <1>1, <1>2

\* So are those of which one marker changes.
LEMMA SameMarks ==
  ASSUME InductiveInv, NEW on \in BOOLEAN, op.name \in Names, Exists(op.list, op.name),
         Marks(op.list, op.name, on)
  PROVE  SameGames /\ SameRoms /\ SameElsewhere
<1>1. /\ dirs'[op.list][op.name] # NoDir
      /\ dirs'[op.list][op.name].game = dirs[op.list][op.name].game
      /\ dirs'[op.list][op.name].rom = dirs[op.list][op.name].rom
      /\ OnlyDir(op.list, op.name)
  BY MarksEffect
<1>2. dirs[op.list][op.name] # NoDir BY DEF Exists
<1>3. SameGames BY <1>1, <1>2 DEF SameGames, OnlyDir
<1>4. SameRoms BY <1>1, <1>2 DEF SameRoms, OnlyDir
<1>5. QED BY <1>3, <1>4 DEF SameRoms, SameElsewhere

\* What the window shows is entries.
LEMMA ShownEntries ==
  ASSUME InductiveInv
  PROVE  /\ \A l \in Lists : view[l] \subseteq Entry
         /\ \A e \in Entry : e.name \in Names /\ e.game \in Games /\ e.rom \in Roms \cup {NoRom}
         /\ view \in [Lists -> SUBSET Entry] /\ shown \in Lists /\ left \subseteq Entry
BY InvShapes DEF WindowShape, QueueShape, Entry

\* The operation goes on, or ends, without touching the window's lists.
OpGoesOn ==
  /\ op'.kind = op.kind /\ op'.list = op.list /\ op'.name = op.name /\ op'.old = op.old
  /\ op.pc # "none" /\ (op.kind # "delete" => op'.game = op.game)
  /\ op'.pc \notin {"none", "drain", "run", "resave"} /\ (Calm' => Calm)
OpQuiet == op' = op \/ OpEnds \/ OpGoesOn

\* It does not bring back what it took away, nor take another directory away.
GoneKept == Gone => (Gone' /\ op'.list = op.list /\ op'.name = op.name)
MovedKept ==
  op'.pc \in {"mvDest", "mvSource", "undoDir"} =>
    /\ op.pc \in {"mvDest", "mvSource", "undoDir"} /\ op'.as = op.as
    /\ op'.name = op.name /\ op'.list = op.list
CreationKept ==
  \/ creating'.pc = "none"
  \/ /\ creating'.name = creating.name /\ creating'.game = creating.game
     /\ creating'.detached = creating.detached /\ creating.pc # "none"
     /\ creating'.pc \in {"mkdir", "json"} => creating.pc \in {"mkdir", "json"}

\* A quiet step does not begin to work from the disk.
LEMMA CalmQuiet ==
  ASSUME OpQuiet
  PROVE  Calm' => Calm
<1>1. CASE op' = op BY <1>1 DEF Calm
<1>2. CASE OpEnds BY <1>2 DEF OpEnds, Calm
<1>3. CASE OpGoesOn BY <1>3 DEF OpGoesOn
<1>4. QED BY <1>1, <1>2, <1>3 DEF OpQuiet

\* The operation still works on a shown game.
LEMMA ViewOpQuiet ==
  ASSUME InductiveInv, UNCHANGED <<shown, view>>, OpQuiet, ViewOp,
         op'.pc \in {"drain", "run", "resave"} => pool \subseteq pool'
  PROVE  ViewOp'
<1>1. CASE op' = op BY <1>1 DEF ViewOp
<1>2. CASE OpEnds BY <1>2 DEF OpEnds, ViewOp
<1>3. CASE OpGoesOn BY <1>3 DEF OpGoesOn, ViewOp
<1>4. QED BY <1>1, <1>2, <1>3 DEF OpQuiet

\* The quiet steps of the operations.
LEMMA QuietSteps ==
  ASSUME InductiveInv,
         \/ ImportFails \/ RemoveReplaced \/ DeleteMark \/ DeleteRows \/ DeleteUndo
         \/ DeleteDir \/ QueueCleanup \/ ReadReferences \/ Purge \/ WriteQueue
         \/ MoveCheck \/ MoveDest \/ MoveSource \/ UndoDest \/ UndoSource
         \/ MoveRename /\ OpEnds
  PROVE  OpQuiet /\ GoneKept /\ MovedKept
<1>1. CASE ImportFails
  BY <1>1, Idle
     DEF OpQuiet, GoneKept, MovedKept, OpGoesOn, OpEnds, OpMoves, OpDirs,
         OpKept, Gone, Calm, CleanPcs, ImportFails, Running, Fault, Abandon
<1>2. CASE RemoveReplaced
  BY <1>2, RemoveReplacedEffect, Idle
     DEF OpQuiet, GoneKept, MovedKept, OpGoesOn, OpEnds, OpMoves, OpDirs,
         OpKept, Gone, Calm, CleanPcs
<1>3. CASE DeleteMark
  BY <1>3, DeleteMarkEffect, Idle
     DEF OpQuiet, GoneKept, MovedKept, OpGoesOn, OpEnds, OpMoves, OpDirs,
         OpKept, Gone, Calm, CleanPcs
<1>4. CASE DeleteRows
  BY <1>4, DeleteRowsEffect, Idle
     DEF OpQuiet, GoneKept, MovedKept, OpGoesOn, OpEnds, OpMoves, OpDirs,
         OpKept, Gone, Calm, CleanPcs
<1>5. CASE DeleteUndo
  BY <1>5, DeleteUndoEffect, Idle
     DEF OpQuiet, GoneKept, MovedKept, OpGoesOn, OpEnds, OpMoves, OpDirs,
         OpKept, Gone, Calm, CleanPcs
<1>6. CASE DeleteDir
  BY <1>6, DeleteDirEffect, Idle
     DEF OpQuiet, GoneKept, MovedKept, OpGoesOn, OpEnds, OpMoves, OpDirs,
         OpKept, Gone, Calm, CleanPcs
<1>7. CASE QueueCleanup
  BY <1>7, QueueCleanupEffect, Idle
     DEF OpQuiet, GoneKept, MovedKept, OpGoesOn, OpEnds, OpMoves, OpDirs,
         OpKept, Gone, Calm, CleanPcs
<1>8. CASE ReadReferences
  BY <1>8, ReadReferencesEffect, Idle
     DEF OpQuiet, GoneKept, MovedKept, OpGoesOn, OpEnds, OpMoves, OpDirs,
         OpKept, Gone, Calm, CleanPcs
<1>9. CASE Purge
  BY <1>9, PurgeEffect, Idle
     DEF OpQuiet, GoneKept, MovedKept, OpGoesOn, OpEnds, OpMoves, OpDirs,
         OpKept, Gone, Calm, CleanPcs
<1>10. CASE WriteQueue
  BY <1>10, WriteQueueEffect, Idle
     DEF OpQuiet, GoneKept, MovedKept, OpGoesOn, OpEnds, OpMoves, OpDirs,
         OpKept, Gone, Calm, CleanPcs
<1>11. CASE MoveCheck
  BY <1>11, MoveCheckEffect, Idle
     DEF OpQuiet, GoneKept, MovedKept, OpGoesOn, OpEnds, OpMoves, OpDirs,
         OpKept, Gone, Calm, CleanPcs
<1>12. CASE MoveDest
  BY <1>12, MoveDestEffect, Idle
     DEF OpQuiet, GoneKept, MovedKept, OpGoesOn, OpEnds, OpMoves, OpDirs,
         OpKept, Gone, Calm, CleanPcs
<1>13. CASE MoveSource
  BY <1>13, MoveSourceEffect, Idle
     DEF OpQuiet, GoneKept, MovedKept, OpGoesOn, OpEnds, OpMoves, OpDirs,
         OpKept, Gone, Calm, CleanPcs
<1>14. CASE UndoDest
  BY <1>14, UndoDestEffect, Idle
     DEF OpQuiet, GoneKept, MovedKept, OpGoesOn, OpEnds, OpMoves, OpDirs,
         OpKept, Gone, Calm, CleanPcs
<1>15. CASE UndoSource
  BY <1>15, UndoSourceEffect, Idle
     DEF OpQuiet, GoneKept, MovedKept, OpGoesOn, OpEnds, OpMoves, OpDirs,
         OpKept, Gone, Calm, CleanPcs
<1>16. CASE MoveRename /\ OpEnds
  BY <1>16, MoveRenameEffect DEF MoveRename, Running, OpQuiet, GoneKept, MovedKept, OpEnds, Gone
<1>17. QED
  BY <1>1, <1>2, <1>3, <1>4, <1>5, <1>6, <1>7, <1>8, <1>9, <1>10, <1>11,
     <1>12, <1>13, <1>14, <1>15, <1>16

\* A creation that stays is the same one.
LEMMA CreationStays ==
  ASSUME UNCHANGED creating
  PROVE  CreationKept
BY DEF CreationKept

\* Parts of ViewInv that a step leaves true when the window's lists stay, the
\* games stay where they are and the operation goes on quietly.
RomsKept == \A l \in Lists : \A e \in view[l] : Matches(l, e) => e.rom \in pool' \cup {NoRom}

\* The rest of ViewInv.
LEMMA ViewChanged ==
  ASSUME InductiveInv, UNCHANGED <<shown, view>>, OpQuiet, CreationKept, RomsKept,
         ViewGames', ViewMoved', op'.pc \in {"drain", "run", "resave"} => pool \subseteq pool',
         \A l \in Lists : \A e \in view[l] :
           /\ (Matches(l, e))' => Matches(l, e)
           /\ (Matches(l, e))' /\ OnDisk(l, e) /\ (Calm \/ l # shown) => (OnDisk(l, e))',
         \A l \in Lists : \A e \in view[l] : l # shown /\ Matches(l, e) => (Matches(l, e))'
  PROVE  ViewInv'
<1>1. ViewLists /\ ViewGames /\ ViewRoms /\ ViewSaved /\ ViewOp /\ ViewNew /\ ViewMoved
  BY DEF InductiveInv, ViewInv
<1>2. ViewLists' BY <1>1 DEF ViewLists
<1>3. ViewRoms' BY <1>1 DEF ViewRoms, RomsKept
<1>4. ViewSaved'
  <2>1. Calm' => Calm BY CalmQuiet
  <2>2. ASSUME shown = "folder", NEW e \in view["lineup"] PROVE (OnDisk("lineup", e))'
    BY <1>1, <2>2 DEF ViewSaved, Lists, OnDisk
  <2>3. ASSUME Calm, NEW e \in view[shown], (Matches(shown, e))' PROVE (OnDisk(shown, e))'
    BY <1>1, <2>3, ShownEntries DEF ViewSaved
  <2>4. QED BY <2>1, <2>2, <2>3 DEF ViewSaved
<1>5. ViewOp' BY <1>1, ViewOpQuiet
<1>6. ViewNew' BY <1>1 DEF ViewNew, CreationKept
<1>7. QED BY <1>2, <1>3, <1>4, <1>5, <1>6 DEF ViewInv

\* Shown ROMs are in a pool that only grows.
LEMMA PoolStays ==
  ASSUME InductiveInv, pool \subseteq pool'
  PROVE  RomsKept
BY DEF RomsKept, InductiveInv, ViewInv, ViewRoms

-----------------------------------------------------------------------------
(* What the window shows. *)

\* The same when no game changes its identity either.
LEMMA ViewKept ==
  ASSUME InductiveInv, UNCHANGED <<shown, view>>, SameGames, SameElsewhere, Calm => SameRoms,
         OpQuiet, GoneKept, MovedKept, CreationKept, RomsKept,
         op'.pc \in {"drain", "run", "resave"} => pool \subseteq pool'
  PROVE  ViewInv'
<1>1. \A l \in Lists : \A e \in view[l] : e \in Entry /\ e.name \in Names BY ShownEntries
<1>2. \A l \in Lists : \A e \in view[l] : ((Matches(l, e))' <=> Matches(l, e))
  BY <1>1, SameMatches
<1>3. ViewGames' BY <1>2 DEF InductiveInv, ViewInv, ViewGames, GoneKept
<1>4. ASSUME NEW l \in Lists, NEW e \in view[l], OnDisk(l, e), Calm \/ l # shown
      PROVE  (OnDisk(l, e))'
  <2>1. CASE Calm BY <1>1, <1>4, <2>1, SameMatches
  <2>2. CASE l # shown
    BY <1>1, <1>4, <2>2 DEF SameElsewhere, SameGames, OnDisk, Matches, HasGame, Exists
  <2>3. QED BY <1>4, <2>1, <2>2
<1>5. ViewMoved'
  <2>1. SUFFICES ASSUME op'.pc \in {"mvDest", "mvSource", "undoDir"}
                 PROVE  ViewMoved' BY DEF ViewMoved
  <2>2. /\ op.pc \in {"mvDest", "mvSource", "undoDir"} /\ op'.as = op.as
        /\ op'.name = op.name /\ op'.list = op.list
    BY <2>1 DEF MovedKept
  <2>3. Calm /\ Dest' = Dest /\ op.pc \in MovePcs BY <2>2 DEF Calm, Dest, MovePcs
  <2>4. Dest \in Lists /\ op.as \in Names /\ dirs[Dest][op.as] # NoDir
    BY <2>2, <2>3, MoveLists DEF InductiveInv, MoveInv, HasGame, Exists
  <2>5. dirs'[Dest][op.as].game = dirs[Dest][op.as].game
        /\ dirs'[Dest][op.as].rom = dirs[Dest][op.as].rom
    BY <2>3, <2>4 DEF SameGames, SameRoms
  <2>6. QED BY <2>2, <2>3, <2>5 DEF InductiveInv, ViewInv, ViewMoved
<1>6. QED BY <1>2, <1>3, <1>4, <1>5, ViewChanged

\* A quiet step that moves no game.
LEMMA ViewQuiet ==
  ASSUME InductiveInv, UNCHANGED <<shown, view, dirs>>, OpQuiet, GoneKept, MovedKept,
         CreationKept, pool \subseteq pool'
  PROVE  ViewInv'
BY SameDirs, PoolStays, ViewKept

\* A step that leaves no operation behind and shows other lists.
LEMMA ViewIdle ==
  ASSUME InductiveInv, op'.pc = "none", ViewLists',
         \A l \in Lists : \A e \in view'[l] : (Matches(l, e))' /\ e.rom \in pool' \cup {NoRom},
         shown' = "folder" => \A e \in view'["lineup"] : (OnDisk("lineup", e))', ViewNew'
  PROVE  ViewInv'
<1>1. ViewGames' /\ ViewRoms' BY DEF ViewGames, ViewRoms
<1>2. ViewSaved' /\ ViewOp' /\ ViewMoved' BY DEF ViewSaved, Calm, ViewOp, ViewMoved
<1>3. QED BY <1>1, <1>2 DEF ViewInv

\* With no operation that took a game away, every shown entry is a game on disk.
LEMMA ShownMatch ==
  ASSUME InductiveInv
  PROVE  /\ ~Gone => \A l \in Lists : \A e \in view[l] :
              Matches(l, e) /\ e.rom \in pool \cup {NoRom}
         /\ ViewLists /\ ViewGames /\ ViewRoms /\ ViewSaved /\ ViewOp /\ ViewNew /\ ViewMoved
BY DEF InductiveInv, ViewInv, ViewGames, ViewRoms

\* What is loaded from the disk is on disk.
LEMMA LoadOnDisk ==
  ASSUME InductiveInv, NEW l \in Lists
  PROVE  /\ OneEach(Load(l))
         /\ \A e \in Load(l) : e \in Entry /\ OnDisk(l, e) /\ Matches(l, e)
                               /\ e.rom \in pool \cup {NoRom}
<1>1. ASSUME NEW e \in Load(l)
      PROVE  /\ e \in Entry /\ OnDisk(l, e) /\ Matches(l, e) /\ e.rom \in pool \cup {NoRom}
             /\ e = [name |-> e.name, game |-> dirs[l][e.name].game, rom |-> dirs[l][e.name].rom]
  <2>1. e \in Entry BY LoadTyped, InvShapes
  <2>2. HasGame(l, e.name) /\ e.game = dirs[l][e.name].game /\ e.rom = dirs[l][e.name].rom
        /\ e = [name |-> e.name, game |-> dirs[l][e.name].game, rom |-> dirs[l][e.name].rom]
    BY DEF Load
  <2>3. <<l, e.name>> \in Places BY <2>1, <2>2 DEF Places, Entry
  <2>4. e.rom \in pool \cup {NoRom}
    BY <2>2, <2>3 DEF InductiveInv, DiskInv, DiskRoms, RomsPresent, RomAt
  <2>5. QED BY <2>1, <2>2, <2>4 DEF OnDisk, Matches
<1>2. OneEach(Load(l)) BY <1>1, Zenon DEF OneEach
<1>3. QED BY <1>1, <1>2

\* Choosing another ROM leaves names and games alone.
LEMMA WithRomEntries ==
  ASSUME NEW s \in SUBSET Entry, NEW g, NEW r \in Roms \cup {NoRom}
  PROVE  /\ \A f \in WithRom(s, g, r) : f \in Entry /\ \E e \in s :
              f.name = e.name /\ f.game = e.game /\ f.rom \in {e.rom, r}
         /\ \A e \in s : \E f \in WithRom(s, g, r) : f.name = e.name /\ f.game = e.game
         /\ OneEach(s) => OneEach(WithRom(s, g, r))
<1> DEFINE new(e) == IF e.game = g THEN [e EXCEPT !.rom = r] ELSE e
<1>1. ASSUME NEW e \in s
      PROVE  /\ new(e) \in Entry /\ new(e).name = e.name /\ new(e).game = e.game
             /\ new(e).rom \in {e.rom, r}
  BY DEF Entry
<1>2. WithRom(s, g, r) = {new(e) : e \in s} BY DEF WithRom
<1> HIDE DEF new
<1>3. OneEach(s) => OneEach({new(e) : e \in s}) BY <1>1 DEF OneEach
<1>4. QED BY <1>1, <1>2, <1>3

\* Every entry is still there, by its name and its game.
LEMMA WithRomKeeps ==
  ASSUME NEW s \in SUBSET Entry, NEW g, NEW r \in Roms \cup {NoRom}, NEW e \in s
  PROVE  \E f \in WithRom(s, g, r) : f.name = e.name /\ f.game = e.game
<1> DEFINE f == IF e.game = g THEN [e EXCEPT !.rom = r] ELSE e
<1>1. f \in WithRom(s, g, r) BY DEF WithRom
<1>2. f.name = e.name /\ f.game = e.game BY DEF Entry
<1>3. QED BY <1>1, <1>2

\* A step that leaves the operation alone is quiet.
LEMMA OpStays ==
  ASSUME UNCHANGED op
  PROVE  OpQuiet /\ GoneKept /\ MovedKept
BY DEF OpQuiet, GoneKept, MovedKept, Gone

\* The awaited save leaves what the window shows on disk.
LEMMA AwaitedSaved ==
  ASSUME InductiveInv, writing, left = {}, Current.by = "op", op.pc \in {"drain", "resave"}
  PROVE  \A e \in view[shown] : OnDisk(shown, e)
<1>1. saves # <<>> /\ \A e \in Current.games : OnDisk(shown, e)
  BY DEF InductiveInv, WriteInv
<1>2. Current = saves[1] /\ 1 \in DOMAIN saves BY <1>1, HeadOfQueue
<1>3. PICK k \in DOMAIN saves :
        /\ saves[1].by = "op" <=> 1 = k
        /\ \A e \in view[shown] : e \in saves[k].games \/ OnDisk(shown, e)
  BY <1>2 DEF InductiveInv, QueueInv, QueueBy, AwaitedAt
<1>4. k = 1 BY <1>2, <1>3
<1>5. QED BY <1>1, <1>2, <1>3, <1>4

\* The list with another ROM for one game, whether chosen or taken back.
LEMMA OtherRom ==
  ASSUME InductiveInv, NEW r \in Roms \cup {NoRom}, r \in pool' \cup {NoRom},
         pool \subseteq pool', ~Gone, NEW g,
         view' = [view EXCEPT ![shown] = WithRom(view[shown], g, r)],
         UNCHANGED <<shown, creating>>, SameGames, SameElsewhere
  PROVE  /\ ViewLists' /\ ViewNew'
         /\ \A l \in Lists : \A e \in view'[l] : (Matches(l, e))' /\ e.rom \in pool' \cup {NoRom}
         /\ shown' = "folder" => \A e \in view'["lineup"] : (OnDisk("lineup", e))'
         /\ view'[shown] = WithRom(view[shown], g, r)
<1>1. view \in [Lists -> SUBSET Entry] /\ shown \in Lists BY ShownEntries
<1>2. /\ view'[shown] = WithRom(view[shown], g, r)
      /\ \A l \in Lists : l # shown => view'[l] = view[l]
  BY <1>1
<1>3. /\ \A f \in WithRom(view[shown], g, r) : f \in Entry /\ \E e \in view[shown] :
           f.name = e.name /\ f.game = e.game /\ f.rom \in {e.rom, r}
      /\ OneEach(view[shown]) => OneEach(WithRom(view[shown], g, r))
  BY <1>1, WithRomEntries
<1>4. ViewLists' BY <1>1, <1>2, <1>3, ShownMatch DEF ViewLists, OneEach, Lists
<1>5. ASSUME NEW l \in Lists, NEW f \in view'[l]
      PROVE  /\ (Matches(l, f))' /\ f.rom \in pool' \cup {NoRom} /\ f \in Entry
             /\ \E e \in view[l] : f.name = e.name /\ f.game = e.game
  <2>1. PICK e \in view[l] : f.name = e.name /\ f.game = e.game /\ f.rom \in {e.rom, r}
    BY <1>2, <1>3, <1>5
  <2>2. f \in Entry BY <1>2, <1>3, <1>5, ShownEntries
  <2>3. Matches(l, e) /\ e.rom \in pool \cup {NoRom} BY ShownMatch
  <2>4. Matches(l, f) BY <2>1, <2>3 DEF Matches
  <2>5. (Matches(l, f))' BY <2>2, <2>4, SameMatches
  <2>6. QED BY <2>1, <2>2, <2>3, <2>5
<1>6. ASSUME shown = "folder", NEW e \in view'["lineup"] PROVE (OnDisk("lineup", e))'
  <2>1. e \in view["lineup"] /\ "lineup" \in Lists BY <1>2, <1>6 DEF Lists
  <2>2. OnDisk("lineup", e) /\ e.name \in Names
    BY <1>6, <2>1, ShownMatch, ShownEntries DEF ViewSaved
  <2>3. QED BY <1>6, <2>1, <2>2 DEF SameElsewhere, SameGames, OnDisk, Matches, HasGame, Exists
<1>7. ViewNew' BY <1>1, <1>5, ShownMatch DEF ViewNew
<1>8. QED BY <1>2, <1>4, <1>5, <1>6, <1>7

\* A save that fails.
LEMMA ViewEndSave ==
  ASSUME InductiveInv, saves # <<>>, EndSave(FALSE), pool' = pool,
         SameGames, SameElsewhere, Calm => SameRoms
  PROVE  ViewInv'
<1>1. UNCHANGED <<shown, creating>> BY EndSaveFails
<1>2. CASE UNCHANGED view /\ (op' = op \/ (op.pc = "drain" /\ OpEnds))
  <2>1. OpQuiet /\ GoneKept /\ MovedKept
    BY <1>2, OpStays DEF OpQuiet, GoneKept, MovedKept, OpEnds, Gone, CleanPcs
  <2>2. QED BY <1>1, <1>2, <2>1, CreationStays, PoolStays, ViewKept
<1>3. CASE /\ op.pc = "resave" /\ OpEnds
           /\ view' = [view EXCEPT ![op.list] = WithRom(@, op.game, op.old)]
  <2>1. op.list = shown /\ op.kind = "import" /\ ~Gone /\ op.old \in Roms \cup {NoRom}
        /\ op'.pc = "none"
    BY <1>3, InvShapes DEF InductiveInv, PhaseInv, Gone, CleanPcs, Ops, OpEnds
  <2>2. op.old \in pool' \cup {NoRom} BY <1>3, <2>1, ShownMatch DEF ViewOp
  <2>3. view' = [view EXCEPT ![shown] = WithRom(view[shown], op.game, op.old)]
    BY <1>3, <2>1
  <2>4. /\ ViewLists' /\ ViewNew'
        /\ \A l \in Lists : \A e \in view'[l] : (Matches(l, e))' /\ e.rom \in pool' \cup {NoRom}
        /\ shown' = "folder" => \A e \in view'["lineup"] : (OnDisk("lineup", e))'
    BY <1>1, <2>1, <2>2, <2>3, OtherRom
  <2>5. QED BY <2>1, <2>4, ViewIdle
<1>4. QED BY <1>2, <1>3, EndSaveFails

\* A step that changes one directory of the shown list, which held no game.
LEMMA ViewPlace ==
  ASSUME InductiveInv, UNCHANGED <<shown, view, op, pool>>, CreationKept,
         NEW n \in Names, OnlyDir(shown, n), ~HasGame(shown, n),
         \A e \in view[shown] : e.name = n => ~(Matches(shown, e))'
  PROVE  ViewInv'
<1>1. ASSUME NEW l \in Lists, NEW e \in view[l]
      PROVE  ((Matches(l, e))' <=> Matches(l, e)) /\ ((OnDisk(l, e))' <=> OnDisk(l, e))
  <2>1. e.name \in Names BY ShownEntries
  <2>2. CASE l = shown /\ e.name = n BY <1>1, <2>2 DEF Matches, OnDisk
  <2>3. CASE l # shown \/ e.name # n
    BY <2>1, <2>3 DEF OnlyDir, OnDisk, Matches, HasGame, Exists
  <2>4. QED BY <2>2, <2>3
<1>2. ViewGames' BY <1>1, OpStays DEF InductiveInv, ViewInv, ViewGames, GoneKept
<1>3. ViewMoved'
  <2>1. SUFFICES ASSUME op.pc \in {"mvDest", "mvSource", "undoDir"} PROVE ViewMoved'
    BY DEF ViewMoved
  <2>2. Dest \in Lists /\ Dest # shown /\ op.as \in Names /\ Dest' = Dest
    BY <2>1, MoveLists DEF MovePcs, Dest
  <2>3. dirs'[Dest][op.as] = dirs[Dest][op.as] BY <2>2 DEF OnlyDir
  <2>4. QED BY <2>2, <2>3 DEF InductiveInv, ViewInv, ViewMoved
<1>4. QED BY <1>1, <1>2, <1>3, OpStays, PoolStays, ViewChanged

\* The metadata of a new game is written.
LEMMA ViewCreated ==
  ASSUME InductiveInv, creating.pc = "json", MayWrite(creating.list, Created),
         PutGame(creating.list, Created), UNCHANGED <<shown, view, op, pool>>, CreationKept
  PROVE  ViewInv'
<1>1. /\ creating.name \in Names /\ Empty(shown, creating.name) /\ OnlyDir(shown, creating.name)
      /\ dirs'[shown][creating.name].game = creating.game
  BY CreatedPut
<1>2. \A e \in view[shown] : e.game # creating.game
  BY ShownMatch, InvShapes DEF ViewNew
<1>3. \A e \in view[shown] : e.name = creating.name => ~(Matches(shown, e))'
  BY <1>1, <1>2 DEF Matches
<1>4. QED BY <1>1, <1>3, ViewPlace DEF Empty

\* The ROMs a cleanup removes are those no metadata names.
LEMMA PurgeKeeps ==
  ASSUME InductiveInv, Purge
  PROVE  /\ RomsKept /\ \A p \in Places : RomAt(p) # NoRom => RomAt(p) \in pool'
<1>1. op.pc = "purge" /\ pool \ (cleanup \ op.keep) \subseteq pool' BY PurgeEffect
<1>2. \A p \in Places : RomAt(p) # NoRom => RomAt(p) \in pool'
  BY <1>1 DEF InductiveInv, DiskInv, DiskRoms, RomsPresent
<1>3. ASSUME NEW l \in Lists, NEW e \in view[l], Matches(l, e)
      PROVE  e.rom \in pool' \cup {NoRom}
  <2>1. OnDisk(l, e)
    <3>1. CASE l = shown BY <1>1, <1>3, <3>1, ShownMatch DEF ViewSaved, Calm
    <3>2. CASE l # shown
      BY <1>3, <3>2, ShownMatch, ShownEntries DEF ViewLists, ViewSaved, Lists
    <3>3. QED BY <3>1, <3>2
  <2>2. <<l, e.name>> \in Places /\ RomAt(<<l, e.name>>) = e.rom
    BY <1>3, <2>1, ShownEntries DEF Places, RomAt, OnDisk, Matches
  <2>3. QED BY <1>2, <2>2
<1>4. QED BY <1>2, <1>3 DEF RomsKept

\* What the window shows is on disk.
LEMMA ViewInvStep ==
  ASSUME InductiveInv, Patient, OneFault, Next
  PROVE  ViewInv'
<1>1. ASSUME NEW e \in view[shown], NEW r \in Roms, EditRom(e, r)
      PROVE  ViewInv'

  <2> DEFINE f == [e EXCEPT !.rom = r]
  <2>1. /\ op.pc = "none" /\ op' = op /\ ~Gone
        /\ UNCHANGED <<dirs, pool, shown, creating>> /\ r \in pool
        /\ view' = [view EXCEPT ![shown] = (@ \ {e}) \cup {f}]
    BY <1>1 DEF EditRom, UserActs, Gone, CleanPcs, disk
  <2>2. e \in Entry /\ shown \in Lists /\ view \in [Lists -> SUBSET Entry] BY ShownEntries
  <2>3. f \in Entry /\ f.name = e.name /\ f.game = e.game /\ f.rom = r
    BY <1>1, <2>2 DEF Entry
  <2> HIDE DEF f
  <2>4. /\ \A l \in Lists : l # shown => view'[l] = view[l]
        /\ view'[shown] = (view[shown] \ {e}) \cup {f}
    BY <2>1, <2>2
  <2>5. ViewLists' BY <2>1, <2>2, <2>3, <2>4, ShownMatch DEF ViewLists, OneEach, Lists
  <2>6. ASSUME NEW l \in Lists, NEW x \in view'[l]
        PROVE  (Matches(l, x))' /\ x.rom \in pool' \cup {NoRom}
    <3>1. Matches(shown, f) BY <1>1, <2>1, <2>2, <2>3, ShownMatch DEF Matches
    <3>2. Matches(l, x) /\ x.rom \in pool \cup {NoRom}
      BY <2>1, <2>3, <2>4, <2>6, <3>1, ShownMatch
    <3>3. QED BY <2>1, <3>2 DEF Matches, HasGame, Exists
  <2>7. shown' = "folder" => \A x \in view'["lineup"] : (OnDisk("lineup", x))'
    BY <2>1, <2>4, ShownMatch DEF ViewSaved, Lists, OnDisk, Matches, HasGame, Exists
  <2>8. ViewNew' BY <2>1, <2>3, <2>4, ShownMatch DEF ViewNew
  <2>9. QED BY <2>1, <2>5, <2>6, <2>7, <2>8, ViewIdle
<1>2. ASSUME NEW kind \in {"delete", "move", "import"}, NEW e \in view[shown],
               NEW r \in Roms \cup {NoRom}, kind = "import" => r \in Roms, Start(kind, e, r)
      PROVE  ViewInv'

  <2>1. /\ op.pc = "none" /\ op'.pc = "drain" /\ op'.kind = kind /\ op'.name = e.name
        /\ op'.game = e.game /\ op'.old = e.rom
    BY <1>2, StartEffect
  <2>2. UNCHANGED <<dirs, pool, shown, view, creating>> BY <1>2 DEF Start, disk
  <2>3. ~Gone /\ ~Gone' /\ ~Calm' BY <2>1 DEF Gone, Calm, CleanPcs
  <2>4. ViewLists' /\ ViewNew' BY <2>2, ShownMatch DEF ViewLists, ViewNew
  <2>5. ViewGames' BY <2>2, <2>3, ShownMatch DEF ViewGames, Matches, HasGame, Exists
  <2>6. ViewRoms' BY <2>2, ShownMatch DEF ViewRoms, Matches, HasGame, Exists
  <2>7. ViewSaved' BY <2>2, <2>3, ShownMatch DEF ViewSaved, OnDisk, Matches, HasGame, Exists
  <2>8. ViewOp' BY <1>2, <2>1, <2>2, <2>3, ShownMatch, ShownEntries DEF ViewOp
  <2>9. QED BY <2>1, <2>4, <2>5, <2>6, <2>7, <2>8 DEF ViewInv, ViewMoved
<1>3. CASE TimerFires

  <2>1. UNCHANGED <<shown, view, dirs, pool, op, creating>> BY <1>3 DEF TimerFires, disk
  <2>2. QED BY <2>1, CreationStays, OpStays, ViewQuiet
<1>4. CASE BeginSave

  <2>1. UNCHANGED <<shown, view, dirs, pool, op, creating>> BY <1>4 DEF BeginSave, disk, window
  <2>2. QED BY <2>1, CreationStays, OpStays, ViewQuiet
<1>5. CASE RefuseSave

  <2>1. saves # <<>> /\ EndSave(FALSE) BY <1>5 DEF RefuseSave, InductiveInv, WriteInv
  <2>2. pool' = pool /\ SameGames /\ SameElsewhere /\ (Calm => SameRoms)
    BY <1>5, SameDirs DEF RefuseSave, disk
  <2>3. QED BY <2>1, <2>2, ViewEndSave
<1>6. ASSUME NEW e \in left, SaveGame(e)
      PROVE  ViewInv'

  <2>1. UNCHANGED <<shown, view, pool, op, creating>> BY <1>6 DEF SaveGame, window
  <2>2. SameGames /\ SameElsewhere /\ (Calm => SameRoms)
    BY <1>6, SavePutEffect, SameRewrites DEF SaveGame
  <2>3. QED BY <2>1, <2>2, CreationStays, PoolStays, OpStays, ViewKept
<1>7. ASSUME NEW e \in left, SaveGameFails(e)
      PROVE  ViewInv'

  <2>1. saves # <<>> /\ EndSave(FALSE) BY <1>7 DEF SaveGameFails, InductiveInv, WriteInv
  <2>2. pool' = pool /\ SameGames /\ SameElsewhere /\ (Calm => SameRoms)
    BY <1>7, SameDirs, SavePutEffect, SameRewrites DEF SaveGameFails
  <2>3. QED BY <2>1, <2>2, ViewEndSave
<1>8. CASE SaveRows(TRUE)

  <2>1. saves # <<>> /\ EndSave(TRUE) /\ writing /\ left = {} /\ UNCHANGED <<dirs, pool>>
    BY <1>8 DEF SaveRows, InductiveInv, WriteInv
  <2>2. UNCHANGED <<shown, view, creating>> BY <2>1, EndSaveOk
  <2>3. CASE op' = op BY <2>1, <2>2, <2>3, CreationStays, OpStays, ViewQuiet
  <2>4. CASE /\ Current.by = "op" /\ op.pc \in {"drain", "resave"}
             /\ OpMoves("replace") \/ OpMoves("run")
    <3>1. op'.pc \in {"replace", "run"} /\ OpKept /\ op'.game = op.game /\ op'.rom = op.rom
      BY <2>4 DEF OpMoves
    <3>2. op'.kind = "import" /\ op'.pc = "run" => op.pc \in {"drain", "resave"}
            /\ op.kind = "import"
      BY <2>4, <3>1 DEF OpKept
    <3>3. ViewLists' /\ ViewNew' BY <2>2, ShownMatch DEF ViewLists, ViewNew
    <3>4. ~Gone BY <2>4 DEF Gone, CleanPcs
    <3>5. ViewGames' BY <2>1, <2>2, <3>4, ShownMatch DEF ViewGames, Matches, HasGame, Exists
    <3>6. ViewRoms' BY <2>1, <2>2, ShownMatch DEF ViewRoms, Matches, HasGame, Exists
    <3>7. \A e \in view[shown] : OnDisk(shown, e) BY <2>1, <2>4, AwaitedSaved
    <3>8. ViewSaved'
      BY <2>1, <2>2, <3>7, ShownMatch DEF ViewSaved, OnDisk, Matches, HasGame, Exists
    <3>9. ViewOp' BY <2>1, <2>2, <2>4, <3>1, ShownMatch DEF ViewOp, OpKept
    <3>10. QED BY <3>1, <3>3, <3>5, <3>6, <3>8, <3>9 DEF ViewInv, ViewMoved
  <2>5. QED BY <2>1, <2>3, <2>4, EndSaveOk
<1>9. CASE SaveRows(FALSE)

  <2>1. saves # <<>> /\ EndSave(FALSE) BY <1>9 DEF SaveRows, InductiveInv, WriteInv
  <2>2. pool' = pool /\ SameGames /\ SameElsewhere /\ (Calm => SameRoms)
    BY <1>9, SameDirs DEF SaveRows
  <2>3. QED BY <2>1, <2>2, ViewEndSave
<1>10. CASE Open

  <2>1. op.pc = "none" /\ op' = op BY <1>10, Idle DEF Open, UserActs, InductiveInv, PhaseInv
  <2>2. /\ UNCHANGED <<dirs, pool>> /\ shown' = "lineup"
        /\ view' = [l \in Lists |-> IF l = "lineup" THEN Load(l) ELSE {}]
        /\ creating'.pc = "none" \/ creating'.detached
    BY <1>10, InvShapes DEF Open, disk, Creations
  <2>3. view'["lineup"] = Load("lineup") /\ view'["folder"] = {} BY <2>2 DEF Lists
  <2>4. ASSUME NEW l \in Lists, NEW x \in view'[l]
        PROVE  l = "lineup" /\ x \in Load("lineup")
    BY <2>3, <2>4 DEF Lists
  <2>5. ViewLists' BY <2>2, <2>3, LoadOnDisk DEF ViewLists, OneEach, Lists
  <2>6. ASSUME NEW l \in Lists, NEW x \in view'[l]
        PROVE  (Matches(l, x))' /\ x.rom \in pool' \cup {NoRom}
    BY <2>2, <2>4, <2>6, LoadOnDisk DEF Matches, HasGame, Exists, Lists
  <2>7. ViewNew'
    <3>1. creating.pc = "none" /\ creating' = creating
      BY <1>10, Idle DEF Open, Settled, InductiveInv, PhaseInv
    <3>2. QED BY <3>1 DEF ViewNew
  <2>8. QED BY <2>1, <2>2, <2>5, <2>6, <2>7, ViewIdle
<1>11. CASE EnterFolder

  <2>1. /\ op.pc = "none" /\ op' = op /\ creating.pc = "none" /\ creating' = creating
        /\ UNCHANGED <<dirs, pool>> /\ shown = "lineup" /\ shown' = "folder"
        /\ view["lineup"] = Load("lineup")
        /\ view' = [view EXCEPT !["folder"] = Load("folder")]
    BY <1>11 DEF EnterFolder, MayNavigate, MayLeave, UserActs, Settled, Saved, disk
  <2>2. ASSUME NEW l \in Lists PROVE view'[l] = Load(l)
    BY <2>1, ShownEntries DEF Lists
  <2>3. ViewLists' BY <2>1, <2>2, LoadOnDisk DEF ViewLists
  <2>4. ASSUME NEW l \in Lists, NEW x \in view'[l]
        PROVE  (Matches(l, x))' /\ x.rom \in pool' \cup {NoRom}
    BY <2>1, <2>2, <2>4, LoadOnDisk DEF Matches, HasGame, Exists
  <2>5. \A x \in view'["lineup"] : (OnDisk("lineup", x))'
    BY <2>1, <2>2, LoadOnDisk DEF OnDisk, Matches, HasGame, Exists, Lists
  <2>6. QED BY <2>1, <2>3, <2>4, <2>5, ViewIdle DEF ViewNew
<1>12. CASE ExitFolder

  <2>1. /\ op.pc = "none" /\ op' = op /\ creating.pc = "none" /\ creating' = creating
        /\ UNCHANGED <<dirs, pool>> /\ shown' = "lineup" /\ ~Gone
        /\ view' = [view EXCEPT !["folder"] = {}]
    BY <1>12 DEF ExitFolder, MayNavigate, MayLeave, UserActs, Settled, disk, Gone, CleanPcs
  <2>2. view'["lineup"] = view["lineup"] /\ view'["folder"] = {}
    BY <2>1, ShownEntries DEF Lists
  <2>3. ViewLists' BY <2>1, <2>2, ShownMatch DEF ViewLists, OneEach, Lists
  <2>4. ASSUME NEW l \in Lists, NEW x \in view'[l]
        PROVE  (Matches(l, x))' /\ x.rom \in pool' \cup {NoRom}
    BY <2>1, <2>2, <2>4, ShownMatch DEF Matches, HasGame, Exists, Lists
  <2>5. QED BY <2>1, <2>3, <2>4, ViewIdle DEF ViewNew
<1>13. ASSUME NEW n \in Names, NEW g \in Games, AddGame(n, g)
      PROVE  ViewInv'

  <2>1. /\ op.pc = "none" /\ op' = op /\ ~Gone /\ UNCHANGED <<dirs, pool, shown, view>>
        /\ n \notin NamesOf(view[shown]) /\ g \in fresh
        /\ creating'.name = n /\ creating'.game = g
    BY <1>13 DEF AddGame, MayLeave, UserActs, disk, window, Gone, CleanPcs
  <2>2. ASSUME NEW l \in Lists, NEW x \in view[l] PROVE x.game \notin fresh
    <3>1. Matches(l, x) /\ x \in Entry BY <2>1, <2>2, ShownMatch, ShownEntries
    <3>2. <<l, x.name>> \in Places /\ GameAt(<<l, x.name>>) = x.game
      BY <3>1, ShownEntries DEF Matches, Places, GameAt
    <3>3. QED BY <3>2 DEF InductiveInv, DiskInv, DiskIds
  <2>3. ViewNew' BY <2>1, <2>2 DEF ViewNew, NamesOf
  <2>4. ViewLists' BY <2>1, ShownMatch DEF ViewLists
  <2>5. ASSUME NEW l \in Lists, NEW x \in view'[l]
        PROVE  (Matches(l, x))' /\ x.rom \in pool' \cup {NoRom}
    BY <2>1, <2>5, ShownMatch DEF Matches, HasGame, Exists
  <2>6. shown' = "folder" => \A x \in view'["lineup"] : (OnDisk("lineup", x))'
    BY <2>1, ShownMatch DEF ViewSaved, OnDisk, Matches, HasGame, Exists
  <2>7. QED BY <2>1, <2>3, <2>4, <2>5, <2>6, ViewIdle
<1>14. CASE CreateDir

  <2>1. UNCHANGED <<shown, view, op, pool>> BY <1>14 DEF CreateDir, window
  <2>2. CASE creating' = NoCreate /\ UNCHANGED dirs
    BY <2>1, <2>2, Idle, OpStays, ViewQuiet DEF CreationKept
  <2>3. CASE ~(creating' = NoCreate /\ UNCHANGED dirs)
    <3>1. /\ creating.pc = "mkdir" /\ creating.name \in Names /\ ~Exists(shown, creating.name)
          /\ dirs'[shown][creating.name].game = NoGame /\ OnlyDir(shown, creating.name)
          /\ creating'.pc = "json" /\ creating'.name = creating.name
          /\ creating'.game = creating.game /\ creating'.detached = creating.detached
      BY <1>14, <2>3, CreateDirEffect
    <3>2. CreationKept BY <3>1 DEF CreationKept
    <3>3. QED BY <2>1, <3>1, <3>2, ViewPlace DEF HasGame, Matches
  <2>4. QED BY <2>2, <2>3
<1>15. CASE CreateJson

  <2>1. creating.pc = "json" /\ UNCHANGED <<shown, view, op, pool>>
    BY <1>15 DEF CreateJson, window
  <2>2. CreationKept BY <1>15, InvShapes DEF CreateJson, CreationKept, Creations
  <2>3. QED BY <1>15, <2>1, <2>2, ViewCreated DEF CreateJson
<1>16. CASE CreateFails

  <2>1. creating.pc = "json" /\ UNCHANGED <<shown, view, op, pool>> /\ CreationKept
    BY <1>16, Idle DEF CreateFails, window, CreationKept
  <2>2. \/ UNCHANGED dirs
        \/ MayWrite(creating.list, Created) /\ PutGame(creating.list, Created)
    BY <1>16 DEF CreateFails
  <2>3. CASE UNCHANGED dirs BY <2>1, <2>3, OpStays, ViewQuiet
  <2>4. QED BY <2>1, <2>2, <2>3, ViewCreated
<1>17. CASE CreateReply

  <2>1. /\ creating.pc = "reply" /\ creating' = NoCreate /\ UNCHANGED <<shown, op, dirs, pool>>
        /\ view' = IF creating.detached THEN view
                   ELSE [view EXCEPT ![shown] = @ \cup {Created}]
    BY <1>17 DEF CreateReply, disk
  <2>2. CASE creating.detached
    BY <2>1, <2>2, Idle, OpStays, ViewQuiet DEF CreationKept
  <2>3. CASE ~creating.detached
    <3>1. /\ \A l \in Lists : l # shown => view'[l] = view[l]
          /\ view'[shown] = view[shown] \cup {Created}
      BY <2>1, <2>3, ShownEntries
    <3>2. /\ OnDisk(shown, Created) /\ Created.rom = NoRom /\ Created.name = creating.name
          /\ \A e \in view[shown] : e.name # creating.name
      BY <2>1, <2>3, ShownMatch DEF InductiveInv, DiskInv, DiskAnswers, Created, ViewNew
    <3>3. Gone' <=> Gone BY <2>1 DEF Gone
    <3>4. ViewLists' BY <2>1, <3>1, <3>2, ShownMatch, ShownEntries DEF ViewLists, OneEach, Lists
    <3>5. ViewGames'
      BY <2>1, <3>1, <3>2, <3>3, ShownMatch DEF ViewGames, OnDisk, Matches, HasGame, Exists
    <3>6. ViewRoms'
      BY <2>1, <3>1, <3>2, ShownMatch DEF ViewRoms, Matches, HasGame, Exists
    <3>7. ViewSaved'
      BY <2>1, <3>1, <3>2, ShownMatch, ShownEntries
         DEF ViewSaved, Calm, Lists, OnDisk, Matches, HasGame, Exists
    <3>8. ViewOp' BY <2>1, <3>1, ShownMatch DEF ViewOp
    <3>9. ViewNew' BY <2>1, Idle DEF ViewNew
    <3>10. ViewMoved'
      <4>1. SUFFICES ASSUME op.pc \in {"mvDest", "mvSource", "undoDir"} PROVE ViewMoved'
        BY <2>1 DEF ViewMoved
      <4>2. op.name # creating.name BY <3>2, <4>1, ShownMatch DEF ViewOp
      <4>3. Dest \in Lists /\ Dest # shown /\ Dest' = Dest
        BY <2>1, <4>1, MoveLists DEF MovePcs, Dest
      <4>4. QED BY <2>1, <3>1, <3>2, <4>2, <4>3, ShownMatch DEF ViewMoved
    <3>11. QED BY <3>4, <3>5, <3>6, <3>7, <3>8, <3>9, <3>10 DEF ViewInv
  <2>4. QED BY <2>2, <2>3
<1>18. CASE ImportRom

  <2>1. /\ op.pc = "run" /\ op.kind = "import" /\ op.rom \in Roms /\ OpMoves("resave")
        /\ view' = [view EXCEPT ![shown] = WithRom(view[shown], op.game, op.rom)]
        /\ pool' = pool \cup {op.rom} /\ UNCHANGED <<shown, dirs, creating>>
    BY <1>18, ImportRomEffect, ImportRomFrame
  <2>2. ~Gone /\ ~Gone' /\ ~Calm' BY <2>1 DEF Gone, OpMoves, OpKept, Calm, CleanPcs
  <2>3. /\ ViewLists' /\ ViewNew'
        /\ \A l \in Lists : \A e \in view'[l] : (Matches(l, e))' /\ e.rom \in pool' \cup {NoRom}
        /\ shown' = "folder" => \A e \in view'["lineup"] : (OnDisk("lineup", e))'
        /\ view'[shown] = WithRom(view[shown], op.game, op.rom)
    BY <2>1, <2>2, SameDirs, OtherRom
  <2>4. ViewGames' /\ ViewRoms' /\ ViewSaved'
    BY <2>2, <2>3 DEF ViewGames, ViewRoms, ViewSaved
  <2>5. view[shown] \in SUBSET Entry /\ op.rom \in Roms \cup {NoRom} BY <2>1, ShownEntries
  <2>6. PICK e \in view[shown] : e.name = op.name /\ e.game = op.game
    BY <2>1, ShownMatch DEF ViewOp
  <2>7. \A x \in view[shown] : \E f \in WithRom(view[shown], op.game, op.rom) :
          f.name = x.name /\ f.game = x.game
    BY <2>5, WithRomKeeps
  <2>8. ViewOp' BY <2>1, <2>3, <2>6, <2>7, ShownMatch DEF ViewOp, OpMoves, OpKept
  <2>9. QED BY <2>1, <2>3, <2>4, <2>8 DEF ViewInv, ViewMoved, OpMoves
<1>19. CASE ImportFails

  <2>1. UNCHANGED <<shown, view, dirs, pool, creating>> BY <1>19, ImportFailsFrame
  <2>2. QED BY <1>19, <2>1, QuietSteps, CreationStays, ViewQuiet
<1>20. CASE RemoveReplaced

  <2>1. UNCHANGED <<shown, view, dirs, pool, creating>> BY <1>20, RemoveReplacedFrame
  <2>2. QED BY <1>20, <2>1, QuietSteps, CreationStays, ViewQuiet
<1>21. CASE DeleteMark

  <2>1. UNCHANGED <<shown, view, pool, creating>> BY <1>21, DeleteMarkFrame
  <2>2. SameGames /\ SameRoms /\ SameElsewhere
    <3>1. op.name \in Names /\ (UNCHANGED dirs \/ (Exists(op.list, op.name)
            /\ Marks(op.list, op.name, TRUE)))
      BY <1>21, DeleteMarkEffect, InvShapes
         DEF DeleteValid, InductiveInv, DeleteInv, DeletePcs, HasGame
    <3>2. QED BY <3>1, SameDirs, SameMarks
  <2>3. QED BY <1>21, <2>1, <2>2, QuietSteps, CreationStays, PoolStays, ViewKept
<1>22. CASE DeleteRows

  <2>1. UNCHANGED <<shown, view, dirs, pool, creating>> BY <1>22, DeleteRowsFrame
  <2>2. QED BY <1>22, <2>1, QuietSteps, CreationStays, ViewQuiet
<1>23. CASE DeleteUndo

  <2>1. UNCHANGED <<shown, view, pool, creating>> BY <1>23, DeleteUndoFrame
  <2>2. SameGames /\ SameRoms /\ SameElsewhere
    <3>1. op.name \in Names /\ (UNCHANGED dirs \/ (Exists(op.list, op.name)
            /\ Marks(op.list, op.name, FALSE)))
      BY <1>23, DeleteUndoEffect, InvShapes
         DEF DeleteValid, InductiveInv, DeleteInv, DeletePcs, HasGame
    <3>2. QED BY <3>1, SameDirs, SameMarks
  <2>3. QED BY <1>23, <2>1, <2>2, QuietSteps, CreationStays, PoolStays, ViewKept
<1>24. CASE DeleteDir

  <2>1. UNCHANGED <<shown, view, pool, creating>> BY <1>24, DeleteDirFrame
  <2>2. /\ op.kind = "delete" /\ op.pc = "delDir" /\ op.list = shown /\ op.name \in Names
        /\ OpMoves("queue") /\ shown \in Lists
        /\ UNCHANGED dirs \/ (dirs'[op.list][op.name] = NoDir /\ OnlyDir(op.list, op.name))
    BY <1>24, DeleteDirEffect, ShownEntries
  <2>3. Gone' /\ Calm /\ op'.list = op.list /\ op'.name = op.name
    BY <2>2 DEF Gone, Calm, OpMoves, OpKept, CleanPcs
  <2>4. ASSUME NEW l \in Lists, NEW e \in view[l], l # op.list \/ e.name # op.name
        PROVE  ((Matches(l, e))' <=> Matches(l, e)) /\ ((OnDisk(l, e))' <=> OnDisk(l, e))
    BY <2>2, <2>4, ShownEntries DEF OnlyDir, OnDisk, Matches, HasGame, Exists
  <2>5. ASSUME NEW e \in view[shown], e.name = op.name, (Matches(shown, e))'
        PROVE  Matches(shown, e) /\ (OnDisk(shown, e) => (OnDisk(shown, e))')
    BY <2>1, <2>2, <2>5 DEF OnDisk, Matches, HasGame, Exists
  <2>6. ViewGames' BY <2>1, <2>2, <2>3, <2>4, ShownMatch DEF ViewGames
  <2>7. ViewMoved' BY <2>2 DEF ViewMoved, OpMoves
  <2>8. QED
    BY <1>24, <2>1, <2>2, <2>3, <2>4, <2>5, <2>6, <2>7, QuietSteps, CreationStays, PoolStays,
      ViewChanged
<1>25. CASE QueueCleanup

  <2>1. UNCHANGED <<shown, view, dirs, pool, creating>> BY <1>25, QueueCleanupFrame
  <2>2. QED BY <1>25, <2>1, QuietSteps, CreationStays, ViewQuiet
<1>26. CASE ReadReferences

  <2>1. UNCHANGED <<shown, view, dirs, pool, creating>> BY <1>26, ReadReferencesFrame
  <2>2. QED BY <1>26, <2>1, QuietSteps, CreationStays, ViewQuiet
<1>27. CASE Purge

  <2>1. UNCHANGED <<shown, view, dirs, creating>> BY <1>27, PurgeFrame
  <2>2. op'.pc \notin {"drain", "run", "resave"}
    BY <1>27, PurgeEffect DEF OpMoves, OpEnds
  <2>3. QED BY <1>27, <2>1, <2>2, QuietSteps, CreationStays, SameDirs, PurgeKeeps, ViewKept
<1>28. CASE WriteQueue

  <2>1. UNCHANGED <<shown, view, dirs, pool, creating>> BY <1>28, WriteQueueFrame
  <2>2. QED BY <1>28, <2>1, QuietSteps, CreationStays, ViewQuiet
<1>29. CASE Answer

  <2>1. /\ op.pc = "answer" /\ op' = NoOp /\ UNCHANGED <<shown, dirs, pool>>
        /\ view' = [l \in Lists |-> IF l = "lineup" \/ shown = l THEN op.result[l] ELSE {}]
        /\ creating'.pc = "none" \/ (creating'.detached /\ creating'.game = creating.game
                                     /\ creating'.pc = creating.pc)
    BY <1>29, InvShapes DEF Answer, disk, Creations
  <2>2. \A l \in Lists : OneEach(op.result[l]) /\ \A e \in op.result[l] : OnDisk(l, e)
    BY <2>1 DEF InductiveInv, DiskInv, DiskAnswers
  <2>3. ASSUME NEW l \in Lists, NEW e \in view'[l]
        PROVE  /\ e \in op.result[l] /\ OnDisk(l, e) /\ (Matches(l, e))'
               /\ e.rom \in pool' \cup {NoRom} /\ <<l, e.name>> \in Places
               /\ GameAt(<<l, e.name>>) = e.game
    <3>1. e \in op.result[l] /\ OnDisk(l, e) BY <2>1, <2>2, <2>3
    <3>2. e \in Entry BY <3>1, InvShapes DEF Ops
    <3>3. <<l, e.name>> \in Places /\ GameAt(<<l, e.name>>) = e.game /\ RomAt(<<l, e.name>>) = e.rom
      BY <3>1, <3>2, ShownEntries DEF Places, GameAt, RomAt, OnDisk, Matches
    <3>4. e.rom \in pool \cup {NoRom} BY <3>3 DEF InductiveInv, DiskInv, DiskRoms, RomsPresent
    <3>5. QED BY <2>1, <3>1, <3>3, <3>4 DEF OnDisk, Matches, HasGame, Exists
  <2>4. ViewLists' BY <2>1, <2>2 DEF ViewLists, OneEach, Lists
  <2>5. shown' = "folder" => \A e \in view'["lineup"] : (OnDisk("lineup", e))'
    BY <2>1, <2>3 DEF Lists, OnDisk, Matches, HasGame, Exists
  <2>6. ViewNew'
    <3>1. CASE creating'.pc = "none" BY <3>1 DEF ViewNew
    <3>2. CASE creating'.pc # "none"
      <4>1. creating'.detached BY <2>1, <3>2
      <4>2. creating.pc \in {"mkdir", "json"} =>
              \A l \in Lists : \A e \in view'[l] : e.game # creating.game
        <5>1. creating.pc \in {"mkdir", "json"} => \A p \in Places : GameAt(p) # creating.game
          BY DEF InductiveInv, DiskInv, DiskIds
        <5>2. QED BY <2>3, <5>1
      <4>3. QED BY <2>1, <3>2, <4>1, <4>2 DEF ViewNew
    <3>3. QED BY <3>1, <3>2
  <2>7. QED BY <2>1, <2>3, <2>4, <2>5, <2>6, Idle, ViewIdle
<1>30. CASE MoveCheck

  <2>1. UNCHANGED <<shown, view, dirs, pool, creating>> BY <1>30, MoveCheckFrame
  <2>2. QED BY <1>30, <2>1, QuietSteps, CreationStays, ViewQuiet
<1>31. CASE MoveRename

  <2>1. op.pc = "mvRename" /\ UNCHANGED <<shown, view, pool, creating>>
    BY <1>31, MoveRenameEffect, MoveRenameFrame
  <2>2. CASE OpEnds /\ UNCHANGED dirs
    BY <1>31, <2>1, <2>2, QuietSteps, CreationStays, ViewQuiet
  <2>3. CASE /\ OpDirs("mvDest") /\ dirs'[Dest][op.as] = dirs[op.list][op.name]
             /\ dirs'[op.list][op.name] = NoDir
             /\ \A i \in Lists, j \in Names :
                  (i # op.list \/ j # op.name) /\ (i # Dest \/ j # op.as)
                  => dirs'[i][j] = dirs[i][j]
    <3>1. /\ op.list = shown /\ op.list \in Lists /\ Dest \in Lists /\ Dest # op.list
          /\ op.kind = "move" /\ op.as \in Names /\ ~Exists(Dest, op.as) /\ op.name \in Names
      BY <2>1, MoveLists DEF MovePcs, InductiveInv, MoveInv
    <3>2. ~Gone /\ Gone' /\ Calm /\ op'.list = op.list /\ op'.name = op.name /\ Dest' = Dest
          /\ op'.as = op.as /\ OpQuiet
      BY <2>1, <2>3, <3>1
         DEF Gone, Calm, OpDirs, OpMoves, OpKept, CleanPcs, Dest, OpQuiet, OpGoesOn
    <3>3. \A e \in view[Dest] : e.name # op.as
      BY <3>1, <3>2, ShownMatch DEF Matches, HasGame
    <3>4. ASSUME NEW l \in Lists, NEW e \in view[l], l # op.list \/ e.name # op.name
          PROVE  ((Matches(l, e))' <=> Matches(l, e)) /\ ((OnDisk(l, e))' <=> OnDisk(l, e))
      <4>1. dirs'[l][e.name] = dirs[l][e.name] BY <2>3, <3>3, <3>4, ShownEntries
      <4>2. QED BY <4>1 DEF OnDisk, Matches, HasGame, Exists
    <3>5. ASSUME NEW e \in view[shown], e.name = op.name PROVE ~(Matches(shown, e))'
      BY <2>1, <2>3, <3>1, <3>5 DEF Matches, HasGame, Exists
    <3>6. ViewGames' BY <2>1, <3>1, <3>2, <3>4, ShownMatch DEF ViewGames
    <3>7. ViewMoved'
      BY <2>1, <2>3, <3>1, <3>2, <3>3, ShownMatch DEF ViewMoved, ViewSaved, OnDisk, Matches
    <3>8. op'.pc = "mvDest" BY <2>3 DEF OpDirs, OpMoves
    <3>9. QED
      BY <2>1, <3>1, <3>2, <3>4, <3>5, <3>6, <3>7, <3>8, CreationStays, PoolStays, ViewChanged
  <2>4. QED BY <1>31, <2>2, <2>3, MoveRenameEffect
<1>32. CASE MoveDest

  <2>1. UNCHANGED <<shown, view, dirs, pool, creating>> BY <1>32, MoveDestFrame
  <2>2. QED BY <1>32, <2>1, QuietSteps, CreationStays, ViewQuiet
<1>33. CASE MoveSource

  <2>1. UNCHANGED <<shown, view, dirs, pool, creating>> BY <1>33, MoveSourceFrame
  <2>2. QED BY <1>33, <2>1, QuietSteps, CreationStays, ViewQuiet
<1>34. CASE UndoDir

  <2>1. /\ op.pc = "undoDir" /\ UNCHANGED <<shown, view, pool, creating>> /\ OpDirs("undoDest")
        /\ dirs'[op.list][op.name] = dirs[Dest][op.as] /\ dirs'[Dest][op.as] = NoDir
        /\ \A i \in Lists, j \in Names :
             (i # op.list \/ j # op.name) /\ (i # Dest \/ j # op.as) => dirs'[i][j] = dirs[i][j]
    BY <1>34, UndoDirEffect, UndoDirFrame
  <2>2. /\ op.list = shown /\ op.list \in Lists /\ Dest \in Lists /\ Dest # op.list
        /\ op.kind = "move" /\ op.as \in Names /\ op.name \in Names
        /\ HasGame(Dest, op.as) /\ dirs[Dest][op.as].game = op.game
    BY <2>1, MoveLists DEF MovePcs, InductiveInv, MoveInv
  <2>3. Gone /\ ~Gone' /\ Calm /\ op'.list = op.list /\ op'.name = op.name /\ op'.kind = op.kind
        /\ op'.game = op.game /\ op'.pc = "undoDest"
    BY <2>1, <2>2 DEF Gone, Calm, OpDirs, OpMoves, OpKept, CleanPcs
  <2>4. ASSUME NEW e \in view[shown], e.name = op.name
        PROVE  (OnDisk(shown, e))' /\ (Matches(shown, e))' /\ e.rom \in pool \cup {NoRom}
    <3>1. e.game = dirs[Dest][op.as].game /\ e.rom = dirs[Dest][op.as].rom
      BY <2>1, <2>4, ShownMatch DEF ViewMoved
    <3>2. (OnDisk(shown, e))' /\ (Matches(shown, e))'
      BY <2>1, <2>2, <2>4, <3>1 DEF OnDisk, Matches, HasGame, Exists
    <3>3. <<Dest, op.as>> \in Places /\ RomAt(<<Dest, op.as>>) = e.rom
      BY <2>2, <3>1 DEF Places, RomAt
    <3>4. QED BY <3>2, <3>3 DEF InductiveInv, DiskInv, DiskRoms, RomsPresent
  <2>5. ASSUME NEW l \in Lists, NEW e \in view[l], l # op.list \/ e.name # op.name
        PROVE  ((Matches(l, e))' <=> Matches(l, e)) /\ ((OnDisk(l, e))' <=> OnDisk(l, e))
    <3>1. l # Dest \/ e.name # op.as BY <2>1, <2>5, ShownMatch DEF ViewMoved
    <3>2. dirs'[l][e.name] = dirs[l][e.name] BY <2>1, <2>5, <3>1, ShownEntries
    <3>3. QED BY <3>2 DEF OnDisk, Matches, HasGame, Exists
  <2>6. ViewLists' /\ ViewNew' BY <2>1, ShownMatch DEF ViewLists, ViewNew
  <2>7. ViewGames' BY <2>1, <2>2, <2>4, <2>5, ShownMatch DEF ViewGames
  <2>8. ViewRoms' BY <2>1, <2>2, <2>4, <2>5, ShownMatch DEF ViewRoms
  <2>9. ViewSaved' BY <2>1, <2>2, <2>3, <2>4, <2>5, ShownMatch DEF ViewSaved, Lists
  <2>10. ViewOp' BY <2>1, <2>2, <2>3, ShownMatch DEF ViewOp
  <2>11. ViewMoved' BY <2>3 DEF ViewMoved
  <2>12. QED BY <2>6, <2>7, <2>8, <2>9, <2>10, <2>11 DEF ViewInv
<1>35. CASE UndoDest

  <2>1. UNCHANGED <<shown, view, dirs, pool, creating>> BY <1>35, UndoDestFrame
  <2>2. QED BY <1>35, <2>1, QuietSteps, CreationStays, ViewQuiet
<1>36. CASE UndoSource

  <2>1. UNCHANGED <<shown, view, dirs, pool, creating>> BY <1>36, UndoSourceFrame
  <2>2. QED BY <1>36, <2>1, QuietSteps, CreationStays, ViewQuiet
<1>37. CASE Crash

  <2>1. op'.pc = "none" /\ creating'.pc = "none" /\ \A l \in Lists : view'[l] = {}
    BY <1>37, Idle DEF Crash
  <2>2. ViewLists' /\ ViewNew' BY <2>1 DEF ViewLists, OneEach, ViewNew, Lists
  <2>3. QED BY <2>1, <2>2, ViewIdle DEF Lists
<1>38. QED
  BY <1>1, <1>2, <1>3, <1>4, <1>5, <1>6, <1>7, <1>8, <1>9, <1>10, <1>11,
     <1>12, <1>13, <1>14, <1>15, <1>16, <1>17, <1>18, <1>19, <1>20, <1>21,
     <1>22, <1>23, <1>24, <1>25, <1>26, <1>27, <1>28, <1>29, <1>30, <1>31,
     <1>32, <1>33, <1>34, <1>35, <1>36, <1>37
     DEF Next, StartDelete, StartMove, StartImport

-----------------------------------------------------------------------------
(* The queue of saves. *)

\* What QueueInv says of one snapshot.
LEMMA Queued ==
  ASSUME InductiveInv
  PROVE  /\ \A i \in DOMAIN saves :
              /\ saves[i].list = shown /\ OneEach(saves[i].games) /\ saves[i].by \in {"timer", "op"}
              /\ saves[i].games \subseteq Entry
              /\ \A e \in saves[i].games : EntryFine(e) /\ e \in Entry
         /\ saves \in Seq(Snapshots) /\ DOMAIN saves = 1..Len(saves) /\ Len(saves) \in Nat
         /\ QueueHolds /\ QueueBy /\ QueueCalm /\ QueueGone
<1>1. saves \in Seq(Snapshots) BY InvShapes DEF QueueShape
<1>2. DOMAIN saves = 1..Len(saves) /\ Len(saves) \in Nat BY <1>1
<1>3. ASSUME NEW i \in DOMAIN saves
      PROVE  saves[i].games \subseteq Entry /\ saves[i].by \in {"timer", "op"}
  <2>1. saves[i] \in Snapshots BY <1>1, <1>2
  <2>2. QED BY <2>1 DEF Snapshots
<1>4. QueueHolds /\ QueueBy /\ QueueCalm /\ QueueGone BY DEF InductiveInv, QueueInv
<1>5. QED BY <1>1, <1>2, <1>3, <1>4 DEF QueueHolds

\* An entry stays fine while games and creations stay what they are.
LEMMA FineKept ==
  ASSUME InductiveInv, NEW e \in Entry, EntryFine(e), UNCHANGED shown, SameGames, CreationKept,
         creating'.pc = "mkdir" => creating.pc = "mkdir",
         Matches(shown, e) => e.rom \in pool' \cup {NoRom}
  PROVE  EntryFine(e)'
<1>1. shown \in Lists BY ShownEntries
<1>2. /\ (Matches(shown, e))' <=> Matches(shown, e)
      /\ (Empty(shown, e.name))' <=> Empty(shown, e.name)
      /\ (Exists(shown, e.name))' <=> Exists(shown, e.name)
  BY <1>1, SameMatches
<1>3. CASE creating'.pc = "none" BY <1>2, <1>3 DEF EntryFine
<1>4. CASE creating'.pc # "none" BY <1>2, <1>4 DEF EntryFine, CreationKept
<1>5. QED BY <1>3, <1>4

\* The queue and the operation's wait stay what they are.
LEMMA QueueKept ==
  ASSUME InductiveInv, UNCHANGED <<shown, view, saves>>, OpQuiet, CreationKept, QueueGone',
         \A i \in DOMAIN saves : \A e \in saves[i].games : EntryFine(e)',
         op.pc \in {"drain", "resave"} =>
           op' = op /\ \A k \in DOMAIN saves : AwaitedAt(k) => (AwaitedAt(k))'
  PROVE  QueueInv'
<1>1. QueueHolds' BY Queued DEF QueueHolds
<1>2. QueueBy'
  <2>1. CASE op.pc \in {"drain", "resave"} BY <2>1, Queued DEF QueueBy
  <2>2. CASE op.pc \notin {"drain", "resave"}
    <3>1. op'.pc \notin {"drain", "resave"} BY <2>2 DEF OpQuiet, OpEnds, OpGoesOn
    <3>2. QED BY <2>2, <3>1, Queued DEF QueueBy
  <2>3. QED BY <2>1, <2>2
<1>3. QueueCalm'
  <2>1. Calm' => Calm BY CalmQuiet
  <2>2. creating'.pc # "none" => creating.pc # "none" BY DEF CreationKept
  <2>3. QED BY <2>1, <2>2, Queued DEF QueueCalm
<1>4. QED BY <1>1, <1>2, <1>3 DEF QueueInv

\* No operation, and no save that one awaits.
LEMMA QueueIdle ==
  ASSUME InductiveInv, op'.pc = "none", QueueHolds',
         \A i \in DOMAIN saves' : saves'[i].by = "timer"
  PROVE  QueueInv'
BY DEF QueueInv, QueueBy, QueueCalm, QueueGone, Calm, Gone, CleanPcs

\* The directory the operation took away is still the same one.
GoneOnly == Gone' => Gone /\ op'.list = op.list /\ op'.name = op.name

\* A game the operation took away stays away.
LEMMA GoneStays ==
  ASSUME InductiveInv, UNCHANGED <<timer, saves>>, GoneOnly, SameGames, op.list \in Lists,
         op.name \in Names,
         creating' = creating \/ creating'.pc = "none"
  PROVE  QueueGone'
<1>1. SUFFICES ASSUME Gone', (Empty(op.list, op.name))' PROVE QueueGone' BY DEF QueueGone
<1>2. Gone /\ op'.list = op.list /\ op'.name = op.name BY <1>1 DEF GoneOnly
<1>3. Empty(op.list, op.name) BY <1>1, <1>2 DEF SameGames, Empty, HasGame, Exists
<1>4. QED BY <1>2, <1>3, Queued DEF QueueGone

\* The queue without its head.
LEMMA QueueTail ==
  ASSUME InductiveInv, saves # <<>>, saves' = Tail(saves)
  PROVE  /\ \A i \in DOMAIN saves' : i \in Nat /\ i >= 1 /\ i + 1 \in DOMAIN saves
                                     /\ saves'[i] = saves[i + 1]
         /\ \A i \in DOMAIN saves : i \in Nat /\ (i # 1 => i - 1 \in DOMAIN saves'
                                                      /\ saves'[i - 1] = saves[i])
         /\ Len(saves') = Len(saves) - 1
<1>1. saves \in Seq(Snapshots) /\ Len(saves) \in Nat /\ DOMAIN saves = 1..Len(saves) BY Queued
<1>2. /\ Tail(saves) \in Seq(Snapshots) /\ Len(Tail(saves)) = Len(saves) - 1
      /\ \A i \in DOMAIN Tail(saves) : Tail(saves)[i] = saves[i + 1] /\ i + 1 \in DOMAIN saves
      /\ Len(saves) >= 1
  BY InvShapes, CurrentTyped
<1>3. DOMAIN Tail(saves) = 1..(Len(saves) - 1) BY <1>2
<1>4. QED BY <1>1, <1>2, <1>3

\* The first of the queue is done, and what is left of it holds.
LEMMA TailHolds ==
  ASSUME InductiveInv, saves # <<>>, saves' = Tail(saves), UNCHANGED <<shown, creating>>,
         pool' = pool, SameGames
  PROVE  QueueHolds'
<1>1. ASSUME NEW i \in DOMAIN saves, NEW e \in saves[i].games PROVE EntryFine(e)'
  BY <1>1, Queued, FineKept, CreationStays DEF EntryFine
<1>2. QED BY <1>1, Queued, QueueTail DEF QueueHolds

\* What the first save writes leaves alone what is on disk under other names.
OthersSaved ==
  \A e \in Entry :
    OnDisk(shown, e) /\ (\A f \in Current.games : f.name # e.name) => (OnDisk(shown, e))'

\* A save nobody awaits is done.
LEMMA TimerSaved ==
  ASSUME InductiveInv, saves # <<>>, saves' = Tail(saves), Current.by = "timer",
         UNCHANGED <<shown, view, op, creating, timer>>, pool' = pool, SameGames, OthersSaved
  PROVE  QueueInv'
<1>1. QueueHolds' BY TailHolds
<1>2. QueueBy'
  <2>1. CASE op.pc \notin {"drain", "resave"} BY <2>1, Queued, QueueTail DEF QueueBy
  <2>2. CASE op.pc \in {"drain", "resave"}
    <3>1. PICK k \in DOMAIN saves : AwaitedAt(k) BY <2>2, Queued DEF QueueBy
    <3>2. Current = saves[1] /\ 1 \in DOMAIN saves BY HeadOfQueue
    <3>3. k # 1 BY <3>1, <3>2 DEF AwaitedAt
    <3>4. k \in Nat /\ k - 1 \in DOMAIN saves' /\ saves'[k - 1] = saves[k] /\ k > 1
      BY <3>3, QueueTail, Queued
    <3>5. \A i \in DOMAIN saves' : saves'[i].by = "op" <=> i = k - 1
      <4>1. ASSUME NEW i \in DOMAIN saves' PROVE saves'[i].by = "op" <=> i + 1 = k
        BY <3>1, QueueTail DEF AwaitedAt
      <4>2. \A i \in DOMAIN saves' : i \in Nat BY QueueTail
      <4>3. QED BY <3>4, <4>1, <4>2
    <3>6. \A i \in DOMAIN saves' : i >= k - 1 => saves'[i].games \subseteq view[shown]
      <4>1. ASSUME NEW i \in DOMAIN saves', i + 1 >= k PROVE saves'[i].games \subseteq view[shown]
        BY <3>1, <4>1, QueueTail DEF AwaitedAt
      <4>2. QED BY <3>4, <4>1, QueueTail
    <3>7. ASSUME NEW e \in view[shown], e \notin saves[k].games
          PROVE  /\ (OnDisk(shown, e))'
                 /\ \A i \in DOMAIN saves' : \A f \in saves'[i].games : i < k - 1 => f.name # e.name
      <4>1. /\ OnDisk(shown, e) /\ e \in Entry
            /\ \A i \in DOMAIN saves : \A f \in saves[i].games : i < k => f.name # e.name
        BY <3>1, <3>7, ShownEntries DEF AwaitedAt
      <4>2. (OnDisk(shown, e))' BY <3>2, <3>4, <4>1 DEF OthersSaved
      <4>3. ASSUME NEW i \in DOMAIN saves', NEW f \in saves'[i].games, i < k - 1
            PROVE  f.name # e.name
        <5>1. i + 1 \in DOMAIN saves /\ f \in saves[i + 1].games /\ i + 1 < k
          BY <3>4, <4>3, QueueTail
        <5>2. QED BY <4>1, <5>1
      <4>4. QED BY <4>2, <4>3
    <3>8. creating'.pc # "none" => k - 1 = Len(saves')
      BY <3>1, <3>4, QueueTail, Queued DEF AwaitedAt
    <3>9. (AwaitedAt(k - 1))'
      BY <3>4, <3>5, <3>6, <3>7, <3>8 DEF AwaitedAt
    <3>10. QED BY <2>2, <3>4, <3>9 DEF QueueBy
  <2>3. QED BY <2>1, <2>2
<1>3. QueueCalm' BY Queued, QueueTail DEF QueueCalm, Calm
<1>4. QueueGone'
  <2>1. ~(Gone /\ Empty(op.list, op.name)) BY Queued DEF QueueGone
  <2>2. ASSUME Gone PROVE op.list \in Lists /\ op.name \in Names
    BY <2>2, InvShapes DEF InductiveInv, PhaseInv, Gone, CleanPcs
  <2>3. Gone /\ (Empty(op.list, op.name))' => Empty(op.list, op.name)
    BY <2>2 DEF SameGames, Empty, HasGame, Exists
  <2>4. Gone' <=> Gone BY DEF Gone
  <2>5. QED BY <2>1, <2>3, <2>4 DEF QueueGone
<1>5. QED BY <1>1, <1>2, <1>3, <1>4 DEF QueueInv

\* The awaited save is done: nothing queued is awaited any more.
LEMMA AwaitedDone ==
  ASSUME InductiveInv, saves # <<>>, saves' = Tail(saves), Current.by = "op"
  PROVE  /\ \A i \in DOMAIN saves' : saves'[i].by = "timer" /\ saves'[i].games \subseteq view[shown]
         /\ creating.pc # "none" => saves' = <<>>
<1>1. Current = saves[1] /\ 1 \in DOMAIN saves /\ op.pc \in {"drain", "resave"}
  BY HeadOfQueue
<1>2. PICK k \in DOMAIN saves : AwaitedAt(k) BY <1>1, Queued DEF QueueBy
<1>3. k = 1 BY <1>1, <1>2 DEF AwaitedAt
<1>4. ASSUME NEW i \in DOMAIN saves'
      PROVE  saves'[i].by = "timer" /\ saves'[i].games \subseteq view[shown]
  <2>1. i + 1 \in DOMAIN saves /\ i \in Nat /\ i + 1 # k /\ i + 1 >= k /\ saves'[i] = saves[i + 1]
    BY <1>3, QueueTail
  <2>2. QED BY <1>2, <2>1, Queued DEF AwaitedAt
<1>5. creating.pc # "none" => saves' = <<>>
  <2>1. SUFFICES ASSUME creating.pc # "none" PROVE saves' = <<>> OBVIOUS
  <2>2. Len(saves') = 0 BY <1>2, <1>3, <2>1, QueueTail DEF AwaitedAt
  <2>3. Tail(saves) \in Seq(Snapshots) BY InvShapes, CurrentTyped
  <2>4. QED BY <2>2, <2>3
<1>6. QED BY <1>4, <1>5

\* The end of a save keeps QueueInv.
LEMMA QueueEndSave ==
  ASSUME InductiveInv, saves # <<>>, EndSave(FALSE), pool' = pool, SameGames, OthersSaved
  PROVE  QueueInv'
<1>1. saves' = Tail(saves) /\ UNCHANGED <<shown, creating, timer>> BY EndSaveFails
<1>2. CASE Current.by = "timer" /\ UNCHANGED <<op, view>> BY <1>1, <1>2, TimerSaved
<1>3. CASE Current.by = "op" /\ OpEnds
  BY <1>1, <1>3, AwaitedDone, TailHolds, QueueIdle DEF OpEnds
<1>4. QED BY <1>2, <1>3, EndSaveFails

\* A snapshot of what the window shows joins the queue.
LEMMA AppendHolds ==
  ASSUME InductiveInv, NEW s \in Snapshots, saves' = Append(saves, s), s.list = shown,
         OneEach(s.games), \A e \in s.games : EntryFine(e)',
         UNCHANGED <<shown, dirs, creating>>, pool \subseteq pool'
  PROVE  /\ QueueHolds' /\ Len(saves') = Len(saves) + 1 /\ saves'[Len(saves) + 1] = s
         /\ DOMAIN saves' = 1..(Len(saves) + 1)
         /\ \A i \in DOMAIN saves : i \in DOMAIN saves' /\ i # Len(saves) + 1
              /\ saves'[i] = saves[i]
         /\ \A i \in DOMAIN saves' : i \in Nat /\ (i # Len(saves) + 1 => i \in DOMAIN saves)
<1>1. /\ Len(saves') = Len(saves) + 1 /\ saves'[Len(saves) + 1] = s
      /\ DOMAIN saves' = 1..(Len(saves) + 1) /\ DOMAIN saves = 1..Len(saves)
      /\ \A i \in DOMAIN saves : saves'[i] = saves[i] /\ Len(saves) \in Nat
  BY InvShapes, AppendTyped
<1>2. Len(saves) \in Nat BY Queued
<1>3. /\ \A i \in DOMAIN saves : i \in DOMAIN saves' /\ i # Len(saves) + 1
      /\ \A i \in DOMAIN saves' : i \in Nat /\ (i # Len(saves) + 1 => i \in DOMAIN saves)
  BY <1>1, <1>2
<1>4. ASSUME NEW i \in DOMAIN saves, NEW e \in saves[i].games PROVE EntryFine(e)'
  BY <1>4, Queued, FineKept, CreationStays, SameDirs DEF EntryFine
<1>5. QueueHolds' BY <1>1, <1>3, <1>4, Queued DEF QueueHolds
<1>6. QED BY <1>1, <1>3, <1>5

\* What the window shows while no directory is taken away may be queued.
LEMMA ShownFine ==
  ASSUME InductiveInv, ~Gone, NEW e \in view[shown]
  PROVE  EntryFine(e)
<1>1. Matches(shown, e) /\ e.rom \in pool \cup {NoRom} /\ ViewNew
  BY ShownMatch, ShownEntries
<1>2. QED BY <1>1 DEF EntryFine, ViewNew, Matches, Empty, HasGame

\* A snapshot stays fine while games and creation stay.
LEMMA FineSame ==
  ASSUME NEW e, EntryFine(e), UNCHANGED <<shown, dirs, creating>>, pool \subseteq pool'
  PROVE  EntryFine(e)'
BY DEF EntryFine, Empty, Matches, Exists, HasGame

\* A step that leaves games, window, queue and creation alone.
LEMMA QueueQuiet ==
  ASSUME InductiveInv, UNCHANGED <<shown, view, saves, timer, creating>>, SameGames,
         pool \subseteq pool' \/ (Calm /\ RomsKept), OpQuiet, GoneOnly,
         op.pc \in {"drain", "resave"} =>
           op' = op /\ \A k \in DOMAIN saves : AwaitedAt(k) => (AwaitedAt(k))'
  PROVE  QueueInv'
<1>1. ASSUME NEW i \in DOMAIN saves, NEW e \in saves[i].games PROVE EntryFine(e)'
  <2>1. e \in Entry /\ EntryFine(e) /\ shown \in Lists BY Queued, ShownEntries, <1>1
  <2>2. Matches(shown, e) => e.rom \in pool' \cup {NoRom}
    <3>1. CASE pool \subseteq pool' BY <2>1, <3>1 DEF EntryFine
    <3>2. CASE Calm /\ RomsKept BY <1>1, <2>1, <3>2, Queued DEF QueueCalm, RomsKept
    <3>3. QED BY <3>1, <3>2
  <2>3. QED BY <2>1, <2>2, FineKept, CreationStays
<1>2. QueueGone'
  <2>1. CASE Gone
    <3>1. op.list \in Lists /\ op.name \in Names
      BY <2>1, InvShapes DEF InductiveInv, PhaseInv, Gone, CleanPcs
    <3>2. QED BY <3>1, GoneStays
  <2>2. CASE ~Gone BY <2>2 DEF GoneOnly, QueueGone
  <2>3. QED BY <2>1, <2>2
<1>3. QED BY <1>1, <1>2, CreationStays, QueueKept

\* Quiet steps that take nothing away.
LEMMA QuietGone ==
  ASSUME InductiveInv,
         \/ ImportFails \/ RemoveReplaced \/ DeleteMark \/ DeleteRows \/ DeleteUndo
         \/ QueueCleanup \/ ReadReferences \/ Purge \/ WriteQueue \/ MoveCheck
         \/ MoveDest \/ MoveSource \/ UndoDest \/ UndoSource
         \/ MoveRename /\ OpEnds
  PROVE  GoneOnly /\ op.pc \notin {"drain", "resave"}
<1>1. CASE ImportFails
  BY <1>1, Idle
     DEF GoneOnly, OpEnds, OpMoves, OpDirs, OpKept, Gone, CleanPcs,
         ImportFails, Running, Fault, Abandon
<1>2. CASE RemoveReplaced
  BY <1>2, RemoveReplacedEffect, Idle
     DEF GoneOnly, OpEnds, OpMoves, OpDirs, OpKept, Gone, CleanPcs
<1>3. CASE DeleteMark
  BY <1>3, DeleteMarkEffect, Idle
     DEF GoneOnly, OpEnds, OpMoves, OpDirs, OpKept, Gone, CleanPcs
<1>4. CASE DeleteRows
  BY <1>4, DeleteRowsEffect, Idle
     DEF GoneOnly, OpEnds, OpMoves, OpDirs, OpKept, Gone, CleanPcs
<1>5. CASE DeleteUndo
  BY <1>5, DeleteUndoEffect, Idle
     DEF GoneOnly, OpEnds, OpMoves, OpDirs, OpKept, Gone, CleanPcs
<1>6. CASE QueueCleanup
  BY <1>6, QueueCleanupEffect, Idle
     DEF GoneOnly, OpEnds, OpMoves, OpDirs, OpKept, Gone, CleanPcs
<1>7. CASE ReadReferences
  BY <1>7, ReadReferencesEffect, Idle
     DEF GoneOnly, OpEnds, OpMoves, OpDirs, OpKept, Gone, CleanPcs
<1>8. CASE Purge
  BY <1>8, PurgeEffect, Idle
     DEF GoneOnly, OpEnds, OpMoves, OpDirs, OpKept, Gone, CleanPcs
<1>9. CASE WriteQueue
  BY <1>9, WriteQueueEffect, Idle
     DEF GoneOnly, OpEnds, OpMoves, OpDirs, OpKept, Gone, CleanPcs
<1>10. CASE MoveCheck
  BY <1>10, MoveCheckEffect, Idle
     DEF GoneOnly, OpEnds, OpMoves, OpDirs, OpKept, Gone, CleanPcs
<1>11. CASE MoveDest
  BY <1>11, MoveDestEffect, Idle
     DEF GoneOnly, OpEnds, OpMoves, OpDirs, OpKept, Gone, CleanPcs
<1>12. CASE MoveSource
  <2>1. op.pc = "mvSource" /\ op.kind = "move" /\ Gone
    BY <1>12 DEF MoveSource, MoveWrite, Running, Gone
  <2>2. op'.list = op.list /\ op'.name = op.name
    BY <1>12, MoveSourceEffect DEF OpMoves, OpDirs, OpKept
  <2>3. QED BY <2>1, <2>2 DEF GoneOnly
<1>13. CASE UndoDest
  BY <1>13, UndoDestEffect, Idle
     DEF GoneOnly, OpEnds, OpMoves, OpDirs, OpKept, Gone, CleanPcs
<1>14. CASE UndoSource
  BY <1>14, UndoSourceEffect, Idle
     DEF GoneOnly, OpEnds, OpMoves, OpDirs, OpKept, Gone, CleanPcs
<1>15. CASE MoveRename /\ OpEnds
  BY <1>15, MoveRenameEffect DEF MoveRename, Running, GoneOnly, OpEnds, Gone, CleanPcs
<1>16. QED
  BY <1>1, <1>2, <1>3, <1>4, <1>5, <1>6, <1>7, <1>8, <1>9, <1>10, <1>11,
     <1>12, <1>13, <1>14, <1>15

\* A step that changes one directory of the shown list, which held no game.
LEMMA QueuePlace ==
  ASSUME InductiveInv, UNCHANGED <<shown, view, saves, timer, op, pool>>, CreationKept,
         NEW n \in Names, OnlyDir(shown, n), ~HasGame(shown, n), QueueGone',
         \A i \in DOMAIN saves : \A e \in saves[i].games : EntryFine(e)'
  PROVE  QueueInv'
<1>1. ASSUME NEW e \in Entry, OnDisk(shown, e) PROVE (OnDisk(shown, e))'
  <2>1. e.name # n /\ e.name \in Names /\ shown \in Lists
    BY <1>1, ShownEntries DEF OnDisk, Matches
  <2>2. dirs'[shown][e.name] = dirs[shown][e.name] BY <2>1 DEF OnlyDir
  <2>3. QED BY <1>1, <2>2 DEF OnDisk, Matches, HasGame, Exists
<1>2. ASSUME NEW k \in DOMAIN saves, AwaitedAt(k) PROVE (AwaitedAt(k))'
  <2>1. view[shown] \subseteq Entry BY ShownEntries
  <2>2. QED BY <1>1, <1>2, <2>1 DEF AwaitedAt, CreationKept
<1>3. QED BY <1>2, OpStays, QueueKept

\* The metadata of a new game is written.
LEMMA QueueCreated ==
  ASSUME InductiveInv, creating.pc = "json", MayWrite(creating.list, Created),
         PutGame(creating.list, Created), UNCHANGED <<shown, view, saves, timer, op, pool>>,
         CreationKept, creating'.pc # "mkdir"
  PROVE  QueueInv'
<1>1. /\ creating.name \in Names /\ Empty(shown, creating.name) /\ OnlyDir(shown, creating.name)
      /\ dirs'[shown][creating.name].game = creating.game
      /\ dirs'[shown][creating.name] # NoDir /\ creating.game \in Games
  BY CreatedPut
<1>2. ASSUME NEW i \in DOMAIN saves, NEW e \in saves[i].games PROVE EntryFine(e)'
  <2>1. e \in Entry /\ EntryFine(e) /\ e.name \in Names /\ shown \in Lists
    BY <1>2, Queued, ShownEntries
  <2>2. e.name # creating.name BY <1>1, <2>1 DEF EntryFine
  <2>3. dirs'[shown][e.name] = dirs[shown][e.name] BY <1>1, <2>1, <2>2 DEF OnlyDir
  <2>4. /\ ~(Empty(shown, e.name))' /\ ((Matches(shown, e))' => e.rom \in pool' \cup {NoRom})
    BY <2>1, <2>3 DEF EntryFine, Empty, Matches, HasGame, Exists
  <2>5. QED BY <2>2, <2>4 DEF EntryFine, CreationKept
<1>3. QueueGone'
  <2>1. SUFFICES ASSUME Gone, (Empty(op.list, op.name))' PROVE FALSE BY DEF QueueGone, Gone
  <2>2. op.list = shown /\ op.list \in Lists /\ op.name \in Names
    BY <2>1, InvShapes DEF InductiveInv, PhaseInv, Gone, CleanPcs
  <2>3. CASE op.name = creating.name
    BY <1>1, <2>1, <2>2, <2>3, DistinctAssumption DEF Empty, HasGame, Exists
  <2>4. CASE op.name # creating.name
    <3>1. Empty(op.list, op.name)
      BY <1>1, <2>1, <2>2, <2>4 DEF OnlyDir, Empty, HasGame, Exists
    <3>2. QED BY <2>1, <2>4, <3>1, Queued DEF QueueGone
  <2>5. QED BY <2>3, <2>4
<1>4. QED BY <1>1, <1>2, <1>3, QueuePlace DEF Empty

\* A creation that ends without writing anything.
LEMMA QueueStopped ==
  ASSUME InductiveInv, UNCHANGED <<shown, view, saves, timer, op, pool, dirs>>,
         creating' = NoCreate
  PROVE  QueueInv'
<1>1. CreationKept /\ creating'.pc = "none" BY Idle DEF CreationKept
<1>2. ASSUME NEW i \in DOMAIN saves, NEW e \in saves[i].games PROVE EntryFine(e)'
  BY <1>1, <1>2, Queued, FineKept, SameDirs DEF EntryFine
<1>3. QueueGone'
  BY <1>1, Queued DEF QueueGone, Gone, Empty, HasGame, Exists
<1>4. ASSUME NEW k \in DOMAIN saves, AwaitedAt(k) PROVE (AwaitedAt(k))'
  BY <1>1, <1>4 DEF AwaitedAt, OnDisk, Matches, HasGame, Exists
<1>5. QED BY <1>1, <1>2, <1>3, <1>4, OpStays, QueueKept

\* An operation takes its directory away, or puts it back.
LEMMA QueueMoved ==
  ASSUME InductiveInv, Calm, OpQuiet, UNCHANGED <<shown, view, saves, creating, pool>>,
         NEW n \in Names, \A m \in Names : m # n => dirs'[shown][m] = dirs[shown][m],
         ~(Empty(shown, n))', QueueGone',
         \A e \in view[shown] : e.name = n /\ (Matches(shown, e))' => e.rom \in pool \cup {NoRom}
  PROVE  QueueInv'
<1>1. ASSUME NEW i \in DOMAIN saves, NEW e \in saves[i].games PROVE EntryFine(e)'
  <2>1. /\ EntryFine(e) /\ e \in view[shown] /\ e.name \in Names /\ creating.pc = "none"
    BY <1>1, Queued, ShownEntries DEF QueueCalm
  <2>2. ~(Empty(shown, e.name))' /\ ((Matches(shown, e))' => e.rom \in pool' \cup {NoRom})
    <3>1. CASE e.name = n BY <2>1, <3>1
    <3>2. CASE e.name # n
      <4>1. dirs'[shown][e.name] = dirs[shown][e.name] BY <2>1, <3>2
      <4>2. QED BY <2>1, <4>1 DEF EntryFine, Empty, Matches, HasGame, Exists
    <3>3. QED BY <3>1, <3>2
  <2>3. QED BY <2>1, <2>2 DEF EntryFine
<1>2. op.pc \notin {"drain", "resave"} BY DEF Calm
<1>3. QED BY <1>1, <1>2, CreationStays, QueueKept

\* A save writes one entry and leaves the games of other names alone.
LEMMA OthersRewritten ==
  ASSUME InductiveInv, writing, NEW e \in left, MayWrite(Current.list, e),
         PutGame(Current.list, e), UNCHANGED shown, NEW x \in Entry, x.name # e.name,
         OnDisk(shown, x)
  PROVE  (OnDisk(shown, x))'
<1>1. Rewrites(e) /\ shown \in Lists /\ x.name \in Names BY SavePutEffect, ShownEntries
<1>2. QED BY <1>1 DEF Rewrites, OnDisk, Matches, HasGame, Exists

\* The queue keeps what it promises.
LEMMA QueueInvStep ==
  ASSUME InductiveInv, Patient, OneFault, Next
  PROVE  QueueInv'
<1>1. ASSUME NEW e \in view[shown], NEW r \in Roms, EditRom(e, r)
      PROVE  QueueInv'
  <2>1. /\ op.pc = "none" /\ op' = op
        /\ UNCHANGED <<dirs, pool, shown, creating, saves>>
    BY <1>1 DEF EditRom, UserActs, disk, saving
  <2>2. QueueHolds' BY <2>1, Queued, FineSame DEF QueueHolds
  <2>3. QED BY <2>1, <2>2, Queued, QueueIdle DEF QueueBy
<1>2. ASSUME NEW kind \in {"delete", "move", "import"}, NEW e \in view[shown],
             NEW r \in Roms \cup {NoRom}, kind = "import" => r \in Roms, Start(kind, e, r)
      PROVE  QueueInv'
  <2> DEFINE s == [list |-> shown, games |-> view[shown], by |-> "op"]
  <2>1. /\ op.pc = "none" /\ op'.pc = "drain" /\ saves' = Append(saves, s)
        /\ UNCHANGED <<shown, view, dirs, pool, creating>>
    BY <1>2, StartEffect DEF Start, disk
  <2>2. s \in Snapshots /\ s.list = shown /\ s.games = view[shown] /\ s.by = "op"
    BY ShownEntries DEF Snapshots
  <2> HIDE DEF s
  <2>3. ~Gone /\ ~Gone' /\ ~Calm' BY <2>1 DEF Gone, Calm, CleanPcs
  <2>4. OneEach(view[shown]) /\ \A e2 \in view[shown] : EntryFine(e2)'
    BY <2>1, <2>3, ShownFine, FineSame, ShownMatch, ShownEntries DEF ViewLists
  <2>5. /\ QueueHolds' /\ Len(saves') = Len(saves) + 1 /\ saves'[Len(saves) + 1] = s
        /\ DOMAIN saves' = 1..(Len(saves) + 1)
        /\ \A i \in DOMAIN saves : saves'[i] = saves[i] /\ i # Len(saves) + 1
        /\ \A i \in DOMAIN saves' : i \in Nat /\ (i # Len(saves) + 1 => i \in DOMAIN saves)
    BY <2>1, <2>2, <2>4, AppendHolds
  <2>6. \A i \in DOMAIN saves : saves[i].by = "timer" BY <2>1, Queued DEF QueueBy
  <2>7. PICK k \in DOMAIN saves' : k = Len(saves) + 1 BY <2>5, Queued
  <2>8. (AwaitedAt(k))'
    <3>1. \A i \in DOMAIN saves' : saves'[i].by = "op" <=> i = k BY <2>2, <2>5, <2>6, <2>7
    <3>2. \A i \in DOMAIN saves' : i >= k => saves'[i].games \subseteq view[shown]
      BY <2>2, <2>5, <2>7, Queued
    <3>3. QED BY <2>1, <2>2, <2>5, <2>7, <3>1, <3>2 DEF AwaitedAt
  <2>9. QED BY <2>1, <2>3, <2>5, <2>7, <2>8 DEF QueueInv, QueueBy, QueueCalm, QueueGone
<1>3. CASE TimerFires
  <2> DEFINE s == [list |-> shown, games |-> view[shown], by |-> "timer"]
  <2>1. /\ timer /\ timer' = FALSE /\ saves' = Append(saves, s)
        /\ UNCHANGED <<shown, view, dirs, pool, creating, op>>
    BY <1>3 DEF TimerFires, Snapshot, disk
  <2>2. s \in Snapshots /\ s.list = shown /\ s.games = view[shown] /\ s.by = "timer"
    BY ShownEntries DEF Snapshots
  <2> HIDE DEF s
  <2>3. /\ op.pc # "none" => creating.pc = "none"
        /\ ~(Gone /\ Empty(op.list, op.name))
    BY <2>1, Queued DEF QueueGone, InductiveInv, PhaseInv
  <2>4. ASSUME NEW e \in view[shown] PROVE EntryFine(e)
    <3>1. CASE ~Gone BY <3>1, ShownFine
    <3>2. CASE Gone
      <4>1. op.pc # "none" /\ op.list = shown
        BY <3>2 DEF Gone, CleanPcs, InductiveInv, PhaseInv
      <4>2. /\ ~Empty(shown, e.name)
            /\ Matches(shown, e) => e.rom \in pool \cup {NoRom}
        BY <2>3, <3>2, <4>1, ShownMatch, ShownEntries DEF ViewGames, ViewRoms, Matches, Empty
      <4>3. QED BY <2>3, <4>1, <4>2 DEF EntryFine
    <3>3. QED BY <3>1, <3>2
  <2>5. OneEach(view[shown]) /\ \A e \in view[shown] : EntryFine(e)'
    BY <2>1, <2>4, FineSame, ShownMatch, ShownEntries DEF ViewLists
  <2>6. /\ QueueHolds' /\ Len(saves') = Len(saves) + 1 /\ saves'[Len(saves) + 1] = s
        /\ DOMAIN saves' = 1..(Len(saves) + 1)
        /\ \A i \in DOMAIN saves : i \in DOMAIN saves' /\ saves'[i] = saves[i] /\ i # Len(saves) + 1
        /\ \A i \in DOMAIN saves' : i \in Nat /\ (i # Len(saves) + 1 => i \in DOMAIN saves)
    BY <2>1, <2>2, <2>5, AppendHolds
  <2>7. QueueBy'
    <3>1. CASE op.pc \notin {"drain", "resave"} BY <2>1, <2>2, <2>6, <3>1, Queued DEF QueueBy
    <3>2. CASE op.pc \in {"drain", "resave"}
      <4>1. PICK k \in DOMAIN saves : AwaitedAt(k) BY <3>2, Queued DEF QueueBy
      <4>2. k \in Nat /\ k <= Len(saves) /\ Len(saves) \in Nat BY Queued
      <4>3. \A i \in DOMAIN saves' : saves'[i].by = "op" <=> i = k
        BY <2>2, <2>6, <4>1, <4>2 DEF AwaitedAt
      <4>4. \A i \in DOMAIN saves' : i >= k => saves'[i].games \subseteq view[shown]
        BY <2>2, <2>6, <4>1 DEF AwaitedAt
      <4>5. ASSUME NEW e \in view[shown], e \notin saves[k].games
            PROVE  /\ (OnDisk(shown, e))'
                   /\ \A i \in DOMAIN saves' : \A f \in saves'[i].games : i < k => f.name # e.name
        <5>1. /\ OnDisk(shown, e)
              /\ \A i \in DOMAIN saves : \A f \in saves[i].games : i < k => f.name # e.name
          BY <4>1, <4>5 DEF AwaitedAt
        <5>2. \A i \in DOMAIN saves' : i < k => i # Len(saves) + 1 BY <2>6, <4>2
        <5>3. QED BY <2>1, <2>6, <5>1, <5>2 DEF OnDisk, Matches, HasGame, Exists
      <4>6. creating'.pc = "none" BY <2>1, <2>3, <3>2
      <4>7. (AwaitedAt(k))' BY <2>1, <2>6, <4>3, <4>4, <4>5, <4>6 DEF AwaitedAt
      <4>8. QED BY <2>1, <2>6, <3>2, <4>7 DEF QueueBy
    <3>3. QED BY <3>1, <3>2
  <2>8. QueueCalm'
    BY <2>1, <2>2, <2>3, <2>6, Queued DEF QueueCalm, Calm, InductiveInv, PhaseInv
  <2>9. QueueGone' BY <2>1, <2>3 DEF QueueGone, Gone, Empty, HasGame, Exists
  <2>10. QED BY <2>6, <2>7, <2>8, <2>9 DEF QueueInv
<1>4. CASE BeginSave
  <2>1. UNCHANGED <<shown, view, saves, timer, dirs, pool, op, creating>>
    BY <1>4 DEF BeginSave, disk, window
  <2>2. \A k \in DOMAIN saves : AwaitedAt(k) => (AwaitedAt(k))'
    BY <2>1 DEF AwaitedAt, OnDisk, Matches, HasGame, Exists
  <2>3. GoneOnly BY <2>1 DEF GoneOnly, Gone
  <2>4. QED BY <2>1, <2>2, <2>3, OpStays, SameDirs, QueueQuiet
<1>5. CASE RefuseSave
  <2>1. saves # <<>> /\ EndSave(FALSE) /\ UNCHANGED <<dirs, pool>>
    BY <1>5 DEF RefuseSave, disk
  <2>2. OthersSaved
    BY <2>1, EndSaveFails DEF OthersSaved, OnDisk, Matches, HasGame, Exists
  <2>3. QED BY <2>1, <2>2, SameDirs, QueueEndSave
<1>6. ASSUME NEW e \in left, SaveGame(e)
      PROVE  QueueInv'
  <2>1. /\ writing /\ MayWrite(Current.list, e) /\ PutGame(Current.list, e)
        /\ UNCHANGED <<shown, view, saves, timer, pool, op, creating>>
    BY <1>6 DEF SaveGame, window
  <2>2. SameGames BY <2>1, SavePutEffect, SameRewrites
  <2>3. ASSUME NEW k \in DOMAIN saves, AwaitedAt(k), NEW x \in view[shown],
               x \notin saves[k].games
        PROVE  (OnDisk(shown, x))'
    <3>1. /\ OnDisk(shown, x) /\ x \in Entry
          /\ \A i \in DOMAIN saves : \A f \in saves[i].games : i < k => f.name # x.name
      BY <2>3, ShownEntries DEF AwaitedAt
    <3>2. /\ e \in saves[1].games /\ 1 \in DOMAIN saves
      BY <2>1, SavePut, HeadOfQueue
    <3>3. x.name # e.name
      <4>1. CASE k = 1
        BY <2>3, <3>2, <4>1, ShownMatch, ShownEntries DEF AwaitedAt, ViewLists, OneEach
      <4>2. CASE k # 1 BY <3>1, <3>2, <4>2, Queued
      <4>3. QED BY <4>1, <4>2
    <3>4. QED BY <2>1, <3>1, <3>3, OthersRewritten
  <2>4. \A k \in DOMAIN saves : AwaitedAt(k) => (AwaitedAt(k))'
    BY <2>1, <2>3 DEF AwaitedAt
  <2>5. GoneOnly BY <2>1 DEF GoneOnly, Gone
  <2>6. QED BY <2>1, <2>2, <2>4, <2>5, OpStays, QueueQuiet
<1>7. ASSUME NEW e \in left, SaveGameFails(e)
      PROVE  QueueInv'
  <2>1. writing /\ saves # <<>> /\ EndSave(FALSE) /\ pool' = pool /\ e \in Current.games
    BY <1>7 DEF SaveGameFails, InductiveInv, WriteInv
  <2>2. \/ UNCHANGED dirs
        \/ MayWrite(Current.list, e) /\ PutGame(Current.list, e)
    BY <1>7 DEF SaveGameFails
  <2>3. shown' = shown BY <2>1, EndSaveFails
  <2>4. SameGames BY <2>1, <2>2, SameDirs, SavePutEffect, SameRewrites
  <2>5. OthersSaved
    <3>1. CASE UNCHANGED dirs
      BY <2>3, <3>1 DEF OthersSaved, OnDisk, Matches, HasGame, Exists
    <3>2. CASE MayWrite(Current.list, e) /\ PutGame(Current.list, e)
      BY <2>1, <2>3, <3>2, OthersRewritten DEF OthersSaved
    <3>3. QED BY <2>2, <3>1, <3>2
  <2>6. QED BY <2>1, <2>4, <2>5, QueueEndSave
<1>8. CASE SaveRows(TRUE)
  <2>1. /\ saves # <<>> /\ EndSave(TRUE) /\ UNCHANGED <<dirs, pool>>
    BY <1>8 DEF SaveRows, InductiveInv, WriteInv
  <2>2. saves' = Tail(saves) /\ UNCHANGED <<shown, view, timer, creating>>
    BY <2>1, EndSaveOk
  <2>3. CASE Current.by = "timer" /\ op' = op
    <3>1. OthersSaved BY <2>1, <2>2 DEF OthersSaved, OnDisk, Matches, HasGame, Exists
    <3>2. QED BY <2>1, <2>2, <2>3, <3>1, SameDirs, TimerSaved
  <2>4. CASE Current.by = "op" /\ op'.pc \in {"replace", "run"}
    <3>1. QueueHolds' BY <2>1, <2>2, SameDirs, TailHolds
    <3>2. /\ \A i \in DOMAIN saves' :
               saves'[i].by = "timer" /\ saves'[i].games \subseteq view[shown]
          /\ creating.pc # "none" => saves' = <<>>
      BY <2>1, <2>2, <2>4, AwaitedDone
    <3>3. ~Gone' BY <2>4 DEF Gone, CleanPcs
    <3>4. QED
      BY <2>2, <2>4, <3>1, <3>2, <3>3 DEF QueueInv, QueueBy, QueueCalm, QueueGone
  <2>5. QED BY <2>1, <2>3, <2>4, EndSaveOk DEF OpMoves
<1>9. CASE SaveRows(FALSE)
  <2>1. saves # <<>> /\ EndSave(FALSE) /\ UNCHANGED <<dirs, pool>>
    BY <1>9 DEF SaveRows, InductiveInv, WriteInv
  <2>2. OthersSaved
    BY <2>1, EndSaveFails DEF OthersSaved, OnDisk, Matches, HasGame, Exists
  <2>3. QED BY <2>1, <2>2, SameDirs, QueueEndSave
<1>10. CASE Open
  <2>1. op'.pc = "none" /\ saves' = <<>>
    BY <1>10, Idle DEF Open, UserActs, Settled, saving, InductiveInv, PhaseInv
  <2>2. QED BY <2>1, QueueIdle DEF QueueHolds
<1>11. CASE EnterFolder
  <2>1. op'.pc = "none" /\ saves' = <<>>
    BY <1>11 DEF EnterFolder, MayNavigate, MayLeave, UserActs, Settled, saving
  <2>2. QED BY <2>1, QueueIdle DEF QueueHolds
<1>12. CASE ExitFolder
  <2>1. op'.pc = "none" /\ saves' = <<>>
    BY <1>12 DEF ExitFolder, MayNavigate, MayLeave, UserActs, Settled, saving
  <2>2. QED BY <2>1, QueueIdle DEF QueueHolds
<1>13. ASSUME NEW n \in Names, NEW g \in Games, AddGame(n, g)
      PROVE  QueueInv'
  <2>1. op'.pc = "none" /\ saves' = <<>>
    BY <1>13 DEF AddGame, MayLeave, UserActs, Settled, saving
  <2>2. QED BY <2>1, QueueIdle DEF QueueHolds
<1>14. CASE CreateDir
  <2>1. UNCHANGED <<shown, view, saves, timer, op, pool>> BY <1>14 DEF CreateDir, window, saving
  <2>2. CASE creating' = NoCreate /\ UNCHANGED dirs BY <2>1, <2>2, QueueStopped
  <2>3. CASE ~(creating' = NoCreate /\ UNCHANGED dirs)
    <3>1. /\ creating.pc = "mkdir" /\ creating.name \in Names /\ ~Exists(shown, creating.name)
          /\ dirs'[shown][creating.name].game = NoGame /\ OnlyDir(shown, creating.name)
          /\ creating'.pc = "json" /\ creating'.name = creating.name
          /\ creating'.game = creating.game /\ creating'.detached = creating.detached
      BY <1>14, <2>3, CreateDirEffect
    <3>2. CreationKept BY <3>1 DEF CreationKept
    <3>3. ASSUME NEW i \in DOMAIN saves, NEW e \in saves[i].games PROVE EntryFine(e)'
      <4>1. EntryFine(e) /\ e.name \in Names /\ shown \in Lists
        BY <3>3, Queued, ShownEntries
      <4>2. e.name # creating.name BY <3>1, <4>1 DEF EntryFine
      <4>3. dirs'[shown][e.name] = dirs[shown][e.name] BY <3>1, <4>1, <4>2 DEF OnlyDir
      <4>4. QED
        BY <2>1, <3>1, <4>1, <4>2, <4>3 DEF EntryFine, Empty, Matches, HasGame, Exists
    <3>4. QueueGone'
      <4>1. SUFFICES ASSUME Gone, (Empty(op.list, op.name))' PROVE QueueGone'
        BY <2>1 DEF QueueGone, Gone
      <4>2. op.pc # "none" /\ Calm /\ op.list = shown /\ op.name \in Names /\ shown \in Lists
        BY <4>1, ShownEntries DEF Gone, Calm, CleanPcs, InductiveInv, PhaseInv
      <4>3. ~timer /\ saves = <<>>
        BY <3>1, <4>2, Queued DEF QueueCalm, InductiveInv, PhaseInv
      <4>4. op.name = creating.name
        <5>1. SUFFICES ASSUME op.name # creating.name PROVE FALSE OBVIOUS
        <5>2. dirs'[shown][op.name] = dirs[shown][op.name]
          BY <4>2, <5>1, <3>1 DEF OnlyDir
        <5>3. Empty(op.list, op.name)
          BY <2>1, <4>1, <4>2, <5>2 DEF Empty, HasGame, Exists
        <5>4. QED BY <3>1, <4>1, <5>3, Queued DEF QueueGone
      <4>5. QED BY <2>1, <3>1, <4>3, <4>4 DEF QueueGone
    <3>5. QED BY <2>1, <3>1, <3>2, <3>3, <3>4, QueuePlace DEF HasGame
  <2>4. QED BY <2>2, <2>3
<1>15. CASE CreateJson
  <2>1. creating.pc = "json" /\ UNCHANGED <<shown, view, saves, timer, op, pool>>
    BY <1>15 DEF CreateJson, window, saving
  <2>2. CreationKept /\ creating'.pc = "reply"
    BY <1>15, InvShapes DEF CreateJson, CreationKept, Creations
  <2>3. QED BY <1>15, <2>1, <2>2, QueueCreated DEF CreateJson
<1>16. CASE CreateFails
  <2>1. /\ creating.pc = "json" /\ UNCHANGED <<shown, view, saves, timer, op, pool>>
        /\ creating' = NoCreate
    BY <1>16 DEF CreateFails, window, saving
  <2>2. \/ UNCHANGED dirs
        \/ MayWrite(creating.list, Created) /\ PutGame(creating.list, Created)
    BY <1>16 DEF CreateFails
  <2>3. CASE UNCHANGED dirs BY <2>1, <2>3, QueueStopped
  <2>4. CreationKept /\ creating'.pc # "mkdir" BY <2>1, Idle DEF CreationKept
  <2>5. QED BY <2>1, <2>2, <2>3, <2>4, QueueCreated
<1>17. CASE CreateReply
  <2>1. /\ creating.pc = "reply" /\ creating' = NoCreate
        /\ UNCHANGED <<shown, op, dirs, pool, saves>>
        /\ view' = IF creating.detached THEN view
                   ELSE [view EXCEPT ![shown] = @ \cup {Created}]
    BY <1>17 DEF CreateReply, disk, saving
  <2>2. /\ view[shown] \subseteq view'[shown]
        /\ view'[shown] \subseteq view[shown] \cup {Created}
        /\ creating.detached => view' = view
    BY <2>1, ShownEntries
  <2>3. CreationKept /\ creating'.pc = "none" BY <2>1, Idle DEF CreationKept
  <2>4. ASSUME NEW i \in DOMAIN saves, NEW x \in saves[i].games PROVE EntryFine(x)'
    BY <2>1, <2>3, <2>4, Queued, FineKept, SameDirs DEF EntryFine
  <2>5. QueueHolds' BY <2>1, <2>4, Queued DEF QueueHolds
  <2>6. QueueBy'
    <3>1. CASE op.pc \notin {"drain", "resave"} BY <2>1, <3>1, Queued DEF QueueBy
    <3>2. CASE op.pc \in {"drain", "resave"}
      <4>1. PICK k \in DOMAIN saves : AwaitedAt(k) BY <3>2, Queued DEF QueueBy
      <4>2. ASSUME NEW x \in view'[shown], x \notin saves[k].games
            PROVE  /\ OnDisk(shown, x)
                   /\ \A i \in DOMAIN saves : \A f \in saves[i].games : i < k => f.name # x.name
        <5>1. CASE x \in view[shown] BY <4>1, <4>2, <5>1 DEF AwaitedAt
        <5>2. CASE x \notin view[shown]
          <6>1. x = Created /\ ~creating.detached BY <2>2, <4>2, <5>2
          <6>2. OnDisk(shown, x) /\ x.name = creating.name
            BY <2>1, <6>1 DEF InductiveInv, DiskInv, DiskAnswers, Created
          <6>3. QED BY <2>1, <6>1, <6>2, Queued DEF EntryFine
        <5>3. QED BY <5>1, <5>2
      <4>3. (AwaitedAt(k))'
        <5>1. \A i \in DOMAIN saves' : saves'[i].by = "op" <=> i = k
          BY <2>1, <4>1 DEF AwaitedAt
        <5>2. \A i \in DOMAIN saves' : i >= k => saves'[i].games \subseteq view'[shown']
          BY <2>1, <2>2, <4>1 DEF AwaitedAt
        <5>3. \A x \in Entry : OnDisk(shown, x) => (OnDisk(shown, x))'
          BY <2>1 DEF OnDisk, Matches, HasGame, Exists
        <5>4. QED BY <2>1, <2>3, <4>2, <5>1, <5>2 DEF AwaitedAt, OnDisk, Matches, HasGame, Exists
      <4>4. QED BY <2>1, <3>2, <4>3 DEF QueueBy
    <3>3. QED BY <3>1, <3>2
  <2>7. QueueCalm' BY <2>1, <2>2, <2>3, Queued DEF QueueCalm, Calm
  <2>8. QueueGone' BY <2>1, Queued DEF QueueGone, Gone, Empty, HasGame, Exists
  <2>9. QED BY <2>5, <2>6, <2>7, <2>8 DEF QueueInv
<1>18. CASE ImportRom
  <2> DEFINE now == WithRom(view[shown], op.game, op.rom)
             s == [list |-> shown, games |-> now, by |-> "op"]
  <2>1. /\ op.pc = "run" /\ op.kind = "import" /\ op.rom \in Roms /\ op'.pc = "resave"
        /\ view' = [view EXCEPT ![shown] = now] /\ saves' = Append(saves, s)
        /\ pool' = pool \cup {op.rom} /\ UNCHANGED <<shown, dirs, creating>>
    BY <1>18, ImportRomEffect, ImportRomFrame DEF OpMoves
  <2>2. view[shown] \in SUBSET Entry /\ view'[shown] = now BY <2>1, ShownEntries
  <2>3. /\ \A f \in now : f \in Entry /\ \E e \in view[shown] :
             f.name = e.name /\ f.game = e.game /\ f.rom \in {e.rom, op.rom}
        /\ OneEach(now)
    BY <2>1, <2>2, WithRomEntries, ShownMatch, ShownEntries DEF ViewLists
  <2> HIDE DEF now
  <2>4. s \in Snapshots /\ s.list = shown /\ s.games = now /\ s.by = "op"
    BY <2>3, ShownEntries DEF Snapshots
  <2> HIDE DEF s
  <2>5. ~Gone /\ ~Gone' /\ Calm /\ ~Calm' BY <2>1 DEF Gone, Calm, CleanPcs
  <2>6. ASSUME NEW f \in now PROVE EntryFine(f)'
    <3>1. PICK e \in view[shown] : f.name = e.name /\ f.game = e.game /\ f.rom \in {e.rom, op.rom}
      BY <2>3
    <3>2. EntryFine(e) /\ e.rom \in pool \cup {NoRom} BY <2>5, ShownFine, ShownMatch, ShownEntries
    <3>3. QED BY <2>1, <3>1, <3>2 DEF EntryFine, Empty, Matches, HasGame, Exists
  <2>7. /\ QueueHolds' /\ Len(saves') = Len(saves) + 1 /\ saves'[Len(saves) + 1] = s
        /\ DOMAIN saves' = 1..(Len(saves) + 1)
        /\ \A i \in DOMAIN saves : saves'[i] = saves[i] /\ i # Len(saves) + 1
        /\ \A i \in DOMAIN saves' : i \in Nat /\ (i # Len(saves) + 1 => i \in DOMAIN saves)
    BY <2>1, <2>3, <2>4, <2>6, AppendHolds
  <2>8. \A i \in DOMAIN saves : saves[i].by = "timer" BY <2>1, Queued DEF QueueBy
  <2>9. PICK k \in DOMAIN saves' : k = Len(saves) + 1 BY <2>7, Queued
  <2>10. (AwaitedAt(k))'
    <3>1. \A i \in DOMAIN saves' : saves'[i].by = "op" <=> i = k BY <2>4, <2>7, <2>8, <2>9
    <3>2. \A i \in DOMAIN saves' : i >= k => saves'[i].games \subseteq view'[shown']
      BY <2>1, <2>2, <2>4, <2>7, <2>9, Queued
    <3>3. QED BY <2>1, <2>2, <2>4, <2>7, <2>9, <3>1, <3>2 DEF AwaitedAt
  <2>11. QED BY <2>1, <2>5, <2>7, <2>9, <2>10 DEF QueueInv, QueueBy, QueueCalm, QueueGone
<1>19. CASE ImportFails
  <2>1. UNCHANGED <<shown, view, saves, timer, dirs, pool, creating>> BY <1>19, ImportFailsFrame
  <2>2. QED BY <1>19, <2>1, QuietSteps, QuietGone, SameDirs, QueueQuiet
<1>20. CASE RemoveReplaced
  <2>1. UNCHANGED <<shown, view, saves, timer, dirs, pool, creating>> BY <1>20, RemoveReplacedFrame
  <2>2. QED BY <1>20, <2>1, QuietSteps, QuietGone, SameDirs, QueueQuiet
<1>21. CASE DeleteMark
  <2>1. UNCHANGED <<shown, view, saves, timer, pool, creating>> BY <1>21, DeleteMarkFrame
  <2>2. SameGames
    <3>1. /\ op.name \in Names
          /\ \/ UNCHANGED dirs
             \/ Exists(op.list, op.name) /\ Marks(op.list, op.name, TRUE)
      BY <1>21, DeleteMarkEffect, InvShapes
         DEF DeleteValid, InductiveInv, DeleteInv, DeletePcs, HasGame
    <3>2. QED BY <3>1, SameDirs, SameMarks
  <2>3. QED BY <1>21, <2>1, <2>2, QuietSteps, QuietGone, QueueQuiet
<1>22. CASE DeleteRows
  <2>1. UNCHANGED <<shown, view, saves, timer, dirs, pool, creating>> BY <1>22, DeleteRowsFrame
  <2>2. QED BY <1>22, <2>1, QuietSteps, QuietGone, SameDirs, QueueQuiet
<1>23. CASE DeleteUndo
  <2>1. UNCHANGED <<shown, view, saves, timer, pool, creating>> BY <1>23, DeleteUndoFrame
  <2>2. SameGames
    <3>1. /\ op.name \in Names
          /\ \/ UNCHANGED dirs
             \/ Exists(op.list, op.name) /\ Marks(op.list, op.name, FALSE)
      BY <1>23, DeleteUndoEffect, InvShapes
         DEF DeleteValid, InductiveInv, DeleteInv, DeletePcs, HasGame
    <3>2. QED BY <3>1, SameDirs, SameMarks
  <2>3. QED BY <1>23, <2>1, <2>2, QuietSteps, QuietGone, QueueQuiet
<1>24. CASE DeleteDir
  <2>1. UNCHANGED <<shown, view, saves, timer, pool, creating>> BY <1>24, DeleteDirFrame
  <2>2. /\ op.kind = "delete" /\ op.pc = "delDir" /\ op.list = shown /\ op.name \in Names
        /\ OpMoves("queue") /\ shown \in Lists
        /\ UNCHANGED dirs \/ (dirs'[op.list][op.name] = NoDir /\ OnlyDir(op.list, op.name))
    BY <1>24, DeleteDirEffect, ShownEntries
  <2>3. HasGame(op.list, op.name) BY <2>2 DEF InductiveInv, DeleteInv, DeletePcs
  <2>4. Calm /\ op'.list = op.list /\ op'.name = op.name
    BY <2>2 DEF Calm, OpMoves, OpKept
  <2>5. ~(Empty(shown, op.name))' BY <2>1, <2>2, <2>3, <2>4 DEF Empty, HasGame, Exists
  <2>6. QueueGone' BY <2>1, <2>2, <2>4, <2>5 DEF QueueGone
  <2>7. ASSUME NEW e \in view[shown], e.name = op.name, (Matches(shown, e))'
        PROVE  e.rom \in pool \cup {NoRom}
    <3>1. Matches(shown, e) BY <2>1, <2>2, <2>7 DEF Matches, HasGame, Exists
    <3>2. QED BY <3>1, ShownMatch, ShownEntries DEF ViewRoms
  <2>8. \A m \in Names : m # op.name => dirs'[shown][m] = dirs[shown][m]
    BY <2>2 DEF OnlyDir
  <2>9. OpQuiet BY <1>24, QuietSteps
  <2>10. QED BY <2>1, <2>2, <2>4, <2>5, <2>6, <2>7, <2>8, <2>9, QueueMoved
<1>25. CASE QueueCleanup
  <2>1. UNCHANGED <<shown, view, saves, timer, dirs, pool, creating>> BY <1>25, QueueCleanupFrame
  <2>2. QED BY <1>25, <2>1, QuietSteps, QuietGone, SameDirs, QueueQuiet
<1>26. CASE ReadReferences
  <2>1. UNCHANGED <<shown, view, saves, timer, dirs, pool, creating>> BY <1>26, ReadReferencesFrame
  <2>2. QED BY <1>26, <2>1, QuietSteps, QuietGone, SameDirs, QueueQuiet
<1>27. CASE Purge
  <2>1. UNCHANGED <<shown, view, saves, timer, dirs, creating>> BY <1>27, PurgeFrame
  <2>2. RomsKept /\ Calm BY <1>27, PurgeKeeps, PurgeEffect DEF Calm
  <2>3. QED BY <1>27, <2>1, <2>2, QuietSteps, QuietGone, SameDirs, QueueQuiet
<1>28. CASE WriteQueue
  <2>1. UNCHANGED <<shown, view, saves, timer, dirs, pool, creating>> BY <1>28, WriteQueueFrame
  <2>2. QED BY <1>28, <2>1, QuietSteps, QuietGone, SameDirs, QueueQuiet
<1>29. CASE Answer
  <2>1. /\ op.pc = "answer" /\ op' = NoOp /\ UNCHANGED <<shown, dirs, pool, saves>>
        /\ \/ creating' = creating
           \/ /\ creating'.detached /\ creating'.name = creating.name
              /\ creating'.pc = creating.pc
    BY <1>29, InvShapes DEF Answer, disk, saving, Creations
  <2>2. ASSUME NEW i \in DOMAIN saves, NEW e \in saves[i].games PROVE EntryFine(e)'
    BY <2>1, <2>2, Queued DEF EntryFine, Empty, Matches, HasGame, Exists
  <2>3. QueueHolds' BY <2>1, <2>2, Queued DEF QueueHolds
  <2>4. QED BY <2>1, <2>3, Idle, Queued, QueueIdle DEF QueueBy
<1>30. CASE MoveCheck
  <2>1. UNCHANGED <<shown, view, saves, timer, dirs, pool, creating>> BY <1>30, MoveCheckFrame
  <2>2. QED BY <1>30, <2>1, QuietSteps, QuietGone, SameDirs, QueueQuiet
<1>31. CASE MoveRename
  <2>1. op.pc = "mvRename" /\ UNCHANGED <<shown, view, saves, timer, pool, creating>>
    BY <1>31, MoveRenameEffect, MoveRenameFrame
  <2>2. CASE OpEnds /\ UNCHANGED dirs
    BY <1>31, <2>1, <2>2, QuietSteps, QuietGone, SameDirs, QueueQuiet
  <2>3. CASE /\ OpDirs("mvDest") /\ dirs'[op.list][op.name] = NoDir
             /\ \A i \in Lists, j \in Names :
                  (i # op.list \/ j # op.name) /\ (i # Dest \/ j # op.as)
                  => dirs'[i][j] = dirs[i][j]
    <3>1. /\ op.list = shown /\ shown \in Lists /\ Dest # shown /\ op.name \in Names
          /\ op.kind = "move"
      BY <2>1, MoveLists DEF MovePcs
    <3>2. Calm /\ op'.list = op.list /\ op'.name = op.name /\ OpQuiet
      BY <2>1, <2>3, <3>1 DEF Calm, OpDirs, OpMoves, OpKept, OpQuiet, OpGoesOn
    <3>3. /\ ~(Empty(shown, op.name))'
          /\ \A e \in view[shown] : e.name = op.name => ~(Matches(shown, e))'
      BY <2>1, <2>3, <3>1, <3>2 DEF Empty, Matches, HasGame, Exists
    <3>4. QueueGone' BY <2>1, <3>1, <3>2, <3>3 DEF QueueGone
    <3>5. QED BY <2>1, <2>3, <3>1, <3>2, <3>3, <3>4, QueueMoved
  <2>4. QED BY <1>31, <2>2, <2>3, MoveRenameEffect
<1>32. CASE MoveDest
  <2>1. UNCHANGED <<shown, view, saves, timer, dirs, pool, creating>> BY <1>32, MoveDestFrame
  <2>2. QED BY <1>32, <2>1, QuietSteps, QuietGone, SameDirs, QueueQuiet
<1>33. CASE MoveSource
  <2>1. UNCHANGED <<shown, view, saves, timer, dirs, pool, creating>> BY <1>33, MoveSourceFrame
  <2>2. QED BY <1>33, <2>1, QuietSteps, QuietGone, SameDirs, QueueQuiet
<1>34. CASE UndoDir
  <2>1. /\ op.pc = "undoDir" /\ UNCHANGED <<shown, view, saves, timer, pool, creating>>
        /\ OpDirs("undoDest") /\ dirs'[op.list][op.name] = dirs[Dest][op.as]
        /\ \A i \in Lists, j \in Names :
             (i # op.list \/ j # op.name) /\ (i # Dest \/ j # op.as) => dirs'[i][j] = dirs[i][j]
    BY <1>34, UndoDirEffect, UndoDirFrame
  <2>2. /\ op.list = shown /\ op.list \in Lists /\ Dest \in Lists /\ Dest # op.list
        /\ op.kind = "move" /\ op.as \in Names /\ op.name \in Names /\ HasGame(Dest, op.as)
    BY <2>1, MoveLists DEF MovePcs, InductiveInv, MoveInv
  <2>3. Calm /\ ~Gone' /\ OpQuiet /\ op'.name = op.name
    BY <2>1, <2>2 DEF Calm, Gone, OpDirs, OpMoves, OpKept, CleanPcs, OpQuiet, OpGoesOn
  <2>4. ~(Empty(shown, op.name))' /\ QueueGone'
    BY <2>1, <2>2, <2>3 DEF QueueGone, Empty, HasGame, Exists
  <2>5. ASSUME NEW e \in view[shown], e.name = op.name PROVE e.rom \in pool \cup {NoRom}
    <3>1. e.rom = dirs[Dest][op.as].rom BY <2>1, <2>5, ShownMatch DEF ViewMoved
    <3>2. <<Dest, op.as>> \in Places /\ RomAt(<<Dest, op.as>>) = e.rom
      BY <2>2, <3>1 DEF Places, RomAt
    <3>3. QED BY <3>2 DEF InductiveInv, DiskInv, DiskRoms, RomsPresent
  <2>6. \A m \in Names : m # op.name => dirs'[shown][m] = dirs[shown][m] BY <2>1, <2>2
  <2>7. QED BY <2>1, <2>2, <2>3, <2>4, <2>5, <2>6, QueueMoved
<1>35. CASE UndoDest
  <2>1. UNCHANGED <<shown, view, saves, timer, dirs, pool, creating>> BY <1>35, UndoDestFrame
  <2>2. QED BY <1>35, <2>1, QuietSteps, QuietGone, SameDirs, QueueQuiet
<1>36. CASE UndoSource
  <2>1. UNCHANGED <<shown, view, saves, timer, dirs, pool, creating>> BY <1>36, UndoSourceFrame
  <2>2. QED BY <1>36, <2>1, QuietSteps, QuietGone, SameDirs, QueueQuiet
<1>37. CASE Crash
  <2>1. op'.pc = "none" /\ saves' = <<>> BY <1>37, Idle DEF Crash
  <2>2. QED BY <2>1, QueueIdle DEF QueueHolds
<1>38. QED
  BY <1>1, <1>2, <1>3, <1>4, <1>5, <1>6, <1>7, <1>8, <1>9, <1>10, <1>11,
     <1>12, <1>13, <1>14, <1>15, <1>16, <1>17, <1>18, <1>19, <1>20, <1>21,
     <1>22, <1>23, <1>24, <1>25, <1>26, <1>27, <1>28, <1>29, <1>30, <1>31,
     <1>32, <1>33, <1>34, <1>35, <1>36, <1>37
     DEF Next, StartDelete, StartMove, StartImport

-----------------------------------------------------------------------------
(* The save under the mutex. *)

\* No save is being written.
LEMMA NotWriting ==
  ASSUME InductiveInv, \/ ~writing /\ UNCHANGED <<writing, left>>
                       \/ writing' = FALSE /\ left' = {}
  PROVE  WriteInv'
BY DEF InductiveInv, WriteInv

\* The mutex is free, or held by the operation under way.
LEMMA LockedOut ==
  ASSUME InductiveInv, \/ ~Locked \/ op.pc \in DeletePcs \cup MovePcs
                       \/ op.pc \in CleanPcs /\ op.kind = "delete"
                       \/ saves = <<>> \/ ~up
  PROVE  ~writing
BY DEF InductiveInv, WriteInv, PhaseInv, Locked

\* The save goes on beside a step that leaves its list and its games alone.
LEMMA WriteGoesOn ==
  ASSUME InductiveInv, UNCHANGED <<writing, left, shown, rows>>,
         saves' = saves \/ (writing => saves' # <<>> /\ Head(saves') = Head(saves)),
         writing => /\ op'.pc \notin DeletePcs \cup MovePcs
                    /\ ~(op'.pc \in CleanPcs /\ op'.kind = "delete"),
         \A e \in Entry : Exists(shown, e.name) => dirs'[shown][e.name] = dirs[shown][e.name]
  PROVE  WriteInv'
<1>1. CASE ~writing BY <1>1, NotWriting
<1>2. CASE writing
  <2>1. Current' = Current /\ saves' # <<>> BY <1>2 DEF Current, InductiveInv, WriteInv
  <2>2. /\ \A e \in Current.games : e \in Entry /\ Exists(shown, e.name)
             /\ NotDeleted(shown, e.name)
        /\ \A e \in Current.games \ left : OnDisk(shown, e)
        /\ left \subseteq Current.games
    BY <1>2, HeadOfQueue DEF InductiveInv, WriteInv
  <2>3. ASSUME NEW e \in Current.games
        PROVE  /\ (Exists(shown, e.name))' /\ (NotDeleted(shown, e.name))'
               /\ e \notin left => (OnDisk(shown, e))'
    <3>1. dirs'[shown][e.name] = dirs[shown][e.name] BY <2>2
    <3>2. QED BY <2>2, <3>1 DEF Exists, NotDeleted, OnDisk, Matches, HasGame
  <2>4. QED BY <1>2, <2>1, <2>2, <2>3 DEF WriteInv
<1>3. QED BY <1>1, <1>2

\* The queue keeps its head when a snapshot joins it.
LEMMA HeadStays ==
  ASSUME InductiveInv, saves # <<>>, NEW s \in Snapshots
  PROVE  Append(saves, s) # <<>> /\ Head(Append(saves, s)) = Head(saves)
<1>1. saves \in Seq(Snapshots) BY Queued
<1>2. QED BY <1>1

\* What the save under the mutex wrote stays on disk to its end.
LEMMA WriteInvStep ==
  ASSUME InductiveInv, Patient, OneFault, Next
  PROVE  WriteInv'
<1>1. ASSUME NEW e \in view[shown], NEW r \in Roms, EditRom(e, r)
      PROVE  WriteInv'
  <2>1. UNCHANGED <<writing, left, shown, rows, dirs, saves, op>> BY <1>1 DEF EditRom, disk, saving
  <2>2. QED BY <2>1, WriteGoesOn DEF InductiveInv, WriteInv
<1>2. ASSUME NEW kind \in {"delete", "move", "import"}, NEW e \in view[shown],
             NEW r \in Roms \cup {NoRom}, kind = "import" => r \in Roms, Start(kind, e, r)
      PROVE  WriteInv'
  <2> DEFINE s == [list |-> shown, games |-> view[shown], by |-> "op"]
  <2>1. UNCHANGED <<writing, left, shown, rows, dirs>> BY <1>2 DEF Start, disk
  <2>2. op'.pc = "drain" /\ saves' = Append(saves, s) /\ s \in Snapshots
    BY <1>2, StartEffect, ShownEntries DEF Snapshots
  <2> HIDE DEF s
  <2>3. writing => saves # <<>> BY DEF InductiveInv, WriteInv
  <2>4. QED BY <2>1, <2>2, <2>3, HeadStays, WriteGoesOn DEF DeletePcs, MovePcs, CleanPcs
<1>3. CASE TimerFires
  <2> DEFINE s == [list |-> shown, games |-> view[shown], by |-> "timer"]
  <2>1. UNCHANGED <<writing, left, shown, rows, dirs, op>> /\ saves' = Append(saves, s)
    BY <1>3 DEF TimerFires, Snapshot, disk
  <2>2. s \in Snapshots BY ShownEntries DEF Snapshots
  <2> HIDE DEF s
  <2>3. writing => saves # <<>> BY DEF InductiveInv, WriteInv
  <2>4. QED BY <2>1, <2>2, <2>3, HeadStays, WriteGoesOn DEF InductiveInv, WriteInv
<1>4. CASE BeginSave
  <2>1. /\ saves # <<>> /\ ~Locked /\ writing' = TRUE /\ left' = Current.games
        /\ Preflight(Current) /\ UNCHANGED <<rows, dirs, shown, saves, op>>
    BY <1>4 DEF BeginSave, disk, window
  <2>2. Current' = Current /\ Current.list = shown BY <2>1, HeadOfQueue DEF Current
  <2>3. \A e \in Current.games : (Exists(shown, e.name))' /\ (NotDeleted(shown, e.name))'
    BY <2>1, <2>2 DEF Preflight, Exists, NotDeleted
  <2>4. QED BY <2>1, <2>2, <2>3 DEF WriteInv, Locked
<1>5. CASE RefuseSave
  <2>1. saves # <<>> /\ EndSave(FALSE) BY <1>5 DEF RefuseSave
  <2>2. QED BY <2>1, NotWriting DEF EndSave
<1>6. ASSUME NEW e \in left, SaveGame(e)
      PROVE  WriteInv'
  <2>1. /\ writing /\ MayWrite(Current.list, e) /\ PutGame(Current.list, e)
        /\ left' = left \ {e} /\ UNCHANGED <<rows, shown, saves, writing, op>>
    BY <1>6 DEF SaveGame, window
  <2>2. /\ saves # <<>> /\ left \subseteq Current.games /\ OneEach(Current.games)
        /\ op.pc \notin DeletePcs \cup MovePcs /\ ~(op.pc \in CleanPcs /\ op.kind = "delete")
        /\ \A x \in Current.games : x \in Entry /\ Exists(shown, x.name)
             /\ NotDeleted(shown, x.name)
        /\ \A x \in Current.games \ left : OnDisk(shown, x)
    BY <2>1, HeadOfQueue DEF InductiveInv, WriteInv
  <2>3. Current' = Current BY <2>1 DEF Current
  <2>4. Rewrites(e) /\ e \in Entry /\ Matches(shown, e) BY <2>1, SavePutEffect, SavePut
  <2>5. (OnDisk(shown, e))'
    BY <2>1, <2>4, ShownEntries DEF Rewrites, OnDisk, Matches, HasGame, Exists
  <2>6. ASSUME NEW x \in Current.games
        PROVE  (Exists(shown, x.name))' /\ (NotDeleted(shown, x.name))'
    BY <2>1, <2>2, <2>4, ShownEntries DEF Rewrites, Exists, NotDeleted
  <2>7. ASSUME NEW x \in Current.games, x \notin left' PROVE (OnDisk(shown, x))'
    <3>1. CASE x = e BY <2>5, <3>1
    <3>2. CASE x # e
      <4>1. x.name # e.name /\ OnDisk(shown, x) BY <2>1, <2>2, <2>7, <3>2 DEF OneEach
      <4>2. QED BY <2>1, <2>2, <4>1, OthersRewritten
    <3>3. QED BY <3>1, <3>2
  <2>8. QED BY <2>1, <2>2, <2>3, <2>6, <2>7 DEF WriteInv
<1>7. ASSUME NEW e \in left, SaveGameFails(e)
      PROVE  WriteInv'
  <2>1. saves # <<>> /\ EndSave(FALSE) BY <1>7 DEF SaveGameFails, InductiveInv, WriteInv
  <2>2. QED BY <2>1, NotWriting DEF EndSave
<1>8. CASE SaveRows(TRUE)
  <2>1. saves # <<>> /\ EndSave(TRUE) BY <1>8 DEF SaveRows, InductiveInv, WriteInv
  <2>2. QED BY <2>1, NotWriting DEF EndSave
<1>9. CASE SaveRows(FALSE)
  <2>1. saves # <<>> /\ EndSave(FALSE) BY <1>9 DEF SaveRows, InductiveInv, WriteInv
  <2>2. QED BY <2>1, NotWriting DEF EndSave
<1>10. CASE Open
  <2>1. ~writing BY <1>10, LockedOut DEF Open, Settled
  <2>2. QED BY <1>10, <2>1, NotWriting DEF Open, saving
<1>11. CASE EnterFolder
  <2>1. ~writing BY <1>11, LockedOut DEF EnterFolder, MayNavigate, MayLeave, Settled
  <2>2. QED BY <1>11, <2>1, NotWriting DEF EnterFolder, saving
<1>12. CASE ExitFolder
  <2>1. ~writing BY <1>12, LockedOut DEF ExitFolder, MayNavigate, MayLeave, Settled
  <2>2. QED BY <1>12, <2>1, NotWriting DEF ExitFolder, saving
<1>13. ASSUME NEW n \in Names, NEW g \in Games, AddGame(n, g)
      PROVE  WriteInv'
  <2>1. ~writing BY <1>13, LockedOut DEF AddGame, MayLeave, Settled
  <2>2. QED BY <1>13, <2>1, NotWriting DEF AddGame, saving
<1>14. CASE CreateDir
  <2>1. UNCHANGED <<writing, left, shown, rows, saves, op>> BY <1>14 DEF CreateDir, window, saving
  <2>2. ASSUME NEW e \in Entry, Exists(shown, e.name)
        PROVE  dirs'[shown][e.name] = dirs[shown][e.name]
    BY <1>14, <2>2, CreateDirEffect, ShownEntries DEF OnlyDir
  <2>3. QED BY <2>1, <2>2, WriteGoesOn DEF InductiveInv, WriteInv
<1>15. CASE CreateJson
  <2>1. ~writing /\ UNCHANGED <<writing, left>> BY <1>15 DEF CreateJson, Locked, saving
  <2>2. QED BY <2>1, NotWriting
<1>16. CASE CreateFails
  <2>1. ~writing /\ UNCHANGED <<writing, left>> BY <1>16 DEF CreateFails, Locked, saving
  <2>2. QED BY <2>1, NotWriting
<1>17. CASE CreateReply
  <2>1. UNCHANGED <<writing, left, shown, rows, dirs, saves, op>>
    BY <1>17 DEF CreateReply, disk, saving
  <2>2. QED BY <2>1, WriteGoesOn DEF InductiveInv, WriteInv
<1>18. CASE ImportRom
  <2> DEFINE s == [list |-> shown, by |-> "op", games |-> WithRom(view[shown], op.game, op.rom)]
  <2>1. UNCHANGED <<writing, left, shown, rows, dirs>> BY <1>18, ImportRomFrame
  <2>2. op'.pc = "resave" /\ saves' = Append(saves, s) /\ op.rom \in Roms
    BY <1>18, ImportRomEffect DEF OpMoves
  <2>3. s \in Snapshots BY <2>2, ShownEntries, WithRomEntries DEF Snapshots
  <2> HIDE DEF s
  <2>4. writing => saves # <<>> BY DEF InductiveInv, WriteInv
  <2>5. QED BY <2>1, <2>2, <2>3, <2>4, HeadStays, WriteGoesOn DEF DeletePcs, MovePcs, CleanPcs
<1>19. CASE ImportFails
  <2>1. UNCHANGED <<writing, left, shown, rows, dirs, saves>> BY <1>19, ImportFailsFrame
  <2>2. op'.pc = "none" BY <1>19, Idle DEF ImportFails, Abandon
  <2>3. QED BY <2>1, <2>2, WriteGoesOn DEF DeletePcs, MovePcs, CleanPcs
<1>20. CASE RemoveReplaced
  <2>1. UNCHANGED <<writing, left, shown, rows, dirs, saves>> BY <1>20, RemoveReplacedFrame
  <2>2. op'.pc = "none" \/ (op'.pc = "queue" /\ op'.kind = "import")
    BY <1>20, RemoveReplacedEffect DEF OpEnds, OpKept
  <2>3. QED BY <2>1, <2>2, WriteGoesOn DEF DeletePcs, MovePcs, CleanPcs
<1>21. CASE DeleteMark
  <2>1. ~writing BY <1>21, LockedOut, DeleteMarkEffect
  <2>2. QED BY <1>21, <2>1, DeleteMarkFrame, NotWriting
<1>22. CASE DeleteRows
  <2>1. ~writing BY <1>22, LockedOut, DeleteRowsEffect DEF DeletePcs
  <2>2. QED BY <1>22, <2>1, DeleteRowsFrame, NotWriting
<1>23. CASE DeleteUndo
  <2>1. ~writing BY <1>23, LockedOut, DeleteUndoEffect DEF DeletePcs
  <2>2. QED BY <1>23, <2>1, DeleteUndoFrame, NotWriting
<1>24. CASE DeleteDir
  <2>1. ~writing BY <1>24, LockedOut, DeleteDirEffect DEF DeletePcs
  <2>2. QED BY <1>24, <2>1, DeleteDirFrame, NotWriting
<1>25. CASE QueueCleanup
  <2>1. UNCHANGED <<writing, left, shown, rows, dirs, saves>> BY <1>25, QueueCleanupFrame
  <2>2. CASE op.kind = "delete"
    BY <1>25, <2>1, <2>2, QueueCleanupEffect, LockedOut, NotWriting DEF CleanPcs
  <2>3. CASE op.kind # "delete"
    <3>1. op'.pc \in {"none", "answer"} \cup CleanPcs /\ op'.kind # "delete"
      BY <1>25, <2>3, QueueCleanupEffect DEF OpEnds, OpMoves, OpKept, CleanPcs
    <3>2. QED BY <2>1, <3>1, WriteGoesOn DEF DeletePcs, MovePcs, CleanPcs
  <2>4. QED BY <2>2, <2>3
<1>26. CASE ReadReferences
  <2>1. UNCHANGED <<writing, left, shown, rows, dirs, saves>> BY <1>26, ReadReferencesFrame
  <2>2. CASE op.kind = "delete"
    BY <1>26, <2>1, <2>2, ReadReferencesEffect, LockedOut, NotWriting DEF CleanPcs
  <2>3. CASE op.kind # "delete"
    <3>1. op'.pc \in {"none", "answer"} \cup CleanPcs /\ op'.kind # "delete"
      BY <1>26, <2>3, ReadReferencesEffect DEF OpEnds, OpMoves, OpKept, CleanPcs
    <3>2. QED BY <2>1, <3>1, WriteGoesOn DEF DeletePcs, MovePcs, CleanPcs
  <2>4. QED BY <2>2, <2>3
<1>27. CASE Purge
  <2>1. UNCHANGED <<writing, left, shown, rows, dirs, saves>> BY <1>27, PurgeFrame
  <2>2. CASE op.kind = "delete"
    BY <1>27, <2>1, <2>2, PurgeEffect, LockedOut, NotWriting DEF CleanPcs
  <2>3. CASE op.kind # "delete"
    <3>1. op'.pc \in {"none", "answer"} \cup CleanPcs /\ op'.kind # "delete"
      BY <1>27, <2>3, PurgeEffect DEF OpEnds, OpMoves, OpKept, CleanPcs
    <3>2. QED BY <2>1, <3>1, WriteGoesOn DEF DeletePcs, MovePcs, CleanPcs
  <2>4. QED BY <2>2, <2>3
<1>28. CASE WriteQueue
  <2>1. UNCHANGED <<writing, left, shown, rows, dirs, saves>> BY <1>28, WriteQueueFrame
  <2>2. CASE op.kind = "delete"
    BY <1>28, <2>1, <2>2, WriteQueueEffect, LockedOut, NotWriting DEF CleanPcs
  <2>3. CASE op.kind # "delete"
    <3>1. op'.pc \in {"none", "answer"} \cup CleanPcs /\ op'.kind # "delete"
      BY <1>28, <2>3, WriteQueueEffect DEF OpEnds, OpMoves, OpKept, CleanPcs
    <3>2. QED BY <2>1, <3>1, WriteGoesOn DEF DeletePcs, MovePcs, CleanPcs
  <2>4. QED BY <2>2, <2>3
<1>29. CASE Answer
  <2>1. UNCHANGED <<writing, left, shown, rows, dirs, saves>> /\ op'.pc = "none"
    BY <1>29, Idle DEF Answer, disk, saving
  <2>2. QED BY <2>1, WriteGoesOn DEF DeletePcs, MovePcs, CleanPcs
<1>30. CASE MoveCheck
  <2>1. ~writing BY <1>30, LockedOut, MoveCheckEffect
  <2>2. QED BY <1>30, <2>1, MoveCheckFrame, NotWriting
<1>31. CASE MoveRename
  <2>1. ~writing BY <1>31, LockedOut, MoveRenameEffect DEF MovePcs
  <2>2. QED BY <1>31, <2>1, MoveRenameFrame, NotWriting
<1>32. CASE MoveDest
  <2>1. ~writing BY <1>32, LockedOut, MoveDestEffect DEF MovePcs
  <2>2. QED BY <1>32, <2>1, MoveDestFrame, NotWriting
<1>33. CASE MoveSource
  <2>1. ~writing BY <1>33, LockedOut, MoveSourceEffect DEF MovePcs
  <2>2. QED BY <1>33, <2>1, MoveSourceFrame, NotWriting
<1>34. CASE UndoDir
  <2>1. ~writing BY <1>34, LockedOut, UndoDirEffect DEF MovePcs
  <2>2. QED BY <1>34, <2>1, UndoDirFrame, NotWriting
<1>35. CASE UndoDest
  <2>1. ~writing BY <1>35, LockedOut, UndoDestEffect DEF MovePcs
  <2>2. QED BY <1>35, <2>1, UndoDestFrame, NotWriting
<1>36. CASE UndoSource
  <2>1. ~writing BY <1>36, LockedOut, UndoSourceEffect DEF MovePcs
  <2>2. QED BY <1>36, <2>1, UndoSourceFrame, NotWriting
<1>37. CASE Crash
  BY <1>37, NotWriting DEF Crash
<1>38. QED
  BY <1>1, <1>2, <1>3, <1>4, <1>5, <1>6, <1>7, <1>8, <1>9, <1>10, <1>11,
     <1>12, <1>13, <1>14, <1>15, <1>16, <1>17, <1>18, <1>19, <1>20, <1>21,
     <1>22, <1>23, <1>24, <1>25, <1>26, <1>27, <1>28, <1>29, <1>30, <1>31,
     <1>32, <1>33, <1>34, <1>35, <1>36, <1>37
     DEF Next, StartDelete, StartMove, StartImport

-----------------------------------------------------------------------------
(* Shapes and phases. *)

\* The steps of an operation that leave the window and its queue alone.
OpStep ==
  \/ ImportFails \/ RemoveReplaced
  \/ DeleteMark \/ DeleteRows \/ DeleteUndo \/ DeleteDir
  \/ QueueCleanup \/ ReadReferences \/ Purge \/ WriteQueue
  \/ MoveCheck \/ MoveRename \/ MoveDest \/ MoveSource
  \/ UndoDir \/ UndoDest \/ UndoSource

\* They do.
LEMMA OpStepFrame ==
  ASSUME OpStep
  PROVE  UNCHANGED <<up, shown, view, timer, saves, writing, left, creating, fresh>>
BY ImportFailsFrame, RemoveReplacedFrame, DeleteMarkFrame, DeleteRowsFrame, DeleteUndoFrame,
   DeleteDirFrame, QueueCleanupFrame, ReadReferencesFrame, PurgeFrame, WriteQueueFrame,
   MoveCheckFrame, MoveRenameFrame, MoveDestFrame, MoveSourceFrame, UndoDirFrame,
   UndoDestFrame, UndoSourceFrame
   DEF OpStep

\* The steps that end a save.
SaveEnds ==
  \/ RefuseSave \/ SaveRows(TRUE) \/ SaveRows(FALSE)
  \/ \E e \in left : SaveGameFails(e)

\* A save that ends was queued, and counts at most one fault.
LEMMA SaveEnded ==
  ASSUME InductiveInv, SaveEnds
  PROVE  saves # <<>> /\ Counts /\ (EndSave(TRUE) \/ EndSave(FALSE))
<1>1. CASE RefuseSave BY <1>1 DEF RefuseSave, Counts
<1>2. CASE SaveRows(TRUE) BY <1>2 DEF SaveRows, Counts, InductiveInv, WriteInv
<1>3. CASE SaveRows(FALSE) BY <1>3 DEF SaveRows, Counts, InductiveInv, WriteInv
<1>4. ASSUME NEW e \in left, SaveGameFails(e)
      PROVE  saves # <<>> /\ Counts /\ EndSave(FALSE)
  BY <1>4 DEF SaveGameFails, Counts, InductiveInv, WriteInv
<1>5. QED BY <1>1, <1>2, <1>3, <1>4 DEF SaveEnds

\* Lists, directories and the pool keep their shape: the steps of an operation.
LEMMA OpDiskShape ==
  ASSUME InductiveInv, OpStep
  PROVE  DiskShape'
<1> DEFINE DirsTyped == dirs' \in [Lists -> [Names -> Dir \cup {NoDir}]]
           RowsTyped == rows' \in [Lists -> SUBSET Names]
<1>1. DiskShape /\ op \in Ops /\ op.before \in [Lists -> SUBSET Names] /\ op.keep \subseteq Roms
      /\ op.rom \in Roms \cup {NoRom} /\ op.list \in Lists
  BY InvShapes DEF Ops
<1>2. ASSUME NEW on \in BOOLEAN, Marks(op.list, op.name, on), Exists(op.list, op.name),
             op.name \in Names
      PROVE  DirsTyped
  BY <1>1, <1>2, MarkEffect
<1>3. op.kind = "move" /\ op.pc \in MovePcs =>
        Dest \in Lists /\ Dest # op.list /\ op.name \in Names /\ op.as \in Names
  BY MoveLists
<1>4. ASSUME Dest \in Lists, Dest # op.list, op.name \in Names, op.as \in Names,
             \/ dirs' = Renamed(op.list, op.name, Dest, op.as)
             \/ dirs' = Renamed(Dest, op.as, op.list, op.name)
      PROVE  DirsTyped
  BY <1>1, <1>4, RenamedEffect
<1>5. CASE ImportFails \/ RemoveReplaced \/ ReadReferences \/ MoveCheck
  BY <1>1, <1>5, ImportFailsFrame, RemoveReplacedFrame, ReadReferencesFrame, MoveCheckFrame
     DEF DiskShape
<1>6. CASE DeleteMark
  <2>1. DirsTyped BY <1>1, <1>2, <1>6, DeleteMarkEffect DEF DeleteValid, HasGame, DiskShape
  <2>2. QED BY <1>1, <1>6, <2>1, DeleteMarkFrame DEF DiskShape
<1>7. CASE DeleteRows
  <2>1. RowsTyped BY <1>1, <1>7, DeleteRowsEffect DEF WithoutRow, DiskShape
  <2>2. QED BY <1>1, <1>7, <2>1, DeleteRowsFrame DEF DiskShape
<1>8. CASE DeleteUndo
  <2>1. RowsTyped BY <1>1, <1>8, DeleteUndoEffect DEF DiskShape
  <2>2. Exists(op.list, op.name)
    BY <1>8, DeleteUndoEffect DEF InductiveInv, DeleteInv, DeletePcs, HasGame
  <2>3. DirsTyped BY <1>1, <1>2, <1>8, <2>2, DeleteUndoEffect DEF DiskShape
  <2>4. QED BY <1>1, <1>8, <2>1, <2>3, DeleteUndoFrame DEF DiskShape
<1>9. CASE DeleteDir
  <2>1. DirsTyped BY <1>1, <1>9 DEF DeleteDir, DiskShape
  <2>2. QED BY <1>1, <1>9, <2>1, DeleteDirFrame DEF DiskShape
<1>10. CASE QueueCleanup
  BY <1>1, <1>10, QueueCleanupFrame DEF QueueCleanup, DiskShape
<1>11. CASE Purge
  BY <1>1, <1>11, PurgeFrame, PurgeEffect DEF DiskShape
<1>12. CASE WriteQueue
  BY <1>1, <1>12, WriteQueueFrame DEF WriteQueue, DiskShape
<1>13. CASE MoveRename
  <2>1. op.kind = "move" /\ op.pc \in MovePcs BY <1>13 DEF MoveRename, Running, MovePcs
  <2>2. DirsTyped BY <1>1, <1>3, <1>4, <1>13, <2>1 DEF MoveRename, DiskShape
  <2>3. QED BY <1>1, <1>13, <2>2, MoveRenameFrame DEF DiskShape
<1>14. CASE MoveDest
  <2>1. op.kind = "move" /\ op.pc \in MovePcs BY <1>14 DEF MoveDest, MoveWrite, Running, MovePcs
  <2>2. RowsTyped BY <1>1, <1>3, <1>14, <2>1, MoveDestEffect DEF DiskShape
  <2>3. QED BY <1>1, <1>14, <2>2, MoveDestFrame DEF DiskShape
<1>15. CASE MoveSource
  <2>1. RowsTyped BY <1>1, <1>15, MoveSourceEffect DEF WithoutRow, DiskShape
  <2>2. QED BY <1>1, <1>15, <2>1, MoveSourceFrame DEF DiskShape
<1>16. CASE UndoDir
  <2>1. op.kind = "move" /\ op.pc \in MovePcs BY <1>16 DEF UndoDir, Running, MovePcs
  <2>2. DirsTyped BY <1>1, <1>3, <1>4, <1>16, <2>1 DEF UndoDir, DiskShape
  <2>3. QED BY <1>1, <1>16, <2>2, UndoDirFrame DEF DiskShape
<1>17. CASE UndoDest
  <2>1. op.kind = "move" /\ op.pc \in MovePcs BY <1>17 DEF UndoDest, UndoRows, Running, MovePcs
  <2>2. RowsTyped BY <1>1, <1>3, <1>17, <2>1, UndoDestEffect DEF DiskShape
  <2>3. QED BY <1>1, <1>17, <2>2, UndoDestFrame DEF DiskShape
<1>18. CASE UndoSource
  <2>1. RowsTyped BY <1>1, <1>18, UndoSourceEffect DEF DiskShape
  <2>2. QED BY <1>1, <1>18, <2>1, UndoSourceFrame DEF DiskShape
<1>19. QED
  BY <1>5, <1>6, <1>7, <1>8, <1>9, <1>10, <1>11, <1>12, <1>13, <1>14, <1>15, <1>16, <1>17,
     <1>18
     DEF OpStep

\* Lists, directories and the pool keep their shape.
LEMMA DiskShapeStep ==
  ASSUME InductiveInv, Next
  PROVE  DiskShape'
<1>1. ASSUME UNCHANGED disk PROVE DiskShape'
  BY <1>1, InvShapes DEF disk, DiskShape
<1>2. CASE OpStep BY <1>2, OpDiskShape
<1>3. ASSUME NEW l \in Lists, NEW e \in Entry, MayWrite(l, e), PutGame(l, e)
      PROVE  dirs' \in [Lists -> [Names -> Dir \cup {NoDir}]]
  BY <1>3, InvShapes, PutGameEffect DEF MayWrite
<1>4. ASSUME NEW e \in left, SaveGame(e) \/ SaveGameFails(e)
      PROVE  DiskShape'
  <2>1. e \in Entry /\ Current.list \in Lists
    BY <1>4, InvShapes, HeadOfQueue
       DEF SaveGame, SaveGameFails, QueueShape, InductiveInv, WriteInv
  <2>2. UNCHANGED dirs \/ (MayWrite(Current.list, e) /\ PutGame(Current.list, e))
    BY <1>4 DEF SaveGame, SaveGameFails
  <2>3. dirs' \in [Lists -> [Names -> Dir \cup {NoDir}]]
    BY <1>3, <2>1, <2>2, InvShapes DEF DiskShape
  <2>4. QED BY <1>4, <2>3, InvShapes DEF SaveGame, SaveGameFails, DiskShape
<1>5. ASSUME NEW ok \in BOOLEAN, SaveRows(ok)
      PROVE  DiskShape'
  <2>1. Current.list \in Lists /\ NamesOf(Current.games) \subseteq Names
    BY <1>5, InvShapes, HeadOfQueue DEF SaveRows, InductiveInv, WriteInv, NamesOf, Entry
  <2>2. rows' \in [Lists -> SUBSET Names] BY <1>5, <2>1, InvShapes DEF SaveRows, DiskShape
  <2>3. QED BY <1>5, <2>2, InvShapes DEF SaveRows, DiskShape
<1>6. CASE CreateDir
  <2>1. creating.name \in Names BY <1>6, CreateDirEffect
  <2>2. dirs' \in [Lists -> [Names -> Dir \cup {NoDir}]]
    BY <1>6, <2>1, InvShapes, OneDir, EmptyDirTyped DEF CreateDir, DiskShape
  <2>3. QED BY <1>6, <2>2, InvShapes DEF CreateDir, DiskShape
<1>7. CASE CreateJson \/ CreateFails
  <2>1. Created \in Entry
    BY <1>7 DEF CreateJson, CreateFails, Created, Entry, InductiveInv, PhaseInv
  <2>2. UNCHANGED dirs \/ (MayWrite(creating.list, Created) /\ PutGame(creating.list, Created))
    BY <1>7 DEF CreateJson, CreateFails
  <2>3. dirs' \in [Lists -> [Names -> Dir \cup {NoDir}]]
    BY <1>3, <2>1, <2>2, InvShapes DEF DiskShape
  <2>4. QED BY <1>7, <2>3, InvShapes DEF CreateJson, CreateFails, DiskShape
<1>8. CASE ImportRom
  BY <1>8, InvShapes, ImportRomEffect, ImportRomFrame DEF DiskShape
<1>9. CASE \/ TimerFires \/ BeginSave \/ RefuseSave \/ Open \/ EnterFolder \/ ExitFolder
           \/ CreateReply \/ Answer \/ Crash
  BY <1>1, <1>9
     DEF TimerFires, BeginSave, RefuseSave, Open, EnterFolder, ExitFolder, CreateReply, Answer,
         Crash
<1>10. ASSUME NEW e, NEW r, \/ EditRom(e, r) \/ AddGame(e, r)
                           \/ \E kind \in {"delete", "move", "import"} : Start(kind, e, r)
       PROVE  DiskShape'
  BY <1>1, <1>10 DEF EditRom, AddGame, Start
<1>11. QED
  BY <1>2, <1>4, <1>5, <1>6, <1>7, <1>8, <1>9, <1>10
     DEF Next, OpStep, StartDelete, StartMove, StartImport

\* Undoing an import's choice of ROM keeps the shape of the list.
LEMMA RestoredTyped ==
  ASSUME NEW s \in SUBSET Entry, NEW g, NEW r \in Roms \cup {NoRom}
  PROVE  WithRom(s, g, r) \in SUBSET Entry
<1>1. ASSUME NEW e \in s PROVE [e EXCEPT !.rom = r] \in Entry BY DEF Entry
<1>2. QED BY <1>1 DEF WithRom

\* The window keeps its shape.
LEMMA WindowShapeStep ==
  ASSUME InductiveInv, Next
  PROVE  WindowShape'
<1>1. WindowShape /\ DiskShape /\ op \in Ops /\ creating \in Creations BY InvShapes
<1>2. ASSUME UNCHANGED <<up, shown, view>>, timer' \in BOOLEAN PROVE WindowShape'
  BY <1>1, <1>2 DEF WindowShape
<1>3. CASE OpStep BY <1>1, <1>3, OpStepFrame DEF WindowShape
<1>4. ASSUME NEW e \in view[shown], NEW r \in Roms, EditRom(e, r)
      PROVE  WindowShape'
  <2>1. [e EXCEPT !.rom = r] \in Entry BY <1>1, <1>4 DEF WindowShape, Entry
  <2>2. QED BY <1>1, <1>4, <2>1 DEF EditRom, WindowShape
<1>5. ASSUME NEW kind, NEW e, NEW r, Start(kind, e, r)
      PROVE  WindowShape'
  BY <1>2, <1>5 DEF Start
<1>6. CASE TimerFires BY <1>2, <1>6 DEF TimerFires
<1>7. CASE \/ BeginSave \/ (\E e \in left : SaveGame(e)) \/ CreateDir \/ CreateJson
           \/ CreateFails \/ \E n \in Names, g \in Games : AddGame(n, g)
  BY <1>1, <1>7
     DEF BeginSave, SaveGame, CreateDir, CreateJson, CreateFails, AddGame, window, WindowShape
<1>8. CASE SaveEnds
  <2>1. saves # <<>> /\ (EndSave(TRUE) \/ EndSave(FALSE)) BY <1>8, SaveEnded
  <2>2. WithRom(view[op.list], op.game, op.old) \in SUBSET Entry
    BY <1>1, RestoredTyped DEF WindowShape, Ops
  <2>3. QED BY <1>1, <2>1, <2>2, EndSaveOk, EndSaveFails DEF WindowShape
<1>9. CASE Open
  <2>1. view' \in [Lists -> SUBSET Entry] BY <1>1, <1>9, LoadTyped DEF Open
  <2>2. QED BY <1>1, <1>9, <2>1 DEF Open, WindowShape, Lists
<1>10. CASE EnterFolder
  <2>1. view' \in [Lists -> SUBSET Entry]
    BY <1>1, <1>10, LoadTyped DEF EnterFolder, WindowShape, Lists
  <2>2. QED BY <1>1, <1>10, <2>1 DEF EnterFolder, WindowShape, Lists
<1>11. CASE ExitFolder BY <1>1, <1>11 DEF ExitFolder, WindowShape, Lists
<1>12. CASE CreateReply
  <2>1. Created \in Entry
    BY <1>12 DEF CreateReply, Created, Entry, InductiveInv, PhaseInv
  <2>2. QED BY <1>1, <1>12, <2>1 DEF CreateReply, WindowShape
<1>13. CASE ImportRom
  <2>1. op.rom \in Roms BY <1>13, ImportRomEffect
  <2>2. view' \in [Lists -> SUBSET Entry]
    BY <1>1, <1>13, <2>1, RestoredTyped DEF ImportRom, WindowShape
  <2>3. QED BY <1>1, <1>13, <2>2 DEF ImportRom, WindowShape
<1>14. CASE Answer BY <1>1, <1>14 DEF Answer, Ops, WindowShape
<1>15. CASE Crash BY <1>15 DEF Crash, WindowShape, Lists
<1>16. QED
  BY <1>3, <1>4, <1>5, <1>6, <1>7, <1>8, <1>9, <1>10, <1>11, <1>12, <1>13, <1>14, <1>15
     DEF Next, OpStep, SaveEnds, StartDelete, StartMove, StartImport

\* The queue keeps its shape and its bound.
LEMMA QueueShapeStep ==
  ASSUME InductiveInv, Next
  PROVE  QueueShape'
<1>1. QueueShape /\ WindowShape BY InvShapes
<1>2. ASSUME UNCHANGED saving PROVE QueueShape'
  BY <1>1, <1>2 DEF saving, QueueShape
<1>3. CASE OpStep BY <1>2, <1>3, OpStepFrame DEF saving
<1>4. ASSUME NEW by \in {"timer", "op"}, NEW games \in SUBSET Entry, Len(saves) < MaxSaves,
             saves' = Append(saves, Snapshot(by, games)), UNCHANGED <<writing, left>>
      PROVE  QueueShape'
  <2>1. Snapshot(by, games) \in Snapshots BY <1>1 DEF Snapshot, Snapshots, WindowShape
  <2>2. saves' \in Seq(Snapshots) /\ Len(saves') = Len(saves) + 1 /\ Len(saves) \in Nat
    BY <1>1, <1>4, <2>1, AppendTyped
  <2>3. QED BY <1>1, <1>4, <2>2, BoundsAssumption DEF QueueShape
<1>5. ASSUME NEW kind, NEW e, NEW r, Start(kind, e, r)
      PROVE  QueueShape'
  BY <1>1, <1>4, <1>5 DEF Start, WindowShape
<1>6. CASE TimerFires BY <1>1, <1>4, <1>6 DEF TimerFires, WindowShape
<1>7. CASE ImportRom
  <2>1. op.rom \in Roms BY <1>7, ImportRomEffect
  <2>2. WithRom(view[shown], op.game, op.rom) \in SUBSET Entry
    BY <1>1, <2>1, RestoredTyped DEF WindowShape
  <2>3. QED BY <1>4, <1>7, <2>2 DEF ImportRom
<1>8. CASE BeginSave
  <2>1. Current.games \subseteq Entry BY <1>1, <1>8, CurrentTyped DEF BeginSave
  <2>2. QED BY <1>1, <1>8, <2>1 DEF BeginSave, QueueShape
<1>9. ASSUME NEW e \in left, SaveGame(e)
      PROVE  QueueShape'
  BY <1>1, <1>9 DEF SaveGame, QueueShape
<1>10. CASE SaveEnds
  <2>1. saves' = Tail(saves) /\ writing' = FALSE /\ left' = {} /\ saves # <<>>
    BY <1>10, SaveEnded DEF EndSave
  <2>2. /\ Tail(saves) \in Seq(Snapshots) /\ Len(Tail(saves)) = Len(saves) - 1
        /\ Len(saves) \in Nat
    BY <1>1, <2>1, CurrentTyped
  <2>3. Len(saves') <= MaxSaves BY <1>1, <2>1, <2>2, BoundsAssumption DEF QueueShape
  <2>4. QED BY <2>1, <2>2, <2>3 DEF QueueShape
<1>11. CASE Crash
  <2>1. saves' \in Seq(Snapshots) /\ Len(saves') = 0 BY <1>11 DEF Crash
  <2>2. Len(saves') <= MaxSaves BY <2>1, BoundsAssumption
  <2>3. QED BY <1>11, <2>1, <2>2 DEF Crash, QueueShape
<1>12. QED
  BY <1>2, <1>3, <1>5, <1>6, <1>7, <1>8, <1>9, <1>10, <1>11
     DEF Next, OpStep, SaveEnds, StartDelete, StartMove, StartImport, EditRom, Open,
         EnterFolder, ExitFolder, AddGame, CreateDir, CreateJson, CreateFails, CreateReply,
         Answer

\* The operation keeps its shape: its own steps.
LEMMA OpStepTyped ==
  ASSUME InductiveInv, OpStep
  PROVE  op' \in Ops
<1>0. op \in Ops BY InvShapes
<1>1. /\ NoOp \in Ops /\ DiskShape /\ op.old \in Roms \cup {NoRom}
      /\ NoOp.plan \in [Lists -> SUBSET Entry] /\ rows \in [Lists -> SUBSET Names]
  BY <1>0, InvShapes, NoOpTyped DEF Ops, DiskShape
<1>2. ASSUME NEW p \in DeletePcs \cup MovePcs \cup CleanPcs \cup {"answer"}
      PROVE  [op EXCEPT !.pc = p] \in Ops
  <2>1. p \in OpPcs BY DEF OpPcs
  <2>2. QED BY <1>0, <2>1, OpTyped, Zenon
<1>3. CASE ImportFails \/ DeleteUndo \/ UndoSource
  BY <1>1, <1>3 DEF ImportFails, DeleteUndo, UndoSource, UndoRows, Abandon
<1>4. CASE RemoveReplaced
  <2>1. [op EXCEPT !.pc = "queue", !.rom = op.old] \in Ops
    <3>1. "queue" \in OpPcs BY DEF OpPcs, CleanPcs
    <3>2. QED BY <1>0, <1>1, <3>1, OpTyped, Zenon
  <2>2. QED BY <1>1, <1>4, <2>1 DEF RemoveReplaced, Advance, Abandon
<1>5. CASE DeleteMark
  <2> DEFINE d == dirs[op.list][op.name]
             new == [op EXCEPT !.pc = "delRows", !.before = rows, !.plan = NoOp.plan,
                               !.game = d.game, !.rom = d.rom, !.freshMark = ~d.marked]
  <2>1. CASE DeleteValid
    <3>1. d.game \in Games \cup {NoGame} /\ d.rom \in Roms \cup {NoRom}
      BY <1>5, <2>1, InvShapes, DeleteMarkEffect, DirTyped DEF DeleteValid, HasGame, Exists
    <3>2. ASSUME NEW b \in BOOLEAN
          PROVE  [op EXCEPT !.pc = "delRows", !.before = rows, !.plan = NoOp.plan,
                            !.game = d.game, !.rom = d.rom, !.freshMark = b] \in Ops
      <4>1. "delRows" \in OpPcs BY DEF OpPcs, DeletePcs
      <4>2. rows \in [Lists -> SUBSET Names] /\ NoOp.plan \in [Lists -> SUBSET Entry] BY <1>1
      <4>3. QED BY <1>0, <3>1, <4>1, <4>2 DEF Ops
    <3>3. new \in Ops BY <3>2, Zenon
    <3>4. op' = new \/ op' = NoOp BY <1>5, Zenon DEF DeleteMark, Advance, Abandon
    <3> HIDE DEF new
    <3>5. QED BY <1>1, <3>3, <3>4
  <2>2. CASE ~DeleteValid BY <1>1, <1>5, <2>2 DEF DeleteMark, Abandon
  <2>3. QED BY <2>1, <2>2
<1>6. CASE DeleteRows \/ DeleteDir
  BY <1>2, <1>6 DEF DeleteRows, DeleteDir, Advance, DeletePcs, CleanPcs
<1>7. CASE QueueCleanup
  BY <1>1, <1>2, <1>7 DEF QueueCleanup, Advance, Abandon, CleanPcs
<1>8. CASE ReadReferences
  <2>1. cleanup \cap Referenced \in SUBSET Roms BY <1>1 DEF DiskShape
  <2>2. [op EXCEPT !.pc = "purge", !.keep = cleanup \cap Referenced] \in Ops
    <3>1. "purge" \in OpPcs BY DEF OpPcs, CleanPcs
    <3>2. QED BY <1>0, <2>1, <3>1, OpTyped, Zenon
  <2>3. QED BY <1>8, <2>2 DEF ReadReferences, Advance
<1>9. CASE Purge \/ WriteQueue
  <2>1. Loaded \in [Lists -> SUBSET Entry] BY <1>1, LoadTyped DEF Loaded
  <2>2. [op EXCEPT !.pc = "answer", !.result = Loaded] \in Ops
    <3>1. "answer" \in OpPcs BY DEF OpPcs
    <3>2. QED BY <1>0, <2>1, <3>1, OpTyped, Zenon
  <2>3. QED
    BY <1>1, <1>2, <1>9, <2>2 DEF Purge, WriteQueue, AfterCleanup, Advance, Abandon, CleanPcs
<1>10. CASE MoveCheck
  <2>1. ASSUME NEW as \in FreeNames
        PROVE  [op EXCEPT !.pc = "mvRename", !.as = as, !.before = rows,
                          !.plan = NoOp.plan] \in Ops
    <3>1. as \in Names BY DEF FreeNames
    <3>2. QED BY <1>0, <1>1, <3>1 DEF Ops, OpPcs, MovePcs
  <2>2. op' = NoOp \/ \E as \in FreeNames :
          op' = [op EXCEPT !.pc = "mvRename", !.as = as, !.before = rows, !.plan = NoOp.plan]
    BY <1>10, Zenon DEF MoveCheck, Advance, Abandon
  <2>3. QED BY <1>1, <2>1, <2>2, Zenon
<1>11. CASE MoveRename \/ MoveDest \/ UndoDir \/ UndoDest
  BY <1>1, <1>2, <1>11
     DEF MoveRename, MoveDest, MoveWrite, UndoDir, UndoDest, UndoRows, Advance, Abandon, MovePcs
<1>12. CASE MoveSource
  <2> DEFINE new == [l \in Lists |-> MoveResult(l)]
  <2>1. ASSUME NEW l \in Lists, NEW n \in rows[l], HasGame(l, n)
        PROVE  [name |-> n, game |-> dirs[l][n].game, rom |-> dirs[l][n].rom] \in Entry
    <3>1. n \in Names BY <1>1
    <3>2. QED BY <1>1, <2>1, <3>1, DirTyped DEF Entry, HasGame, Exists
  <2>2. new \in [Lists -> SUBSET Entry] BY <2>1 DEF MoveResult
  <2>3. op' = [op EXCEPT !.pc = "answer", !.result = new] \/ op' = [op EXCEPT !.pc = "undoDir"]
    BY <1>12 DEF MoveSource, MoveWrite, Advance, MoveResult
  <2> HIDE DEF new
  <2>4. "answer" \in OpPcs /\ "undoDir" \in OpPcs BY DEF OpPcs, MovePcs
  <2>5. [op EXCEPT !.pc = "answer", !.result = new] \in Ops
    BY <1>0, <2>2, <2>4, OpTyped, Zenon
  <2>6. [op EXCEPT !.pc = "undoDir"] \in Ops BY <1>0, <2>4, OpTyped, Zenon
  <2>7. QED BY <2>3, <2>5, <2>6
<1>13. QED
  BY <1>3, <1>4, <1>5, <1>6, <1>7, <1>8, <1>9, <1>10, <1>11, <1>12 DEF OpStep

\* The operation and the creation keep their shape.
LEMMA OpShapeStep ==
  ASSUME InductiveInv, Next
  PROVE  OpShape'
<1>0. op \in Ops BY InvShapes
<1>1. /\ NoOp \in Ops /\ creating \in Creations /\ NoCreate \in Creations
      /\ OpShape /\ WindowShape
  BY InvShapes, NoOpTyped
<1>2. CASE OpStep BY <1>1, <1>2, OpStepTyped, OpStepFrame DEF OpShape
<1>3. ASSUME NEW kind \in {"delete", "move", "import"}, NEW e \in view[shown],
             NEW r \in Roms \cup {NoRom}, Start(kind, e, r)
      PROVE  OpShape'
  <2> DEFINE new == [NoOp EXCEPT !.pc = "drain", !.kind = kind, !.list = shown,
                       !.name = e.name, !.game = e.game, !.rom = r, !.old = e.rom]
  <2>1. e.name \in Names /\ e.game \in Games /\ e.rom \in Roms \cup {NoRom} /\ shown \in Lists
    BY <1>1 DEF WindowShape, Entry
  <2>2. new \in Ops
    <3>1. NoOp \in Ops BY <1>1
    <3>2. QED BY <2>1, <3>1 DEF Ops, OpPcs
  <2>3. QED BY <1>1, <1>3, <2>2 DEF Start, OpShape
<1>4. CASE \/ TimerFires \/ BeginSave \/ EnterFolder \/ ExitFolder
           \/ \E e \in left : SaveGame(e)
  BY <1>0, <1>1, <1>4 DEF TimerFires, BeginSave, EnterFolder, ExitFolder, SaveGame, OpShape
<1>5. ASSUME NEW e, NEW r, EditRom(e, r) PROVE OpShape' BY <1>0, <1>1, <1>5 DEF EditRom, OpShape
<1>6. CASE SaveEnds
  <2>1. EndSave(TRUE) \/ EndSave(FALSE) BY <1>6, SaveEnded
  <2>2. Plan \in [Lists -> SUBSET Entry]
    BY InvShapes, LoadTyped DEF Plan, WindowShape, Lists
  <2>3. /\ [op EXCEPT !.pc = "replace"] \in Ops /\ [op EXCEPT !.pc = "run", !.plan = @] \in Ops
        /\ [op EXCEPT !.pc = "run", !.plan = Plan] \in Ops
    <3>1. "replace" \in OpPcs /\ "run" \in OpPcs BY DEF OpPcs
    <3>2. op.plan \in [Lists -> SUBSET Entry] BY <1>0 DEF Ops
    <3>3. QED BY <1>0, <2>2, <3>1, <3>2, OpTyped, Zenon
  <2>4. op' \in Ops BY <1>0, <1>1, <2>1, <2>3 DEF EndSave, Awaited
  <2>5. QED BY <1>1, <2>1, <2>4 DEF EndSave, OpShape
<1>7. \A p \in {"json", "reply"} : [creating EXCEPT !.pc = p] \in Creations
  BY <1>1 DEF Creations
<1>8. [creating EXCEPT !.detached = TRUE] \in Creations BY <1>1 DEF Creations
<1>9. ASSUME NEW n \in Names, NEW g \in Games, AddGame(n, g)
      PROVE  OpShape'
  <2>1. [pc |-> "mkdir", list |-> shown, name |-> n, game |-> g, detached |-> FALSE] \in Creations
    BY <1>1 DEF WindowShape, Creations
  <2>2. QED BY <1>0, <1>1, <1>9, <2>1 DEF AddGame, OpShape
<1>10. CASE CreateDir \/ CreateJson
  BY <1>0, <1>1, <1>7, <1>10 DEF CreateDir, CreateJson, OpShape
<1>11. CASE CreateFails \/ CreateReply \/ Crash
  BY <1>0, <1>1, <1>11 DEF CreateFails, CreateReply, Crash, OpShape
<1>12. CASE Open \/ Answer
  BY <1>0, <1>1, <1>8, <1>12 DEF Open, Answer, OpShape
<1>13. CASE ImportRom
  <2>1. "resave" \in OpPcs BY DEF OpPcs
  <2>2. QED BY <1>0, <1>1, <1>13, <2>1, OpTyped, Zenon DEF ImportRom, OpShape
<1>14. QED
  BY <1>2, <1>3, <1>4, <1>5, <1>6, <1>9, <1>10, <1>11, <1>12, <1>13
     DEF Next, OpStep, SaveEnds, StartDelete, StartMove, StartImport

\* Each step of an operation counts at most one fault, and leaves alone the ROM
\* last chosen for each game.
LEMMA OpStepCounts ==
  ASSUME OpStep
  PROVE  Counts /\ chosen' = chosen /\ spoiled' = spoiled
<1>1. CASE ImportFails \/ RemoveReplaced \/ DeleteMark \/ DeleteRows
  BY <1>1 DEF ImportFails, RemoveReplaced, DeleteMark, DeleteRows, Counts, history, NoFault
<1>2. CASE DeleteUndo \/ DeleteDir \/ QueueCleanup \/ ReadReferences
  BY <1>2 DEF DeleteUndo, DeleteDir, QueueCleanup, ReadReferences, Counts, history, NoFault
<1>3. CASE Purge \/ WriteQueue \/ MoveCheck \/ MoveRename
  BY <1>3, Zenon DEF Purge, WriteQueue, MoveCheck, MoveRename, Counts, history, NoFault
<1>4. CASE MoveDest \/ MoveSource \/ UndoDir \/ UndoDest \/ UndoSource
  BY <1>4 DEF MoveDest, MoveSource, MoveWrite, UndoDir, UndoDest, UndoSource, UndoRows, Counts
<1>5. QED BY <1>1, <1>2, <1>3, <1>4 DEF OpStep

\* What the properties remember keeps its shape.
LEMMA HistoryShapeStep ==
  ASSUME InductiveInv, Next
  PROVE  HistoryShape'
<1>1. /\ HistoryShape /\ DiskShape /\ WindowShape /\ faults \in Nat
      /\ op.old \in Roms \cup {NoRom} /\ op.rom \in Roms \cup {NoRom}
  BY InvShapes DEF Ops
<1>2. ASSUME UNCHANGED history, fresh' \subseteq fresh PROVE HistoryShape'
  BY <1>1, <1>2 DEF history, HistoryShape
<1>3. CASE OpStep
  <2>1. faults' \in 0..MaxFaults BY <1>1, <1>3, OpStepCounts, FaultCounted DEF Counts
  <2>2. deleted' \subseteq Games
    BY <1>1, <1>3, DeleteRowsEffect, ImportFailsFrame, RemoveReplacedFrame, DeleteMarkFrame,
       DeleteUndoFrame, DeleteDirFrame, QueueCleanupFrame, ReadReferencesFrame, PurgeFrame,
       WriteQueueFrame, MoveCheckFrame, MoveRenameFrame, MoveDestFrame, MoveSourceFrame,
       UndoDirFrame, UndoDestFrame, UndoSourceFrame
       DEF OpStep, HistoryShape
  <2>3. torn' \in BOOLEAN
    <3>1. torn' = torn \/ torn' = TRUE
      BY <1>3, ImportFailsFrame, RemoveReplacedFrame, DeleteMarkFrame, DeleteRowsFrame,
         DeleteUndoFrame, DeleteDirFrame, QueueCleanupFrame, ReadReferencesFrame, PurgeFrame,
         WriteQueueFrame, MoveCheckFrame, MoveRenameFrame, MoveDestFrame, MoveSourceFrame
         DEF OpStep, UndoDir, UndoDest, UndoSource, UndoRows
    <3>2. QED BY <1>1, <3>1 DEF HistoryShape
  <2>4. QED BY <1>1, <1>3, <2>1, <2>2, <2>3, OpStepFrame, OpStepCounts DEF HistoryShape
<1>4. ASSUME NEW e \in view[shown], NEW r \in Roms, EditRom(e, r)
      PROVE  HistoryShape'
  BY <1>1, <1>4 DEF EditRom, HistoryShape
<1>5. CASE SaveEnds
  <2>1. faults' \in 0..MaxFaults BY <1>1, <1>5, SaveEnded, FaultCounted DEF Counts
  <2>2. EndSave(TRUE) \/ EndSave(FALSE) BY <1>5, SaveEnded
  <2>3. spoiled' \in BOOLEAN BY <2>2 DEF EndSave
  <2>4. chosen' \in [Games -> Roms \cup {NoRom}]
    BY <1>1, <2>2 DEF EndSave, Awaited, HistoryShape
  <2>5. QED BY <1>1, <2>1, <2>2, <2>3, <2>4 DEF EndSave, HistoryShape
<1>6. CASE CreateFails
  <2>1. faults' \in 0..MaxFaults BY <1>1, <1>6, FaultCounted DEF CreateFails
  <2>2. QED BY <1>1, <1>6, <2>1 DEF CreateFails, HistoryShape
<1>7. CASE ImportRom
  <2>1. op.rom \in Roms BY <1>7, ImportRomEffect
  <2>2. QED BY <1>1, <1>7, <2>1 DEF ImportRom, HistoryShape
<1>8. CASE Crash
  <2>1. faults' \in 0..MaxFaults BY <1>1, <1>8, FaultCounted DEF Crash
  <2>2. torn' \in BOOLEAN BY <1>8 DEF Crash
  <2>3. QED BY <1>1, <1>8, <2>1, <2>2 DEF Crash, HistoryShape
<1>9. CASE \/ TimerFires \/ BeginSave \/ (\E e \in left : SaveGame(e)) \/ Open \/ EnterFolder
           \/ ExitFolder \/ CreateDir \/ CreateJson \/ CreateReply \/ Answer
  BY <1>2, <1>9
     DEF TimerFires, BeginSave, SaveGame, Open, EnterFolder, ExitFolder, CreateDir, CreateJson,
         CreateReply, Answer
<1>10. ASSUME NEW e, NEW r, \/ AddGame(e, r)
                            \/ \E kind \in {"delete", "move", "import"} : Start(kind, e, r)
       PROVE  HistoryShape'
  BY <1>2, <1>10 DEF AddGame, Start
<1>11. QED
  BY <1>3, <1>4, <1>5, <1>6, <1>7, <1>8, <1>9, <1>10
     DEF Next, OpStep, SaveEnds, StartDelete, StartMove, StartImport

\* All shapes are kept.
LEMMA ShapesStep ==
  ASSUME InductiveInv, Patient, OneFault, Next
  PROVE  Shapes'
BY DiskShapeStep, WindowShapeStep, QueueShapeStep, OpShapeStep, HistoryShapeStep DEF Shapes

\* Each kind of operation takes its own steps, in the window it began in.
LEMMA PhaseInvStep ==
  ASSUME InductiveInv, Patient, OneFault, Next
  PROVE  PhaseInv'
<1>1. PhaseInv /\ WindowShape /\ op \in Ops /\ creating \in Creations BY InvShapes DEF InductiveInv
<1>2. ASSUME NEW e \in view[shown], NEW r \in Roms, EditRom(e, r)
      PROVE  PhaseInv'
  BY <1>1, <1>2 DEF EditRom, UserActs, PhaseInv, saving, history
<1>3. ASSUME NEW kind \in {"delete", "move", "import"}, NEW e \in view[shown],
             NEW r \in Roms \cup {NoRom}, kind = "import" => r \in Roms, Start(kind, e, r)
      PROVE  PhaseInv'
  <2>1. e.name \in Names /\ e.game \in Games BY <1>1 DEF WindowShape, Entry
  <2>2. timer' = FALSE /\ UNCHANGED <<up, shown, creating>> BY <1>3 DEF Start
  <2>3. /\ up /\ op'.pc = "drain" /\ op'.kind = kind /\ op'.list = shown
        /\ op'.name = e.name /\ op'.game = e.game /\ op'.rom = r
    BY <1>3, StartEffect
  <2>4. QED BY <1>1, <1>3, <2>1, <2>2, <2>3 DEF PhaseInv, DeletePcs, MovePcs, CleanPcs
<1>4. CASE \/ TimerFires \/ BeginSave \/ (\E e \in left : SaveGame(e))
           \/ \E n \in Names, g \in Games : AddGame(n, g)
  <2>1. CASE \E n \in Names, g \in Games : AddGame(n, g)
    BY <1>1, <2>1, InvShapes
       DEF AddGame, MayLeave, Settled, UserActs, PhaseInv, window, saving, history
  <2>2. CASE TimerFires
    BY <1>1, <2>2, InvShapes DEF TimerFires, PhaseInv, window, saving, history
  <2>3. CASE BeginSave
    BY <1>1, <2>3, InvShapes DEF BeginSave, PhaseInv, window, saving, history
  <2>4. CASE \E e \in left : SaveGame(e)
    BY <1>1, <2>4, InvShapes DEF SaveGame, PhaseInv, window, saving, history
  <2>5. QED BY <1>4, <2>1, <2>2, <2>3, <2>4
<1>5. CASE SaveEnds
  <2>1. saves # <<>> /\ (EndSave(TRUE) \/ EndSave(FALSE)) BY <1>5, SaveEnded
  <2>2. up /\ faults' >= faults /\ faults \in Nat /\ faults' \in Nat
    BY <1>1, <1>5, <2>1, SaveEnded, FaultsGrow DEF PhaseInv
  <2>3. /\ \/ op' = op
           \/ op.pc = "resave" /\ OpMoves("replace")
           \/ op.pc = "drain" /\ OpMoves("run")
           \/ OpEnds
        /\ UNCHANGED <<up, shown, timer, creating>>
    BY <2>1, EndSaveOk, EndSaveFails
  <2>4. QED
    BY <1>1, <2>2, <2>3, Idle
       DEF PhaseInv, OpMoves, OpKept, OpEnds, DeletePcs, MovePcs, CleanPcs
<1>6. CASE EnterFolder \/ ExitFolder
  <2>1. up /\ op.pc = "none" /\ creating.pc = "none" /\ creating' = creating /\ op' = op
        /\ UNCHANGED <<up, timer, saves, writing, faults>>
    BY <1>6, Idle
       DEF EnterFolder, ExitFolder, MayNavigate, MayLeave, Settled, UserActs, saving, history
  <2>2. QED BY <1>1, <2>1 DEF PhaseInv, DeletePcs, MovePcs, CleanPcs
<1>7. CASE Open BY <1>1, <1>7, Idle DEF Open, UserActs, Settled, saving, history, PhaseInv
<1>8. CASE CreateDir
  BY <1>1, <1>8, CreateDirEffect, Idle DEF CreateDir, window, saving, history, PhaseInv
<1>9. CASE CreateJson
  BY <1>1, <1>9 DEF CreateJson, Creations, window, saving, history, PhaseInv
<1>10. CASE CreateFails
  <2>1. faults' >= faults /\ faults \in Nat /\ faults' \in Nat
    BY <1>10, FaultsGrow DEF CreateFails, Counts
  <2>2. creating' = NoCreate /\ UNCHANGED <<up, shown, view, timer, saves, writing, left, op>>
    BY <1>10 DEF CreateFails, window, saving
  <2>3. QED BY <1>1, <2>1, <2>2, Idle DEF PhaseInv
<1>11. CASE CreateReply BY <1>1, <1>11, Idle DEF CreateReply, saving, history, PhaseInv
<1>12. CASE ImportRom
  BY <1>1, <1>12, ImportRomFrame, ImportRomEffect, InvShapes
     DEF OpMoves, OpKept, PhaseInv, DeletePcs, MovePcs, CleanPcs
<1>13. CASE Answer
  BY <1>1, <1>13, Idle, InvShapes
     DEF Answer, saving, history, Creations, PhaseInv, DeletePcs, MovePcs, CleanPcs
<1>14. CASE Crash BY <1>14, Idle DEF Crash, PhaseInv, DeletePcs, MovePcs, CleanPcs
<1>15. CASE OpStep
  <2>1. UNCHANGED <<up, shown, view, timer, saves, writing, left, creating>>
    BY <1>15, OpStepFrame
  <2>2. faults' >= faults /\ faults \in Nat /\ faults' \in Nat
    BY <1>15, OpStepCounts, FaultsGrow
  <2>3. /\ op.pc # "none" => up /\ op.list = shown /\ op.name \in Names /\ op.game \in Games
        /\ op.pc \in MovePcs => op.kind = "move" /\ op.as \in Names
        /\ op.kind = "import" => op.rom \in Roms
    BY <1>1, InvShapes DEF PhaseInv
  <2>4. CASE OpEnds BY <1>1, <2>1, <2>4, Idle DEF PhaseInv, OpEnds, DeletePcs, MovePcs, CleanPcs
  <2>5. ASSUME op.pc # "none", op'.pc # "none", OpKept, op'.game \in Games,
               op'.kind = "import" => op'.rom \in Roms,
               \/ op'.pc \in DeletePcs /\ op.kind = "delete"
               \/ op'.pc \in CleanPcs /\ op.kind \in {"delete", "import"}
               \/ op'.pc = "answer" /\ op.kind \in {"delete", "move"}
               \/ /\ op'.pc \in MovePcs /\ op.kind = "move" /\ op'.as \in Names
                  /\ op'.pc \in {"undoDir", "undoDest", "undoSource"} => faults' >= 1
        PROVE  PhaseInv'
    BY <1>1, <2>1, <2>3, <2>5 DEF PhaseInv, OpKept, DeletePcs, MovePcs, CleanPcs
  <2>6. CASE ImportFails BY <2>4, <2>6, Idle DEF ImportFails, Abandon, OpEnds
  <2>7. CASE RemoveReplaced BY <2>3, <2>4, <2>5, <2>7, RemoveReplacedEffect DEF CleanPcs
  <2>8. CASE DeleteMark
    <3>1. DeleteValid => dirs[op.list][op.name].game \in Games
      BY <2>8, DeleteMarkEffect, DirTyped, InvShapes DEF DeleteValid, HasGame, Exists
    <3>2. QED BY <2>4, <2>5, <2>8, <3>1, DeleteMarkEffect DEF DeletePcs, OpKept
  <2>9. CASE DeleteRows \/ DeleteUndo \/ DeleteDir
    BY <2>3, <2>4, <2>5, <2>9, DeleteRowsEffect, DeleteUndoEffect, DeleteDirEffect
       DEF OpDirs, OpMoves, OpKept, DeletePcs, CleanPcs
  <2>10. CASE QueueCleanup \/ ReadReferences
    BY <2>3, <2>4, <2>5, <2>10, QueueCleanupEffect, ReadReferencesEffect
       DEF OpMoves, OpKept, CleanPcs
  <2>11. CASE Purge \/ WriteQueue
    BY <2>3, <2>4, <2>5, <2>11, PurgeEffect, WriteQueueEffect DEF OpMoves, OpKept, CleanPcs
  <2>12. CASE MoveCheck
    <3>1. CASE OpEnds BY <2>4, <3>1
    <3>2. CASE ~OpEnds
      <4>1. /\ op.pc = "run" /\ op.kind = "move" /\ op'.pc = "mvRename" /\ op'.as \in Names
            /\ op'.kind = op.kind /\ op'.list = op.list /\ op'.name = op.name
            /\ op'.game = op.game
        BY <2>12, <3>2, MoveCheckEffect
      <4>2. QED BY <1>1, <2>1, <2>3, <4>1 DEF PhaseInv, DeletePcs, MovePcs, CleanPcs
    <3>3. QED BY <3>1, <3>2
  <2>13. CASE MoveRename \/ MoveDest \/ MoveSource
    BY <2>3, <2>4, <2>5, <2>13, MoveRenameEffect, MoveDestEffect, MoveSourceEffect
       DEF OpDirs, OpMoves, OpKept, MovePcs
  <2>14. CASE UndoDir \/ UndoDest \/ UndoSource
    <3>1. op.pc \in {"undoDir", "undoDest", "undoSource"} => faults' >= 1
      BY <1>1, <2>2 DEF PhaseInv
    <3>2. QED
      BY <2>3, <2>4, <2>5, <2>14, <3>1, UndoDirEffect, UndoDestEffect, UndoSourceEffect
         DEF OpDirs, OpMoves, OpKept, MovePcs
  <2>15. QED
    BY <1>15, <2>6, <2>7, <2>8, <2>9, <2>10, <2>11, <2>12, <2>13, <2>14 DEF OpStep
<1>16. QED
  BY <1>2, <1>3, <1>4, <1>5, <1>6, <1>7, <1>8, <1>9, <1>10, <1>11, <1>12,
     <1>13, <1>14, <1>15
     DEF Next, OpStep, SaveEnds, StartDelete, StartMove, StartImport

-----------------------------------------------------------------------------
(* The disk. *)

\* Steps that leave the lists, the directories and the deleted games alone, and
\* have no part in a move, a deletion or a cleanup's reading of the disk.
Still ==
  /\ UNCHANGED <<rows, dirs, deleted, torn, fresh>> /\ pool \subseteq pool'
  /\ \/ op' = op /\ cleanup' = cleanup
     \/ /\ op.pc \notin DeletePcs \cup MovePcs \cup {"purge"}
        /\ op'.pc \notin DeletePcs \cup MovePcs \cup {"purge", "answer"}
  /\ \/ creating' = creating /\ shown' = shown
     \/ creating'.pc = "none"
     \/ /\ creating'.detached /\ creating'.pc = creating.pc
        /\ creating'.game = creating.game

\* The steps, with those that do not matter to the disk's games as one case.
LEMMA StepCases ==
  ASSUME InductiveInv, Patient, OneFault, Next
  PROVE  \/ Still
         \/ \E n \in Names, g \in Games : AddGame(n, g)
         \/ \E e \in left : SaveGame(e) \/ SaveGameFails(e)
         \/ SaveRows(TRUE) \/ SaveRows(FALSE)
         \/ CreateDir \/ CreateJson \/ CreateFails
         \/ DeleteMark \/ DeleteRows \/ DeleteUndo \/ DeleteDir
         \/ ReadReferences \/ Purge \/ WriteQueue
         \/ MoveCheck \/ MoveRename \/ MoveDest \/ MoveSource
         \/ UndoDir \/ UndoDest \/ UndoSource \/ Crash
<1>1. ASSUME NEW e \in view[shown], NEW r \in Roms, EditRom(e, r)
      PROVE  Still
  BY <1>1 DEF Still, EditRom, disk
<1>2. ASSUME NEW kind \in {"delete", "move", "import"}, NEW e \in view[shown],
             NEW r \in Roms \cup {NoRom}, kind = "import" => r \in Roms, Start(kind, e, r)
      PROVE  Still
  <2>1. op.pc = "none" /\ op'.pc = "drain" BY <1>2, StartEffect
  <2>2. QED BY <1>2, <2>1 DEF Still, Start, disk, history, DeletePcs, MovePcs
<1>3. CASE TimerFires
  BY <1>3 DEF Still, TimerFires, disk, history
<1>4. CASE BeginSave
  BY <1>4 DEF Still, BeginSave, disk, window, history
<1>5. CASE RefuseSave
  <2>1. saves # <<>> /\ EndSave(FALSE) /\ UNCHANGED disk BY <1>5 DEF RefuseSave
  <2>2. op' = op \/ (op.pc \in {"drain", "resave"} /\ op'.pc = "none")
    BY <2>1, EndSaveFails DEF OpEnds
  <2>3. QED BY <2>1, <2>2, EndSaveFails DEF Still, disk, DeletePcs, MovePcs
<1>6. CASE Open
  <2>1. creating.pc = "none" BY <1>6, Idle DEF Open, Settled, InductiveInv, PhaseInv
  <2>2. QED BY <1>6, <2>1 DEF Still, Open, disk, history
<1>7. CASE EnterFolder
  BY <1>7 DEF Still, EnterFolder, MayNavigate, MayLeave, Settled, disk, history
<1>8. CASE ExitFolder
  BY <1>8 DEF Still, ExitFolder, MayNavigate, MayLeave, Settled, disk, history
<1>9. CASE CreateReply
  BY <1>9, Idle DEF Still, CreateReply, disk, history
<1>10. CASE ImportRom
  BY <1>10, ImportRomEffect, ImportRomFrame DEF Still, OpMoves, DeletePcs, MovePcs
<1>11. CASE ImportFails
  BY <1>11, ImportFailsFrame, Idle
     DEF Still, ImportFails, Running, Abandon, DeletePcs, MovePcs
<1>12. CASE RemoveReplaced
  BY <1>12, RemoveReplacedEffect, RemoveReplacedFrame DEF Still, OpEnds, DeletePcs, MovePcs
<1>13. CASE QueueCleanup
  BY <1>13, QueueCleanupEffect, QueueCleanupFrame DEF Still, OpEnds, OpMoves, DeletePcs, MovePcs
<1>14. CASE Answer
  BY <1>14, InvShapes, Idle DEF Still, Answer, disk, history, Creations, DeletePcs, MovePcs
<1>15. QED
  BY <1>1, <1>2, <1>3, <1>4, <1>5, <1>6, <1>7, <1>8, <1>9, <1>10, <1>11, <1>12, <1>13, <1>14
     DEF Next, StartDelete, StartMove, StartImport

\* The games on disk, place by place.
LEMMA OnTheDisk ==
  ASSUME InductiveInv
  PROVE  /\ \A l, k \in Lists, n, m \in Names :
              HasGame(l, n) /\ HasGame(k, m) /\ dirs[l][n].game = dirs[k][m].game
              => l = k /\ n = m
         /\ \A l \in Lists, n \in Names : HasGame(l, n) =>
              /\ dirs[l][n].game \in Games /\ dirs[l][n].game \notin fresh
              /\ dirs[l][n].rom \in pool \cup {NoRom}
              /\ dirs[l][n].game \in deleted => dirs[l][n].marked /\ n \notin rows[l]
              /\ creating.pc \in {"mkdir", "json"} => dirs[l][n].game # creating.game
              /\ op.pc = "purge" => dirs[l][n].rom \notin cleanup \ op.keep
         /\ fresh \cap deleted = {} /\ rows \in [Lists -> SUBSET Names]
         /\ creating.pc \in {"mkdir", "json"} => creating.game \notin fresh \cup deleted
<1>1. ASSUME NEW l \in Lists, NEW n \in Names, HasGame(l, n)
      PROVE  /\ <<l, n>> \in Places /\ GameAt(<<l, n>>) = dirs[l][n].game
             /\ RomAt(<<l, n>>) = dirs[l][n].rom /\ dirs[l][n].game \in Games
  BY <1>1, DirTyped, InvShapes DEF Places, GameAt, RomAt, HasGame, Exists
<1>2. DiskIds /\ DiskRoms /\ DiskDeleted BY DEF InductiveInv, DiskInv
<1>3. ASSUME NEW l \in Lists, NEW k \in Lists, NEW n \in Names, NEW m \in Names,
             HasGame(l, n), HasGame(k, m), dirs[l][n].game = dirs[k][m].game
      PROVE  l = k /\ n = m
  <2>1. /\ <<l, n>> \in Places /\ <<k, m>> \in Places
        /\ GameAt(<<l, n>>) = GameAt(<<k, m>>)
    BY <1>1, <1>3
  <2>2. <<l, n>> = <<k, m>> BY <1>2, <2>1, Zenon DEF DiskIds, IdentitiesDistinct
  <2>3. QED BY <2>2
<1>4. ASSUME NEW l \in Lists, NEW n \in Names, HasGame(l, n)
      PROVE  /\ dirs[l][n].game \in Games /\ dirs[l][n].game \notin fresh
             /\ dirs[l][n].rom \in pool \cup {NoRom}
             /\ creating.pc \in {"mkdir", "json"} => dirs[l][n].game # creating.game
             /\ op.pc = "purge" => dirs[l][n].rom \notin cleanup \ op.keep
  BY <1>1, <1>2, <1>4 DEF DiskIds, DiskRoms, RomsPresent
<1>5. ASSUME NEW l \in Lists, NEW n \in Names, HasGame(l, n), dirs[l][n].game \in deleted
      PROVE  dirs[l][n].marked /\ n \notin rows[l]
  <2>1. dirs[<<l, n>>[1]][<<l, n>>[2]].marked /\ <<l, n>>[2] \notin rows[<<l, n>>[1]]
    BY <1>1, <1>2, <1>5 DEF DiskDeleted
  <2>2. QED BY <2>1
<1>6. rows \in [Lists -> SUBSET Names] BY InvShapes DEF DiskShape
<1>7. QED BY <1>2, <1>3, <1>4, <1>5, <1>6 DEF DiskIds

\* What makes identities distinct after a step, place by place.
LEMMA IdsHold ==
  ASSUME \A l, k \in Lists, n, m \in Names :
           (HasGame(l, n))' /\ (HasGame(k, m))' /\ dirs'[l][n].game = dirs'[k][m].game
           => l = k /\ n = m,
         \A l \in Lists, n \in Names : (HasGame(l, n))' =>
           /\ dirs'[l][n].game \notin fresh'
           /\ creating'.pc \in {"mkdir", "json"} => dirs'[l][n].game # creating'.game,
         fresh' \cap deleted' = {},
         creating'.pc \in {"mkdir", "json"} => creating'.game \notin fresh' \cup deleted'
  PROVE  DiskIds'
<1>1. ASSUME NEW p \in Places'
      PROVE  /\ p = <<p[1], p[2]>> /\ p[1] \in Lists /\ p[2] \in Names
             /\ (HasGame(p[1], p[2]))' /\ (GameAt(p))' = dirs'[p[1]][p[2]].game
  BY DEF Places, GameAt
<1>2. IdentitiesDistinct'
  <2>1. ASSUME NEW p \in Places', NEW q \in Places', (GameAt(p))' = (GameAt(q))' PROVE p = q
    <3>1. p[1] = q[1] /\ p[2] = q[2] BY <1>1, <2>1
    <3>2. QED BY <1>1, <3>1
  <2>2. QED BY <2>1 DEF IdentitiesDistinct
<1>3. QED BY <1>1, <1>2 DEF DiskIds

\* The games there are after a step were where they are.
Remains == \A l \in Lists, n \in Names :
             (HasGame(l, n))' => HasGame(l, n) /\ dirs'[l][n].game = dirs[l][n].game

\* The same when no identity is given out or deleted.
LEMMA IdsKept ==
  ASSUME InductiveInv, Remains, UNCHANGED <<fresh, deleted>>,
         creating'.pc \in {"mkdir", "json"} =>
           creating.pc \in {"mkdir", "json"} /\ creating'.game = creating.game
  PROVE  DiskIds'
<1>1. \A l, k \in Lists, n, m \in Names :
        (HasGame(l, n))' /\ (HasGame(k, m))' /\ dirs'[l][n].game = dirs'[k][m].game
        => l = k /\ n = m
  BY OnTheDisk DEF Remains
<1>2. \A l \in Lists, n \in Names : (HasGame(l, n))' =>
        /\ dirs'[l][n].game \notin fresh'
        /\ creating'.pc \in {"mkdir", "json"} => dirs'[l][n].game # creating'.game
  BY OnTheDisk DEF Remains
<1>3. QED BY <1>1, <1>2, OnTheDisk, IdsHold

\* Games that keep their identity remain where they are.
LEMMA SameRemains ==
  ASSUME SameGames \/ UNCHANGED dirs
  PROVE  /\ Remains
         /\ \A l \in Lists, n \in Names : HasGame(l, n) => (HasGame(l, n))'
         /\ \A l \in Lists, n \in Names : Exists(l, n) => (Exists(l, n))'
BY DEF SameGames, Remains, HasGame, Exists

\* Each step that writes a directory, seen from the games.
LEMMA CreateDirGames ==
  ASSUME InductiveInv, CreateDir
  PROVE  /\ Remains
         /\ \A l \in Lists, n \in Names : Exists(l, n) => dirs'[l][n] = dirs[l][n]
<1>1. \A l \in Lists, n \in Names : Exists(l, n) => dirs'[l][n] = dirs[l][n]
  BY CreateDirEffect DEF OnlyDir
<1>2. Remains
  <2>1. ASSUME NEW l \in Lists, NEW n \in Names, (HasGame(l, n))' PROVE Exists(l, n)
    BY <2>1, CreateDirEffect DEF OnlyDir, HasGame, Exists
  <2>2. QED BY <1>1, <2>1 DEF Remains, HasGame, Exists
<1>3. QED BY <1>1, <1>2

\* A new game's metadata appears where there was no game.
Placed ==
  /\ creating.pc = "json" /\ creating.list = shown /\ creating.name \in Names
  /\ creating.game \in Games /\ Empty(shown, creating.name) /\ OnlyDir(shown, creating.name)
  /\ dirs'[shown][creating.name] # NoDir /\ dirs'[shown][creating.name].rom = NoRom
  /\ dirs'[shown][creating.name].game = creating.game
  /\ dirs'[shown][creating.name].marked = dirs[shown][creating.name].marked

\* The second step of a creation.
LEMMA CreateGames ==
  ASSUME InductiveInv, CreateJson \/ CreateFails
  PROVE  /\ UNCHANGED <<rows, pool, cleanup, deleted, torn, fresh, shown, op, saves, timer>>
         /\ ~Locked /\ creating.pc = "json"
         /\ \/ Placed
            \/ UNCHANGED dirs
         /\ \/ creating' = NoCreate
            \/ Placed /\ creating' = [creating EXCEPT !.pc = "reply"]
<1>1. /\ UNCHANGED <<rows, pool, cleanup, deleted, torn, fresh, shown, op, saves, timer>>
      /\ ~Locked /\ creating.pc = "json"
  BY DEF CreateJson, CreateFails, window, saving, history
<1>2. ASSUME MayWrite(creating.list, Created), PutGame(creating.list, Created) PROVE Placed
  <2>1. /\ creating.list = shown /\ creating.name \in Names /\ creating.game \in Games
        /\ Empty(shown, creating.name) /\ OnlyDir(shown, creating.name)
        /\ dirs'[shown][creating.name] # NoDir /\ dirs'[shown][creating.name].rom = NoRom
        /\ dirs'[shown][creating.name].game = creating.game
        /\ dirs'[shown][creating.name].marked = dirs[shown][creating.name].marked
    BY <1>1, <1>2, CreatedPut
  <2>2. QED BY <1>1, <2>1 DEF Placed
<1>3. QED BY <1>1, <1>2 DEF CreateJson, CreateFails

\* A move takes a game from one place to another that held none.
Relocated(l, n, k, m) ==
  /\ l \in Lists /\ k \in Lists /\ n \in Names /\ m \in Names /\ k # l
  /\ HasGame(l, n) /\ ~HasGame(k, m) /\ dirs[l][n].game \notin deleted
  /\ dirs'[k][m] = dirs[l][n] /\ dirs'[l][n] = NoDir
  /\ \A i \in Lists, j \in Names :
       (i # l \/ j # n) /\ (i # k \/ j # m) => dirs'[i][j] = dirs[i][j]

\* A rename and its undoing move one directory.
LEMMA MoveGames ==
  ASSUME InductiveInv, OneFault, MoveRename \/ UndoDir
  PROVE  /\ UNCHANGED <<rows, pool, cleanup, deleted, torn, fresh, shown, creating>>
         /\ op.list = shown /\ Dest # shown
         /\ \/ op.pc = "mvRename" /\ OpEnds /\ UNCHANGED dirs
            \/ /\ op.pc = "mvRename" /\ OpDirs("mvDest")
               /\ Relocated(op.list, op.name, Dest, op.as)
            \/ /\ op.pc = "undoDir" /\ OpDirs("undoDest")
               /\ Relocated(Dest, op.as, op.list, op.name)
<1>1. CASE MoveRename
  <2>1. op.pc = "mvRename" BY <1>1, MoveRenameEffect
  <2>2. /\ op.list = shown /\ op.list \in Lists /\ Dest \in Lists /\ Dest # op.list
        /\ op.name \in Names /\ op.as \in Names
    BY <2>1, MoveLists DEF MovePcs
  <2>3. /\ HasGame(op.list, op.name) /\ ~HasGame(Dest, op.as)
        /\ dirs[op.list][op.name].game \notin deleted
    BY <2>1 DEF InductiveInv, MoveInv, MovePcs, HasGame
  <2>4. QED BY <1>1, <2>1, <2>2, <2>3, MoveRenameEffect, MoveRenameFrame DEF Relocated
<1>2. CASE UndoDir
  <2>1. op.pc = "undoDir" BY <1>2, UndoDirEffect
  <2>2. /\ op.list = shown /\ op.list \in Lists /\ Dest \in Lists /\ Dest # op.list
        /\ op.name \in Names /\ op.as \in Names
    BY <2>1, MoveLists DEF MovePcs
  <2>3. /\ ~HasGame(op.list, op.name) /\ HasGame(Dest, op.as)
        /\ dirs[Dest][op.as].game \notin deleted
    BY <2>1 DEF InductiveInv, MoveInv, MovePcs
  <2>4. QED BY <1>2, <2>1, <2>2, <2>3, UndoDirEffect, UndoDirFrame DEF Relocated
<1>3. QED BY <1>1, <1>2

\* Where the games are after that.
LEMMA RelocatedGames ==
  ASSUME NEW l, NEW n, NEW k, NEW m, Relocated(l, n, k, m)
  PROVE  /\ l \in Lists /\ k \in Lists /\ n \in Names /\ m \in Names /\ k # l
         /\ HasGame(l, n) /\ (HasGame(k, m))' /\ ~(HasGame(l, n))'
         /\ dirs'[k][m].game = dirs[l][n].game /\ dirs'[k][m].rom = dirs[l][n].rom
         /\ \A i \in Lists, j \in Names : (i # l \/ j # n) /\ (i # k \/ j # m) =>
              ((HasGame(i, j))' <=> HasGame(i, j)) /\ dirs'[i][j] = dirs[i][j]
BY DEF Relocated, HasGame, Exists

\* Steps that leave every identity where it is.
LEMMA SameSteps ==
  ASSUME InductiveInv,
         \/ \E e \in left : SaveGame(e) \/ SaveGameFails(e)
         \/ SaveRows(TRUE) \/ SaveRows(FALSE)
         \/ DeleteMark \/ DeleteRows \/ DeleteUndo
         \/ ReadReferences \/ Purge \/ WriteQueue
         \/ MoveCheck \/ MoveDest \/ MoveSource \/ UndoDest \/ UndoSource \/ Crash
  PROVE  /\ SameGames /\ fresh' = fresh /\ (deleted' = deleted \/ DeleteRows)
         /\ (creating' = creating /\ shown' = shown) \/ creating'.pc = "none"
<1>1. CASE \E e \in left : SaveGame(e) \/ SaveGameFails(e)
  <2>1. PICK e \in left : SaveGame(e) \/ SaveGameFails(e) BY <1>1
  <2>2. CASE SaveGame(e)
    <3>1. SameGames BY <2>2, SavePutEffect, SameRewrites DEF SaveGame
    <3>2. QED BY <2>2, <3>1 DEF SaveGame, window, history
  <2>3. CASE SaveGameFails(e)
    <3>1. SameGames BY <2>3, SameDirs, SavePutEffect, SameRewrites DEF SaveGameFails
    <3>2. saves # <<>> /\ EndSave(FALSE)
      BY <2>3 DEF SaveGameFails, InductiveInv, WriteInv
    <3>3. QED BY <3>1, <3>2, EndSaveFails
  <2>4. QED BY <2>1, <2>2, <2>3
<1>2. CASE SaveRows(TRUE) \/ SaveRows(FALSE)
  <2>1. saves # <<>> /\ (EndSave(TRUE) \/ EndSave(FALSE)) /\ UNCHANGED dirs
    BY <1>2 DEF SaveRows, InductiveInv, WriteInv
  <2>2. QED BY <2>1, SameDirs, EndSaveOk, EndSaveFails
<1>3. CASE DeleteMark
  <2>1. \/ UNCHANGED dirs
        \/ Exists(op.list, op.name) /\ Marks(op.list, op.name, TRUE) /\ op.name \in Names
    BY <1>3, DeleteMarkEffect DEF DeleteValid, HasGame
  <2>2. QED BY <1>3, <2>1, SameDirs, SameMarks, DeleteMarkFrame
<1>4. CASE DeleteUndo
  <2>1. \/ UNCHANGED dirs
        \/ Exists(op.list, op.name) /\ Marks(op.list, op.name, FALSE) /\ op.name \in Names
    BY <1>4, DeleteUndoEffect DEF InductiveInv, DeleteInv, DeletePcs, HasGame
  <2>2. QED BY <1>4, <2>1, SameDirs, SameMarks, DeleteUndoFrame
<1>5. CASE DeleteRows BY <1>5, SameDirs, DeleteRowsFrame
<1>6. CASE ReadReferences \/ Purge \/ WriteQueue
  BY <1>6, SameDirs, ReadReferencesFrame, PurgeFrame, WriteQueueFrame
<1>7. CASE MoveCheck \/ MoveDest \/ MoveSource \/ UndoDest \/ UndoSource
  BY <1>7, SameDirs, MoveCheckFrame, MoveDestFrame, MoveSourceFrame, UndoDestFrame,
     UndoSourceFrame
<1>8. CASE Crash BY <1>8, SameDirs, Idle DEF Crash, disk
<1>9. QED BY <1>1, <1>2, <1>3, <1>4, <1>5, <1>6, <1>7, <1>8

\* No two directories hold one identity, and none holds one not given out.
LEMMA DiskIdsStep ==
  ASSUME InductiveInv, Patient, OneFault, Next
  PROVE  DiskIds'
<1>1. CASE Still BY <1>1, SameRemains, IdsKept DEF Still
<1>2. ASSUME NEW n \in Names, NEW g \in Games, AddGame(n, g) PROVE DiskIds'
  <2>1. /\ g \in fresh /\ fresh' = fresh \ {g} /\ UNCHANGED <<dirs, deleted>>
        /\ creating'.game = g
    BY <1>2 DEF AddGame, disk, history
  <2>2. Remains BY <2>1, SameRemains
  <2>3. QED BY <2>1, <2>2, OnTheDisk, IdsHold DEF Remains
<1>3. CASE /\ SameGames /\ fresh' = fresh /\ deleted' = deleted
           /\ (creating' = creating /\ shown' = shown) \/ creating'.pc = "none"
  BY <1>3, SameRemains, IdsKept
<1>4. CASE CreateDir
  BY <1>4, CreateDirGames, CreateDirEffect, Idle, IdsKept DEF CreateDir, history
<1>5. CASE CreateJson \/ CreateFails
  <2>1. UNCHANGED <<fresh, deleted>> /\ creating'.pc \notin {"mkdir", "json"}
        /\ creating.pc = "json" /\ (Placed \/ UNCHANGED dirs)
    BY <1>5, CreateGames, Idle, InvShapes DEF Creations
  <2>2. CASE UNCHANGED dirs BY <2>1, <2>2, SameRemains, IdsKept
  <2>3. CASE Placed
    <3>1. PICK k \in Lists, m \in Names : k = shown /\ m = creating.name
      BY <2>3, ShownEntries DEF Placed
    <3>2. /\ dirs'[k][m].game = creating.game
          /\ \A l \in Lists, n \in Names : l # k \/ n # m => dirs'[l][n] = dirs[l][n]
      BY <2>3, <3>1 DEF Placed, OnlyDir
    <3>3. \A l \in Lists, n \in Names : (HasGame(l, n))' =>
            \/ l = k /\ n = m
            \/ HasGame(l, n) /\ dirs'[l][n].game = dirs[l][n].game
      BY <3>2 DEF HasGame, Exists
    <3>4. QED BY <2>1, <3>2, <3>3, OnTheDisk, IdsHold
  <2>4. QED BY <2>1, <2>2, <2>3
<1>6. CASE DeleteRows
  <2>1. UNCHANGED <<dirs, fresh, creating>> /\ deleted' \subseteq deleted \cup {op.game}
    BY <1>6, DeleteRowsFrame, DeleteRowsEffect
  <2>2. /\ op.list \in Lists /\ op.name \in Names /\ HasGame(op.list, op.name)
        /\ dirs[op.list][op.name].game = op.game
    BY <1>6, DeleteRowsEffect, InvShapes DEF InductiveInv, DeleteInv, DeletePcs
  <2>3. op.game \notin fresh /\ (creating.pc \in {"mkdir", "json"} => op.game # creating.game)
    BY <2>2, OnTheDisk
  <2>4. Remains BY <2>1, SameRemains
  <2>5. QED BY <2>1, <2>3, <2>4, OnTheDisk, IdsHold DEF Remains
<1>7. CASE DeleteDir
  <2>1. Remains BY <1>7, DeleteDirEffect DEF Remains, OnlyDir, HasGame, Exists
  <2>2. QED BY <1>7, <2>1, DeleteDirFrame, IdsKept
<1>8. ASSUME NEW l, NEW n, NEW k, NEW m, Relocated(l, n, k, m),
             UNCHANGED <<fresh, deleted, creating>>
      PROVE  DiskIds'
  <2>1. \A i \in Lists, j \in Names : (HasGame(i, j))' =>
          \/ i = k /\ j = m /\ dirs'[i][j].game = dirs[l][n].game
          \/ /\ HasGame(i, j) /\ dirs'[i][j].game = dirs[i][j].game
             /\ (i # l \/ j # n)
    BY <1>8, RelocatedGames
  <2>2. HasGame(l, n) /\ l \in Lists /\ n \in Names BY <1>8, RelocatedGames
  <2>3. \A i \in Lists, j \in Names : (HasGame(i, j))' =>
          /\ dirs'[i][j].game \notin fresh'
          /\ creating'.pc \in {"mkdir", "json"} => dirs'[i][j].game # creating'.game
    BY <1>8, <2>1, <2>2, OnTheDisk
  <2>4. \A i, x \in Lists, j, y \in Names :
          (HasGame(i, j))' /\ (HasGame(x, y))' /\ dirs'[i][j].game = dirs'[x][y].game
          => i = x /\ j = y
    BY <2>1, <2>2, OnTheDisk
  <2>5. QED BY <1>8, <2>3, <2>4, OnTheDisk, IdsHold
<1>9. CASE MoveRename \/ UndoDir
  <2>1. UNCHANGED <<fresh, deleted, creating>> BY <1>9, MoveGames
  <2>2. CASE UNCHANGED dirs BY <2>1, <2>2, SameRemains, IdsKept
  <2>3. QED BY <1>8, <1>9, <2>1, <2>2, MoveGames
<1>10. QED BY <1>1, <1>2, <1>3, <1>4, <1>5, <1>6, <1>7, <1>9, SameSteps, StepCases

\* What makes every ROM named on disk safe after a step, place by place.
LEMMA RomsHold ==
  ASSUME \A l \in Lists, n \in Names : (HasGame(l, n))' =>
           /\ dirs'[l][n].rom \in pool' \cup {NoRom}
           /\ op'.pc = "purge" => dirs'[l][n].rom \notin cleanup' \ op'.keep
  PROVE  DiskRoms'
<1>1. ASSUME NEW p \in Places'
      PROVE  /\ p[1] \in Lists /\ p[2] \in Names
             /\ (HasGame(p[1], p[2]))' /\ (RomAt(p))' = dirs'[p[1]][p[2]].rom
  BY DEF Places, RomAt
<1>2. QED BY <1>1 DEF DiskRoms, RomsPresent

\* The metadata keep their ROMs, and no cleanup begins.
LEMMA RomsStay ==
  ASSUME InductiveInv, Remains, pool \subseteq pool',
         \A l \in Lists, n \in Names : (HasGame(l, n))' => dirs'[l][n].rom = dirs[l][n].rom,
         op'.pc = "purge" => op.pc = "purge" /\ op'.keep = op.keep /\ cleanup' = cleanup
  PROVE  DiskRoms'
BY OnTheDisk, RomsHold DEF Remains

\* Unchanged ROMs stay safe.
LEMMA RomsSame ==
  ASSUME InductiveInv, SameGames, SameRoms, pool \subseteq pool',
         op'.pc = "purge" => op' = op /\ cleanup' = cleanup
  PROVE  DiskRoms'
<1>1. Remains BY SameRemains
<1>2. \A l \in Lists, n \in Names : (HasGame(l, n))' => dirs'[l][n].rom = dirs[l][n].rom
  BY <1>1 DEF Remains, SameRoms, HasGame, Exists
<1>3. QED BY <1>1, <1>2, RomsStay

\* Steps that write no ROM and begin no cleanup.
LEMMA RomSteps ==
  ASSUME InductiveInv,
         \/ SaveRows(TRUE) \/ SaveRows(FALSE)
         \/ DeleteMark \/ DeleteRows \/ DeleteUndo \/ WriteQueue
         \/ MoveCheck \/ MoveDest \/ MoveSource \/ UndoDest \/ UndoSource \/ Crash
  PROVE  SameGames /\ SameRoms /\ pool' = pool
         /\ (op'.pc = "purge" => op' = op /\ cleanup' = cleanup)
<1>1. CASE SaveRows(TRUE) \/ SaveRows(FALSE)
  <2>1. saves # <<>> /\ (EndSave(TRUE) \/ EndSave(FALSE)) /\ UNCHANGED <<dirs, pool, cleanup>>
    BY <1>1 DEF SaveRows, InductiveInv, WriteInv
  <2>2. op' = op \/ op'.pc # "purge" BY <2>1, EndSaveOk, EndSaveFails DEF OpMoves, OpEnds
  <2>3. QED BY <2>1, <2>2, SameDirs
<1>2. CASE DeleteMark
  <2>1. \/ UNCHANGED dirs
        \/ Exists(op.list, op.name) /\ Marks(op.list, op.name, TRUE) /\ op.name \in Names
    BY <1>2, DeleteMarkEffect DEF DeleteValid, HasGame
  <2>2. op'.pc # "purge" BY <1>2, DeleteMarkEffect DEF OpEnds
  <2>3. QED BY <1>2, <2>1, <2>2, SameDirs, SameMarks, DeleteMarkFrame
<1>3. CASE DeleteUndo
  <2>1. \/ UNCHANGED dirs
        \/ Exists(op.list, op.name) /\ Marks(op.list, op.name, FALSE) /\ op.name \in Names
    BY <1>3, DeleteUndoEffect DEF InductiveInv, DeleteInv, DeletePcs, HasGame
  <2>2. op'.pc # "purge" BY <1>3, DeleteUndoEffect DEF OpEnds
  <2>3. QED BY <1>3, <2>1, <2>2, SameDirs, SameMarks, DeleteUndoFrame
<1>4. CASE DeleteRows
  <2>1. op'.pc # "purge" BY <1>4, DeleteRowsEffect DEF OpDirs, OpMoves
  <2>2. QED BY <1>4, <2>1, SameDirs, DeleteRowsFrame
<1>5. CASE WriteQueue
  BY <1>5, SameDirs, WriteQueueFrame, WriteQueueEffect DEF OpMoves, OpEnds
<1>6. CASE MoveCheck
  <2>1. op'.pc # "purge" BY <1>6, MoveCheckEffect DEF OpEnds
  <2>2. QED BY <1>6, <2>1, SameDirs, MoveCheckFrame
<1>7. CASE MoveDest \/ MoveSource
  <2>1. op'.pc # "purge" BY <1>7, MoveDestEffect, MoveSourceEffect DEF OpDirs, OpMoves
  <2>2. QED BY <1>7, <2>1, SameDirs, MoveDestFrame, MoveSourceFrame
<1>8. CASE UndoDest \/ UndoSource
  <2>1. op'.pc # "purge" BY <1>8, UndoDestEffect, UndoSourceEffect DEF OpDirs, OpMoves, OpEnds
  <2>2. QED BY <1>8, <2>1, SameDirs, UndoDestFrame, UndoSourceFrame
<1>9. CASE Crash BY <1>9, SameDirs, Idle DEF Crash, disk
<1>10. QED BY <1>1, <1>2, <1>3, <1>4, <1>5, <1>6, <1>7, <1>8, <1>9

\* A save writes the ROM of its entry, which the pool has.
LEMMA RomsWritten ==
  ASSUME InductiveInv, writing, NEW e \in left, MayWrite(Current.list, e),
         PutGame(Current.list, e), UNCHANGED <<pool, cleanup>>, op' = op \/ op'.pc = "none"
  PROVE  DiskRoms'
<1>1. Rewrites(e) /\ SameGames /\ (Calm => SameRoms) BY SavePutEffect, SameRewrites
<1>2. CASE Calm \/ op'.pc # "purge"
  <2>1. CASE Calm BY <1>1, <2>1, RomsSame
  <2>2. CASE op'.pc # "purge"
    <3>1. ASSUME NEW l \in Lists, NEW n \in Names, (HasGame(l, n))'
          PROVE  dirs'[l][n].rom \in pool' \cup {NoRom}
      <4>1. dirs'[l][n].rom \in {e.rom, dirs[l][n].rom} /\ HasGame(l, n)
        BY <1>1, <3>1 DEF Rewrites, SameGames, HasGame, Exists
      <4>2. QED BY <4>1, SavePut, OnTheDisk
    <3>2. QED BY <2>2, <3>1, RomsHold
  <2>3. QED BY <1>2, <2>1, <2>2
<1>3. CASE ~Calm /\ op'.pc = "purge" BY <1>3 DEF Calm
<1>4. QED BY <1>2, <1>3

\* The pool has every ROM that some metadata names.
LEMMA DiskRomsStep ==
  ASSUME InductiveInv, Patient, OneFault, Next
  PROVE  DiskRoms'
<1>1. CASE Still BY <1>1, SameDirs, RomsSame DEF Still
<1>2. ASSUME NEW n \in Names, NEW g \in Games, AddGame(n, g) PROVE DiskRoms'
  BY <1>2, SameDirs, RomsSame DEF AddGame, disk
<1>3. ASSUME NEW e \in left, SaveGame(e) PROVE DiskRoms'
  BY <1>3, RomsWritten DEF SaveGame
<1>4. ASSUME NEW e \in left, SaveGameFails(e) PROVE DiskRoms'
  <2>1. saves # <<>> /\ EndSave(FALSE) /\ writing /\ UNCHANGED <<pool, cleanup>>
    BY <1>4 DEF SaveGameFails, InductiveInv, WriteInv
  <2>2. op' = op \/ op'.pc = "none" BY <2>1, EndSaveFails DEF OpEnds
  <2>3. CASE UNCHANGED dirs BY <2>1, <2>2, <2>3, SameDirs, RomsSame
  <2>4. CASE MayWrite(Current.list, e) /\ PutGame(Current.list, e)
    BY <2>1, <2>2, <2>4, RomsWritten
  <2>5. QED BY <1>4, <2>3, <2>4 DEF SaveGameFails
<1>5. CASE \/ SaveRows(TRUE) \/ SaveRows(FALSE)
           \/ DeleteMark \/ DeleteRows \/ DeleteUndo \/ WriteQueue
           \/ MoveCheck \/ MoveDest \/ MoveSource \/ UndoDest \/ UndoSource \/ Crash
  BY <1>5, RomSteps, RomsSame
<1>6. CASE CreateDir
  <2>1. \A l \in Lists, n \in Names : (HasGame(l, n))' => dirs'[l][n].rom = dirs[l][n].rom
    BY <1>6, CreateDirGames DEF Remains, HasGame
  <2>2. QED BY <1>6, <2>1, CreateDirGames, RomsStay DEF CreateDir
<1>7. CASE CreateJson \/ CreateFails
  <2>1. UNCHANGED <<pool, cleanup, op>> /\ (Placed \/ UNCHANGED dirs) BY <1>7, CreateGames
  <2>2. CASE UNCHANGED dirs BY <2>1, <2>2, SameDirs, RomsSame
  <2>3. CASE Placed
    <3>1. \A l \in Lists, n \in Names : (HasGame(l, n))' =>
            \/ dirs'[l][n].rom = NoRom
            \/ HasGame(l, n) /\ dirs'[l][n].rom = dirs[l][n].rom
      BY <2>3 DEF Placed, OnlyDir, HasGame, Exists
    <3>2. NoRom \notin cleanup BY DistinctAssumption, InvShapes DEF DiskShape
    <3>3. QED BY <2>1, <3>1, <3>2, OnTheDisk, RomsHold
  <2>4. QED BY <2>1, <2>2, <2>3
<1>8. CASE DeleteDir
  <2>1. Remains /\ \A l \in Lists, n \in Names : (HasGame(l, n))' => dirs'[l][n] = dirs[l][n]
    BY <1>8, DeleteDirEffect DEF Remains, OnlyDir, HasGame, Exists
  <2>2. op'.pc # "purge" BY <1>8, DeleteDirEffect DEF OpMoves
  <2>3. QED BY <1>8, <2>1, <2>2, DeleteDirFrame, RomsStay
<1>9. CASE ReadReferences
  <2>1. UNCHANGED <<dirs, pool, cleanup>> BY <1>9, ReadReferencesFrame
  <2>2. op'.keep = cleanup \cap Referenced BY <1>9, ReadReferencesEffect
  <2>3. ASSUME NEW l \in Lists, NEW n \in Names, HasGame(l, n), dirs[l][n].rom \in cleanup
        PROVE  dirs[l][n].rom \in op'.keep
    <3>1. <<l, n>> \in Places /\ RomAt(<<l, n>>) = dirs[l][n].rom
      BY <2>3 DEF Places, RomAt
    <3>2. dirs[l][n].rom # NoRom BY <2>3, DistinctAssumption, InvShapes DEF DiskShape
    <3>3. QED BY <2>2, <2>3, <3>1, <3>2 DEF Referenced
  <2>4. QED BY <2>1, <2>3, OnTheDisk, RomsHold DEF HasGame, Exists
<1>10. CASE Purge
  <2>1. UNCHANGED dirs /\ op'.pc # "purge" BY <1>10, PurgeFrame, PurgeEffect DEF OpMoves, OpEnds
  <2>2. ASSUME NEW l \in Lists, NEW n \in Names, HasGame(l, n)
        PROVE  dirs[l][n].rom \in pool' \cup {NoRom}
    <3>1. <<l, n>> \in Places /\ RomAt(<<l, n>>) = dirs[l][n].rom
      BY <2>2 DEF Places, RomAt
    <3>2. QED BY <1>10, <3>1, PurgeKeeps
  <2>3. QED BY <2>1, <2>2, RomsHold DEF HasGame, Exists
<1>11. CASE MoveRename \/ UndoDir
  <2>1. UNCHANGED <<pool, cleanup>> /\ op'.pc # "purge"
    BY <1>11, MoveGames DEF OpEnds, OpDirs, OpMoves
  <2>2. CASE UNCHANGED dirs BY <2>1, <2>2, SameDirs, RomsSame
  <2>3. ASSUME NEW l, NEW n, NEW k, NEW m, Relocated(l, n, k, m) PROVE DiskRoms'
    <3>1. \A i \in Lists, j \in Names : (HasGame(i, j))' =>
            \/ dirs'[i][j].rom = dirs[l][n].rom
            \/ HasGame(i, j) /\ dirs'[i][j].rom = dirs[i][j].rom
      BY <2>3, RelocatedGames
    <3>2. HasGame(l, n) /\ l \in Lists /\ n \in Names BY <2>3, RelocatedGames
    <3>3. QED BY <2>1, <3>1, <3>2, OnTheDisk, RomsHold
  <2>4. QED BY <1>11, <2>2, <2>3, MoveGames
<1>12. QED
  BY <1>1, <1>2, <1>3, <1>4, <1>5, <1>6, <1>7, <1>8, <1>9, <1>10, <1>11, StepCases

\* What keeps deleted games out of the lists after a step, place by place.
LEMMA DeletedHold ==
  ASSUME \A l \in Lists, n \in Names : (HasGame(l, n))' /\ dirs'[l][n].game \in deleted' =>
           dirs'[l][n].marked /\ n \notin rows'[l]
  PROVE  DiskDeleted'
<1>1. ASSUME NEW p \in Places'
      PROVE  /\ p[1] \in Lists /\ p[2] \in Names
             /\ (HasGame(p[1], p[2]))' /\ (GameAt(p))' = dirs'[p[1]][p[2]].game
  BY DEF Places, GameAt
<1>2. QED BY <1>1 DEF DiskDeleted

\* A deleted game keeps its marker and gets no row.
LEMMA DeletedKept ==
  ASSUME InductiveInv, Remains, deleted' = deleted,
         \A l \in Lists, n \in Names :
           (HasGame(l, n))' /\ dirs[l][n].game \in deleted /\ dirs[l][n].marked =>
             dirs'[l][n].marked /\ (n \in rows'[l] => n \in rows[l])
  PROVE  DiskDeleted'
BY OnTheDisk, DeletedHold DEF Remains

\* A deleted game that is on disk is neither in the operation's place before
\* its deletion commits, nor where a move put its game.
LEMMA NotDeletedHere ==
  ASSUME InductiveInv
  PROVE  /\ op.pc = "delRows" \/ op.pc = "delUndo" =>
              dirs[op.list][op.name].game \notin deleted
         /\ op.pc \in {"mvRename", "undoDest", "undoSource"} =>
              dirs[op.list][op.name].game \notin deleted
         /\ op.pc \in {"mvDest", "mvSource", "undoDir"} =>
              dirs[Dest][op.as].game \notin deleted
BY DEF InductiveInv, DeleteInv, MoveInv, DeletePcs, MovePcs

\* No late save brings a deleted game back.
LEMMA DiskDeletedStep ==
  ASSUME InductiveInv, Patient, OneFault, Next
  PROVE  DiskDeleted'
<1> USE SameRemains
<1>1. CASE UNCHANGED <<rows, dirs, deleted>> BY <1>1, DeletedKept
<1>2. CASE Still \/ MoveCheck \/ ReadReferences \/ Purge \/ WriteQueue \/ Crash
  BY <1>1, <1>2, MoveCheckFrame, ReadReferencesFrame, PurgeFrame, WriteQueueFrame
     DEF Still, Crash, disk
<1>3. ASSUME NEW n \in Names, NEW g \in Games, AddGame(n, g) PROVE DiskDeleted'
  BY <1>1, <1>3 DEF AddGame, disk, history
<1>4. ASSUME NEW e \in left, Rewrites(e), UNCHANGED <<rows, deleted>> PROVE DiskDeleted'
  <2>1. Remains BY <1>4, SameRewrites
  <2>2. \A l \in Lists, n \in Names : (HasGame(l, n))' => dirs'[l][n].marked = dirs[l][n].marked
    BY <1>4 DEF Rewrites, HasGame, Exists
  <2>3. QED BY <1>4, <2>1, <2>2, DeletedKept
<1>5. ASSUME NEW e \in left, SaveGame(e) \/ SaveGameFails(e) PROVE DiskDeleted'
  <2>1. CASE SaveGame(e) BY <1>4, <2>1, SavePutEffect DEF SaveGame, history
  <2>2. CASE SaveGameFails(e)
    <3>1. UNCHANGED <<rows, deleted>> /\ writing BY <2>2 DEF SaveGameFails, EndSave
    <3>2. UNCHANGED dirs \/ Rewrites(e) BY <2>2, <3>1, SavePutEffect DEF SaveGameFails
    <3>3. QED BY <1>1, <1>4, <3>1, <3>2
  <2>3. QED BY <1>5, <2>1, <2>2
<1>6. CASE SaveRows(TRUE) \/ SaveRows(FALSE)
  <2>1. /\ UNCHANGED <<dirs, deleted>> /\ writing
        /\ rows' \in {rows, [rows EXCEPT ![Current.list] = NamesOf(Current.games)]}
    BY <1>6 DEF SaveRows, EndSave
  <2>2. /\ Current.list = shown /\ shown \in Lists /\ Current.games \subseteq Entry
        /\ \A e \in Current.games : Exists(shown, e.name) /\ NotDeleted(shown, e.name)
    BY <2>1, HeadOfQueue, InvShapes DEF InductiveInv, WriteInv
  <2>3. ASSUME NEW l \in Lists, NEW n \in Names, HasGame(l, n), dirs[l][n].marked,
               n \in rows'[l]
        PROVE  n \in rows[l]
    <3>1. CASE rows' = rows BY <2>3, <3>1
    <3>2. CASE rows' = [rows EXCEPT ![shown] = NamesOf(Current.games)]
      <4>1. CASE l # shown BY <2>3, <3>2, <4>1, OnTheDisk
      <4>2. CASE l = shown
        <5>1. n \in NamesOf(Current.games) BY <2>3, <3>2, <4>2, OnTheDisk
        <5>2. PICK e \in Current.games : e.name = n BY <5>1 DEF NamesOf
        <5>3. QED BY <2>2, <2>3, <4>2, <5>2 DEF NotDeleted
      <4>3. QED BY <4>1, <4>2
    <3>3. QED BY <2>1, <2>2, <3>1, <3>2
  <2>4. QED BY <2>1, <2>3, DeletedKept DEF HasGame, Exists
<1>7. CASE CreateDir
  <2>1. UNCHANGED <<rows, deleted>> BY <1>7 DEF CreateDir, history
  <2>2. \A l \in Lists, n \in Names : (HasGame(l, n))' => dirs'[l][n] = dirs[l][n]
    BY <1>7, CreateDirGames DEF Remains, HasGame
  <2>3. QED BY <1>7, <2>1, <2>2, CreateDirGames, DeletedKept
<1>8. CASE CreateJson \/ CreateFails
  <2>1. UNCHANGED <<rows, deleted>> /\ creating.pc = "json" /\ (Placed \/ UNCHANGED dirs)
    BY <1>8, CreateGames
  <2>2. CASE Placed
    <3>1. \A l \in Lists, n \in Names : (HasGame(l, n))' =>
            \/ dirs'[l][n].game = creating.game
            \/ HasGame(l, n) /\ dirs'[l][n] = dirs[l][n]
      BY <2>2 DEF Placed, OnlyDir, HasGame, Exists
    <3>2. QED BY <2>1, <3>1, OnTheDisk, DeletedHold
  <2>3. QED BY <1>1, <2>1, <2>2
<1>9. CASE DeleteMark
  <2>1. UNCHANGED <<rows, deleted>> BY <1>9, DeleteMarkFrame
  <2>2. CASE Exists(op.list, op.name) /\ Marks(op.list, op.name, TRUE) /\ op.name \in Names
    <3>1. Remains BY <2>2, SameMarks
    <3>2. \A l \in Lists, n \in Names :
            (HasGame(l, n))' /\ dirs[l][n].marked => dirs'[l][n].marked
      BY <2>2, MarksEffect DEF OnlyDir
    <3>3. QED BY <2>1, <3>1, <3>2, DeletedKept
  <2>3. QED BY <1>1, <1>9, <2>1, <2>2, DeleteMarkEffect DEF DeleteValid, HasGame
<1>10. CASE DeleteRows
  <2>1. /\ UNCHANGED dirs /\ op.pc = "delRows" /\ op.list \in Lists /\ op.name \in Names
        /\ rows' \in {rows, WithoutRow}
        /\ deleted' = deleted \/ (deleted' = deleted \cup {op.game} /\ rows' = WithoutRow)
    BY <1>10, DeleteRowsFrame, DeleteRowsEffect, InvShapes
  <2>2. /\ HasGame(op.list, op.name) /\ dirs[op.list][op.name].game = op.game
        /\ dirs[op.list][op.name].marked
    BY <2>1 DEF InductiveInv, DeleteInv, DeletePcs
  <2>3. /\ \A l \in Lists, n \in Names : n \in rows'[l] => n \in rows[l]
        /\ rows' = WithoutRow => op.name \notin rows'[op.list]
    BY <2>1, OnTheDisk DEF WithoutRow
  <2>4. ASSUME NEW l \in Lists, NEW n \in Names, HasGame(l, n), dirs[l][n].game = op.game
        PROVE  l = op.list /\ n = op.name
    BY <2>1, <2>2, <2>4, OnTheDisk
  <2>5. QED BY <2>1, <2>2, <2>3, <2>4, OnTheDisk, DeletedHold DEF HasGame, Exists
<1>11. CASE DeleteUndo
  <2>1. /\ op.pc = "delUndo" /\ deleted' = deleted /\ op.list \in Lists /\ op.name \in Names
        /\ rows' \in {rows, op.before}
        /\ UNCHANGED dirs \/ Marks(op.list, op.name, FALSE)
    BY <1>11, DeleteUndoFrame, DeleteUndoEffect, InvShapes
  <2>2. /\ HasGame(op.list, op.name) /\ dirs[op.list][op.name].game \notin deleted
        /\ rows \in {op.before, [op.before EXCEPT ![op.list] = @ \ {op.name}]}
        /\ op.before \in [Lists -> SUBSET Names]
    BY <2>1, InvShapes DEF InductiveInv, DeleteInv, DeletePcs, Ops
  <2>3. \A l \in Lists, n \in Names : n \in rows'[l] =>
          n \in rows[l] \/ (l = op.list /\ n = op.name)
    BY <2>1, <2>2
  <2>4. SameGames /\ OnlyDir(op.list, op.name)
    BY <2>1, <2>2, SameDirs, SameMarks, MarksEffect DEF HasGame, OnlyDir
  <2>5. QED BY <2>1, <2>2, <2>3, <2>4, DeletedKept DEF OnlyDir
<1>12. CASE DeleteDir
  <2>1. Remains /\ \A l \in Lists, n \in Names : (HasGame(l, n))' => dirs'[l][n] = dirs[l][n]
    BY <1>12, DeleteDirEffect DEF Remains, OnlyDir, HasGame, Exists
  <2>2. QED BY <1>12, <2>1, DeleteDirFrame, DeletedKept
<1>13. CASE MoveDest \/ MoveSource \/ UndoDest \/ UndoSource
  <2>1. /\ op.pc \in MovePcs /\ UNCHANGED <<dirs, deleted>>
    BY <1>13, MoveDestFrame, MoveDestEffect, MoveSourceFrame, MoveSourceEffect,
       UndoDestFrame, UndoDestEffect, UndoSourceFrame, UndoSourceEffect DEF MovePcs
  <2>2. /\ op.list \in Lists /\ Dest \in Lists /\ Dest # op.list
        /\ op.name \in Names /\ op.as \in Names
    BY <2>1, MoveLists
  <2>3. ASSUME NEW l \in Lists, NEW n \in Names, dirs[l][n].game \in deleted, n \in rows'[l]
        PROVE  n \in rows[l]
    <3>1. CASE MoveDest
      <4>1. l # Dest \/ n # op.as BY <2>3, <3>1, MoveDestEffect, NotDeletedHere
      <4>2. QED BY <2>2, <2>3, <3>1, <4>1, MoveDestEffect, OnTheDisk
    <3>2. CASE MoveSource
      <4>1. rows' \in {rows, WithoutRow} BY <3>2, MoveSourceEffect
      <4>2. QED BY <2>2, <2>3, <4>1, OnTheDisk DEF WithoutRow
    <3>3. CASE UndoDest
      <4>1. op.before[Dest] \subseteq rows[Dest] BY <2>1 DEF InductiveInv, MoveInv
      <4>2. QED BY <2>2, <2>3, <3>3, <4>1, UndoDestEffect, OnTheDisk
    <3>4. CASE UndoSource
      <4>1. l # op.list \/ n # op.name BY <2>3, <3>4, UndoSourceEffect, NotDeletedHere
      <4>2. op.before[op.list] \subseteq rows[op.list] \cup {op.name}
        BY <2>1 DEF InductiveInv, MoveInv
      <4>3. QED BY <2>2, <2>3, <3>4, <4>1, <4>2, UndoSourceEffect, OnTheDisk
    <3>5. QED BY <1>13, <3>1, <3>2, <3>3, <3>4
  <2>4. QED BY <2>1, <2>3, DeletedKept
<1>14. CASE MoveRename \/ UndoDir
  <2>1. UNCHANGED <<rows, deleted>> BY <1>14, MoveGames
  <2>2. ASSUME NEW l, NEW n, NEW k, NEW m, Relocated(l, n, k, m) PROVE DiskDeleted'
    <3>1. \A i \in Lists, j \in Names : (HasGame(i, j))' =>
            \/ dirs'[i][j].game \notin deleted
            \/ HasGame(i, j) /\ dirs'[i][j] = dirs[i][j]
      BY <2>2, RelocatedGames DEF Relocated
    <3>2. QED BY <2>1, <3>1, OnTheDisk, DeletedHold
  <2>3. QED BY <1>1, <1>14, <2>1, <2>2, MoveGames
<1>15. QED
  BY <1>2, <1>3, <1>5, <1>6, <1>7, <1>8, <1>9, <1>10, <1>11, <1>12, <1>13, <1>14,
     StepCases

\* The games on disk stay where they are, with their ROMs.
Standing ==
  \A l \in Lists, n \in Names : HasGame(l, n) =>
    /\ dirs'[l][n] # NoDir /\ dirs'[l][n].game = dirs[l][n].game
    /\ dirs'[l][n].rom = dirs[l][n].rom

\* What is on disk stays there while the games stand.
LEMMA StandingOnDisk ==
  ASSUME Standing, NEW l \in Lists, NEW e \in Entry, OnDisk(l, e)
  PROVE  (OnDisk(l, e))'
BY DEF Standing, OnDisk, Matches, HasGame, Exists, Entry

\* The games stand while no directory's game or ROM changes.
LEMMA SameStanding ==
  ASSUME \/ UNCHANGED dirs
         \/ SameGames /\ SameRoms
         \/ \A l \in Lists, n \in Names : HasGame(l, n) => dirs'[l][n] = dirs[l][n]
  PROVE  Standing
BY DEF SameGames, SameRoms, Standing, HasGame, Exists

\* The entry of a new game.
LEMMA CreatedEntry ==
  ASSUME InductiveInv, creating.pc # "none"
  PROVE  /\ Created \in Entry /\ Created.name = creating.name /\ Created.rom = NoRom
         /\ Created.game = creating.game /\ creating.name \in Names /\ creating.list = shown
BY DEF InductiveInv, PhaseInv, Created, Entry

\* An answer is a set of entries.
LEMMA ResultEntries ==
  ASSUME InductiveInv, op.pc = "answer"
  PROVE  \A l \in Lists : op.result[l] \subseteq Entry /\ OneEach(op.result[l])
                          /\ \A e \in op.result[l] : e \in Entry /\ OnDisk(l, e)
<1>1. op.result \in [Lists -> SUBSET Entry] BY InvShapes DEF Ops
<1>2. QED BY <1>1 DEF InductiveInv, DiskInv, DiskAnswers

\* The reply of "add game" stands beside a step.
ReplyKept ==
  creating'.pc = "reply" /\ ~creating'.detached =>
    creating' = creating /\ shown' = shown /\ (OnDisk(shown, Created))'

\* What makes the answer an operation holds stand after a step.
LEMMA AnswersHold ==
  ASSUME InductiveInv, ReplyKept, op'.pc = "answer" => op' = op /\ Standing
  PROVE  DiskAnswers'
<1>1. ASSUME op'.pc = "answer", NEW l \in Lists
      PROVE  OneEach(op'.result[l]) /\ \A e \in op'.result[l] : (OnDisk(l, e))'
  BY <1>1, ResultEntries, StandingOnDisk
<1>2. QED BY <1>1 DEF ReplyKept, DiskAnswers, OneEach

\* The same when the operation goes on.
LEMMA AnswersKept ==
  ASSUME InductiveInv, Standing, op'.pc = "answer" => op' = op,
         creating'.pc = "reply" /\ ~creating'.detached => creating' = creating /\ shown' = shown
  PROVE  ReplyKept /\ DiskAnswers'
<1>1. ReplyKept
  <2>1. SUFFICES ASSUME creating'.pc = "reply", ~creating'.detached PROVE ReplyKept
    BY DEF ReplyKept
  <2>2. creating' = creating /\ shown' = shown /\ Created' = Created BY <2>1 DEF Created
  <2>3. OnDisk(shown, Created) BY <2>1, <2>2 DEF InductiveInv, DiskInv, DiskAnswers
  <2>4. (OnDisk(shown, Created))'
    BY <2>1, <2>2, <2>3, CreatedEntry, InvShapes, StandingOnDisk
       DEF OnDisk, Matches, HasGame, Exists
  <2>5. QED BY <2>2, <2>4 DEF ReplyKept
<1>2. QED BY <1>1, AnswersHold

\* A reply's directory stays when another one of the shown list is written.
LEMMA ReplyElsewhere ==
  ASSUME InductiveInv, UNCHANGED <<creating, shown>>,
         creating.pc = "reply" /\ ~creating.detached =>
           \/ dirs'[shown][creating.name] = dirs[shown][creating.name]
           \/ /\ dirs'[shown][creating.name] # NoDir
              /\ dirs'[shown][creating.name].game = dirs[shown][creating.name].game
              /\ dirs'[shown][creating.name].rom = dirs[shown][creating.name].rom
  PROVE  ReplyKept
<1>1. SUFFICES ASSUME creating.pc = "reply", ~creating.detached PROVE (OnDisk(shown, Created))'
  BY DEF ReplyKept
<1>2. OnDisk(shown, Created) /\ Created.name = creating.name /\ Created' = Created
  BY <1>1, CreatedEntry DEF InductiveInv, DiskInv, DiskAnswers, Created
<1>3. QED BY <1>1, <1>2 DEF OnDisk, Matches, HasGame, Exists

\* The operation's directory is not that of the game being added.
LEMMA NotTheNewOne ==
  ASSUME InductiveInv, op.pc # "none", creating.pc # "none", ~creating.detached
  PROVE  op.name # creating.name
<1>1. ViewOp /\ ViewNew BY DEF InductiveInv, ViewInv
<1>2. QED BY <1>1 DEF ViewOp, ViewNew

\* A save never writes over the game being added.
LEMMA WrittenStanding ==
  ASSUME InductiveInv, writing, NEW e \in left, MayWrite(Current.list, e),
         PutGame(Current.list, e), UNCHANGED <<creating, shown>>,
         op'.pc = "answer" => op' = op
  PROVE  DiskAnswers'
<1>1. /\ Rewrites(e) /\ SameGames /\ (Calm => SameRoms) /\ e \in Entry
      /\ e \in Current.games /\ saves # <<>>
  BY SavePutEffect, SameRewrites, SavePut
<1>2. CASE Calm BY <1>1, <1>2, SameStanding, AnswersKept
<1>3. CASE ~Calm
  <2>1. creating.pc # "none" /\ ~creating.detached => e.name # creating.name
    <3>1. EntryFine(e) BY <1>1, HeadOfQueue, Queued
    <3>2. QED BY <3>1 DEF EntryFine
  <2>2. creating.pc = "reply" /\ ~creating.detached =>
          /\ dirs'[shown][creating.name] # NoDir
          /\ dirs'[shown][creating.name].game = dirs[shown][creating.name].game
          /\ dirs'[shown][creating.name].rom = dirs[shown][creating.name].rom
    <3>1. SUFFICES ASSUME creating.pc = "reply", ~creating.detached
          PROVE  /\ dirs'[shown][creating.name] # NoDir
                 /\ dirs'[shown][creating.name].game = dirs[shown][creating.name].game
                 /\ dirs'[shown][creating.name].rom = dirs[shown][creating.name].rom
      OBVIOUS
    <3>2. /\ creating.name \in Names /\ shown \in Lists /\ OnDisk(shown, Created)
          /\ Created.name = creating.name
      BY <3>1, CreatedEntry, InvShapes DEF InductiveInv, DiskInv, DiskAnswers
    <3>3. dirs[shown][creating.name] # NoDir
      BY <3>2 DEF OnDisk, Matches, HasGame, Exists
    <3>4. dirs'[shown][creating.name] # NoDir BY <1>1, <3>2, <3>3 DEF Rewrites
    <3>5. QED BY <1>1, <2>1, <3>1, <3>2, <3>4 DEF Rewrites
  <2>3. op'.pc # "answer" BY <1>3 DEF Calm
  <2>4. QED BY <2>2, <2>3, ReplyElsewhere, AnswersHold
<1>4. QED BY <1>2, <1>3

\* Steps that leave every game standing and give no answer.
LEMMA StandingSteps ==
  ASSUME InductiveInv,
         \/ Still \/ SaveRows(TRUE) \/ SaveRows(FALSE)
         \/ (\E n \in Names, g \in Games : AddGame(n, g))
         \/ CreateDir \/ DeleteMark \/ DeleteRows \/ DeleteUndo \/ ReadReferences
         \/ MoveCheck \/ MoveDest \/ UndoDest \/ UndoSource \/ Crash
  PROVE  /\ Standing /\ (op'.pc = "answer" => op' = op)
         /\ creating'.pc = "reply" /\ ~creating'.detached => creating' = creating /\ shown' = shown
<1> USE SameStanding
<1>1. CASE Still BY <1>1 DEF Still
<1>2. CASE SaveRows(TRUE) \/ SaveRows(FALSE)
  <2>1. saves # <<>> /\ (EndSave(TRUE) \/ EndSave(FALSE)) /\ UNCHANGED dirs
    BY <1>2 DEF SaveRows, InductiveInv, WriteInv
  <2>2. op' = op \/ op'.pc # "answer" BY <2>1, EndSaveOk, EndSaveFails DEF OpMoves, OpEnds
  <2>3. UNCHANGED <<creating, shown>> BY <2>1, EndSaveOk, EndSaveFails
  <2>4. QED BY <2>1, <2>2, <2>3
<1>3. CASE \E n \in Names, g \in Games : AddGame(n, g) BY <1>3 DEF AddGame, disk
<1>4. CASE CreateDir
  <2>1. creating'.pc # "reply" BY <1>4, CreateDirEffect, Idle
  <2>2. QED BY <1>4, <2>1, CreateDirGames DEF CreateDir, HasGame
<1>5. CASE DeleteMark \/ DeleteUndo
  <2>1. SameGames /\ SameRoms BY <1>5, RomSteps
  <2>2. op'.pc # "answer" BY <1>5, DeleteMarkEffect, DeleteUndoEffect DEF OpEnds
  <2>3. UNCHANGED <<creating, shown>> BY <1>5, DeleteMarkFrame, DeleteUndoFrame
  <2>4. QED BY <2>1, <2>2, <2>3
<1>6. CASE DeleteRows
  BY <1>6, DeleteRowsFrame, DeleteRowsEffect DEF OpMoves, OpDirs
<1>7. CASE ReadReferences
  BY <1>7, ReadReferencesFrame, ReadReferencesEffect DEF OpMoves
<1>8. CASE MoveCheck BY <1>8, MoveCheckFrame, MoveCheckEffect DEF OpEnds
<1>9. CASE MoveDest BY <1>9, MoveDestFrame, MoveDestEffect DEF OpDirs, OpMoves
<1>10. CASE UndoDest BY <1>10, UndoDestFrame, UndoDestEffect DEF OpDirs, OpMoves
<1>11. CASE UndoSource BY <1>11, UndoSourceFrame, UndoSourceEffect DEF OpEnds
<1>12. CASE Crash BY <1>12, Idle DEF Crash, disk
<1>13. QED
  BY <1>1, <1>2, <1>3, <1>4, <1>5, <1>6, <1>7, <1>8, <1>9, <1>10, <1>11, <1>12

\* What an operation reads for its answer is on disk.
LEMMA AnswerRead ==
  ASSUME InductiveInv, UNCHANGED <<dirs, creating, shown>>,
         \/ op'.pc # "answer"
         \/ op'.result = Loaded
         \/ op'.result = [l \in Lists |-> MoveResult(l)]
  PROVE  DiskAnswers'
<1>1. ReplyKept BY ReplyElsewhere
<1>2. ASSUME op'.pc = "answer", NEW l \in Lists
      PROVE  OneEach(op'.result[l]) /\ \A e \in op'.result[l] : OnDisk(l, e)
  <2>1. CASE op'.result = Loaded
    <3>1. op'.result[l] = Load(l) BY <2>1 DEF Loaded
    <3>2. QED BY <3>1, LoadOnDisk
  <2>2. CASE op'.result = [k \in Lists |-> MoveResult(k)]
    <3>1. op'.result[l] = MoveResult(l) BY <2>2
    <3>2. ASSUME NEW e \in MoveResult(l)
          PROVE  /\ HasGame(l, e.name) /\ e.name \in Names
                 /\ e = [name |-> e.name, game |-> dirs[l][e.name].game,
                      rom |-> dirs[l][e.name].rom]
      BY OnTheDisk DEF MoveResult
    <3>3. OneEach(MoveResult(l)) BY <3>2 DEF OneEach
    <3>4. \A e \in MoveResult(l) : OnDisk(l, e) BY <3>2 DEF OnDisk, Matches
    <3>5. QED BY <3>1, <3>3, <3>4
  <2>3. QED BY <1>2, <2>1, <2>2
<1>3. QED BY <1>1, <1>2 DEF DiskAnswers, ReplyKept, OneEach, OnDisk, Matches, HasGame, Exists

\* The window is about to show what is on disk.
LEMMA DiskAnswersStep ==
  ASSUME InductiveInv, Patient, OneFault, Next
  PROVE  DiskAnswers'
<1>1. CASE \/ Still \/ SaveRows(TRUE) \/ SaveRows(FALSE)
           \/ (\E n \in Names, g \in Games : AddGame(n, g))
           \/ CreateDir \/ DeleteMark \/ DeleteRows \/ DeleteUndo \/ ReadReferences
           \/ MoveCheck \/ MoveDest \/ UndoDest \/ UndoSource \/ Crash
  BY <1>1, StandingSteps, AnswersKept
<1>2. ASSUME NEW e \in left, SaveGame(e) PROVE DiskAnswers'
  BY <1>2, WrittenStanding DEF SaveGame, window
<1>3. ASSUME NEW e \in left, SaveGameFails(e) PROVE DiskAnswers'
  <2>1. saves # <<>> /\ EndSave(FALSE) /\ writing
    BY <1>3 DEF SaveGameFails, InductiveInv, WriteInv
  <2>2. (op'.pc = "answer" => op' = op) /\ UNCHANGED <<creating, shown>>
    BY <2>1, EndSaveFails DEF OpEnds
  <2>3. CASE UNCHANGED dirs BY <2>2, <2>3, SameStanding, AnswersKept
  <2>4. CASE MayWrite(Current.list, e) /\ PutGame(Current.list, e)
    BY <2>1, <2>2, <2>4, WrittenStanding
  <2>5. QED BY <1>3, <2>3, <2>4 DEF SaveGameFails
<1>4. CASE CreateJson \/ CreateFails
  <2>1. UNCHANGED <<op, shown>> /\ (Placed \/ UNCHANGED dirs) /\ creating.pc = "json"
    BY <1>4, CreateGames
  <2>2. Standing
    <3>1. CASE Placed
      <4>1. \A l \in Lists, n \in Names : HasGame(l, n) => dirs'[l][n] = dirs[l][n]
        BY <3>1 DEF Placed, OnlyDir, Empty
      <4>2. QED BY <4>1, SameStanding
    <3>2. QED BY <2>1, <3>1, SameStanding
  <2>3. CASE creating' = NoCreate BY <2>1, <2>2, <2>3, Idle, AnswersKept
  <2>4. CASE Placed /\ creating' = [creating EXCEPT !.pc = "reply"]
    <3>1. /\ creating'.pc = "reply" /\ creating'.name = creating.name
          /\ creating'.game = creating.game
      BY <2>4, InvShapes DEF Creations
    <3>2. Created' = Created BY <3>1 DEF Created
    <3>3. /\ Created.name = creating.name /\ Created.rom = NoRom
          /\ Created.game = creating.game /\ creating.game # NoGame
      BY <2>1, CreatedEntry, DistinctAssumption DEF Entry
    <3>4. (OnDisk(shown, Created))'
      BY <2>1, <2>4, <3>2, <3>3 DEF Placed, OnDisk, Matches, HasGame, Exists
    <3>5. ASSUME op'.pc = "answer", NEW l \in Lists
          PROVE  OneEach(op'.result[l]) /\ \A e \in op'.result[l] : (OnDisk(l, e))'
      BY <2>1, <2>2, <3>5, ResultEntries, StandingOnDisk
    <3>6. QED BY <3>4, <3>5 DEF DiskAnswers, OneEach
  <2>5. QED BY <1>4, <2>3, <2>4, CreateGames
<1>5. CASE DeleteDir
  <2>1. /\ op.pc = "delDir" /\ op.list = shown /\ UNCHANGED <<creating, shown>>
        /\ op'.pc # "answer"
        /\ UNCHANGED dirs \/ OnlyDir(op.list, op.name)
    BY <1>5, DeleteDirEffect, DeleteDirFrame DEF OpMoves
  <2>2. creating.pc = "reply" /\ ~creating.detached =>
          dirs'[shown][creating.name] = dirs[shown][creating.name]
    BY <2>1, NotTheNewOne, CreatedEntry, InvShapes DEF OnlyDir
  <2>3. QED BY <2>1, <2>2, ReplyElsewhere, AnswersHold
<1>6. CASE Purge \/ WriteQueue
  <2>1. UNCHANGED <<dirs, creating, shown>> BY <1>6, PurgeFrame, WriteQueueFrame
  <2>2. op'.pc # "answer" \/ op'.result = Loaded
    BY <1>6, PurgeEffect, WriteQueueEffect DEF OpMoves, OpEnds
  <2>3. QED BY <2>1, <2>2, AnswerRead
<1>7. CASE MoveSource
  <2>1. UNCHANGED <<dirs, creating, shown>> BY <1>7, MoveSourceFrame
  <2>2. op'.pc # "answer" \/ op'.result = [l \in Lists |-> MoveResult(l)]
    BY <1>7, MoveSourceEffect DEF OpMoves, OpDirs
  <2>3. QED BY <2>1, <2>2, AnswerRead
<1>8. CASE MoveRename \/ UndoDir
  <2>1. /\ UNCHANGED <<creating, shown>> /\ op.pc # "none" /\ op'.pc # "answer"
        /\ op.list = shown /\ Dest # shown
    BY <1>8, MoveGames DEF OpEnds, OpDirs, OpMoves
  <2>2. creating.pc = "reply" /\ ~creating.detached =>
          dirs'[shown][creating.name] = dirs[shown][creating.name]
    <3>1. SUFFICES ASSUME creating.pc = "reply", ~creating.detached
          PROVE  dirs'[shown][creating.name] = dirs[shown][creating.name]
      OBVIOUS
    <3>2. op.name # creating.name /\ creating.name \in Names /\ shown \in Lists
      BY <2>1, <3>1, NotTheNewOne, CreatedEntry, InvShapes
    <3>3. QED BY <1>8, <2>1, <3>2, MoveGames DEF Relocated
  <2>3. QED BY <2>1, <2>2, ReplyElsewhere, AnswersHold
<1>9. QED BY <1>1, <1>2, <1>3, <1>4, <1>5, <1>6, <1>7, <1>8, StepCases

-----------------------------------------------------------------------------
(* The deletion, the move and the rows. *)

\* A save being written locks deletions and moves out.
LEMMA WrittenOutside ==
  ASSUME InductiveInv,
         \/ \E e \in left : SaveGame(e) \/ SaveGameFails(e)
         \/ SaveRows(TRUE) \/ SaveRows(FALSE)
  PROVE  /\ op.pc \notin DeletePcs \cup MovePcs
         /\ op'.pc \notin DeletePcs \cup MovePcs
         /\ deleted' = deleted /\ torn' = torn
<1>1. writing /\ op.pc \notin DeletePcs \cup MovePcs
  BY DEF InductiveInv, WriteInv, SaveGame, SaveGameFails, SaveRows
<1>2. CASE \E e \in left : SaveGame(e) BY <1>1, <1>2 DEF SaveGame, history
<1>3. CASE (\E e \in left : SaveGameFails(e)) \/ SaveRows(TRUE) \/ SaveRows(FALSE)
  <2>1. saves # <<>> /\ (EndSave(TRUE) \/ EndSave(FALSE))
    BY <1>1, <1>3 DEF SaveGameFails, SaveRows, InductiveInv, WriteInv
  <2>2. op' = op \/ op'.pc \in {"none", "run", "replace"}
    BY <2>1, EndSaveOk, EndSaveFails DEF OpMoves, OpEnds
  <2>3. deleted' = deleted /\ torn' = torn BY <2>1, EndSaveOk, EndSaveFails
  <2>4. QED BY <1>1, <2>2, <2>3 DEF DeletePcs, MovePcs
<1>4. QED BY <1>2, <1>3

\* The steps of a cleanup or an answer are outside both, too.
LEMMA OutsideSteps ==
  ASSUME InductiveInv, ReadReferences \/ Purge \/ WriteQueue \/ Crash
  PROVE  op'.pc \notin DeletePcs \cup MovePcs
<1>1. CASE ReadReferences BY <1>1, ReadReferencesEffect DEF OpMoves, DeletePcs, MovePcs
<1>2. CASE Purge BY <1>2, PurgeEffect DEF OpMoves, OpEnds, DeletePcs, MovePcs
<1>3. CASE WriteQueue BY <1>3, WriteQueueEffect DEF OpMoves, OpEnds, DeletePcs, MovePcs
<1>4. CASE Crash BY <1>4, Idle DEF Crash, DeletePcs, MovePcs
<1>5. QED BY <1>1, <1>2, <1>3, <1>4

\* The games added while an operation holds the mutex are still without metadata.
LEMMA CreateOutside ==
  ASSUME InductiveInv, CreateJson \/ CreateFails
  PROVE  op' = op /\ op.pc \notin DeletePcs \cup MovePcs
BY CreateGames DEF Locked

\* A deletion takes the row before the directory.
LEMMA DeleteInvStep ==
  ASSUME InductiveInv, Patient, OneFault, Next
  PROVE  DeleteInv'
<1>1. CASE op'.pc \notin DeletePcs BY <1>1 DEF DeleteInv
<1>2. CASE Still
  <2>1. CASE op' = op BY <1>2, <2>1 DEF Still, InductiveInv, DeleteInv, HasGame, Exists
  <2>2. CASE op' # op BY <1>1, <1>2, <2>2 DEF Still
  <2>3. QED BY <2>1, <2>2
<1>3. ASSUME NEW n \in Names, NEW g \in Games, AddGame(n, g) PROVE DeleteInv'
  BY <1>1, <1>3 DEF AddGame, MayLeave, UserActs, DeletePcs
<1>4. CASE \/ \E e \in left : SaveGame(e) \/ SaveGameFails(e)
           \/ SaveRows(TRUE) \/ SaveRows(FALSE)
           \/ CreateJson \/ CreateFails \/ ReadReferences \/ Purge \/ WriteQueue \/ Crash
  BY <1>1, <1>4, WrittenOutside, OutsideSteps, CreateOutside
<1>5. CASE CreateDir
  <2>1. UNCHANGED <<op, rows, deleted>> BY <1>5 DEF CreateDir, history
  <2>2. op.pc \in DeletePcs => op.list \in Lists /\ op.name \in Names
    BY InvShapes DEF InductiveInv, PhaseInv, DeletePcs
  <2>3. op.pc \in DeletePcs /\ HasGame(op.list, op.name) =>
          dirs'[op.list][op.name] = dirs[op.list][op.name]
    BY <1>5, <2>2, CreateDirGames DEF HasGame
  <2>4. QED BY <2>1, <2>3 DEF InductiveInv, DeleteInv, HasGame, Exists
<1>6. CASE DeleteMark
  <2>1. CASE op'.pc = "none" BY <1>1, <2>1 DEF DeletePcs
  <2>2. CASE /\ DeleteValid /\ Marks(op.list, op.name, TRUE)
             /\ op'.pc = "delRows" /\ OpKept /\ op'.before = rows
             /\ op'.game = dirs[op.list][op.name].game
    <3>1. op.list \in Lists /\ op.name \in Names /\ op.name \in rows[op.list]
          /\ HasGame(op.list, op.name) /\ rows' = rows /\ deleted' = deleted
      BY <1>6, <2>2, DeleteMarkEffect, DeleteMarkFrame, InvShapes DEF DeleteValid
    <3>2. op'.game \notin deleted BY <2>2, <3>1, OnTheDisk
    <3>3. /\ dirs'[op.list][op.name] # NoDir /\ dirs'[op.list][op.name].marked = TRUE
          /\ dirs'[op.list][op.name].game = dirs[op.list][op.name].game
      BY <2>2, <3>1, MarksEffect DEF HasGame
    <3>4. QED BY <2>2, <3>1, <3>2, <3>3 DEF DeleteInv, OpKept, HasGame, Exists
  <2>3. QED BY <1>6, <2>1, <2>2, DeleteMarkEffect DEF OpEnds
<1>7. CASE DeleteRows
  <2>1. /\ op.pc = "delRows" /\ dirs' = dirs /\ op'.list = op.list /\ op'.name = op.name
        /\ op'.game = op.game /\ op.list \in Lists
    BY <1>7, DeleteRowsEffect, DeleteRowsFrame, InvShapes DEF OpDirs, OpMoves, OpKept
  <2>2. /\ HasGame(op.list, op.name) /\ dirs[op.list][op.name].game = op.game
        /\ op.game \notin deleted /\ dirs[op.list][op.name].marked
        /\ rows \in {op.before, [op.before EXCEPT ![op.list] = @ \ {op.name}]}
        /\ op.before \in [Lists -> SUBSET Names]
    BY <2>1, InvShapes DEF InductiveInv, DeleteInv, DeletePcs, Ops
  <2>3. CASE op'.pc = "delDir" /\ deleted' = deleted \cup {op.game}
    BY <2>1, <2>2, <2>3 DEF DeleteInv, HasGame, Exists
  <2>4. CASE rows' \in {rows, WithoutRow} /\ deleted' = deleted /\ OpDirs("delUndo")
    <3>1. WithoutRow \in {op.before, [op.before EXCEPT ![op.list] = @ \ {op.name}]}
      BY <2>1, <2>2 DEF WithoutRow
    <3>2. QED BY <2>1, <2>2, <2>4, <3>1 DEF DeleteInv, OpDirs, OpMoves, HasGame, Exists
  <2>5. QED BY <1>7, <2>3, <2>4, DeleteRowsEffect DEF OpMoves
<1>8. CASE DeleteUndo \/ DeleteDir
  BY <1>1, <1>8, DeleteUndoEffect, DeleteDirEffect DEF OpEnds, OpMoves, DeletePcs
<1>9. CASE MoveCheck BY <1>1, <1>9, MoveCheckEffect DEF OpEnds, DeletePcs
<1>10. CASE MoveRename \/ UndoDir
  BY <1>1, <1>10, MoveGames DEF OpEnds, OpDirs, OpMoves, DeletePcs
<1>11. CASE MoveDest \/ MoveSource
  BY <1>1, <1>11, MoveDestEffect, MoveSourceEffect DEF OpDirs, OpMoves, DeletePcs
<1>12. CASE UndoDest \/ UndoSource
  BY <1>1, <1>12, UndoDestEffect, UndoSourceEffect DEF OpEnds, OpDirs, OpMoves, DeletePcs
<1>13. QED
  BY <1>2, <1>3, <1>4, <1>5, <1>6, <1>7, <1>8, <1>9, <1>10, <1>11, <1>12, StepCases

\* What is known of a move under way.
LEMMA MoveFacts ==
  ASSUME InductiveInv, op.pc \in MovePcs
  PROVE  /\ op.list = shown /\ op.list \in Lists /\ Dest \in Lists /\ Dest # op.list
         /\ op.name \in Names /\ op.as \in Names /\ \A l \in Lists : l = op.list \/ l = Dest
         /\ op.before \in [Lists -> SUBSET Names] /\ rows \in [Lists -> SUBSET Names]
         /\ op.name \in op.before[op.list] /\ op.as \notin op.before[Dest]
         /\ op.pc \in {"mvRename", "undoDest", "undoSource"} =>
              /\ HasGame(op.list, op.name) /\ dirs[op.list][op.name].game = op.game
              /\ ~Exists(Dest, op.as)
         /\ op.pc \in {"mvDest", "mvSource", "undoDir"} =>
              /\ HasGame(Dest, op.as) /\ dirs[Dest][op.as].game = op.game
              /\ ~HasGame(op.list, op.name)
         /\ op.game \notin deleted
         /\ rows[op.list] \in {op.before[op.list], op.before[op.list] \ {op.name}}
         /\ rows[Dest] \in {op.before[Dest], op.before[Dest] \cup {op.as}}
         /\ op.pc \in {"mvRename", "mvDest", "mvSource"} => rows[op.list] = op.before[op.list]
         /\ op.pc \in {"mvRename", "mvDest"} => rows[Dest] = op.before[Dest]
         /\ op.pc = "undoSource" /\ ~torn => rows[Dest] = op.before[Dest]
<1>1. MoveInv /\ op.before \in [Lists -> SUBSET Names] /\ rows \in [Lists -> SUBSET Names]
  BY InvShapes DEF InductiveInv, Ops, DiskShape
<1>2. QED BY <1>1, MoveLists DEF MoveInv

\* A move goes on: its names and its list are those it had.
MoveOn == /\ op'.list = op.list /\ op'.name = op.name /\ op'.as = op.as
          /\ op'.game = op.game /\ op'.before = op.before /\ deleted' = deleted

\* A move in progress after a step that leaves its directories alone.
LEMMA MoveDirsOn ==
  ASSUME NEW p, OpDirs(p), deleted' = deleted
  PROVE  MoveOn /\ op'.pc = p /\ Dest' = Dest
BY DEF OpDirs, OpMoves, OpKept, MoveOn, Dest

\* A move has its directory in one place, and its lists follow.
LEMMA MoveInvStep ==
  ASSUME InductiveInv, Patient, OneFault, Next
  PROVE  MoveInv'
<1>1. CASE op'.pc \notin MovePcs BY <1>1 DEF MoveInv
<1>2. CASE Still
  <2>1. CASE op' = op
    BY <1>2, <2>1 DEF Still, InductiveInv, MoveInv, HasGame, Exists, Dest
  <2>2. CASE op' # op BY <1>1, <1>2, <2>2 DEF Still
  <2>3. QED BY <2>1, <2>2
<1>3. ASSUME NEW n \in Names, NEW g \in Games, AddGame(n, g) PROVE MoveInv'
  BY <1>1, <1>3 DEF AddGame, MayLeave, UserActs, MovePcs
<1>4. CASE \/ \E e \in left : SaveGame(e) \/ SaveGameFails(e)
           \/ SaveRows(TRUE) \/ SaveRows(FALSE)
           \/ CreateJson \/ CreateFails \/ ReadReferences \/ Purge \/ WriteQueue \/ Crash
  BY <1>1, <1>4, WrittenOutside, OutsideSteps, CreateOutside
<1>5. CASE DeleteMark BY <1>1, <1>5, DeleteMarkEffect DEF OpEnds, MovePcs
<1>6. CASE DeleteRows \/ DeleteUndo \/ DeleteDir
  BY <1>1, <1>6, DeleteRowsEffect, DeleteUndoEffect, DeleteDirEffect
     DEF OpEnds, OpDirs, OpMoves, MovePcs
<1>7. CASE CreateDir /\ op.pc \in MovePcs
  <2>1. UNCHANGED <<op, rows, deleted, torn>> BY <1>7 DEF CreateDir, history
  <2>2. \A n \in Names : dirs'[Dest][n] = dirs[Dest][n]
    BY <1>7, MoveFacts, CreateDirEffect DEF OnlyDir
  <2>3. HasGame(op.list, op.name) <=> (HasGame(op.list, op.name))'
    BY <1>7, <2>1, MoveFacts, CreateDirGames DEF Remains, HasGame, Exists
  <2>4. HasGame(op.list, op.name) => dirs'[op.list][op.name] = dirs[op.list][op.name]
    BY <1>7, MoveFacts, CreateDirGames DEF HasGame
  <2>5. Dest' = Dest BY <2>1 DEF Dest
  <2>6. QED
    BY <1>7, <2>1, <2>2, <2>3, <2>4, <2>5, MoveFacts DEF MoveInv, HasGame, Exists
<1>8. CASE MoveCheck
  <2>1. CASE op'.pc = "none" BY <1>1, <2>1 DEF MovePcs
  <2>2. CASE op'.pc # "none"
    <3>1. /\ op.kind = "move" /\ op.pc = "run" /\ MoveValid /\ op'.as \in Names
          /\ ~Exists(Dest, op'.as) /\ op'.pc = "mvRename" /\ op'.before = rows
          /\ op'.list = op.list /\ op'.name = op.name /\ op'.game = op.game
          /\ op.list = shown
      BY <1>8, <2>2, MoveCheckEffect DEF OpEnds
    <3>2. UNCHANGED <<rows, dirs, deleted>> BY <1>8, MoveCheckFrame
    <3>3. op.list \in Lists /\ Dest \in Lists /\ Dest # op.list /\ op.name \in Names
      BY <3>1, MoveLists
    <3>4. /\ op.name \in rows[op.list] /\ HasGame(op.list, op.name)
          /\ \A n \in rows[Dest] : Exists(Dest, n)
      BY <3>1, <3>3 DEF MoveValid, RowsExist, Lists
    <3>5. dirs[op.list][op.name].game = op.game
      <4>1. PICK e \in view[shown] : e.name = op.name /\ e.game = op.game
        BY <3>1 DEF InductiveInv, ViewInv, ViewOp
      <4>2. ~Gone BY <3>1 DEF Gone
      <4>3. QED BY <3>1, <3>3, <4>1, <4>2, ShownMatch DEF Matches
    <3>6. op.game \notin deleted BY <3>3, <3>4, <3>5, OnTheDisk
    <3>7. Dest' = Dest /\ op'.as \notin rows[Dest] BY <3>1, <3>4 DEF Dest
    <3>8. QED
      BY <3>1, <3>2, <3>3, <3>4, <3>5, <3>6, <3>7 DEF MoveInv, HasGame, Exists
  <2>3. QED BY <2>1, <2>2
<1>9. CASE MoveRename \/ UndoDir
  <2>1. UNCHANGED <<rows, deleted, torn>> BY <1>9, MoveGames
  <2>2. CASE OpEnds BY <1>1, <2>2 DEF OpEnds, MovePcs
  <2>3. CASE /\ op.pc = "mvRename" /\ OpDirs("mvDest")
             /\ Relocated(op.list, op.name, Dest, op.as)
    <3>1. MoveOn /\ op'.pc = "mvDest" /\ Dest' = Dest BY <2>1, <2>3, MoveDirsOn
    <3>2. op.pc \in MovePcs BY <2>3 DEF MovePcs
    <3>3. (HasGame(op.list, op.name))' = FALSE /\ dirs'[Dest][op.as] = dirs[op.list][op.name]
      BY <2>3, <3>1 DEF Relocated, HasGame, Exists, MoveOn
    <3>4. QED
      BY <2>1, <2>3, <3>1, <3>2, <3>3, MoveFacts DEF MoveInv, MoveOn, HasGame, Exists
  <2>4. CASE /\ op.pc = "undoDir" /\ OpDirs("undoDest")
             /\ Relocated(Dest, op.as, op.list, op.name)
    <3>1. MoveOn /\ op'.pc = "undoDest" /\ Dest' = Dest BY <2>1, <2>4, MoveDirsOn
    <3>2. op.pc \in MovePcs BY <2>4 DEF MovePcs
    <3>3. dirs'[Dest][op.as] = NoDir /\ dirs'[op.list][op.name] = dirs[Dest][op.as]
      BY <2>4 DEF Relocated
    <3>4. QED
      BY <2>1, <2>4, <3>1, <3>2, <3>3, MoveFacts DEF MoveInv, MoveOn, HasGame, Exists
  <2>5. QED BY <1>9, <2>2, <2>3, <2>4, MoveGames
<1>10. CASE MoveDest
  <2>1. op.pc = "mvDest" /\ UNCHANGED <<dirs, deleted, torn>>
    BY <1>10, MoveDestEffect, MoveDestFrame
  <2>2. op.pc \in MovePcs BY <2>1 DEF MovePcs
  <2>3. /\ MoveOn /\ Dest' = Dest /\ op'.pc \in {"mvSource", "undoDir"}
        /\ rows' \in {rows, [rows EXCEPT ![Dest] = @ \cup {op.as}]}
    BY <1>10, <2>1, MoveDestEffect, MoveDirsOn
  <2>4. /\ rows'[op.list] = op.before[op.list]
        /\ rows'[Dest] \in {op.before[Dest], op.before[Dest] \cup {op.as}}
    BY <2>1, <2>2, <2>3, MoveFacts
  <2>5. QED BY <2>1, <2>2, <2>3, <2>4, MoveFacts DEF MoveInv, MoveOn, HasGame, Exists
<1>11. CASE MoveSource
  <2>1. op.pc = "mvSource" /\ UNCHANGED <<dirs, deleted, torn>>
    BY <1>11, MoveSourceEffect, MoveSourceFrame
  <2>2. op.pc \in MovePcs BY <2>1 DEF MovePcs
  <2>3. CASE OpMoves("answer") BY <1>1, <2>3 DEF OpMoves, MovePcs
  <2>4. CASE OpDirs("undoDir") /\ rows' \in {rows, WithoutRow}
    <3>1. MoveOn /\ Dest' = Dest /\ op'.pc = "undoDir" BY <2>1, <2>4, MoveDirsOn
    <3>2. /\ rows'[op.list] \in {op.before[op.list], op.before[op.list] \ {op.name}}
          /\ rows'[Dest] = rows[Dest]
      BY <2>1, <2>2, <2>4, MoveFacts DEF WithoutRow
    <3>3. QED BY <2>1, <2>2, <3>1, <3>2, MoveFacts DEF MoveInv, MoveOn, HasGame, Exists
  <2>5. QED BY <1>11, <2>3, <2>4, MoveSourceEffect
<1>12. CASE UndoDest
  <2>1. op.pc = "undoDest" /\ UNCHANGED <<dirs, deleted>> /\ op.pc \in MovePcs
    BY <1>12, UndoDestEffect, UndoDestFrame DEF MovePcs
  <2>2. MoveOn /\ Dest' = Dest /\ op'.pc = "undoSource"
    BY <1>12, <2>1, UndoDestEffect, MoveDirsOn
  <2>3. /\ rows'[op.list] = rows[op.list]
        /\ rows'[Dest] \in {op.before[Dest], op.before[Dest] \cup {op.as}}
        /\ ~torn' => rows'[Dest] = op.before[Dest]
    BY <1>12, <2>1, UndoDestEffect, MoveFacts
  <2>4. QED BY <2>1, <2>2, <2>3, MoveFacts DEF MoveInv, MoveOn, HasGame, Exists
<1>13. CASE UndoSource BY <1>1, <1>13, UndoSourceEffect DEF OpEnds, MovePcs
<1>14. CASE CreateDir BY <1>1, <1>7, <1>14 DEF CreateDir
<1>15. QED
  BY <1>2, <1>3, <1>4, <1>5, <1>6, <1>8, <1>9, <1>10, <1>11, <1>12, <1>13, <1>14,
     StepCases

\* The rows hold games after a step, and so do those before the operation.
LEMMA RowsHold ==
  ASSUME ~torn' /\ op'.pc \notin MovePcs =>
           \A l \in Lists : \A n \in rows'[l] : (HasGame(l, n))',
         ~torn' /\ op'.pc \in MovePcs \cup {"delRows", "delUndo"} =>
           \A l \in Lists : \A n \in op'.before[l] :
             (HasGame(l, n))' \/ (Gone' /\ l = op'.list /\ n = op'.name)
  PROVE  RowsInv'
BY DEF RowsInv, RowsHaveGames

\* The games and the rows stay, and the operation is not one that holds them.
LEMMA RowsKept ==
  ASSUME InductiveInv, \A l \in Lists, n \in Names : HasGame(l, n) => (HasGame(l, n))',
         \A l \in Lists : rows'[l] \subseteq rows[l], torn' = torn,
         \/ op' = op
         \/ /\ op.pc \notin MovePcs
            /\ op'.pc \notin MovePcs \cup {"delRows", "delUndo"}
  PROVE  RowsInv'
<1>1. rows \in [Lists -> SUBSET Names] /\ op.before \in [Lists -> SUBSET Names]
  BY InvShapes DEF DiskShape, Ops
<1>2. RowsInv BY DEF InductiveInv
<1>3. ASSUME ~torn', op'.pc \notin MovePcs, NEW l \in Lists, NEW n \in rows'[l]
      PROVE  (HasGame(l, n))'
  BY <1>1, <1>2, <1>3 DEF RowsInv, RowsHaveGames
<1>4. ASSUME ~torn', op'.pc \in MovePcs \cup {"delRows", "delUndo"}, NEW l \in Lists,
             NEW n \in op'.before[l]
      PROVE  (HasGame(l, n))' \/ (Gone' /\ l = op'.list /\ n = op'.name)
  <2>1. op' = op BY <1>4
  <2>2. HasGame(l, n) \/ (Gone /\ l = op.list /\ n = op.name)
    BY <1>2, <1>4, <2>1 DEF RowsInv
  <2>3. Gone' = Gone BY <2>1 DEF Gone
  <2>4. QED BY <1>1, <1>4, <2>1, <2>2, <2>3
<1>5. QED BY <1>3, <1>4, RowsHold

\* A game that stands is still on disk.
LEMMA StandingGames ==
  ASSUME Standing
  PROVE  \A l \in Lists, n \in Names : HasGame(l, n) => (HasGame(l, n))'
BY DEF Standing, HasGame, Exists

\* What the lists named before the operation, while nothing is torn.
LEMMA BeforeGames ==
  ASSUME InductiveInv, ~torn
  PROVE  /\ op.pc \notin MovePcs => \A l \in Lists : \A n \in rows[l] : HasGame(l, n)
         /\ op.pc \in {"mvRename", "undoDest", "undoSource", "delRows", "delUndo"} =>
              \A l \in Lists : \A n \in op.before[l] : HasGame(l, n)
         /\ op.pc \in {"mvDest", "mvSource", "undoDir"} =>
              \A l \in Lists : \A n \in op.before[l] :
                HasGame(l, n) \/ (l = op.list /\ n = op.name)
         /\ op.pc \in MovePcs \cup {"delRows", "delUndo"} =>
              op.before \in [Lists -> SUBSET Names]
BY InvShapes DEF InductiveInv, RowsInv, RowsHaveGames, Gone, MovePcs, CleanPcs, Ops

\* A row is a game, except in the middle of a move.
LEMMA RowsInvStep ==
  ASSUME InductiveInv, Patient, OneFault, Next
  PROVE  RowsInv'
<1> USE SameRemains, StandingGames
<1>1. CASE Still
  <2>1. \/ op' = op
        \/ op.pc \notin MovePcs /\ op'.pc \notin MovePcs \cup {"delRows", "delUndo"}
    BY <1>1 DEF Still, DeletePcs
  <2>2. UNCHANGED <<rows, dirs, torn>> BY <1>1 DEF Still
  <2>3. QED BY <2>1, <2>2, RowsKept
<1>2. ASSUME NEW n \in Names, NEW g \in Games, AddGame(n, g) PROVE RowsInv'
  BY <1>2, RowsKept DEF AddGame, disk, history
<1>3. CASE \E e \in left : SaveGame(e) \/ SaveGameFails(e)
  <2>1. SameGames BY <1>3, SameSteps
  <2>2. /\ rows' = rows /\ torn' = torn
        /\ op.pc \notin DeletePcs \cup MovePcs /\ op'.pc \notin DeletePcs \cup MovePcs
    BY <1>3, WrittenOutside DEF SaveGame, SaveGameFails
  <2>3. QED BY <2>1, <2>2, RowsKept DEF DeletePcs
<1>4. CASE SaveRows(TRUE) \/ SaveRows(FALSE)
  <2>1. /\ UNCHANGED dirs /\ writing /\ left = {} /\ torn' = torn
        /\ op.pc \notin DeletePcs \cup MovePcs /\ op'.pc \notin DeletePcs \cup MovePcs
        /\ rows' \in {rows, [rows EXCEPT ![Current.list] = NamesOf(Current.games)]}
    BY <1>4, WrittenOutside DEF SaveRows
  <2>2. CASE rows' = rows BY <2>1, <2>2, RowsKept DEF DeletePcs
  <2>3. CASE rows' = [rows EXCEPT ![Current.list] = NamesOf(Current.games)]
    <3>1. /\ Current.list = shown /\ shown \in Lists
          /\ \A e \in Current.games : HasGame(shown, e.name)
      BY <2>1, HeadOfQueue, InvShapes DEF InductiveInv, WriteInv, OnDisk, Matches
    <3>2. ASSUME ~torn, NEW l \in Lists, NEW n \in rows'[l] PROVE HasGame(l, n)
      <4>1. CASE l = shown
        <5>1. n \in NamesOf(Current.games) BY <2>3, <3>1, <3>2, <4>1, OnTheDisk
        <5>2. QED BY <3>1, <4>1, <5>1 DEF NamesOf
      <4>2. CASE l # shown
        <5>1. n \in rows[l] BY <2>3, <3>1, <3>2, <4>2, OnTheDisk
        <5>2. QED BY <2>1, <3>2, <5>1, BeforeGames
      <4>3. QED BY <4>1, <4>2
    <3>3. \A l \in Lists : \A n \in rows'[l] : HasGame(l, n) => (HasGame(l, n))'
      BY <2>1 DEF HasGame, Exists
    <3>4. QED BY <2>1, <3>2, <3>3, RowsHold DEF DeletePcs
  <2>4. QED BY <2>1, <2>2, <2>3
<1>5. CASE CreateDir
  <2>1. Standing /\ UNCHANGED <<op, rows, torn>>
    BY <1>5, StandingSteps DEF CreateDir, history
  <2>2. QED BY <2>1, RowsKept
<1>6. CASE CreateJson \/ CreateFails
  <2>1. UNCHANGED <<op, rows, torn>> /\ (Placed \/ UNCHANGED dirs) BY <1>6, CreateGames
  <2>2. \A l \in Lists, n \in Names : HasGame(l, n) => (HasGame(l, n))'
    BY <2>1 DEF Placed, OnlyDir, Empty, HasGame, Exists
  <2>3. QED BY <2>1, <2>2, RowsKept
<1>7. CASE ReadReferences \/ Purge \/ WriteQueue
  <2>1. UNCHANGED <<dirs, rows, torn>>
    BY <1>7, ReadReferencesFrame, PurgeFrame, WriteQueueFrame
  <2>2. op.pc \notin MovePcs /\ op'.pc \notin MovePcs \cup {"delRows", "delUndo"}
    BY <1>7, OutsideSteps, ReadReferencesEffect, PurgeEffect, WriteQueueEffect
       DEF MovePcs, DeletePcs
  <2>3. QED BY <2>1, <2>2, RowsKept
<1>8. CASE DeleteMark
  <2>1. SameGames /\ UNCHANGED <<rows, torn>> /\ op.pc = "run"
    BY <1>8, SameSteps, DeleteMarkFrame, DeleteMarkEffect
  <2>2. CASE op'.pc = "none" BY <2>1, <2>2, RowsKept DEF MovePcs
  <2>3. CASE op'.pc = "delRows" /\ op'.before = rows
    <3>1. ASSUME ~torn, NEW l \in Lists, NEW n \in rows[l] PROVE (HasGame(l, n))'
      BY <2>1, <3>1, BeforeGames, OnTheDisk DEF MovePcs
    <3>2. QED BY <2>1, <2>3, <3>1, RowsHold
  <2>4. QED BY <1>8, <2>2, <2>3, DeleteMarkEffect DEF OpEnds
<1>9. CASE DeleteRows
  <2>1. /\ UNCHANGED <<dirs, torn>> /\ op.pc = "delRows" /\ rows' \in {rows, WithoutRow}
        /\ op'.pc = "delDir" \/ (op'.pc = "delUndo" /\ op'.before = op.before)
    BY <1>9, DeleteRowsEffect, DeleteRowsFrame DEF OpDirs, OpMoves
  <2>2. \A l \in Lists : rows'[l] \subseteq rows[l] BY <2>1, OnTheDisk DEF WithoutRow
  <2>3. ASSUME ~torn, NEW l \in Lists, NEW n \in rows[l] \cup op.before[l]
        PROVE  (HasGame(l, n))'
    BY <2>1, <2>3, BeforeGames DEF MovePcs, HasGame, Exists
  <2>4. QED BY <2>1, <2>2, <2>3, RowsHold DEF MovePcs
<1>10. CASE DeleteUndo
  <2>1. /\ SameGames /\ op.pc = "delUndo" /\ rows' \in {rows, op.before} /\ torn' = torn
        /\ op'.pc = "none"
    BY <1>10, SameSteps, DeleteUndoEffect, DeleteUndoFrame DEF OpEnds
  <2>2. ASSUME ~torn, NEW l \in Lists, NEW n \in rows'[l] PROVE (HasGame(l, n))'
    BY <2>1, <2>2, BeforeGames, OnTheDisk DEF MovePcs
  <2>3. QED BY <2>1, <2>2, RowsHold DEF MovePcs
<1>11. CASE DeleteDir
  <2>1. /\ op.pc = "delDir" /\ UNCHANGED <<rows, torn>> /\ op'.pc = "queue"
        /\ op.list \in Lists /\ op.name \in Names
        /\ UNCHANGED dirs \/ OnlyDir(op.list, op.name)
    BY <1>11, DeleteDirEffect, DeleteDirFrame, InvShapes DEF OpMoves
  <2>2. op.name \notin rows[op.list]
    BY <2>1, OnTheDisk DEF InductiveInv, DeleteInv, DeletePcs
  <2>3. ASSUME ~torn, NEW l \in Lists, NEW n \in rows[l] PROVE (HasGame(l, n))'
    <3>1. HasGame(l, n) /\ n \in Names BY <2>1, <2>3, BeforeGames, OnTheDisk DEF MovePcs
    <3>2. dirs'[l][n] = dirs[l][n] BY <2>1, <2>2, <2>3, <3>1 DEF OnlyDir
    <3>3. QED BY <3>1, <3>2 DEF HasGame, Exists
  <2>4. QED BY <2>1, <2>3, RowsHold DEF MovePcs
<1>12. CASE MoveCheck
  <2>1. UNCHANGED <<dirs, rows, torn>> /\ op.pc = "run"
    BY <1>12, MoveCheckFrame, MoveCheckEffect
  <2>2. CASE op'.pc = "none" BY <2>1, <2>2, RowsKept DEF MovePcs
  <2>3. CASE op'.pc = "mvRename" /\ op'.before = rows
    <3>1. ASSUME ~torn, NEW l \in Lists, NEW n \in rows[l] PROVE (HasGame(l, n))'
      BY <2>1, <3>1, BeforeGames DEF MovePcs, HasGame, Exists
    <3>2. QED BY <2>1, <2>3, <3>1, RowsHold DEF MovePcs
  <2>4. QED BY <1>12, <2>2, <2>3, MoveCheckEffect DEF OpEnds
<1>13. CASE MoveRename
  <2>1. UNCHANGED <<rows, torn>> /\ op.pc = "mvRename" /\ op.pc \in MovePcs
    BY <1>13, MoveGames, MoveRenameEffect DEF MovePcs
  <2>2. CASE OpEnds /\ UNCHANGED dirs
    <3>1. ASSUME ~torn, NEW l \in Lists, NEW n \in rows[l] PROVE (HasGame(l, n))'
      <4>1. n \in op.before[l] BY <2>1, <3>1, MoveFacts
      <4>2. QED BY <2>1, <2>2, <3>1, <4>1, BeforeGames DEF HasGame, Exists
    <3>2. QED BY <2>1, <2>2, <3>1, RowsHold DEF OpEnds, MovePcs
  <2>3. CASE OpDirs("mvDest") /\ Relocated(op.list, op.name, Dest, op.as)
    <3>1. Gone' /\ op'.pc = "mvDest" /\ op'.before = op.before /\ op'.list = op.list
          /\ op'.name = op.name
      BY <2>1, <2>3, MoveLists DEF OpDirs, OpMoves, OpKept, Gone
    <3>2. ASSUME ~torn, NEW l \in Lists, NEW n \in op.before[l], l # op.list \/ n # op.name
          PROVE  (HasGame(l, n))'
      BY <2>1, <2>3, <3>2, BeforeGames, MoveFacts, RelocatedGames
    <3>3. QED BY <2>1, <3>1, <3>2, RowsHold DEF MovePcs
  <2>4. QED BY <1>13, <2>1, <2>2, <2>3, MoveGames
<1>14. ASSUME op.pc \in {"mvDest", "mvSource"}, UNCHANGED <<dirs, torn>>, OpDirs("mvSource")
              \/ OpDirs("undoDir")
       PROVE  RowsInv'
  <2>1. Gone' /\ op'.pc \in MovePcs /\ op'.before = op.before /\ op'.list = op.list
        /\ op'.name = op.name
    BY <1>14, MoveLists DEF OpDirs, OpMoves, OpKept, Gone, MovePcs
  <2>2. ASSUME ~torn, NEW l \in Lists, NEW n \in op.before[l], l # op.list \/ n # op.name
        PROVE  (HasGame(l, n))'
    BY <1>14, <2>2, BeforeGames DEF HasGame, Exists
  <2>3. QED BY <1>14, <2>1, <2>2, RowsHold
<1>15. CASE MoveDest BY <1>14, <1>15, MoveDestEffect, MoveDestFrame
<1>16. CASE MoveSource
  <2>1. op.pc = "mvSource" /\ UNCHANGED <<dirs, torn>> /\ op.pc \in MovePcs
    BY <1>16, MoveSourceEffect, MoveSourceFrame DEF MovePcs
  <2>2. CASE OpDirs("undoDir") BY <1>14, <2>1, <2>2
  <2>3. CASE OpMoves("answer") /\ rows' = WithoutRow
    <3>1. /\ rows'[op.list] \subseteq op.before[op.list] \ {op.name}
          /\ rows'[Dest] \subseteq op.before[Dest] \cup {op.as}
      BY <2>1, <2>3, MoveFacts DEF WithoutRow
    <3>2. ASSUME ~torn, NEW l \in Lists, NEW n \in rows'[l] PROVE (HasGame(l, n))'
      <4>1. CASE l = Dest /\ n = op.as BY <2>1, <4>1, MoveFacts DEF HasGame, Exists
      <4>2. CASE n \in op.before[l] /\ (l # op.list \/ n # op.name)
        BY <2>1, <3>2, <4>2, BeforeGames DEF HasGame, Exists
      <4>3. QED BY <2>1, <3>1, <3>2, <4>1, <4>2, MoveFacts
    <3>3. QED BY <2>1, <2>3, <3>2, RowsHold DEF OpMoves, MovePcs
  <2>4. QED BY <1>16, <2>2, <2>3, MoveSourceEffect
<1>17. CASE UndoDir
  <2>1. /\ UNCHANGED torn /\ op.pc = "undoDir" /\ op.pc \in MovePcs /\ OpDirs("undoDest")
        /\ Relocated(Dest, op.as, op.list, op.name)
    BY <1>17, MoveGames, UndoDirEffect DEF MovePcs
  <2>2. ASSUME ~torn, NEW l \in Lists, NEW n \in op.before[l] PROVE (HasGame(l, n))'
    <3>1. l # Dest \/ n # op.as BY <2>1, <2>2, MoveFacts
    <3>2. CASE l = op.list /\ n = op.name BY <2>1, <3>2, RelocatedGames
    <3>3. CASE l # op.list \/ n # op.name
      BY <2>1, <2>2, <3>1, <3>3, BeforeGames, MoveFacts, RelocatedGames
    <3>4. QED BY <3>2, <3>3
  <2>3. QED BY <2>1, <2>2, RowsHold DEF OpDirs, OpMoves, MovePcs
<1>18. CASE UndoDest
  <2>1. op.pc = "undoDest" /\ UNCHANGED dirs /\ OpDirs("undoSource")
        /\ (torn' = torn \/ torn' = TRUE)
    BY <1>18, UndoDestEffect, UndoDestFrame
  <2>2. ASSUME ~torn, NEW l \in Lists, NEW n \in op.before[l] PROVE (HasGame(l, n))'
    BY <2>1, <2>2, BeforeGames DEF HasGame, Exists
  <2>3. QED BY <2>1, <2>2, RowsHold DEF OpDirs, OpMoves, MovePcs
<1>19. CASE UndoSource
  <2>1. op.pc = "undoSource" /\ op.pc \in MovePcs /\ UNCHANGED dirs /\ op'.pc = "none"
    BY <1>19, UndoSourceEffect, UndoSourceFrame DEF MovePcs, OpEnds
  <2>2. ASSUME ~torn', NEW l \in Lists, NEW n \in rows'[l] PROVE (HasGame(l, n))'
    <3>1. ~torn /\ rows' = [rows EXCEPT ![op.list] = op.before[op.list]]
      <4>1. \/ rows' = [rows EXCEPT ![op.list] = op.before[op.list]] /\ torn' = torn
            \/ torn' = TRUE
        BY <1>19, UndoSourceEffect
      <4>2. CASE torn' = TRUE BY <2>2, <4>2
      <4>3. CASE torn' = torn /\ rows' = [rows EXCEPT ![op.list] = op.before[op.list]]
        BY <2>2, <4>3
      <4>4. QED BY <4>1, <4>2, <4>3
    <3>2. n \in op.before[l] BY <2>1, <2>2, <3>1, MoveFacts
    <3>3. QED BY <2>1, <3>1, <3>2, BeforeGames DEF HasGame, Exists
  <2>3. QED BY <2>1, <2>2, RowsHold DEF MovePcs
<1>20. CASE Crash
  <2>1. /\ UNCHANGED <<rows, dirs>> /\ op'.pc = "none"
        /\ torn' = (torn \/ op.pc \in MovePcs \ {"mvRename"})
    BY <1>20, Idle DEF Crash, disk
  <2>2. ASSUME ~torn', NEW l \in Lists, NEW n \in rows[l] PROVE (HasGame(l, n))'
    <3>1. ~torn /\ (op.pc \notin MovePcs \/ op.pc = "mvRename") BY <2>1, <2>2
    <3>2. CASE op.pc \notin MovePcs
      BY <2>1, <2>2, <3>1, <3>2, BeforeGames DEF HasGame, Exists
    <3>3. CASE op.pc = "mvRename"
      <4>1. n \in op.before[l] BY <2>2, <3>3, MoveFacts DEF MovePcs
      <4>2. QED BY <2>1, <2>2, <3>1, <3>3, <4>1, BeforeGames DEF HasGame, Exists
    <3>4. QED BY <3>1, <3>2, <3>3
  <2>3. QED BY <2>1, <2>2, RowsHold DEF MovePcs
<1>21. QED
  BY <1>1, <1>2, <1>3, <1>4, <1>5, <1>6, <1>7, <1>8, <1>9, <1>10, <1>11, <1>12, <1>13,
     <1>15, <1>16, <1>17, <1>18, <1>19, <1>20, StepCases

-----------------------------------------------------------------------------
(* The theorems. *)

\* A closed editor beside a good library.
LEMMA InitInv ==
  ASSUME Init
  PROVE  InductiveInv
<1>1. PICK n \in Names, a, b \in Games, r, s \in Roms :
        /\ a # b
        /\ rows = [l \in Lists |-> {n}]
        /\ dirs = [l \in Lists |-> [m \in Names |->
                     IF m # n THEN NoDir
                     ELSE [game |-> IF l = "lineup" THEN a ELSE b,
                           rom |-> IF l = "lineup" THEN r ELSE s, marked |-> FALSE]]]
        /\ pool = {r, s}
        /\ fresh = Games \ {a, b}
        /\ chosen = [g \in Games |-> IF g = a THEN r ELSE IF g = b THEN s ELSE NoRom]
  BY DEF Init
<1>2. /\ cleanup = {} /\ up = FALSE /\ shown = "lineup" /\ view = [l \in Lists |-> {}]
      /\ timer = FALSE /\ saves = <<>> /\ writing = FALSE /\ left = {}
      /\ op = NoOp /\ creating = NoCreate
      /\ deleted = {} /\ torn = FALSE /\ spoiled = FALSE /\ faults = 0
  BY DEF Init
<1>3. ASSUME NEW l \in Lists, NEW m \in Names
      PROVE  /\ dirs[l][m] \in Dir \cup {NoDir}
             /\ HasGame(l, m) <=> m = n
             /\ HasGame(l, m) => /\ dirs[l][m].game = IF l = "lineup" THEN a ELSE b
                                 /\ dirs[l][m].rom \in {r, s} /\ ~dirs[l][m].marked
  <2> DEFINE d == [game |-> IF l = "lineup" THEN a ELSE b,
                   rom |-> IF l = "lineup" THEN r ELSE s, marked |-> FALSE]
  <2>1. d \in Dir /\ d # NoDir /\ d.game # NoGame
    <3>1. d.game \in Games /\ d.rom \in Roms /\ d.marked \in BOOLEAN OBVIOUS
    <3>2. d = [game |-> d.game, rom |-> d.rom, marked |-> d.marked] OBVIOUS
    <3> HIDE DEF d
    <3>3. d \in Dir BY <3>1, <3>2 DEF Dir
    <3>4. QED BY <3>1, <3>3, DistinctAssumption
  <2>2. dirs[l][m] = IF m # n THEN NoDir ELSE d BY <1>1
  <2>3. d.game = (IF l = "lineup" THEN a ELSE b) /\ d.rom \in {r, s} /\ ~d.marked OBVIOUS
  <2> HIDE DEF d
  <2>4. QED BY <2>1, <2>2, <2>3 DEF HasGame, Exists
<1>4. Shapes
  <2>1. DiskShape
    <3>1. dirs \in [Lists -> [Names -> Dir \cup {NoDir}]] BY <1>1, <1>3
    <3>2. QED BY <1>1, <1>2, <3>1 DEF DiskShape
  <2>2. WindowShape BY <1>2 DEF WindowShape, Lists
  <2>3. QueueShape
    <3>1. saves \in Seq(Snapshots) /\ Len(saves) = 0 BY <1>2
    <3>2. Len(saves) <= MaxSaves BY <3>1, BoundsAssumption
    <3>3. writing \in BOOLEAN /\ left \subseteq Entry BY <1>2
    <3>4. QED BY <3>1, <3>2, <3>3 DEF QueueShape
  <2>4. OpShape BY <1>2, NoOpTyped DEF OpShape
  <2>5. HistoryShape
    <3>1. chosen \in [Games -> Roms \cup {NoRom}] BY <1>1
    <3>2. fresh \subseteq Games /\ deleted \subseteq Games /\ faults \in 0..MaxFaults
      BY <1>1, <1>2, BoundsAssumption
    <3>3. QED BY <1>2, <3>1, <3>2 DEF HistoryShape
  <2>6. QED BY <2>1, <2>2, <2>3, <2>4, <2>5 DEF Shapes
<1>5. op.pc = "none" /\ op.kind = "none" /\ creating.pc = "none" /\ DOMAIN saves = {}
      /\ \A l \in Lists : view[l] = {}
  BY <1>2, Idle
<1>6. PhaseInv BY <1>2, <1>5 DEF PhaseInv, DeletePcs, MovePcs, CleanPcs
<1>7. ViewInv
  BY <1>2, <1>5 DEF ViewInv, ViewLists, ViewGames, ViewRoms, ViewSaved, ViewOp, ViewNew,
     ViewMoved, OneEach, Calm, Lists
<1>8. QueueInv
  BY <1>2, <1>5 DEF QueueInv, QueueHolds, QueueBy, QueueCalm, QueueGone, Gone, CleanPcs, Calm
<1>9. WriteInv BY <1>2 DEF WriteInv
<1>10. DiskInv
  <2>1. ASSUME NEW p \in Places
        PROVE  /\ p = <<p[1], n>> /\ p[1] \in {"lineup", "folder"} /\ p[2] = n
               /\ GameAt(p) = IF p[1] = "lineup" THEN a ELSE b
               /\ RomAt(p) \in {r, s}
    <3>1. p = <<p[1], p[2]>> /\ p[1] \in Lists /\ p[2] \in Names /\ HasGame(p[1], p[2])
      BY DEF Places
    <3>2. QED BY <1>3, <3>1 DEF GameAt, RomAt, Lists
  <2>2. IdentitiesDistinct
    <3>1. ASSUME NEW p \in Places, NEW q \in Places, GameAt(p) = GameAt(q) PROVE p = q
      <4>1. p[1] = q[1] BY <1>1, <2>1, <3>1
      <4>2. QED BY <2>1, <4>1
    <3>2. QED BY <3>1 DEF IdentitiesDistinct
  <2>3. DiskIds BY <1>1, <1>2, <1>5, <2>1, <2>2 DEF DiskIds
  <2>4. DiskRoms BY <1>1, <1>5, <2>1 DEF DiskRoms, RomsPresent
  <2>5. DiskDeleted /\ DiskAnswers BY <1>2, <1>5 DEF DiskDeleted, DiskAnswers
  <2>6. QED BY <2>3, <2>4, <2>5 DEF DiskInv
<1>11. DeleteInv /\ MoveInv BY <1>5 DEF DeleteInv, MoveInv, DeletePcs, MovePcs
<1>12. RowsInv BY <1>1, <1>3, <1>5 DEF RowsInv, RowsHaveGames, MovePcs
<1>13. QED
  BY <1>4, <1>6, <1>7, <1>8, <1>9, <1>10, <1>11, <1>12 DEF InductiveInv

\* A step that changes nothing keeps everything.
LEMMA StutterInv ==
  ASSUME InductiveInv, UNCHANGED vars
  PROVE  InductiveInv'
<1>1. UNCHANGED <<rows, dirs, pool, cleanup, up, shown, view, timer, saves, writing, left,
                  op, creating, fresh, deleted, chosen, torn, spoiled, faults>>
  BY DEF vars, disk, window, saving, history
<1>2. Shapes'
  BY <1>1 DEF InductiveInv, Shapes, DiskShape, WindowShape, QueueShape, OpShape, HistoryShape
<1>3. PhaseInv' BY <1>1 DEF InductiveInv, PhaseInv
<1>4. ViewInv'
  BY <1>1, OpStays, CreationStays, ViewQuiet
<1>5. QueueInv'
  BY <1>1 DEF InductiveInv, QueueInv, QueueHolds, QueueBy, QueueCalm, QueueGone, Gone, Calm,
     EntryFine, AwaitedAt, Empty, Matches, OnDisk, HasGame, Exists
<1>6. WriteInv' BY <1>1, WriteGoesOn DEF InductiveInv, WriteInv
<1>7. DiskIds' BY <1>1, SameRemains, IdsKept
<1>8. DiskRoms' BY <1>1, SameDirs, RomsSame
<1>9. DiskDeleted' BY <1>1, SameRemains, DeletedKept
<1>10. DiskAnswers' BY <1>1, SameStanding, AnswersKept
<1>11. DeleteInv' BY <1>1 DEF InductiveInv, DeleteInv, HasGame, Exists
<1>12. MoveInv' BY <1>1 DEF InductiveInv, MoveInv, Dest, HasGame, Exists
<1>13. RowsInv' BY <1>1, SameRemains, RowsKept
<1>14. QED
  BY <1>2, <1>3, <1>4, <1>5, <1>6, <1>7, <1>8, <1>9, <1>10, <1>11, <1>12, <1>13
     DEF InductiveInv, DiskInv

\* Every step keeps the inductive invariant.
LEMMA NextInv ==
  ASSUME Patient, OneFault, InductiveInv, [Next]_vars
  PROVE  InductiveInv'
<1>1. CASE Next
  BY <1>1, ShapesStep, PhaseInvStep, ViewInvStep, QueueInvStep, WriteInvStep, DiskIdsStep,
     DiskRomsStep, DiskDeletedStep, DiskAnswersStep, DeleteInvStep, MoveInvStep, RowsInvStep
     DEF InductiveInv, DiskInv
<1>2. CASE UNCHANGED vars BY <1>2, StutterInv
<1>3. QED BY <1>1, <1>2

\* The window, its queue, the operation and the disk agree at every moment, for
\* a user who waits for the saves.
THEOREM EditorAgrees ==
  ASSUME Patient, OneFault
  PROVE  Spec => []InductiveInv
<1>1. Init => InductiveInv BY InitInv
<1>2. InductiveInv /\ [Next]_vars => InductiveInv' BY NextInv
<1>3. QED BY <1>1, <1>2, PTL DEF Spec

\* Files, window, queue and operation keep their shape.
THEOREM TypeCorrect ==
  ASSUME Patient, OneFault
  PROVE  Spec => []TypeOK
<1>1. InductiveInv => TypeOK
  <2>1. SUFFICES ASSUME InductiveInv PROVE TypeOK OBVIOUS
  <2>2. DiskShape /\ WindowShape /\ QueueShape /\ OpShape /\ HistoryShape
    BY <2>1 DEF InductiveInv, Shapes
  <2>3. ASSUME NEW i \in DOMAIN saves
        PROVE  saves[i].list \in Lists /\ saves[i].games \subseteq Entry
    <3>1. saves \in Seq(Snapshots) BY <2>2 DEF QueueShape
    <3>2. saves[i] \in Snapshots BY <3>1
    <3>3. QED BY <3>2 DEF Snapshots
  <2>4. op.rom \in Roms \cup {NoRom} /\ op.keep \subseteq Roms /\ creating.list \in Lists
    BY <2>2 DEF OpShape, Ops, Creations
  <2>5. QED
    BY <2>2, <2>3, <2>4 DEF TypeOK, DiskShape, WindowShape, QueueShape, HistoryShape
<1>2. QED BY <1>1, EditorAgrees, PTL

\* library.rs, rom_store.rs: after any step of a save, a deletion, a move or an
\* import, whatever of it failed, the library can be opened.
THEOREM AlwaysOpens ==
  ASSUME Patient, OneFault
  PROVE  Spec => []CanOpen
<1>1. InductiveInv => CanOpen
  BY DEF InductiveInv, DiskInv, DiskIds, DiskRoms, RowsInv, CanOpen
<1>2. QED BY <1>1, EditorAgrees, PTL

\* lib.rs, library_delete.rs: a save queued before a deletion does not list the
\* game again after it.
THEOREM DeletedStaysDeleted ==
  ASSUME Patient, OneFault
  PROVE  Spec => []NoResurrection
<1>1. InductiveInv => NoResurrection
  BY DEF InductiveInv, DiskInv, DiskDeleted, NoResurrection
<1>2. QED BY <1>1, EditorAgrees, PTL

\* The games that were on disk are, wherever they went.
LEMMA ForwardKept ==
  ASSUME \A l \in Lists, n \in Names : HasGame(l, n) /\ dirs[l][n].game \notin deleted =>
           \E k \in Lists, m \in Names :
             (HasGame(k, m))' /\ dirs'[k][m].game = dirs[l][n].game
  PROVE  \A p \in Places : GameAt(p) \notin deleted =>
           \E q \in Places' : dirs'[q[1]][q[2]].game = GameAt(p)
<1>1. ASSUME NEW p \in Places, GameAt(p) \notin deleted
      PROVE  \E q \in Places' : dirs'[q[1]][q[2]].game = GameAt(p)
  <2>1. /\ p[1] \in Lists /\ p[2] \in Names /\ HasGame(p[1], p[2])
        /\ GameAt(p) = dirs[p[1]][p[2]].game
    BY DEF Places, GameAt
  <2>2. PICK k \in Lists, m \in Names :
          (HasGame(k, m))' /\ dirs'[k][m].game = dirs[p[1]][p[2]].game
    BY <1>1, <2>1
  <2>3. <<k, m>> \in Places' BY <2>2 DEF Places
  <2>4. dirs'[<<k, m>>[1]][<<k, m>>[2]].game = GameAt(p) BY <2>1, <2>2
  <2>5. QED BY <2>3, <2>4
<1>2. QED BY <1>1

\* No step but its own deletion takes a game's metadata away.
LEMMA GamesKept ==
  ASSUME InductiveInv, Patient, OneFault, Next
  PROVE  \A l \in Lists, n \in Names : HasGame(l, n) /\ dirs[l][n].game \notin deleted =>
           \E k \in Lists, m \in Names :
             (HasGame(k, m))' /\ dirs'[k][m].game = dirs[l][n].game
<1> DEFINE Forward == \A l \in Lists, n \in Names :
             HasGame(l, n) => (HasGame(l, n))' /\ dirs'[l][n].game = dirs[l][n].game
<1>1. SUFFICES ASSUME ~Forward
               PROVE  \A l \in Lists, n \in Names :
                        HasGame(l, n) /\ dirs[l][n].game \notin deleted =>
                          \E k \in Lists, m \in Names :
                            (HasGame(k, m))' /\ dirs'[k][m].game = dirs[l][n].game
  OBVIOUS
<1>2. SameGames => Forward BY DEF SameGames, HasGame, Exists
<1>3. Standing => Forward BY DEF Standing, HasGame, Exists
<1>4. UNCHANGED dirs => Forward BY <1>2, SameDirs
<1> HIDE DEF Forward
<1>5. \/ DeleteDir
      \/ \E l, n, k, m : Relocated(l, n, k, m)
  <2>1. CASE MoveRename \/ UndoDir BY <1>1, <1>4, <2>1, MoveGames
  <2>2. CASE CreateJson \/ CreateFails
    <3>1. CASE Placed
      <4>1. \A l \in Lists, n \in Names : HasGame(l, n) => dirs'[l][n] = dirs[l][n]
        BY <3>1 DEF Placed, OnlyDir, Empty
      <4>2. QED BY <1>1, <1>3, <4>1, SameStanding
    <3>2. QED BY <1>1, <1>4, <2>2, <3>1, CreateGames
  <2>3. CASE Still BY <1>1, <1>4, <2>3 DEF Still
  <2>4. ASSUME NEW n \in Names, NEW g \in Games, AddGame(n, g) PROVE FALSE
    BY <1>1, <1>4, <2>4 DEF AddGame, disk
  <2>5. CASE CreateDir BY <1>1, <1>3, <2>5, StandingSteps
  <2>6. QED BY <1>1, <1>2, <2>1, <2>2, <2>3, <2>4, <2>5, SameSteps, StepCases
<1>6. CASE DeleteDir
  <2>1. /\ op.pc = "delDir" /\ op.list \in Lists /\ op.name \in Names
        /\ UNCHANGED dirs \/ OnlyDir(op.list, op.name)
    BY <1>6, DeleteDirEffect, InvShapes
  <2>2. dirs[op.list][op.name].game \in deleted
    BY <2>1 DEF InductiveInv, DeleteInv, DeletePcs
  <2>3. ASSUME NEW l \in Lists, NEW n \in Names, HasGame(l, n), dirs[l][n].game \notin deleted
        PROVE  (HasGame(l, n))' /\ dirs'[l][n].game = dirs[l][n].game
    <3>1. dirs'[l][n] = dirs[l][n] BY <2>1, <2>2, <2>3 DEF OnlyDir
    <3>2. QED BY <2>3, <3>1 DEF HasGame, Exists
  <2>4. QED BY <2>3
<1>7. ASSUME NEW l, NEW n, NEW k, NEW m, Relocated(l, n, k, m),
             NEW i \in Lists, NEW j \in Names, HasGame(i, j)
      PROVE  \E x \in Lists, y \in Names :
               (HasGame(x, y))' /\ dirs'[x][y].game = dirs[i][j].game
  <2>1. CASE i = l /\ j = n BY <1>7, <2>1, RelocatedGames
  <2>2. CASE i # l \/ j # n
    <3>1. i # k \/ j # m BY <1>7 DEF Relocated
    <3>2. QED BY <1>7, <2>2, <3>1, RelocatedGames
  <2>3. QED BY <2>1, <2>2
<1>8. QED BY <1>5, <1>6, <1>7

\* Every step keeps the games.
LEMMA GamesKeptStep ==
  ASSUME Patient, OneFault, InductiveInv, [Next]_vars
  PROVE  [\A p \in Places : GameAt(p) \notin deleted =>
            \E q \in Places' : dirs'[q[1]][q[2]].game = GameAt(p)]_vars
BY GamesKept, ForwardKept

\* Whatever fails, a game's metadata is not lost or overwritten: it leaves the
\* disk only by its own committed deletion.
THEOREM NoGameIsLost ==
  ASSUME Patient, OneFault
  PROVE  Spec => GamesAreKept
<1>1. InductiveInv /\ [Next]_vars =>
        [\A p \in Places : GameAt(p) \notin deleted =>
           \E q \in Places' : dirs'[q[1]][q[2]].game = GameAt(p)]_vars
  BY GamesKeptStep
<1>2. QED BY <1>1, EditorAgrees, PTL DEF Spec, GamesAreKept
-----------------------------------------------------------------------------
(* The user's choice of ROM, from the window through the queue to the disk. *)

\* A game on disk names the chosen ROM, unless the shown list has yet to save it.
Tracked(l, n) ==
  \/ dirs[l][n].rom = chosen[dirs[l][n].game]
  \/ l = shown /\ \E e \in view[shown] : e.name = n /\ e.game = dirs[l][n].game
ChosenOnDisk ==
  \A l \in Lists, n \in Names :
    HasGame(l, n) /\ dirs[l][n].game \notin deleted => Tracked(l, n)

\* The window shows the user's choices.
ChosenInView == \A l \in Lists : \A e \in view[l] : e.rom = chosen[e.game]

\* The last save queued holds the shown entry, or the disk does and no save
\* queued says otherwise.
Reaches(e) ==
  \/ saves # <<>> /\ e \in saves[Len(saves)].games
  \/ /\ OnDisk(shown, e)
     /\ \A i \in DOMAIN saves : \A f \in saves[i].games :
          f.name = e.name /\ f.game = e.game => f = e
ChosenSaved == ~timer /\ ~Calm => \A e \in view[shown] : Reaches(e)

\* A save that would put back a former choice is of a game still shown.
Expected(f) ==
  \/ f.rom = chosen[f.game]
  \/ \E e \in view[shown] : e.name = f.name /\ e.game = f.game
ChosenQueued ==
  \A i \in DOMAIN saves : \A f \in saves[i].games : Matches(shown, f) => Expected(f)

\* No ROM was chosen yet for an identity about to appear.
ChosenNew ==
  /\ \A g \in fresh : chosen[g] = NoRom
  /\ \/ creating.pc \in {"mkdir", "json"}
     \/ creating.pc = "reply" /\ ~creating.detached
     => chosen[creating.game] = NoRom
  /\ creating.pc \in {"mkdir", "json"} =>
       \A i \in DOMAIN saves : \A f \in saves[i].games : f.game # creating.game

\* The answer the window is about to show lists no deleted game.
ChosenResult ==
  op.pc = "answer" => \A l \in Lists : \A e \in op.result[l] : e.game \notin deleted

Chosen ==
  /\ ChosenOnDisk /\ ChosenInView /\ ChosenSaved
  /\ ChosenQueued /\ ChosenNew /\ ChosenResult

\* As long as no save failed.
ChoiceInv == ~spoiled => Chosen

AllChosen ==
  \A l \in Lists, n \in Names :
    HasGame(l, n) /\ dirs[l][n].game \notin deleted =>
      dirs[l][n].rom = chosen[dirs[l][n].game]

\* With nothing left to save, or an operation that works from the disk, the disk
\* holds every choice.
LEMMA AllChosenNow ==
  ASSUME InductiveInv, Chosen, Calm \/ (~timer /\ saves = <<>>)
  PROVE  AllChosen
<1>1. SUFFICES ASSUME NEW l \in Lists, NEW n \in Names, HasGame(l, n),
                      dirs[l][n].game \notin deleted, NEW e \in view[shown],
                      l = shown, e.name = n, e.game = dirs[l][n].game
               PROVE  dirs[l][n].rom = chosen[dirs[l][n].game]
  BY DEF AllChosen, Chosen, ChosenOnDisk, Tracked
<1>2. Matches(shown, e) BY <1>1 DEF Matches
<1>3. e.rom = chosen[e.game] BY ShownEntries DEF Chosen, ChosenInView
<1>4. OnDisk(shown, e)
  <2>1. CASE Calm BY <1>2, <2>1, ShownMatch DEF ViewSaved
  <2>2. CASE ~Calm BY <2>2 DEF Chosen, ChosenSaved, Reaches
  <2>3. QED BY <2>1, <2>2
<1>5. QED BY <1>1, <1>3, <1>4 DEF OnDisk

\* A list read from the disk then shows every choice.
LEMMA LoadChosen ==
  ASSUME InductiveInv, AllChosen, NEW l \in Lists, NEW e \in Load(l)
  PROVE  e \in Entry /\ OnDisk(l, e) /\ e.rom = chosen[e.game] /\ e.game \notin deleted
<1>1. e \in Entry /\ OnDisk(l, e) BY LoadOnDisk
<1>2. e.name \in rows[l] /\ HasGame(l, e.name) BY DEF Load
<1>3. e.name \in Names BY <1>1, ShownEntries
<1>4. dirs[l][e.name].game = e.game /\ dirs[l][e.name].rom = e.rom
  BY <1>1 DEF OnDisk, Matches
<1>5. e.game \notin deleted BY <1>2, <1>3, <1>4, OnTheDisk
<1>6. QED BY <1>1, <1>2, <1>3, <1>4, <1>5 DEF AllChosen

\* Two shown entries are of two games.
LEMMA ShownApart ==
  ASSUME InductiveInv, ~Gone, NEW l \in Lists, NEW k \in Lists, NEW x \in view[l],
         NEW y \in view[k], x.game = y.game
  PROVE  l = k /\ x = y
<1>1. Matches(l, x) /\ Matches(k, y) BY ShownMatch
<1>2. x.name \in Names /\ y.name \in Names BY ShownEntries
<1>3. l = k /\ x.name = y.name BY <1>1, <1>2, OnTheDisk DEF Matches
<1>4. QED BY <1>3, ShownMatch DEF ViewLists, OneEach

\* A shown game was not just given out, nor is it the one being added.
LEMMA ShownOld ==
  ASSUME InductiveInv, ~Gone, NEW e \in view[shown]
  PROVE  /\ e.game \in Games /\ e.game \notin fresh
         /\ \/ creating.pc \in {"mkdir", "json"}
            \/ creating.pc = "reply" /\ ~creating.detached
            => e.game # creating.game
<1>1. Matches(shown, e) /\ e.name \in Names /\ e.game \in Games /\ shown \in Lists
  BY ShownMatch, ShownEntries
<1>2. e.game \notin fresh BY <1>1, OnTheDisk DEF Matches
<1>3. creating.pc \in {"mkdir", "json"} => e.game # creating.game
  BY <1>1, ShownMatch DEF ViewNew
<1>4. ASSUME creating.pc = "reply", ~creating.detached, e.game = creating.game PROVE FALSE
  <2>1. /\ HasGame(shown, creating.name) /\ dirs[shown][creating.name].game = creating.game
    BY <1>4 DEF InductiveInv, DiskInv, DiskAnswers, OnDisk, Matches, Created
  <2>2. creating.name \in Names BY <1>4 DEF InductiveInv, PhaseInv
  <2>3. e.name = creating.name BY <1>1, <1>4, <2>1, <2>2, OnTheDisk DEF Matches
  <2>4. QED BY <1>4, <2>3, ShownMatch DEF ViewNew
<1>5. QED BY <1>1, <1>2, <1>3, <1>4

-----------------------------------------------------------------------------
(* Parts of Chosen that a step leaves true. *)

\* Nothing that matters to the choices changes.
LEMMA SameChoice ==
  ASSUME InductiveInv, Chosen,
         UNCHANGED <<dirs, shown, view, timer, saves, op, creating, fresh, deleted, chosen>>
  PROVE  Chosen'
<1>1. ChosenOnDisk' BY DEF Chosen, ChosenOnDisk, Tracked, HasGame, Exists
<1>2. ChosenInView' BY DEF Chosen, ChosenInView
<1>3. ChosenSaved'
  BY DEF Chosen, ChosenSaved, Reaches, Calm, OnDisk, Matches, HasGame, Exists
<1>4. ChosenQueued' BY DEF Chosen, ChosenQueued, Expected, Matches, HasGame, Exists
<1>5. ChosenNew' BY DEF Chosen, ChosenNew
<1>6. ChosenResult' BY DEF Chosen, ChosenResult
<1>7. QED BY <1>1, <1>2, <1>3, <1>4, <1>5, <1>6 DEF Chosen

\* The same games with the same ROMs, in the same window.
LEMMA OnDiskKept ==
  ASSUME InductiveInv, Chosen, UNCHANGED <<shown, view, chosen>>, deleted \subseteq deleted',
         \A l \in Lists, n \in Names : (HasGame(l, n))' =>
           HasGame(l, n) /\ dirs'[l][n].game = dirs[l][n].game /\ dirs'[l][n].rom = dirs[l][n].rom
  PROVE  ChosenOnDisk'
BY DEF Chosen, ChosenOnDisk, Tracked

\* The addition under way goes on, or the window no longer waits for it.
CreationGoesOn ==
  /\ creating'.pc \in {"mkdir", "json"} =>
       creating.pc \in {"mkdir", "json"} /\ creating'.game = creating.game
  /\ creating'.pc = "reply" /\ ~creating'.detached =>
       /\ creating'.game = creating.game
       /\ \/ creating.pc \in {"mkdir", "json"}
          \/ creating.pc = "reply" /\ ~creating.detached

\* What is new stays new while only shown and queued entries are saved.
LEMMA NewKept ==
  ASSUME InductiveInv, Chosen, CreationGoesOn, chosen' = chosen, fresh' \subseteq fresh,
         \A i \in DOMAIN saves' : \A f \in saves'[i].games :
           \/ \E e \in view[shown] : f.game = e.game
           \/ \E j \in DOMAIN saves : f \in saves[j].games
  PROVE  ChosenNew'
<1>1. (\/ creating'.pc \in {"mkdir", "json"}
       \/ creating'.pc = "reply" /\ ~creating'.detached)
      => chosen'[creating'.game] = NoRom
  BY DEF Chosen, ChosenNew, CreationGoesOn
<1>2. ASSUME creating'.pc \in {"mkdir", "json"}, NEW i \in DOMAIN saves',
             NEW f \in saves'[i].games
      PROVE  f.game # creating'.game
  <2>1. creating.pc \in {"mkdir", "json"} /\ creating'.game = creating.game
    BY <1>2 DEF CreationGoesOn
  <2>2. \A e \in view[shown] : e.game # creating.game
    BY <2>1, ShownMatch, ShownEntries DEF ViewNew
  <2>3. QED BY <1>2, <2>1, <2>2 DEF Chosen, ChosenNew
<1>3. QED BY <1>1, <1>2 DEF Chosen, ChosenNew

\* An addition that is left alone goes on.
LEMMA SameCreation ==
  ASSUME UNCHANGED creating
  PROVE  CreationGoesOn
BY DEF CreationGoesOn

\* The answer waits.
LEMMA ResultKept ==
  ASSUME Chosen, op'.pc = "answer" => op' = op /\ deleted' = deleted
  PROVE  ChosenResult'
BY DEF Chosen, ChosenResult

\* A copy of the shown list is queued.
LEMMA SnapshotTaken ==
  ASSUME InductiveInv, Chosen, NEW s \in Snapshots, s.games = view[shown],
         saves' = Append(saves, s),
         UNCHANGED <<dirs, shown, view, creating, fresh, deleted, chosen>>,
         op'.pc = "answer" => op' = op
  PROVE  Chosen'
<1>1. /\ Len(saves') = Len(saves) + 1 /\ Len(saves) \in Nat
      /\ DOMAIN saves' = 1..(Len(saves) + 1) /\ DOMAIN saves = 1..Len(saves)
      /\ saves'[Len(saves')] = s
      /\ \A i \in DOMAIN saves : saves'[i] = saves[i]
  BY AppendTyped, InvShapes
<1>2. \A i \in DOMAIN saves' : saves'[i] = s \/ (i \in DOMAIN saves /\ saves'[i] = saves[i])
  BY <1>1
<1>3. saves' # <<>> BY <1>1
<1>4. ChosenOnDisk' BY OnDiskKept DEF HasGame, Exists
<1>5. ChosenInView' BY DEF Chosen, ChosenInView
<1>6. ChosenSaved' BY <1>1, <1>3 DEF ChosenSaved, Reaches
<1>7. ChosenQueued'
  <2>1. ASSUME NEW i \in DOMAIN saves', NEW f \in saves'[i].games, (Matches(shown, f))'
        PROVE  Expected(f)'
    <3>1. Matches(shown, f) BY <2>1 DEF Matches, HasGame, Exists
    <3>2. Expected(f) BY <1>2, <2>1, <3>1 DEF Chosen, ChosenQueued, Expected
    <3>3. QED BY <3>2 DEF Expected
  <2>2. QED BY <2>1 DEF ChosenQueued
<1>8. ChosenNew' BY <1>2, SameCreation, NewKept
<1>9. ChosenResult' BY ResultKept
<1>10. QED BY <1>4, <1>5, <1>6, <1>7, <1>8, <1>9 DEF Chosen

\* The window's lists are replaced by what is on disk.
LEMMA Refreshed ==
  ASSUME InductiveInv, Chosen, AllChosen, CreationGoesOn,
         UNCHANGED <<dirs, saves, fresh, deleted, chosen>>, op'.pc # "answer", shown' \in Lists,
         \A l \in Lists : \A e \in view'[l] :
           e \in Entry /\ OnDisk(l, e) /\ e.rom = chosen[e.game],
         saves = <<>> \/ (shown' = shown /\ Calm)
  PROVE  Chosen'
<1>1. ChosenOnDisk' BY DEF AllChosen, ChosenOnDisk, Tracked, HasGame, Exists
<1>2. ChosenInView' BY DEF ChosenInView
<1>3. ASSUME NEW i \in DOMAIN saves, NEW f \in saves[i].games
      PROVE  /\ shown' = shown /\ Calm /\ f \in view[shown] /\ f \in Entry
             /\ f.rom = chosen[f.game] /\ (Matches(shown, f) => OnDisk(shown, f))
  <2>1. shown' = shown /\ Calm BY <1>3
  <2>2. f \in view[shown] BY <1>3, <2>1, Queued DEF QueueCalm
  <2>3. QED BY <2>1, <2>2, ShownMatch, ShownEntries DEF ViewSaved, Chosen, ChosenInView
<1>4. ChosenSaved'
  <2>1. ASSUME NEW e \in view'[shown'] PROVE Reaches(e)'
    <3>1. e \in Entry /\ (OnDisk(shown, e))' BY <2>1 DEF OnDisk, Matches, HasGame, Exists
    <3>2. ASSUME NEW i \in DOMAIN saves, NEW f \in saves[i].games, f.name = e.name,
                 f.game = e.game
          PROVE  f = e
      <4>1. shown' = shown /\ f \in Entry /\ (Matches(shown, f) => OnDisk(shown, f))
        BY <1>3, <3>2
      <4>2. OnDisk(shown, e) BY <2>1, <4>1
      <4>3. OnDisk(shown, f) BY <3>2, <4>1, <4>2 DEF OnDisk, Matches
      <4>4. f.rom = e.rom BY <3>2, <4>2, <4>3 DEF OnDisk
      <4>5. QED BY <3>1, <3>2, <4>1, <4>4 DEF Entry
    <3>3. QED BY <3>1, <3>2 DEF Reaches
  <2>2. QED BY <2>1 DEF ChosenSaved
<1>5. ChosenQueued' BY <1>3 DEF ChosenQueued, Expected
<1>6. ChosenNew' BY NewKept
<1>7. ChosenResult' BY DEF ChosenResult
<1>8. QED BY <1>1, <1>2, <1>4, <1>5, <1>6, <1>7 DEF Chosen

-----------------------------------------------------------------------------
(* The steps of the operations. *)

\* Every game on disk afterwards was there before, with the same ROM.
Brought ==
  \A l \in Lists, n \in Names : (HasGame(l, n))' =>
    \E k \in Lists, m \in Names :
      /\ HasGame(k, m) /\ dirs'[l][n].game = dirs[k][m].game
      /\ dirs'[l][n].rom = dirs[k][m].rom

\* Directories that keep their games and ROMs bring nothing new.
LEMMA SameBrought ==
  ASSUME UNCHANGED dirs \/ (SameGames /\ SameRoms)
  PROVE  Brought /\ SameGames /\ SameRoms
<1>1. SameGames /\ SameRoms BY SameDirs
<1>2. ASSUME NEW l \in Lists, NEW n \in Names, (HasGame(l, n))'
      PROVE  /\ HasGame(l, n) /\ dirs'[l][n].game = dirs[l][n].game
             /\ dirs'[l][n].rom = dirs[l][n].rom
  BY <1>1, <1>2 DEF SameGames, SameRoms, HasGame, Exists
<1>3. QED BY <1>1, <1>2 DEF Brought

\* An operation's steps work from the disk, move or remove games, and end only
\* where the directories are as they were.
LEMMA OpStepGames ==
  ASSUME InductiveInv, OneFault, OpStep
  PROVE  Calm /\ deleted \subseteq deleted' /\ Brought /\ (~Calm' => SameGames /\ SameRoms)
<1>1. CASE \/ ImportFails \/ RemoveReplaced \/ DeleteRows \/ QueueCleanup \/ ReadReferences
           \/ Purge \/ WriteQueue \/ MoveCheck \/ MoveDest \/ MoveSource
           \/ UndoDest \/ UndoSource
  <2>1. UNCHANGED dirs
    BY <1>1, ImportFailsFrame, RemoveReplacedFrame, DeleteRowsFrame, QueueCleanupFrame,
       ReadReferencesFrame, PurgeFrame, WriteQueueFrame, MoveCheckFrame, MoveDestFrame,
       MoveSourceFrame, UndoDestFrame, UndoSourceFrame
  <2>2. deleted \subseteq deleted'
    <3>1. CASE DeleteRows BY <3>1, DeleteRowsEffect
    <3>2. CASE ~DeleteRows
      BY <1>1, <3>2, ImportFailsFrame, RemoveReplacedFrame, QueueCleanupFrame,
         ReadReferencesFrame, PurgeFrame, WriteQueueFrame, MoveCheckFrame, MoveDestFrame,
         MoveSourceFrame, UndoDestFrame, UndoSourceFrame
    <3>3. QED BY <3>1, <3>2
  <2>3. Calm
    <3>1. ImportFails => op.pc = "run" BY DEF ImportFails, Running
    <3>2. QED
      BY <1>1, <3>1, RemoveReplacedEffect, DeleteRowsEffect, QueueCleanupEffect,
         ReadReferencesEffect, PurgeEffect, WriteQueueEffect, MoveCheckEffect, MoveDestEffect,
         MoveSourceEffect, UndoDestEffect, UndoSourceEffect DEF Calm
  <2>4. QED BY <2>1, <2>2, <2>3, SameBrought
<1>2. CASE DeleteMark \/ DeleteUndo
  <2>1. op.pc \in {"run", "delUndo"} /\ deleted' = deleted
    BY <1>2, DeleteMarkEffect, DeleteUndoEffect, DeleteMarkFrame, DeleteUndoFrame
  <2>2. op.name \in Names /\ (UNCHANGED dirs \/ \E on \in BOOLEAN :
          Exists(op.list, op.name) /\ Marks(op.list, op.name, on))
    BY <1>2, DeleteMarkEffect, DeleteUndoEffect, InvShapes
       DEF DeleteValid, InductiveInv, DeleteInv, DeletePcs, HasGame
  <2>3. UNCHANGED dirs \/ (SameGames /\ SameRoms) BY <2>2, SameMarks
  <2>4. QED BY <2>1, <2>3, SameBrought DEF Calm
<1>3. CASE DeleteDir
  <2>1. /\ op.pc = "delDir" /\ op'.pc = "queue" /\ deleted' = deleted
        /\ UNCHANGED dirs \/ (dirs'[op.list][op.name] = NoDir /\ OnlyDir(op.list, op.name))
    BY <1>3, DeleteDirEffect, DeleteDirFrame DEF OpMoves
  <2>2. ASSUME NEW l \in Lists, NEW n \in Names, (HasGame(l, n))'
        PROVE  HasGame(l, n) /\ dirs'[l][n] = dirs[l][n]
    BY <2>1, <2>2 DEF OnlyDir, HasGame, Exists
  <2>3. Brought BY <2>2 DEF Brought
  <2>4. QED BY <2>1, <2>3 DEF Calm
<1>4. CASE MoveRename \/ UndoDir
  <2>1. deleted' = deleted BY <1>4, MoveGames
  <2>2. CASE op.pc = "mvRename" /\ UNCHANGED dirs BY <2>1, <2>2, SameBrought DEF Calm
  <2>3. ASSUME op.pc \in {"mvRename", "undoDir"}, op'.pc \in {"mvDest", "undoDest"},
               NEW l, NEW n, NEW k, NEW m, Relocated(l, n, k, m)
        PROVE  Calm /\ Calm' /\ Brought
    <3>1. ASSUME NEW i \in Lists, NEW j \in Names, (HasGame(i, j))'
          PROVE  \E x \in Lists, y \in Names :
                   /\ HasGame(x, y) /\ dirs'[i][j].game = dirs[x][y].game
                   /\ dirs'[i][j].rom = dirs[x][y].rom
      <4>1. CASE i = k /\ j = m BY <2>3, <4>1, RelocatedGames
      <4>2. CASE i # k \/ j # m
        <5>1. i # l \/ j # n BY <2>3, <3>1, RelocatedGames
        <5>2. QED BY <2>3, <3>1, <4>2, <5>1, RelocatedGames
      <4>3. QED BY <4>1, <4>2
    <3>2. QED BY <2>3, <3>1 DEF Brought, Calm
  <2>4. QED BY <1>4, <2>1, <2>2, <2>3, MoveGames DEF OpDirs, OpMoves
<1>5. QED BY <1>1, <1>2, <1>3, <1>4 DEF OpStep

\* What a deletion or a move is about to show lists no deleted game.
LEMMA OpStepResult ==
  ASSUME InductiveInv, OneFault, OpStep, op'.pc = "answer"
  PROVE  \A l \in Lists : \A e \in op'.result[l] : e.game \notin deleted'
<1>1. ASSUME NEW l \in Lists, NEW n \in rows[l], HasGame(l, n)
      PROVE  dirs[l][n].game \notin deleted
  <2>1. n \in Names BY InvShapes DEF DiskShape
  <2>2. QED BY <1>1, <2>1, OnTheDisk
<1>2. CASE Purge \/ WriteQueue
  <2>1. op'.result = Loaded /\ deleted' = deleted
    BY <1>2, PurgeEffect, WriteQueueEffect, PurgeFrame, WriteQueueFrame DEF OpMoves, OpEnds
  <2>2. \A l \in Lists : \A e \in Load(l) : e.game \notin deleted BY <1>1 DEF Load
  <2>3. QED BY <2>1, <2>2 DEF Loaded
<1>3. CASE MoveSource
  <2>1. op'.result = [l \in Lists |-> MoveResult(l)] /\ deleted' = deleted
    BY <1>3, MoveSourceEffect, MoveSourceFrame DEF OpDirs, OpMoves
  <2>2. \A l \in Lists : \A e \in MoveResult(l) : e.game \notin deleted
    BY <1>1 DEF MoveResult
  <2>3. QED BY <2>1, <2>2
<1>4. CASE ~(Purge \/ WriteQueue \/ MoveSource)
  <2>1. ImportFails => OpEnds BY Idle DEF ImportFails, Abandon, OpEnds
  <2>2. QED
    BY <1>4, <2>1, RemoveReplacedEffect, DeleteMarkEffect, DeleteRowsEffect, DeleteUndoEffect,
       DeleteDirEffect, QueueCleanupEffect, ReadReferencesEffect, MoveCheckEffect,
       MoveRenameEffect, MoveDestEffect, UndoDirEffect, UndoDestEffect, UndoSourceEffect
       DEF OpStep, OpEnds, OpMoves, OpDirs
<1>5. QED BY <1>2, <1>3, <1>4

\* No step of an operation loses a choice.
LEMMA OpStepChosen ==
  ASSUME InductiveInv, InductiveInv', OneFault, Chosen, OpStep
  PROVE  Chosen'
<1>1. UNCHANGED <<up, shown, view, timer, saves, writing, left, creating, fresh, chosen>>
  BY OpStepFrame, OpStepCounts
<1>2. Calm /\ deleted \subseteq deleted' /\ Brought /\ (~Calm' => SameGames /\ SameRoms)
  BY OpStepGames
<1>3. AllChosen BY <1>2, AllChosenNow
<1>4. ChosenOnDisk'
  BY <1>1, <1>2, <1>3 DEF AllChosen, Brought, ChosenOnDisk, Tracked
<1>5. ChosenInView' BY <1>1 DEF Chosen, ChosenInView
<1>6. ASSUME NEW i \in DOMAIN saves, NEW f \in saves[i].games
      PROVE  f \in view[shown] /\ f.rom = chosen[f.game]
  <2>1. f \in view[shown] BY <1>2, <1>6, Queued DEF QueueCalm
  <2>2. QED BY <2>1, ShownEntries DEF Chosen, ChosenInView
<1>7. ChosenSaved'
  <2>1. ASSUME ~Calm', NEW e \in view[shown] PROVE Reaches(e)'
    <3>1. ~Gone' BY <2>1 DEF Calm, Gone, CleanPcs
    <3>2. ViewGames' BY DEF InductiveInv, ViewInv
    <3>3. (Matches(shown, e))' BY <1>1, <2>1, <3>1, <3>2, ShownEntries DEF ViewGames
    <3>4. OnDisk(shown, e)
      <4>1. e \in Entry /\ shown \in Lists BY ShownEntries
      <4>2. Matches(shown, e) BY <1>1, <1>2, <2>1, <3>3, <4>1, SameMatches
      <4>3. QED BY <1>2, <4>2, ShownMatch DEF ViewSaved
    <3>5. (OnDisk(shown, e))' BY <1>1, <1>2, <2>1, <3>4, ShownEntries, SameMatches
    <3>6. \A i \in DOMAIN saves : \A f \in saves[i].games : f.name = e.name => f = e
      BY <1>6, ShownMatch, ShownEntries DEF ViewLists, OneEach
    <3>7. QED BY <1>1, <3>5, <3>6 DEF Reaches
  <2>2. QED BY <1>1, <2>1 DEF ChosenSaved
<1>8. ChosenQueued' BY <1>1, <1>6 DEF ChosenQueued, Expected
<1>9. ChosenNew' BY <1>1, SameCreation, NewKept
<1>10. ChosenResult' BY OpStepResult DEF ChosenResult
<1>11. QED BY <1>4, <1>5, <1>7, <1>8, <1>9, <1>10 DEF Chosen

-----------------------------------------------------------------------------
(* The steps of the window, the queue and an addition. *)

\* Another ROM for one entry, for as long as its snapshot is not queued.
LEMMA WithRomChosen ==
  ASSUME NEW s \in SUBSET Entry, NEW g, NEW r \in Roms \cup {NoRom}, NEW f \in WithRom(s, g, r)
  PROVE  \E e \in s : /\ f.name = e.name /\ f.game = e.game
                      /\ f.rom = IF e.game = g THEN r ELSE e.rom
<1>1. PICK e \in s : f = IF e.game = g THEN [e EXCEPT !.rom = r] ELSE e BY DEF WithRom
<1>2. QED BY <1>1 DEF Entry

\* The shown list's entries keep their names and games, and one takes another ROM.
NewRom(g, r) ==
  /\ \A f \in view'[shown] : \E e \in view[shown] :
       f.game = e.game /\ f.rom = IF e.game = g THEN r ELSE e.rom
  /\ \A e \in view[shown] : \E f \in view'[shown] : f.name = e.name /\ f.game = e.game

\* The user chooses another ROM, from the pool or by an import: the shown list is
\* the one that has yet to save it.
LEMMA RomChosen ==
  ASSUME InductiveInv, Chosen, ~Gone, NEW g \in Games, NEW r \in Roms \cup {NoRom},
         \E e \in view[shown] : e.game = g,
         view' \in [Lists -> SUBSET Entry], \A l \in Lists : l # shown => view'[l] = view[l],
         NewRom(g, r),
         chosen' = [chosen EXCEPT ![g] = r],
         UNCHANGED <<dirs, shown, creating, fresh, deleted>>
  PROVE  /\ ChosenOnDisk' /\ ChosenInView'
         /\ \A i \in DOMAIN saves : \A f \in saves[i].games :
              Matches(shown, f) => Expected(f)'
         /\ \A x \in fresh : chosen'[x] = NoRom
         /\ \/ creating.pc \in {"mkdir", "json"}
            \/ creating.pc = "reply" /\ ~creating.detached
            => chosen'[creating.game] = NoRom
<1>1. chosen'[g] = r /\ \A x \in Games : x # g => chosen'[x] = chosen[x]
  BY InvShapes DEF HistoryShape
<1>2. PICK e \in view[shown] : e.game = g OBVIOUS
<1>3. Matches(shown, e) /\ e.name \in Names /\ shown \in Lists BY ShownMatch, ShownEntries
<1>4. ChosenOnDisk'
  <2>1. ASSUME NEW l \in Lists, NEW n \in Names, (HasGame(l, n))', dirs'[l][n].game \notin deleted'
        PROVE  Tracked(l, n)'
    <3>1. HasGame(l, n) /\ dirs[l][n].game \notin deleted /\ dirs[l][n].game \in Games
      BY <2>1, OnTheDisk DEF HasGame, Exists
    <3>2. CASE dirs[l][n].game = g
      <4>1. l = shown /\ n = e.name BY <1>2, <1>3, <3>1, <3>2, OnTheDisk DEF Matches
      <4>2. QED BY <1>2, <3>2, <4>1 DEF Tracked, NewRom
    <3>3. CASE dirs[l][n].game # g
      <4>1. Tracked(l, n) BY <3>1 DEF Chosen, ChosenOnDisk
      <4>2. QED BY <1>1, <3>1, <3>3, <4>1 DEF Tracked, NewRom
    <3>4. QED BY <3>2, <3>3
  <2>2. QED BY <2>1 DEF ChosenOnDisk
<1>5. ChosenInView'
  <2>1. ASSUME NEW l \in Lists, NEW f \in view'[l] PROVE f.rom = chosen'[f.game]
    <3>1. CASE l = shown
      <4>1. PICK x \in view[shown] : f.game = x.game /\ f.rom = IF x.game = g THEN r ELSE x.rom
        BY <2>1, <3>1 DEF NewRom
      <4>2. x.rom = chosen[x.game] /\ x.game \in Games
        BY ShownEntries DEF Chosen, ChosenInView
      <4>3. QED BY <1>1, <4>1, <4>2
    <3>2. CASE l # shown
      <4>1. f \in view[l] BY <2>1, <3>2
      <4>2. f.game # g BY <1>2, <3>2, <4>1, ShownApart, ShownEntries
      <4>3. f.rom = chosen[f.game] /\ f.game \in Games
        BY <4>1, ShownEntries DEF Chosen, ChosenInView
      <4>4. QED BY <1>1, <4>2, <4>3
    <3>3. QED BY <3>1, <3>2
  <2>2. QED BY <2>1 DEF ChosenInView
<1>6. ASSUME NEW i \in DOMAIN saves, NEW f \in saves[i].games, Matches(shown, f)
      PROVE  Expected(f)'
  <2>1. f \in Entry /\ f.name \in Names /\ f.game \in Games BY <1>6, Queued, ShownEntries
  <2>2. CASE f.game = g
    <3>1. f.name = e.name
      BY <1>2, <1>3, <1>6, <2>1, <2>2, OnTheDisk DEF Matches
    <3>2. QED BY <1>2, <2>2, <3>1 DEF Expected, NewRom
  <2>3. CASE f.game # g
    <3>1. Expected(f) BY <1>6 DEF Chosen, ChosenQueued
    <3>2. QED BY <1>1, <2>1, <2>3, <3>1 DEF Expected, NewRom
  <2>4. QED BY <2>2, <2>3
<1>7. /\ g \notin fresh
      /\ \/ creating.pc \in {"mkdir", "json"}
         \/ creating.pc = "reply" /\ ~creating.detached
         => g # creating.game
  BY <1>2, ShownOld
<1>8. \A x \in fresh : chosen'[x] = NoRom
  BY <1>1, <1>7, InvShapes DEF HistoryShape, Chosen, ChosenNew
<1>9. (\/ creating.pc \in {"mkdir", "json"}
       \/ creating.pc = "reply" /\ ~creating.detached)
      => chosen'[creating.game] = NoRom
  BY <1>1, <1>7 DEF Chosen, ChosenNew, InductiveInv, PhaseInv
<1>10. QED BY <1>4, <1>5, <1>6, <1>8, <1>9

\* app.js, the ROM selector: the timer now runs.
LEMMA EditRomChosen ==
  ASSUME InductiveInv, Chosen, NEW e \in view[shown], NEW r \in Roms, EditRom(e, r)
  PROVE  Chosen'
<1> DEFINE f == [e EXCEPT !.rom = r]
<1>1. /\ op.pc = "none" /\ op' = op /\ ~Gone /\ timer' = TRUE
      /\ UNCHANGED <<dirs, shown, saves, creating, fresh, deleted>>
      /\ view' = [view EXCEPT ![shown] = (@ \ {e}) \cup {f}]
      /\ chosen' = [chosen EXCEPT ![e.game] = r]
  BY DEF EditRom, UserActs, Gone, CleanPcs, disk, saving
<1>2. e \in Entry /\ shown \in Lists /\ view \in [Lists -> SUBSET Entry] /\ e.game \in Games
  BY ShownEntries
<1>3. f \in Entry /\ f.name = e.name /\ f.game = e.game /\ f.rom = r BY <1>2 DEF Entry
<1> HIDE DEF f
<1>4. /\ view' \in [Lists -> SUBSET Entry] /\ \A l \in Lists : l # shown => view'[l] = view[l]
      /\ view'[shown] = (view[shown] \ {e}) \cup {f}
  BY <1>1, <1>2, <1>3
<1>5. ASSUME NEW x \in view[shown], x # e PROVE x.game # e.game
  BY <1>1, <1>2, <1>5, ShownApart
<1>6. NewRom(e.game, r)
  <2>1. \A x \in view'[shown] : \E y \in view[shown] :
          x.game = y.game /\ x.rom = IF y.game = e.game THEN r ELSE y.rom
    BY <1>3, <1>4, <1>5
  <2>2. \A x \in view[shown] : \E y \in view'[shown] : y.name = x.name /\ y.game = x.game
    BY <1>3, <1>4
  <2>3. QED BY <2>1, <2>2 DEF NewRom
<1>7. (\E y \in view[shown] : y.game = e.game) /\ r \in Roms \cup {NoRom} OBVIOUS
<1>8. /\ ChosenOnDisk' /\ ChosenInView'
      /\ \A i \in DOMAIN saves : \A x \in saves[i].games : Matches(shown, x) => Expected(x)'
      /\ \A x \in fresh : chosen'[x] = NoRom
      /\ \/ creating.pc \in {"mkdir", "json"}
         \/ creating.pc = "reply" /\ ~creating.detached
         => chosen'[creating.game] = NoRom
  BY <1>1, <1>2, <1>4, <1>6, <1>7, RomChosen
<1>9. ChosenSaved' BY <1>1 DEF ChosenSaved
<1>10. ChosenQueued' BY <1>1, <1>8 DEF ChosenQueued, Matches, HasGame, Exists
<1>11. ChosenNew' BY <1>1, <1>8 DEF Chosen, ChosenNew
<1>12. ChosenResult' BY <1>1, ResultKept
<1>13. QED BY <1>8, <1>9, <1>10, <1>11, <1>12 DEF Chosen

\* app.js, the import of a ROM: its choice is in the save it queues.
LEMMA ImportRomChosen ==
  ASSUME InductiveInv, Chosen, ImportRom
  PROVE  Chosen'
<1> DEFINE now == WithRom(view[shown], op.game, op.rom)
           s == [list |-> shown, by |-> "op", games |-> now]
<1>1. /\ op.pc = "run" /\ op.kind = "import" /\ op.rom \in Roms /\ op'.pc = "resave"
      /\ view' = [view EXCEPT ![shown] = now] /\ saves' = Append(saves, s)
      /\ UNCHANGED <<shown, dirs, creating, fresh, deleted>>
  BY ImportRomEffect, ImportRomFrame DEF OpMoves
<1>2. chosen' = [chosen EXCEPT ![op.game] = op.rom] BY DEF ImportRom
<1>3. view[shown] \in SUBSET Entry /\ shown \in Lists /\ view \in [Lists -> SUBSET Entry]
  BY ShownEntries
<1>4. op.game \in Games /\ op.rom \in Roms \cup {NoRom} BY <1>1 DEF InductiveInv, PhaseInv
<1>5. ~Gone /\ \E e \in view[shown] : e.game = op.game
  BY <1>1, ShownMatch DEF Gone, CleanPcs, ViewOp
<1>6. now \in SUBSET Entry BY <1>3, <1>4, RestoredTyped
<1>7. \A f \in now : \E e \in view[shown] :
        f.game = e.game /\ f.rom = IF e.game = op.game THEN op.rom ELSE e.rom
  BY <1>3, <1>4, WithRomChosen
<1>8. \A e \in view[shown] : \E f \in now : f.name = e.name /\ f.game = e.game
  BY <1>3, <1>4, WithRomKeeps
<1>9. s \in Snapshots /\ s.games = now BY <1>3, <1>6 DEF Snapshots
<1> HIDE DEF now, s
<1>10. /\ view' \in [Lists -> SUBSET Entry] /\ \A l \in Lists : l # shown => view'[l] = view[l]
       /\ view'[shown] = now
  BY <1>1, <1>3, <1>6
<1>11. NewRom(op.game, op.rom) BY <1>7, <1>8, <1>10 DEF NewRom
<1>12. /\ ChosenOnDisk' /\ ChosenInView'
       /\ \A i \in DOMAIN saves : \A x \in saves[i].games : Matches(shown, x) => Expected(x)'
       /\ \A x \in fresh : chosen'[x] = NoRom
       /\ \/ creating.pc \in {"mkdir", "json"}
          \/ creating.pc = "reply" /\ ~creating.detached
          => chosen'[creating.game] = NoRom
  BY <1>1, <1>2, <1>4, <1>5, <1>10, <1>11, RomChosen
<1>13. /\ Len(saves') = Len(saves) + 1 /\ Len(saves) \in Nat
       /\ DOMAIN saves' = 1..(Len(saves) + 1) /\ DOMAIN saves = 1..Len(saves)
       /\ saves'[Len(saves')] = s
       /\ \A i \in DOMAIN saves : saves'[i] = saves[i]
  BY <1>1, <1>9, AppendTyped, InvShapes
<1>14. \A i \in DOMAIN saves' : saves'[i] = s \/ (i \in DOMAIN saves /\ saves'[i] = saves[i])
  BY <1>13
<1>15. saves' # <<>> BY <1>13
<1>16. ChosenSaved' BY <1>1, <1>9, <1>10, <1>13, <1>15 DEF ChosenSaved, Reaches
<1>17. ChosenQueued'
  <2>1. ASSUME NEW i \in DOMAIN saves', NEW f \in saves'[i].games, (Matches(shown, f))'
        PROVE  Expected(f)'
    <3>1. CASE saves'[i] = s
      <4>1. f \in view'[shown] BY <1>9, <1>10, <2>1, <3>1
      <4>2. QED BY <1>1, <4>1 DEF Expected
    <3>2. CASE i \in DOMAIN saves /\ saves'[i] = saves[i]
      <4>1. Matches(shown, f) BY <1>1, <2>1 DEF Matches, HasGame, Exists
      <4>2. QED BY <1>12, <2>1, <3>2, <4>1
    <3>3. QED BY <1>14, <2>1, <3>1, <3>2
  <2>2. QED BY <2>1 DEF ChosenQueued
<1>18. ChosenNew'
  <2>1. ASSUME creating.pc \in {"mkdir", "json"}, NEW i \in DOMAIN saves', NEW f \in saves'[i].games
        PROVE  f.game # creating.game
    <3>1. \A e \in view[shown] : e.game # creating.game BY <1>3, <2>1, ShownMatch DEF ViewNew
    <3>2. CASE saves'[i] = s BY <1>7, <1>9, <2>1, <3>1, <3>2
    <3>3. CASE i \in DOMAIN saves /\ saves'[i] = saves[i]
      BY <2>1, <3>3 DEF Chosen, ChosenNew
    <3>4. QED BY <1>14, <2>1, <3>2, <3>3
  <2>2. QED BY <1>1, <1>12, <2>1 DEF ChosenNew
<1>19. ChosenResult' BY <1>1, ResultKept
<1>20. QED BY <1>12, <1>16, <1>17, <1>18, <1>19 DEF Chosen

\* lib.rs, save_game_json_locked: what the save writes is chosen, or shown.
LEMMA SaveGameChosen ==
  ASSUME InductiveInv, Chosen, NEW e \in left, SaveGame(e)
  PROVE  Chosen'
<1>1. /\ writing /\ MayWrite(Current.list, e) /\ PutGame(Current.list, e)
      /\ UNCHANGED <<shown, view, saves, timer, op, creating, fresh, deleted, chosen>>
  BY DEF SaveGame, window, history
<1>2. /\ saves # <<>> /\ e \in Current.games /\ e \in Entry /\ Matches(shown, e)
  BY <1>1, SavePut
<1>3. /\ 1 \in DOMAIN saves /\ e \in saves[1].games /\ e.name \in Names /\ shown \in Lists
  BY <1>2, HeadOfQueue, ShownEntries
<1>4. Rewrites(e) /\ SameGames BY <1>1, SavePutEffect, SameRewrites
<1>5. Expected(e) BY <1>2, <1>3 DEF Chosen, ChosenQueued
<1>6. ChosenOnDisk'
  <2>1. ASSUME NEW l \in Lists, NEW n \in Names, (HasGame(l, n))', dirs'[l][n].game \notin deleted'
        PROVE  Tracked(l, n)'
    <3>1. HasGame(l, n) /\ dirs'[l][n].game = dirs[l][n].game /\ dirs'[l][n] # NoDir
      BY <1>4, <2>1 DEF SameGames, HasGame, Exists
    <3>2. CASE l = shown /\ n = e.name
      <4>1. dirs'[l][n].rom = e.rom BY <1>4, <3>1, <3>2 DEF Rewrites
      <4>2. dirs[l][n].game = e.game BY <1>2, <3>2 DEF Matches
      <4>3. QED BY <1>1, <1>5, <3>1, <3>2, <4>1, <4>2 DEF Expected, Tracked
    <3>3. CASE l # shown \/ n # e.name
      <4>1. dirs'[l][n].rom = dirs[l][n].rom BY <1>4, <3>1, <3>3 DEF Rewrites
      <4>2. Tracked(l, n) BY <1>1, <2>1, <3>1 DEF Chosen, ChosenOnDisk
      <4>3. QED BY <1>1, <3>1, <4>1, <4>2 DEF Tracked
    <3>4. QED BY <3>2, <3>3
  <2>2. QED BY <2>1 DEF ChosenOnDisk
<1>7. ChosenInView' BY <1>1 DEF Chosen, ChosenInView
<1>8. ChosenSaved'
  <2>1. ASSUME ~timer, ~Calm, NEW x \in view[shown] PROVE Reaches(x)'
    <3>1. Reaches(x) BY <2>1 DEF Chosen, ChosenSaved
    <3>2. x \in Entry BY ShownEntries
    <3>3. CASE OnDisk(shown, x) /\ \A i \in DOMAIN saves : \A f \in saves[i].games :
                 f.name = x.name /\ f.game = x.game => f = x
      <4>1. (OnDisk(shown, x))'
        <5>1. CASE x.name # e.name BY <1>1, <3>2, <3>3, <5>1, OthersRewritten
        <5>2. CASE x.name = e.name
          <6>1. e = x BY <1>2, <1>3, <3>3, <5>2 DEF OnDisk, Matches
          <6>2. (Matches(shown, x))' BY <1>1, <1>3, <1>4, <3>2, <3>3, SameMatches DEF OnDisk
          <6>3. dirs'[shown][x.name].rom = x.rom
            BY <1>1, <1>3, <1>4, <6>1, <6>2 DEF Rewrites, Matches, HasGame, Exists
          <6>4. QED BY <1>1, <6>2, <6>3 DEF OnDisk
        <5>3. QED BY <5>1, <5>2
      <4>2. QED BY <1>1, <3>3, <4>1 DEF Reaches
    <3>4. QED BY <1>1, <3>1, <3>3 DEF Reaches
  <2>2. QED BY <1>1, <2>1 DEF ChosenSaved, Calm
<1>9. ChosenQueued'
  <2>1. ASSUME NEW i \in DOMAIN saves, NEW f \in saves[i].games, (Matches(shown, f))'
        PROVE  Expected(f)'
    <3>1. Matches(shown, f) BY <1>1, <1>3, <1>4, <2>1, Queued, SameMatches
    <3>2. Expected(f) BY <2>1, <3>1 DEF Chosen, ChosenQueued
    <3>3. QED BY <1>1, <3>2 DEF Expected
  <2>2. QED BY <1>1, <2>1 DEF ChosenQueued
<1>10. ChosenNew' BY <1>1, SameCreation, NewKept
<1>11. ChosenResult' BY <1>1, ResultKept
<1>12. QED BY <1>6, <1>7, <1>8, <1>9, <1>10, <1>11 DEF Chosen

\* lib.rs, save_lineup: the whole of the save at the head of the queue is on disk.
LEMMA SaveRowsChosen ==
  ASSUME InductiveInv, Chosen, SaveRows(TRUE)
  PROVE  Chosen'
<1>1. saves # <<>> /\ EndSave(TRUE) /\ writing /\ left = {} /\ UNCHANGED dirs
  BY DEF SaveRows, InductiveInv, WriteInv
<1>2. /\ saves' = Tail(saves)
      /\ UNCHANGED <<shown, timer, creating, fresh, deleted, view, chosen>>
      /\ op' = op \/ op'.pc \in {"replace", "run"}
  BY <1>1, EndSaveOk DEF OpMoves
<1>3. /\ \A i \in DOMAIN saves' : i + 1 \in DOMAIN saves /\ saves'[i] = saves[i + 1]
      /\ Len(saves') = Len(saves) - 1 /\ DOMAIN saves = 1..Len(saves) /\ Len(saves) \in Nat
      /\ saves' \in Seq(Snapshots)
  BY <1>1, <1>2, QueueTail, Queued, CurrentTyped, InvShapes
<1>4. \A i \in DOMAIN saves' : \E j \in DOMAIN saves : saves'[i] = saves[j] BY <1>3
<1>5. ChosenOnDisk' BY <1>1, <1>2, OnDiskKept DEF HasGame, Exists
<1>6. ChosenInView' BY <1>2 DEF Chosen, ChosenInView
<1>7. ChosenSaved'
  <2>1. ASSUME ~timer, ~Calm', NEW x \in view[shown] PROVE Reaches(x)'
    <3>1. ~Calm BY <1>2, <2>1 DEF Calm
    <3>2. Reaches(x) BY <2>1, <3>1 DEF Chosen, ChosenSaved
    <3>3. CASE x \in saves[Len(saves)].games
      <4>1. CASE Len(saves) = 1
        <5>1. x \in Current.games BY <1>1, <3>3, <4>1, HeadOfQueue
        <5>2. OnDisk(shown, x) BY <1>1, <5>1 DEF InductiveInv, WriteInv
        <5>3. DOMAIN saves' = {} BY <1>3, <4>1
        <5>4. QED BY <1>1, <1>2, <5>2, <5>3 DEF Reaches, OnDisk, Matches, HasGame, Exists
      <4>2. CASE Len(saves) # 1
        <5>1. Len(saves) >= 2 BY <1>1, <1>3, <4>2
        <5>2. Len(saves') \in DOMAIN saves' BY <1>3, <5>1
        <5>3. saves'[Len(saves')] = saves[Len(saves)] /\ saves' # <<>> BY <1>3, <5>1, <5>2
        <5>4. QED BY <3>3, <5>3 DEF Reaches
      <4>3. QED BY <4>1, <4>2
    <3>4. CASE OnDisk(shown, x) /\ \A i \in DOMAIN saves : \A f \in saves[i].games :
                 f.name = x.name /\ f.game = x.game => f = x
      BY <1>1, <1>2, <1>4, <3>4 DEF Reaches, OnDisk, Matches, HasGame, Exists
    <3>5. QED BY <3>2, <3>3, <3>4 DEF Reaches
  <2>2. QED BY <1>2, <2>1 DEF ChosenSaved
<1>8. ChosenQueued'
  <2>1. ASSUME NEW i \in DOMAIN saves', NEW f \in saves'[i].games, (Matches(shown, f))'
        PROVE  Expected(f)'
    <3>1. Matches(shown, f) BY <1>1, <1>2, <2>1 DEF Matches, HasGame, Exists
    <3>2. Expected(f) BY <1>4, <2>1, <3>1 DEF Chosen, ChosenQueued
    <3>3. QED BY <1>2, <3>2 DEF Expected
  <2>2. QED BY <2>1 DEF ChosenQueued
<1>9. ChosenNew' BY <1>2, <1>4, SameCreation, NewKept
<1>10. ChosenResult' BY <1>2, ResultKept
<1>11. QED BY <1>5, <1>6, <1>7, <1>8, <1>9, <1>10 DEF Chosen

\* The queue is empty, so nothing queued is of any game.
LEMMA NoneQueued ==
  ASSUME saves = <<>>
  PROVE  DOMAIN saves = {}
OBVIOUS

\* The library is opened, or a folder entered or left.
LEMMA NavigationChosen ==
  ASSUME InductiveInv, Patient, Chosen, Open \/ EnterFolder \/ ExitFolder
  PROVE  Chosen'
<1>1. /\ ~timer /\ saves = <<>> /\ creating.pc = "none" /\ op.pc = "none" /\ op' = op
      /\ UNCHANGED <<dirs, saves, fresh, deleted, chosen>> /\ creating' = creating
  BY Idle DEF Open, EnterFolder, ExitFolder, MayNavigate, MayLeave, UserActs, Settled, disk,
     saving, history, InductiveInv, PhaseInv
<1>2. AllChosen BY <1>1, AllChosenNow
<1>3. shown' \in Lists /\ \A l \in Lists : \A e \in view'[l] :
        e \in Load(l) \/ (e \in view[l] /\ OnDisk(l, e))
  <2>1. CASE Open BY <2>1 DEF Open, Lists
  <2>2. CASE EnterFolder
    <3>1. /\ view["lineup"] = Load("lineup") /\ shown' = "folder"
          /\ view' = [view EXCEPT !["folder"] = Load("folder")]
      BY <2>2 DEF EnterFolder, MayNavigate, Saved
    <3>2. QED BY <3>1, ShownEntries DEF Lists
  <2>3. CASE ExitFolder
    <3>1. shown' = "lineup" /\ shown = "folder" /\ view' = [view EXCEPT !["folder"] = {}]
      BY <2>3 DEF ExitFolder
    <3>2. \A e \in view["lineup"] : OnDisk("lineup", e) BY <3>1, ShownMatch DEF ViewSaved
    <3>3. QED BY <3>1, <3>2, ShownEntries DEF Lists
  <2>4. QED BY <2>1, <2>2, <2>3
<1>4. \A l \in Lists : \A e \in view'[l] : e \in Entry /\ OnDisk(l, e) /\ e.rom = chosen[e.game]
  BY <1>2, <1>3, LoadChosen, ShownEntries DEF Chosen, ChosenInView
<1>5. QED BY <1>1, <1>2, <1>3, <1>4, SameCreation, Refreshed

\* The window shows the answer of a deletion or a move.
LEMMA AnswerChosen ==
  ASSUME InductiveInv, Chosen, Answer
  PROVE  Chosen'
<1>1. /\ op.pc = "answer" /\ Calm /\ op' = NoOp /\ shown' = shown /\ shown \in Lists
      /\ UNCHANGED <<dirs, saves, fresh, deleted, chosen>>
      /\ view' = [l \in Lists |-> IF l = "lineup" \/ shown = l THEN op.result[l] ELSE {}]
  BY ShownEntries DEF Answer, Calm, disk, saving, history
<1>2. CreationGoesOn
  BY InvShapes DEF Answer, CreationGoesOn, Creations
<1>3. AllChosen BY <1>1, AllChosenNow
<1>4. ASSUME NEW l \in Lists, NEW e \in view'[l]
      PROVE  e \in Entry /\ OnDisk(l, e) /\ e.rom = chosen[e.game]
  <2>1. e \in op.result[l] BY <1>1, <1>4
  <2>2. e \in Entry /\ OnDisk(l, e) /\ e.name \in Names
    BY <1>1, <2>1, ResultEntries, ShownEntries
  <2>3. e.game \notin deleted BY <1>1, <2>1 DEF Chosen, ChosenResult
  <2>4. QED BY <1>3, <2>2, <2>3 DEF AllChosen, OnDisk, Matches
<1>5. QED BY <1>1, <1>2, <1>3, <1>4, Idle, Refreshed

\* app.js, addGame: its identity is new.
LEMMA AddGameChosen ==
  ASSUME InductiveInv, Patient, Chosen, NEW n \in Names, NEW g \in Games, AddGame(n, g)
  PROVE  Chosen'
<1>1. /\ ~timer /\ saves = <<>> /\ op.pc = "none" /\ g \in fresh /\ fresh' = fresh \ {g}
      /\ creating'.pc = "mkdir" /\ creating'.game = g
      /\ UNCHANGED <<dirs, shown, view, timer, saves, op, deleted, chosen>>
  BY DEF AddGame, MayLeave, UserActs, Settled, disk, window, saving, history
<1>2. ChosenOnDisk' BY <1>1, OnDiskKept DEF HasGame, Exists
<1>3. ChosenInView' BY <1>1 DEF Chosen, ChosenInView
<1>4. ChosenSaved'
  BY <1>1 DEF Chosen, ChosenSaved, Reaches, Calm, OnDisk, Matches, HasGame, Exists
<1>5. ChosenQueued' BY <1>1, NoneQueued DEF ChosenQueued
<1>6. ChosenNew' BY <1>1, NoneQueued DEF Chosen, ChosenNew
<1>7. ChosenResult' BY <1>1, ResultKept
<1>8. QED BY <1>2, <1>3, <1>4, <1>5, <1>6, <1>7 DEF Chosen

\* A directory of the shown list changes that held no game: the addition's, when
\* it is made and when its metadata is written.
LEMMA CreationChosen ==
  ASSUME InductiveInv, Chosen, CreateDir \/ CreateJson \/ CreateFails
  PROVE  Chosen'
<1>1. UNCHANGED <<shown, view, timer, saves, op, fresh, deleted, chosen>>
  BY DEF CreateDir, CreateJson, CreateFails, window, saving, history
<1>2. CreationGoesOn
  BY InvShapes, Idle DEF CreateDir, CreateJson, CreateFails, CreationGoesOn, Creations
<1>3. ASSUME NEW l \in Lists, NEW n \in Names
      PROVE  \/ dirs'[l][n] = dirs[l][n]
             \/ ~HasGame(l, n) /\ ~(HasGame(l, n))'
             \/ /\ ~HasGame(l, n) /\ creating.pc = "json" /\ dirs'[l][n].rom = NoRom
                /\ dirs'[l][n].game = creating.game
  <2>1. CASE CreateDir
    <3>1. CASE UNCHANGED dirs BY <3>1
    <3>2. CASE ~UNCHANGED dirs
      <4>1. /\ ~Exists(shown, creating.name) /\ OnlyDir(shown, creating.name)
            /\ dirs'[shown][creating.name].game = NoGame
        BY <2>1, <3>2, CreateDirEffect
      <4>2. QED BY <4>1 DEF OnlyDir, HasGame
    <3>3. QED BY <3>1, <3>2
  <2>2. CASE CreateJson \/ CreateFails
    <3>1. CASE Placed BY <3>1 DEF Placed, OnlyDir, Empty
    <3>2. QED BY <2>2, <3>1, CreateGames
  <2>3. QED BY <2>1, <2>2
<1>4. ChosenOnDisk'
  <2>1. ASSUME NEW l \in Lists, NEW n \in Names, (HasGame(l, n))', dirs'[l][n].game \notin deleted'
        PROVE  Tracked(l, n)'
    <3>1. CASE dirs'[l][n] = dirs[l][n]
      <4>1. Tracked(l, n) BY <1>1, <2>1, <3>1 DEF Chosen, ChosenOnDisk, HasGame, Exists
      <4>2. QED BY <1>1, <3>1, <4>1 DEF Tracked
    <3>2. CASE creating.pc = "json" /\ dirs'[l][n].rom = NoRom /\ dirs'[l][n].game = creating.game
      BY <1>1, <3>2 DEF Chosen, ChosenNew, Tracked
    <3>3. QED BY <1>3, <2>1, <3>1, <3>2
  <2>2. QED BY <2>1 DEF ChosenOnDisk
<1>5. ChosenInView' BY <1>1 DEF Chosen, ChosenInView
<1>6. ChosenSaved'
  <2>1. ASSUME NEW x \in view[shown], OnDisk(shown, x) PROVE (OnDisk(shown, x))'
    <3>1. x.name \in Names /\ shown \in Lists /\ HasGame(shown, x.name)
      BY <2>1, ShownEntries DEF OnDisk, Matches
    <3>2. dirs'[shown][x.name] = dirs[shown][x.name] BY <1>3, <3>1
    <3>3. QED BY <1>1, <2>1, <3>2 DEF OnDisk, Matches, HasGame, Exists
  <2>2. QED BY <1>1, <2>1 DEF Chosen, ChosenSaved, Reaches, Calm
<1>7. ChosenQueued'
  <2>1. ASSUME NEW i \in DOMAIN saves, NEW f \in saves[i].games, (Matches(shown, f))'
        PROVE  Expected(f)'
    <3>1. f.name \in Names /\ shown \in Lists BY <2>1, Queued, ShownEntries
    <3>2. dirs'[shown][f.name] = dirs[shown][f.name]
      <4>1. (HasGame(shown, f.name))' /\ dirs'[shown][f.name].game = f.game
        BY <1>1, <2>1 DEF Matches, HasGame, Exists
      <4>2. ~(creating.pc = "json" /\ f.game = creating.game)
        BY <2>1 DEF Chosen, ChosenNew
      <4>3. QED BY <1>1, <1>3, <3>1, <4>1, <4>2 DEF HasGame, Exists
    <3>3. Expected(f)
      BY <1>1, <2>1, <3>2 DEF Chosen, ChosenQueued, Matches, HasGame, Exists
    <3>4. QED BY <1>1, <3>3 DEF Expected
  <2>2. QED BY <1>1, <2>1 DEF ChosenQueued
<1>8. ChosenNew' BY <1>1, <1>2, NewKept
<1>9. ChosenResult' BY <1>1, ResultKept
<1>10. QED BY <1>4, <1>5, <1>6, <1>7, <1>8, <1>9 DEF Chosen

\* The new game is shown, with no ROM chosen, and the timer runs.
LEMMA CreateReplyChosen ==
  ASSUME InductiveInv, Chosen, CreateReply
  PROVE  Chosen'
<1>1. /\ creating.pc = "reply" /\ creating' = NoCreate /\ timer' = TRUE
      /\ UNCHANGED <<dirs, shown, saves, op, fresh, deleted, chosen>>
      /\ view' = IF creating.detached THEN view
                 ELSE [view EXCEPT ![shown] = @ \cup {Created}]
  BY DEF CreateReply, disk, saving, history
<1>2. CreationGoesOn BY <1>1, Idle DEF CreationGoesOn
<1>3. /\ \A l \in Lists : view[l] \subseteq view'[l]
      /\ \A l \in Lists : \A e \in view'[l] :
           e \in view[l] \/ (~creating.detached /\ e = Created)
      /\ shown \in Lists
  BY <1>1, ShownEntries
<1>4. ChosenOnDisk'
  BY <1>1, <1>3 DEF Chosen, ChosenOnDisk, Tracked, HasGame, Exists
<1>5. ChosenInView'
  <2>1. ~creating.detached => Created.rom = chosen[Created.game]
    BY <1>1 DEF Chosen, ChosenNew, Created
  <2>2. QED BY <1>1, <1>3, <2>1 DEF Chosen, ChosenInView
<1>6. ChosenSaved' BY <1>1 DEF ChosenSaved
<1>7. ChosenQueued'
  BY <1>1, <1>3 DEF Chosen, ChosenQueued, Expected, Matches, HasGame, Exists
<1>8. ChosenNew' BY <1>1, <1>2, NewKept
<1>9. ChosenResult' BY <1>1, ResultKept
<1>10. QED BY <1>4, <1>5, <1>6, <1>7, <1>8, <1>9 DEF Chosen

-----------------------------------------------------------------------------
(* The choices reach the disk. *)

\* A step that spoils nothing keeps every choice.
LEMMA ChosenStep ==
  ASSUME InductiveInv, InductiveInv', Patient, OneFault, Chosen, Next, ~spoiled'
  PROVE  Chosen'
<1>1. ASSUME NEW e \in view[shown], NEW r \in Roms, EditRom(e, r)
      PROVE  Chosen'
  BY <1>1, EditRomChosen
<1>2. ASSUME NEW kind \in {"delete", "move", "import"}, NEW e \in view[shown],
             NEW r \in Roms \cup {NoRom}, kind = "import" => r \in Roms, Start(kind, e, r)
      PROVE  Chosen'
  <2> DEFINE s == [list |-> shown, games |-> view[shown], by |-> "op"]
  <2>1. /\ op'.pc = "drain" /\ saves' = Append(saves, s)
        /\ UNCHANGED <<dirs, shown, view, creating, fresh, deleted, chosen>>
    BY <1>2, StartEffect DEF Start, disk, history
  <2>2. s \in Snapshots /\ s.games = view[shown] BY ShownEntries DEF Snapshots
  <2> HIDE DEF s
  <2>3. QED BY <2>1, <2>2, SnapshotTaken
<1>3. CASE TimerFires
  <2> DEFINE s == [list |-> shown, games |-> view[shown], by |-> "timer"]
  <2>1. /\ op' = op /\ saves' = Append(saves, s)
        /\ UNCHANGED <<dirs, shown, view, creating, fresh, deleted, chosen>>
    BY <1>3 DEF TimerFires, Snapshot, disk, history
  <2>2. s \in Snapshots /\ s.games = view[shown] BY ShownEntries DEF Snapshots
  <2> HIDE DEF s
  <2>3. QED BY <2>1, <2>2, SnapshotTaken
<1>4. CASE BeginSave
  <2>1. UNCHANGED <<dirs, shown, view, timer, saves, op, creating, fresh, deleted, chosen>>
    BY <1>4 DEF BeginSave, disk, window, history
  <2>2. QED BY <2>1, SameChoice
<1>5. CASE RefuseSave BY <1>5 DEF RefuseSave, EndSave
<1>6. ASSUME NEW e \in left, SaveGame(e) \/ SaveGameFails(e)
      PROVE  Chosen'
  <2>1. SaveGameFails(e) => spoiled' BY DEF SaveGameFails, EndSave
  <2>2. QED BY <1>6, <2>1, SaveGameChosen
<1>7. ASSUME NEW ok \in BOOLEAN, SaveRows(ok)
      PROVE  Chosen'
  <2>1. SaveRows(FALSE) => spoiled' BY DEF SaveRows, EndSave
  <2>2. CASE ok = TRUE BY <1>7, <2>2, SaveRowsChosen
  <2>3. CASE ok = FALSE BY <1>7, <2>1, <2>3
  <2>4. QED BY <2>2, <2>3
<1>8. CASE Open \/ EnterFolder \/ ExitFolder BY <1>8, NavigationChosen
<1>9. ASSUME NEW n \in Names, NEW g \in Games, AddGame(n, g)
      PROVE  Chosen'
  BY <1>9, AddGameChosen
<1>10. CASE CreateDir \/ CreateJson \/ CreateFails BY <1>10, CreationChosen
<1>11. CASE CreateReply BY <1>11, CreateReplyChosen
<1>12. CASE ImportRom BY <1>12, ImportRomChosen
<1>13. CASE OpStep BY <1>13, OpStepChosen
<1>14. CASE Answer BY <1>14, AnswerChosen
<1>15. CASE Crash BY <1>15 DEF Crash
<1>16. QED
  BY <1>1, <1>2, <1>3, <1>4, <1>5, <1>6, <1>7, <1>8, <1>9, <1>10, <1>11, <1>12, <1>13,
     <1>14, <1>15
     DEF Next, OpStep, StartDelete, StartMove, StartImport

\* A save that failed, or a crash, is not forgotten.
LEMMA StaysSpoiled ==
  ASSUME InductiveInv, [Next]_vars, spoiled
  PROVE  spoiled'
<1>1. CASE UNCHANGED vars BY <1>1 DEF vars, history
<1>2. CASE Next
  <2>1. CASE OpStep BY <2>1, OpStepCounts
  <2>2. CASE ~OpStep
    BY <1>2, <2>2
       DEF Next, OpStep, EditRom, StartDelete, StartMove, StartImport, Start, TimerFires,
           BeginSave, RefuseSave, SaveGame, SaveGameFails, SaveRows, EndSave, Open,
           EnterFolder, ExitFolder, AddGame, CreateDir, CreateJson, CreateFails, CreateReply,
           ImportRom, Answer, Crash, history
  <2>3. QED BY <2>1, <2>2
<1>3. QED BY <1>1, <1>2

\* Every step keeps the choices.
LEMMA ChoiceStep ==
  ASSUME Patient, OneFault, InductiveInv, InductiveInv', ChoiceInv, [Next]_vars
  PROVE  ChoiceInv'
<1>1. SUFFICES ASSUME ~spoiled' PROVE Chosen' BY DEF ChoiceInv
<1>2. Chosen BY <1>1, StaysSpoiled DEF ChoiceInv
<1>3. CASE Next BY <1>1, <1>2, <1>3, ChosenStep
<1>4. CASE UNCHANGED vars
  BY <1>2, <1>4, SameChoice DEF vars, disk, window, saving, history
<1>5. QED BY <1>3, <1>4

\* The library is opened on the ROMs its metadata names.
LEMMA ChoiceInit ==
  ASSUME Init
  PROVE  ChoiceInv
<1>1. PICK n \in Names, a, b \in Games, r, s \in Roms :
        /\ a # b
        /\ rows = [l \in Lists |-> {n}]
        /\ dirs = [l \in Lists |-> [m \in Names |->
                     IF m # n THEN NoDir
                     ELSE [game |-> IF l = "lineup" THEN a ELSE b,
                           rom |-> IF l = "lineup" THEN r ELSE s, marked |-> FALSE]]]
        /\ pool = {r, s}
        /\ fresh = Games \ {a, b}
        /\ chosen = [g \in Games |-> IF g = a THEN r ELSE IF g = b THEN s ELSE NoRom]
  BY DEF Init
<1>2. /\ view = [l \in Lists |-> {}] /\ saves = <<>> /\ op.pc = "none" /\ creating.pc = "none"
      /\ shown \in Lists
  BY Idle DEF Init, Lists
<1>3. ChosenOnDisk
  <2>1. ASSUME NEW l \in Lists, NEW m \in Names, HasGame(l, m)
        PROVE  dirs[l][m].rom = chosen[dirs[l][m].game]
    <3>1. m = n BY <1>1, <2>1 DEF HasGame, Exists
    <3>2. dirs[l][m] = [game |-> IF l = "lineup" THEN a ELSE b,
                        rom |-> IF l = "lineup" THEN r ELSE s, marked |-> FALSE]
      BY <1>1, <3>1
    <3>3. QED BY <1>1, <3>2
  <2>2. QED BY <2>1 DEF ChosenOnDisk, Tracked
<1>4. ChosenInView /\ ChosenSaved BY <1>2 DEF ChosenInView, ChosenSaved
<1>5. ChosenQueued BY <1>2, NoneQueued DEF ChosenQueued
<1>6. ChosenNew BY <1>1, <1>2 DEF ChosenNew
<1>7. ChosenResult BY <1>2 DEF ChosenResult
<1>8. QED BY <1>3, <1>4, <1>5, <1>6, <1>7 DEF Chosen, ChoiceInv

\* app.js, lib.rs: once everything is saved and nothing failed, the ROM on disk is
\* the one the user last chose, whatever was typed, imported, moved, deleted and
\* added meanwhile.
THEOREM EditsAreKept ==
  ASSUME Patient, OneFault
  PROVE  Spec => []EditsReachDisk
<1>1. Init => ChoiceInv BY ChoiceInit
<1>2. InductiveInv /\ InductiveInv' /\ ChoiceInv /\ [Next]_vars => ChoiceInv' BY ChoiceStep
<1>3. InductiveInv /\ ChoiceInv => EditsReachDisk
  <2>1. SUFFICES ASSUME InductiveInv, ChoiceInv, Settled, op.pc = "none", ~spoiled,
                        NEW p \in Places, GameAt(p) \notin deleted
                 PROVE  RomAt(p) = chosen[GameAt(p)]
    BY DEF EditsReachDisk
  <2>2. Chosen /\ ~timer /\ saves = <<>> BY <2>1 DEF ChoiceInv, Settled
  <2>3. AllChosen BY <2>1, <2>2, AllChosenNow
  <2>4. p[1] \in Lists /\ p[2] \in Names /\ HasGame(p[1], p[2]) BY DEF Places
  <2>5. QED BY <2>1, <2>3, <2>4 DEF AllChosen, GameAt, RomAt
<1>4. QED BY <1>1, <1>2, <1>3, EditorAgrees, PTL DEF Spec
=============================================================================
