------------------------ MODULE LibraryCreationProofs ------------------------
(***************************************************************************)
(* Proofs about LibraryCreation: for any number of editors, any dumps and   *)
(* any user, an entry of the destination only ever gains files, what can be *)
(* seen is whole, and a window is told the truth.                           *)
(***************************************************************************)
EXTENDS LibraryCreation, TLAPS

-----------------------------------------------------------------------------
(* The inductive invariant. *)

Owners == Windows \cup {User}
Contents == (SUBSET Files) \cup LibraryDirs
Entry == [by : Owners, has : Contents]

\* What an entry of each name holds.
Held(e, c) ==
    /\ e = "game" => c \in SUBSET Files
    /\ e = "library" => c \in LibraryDirs
    /\ e = "source" => c = {}

Trees == [Names -> {None} \cup Entry]
IsTree(t) ==
    /\ t \in Trees
    /\ \A e \in Names : t[e] # None => Held(e, t[e].has)

Staging == {"copy", "extract", "prepare", "check", "whole"}
Installing == {"absent", "rename", "rollback"}
Creation == Staging \cup Installing \cup {"identify"}
Stages == {"idle"} \cup Creation \cup InPlace
Moves == {<<>>, <<"game">>, <<"game", "library">>, Entries}
Outcomes == {"nothing", "failed", "kept", "done", "initialised", "initFailed",
             "open", "bare", "refused"}
Jobs == [at : Stages, dump : {None} \cup Dumps \cup Backups, games : BOOLEAN, new : BOOLEAN,
         moved : Moves]

TypeOK ==
    /\ exists \in BOOLEAN
    /\ IsTree(dest)
    /\ stage \in [Windows -> Trees] /\ \A w \in Windows : IsTree(stage[w])
    /\ job \in [Windows -> Jobs]
    /\ told \in [Windows -> Outcomes]
    /\ stuck \subseteq Names
    /\ bounds \in [acts : Nat, faults : Nat, kills : Nat]

\* What a window has put into the destination, and what it knows it has.
By(w, e) == dest[e] # None /\ dest[e].by = w
InSeq(e, s) == \E i \in 1..Len(s) : s[i] = e

\* A staged entry of window w that is complete.
Good(w, e, x) ==
    /\ x # None /\ x.by = w
    /\ e = "game" => x.has = Files
    /\ e = "library" => /\ x.has.tmpl = Templates /\ x.has.marker /\ Listed(x.has)
                        /\ \A l \in Lineups : x.has.lists[l] # None

\* A job moves nothing before its staging directory is whole, has answered
\* nothing, and reads a complete dump.
JobFine(w) ==
    /\ job[w].at \notin Installing \cup {"identify"} => job[w].moved = <<>>
    /\ job[w].at # "idle" => told[w] = "nothing"
    /\ job[w].at \in Creation => job[w].dump \in Dumps /\ Complete(job[w].dump)
    /\ job[w].at = "rename" => Len(job[w].moved) < 3
    /\ job[w].at \in Installing \cup {"identify"} => exists
JobInv == \A w \in Windows : JobFine(w)

\* An initialisation in place shares its directory with no creation.
PlaceFine(w) ==
    job[w].at \in InPlace =>
      /\ dest["library"] # None
      /\ \A v \in Windows : job[v].at \in InPlace \cup {"idle"}
      /\ job[w].at # "lists" => \A l \in Lineups : dest["library"].has.lists[l] # None
PlaceInv == \A w \in Windows : PlaceFine(w)

\* What the staging directory of a job holds at each stage.
StageFine(w) ==
    /\ job[w].at = "copy" => stage[w] = Nothing
    /\ job[w].at = "extract" =>
         /\ stage[w]["game"] = Owned(w, Files) /\ stage[w]["source"] = None
         /\ stage[w]["library"] = Owned(w, [Bare EXCEPT !.tmpl = Templates])
    /\ job[w].at = "prepare" =>
         /\ stage[w]["game"] = Owned(w, Files) /\ stage[w]["source"] = None
         /\ stage[w]["library"] # None /\ stage[w]["library"].by = w
         /\ stage[w]["library"].has.tmpl = Templates /\ Listed(stage[w]["library"].has)
         /\ \A l \in Lineups : stage[w]["library"].has.lists[l] # None
    /\ job[w].at \in {"check", "whole"} => \A e \in Names : Good(w, e, stage[w][e])
    /\ job[w].at \in Installing => \A e \in Names : By(w, e) \/ Good(w, e, stage[w][e])
StageInv == \A w \in Windows : StageFine(w)

\* Which entries of the destination are those of a job: the ones it moved and,
\* during a rollback, those that would not go back.
MineFine(w) ==
    /\ job[w].at \in Staging => \A e \in Names : ~By(w, e)
    /\ job[w].at \in Installing =>
         \A e \in Names : By(w, e) <=> (InSeq(e, job[w].moved) \/ (By(w, e) /\ e \in stuck))
    /\ job[w].at \in {"absent", "rename"} => \A e \in stuck : ~By(w, e)
    /\ job[w].at \in Installing => \A e \in Names : ~(InSeq(e, job[w].moved) /\ e \in stuck)
    /\ job[w].at = "identify" => \A e \in Names : By(w, e)
MineInv == \A w \in Windows : MineFine(w)

\* The entries of windows are complete, those that are stuck are still there,
\* and without such an entry no window has a later entry and not the earlier.
DestInv ==
    /\ ~exists => dest = Nothing
    /\ \A e \in Names : Windowed(e) => Good(dest[e].by, e, dest[e])
    /\ \A e \in stuck : Windowed(e)
    /\ stuck = {} => \A w \in Windows : /\ By(w, "library") => By(w, "game")
                                        /\ By(w, "source") => By(w, "library")

\* A library of the user is marked only with all it needs beside it, and
\* nobody takes that away.
UserInv ==
    dest["library"] # None /\ dest["library"].by = User =>
      /\ Listed(dest["library"].has)
      /\ dest["library"].has.marker =>
           /\ Prepares(GameFiles, dest["library"].has)
           /\ \A w \in Windows : job[w].at \notin Creation

\* What an editor opens: a library the console reads.
Marked == HasLibrary /\ dest["library"].has.marker

ToldFine(w) ==
    /\ told[w] = "done" => \A e \in Names : By(w, e)
    /\ told[w] = "failed" => (\A e \in Names : ~By(w, e)) \/ (\A e \in Names : By(w, e))
    /\ told[w] = "kept" => \A e \in Names : By(w, e) \/ stage[w][e] # None
    /\ told[w] \in {"initialised", "open"} =>
         /\ Marked
         /\ \A v \in Windows : job[v].at \notin Creation
ToldInv == \A w \in Windows : ToldFine(w)

InductiveInv == TypeOK /\ JobInv /\ PlaceInv /\ StageInv /\ MineInv /\ DestInv /\ UserInv /\ ToldInv

-----------------------------------------------------------------------------
(* The entries a job has moved. *)

\* The library comes after the game directory, and source.json last.
LEMMA MoveFacts ==
  ASSUME NEW m \in Moves
  PROVE  /\ Len(m) \in 0..3
         /\ Len(m) = 3 <=> \A e \in Names : InSeq(e, m)
         /\ InSeq("library", m) => InSeq("game", m)
         /\ InSeq("source", m) => InSeq("library", m)
         /\ m = <<>> => \A e \in Names : ~InSeq(e, m)
<1>1. CASE m = <<>> BY <1>1 DEF InSeq, Names
<1>2. CASE m = <<"game">> BY <1>2 DEF InSeq, Names
<1>3. CASE m = <<"game", "library">>
  <2>1. Len(m) = 2 /\ m[1] = "game" /\ m[2] = "library" BY <1>3
  <2>2. QED BY <2>1, <1>3 DEF InSeq, Names
<1>4. CASE m = Entries
  <2>1. Len(m) = 3 /\ m[1] = "game" /\ m[2] = "library" /\ m[3] = "source" BY <1>4 DEF Entries
  <2>2. InSeq("game", m) /\ InSeq("library", m) /\ InSeq("source", m) BY <2>1 DEF InSeq
  <2>3. m # <<>> BY <2>1
  <2>4. QED BY <2>1, <2>2, <2>3 DEF Names
<1>5. QED BY <1>1, <1>2, <1>3, <1>4 DEF Moves

\* Entries come one by one, and go in the opposite order.
LEMMA ShortSequences ==
  /\ Append(<<"game">>, "library") = <<"game", "library">>
  /\ Append(<<"game", "library">>, "source") = Entries
  /\ Front(<<"game", "library">>) = <<"game">>
  /\ Front(Entries) = <<"game", "library">>
<1>1. <<"game", "library">> = Append(<<"game">>, "library") OBVIOUS
<1>2. <<"game", "library", "source">> = Append(<<"game", "library">>, "source") OBVIOUS
<1>3. <<"game">> = SubSeq(<<"game", "library">>, 1, 1) OBVIOUS
<1>4. <<"game", "library">> = SubSeq(<<"game", "library", "source">>, 1, 2) OBVIOUS
<1>5. Len(<<"game", "library">>) = 2 /\ Len(<<"game", "library", "source">>) = 3 OBVIOUS
<1>6. 2 - 1 = 1 /\ 3 - 1 = 2 OBVIOUS
<1>7. QED BY <1>1, <1>2, <1>3, <1>4, <1>5, <1>6, Zenon DEF Entries, Front

\* The next entry, and what has been moved with it.
LEMMA NextFacts ==
  ASSUME NEW m \in Moves, Len(m) # 3
  PROVE  LET e == Entries[Len(m) + 1] IN
           /\ e \in Names /\ ~InSeq(e, m) /\ Append(m, e) \in Moves
           /\ \A n \in Names : InSeq(n, Append(m, e)) <=> InSeq(n, m) \/ n = e
<1>1. Entries[1] = "game" /\ Entries[2] = "library" /\ Entries[3] = "source" BY DEF Entries
<1>2. CASE m = <<>>
  <2>1. Len(m) = 0 /\ Append(m, "game") = <<"game">> BY <1>2
  <2>2. QED BY <2>1, <1>1, <1>2 DEF InSeq, Names, Moves
<1>3. CASE m = <<"game">>
  <2>1. Len(m) = 1 /\ m[1] = "game" BY <1>3
  <2>2. Append(m, "library") = <<"game", "library">> BY <1>3, ShortSequences
  <2>3. QED BY <2>1, <2>2, <1>1, <1>3 DEF InSeq, Names, Moves
<1>4. CASE m = <<"game", "library">>
  <2>1. Len(m) = 2 /\ m[1] = "game" /\ m[2] = "library" BY <1>4
  <2>2. Append(m, "source") = Entries BY <1>4, ShortSequences
  <2>3. QED BY <2>1, <2>2, <1>1 DEF InSeq, Names, Moves
<1>5. m # Entries BY DEF Entries
<1>6. QED BY <1>2, <1>3, <1>4, <1>5 DEF Moves

\* The last entry, and what has been moved without it.
LEMMA LastFacts ==
  ASSUME NEW m \in Moves, m # <<>>
  PROVE  /\ Last(m) \in Names /\ InSeq(Last(m), m) /\ Front(m) \in Moves
         /\ \A n \in Names : InSeq(n, Front(m)) <=> InSeq(n, m) /\ n # Last(m)
         /\ Last(m) = "game" => ~InSeq("library", m)
         /\ Last(m) = "library" => ~InSeq("source", m)
<1>2. CASE m = <<"game">>
  <2>1. Len(m) = 1 /\ m[1] = "game" BY <1>2
  <2>2. Last(m) = "game" /\ Front(m) = <<>> BY <1>2 DEF Last, Front
  <2>3. QED BY <2>1, <2>2 DEF InSeq, Names, Moves
<1>3. CASE m = <<"game", "library">>
  <2>1. Len(m) = 2 /\ m[1] = "game" /\ m[2] = "library" BY <1>3
  <2>2. Last(m) = "library" /\ Front(m) = <<"game">> BY <1>3, <2>1, ShortSequences DEF Last
  <2>3. QED BY <2>1, <2>2 DEF InSeq, Names, Moves
<1>4. CASE m = Entries
  <2>1. Len(m) = 3 /\ m[1] = "game" /\ m[2] = "library" /\ m[3] = "source" BY <1>4 DEF Entries
  <2>2. Last(m) = "source" BY <2>1 DEF Last
  <2>3. Front(m) = <<"game", "library">> BY <1>4, ShortSequences
  <2>4. Len(Front(m)) = 2 /\ Front(m)[1] = "game" /\ Front(m)[2] = "library" BY <2>3
  <2>5. QED BY <2>1, <2>2, <2>3, <2>4 DEF InSeq, Names, Moves
<1>5. QED BY <1>2, <1>3, <1>4 DEF Moves

-----------------------------------------------------------------------------
(* Directories. *)

\* An entry made by w.
LEMMA OwnedEntry ==
  ASSUME NEW w \in Owners, NEW e \in Names, NEW c, Held(e, c)
  PROVE  /\ Owned(w, c) \in Entry /\ Owned(w, c) # None
         /\ Owned(w, c).by = w /\ Owned(w, c).has = c
<1>1. c \in Contents
  <2>1. CASE e = "game" BY <2>1 DEF Held, Contents
  <2>2. CASE e = "library"
    <3>1. c \in LibraryDirs BY <2>2 DEF Held
    <3>2. QED BY <3>1, Zenon DEF Contents
  <2>3. CASE e = "source"
    <3>1. c = {} BY <2>3 DEF Held
    <3>2. {} \in SUBSET Files OBVIOUS
    <3>3. QED BY <3>1, <3>2 DEF Contents
  <2>4. QED BY <2>1, <2>2, <2>3 DEF Names
<1>2. Owned(w, c) \in Entry BY <1>1 DEF Owned, Entry
<1>3. None \notin Entry BY SlotsAssumption DEF Entry, Contents, Owners
<1>4. QED BY <1>2, <1>3 DEF Owned

\* One entry replaced.
LEMMA PutEntry ==
  ASSUME NEW t, IsTree(t), NEW e \in Names, NEW x \in {None} \cup Entry,
         x # None => Held(e, x.has)
  PROVE  /\ IsTree([t EXCEPT ![e] = x])
         /\ [t EXCEPT ![e] = x][e] = x
         /\ \A n \in Names \ {e} : [t EXCEPT ![e] = x][n] = t[n]
<1>1. t \in [Names -> {None} \cup Entry] BY DEF IsTree, Trees
<1>2. [t EXCEPT ![e] = x] \in [Names -> {None} \cup Entry] BY <1>1
<1>3. [t EXCEPT ![e] = x][e] = x BY <1>1
<1>4. \A n \in Names \ {e} : [t EXCEPT ![e] = x][n] = t[n] BY <1>1
<1>5. QED BY <1>2, <1>3, <1>4 DEF IsTree, Trees

\* An empty directory.
LEMMA EmptyTree == IsTree(Nothing) /\ \A e \in Names : Nothing[e] = None
BY DEF IsTree, Trees, Nothing

\* A library without games.
LEMMA BareLibrary ==
  /\ Bare \in LibraryDirs /\ Listed(Bare)
  /\ Bare.tmpl = {} /\ Bare.roms = {} /\ Bare.dirs = {} /\ ~Bare.marker
  /\ \A l \in Lineups : Bare.lists[l] = None
  /\ [Bare EXCEPT !.tmpl = Templates] \in LibraryDirs
  /\ [Bare EXCEPT !.tmpl = Templates].tmpl = Templates
BY DEF Bare, LibraryDirs, Listed

\* An entry read back.
LEMMA TreeEntry ==
  ASSUME NEW t, IsTree(t), NEW e \in Names, t[e] # None
  PROVE  /\ t[e] \in Entry /\ t[e].by \in Owners /\ Held(e, t[e].has)
         /\ t[e] = Owned(t[e].by, t[e].has)
BY DEF IsTree, Trees, Entry, Owned

-----------------------------------------------------------------------------
(* Types. *)

\* A job that goes on.
LEMMA GoesOn ==
  ASSUME TypeOK, NEW w \in Windows, NEW s \in Stages, Goto(w, s)
  PROVE  /\ job' \in [Windows -> Jobs]
         /\ job'[w].at = s /\ job'[w].moved = job[w].moved /\ job'[w].dump = job[w].dump
         /\ job'[w].games = job[w].games
         /\ \A v \in Windows \ {w} : job'[v] = job[v]
BY DEF Goto, TypeOK, Jobs

\* A job that ends.
LEMMA Ends ==
  ASSUME TypeOK, NEW w \in Windows, NEW what \in Outcomes, End(w, what)
  PROVE  /\ job' \in [Windows -> Jobs] /\ told' \in [Windows -> Outcomes]
         /\ job'[w].at = "idle" /\ job'[w].moved = <<>> /\ told'[w] = what
         /\ \A v \in Windows \ {w} : job'[v] = job[v] /\ told'[v] = told[v]
BY DEF End, TypeOK, Jobs, Idle, Stages, Moves

\* Jobs, answers and bounds keep their shape.
LEMMA JobsTyped ==
  ASSUME TypeOK, Next
  PROVE  /\ job' \in [Windows -> Jobs] /\ told' \in [Windows -> Outcomes]
         /\ exists' \in BOOLEAN /\ bounds' \in [acts : Nat, faults : Nat, kills : Nat]
<1>1. ASSUME NEW w \in Windows, NEW d \in Dumps, NEW games \in BOOLEAN, BeginCreate(w, d, games)
      PROVE  /\ job' \in [Windows -> Jobs] /\ told' \in [Windows -> Outcomes]
         /\ exists' \in BOOLEAN /\ bounds' \in [acts : Nat, faults : Nat, kills : Nat]
  BY <1>1, TypeOK DEF BeginCreate, Goto, End, At, Fault, Act, TypeOK, Jobs, Stages,
       Creation, Staging, Installing, InPlace, Moves, Outcomes, Idle
<1>2. ASSUME NEW w \in Windows, StageResources(w)
      PROVE  /\ job' \in [Windows -> Jobs] /\ told' \in [Windows -> Outcomes]
         /\ exists' \in BOOLEAN /\ bounds' \in [acts : Nat, faults : Nat, kills : Nat]
  BY <1>2, TypeOK, SMTT(30) DEF StageResources, Goto, End, At, Fault, Act, TypeOK, Jobs, Stages,
       Creation, Staging, Installing, InPlace, Moves, Outcomes, Idle
<1>3. ASSUME NEW w \in Windows, StageGames(w)
      PROVE  /\ job' \in [Windows -> Jobs] /\ told' \in [Windows -> Outcomes]
         /\ exists' \in BOOLEAN /\ bounds' \in [acts : Nat, faults : Nat, kills : Nat]
  <2>1. "prepare" \in Stages BY DEF Stages, Creation, Staging
  <2>2. Goto(w, "prepare") /\ UNCHANGED <<exists, told, bounds>> BY <1>3 DEF StageGames
  <2>3. QED BY <2>1, <2>2, TypeOK, GoesOn DEF TypeOK
<1>4. ASSUME NEW w \in Windows, StageRuntime(w)
      PROVE  /\ job' \in [Windows -> Jobs] /\ told' \in [Windows -> Outcomes]
         /\ exists' \in BOOLEAN /\ bounds' \in [acts : Nat, faults : Nat, kills : Nat]
  BY <1>4, TypeOK, SMTT(30) DEF StageRuntime, Goto, End, At, Fault, Act, TypeOK, Jobs, Stages,
       Creation, Staging, Installing, InPlace, Moves, Outcomes, Idle
<1>5. ASSUME NEW w \in Windows, StageFails(w)
      PROVE  /\ job' \in [Windows -> Jobs] /\ told' \in [Windows -> Outcomes]
         /\ exists' \in BOOLEAN /\ bounds' \in [acts : Nat, faults : Nat, kills : Nat]
  BY <1>5, TypeOK DEF StageFails, Goto, End, At, Fault, Act, TypeOK, Jobs, Stages,
       Creation, Staging, Installing, InPlace, Moves, Outcomes, Idle, GiveUp
<1>6. ASSUME NEW w \in Windows, CheckAgain(w)
      PROVE  /\ job' \in [Windows -> Jobs] /\ told' \in [Windows -> Outcomes]
         /\ exists' \in BOOLEAN /\ bounds' \in [acts : Nat, faults : Nat, kills : Nat]
  <2>1. {"whole", "absent"} \subseteq Stages /\ "failed" \in Outcomes
    BY DEF Stages, Creation, Staging, Installing, Outcomes
  <2>2. UNCHANGED <<exists, bounds>> BY <1>6 DEF CheckAgain
  <2>3. \/ Goto(w, "whole") /\ told' = told
        \/ Goto(w, "absent") /\ told' = told
        \/ End(w, "failed")
    BY <1>6 DEF CheckAgain, GiveUp
  <2>4. QED BY <2>1, <2>2, <2>3, TypeOK, GoesOn, Ends DEF TypeOK
<1>7. ASSUME NEW w \in Windows, InstallWhole(w)
      PROVE  /\ job' \in [Windows -> Jobs] /\ told' \in [Windows -> Outcomes]
         /\ exists' \in BOOLEAN /\ bounds' \in [acts : Nat, faults : Nat, kills : Nat]
  <2>1. "identify" \in Stages /\ "failed" \in Outcomes BY DEF Stages, Creation, Outcomes
  <2>2. exists' \in BOOLEAN /\ bounds' = bounds BY <1>7, TypeOK DEF InstallWhole, TypeOK
  <2>3. (Goto(w, "identify") /\ told' = told) \/ End(w, "failed")
    BY <1>7 DEF InstallWhole, GiveUp
  <2>4. QED BY <2>1, <2>2, <2>3, TypeOK, GoesOn, Ends DEF TypeOK
<1>8. ASSUME NEW w \in Windows, RequireAbsent(w)
      PROVE  /\ job' \in [Windows -> Jobs] /\ told' \in [Windows -> Outcomes]
         /\ exists' \in BOOLEAN /\ bounds' \in [acts : Nat, faults : Nat, kills : Nat]
  BY <1>8, TypeOK DEF RequireAbsent, Goto, End, At, Fault, Act, TypeOK, Jobs, Stages,
       Creation, Staging, Installing, InPlace, Moves, Outcomes, Idle
<1>9. ASSUME NEW w \in Windows, Rename(w)
      PROVE  /\ job' \in [Windows -> Jobs] /\ told' \in [Windows -> Outcomes]
         /\ exists' \in BOOLEAN /\ bounds' \in [acts : Nat, faults : Nat, kills : Nat]
  BY <1>9, TypeOK, MoveFacts, NextFacts, SMTT(30) DEF Rename, NextEntry, Move, Goto, At, TypeOK,
       Jobs, Stages, Creation, Staging, Installing
<1>10. ASSUME NEW w \in Windows, RenameFails(w)
      PROVE  /\ job' \in [Windows -> Jobs] /\ told' \in [Windows -> Outcomes]
         /\ exists' \in BOOLEAN /\ bounds' \in [acts : Nat, faults : Nat, kills : Nat]
  <2>1. "rollback" \in Stages /\ "failed" \in Outcomes
    BY DEF Stages, Creation, Installing, Outcomes
  <2>2. exists' = exists /\ Fault BY <1>10 DEF RenameFails
  <2>3. (Goto(w, "rollback") /\ told' = told) \/ End(w, "failed")
    BY <1>10 DEF RenameFails, GiveUp
  <2>4. bounds' \in [acts : Nat, faults : Nat, kills : Nat] BY <2>2, TypeOK DEF Fault, TypeOK
  <2>5. QED BY <2>1, <2>2, <2>3, <2>4, TypeOK, GoesOn, Ends DEF TypeOK
<1>11. ASSUME NEW w \in Windows, RollBack(w)
      PROVE  /\ job' \in [Windows -> Jobs] /\ told' \in [Windows -> Outcomes]
         /\ exists' \in BOOLEAN /\ bounds' \in [acts : Nat, faults : Nat, kills : Nat]
  <2>1. UNCHANGED <<exists, told>> /\ (bounds' = bounds \/ Fault) /\ job[w].moved # <<>>
        /\ job' = [job EXCEPT ![w].moved = Front(@)]
    BY <1>11 DEF RollBack
  <2>2. Front(job[w].moved) \in Moves BY <2>1, TypeOK, LastFacts DEF TypeOK, Jobs
  <2>3. job' \in [Windows -> Jobs] BY <2>1, <2>2, TypeOK DEF TypeOK, Jobs
  <2>4. bounds' \in [acts : Nat, faults : Nat, kills : Nat] BY <2>1, TypeOK DEF Fault, TypeOK
  <2>5. QED BY <2>1, <2>3, <2>4, TypeOK DEF TypeOK
<1>12. ASSUME NEW w \in Windows, RolledBack(w)
      PROVE  /\ job' \in [Windows -> Jobs] /\ told' \in [Windows -> Outcomes]
         /\ exists' \in BOOLEAN /\ bounds' \in [acts : Nat, faults : Nat, kills : Nat]
  <2>1. {"kept", "failed"} \subseteq Outcomes BY DEF Outcomes
  <2>2. UNCHANGED <<exists, bounds>> BY <1>12 DEF RolledBack
  <2>3. End(w, "kept") \/ End(w, "failed") BY <1>12 DEF RolledBack, GiveUp
  <2>4. QED BY <2>1, <2>2, <2>3, TypeOK, Ends DEF TypeOK
<1>13. ASSUME NEW w \in Windows, Identify(w)
      PROVE  /\ job' \in [Windows -> Jobs] /\ told' \in [Windows -> Outcomes]
         /\ exists' \in BOOLEAN /\ bounds' \in [acts : Nat, faults : Nat, kills : Nat]
  <2>1. {"done", "failed"} \subseteq Outcomes BY DEF Outcomes
  <2>2. exists' = exists /\ (bounds' = bounds \/ Fault) BY <1>13 DEF Identify
  <2>3. End(w, "done") \/ End(w, "failed") BY <1>13 DEF Identify
  <2>4. bounds' \in [acts : Nat, faults : Nat, kills : Nat] BY <2>2, TypeOK DEF Fault, TypeOK
  <2>5. QED BY <2>1, <2>2, <2>3, <2>4, TypeOK, Ends DEF TypeOK
<1>14. ASSUME NEW w \in Windows, NEW d \in Backups, BeginInit(w, d)
      PROVE  /\ job' \in [Windows -> Jobs] /\ told' \in [Windows -> Outcomes]
         /\ exists' \in BOOLEAN /\ bounds' \in [acts : Nat, faults : Nat, kills : Nat]
  BY <1>14, TypeOK DEF BeginInit, Goto, End, At, Fault, Act, TypeOK, Jobs, Stages,
       Creation, Staging, Installing, InPlace, Moves, Outcomes, Idle
<1>15. ASSUME NEW w \in Windows, InitList(w)
      PROVE  /\ job' \in [Windows -> Jobs] /\ told' \in [Windows -> Outcomes]
         /\ exists' \in BOOLEAN /\ bounds' \in [acts : Nat, faults : Nat, kills : Nat]
  BY <1>15, TypeOK, SMTT(30) DEF InitList, Goto, End, At, Fault, Act, TypeOK, Jobs, Stages,
       Creation, Staging, Installing, InPlace, Moves, Outcomes, Idle
<1>16. ASSUME NEW w \in Windows, CopyResource(w)
      PROVE  /\ job' \in [Windows -> Jobs] /\ told' \in [Windows -> Outcomes]
         /\ exists' \in BOOLEAN /\ bounds' \in [acts : Nat, faults : Nat, kills : Nat]
  BY <1>16, TypeOK DEF CopyResource, Goto, End, At, Fault, Act, TypeOK, Jobs, Stages,
       Creation, Staging, Installing, InPlace, Moves, Outcomes, Idle
<1>17. ASSUME NEW w \in Windows, CopyTemplate(w)
      PROVE  /\ job' \in [Windows -> Jobs] /\ told' \in [Windows -> Outcomes]
         /\ exists' \in BOOLEAN /\ bounds' \in [acts : Nat, faults : Nat, kills : Nat]
  BY <1>17, TypeOK, SMTT(30) DEF CopyTemplate, Goto, End, At, Fault, Act, TypeOK, Jobs, Stages,
       Creation, Staging, Installing, InPlace, Moves, Outcomes, Idle
<1>18. ASSUME NEW w \in Windows, InitEnable(w)
      PROVE  /\ job' \in [Windows -> Jobs] /\ told' \in [Windows -> Outcomes]
         /\ exists' \in BOOLEAN /\ bounds' \in [acts : Nat, faults : Nat, kills : Nat]
  BY <1>18, TypeOK DEF InitEnable, Goto, End, At, Fault, Act, TypeOK, Jobs, Stages,
       Creation, Staging, Installing, InPlace, Moves, Outcomes, Idle
<1>19. ASSUME NEW w \in Windows, InitFails(w)
      PROVE  /\ job' \in [Windows -> Jobs] /\ told' \in [Windows -> Outcomes]
         /\ exists' \in BOOLEAN /\ bounds' \in [acts : Nat, faults : Nat, kills : Nat]
  BY <1>19, TypeOK DEF InitFails, Goto, End, At, Fault, Act, TypeOK, Jobs, Stages,
       Creation, Staging, Installing, InPlace, Moves, Outcomes, Idle
<1>20. ASSUME NEW w \in Windows, OpenFolder(w)
      PROVE  /\ job' \in [Windows -> Jobs] /\ told' \in [Windows -> Outcomes]
         /\ exists' \in BOOLEAN /\ bounds' \in [acts : Nat, faults : Nat, kills : Nat]
  BY <1>20, TypeOK DEF OpenFolder, Goto, End, At, Fault, Act, TypeOK, Jobs, Stages,
       Creation, Staging, Installing, InPlace, Moves, Outcomes, Idle
<1>21. ASSUME NEW w \in Windows, Kill(w)
      PROVE  /\ job' \in [Windows -> Jobs] /\ told' \in [Windows -> Outcomes]
         /\ exists' \in BOOLEAN /\ bounds' \in [acts : Nat, faults : Nat, kills : Nat]
  BY <1>21, TypeOK DEF Kill, Goto, End, At, Fault, Act, TypeOK, Jobs, Stages, Creation,
       Staging, Installing, InPlace, Moves, Outcomes, Idle
<1>22. ASSUME NEW e \in Names, UserPuts(e)
      PROVE  /\ job' \in [Windows -> Jobs] /\ told' \in [Windows -> Outcomes]
         /\ exists' \in BOOLEAN /\ bounds' \in [acts : Nat, faults : Nat, kills : Nat]
  BY <1>22, TypeOK DEF UserPuts, Goto, End, At, Fault, Act, TypeOK, Jobs, Stages,
       Creation, Staging, Installing, InPlace, Moves, Outcomes, Idle
<1>23. CASE UserMakesDirectory
  BY <1>23, TypeOK DEF UserMakesDirectory, Goto, End, At, Fault, Act, TypeOK, Jobs,
       Stages, Creation, Staging, Installing, InPlace, Moves, Outcomes, Idle
<1>24. CASE UserClears
  BY <1>24, TypeOK DEF UserClears, Goto, End, At, Fault, Act, TypeOK, Jobs, Stages,
       Creation, Staging, Installing, InPlace, Moves, Outcomes, Idle
<1>25. QED
  BY <1>1, <1>2, <1>3, <1>4, <1>5, <1>6, <1>7, <1>8, <1>9, <1>10, <1>11, <1>12,
       <1>13, <1>14, <1>15, <1>16, <1>17, <1>18, <1>19, <1>20, <1>21, <1>22, <1>23,
       <1>24 DEF Next, Create, Initialise

\* One staging directory replaced.
LEMMA PutStage ==
  ASSUME TypeOK, NEW w \in Windows, NEW t, IsTree(t), stage' = [stage EXCEPT ![w] = t]
  PROVE  /\ stage' \in [Windows -> Trees] /\ \A v \in Windows : IsTree(stage'[v])
         /\ stage'[w] = t /\ \A v \in Windows \ {w} : stage'[v] = stage[v]
<1>1. t \in Trees BY DEF IsTree
<1>2. stage' \in [Windows -> Trees] BY <1>1, TypeOK DEF TypeOK
<1>3. stage'[w] = t /\ \A v \in Windows \ {w} : stage'[v] = stage[v] BY TypeOK DEF TypeOK
<1>4. QED BY <1>2, <1>3, TypeOK DEF TypeOK

\* What StageResources puts into the staging directory.
LEMMA StageResourcesEffect ==
  ASSUME TypeOK, JobInv, StageInv, NEW w \in Windows, StageResources(w)
  PROVE  /\ stage' \in [Windows -> Trees] /\ \A v \in Windows : IsTree(stage'[v])
         /\ stage'[w]["game"] = Owned(w, Files) /\ stage'[w]["source"] = None
         /\ stage'[w]["library"] = Owned(w, [Bare EXCEPT !.tmpl = Templates])
         /\ \A v \in Windows \ {w} : stage'[v] = stage[v]
<1> DEFINE game == Owned(w, Files)
           library == Owned(w, [Bare EXCEPT !.tmpl = Templates])
           one == [stage[w] EXCEPT !["game"] = game]
           two == [one EXCEPT !["library"] = library]
<1>1. At(w, "copy") /\ Complete(job[w].dump) /\ stage[w] = Nothing
  BY JobInv, StageInv DEF StageResources, At, JobInv, JobFine, StageInv, StageFine, Creation,
     Staging
<1>2. Files \cap Listing(job[w].dump) = Files BY <1>1 DEF Complete
<1>3. stage' = [stage EXCEPT ![w] = two] BY <1>2, TypeOK DEF StageResources, TypeOK, Trees
<1>4. game \in Entry /\ game # None /\ game.has = Files
  BY OwnedEntry DEF Held, Names, Owners
<1>5. library \in Entry /\ library # None /\ library.has \in LibraryDirs
  BY OwnedEntry, BareLibrary DEF Held, Names, Owners
<1> HIDE DEF game, library
<1>6. IsTree(one) /\ one["game"] = game /\ one["source"] = None
  BY <1>1, <1>4, PutEntry, EmptyTree DEF Held, Names
<1> HIDE DEF one
<1>7. IsTree(two) /\ two["game"] = game /\ two["library"] = library /\ two["source"] = None
  BY <1>5, <1>6, PutEntry DEF Held, Names
<1> HIDE DEF two
<1>8. QED BY <1>3, <1>7, PutStage DEF game, library

\* What is extracted from lineups.
RomsIn(slots) == UNION {Roms(slots[l]) : l \in Lineups}
DirsIn(slots) == UNION {{<<l, slots[l][i]>> : i \in Used(slots[l])} : l \in Lineups}
ListsIn(slots) == [l \in Lineups |-> Tags(slots[l])]

\* It lists only what it brings.
LEMMA Extracted ==
  ASSUME NEW slots \in [Lineups -> Seq(Slots)]
  PROVE  /\ RomsIn(slots) \subseteq RomNames /\ DirsIn(slots) \subseteq Games
         /\ ListsIn(slots) \in [Lineups -> {None} \cup SUBSET TagNames]
         /\ \A l \in Lineups : ListsIn(slots)[l] # None
         /\ \A l \in Lineups : \A t \in ListsIn(slots)[l] :
              \E g \in RomsIn(slots) : <<l, [tag |-> t, rom |-> g]>> \in DirsIn(slots)
<1>1. ASSUME NEW l \in Lineups, NEW i \in Used(slots[l])
      PROVE  /\ slots[l][i] \in Slots
             /\ slots[l][i] = [tag |-> slots[l][i].tag, rom |-> slots[l][i].rom]
             /\ slots[l][i].rom \in RomNames /\ slots[l][i].tag \in TagNames
  <2>1. i \in DOMAIN slots[l] BY <1>1 DEF Used
  <2>2. slots[l] \in Seq(Slots) OBVIOUS
  <2>3. slots[l][i] \in Slots BY <2>1, <2>2
  <2>4. QED BY <2>3, SlotsAssumption DEF RomNames, TagNames
<1>2. ASSUME NEW r \in RomsIn(slots) PROVE r \in RomNames
  <2>1. PICK l \in Lineups : r \in Roms(slots[l]) BY DEF RomsIn
  <2>2. PICK i \in Used(slots[l]) : r = slots[l][i].rom BY <2>1 DEF Roms
  <2>3. QED BY <1>1, <2>2
<1>3. ASSUME NEW d \in DirsIn(slots) PROVE d \in Games
  <2>1. PICK l \in Lineups : d \in {<<l, slots[l][i]>> : i \in Used(slots[l])} BY DEF DirsIn
  <2>2. PICK i \in Used(slots[l]) : d = <<l, slots[l][i]>> BY <2>1
  <2>3. QED BY <1>1, <2>2 DEF Games
<1>4. \A l \in Lineups : Tags(slots[l]) \in SUBSET TagNames BY <1>1 DEF Tags
<1>5. \A l \in Lineups : ListsIn(slots)[l] # None BY <1>4, SlotsAssumption DEF ListsIn
<1>6. ASSUME NEW l \in Lineups, NEW t \in ListsIn(slots)[l]
      PROVE  \E g \in RomsIn(slots) : <<l, [tag |-> t, rom |-> g]>> \in DirsIn(slots)
  <2>1. PICK i \in Used(slots[l]) : t = slots[l][i].tag BY <1>6 DEF Tags, ListsIn
  <2>2. slots[l][i].rom \in RomsIn(slots) BY <2>1 DEF Roms, RomsIn
  <2>3. <<l, slots[l][i]>> \in DirsIn(slots) BY <2>1 DEF DirsIn
  <2>4. QED BY <1>1, <2>1, <2>2, <2>3
<1>7. ListsIn(slots) \in [Lineups -> {None} \cup SUBSET TagNames] BY <1>4 DEF ListsIn
<1>8. QED BY <1>2, <1>3, <1>5, <1>6, <1>7

\* The changes made to a library.
LEMMA MarkerAdded ==
  ASSUME NEW x \in Entry, x.has \in LibraryDirs, NEW y, y = [x EXCEPT !.has.marker = TRUE]
  PROVE  /\ y \in Entry /\ y.has \in LibraryDirs /\ y.by = x.by
         /\ y.has.tmpl = x.has.tmpl /\ y.has.roms = x.has.roms
         /\ y.has.dirs = x.has.dirs /\ y.has.lists = x.has.lists /\ y.has.marker = TRUE
<1>1. x \in [by : Owners, has : LibraryDirs] BY DEF Entry
<1>2. /\ y \in [by : Owners, has : LibraryDirs] /\ y.by = x.by
      /\ y.has.tmpl = x.has.tmpl /\ y.has.roms = x.has.roms
      /\ y.has.dirs = x.has.dirs /\ y.has.lists = x.has.lists
  BY <1>1 DEF LibraryDirs
<1>3. y.has.marker = TRUE BY <1>1 DEF LibraryDirs
<1>4. LibraryDirs \subseteq Contents BY DEF Contents
<1>5. QED BY <1>2, <1>3, <1>4 DEF Entry

\* What is absent is not an entry.
LEMMA EntryIsSome == None \notin Entry
BY SlotsAssumption DEF Entry, Contents, Owners

\* What StageGames adds to it.
LEMMA StageGamesEffect ==
  ASSUME TypeOK, JobInv, StageInv, NEW w \in Windows, StageGames(w)
  PROVE  /\ stage' \in [Windows -> Trees] /\ \A v \in Windows : IsTree(stage'[v])
         /\ stage'[w]["game"] = Owned(w, Files) /\ stage'[w]["source"] = None
         /\ stage'[w]["library"] # None /\ stage'[w]["library"].by = w
         /\ stage'[w]["library"].has.tmpl = Templates /\ Listed(stage'[w]["library"].has)
         /\ \A l \in Lineups : stage'[w]["library"].has.lists[l] # None
         /\ \A v \in Windows \ {w} : stage'[v] = stage[v]
<1> DEFINE slots == [l \in Lineups |-> IF job[w].games THEN job[w].dump.slots[l] ELSE <<>>]
           roms == RomsIn(slots)
           dirs == DirsIn(slots)
           lists == ListsIn(slots)
           old == stage[w]["library"]
           new == [old EXCEPT !.has.roms = roms, !.has.dirs = dirs, !.has.lists = lists]
           one == [stage[w] EXCEPT !["library"] = new]
<1>1. /\ At(w, "extract") /\ job[w].dump \in Dumps
      /\ stage[w]["game"] = Owned(w, Files) /\ stage[w]["source"] = None
      /\ old = Owned(w, [Bare EXCEPT !.tmpl = Templates])
  BY JobInv, StageInv DEF StageGames, At, JobInv, JobFine, StageInv, StageFine, Creation,
     Staging
<1>2. stage' = [stage EXCEPT ![w].library = [@ EXCEPT !.has.roms = roms, !.has.dirs = dirs,
                                                    !.has.lists = lists]]
  BY DEF StageGames, RomsIn, DirsIn, ListsIn
<1>3. job[w].dump.slots \in [Lineups -> Seq(Slots)] BY <1>1, SlotsAssumption
<1>4. slots \in [Lineups -> Seq(Slots)] BY <1>3
<1> HIDE DEF slots
<1>5. /\ roms \subseteq RomNames /\ dirs \subseteq Games
      /\ lists \in [Lineups -> {None} \cup SUBSET TagNames]
      /\ \A l \in Lineups : lists[l] # None
      /\ \A l \in Lineups : \A t \in lists[l] :
           \E g \in roms : <<l, [tag |-> t, rom |-> g]>> \in dirs
  BY <1>4, Extracted
<1> HIDE DEF roms, dirs, lists
<1>6. /\ old \in Entry /\ old.by = w /\ old.has \in LibraryDirs /\ old.has.tmpl = Templates
  <2>1. w \in Owners /\ "library" \in Names BY DEF Owners, Names
  <2> DEFINE bare == [Bare EXCEPT !.tmpl = Templates]
  <2>2. bare \in LibraryDirs /\ bare.tmpl = Templates BY BareLibrary
  <2>3. old = Owned(w, bare) BY <1>1
  <2> HIDE DEF bare, old
  <2>4. Held("library", bare) BY <2>2 DEF Held
  <2>5. QED BY <2>1, <2>2, <2>3, <2>4, OwnedEntry
<1>7. stage' = [stage EXCEPT ![w] = one]
  <2>1. stage \in [Windows -> Trees] /\ stage[w] \in Trees BY TypeOK DEF TypeOK, IsTree
  <2>2. QED BY <1>2, <2>1 DEF Trees, Names
<1> HIDE DEF old
<1>8. /\ new \in Entry /\ new.has \in LibraryDirs /\ new.by = w /\ new.has.tmpl = Templates
      /\ new.has.roms = roms /\ new.has.dirs = dirs /\ new.has.lists = lists
  <2>1. new = [old EXCEPT !.has.roms = roms, !.has.dirs = dirs, !.has.lists = lists] OBVIOUS
  <2> HIDE DEF new
  <2>2. roms \in SUBSET RomNames /\ dirs \in SUBSET Games BY <1>5
  <2>3. lists \in [Lineups -> {None} \cup SUBSET TagNames] BY <1>5
  <2>4. old \in Entry /\ old.has \in LibraryDirs BY <1>6
  <2>5. /\ new \in Entry /\ new.has \in LibraryDirs /\ new.by = old.by
        /\ new.has.tmpl = old.has.tmpl /\ new.has.roms = roms /\ new.has.dirs = dirs
        /\ new.has.lists = lists
    <3>1. old \in [by : Owners, has : LibraryDirs] BY <2>4 DEF Entry
    <3>2. /\ new \in [by : Owners, has : LibraryDirs] /\ new.by = old.by
          /\ new.has.tmpl = old.has.tmpl /\ new.has.roms = roms /\ new.has.dirs = dirs
          /\ new.has.lists = lists
      BY <2>1, <2>2, <2>3, <3>1 DEF LibraryDirs
    <3>3. LibraryDirs \subseteq Contents BY DEF Contents
    <3>4. QED BY <3>2, <3>3 DEF Entry
  <2>6. QED BY <1>6, <2>5
<1> HIDE DEF new
<1>9. Listed(new.has) /\ \A l \in Lineups : new.has.lists[l] # None BY <1>5, <1>8 DEF Listed
<1>10. IsTree(stage[w]) BY TypeOK DEF TypeOK
<1>11. /\ IsTree(one) /\ one["library"] = new
       /\ one["game"] = stage[w]["game"] /\ one["source"] = stage[w]["source"]
  BY <1>8, <1>10, PutEntry DEF Held, Names
<1> HIDE DEF one
<1>12. stage'[w] = one BY <1>7, <1>11, PutStage
<1>13. new # None BY <1>8, EntryIsSome
<1>14. QED BY <1>1, <1>7, <1>8, <1>9, <1>11, <1>12, <1>13, PutStage

\* With the runtime it is complete.
LEMMA StageRuntimeEffect ==
  ASSUME TypeOK, JobInv, StageInv, NEW w \in Windows, StageRuntime(w)
  PROVE  /\ stage' \in [Windows -> Trees] /\ \A v \in Windows : IsTree(stage'[v])
         /\ \A e \in Names : Good(w, e, stage'[w][e])
         /\ \A v \in Windows \ {w} : stage'[v] = stage[v]
<1> DEFINE old == stage[w]["library"]
           new == [old EXCEPT !.has.marker = TRUE]
           one == [stage[w] EXCEPT !["library"] = new]
           two == [one EXCEPT !["source"] = Owned(w, {})]
<1>1. /\ At(w, "prepare")
      /\ stage[w]["game"] = Owned(w, Files)
      /\ old # None /\ old.by = w
      /\ old.has.tmpl = Templates /\ Listed(old.has) /\ \A l \in Lineups : old.has.lists[l] # None
  BY StageInv DEF StageRuntime, At, StageInv, StageFine
<1>2. IsTree(stage[w]) BY TypeOK DEF TypeOK
<1>3. old \in Entry /\ old.has \in LibraryDirs
  BY <1>1, <1>2, TreeEntry DEF Held, Names
<1>4. stage' = [stage EXCEPT ![w] = two]
  <2>1. stage' = [stage EXCEPT ![w].library.has.marker = TRUE, ![w].source = Owned(w, {})]
    BY DEF StageRuntime
  <2>2. stage \in [Windows -> Trees] /\ stage[w] \in Trees BY TypeOK DEF TypeOK, IsTree
  <2>3. QED BY <2>1, <2>2 DEF Trees, Names
<1> HIDE DEF old
<1>5. /\ new \in Entry /\ new.has \in LibraryDirs /\ new.by = w
      /\ new.has.tmpl = old.has.tmpl /\ new.has.roms = old.has.roms
      /\ new.has.dirs = old.has.dirs /\ new.has.lists = old.has.lists
  BY <1>1, <1>3, MarkerAdded
<1>6. new.has.marker = TRUE BY <1>3, MarkerAdded
<1> HIDE DEF new
<1>7. Listed(new.has) BY <1>1, <1>5 DEF Listed
<1>8. Owned(w, {}) \in Entry /\ Owned(w, {}) # None /\ Owned(w, {}).by = w /\ Owned(w, {}).has = {}
  BY OwnedEntry DEF Held, Names, Owners
<1>9. Owned(w, Files) # None /\ Owned(w, Files).by = w /\ Owned(w, Files).has = Files
  BY OwnedEntry DEF Held, Names, Owners
<1>10. new # None BY <1>5, EntryIsSome
<1>11. /\ IsTree(one) /\ one["library"] = new /\ one["game"] = stage[w]["game"]
  BY <1>2, <1>5, PutEntry DEF Held, Names
<1> HIDE DEF one
<1>12. /\ IsTree(two) /\ two["library"] = new /\ two["game"] = Owned(w, Files)
       /\ two["source"] = Owned(w, {})
  BY <1>1, <1>8, <1>11, PutEntry DEF Held, Names
<1> HIDE DEF two
<1>13. \A e \in Names : Good(w, e, two[e])
  BY <1>1, <1>5, <1>6, <1>7, <1>8, <1>9, <1>10, <1>12 DEF Good, Names
<1>14. QED BY <1>4, <1>12, <1>13, PutStage

\* An entry of the destination replaced.
LEMMA PutDest ==
  ASSUME TypeOK, NEW e \in Names, NEW x \in {None} \cup Entry, x # None => Held(e, x.has),
         dest' = [dest EXCEPT ![e] = x]
  PROVE  IsTree(dest') /\ dest'[e] = x /\ \A n \in Names \ {e} : dest'[n] = dest[n]
<1>1. IsTree(dest) BY DEF TypeOK
<1>2. dest \in [Names -> {None} \cup Entry] BY <1>1 DEF IsTree, Trees
<1>3. dest' \in [Names -> {None} \cup Entry] BY <1>2
<1>4. dest'[e] = x /\ \A n \in Names \ {e} : dest'[n] = dest[n] BY <1>2
<1>5. QED BY <1>1, <1>3, <1>4 DEF IsTree, Trees

\* A library that only gains.
Grown(x, y) ==
    /\ y \in Entry /\ y.has \in LibraryDirs /\ y.by = x.by
    /\ x.has.tmpl \subseteq y.has.tmpl /\ y.has.roms = x.has.roms /\ y.has.dirs = x.has.dirs
    /\ \A l \in Lineups : y.has.lists[l] = x.has.lists[l] \/ (x.has.lists[l] = None /\ y.has.lists[l] = {})
    /\ x.has.marker => y.has.marker

SameMarker(x, y) == x.has.marker <=> y.has.marker

\* It stays whole.
LEMMA GrownKeeps ==
  ASSUME NEW x \in Entry, x.has \in LibraryDirs, NEW y, Grown(x, y)
  PROVE  /\ y # None /\ Keeps("library", x.has, y.has)
         /\ Listed(x.has) => Listed(y.has)
         /\ \A l \in Lineups : x.has.lists[l] # None => y.has.lists[l] # None
<1>1. y # None BY EntryIsSome DEF Grown
<1>2. Keeps("library", x.has, y.has) BY DEF Grown, Keeps
<1>3. ASSUME Listed(x.has) PROVE Listed(y.has)
  <2>1. ASSUME NEW l \in Lineups, y.has.lists[l] # None, NEW t \in y.has.lists[l]
        PROVE  \E g \in y.has.roms : <<l, [tag |-> t, rom |-> g]>> \in y.has.dirs
    BY <1>3, <2>1 DEF Listed, Grown
  <2>2. QED BY <2>1 DEF Listed
<1>4. \A l \in Lineups : x.has.lists[l] # None => y.has.lists[l] # None BY DEF Grown
<1>5. QED BY <1>1, <1>2, <1>3, <1>4

\* The library of the destination gets a list, an original or its marker.
LEMMA ListAdded ==
  ASSUME NEW x \in Entry, x.has \in LibraryDirs, NEW l \in Lineups, x.has.lists[l] = None,
         NEW y, y = [x EXCEPT !.has.lists[l] = {}]
  PROVE  Grown(x, y) /\ y.has.lists[l] = {} /\ SameMarker(x, y)
<1>1. x \in [by : Owners, has : LibraryDirs] BY DEF Entry
<1>2. {} \in {None} \cup SUBSET TagNames OBVIOUS
<1>3. /\ y \in [by : Owners, has : LibraryDirs] /\ y.by = x.by
      /\ y.has.tmpl = x.has.tmpl /\ y.has.roms = x.has.roms
      /\ y.has.dirs = x.has.dirs /\ y.has.lists = [x.has.lists EXCEPT ![l] = {}]
  BY <1>1, <1>2 DEF LibraryDirs
<1>4. x.has.marker <=> y.has.marker BY <1>1 DEF LibraryDirs
<1>5. LibraryDirs \subseteq Contents BY DEF Contents
<1>6. x.has.lists \in [Lineups -> {None} \cup SUBSET TagNames] BY DEF LibraryDirs
<1>7. ASSUME NEW k \in Lineups
      PROVE  y.has.lists[k] = IF k = l THEN {} ELSE x.has.lists[k]
  <2>1. y.has.lists = [x.has.lists EXCEPT ![l] = {}] BY <1>3
  <2>2. QED BY <1>6, <2>1
<1>8. y \in Entry /\ y.has \in LibraryDirs BY <1>3, <1>5 DEF Entry
<1>9. QED BY <1>3, <1>4, <1>7, <1>8 DEF Grown, SameMarker

\* An original is added.
LEMMA OriginalAdded ==
  ASSUME NEW x \in Entry, x.has \in LibraryDirs, NEW t \in Templates,
         NEW y, y = [x EXCEPT !.has.tmpl = @ \cup {t}]
  PROVE  Grown(x, y) /\ y.has.lists = x.has.lists /\ SameMarker(x, y)
<1>1. x \in [by : Owners, has : LibraryDirs] BY DEF Entry
<1>2. /\ y \in [by : Owners, has : LibraryDirs] /\ y.by = x.by
      /\ y.has.tmpl = x.has.tmpl \cup {t} /\ y.has.roms = x.has.roms
      /\ y.has.dirs = x.has.dirs /\ y.has.lists = x.has.lists
  BY <1>1 DEF LibraryDirs
<1>3. x.has.marker <=> y.has.marker BY <1>1 DEF LibraryDirs
<1>4. LibraryDirs \subseteq Contents BY DEF Contents
<1>5. QED BY <1>2, <1>3, <1>4 DEF Entry, Grown, SameMarker

\* The marker is added.
LEMMA MarkedGrows ==
  ASSUME NEW x \in Entry, x.has \in LibraryDirs, NEW y, y = [x EXCEPT !.has.marker = TRUE]
  PROVE  Grown(x, y) /\ y.has.marker
<1>1. /\ y \in Entry /\ y.has \in LibraryDirs /\ y.by = x.by
      /\ y.has.tmpl = x.has.tmpl /\ y.has.roms = x.has.roms
      /\ y.has.dirs = x.has.dirs /\ y.has.lists = x.has.lists /\ y.has.marker = TRUE
  BY MarkerAdded
<1>2. y.has.marker BY <1>1, Zenon
<1>3. QED BY <1>1, <1>2 DEF Grown

\* Whatever is done to a library that is there, it only gains.
LEMMA LibraryGrows ==
  ASSUME TypeOK, PlaceInv, NEW w \in Windows,
         InitList(w) \/ CopyTemplate(w) \/ InitEnable(w) \/ OpenFolder(w)
  PROVE  /\ dest["library"] # None /\ dest["library"] \in Entry
         /\ dest["library"].has \in LibraryDirs
         /\ \/ dest' = dest
            \/ /\ Grown(dest["library"], dest'["library"])
               /\ IsTree(dest') /\ \A e \in Names \ {"library"} : dest'[e] = dest[e]
               /\ \/ SameMarker(dest["library"], dest'["library"])
                  \/ InitEnable(w) \/ OpenFolder(w)
<1> DEFINE x == dest["library"]
<1>1. "library" \in Names /\ IsTree(dest) BY DEF Names, TypeOK
<1>2. x # None
  BY DEF InitList, CopyTemplate, InitEnable, OpenFolder, HasLibrary, At, PlaceInv, PlaceFine,
     InPlace
<1>3. x \in Entry /\ x.has \in LibraryDirs BY <1>1, <1>2, TreeEntry DEF Held
<1>4. ASSUME NEW y, Grown(x, y), dest' = [dest EXCEPT !["library"] = y]
      PROVE  /\ Grown(x, dest'["library"])
             /\ dest'["library"] = y
             /\ IsTree(dest') /\ \A e \in Names \ {"library"} : dest'[e] = dest[e]
  <2>1. y \in Entry /\ Held("library", y.has) BY <1>4 DEF Grown, Held
  <2> HIDE DEF x
  <2>2. IsTree(dest') /\ dest'["library"] = y /\ \A e \in Names \ {"library"} : dest'[e] = dest[e]
    BY <1>1, <1>4, <2>1, PutDest
  <2>3. QED BY <1>4, <2>2
<1>5. dest \in [Names -> {None} \cup Entry] BY DEF TypeOK, IsTree, Trees
<1>6. CASE InitList(w)
  <2>1. CASE dest' = dest BY <1>2, <1>3, <2>1
  <2>2. CASE dest' # dest
    <3>1. PICK l \in Lineups : x.has.lists[l] = None
                               /\ dest' = [dest EXCEPT !["library"].has.lists[l] = {}]
      BY <1>6, <2>2 DEF InitList
    <3> DEFINE y == [x EXCEPT !.has.lists[l] = {}]
    <3>2. dest' = [dest EXCEPT !["library"] = y] BY <3>1
    <3>3. y = [x EXCEPT !.has.lists[l] = {}] OBVIOUS
    <3> HIDE DEF x, y
    <3>4. Grown(x, y) /\ SameMarker(x, y) BY <1>3, <3>1, <3>3, ListAdded
    <3>5. QED BY <1>2, <1>3, <1>4, <3>2, <3>4 DEF x
  <2>3. QED BY <2>1, <2>2
<1>7. CASE CopyTemplate(w)
  <2>1. CASE dest' = dest BY <1>2, <1>3, <2>1
  <2>2. CASE dest' # dest
    <3>1. PICK t \in Templates : dest' = [dest EXCEPT !["library"].has.tmpl = @ \cup {t}]
      BY <1>7, <2>2 DEF CopyTemplate
    <3> DEFINE y == [x EXCEPT !.has.tmpl = @ \cup {t}]
    <3>2. dest' = [dest EXCEPT !["library"] = y] BY <3>1
    <3>3. y = [x EXCEPT !.has.tmpl = @ \cup {t}] OBVIOUS
    <3> HIDE DEF x, y
    <3>4. Grown(x, y) /\ SameMarker(x, y) BY <1>3, <3>3, OriginalAdded
    <3>5. QED BY <1>2, <1>3, <1>4, <3>2, <3>4 DEF x
  <2>3. QED BY <2>1, <2>2
<1>8. CASE InitEnable(w) \/ OpenFolder(w)
  <2>1. CASE dest' = dest BY <1>2, <1>3, <2>1
  <2>2. CASE dest' # dest
    <3>1. dest' = [dest EXCEPT !["library"].has.marker = TRUE]
      BY <1>8, <2>2 DEF InitEnable, OpenFolder, Enable
    <3> DEFINE y == [x EXCEPT !.has.marker = TRUE]
    <3>2. dest' = [dest EXCEPT !["library"] = y] BY <3>1
    <3>3. Grown(x, y) BY <1>3, MarkedGrows
    <3> HIDE DEF x, y
    <3>4. QED BY <1>2, <1>3, <1>4, <1>8, <3>2, <3>3 DEF x
  <2>3. QED BY <2>1, <2>2
<1>9. QED BY <1>6, <1>7, <1>8

-----------------------------------------------------------------------------
(* What the steps of a window change. *)

\* The other windows see nothing of it.
Alone(w) ==
    \A v \in Windows \ {w} : job'[v] = job[v] /\ told'[v] = told[v] /\ stage'[v] = stage[v]

\* A job goes on to step s, or ends with an answer.
Onward(w, s) ==
    /\ job'[w].at = s /\ job'[w].moved = job[w].moved /\ job'[w].dump = job[w].dump
    /\ told' = told /\ \A v \in Windows \ {w} : job'[v] = job[v]
Ended(w, what) ==
    /\ job'[w].at = "idle" /\ job'[w].moved = <<>> /\ told'[w] = what
    /\ \A v \in Windows \ {w} : job'[v] = job[v] /\ told'[v] = told[v]

\* The staging directory is removed.
Emptied(w) ==
    /\ stage' \in [Windows -> Trees] /\ \A v \in Windows : IsTree(stage'[v])
    /\ stage'[w] = Nothing /\ \A v \in Windows \ {w} : stage'[v] = stage[v]

\* The helpers of the jobs.
LEMMA GotoOnward ==
  ASSUME TypeOK, NEW w \in Windows, NEW s \in Stages, Goto(w, s), told' = told
  PROVE  Onward(w, s)
BY GoesOn DEF Onward

\* A job ends.
LEMMA EndEnded ==
  ASSUME TypeOK, NEW w \in Windows, NEW what \in Outcomes, End(w, what)
  PROVE  Ended(w, what)
BY Ends DEF Ended

\* A staging directory is removed.
LEMMA RemovedEmptied ==
  ASSUME TypeOK, NEW w \in Windows, stage' = [stage EXCEPT ![w] = Nothing]
  PROVE  Emptied(w)
BY EmptyTree, PutStage DEF Emptied

\* A job gives up.
LEMMA GaveUp ==
  ASSUME TypeOK, NEW w \in Windows, GiveUp(w)
  PROVE  Ended(w, "failed") /\ Emptied(w)
<1>1. "failed" \in Outcomes BY DEF Outcomes
<1>2. End(w, "failed") /\ stage' = [stage EXCEPT ![w] = Nothing] BY DEF GiveUp
<1>3. QED BY <1>1, <1>2, EndEnded, RemovedEmptied

\* The names of stages and answers.
LEMMA StepNames ==
  /\ {"copy", "extract", "prepare", "check", "whole", "absent", "rename", "rollback",
      "identify", "lists", "resources", "templates", "enable", "idle"} \subseteq Stages
  /\ {"nothing", "failed", "kept", "done", "initialised", "initFailed", "open", "bare",
      "refused"} \subseteq Outcomes
BY DEF Stages, Creation, Staging, Installing, InPlace, Outcomes

\* What BeginCreate changes.
LEMMA BeginCreateEffect ==
  ASSUME TypeOK, NEW w \in Windows, NEW d \in Dumps, NEW games \in BOOLEAN, BeginCreate(w, d, games)
  PROVE  /\ job[w].at = "idle" /\ stage[w] = Nothing /\ dest = Nothing
         /\ \A v \in Windows : job[v].at \notin InPlace
         /\ Complete(d) /\ job'[w].at = "copy" /\ job'[w].dump = d /\ job'[w].moved = <<>>
         /\ told'[w] = "nothing"
         /\ \A v \in Windows \ {w} : job'[v] = job[v] /\ told'[v] = told[v]
         /\ UNCHANGED <<exists, dest, stage, stuck>>
BY DEF BeginCreate, At, Vacant, Idle, TypeOK

\* Where StageResources leads.
LEMMA StageResourcesJob ==
  ASSUME TypeOK, NEW w \in Windows, StageResources(w)
  PROVE  job[w].at = "copy" /\ Onward(w, "extract") /\ UNCHANGED <<exists, dest, stuck>>
<1>1. At(w, "copy") /\ Goto(w, "extract") /\ told' = told /\ UNCHANGED <<exists, dest, stuck>>
  BY DEF StageResources
<1>2. QED BY <1>1, GotoOnward, StepNames DEF At

\* Where StageGames leads.
LEMMA StageGamesJob ==
  ASSUME TypeOK, NEW w \in Windows, StageGames(w)
  PROVE  job[w].at = "extract" /\ Onward(w, "prepare") /\ UNCHANGED <<exists, dest, stuck>>
<1>1. At(w, "extract") /\ Goto(w, "prepare") /\ told' = told /\ UNCHANGED <<exists, dest, stuck>>
  BY DEF StageGames
<1>2. QED BY <1>1, GotoOnward, StepNames DEF At

\* Where StageRuntime leads.
LEMMA StageRuntimeJob ==
  ASSUME TypeOK, NEW w \in Windows, StageRuntime(w)
  PROVE  job[w].at = "prepare" /\ Onward(w, "check") /\ UNCHANGED <<exists, dest, stuck>>
<1>1. At(w, "prepare") /\ Goto(w, "check") /\ told' = told /\ UNCHANGED <<exists, dest, stuck>>
  BY DEF StageRuntime
<1>2. QED BY <1>1, GotoOnward, StepNames DEF At

\* What StageFails changes.
LEMMA StageFailsEffect ==
  ASSUME TypeOK, NEW w \in Windows, StageFails(w)
  PROVE  /\ job[w].at \in {"copy", "extract", "prepare"}
         /\ Ended(w, "failed") /\ Emptied(w) /\ UNCHANGED <<exists, dest, stuck>>
BY GaveUp DEF StageFails

\* What CheckAgain changes.
LEMMA CheckAgainEffect ==
  ASSUME TypeOK, NEW w \in Windows, CheckAgain(w)
  PROVE  /\ job[w].at = "check" /\ UNCHANGED <<exists, dest, stuck>>
         /\ \/ stage' = stage /\ Onward(w, "whole")
            \/ stage' = stage /\ Onward(w, "absent") /\ exists
            \/ Ended(w, "failed") /\ Emptied(w)
<1>1. job[w].at = "check" /\ UNCHANGED <<exists, dest, stuck>> BY DEF CheckAgain, At
<1>2. \/ stage' = stage /\ told' = told /\ Goto(w, "whole")
      \/ stage' = stage /\ told' = told /\ Goto(w, "absent") /\ exists
      \/ GiveUp(w)
  <2>1. job[w].new \in BOOLEAN /\ exists \in BOOLEAN BY DEF TypeOK, Jobs
  <2>2. CASE job[w].new /\ ~exists BY <2>2 DEF CheckAgain
  <2>3. CASE ~job[w].new /\ exists BY <2>3 DEF CheckAgain
  <2>4. CASE job[w].new # ~exists BY <2>4 DEF CheckAgain
  <2>5. QED BY <2>1, <2>2, <2>3, <2>4
<1>3. QED BY <1>1, <1>2, GotoOnward, GaveUp, StepNames

\* What InstallWhole changes.
LEMMA InstallWholeEffect ==
  ASSUME TypeOK, NEW w \in Windows, InstallWhole(w)
  PROVE  /\ job[w].at = "whole" /\ stuck' = stuck /\ Emptied(w)
         /\ \/ Ended(w, "failed") /\ UNCHANGED <<exists, dest>>
            \/ ~exists /\ exists' /\ dest' = stage[w] /\ Onward(w, "identify")
<1>1. job[w].at = "whole" /\ stuck' = stuck /\ stage' = [stage EXCEPT ![w] = Nothing]
  BY DEF InstallWhole, At, GiveUp
<1>2. CASE exists
  <2>1. GiveUp(w) /\ UNCHANGED <<exists, dest>> BY <1>2 DEF InstallWhole
  <2>2. QED BY <1>1, <2>1, GaveUp
<1>3. CASE ~exists
  <2>1. Goto(w, "identify") /\ told' = told /\ exists' = TRUE /\ dest' = stage[w]
    BY <1>3 DEF InstallWhole
  <2>2. exists' BY <2>1
  <2>3. QED BY <1>1, <1>3, <2>1, <2>2, GotoOnward, StepNames, RemovedEmptied
<1>4. QED BY <1>2, <1>3

\* What RequireAbsent changes.
LEMMA RequireAbsentEffect ==
  ASSUME TypeOK, NEW w \in Windows, RequireAbsent(w)
  PROVE  /\ job[w].at = "absent" /\ UNCHANGED <<exists, dest, stage, stuck>>
         /\ \/ Onward(w, "identify") /\ Len(job[w].moved) = 3
            \/ Onward(w, "rename") /\ Len(job[w].moved) # 3
            \/ Onward(w, "rollback")
<1>1. job[w].at = "absent" /\ UNCHANGED <<exists, dest, stage, stuck, told>>
  BY DEF RequireAbsent, At
<1>2. \/ Goto(w, "identify") /\ Len(job[w].moved) = 3
      \/ Goto(w, "rename") /\ Len(job[w].moved) # 3
      \/ Goto(w, "rollback")
  BY DEF RequireAbsent
<1>3. QED BY <1>1, <1>2, GotoOnward, StepNames

\* What Rename changes.
LEMMA RenameEffect ==
  ASSUME TypeOK, NEW w \in Windows, JobInv, Rename(w)
  PROVE  /\ job[w].at = "rename" /\ UNCHANGED <<exists, stuck>> /\ Len(job[w].moved) # 3
         /\ \/ Onward(w, "rollback") /\ UNCHANGED <<dest, stage>>
            \/ \E e \in Names :
                 /\ dest[e] = None /\ dest'[e] = stage[w][e] /\ stage'[w][e] = None
                 /\ \A n \in Names \ {e} : dest'[n] = dest[n] /\ stage'[w][n] = stage[w][n]
                 /\ IsTree(dest') /\ stage' \in [Windows -> Trees]
                 /\ \A v \in Windows : IsTree(stage'[v])
                 /\ job'[w].at = "absent" /\ job'[w].dump = job[w].dump
                 /\ job'[w].moved \in Moves /\ ~InSeq(e, job[w].moved)
                 /\ \A n \in Names : InSeq(n, job'[w].moved) <=> InSeq(n, job[w].moved) \/ n = e
                 /\ told' = told /\ Alone(w)
<1>1. job[w].at = "rename" /\ UNCHANGED <<exists, stuck, told>> BY DEF Rename, At
<1>2. Len(job[w].moved) # 3
  <2>1. job[w].moved \in Moves BY DEF TypeOK, Jobs
  <2>2. QED BY <1>1, <2>1, MoveFacts DEF JobInv, JobFine
<1> DEFINE e == NextEntry(w)
<1>3. /\ e \in Names /\ ~InSeq(e, job[w].moved) /\ Append(job[w].moved, e) \in Moves
      /\ \A n \in Names : InSeq(n, Append(job[w].moved, e)) <=> InSeq(n, job[w].moved) \/ n = e
  <2>1. job[w].moved \in Moves BY DEF TypeOK, Jobs
  <2>2. QED BY <1>2, <2>1, NextFacts DEF NextEntry
<1>4. CASE dest[e] # None
  <2>1. Goto(w, "rollback") /\ UNCHANGED <<dest, stage>> BY <1>4 DEF Rename
  <2>2. QED BY <1>1, <1>2, <2>1, GotoOnward, StepNames
<1>5. CASE dest[e] = None
  <2>1. Move(w, e) BY <1>5 DEF Rename
  <2> DEFINE t == [stage[w] EXCEPT ![e] = None]
  <2>2. stage' = [stage EXCEPT ![w] = t] BY <2>1 DEF Move
  <2>3. IsTree(stage[w]) BY DEF TypeOK
  <2> HIDE DEF e
  <2>4. IsTree(t) /\ t[e] = None /\ \A n \in Names \ {e} : t[n] = stage[w][n]
    BY <1>3, <2>3, PutEntry
  <2> HIDE DEF t
  <2>5. /\ stage' \in [Windows -> Trees] /\ \A v \in Windows : IsTree(stage'[v])
        /\ stage'[w] = t /\ \A v \in Windows \ {w} : stage'[v] = stage[v]
    BY <2>2, <2>4, PutStage
  <2>6. dest' = [dest EXCEPT ![e] = stage[w][e]] BY <2>1 DEF Move
  <2>7. stage[w][e] \in {None} \cup Entry /\ (stage[w][e] # None => Held(e, stage[w][e].has))
    BY <1>3, <2>3 DEF IsTree, Trees
  <2>8. IsTree(dest') /\ dest'[e] = stage[w][e] /\ \A n \in Names \ {e} : dest'[n] = dest[n]
    BY <1>3, <2>6, <2>7, PutDest
  <2>9. job' = [job EXCEPT ![w].at = "absent", ![w].moved = Append(@, e)] BY <2>1 DEF Move
  <2>10. /\ job'[w].at = "absent" /\ job'[w].moved = Append(job[w].moved, e)
         /\ job'[w].dump = job[w].dump /\ \A v \in Windows \ {w} : job'[v] = job[v]
    BY <2>9 DEF TypeOK, Jobs
  <2>11. Alone(w) BY <1>1, <2>5, <2>10 DEF Alone
  <2>12. QED BY <1>1, <1>2, <1>3, <1>5, <2>4, <2>5, <2>8, <2>10, <2>11
<1>6. QED BY <1>4, <1>5

\* What RenameFails changes.
LEMMA RenameFailsEffect ==
  ASSUME TypeOK, NEW w \in Windows, RenameFails(w)
  PROVE  /\ UNCHANGED <<exists, dest, stuck>>
         /\ \/ job[w].at = "whole" /\ Ended(w, "failed") /\ Emptied(w)
            \/ job[w].at = "rename" /\ Onward(w, "rollback") /\ stage' = stage
<1>1. UNCHANGED <<exists, dest, stuck>> BY DEF RenameFails
<1>2. \/ job[w].at = "whole" /\ GiveUp(w)
      \/ job[w].at = "rename" /\ Goto(w, "rollback") /\ UNCHANGED <<stage, told>>
  BY DEF RenameFails, At
<1>3. QED BY <1>1, <1>2, GaveUp, GotoOnward, StepNames

\* What RollBack changes.
LEMMA RollBackEffect ==
  ASSUME TypeOK, NEW w \in Windows, RollBack(w)
  PROVE  /\ job[w].at = "rollback" /\ UNCHANGED <<exists, told>>
         /\ job'[w].at = "rollback" /\ job'[w].dump = job[w].dump /\ job'[w].moved \in Moves
         /\ Alone(w)
         /\ \E e \in Names :
              /\ InSeq(e, job[w].moved)
              /\ \A n \in Names : InSeq(n, job'[w].moved) <=> InSeq(n, job[w].moved) /\ n # e
              /\ e = "game" => ~InSeq("library", job[w].moved)
              /\ e = "library" => ~InSeq("source", job[w].moved)
              /\ \/ stuck' = stuck \cup {e} /\ UNCHANGED <<dest, stage>>
                 \/ /\ stuck' = stuck /\ dest'[e] = None /\ stage'[w][e] = dest[e]
                    /\ \A n \in Names \ {e} : dest'[n] = dest[n] /\ stage'[w][n] = stage[w][n]
                    /\ IsTree(dest') /\ stage' \in [Windows -> Trees]
                    /\ \A v \in Windows : IsTree(stage'[v])
<1> DEFINE e == Last(job[w].moved)
<1>1. /\ job[w].at = "rollback" /\ UNCHANGED <<exists, told>> /\ job[w].moved # <<>>
      /\ job' = [job EXCEPT ![w].moved = Front(@)]
  BY DEF RollBack, At
<1>2. /\ e \in Names /\ InSeq(e, job[w].moved) /\ Front(job[w].moved) \in Moves
      /\ \A n \in Names : InSeq(n, Front(job[w].moved)) <=> InSeq(n, job[w].moved) /\ n # e
      /\ e = "game" => ~InSeq("library", job[w].moved)
      /\ e = "library" => ~InSeq("source", job[w].moved)
  <2>1. job[w].moved \in Moves BY DEF TypeOK, Jobs
  <2>2. QED BY <1>1, <2>1, LastFacts
<1>3. /\ job'[w].at = "rollback" /\ job'[w].moved = Front(job[w].moved)
      /\ job'[w].dump = job[w].dump /\ \A v \in Windows \ {w} : job'[v] = job[v]
  BY <1>1 DEF TypeOK, Jobs
<1>4. CASE stuck' = stuck \cup {e} /\ UNCHANGED <<stage, dest>>
  <2> HIDE DEF e
  <2>1. Alone(w) BY <1>1, <1>3, <1>4 DEF Alone
  <2>2. QED BY <1>1, <1>2, <1>3, <1>4, <2>1
<1>5. CASE /\ stage' = [stage EXCEPT ![w][e] = dest[e]]
           /\ dest' = [dest EXCEPT ![e] = None] /\ stuck' = stuck
  <2> DEFINE t == [stage[w] EXCEPT ![e] = dest[e]]
  <2>1. IsTree(stage[w]) /\ IsTree(dest) BY DEF TypeOK
  <2> HIDE DEF e
  <2>2. stage' = [stage EXCEPT ![w] = t] BY <1>5
  <2>3. dest[e] \in {None} \cup Entry /\ (dest[e] # None => Held(e, dest[e].has))
    BY <1>2, <2>1 DEF IsTree, Trees
  <2>4. IsTree(t) /\ t[e] = dest[e] /\ \A n \in Names \ {e} : t[n] = stage[w][n]
    BY <1>2, <2>1, <2>3, PutEntry
  <2> HIDE DEF t
  <2>5. /\ stage' \in [Windows -> Trees] /\ \A v \in Windows : IsTree(stage'[v])
        /\ stage'[w] = t /\ \A v \in Windows \ {w} : stage'[v] = stage[v]
    BY <2>2, <2>4, PutStage
  <2>6. IsTree(dest') /\ dest'[e] = None /\ \A n \in Names \ {e} : dest'[n] = dest[n]
    BY <1>2, <1>5, PutDest
  <2>7. Alone(w) BY <1>1, <1>3, <2>5 DEF Alone
  <2>8. QED BY <1>1, <1>2, <1>3, <1>5, <2>4, <2>5, <2>6, <2>7, ZenonT(60)
<1>6. QED BY <1>4, <1>5 DEF RollBack

\* What RolledBack changes.
LEMMA RolledBackEffect ==
  ASSUME TypeOK, NEW w \in Windows, RolledBack(w)
  PROVE  /\ job[w].at = "rollback" /\ job[w].moved = <<>> /\ UNCHANGED <<exists, dest, stuck>>
         /\ \/ (\E e \in stuck : dest[e].by = w) /\ Ended(w, "kept") /\ stage' = stage
            \/ (\A e \in stuck : dest[e].by # w) /\ Ended(w, "failed") /\ Emptied(w)
<1>1. job[w].at = "rollback" /\ job[w].moved = <<>> /\ UNCHANGED <<exists, dest, stuck>>
  BY DEF RolledBack, At
<1>2. \/ (\E e \in stuck : dest[e].by = w) /\ End(w, "kept") /\ stage' = stage
      \/ (\A e \in stuck : dest[e].by # w) /\ GiveUp(w)
  BY DEF RolledBack
<1>3. QED BY <1>1, <1>2, EndEnded, GaveUp, StepNames

\* What Identify changes.
LEMMA IdentifyEffect ==
  ASSUME TypeOK, NEW w \in Windows, Identify(w)
  PROVE  /\ job[w].at = "identify" /\ UNCHANGED <<exists, dest, stage, stuck>>
         /\ Ended(w, "done") \/ Ended(w, "failed")
<1>1. job[w].at = "identify" /\ UNCHANGED <<exists, dest, stage, stuck>> BY DEF Identify, At
<1>2. End(w, "done") \/ End(w, "failed") BY DEF Identify
<1>3. QED BY <1>1, <1>2, EndEnded, StepNames

\* What Kill changes.
LEMMA KillEffect ==
  ASSUME TypeOK, NEW w \in Windows, Kill(w)
  PROVE  Ended(w, "nothing") /\ Emptied(w) /\ UNCHANGED <<exists, dest, stuck>>
<1>1. End(w, "nothing") /\ stage' = [stage EXCEPT ![w] = Nothing] /\ UNCHANGED <<exists, dest, stuck>>
  BY DEF Kill
<1>2. QED BY <1>1, EndEnded, RemovedEmptied, StepNames

-----------------------------------------------------------------------------
(* What is done in place, and by the user. *)

\* An entry is as it was, has gained something, or is a new one of the user.
KeptEntry(e) ==
    \/ dest'[e] = dest[e]
    \/ /\ dest[e] = None /\ dest'[e] # None /\ dest'[e].by = User
       /\ e = "library" => Listed(dest'[e].has) /\ ~dest'[e].has.marker
    \/ /\ e = "game" /\ dest[e] # None /\ dest'[e] # None /\ dest'[e].by = dest[e].by
       /\ dest[e].has \subseteq dest'[e].has
    \/ /\ e = "library" /\ dest[e] # None /\ dest[e] \in Entry /\ dest[e].has \in LibraryDirs
       /\ Grown(dest[e], dest'[e])

\* A new entry of the user.
LEMMA NewEntry ==
  ASSUME TypeOK, NEW e \in Names, dest[e] = None, NEW c, Held(e, c),
         dest' = [dest EXCEPT ![e] = Owned(User, c)],
         e = "library" => Listed(c) /\ ~c.marker
  PROVE  IsTree(dest') /\ dest'[e] # None /\ \A n \in Names : KeptEntry(n)
<1> DEFINE x == Owned(User, c)
<1>1. x \in Entry /\ x # None /\ x.by = User /\ x.has = c BY OwnedEntry DEF Owners
<1> HIDE DEF x
<1>2. IsTree(dest') /\ dest'[e] = x /\ \A n \in Names \ {e} : dest'[n] = dest[n]
  BY <1>1, PutDest DEF x
<1>3. KeptEntry(e) BY <1>1, <1>2 DEF KeptEntry
<1>4. \A n \in Names \ {e} : KeptEntry(n) BY <1>2 DEF KeptEntry
<1>5. QED BY <1>1, <1>2, <1>3, <1>4

\* What BeginInit changes.
LEMMA BeginInitEffect ==
  ASSUME TypeOK, NEW w \in Windows, NEW d \in Backups, BeginInit(w, d)
  PROVE  /\ job[w].at = "idle" /\ NobodyCreates
         /\ exists /\ UNCHANGED <<exists, stage, stuck>>
         /\ IsTree(dest') /\ dest'["library"] # None /\ \A e \in Names : KeptEntry(e)
         /\ dest["library"] # None => dest' = dest
         /\ job'[w].at = "lists" /\ job'[w].moved = <<>> /\ told'[w] = "nothing"
         /\ \A v \in Windows \ {w} : job'[v] = job[v] /\ told'[v] = told[v]
<1>1. /\ job[w].at = "idle" /\ NobodyCreates
      /\ exists /\ UNCHANGED <<exists, stage, stuck>>
  BY DEF BeginInit, At
<1>2. /\ job'[w].at = "lists" /\ job'[w].moved = <<>> /\ told'[w] = "nothing"
      /\ \A v \in Windows \ {w} : job'[v] = job[v] /\ told'[v] = told[v]
  BY DEF BeginInit, Idle, TypeOK
<1>3. dest \in [Names -> {None} \cup Entry] /\ "library" \in Names
  BY DEF TypeOK, IsTree, Trees, Names
<1>4. CASE dest["library"] # None
  <2>1. dest' = [dest EXCEPT !["library"] = dest["library"]] BY <1>4 DEF BeginInit
  <2>2. dest' = dest BY <1>3, <2>1
  <2>3. QED BY <1>1, <1>2, <1>4, <2>2 DEF KeptEntry, TypeOK
<1>5. CASE dest["library"] = None
  <2>1. dest' = [dest EXCEPT !["library"] = Owned(User, Bare)] BY <1>5 DEF BeginInit
  <2>2. Held("library", Bare) /\ Listed(Bare) /\ ~Bare.marker BY BareLibrary DEF Held
  <2>3. IsTree(dest') /\ dest'["library"] # None /\ \A e \in Names : KeptEntry(e)
    BY <1>3, <1>5, <2>1, <2>2, NewEntry
  <2>4. QED BY <1>1, <1>2, <1>5, <2>3
<1>6. QED BY <1>4, <1>5

\* Files added to the game directory.
LEMMA CopyResourceEffect ==
  ASSUME TypeOK, NEW w \in Windows, CopyResource(w)
  PROVE  /\ job[w].at = "resources" /\ UNCHANGED <<exists, stage, told, stuck>>
         /\ IsTree(dest') /\ dest'["library"] = dest["library"] /\ \A e \in Names : KeptEntry(e)
         /\ Onward(w, "templates") \/ job' = job
<1>1. job[w].at = "resources" /\ UNCHANGED <<exists, stage, told, stuck>>
  BY DEF CopyResource, At
<1>2. IsTree(dest) /\ "game" \in Names /\ "library" \in Names BY DEF TypeOK, Names
<1>3. CASE Files \subseteq GameFiles
  <2>1. Goto(w, "templates") /\ dest' = dest BY <1>3 DEF CopyResource
  <2>2. QED BY <1>1, <1>2, <2>1, GotoOnward, StepNames DEF KeptEntry
<1>4. CASE ~(Files \subseteq GameFiles)
  <2>1. PICK f \in Files \ GameFiles :
          dest' = [dest EXCEPT !["game"] = IF @ = None THEN Owned(User, {f})
                                           ELSE Owned(@.by, @.has \cup {f})]
    BY <1>4 DEF CopyResource
  <2>2. job' = job BY <1>4 DEF CopyResource
  <2>3. CASE dest["game"] = None
    <3>1. dest' = [dest EXCEPT !["game"] = Owned(User, {f})] BY <2>1, <2>3
    <3>2. Held("game", {f}) BY DEF Held
    <3>3. IsTree(dest') /\ \A e \in Names : KeptEntry(e) BY <1>2, <2>3, <3>1, <3>2, NewEntry
    <3>4. dest'["library"] = dest["library"] BY <1>2, <3>1 DEF IsTree, Trees, Names
    <3>5. QED BY <1>1, <2>2, <3>3, <3>4
  <2>4. CASE dest["game"] # None
    <3> DEFINE x == dest["game"]
               c == x.has \cup {f}
               y == Owned(x.by, c)
    <3>1. dest' = [dest EXCEPT !["game"] = y] BY <2>1, <2>4
    <3>2. x.by \in Owners /\ x.has \in SUBSET Files BY <1>2, <2>4, TreeEntry DEF Held
    <3>3. x.has \cup {f} \in SUBSET Files BY <3>2
    <3>4. y = Owned(x.by, c) /\ x.has \subseteq c OBVIOUS
    <3> HIDE DEF x, y
    <3>5. Held("game", c) BY <3>3 DEF Held
    <3> HIDE DEF c
    <3>6. y \in Entry /\ y # None /\ y.by = x.by /\ y.has = c
      BY <1>2, <3>2, <3>4, <3>5, OwnedEntry
    <3>7. IsTree(dest') /\ dest'["game"] = y /\ \A n \in Names \ {"game"} : dest'[n] = dest[n]
      BY <1>2, <3>1, <3>5, <3>6, PutDest
    <3>8. KeptEntry("game") BY <2>4, <3>4, <3>6, <3>7 DEF KeptEntry, x
    <3>9. \A n \in Names \ {"game"} : KeptEntry(n) BY <3>7 DEF KeptEntry
    <3>10. QED BY <1>1, <1>2, <2>2, <3>7, <3>8, <3>9
  <2>5. QED BY <2>3, <2>4
<1>5. QED BY <1>3, <1>4

\* All entries are kept when only the library gains something.
LEMMA GrownEntries ==
  ASSUME TypeOK, dest["library"] # None, dest["library"] \in Entry,
         dest["library"].has \in LibraryDirs,
         \/ dest' = dest
         \/ /\ Grown(dest["library"], dest'["library"])
            /\ IsTree(dest') /\ \A e \in Names \ {"library"} : dest'[e] = dest[e]
  PROVE  IsTree(dest') /\ \A e \in Names : KeptEntry(e)
BY DEF TypeOK, KeptEntry

\* What InitList changes.
LEMMA InitListEffect ==
  ASSUME TypeOK, PlaceInv, NEW w \in Windows, InitList(w)
  PROVE  /\ job[w].at = "lists" /\ UNCHANGED <<exists, stage, told, stuck>>
         /\ IsTree(dest') /\ \A e \in Names : KeptEntry(e)
         /\ SameMarker(dest["library"], dest'["library"])
         /\ \A e \in Names \ {"library"} : dest'[e] = dest[e]
         /\ \/ /\ Onward(w, "resources") /\ dest' = dest
               /\ \A l \in Lineups : dest["library"].has.lists[l] # None
            \/ job' = job
<1>1. job[w].at = "lists" /\ UNCHANGED <<exists, stage, told, stuck>> BY DEF InitList, At
<1>2. IsTree(dest') /\ \A e \in Names : KeptEntry(e) BY LibraryGrows, GrownEntries
<1>3. ~InitEnable(w) /\ ~OpenFolder(w)
  BY <1>1 DEF InitEnable, OpenFolder, At, AllIdle
<1>4. SameMarker(dest["library"], dest'["library"]) BY <1>3, LibraryGrows DEF SameMarker
<1>5. \A e \in Names \ {"library"} : dest'[e] = dest[e] BY LibraryGrows
<1>6. \/ /\ Goto(w, "resources") /\ dest' = dest
         /\ \A l \in Lineups : dest["library"].has.lists[l] # None
      \/ job' = job
  BY DEF InitList
<1>7. QED BY <1>1, <1>2, <1>4, <1>5, <1>6, GotoOnward, StepNames

\* What CopyTemplate changes.
LEMMA CopyTemplateEffect ==
  ASSUME TypeOK, PlaceInv, NEW w \in Windows, CopyTemplate(w)
  PROVE  /\ job[w].at = "templates" /\ UNCHANGED <<exists, stage, told, stuck>>
         /\ IsTree(dest') /\ \A e \in Names : KeptEntry(e)
         /\ SameMarker(dest["library"], dest'["library"])
         /\ \A e \in Names \ {"library"} : dest'[e] = dest[e]
         /\ Onward(w, "enable") \/ job' = job
<1>1. job[w].at = "templates" /\ UNCHANGED <<exists, stage, told, stuck>>
  BY DEF CopyTemplate, At
<1>2. IsTree(dest') /\ \A e \in Names : KeptEntry(e) BY LibraryGrows, GrownEntries
<1>3. ~InitEnable(w) /\ ~OpenFolder(w)
  BY <1>1 DEF InitEnable, OpenFolder, At, AllIdle
<1>4. SameMarker(dest["library"], dest'["library"]) BY <1>3, LibraryGrows DEF SameMarker
<1>5. \A e \in Names \ {"library"} : dest'[e] = dest[e] BY LibraryGrows
<1>6. Goto(w, "enable") \/ job' = job BY DEF CopyTemplate
<1>7. QED BY <1>1, <1>2, <1>4, <1>5, <1>6, GotoOnward, StepNames

\* The marker is set.
LEMMA EnableMarks ==
  ASSUME TypeOK, Enable, dest["library"] # None
  PROVE  dest'["library"].has.marker
<1>1. "library" \in Names /\ IsTree(dest) BY DEF TypeOK, Names
<1> DEFINE x == dest["library"]
           y == [x EXCEPT !.has.marker = TRUE]
<1>2. x \in Entry /\ x.has \in LibraryDirs BY <1>1, TreeEntry DEF Held
<1>3. dest' = [dest EXCEPT !["library"] = y] BY DEF Enable
<1>4. Grown(x, y) /\ y.has.marker BY <1>2, MarkedGrows
<1> HIDE DEF x, y
<1>5. dest'["library"] = y BY <1>1, <1>3 DEF IsTree, Trees
<1>6. QED BY <1>4, <1>5

\* What InitEnable changes.
LEMMA InitEnableEffect ==
  ASSUME TypeOK, PlaceInv, NEW w \in Windows, InitEnable(w)
  PROVE  /\ job[w].at = "enable" /\ UNCHANGED <<exists, stage, stuck>> /\ Ended(w, "initialised")
         /\ IsTree(dest') /\ \A e \in Names : KeptEntry(e)
         /\ Prepares(GameFiles, dest["library"].has) /\ dest'["library"].has.marker
         /\ \A e \in Names \ {"library"} : dest'[e] = dest[e]
<1>1. job[w].at = "enable" /\ UNCHANGED <<exists, stage, stuck>> /\ End(w, "initialised")
  BY DEF InitEnable, At
<1>2. IsTree(dest') /\ \A e \in Names : KeptEntry(e) BY LibraryGrows, GrownEntries
<1>3. \A e \in Names \ {"library"} : dest'[e] = dest[e] BY LibraryGrows
<1>4. Prepares(GameFiles, dest["library"].has) /\ Enable BY DEF InitEnable
<1>5. dest'["library"].has.marker BY <1>4, LibraryGrows, EnableMarks
<1>6. QED BY <1>1, <1>2, <1>3, <1>4, <1>5, EndEnded, StepNames

\* What InitFails changes.
LEMMA InitFailsEffect ==
  ASSUME TypeOK, NEW w \in Windows, InitFails(w)
  PROVE  /\ job[w].at \in InPlace /\ UNCHANGED <<exists, dest, stage, stuck>>
         /\ Ended(w, "initFailed")
BY EndEnded, StepNames DEF InitFails

\* What OpenFolder changes.
LEMMA OpenFolderEffect ==
  ASSUME TypeOK, PlaceInv, NEW w \in Windows, OpenFolder(w)
  PROVE  /\ job[w].at = "idle" /\ NobodyCreates
         /\ HasLibrary /\ UNCHANGED <<exists, stage, job, stuck>>
         /\ IsTree(dest') /\ \A e \in Names : KeptEntry(e)
         /\ \A e \in Names \ {"library"} : dest'[e] = dest[e]
         /\ \A v \in Windows \ {w} : told'[v] = told[v]
         /\ \/ told'[w] \in {"bare", "refused"} /\ dest' = dest
            \/ /\ told'[w] = "open" /\ Prepares(GameFiles, dest["library"].has)
               /\ dest'["library"].has.marker
<1>1. /\ job[w].at = "idle" /\ NobodyCreates
      /\ HasLibrary /\ UNCHANGED <<exists, stage, job, stuck>>
  BY DEF OpenFolder, At
<1>2. IsTree(dest') /\ \A e \in Names : KeptEntry(e) BY LibraryGrows, GrownEntries
<1>3. \A e \in Names \ {"library"} : dest'[e] = dest[e] BY LibraryGrows
<1>4. \A v \in Windows \ {w} : told'[v] = told[v] BY DEF OpenFolder, TypeOK
<1>5. \/ told'[w] \in {"bare", "refused"} /\ dest' = dest
      \/ told'[w] = "open" /\ Prepares(GameFiles, dest["library"].has) /\ Enable
  BY DEF OpenFolder, TypeOK
<1>6. QED BY <1>1, <1>2, <1>3, <1>4, <1>5, LibraryGrows, EnableMarks

\* What UserPuts changes.
LEMMA UserPutsEffect ==
  ASSUME TypeOK, NEW e \in Names, UserPuts(e)
  PROVE  /\ exists /\ dest[e] = None /\ UNCHANGED <<exists, stage, job, told, stuck>>
         /\ IsTree(dest') /\ \A n \in Names : KeptEntry(n)
         /\ \A n \in Names \ {e} : dest'[n] = dest[n]
<1>1. exists /\ dest[e] = None /\ UNCHANGED <<exists, stage, job, told, stuck>> BY DEF UserPuts
<1>2. ASSUME NEW c, Held(e, c), dest' = [dest EXCEPT ![e] = Owned(User, c)],
             e = "library" => Listed(c) /\ ~c.marker
      PROVE  /\ IsTree(dest') /\ \A n \in Names : KeptEntry(n)
             /\ \A n \in Names \ {e} : dest'[n] = dest[n]
  <2>1. IsTree(dest') /\ \A n \in Names : KeptEntry(n) BY <1>1, <1>2, NewEntry
  <2>2. \A n \in Names \ {e} : dest'[n] = dest[n] BY <1>2 DEF TypeOK, IsTree, Trees
  <2>3. QED BY <2>1, <2>2
<1>3. CASE e = "game"
  <2>1. PICK c \in {{}, {Engine}, Files} : dest' = [dest EXCEPT ![e] = Owned(User, c)]
    BY <1>3 DEF UserPuts
  <2>2. Held(e, c) BY <1>3, CreationAssumption DEF Held
  <2>3. QED BY <1>1, <1>2, <1>3, <2>1, <2>2
<1>4. CASE e = "library"
  <2>1. PICK c \in Libraries : dest' = [dest EXCEPT ![e] = Owned(User, c)]
    BY <1>4 DEF UserPuts
  <2>2. Held(e, c) /\ Listed(c) /\ ~c.marker BY <1>4, LibrariesAssumption DEF Held
  <2>3. QED BY <1>1, <1>2, <2>1, <2>2
<1>5. CASE e = "source"
  <2>1. dest' = [dest EXCEPT ![e] = Owned(User, {})] BY <1>5 DEF UserPuts
  <2>2. Held(e, {}) BY <1>5 DEF Held
  <2>3. QED BY <1>1, <1>2, <1>5, <2>1, <2>2
<1>6. QED BY <1>3, <1>4, <1>5 DEF Names

\* What UserClears changes.
LEMMA UserClearsEffect ==
  ASSUME TypeOK, UserClears
  PROVE  /\ AllIdle /\ UNCHANGED <<exists, job>> /\ dest' = Nothing /\ stuck' = {}
         /\ stage' = [w \in Windows |-> Nothing] /\ told' = [w \in Windows |-> "nothing"]
BY DEF UserClears

-----------------------------------------------------------------------------
(* Every step preserves the invariant. *)

TreesOK ==
    /\ IsTree(dest) /\ stuck \subseteq Names
    /\ stage \in [Windows -> Trees] /\ \A v \in Windows : IsTree(stage[v])

\* Destination and staging directories keep their shape.
LEMMA TreesTyped ==
  ASSUME InductiveInv, Next
  PROVE  TreesOK'
<1>1. ASSUME NEW w \in Windows, NEW d \in Dumps, NEW games \in BOOLEAN, BeginCreate(w, d, games)
      PROVE  TreesOK'
  BY <1>1, InductiveInv, BeginCreateEffect DEF TreesOK, InductiveInv, TypeOK
<1>2. ASSUME NEW w \in Windows, StageResources(w)
      PROVE  TreesOK'
  <2>1. UNCHANGED <<dest, stuck>> BY <1>2, InductiveInv, StageResourcesJob DEF InductiveInv
  <2>2. QED BY <1>2, <2>1, StageResourcesEffect DEF TreesOK, InductiveInv, TypeOK
<1>3. ASSUME NEW w \in Windows, StageGames(w)
      PROVE  TreesOK'
  BY <1>3, InductiveInv, StageGamesJob, StageGamesEffect DEF TreesOK, InductiveInv, TypeOK,
       Onward
<1>4. ASSUME NEW w \in Windows, StageRuntime(w)
      PROVE  TreesOK'
  BY <1>4, InductiveInv, StageRuntimeJob, StageRuntimeEffect DEF TreesOK, InductiveInv, TypeOK,
       Onward
<1>5. ASSUME NEW w \in Windows, StageFails(w)
      PROVE  TreesOK'
  BY <1>5, InductiveInv, StageFailsEffect DEF TreesOK, InductiveInv, TypeOK, Emptied, Ended
<1>6. ASSUME NEW w \in Windows, CheckAgain(w)
      PROVE  TreesOK'
  BY <1>6, InductiveInv, CheckAgainEffect DEF TreesOK, InductiveInv, TypeOK, Emptied, Onward,
       Ended
<1>7. ASSUME NEW w \in Windows, InstallWhole(w)
      PROVE  TreesOK'
  BY <1>7, InductiveInv, InstallWholeEffect DEF TreesOK, InductiveInv, TypeOK, Emptied, Onward,
       Ended
<1>8. ASSUME NEW w \in Windows, RequireAbsent(w)
      PROVE  TreesOK'
  BY <1>8, InductiveInv, RequireAbsentEffect DEF TreesOK, InductiveInv, TypeOK, Onward
<1>9. ASSUME NEW w \in Windows, Rename(w)
      PROVE  TreesOK'
  BY <1>9, InductiveInv, RenameEffect DEF TreesOK, InductiveInv, TypeOK, Onward
<1>10. ASSUME NEW w \in Windows, RenameFails(w)
      PROVE  TreesOK'
  BY <1>10, InductiveInv, RenameFailsEffect DEF TreesOK, InductiveInv, TypeOK, Emptied, Onward,
       Ended
<1>11. ASSUME NEW w \in Windows, RollBack(w)
      PROVE  TreesOK'
  BY <1>11, InductiveInv, RollBackEffect DEF TreesOK, InductiveInv, TypeOK
<1>12. ASSUME NEW w \in Windows, RolledBack(w)
      PROVE  TreesOK'
  BY <1>12, InductiveInv, RolledBackEffect DEF TreesOK, InductiveInv, TypeOK, Emptied, Ended
<1>13. ASSUME NEW w \in Windows, Identify(w)
      PROVE  TreesOK'
  BY <1>13, InductiveInv, IdentifyEffect DEF TreesOK, InductiveInv, TypeOK, Ended
<1>14. ASSUME NEW w \in Windows, NEW d \in Backups, BeginInit(w, d)
      PROVE  TreesOK'
  BY <1>14, InductiveInv, BeginInitEffect DEF TreesOK, InductiveInv, TypeOK
<1>15. ASSUME NEW w \in Windows, InitList(w)
      PROVE  TreesOK'
  BY <1>15, InductiveInv, InitListEffect DEF TreesOK, InductiveInv, TypeOK, Onward
<1>16. ASSUME NEW w \in Windows, CopyResource(w)
      PROVE  TreesOK'
  BY <1>16, InductiveInv, CopyResourceEffect DEF TreesOK, InductiveInv, TypeOK, Onward
<1>17. ASSUME NEW w \in Windows, CopyTemplate(w)
      PROVE  TreesOK'
  BY <1>17, InductiveInv, CopyTemplateEffect DEF TreesOK, InductiveInv, TypeOK, Onward
<1>18. ASSUME NEW w \in Windows, InitEnable(w)
      PROVE  TreesOK'
  BY <1>18, InductiveInv, InitEnableEffect DEF TreesOK, InductiveInv, TypeOK, Ended
<1>19. ASSUME NEW w \in Windows, InitFails(w)
      PROVE  TreesOK'
  BY <1>19, InductiveInv, InitFailsEffect DEF TreesOK, InductiveInv, TypeOK, Ended
<1>20. ASSUME NEW w \in Windows, OpenFolder(w)
      PROVE  TreesOK'
  BY <1>20, InductiveInv, OpenFolderEffect DEF TreesOK, InductiveInv, TypeOK
<1>21. ASSUME NEW w \in Windows, Kill(w)
      PROVE  TreesOK'
  BY <1>21, InductiveInv, KillEffect DEF TreesOK, InductiveInv, TypeOK, Emptied, Ended
<1>22. ASSUME NEW e \in Names, UserPuts(e)
      PROVE  TreesOK'
  BY <1>22, InductiveInv, UserPutsEffect DEF TreesOK, InductiveInv, TypeOK
<1>23. CASE UserMakesDirectory
  BY <1>23, InductiveInv DEF TreesOK, InductiveInv, TypeOK, UserMakesDirectory
<1>24. CASE UserClears
  <2>1. dest' = Nothing /\ stuck' = {} /\ stage' = [w \in Windows |-> Nothing]
    BY <1>24 DEF UserClears
  <2>2. IsTree(Nothing) /\ Nothing \in Trees BY EmptyTree DEF IsTree
  <2> HIDE DEF Nothing
  <2>3. QED BY <2>1, <2>2 DEF TreesOK
<1>25. QED
  BY <1>1, <1>2, <1>3, <1>4, <1>5, <1>6, <1>7, <1>8, <1>9, <1>10, <1>11, <1>12,
       <1>13, <1>14, <1>15, <1>16, <1>17, <1>18, <1>19, <1>20, <1>21, <1>22, <1>23,
       <1>24 DEF Next, Create, Initialise

\* Every variable keeps its type.
LEMMA TypeOKStep ==
  ASSUME InductiveInv, Next
  PROVE  TypeOK'
BY JobsTyped, TreesTyped DEF TypeOK, TreesOK, InductiveInv

\* What an entry that is kept still says.
LEMMA KeptFacts ==
  ASSUME TypeOK, NEW e \in Names, KeptEntry(e)
  PROVE  /\ \A v \in Windows : By(v, e)' <=> By(v, e)
         /\ dest[e] # None => dest'[e] # None /\ dest'[e].by = dest[e].by
<1>1. User \notin Windows BY CreationAssumption
<1>2. dest[e] # None => dest'[e] # None /\ dest'[e].by = dest[e].by
  BY GrownKeeps DEF KeptEntry, Grown
<1>3. \A v \in Windows : By(v, e)' <=> By(v, e) BY <1>1, <1>2 DEF KeptEntry, By
<1>4. QED BY <1>2, <1>3

\* A whole entry of a window that is kept stays whole.
LEMMA KeptGood ==
  ASSUME TypeOK, IsTree(dest'), NEW e \in Names, KeptEntry(e), NEW v \in Windows, By(v, e),
         Good(v, e, dest[e])
  PROVE  Good(v, e, dest'[e])
<1>1. dest'[e] # None /\ dest'[e].by = v BY KeptFacts DEF By
<1>2. Held(e, dest'[e].has) BY <1>1, TreeEntry
<1>3. CASE e = "game" 
  <2>1. dest[e].has = Files /\ dest'[e].has \subseteq Files BY <1>2, <1>3 DEF Good, Held
  <2>2. dest[e].has \subseteq dest'[e].has BY <1>3 DEF KeptEntry, By
  <2>3. QED BY <1>1, <1>3, <2>1, <2>2 DEF Good
<1>4. CASE e = "library"
  <2>1. CASE dest'[e] = dest[e] BY <2>1
  <2>2. CASE Grown(dest[e], dest'[e])
    <3>1. dest[e] \in Entry /\ dest[e].has \in LibraryDirs /\ dest'[e].has \in LibraryDirs
      BY <1>1, <1>2, <1>4, TreeEntry DEF TypeOK, Held, By
    <3>2. Listed(dest'[e].has) /\ \A l \in Lineups : dest'[e].has.lists[l] # None
      BY <1>4, <2>2, <3>1, GrownKeeps DEF Good
    <3>3. dest'[e].has.tmpl = Templates
      BY <1>4, <2>2, <3>1 DEF Good, Grown, LibraryDirs
    <3>4. dest'[e].has.marker BY <1>4, <2>2, Zenon DEF Good, Grown
    <3>5. QED BY <1>1, <1>4, <3>2, <3>3, <3>4, Zenon DEF Good
  <2>3. QED BY <1>4, <2>1, <2>2 DEF KeptEntry, By
<1>5. CASE e = "source" BY <1>1, <1>5 DEF Good
<1>6. QED BY <1>3, <1>4, <1>5 DEF Names

\* Its lists stay, and a library whose lists name what is there goes on doing so.
LEMMA KeptLists ==
  ASSUME TypeOK, KeptEntry("library"), dest["library"] # None
  PROVE  /\ dest'["library"] # None
         /\ \A l \in Lineups : dest["library"].has.lists[l] # None => dest'["library"].has.lists[l] # None
         /\ Listed(dest["library"].has) => Listed(dest'["library"].has)
<1>1. "library" \in Names BY DEF Names
<1>2. QED BY <1>1, KeptFacts, GrownKeeps DEF KeptEntry

\* Jobs go through their steps in order.
LEMMA JobInvStep ==
  ASSUME InductiveInv, Next
  PROVE  JobInv'
<1>1. ASSUME NEW w \in Windows, NEW d \in Dumps, NEW games \in BOOLEAN, BeginCreate(w, d, games)
      PROVE  JobInv'
  BY <1>1, InductiveInv, BeginCreateEffect DEF InductiveInv, JobInv, JobFine,
       Installing, Creation, Staging, InPlace
<1>2. ASSUME NEW w \in Windows, StageResources(w)
      PROVE  JobInv'
  BY <1>2, InductiveInv, StageResourcesJob, StageResourcesEffect DEF InductiveInv,
       JobInv, JobFine, Installing, Creation, Staging, InPlace, Onward
<1>3. ASSUME NEW w \in Windows, StageGames(w)
      PROVE  JobInv'
  BY <1>3, InductiveInv, StageGamesJob, StageGamesEffect DEF InductiveInv, JobInv,
       JobFine, Installing, Creation, Staging, InPlace, Onward
<1>4. ASSUME NEW w \in Windows, StageRuntime(w)
      PROVE  JobInv'
  BY <1>4, InductiveInv, StageRuntimeJob, StageRuntimeEffect DEF InductiveInv, JobInv,
       JobFine, Installing, Creation, Staging, InPlace, Onward
<1>5. ASSUME NEW w \in Windows, StageFails(w)
      PROVE  JobInv'
  BY <1>5, InductiveInv, StageFailsEffect DEF InductiveInv, JobInv, JobFine,
       Installing, Creation, Staging, InPlace, Ended, Emptied
<1>6. ASSUME NEW w \in Windows, CheckAgain(w)
      PROVE  JobInv'
  BY <1>6, InductiveInv, CheckAgainEffect DEF InductiveInv, JobInv, JobFine,
       Installing, Creation, Staging, InPlace, Onward, Ended, Emptied
<1>7. ASSUME NEW w \in Windows, InstallWhole(w)
      PROVE  JobInv'
  BY <1>7, InductiveInv, InstallWholeEffect DEF InductiveInv, JobInv, JobFine,
       Installing, Creation, Staging, InPlace, Onward, Ended, Emptied
<1>8. ASSUME NEW w \in Windows, RequireAbsent(w)
      PROVE  JobInv'
  <2>1. job[w].moved \in Moves BY InductiveInv DEF InductiveInv, TypeOK, Jobs
  <2>2. \A n \in 0..3 : n # 3 => n < 3 OBVIOUS
  <2>4. Len(job[w].moved) \in 0..3 BY <2>1, MoveFacts
  <2>3. Len(job[w].moved) # 3 => Len(job[w].moved) < 3 BY <2>2, <2>4
  <2>5. QED
    BY <1>8, <2>3, InductiveInv, RequireAbsentEffect DEF InductiveInv, JobInv, JobFine,
       Installing,
       Creation, Staging, Onward
<1>9. ASSUME NEW w \in Windows, Rename(w)
      PROVE  JobInv'
  BY <1>9, InductiveInv, RenameEffect DEF InductiveInv, JobInv, JobFine, Installing,
       Creation, Staging, InPlace, Onward, Alone
<1>10. ASSUME NEW w \in Windows, RenameFails(w)
      PROVE  JobInv'
  BY <1>10, InductiveInv, RenameFailsEffect DEF InductiveInv, JobInv, JobFine,
       Installing, Creation, Staging, InPlace, Onward, Ended, Emptied
<1>11. ASSUME NEW w \in Windows, RollBack(w)
      PROVE  JobInv'
  BY <1>11, InductiveInv, RollBackEffect DEF InductiveInv, JobInv, JobFine, Installing,
       Creation, Staging, InPlace, Alone
<1>12. ASSUME NEW w \in Windows, RolledBack(w)
      PROVE  JobInv'
  BY <1>12, InductiveInv, RolledBackEffect DEF InductiveInv, JobInv, JobFine,
       Installing, Creation, Staging, InPlace, Ended, Emptied
<1>13. ASSUME NEW w \in Windows, Identify(w)
      PROVE  JobInv'
  BY <1>13, InductiveInv, IdentifyEffect DEF InductiveInv, JobInv, JobFine, Installing,
       Creation, Staging, InPlace, Ended
<1>14. ASSUME NEW w \in Windows, NEW d \in Backups, BeginInit(w, d)
      PROVE  JobInv'
  BY <1>14, InductiveInv, BeginInitEffect DEF InductiveInv, JobInv, JobFine,
       Installing, Creation, Staging, InPlace, NobodyCreates, At
<1>15. ASSUME NEW w \in Windows, InitList(w)
      PROVE  JobInv'
  BY <1>15, InductiveInv, InitListEffect DEF InductiveInv, JobInv, JobFine, Installing,
       Creation, Staging, InPlace, Onward
<1>16. ASSUME NEW w \in Windows, CopyResource(w)
      PROVE  JobInv'
  BY <1>16, InductiveInv, CopyResourceEffect DEF InductiveInv, JobInv, JobFine,
       Installing, Creation, Staging, InPlace, Onward
<1>17. ASSUME NEW w \in Windows, CopyTemplate(w)
      PROVE  JobInv'
  BY <1>17, InductiveInv, CopyTemplateEffect DEF InductiveInv, JobInv, JobFine,
       Installing, Creation, Staging, InPlace, Onward
<1>18. ASSUME NEW w \in Windows, InitEnable(w)
      PROVE  JobInv'
  BY <1>18, InductiveInv, InitEnableEffect DEF InductiveInv, JobInv, JobFine,
       Installing, Creation, Staging, InPlace, Ended
<1>19. ASSUME NEW w \in Windows, InitFails(w)
      PROVE  JobInv'
  BY <1>19, InductiveInv, InitFailsEffect DEF InductiveInv, JobInv, JobFine,
       Installing, Creation, Staging, InPlace, Ended
<1>20. ASSUME NEW w \in Windows, OpenFolder(w)
      PROVE  JobInv'
  BY <1>20, InductiveInv, OpenFolderEffect DEF InductiveInv, JobInv, JobFine,
       Installing, Creation, Staging, InPlace, NobodyCreates, At
<1>21. ASSUME NEW w \in Windows, Kill(w)
      PROVE  JobInv'
  BY <1>21, InductiveInv, KillEffect DEF InductiveInv, JobInv, JobFine, Installing,
       Creation, Staging, InPlace, Ended, Emptied
<1>22. ASSUME NEW e \in Names, UserPuts(e)
      PROVE  JobInv'
  BY <1>22, InductiveInv, UserPutsEffect DEF InductiveInv, JobInv, JobFine, Installing,
       Creation, Staging, InPlace
<1>23. CASE UserMakesDirectory
  BY <1>23, InductiveInv DEF InductiveInv, JobInv, JobFine, Installing, Creation,
       Staging, InPlace, UserMakesDirectory
<1>24. CASE UserClears
  BY <1>24, InductiveInv, UserClearsEffect DEF InductiveInv, JobInv, JobFine,
       Installing, Creation, Staging, InPlace, AllIdle, At
<1>25. QED
  BY <1>1, <1>2, <1>3, <1>4, <1>5, <1>6, <1>7, <1>8, <1>9, <1>10, <1>11, <1>12,
       <1>13, <1>14, <1>15, <1>16, <1>17, <1>18, <1>19, <1>20, <1>21, <1>22, <1>23,
       <1>24 DEF Next, Create, Initialise

\* An initialisation in place meets no creation.
LEMMA PlaceInvStep ==
  ASSUME InductiveInv, Next
  PROVE  PlaceInv'
<1>1. ASSUME NEW w \in Windows, NEW d \in Dumps, NEW games \in BOOLEAN, BeginCreate(w, d, games)
      PROVE  PlaceInv'
  BY <1>1, InductiveInv, BeginCreateEffect DEF InductiveInv, PlaceInv, PlaceFine,
       Installing, Creation, Staging, InPlace
<1>2. ASSUME NEW w \in Windows, StageResources(w)
      PROVE  PlaceInv'
  BY <1>2, InductiveInv, StageResourcesJob, StageResourcesEffect DEF InductiveInv,
       PlaceInv, PlaceFine, Installing, Creation, Staging, InPlace, Onward
<1>3. ASSUME NEW w \in Windows, StageGames(w)
      PROVE  PlaceInv'
  BY <1>3, InductiveInv, StageGamesJob, StageGamesEffect DEF InductiveInv, PlaceInv,
       PlaceFine, Installing, Creation, Staging, InPlace, Onward
<1>4. ASSUME NEW w \in Windows, StageRuntime(w)
      PROVE  PlaceInv'
  BY <1>4, InductiveInv, StageRuntimeJob, StageRuntimeEffect DEF InductiveInv,
       PlaceInv, PlaceFine, Installing, Creation, Staging, InPlace, Onward
<1>5. ASSUME NEW w \in Windows, StageFails(w)
      PROVE  PlaceInv'
  BY <1>5, InductiveInv, StageFailsEffect DEF InductiveInv, PlaceInv, PlaceFine,
       Installing, Creation, Staging, InPlace, Ended, Emptied
<1>6. ASSUME NEW w \in Windows, CheckAgain(w)
      PROVE  PlaceInv'
  BY <1>6, InductiveInv, CheckAgainEffect DEF InductiveInv, PlaceInv, PlaceFine,
       Installing, Creation, Staging, InPlace, Onward, Ended, Emptied
<1>7. ASSUME NEW w \in Windows, InstallWhole(w)
      PROVE  PlaceInv'
  BY <1>7, InductiveInv, InstallWholeEffect DEF InductiveInv, PlaceInv, PlaceFine,
       Installing, Creation, Staging, InPlace, Onward, Ended, Emptied
<1>8. ASSUME NEW w \in Windows, RequireAbsent(w)
      PROVE  PlaceInv'
  BY <1>8, InductiveInv, RequireAbsentEffect DEF InductiveInv, PlaceInv, PlaceFine,
       Installing, Creation, Staging, InPlace, Onward
<1>9. ASSUME NEW w \in Windows, Rename(w)
      PROVE  PlaceInv'
  BY <1>9, InductiveInv, RenameEffect DEF InductiveInv, PlaceInv, PlaceFine,
       Installing, Creation, Staging, InPlace, Onward, Alone
<1>10. ASSUME NEW w \in Windows, RenameFails(w)
      PROVE  PlaceInv'
  BY <1>10, InductiveInv, RenameFailsEffect DEF InductiveInv, PlaceInv, PlaceFine,
       Installing, Creation, Staging, InPlace, Onward, Ended, Emptied
<1>11. ASSUME NEW w \in Windows, RollBack(w)
      PROVE  PlaceInv'
  BY <1>11, InductiveInv, RollBackEffect DEF InductiveInv, PlaceInv, PlaceFine,
       Installing, Creation, Staging, InPlace, Alone
<1>12. ASSUME NEW w \in Windows, RolledBack(w)
      PROVE  PlaceInv'
  BY <1>12, InductiveInv, RolledBackEffect DEF InductiveInv, PlaceInv, PlaceFine,
       Installing, Creation, Staging, InPlace, Ended, Emptied
<1>13. ASSUME NEW w \in Windows, Identify(w)
      PROVE  PlaceInv'
  BY <1>13, InductiveInv, IdentifyEffect DEF InductiveInv, PlaceInv, PlaceFine,
       Installing, Creation, Staging, InPlace, Ended
<1>14. ASSUME NEW w \in Windows, NEW d \in Backups, BeginInit(w, d)
      PROVE  PlaceInv'
  BY <1>14, InductiveInv, BeginInitEffect DEF InductiveInv, PlaceInv, PlaceFine,
       Installing, Creation, Staging, InPlace, NobodyCreates, At
<1>15. ASSUME NEW w \in Windows, InitList(w)
      PROVE  PlaceInv'
  <2>1. KeptEntry("library") BY <1>15, InductiveInv, InitListEffect DEF InductiveInv, Names
  <2>2. QED BY <1>15, <2>1, KeptLists, InductiveInv, InitListEffect DEF InductiveInv,
       PlaceInv, PlaceFine, Installing, Creation, Staging, InPlace, Onward, Ended,
       Emptied, Alone, AllIdle, At
<1>16. ASSUME NEW w \in Windows, CopyResource(w)
      PROVE  PlaceInv'
  BY <1>16, InductiveInv, CopyResourceEffect DEF InductiveInv, PlaceInv, PlaceFine,
       Installing, Creation, Staging, InPlace, Onward
<1>17. ASSUME NEW w \in Windows, CopyTemplate(w)
      PROVE  PlaceInv'
  <2>1. KeptEntry("library") BY <1>17, InductiveInv, CopyTemplateEffect DEF InductiveInv, Names
  <2>2. QED BY <1>17, <2>1, KeptLists, InductiveInv, CopyTemplateEffect DEF
       InductiveInv, PlaceInv, PlaceFine, Installing, Creation, Staging, InPlace,
       Onward, Ended, Emptied, Alone, AllIdle, At
<1>18. ASSUME NEW w \in Windows, InitEnable(w)
      PROVE  PlaceInv'
  <2>1. KeptEntry("library") BY <1>18, InductiveInv, InitEnableEffect DEF InductiveInv, Names
  <2>2. QED BY <1>18, <2>1, KeptLists, InductiveInv, InitEnableEffect DEF InductiveInv,
       PlaceInv, PlaceFine, Installing, Creation, Staging, InPlace, Onward, Ended,
       Emptied, Alone, AllIdle, At
<1>19. ASSUME NEW w \in Windows, InitFails(w)
      PROVE  PlaceInv'
  BY <1>19, InductiveInv, InitFailsEffect DEF InductiveInv, PlaceInv, PlaceFine,
       Installing, Creation, Staging, InPlace, Ended
<1>20. ASSUME NEW w \in Windows, OpenFolder(w)
      PROVE  PlaceInv'
  <2>1. KeptEntry("library") BY <1>20, InductiveInv, OpenFolderEffect DEF InductiveInv, Names
  <2>2. QED BY <1>20, <2>1, KeptLists, InductiveInv, OpenFolderEffect DEF InductiveInv,
       PlaceInv, PlaceFine, NobodyCreates
<1>21. ASSUME NEW w \in Windows, Kill(w)
      PROVE  PlaceInv'
  BY <1>21, InductiveInv, KillEffect DEF InductiveInv, PlaceInv, PlaceFine, Installing,
       Creation, Staging, InPlace, Ended, Emptied
<1>22. ASSUME NEW e \in Names, UserPuts(e)
      PROVE  PlaceInv'
  <2>1. KeptEntry("library") BY <1>22, InductiveInv, UserPutsEffect DEF InductiveInv, Names
  <2>2. QED BY <1>22, <2>1, KeptLists, InductiveInv, UserPutsEffect DEF InductiveInv,
       PlaceInv, PlaceFine, Installing, Creation, Staging, InPlace, Onward, Ended,
       Emptied, Alone, AllIdle, At
<1>23. CASE UserMakesDirectory
  BY <1>23, InductiveInv DEF InductiveInv, PlaceInv, PlaceFine, Installing, Creation,
       Staging, InPlace, UserMakesDirectory
<1>24. CASE UserClears
  BY <1>24, InductiveInv, UserClearsEffect DEF InductiveInv, PlaceInv, PlaceFine,
       Installing, Creation, Staging, InPlace, AllIdle, At
<1>25. QED
  BY <1>1, <1>2, <1>3, <1>4, <1>5, <1>6, <1>7, <1>8, <1>9, <1>10, <1>11, <1>12,
       <1>13, <1>14, <1>15, <1>16, <1>17, <1>18, <1>19, <1>20, <1>21, <1>22, <1>23,
       <1>24 DEF Next, Create, Initialise

\* A staging directory is what its stage says.
LEMMA StageInvStep ==
  ASSUME InductiveInv, Next
  PROVE  StageInv'
<1>1. ASSUME NEW w \in Windows, NEW d \in Dumps, NEW games \in BOOLEAN, BeginCreate(w, d, games)
      PROVE  StageInv'
  BY <1>1, InductiveInv, BeginCreateEffect DEF InductiveInv, StageInv, StageFine, By,
       Installing, Creation, Staging, InPlace
<1>2. ASSUME NEW w \in Windows, StageResources(w)
      PROVE  StageInv'
  BY <1>2, InductiveInv, StageResourcesJob, StageResourcesEffect DEF InductiveInv,
       StageInv, StageFine, By, Installing, Creation, Staging, InPlace, Onward
<1>3. ASSUME NEW w \in Windows, StageGames(w)
      PROVE  StageInv'
  BY <1>3, InductiveInv, StageGamesJob, StageGamesEffect DEF InductiveInv, StageInv,
       StageFine, By, Installing, Creation, Staging, InPlace, Onward
<1>4. ASSUME NEW w \in Windows, StageRuntime(w)
      PROVE  StageInv'
  BY <1>4, InductiveInv, StageRuntimeJob, StageRuntimeEffect DEF InductiveInv,
       StageInv, StageFine, By, Installing, Creation, Staging, InPlace, Onward
<1>5. ASSUME NEW w \in Windows, StageFails(w)
      PROVE  StageInv'
  BY <1>5, InductiveInv, StageFailsEffect DEF InductiveInv, StageInv, StageFine, By,
       Installing, Creation, Staging, InPlace, Ended, Emptied
<1>6. ASSUME NEW w \in Windows, CheckAgain(w)
      PROVE  StageInv'
  BY <1>6, InductiveInv, CheckAgainEffect DEF InductiveInv, StageInv, StageFine, By,
       Installing, Creation, Staging, InPlace, Onward, Ended, Emptied
<1>7. ASSUME NEW w \in Windows, InstallWhole(w)
      PROVE  StageInv'
  <2>1. CASE Ended(w, "failed") /\ UNCHANGED <<exists, dest>>
    BY <1>7, <2>1, InductiveInv, InstallWholeEffect DEF InductiveInv, StageInv, StageFine, By,
       Installing, Onward, Ended, Emptied
  <2>2. CASE ~exists /\ exists' /\ dest' = stage[w] /\ Onward(w, "identify")
    <3>1. \A e \in Names : \A v \in Windows : ~By(v, e)
      BY <2>2, EmptyTree DEF InductiveInv, DestInv, By
    <3>2. stage'[w] = Nothing /\ \A v \in Windows \ {w} : stage'[v] = stage[v]
      BY <1>7, InductiveInv, InstallWholeEffect DEF InductiveInv, Emptied
    <3>3. QED
      BY <2>2, <3>1, <3>2, InductiveInv DEF InductiveInv, StageInv, StageFine, Installing,
         Onward, Alone
  <2>3. QED BY <1>7, <2>1, <2>2, InductiveInv, InstallWholeEffect DEF InductiveInv
<1>8. ASSUME NEW w \in Windows, RequireAbsent(w)
      PROVE  StageInv'
  BY <1>8, InductiveInv, RequireAbsentEffect DEF InductiveInv, StageInv, StageFine,
       By, Installing, Creation, Staging, InPlace, Onward
<1>9. ASSUME NEW w \in Windows, Rename(w)
      PROVE  StageInv'
  <2>1. CASE Onward(w, "rollback") /\ UNCHANGED <<dest, stage>>
    BY <1>9, <2>1, InductiveInv, RenameEffect DEF InductiveInv, StageInv, StageFine, By,
       Installing, Onward, Ended, Emptied
  <2>2. CASE ~(Onward(w, "rollback") /\ UNCHANGED <<dest, stage>>)
    <3>1. PICK e \in Names :
            /\ dest[e] = None /\ dest'[e] = stage[w][e] /\ stage'[w][e] = None
            /\ \A n \in Names \ {e} : dest'[n] = dest[n] /\ stage'[w][n] = stage[w][n]
            /\ job'[w].at = "absent" /\ Alone(w)
      BY <1>9, <2>2, InductiveInv, RenameEffect DEF InductiveInv
    <3>2. job[w].at = "rename" BY <1>9, InductiveInv, RenameEffect DEF InductiveInv
    <3>3. \A n \in Names : By(w, n) \/ Good(w, n, stage[w][n])
      BY <3>2, InductiveInv DEF InductiveInv, StageInv, StageFine, Installing, Onward, Alone
    <3>4. \A n \in Names : By(w, n)' \/ Good(w, n, stage'[w][n])
      BY <3>1, <3>3 DEF By, Good
    <3>5. \A n \in Names : \A v \in Windows : By(v, n) => By(v, n)'
      BY <3>1 DEF By
    <3>6. QED
      BY <3>1, <3>4, <3>5, InductiveInv DEF InductiveInv, StageInv, StageFine, Installing,
         Onward, Alone
  <2>3. QED BY <2>1, <2>2
<1>10. ASSUME NEW w \in Windows, RenameFails(w)
      PROVE  StageInv'
  BY <1>10, InductiveInv, RenameFailsEffect DEF InductiveInv, StageInv, StageFine, By,
       Installing, Creation, Staging, InPlace, Onward, Ended, Emptied
<1>11. ASSUME NEW w \in Windows, RollBack(w)
      PROVE  StageInv'
  <2>1. job[w].at = "rollback" /\ job'[w].at = "rollback" /\ Alone(w)
    BY <1>11, InductiveInv, RollBackEffect DEF InductiveInv
  <2>2. PICK e \in Names :
          /\ InSeq(e, job[w].moved)
          /\ \/ UNCHANGED <<dest, stage>>
             \/ /\ dest'[e] = None /\ stage'[w][e] = dest[e]
                /\ \A n \in Names \ {e} : dest'[n] = dest[n] /\ stage'[w][n] = stage[w][n]
    BY <1>11, InductiveInv, RollBackEffect DEF InductiveInv
  <2>3. By(w, e) BY <2>1, <2>2, InductiveInv DEF InductiveInv, MineInv, MineFine, Installing
  <2>4. Good(w, e, dest[e])
    BY <2>3, InductiveInv DEF InductiveInv, DestInv, Windowed, By
  <2>5. \A n \in Names : By(w, n) \/ Good(w, n, stage[w][n])
    BY <2>1, InductiveInv DEF InductiveInv, StageInv, StageFine, Installing, Onward, Alone
  <2>6. \A n \in Names : By(w, n)' \/ Good(w, n, stage'[w][n])
    BY <2>2, <2>4, <2>5 DEF By
  <2>7. \A n \in Names : \A v \in Windows \ {w} : By(v, n) => By(v, n)'
    BY <2>2, <2>3 DEF By
  <2>8. QED
    BY <2>1, <2>6, <2>7, InductiveInv DEF InductiveInv, StageInv, StageFine, Installing,
       Onward, Alone
<1>12. ASSUME NEW w \in Windows, RolledBack(w)
      PROVE  StageInv'
  BY <1>12, InductiveInv, RolledBackEffect DEF InductiveInv, StageInv, StageFine, By,
       Installing, Creation, Staging, InPlace, Ended, Emptied
<1>13. ASSUME NEW w \in Windows, Identify(w)
      PROVE  StageInv'
  BY <1>13, InductiveInv, IdentifyEffect DEF InductiveInv, StageInv, StageFine, By,
       Installing, Creation, Staging, InPlace, Ended
<1>14. ASSUME NEW w \in Windows, NEW d \in Backups, BeginInit(w, d)
      PROVE  StageInv'
  BY <1>14, InductiveInv, BeginInitEffect DEF InductiveInv, StageInv, StageFine, By,
       Installing, Creation, Staging, InPlace, NobodyCreates, At
<1>15. ASSUME NEW w \in Windows, InitList(w)
      PROVE  StageInv'
  <2>1. \A e \in Names : \A v \in Windows : By(v, e)' <=> By(v, e)
    BY <1>15, InductiveInv, InitListEffect, KeptFacts DEF InductiveInv
  <2>2. QED BY <1>15, <2>1, InductiveInv, InitListEffect DEF InductiveInv, StageInv,
       StageFine, Installing, Creation, Staging, InPlace, Onward, Ended, Emptied,
       Alone, AllIdle, At
<1>16. ASSUME NEW w \in Windows, CopyResource(w)
      PROVE  StageInv'
  <2>1. \A e \in Names : \A v \in Windows : By(v, e)' <=> By(v, e)
    BY <1>16, InductiveInv, CopyResourceEffect, KeptFacts DEF InductiveInv
  <2>2. QED BY <1>16, <2>1, InductiveInv, CopyResourceEffect DEF InductiveInv,
       StageInv, StageFine, Installing, Creation, Staging, InPlace, Onward, Ended,
       Emptied, Alone, AllIdle, At
<1>17. ASSUME NEW w \in Windows, CopyTemplate(w)
      PROVE  StageInv'
  <2>1. \A e \in Names : \A v \in Windows : By(v, e)' <=> By(v, e)
    BY <1>17, InductiveInv, CopyTemplateEffect, KeptFacts DEF InductiveInv
  <2>2. QED BY <1>17, <2>1, InductiveInv, CopyTemplateEffect DEF InductiveInv,
       StageInv, StageFine, Installing, Creation, Staging, InPlace, Onward, Ended,
       Emptied, Alone, AllIdle, At
<1>18. ASSUME NEW w \in Windows, InitEnable(w)
      PROVE  StageInv'
  <2>1. \A e \in Names : \A v \in Windows : By(v, e)' <=> By(v, e)
    BY <1>18, InductiveInv, InitEnableEffect, KeptFacts DEF InductiveInv
  <2>2. QED BY <1>18, <2>1, InductiveInv, InitEnableEffect DEF InductiveInv, StageInv,
       StageFine, Installing, Creation, Staging, InPlace, Onward, Ended, Emptied,
       Alone, AllIdle, At
<1>19. ASSUME NEW w \in Windows, InitFails(w)
      PROVE  StageInv'
  BY <1>19, InductiveInv, InitFailsEffect DEF InductiveInv, StageInv, StageFine, By,
       Installing, Creation, Staging, InPlace, Ended
<1>20. ASSUME NEW w \in Windows, OpenFolder(w)
      PROVE  StageInv'
  BY <1>20, InductiveInv, OpenFolderEffect DEF InductiveInv, StageInv, StageFine, By,
       Installing, Creation, Staging, InPlace, NobodyCreates, At
<1>21. ASSUME NEW w \in Windows, Kill(w)
      PROVE  StageInv'
  BY <1>21, InductiveInv, KillEffect DEF InductiveInv, StageInv, StageFine, By,
       Installing, Creation, Staging, InPlace, Ended, Emptied
<1>22. ASSUME NEW e \in Names, UserPuts(e)
      PROVE  StageInv'
  BY <1>22, InductiveInv, UserPutsEffect DEF InductiveInv, StageInv, StageFine, By,
       Installing, Creation, Staging, InPlace
<1>23. CASE UserMakesDirectory
  BY <1>23, InductiveInv DEF InductiveInv, StageInv, StageFine, By, Installing,
       Creation, Staging, InPlace, UserMakesDirectory
<1>24. CASE UserClears
  BY <1>24, InductiveInv, UserClearsEffect DEF InductiveInv, StageInv, StageFine, By,
       Installing, Creation, Staging, InPlace, AllIdle, At
<1>25. QED
  BY <1>1, <1>2, <1>3, <1>4, <1>5, <1>6, <1>7, <1>8, <1>9, <1>10, <1>11, <1>12,
       <1>13, <1>14, <1>15, <1>16, <1>17, <1>18, <1>19, <1>20, <1>21, <1>22, <1>23,
       <1>24 DEF Next, Create, Initialise

\* What a window has stays the same when neither it nor its entries change.
LEMMA MineSame ==
  ASSUME InductiveInv, NEW v \in Windows, job'[v] = job[v], stuck' = stuck,
         \A e \in Names : By(v, e)' <=> By(v, e)
  PROVE  MineFine(v)'
BY DEF InductiveInv, MineInv, MineFine, TypeOK

\* A window knows what it has in the destination.
LEMMA MineInvStep ==
  ASSUME InductiveInv, Next
  PROVE  MineInv'
<1>1. ASSUME NEW w \in Windows, NEW d \in Dumps, NEW games \in BOOLEAN, BeginCreate(w, d, games)
      PROVE  MineInv'
  <2>1. \A e \in Names : \A v \in Windows : ~By(v, e) /\ ~By(v, e)'
    BY <1>1, EmptyTree, InductiveInv, BeginCreateEffect DEF InductiveInv, By
  <2>2. MineFine(w)'
    BY <1>1, <2>1, InductiveInv, BeginCreateEffect DEF InductiveInv, MineInv, MineFine,
       Staging, Installing, Onward, Ended
  <2>3. \A v \in Windows \ {w} : MineFine(v)'
    BY <1>1, <2>1, MineSame, InductiveInv, BeginCreateEffect DEF InductiveInv
  <2>4. QED BY <2>2, <2>3 DEF MineInv
<1>2. ASSUME NEW w \in Windows, StageResources(w)
      PROVE  MineInv'
  BY <1>2, InductiveInv, StageResourcesJob, StageResourcesEffect DEF InductiveInv,
       MineInv, MineFine, Installing, Creation, Staging, InPlace, Onward, By
<1>3. ASSUME NEW w \in Windows, StageGames(w)
      PROVE  MineInv'
  BY <1>3, InductiveInv, StageGamesJob, StageGamesEffect DEF InductiveInv, MineInv,
       MineFine, Installing, Creation, Staging, InPlace, Onward, By
<1>4. ASSUME NEW w \in Windows, StageRuntime(w)
      PROVE  MineInv'
  BY <1>4, InductiveInv, StageRuntimeJob, StageRuntimeEffect DEF InductiveInv,
       MineInv, MineFine, Installing, Creation, Staging, InPlace, Onward, By
<1>5. ASSUME NEW w \in Windows, StageFails(w)
      PROVE  MineInv'
  BY <1>5, InductiveInv, StageFailsEffect DEF InductiveInv, MineInv, MineFine,
       Installing, Creation, Staging, InPlace, Ended, Emptied, By
<1>6. ASSUME NEW w \in Windows, CheckAgain(w)
      PROVE  MineInv'
  <2>1. \A e \in Names : \A v \in Windows : By(v, e)' <=> By(v, e)
    BY <1>6, InductiveInv, CheckAgainEffect DEF InductiveInv, By
  <2>2. \A v \in Windows \ {w} : MineFine(v)'
    BY <1>6, <2>1, MineSame, InductiveInv, CheckAgainEffect DEF InductiveInv, Onward, Ended
  <2>3. job[w].at = "check" BY <1>6, InductiveInv, CheckAgainEffect DEF InductiveInv
  <2>4. job[w].moved = <<>> /\ \A e \in Names : ~By(w, e)
    BY <2>3, InductiveInv DEF InductiveInv, JobInv, JobFine, MineInv, MineFine, Staging,
       Installing
  <2>5. \A e \in Names : ~InSeq(e, job[w].moved)
    BY <2>4, MoveFacts DEF Moves
  <2>6. MineFine(w)'
    BY <1>6, <2>1, <2>4, <2>5, InductiveInv, CheckAgainEffect DEF InductiveInv, TypeOK,
       MineFine, Onward, Ended, Staging, Installing
  <2>7. QED BY <2>2, <2>6 DEF MineInv
<1>7. ASSUME NEW w \in Windows, InstallWhole(w)
      PROVE  MineInv'
  <2>1. job[w].at = "whole" /\ stuck' = stuck
    BY <1>7, InductiveInv, InstallWholeEffect DEF InductiveInv
  <2>2. CASE Ended(w, "failed") /\ UNCHANGED <<exists, dest>>
    <3>1. \A e \in Names : \A v \in Windows : By(v, e)' <=> By(v, e) BY <2>2 DEF By
    <3>2. QED
      BY <2>1, <2>2, <3>1, MineSame, InductiveInv DEF InductiveInv, MineInv, MineFine, Staging,
         Installing, Onward, Ended
  <2>3. CASE ~exists /\ exists' /\ dest' = stage[w] /\ Onward(w, "identify")
    <3>1. \A e \in Names : \A v \in Windows : ~By(v, e)
      BY <2>3, EmptyTree DEF InductiveInv, DestInv, By
    <3>2. \A e \in Names : dest'[e] # None /\ dest'[e].by = w
      BY <2>1, <2>3, InductiveInv DEF InductiveInv, StageInv, StageFine, Good
    <3>3. MineFine(w)' BY <2>3, <3>2 DEF MineFine, By, Onward, Staging, Installing
    <3>4. \A v \in Windows \ {w} : \A e \in Names : ~By(v, e)' BY <3>2 DEF By
    <3>5. \A v \in Windows \ {w} : MineFine(v)'
      BY <2>1, <2>3, <3>1, <3>4, MineSame, InductiveInv DEF Onward
    <3>6. QED BY <3>3, <3>5 DEF MineInv
  <2>4. QED BY <1>7, <2>2, <2>3, InductiveInv, InstallWholeEffect DEF InductiveInv
<1>8. ASSUME NEW w \in Windows, RequireAbsent(w)
      PROVE  MineInv'
  <2>1. \A e \in Names : \A v \in Windows : By(v, e)' <=> By(v, e)
    BY <1>8, InductiveInv, RequireAbsentEffect DEF InductiveInv, By
  <2>2. \A v \in Windows \ {w} : MineFine(v)'
    BY <1>8, <2>1, MineSame, InductiveInv, RequireAbsentEffect DEF InductiveInv, Onward, Ended
  <2>3. job[w].at = "absent" /\ job[w].moved \in Moves
    BY <1>8, InductiveInv, RequireAbsentEffect DEF InductiveInv, TypeOK, Jobs
  <2>4. Len(job[w].moved) = 3 => \A e \in Names : InSeq(e, job[w].moved)
    BY <2>3, MoveFacts
  <2>5. MineFine(w)
    BY InductiveInv DEF InductiveInv, MineInv
  <2>6. MineFine(w)'
    BY <1>8, <2>1, <2>3, <2>4, <2>5, InductiveInv, RequireAbsentEffect DEF InductiveInv,
       TypeOK, MineFine, Onward, Staging, Installing
  <2>7. QED BY <2>2, <2>6 DEF MineInv
<1>9. ASSUME NEW w \in Windows, Rename(w)
      PROVE  MineInv'
  <2>1. job[w].at = "rename" /\ stuck' = stuck /\ MineFine(w) /\ stuck \subseteq Names
    BY <1>9, InductiveInv, RenameEffect DEF InductiveInv, MineInv, TypeOK
  <2>2. CASE Onward(w, "rollback") /\ UNCHANGED <<dest, stage>>
    <3>1. \A e \in Names : \A v \in Windows : By(v, e)' <=> By(v, e) BY <2>2 DEF By
    <3>2. MineFine(w)' BY <2>1, <2>2, <3>1 DEF MineFine, Onward, Staging, Installing
    <3>3. QED BY <2>1, <2>2, <3>1, <3>2, MineSame, InductiveInv DEF MineInv, Onward
  <2>3. CASE ~(Onward(w, "rollback") /\ UNCHANGED <<dest, stage>>)
    <3>1. PICK e \in Names :
            /\ dest[e] = None /\ dest'[e] = stage[w][e]
            /\ \A n \in Names \ {e} : dest'[n] = dest[n]
            /\ job'[w].at = "absent" /\ ~InSeq(e, job[w].moved)
            /\ \A n \in Names : InSeq(n, job'[w].moved) <=> InSeq(n, job[w].moved) \/ n = e
            /\ Alone(w)
      BY <1>9, <2>3, InductiveInv, RenameEffect DEF InductiveInv
    <3>2. By(w, e) \/ Good(w, e, stage[w][e])
      BY <2>1, InductiveInv DEF InductiveInv, StageInv, StageFine, Installing
    <3>3. dest'[e] # None /\ dest'[e].by = w BY <3>1, <3>2 DEF By, Good
    <3>4. \A n \in Names : \A v \in Windows \ {w} : By(v, n)' <=> By(v, n)
      BY <3>1, <3>3 DEF By
    <3>5. \A n \in Names : By(w, n)' <=> By(w, n) \/ n = e BY <3>1, <3>3 DEF By
    <3>6. e \notin stuck
      BY <3>1, InductiveInv DEF InductiveInv, DestInv, Windowed
    <3>7. MineFine(w)'
      BY <2>1, <3>1, <3>5, <3>6 DEF MineFine, Staging, Installing
    <3>8. QED BY <2>1, <3>1, <3>4, <3>7, MineSame, InductiveInv DEF MineInv, Alone
  <2>4. QED BY <2>2, <2>3
<1>10. ASSUME NEW w \in Windows, RenameFails(w)
      PROVE  MineInv'
  BY <1>10, InductiveInv, RenameFailsEffect DEF InductiveInv, MineInv, MineFine,
       Installing, Creation, Staging, InPlace, Onward, Ended, Emptied, By
<1>11. ASSUME NEW w \in Windows, RollBack(w)
      PROVE  MineInv'
  <2>1. job[w].at = "rollback" /\ job'[w].at = "rollback" /\ Alone(w) /\ MineFine(w)
    BY <1>11, InductiveInv, RollBackEffect DEF InductiveInv, MineInv
  <2>2. PICK e \in Names :
          /\ InSeq(e, job[w].moved)
          /\ \A n \in Names : InSeq(n, job'[w].moved) <=> InSeq(n, job[w].moved) /\ n # e
          /\ \/ stuck' = stuck \cup {e} /\ UNCHANGED <<dest, stage>>
             \/ /\ stuck' = stuck /\ dest'[e] = None
                /\ \A n \in Names \ {e} : dest'[n] = dest[n]
    BY <1>11, InductiveInv, RollBackEffect DEF InductiveInv
  <2>3. By(w, e) /\ e \notin stuck BY <2>1, <2>2 DEF MineFine, Installing
  <2>4. \A n \in Names : \A v \in Windows \ {w} : By(v, n)' <=> By(v, n)
    BY <2>2, <2>3 DEF By
  <2>5. \A v \in Windows \ {w} : MineFine(v)'
    <3> SUFFICES ASSUME NEW v \in Windows \ {w} PROVE MineFine(v)' OBVIOUS
    <3>1. job'[v] = job[v] /\ MineFine(v) /\ ~By(v, e) /\ stuck \subseteq Names
      BY <2>1, <2>3, InductiveInv DEF Alone, InductiveInv, MineInv, By, TypeOK
    <3>2. \A n \in Names : By(v, n)' <=> By(v, n) BY <2>4
    <3>3. \A n \in Names : n # e => (n \in stuck' <=> n \in stuck) BY <2>2
    <3>5. stuck' \subseteq stuck \cup {e} BY <2>2
    <3>4. QED BY <3>1, <3>2, <3>3, <3>5 DEF MineFine, Staging, Installing
  <2>6. MineFine(w)'
    <3>1. CASE stuck' = stuck \cup {e} /\ UNCHANGED <<dest, stage>>
      <4>1. \A n \in Names : By(w, n)' <=> By(w, n) BY <3>1 DEF By
      <4>2. QED BY <2>1, <2>2, <2>3, <3>1, <4>1 DEF MineFine, Staging, Installing
    <3>2. CASE stuck' = stuck /\ dest'[e] = None /\ \A n \in Names \ {e} : dest'[n] = dest[n]
      <4>1. \A n \in Names : By(w, n)' <=> By(w, n) /\ n # e BY <3>2 DEF By
      <4>2. QED BY <2>1, <2>2, <2>3, <3>2, <4>1 DEF MineFine, Staging, Installing
    <3>3. QED BY <2>2, <3>1, <3>2
  <2>7. QED BY <2>5, <2>6 DEF MineInv
<1>12. ASSUME NEW w \in Windows, RolledBack(w)
      PROVE  MineInv'
  BY <1>12, InductiveInv, RolledBackEffect DEF InductiveInv, MineInv, MineFine,
       Installing, Creation, Staging, InPlace, Ended, Emptied, By
<1>13. ASSUME NEW w \in Windows, Identify(w)
      PROVE  MineInv'
  BY <1>13, InductiveInv, IdentifyEffect DEF InductiveInv, MineInv, MineFine,
       Installing, Creation, Staging, InPlace, Ended, By
<1>14. ASSUME NEW w \in Windows, NEW d \in Backups, BeginInit(w, d)
      PROVE  MineInv'
  <2>1. \A n \in Names : \A v \in Windows : By(v, n)' <=> By(v, n)
    BY <1>14, InductiveInv, BeginInitEffect, KeptFacts DEF InductiveInv
  <2>2. QED
    BY <1>14, <2>1, MineSame, InductiveInv, BeginInitEffect DEF InductiveInv, MineInv,
       MineFine, Staging, Installing, Onward, Ended
<1>15. ASSUME NEW w \in Windows, InitList(w)
      PROVE  MineInv'
  <2>1. \A n \in Names : \A v \in Windows : By(v, n)' <=> By(v, n)
    BY <1>15, InductiveInv, InitListEffect, KeptFacts DEF InductiveInv
  <2>2. QED
    BY <1>15, <2>1, MineSame, InductiveInv, InitListEffect DEF InductiveInv, MineInv, MineFine,
       Staging, Installing, Onward, Ended
<1>16. ASSUME NEW w \in Windows, CopyResource(w)
      PROVE  MineInv'
  <2>1. \A n \in Names : \A v \in Windows : By(v, n)' <=> By(v, n)
    BY <1>16, InductiveInv, CopyResourceEffect, KeptFacts DEF InductiveInv
  <2>2. QED
    BY <1>16, <2>1, MineSame, InductiveInv, CopyResourceEffect DEF InductiveInv, MineInv,
       MineFine, Staging, Installing, Onward, Ended
<1>17. ASSUME NEW w \in Windows, CopyTemplate(w)
      PROVE  MineInv'
  <2>1. \A n \in Names : \A v \in Windows : By(v, n)' <=> By(v, n)
    BY <1>17, InductiveInv, CopyTemplateEffect, KeptFacts DEF InductiveInv
  <2>2. QED
    BY <1>17, <2>1, MineSame, InductiveInv, CopyTemplateEffect DEF InductiveInv, MineInv,
       MineFine, Staging, Installing, Onward, Ended
<1>18. ASSUME NEW w \in Windows, InitEnable(w)
      PROVE  MineInv'
  <2>1. \A n \in Names : \A v \in Windows : By(v, n)' <=> By(v, n)
    BY <1>18, InductiveInv, InitEnableEffect, KeptFacts DEF InductiveInv
  <2>2. QED
    BY <1>18, <2>1, MineSame, InductiveInv, InitEnableEffect DEF InductiveInv, MineInv,
       MineFine, Staging, Installing, Onward, Ended
<1>19. ASSUME NEW w \in Windows, InitFails(w)
      PROVE  MineInv'
  BY <1>19, InductiveInv, InitFailsEffect DEF InductiveInv, MineInv, MineFine,
       Installing, Creation, Staging, InPlace, Ended, By
<1>20. ASSUME NEW w \in Windows, OpenFolder(w)
      PROVE  MineInv'
  BY <1>20, InductiveInv, OpenFolderEffect DEF InductiveInv, MineInv, MineFine,
       Installing, Creation, Staging, InPlace, NobodyCreates, At, By
<1>21. ASSUME NEW w \in Windows, Kill(w)
      PROVE  MineInv'
  BY <1>21, InductiveInv, KillEffect DEF InductiveInv, MineInv, MineFine, Installing,
       Creation, Staging, InPlace, Ended, Emptied, By
<1>22. ASSUME NEW e \in Names, UserPuts(e)
      PROVE  MineInv'
  <2>1. \A n \in Names : \A v \in Windows : By(v, n)' <=> By(v, n)
    BY <1>22, InductiveInv, UserPutsEffect, KeptFacts DEF InductiveInv
  <2>2. QED
    BY <1>22, <2>1, MineSame, InductiveInv, UserPutsEffect DEF InductiveInv, MineInv, MineFine,
       Staging, Installing, Onward, Ended
<1>23. CASE UserMakesDirectory
  BY <1>23, InductiveInv DEF InductiveInv, MineInv, MineFine, Installing, Creation,
       Staging, InPlace, By, UserMakesDirectory
<1>24. CASE UserClears
  BY <1>24, InductiveInv, UserClearsEffect DEF InductiveInv, MineInv, MineFine,
       Installing, Creation, Staging, InPlace, AllIdle, At, By
<1>25. QED
  BY <1>1, <1>2, <1>3, <1>4, <1>5, <1>6, <1>7, <1>8, <1>9, <1>10, <1>11, <1>12,
       <1>13, <1>14, <1>15, <1>16, <1>17, <1>18, <1>19, <1>20, <1>21, <1>22, <1>23,
       <1>24 DEF Next, Create, Initialise

-----------------------------------------------------------------------------
(* The entries of the destination. *)

\* Where entries are kept or gain something, they stay whole.
LEMMA DestKept ==
  ASSUME InductiveInv, exists', stuck' = stuck, IsTree(dest'), \A e \in Names : KeptEntry(e)
  PROVE  DestInv'
<1>1. TypeOK /\ DestInv BY DEF InductiveInv
<1>2. \A e \in Names : \A v \in Windows : By(v, e)' <=> By(v, e) BY <1>1, KeptFacts
<1>3. User \notin Windows BY CreationAssumption
<1>4. ASSUME NEW e \in Names, Windowed(e)' PROVE Good(dest[e].by, e, dest[e])'
  <2>1. PICK v \in Windows : dest'[e] # None /\ dest'[e].by = v BY <1>4 DEF Windowed
  <2>2. By(v, e)' BY <2>1 DEF By
  <2>3. By(v, e) BY <1>2, <2>2
  <2>4. Good(v, e, dest[e]) BY <1>1, <2>3 DEF DestInv, Windowed, By
  <2>5. Good(v, e, dest'[e]) BY <1>1, <2>3, <2>4, KeptGood
  <2>6. QED BY <2>1, <2>5 DEF Good
<1>5. \A e \in stuck' : Windowed(e)'
  <2> SUFFICES ASSUME NEW e \in stuck PROVE Windowed(e)' OBVIOUS
  <2>1. e \in Names /\ Windowed(e) BY <1>1 DEF TypeOK, DestInv
  <2>2. PICK v \in Windows : By(v, e) BY <2>1 DEF Windowed, By
  <2>3. By(v, e)' BY <1>2, <2>1, <2>2
  <2>4. QED BY <2>3 DEF By, Windowed
<1>6. stuck' = {} => \A w \in Windows :
        (By(w, "library")' => By(w, "game")') /\ (By(w, "source")' => By(w, "library")')
  BY <1>1, <1>2 DEF DestInv, Names
<1>7. QED BY <1>4, <1>5, <1>6 DEF DestInv

\* The entries of windows stay whole and in order.
LEMMA DestInvStep ==
  ASSUME InductiveInv, Next
  PROVE  DestInv'
<1>1. ASSUME NEW w \in Windows, NEW d \in Dumps, NEW games \in BOOLEAN, BeginCreate(w, d, games)
      PROVE  DestInv'
  <2>1. UNCHANGED <<exists, dest, stuck>>
    BY <1>1, InductiveInv, BeginCreateEffect DEF InductiveInv
  <2>2. QED BY <2>1, InductiveInv DEF InductiveInv, DestInv, Windowed, By
<1>2. ASSUME NEW w \in Windows, StageResources(w)
      PROVE  DestInv'
  <2>1. UNCHANGED <<exists, dest, stuck>>
    BY <1>2, InductiveInv, StageResourcesJob, StageResourcesEffect DEF InductiveInv
  <2>2. QED BY <2>1, InductiveInv DEF InductiveInv, DestInv, Windowed, By
<1>3. ASSUME NEW w \in Windows, StageGames(w)
      PROVE  DestInv'
  <2>1. UNCHANGED <<exists, dest, stuck>>
    BY <1>3, InductiveInv, StageGamesJob, StageGamesEffect DEF InductiveInv
  <2>2. QED BY <2>1, InductiveInv DEF InductiveInv, DestInv, Windowed, By
<1>4. ASSUME NEW w \in Windows, StageRuntime(w)
      PROVE  DestInv'
  <2>1. UNCHANGED <<exists, dest, stuck>>
    BY <1>4, InductiveInv, StageRuntimeJob, StageRuntimeEffect DEF InductiveInv
  <2>2. QED BY <2>1, InductiveInv DEF InductiveInv, DestInv, Windowed, By
<1>5. ASSUME NEW w \in Windows, StageFails(w)
      PROVE  DestInv'
  <2>1. UNCHANGED <<exists, dest, stuck>>
    BY <1>5, InductiveInv, StageFailsEffect DEF InductiveInv
  <2>2. QED BY <2>1, InductiveInv DEF InductiveInv, DestInv, Windowed, By
<1>6. ASSUME NEW w \in Windows, CheckAgain(w)
      PROVE  DestInv'
  <2>1. UNCHANGED <<exists, dest, stuck>>
    BY <1>6, InductiveInv, CheckAgainEffect DEF InductiveInv
  <2>2. QED BY <2>1, InductiveInv DEF InductiveInv, DestInv, Windowed, By
<1>7. ASSUME NEW w \in Windows, InstallWhole(w)
      PROVE  DestInv'
  <2>1. job[w].at = "whole" /\ stuck' = stuck
    BY <1>7, InductiveInv, InstallWholeEffect DEF InductiveInv
  <2>2. CASE UNCHANGED <<exists, dest>>
    BY <2>1, <2>2, InductiveInv DEF InductiveInv, DestInv, Windowed, By
  <2>3. CASE ~exists /\ exists' /\ dest' = stage[w]
    <3>1. \A e \in Names : Good(w, e, dest'[e])
      BY <2>1, <2>3, InductiveInv DEF InductiveInv, StageInv, StageFine
    <3>2. \A e \in Names : dest'[e] # None /\ dest'[e].by = w BY <3>1 DEF Good
    <3>3. stuck' = {}
      BY <2>1, <2>3, EmptyTree, InductiveInv DEF InductiveInv, DestInv, TypeOK, Windowed
    <3>4. QED BY <2>3, <3>1, <3>2, <3>3 DEF DestInv, By, Names
  <2>4. QED BY <1>7, <2>2, <2>3, InductiveInv, InstallWholeEffect DEF InductiveInv
<1>8. ASSUME NEW w \in Windows, RequireAbsent(w)
      PROVE  DestInv'
  <2>1. UNCHANGED <<exists, dest, stuck>>
    BY <1>8, InductiveInv, RequireAbsentEffect DEF InductiveInv
  <2>2. QED BY <2>1, InductiveInv DEF InductiveInv, DestInv, Windowed, By
<1>9. ASSUME NEW w \in Windows, Rename(w)
      PROVE  DestInv'
  <2>1. exists' = exists /\ stuck' = stuck /\ job[w].at = "rename"
    BY <1>9, InductiveInv, RenameEffect DEF InductiveInv
  <2>5. exists BY <2>1, InductiveInv DEF InductiveInv, JobInv, JobFine, Installing
  <2>2. CASE UNCHANGED <<dest, stage>>
    BY <2>1, <2>2, InductiveInv DEF InductiveInv, DestInv, Windowed, By
  <2>3. CASE ~(UNCHANGED <<dest, stage>>)
    <3>1. PICK e \in Names :
            /\ dest[e] = None /\ dest'[e] = stage[w][e]
            /\ \A n \in Names \ {e} : dest'[n] = dest[n]
            /\ job'[w].at = "absent"
      BY <1>9, <2>3, InductiveInv, RenameEffect DEF InductiveInv
    <3>2. By(w, e) \/ Good(w, e, stage[w][e])
      BY <2>1, InductiveInv DEF InductiveInv, StageInv, StageFine, Installing
    <3>3. Good(w, e, dest'[e]) /\ dest'[e] # None /\ dest'[e].by = w
      BY <3>1, <3>2 DEF By, Good
    <3>4. \A n \in Names : Windowed(n)' => Good(dest[n].by, n, dest[n])'
      BY <3>1, <3>3, InductiveInv DEF InductiveInv, DestInv, Windowed
    <3>5. \A n \in stuck' : Windowed(n)'
      BY <2>1, <3>1, InductiveInv DEF InductiveInv, DestInv, Windowed, TypeOK
    <3>6. \A n \in Names : \A v \in Windows \ {w} : By(v, n)' <=> By(v, n)
      BY <3>1, <3>3 DEF By
    <3>7. stuck' = {} => (By(w, "library")' => By(w, "game")') /\ (By(w, "source")' => By(w, "library")')
      <4>1. MineFine(w)' BY MineInvStep DEF MineInv
      <4>2. stuck' = {} => \A n \in Names : By(w, n)' <=> InSeq(n, job'[w].moved)
        BY <4>1, <3>1 DEF MineFine, Installing, InSeq
      <4>3. job'[w].moved \in Moves BY TypeOKStep DEF TypeOK, Jobs
      <4>4. QED BY <4>2, <4>3, MoveFacts DEF Names
    <3>8. stuck' = {} => \A v \in Windows \ {w} :
            (By(v, "library")' => By(v, "game")') /\ (By(v, "source")' => By(v, "library")')
      BY <2>1, <3>6, InductiveInv DEF InductiveInv, DestInv, Names
    <3>9. QED BY <2>1, <2>5, <3>4, <3>5, <3>7, <3>8 DEF DestInv
  <2>4. QED BY <2>2, <2>3
<1>10. ASSUME NEW w \in Windows, RenameFails(w)
      PROVE  DestInv'
  <2>1. UNCHANGED <<exists, dest, stuck>>
    BY <1>10, InductiveInv, RenameFailsEffect DEF InductiveInv
  <2>2. QED BY <2>1, InductiveInv DEF InductiveInv, DestInv, Windowed, By
<1>11. ASSUME NEW w \in Windows, RollBack(w)
      PROVE  DestInv'
  <2>1. exists' = exists /\ job[w].at = "rollback" /\ job'[w].at = "rollback" /\ MineFine(w)
    BY <1>11, InductiveInv, RollBackEffect DEF InductiveInv, MineInv
  <2>2. exists BY <2>1, InductiveInv DEF InductiveInv, JobInv, JobFine, Installing
  <2>3. QED
    <3>1. job'[w].at = "rollback" BY <2>1
    <3>2. PICK e \in Names :
            /\ InSeq(e, job[w].moved)
            /\ \/ stuck' = stuck \cup {e} /\ UNCHANGED <<dest, stage>>
               \/ /\ stuck' = stuck /\ dest'[e] = None
                  /\ \A n \in Names \ {e} : dest'[n] = dest[n]
      BY <1>11, InductiveInv, RollBackEffect DEF InductiveInv
    <3>3. By(w, e) /\ e \notin stuck BY <2>1, <3>2 DEF MineFine, Installing
    <3>4. \A n \in Names : Windowed(n)' => Good(dest[n].by, n, dest[n])'
      BY <3>2, InductiveInv DEF InductiveInv, DestInv, Windowed
    <3>5. \A n \in stuck' : Windowed(n)'
      BY <3>2, <3>3, InductiveInv DEF InductiveInv, DestInv, Windowed, By, TypeOK
    <3>6. \A n \in Names : \A v \in Windows \ {w} : By(v, n)' <=> By(v, n)
      BY <3>2, <3>3 DEF By
    <3>7. stuck' = {} => (By(w, "library")' => By(w, "game")') /\ (By(w, "source")' => By(w, "library")')
      <4>1. MineFine(w)' BY MineInvStep DEF MineInv
      <4>2. stuck' = {} => \A n \in Names : By(w, n)' <=> InSeq(n, job'[w].moved)
        BY <4>1, <3>1 DEF MineFine, Installing, InSeq
      <4>3. job'[w].moved \in Moves BY TypeOKStep DEF TypeOK, Jobs
      <4>4. QED BY <4>2, <4>3, MoveFacts DEF Names
    <3>8. stuck' = {} => \A v \in Windows \ {w} :
            (By(v, "library")' => By(v, "game")') /\ (By(v, "source")' => By(v, "library")')
      <4>1. stuck' = {} => stuck = {} BY <3>2
      <4>2. QED BY <4>1, <3>6, InductiveInv DEF InductiveInv, DestInv, Names
    <3>9. QED BY <2>1, <2>2, <3>4, <3>5, <3>7, <3>8 DEF DestInv
<1>12. ASSUME NEW w \in Windows, RolledBack(w)
      PROVE  DestInv'
  <2>1. UNCHANGED <<exists, dest, stuck>>
    BY <1>12, InductiveInv, RolledBackEffect DEF InductiveInv
  <2>2. QED BY <2>1, InductiveInv DEF InductiveInv, DestInv, Windowed, By
<1>13. ASSUME NEW w \in Windows, Identify(w)
      PROVE  DestInv'
  <2>1. UNCHANGED <<exists, dest, stuck>>
    BY <1>13, InductiveInv, IdentifyEffect DEF InductiveInv
  <2>2. QED BY <2>1, InductiveInv DEF InductiveInv, DestInv, Windowed, By
<1>14. ASSUME NEW w \in Windows, NEW d \in Backups, BeginInit(w, d)
      PROVE  DestInv'
  <2>1. exists' = exists /\ stuck' = stuck /\ IsTree(dest') /\ \A n \in Names : KeptEntry(n)
    BY <1>14, InductiveInv, BeginInitEffect DEF InductiveInv
  <2>2. exists
    BY <1>14, InductiveInv, BeginInitEffect, EmptyTree DEF InductiveInv, DestInv, PlaceInv,
       PlaceFine, InPlace, Names, HasLibrary
  <2>3. QED BY <2>1, <2>2, DestKept
<1>15. ASSUME NEW w \in Windows, InitList(w)
      PROVE  DestInv'
  <2>1. exists' = exists /\ stuck' = stuck /\ IsTree(dest') /\ \A n \in Names : KeptEntry(n)
    BY <1>15, InductiveInv, InitListEffect DEF InductiveInv
  <2>2. exists
    BY <1>15, InductiveInv, InitListEffect, EmptyTree DEF InductiveInv, DestInv, PlaceInv,
       PlaceFine, InPlace, Names, HasLibrary
  <2>3. QED BY <2>1, <2>2, DestKept
<1>16. ASSUME NEW w \in Windows, CopyResource(w)
      PROVE  DestInv'
  <2>1. exists' = exists /\ stuck' = stuck /\ IsTree(dest') /\ \A n \in Names : KeptEntry(n)
    BY <1>16, InductiveInv, CopyResourceEffect DEF InductiveInv
  <2>2. exists
    BY <1>16, InductiveInv, CopyResourceEffect, EmptyTree DEF InductiveInv, DestInv, PlaceInv,
       PlaceFine, InPlace, Names, HasLibrary
  <2>3. QED BY <2>1, <2>2, DestKept
<1>17. ASSUME NEW w \in Windows, CopyTemplate(w)
      PROVE  DestInv'
  <2>1. exists' = exists /\ stuck' = stuck /\ IsTree(dest') /\ \A n \in Names : KeptEntry(n)
    BY <1>17, InductiveInv, CopyTemplateEffect DEF InductiveInv
  <2>2. exists
    BY <1>17, InductiveInv, CopyTemplateEffect, EmptyTree DEF InductiveInv, DestInv, PlaceInv,
       PlaceFine, InPlace, Names, HasLibrary
  <2>3. QED BY <2>1, <2>2, DestKept
<1>18. ASSUME NEW w \in Windows, InitEnable(w)
      PROVE  DestInv'
  <2>1. exists' = exists /\ stuck' = stuck /\ IsTree(dest') /\ \A n \in Names : KeptEntry(n)
    BY <1>18, InductiveInv, InitEnableEffect DEF InductiveInv
  <2>2. exists
    BY <1>18, InductiveInv, InitEnableEffect, EmptyTree DEF InductiveInv, DestInv, PlaceInv,
       PlaceFine, InPlace, Names, HasLibrary
  <2>3. QED BY <2>1, <2>2, DestKept
<1>19. ASSUME NEW w \in Windows, InitFails(w)
      PROVE  DestInv'
  <2>1. UNCHANGED <<exists, dest, stuck>>
    BY <1>19, InductiveInv, InitFailsEffect DEF InductiveInv
  <2>2. QED BY <2>1, InductiveInv DEF InductiveInv, DestInv, Windowed, By
<1>20. ASSUME NEW w \in Windows, OpenFolder(w)
      PROVE  DestInv'
  <2>1. exists' = exists /\ stuck' = stuck /\ IsTree(dest') /\ \A n \in Names : KeptEntry(n)
    BY <1>20, InductiveInv, OpenFolderEffect DEF InductiveInv
  <2>2. exists
    BY <1>20, InductiveInv, OpenFolderEffect, EmptyTree DEF InductiveInv, DestInv, PlaceInv,
       PlaceFine, InPlace, Names, HasLibrary
  <2>3. QED BY <2>1, <2>2, DestKept
<1>21. ASSUME NEW w \in Windows, Kill(w)
      PROVE  DestInv'
  <2>1. UNCHANGED <<exists, dest, stuck>>
    BY <1>21, InductiveInv, KillEffect DEF InductiveInv
  <2>2. QED BY <2>1, InductiveInv DEF InductiveInv, DestInv, Windowed, By
<1>22. ASSUME NEW e \in Names, UserPuts(e)
      PROVE  DestInv'
  <2>1. exists' = exists /\ stuck' = stuck /\ IsTree(dest') /\ \A n \in Names : KeptEntry(n)
    BY <1>22, InductiveInv, UserPutsEffect DEF InductiveInv
  <2>2. exists
    BY <1>22, InductiveInv, UserPutsEffect, EmptyTree DEF InductiveInv, DestInv, PlaceInv,
       PlaceFine, InPlace, Names, HasLibrary
  <2>3. QED BY <2>1, <2>2, DestKept
<1>23. CASE UserMakesDirectory
  <2>1. exists' /\ UNCHANGED <<dest, stuck>> BY <1>23 DEF UserMakesDirectory
  <2>2. QED BY <2>1, InductiveInv DEF InductiveInv, DestInv, Windowed, By
<1>24. CASE UserClears
  <2>1. dest' = Nothing /\ stuck' = {} BY <1>24, InductiveInv, UserClearsEffect DEF InductiveInv
  <2>2. \A e \in Names : dest'[e] = None BY <2>1, EmptyTree
  <2>3. QED BY <2>1, <2>2 DEF DestInv, Windowed, By, Names
<1>25. QED
  BY <1>1, <1>2, <1>3, <1>4, <1>5, <1>6, <1>7, <1>8, <1>9, <1>10, <1>11, <1>12,
       <1>13, <1>14, <1>15, <1>16, <1>17, <1>18, <1>19, <1>20, <1>21, <1>22, <1>23,
       <1>24 DEF Next, Create, Initialise

-----------------------------------------------------------------------------
(* The library of the user, and what was told. *)

\* Entries that gain something still have what the runtime needs.
LEMMA PreparedKept ==
  ASSUME TypeOK, KeptEntry("game"), KeptEntry("library"), dest["library"] # None,
         Prepares(GameFiles, dest["library"].has)
  PROVE  Prepares(GameFiles, dest["library"].has)'
<1>1. GameFiles \subseteq GameFiles' BY DEF GameFiles, KeptEntry
<1>2. dest["library"].has.tmpl \subseteq dest'["library"].has.tmpl
  BY DEF KeptEntry, Grown
<1>3. QED BY <1>1, <1>2 DEF Prepares

\* A marked library stays one.
LEMMA MarkedKept ==
  ASSUME TypeOK, KeptEntry("library"), Marked
  PROVE  Marked'
<1>1. dest["library"] # None /\ dest'["library"] # None
  BY KeptLists DEF Marked, HasLibrary
<1>2. HasLibrary' BY <1>1, KeptLists DEF Marked, HasLibrary
<1>3. CASE dest'["library"] = dest["library"] BY <1>2, <1>3, Zenon DEF Marked
<1>4. CASE Grown(dest["library"], dest'["library"])
  <2>1. dest'["library"].has.marker BY <1>4, Zenon DEF Grown, Marked
  <2>2. QED BY <1>2, <2>1, Zenon DEF Marked
<1>5. QED BY <1>1, <1>3, <1>4 DEF KeptEntry

\* A library has its own marker.
LEMMA SameItself == \A x : SameMarker(x, x)
BY DEF SameMarker

\* What the invariant says of a library of the user that is marked.
UserReady ==
    /\ Prepares(GameFiles, dest["library"].has)
    /\ \A w \in Windows : job[w].at \notin Creation

\* A step that adds no marker, and starts no creation.
LEMMA UserKept ==
  ASSUME InductiveInv, KeptEntry("game"), KeptEntry("library"),
         dest["library"] # None => SameMarker(dest["library"], dest'["library"]),
         \A v \in Windows : job'[v].at \in Creation => job[v].at \in Creation
  PROVE  UserInv'
<1>1. TypeOK /\ UserInv BY DEF InductiveInv
<1> SUFFICES ASSUME dest'["library"] # None, dest'["library"].by = User
             PROVE  /\ Listed(dest'["library"].has)
                    /\ dest'["library"].has.marker => UserReady'
  BY DEF UserInv, UserReady
<1>2. CASE dest["library"] = None
  <2>1. Listed(dest'["library"].has) /\ ~dest'["library"].has.marker BY <1>2 DEF KeptEntry
  <2>2. QED BY <2>1, Zenon
<1>3. CASE dest["library"] # None
  <2>1. dest["library"].by = User BY <1>1, <1>3, KeptFacts DEF Names
  <2>2. Listed(dest["library"].has) BY <1>1, <1>3, <2>1 DEF UserInv
  <2>3. dest["library"].has.marker => UserReady
    BY <1>1, <1>3, <2>1, Zenon DEF UserInv, UserReady
  <2>4. UserReady => UserReady' BY <1>1, <1>3, PreparedKept DEF UserReady
  <2>5. Listed(dest'["library"].has) BY <1>1, <1>3, <2>2, KeptLists
  <2>6. dest'["library"].has.marker => dest["library"].has.marker
    BY <1>3, Zenon DEF SameMarker
  <2>7. QED BY <2>3, <2>4, <2>5, <2>6, Zenon
<1>4. QED BY <1>2, <1>3

\* A step of a creation: the user's library is not marked.
LEMMA UserUnmarked ==
  ASSUME InductiveInv, NEW w \in Windows, job[w].at \in Creation,
         dest'["library"] = None \/ dest'["library"] = dest["library"] \/ dest'["library"].by # User
  PROVE  UserInv'
<1>1. CASE dest'["library"] # None /\ dest'["library"] = dest["library"] /\ dest["library"].by = User
  <2>1. Listed(dest["library"].has) /\ ~dest["library"].has.marker
    BY <1>1, Zenon DEF InductiveInv, UserInv
  <2>2. QED BY <1>1, <2>1, Zenon DEF UserInv
<1>2. QED BY <1>1 DEF UserInv

\* A step that gives the library its marker when nobody creates one.
LEMMA UserMarked ==
  ASSUME InductiveInv, KeptEntry("game"), KeptEntry("library"), dest["library"] # None,
         Prepares(GameFiles, dest["library"].has),
         \A v \in Windows : job'[v].at \notin Creation
  PROVE  UserInv'
<1>1. TypeOK /\ UserInv BY DEF InductiveInv
<1>2. UserReady' BY <1>1, PreparedKept DEF UserReady
<1>3. dest'["library"].by = User => Listed(dest'["library"].has)
  BY <1>1, KeptLists, KeptFacts DEF UserInv, Names
<1>4. QED BY <1>2, <1>3, Zenon DEF UserInv, UserReady

\* A library of the user is never marked in vain.
LEMMA UserInvStep ==
  ASSUME InductiveInv, Next
  PROVE  UserInv'
<1>1. ASSUME NEW w \in Windows, NEW d \in Dumps, NEW games \in BOOLEAN, BeginCreate(w, d, games)
      PROVE  UserInv'
  <2>1. dest' = Nothing BY <1>1, InductiveInv, BeginCreateEffect DEF InductiveInv
  <2>2. dest'["library"] = None BY <2>1, EmptyTree DEF Names
  <2>3. QED BY <2>2 DEF UserInv
<1>2. ASSUME NEW w \in Windows, StageResources(w)
      PROVE  UserInv'
  <2>1. job[w].at \in Creation /\ dest' = dest
    BY <1>2, InductiveInv, StageResourcesJob, StageResourcesEffect DEF InductiveInv, Creation,
       Staging, Installing
  <2>2. QED BY <2>1, InductiveInv, UserUnmarked
<1>3. ASSUME NEW w \in Windows, StageGames(w)
      PROVE  UserInv'
  <2>1. job[w].at \in Creation /\ dest' = dest
    BY <1>3, InductiveInv, StageGamesJob, StageGamesEffect DEF InductiveInv, Creation, Staging,
       Installing
  <2>2. QED BY <2>1, InductiveInv, UserUnmarked
<1>4. ASSUME NEW w \in Windows, StageRuntime(w)
      PROVE  UserInv'
  <2>1. job[w].at \in Creation /\ dest' = dest
    BY <1>4, InductiveInv, StageRuntimeJob, StageRuntimeEffect DEF InductiveInv, Creation,
       Staging, Installing
  <2>2. QED BY <2>1, InductiveInv, UserUnmarked
<1>5. ASSUME NEW w \in Windows, StageFails(w)
      PROVE  UserInv'
  <2>1. job[w].at \in Creation /\ dest' = dest
    BY <1>5, InductiveInv, StageFailsEffect DEF InductiveInv, Creation, Staging, Installing
  <2>2. QED BY <2>1, InductiveInv, UserUnmarked
<1>6. ASSUME NEW w \in Windows, CheckAgain(w)
      PROVE  UserInv'
  <2>1. job[w].at \in Creation /\ dest' = dest
    BY <1>6, InductiveInv, CheckAgainEffect DEF InductiveInv, Creation, Staging, Installing
  <2>2. QED BY <2>1, InductiveInv, UserUnmarked
<1>7. ASSUME NEW w \in Windows, InstallWhole(w)
      PROVE  UserInv'
  <2>1. job[w].at = "whole" BY <1>7, InductiveInv, InstallWholeEffect DEF InductiveInv
  <2>2. dest' = dest \/ dest' = stage[w]
    BY <1>7, InductiveInv, InstallWholeEffect DEF InductiveInv
  <2>3. Good(w, "library", stage[w]["library"])
    BY <2>1, InductiveInv DEF InductiveInv, StageInv, StageFine, Names
  <2>4. dest' = stage[w] => dest'["library"].by # User
    BY <2>3, CreationAssumption DEF Good
  <2>5. QED BY <2>1, <2>2, <2>4, InductiveInv, UserUnmarked DEF Creation, Staging
<1>8. ASSUME NEW w \in Windows, RequireAbsent(w)
      PROVE  UserInv'
  <2>1. job[w].at \in Creation /\ dest' = dest
    BY <1>8, InductiveInv, RequireAbsentEffect DEF InductiveInv, Creation, Staging, Installing
  <2>2. QED BY <2>1, InductiveInv, UserUnmarked
<1>9. ASSUME NEW w \in Windows, Rename(w)
      PROVE  UserInv'
  <2>1. job[w].at = "rename" BY <1>9, InductiveInv, RenameEffect DEF InductiveInv
  <2>2. \/ dest' = dest
        \/ \E e \in Names : /\ dest[e] = None /\ dest'[e] = stage[w][e]
                            /\ \A n \in Names \ {e} : dest'[n] = dest[n]
    BY <1>9, InductiveInv, RenameEffect DEF InductiveInv
  <2>3. By(w, "library") \/ Good(w, "library", stage[w]["library"])
    BY <2>1, InductiveInv DEF InductiveInv, StageInv, StageFine, Installing, Names
  <2>4. dest'["library"] = dest["library"] \/ dest'["library"].by # User
    BY <2>2, <2>3, CreationAssumption DEF Names, Good, By
  <2>5. QED BY <2>1, <2>4, InductiveInv, UserUnmarked DEF Creation, Installing
<1>10. ASSUME NEW w \in Windows, RenameFails(w)
      PROVE  UserInv'
  <2>1. job[w].at \in Creation /\ dest' = dest
    BY <1>10, InductiveInv, RenameFailsEffect DEF InductiveInv, Creation, Staging, Installing
  <2>2. QED BY <2>1, InductiveInv, UserUnmarked
<1>11. ASSUME NEW w \in Windows, RollBack(w)
      PROVE  UserInv'
  <2>1. job[w].at = "rollback" BY <1>11, InductiveInv, RollBackEffect DEF InductiveInv
  <2>2. dest'["library"] = None \/ dest'["library"] = dest["library"]
    BY <1>11, InductiveInv, RollBackEffect DEF InductiveInv, Names
  <2>3. QED BY <2>1, <2>2, InductiveInv, UserUnmarked DEF Creation, Installing
<1>12. ASSUME NEW w \in Windows, RolledBack(w)
      PROVE  UserInv'
  <2>1. job[w].at \in Creation /\ dest' = dest
    BY <1>12, InductiveInv, RolledBackEffect DEF InductiveInv, Creation, Staging, Installing
  <2>2. QED BY <2>1, InductiveInv, UserUnmarked
<1>13. ASSUME NEW w \in Windows, Identify(w)
      PROVE  UserInv'
  <2>1. job[w].at \in Creation /\ dest' = dest
    BY <1>13, InductiveInv, IdentifyEffect DEF InductiveInv, Creation, Staging, Installing
  <2>2. QED BY <2>1, InductiveInv, UserUnmarked
<1>14. ASSUME NEW w \in Windows, NEW d \in Backups, BeginInit(w, d)
      PROVE  UserInv'
  <2>1. KeptEntry("game") /\ KeptEntry("library")
    BY <1>14, InductiveInv, BeginInitEffect DEF InductiveInv, Names
  <2>2. dest["library"] # None => SameMarker(dest["library"], dest'["library"])
    BY <1>14, InductiveInv, BeginInitEffect, SameItself DEF InductiveInv, Names
  <2>3. \A v \in Windows : job'[v].at \in Creation => job[v].at \in Creation
    BY <1>14, InductiveInv, BeginInitEffect DEF InductiveInv, Creation, Staging, Installing,
       Onward, Ended
  <2>4. QED BY <2>1, <2>2, <2>3, InductiveInv, UserKept
<1>15. ASSUME NEW w \in Windows, InitList(w)
      PROVE  UserInv'
  <2>1. KeptEntry("game") /\ KeptEntry("library")
    BY <1>15, InductiveInv, InitListEffect DEF InductiveInv, Names
  <2>2. dest["library"] # None => SameMarker(dest["library"], dest'["library"])
    BY <1>15, InductiveInv, InitListEffect, SameItself DEF InductiveInv, Names
  <2>3. \A v \in Windows : job'[v].at \in Creation => job[v].at \in Creation
    BY <1>15, InductiveInv, InitListEffect DEF InductiveInv, Creation, Staging, Installing,
       Onward, Ended
  <2>4. QED BY <2>1, <2>2, <2>3, InductiveInv, UserKept
<1>16. ASSUME NEW w \in Windows, CopyResource(w)
      PROVE  UserInv'
  <2>1. KeptEntry("game") /\ KeptEntry("library")
    BY <1>16, InductiveInv, CopyResourceEffect DEF InductiveInv, Names
  <2>2. dest["library"] # None => SameMarker(dest["library"], dest'["library"])
    BY <1>16, InductiveInv, CopyResourceEffect, SameItself DEF InductiveInv, Names
  <2>3. \A v \in Windows : job'[v].at \in Creation => job[v].at \in Creation
    BY <1>16, InductiveInv, CopyResourceEffect DEF InductiveInv, Creation, Staging, Installing,
       Onward, Ended
  <2>4. QED BY <2>1, <2>2, <2>3, InductiveInv, UserKept
<1>17. ASSUME NEW w \in Windows, CopyTemplate(w)
      PROVE  UserInv'
  <2>1. KeptEntry("game") /\ KeptEntry("library")
    BY <1>17, InductiveInv, CopyTemplateEffect DEF InductiveInv, Names
  <2>2. dest["library"] # None => SameMarker(dest["library"], dest'["library"])
    BY <1>17, InductiveInv, CopyTemplateEffect, SameItself DEF InductiveInv, Names
  <2>3. \A v \in Windows : job'[v].at \in Creation => job[v].at \in Creation
    BY <1>17, InductiveInv, CopyTemplateEffect DEF InductiveInv, Creation, Staging, Installing,
       Onward, Ended
  <2>4. QED BY <2>1, <2>2, <2>3, InductiveInv, UserKept
<1>18. ASSUME NEW w \in Windows, InitEnable(w)
      PROVE  UserInv'
  <2>1. job[w].at = "enable" /\ KeptEntry("game") /\ KeptEntry("library")
    BY <1>18, InductiveInv, InitEnableEffect DEF InductiveInv, Names
  <2>2. Prepares(GameFiles, dest["library"].has)
    BY <1>18, InductiveInv, InitEnableEffect DEF InductiveInv
  <2>3. dest["library"] # None /\ \A v \in Windows : job[v].at \in InPlace \cup {"idle"}
    BY <2>1, InductiveInv DEF InductiveInv, PlaceInv, PlaceFine, InPlace
  <2>4. Ended(w, "initialised") BY <1>18, InductiveInv, InitEnableEffect DEF InductiveInv
  <2>5. \A v \in Windows : job'[v].at \in InPlace \cup {"idle"} BY <2>3, <2>4 DEF Ended
  <2>6. \A v \in Windows : job'[v].at \notin Creation
    BY <2>5 DEF Creation, Staging, Installing, InPlace
  <2>7. QED BY <2>1, <2>2, <2>3, <2>6, InductiveInv, UserMarked
<1>19. ASSUME NEW w \in Windows, InitFails(w)
      PROVE  UserInv'
  <2>1. dest' = dest BY <1>19, InductiveInv, InitFailsEffect DEF InductiveInv
  <2>2. KeptEntry("game") /\ KeptEntry("library") BY <2>1 DEF KeptEntry
  <2>3. SameMarker(dest["library"], dest'["library"]) BY <2>1, SameItself
  <2>4. \A v \in Windows : job'[v].at \in Creation => job[v].at \in Creation
    BY <1>19, InductiveInv, InitFailsEffect DEF InductiveInv, Creation, Staging, Installing,
       Onward, Ended
  <2>5. QED BY <2>2, <2>3, <2>4, InductiveInv, UserKept
<1>20. ASSUME NEW w \in Windows, OpenFolder(w)
      PROVE  UserInv'
  <2>1. KeptEntry("game") /\ KeptEntry("library")
    BY <1>20, InductiveInv, OpenFolderEffect DEF InductiveInv, Names
  <2>2. dest' = dest \/ Prepares(GameFiles, dest["library"].has)
    BY <1>20, InductiveInv, OpenFolderEffect DEF InductiveInv
  <2>3. dest["library"] # None /\ job' = job /\ \A v \in Windows : job[v].at \in InPlace \cup {"idle"}
    BY <1>20, InductiveInv, OpenFolderEffect DEF InductiveInv, HasLibrary, NobodyCreates
  <2>4. \A v \in Windows : job'[v].at \notin Creation
    BY <2>3 DEF Creation, Staging, Installing, InPlace
  <2>5. CASE dest' = dest
    <3>1. SameMarker(dest["library"], dest'["library"]) BY <2>5, SameItself
    <3>2. QED BY <2>1, <2>4, <3>1, InductiveInv, UserKept
  <2>6. CASE Prepares(GameFiles, dest["library"].has)
    BY <2>1, <2>3, <2>4, <2>6, InductiveInv, UserMarked
  <2>7. QED BY <2>2, <2>5, <2>6
<1>21. ASSUME NEW w \in Windows, Kill(w)
      PROVE  UserInv'
  <2>1. dest' = dest BY <1>21, InductiveInv, KillEffect DEF InductiveInv
  <2>2. KeptEntry("game") /\ KeptEntry("library") BY <2>1 DEF KeptEntry
  <2>3. SameMarker(dest["library"], dest'["library"]) BY <2>1, SameItself
  <2>4. \A v \in Windows : job'[v].at \in Creation => job[v].at \in Creation
    BY <1>21, InductiveInv, KillEffect DEF InductiveInv, Creation, Staging, Installing, Onward,
       Ended
  <2>5. QED BY <2>2, <2>3, <2>4, InductiveInv, UserKept
<1>22. ASSUME NEW e \in Names, UserPuts(e)
      PROVE  UserInv'
  <2>1. KeptEntry("game") /\ KeptEntry("library")
    BY <1>22, InductiveInv, UserPutsEffect DEF InductiveInv, Names
  <2>2. dest["library"] # None => SameMarker(dest["library"], dest'["library"])
    BY <1>22, InductiveInv, UserPutsEffect, SameItself DEF InductiveInv, Names
  <2>3. \A v \in Windows : job'[v].at \in Creation => job[v].at \in Creation
    BY <1>22, InductiveInv, UserPutsEffect DEF InductiveInv, Creation, Staging, Installing,
       Onward, Ended
  <2>4. QED BY <2>1, <2>2, <2>3, InductiveInv, UserKept
<1>23. CASE UserMakesDirectory
  <2>1. dest' = dest BY <1>23, InductiveInv DEF InductiveInv, UserMakesDirectory
  <2>2. KeptEntry("game") /\ KeptEntry("library") BY <2>1 DEF KeptEntry
  <2>3. SameMarker(dest["library"], dest'["library"]) BY <2>1, SameItself
  <2>4. \A v \in Windows : job'[v].at \in Creation => job[v].at \in Creation
    BY <1>23, InductiveInv DEF InductiveInv, UserMakesDirectory
  <2>5. QED BY <2>2, <2>3, <2>4, InductiveInv, UserKept
<1>24. CASE UserClears
  <2>1. dest' = Nothing BY <1>24, InductiveInv, UserClearsEffect DEF InductiveInv
  <2>2. dest'["library"] = None BY <2>1, EmptyTree DEF Names
  <2>3. QED BY <2>2 DEF UserInv
<1>25. QED
  BY <1>1, <1>2, <1>3, <1>4, <1>5, <1>6, <1>7, <1>8, <1>9, <1>10, <1>11, <1>12,
       <1>13, <1>14, <1>15, <1>16, <1>17, <1>18, <1>19, <1>20, <1>21, <1>22, <1>23,
       <1>24 DEF Next, Create, Initialise

\* Who was told something goes on finding it so.
LEMMA ToldSame ==
  ASSUME InductiveInv, NEW v \in Windows, told'[v] = told[v],
         told[v] = "kept" => stage'[v] = stage[v],
         told[v] # "nothing" => \A e \in Names : By(v, e)' <=> By(v, e),
         told[v] \in {"initialised", "open"} =>
           Marked' /\ \A u \in Windows : job'[u].at \notin Creation
  PROVE  ToldFine(v)'
BY DEF InductiveInv, ToldInv, ToldFine

\* While one window creates, none has been told of a library it opened.
LEMMA NoneOpened ==
  ASSUME InductiveInv, NEW w \in Windows, job[w].at \in Creation, NEW v \in Windows
  PROVE  told[v] \notin {"initialised", "open"}
BY DEF InductiveInv, ToldInv, ToldFine

\* Where entries are kept and nobody begins to create, the others stay as told.
LEMMA ToldKept ==
  ASSUME InductiveInv, \A e \in Names : KeptEntry(e), NEW v \in Windows, told'[v] = told[v],
         stage'[v] = stage[v],
         \A u \in Windows : job'[u].at \in Creation => job[u].at \in Creation
  PROVE  ToldFine(v)'
<1>1. TypeOK /\ ToldFine(v) BY DEF InductiveInv, ToldInv
<1>2. \A e \in Names : By(v, e)' <=> By(v, e) BY <1>1, KeptFacts
<1>3. Marked => Marked' BY <1>1, MarkedKept DEF Names
<1>4. told[v] \in {"initialised", "open"} =>
        Marked /\ \A u \in Windows : job[u].at \notin Creation
  BY <1>1 DEF ToldFine
<1>5. QED BY <1>2, <1>3, <1>4, ToldSame

\* What a window was told stays true.
LEMMA ToldInvStep ==
  ASSUME InductiveInv, Next
  PROVE  ToldInv'
<1>1. ASSUME NEW w \in Windows, NEW d \in Dumps, NEW games \in BOOLEAN, BeginCreate(w, d, games)
      PROVE  ToldInv'
  <2>1. dest = Nothing /\ dest' = dest /\ stage' = stage /\ told'[w] = "nothing"
    BY <1>1, InductiveInv, BeginCreateEffect DEF InductiveInv
  <2>2. ~Marked BY <2>1, EmptyTree DEF Marked, HasLibrary, Names
  <2>3. \A e \in Names : \A v \in Windows : By(v, e)' <=> By(v, e) BY <2>1 DEF By
  <2>4. \A v \in Windows \ {w} : told'[v] = told[v]
    BY <1>1, InductiveInv, BeginCreateEffect DEF InductiveInv
  <2>5. \A v \in Windows : told[v] \notin {"initialised", "open"}
    BY <2>2, InductiveInv DEF InductiveInv, ToldInv, ToldFine
  <2>6. \A v \in Windows \ {w} : ToldFine(v)'
    BY <2>1, <2>3, <2>4, <2>5, InductiveInv, ToldSame
  <2>7. ToldFine(w)' BY <2>1 DEF ToldFine
  <2>8. QED BY <2>6, <2>7 DEF ToldInv
<1>2. ASSUME NEW w \in Windows, StageResources(w)
      PROVE  ToldInv'
  <2>1. job[w].at \in Creation /\ dest' = dest /\ told[w] = "nothing"
    BY <1>2, InductiveInv, StageResourcesJob, StageResourcesEffect DEF InductiveInv, JobInv,
       JobFine, Creation, Staging, Installing
  <2>2. \A v \in Windows : told[v] \notin {"initialised", "open"}
    BY <2>1, InductiveInv, NoneOpened
  <2>3. \A e \in Names : \A v \in Windows : By(v, e)' <=> By(v, e) BY <2>1 DEF By
  <2>4. \A v \in Windows \ {w} : told'[v] = told[v] /\ stage'[v] = stage[v]
    BY <1>2, InductiveInv, StageResourcesJob, StageResourcesEffect DEF InductiveInv, Onward,
       Ended, Emptied
  <2>5. \A v \in Windows \ {w} : ToldFine(v)' BY <2>2, <2>3, <2>4, InductiveInv, ToldSame
  <2>6. told'[w] = "nothing"
    BY <1>2, <2>1, InductiveInv, StageResourcesJob, StageResourcesEffect DEF InductiveInv,
       Onward
  <2>7. ToldFine(w)' BY <2>6 DEF ToldFine
  <2>8. QED BY <2>5, <2>7 DEF ToldInv
<1>3. ASSUME NEW w \in Windows, StageGames(w)
      PROVE  ToldInv'
  <2>1. job[w].at \in Creation /\ dest' = dest /\ told[w] = "nothing"
    BY <1>3, InductiveInv, StageGamesJob, StageGamesEffect DEF InductiveInv, JobInv, JobFine,
       Creation, Staging, Installing
  <2>2. \A v \in Windows : told[v] \notin {"initialised", "open"}
    BY <2>1, InductiveInv, NoneOpened
  <2>3. \A e \in Names : \A v \in Windows : By(v, e)' <=> By(v, e) BY <2>1 DEF By
  <2>4. \A v \in Windows \ {w} : told'[v] = told[v] /\ stage'[v] = stage[v]
    BY <1>3, InductiveInv, StageGamesJob, StageGamesEffect DEF InductiveInv, Onward, Ended,
       Emptied
  <2>5. \A v \in Windows \ {w} : ToldFine(v)' BY <2>2, <2>3, <2>4, InductiveInv, ToldSame
  <2>6. told'[w] = "nothing"
    BY <1>3, <2>1, InductiveInv, StageGamesJob, StageGamesEffect DEF InductiveInv, Onward
  <2>7. ToldFine(w)' BY <2>6 DEF ToldFine
  <2>8. QED BY <2>5, <2>7 DEF ToldInv
<1>4. ASSUME NEW w \in Windows, StageRuntime(w)
      PROVE  ToldInv'
  <2>1. job[w].at \in Creation /\ dest' = dest /\ told[w] = "nothing"
    BY <1>4, InductiveInv, StageRuntimeJob, StageRuntimeEffect DEF InductiveInv, JobInv,
       JobFine, Creation, Staging, Installing
  <2>2. \A v \in Windows : told[v] \notin {"initialised", "open"}
    BY <2>1, InductiveInv, NoneOpened
  <2>3. \A e \in Names : \A v \in Windows : By(v, e)' <=> By(v, e) BY <2>1 DEF By
  <2>4. \A v \in Windows \ {w} : told'[v] = told[v] /\ stage'[v] = stage[v]
    BY <1>4, InductiveInv, StageRuntimeJob, StageRuntimeEffect DEF InductiveInv, Onward, Ended,
       Emptied
  <2>5. \A v \in Windows \ {w} : ToldFine(v)' BY <2>2, <2>3, <2>4, InductiveInv, ToldSame
  <2>6. told'[w] = "nothing"
    BY <1>4, <2>1, InductiveInv, StageRuntimeJob, StageRuntimeEffect DEF InductiveInv, Onward
  <2>7. ToldFine(w)' BY <2>6 DEF ToldFine
  <2>8. QED BY <2>5, <2>7 DEF ToldInv
<1>5. ASSUME NEW w \in Windows, StageFails(w)
      PROVE  ToldInv'
  <2>1. job[w].at \in Creation /\ dest' = dest /\ told[w] = "nothing"
    BY <1>5, InductiveInv, StageFailsEffect DEF InductiveInv, JobInv, JobFine, Creation,
       Staging, Installing
  <2>2. \A v \in Windows : told[v] \notin {"initialised", "open"}
    BY <2>1, InductiveInv, NoneOpened
  <2>3. \A e \in Names : \A v \in Windows : By(v, e)' <=> By(v, e) BY <2>1 DEF By
  <2>4. \A v \in Windows \ {w} : told'[v] = told[v] /\ stage'[v] = stage[v]
    BY <1>5, InductiveInv, StageFailsEffect DEF InductiveInv, Onward, Ended, Emptied
  <2>5. \A v \in Windows \ {w} : ToldFine(v)' BY <2>2, <2>3, <2>4, InductiveInv, ToldSame
  <2>6. job[w].at \in Staging => \A e \in Names : ~By(w, e)
    BY InductiveInv DEF InductiveInv, MineInv, MineFine
  <2>7. told'[w] = "nothing" \/ (told'[w] = "failed" /\ job[w].at \in Staging)
    BY <1>5, <2>1, InductiveInv, StageFailsEffect DEF InductiveInv, Onward, Ended, Staging
  <2>8. ToldFine(w)' BY <2>3, <2>6, <2>7 DEF ToldFine
  <2>9. QED BY <2>5, <2>8 DEF ToldInv
<1>6. ASSUME NEW w \in Windows, CheckAgain(w)
      PROVE  ToldInv'
  <2>1. job[w].at \in Creation /\ dest' = dest /\ told[w] = "nothing"
    BY <1>6, InductiveInv, CheckAgainEffect DEF InductiveInv, JobInv, JobFine, Creation,
       Staging, Installing
  <2>2. \A v \in Windows : told[v] \notin {"initialised", "open"}
    BY <2>1, InductiveInv, NoneOpened
  <2>3. \A e \in Names : \A v \in Windows : By(v, e)' <=> By(v, e) BY <2>1 DEF By
  <2>4. \A v \in Windows \ {w} : told'[v] = told[v] /\ stage'[v] = stage[v]
    BY <1>6, InductiveInv, CheckAgainEffect DEF InductiveInv, Onward, Ended, Emptied
  <2>5. \A v \in Windows \ {w} : ToldFine(v)' BY <2>2, <2>3, <2>4, InductiveInv, ToldSame
  <2>6. job[w].at \in Staging => \A e \in Names : ~By(w, e)
    BY InductiveInv DEF InductiveInv, MineInv, MineFine
  <2>7. told'[w] = "nothing" \/ (told'[w] = "failed" /\ job[w].at \in Staging)
    BY <1>6, <2>1, InductiveInv, CheckAgainEffect DEF InductiveInv, Onward, Ended, Staging
  <2>8. ToldFine(w)' BY <2>3, <2>6, <2>7 DEF ToldFine
  <2>9. QED BY <2>5, <2>8 DEF ToldInv
<1>7. ASSUME NEW w \in Windows, InstallWhole(w)
      PROVE  ToldInv'
  <2>1. job[w].at = "whole" /\ told[w] = "nothing"
    BY <1>7, InductiveInv, InstallWholeEffect DEF InductiveInv, JobInv, JobFine
  <2>2. \A v \in Windows : told[v] \notin {"initialised", "open"}
    BY <2>1, InductiveInv, NoneOpened DEF Creation, Staging
  <2>3. \A e \in Names : ~By(w, e)
    BY <2>1, InductiveInv DEF InductiveInv, MineInv, MineFine, Staging
  <2>4. \A e \in Names : \A v \in Windows \ {w} : By(v, e)' <=> By(v, e)
    <3>1. CASE dest' = dest BY <3>1 DEF By
    <3>2. CASE ~exists /\ dest' = stage[w]
      <4>1. \A e \in Names : dest[e] = None
        BY <3>2, InductiveInv, EmptyTree DEF InductiveInv, DestInv
      <4>2. \A e \in Names : dest'[e] # None /\ dest'[e].by = w
        BY <2>1, <3>2, InductiveInv DEF InductiveInv, StageInv, StageFine, Good
      <4>3. QED BY <4>1, <4>2 DEF By
    <3>3. QED BY <1>7, <3>1, <3>2, InductiveInv, InstallWholeEffect DEF InductiveInv
  <2>5. \A v \in Windows \ {w} : told'[v] = told[v] /\ stage'[v] = stage[v]
    BY <1>7, InductiveInv, InstallWholeEffect DEF InductiveInv, Onward, Ended, Emptied
  <2>6. \A v \in Windows \ {w} : ToldFine(v)' BY <2>2, <2>4, <2>5, InductiveInv, ToldSame
  <2>7. told'[w] = "nothing" \/ (told'[w] = "failed" /\ dest' = dest)
    BY <1>7, <2>1, InductiveInv, InstallWholeEffect DEF InductiveInv, Onward, Ended
  <2>8. ToldFine(w)' BY <2>3, <2>7 DEF ToldFine, By
  <2>9. QED BY <2>6, <2>8 DEF ToldInv
<1>8. ASSUME NEW w \in Windows, RequireAbsent(w)
      PROVE  ToldInv'
  <2>1. job[w].at \in Creation /\ dest' = dest /\ told[w] = "nothing"
    BY <1>8, InductiveInv, RequireAbsentEffect DEF InductiveInv, JobInv, JobFine, Creation,
       Staging, Installing
  <2>2. \A v \in Windows : told[v] \notin {"initialised", "open"}
    BY <2>1, InductiveInv, NoneOpened
  <2>3. \A e \in Names : \A v \in Windows : By(v, e)' <=> By(v, e) BY <2>1 DEF By
  <2>4. \A v \in Windows \ {w} : told'[v] = told[v] /\ stage'[v] = stage[v]
    BY <1>8, InductiveInv, RequireAbsentEffect DEF InductiveInv, Onward, Ended, Emptied
  <2>5. \A v \in Windows \ {w} : ToldFine(v)' BY <2>2, <2>3, <2>4, InductiveInv, ToldSame
  <2>6. told'[w] = "nothing"
    BY <1>8, <2>1, InductiveInv, RequireAbsentEffect DEF InductiveInv, Onward
  <2>7. ToldFine(w)' BY <2>6 DEF ToldFine
  <2>8. QED BY <2>5, <2>7 DEF ToldInv
<1>9. ASSUME NEW w \in Windows, Rename(w)
      PROVE  ToldInv'
  <2>1. job[w].at = "rename" /\ told' = told /\ told[w] = "nothing"
    BY <1>9, InductiveInv, RenameEffect DEF InductiveInv, JobInv, JobFine, Onward
  <2>2. \A v \in Windows : told[v] \notin {"initialised", "open"}
    BY <2>1, InductiveInv, NoneOpened DEF Creation, Installing
  <2>3. \A v \in Windows \ {w} : stage'[v] = stage[v]
    BY <1>9, InductiveInv, RenameEffect DEF InductiveInv, Alone
  <2>4. \A e \in Names : \A v \in Windows \ {w} : By(v, e)' <=> By(v, e)
    <3>1. CASE dest' = dest BY <3>1 DEF By
    <3>2. CASE dest' # dest
      <4>1. PICK e \in Names : /\ dest[e] = None /\ dest'[e] = stage[w][e]
                               /\ \A n \in Names \ {e} : dest'[n] = dest[n]
        BY <1>9, <3>2, InductiveInv, RenameEffect DEF InductiveInv
      <4>2. dest'[e] = None \/ dest'[e].by = w
        BY <2>1, <4>1, InductiveInv DEF InductiveInv, StageInv, StageFine, Installing, Good, By
      <4>3. QED BY <4>1, <4>2 DEF By
    <3>3. QED BY <3>1, <3>2
  <2>5. \A v \in Windows \ {w} : ToldFine(v)'
    BY <2>1, <2>2, <2>3, <2>4, InductiveInv, ToldSame
  <2>6. ToldFine(w)' BY <2>1 DEF ToldFine
  <2>7. QED BY <2>5, <2>6 DEF ToldInv
<1>10. ASSUME NEW w \in Windows, RenameFails(w)
      PROVE  ToldInv'
  <2>1. job[w].at \in Creation /\ dest' = dest /\ told[w] = "nothing"
    BY <1>10, InductiveInv, RenameFailsEffect DEF InductiveInv, JobInv, JobFine, Creation,
       Staging, Installing
  <2>2. \A v \in Windows : told[v] \notin {"initialised", "open"}
    BY <2>1, InductiveInv, NoneOpened
  <2>3. \A e \in Names : \A v \in Windows : By(v, e)' <=> By(v, e) BY <2>1 DEF By
  <2>4. \A v \in Windows \ {w} : told'[v] = told[v] /\ stage'[v] = stage[v]
    BY <1>10, InductiveInv, RenameFailsEffect DEF InductiveInv, Onward, Ended, Emptied
  <2>5. \A v \in Windows \ {w} : ToldFine(v)' BY <2>2, <2>3, <2>4, InductiveInv, ToldSame
  <2>6. job[w].at \in Staging => \A e \in Names : ~By(w, e)
    BY InductiveInv DEF InductiveInv, MineInv, MineFine
  <2>7. told'[w] = "nothing" \/ (told'[w] = "failed" /\ job[w].at \in Staging)
    BY <1>10, <2>1, InductiveInv, RenameFailsEffect DEF InductiveInv, Onward, Ended, Staging
  <2>8. ToldFine(w)' BY <2>3, <2>6, <2>7 DEF ToldFine
  <2>9. QED BY <2>5, <2>8 DEF ToldInv
<1>11. ASSUME NEW w \in Windows, RollBack(w)
      PROVE  ToldInv'
  <2>1. job[w].at = "rollback" /\ told' = told /\ told[w] = "nothing"
    BY <1>11, InductiveInv, RollBackEffect DEF InductiveInv, JobInv, JobFine, Onward
  <2>2. \A v \in Windows : told[v] \notin {"initialised", "open"}
    BY <2>1, InductiveInv, NoneOpened DEF Creation, Installing
  <2>3. \A v \in Windows \ {w} : stage'[v] = stage[v]
    BY <1>11, InductiveInv, RollBackEffect DEF InductiveInv, Alone
  <2>4. \A e \in Names : \A v \in Windows \ {w} : By(v, e)' <=> By(v, e)
    <3>1. PICK e \in Names :
            /\ InSeq(e, job[w].moved)
            /\ dest' = dest \/ (dest'[e] = None /\ \A n \in Names \ {e} : dest'[n] = dest[n])
      BY <1>11, InductiveInv, RollBackEffect DEF InductiveInv
    <3>2. By(w, e)
      BY <2>1, <3>1, InductiveInv DEF InductiveInv, MineInv, MineFine, Installing
    <3>3. QED BY <3>1, <3>2 DEF By
  <2>5. \A v \in Windows \ {w} : ToldFine(v)'
    BY <2>1, <2>2, <2>3, <2>4, InductiveInv, ToldSame
  <2>6. ToldFine(w)' BY <2>1 DEF ToldFine
  <2>7. QED BY <2>5, <2>6 DEF ToldInv
<1>12. ASSUME NEW w \in Windows, RolledBack(w)
      PROVE  ToldInv'
  <2>1. job[w].at \in Creation /\ dest' = dest /\ told[w] = "nothing"
    BY <1>12, InductiveInv, RolledBackEffect DEF InductiveInv, JobInv, JobFine, Creation,
       Staging, Installing
  <2>2. \A v \in Windows : told[v] \notin {"initialised", "open"}
    BY <2>1, InductiveInv, NoneOpened
  <2>3. \A e \in Names : \A v \in Windows : By(v, e)' <=> By(v, e) BY <2>1 DEF By
  <2>4. \A v \in Windows \ {w} : told'[v] = told[v] /\ stage'[v] = stage[v]
    BY <1>12, InductiveInv, RolledBackEffect DEF InductiveInv, Onward, Ended, Emptied
  <2>5. \A v \in Windows \ {w} : ToldFine(v)' BY <2>2, <2>3, <2>4, InductiveInv, ToldSame
  <2>6. job[w].at = "rollback" /\ job[w].moved = <<>>
    BY <1>12, InductiveInv, RolledBackEffect DEF InductiveInv
  <2>7. MineFine(w) /\ StageFine(w) BY InductiveInv DEF InductiveInv, MineInv, StageInv
  <2>8. \A e \in Names : ~InSeq(e, job[w].moved) BY <2>6, MoveFacts DEF Moves
  <2>9. ASSUME told'[w] = "kept", stage' = stage PROVE ToldFine(w)'
    <3>1. \A e \in Names : By(w, e)' \/ stage'[w][e] # None
      BY <2>3, <2>6, <2>7, <2>9 DEF StageFine, Installing, Good
    <3>2. QED BY <2>9, <3>1 DEF ToldFine
  <2>10. ASSUME told'[w] = "failed", \A e \in stuck : dest[e].by # w PROVE ToldFine(w)'
    <3>1. \A e \in Names : ~By(w, e)
      <4>1. \A e \in Names : By(w, e) => e \in stuck
        BY <2>6, <2>7, <2>8 DEF MineFine, Installing
      <4>2. QED BY <2>10, <4>1 DEF By
    <3>2. QED BY <2>3, <2>10, <3>1 DEF ToldFine
  <2>11. ToldFine(w)'
    BY <1>12, <2>9, <2>10, InductiveInv, RolledBackEffect DEF InductiveInv, Ended
  <2>12. QED BY <2>5, <2>11 DEF ToldInv
<1>13. ASSUME NEW w \in Windows, Identify(w)
      PROVE  ToldInv'
  <2>1. job[w].at \in Creation /\ dest' = dest /\ told[w] = "nothing"
    BY <1>13, InductiveInv, IdentifyEffect DEF InductiveInv, JobInv, JobFine, Creation,
       Staging, Installing
  <2>2. \A v \in Windows : told[v] \notin {"initialised", "open"}
    BY <2>1, InductiveInv, NoneOpened
  <2>3. \A e \in Names : \A v \in Windows : By(v, e)' <=> By(v, e) BY <2>1 DEF By
  <2>4. \A v \in Windows \ {w} : told'[v] = told[v] /\ stage'[v] = stage[v]
    BY <1>13, InductiveInv, IdentifyEffect DEF InductiveInv, Onward, Ended, Emptied
  <2>5. \A v \in Windows \ {w} : ToldFine(v)' BY <2>2, <2>3, <2>4, InductiveInv, ToldSame
  <2>6. \A e \in Names : By(w, e)
    BY <1>13, InductiveInv, IdentifyEffect DEF InductiveInv, MineInv, MineFine
  <2>7. told'[w] \in {"done", "failed"}
    BY <1>13, InductiveInv, IdentifyEffect DEF InductiveInv, Ended
  <2>8. ToldFine(w)' BY <2>3, <2>6, <2>7 DEF ToldFine
  <2>9. QED BY <2>5, <2>8 DEF ToldInv
<1>14. ASSUME NEW w \in Windows, NEW d \in Backups, BeginInit(w, d)
      PROVE  ToldInv'
  <2>1. \A n \in Names : KeptEntry(n)
    BY <1>14, InductiveInv, BeginInitEffect DEF InductiveInv
  <2>2. \A u \in Windows : job'[u].at \in Creation => job[u].at \in Creation
    BY <1>14, InductiveInv, BeginInitEffect DEF InductiveInv, Creation, Staging, Installing,
       Onward, Ended
  <2>3. stage' = stage BY <1>14, InductiveInv, BeginInitEffect DEF InductiveInv
  <2>4. \A v \in Windows : told'[v] = told[v] => ToldFine(v)'
    BY <2>1, <2>2, <2>3, InductiveInv, ToldKept
  <2>5. \A v \in Windows : told'[v] = told[v] \/ told'[v] \in {"nothing", "initFailed", "bare", "refused"}
    BY <1>14, InductiveInv, BeginInitEffect DEF InductiveInv, Onward, Ended
  <2>6. \A v \in Windows : told'[v] \in {"nothing", "initFailed", "bare", "refused"} => ToldFine(v)'
    BY DEF ToldFine
  <2>7. QED BY <2>4, <2>5, <2>6 DEF ToldInv
<1>15. ASSUME NEW w \in Windows, InitList(w)
      PROVE  ToldInv'
  <2>1. \A n \in Names : KeptEntry(n)
    BY <1>15, InductiveInv, InitListEffect DEF InductiveInv
  <2>2. \A u \in Windows : job'[u].at \in Creation => job[u].at \in Creation
    BY <1>15, InductiveInv, InitListEffect DEF InductiveInv, Creation, Staging, Installing,
       Onward, Ended
  <2>3. stage' = stage BY <1>15, InductiveInv, InitListEffect DEF InductiveInv
  <2>4. \A v \in Windows : told'[v] = told[v] => ToldFine(v)'
    BY <2>1, <2>2, <2>3, InductiveInv, ToldKept
  <2>5. \A v \in Windows : told'[v] = told[v] \/ told'[v] \in {"nothing", "initFailed", "bare", "refused"}
    BY <1>15, InductiveInv, InitListEffect DEF InductiveInv, Onward, Ended
  <2>6. \A v \in Windows : told'[v] \in {"nothing", "initFailed", "bare", "refused"} => ToldFine(v)'
    BY DEF ToldFine
  <2>7. QED BY <2>4, <2>5, <2>6 DEF ToldInv
<1>16. ASSUME NEW w \in Windows, CopyResource(w)
      PROVE  ToldInv'
  <2>1. \A n \in Names : KeptEntry(n)
    BY <1>16, InductiveInv, CopyResourceEffect DEF InductiveInv
  <2>2. \A u \in Windows : job'[u].at \in Creation => job[u].at \in Creation
    BY <1>16, InductiveInv, CopyResourceEffect DEF InductiveInv, Creation, Staging, Installing,
       Onward, Ended
  <2>3. stage' = stage BY <1>16, InductiveInv, CopyResourceEffect DEF InductiveInv
  <2>4. \A v \in Windows : told'[v] = told[v] => ToldFine(v)'
    BY <2>1, <2>2, <2>3, InductiveInv, ToldKept
  <2>5. \A v \in Windows : told'[v] = told[v] \/ told'[v] \in {"nothing", "initFailed", "bare", "refused"}
    BY <1>16, InductiveInv, CopyResourceEffect DEF InductiveInv, Onward, Ended
  <2>6. \A v \in Windows : told'[v] \in {"nothing", "initFailed", "bare", "refused"} => ToldFine(v)'
    BY DEF ToldFine
  <2>7. QED BY <2>4, <2>5, <2>6 DEF ToldInv
<1>17. ASSUME NEW w \in Windows, CopyTemplate(w)
      PROVE  ToldInv'
  <2>1. \A n \in Names : KeptEntry(n)
    BY <1>17, InductiveInv, CopyTemplateEffect DEF InductiveInv
  <2>2. \A u \in Windows : job'[u].at \in Creation => job[u].at \in Creation
    BY <1>17, InductiveInv, CopyTemplateEffect DEF InductiveInv, Creation, Staging, Installing,
       Onward, Ended
  <2>3. stage' = stage BY <1>17, InductiveInv, CopyTemplateEffect DEF InductiveInv
  <2>4. \A v \in Windows : told'[v] = told[v] => ToldFine(v)'
    BY <2>1, <2>2, <2>3, InductiveInv, ToldKept
  <2>5. \A v \in Windows : told'[v] = told[v] \/ told'[v] \in {"nothing", "initFailed", "bare", "refused"}
    BY <1>17, InductiveInv, CopyTemplateEffect DEF InductiveInv, Onward, Ended
  <2>6. \A v \in Windows : told'[v] \in {"nothing", "initFailed", "bare", "refused"} => ToldFine(v)'
    BY DEF ToldFine
  <2>7. QED BY <2>4, <2>5, <2>6 DEF ToldInv
<1>18. ASSUME NEW w \in Windows, InitEnable(w)
      PROVE  ToldInv'
  <2>1. \A n \in Names : KeptEntry(n)
    BY <1>18, InductiveInv, InitEnableEffect DEF InductiveInv
  <2>2. \A u \in Windows : job'[u].at \in Creation => job[u].at \in Creation
    BY <1>18, InductiveInv, InitEnableEffect DEF InductiveInv, Creation, Staging, Installing,
       Onward, Ended
  <2>3. stage' = stage BY <1>18, InductiveInv, InitEnableEffect DEF InductiveInv
  <2>4. \A v \in Windows : told'[v] = told[v] => ToldFine(v)'
    BY <2>1, <2>2, <2>3, InductiveInv, ToldKept
  <2>5. HasLibrary /\ (\A v \in Windows \ {w} : told'[v] = told[v])
    BY <1>18, InductiveInv, InitEnableEffect DEF InductiveInv, Ended, HasLibrary, PlaceInv,
       PlaceFine, InPlace
  <2>6. \A u \in Windows : job'[u].at \notin Creation
    BY <1>18, InductiveInv, InitEnableEffect DEF InductiveInv, PlaceInv, PlaceFine, InPlace,
       AllIdle, At, Creation, Staging, Installing, Onward, Ended
  <2>7. told'[w] \in {"initialised", "open"} => Marked'
    <3>1. HasLibrary' BY <2>1, <2>5, InductiveInv, KeptLists DEF HasLibrary, InductiveInv, Names
    <3>2. told'[w] \in {"initialised", "open"} => dest'["library"].has.marker
      BY <1>18, InductiveInv, InitEnableEffect DEF InductiveInv
    <3>3. QED BY <3>1, <3>2, Zenon DEF Marked
  <2>8. told'[w] \in {"initialised", "open", "bare", "refused"}
    BY <1>18, InductiveInv, InitEnableEffect DEF InductiveInv, Ended
  <2>9. ToldFine(w)' BY <2>6, <2>7, <2>8 DEF ToldFine
  <2>10. QED BY <2>4, <2>5, <2>9 DEF ToldInv
<1>19. ASSUME NEW w \in Windows, InitFails(w)
      PROVE  ToldInv'
  <2>1. \A n \in Names : KeptEntry(n)
    BY <1>19, InductiveInv, InitFailsEffect DEF InductiveInv, KeptEntry
  <2>2. \A u \in Windows : job'[u].at \in Creation => job[u].at \in Creation
    BY <1>19, InductiveInv, InitFailsEffect DEF InductiveInv, Creation, Staging, Installing,
       Onward, Ended
  <2>3. stage' = stage BY <1>19, InductiveInv, InitFailsEffect DEF InductiveInv
  <2>4. \A v \in Windows : told'[v] = told[v] => ToldFine(v)'
    BY <2>1, <2>2, <2>3, InductiveInv, ToldKept
  <2>5. \A v \in Windows : told'[v] = told[v] \/ told'[v] \in {"nothing", "initFailed", "bare", "refused"}
    BY <1>19, InductiveInv, InitFailsEffect DEF InductiveInv, Onward, Ended
  <2>6. \A v \in Windows : told'[v] \in {"nothing", "initFailed", "bare", "refused"} => ToldFine(v)'
    BY DEF ToldFine
  <2>7. QED BY <2>4, <2>5, <2>6 DEF ToldInv
<1>20. ASSUME NEW w \in Windows, OpenFolder(w)
      PROVE  ToldInv'
  <2>1. \A n \in Names : KeptEntry(n)
    BY <1>20, InductiveInv, OpenFolderEffect DEF InductiveInv
  <2>2. \A u \in Windows : job'[u].at \in Creation => job[u].at \in Creation
    BY <1>20, InductiveInv, OpenFolderEffect DEF InductiveInv, Creation, Staging, Installing,
       Onward, Ended
  <2>3. stage' = stage BY <1>20, InductiveInv, OpenFolderEffect DEF InductiveInv
  <2>4. \A v \in Windows : told'[v] = told[v] => ToldFine(v)'
    BY <2>1, <2>2, <2>3, InductiveInv, ToldKept
  <2>5. HasLibrary /\ (\A v \in Windows \ {w} : told'[v] = told[v])
    BY <1>20, InductiveInv, OpenFolderEffect DEF InductiveInv, Ended
  <2>6. \A u \in Windows : job'[u].at \notin Creation
    BY <1>20, InductiveInv, OpenFolderEffect DEF InductiveInv, PlaceInv, PlaceFine, InPlace,
       NobodyCreates, At, Creation, Staging, Installing, Onward, Ended
  <2>7. told'[w] \in {"initialised", "open"} => Marked'
    <3>1. HasLibrary' BY <2>1, <2>5, InductiveInv, KeptLists DEF HasLibrary, InductiveInv, Names
    <3>2. told'[w] \in {"initialised", "open"} => dest'["library"].has.marker
      BY <1>20, InductiveInv, OpenFolderEffect DEF InductiveInv
    <3>3. QED BY <3>1, <3>2, Zenon DEF Marked
  <2>8. told'[w] \in {"initialised", "open", "bare", "refused"}
    BY <1>20, InductiveInv, OpenFolderEffect DEF InductiveInv, Ended
  <2>9. ToldFine(w)' BY <2>6, <2>7, <2>8 DEF ToldFine
  <2>10. QED BY <2>4, <2>5, <2>9 DEF ToldInv
<1>21. ASSUME NEW w \in Windows, Kill(w)
      PROVE  ToldInv'
  <2>1. dest' = dest /\ told'[w] = "nothing"
    BY <1>21, InductiveInv, KillEffect DEF InductiveInv, Ended
  <2>2. \A n \in Names : KeptEntry(n) BY <2>1 DEF KeptEntry
  <2>3. \A u \in Windows : job'[u].at \in Creation => job[u].at \in Creation
    BY <1>21, InductiveInv, KillEffect DEF InductiveInv, Ended, Creation, Staging, Installing
  <2>4. \A v \in Windows \ {w} : told'[v] = told[v] /\ stage'[v] = stage[v]
    BY <1>21, InductiveInv, KillEffect DEF InductiveInv, Ended, Emptied
  <2>5. \A v \in Windows \ {w} : ToldFine(v)' BY <2>2, <2>3, <2>4, InductiveInv, ToldKept
  <2>6. ToldFine(w)' BY <2>1 DEF ToldFine
  <2>7. QED BY <2>5, <2>6 DEF ToldInv
<1>22. ASSUME NEW e \in Names, UserPuts(e)
      PROVE  ToldInv'
  <2>1. \A n \in Names : KeptEntry(n)
    BY <1>22, InductiveInv, UserPutsEffect DEF InductiveInv
  <2>2. \A u \in Windows : job'[u].at \in Creation => job[u].at \in Creation
    BY <1>22, InductiveInv, UserPutsEffect DEF InductiveInv, Creation, Staging, Installing,
       Onward, Ended
  <2>3. stage' = stage BY <1>22, InductiveInv, UserPutsEffect DEF InductiveInv
  <2>4. \A v \in Windows : told'[v] = told[v] => ToldFine(v)'
    BY <2>1, <2>2, <2>3, InductiveInv, ToldKept
  <2>5. \A v \in Windows : told'[v] = told[v] \/ told'[v] \in {"nothing", "initFailed", "bare", "refused"}
    BY <1>22, InductiveInv, UserPutsEffect DEF InductiveInv, Onward, Ended
  <2>6. \A v \in Windows : told'[v] \in {"nothing", "initFailed", "bare", "refused"} => ToldFine(v)'
    BY DEF ToldFine
  <2>7. QED BY <2>4, <2>5, <2>6 DEF ToldInv
<1>23. CASE UserMakesDirectory
  <2>1. \A n \in Names : KeptEntry(n)
    BY <1>23 DEF UserMakesDirectory, KeptEntry
  <2>2. \A u \in Windows : job'[u].at \in Creation => job[u].at \in Creation
    BY <1>23, InductiveInv DEF UserMakesDirectory, Creation, Staging, Installing, Onward, Ended
  <2>3. stage' = stage BY <1>23, InductiveInv DEF UserMakesDirectory
  <2>4. \A v \in Windows : told'[v] = told[v] => ToldFine(v)'
    BY <2>1, <2>2, <2>3, InductiveInv, ToldKept
  <2>5. \A v \in Windows : told'[v] = told[v] \/ told'[v] \in {"nothing", "initFailed", "bare", "refused"}
    BY <1>23, InductiveInv DEF UserMakesDirectory, Onward, Ended
  <2>6. \A v \in Windows : told'[v] \in {"nothing", "initFailed", "bare", "refused"} => ToldFine(v)'
    BY DEF ToldFine
  <2>7. QED BY <2>4, <2>5, <2>6 DEF ToldInv
<1>24. CASE UserClears
  <2>1. \A v \in Windows : told'[v] = "nothing"
    BY <1>24, InductiveInv, UserClearsEffect DEF InductiveInv
  <2>2. QED BY <2>1 DEF ToldInv, ToldFine
<1>25. QED
  BY <1>1, <1>2, <1>3, <1>4, <1>5, <1>6, <1>7, <1>8, <1>9, <1>10, <1>11, <1>12,
       <1>13, <1>14, <1>15, <1>16, <1>17, <1>18, <1>19, <1>20, <1>21, <1>22, <1>23,
       <1>24 DEF Next, Create, Initialise

-----------------------------------------------------------------------------
(* The theorems. *)

\* The invariant holds at first.
LEMMA InitInv ==
  ASSUME Init
  PROVE  InductiveInv
<1>1. \A w \in Windows : /\ stage[w] = Nothing /\ told[w] = "nothing"
                         /\ job[w].at = "idle" /\ job[w].moved = <<>>
  BY DEF Init, Idle
<1>2. dest = Nothing /\ stuck = {} /\ \A e \in Names : dest[e] = None
  BY EmptyTree DEF Init
<1>3. TypeOK
  <2>1. exists \in BOOLEAN /\ bounds \in [acts : Nat, faults : Nat, kills : Nat]
    BY DEF Init
  <2>2. job \in [Windows -> Jobs]
    BY DEF Init, Idle, Jobs, Stages, Moves
  <2>3. told \in [Windows -> Outcomes] BY DEF Init, Outcomes
  <2>4. IsTree(dest) /\ Nothing \in Trees BY <1>2, EmptyTree DEF IsTree
  <2>5. stage \in [Windows -> Trees]
    <3> HIDE DEF Nothing
    <3>1. stage = [w \in Windows |-> Nothing] BY DEF Init
    <3>2. QED BY <2>4, <3>1
  <2>6. \A w \in Windows : IsTree(stage[w]) BY <1>1, EmptyTree
  <2>7. QED BY <1>2, <2>1, <2>2, <2>3, <2>4, <2>5, <2>6 DEF TypeOK
<1>4. JobInv BY <1>1 DEF JobInv, JobFine, Creation, Staging, Installing
<1>5. PlaceInv BY <1>1 DEF PlaceInv, PlaceFine, InPlace
<1>6. StageInv BY <1>1 DEF StageInv, StageFine, Installing
<1>7. MineInv BY <1>1, <1>2 DEF MineInv, MineFine, Staging, Installing
<1>8. DestInv BY <1>2 DEF DestInv, Windowed, By, Names
<1>9. UserInv BY <1>2 DEF UserInv, Names
<1>10. ToldInv BY <1>1 DEF ToldInv, ToldFine
<1>11. QED BY <1>3, <1>4, <1>5, <1>6, <1>7, <1>8, <1>9, <1>10 DEF InductiveInv

\* And when nothing happens.
LEMMA Stutter ==
  ASSUME InductiveInv, UNCHANGED vars
  PROVE  InductiveInv'
<1>1. UNCHANGED <<exists, dest, stage, job, told, stuck, bounds>> BY DEF vars
<1>2. TypeOK' BY <1>1 DEF InductiveInv, TypeOK
<1>3. JobInv' BY <1>1 DEF InductiveInv, JobInv, JobFine
<1>4. PlaceInv' BY <1>1 DEF InductiveInv, PlaceInv, PlaceFine
<1>5. StageInv' BY <1>1 DEF InductiveInv, StageInv, StageFine, By
<1>6. MineInv' BY <1>1 DEF InductiveInv, MineInv, MineFine, By
<1>7. DestInv' BY <1>1 DEF InductiveInv, DestInv, Windowed, By
<1>8. UserInv' BY <1>1 DEF InductiveInv, UserInv, GameFiles
<1>9. ToldInv'
  BY <1>1 DEF InductiveInv, ToldInv, ToldFine, By, Marked, HasLibrary
<1>10. QED BY <1>2, <1>3, <1>4, <1>5, <1>6, <1>7, <1>8, <1>9 DEF InductiveInv

\* The invariant holds in every state that can be reached.
THEOREM Inductive == Spec => []InductiveInv
<1>1. Init => InductiveInv BY InitInv
<1>2. InductiveInv /\ [Next]_vars => InductiveInv'
  <2> SUFFICES ASSUME InductiveInv, [Next]_vars PROVE InductiveInv' OBVIOUS
  <2>1. CASE Next
    BY <2>1, TypeOKStep, JobInvStep, PlaceInvStep, StageInvStep, MineInvStep, DestInvStep,
       UserInvStep, ToldInvStep DEF InductiveInv
  <2>2. CASE UNCHANGED vars BY <2>2, Stutter
  <2>3. QED BY <2>1, <2>2
<1>3. QED BY <1>1, <1>2, PTL DEF Spec

\* A library that a window has installed stands beside the game directory of
\* its dump as long as no rollback has failed, and a library the console reads
\* has all it needs: for any dumps, lineups, windows and acts of the user
\* (create_library, finish_staged_library, init_library and openFolder).
THEOREM NothingVisibleIsTorn == Spec => []VisibleWhole
<1>1. InductiveInv => VisibleWhole
  <2> SUFFICES ASSUME InductiveInv, dest["library"] # None
               PROVE  LET library == dest["library"].has IN
                        /\ Windowed("library") /\ stuck = {} =>
                             /\ Windowed("game") /\ dest["game"].by = dest["library"].by
                             /\ Files \subseteq GameFiles /\ library.marker
                        /\ Listed(library)
                        /\ library.marker /\ stuck = {} => Prepares(GameFiles, library)
    BY DEF VisibleWhole
  <2> DEFINE library == dest["library"].has
  <2>1. TypeOK /\ DestInv /\ UserInv /\ "library" \in Names /\ "game" \in Names
    BY DEF InductiveInv, Names
  <2>2. dest["library"].by \in Owners BY <2>1, TreeEntry DEF TypeOK
  <2>3. CASE dest["library"].by \in Windows
    <3> DEFINE w == dest["library"].by
    <3>1. Windowed("library") /\ By(w, "library") BY <2>3 DEF Windowed, By
    <3>2. Good(w, "library", dest["library"]) BY <2>1, <3>1 DEF DestInv
    <3>3. Listed(library) /\ library.tmpl = Templates BY <3>2 DEF Good
    <3>4. library.marker BY <3>2, Zenon DEF Good
    <3>5. stuck = {} => By(w, "game") BY <2>1, <2>3, <3>1 DEF DestInv
    <3>6. By(w, "game") => Good(w, "game", dest["game"])
      BY <2>1, <2>3 DEF DestInv, Windowed, By
    <3>7. stuck = {} => /\ Windowed("game") /\ dest["game"].by = w
                        /\ GameFiles = Files
      BY <2>3, <3>5, <3>6 DEF By, Windowed, Good, GameFiles
    <3>8. stuck = {} => Prepares(GameFiles, library) BY <3>3, <3>7 DEF Prepares
    <3>9. stuck = {} => Files \subseteq GameFiles BY <3>7
    <3> HIDE DEF library
    <3>10. QED BY <3>3, <3>4, <3>7, <3>8, <3>9, Zenon DEF library
  <2>4. CASE dest["library"].by = User
    <3>1. ~Windowed("library") BY <2>4, CreationAssumption DEF Windowed
    <3>2. Listed(library) BY <2>1, <2>4 DEF UserInv
    <3>3. library.marker => Prepares(GameFiles, library)
      BY <2>1, <2>4, Zenon DEF UserInv
    <3>4. QED BY <3>1, <3>2, <3>3, Zenon
  <2>5. QED BY <2>2, <2>3, <2>4, Zenon DEF Owners
<1>2. QED BY <1>1, Inductive, PTL

\* What the window of a creation, an initialisation or an opened folder says
\* is so, however often something failed or was killed and whoever else wrote
\* to the destination (CreateOutcome, RollbackFailed and the kept directory).
THEOREM AnswersAreTrue == Spec => []OutcomeTrue
<1>1. InductiveInv => OutcomeTrue
  <2> SUFFICES ASSUME InductiveInv, NEW w \in Windows
               PROVE  LET mine == {e \in Names : dest[e] # None /\ dest[e].by = w} IN
                        /\ told[w] = "done" => mine = Names
                        /\ told[w] = "failed" => mine \in {{}, Names}
                        /\ told[w] = "kept" => \A e \in Names : e \in mine \/ stage[w][e] # None
                        /\ told[w] \in {"initialised", "open"} =>
                             HasLibrary /\ dest["library"].has.marker
    BY DEF OutcomeTrue
  <2> DEFINE mine == {e \in Names : dest[e] # None /\ dest[e].by = w}
  <2>1. ToldFine(w) BY DEF InductiveInv, ToldInv
  <2>2. \A e \in Names : e \in mine <=> By(w, e) BY DEF By
  <2>3. mine \subseteq Names OBVIOUS
  <2> HIDE DEF mine
  <2>4. told[w] = "done" => mine = Names BY <2>1, <2>2, <2>3 DEF ToldFine
  <2>5. told[w] = "failed" => mine \in {{}, Names}
    <3>1. told[w] = "failed" => (\A e \in Names : e \notin mine) \/ (\A e \in Names : e \in mine)
      BY <2>1, <2>2 DEF ToldFine
    <3>2. QED BY <2>3, <3>1
  <2>6. told[w] = "kept" => \A e \in Names : e \in mine \/ stage[w][e] # None
    BY <2>1, <2>2 DEF ToldFine
  <2>7. told[w] \in {"initialised", "open"} => HasLibrary /\ dest["library"].has.marker
    BY <2>1, Zenon DEF ToldFine, Marked
  <2>8. QED BY <2>4, <2>5, <2>6, <2>7, Zenon DEF mine
<1>2. QED BY <1>1, Inductive, PTL

\* What a step may do to the entries of the destination.
OthersStep ==
    \A e \in Names : dest[e] # None =>
      \/ /\ dest'[e] # None /\ dest'[e].by = dest[e].by
         /\ Keeps(e, dest[e].has, dest'[e].has)
      \/ Windowed(e) /\ At(dest[e].by, "rollback")
      \/ bounds'.acts > bounds.acts

\* A step that keeps all entries is one of those.
LEMMA KeptKeeps ==
  ASSUME TypeOK, \A e \in Names : dest[e] # None => KeptEntry(e)
  PROVE  OthersStep
<1> SUFFICES ASSUME NEW e \in Names, dest[e] # None, KeptEntry(e)
             PROVE  /\ dest'[e] # None /\ dest'[e].by = dest[e].by
                    /\ Keeps(e, dest[e].has, dest'[e].has)
  BY DEF OthersStep
<1>1. dest'[e] # None /\ dest'[e].by = dest[e].by BY KeptFacts
<1>2. CASE e = "game"
  <2>1. dest[e].has \subseteq dest'[e].has BY <1>2 DEF KeptEntry
  <2>2. QED BY <1>1, <1>2, <2>1 DEF Keeps
<1>3. CASE e = "library"
  <2>1. CASE dest'[e] = dest[e] BY <1>1, <1>3, <2>1 DEF Keeps
  <2>2. CASE Grown(dest[e], dest'[e])
    <3>1. dest[e] \in Entry /\ dest[e].has \in LibraryDirs
      BY <1>3, TreeEntry DEF TypeOK, Held
    <3>2. QED BY <1>1, <1>3, <2>2, <3>1, GrownKeeps
  <2>3. QED BY <1>3, <2>1, <2>2 DEF KeptEntry
<1>4. CASE e = "source" BY <1>1, <1>4 DEF Keeps
<1>5. QED BY <1>2, <1>3, <1>4 DEF Names

\* Each step keeps the entries of others.
LEMMA EntriesKept ==
  ASSUME InductiveInv, Next
  PROVE  OthersStep
<1>1. ASSUME NEW w \in Windows, NEW d \in Dumps, NEW games \in BOOLEAN, BeginCreate(w, d, games)
      PROVE  OthersStep
  <2>1. dest' = dest BY <1>1, InductiveInv, BeginCreateEffect DEF InductiveInv
  <2>2. QED BY <2>1, InductiveInv, KeptKeeps DEF InductiveInv, KeptEntry
<1>2. ASSUME NEW w \in Windows, StageResources(w)
      PROVE  OthersStep
  <2>1. dest' = dest
    BY <1>2, InductiveInv, StageResourcesJob, StageResourcesEffect DEF InductiveInv
  <2>2. QED BY <2>1, InductiveInv, KeptKeeps DEF InductiveInv, KeptEntry
<1>3. ASSUME NEW w \in Windows, StageGames(w)
      PROVE  OthersStep
  <2>1. dest' = dest BY <1>3, InductiveInv, StageGamesJob, StageGamesEffect DEF InductiveInv
  <2>2. QED BY <2>1, InductiveInv, KeptKeeps DEF InductiveInv, KeptEntry
<1>4. ASSUME NEW w \in Windows, StageRuntime(w)
      PROVE  OthersStep
  <2>1. dest' = dest BY <1>4, InductiveInv, StageRuntimeJob, StageRuntimeEffect DEF InductiveInv
  <2>2. QED BY <2>1, InductiveInv, KeptKeeps DEF InductiveInv, KeptEntry
<1>5. ASSUME NEW w \in Windows, StageFails(w)
      PROVE  OthersStep
  <2>1. dest' = dest BY <1>5, InductiveInv, StageFailsEffect DEF InductiveInv
  <2>2. QED BY <2>1, InductiveInv, KeptKeeps DEF InductiveInv, KeptEntry
<1>6. ASSUME NEW w \in Windows, CheckAgain(w)
      PROVE  OthersStep
  <2>1. dest' = dest BY <1>6, InductiveInv, CheckAgainEffect DEF InductiveInv
  <2>2. QED BY <2>1, InductiveInv, KeptKeeps DEF InductiveInv, KeptEntry
<1>7. ASSUME NEW w \in Windows, InstallWhole(w)
      PROVE  OthersStep
  <2>1. dest' = dest \/ ~exists
    BY <1>7, InductiveInv, InstallWholeEffect DEF InductiveInv
  <2>2. ~exists => \A e \in Names : dest[e] = None
    BY InductiveInv, EmptyTree DEF InductiveInv, DestInv
  <2>3. QED BY <2>1, <2>2, InductiveInv, KeptKeeps DEF InductiveInv, KeptEntry
<1>8. ASSUME NEW w \in Windows, RequireAbsent(w)
      PROVE  OthersStep
  <2>1. dest' = dest BY <1>8, InductiveInv, RequireAbsentEffect DEF InductiveInv
  <2>2. QED BY <2>1, InductiveInv, KeptKeeps DEF InductiveInv, KeptEntry
<1>9. ASSUME NEW w \in Windows, Rename(w)
      PROVE  OthersStep
  <2>1. \/ dest' = dest
        \/ \E e \in Names : dest[e] = None /\ \A n \in Names \ {e} : dest'[n] = dest[n]
    BY <1>9, InductiveInv, RenameEffect DEF InductiveInv
  <2>2. QED BY <2>1, InductiveInv, KeptKeeps DEF InductiveInv, KeptEntry
<1>10. ASSUME NEW w \in Windows, RenameFails(w)
      PROVE  OthersStep
  <2>1. dest' = dest BY <1>10, InductiveInv, RenameFailsEffect DEF InductiveInv
  <2>2. QED BY <2>1, InductiveInv, KeptKeeps DEF InductiveInv, KeptEntry
<1>11. ASSUME NEW w \in Windows, RollBack(w)
      PROVE  OthersStep
  <2>1. job[w].at = "rollback" BY <1>11, InductiveInv, RollBackEffect DEF InductiveInv
  <2>2. CASE dest' = dest
    BY <2>2, InductiveInv, KeptKeeps DEF InductiveInv, KeptEntry
  <2>3. CASE dest' # dest
    <3>1. PICK e \in Names : /\ InSeq(e, job[w].moved)
                             /\ \A n \in Names \ {e} : dest'[n] = dest[n]
      BY <1>11, <2>3, InductiveInv, RollBackEffect DEF InductiveInv
    <3>2. By(w, e)
      BY <2>1, <3>1, InductiveInv DEF InductiveInv, MineInv, MineFine, Installing
    <3>3. Windowed(e) /\ At(dest[e].by, "rollback") BY <2>1, <3>2 DEF By, Windowed, At
    <3>4. ASSUME NEW n \in Names \ {e}, dest[n] # None
          PROVE  /\ dest'[n] # None /\ dest'[n].by = dest[n].by
                 /\ Keeps(n, dest[n].has, dest'[n].has)
      <4>1. dest'[n] = dest[n] BY <3>1
      <4>2. n \in Names /\ \A x : Keeps(n, x, x) BY DEF Keeps, Names
      <4>3. QED BY <3>4, <4>1, <4>2
    <3>5. QED BY <3>3, <3>4 DEF OthersStep
  <2>4. QED BY <2>2, <2>3
<1>12. ASSUME NEW w \in Windows, RolledBack(w)
      PROVE  OthersStep
  <2>1. dest' = dest BY <1>12, InductiveInv, RolledBackEffect DEF InductiveInv
  <2>2. QED BY <2>1, InductiveInv, KeptKeeps DEF InductiveInv, KeptEntry
<1>13. ASSUME NEW w \in Windows, Identify(w)
      PROVE  OthersStep
  <2>1. dest' = dest BY <1>13, InductiveInv, IdentifyEffect DEF InductiveInv
  <2>2. QED BY <2>1, InductiveInv, KeptKeeps DEF InductiveInv, KeptEntry
<1>14. ASSUME NEW w \in Windows, NEW d \in Backups, BeginInit(w, d)
      PROVE  OthersStep
  <2>1. \A n \in Names : KeptEntry(n) BY <1>14, InductiveInv, BeginInitEffect DEF InductiveInv
  <2>2. QED BY <2>1, InductiveInv, KeptKeeps DEF InductiveInv
<1>15. ASSUME NEW w \in Windows, InitList(w)
      PROVE  OthersStep
  <2>1. \A n \in Names : KeptEntry(n) BY <1>15, InductiveInv, InitListEffect DEF InductiveInv
  <2>2. QED BY <2>1, InductiveInv, KeptKeeps DEF InductiveInv
<1>16. ASSUME NEW w \in Windows, CopyResource(w)
      PROVE  OthersStep
  <2>1. \A n \in Names : KeptEntry(n)
    BY <1>16, InductiveInv, CopyResourceEffect DEF InductiveInv
  <2>2. QED BY <2>1, InductiveInv, KeptKeeps DEF InductiveInv
<1>17. ASSUME NEW w \in Windows, CopyTemplate(w)
      PROVE  OthersStep
  <2>1. \A n \in Names : KeptEntry(n)
    BY <1>17, InductiveInv, CopyTemplateEffect DEF InductiveInv
  <2>2. QED BY <2>1, InductiveInv, KeptKeeps DEF InductiveInv
<1>18. ASSUME NEW w \in Windows, InitEnable(w)
      PROVE  OthersStep
  <2>1. \A n \in Names : KeptEntry(n) BY <1>18, InductiveInv, InitEnableEffect DEF InductiveInv
  <2>2. QED BY <2>1, InductiveInv, KeptKeeps DEF InductiveInv
<1>19. ASSUME NEW w \in Windows, InitFails(w)
      PROVE  OthersStep
  <2>1. dest' = dest BY <1>19, InductiveInv, InitFailsEffect DEF InductiveInv
  <2>2. QED BY <2>1, InductiveInv, KeptKeeps DEF InductiveInv, KeptEntry
<1>20. ASSUME NEW w \in Windows, OpenFolder(w)
      PROVE  OthersStep
  <2>1. \A n \in Names : KeptEntry(n) BY <1>20, InductiveInv, OpenFolderEffect DEF InductiveInv
  <2>2. QED BY <2>1, InductiveInv, KeptKeeps DEF InductiveInv
<1>21. ASSUME NEW w \in Windows, Kill(w)
      PROVE  OthersStep
  <2>1. dest' = dest BY <1>21, InductiveInv, KillEffect DEF InductiveInv
  <2>2. QED BY <2>1, InductiveInv, KeptKeeps DEF InductiveInv, KeptEntry
<1>22. ASSUME NEW e \in Names, UserPuts(e)
      PROVE  OthersStep
  <2>1. \A n \in Names : KeptEntry(n) BY <1>22, InductiveInv, UserPutsEffect DEF InductiveInv
  <2>2. QED BY <2>1, InductiveInv, KeptKeeps DEF InductiveInv
<1>23. CASE UserMakesDirectory
  <2>1. dest' = dest BY <1>23, InductiveInv DEF UserMakesDirectory
  <2>2. QED BY <2>1, InductiveInv, KeptKeeps DEF InductiveInv, KeptEntry
<1>24. CASE UserClears
  <2>1. bounds' = [bounds EXCEPT !.acts = @ + 1] BY <1>24 DEF UserClears, Act
  <2>2. bounds \in [acts : Nat, faults : Nat, kills : Nat] BY DEF InductiveInv, TypeOK
  <2>3. bounds'.acts > bounds.acts BY <2>1, <2>2
  <2>4. QED BY <2>3 DEF OthersStep
<1>25. QED
  BY <1>1, <1>2, <1>3, <1>4, <1>5, <1>6, <1>7, <1>8, <1>9, <1>10, <1>11, <1>12,
       <1>13, <1>14, <1>15, <1>16, <1>17, <1>18, <1>19, <1>20, <1>21, <1>22, <1>23,
       <1>24 DEF Next, Create, Initialise

\* An entry leaves the destination only through the rollback of the window that
\* put it there or by the user's hand, and what stays only gains files:
\* rename_without_replacement and copy_missing_resource overwrite nothing,
\* whoever writes between a check and a rename.
THEOREM NothingIsOverwritten == Spec => OthersKept
<1>1. InductiveInv /\ [Next]_vars =>
        [\A e \in Names : dest[e] # None =>
           \/ /\ dest'[e] # None /\ dest'[e].by = dest[e].by
              /\ Keeps(e, dest[e].has, dest'[e].has)
           \/ Windowed(e) /\ At(dest[e].by, "rollback")
           \/ bounds'.acts > bounds.acts]_vars
  BY EntriesKept DEF OthersStep
<1>2. QED BY <1>1, Inductive, PTL DEF Spec, OthersKept

=============================================================================
