------------------------ MODULE SourceLibraryProofs ------------------------
(***************************************************************************)
(* Proofs about SourceLibrary, for any covers, shapes, characters and      *)
(* fonts, any number of edits and faults.  LibraryInv is inductive whoever *)
(* saves meanwhile: originals are kept, and failed writes leave nothing a  *)
(* later opening refuses.  PatientInv strengthens it for a user who opens  *)
(* a library once the last save has ended: an opening runs alone, each     *)
(* lock has one holder, and who changes the library is behind until it has *)
(* seen to the artwork and the fonts.  One lemma per part, one step per    *)
(* action.                                                                 *)
(***************************************************************************)
EXTENDS SourceLibrary, TLAPS

-----------------------------------------------------------------------------
(* The inductive invariant *)

\* The steps of each job.
ArtSteps == {"read", "previous", "coverFile", "thumbFile", "descriptor", "sweep"}
FontSteps == {"fonts", "keep", "compare", "write", "markFonts"}
OpenSteps == {"idle", "profile", "bootstrap", "store", "motion", "clear", "back", "scripts",
  "settings",
    "data", "meta", "sleeve", "left", "right", "geometry", "uiKeep", "ui", "perGame", "v2"}
    \cup ArtSteps \cup FontSteps
PublishSteps == {"idle", "await", "store", "pubFonts", "settings", "data", "meta", "scripts",
                 "install", "perGame"}
CoverSteps == {"idle", "await", "lock", "flag", "png", "clearFlag", "unlock"} \cup ArtSteps
SaveSteps == {"idle", "lock", "compareShape", "flag", "json", "clearFlag", "unlock"} \cup ArtSteps
             \cup FontSteps
GenreSteps == {"idle", "settingsFile"} \cup FontSteps

\* The jobs are where the code can be, the modal ones one at a time.
JobInv ==
    /\ DOMAIN job = Workers
    /\ \A w \in Workers :
         /\ DOMAIN job[w] = DOMAIN IdleJob
         /\ ~up => job[w].at = "idle"
         /\ job[w].todo \subseteq Fonts
    /\ job["open"].at \in OpenSteps /\ job["publish"].at \in PublishSteps
    /\ job["cover"].at \in CoverSteps /\ job["save"].at \in SaveSteps
    /\ job["genre"].at \in GenreSteps
    /\ \A v, w \in Modal : job[v].at # "idle" /\ job[w].at # "idle" => v = w


-----------------------------------------------------------------------------
(* What the helpers of the actions do to a job *)

\* Others(w): the other jobs are left alone, and w keeps its fields.
Others(w) ==
    /\ DOMAIN job' = DOMAIN job /\ DOMAIN job'[w] = DOMAIN job[w]
    /\ \A v \in DOMAIN job : v # w => job'[v] = job[v]

\* Each file is followed by the next one of its job.
LEMMA SuccessorOf ==
  ASSUME NEW w \in {"open", "publish"}, NEW part \in Parts
  PROVE  /\ w = "open" => Successor(w, part) = IF part = "profile" THEN "bootstrap"
              ELSE IF part = "bootstrap" THEN "settings" ELSE IF part = "store" THEN "sleeve"
              ELSE IF part = "motion" THEN "uiKeep" ELSE IF part = "clear" THEN "back"
              ELSE IF part = "back" THEN "read" ELSE "perGame"
         /\ w = "publish" /\ part \in {"store", "scripts"} =>
              Successor(w, part) = IF part = "store" THEN "pubFonts" ELSE "install"
  BY DEF Successor, Parts

\* A font is made by a publication.
LEMMA PublishFontJob ==
  ASSUME JobInv, PublishFonts \/ InstallFont
  PROVE  /\ Others("publish") /\ job'["publish"].rev = job["publish"].rev
         /\ job'["publish"].old = job["publish"].old
         /\ \E f \in job["publish"].todo :
              /\ job'["publish"].todo = job["publish"].todo \ {f}
              /\ job'["publish"].at =
                   IF job["publish"].todo # {f} THEN job["publish"].at
                   ELSE IF job["publish"].at = "pubFonts" THEN "settings" ELSE "perGame"
<1>1. DOMAIN job = Workers /\ DOMAIN job["publish"] = DOMAIN IdleJob BY DEF JobInv, Workers
<1>2. CASE PublishFonts
  <2>1. PICK f \in job["publish"].todo :
          job' = [job EXCEPT !.publish.todo = @ \ {f}, !.publish.chars = {title},
                             !.publish.at = IF job.publish.todo = {f} THEN "settings"
                                            ELSE "pubFonts"]
    BY <1>2 DEF PublishFonts
  <2>2. job["publish"].at = "pubFonts" BY <1>2 DEF PublishFonts, At
  <2>3. QED BY <1>1, <2>1, <2>2 DEF Others, IdleJob, Workers
<1>3. CASE InstallFont
  <2>1. PICK f \in job["publish"].todo :
          job' = [job EXCEPT !.publish.todo = @ \ {f},
                             !.publish.at = IF job.publish.todo = {f} THEN "perGame"
                                            ELSE "install"]
    BY <1>3 DEF InstallFont
  <2>2. job["publish"].at = "install" BY <1>3 DEF InstallFont, At
  <2>3. QED BY <1>1, <2>1, <2>2 DEF Others, IdleJob, Workers
<1>4. QED BY <1>2, <1>3

\* A file is installed.
LEMMA InstallJob ==
  ASSUME JobInv, NEW w \in {"open", "publish"}, InstallPart(w)
  PROVE  /\ Others(w) /\ job[w].at \in Parts /\ job'[w].at = Successor(w, job[w].at)
         /\ job'[w].todo \in {Fonts, {}}
         /\ job'[w].rev = job[w].rev /\ job'[w].old = job[w].old
         /\ job'[w].at \in {"pubFonts", "install"} => job'[w].todo = Fonts
<1>1. w \in Workers /\ DOMAIN job = Workers /\ DOMAIN job[w] = DOMAIN IdleJob
  BY DEF JobInv, Workers
<1> DEFINE next == Successor(w, job[w].at)
<1>2. job' = [job EXCEPT ![w].at = next,
                         ![w].todo = IF next \in {"pubFonts", "install"} THEN Fonts ELSE {}]
  BY DEF InstallPart
<1>3. job[w].at \in Parts BY DEF InstallPart
<1> HIDE DEF next
<1>4. /\ Others(w) /\ job'[w].at = next /\ job'[w].rev = job[w].rev /\ job'[w].old = job[w].old
      /\ job'[w].todo = IF next \in {"pubFonts", "install"} THEN Fonts ELSE {}
  BY <1>1, <1>2 DEF Others, IdleJob
<1>5. QED BY <1>3, <1>4 DEF next

\* The jobs stay where the code can be.
LEMMA JobStep ==
  ASSUME JobInv, Next
  PROVE  JobInv'
<1>1. ASSUME PublishFonts PROVE JobInv'
  <2>1. Others("publish") /\ job["publish"].at \in {"pubFonts", "install"} /\ up /\ up' = up
    BY <1>1, PublishFontJob DEF PublishFonts, InstallFont, At, window
  <2>2. PICK f \in job["publish"].todo :
          /\ job'["publish"].todo = job["publish"].todo \ {f}
          /\ job'["publish"].at =
               IF job["publish"].todo # {f} THEN job["publish"].at
               ELSE IF job["publish"].at = "pubFonts" THEN "settings" ELSE "perGame"
    BY <1>1, PublishFontJob
  <2>3. job'["publish"].at \in PublishSteps \ {"idle"} BY <2>1, <2>2 DEF PublishSteps
  <2>4. job'["publish"].todo \subseteq Fonts BY <2>2, JobInv DEF JobInv, Workers
  <2>5. QED BY <2>1, <2>3, <2>4, JobInv DEF JobInv, Others, Workers, Modal
<1>2. ASSUME InstallFont PROVE JobInv'
  <2>1. Others("publish") /\ job["publish"].at \in {"pubFonts", "install"} /\ up /\ up' = up
    BY <1>2, PublishFontJob DEF PublishFonts, InstallFont, At, window
  <2>2. PICK f \in job["publish"].todo :
          /\ job'["publish"].todo = job["publish"].todo \ {f}
          /\ job'["publish"].at =
               IF job["publish"].todo # {f} THEN job["publish"].at
               ELSE IF job["publish"].at = "pubFonts" THEN "settings" ELSE "perGame"
    BY <1>2, PublishFontJob
  <2>3. job'["publish"].at \in PublishSteps \ {"idle"} BY <2>1, <2>2 DEF PublishSteps
  <2>4. job'["publish"].todo \subseteq Fonts BY <2>2, JobInv DEF JobInv, Workers
  <2>5. QED BY <2>1, <2>3, <2>4, JobInv DEF JobInv, Others, Workers, Modal
<1>3. ASSUME NEW w \in {"open", "publish"}, InstallPart(w) PROVE JobInv'
  <2>1. Others(w) /\ job[w].at \in Parts /\ job'[w].at = Successor(w, job[w].at)
        /\ job'[w].todo \subseteq Fonts /\ up /\ up' = up
    BY <1>3, InstallJob DEF InstallPart, window
  <2>2. CASE w = "open"
    <3>1. job'["open"].at \in OpenSteps \ {"idle"}
      BY <2>1, <2>2, SuccessorOf DEF OpenSteps, Parts, ArtSteps
    <3>2. QED BY <2>1, <2>2, <3>1, JobInv DEF JobInv, Others, Workers, Modal, Parts
  <2>3. CASE w = "publish"
    <3>1. job[w].at \in {"store", "scripts"} BY <2>1, <2>3, JobInv DEF JobInv, PublishSteps, Parts
    <3>2. job'[w].at \in PublishSteps \ {"idle"} BY <2>1, <2>3, <3>1, SuccessorOf DEF PublishSteps
    <3>3. QED BY <2>1, <2>3, <3>1, <3>2, JobInv DEF JobInv, Others, Workers, Modal
  <2>4. QED BY <2>2, <2>3
<1> USE JobInv DEF At, Goto, End, Unlock, Release, IdleJob, metadata, artwork, tree, settings,
   window, locks, history, JobInv, Workers, Modal, ArtSteps, FontSteps, OpenSteps,
   PublishSteps, CoverSteps, SaveSteps, GenreSteps
<1>4. ASSUME Start PROVE JobInv' BY <1>4 DEF Start, AllIdle
<1>5. ASSUME Close PROVE JobInv' BY <1>5 DEF Close, AllIdle
<1>6. ASSUME BeginSave PROVE JobInv' BY <1>6, ZenonT(60) DEF BeginSave
<1>7. ASSUME BeginOpen PROVE JobInv' BY <1>7 DEF BeginOpen, UserActs, Saved
<1>8. ASSUME OpenBare PROVE JobInv' BY <1>8 DEF OpenBare, UserActs, Saved, Show
<1>9. ASSUME NEW t \in Chars, NEW s \in Shapes, Edit(t, s) PROVE JobInv'
  BY <1>9 DEF Edit, UserActs
<1>10. ASSUME NEW g \in Chars, BeginGenre(g) PROVE JobInv' BY <1>10 DEF BeginGenre, UserActs
<1>11. ASSUME NEW w \in {"cover", "publish"}, NEW c \in Covers, BeginModal(w, c) PROVE JobInv'
  BY <1>11 DEF BeginModal, UserActs
<1>12. ASSUME CheckSleeve PROVE JobInv' BY <1>12 DEF CheckSleeve
<1>13. ASSUME WriteSleeve PROVE JobInv' BY <1>13 DEF WriteSleeve
<1>14. ASSUME KeepUi PROVE JobInv' BY <1>14 DEF KeepUi
<1>15. ASSUME PatchUi PROVE JobInv' BY <1>15 DEF PatchUi
<1>16. ASSUME MarkLibrary PROVE JobInv' BY <1>16 DEF MarkLibrary, Show, Remembered
<1>17. ASSUME NEW w \in {"open", "publish"}, CheckSettings(w) PROVE JobInv'
  BY <1>17 DEF CheckSettings
<1>18. ASSUME NEW w \in {"open", "publish"}, WriteData(w) PROVE JobInv' BY <1>18 DEF WriteData
<1>19. ASSUME NEW w \in {"open", "publish"}, WriteMeta(w) PROVE JobInv'
  BY <1>19 DEF WriteMeta, AfterSettings
<1>20. ASSUME NEW w \in {"open", "publish"}, MarkPerGame(w) PROVE JobInv'
  BY <1>20 DEF MarkPerGame, Remembered
<1>21. ASSUME CompareShape PROVE JobInv' BY <1>21 DEF CompareShape
<1>22. ASSUME WriteJson PROVE JobInv' BY <1>22 DEF WriteJson
<1>23. ASSUME WritePng PROVE JobInv' BY <1>23 DEF WritePng
<1>24. ASSUME NEW w \in {"save", "cover"}, TakeCoverLock(w) PROVE JobInv'
  BY <1>24 DEF TakeCoverLock
<1>25. ASSUME NEW w \in {"save", "cover"}, MarkCoverDirty(w) PROVE JobInv'
  BY <1>25 DEF MarkCoverDirty
<1>26. ASSUME NEW w \in {"save", "cover"}, ClearFlag(w) PROVE JobInv' BY <1>26 DEF ClearFlag
<1>27. ASSUME NEW w \in {"save", "cover"}, ReleaseCoverLock(w) PROVE JobInv'
  BY <1>27 DEF ReleaseCoverLock, Remembered
<1>28. ASSUME NEW w \in {"open", "save", "cover"}, ReadInputs(w) PROVE JobInv'
  BY <1>28 DEF ReadInputs
<1>29. ASSUME NEW w \in {"open", "save", "cover"}, ReadPrevious(w) PROVE JobInv'
  BY <1>29, SMTT(30) DEF ReadPrevious, AfterArt
<1>30. ASSUME NEW w \in {"open", "save", "cover"}, WriteArt(w) PROVE JobInv' BY <1>30 DEF WriteArt
<1>31. ASSUME NEW w \in {"open", "save", "cover"}, Sweep(w) PROVE JobInv'
  BY <1>31 DEF Sweep, AfterArt
<1>32. ASSUME WriteGenres PROVE JobInv' BY <1>32 DEF WriteGenres, Remembered
<1>33. ASSUME NEW w \in {"open", "save", "genre"}, TakeFontLock(w) PROVE JobInv'
  BY <1>33 DEF TakeFontLock
<1>34. ASSUME NEW w \in {"open", "save", "genre"}, KeepFont(w) PROVE JobInv' BY <1>34 DEF KeepFont
<1>35. ASSUME NEW w \in {"open", "save", "genre"}, CompareFonts(w) PROVE JobInv'
  BY <1>35 DEF CompareFonts, AfterFonts, Remembered
<1>36. ASSUME NEW w \in {"open", "save", "genre"}, WriteFont(w) PROVE JobInv'
  BY <1>36, SMTT(30) DEF WriteFont
<1>37. ASSUME NEW w \in {"open", "save", "genre"}, MarkFonts(w) PROVE JobInv'
  BY <1>37 DEF MarkFonts, AfterFonts, Remembered
<1>38. ASSUME Kill PROVE JobInv' BY <1>38 DEF Kill, Gone
<1>39. ASSUME GeometryFailsLate PROVE JobInv' BY <1>39 DEF GeometryFailsLate, Remembered
<1>40. ASSUME NEW w \in Workers, Refuse(w) PROVE JobInv'
  BY <1>40 DEF Refuse, Refused, Remembered, Saved
<1>41. ASSUME NEW w \in Workers, WriteFails(w) PROVE JobInv'
  BY <1>41 DEF WriteFails, WritePcs, Remembered, Parts
<1>42. ASSUME NEW w \in Workers, KillTearing(w) PROVE JobInv' BY <1>42 DEF KillTearing, Gone
<1>43. ASSUME NEW w \in {"cover", "publish"}, AwaitSave(w) PROVE JobInv'
  BY <1>43 DEF AwaitSave, Saved
<1>44. ASSUME UserCopiesRuntime PROVE JobInv' BY <1>44 DEF UserCopiesRuntime, AllIdle
<1>45. ASSUME Play PROVE JobInv' BY <1>45 DEF Play, AllIdle
<1> HIDE DEF JobInv
<1>46. QED BY <1>1, <1>2, <1>3, <1>4, <1>5, <1>6, <1>7, <1>8, <1>9, <1>10, <1>11, <1>12, <1>13,
   <1>14, <1>15, <1>16, <1>17, <1>18, <1>19, <1>20, <1>21, <1>22, <1>23, <1>24, <1>25, <1>26,
   <1>27, <1>28, <1>29, <1>30, <1>31, <1>32, <1>33, <1>34, <1>35, <1>36, <1>37, <1>38, <1>39,
   <1>40, <1>41, <1>42, <1>43, <1>44, <1>45 DEF Next, UserNext, OpenNext, EntryNext, FontNext,
   FaultNext, Workers

-----------------------------------------------------------------------------
(* The templates and the game/ tree *)

\* An original is among the templates before its live copy is replaced.
TreeInv ==
    /\ DOMAIN base = Resources /\ DOMAIN live = Resources
    /\ \A r \in Resources :
         /\ base[r] \in {Absent, Orig, Torn}
         /\ live[r].kind \in {"absent", "orig", "made", "torn"}
         /\ live[r].kind \in {"made", "torn"} => base[r] = Orig
         /\ live[r].kind = "orig" => live[r] = Orig
         /\ live[r].kind = "absent" => live[r] = Absent
         /\ base[r] = Torn => spoiled

\* The templates of the fonts are whole before the fonts are made.
KeptInv ==
    /\ \A w \in {"open", "save", "genre"} :
         /\ job[w].at \in {"compare", "write", "markFonts"} => \A f \in Fonts : base[f] # Absent
         /\ job[w].at \in {"write", "markFonts"} => \A f \in Fonts : base[f] # Torn
    /\ job["publish"].at = "pubFonts" => \A f \in Fonts \ job["publish"].todo : base[f] = Orig
    /\ job["publish"].at \in {"settings", "data", "meta", "scripts", "install", "perGame"}
         => \A f \in Fonts : base[f] = Orig


\* The kinds of contents differ.
LEMMA Kinds ==
  /\ Absent.kind = "absent" /\ Orig.kind = "orig" /\ Torn.kind = "torn"
  /\ Absent # Orig /\ Absent # Torn /\ Orig # Torn
  /\ \A chars : Made(chars).kind = "made"
  BY DEF Absent, Orig, Torn, Made

\* A template that is not there becomes what is live, the others stay.
Keeps ==
    /\ DOMAIN base' = Resources /\ live' = live /\ spoiled' = spoiled
    /\ \A r \in Resources : base'[r] # base[r] =>
         base[r] = Absent /\ base'[r] = live[r]

\* What is kept is an original.
LEMMA KeepsTree ==
  ASSUME TreeInv, Keeps
  PROVE  TreeInv' /\ \A r \in Resources : base[r] # Absent => base'[r] = base[r]
<1>1. \A r \in Resources : base[r] = Absent => live[r] \in {Absent, Orig}
  BY Kinds DEF TreeInv
<1>2. QED BY <1>1, Kinds DEF TreeInv, Keeps

\* The three steps that keep an original.
LEMMA KeepSteps ==
  ASSUME TreeInv, KeepUi \/ PublishFonts \/ \E w \in {"open", "save", "genre"} : KeepFont(w)
  PROVE  Keeps
<1>1. DOMAIN base = Resources /\ "ui" \in Resources /\ Fonts \subseteq Resources
  BY DEF TreeInv, Resources
<1>2. CASE KeepUi
  <2>1. base' = [base EXCEPT !["ui"] = IF base["ui"] = Absent THEN live["ui"] ELSE base["ui"]]
    BY <1>2 DEF KeepUi
  <2>2. live' = live /\ spoiled' = spoiled BY <1>2 DEF KeepUi, history
  <2>3. QED BY <1>1, <2>1, <2>2 DEF Keeps
<1>3. CASE PublishFonts
  <2>1. PICK f \in job.publish.todo : base' = [base EXCEPT ![f] = Source(f)]
    BY <1>3 DEF PublishFonts
  <2>2. live' = live /\ spoiled' = spoiled BY <1>3 DEF PublishFonts, history
  <2>3. QED BY <1>1, <2>1, <2>2 DEF Keeps, Source
<1>4. ASSUME NEW w \in {"open", "save", "genre"}, KeepFont(w) PROVE Keeps
  <2>1. base' = base \/ \E f \in Fonts : base[f] = Absent /\ base' = [base EXCEPT ![f] = live[f]]
    BY <1>4 DEF KeepFont
  <2>2. live' = live /\ spoiled' = spoiled BY <1>4 DEF KeepFont, history
  <2>3. QED BY <1>1, <2>1, <2>2 DEF Keeps
<1>5. QED BY <1>2, <1>3, <1>4

\* No step replaces a live copy whose original is not kept.
LEMMA TreeStep ==
  ASSUME JobInv, TreeInv, KeptInv, Next
  PROVE  TreeInv'
<1>1. ASSUME KeepUi PROVE TreeInv'
  BY <1>1, KeepSteps, KeepsTree
<1>2. ASSUME PatchUi PROVE TreeInv'
  <2>1. base["ui"] = Orig BY <1>2, Kinds DEF PatchUi, TreeInv, Resources
  <2>2. live' = [live EXCEPT !["ui"] = Made({})] /\ base' = base /\ spoiled' = spoiled
    BY <1>2 DEF PatchUi, history
  <2>3. QED BY <2>1, <2>2, Kinds, TreeInv DEF TreeInv
<1>3. ASSUME PublishFonts PROVE TreeInv'
  BY <1>3, KeepSteps, KeepsTree
<1>4. ASSUME NEW w \in {"open", "save", "genre"}, KeepFont(w) PROVE TreeInv'
  BY <1>4, KeepSteps, KeepsTree
<1>5. ASSUME NEW w \in Workers, KillTearing(w) PROVE TreeInv'
  <2>1. spoiled' = TRUE BY <1>5 DEF KillTearing
  <2>2. CASE w = "publish" /\ job[w].at = "pubFonts"
    <3>1. PICK f \in job[w].todo : base[f] = Absent /\ base' = [base EXCEPT ![f] = Torn]
            /\ live' = live
      BY <1>5, <2>2 DEF KillTearing, At
    <3>2. QED BY <2>1, <3>1, Kinds, TreeInv DEF TreeInv
  <2>3. CASE w = "publish" /\ job[w].at = "install"
    <3>1. PICK f \in job[w].todo : live' = [live EXCEPT ![f] = Torn] /\ base' = base
      BY <1>5, <2>3 DEF KillTearing, At
    <3>2. base[f] = Orig BY <2>3, KeptInv, JobInv DEF KeptInv, JobInv, Workers
    <3>3. QED BY <2>1, <3>1, <3>2, Kinds, TreeInv DEF TreeInv
  <2>4. CASE base' = base /\ live' = live BY <2>1, <2>4, TreeInv DEF TreeInv
  <2>5. job[w].at \in {"pubFonts", "install"} => w = "publish"
    BY JobInv DEF JobInv, Workers, OpenSteps, CoverSteps, SaveSteps, GenreSteps, ArtSteps, FontSteps
  <2>6. QED BY <1>5, <2>2, <2>3, <2>4, <2>5 DEF KillTearing, At
<1> USE JobInv, TreeInv, KeptInv DEF At, metadata, artwork, tree, settings, window, locks,
   history, JobInv, TreeInv, KeptInv, Workers
<1>6. ASSUME Start PROVE TreeInv' BY <1>6 DEF Start
<1>7. ASSUME Close PROVE TreeInv' BY <1>7 DEF Close
<1>8. ASSUME BeginSave PROVE TreeInv' BY <1>8 DEF BeginSave
<1>9. ASSUME BeginOpen PROVE TreeInv' BY <1>9 DEF BeginOpen
<1>10. ASSUME OpenBare PROVE TreeInv' BY <1>10 DEF OpenBare
<1>11. ASSUME NEW t \in Chars, NEW s \in Shapes, Edit(t, s) PROVE TreeInv' BY <1>11 DEF Edit
<1>12. ASSUME NEW g \in Chars, BeginGenre(g) PROVE TreeInv' BY <1>12 DEF BeginGenre
<1>13. ASSUME NEW w \in {"cover", "publish"}, NEW c \in Covers, BeginModal(w, c) PROVE TreeInv'
  BY <1>13 DEF BeginModal
<1>14. ASSUME CheckSleeve PROVE TreeInv' BY <1>14 DEF CheckSleeve
<1>15. ASSUME WriteSleeve PROVE TreeInv' BY <1>15 DEF WriteSleeve
<1>16. ASSUME MarkLibrary PROVE TreeInv' BY <1>16 DEF MarkLibrary
<1>17. ASSUME InstallFont PROVE TreeInv' BY <1>17 DEF InstallFont, Made
<1>18. ASSUME NEW w \in {"open", "publish"}, InstallPart(w) PROVE TreeInv'
  BY <1>18 DEF InstallPart, Parts
<1>19. ASSUME NEW w \in {"open", "publish"}, CheckSettings(w) PROVE TreeInv'
  BY <1>19 DEF CheckSettings
<1>20. ASSUME NEW w \in {"open", "publish"}, WriteData(w) PROVE TreeInv' BY <1>20 DEF WriteData
<1>21. ASSUME NEW w \in {"open", "publish"}, WriteMeta(w) PROVE TreeInv' BY <1>21 DEF WriteMeta
<1>22. ASSUME NEW w \in {"open", "publish"}, MarkPerGame(w) PROVE TreeInv'
  BY <1>22 DEF MarkPerGame
<1>23. ASSUME CompareShape PROVE TreeInv' BY <1>23 DEF CompareShape
<1>24. ASSUME WriteJson PROVE TreeInv' BY <1>24 DEF WriteJson
<1>25. ASSUME WritePng PROVE TreeInv' BY <1>25 DEF WritePng
<1>26. ASSUME NEW w \in {"save", "cover"}, TakeCoverLock(w) PROVE TreeInv'
  BY <1>26 DEF TakeCoverLock
<1>27. ASSUME NEW w \in {"save", "cover"}, MarkCoverDirty(w) PROVE TreeInv'
  BY <1>27 DEF MarkCoverDirty
<1>28. ASSUME NEW w \in {"save", "cover"}, ClearFlag(w) PROVE TreeInv' BY <1>28 DEF ClearFlag
<1>29. ASSUME NEW w \in {"save", "cover"}, ReleaseCoverLock(w) PROVE TreeInv'
  BY <1>29 DEF ReleaseCoverLock
<1>30. ASSUME NEW w \in {"open", "save", "cover"}, ReadInputs(w) PROVE TreeInv'
  BY <1>30 DEF ReadInputs
<1>31. ASSUME NEW w \in {"open", "save", "cover"}, ReadPrevious(w) PROVE TreeInv'
  BY <1>31 DEF ReadPrevious
<1>32. ASSUME NEW w \in {"open", "save", "cover"}, WriteArt(w) PROVE TreeInv'
  BY <1>32 DEF WriteArt
<1>33. ASSUME NEW w \in {"open", "save", "cover"}, Sweep(w) PROVE TreeInv' BY <1>33 DEF Sweep
<1>34. ASSUME WriteGenres PROVE TreeInv' BY <1>34 DEF WriteGenres
<1>35. ASSUME NEW w \in {"open", "save", "genre"}, TakeFontLock(w) PROVE TreeInv'
  BY <1>35 DEF TakeFontLock
<1>36. ASSUME NEW w \in {"open", "save", "genre"}, CompareFonts(w) PROVE TreeInv'
  BY <1>36 DEF CompareFonts
<1>37. ASSUME NEW w \in {"open", "save", "genre"}, WriteFont(w) PROVE TreeInv'
  BY <1>37 DEF WriteFont, Made
<1>38. ASSUME NEW w \in {"open", "save", "genre"}, MarkFonts(w) PROVE TreeInv'
  BY <1>38 DEF MarkFonts
<1>39. ASSUME Kill PROVE TreeInv' BY <1>39 DEF Kill, Gone
<1>40. ASSUME GeometryFailsLate PROVE TreeInv' BY <1>40 DEF GeometryFailsLate
<1>41. ASSUME NEW w \in Workers, Refuse(w) PROVE TreeInv' BY <1>41 DEF Refuse
<1>42. ASSUME NEW w \in Workers, WriteFails(w) PROVE TreeInv' BY <1>42 DEF WriteFails, Rollback
<1>43. ASSUME NEW w \in {"cover", "publish"}, AwaitSave(w) PROVE TreeInv' BY <1>43 DEF AwaitSave
<1>44. ASSUME UserCopiesRuntime PROVE TreeInv' BY <1>44 DEF UserCopiesRuntime, Resources, Orig
<1>45. ASSUME Play PROVE TreeInv' BY <1>45 DEF Play
<1> HIDE DEF JobInv, TreeInv, KeptInv
<1>46. QED BY <1>1, <1>2, <1>3, <1>4, <1>5, <1>6, <1>7, <1>8, <1>9, <1>10, <1>11, <1>12, <1>13,
   <1>14, <1>15, <1>16, <1>17, <1>18, <1>19, <1>20, <1>21, <1>22, <1>23, <1>24, <1>25, <1>26,
   <1>27, <1>28, <1>29, <1>30, <1>31, <1>32, <1>33, <1>34, <1>35, <1>36, <1>37, <1>38, <1>39,
   <1>40, <1>41, <1>42, <1>43, <1>44, <1>45 DEF Next, UserNext, OpenNext, EntryNext, FontNext,
   FaultNext, Workers

\* A template that is whole stays.
LEMMA KeptStep ==
  ASSUME JobInv, TreeInv, KeptInv, Next
  PROVE  KeptInv'
<1>1. ASSUME NEW g \in Chars, BeginGenre(g) PROVE KeptInv'
  <2>1. \A v \in Workers : job'[v].todo = job[v].todo /\ (v # "genre" => job'[v].at = job[v].at)
    BY <1>1, JobInv DEF BeginGenre, JobInv, IdleJob, Workers
  <2>2. job'["genre"].at = "settingsFile" BY <1>1, JobInv DEF BeginGenre, JobInv, IdleJob, Workers
  <2>3. base' = base BY <1>1 DEF BeginGenre, tree
  <2>4. QED BY <2>1, <2>2, <2>3, KeptInv DEF KeptInv, Workers
<1>2. ASSUME KeepUi PROVE KeptInv'
  <2>1. Keeps BY <1>2, KeepSteps
  <2>2. \A r \in Resources : base[r] # Absent => base'[r] = base[r] BY <2>1, KeepsTree
  <2>3. \A w \in Workers : /\ job'[w].todo = job[w].todo
        /\ job'[w].at = IF w = "open" THEN "ui" ELSE job[w].at
    BY <1>2, JobInv DEF KeepUi, Goto, JobInv, IdleJob, Workers
  <2>4. QED BY <2>1, <2>2, <2>3, KeptInv, Kinds DEF KeptInv, Keeps, Workers, Resources
<1>3. ASSUME PublishFonts PROVE KeptInv'
  <2>1. Keeps BY <1>3, KeepSteps
  <2>2. \A r \in Resources : base[r] # Absent => base'[r] = base[r] BY <2>1, KeepsTree
  <2>3. PICK f \in job["publish"].todo :
          /\ Source(f).kind = "orig" /\ base' = [base EXCEPT ![f] = Source(f)]
          /\ job' = [job EXCEPT !.publish.todo = @ \ {f}, !.publish.chars = {title},
                             !.publish.at = IF job.publish.todo = {f} THEN "settings"
                                            ELSE "pubFonts"]
    BY <1>3 DEF PublishFonts
  <2>4. /\ \A v \in Workers : v # "publish" => job'[v] = job[v]
        /\ job'["publish"].todo = job["publish"].todo \ {f}
        /\ job'["publish"].at = IF job["publish"].todo = {f} THEN "settings" ELSE "pubFonts"
    BY <2>3, JobInv DEF JobInv, IdleJob, Workers
  <2>5. f \in Resources /\ base'[f] = Source(f)
    BY <2>3, JobInv, TreeInv DEF JobInv, TreeInv, Resources, Workers
  <2>6. base'[f] = Orig BY <2>1, <2>3, <2>5, TreeInv, KeepsTree, Kinds DEF TreeInv
  <2>7. job["publish"].at = "pubFonts" BY <1>3 DEF PublishFonts, At
  <2>8. \A g \in Fonts \ job'["publish"].todo : base'[g] = Orig
    BY <2>2, <2>4, <2>6, <2>7, KeptInv, Kinds DEF KeptInv, Resources
  <2>9. \A v \in {"open", "save", "genre"} :
         /\ job[v].at \in {"compare", "write", "markFonts"} => \A g \in Fonts : base'[g] # Absent
         /\ job[v].at \in {"write", "markFonts"} => \A g \in Fonts : base'[g] # Torn
    BY <2>2, KeptInv DEF KeptInv, Resources
  <2>10. QED BY <2>4, <2>8, <2>9 DEF KeptInv, Workers
<1>4. ASSUME InstallFont PROVE KeptInv'
  <2>1. Others("publish") /\ job["publish"].at = "install" /\ base' = base
        /\ job'["publish"].at \in {"install", "perGame"}
    BY <1>4, PublishFontJob DEF InstallFont, At
  <2>2. QED BY <2>1, KeptInv, JobInv DEF KeptInv, JobInv, Others, Workers
<1>5. ASSUME NEW w \in {"open", "publish"}, InstallPart(w) PROVE KeptInv'
  <2>1. /\ Others(w) /\ job[w].at \in Parts /\ job'[w].at = Successor(w, job[w].at)
        /\ job'[w].at \in {"pubFonts", "install"} => job'[w].todo = Fonts
    BY <1>5, InstallJob
  <2>2. base' = base BY <1>5 DEF InstallPart
  <2>3. CASE w = "open"
    <3>1. job'["open"].at \notin {"compare", "write", "markFonts"}
      BY <2>1, <2>3, SuccessorOf DEF Parts
    <3>2. QED BY <2>1, <2>2, <2>3, <3>1, JobInv, KeptInv DEF KeptInv, Others, JobInv, Workers
  <2>4. CASE w = "publish"
    <3>1. job[w].at \in {"store", "scripts"} BY <2>1, <2>4, JobInv DEF JobInv, PublishSteps, Parts
    <3>2. job'[w].at = IF job[w].at = "store" THEN "pubFonts" ELSE "install"
      BY <2>1, <2>4, <3>1, SuccessorOf
    <3>3. QED BY <2>1, <2>2, <2>4, <3>1, <3>2, JobInv, KeptInv DEF KeptInv, Others, JobInv, Workers
  <2>5. QED BY <2>3, <2>4
<1>6. ASSUME NEW w \in {"open", "save", "genre"}, KeepFont(w) PROVE KeptInv'
  <2>1. Keeps BY <1>6, KeepSteps
  <2>2. \A r \in Resources : base[r] # Absent => base'[r] = base[r] BY <2>1, KeepsTree
  <2>3. /\ \A v \in Workers : job'[v].todo = job[v].todo /\ (v # w => job'[v].at = job[v].at)
        /\ \/ job'[w].at = "keep"
           \/ job'[w].at = "compare" /\ \A f \in Fonts : base[f] # Absent
    BY <1>6, JobInv DEF KeepFont, Goto, At, JobInv, IdleJob, Workers
  <2>4. QED BY <2>1, <2>2, <2>3, KeptInv, Kinds DEF KeptInv, Keeps, Workers, Resources
<1> USE JobInv, TreeInv, KeptInv DEF At, Goto, End, IdleJob, metadata, artwork, tree, settings,
   window, locks, history, JobInv, TreeInv, KeptInv, Workers, OpenSteps, PublishSteps,
   CoverSteps, SaveSteps, GenreSteps, ArtSteps, FontSteps
<1>7. ASSUME Start PROVE KeptInv' BY <1>7 DEF Start
<1>8. ASSUME Close PROVE KeptInv' BY <1>8 DEF Close
<1>9. ASSUME BeginSave PROVE KeptInv' BY <1>9, ZenonT(60) DEF BeginSave
<1>10. ASSUME BeginOpen PROVE KeptInv' BY <1>10 DEF BeginOpen
<1>11. ASSUME OpenBare PROVE KeptInv' BY <1>11 DEF OpenBare
<1>12. ASSUME NEW t \in Chars, NEW s \in Shapes, Edit(t, s) PROVE KeptInv' BY <1>12 DEF Edit
<1>13. ASSUME NEW w \in {"cover", "publish"}, NEW c \in Covers, BeginModal(w, c) PROVE KeptInv'
  BY <1>13 DEF BeginModal
<1>14. ASSUME CheckSleeve PROVE KeptInv' BY <1>14 DEF CheckSleeve
<1>15. ASSUME WriteSleeve PROVE KeptInv' BY <1>15 DEF WriteSleeve
<1>16. ASSUME PatchUi PROVE KeptInv' BY <1>16 DEF PatchUi, Made
<1>17. ASSUME MarkLibrary PROVE KeptInv' BY <1>17 DEF MarkLibrary, Remembered
<1>18. ASSUME NEW w \in {"open", "publish"}, CheckSettings(w) PROVE KeptInv'
  BY <1>18 DEF CheckSettings
<1>19. ASSUME NEW w \in {"open", "publish"}, WriteData(w) PROVE KeptInv' BY <1>19 DEF WriteData
<1>20. ASSUME NEW w \in {"open", "publish"}, WriteMeta(w) PROVE KeptInv'
  BY <1>20 DEF WriteMeta, AfterSettings
<1>21. ASSUME NEW w \in {"open", "publish"}, MarkPerGame(w) PROVE KeptInv'
  BY <1>21 DEF MarkPerGame, Remembered
<1>22. ASSUME CompareShape PROVE KeptInv' BY <1>22 DEF CompareShape
<1>23. ASSUME WriteJson PROVE KeptInv' BY <1>23 DEF WriteJson
<1>24. ASSUME WritePng PROVE KeptInv' BY <1>24 DEF WritePng
<1>25. ASSUME NEW w \in {"save", "cover"}, TakeCoverLock(w) PROVE KeptInv'
  BY <1>25 DEF TakeCoverLock
<1>26. ASSUME NEW w \in {"save", "cover"}, MarkCoverDirty(w) PROVE KeptInv'
  BY <1>26 DEF MarkCoverDirty
<1>27. ASSUME NEW w \in {"save", "cover"}, ClearFlag(w) PROVE KeptInv' BY <1>27 DEF ClearFlag
<1>28. ASSUME NEW w \in {"save", "cover"}, ReleaseCoverLock(w) PROVE KeptInv'
  BY <1>28 DEF ReleaseCoverLock, Remembered
<1>29. ASSUME NEW w \in {"open", "save", "cover"}, ReadInputs(w) PROVE KeptInv'
  BY <1>29 DEF ReadInputs
<1>30. ASSUME NEW w \in {"open", "save", "cover"}, ReadPrevious(w) PROVE KeptInv'
  BY <1>30 DEF ReadPrevious, AfterArt
<1>31. ASSUME NEW w \in {"open", "save", "cover"}, WriteArt(w) PROVE KeptInv'
  BY <1>31 DEF WriteArt
<1>32. ASSUME NEW w \in {"open", "save", "cover"}, Sweep(w) PROVE KeptInv'
  BY <1>32 DEF Sweep, AfterArt
<1>33. ASSUME WriteGenres PROVE KeptInv' BY <1>33 DEF WriteGenres, Remembered
<1>34. ASSUME NEW w \in {"open", "save", "genre"}, TakeFontLock(w) PROVE KeptInv'
  BY <1>34 DEF TakeFontLock
<1>35. ASSUME NEW w \in {"open", "save", "genre"}, CompareFonts(w) PROVE KeptInv'
  BY <1>35 DEF CompareFonts, AfterFonts, CanGenerate, Torn, Remembered
<1>36. ASSUME NEW w \in {"open", "save", "genre"}, WriteFont(w) PROVE KeptInv'
  BY <1>36 DEF WriteFont, Made
<1>37. ASSUME NEW w \in {"open", "save", "genre"}, MarkFonts(w) PROVE KeptInv'
  BY <1>37 DEF MarkFonts, AfterFonts, Remembered
<1>38. ASSUME Kill PROVE KeptInv' BY <1>38 DEF Kill, Gone
<1>39. ASSUME GeometryFailsLate PROVE KeptInv' BY <1>39 DEF GeometryFailsLate, Remembered
<1>40. ASSUME NEW w \in Workers, Refuse(w) PROVE KeptInv' BY <1>40 DEF Refuse, Remembered
<1>41. ASSUME NEW w \in Workers, WriteFails(w) PROVE KeptInv'
  BY <1>41 DEF WriteFails, Rollback, Remembered
<1>42. ASSUME NEW w \in Workers, KillTearing(w) PROVE KeptInv'
  BY <1>42 DEF KillTearing, Absent, Torn, Gone
<1>43. ASSUME NEW w \in {"cover", "publish"}, AwaitSave(w) PROVE KeptInv' BY <1>43 DEF AwaitSave
<1>44. ASSUME UserCopiesRuntime PROVE KeptInv' BY <1>44 DEF UserCopiesRuntime, Resources, Orig
<1>45. ASSUME Play PROVE KeptInv' BY <1>45 DEF Play
<1> HIDE DEF JobInv, TreeInv, KeptInv
<1>46. QED BY <1>1, <1>2, <1>3, <1>4, <1>5, <1>6, <1>7, <1>8, <1>9, <1>10, <1>11, <1>12, <1>13,
   <1>14, <1>15, <1>16, <1>17, <1>18, <1>19, <1>20, <1>21, <1>22, <1>23, <1>24, <1>25, <1>26,
   <1>27, <1>28, <1>29, <1>30, <1>31, <1>32, <1>33, <1>34, <1>35, <1>36, <1>37, <1>38, <1>39,
   <1>40, <1>41, <1>42, <1>43, <1>44, <1>45 DEF Next, UserNext, OpenNext, EntryNext, FontNext,
   FaultNext, Workers

-----------------------------------------------------------------------------
(* The sleeve and the settings *)

\* A sleeve that is begun is the one the opening is at, and no settings come
\* without the data they describe, unless the editor was killed in between.
FilesInv ==
    /\ sleeve \in {"plain", "none", "legacy", "left", "both", "whole"}
    /\ ~spoiled => /\ sleeve = "left" => job["open"].at = "right"
                   /\ sleeve = "both" => job["open"].at = "geometry"
    /\ \A w \in {"open", "publish"} : job[w].at = "meta" => data # "none"
    /\ data = "none" => meta = "none"
    /\ job["publish"].at = "data" => data \notin {"prefs", "user"}

\* No failed write leaves what a later opening refuses.
LEMMA FilesStep ==
  ASSUME JobInv, FilesInv, Next
  PROVE  FilesInv'
<1>1. ASSUME NEW g \in Chars, BeginGenre(g) PROVE FilesInv'
  <2>1. \A v \in Workers : v # "genre" => job'[v].at = job[v].at
    BY <1>1, JobInv DEF BeginGenre, JobInv, IdleJob, Workers
  <2>2. UNCHANGED <<sleeve, spoiled, data, meta>>
    BY <1>1 DEF BeginGenre, metadata, settings, history
  <2>3. QED BY <2>1, <2>2, FilesInv DEF FilesInv, Workers
<1>2. ASSUME PublishFonts PROVE FilesInv'
  <2>1. Others("publish") /\ job'["publish"].at \notin {"meta", "data"}
    BY <1>2, PublishFontJob DEF PublishFonts, InstallFont, At
  <2>2. UNCHANGED <<sleeve, spoiled, data, meta>>
    BY <1>2 DEF PublishFonts, InstallFont, metadata, settings, history
  <2>3. QED BY <2>1, <2>2, FilesInv, JobInv DEF FilesInv, JobInv, Others, Workers
<1>3. ASSUME InstallFont PROVE FilesInv'
  <2>1. Others("publish") /\ job'["publish"].at \notin {"meta", "data"}
    BY <1>3, PublishFontJob DEF PublishFonts, InstallFont, At
  <2>2. UNCHANGED <<sleeve, spoiled, data, meta>>
    BY <1>3 DEF PublishFonts, InstallFont, metadata, settings, history
  <2>3. QED BY <2>1, <2>2, FilesInv, JobInv DEF FilesInv, JobInv, Others, Workers
<1>4. ASSUME NEW w \in {"open", "publish"}, InstallPart(w) PROVE FilesInv'
  <2>1. Others(w) /\ job[w].at \in Parts /\ job'[w].at = Successor(w, job[w].at)
    BY <1>4, InstallJob
  <2>2. UNCHANGED <<sleeve, spoiled, data, meta>>
    BY <1>4 DEF InstallPart, metadata, settings, history
  <2>3. job[w].at \notin {"right", "geometry", "meta"} BY <2>1 DEF Parts
  <2>4. job'[w].at # "meta" /\ (w = "publish" => job'[w].at # "data")
    BY <2>1, SuccessorOf, JobInv DEF JobInv, PublishSteps, Parts
  <2>5. QED BY <2>1, <2>2, <2>3, <2>4, FilesInv, JobInv DEF FilesInv, Others, JobInv, Workers
<1>5. ASSUME NEW w \in {"open", "publish"}, CheckSettings(w) PROVE FilesInv'
  <2>1. UNCHANGED <<sleeve, spoiled, data, meta>>
    BY <1>5 DEF CheckSettings, metadata, settings, history
  <2>2. CASE w = "open"
    <3>1. /\ Others(w) /\ job["open"].at = "settings"
               /\ job'["open"].at \in {"store", "meta", "data"}
          /\ job'["open"].at = "meta" => data # "none"
      BY <1>5, <2>2, JobInv DEF CheckSettings, At, Goto, JobInv, Others, Workers, IdleJob
    <3>2. QED BY <2>1, <2>2, <3>1, JobInv, FilesInv DEF FilesInv, JobInv, Others, Workers
  <2>3. CASE w = "publish"
    <3>1. PICK keep \in HasUserState : Goto(w, IF keep THEN "scripts" ELSE "data")
      BY <1>5, <2>3 DEF CheckSettings
    <3>2. /\ Others(w) /\ job["publish"].at = "settings"
          /\ job'["publish"].at = IF keep THEN "scripts" ELSE "data"
      BY <1>5, <2>3, <3>1, JobInv DEF CheckSettings, At, Goto, JobInv, Others, Workers, IdleJob
    <3>3. data \in {"prefs", "user"} => keep BY <3>1 DEF HasUserState
    <3>4. QED BY <2>1, <2>3, <3>2, <3>3, JobInv, FilesInv DEF FilesInv, JobInv, Others, Workers
  <2>4. QED BY <2>2, <2>3
<1>6. ASSUME NEW w \in Workers, Refuse(w) PROVE FilesInv'
  <2>1. Refused(w) /\ End(w, "failed") BY <1>6 DEF Refuse
  <2>2. UNCHANGED <<sleeve, spoiled, data, meta>> BY <1>6 DEF Refuse, metadata, settings, history
  <2>3. job' = [job EXCEPT ![w] = IdleJob] BY <2>1 DEF End
  <2>4. job'[w].at = "idle" /\ \A v \in Workers : v # w => job'[v] = job[v]
    BY <2>3, JobInv DEF JobInv, IdleJob
  <2>5. job[w].at \notin {"right", "geometry"} BY <2>1 DEF Refused, At
  <2>6. QED BY <2>2, <2>4, <2>5, FilesInv DEF FilesInv, Workers
<1> USE JobInv, FilesInv DEF At, Goto, End, IdleJob, metadata, artwork, tree, settings, window,
   locks, history, JobInv, FilesInv, Workers
<1>7. ASSUME Start PROVE FilesInv' BY <1>7 DEF Start
<1>8. ASSUME Close PROVE FilesInv' BY <1>8 DEF Close
<1>9. ASSUME BeginSave PROVE FilesInv' BY <1>9 DEF BeginSave
<1>10. ASSUME BeginOpen PROVE FilesInv' BY <1>10 DEF BeginOpen, UserActs, Modal
<1>11. ASSUME OpenBare PROVE FilesInv' BY <1>11 DEF OpenBare
<1>12. ASSUME NEW t \in Chars, NEW s \in Shapes, Edit(t, s) PROVE FilesInv' BY <1>12 DEF Edit
<1>13. ASSUME NEW w \in {"cover", "publish"}, NEW c \in Covers, BeginModal(w, c) PROVE FilesInv'
  BY <1>13 DEF BeginModal
<1>14. ASSUME CheckSleeve PROVE FilesInv' BY <1>14 DEF CheckSleeve
<1>15. ASSUME WriteSleeve PROVE FilesInv' BY <1>15 DEF WriteSleeve
<1>16. ASSUME KeepUi PROVE FilesInv' BY <1>16 DEF KeepUi, Absent
<1>17. ASSUME PatchUi PROVE FilesInv' BY <1>17 DEF PatchUi, Made
<1>18. ASSUME MarkLibrary PROVE FilesInv' BY <1>18 DEF MarkLibrary, Remembered, Modal
<1>19. ASSUME NEW w \in {"open", "publish"}, WriteData(w) PROVE FilesInv'
  BY <1>19 DEF WriteData, FreshData, Modal
<1>20. ASSUME NEW w \in {"open", "publish"}, WriteMeta(w) PROVE FilesInv'
  BY <1>20 DEF WriteMeta, AfterSettings
<1>21. ASSUME NEW w \in {"open", "publish"}, MarkPerGame(w) PROVE FilesInv'
  BY <1>21 DEF MarkPerGame, Remembered
<1>22. ASSUME CompareShape PROVE FilesInv' BY <1>22 DEF CompareShape
<1>23. ASSUME WriteJson PROVE FilesInv' BY <1>23 DEF WriteJson
<1>24. ASSUME WritePng PROVE FilesInv' BY <1>24 DEF WritePng
<1>25. ASSUME NEW w \in {"save", "cover"}, TakeCoverLock(w) PROVE FilesInv'
  BY <1>25 DEF TakeCoverLock
<1>26. ASSUME NEW w \in {"save", "cover"}, MarkCoverDirty(w) PROVE FilesInv'
  BY <1>26 DEF MarkCoverDirty
<1>27. ASSUME NEW w \in {"save", "cover"}, ClearFlag(w) PROVE FilesInv' BY <1>27 DEF ClearFlag
<1>28. ASSUME NEW w \in {"save", "cover"}, ReleaseCoverLock(w) PROVE FilesInv'
  BY <1>28 DEF ReleaseCoverLock, Remembered
<1>29. ASSUME NEW w \in {"open", "save", "cover"}, ReadInputs(w) PROVE FilesInv'
  BY <1>29 DEF ReadInputs
<1>30. ASSUME NEW w \in {"open", "save", "cover"}, ReadPrevious(w) PROVE FilesInv'
  BY <1>30 DEF ReadPrevious, AfterArt
<1>31. ASSUME NEW w \in {"open", "save", "cover"}, WriteArt(w) PROVE FilesInv'
  BY <1>31 DEF WriteArt
<1>32. ASSUME NEW w \in {"open", "save", "cover"}, Sweep(w) PROVE FilesInv'
  BY <1>32 DEF Sweep, AfterArt
<1>33. ASSUME WriteGenres PROVE FilesInv' BY <1>33 DEF WriteGenres, Remembered
<1>34. ASSUME NEW w \in {"open", "save", "genre"}, TakeFontLock(w) PROVE FilesInv'
  BY <1>34 DEF TakeFontLock
<1>35. ASSUME NEW w \in {"open", "save", "genre"}, KeepFont(w) PROVE FilesInv'
  BY <1>35 DEF KeepFont, Absent
<1>36. ASSUME NEW w \in {"open", "save", "genre"}, CompareFonts(w) PROVE FilesInv'
  BY <1>36 DEF CompareFonts, AfterFonts, Remembered
<1>37. ASSUME NEW w \in {"open", "save", "genre"}, WriteFont(w) PROVE FilesInv'
  BY <1>37 DEF WriteFont, Made
<1>38. ASSUME NEW w \in {"open", "save", "genre"}, MarkFonts(w) PROVE FilesInv'
  BY <1>38 DEF MarkFonts, AfterFonts, Remembered
<1>39. ASSUME Kill PROVE FilesInv' BY <1>39 DEF Kill, Gone
<1>40. ASSUME GeometryFailsLate PROVE FilesInv' BY <1>40 DEF GeometryFailsLate, Remembered
<1>41. ASSUME NEW w \in Workers, WriteFails(w) PROVE FilesInv'
  BY <1>41 DEF WriteFails, Rollback, Remembered
<1>42. ASSUME NEW w \in Workers, KillTearing(w) PROVE FilesInv'
  BY <1>42 DEF KillTearing, Absent, Torn, Gone
<1>43. ASSUME NEW w \in {"cover", "publish"}, AwaitSave(w) PROVE FilesInv' BY <1>43 DEF AwaitSave
<1>44. ASSUME UserCopiesRuntime PROVE FilesInv' BY <1>44 DEF UserCopiesRuntime, Resources, Orig
<1>45. ASSUME Play PROVE FilesInv' BY <1>45 DEF Play, AllIdle
<1> HIDE DEF JobInv, FilesInv
<1>46. QED BY <1>1, <1>2, <1>3, <1>4, <1>5, <1>6, <1>7, <1>8, <1>9, <1>10, <1>11, <1>12, <1>13,
   <1>14, <1>15, <1>16, <1>17, <1>18, <1>19, <1>20, <1>21, <1>22, <1>23, <1>24, <1>25, <1>26,
   <1>27, <1>28, <1>29, <1>30, <1>31, <1>32, <1>33, <1>34, <1>35, <1>36, <1>37, <1>38, <1>39,
   <1>40, <1>41, <1>42, <1>43, <1>44, <1>45 DEF Next, UserNext, OpenNext, EntryNext, FontNext,
   FaultNext, Workers

-----------------------------------------------------------------------------
(* Originals are kept, whatever fails and whoever saves meanwhile *)

\* The invariant of every library.
LibraryInv == JobInv /\ TreeInv /\ KeptInv /\ FilesInv

\* No job runs at first.
LEMMA InitLibrary == Init => LibraryInv
<1> SUFFICES ASSUME Init PROVE LibraryInv
  OBVIOUS
<1>1. \A w \in Workers : job[w] = IdleJob BY DEF Init
<1>2. JobInv
  BY <1>1 DEF Init, JobInv, IdleJob, Workers, Modal, OpenSteps, PublishSteps, CoverSteps,
     SaveSteps, GenreSteps
<1>3. TreeInv BY Kinds DEF Init, TreeInv
<1>4. KeptInv BY <1>1 DEF KeptInv, IdleJob, Workers
<1>5. FilesInv BY <1>1 DEF Init, FilesInv, IdleJob, Workers
<1>6. QED BY <1>2, <1>3, <1>4, <1>5 DEF LibraryInv

\* The invariant speaks of the declared variables only.
LEMMA StutterLibrary == LibraryInv /\ UNCHANGED vars => LibraryInv'
<1> SUFFICES ASSUME LibraryInv, UNCHANGED vars PROVE LibraryInv'
  OBVIOUS
<1>1. UNCHANGED <<job, up, base, live, spoiled, sleeve, data, meta>>
  BY DEF vars, window, tree, history, metadata, settings
<1>2. QED BY <1>1 DEF LibraryInv, JobInv, TreeInv, KeptInv, FilesInv

\* Every reachable state satisfies the invariant.
THEOREM Inductive == Spec => []LibraryInv
<1>1. ASSUME LibraryInv, [Next]_vars PROVE LibraryInv'
  <2>1. CASE Next BY <1>1, <2>1, JobStep, TreeStep, KeptStep, FilesStep DEF LibraryInv
  <2>2. QED BY <1>1, <2>1, StutterLibrary
<1>2. QED BY <1>1, InitLibrary, PTL DEF Spec

\* A resource is replaced only once its original is among the templates.
THEOREM OriginalsAreKept == Spec => []OriginalsKept
<1>1. LibraryInv => OriginalsKept BY DEF LibraryInv, TreeInv, OriginalsKept
<1>2. QED BY <1>1, Inductive, PTL

\* Failed writes never leave what a later opening refuses; only a kill can.
THEOREM NothingRefused == Spec => []RefusedOnlyAfterKill
<1>1. LibraryInv => RefusedOnlyAfterKill
  BY DEF LibraryInv, TreeInv, FilesInv, RefusedOnlyAfterKill, AllIdle, Workers
<1>2. QED BY <1>1, Inductive, PTL

-----------------------------------------------------------------------------
(* With a patient user: who may run, and who holds what *)

\* An opening runs alone.
AloneInv ==
    job["open"].at # "idle" => ~asked /\ job["save"].at = "idle" /\ job["genre"].at = "idle"

\* Only an enabled library has its artwork and its fonts prepared by the saves,
\* and none is published.
EnabledInv ==
    /\ job["publish"].at # "idle" => ~Enabled
    /\ \A w \in {"cover", "save"} : job[w].at \in ArtSteps \cup {"clearFlag"} => Enabled
    /\ \A w \in {"save", "genre"} : job[w].at \in FontSteps => Enabled

\* The locks are held where the code holds them.
ArtLock == {"compareShape", "flag", "json", "png", "clearFlag", "unlock"} \cup ArtSteps
FontLock == FontSteps \ {"fonts"}
LockInv ==
    /\ \A w \in {"cover", "save"} : job[w].at \in ArtLock <=> coverLock = w
    /\ \A w \in {"open", "save", "genre"} : job[w].at \in FontLock <=> fontLock = w
    /\ coverLock \in {"cover", "save", None}
    /\ fontLock \in {"open", "save", "genre", None}

\* An opening begins when every save has ended, and is modal.
LEMMA AloneStep ==
  ASSUME Patient, JobInv, AloneInv, Next
  PROVE  AloneInv'
<1>1. ASSUME PublishFonts PROVE AloneInv'
  <2>1. Others("publish") /\ job["publish"].at \in {"pubFonts", "install"}
        /\ job'["publish"].at \in {"pubFonts", "settings", "install", "perGame"}
    BY <1>1, PublishFontJob DEF PublishFonts, InstallFont, At
  <2>2. UNCHANGED <<asked>>
    BY <1>1 DEF PublishFonts, InstallFont, metadata, artwork, settings, window, locks, history
  <2>3. QED BY <2>1, <2>2, JobInv, AloneInv DEF AloneInv, JobInv, Others, Workers
<1>2. ASSUME InstallFont PROVE AloneInv'
  <2>1. Others("publish") /\ job["publish"].at \in {"pubFonts", "install"}
        /\ job'["publish"].at \in {"pubFonts", "settings", "install", "perGame"}
    BY <1>2, PublishFontJob DEF PublishFonts, InstallFont, At
  <2>2. UNCHANGED <<asked>>
    BY <1>2 DEF PublishFonts, InstallFont, metadata, artwork, settings, window, locks, history
  <2>3. QED BY <2>1, <2>2, JobInv, AloneInv DEF AloneInv, JobInv, Others, Workers
<1>3. ASSUME NEW w \in {"open", "publish"}, InstallPart(w) PROVE AloneInv'
  <2>1. Others(w) /\ job[w].at \in Parts /\ job'[w].at = Successor(w, job[w].at)
    BY <1>3, InstallJob
  <2>2. UNCHANGED <<asked>>
    BY <1>3 DEF InstallPart, metadata, artwork, settings, window, locks, history
  <2>3. w = "open" => job["open"].at # "idle"
    BY <2>1, SuccessorOf, JobInv DEF JobInv, PublishSteps, Parts
  <2>4. QED BY <2>1, <2>2, <2>3, JobInv, AloneInv DEF AloneInv, Others, JobInv, Workers, Parts
<1> USE Patient, JobInv, AloneInv DEF At, Goto, End, IdleJob, metadata, artwork, tree,
   settings, window, locks, history, JobInv, AloneInv, Modal, OpenSteps, PublishSteps,
   CoverSteps, SaveSteps, GenreSteps, ArtSteps, FontSteps, Workers
<1>4. ASSUME Start PROVE AloneInv' BY <1>4 DEF Start, AllIdle
<1>5. ASSUME Close PROVE AloneInv' BY <1>5 DEF Close, AllIdle
<1>6. ASSUME BeginSave PROVE AloneInv' BY <1>6 DEF BeginSave
<1>7. ASSUME BeginOpen PROVE AloneInv' BY <1>7 DEF BeginOpen, UserActs, Saved
<1>8. ASSUME OpenBare PROVE AloneInv' BY <1>8 DEF OpenBare, UserActs, Saved, Show
<1>9. ASSUME NEW t \in Chars, NEW s \in Shapes, Edit(t, s) PROVE AloneInv'
  BY <1>9 DEF Edit, UserActs
<1>10. ASSUME NEW g \in Chars, BeginGenre(g) PROVE AloneInv' BY <1>10 DEF BeginGenre, UserActs
<1>11. ASSUME NEW w \in {"cover", "publish"}, NEW c \in Covers, BeginModal(w, c) PROVE AloneInv'
  BY <1>11 DEF BeginModal, UserActs
<1>12. ASSUME CheckSleeve PROVE AloneInv' BY <1>12 DEF CheckSleeve
<1>13. ASSUME WriteSleeve PROVE AloneInv' BY <1>13 DEF WriteSleeve
<1>14. ASSUME KeepUi PROVE AloneInv' BY <1>14 DEF KeepUi
<1>15. ASSUME PatchUi PROVE AloneInv' BY <1>15 DEF PatchUi
<1>16. ASSUME MarkLibrary PROVE AloneInv' BY <1>16 DEF MarkLibrary, Show, Remembered
<1>17. ASSUME NEW w \in {"open", "publish"}, CheckSettings(w) PROVE AloneInv'
  BY <1>17 DEF CheckSettings
<1>18. ASSUME NEW w \in {"open", "publish"}, WriteData(w) PROVE AloneInv' BY <1>18 DEF WriteData
<1>19. ASSUME NEW w \in {"open", "publish"}, WriteMeta(w) PROVE AloneInv'
  BY <1>19 DEF WriteMeta, AfterSettings
<1>20. ASSUME NEW w \in {"open", "publish"}, MarkPerGame(w) PROVE AloneInv'
  BY <1>20 DEF MarkPerGame, Remembered
<1>21. ASSUME CompareShape PROVE AloneInv' BY <1>21 DEF CompareShape
<1>22. ASSUME WriteJson PROVE AloneInv' BY <1>22 DEF WriteJson
<1>23. ASSUME WritePng PROVE AloneInv' BY <1>23 DEF WritePng
<1>24. ASSUME NEW w \in {"save", "cover"}, TakeCoverLock(w) PROVE AloneInv'
  BY <1>24 DEF TakeCoverLock
<1>25. ASSUME NEW w \in {"save", "cover"}, MarkCoverDirty(w) PROVE AloneInv'
  BY <1>25 DEF MarkCoverDirty
<1>26. ASSUME NEW w \in {"save", "cover"}, ClearFlag(w) PROVE AloneInv' BY <1>26 DEF ClearFlag
<1>27. ASSUME NEW w \in {"save", "cover"}, ReleaseCoverLock(w) PROVE AloneInv'
  BY <1>27 DEF ReleaseCoverLock, Remembered
<1>28. ASSUME NEW w \in {"open", "save", "cover"}, ReadInputs(w) PROVE AloneInv'
  BY <1>28 DEF ReadInputs
<1>29. ASSUME NEW w \in {"open", "save", "cover"}, ReadPrevious(w) PROVE AloneInv'
  BY <1>29 DEF ReadPrevious, AfterArt
<1>30. ASSUME NEW w \in {"open", "save", "cover"}, WriteArt(w) PROVE AloneInv'
  BY <1>30 DEF WriteArt
<1>31. ASSUME NEW w \in {"open", "save", "cover"}, Sweep(w) PROVE AloneInv'
  BY <1>31 DEF Sweep, AfterArt
<1>32. ASSUME WriteGenres PROVE AloneInv' BY <1>32 DEF WriteGenres, Remembered
<1>33. ASSUME NEW w \in {"open", "save", "genre"}, TakeFontLock(w) PROVE AloneInv'
  BY <1>33 DEF TakeFontLock
<1>34. ASSUME NEW w \in {"open", "save", "genre"}, KeepFont(w) PROVE AloneInv'
  BY <1>34 DEF KeepFont
<1>35. ASSUME NEW w \in {"open", "save", "genre"}, CompareFonts(w) PROVE AloneInv'
  BY <1>35 DEF CompareFonts, AfterFonts, Remembered
<1>36. ASSUME NEW w \in {"open", "save", "genre"}, WriteFont(w) PROVE AloneInv'
  BY <1>36 DEF WriteFont
<1>37. ASSUME NEW w \in {"open", "save", "genre"}, MarkFonts(w) PROVE AloneInv'
  BY <1>37 DEF MarkFonts, AfterFonts, Remembered
<1>38. ASSUME Kill PROVE AloneInv' BY <1>38 DEF Kill, Gone
<1>39. ASSUME GeometryFailsLate PROVE AloneInv' BY <1>39 DEF GeometryFailsLate, Remembered
<1>40. ASSUME NEW w \in Workers, Refuse(w) PROVE AloneInv' BY <1>40 DEF Refuse, Remembered
<1>41. ASSUME NEW w \in Workers, WriteFails(w) PROVE AloneInv'
  BY <1>41 DEF WriteFails, WritePcs, Remembered, Parts
<1>42. ASSUME NEW w \in Workers, KillTearing(w) PROVE AloneInv' BY <1>42 DEF KillTearing, Gone
<1>43. ASSUME NEW w \in {"cover", "publish"}, AwaitSave(w) PROVE AloneInv'
  BY <1>43 DEF AwaitSave, Saved
<1>44. ASSUME UserCopiesRuntime PROVE AloneInv' BY <1>44 DEF UserCopiesRuntime, AllIdle
<1>45. ASSUME Play PROVE AloneInv' BY <1>45 DEF Play, AllIdle
<1> HIDE DEF JobInv, AloneInv
<1>46. QED BY <1>1, <1>2, <1>3, <1>4, <1>5, <1>6, <1>7, <1>8, <1>9, <1>10, <1>11, <1>12, <1>13,
   <1>14, <1>15, <1>16, <1>17, <1>18, <1>19, <1>20, <1>21, <1>22, <1>23, <1>24, <1>25, <1>26,
   <1>27, <1>28, <1>29, <1>30, <1>31, <1>32, <1>33, <1>34, <1>35, <1>36, <1>37, <1>38, <1>39,
   <1>40, <1>41, <1>42, <1>43, <1>44, <1>45 DEF Next, UserNext, OpenNext, EntryNext, FontNext,
   FaultNext, Workers

\* Only an opening enables a library, and it runs alone.
LEMMA EnabledStep ==
  ASSUME Patient, JobInv, AloneInv, EnabledInv, Next
  PROVE  EnabledInv'
<1>1. ASSUME PublishFonts PROVE EnabledInv'
  <2>1. Others("publish") /\ job["publish"].at \in {"pubFonts", "install"}
        /\ job'["publish"].at \in {"pubFonts", "settings", "install", "perGame"}
    BY <1>1, PublishFontJob DEF PublishFonts, InstallFont, At
  <2>2. UNCHANGED <<markers>>
    BY <1>1 DEF PublishFonts, InstallFont, metadata, artwork, settings, window, locks, history
  <2>3. QED BY <2>1, <2>2, JobInv, EnabledInv
            DEF EnabledInv, Enabled, ArtSteps, FontSteps, JobInv, Others, Workers
<1>2. ASSUME InstallFont PROVE EnabledInv'
  <2>1. Others("publish") /\ job["publish"].at \in {"pubFonts", "install"}
        /\ job'["publish"].at \in {"pubFonts", "settings", "install", "perGame"}
    BY <1>2, PublishFontJob DEF PublishFonts, InstallFont, At
  <2>2. UNCHANGED <<markers>>
    BY <1>2 DEF PublishFonts, InstallFont, metadata, artwork, settings, window, locks, history
  <2>3. QED BY <2>1, <2>2, JobInv, EnabledInv
            DEF EnabledInv, Enabled, ArtSteps, FontSteps, JobInv, Others, Workers
<1>3. ASSUME NEW w \in {"open", "publish"}, InstallPart(w) PROVE EnabledInv'
  <2>1. Others(w) /\ job[w].at \in Parts /\ job'[w].at = Successor(w, job[w].at)
    BY <1>3, InstallJob
  <2>2. UNCHANGED <<markers>>
    BY <1>3 DEF InstallPart, metadata, artwork, settings, window, locks, history
  <2>3. job'[w].at \notin FontSteps
    BY <2>1, SuccessorOf, JobInv DEF JobInv, PublishSteps, Parts, FontSteps
  <2>4. QED BY <2>1, <2>2, <2>3, JobInv, EnabledInv
            DEF EnabledInv, Enabled, ArtSteps, FontSteps, Others, JobInv, Workers, Parts
<1> USE JobInv, AloneInv, EnabledInv DEF At, Goto, End, IdleJob, metadata, artwork, tree,
   settings, window, locks, history, JobInv, AloneInv, EnabledInv, Enabled, Modal, OpenSteps,
   PublishSteps, CoverSteps, SaveSteps, GenreSteps, ArtSteps, FontSteps, Workers
<1>4. ASSUME Start PROVE EnabledInv' BY <1>4 DEF Start, AllIdle
<1>5. ASSUME Close PROVE EnabledInv' BY <1>5 DEF Close, AllIdle
<1>6. ASSUME BeginSave PROVE EnabledInv' BY <1>6 DEF BeginSave
<1>7. ASSUME BeginOpen PROVE EnabledInv' BY <1>7 DEF BeginOpen, UserActs, Saved, CanPrepare
<1>8. ASSUME OpenBare PROVE EnabledInv' BY <1>8 DEF OpenBare, UserActs, Saved, CanPrepare, Show
<1>9. ASSUME NEW t \in Chars, NEW s \in Shapes, Edit(t, s) PROVE EnabledInv'
  BY <1>9 DEF Edit, UserActs
<1>10. ASSUME NEW g \in Chars, BeginGenre(g) PROVE EnabledInv' BY <1>10 DEF BeginGenre, UserActs
<1>11. ASSUME NEW w \in {"cover", "publish"}, NEW c \in Covers, BeginModal(w, c) PROVE EnabledInv'
  BY <1>11 DEF BeginModal, UserActs
<1>12. ASSUME CheckSleeve PROVE EnabledInv' BY <1>12 DEF CheckSleeve
<1>13. ASSUME WriteSleeve PROVE EnabledInv' BY <1>13 DEF WriteSleeve
<1>14. ASSUME KeepUi PROVE EnabledInv' BY <1>14 DEF KeepUi
<1>15. ASSUME PatchUi PROVE EnabledInv' BY <1>15 DEF PatchUi
<1>16. ASSUME MarkLibrary PROVE EnabledInv' BY <1>16 DEF MarkLibrary, Show, Remembered
<1>17. ASSUME NEW w \in {"open", "publish"}, CheckSettings(w) PROVE EnabledInv'
  BY <1>17 DEF CheckSettings
<1>18. ASSUME NEW w \in {"open", "publish"}, WriteData(w) PROVE EnabledInv' BY <1>18 DEF WriteData
<1>19. ASSUME NEW w \in {"open", "publish"}, WriteMeta(w) PROVE EnabledInv'
  BY <1>19 DEF WriteMeta, AfterSettings
<1>20. ASSUME NEW w \in {"open", "publish"}, MarkPerGame(w) PROVE EnabledInv'
  BY <1>20 DEF MarkPerGame, Remembered
<1>21. ASSUME CompareShape PROVE EnabledInv' BY <1>21 DEF CompareShape
<1>22. ASSUME WriteJson PROVE EnabledInv' BY <1>22 DEF WriteJson
<1>23. ASSUME WritePng PROVE EnabledInv' BY <1>23 DEF WritePng
<1>24. ASSUME NEW w \in {"save", "cover"}, TakeCoverLock(w) PROVE EnabledInv'
  BY <1>24 DEF TakeCoverLock
<1>25. ASSUME NEW w \in {"save", "cover"}, MarkCoverDirty(w) PROVE EnabledInv'
  BY <1>25 DEF MarkCoverDirty
<1>26. ASSUME NEW w \in {"save", "cover"}, ClearFlag(w) PROVE EnabledInv' BY <1>26 DEF ClearFlag
<1>27. ASSUME NEW w \in {"save", "cover"}, ReleaseCoverLock(w) PROVE EnabledInv'
  BY <1>27 DEF ReleaseCoverLock, Remembered
<1>28. ASSUME NEW w \in {"open", "save", "cover"}, ReadInputs(w) PROVE EnabledInv'
  BY <1>28 DEF ReadInputs
<1>29. ASSUME NEW w \in {"open", "save", "cover"}, ReadPrevious(w) PROVE EnabledInv'
  BY <1>29 DEF ReadPrevious, AfterArt
<1>30. ASSUME NEW w \in {"open", "save", "cover"}, WriteArt(w) PROVE EnabledInv'
  BY <1>30 DEF WriteArt
<1>31. ASSUME NEW w \in {"open", "save", "cover"}, Sweep(w) PROVE EnabledInv'
  BY <1>31 DEF Sweep, AfterArt
<1>32. ASSUME WriteGenres PROVE EnabledInv' BY <1>32 DEF WriteGenres, Remembered
<1>33. ASSUME NEW w \in {"open", "save", "genre"}, TakeFontLock(w) PROVE EnabledInv'
  BY <1>33 DEF TakeFontLock
<1>34. ASSUME NEW w \in {"open", "save", "genre"}, KeepFont(w) PROVE EnabledInv'
  BY <1>34 DEF KeepFont
<1>35. ASSUME NEW w \in {"open", "save", "genre"}, CompareFonts(w) PROVE EnabledInv'
  BY <1>35 DEF CompareFonts, AfterFonts, Remembered
<1>36. ASSUME NEW w \in {"open", "save", "genre"}, WriteFont(w) PROVE EnabledInv'
  BY <1>36 DEF WriteFont
<1>37. ASSUME NEW w \in {"open", "save", "genre"}, MarkFonts(w) PROVE EnabledInv'
  BY <1>37 DEF MarkFonts, AfterFonts, Remembered
<1>38. ASSUME Kill PROVE EnabledInv' BY <1>38 DEF Kill, Gone
<1>39. ASSUME GeometryFailsLate PROVE EnabledInv' BY <1>39 DEF GeometryFailsLate, Remembered
<1>40. ASSUME NEW w \in Workers, Refuse(w) PROVE EnabledInv' BY <1>40 DEF Refuse, Remembered
<1>41. ASSUME NEW w \in Workers, WriteFails(w) PROVE EnabledInv'
  BY <1>41 DEF WriteFails, WritePcs, Remembered, Parts
<1>42. ASSUME NEW w \in Workers, KillTearing(w) PROVE EnabledInv' BY <1>42 DEF KillTearing, Gone
<1>43. ASSUME NEW w \in {"cover", "publish"}, AwaitSave(w) PROVE EnabledInv'
  BY <1>43 DEF AwaitSave, Saved
<1>44. ASSUME UserCopiesRuntime PROVE EnabledInv' BY <1>44 DEF UserCopiesRuntime, AllIdle
<1>45. ASSUME Play PROVE EnabledInv' BY <1>45 DEF Play, AllIdle
<1> HIDE DEF JobInv, AloneInv, EnabledInv
<1>46. QED BY <1>1, <1>2, <1>3, <1>4, <1>5, <1>6, <1>7, <1>8, <1>9, <1>10, <1>11, <1>12, <1>13,
   <1>14, <1>15, <1>16, <1>17, <1>18, <1>19, <1>20, <1>21, <1>22, <1>23, <1>24, <1>25, <1>26,
   <1>27, <1>28, <1>29, <1>30, <1>31, <1>32, <1>33, <1>34, <1>35, <1>36, <1>37, <1>38, <1>39,
   <1>40, <1>41, <1>42, <1>43, <1>44, <1>45 DEF Next, UserNext, OpenNext, EntryNext, FontNext,
   FaultNext, Workers

\* Each lock has one holder, which releases it when it ends, fails or is killed.
LEMMA LockStep ==
  ASSUME JobInv, EnabledInv, LockInv, Next
  PROVE  LockInv'
<1>1. ASSUME BeginSave PROVE LockInv'
  <2>1. Others("save") /\ job["save"].at = "idle" /\ job'["save"].at = "lock"
    BY <1>1, JobInv DEF BeginSave, JobInv, Others, IdleJob, Workers
  <2>2. UNCHANGED <<coverLock, fontLock>> BY <1>1 DEF BeginSave, locks
  <2>3. QED BY <2>1, <2>2, JobInv, LockInv, NoneAssumption
       DEF LockInv, JobInv, Others, Workers, ArtLock, FontLock, ArtSteps, FontSteps
<1>2. ASSUME PublishFonts PROVE LockInv'
  <2>1. Others("publish") /\ job["publish"].at \in {"pubFonts", "install"}
        /\ job'["publish"].at \in {"pubFonts", "settings", "install", "perGame"}
    BY <1>2, PublishFontJob DEF PublishFonts, InstallFont, At
  <2>2. UNCHANGED <<coverLock, fontLock>>
    BY <1>2 DEF PublishFonts, InstallFont, metadata, artwork, settings, window, locks, history
  <2>3. QED BY <2>1, <2>2, JobInv, LockInv DEF LockInv, JobInv, Others, Workers
<1>3. ASSUME InstallFont PROVE LockInv'
  <2>1. Others("publish") /\ job["publish"].at \in {"pubFonts", "install"}
        /\ job'["publish"].at \in {"pubFonts", "settings", "install", "perGame"}
    BY <1>3, PublishFontJob DEF PublishFonts, InstallFont, At
  <2>2. UNCHANGED <<coverLock, fontLock>>
    BY <1>3 DEF PublishFonts, InstallFont, metadata, artwork, settings, window, locks, history
  <2>3. QED BY <2>1, <2>2, JobInv, LockInv DEF LockInv, JobInv, Others, Workers
<1>4. ASSUME NEW w \in {"open", "publish"}, InstallPart(w) PROVE LockInv'
  <2>1. Others(w) /\ job[w].at \in Parts /\ job'[w].at = Successor(w, job[w].at)
    BY <1>4, InstallJob
  <2>2. UNCHANGED <<coverLock, fontLock>>
    BY <1>4 DEF InstallPart, metadata, artwork, settings, window, locks, history
  <2>3. w = "open" => job'[w].at \notin FontLock /\ job[w].at \notin FontLock
    BY <2>1, SuccessorOf, JobInv DEF JobInv, PublishSteps, Parts, FontLock, FontSteps
  <2>4. QED BY <2>1, <2>2, <2>3, JobInv, LockInv DEF LockInv, Others, JobInv, Workers, Parts
<1> USE JobInv, EnabledInv, LockInv, NoneAssumption DEF At, Goto, End, Unlock, Release,
   IdleJob, metadata, artwork, tree, settings, window, locks, history, JobInv, EnabledInv,
   Enabled, LockInv, ArtLock, FontLock, OpenSteps, PublishSteps, CoverSteps, SaveSteps,
   GenreSteps, ArtSteps, FontSteps, Workers
<1>5. ASSUME Start PROVE LockInv' BY <1>5 DEF Start, AllIdle
<1>6. ASSUME Close PROVE LockInv' BY <1>6 DEF Close, AllIdle
<1>7. ASSUME BeginOpen PROVE LockInv' BY <1>7 DEF BeginOpen, UserActs, Saved, Modal
<1>8. ASSUME OpenBare PROVE LockInv' BY <1>8 DEF OpenBare, UserActs, Saved, Show, Modal
<1>9. ASSUME NEW t \in Chars, NEW s \in Shapes, Edit(t, s) PROVE LockInv'
  BY <1>9 DEF Edit, UserActs, Modal
<1>10. ASSUME NEW g \in Chars, BeginGenre(g) PROVE LockInv'
  BY <1>10, ZenonT(60) DEF BeginGenre, UserActs, Modal
<1>11. ASSUME NEW w \in {"cover", "publish"}, NEW c \in Covers, BeginModal(w, c) PROVE LockInv'
  BY <1>11 DEF BeginModal, UserActs, Modal
<1>12. ASSUME CheckSleeve PROVE LockInv' BY <1>12 DEF CheckSleeve
<1>13. ASSUME WriteSleeve PROVE LockInv' BY <1>13 DEF WriteSleeve
<1>14. ASSUME KeepUi PROVE LockInv' BY <1>14 DEF KeepUi
<1>15. ASSUME PatchUi PROVE LockInv' BY <1>15 DEF PatchUi
<1>16. ASSUME MarkLibrary PROVE LockInv' BY <1>16 DEF MarkLibrary, Show, Remembered
<1>17. ASSUME NEW w \in {"open", "publish"}, CheckSettings(w) PROVE LockInv'
  BY <1>17 DEF CheckSettings
<1>18. ASSUME NEW w \in {"open", "publish"}, WriteData(w) PROVE LockInv' BY <1>18 DEF WriteData
<1>19. ASSUME NEW w \in {"open", "publish"}, WriteMeta(w) PROVE LockInv'
  BY <1>19 DEF WriteMeta, AfterSettings
<1>20. ASSUME NEW w \in {"open", "publish"}, MarkPerGame(w) PROVE LockInv'
  BY <1>20 DEF MarkPerGame, Remembered
<1>21. ASSUME CompareShape PROVE LockInv' BY <1>21 DEF CompareShape
<1>22. ASSUME WriteJson PROVE LockInv' BY <1>22 DEF WriteJson
<1>23. ASSUME WritePng PROVE LockInv' BY <1>23 DEF WritePng
<1>24. ASSUME NEW w \in {"save", "cover"}, TakeCoverLock(w) PROVE LockInv'
  BY <1>24 DEF TakeCoverLock
<1>25. ASSUME NEW w \in {"save", "cover"}, MarkCoverDirty(w) PROVE LockInv'
  BY <1>25 DEF MarkCoverDirty
<1>26. ASSUME NEW w \in {"save", "cover"}, ClearFlag(w) PROVE LockInv' BY <1>26 DEF ClearFlag
<1>27. ASSUME NEW w \in {"save", "cover"}, ReleaseCoverLock(w) PROVE LockInv'
  BY <1>27 DEF ReleaseCoverLock, Remembered
<1>28. ASSUME NEW w \in {"open", "save", "cover"}, ReadInputs(w) PROVE LockInv'
  BY <1>28 DEF ReadInputs
<1>29. ASSUME NEW w \in {"open", "save", "cover"}, ReadPrevious(w) PROVE LockInv'
  BY <1>29 DEF ReadPrevious, AfterArt
<1>30. ASSUME NEW w \in {"open", "save", "cover"}, WriteArt(w) PROVE LockInv'
  BY <1>30 DEF WriteArt
<1>31. ASSUME NEW w \in {"open", "save", "cover"}, Sweep(w) PROVE LockInv'
  BY <1>31 DEF Sweep, AfterArt
<1>32. ASSUME WriteGenres PROVE LockInv' BY <1>32 DEF WriteGenres, Remembered
<1>33. ASSUME NEW w \in {"open", "save", "genre"}, TakeFontLock(w) PROVE LockInv'
  BY <1>33 DEF TakeFontLock
<1>34. ASSUME NEW w \in {"open", "save", "genre"}, KeepFont(w) PROVE LockInv'
  BY <1>34 DEF KeepFont
<1>35. ASSUME NEW w \in {"open", "save", "genre"}, CompareFonts(w) PROVE LockInv'
  BY <1>35 DEF CompareFonts, AfterFonts, Remembered
<1>36. ASSUME NEW w \in {"open", "save", "genre"}, WriteFont(w) PROVE LockInv'
  BY <1>36 DEF WriteFont
<1>37. ASSUME NEW w \in {"open", "save", "genre"}, MarkFonts(w) PROVE LockInv'
  BY <1>37 DEF MarkFonts, AfterFonts, Remembered
<1>38. ASSUME Kill PROVE LockInv' BY <1>38 DEF Kill, Gone
<1>39. ASSUME GeometryFailsLate PROVE LockInv' BY <1>39 DEF GeometryFailsLate, Remembered
<1>40. ASSUME NEW w \in Workers, Refuse(w) PROVE LockInv' BY <1>40 DEF Refuse, Remembered
<1>41. ASSUME NEW w \in Workers, WriteFails(w) PROVE LockInv'
  BY <1>41 DEF WriteFails, WritePcs, Remembered, Parts
<1>42. ASSUME NEW w \in Workers, KillTearing(w) PROVE LockInv' BY <1>42 DEF KillTearing, Gone
<1>43. ASSUME NEW w \in {"cover", "publish"}, AwaitSave(w) PROVE LockInv'
  BY <1>43 DEF AwaitSave, Saved
<1>44. ASSUME UserCopiesRuntime PROVE LockInv' BY <1>44 DEF UserCopiesRuntime, AllIdle
<1>45. ASSUME Play PROVE LockInv' BY <1>45 DEF Play, AllIdle
<1> HIDE DEF JobInv, EnabledInv, LockInv
<1>46. QED BY <1>1, <1>2, <1>3, <1>4, <1>5, <1>6, <1>7, <1>8, <1>9, <1>10, <1>11, <1>12, <1>13,
   <1>14, <1>15, <1>16, <1>17, <1>18, <1>19, <1>20, <1>21, <1>22, <1>23, <1>24, <1>25, <1>26,
   <1>27, <1>28, <1>29, <1>30, <1>31, <1>32, <1>33, <1>34, <1>35, <1>36, <1>37, <1>38, <1>39,
   <1>40, <1>41, <1>42, <1>43, <1>44, <1>45 DEF Next, UserNext, OpenNext, EntryNext, FontNext,
   FaultNext, Workers

-----------------------------------------------------------------------------
(* The artwork *)

\* Covers and shapes are of their kind, those still to be written too.
MetaInv ==
    /\ cover \in Covers /\ shape \in Shapes /\ view.shape \in Shapes
    /\ job["cover"].at # "idle" => job["cover"].cover \in Covers
    /\ job["save"].at # "idle" => job["save"].shape \in Shapes

\* The job that prepares the artwork has hashed what the library still holds, and
\* names it once its two files are there.
ArtInv ==
    /\ DOMAIN art = {"covers", "thumbs", "named"}
    /\ art.named # None => Whole(art.named)
    /\ \A w \in {"open", "cover", "save"} :
         /\ job[w].at \in (ArtSteps \ {"read"}) \cup {"clearFlag"} => job[w].rev = Revision
         /\ job[w].at = "thumbFile" => job[w].rev \in art.covers
         /\ job[w].at = "descriptor" => Whole(job[w].rev)
         /\ job[w].at \in {"sweep", "clearFlag"} => art.named = job[w].rev

\* Covers and shapes stay of their kind.
LEMMA MetaStep ==
  ASSUME JobInv, MetaInv, Next
  PROVE  MetaInv'
<1>1. ASSUME PublishFonts PROVE MetaInv'
  <2>1. Others("publish") /\ job["publish"].at \in {"pubFonts", "install"}
        /\ job'["publish"].at \in {"pubFonts", "settings", "install", "perGame"}
    BY <1>1, PublishFontJob DEF PublishFonts, InstallFont, At
  <2>2. UNCHANGED <<cover, shape, view>>
    BY <1>1 DEF PublishFonts, InstallFont, metadata, artwork, settings, window, locks, history
  <2>3. QED BY <2>1, <2>2, JobInv, MetaInv DEF MetaInv, JobInv, Others, Workers
<1>2. ASSUME InstallFont PROVE MetaInv'
  <2>1. Others("publish") /\ job["publish"].at \in {"pubFonts", "install"}
        /\ job'["publish"].at \in {"pubFonts", "settings", "install", "perGame"}
    BY <1>2, PublishFontJob DEF PublishFonts, InstallFont, At
  <2>2. UNCHANGED <<cover, shape, view>>
    BY <1>2 DEF PublishFonts, InstallFont, metadata, artwork, settings, window, locks, history
  <2>3. QED BY <2>1, <2>2, JobInv, MetaInv DEF MetaInv, JobInv, Others, Workers
<1>3. ASSUME NEW w \in {"open", "publish"}, InstallPart(w) PROVE MetaInv'
  <2>1. Others(w) BY <1>3, InstallJob
  <2>2. UNCHANGED <<cover, shape, view>> BY <1>3 DEF InstallPart, metadata, window
  <2>3. QED BY <2>1, <2>2, JobInv, MetaInv DEF MetaInv, Others, JobInv, Workers
<1> USE JobInv, MetaInv DEF At, Goto, End, IdleJob, metadata, artwork, tree, settings, window,
   locks, history, JobInv, MetaInv, OpenSteps, PublishSteps, CoverSteps, SaveSteps, GenreSteps,
   ArtSteps, FontSteps, Workers
<1>4. ASSUME Start PROVE MetaInv' BY <1>4 DEF Start, AllIdle
<1>5. ASSUME Close PROVE MetaInv' BY <1>5 DEF Close, AllIdle, OnDisk
<1>6. ASSUME BeginSave PROVE MetaInv' BY <1>6 DEF BeginSave
<1>7. ASSUME BeginOpen PROVE MetaInv' BY <1>7 DEF BeginOpen, UserActs, Saved, Modal
<1>8. ASSUME OpenBare PROVE MetaInv' BY <1>8 DEF OpenBare, UserActs, Saved, Show, OnDisk, Modal
<1>9. ASSUME NEW t \in Chars, NEW s \in Shapes, Edit(t, s) PROVE MetaInv'
  BY <1>9 DEF Edit, UserActs, Modal
<1>10. ASSUME NEW g \in Chars, BeginGenre(g) PROVE MetaInv'
  BY <1>10 DEF BeginGenre, UserActs, Modal
<1>11. ASSUME NEW w \in {"cover", "publish"}, NEW c \in Covers, BeginModal(w, c) PROVE MetaInv'
  BY <1>11 DEF BeginModal, UserActs, Modal
<1>12. ASSUME CheckSleeve PROVE MetaInv' BY <1>12 DEF CheckSleeve
<1>13. ASSUME WriteSleeve PROVE MetaInv' BY <1>13 DEF WriteSleeve
<1>14. ASSUME KeepUi PROVE MetaInv' BY <1>14 DEF KeepUi
<1>15. ASSUME PatchUi PROVE MetaInv' BY <1>15 DEF PatchUi
<1>16. ASSUME MarkLibrary PROVE MetaInv' BY <1>16 DEF MarkLibrary, Show, OnDisk, Remembered
<1>17. ASSUME NEW w \in {"open", "publish"}, CheckSettings(w) PROVE MetaInv'
  BY <1>17 DEF CheckSettings
<1>18. ASSUME NEW w \in {"open", "publish"}, WriteData(w) PROVE MetaInv' BY <1>18 DEF WriteData
<1>19. ASSUME NEW w \in {"open", "publish"}, WriteMeta(w) PROVE MetaInv'
  BY <1>19 DEF WriteMeta, AfterSettings
<1>20. ASSUME NEW w \in {"open", "publish"}, MarkPerGame(w) PROVE MetaInv'
  BY <1>20 DEF MarkPerGame, Remembered
<1>21. ASSUME CompareShape PROVE MetaInv' BY <1>21 DEF CompareShape
<1>22. ASSUME WriteJson PROVE MetaInv' BY <1>22 DEF WriteJson
<1>23. ASSUME WritePng PROVE MetaInv' BY <1>23 DEF WritePng
<1>24. ASSUME NEW w \in {"save", "cover"}, TakeCoverLock(w) PROVE MetaInv'
  BY <1>24 DEF TakeCoverLock
<1>25. ASSUME NEW w \in {"save", "cover"}, MarkCoverDirty(w) PROVE MetaInv'
  BY <1>25 DEF MarkCoverDirty
<1>26. ASSUME NEW w \in {"save", "cover"}, ClearFlag(w) PROVE MetaInv' BY <1>26 DEF ClearFlag
<1>27. ASSUME NEW w \in {"save", "cover"}, ReleaseCoverLock(w) PROVE MetaInv'
  BY <1>27 DEF ReleaseCoverLock, Remembered
<1>28. ASSUME NEW w \in {"open", "save", "cover"}, ReadInputs(w) PROVE MetaInv'
  BY <1>28 DEF ReadInputs
<1>29. ASSUME NEW w \in {"open", "save", "cover"}, ReadPrevious(w) PROVE MetaInv'
  BY <1>29 DEF ReadPrevious, AfterArt
<1>30. ASSUME NEW w \in {"open", "save", "cover"}, WriteArt(w) PROVE MetaInv'
  BY <1>30 DEF WriteArt
<1>31. ASSUME NEW w \in {"open", "save", "cover"}, Sweep(w) PROVE MetaInv'
  BY <1>31 DEF Sweep, AfterArt
<1>32. ASSUME WriteGenres PROVE MetaInv' BY <1>32 DEF WriteGenres, Remembered
<1>33. ASSUME NEW w \in {"open", "save", "genre"}, TakeFontLock(w) PROVE MetaInv'
  BY <1>33 DEF TakeFontLock
<1>34. ASSUME NEW w \in {"open", "save", "genre"}, KeepFont(w) PROVE MetaInv'
  BY <1>34 DEF KeepFont
<1>35. ASSUME NEW w \in {"open", "save", "genre"}, CompareFonts(w) PROVE MetaInv'
  BY <1>35 DEF CompareFonts, AfterFonts, Remembered
<1>36. ASSUME NEW w \in {"open", "save", "genre"}, WriteFont(w) PROVE MetaInv'
  BY <1>36 DEF WriteFont
<1>37. ASSUME NEW w \in {"open", "save", "genre"}, MarkFonts(w) PROVE MetaInv'
  BY <1>37 DEF MarkFonts, AfterFonts, Remembered
<1>38. ASSUME Kill PROVE MetaInv' BY <1>38 DEF Kill, Gone, OnDisk
<1>39. ASSUME GeometryFailsLate PROVE MetaInv' BY <1>39 DEF GeometryFailsLate, Remembered
<1>40. ASSUME NEW w \in Workers, Refuse(w) PROVE MetaInv' BY <1>40 DEF Refuse, Remembered
<1>41. ASSUME NEW w \in Workers, WriteFails(w) PROVE MetaInv'
  BY <1>41 DEF WriteFails, WritePcs, Remembered, Parts
<1>42. ASSUME NEW w \in Workers, KillTearing(w) PROVE MetaInv'
  BY <1>42 DEF KillTearing, Gone, OnDisk
<1>43. ASSUME NEW w \in {"cover", "publish"}, AwaitSave(w) PROVE MetaInv'
  BY <1>43 DEF AwaitSave, Saved
<1>44. ASSUME UserCopiesRuntime PROVE MetaInv' BY <1>44 DEF UserCopiesRuntime, AllIdle
<1>45. ASSUME Play PROVE MetaInv' BY <1>45 DEF Play, AllIdle
<1> HIDE DEF JobInv, MetaInv
<1>46. QED BY <1>1, <1>2, <1>3, <1>4, <1>5, <1>6, <1>7, <1>8, <1>9, <1>10, <1>11, <1>12, <1>13,
   <1>14, <1>15, <1>16, <1>17, <1>18, <1>19, <1>20, <1>21, <1>22, <1>23, <1>24, <1>25, <1>26,
   <1>27, <1>28, <1>29, <1>30, <1>31, <1>32, <1>33, <1>34, <1>35, <1>36, <1>37, <1>38, <1>39,
   <1>40, <1>41, <1>42, <1>43, <1>44, <1>45 DEF Next, UserNext, OpenNext, EntryNext, FontNext,
   FaultNext, Workers

\* The artwork has one maker at a time.
LEMMA OneMaker ==
  ASSUME JobInv, AloneInv, LockInv
  PROVE  /\ job["open"].at # "idle" => job["cover"].at \notin ArtLock
              /\ job["save"].at \notin ArtLock
         /\ job["cover"].at \in ArtLock => job["save"].at \notin ArtLock
  BY DEF JobInv, AloneInv, LockInv, ArtLock, ArtSteps, Modal

\* Nothing the artwork is made from changes under its maker, and no file of the
\* descriptor is swept.
LEMMA ArtStep ==
  ASSUME JobInv, AloneInv, LockInv, MetaInv, ArtInv, Next
  PROVE  ArtInv'
<1>1. ASSUME BeginSave PROVE ArtInv'
  <2>1. Others("save") /\ job'["save"].at = "lock"
    BY <1>1, JobInv DEF BeginSave, JobInv, Others, IdleJob, Workers
  <2>2. UNCHANGED <<art, cover, shape, sleeve>> BY <1>1 DEF BeginSave, artwork, metadata
  <2>3. QED BY <2>1, <2>2, JobInv, ArtInv
       DEF ArtInv, JobInv, Others, Workers, ArtSteps, Whole, Revision
<1>2. ASSUME PublishFonts PROVE ArtInv'
  <2>1. Others("publish") /\ job["publish"].at \in {"pubFonts", "install"}
        /\ job'["publish"].at \in {"pubFonts", "settings", "install", "perGame"}
    BY <1>2, PublishFontJob DEF PublishFonts, InstallFont, At
  <2>2. UNCHANGED <<art, cover, shape, sleeve>>
    BY <1>2 DEF PublishFonts, InstallFont, metadata, artwork, settings, window, locks, history
  <2>3. QED BY <2>1, <2>2, JobInv, ArtInv DEF ArtInv, Revision, Whole, JobInv, Others, Workers
<1>3. ASSUME InstallFont PROVE ArtInv'
  <2>1. Others("publish") /\ job["publish"].at \in {"pubFonts", "install"}
        /\ job'["publish"].at \in {"pubFonts", "settings", "install", "perGame"}
    BY <1>3, PublishFontJob DEF PublishFonts, InstallFont, At
  <2>2. UNCHANGED <<art, cover, shape, sleeve>>
    BY <1>3 DEF PublishFonts, InstallFont, metadata, artwork, settings, window, locks, history
  <2>3. QED BY <2>1, <2>2, JobInv, ArtInv DEF ArtInv, Revision, Whole, JobInv, Others, Workers
<1>4. ASSUME NEW w \in {"open", "publish"}, InstallPart(w) PROVE ArtInv'
  <2>1. Others(w) /\ job[w].at \in Parts /\ job'[w].at = Successor(w, job[w].at)
    BY <1>4, InstallJob
  <2>2. UNCHANGED <<art, cover, shape, sleeve>>
    BY <1>4 DEF InstallPart, metadata, artwork, settings, window, locks, history
  <2>3. job'[w].at \notin (ArtSteps \ {"read"}) \cup {"clearFlag"}
    BY <2>1, SuccessorOf, JobInv DEF JobInv, PublishSteps, Parts, ArtSteps
  <2>4. QED BY <2>1, <2>2, <2>3, JobInv, ArtInv
            DEF ArtInv, Revision, Whole, ArtSteps, Others, JobInv, Workers, Parts
<1>5. ASSUME NEW w \in {"open", "save", "cover"}, ReadPrevious(w) PROVE ArtInv'
  <2>1. UNCHANGED <<art, cover, shape, sleeve>> /\ Others(w) /\ job'[w].rev = job[w].rev
        /\ job[w].at = "previous"
        /\ job'[w].at = IF ValidCache(job[w].rev) THEN AfterArt(w) ELSE "coverFile"
    BY <1>5, JobInv DEF ReadPrevious, At, JobInv, Others, IdleJob, Workers, artwork, metadata
  <2>2. ValidCache(job[w].rev) => art.named = job[w].rev BY DEF ValidCache
  <2>3. AfterArt(w) \in {"fonts", "clearFlag"} BY DEF AfterArt
  <2>4. QED BY <2>1, <2>2, <2>3, JobInv, ArtInv
       DEF ArtInv, JobInv, Others, Workers, ArtSteps, Whole, Revision
<1> USE JobInv, OneMaker, ArtInv DEF At, Goto, End, IdleJob, metadata, artwork, tree, settings,
   window, locks, history, JobInv, ArtInv, ArtLock, Revision, Whole, OpenSteps, PublishSteps,
   CoverSteps, SaveSteps, GenreSteps, ArtSteps, FontSteps, Workers
<1>6. ASSUME Start PROVE ArtInv' BY <1>6 DEF Start, AllIdle
<1>7. ASSUME Close PROVE ArtInv' BY <1>7 DEF Close, AllIdle, OnDisk
<1>8. ASSUME BeginOpen PROVE ArtInv' BY <1>8 DEF BeginOpen, UserActs, Saved, Modal
<1>9. ASSUME OpenBare PROVE ArtInv' BY <1>9 DEF OpenBare, UserActs, Saved, Show, OnDisk, Modal
<1>10. ASSUME NEW t \in Chars, NEW s \in Shapes, Edit(t, s) PROVE ArtInv'
  BY <1>10 DEF Edit, UserActs, Modal
<1>11. ASSUME NEW g \in Chars, BeginGenre(g) PROVE ArtInv'
  BY <1>11 DEF BeginGenre, UserActs, Modal
<1>12. ASSUME NEW w \in {"cover", "publish"}, NEW c \in Covers, BeginModal(w, c) PROVE ArtInv'
  BY <1>12 DEF BeginModal, UserActs, Modal
<1>13. ASSUME CheckSleeve PROVE ArtInv' BY <1>13 DEF CheckSleeve
<1>14. ASSUME WriteSleeve PROVE ArtInv' BY <1>14 DEF WriteSleeve
<1>15. ASSUME KeepUi PROVE ArtInv' BY <1>15 DEF KeepUi
<1>16. ASSUME PatchUi PROVE ArtInv' BY <1>16 DEF PatchUi
<1>17. ASSUME MarkLibrary PROVE ArtInv' BY <1>17 DEF MarkLibrary, Show, OnDisk, Remembered
<1>18. ASSUME NEW w \in {"open", "publish"}, CheckSettings(w) PROVE ArtInv'
  BY <1>18 DEF CheckSettings
<1>19. ASSUME NEW w \in {"open", "publish"}, WriteData(w) PROVE ArtInv' BY <1>19 DEF WriteData
<1>20. ASSUME NEW w \in {"open", "publish"}, WriteMeta(w) PROVE ArtInv'
  BY <1>20 DEF WriteMeta, AfterSettings
<1>21. ASSUME NEW w \in {"open", "publish"}, MarkPerGame(w) PROVE ArtInv'
  BY <1>21 DEF MarkPerGame, Remembered
<1>22. ASSUME CompareShape PROVE ArtInv' BY <1>22 DEF CompareShape
<1>23. ASSUME WriteJson PROVE ArtInv' BY <1>23 DEF WriteJson
<1>24. ASSUME WritePng PROVE ArtInv' BY <1>24 DEF WritePng
<1>25. ASSUME NEW w \in {"save", "cover"}, TakeCoverLock(w) PROVE ArtInv'
  BY <1>25 DEF TakeCoverLock
<1>26. ASSUME NEW w \in {"save", "cover"}, MarkCoverDirty(w) PROVE ArtInv'
  BY <1>26 DEF MarkCoverDirty
<1>27. ASSUME NEW w \in {"save", "cover"}, ClearFlag(w) PROVE ArtInv' BY <1>27 DEF ClearFlag
<1>28. ASSUME NEW w \in {"save", "cover"}, ReleaseCoverLock(w) PROVE ArtInv'
  BY <1>28 DEF ReleaseCoverLock, Remembered
<1>29. ASSUME NEW w \in {"open", "save", "cover"}, ReadInputs(w) PROVE ArtInv'
  BY <1>29 DEF ReadInputs
<1>30. ASSUME NEW w \in {"open", "save", "cover"}, WriteArt(w) PROVE ArtInv' BY <1>30 DEF WriteArt
<1>31. ASSUME NEW w \in {"open", "save", "cover"}, Sweep(w) PROVE ArtInv'
  BY <1>31 DEF Sweep, AfterArt
<1>32. ASSUME WriteGenres PROVE ArtInv' BY <1>32 DEF WriteGenres, Remembered
<1>33. ASSUME NEW w \in {"open", "save", "genre"}, TakeFontLock(w) PROVE ArtInv'
  BY <1>33 DEF TakeFontLock
<1>34. ASSUME NEW w \in {"open", "save", "genre"}, KeepFont(w) PROVE ArtInv' BY <1>34 DEF KeepFont
<1>35. ASSUME NEW w \in {"open", "save", "genre"}, CompareFonts(w) PROVE ArtInv'
  BY <1>35 DEF CompareFonts, AfterFonts, Remembered
<1>36. ASSUME NEW w \in {"open", "save", "genre"}, WriteFont(w) PROVE ArtInv'
  BY <1>36 DEF WriteFont
<1>37. ASSUME NEW w \in {"open", "save", "genre"}, MarkFonts(w) PROVE ArtInv'
  BY <1>37 DEF MarkFonts, AfterFonts, Remembered
<1>38. ASSUME Kill PROVE ArtInv' BY <1>38 DEF Kill, Gone, OnDisk
<1>39. ASSUME GeometryFailsLate PROVE ArtInv' BY <1>39 DEF GeometryFailsLate, Remembered
<1>40. ASSUME NEW w \in Workers, Refuse(w) PROVE ArtInv' BY <1>40 DEF Refuse, Remembered
<1>41. ASSUME NEW w \in Workers, WriteFails(w) PROVE ArtInv'
  BY <1>41 DEF WriteFails, WritePcs, Remembered, Parts
<1>42. ASSUME NEW w \in Workers, KillTearing(w) PROVE ArtInv'
  BY <1>42 DEF KillTearing, Gone, OnDisk
<1>43. ASSUME NEW w \in {"cover", "publish"}, AwaitSave(w) PROVE ArtInv'
  BY <1>43 DEF AwaitSave, Saved
<1>44. ASSUME UserCopiesRuntime PROVE ArtInv' BY <1>44 DEF UserCopiesRuntime, AllIdle
<1>45. ASSUME Play PROVE ArtInv' BY <1>45 DEF Play, AllIdle
<1> HIDE DEF JobInv, ArtInv
<1>46. QED BY <1>1, <1>2, <1>3, <1>4, <1>5, <1>6, <1>7, <1>8, <1>9, <1>10, <1>11, <1>12, <1>13,
   <1>14, <1>15, <1>16, <1>17, <1>18, <1>19, <1>20, <1>21, <1>22, <1>23, <1>24, <1>25, <1>26,
   <1>27, <1>28, <1>29, <1>30, <1>31, <1>32, <1>33, <1>34, <1>35, <1>36, <1>37, <1>38, <1>39,
   <1>40, <1>41, <1>42, <1>43, <1>44, <1>45 DEF Next, UserNext, OpenNext, EntryNext, FontNext,
   FaultNext, Workers

-----------------------------------------------------------------------------
(* What an opening has passed *)

\* The steps of an opening after the artwork, the sleeve, the settings.
FromArt == FontSteps \cup {"scripts", "perGame", "v2"}
FromSleeve == {"motion", "uiKeep", "ui", "clear", "back"} \cup ArtSteps \cup FromArt
FromStore == {"store", "sleeve", "left", "right", "geometry"} \cup FromSleeve

\* What an opening has installed is there when it goes on.
InstalledInv ==
    LET at == job["open"].at IN
    /\ at # "idle" => "runtime" \in have
    /\ at \notin {"idle", "profile"} => "profile" \in have
    /\ at \notin {"idle", "profile", "bootstrap"} => "bootstrap" \in have
    /\ at \in FromStore \ {"store"} => "store" \in have
    /\ at \in FromSleeve \ {"motion"} => "motion" \in have
    /\ at \in {"back"} \cup ArtSteps \cup FromArt => "clear" \in have
    /\ at \in ArtSteps \cup FromArt => "back" \in have
    /\ at \in {"perGame", "v2"} => "scripts" \in have
    /\ at = "v2" => "perGame" \in markers

\* What it has checked still holds.
PassedInv ==
    LET at == job["open"].at IN
    /\ at \in FromStore => meta # "none"
    /\ at = "data" => data = "none"
    /\ at \in FromSleeve => sleeve \in {"plain", "whole"}
    /\ at \in {"left", "right", "geometry"} => sleeve \notin {"plain", "whole"}
    /\ at \in {"clear", "back"} \cup ArtSteps \cup FromArt => live["ui"].kind = "made"
    /\ at \in FromArt => art.named = Revision

\* The settings pair is torn only by a kill.
SettingsInv ==
    ~spoiled => /\ data \in {"none", FreshData, "user"}
                /\ meta \in {"none", data}

\* An enabled library has what the console reads.
ReadyInv ==
    Enabled => /\ Parts \subseteq have /\ "runtime" \in have /\ "perGame" \in markers
               /\ \A r \in Resources : live[r].kind = "made"
               /\ art.named # None
               /\ data # "none" /\ meta # "none"
               /\ sleeve \in {"plain", "whole"}

\* A font that is written has the characters of its job.
MadeInv ==
    \A w \in {"open", "save", "genre"} :
        /\ job[w].at = "write" => \A f \in Fonts \ job[w].todo : live[f] = Made(job[w].chars)
        /\ job[w].at = "markFonts" => \A f \in Fonts : live[f] = Made(job[w].chars)

\* An opening installs one file after the other, and nothing removes one.
LEMMA InstalledStep ==
  ASSUME JobInv, ReadyInv, InstalledInv, Next
  PROVE  InstalledInv'
<1>1. ASSUME BeginSave PROVE InstalledInv'
  <2>1. Others("save") /\ have' = have /\ markers' = markers
    BY <1>1, JobInv DEF BeginSave, JobInv, Others, IdleJob, Workers, tree
  <2>2. QED BY <2>1, JobInv, InstalledInv DEF InstalledInv, Others, JobInv, Workers
<1>2. ASSUME NEW g \in Chars, BeginGenre(g) PROVE InstalledInv'
  <2>1. Others("genre") /\ have' = have /\ markers' = markers
    BY <1>2, JobInv DEF BeginGenre, JobInv, Others, IdleJob, Workers, tree
  <2>2. QED BY <2>1, JobInv, InstalledInv DEF InstalledInv, Others, JobInv, Workers
<1>3. ASSUME PublishFonts PROVE InstalledInv'
  <2>1. Others("publish") BY <1>3, PublishFontJob
  <2>2. UNCHANGED <<have, markers>> BY <1>3 DEF PublishFonts, InstallFont
  <2>3. QED BY <2>1, <2>2, JobInv, InstalledInv DEF InstalledInv, Others, JobInv, Workers
<1>4. ASSUME InstallFont PROVE InstalledInv'
  <2>1. Others("publish") BY <1>4, PublishFontJob
  <2>2. UNCHANGED <<have, markers>> BY <1>4 DEF PublishFonts, InstallFont
  <2>3. QED BY <2>1, <2>2, JobInv, InstalledInv DEF InstalledInv, Others, JobInv, Workers
<1>5. ASSUME NEW w \in {"open", "publish"}, InstallPart(w) PROVE InstalledInv'
  <2>1. /\ Others(w) /\ job[w].at \in Parts /\ job'[w].at = Successor(w, job[w].at)
        /\ have' = have \cup {job[w].at} /\ markers' = markers
    BY <1>5, InstallJob DEF InstallPart
  <2>2. CASE w = "open"
    <3>1. QED BY <2>1, <2>2, SuccessorOf, InstalledInv
              DEF InstalledInv, Parts, FromArt, FromSleeve, FromStore, ArtSteps, FontSteps
  <2>3. CASE w = "publish"
    BY <2>1, <2>3, JobInv, InstalledInv DEF InstalledInv, Others, JobInv, Workers
  <2>4. QED BY <2>2, <2>3
<1> USE JobInv, ReadyInv, InstalledInv DEF At, Goto, End, IdleJob, metadata, artwork, tree,
   settings, window, locks, history, JobInv, ReadyInv, InstalledInv, FromArt, FromSleeve,
   FromStore, OpenSteps, PublishSteps, CoverSteps, SaveSteps, GenreSteps, ArtSteps, FontSteps,
   Workers
<1>6. ASSUME Start PROVE InstalledInv' BY <1>6 DEF Start, AllIdle
<1>7. ASSUME Close PROVE InstalledInv' BY <1>7 DEF Close, AllIdle
<1>8. ASSUME BeginOpen PROVE InstalledInv'
  BY <1>8 DEF BeginOpen, UserActs, Saved, CanPrepare, Enabled, Modal
<1>9. ASSUME OpenBare PROVE InstalledInv'
  BY <1>9 DEF OpenBare, UserActs, Saved, CanPrepare, Show, Enabled, Modal
<1>10. ASSUME NEW t \in Chars, NEW s \in Shapes, Edit(t, s) PROVE InstalledInv'
  BY <1>10 DEF Edit, UserActs, Modal
<1>11. ASSUME NEW w \in {"cover", "publish"}, NEW c \in Covers, BeginModal(w, c) PROVE InstalledInv'
  BY <1>11 DEF BeginModal, UserActs, Enabled, Modal
<1>12. ASSUME CheckSleeve PROVE InstalledInv' BY <1>12 DEF CheckSleeve
<1>13. ASSUME WriteSleeve PROVE InstalledInv' BY <1>13 DEF WriteSleeve
<1>14. ASSUME KeepUi PROVE InstalledInv' BY <1>14 DEF KeepUi
<1>15. ASSUME PatchUi PROVE InstalledInv' BY <1>15 DEF PatchUi
<1>16. ASSUME MarkLibrary PROVE InstalledInv' BY <1>16 DEF MarkLibrary, Show, Remembered
<1>17. ASSUME NEW w \in {"open", "publish"}, CheckSettings(w) PROVE InstalledInv'
  BY <1>17 DEF CheckSettings
<1>18. ASSUME NEW w \in {"open", "publish"}, WriteData(w) PROVE InstalledInv'
  BY <1>18 DEF WriteData
<1>19. ASSUME NEW w \in {"open", "publish"}, WriteMeta(w) PROVE InstalledInv'
  BY <1>19 DEF WriteMeta, AfterSettings
<1>20. ASSUME NEW w \in {"open", "publish"}, MarkPerGame(w) PROVE InstalledInv'
  BY <1>20 DEF MarkPerGame, Remembered
<1>21. ASSUME CompareShape PROVE InstalledInv' BY <1>21 DEF CompareShape, Enabled
<1>22. ASSUME WriteJson PROVE InstalledInv' BY <1>22 DEF WriteJson, Enabled
<1>23. ASSUME WritePng PROVE InstalledInv' BY <1>23 DEF WritePng, Enabled
<1>24. ASSUME NEW w \in {"save", "cover"}, TakeCoverLock(w) PROVE InstalledInv'
  BY <1>24 DEF TakeCoverLock, Enabled
<1>25. ASSUME NEW w \in {"save", "cover"}, MarkCoverDirty(w) PROVE InstalledInv'
  BY <1>25 DEF MarkCoverDirty
<1>26. ASSUME NEW w \in {"save", "cover"}, ClearFlag(w) PROVE InstalledInv' BY <1>26 DEF ClearFlag
<1>27. ASSUME NEW w \in {"save", "cover"}, ReleaseCoverLock(w) PROVE InstalledInv'
  BY <1>27 DEF ReleaseCoverLock, Enabled, Remembered
<1>28. ASSUME NEW w \in {"open", "save", "cover"}, ReadInputs(w) PROVE InstalledInv'
  BY <1>28 DEF ReadInputs
<1>29. ASSUME NEW w \in {"open", "save", "cover"}, ReadPrevious(w) PROVE InstalledInv'
  BY <1>29 DEF ReadPrevious, AfterArt
<1>30. ASSUME NEW w \in {"open", "save", "cover"}, WriteArt(w) PROVE InstalledInv'
  BY <1>30 DEF WriteArt
<1>31. ASSUME NEW w \in {"open", "save", "cover"}, Sweep(w) PROVE InstalledInv'
  BY <1>31 DEF Sweep, AfterArt
<1>32. ASSUME WriteGenres PROVE InstalledInv' BY <1>32 DEF WriteGenres, Enabled, Remembered
<1>33. ASSUME NEW w \in {"open", "save", "genre"}, TakeFontLock(w) PROVE InstalledInv'
  BY <1>33 DEF TakeFontLock
<1>34. ASSUME NEW w \in {"open", "save", "genre"}, KeepFont(w) PROVE InstalledInv'
  BY <1>34 DEF KeepFont
<1>35. ASSUME NEW w \in {"open", "save", "genre"}, CompareFonts(w) PROVE InstalledInv'
  BY <1>35 DEF CompareFonts, AfterFonts, Remembered
<1>36. ASSUME NEW w \in {"open", "save", "genre"}, WriteFont(w) PROVE InstalledInv'
  BY <1>36 DEF WriteFont
<1>37. ASSUME NEW w \in {"open", "save", "genre"}, MarkFonts(w) PROVE InstalledInv'
  BY <1>37 DEF MarkFonts, AfterFonts, Remembered
<1>38. ASSUME Kill PROVE InstalledInv' BY <1>38 DEF Kill, Gone
<1>39. ASSUME GeometryFailsLate PROVE InstalledInv' BY <1>39 DEF GeometryFailsLate, Remembered
<1>40. ASSUME NEW w \in Workers, Refuse(w) PROVE InstalledInv' BY <1>40 DEF Refuse, Remembered
<1>41. ASSUME NEW w \in Workers, WriteFails(w) PROVE InstalledInv'
  BY <1>41 DEF WriteFails, WritePcs, Remembered, Parts
<1>42. ASSUME NEW w \in Workers, KillTearing(w) PROVE InstalledInv' BY <1>42 DEF KillTearing, Gone
<1>43. ASSUME NEW w \in {"cover", "publish"}, AwaitSave(w) PROVE InstalledInv'
  BY <1>43 DEF AwaitSave, Saved
<1>44. ASSUME UserCopiesRuntime PROVE InstalledInv' BY <1>44 DEF UserCopiesRuntime, AllIdle
<1>45. ASSUME Play PROVE InstalledInv' BY <1>45 DEF Play, AllIdle
<1> HIDE DEF JobInv, ReadyInv, InstalledInv
<1>46. QED BY <1>1, <1>2, <1>3, <1>4, <1>5, <1>6, <1>7, <1>8, <1>9, <1>10, <1>11, <1>12, <1>13,
   <1>14, <1>15, <1>16, <1>17, <1>18, <1>19, <1>20, <1>21, <1>22, <1>23, <1>24, <1>25, <1>26,
   <1>27, <1>28, <1>29, <1>30, <1>31, <1>32, <1>33, <1>34, <1>35, <1>36, <1>37, <1>38, <1>39,
   <1>40, <1>41, <1>42, <1>43, <1>44, <1>45 DEF Next, UserNext, OpenNext, EntryNext, FontNext,
   FaultNext, Workers

\* The preparation of the fonts goes on, or ends.
FontMove(w) == TakeFontLock(w) \/ KeepFont(w) \/ CompareFonts(w) \/ WriteFont(w) \/ MarkFonts(w)

\* It stays within its steps and leaves the rest of the library alone.
LEMMA FontMoves ==
  ASSUME JobInv, NEW w \in {"open", "save", "genre"}, FontMove(w)
  PROVE  /\ Others(w) /\ job[w].at \in FontSteps
         /\ job'[w].at \in FontSteps \cup {"idle", "scripts"}
         /\ UNCHANGED <<metadata, artwork, settings, markers, window, history>>
<1>1. DOMAIN job = Workers /\ w \in Workers /\ DOMAIN job[w] = DOMAIN IdleJob BY DEF JobInv, Workers
<1>2. CASE TakeFontLock(w)
  BY <1>1, <1>2 DEF TakeFontLock, At, Others, FontSteps, IdleJob
<1>3. CASE KeepFont(w)
  BY <1>1, <1>3 DEF KeepFont, At, Goto, Others, FontSteps, IdleJob, locks
<1>4. CASE CompareFonts(w)
  BY <1>1, <1>4 DEF CompareFonts, AfterFonts, End, At, Goto, Others, FontSteps, IdleJob
<1>5. CASE WriteFont(w)
  <2>1. PICK f \in job[w].todo : job' = [job EXCEPT ![w].todo = @ \ {f},
          ![w].at = IF job[w].todo = {f} THEN "markFonts" ELSE "write"]
    BY <1>5 DEF WriteFont
  <2>2. Others(w) /\ job'[w].at \in {"markFonts", "write"} BY <1>1, <2>1 DEF Others, IdleJob
  <2>3. QED BY <1>5, <2>2 DEF WriteFont, At, FontSteps
<1>6. CASE MarkFonts(w)
  BY <1>1, <1>6 DEF MarkFonts, AfterFonts, End, At, Goto, Others, FontSteps, IdleJob
<1>7. QED BY <1>2, <1>3, <1>4, <1>5, <1>6 DEF FontMove

\* A step that leaves what is checked alone.
LEMMA PassedSame ==
  ASSUME PassedInv, UNCHANGED <<meta, data, sleeve, cover, shape, art>>,
         live["ui"].kind = "made" => live'["ui"].kind = "made",
         \/ job'["open"].at \in {job["open"].at, "idle"}
         \/ job["open"].at \in FromArt /\ job'["open"].at \in FromArt
  PROVE  PassedInv'
<1>1. Revision' = Revision BY DEF Revision
<1>2. job'["open"].at = "idle" => PassedInv'
  BY DEF PassedInv, FromArt, FromSleeve, FromStore, ArtSteps, FontSteps
<1>3. job'["open"].at = job["open"].at => PassedInv' BY <1>1 DEF PassedInv
<1>4. job["open"].at \in FromArt /\ job'["open"].at \in FromArt => PassedInv'
  BY <1>1 DEF PassedInv, FromArt, FromSleeve, FromStore, ArtSteps, FontSteps
<1>5. QED BY <1>2, <1>3, <1>4

\* Nothing an opening has checked changes before it ends.
LEMMA PassedStep ==
  ASSUME JobInv, TreeInv, FilesInv, AloneInv, LockInv, ArtInv, PassedInv, Next
  PROVE  PassedInv'
<1>1. ASSUME BeginSave PROVE PassedInv'
  <2>1. Others("save") /\ UNCHANGED <<meta, data, sleeve, live, art, cover, shape>>
    BY <1>1, JobInv
       DEF BeginSave, JobInv, Others, IdleJob, Workers, tree, settings, metadata, artwork
  <2>2. QED BY <2>1, JobInv, PassedInv DEF PassedInv, Revision, Others, JobInv, Workers
<1>2. ASSUME NEW g \in Chars, BeginGenre(g) PROVE PassedInv'
  <2>1. Others("genre") /\ UNCHANGED <<meta, data, sleeve, live, art, cover, shape>>
    BY <1>2, JobInv
       DEF BeginGenre, JobInv, Others, IdleJob, Workers, tree, settings, metadata, artwork
  <2>2. QED BY <2>1, JobInv, PassedInv DEF PassedInv, Revision, Others, JobInv, Workers
<1>3. ASSUME PatchUi PROVE PassedInv'
  <2>1. Others("open") /\ job'["open"].at = "clear" /\ job["open"].at = "ui"
        /\ UNCHANGED <<meta, data, sleeve>>
    BY <1>3, JobInv DEF PatchUi, At, Goto, JobInv, Others, IdleJob, Workers, metadata, settings
  <2>2. live'["ui"] = Made({}) BY <1>3, TreeInv DEF PatchUi, TreeInv, Resources
  <2>3. QED BY <2>1, <2>2, PassedInv, Kinds
            DEF PassedInv, FromArt, FromSleeve, FromStore, ArtSteps, FontSteps
<1>4. ASSUME PublishFonts PROVE PassedInv'
  <2>1. Others("publish") /\ job["publish"].at # "idle"
    BY <1>4, PublishFontJob DEF PublishFonts, InstallFont, At
  <2>2. job'["open"].at = "idle" BY <2>1, JobInv DEF JobInv, Others, Workers, Modal
  <2>3. QED BY <2>2 DEF PassedInv, FromArt, FromSleeve, FromStore, ArtSteps, FontSteps
<1>5. ASSUME InstallFont PROVE PassedInv'
  <2>1. Others("publish") /\ job["publish"].at # "idle"
    BY <1>5, PublishFontJob DEF PublishFonts, InstallFont, At
  <2>2. job'["open"].at = "idle" BY <2>1, JobInv DEF JobInv, Others, Workers, Modal
  <2>3. QED BY <2>2 DEF PassedInv, FromArt, FromSleeve, FromStore, ArtSteps, FontSteps
<1>6. ASSUME NEW w \in {"open", "publish"}, InstallPart(w) PROVE PassedInv'
  <2>1. /\ Others(w) /\ job[w].at \in Parts /\ job'[w].at = Successor(w, job[w].at)
        /\ UNCHANGED <<meta, data, sleeve, live, art, cover, shape>>
    BY <1>6, InstallJob DEF InstallPart, metadata, artwork, settings
  <2>2. CASE w = "open"
    BY <2>1, <2>2, SuccessorOf, PassedInv
       DEF PassedInv, Revision, Parts, FromArt, FromSleeve, FromStore, ArtSteps, FontSteps
  <2>3. CASE w = "publish"
    BY <2>1, <2>3, JobInv, PassedInv DEF PassedInv, Revision, Others, JobInv, Workers
  <2>4. QED BY <2>2, <2>3
<1>7. ASSUME NEW w \in {"open", "publish"}, MarkPerGame(w) PROVE PassedInv'
  <2>1. UNCHANGED <<meta, data, sleeve, cover, shape, art, live>>
    BY <1>7 DEF MarkPerGame, metadata, artwork, settings, tree
  <2>2. \/ job'["open"].at \in {job["open"].at, "idle"}
        \/ job["open"].at \in FromArt /\ job'["open"].at \in FromArt
    BY <1>7, JobInv DEF MarkPerGame, At, Goto, End, JobInv, IdleJob, Workers, FromArt
  <2>3. QED BY <2>1, <2>2, PassedSame
<1>8. ASSUME NEW w \in {"open", "save", "cover"}, ReadPrevious(w) PROVE PassedInv'
  <2>1. UNCHANGED <<meta, data, sleeve, cover, shape, art, live>>
    BY <1>8 DEF ReadPrevious, metadata, artwork, settings, tree
  <2>2. CASE w # "open"
    <3>1. job'["open"].at = job["open"].at BY <1>8, <2>2, JobInv DEF ReadPrevious, JobInv, Workers
    <3>2. QED BY <2>1, <3>1, PassedSame
  <2>3. CASE w = "open"
    <3>1. /\ job["open"].at = "previous" /\ job'["open"].at \in {"fonts", "coverFile"}
          /\ job'["open"].at = "fonts" => art.named = job["open"].rev
      BY <1>8, <2>3, JobInv DEF ReadPrevious, At, AfterArt, ValidCache, JobInv, Workers, IdleJob
    <3>2. job["open"].rev = Revision BY <3>1, ArtInv DEF ArtInv, ArtSteps
    <3>3. Revision' = Revision BY <2>1 DEF Revision
    <3>4. QED BY <2>1, <3>1, <3>2, <3>3, PassedInv
         DEF PassedInv, FromArt, FromSleeve, FromStore, ArtSteps, FontSteps
  <2>4. QED BY <2>2, <2>3
<1>9. ASSUME NEW w \in {"open", "save", "cover"}, Sweep(w) PROVE PassedInv'
  <2>1. UNCHANGED <<meta, data, sleeve, cover, shape, live>> /\ art'.named = art.named
    BY <1>9, ArtInv DEF Sweep, metadata, settings, tree, ArtInv
  <2>2. Revision' = Revision BY <2>1 DEF Revision
  <2>3. CASE w # "open"
    <3>1. job'["open"].at = job["open"].at BY <1>9, <2>3, JobInv DEF Sweep, Goto, JobInv, Workers
    <3>2. QED BY <2>1, <2>2, <3>1, PassedInv DEF PassedInv
  <2>4. CASE w = "open"
    <3>1. job["open"].at = "sweep" /\ job'["open"].at = "fonts"
      BY <1>9, <2>4, JobInv DEF Sweep, Goto, At, AfterArt, JobInv, Workers, IdleJob
    <3>2. art.named = Revision BY <3>1, ArtInv DEF ArtInv, ArtSteps
    <3>3. QED BY <2>1, <2>2, <3>1, <3>2, PassedInv
         DEF PassedInv, FromArt, FromSleeve, FromStore, ArtSteps, FontSteps
  <2>5. QED BY <2>3, <2>4
<1>10. ASSUME NEW w \in {"open", "save", "genre"}, TakeFontLock(w) PROVE PassedInv'
  <2>1. Others(w) /\ job[w].at \in FontSteps /\ job'[w].at \in FontSteps \cup {"idle", "scripts"}
        /\ UNCHANGED <<meta, data, sleeve, cover, shape, art>>
    BY <1>10, FontMoves DEF FontMove, metadata, artwork, settings
  <2>2. live["ui"].kind = "made" => live'["ui"].kind = "made"
    BY <1>10, TreeInv, Kinds DEF TakeFontLock, tree, TreeInv, Resources
  <2>3. \/ job'["open"].at \in {job["open"].at, "idle"}
        \/ job["open"].at \in FromArt /\ job'["open"].at \in FromArt
    BY <2>1, JobInv DEF Others, JobInv, Workers, FromArt
  <2>4. QED BY <2>1, <2>2, <2>3, PassedSame
<1>11. ASSUME NEW w \in {"open", "save", "genre"}, KeepFont(w) PROVE PassedInv'
  <2>1. Others(w) /\ job[w].at \in FontSteps /\ job'[w].at \in FontSteps \cup {"idle", "scripts"}
        /\ UNCHANGED <<meta, data, sleeve, cover, shape, art>>
    BY <1>11, FontMoves DEF FontMove, metadata, artwork, settings
  <2>2. live["ui"].kind = "made" => live'["ui"].kind = "made"
    BY <1>11, TreeInv, Kinds DEF KeepFont, TreeInv, Resources
  <2>3. \/ job'["open"].at \in {job["open"].at, "idle"}
        \/ job["open"].at \in FromArt /\ job'["open"].at \in FromArt
    BY <2>1, JobInv DEF Others, JobInv, Workers, FromArt
  <2>4. QED BY <2>1, <2>2, <2>3, PassedSame
<1>12. ASSUME NEW w \in {"open", "save", "genre"}, CompareFonts(w) PROVE PassedInv'
  <2>1. Others(w) /\ job[w].at \in FontSteps /\ job'[w].at \in FontSteps \cup {"idle", "scripts"}
        /\ UNCHANGED <<meta, data, sleeve, cover, shape, art>>
    BY <1>12, FontMoves DEF FontMove, metadata, artwork, settings
  <2>2. live["ui"].kind = "made" => live'["ui"].kind = "made"
    BY <1>12, TreeInv, Kinds DEF CompareFonts, tree, TreeInv, Resources
  <2>3. \/ job'["open"].at \in {job["open"].at, "idle"}
        \/ job["open"].at \in FromArt /\ job'["open"].at \in FromArt
    BY <2>1, JobInv DEF Others, JobInv, Workers, FromArt
  <2>4. QED BY <2>1, <2>2, <2>3, PassedSame
<1>13. ASSUME NEW w \in {"open", "save", "genre"}, WriteFont(w) PROVE PassedInv'
  <2>1. Others(w) /\ job[w].at \in FontSteps /\ job'[w].at \in FontSteps \cup {"idle", "scripts"}
        /\ UNCHANGED <<meta, data, sleeve, cover, shape, art>>
    BY <1>13, FontMoves DEF FontMove, metadata, artwork, settings
  <2>2. live["ui"].kind = "made" => live'["ui"].kind = "made"
    BY <1>13, TreeInv, Kinds DEF WriteFont, TreeInv, Resources
  <2>3. \/ job'["open"].at \in {job["open"].at, "idle"}
        \/ job["open"].at \in FromArt /\ job'["open"].at \in FromArt
    BY <2>1, JobInv DEF Others, JobInv, Workers, FromArt
  <2>4. QED BY <2>1, <2>2, <2>3, PassedSame
<1>14. ASSUME NEW w \in {"open", "save", "genre"}, MarkFonts(w) PROVE PassedInv'
  <2>1. Others(w) /\ job[w].at \in FontSteps /\ job'[w].at \in FontSteps \cup {"idle", "scripts"}
        /\ UNCHANGED <<meta, data, sleeve, cover, shape, art>>
    BY <1>14, FontMoves DEF FontMove, metadata, artwork, settings
  <2>2. live["ui"].kind = "made" => live'["ui"].kind = "made"
    BY <1>14, TreeInv, Kinds DEF MarkFonts, TreeInv, Resources
  <2>3. \/ job'["open"].at \in {job["open"].at, "idle"}
        \/ job["open"].at \in FromArt /\ job'["open"].at \in FromArt
    BY <2>1, JobInv DEF Others, JobInv, Workers, FromArt
  <2>4. QED BY <2>1, <2>2, <2>3, PassedSame
<1>15. ASSUME NEW w \in Workers, Refuse(w) PROVE PassedInv'
  <2>1. UNCHANGED <<meta, data, sleeve, cover, shape, art, live>>
    BY <1>15 DEF Refuse, metadata, artwork, settings, tree
  <2>2. job'["open"].at \in {job["open"].at, "idle"}
    BY <1>15, JobInv DEF Refuse, End, JobInv, IdleJob, Workers
  <2>3. QED BY <2>1, <2>2, PassedSame
<1> USE JobInv, TreeInv, FilesInv, AloneInv, LockInv, ArtInv, PassedInv, Kinds DEF At, Goto,
   End, IdleJob, metadata, artwork, tree, settings, window, locks, history, JobInv, TreeInv,
   FilesInv, AloneInv, LockInv, ArtLock, ArtInv, PassedInv, Modal, FromArt, FromSleeve,
   FromStore, OpenSteps, PublishSteps, CoverSteps, SaveSteps, GenreSteps, ArtSteps, FontSteps,
   Workers
<1>16. ASSUME Start PROVE PassedInv' BY <1>16 DEF Start, AllIdle
<1>17. ASSUME Close PROVE PassedInv' BY <1>17 DEF Close, AllIdle
<1>18. ASSUME BeginOpen PROVE PassedInv'
  BY <1>18 DEF BeginOpen, UserActs, Saved, CanPrepare, Enabled
<1>19. ASSUME OpenBare PROVE PassedInv'
  BY <1>19 DEF OpenBare, UserActs, Saved, CanPrepare, Show, Enabled
<1>20. ASSUME NEW t \in Chars, NEW s \in Shapes, Edit(t, s) PROVE PassedInv'
  BY <1>20 DEF Edit, UserActs
<1>21. ASSUME NEW w \in {"cover", "publish"}, NEW c \in Covers, BeginModal(w, c) PROVE PassedInv'
  BY <1>21 DEF BeginModal, UserActs, Enabled
<1>22. ASSUME CheckSleeve PROVE PassedInv' BY <1>22 DEF CheckSleeve
<1>23. ASSUME WriteSleeve PROVE PassedInv' BY <1>23 DEF WriteSleeve
<1>24. ASSUME KeepUi PROVE PassedInv' BY <1>24 DEF KeepUi
<1>25. ASSUME MarkLibrary PROVE PassedInv' BY <1>25 DEF MarkLibrary, Show, Remembered
<1>26. ASSUME NEW w \in {"open", "publish"}, CheckSettings(w) PROVE PassedInv'
  BY <1>26 DEF CheckSettings
<1>27. ASSUME NEW w \in {"open", "publish"}, WriteData(w) PROVE PassedInv' BY <1>27 DEF WriteData
<1>28. ASSUME NEW w \in {"open", "publish"}, WriteMeta(w) PROVE PassedInv'
  BY <1>28 DEF WriteMeta, AfterSettings
<1>29. ASSUME CompareShape PROVE PassedInv' BY <1>29 DEF CompareShape, Enabled
<1>30. ASSUME WriteJson PROVE PassedInv' BY <1>30 DEF WriteJson, Enabled
<1>31. ASSUME WritePng PROVE PassedInv' BY <1>31 DEF WritePng, Enabled
<1>32. ASSUME NEW w \in {"save", "cover"}, TakeCoverLock(w) PROVE PassedInv'
  BY <1>32 DEF TakeCoverLock, Enabled
<1>33. ASSUME NEW w \in {"save", "cover"}, MarkCoverDirty(w) PROVE PassedInv'
  BY <1>33 DEF MarkCoverDirty
<1>34. ASSUME NEW w \in {"save", "cover"}, ClearFlag(w) PROVE PassedInv' BY <1>34 DEF ClearFlag
<1>35. ASSUME NEW w \in {"save", "cover"}, ReleaseCoverLock(w) PROVE PassedInv'
  BY <1>35 DEF ReleaseCoverLock, Enabled, Remembered
<1>36. ASSUME NEW w \in {"open", "save", "cover"}, ReadInputs(w) PROVE PassedInv'
  BY <1>36 DEF ReadInputs, Revision
<1>37. ASSUME NEW w \in {"open", "save", "cover"}, WriteArt(w) PROVE PassedInv'
  BY <1>37 DEF WriteArt
<1>38. ASSUME WriteGenres PROVE PassedInv' BY <1>38 DEF WriteGenres, Enabled, Remembered
<1>39. ASSUME Kill PROVE PassedInv' BY <1>39 DEF Kill, Gone
<1>40. ASSUME GeometryFailsLate PROVE PassedInv' BY <1>40 DEF GeometryFailsLate, Remembered
<1>41. ASSUME NEW w \in Workers, WriteFails(w) PROVE PassedInv'
  BY <1>41 DEF WriteFails, WritePcs, Rollback, Remembered, Parts
<1>42. ASSUME NEW w \in Workers, KillTearing(w) PROVE PassedInv' BY <1>42 DEF KillTearing, Gone
<1>43. ASSUME NEW w \in {"cover", "publish"}, AwaitSave(w) PROVE PassedInv'
  BY <1>43 DEF AwaitSave, Saved
<1>44. ASSUME UserCopiesRuntime PROVE PassedInv' BY <1>44 DEF UserCopiesRuntime, AllIdle
<1>45. ASSUME Play PROVE PassedInv' BY <1>45 DEF Play, AllIdle
<1> HIDE DEF JobInv, TreeInv, FilesInv, AloneInv, LockInv, ArtInv, PassedInv
<1>46. QED BY <1>1, <1>2, <1>3, <1>4, <1>5, <1>6, <1>7, <1>8, <1>9, <1>10, <1>11, <1>12, <1>13,
   <1>14, <1>15, <1>16, <1>17, <1>18, <1>19, <1>20, <1>21, <1>22, <1>23, <1>24, <1>25, <1>26,
   <1>27, <1>28, <1>29, <1>30, <1>31, <1>32, <1>33, <1>34, <1>35, <1>36, <1>37, <1>38, <1>39,
   <1>40, <1>41, <1>42, <1>43, <1>44, <1>45 DEF Next, UserNext, OpenNext, EntryNext, FontNext,
   FaultNext, Workers

-----------------------------------------------------------------------------
(* The settings and the fonts *)

\* The settings pair is torn only by a kill.
LEMMA SettingsStep ==
  ASSUME JobInv, FilesInv, PassedInv, SettingsInv, Next
  PROVE  SettingsInv'
<1>1. ASSUME NEW w \in {"open", "publish"}, InstallPart(w) PROVE SettingsInv'
  <2>1. UNCHANGED <<data, meta, spoiled>> /\ have' = have \cup {job[w].at} /\ job[w].at \in Parts
    BY <1>1 DEF InstallPart, settings, history
  <2>2. "prefs" \in have' <=> "prefs" \in have BY <2>1 DEF Parts
  <2>3. QED BY <2>1, <2>2, SettingsInv DEF SettingsInv, FreshData
<1> USE JobInv, FilesInv, PassedInv, SettingsInv DEF At, Goto, End, metadata, artwork, tree,
   settings, window, locks, history, JobInv, FilesInv, PassedInv, SettingsInv, FreshData,
   OpenSteps, PublishSteps
<1>2. ASSUME Start PROVE SettingsInv' BY <1>2 DEF Start, AllIdle, Workers
<1>3. ASSUME Close PROVE SettingsInv' BY <1>3 DEF Close, AllIdle, Workers
<1>4. ASSUME BeginSave PROVE SettingsInv' BY <1>4 DEF BeginSave
<1>5. ASSUME BeginOpen PROVE SettingsInv' BY <1>5 DEF BeginOpen, UserActs, Saved, Modal
<1>6. ASSUME OpenBare PROVE SettingsInv' BY <1>6 DEF OpenBare, UserActs, Saved, Show, Modal
<1>7. ASSUME NEW t \in Chars, NEW s \in Shapes, Edit(t, s) PROVE SettingsInv'
  BY <1>7 DEF Edit, UserActs, Modal
<1>8. ASSUME NEW g \in Chars, BeginGenre(g) PROVE SettingsInv'
  BY <1>8 DEF BeginGenre, UserActs, Modal
<1>9. ASSUME NEW w \in {"cover", "publish"}, NEW c \in Covers, BeginModal(w, c) PROVE SettingsInv'
  BY <1>9 DEF BeginModal, UserActs, Modal
<1>10. ASSUME CheckSleeve PROVE SettingsInv' BY <1>10 DEF CheckSleeve
<1>11. ASSUME WriteSleeve PROVE SettingsInv' BY <1>11 DEF WriteSleeve
<1>12. ASSUME KeepUi PROVE SettingsInv' BY <1>12 DEF KeepUi
<1>13. ASSUME PatchUi PROVE SettingsInv' BY <1>13 DEF PatchUi
<1>14. ASSUME MarkLibrary PROVE SettingsInv' BY <1>14 DEF MarkLibrary, Show, Remembered
<1>15. ASSUME PublishFonts PROVE SettingsInv' BY <1>15 DEF PublishFonts
<1>16. ASSUME InstallFont PROVE SettingsInv' BY <1>16 DEF InstallFont
<1>17. ASSUME NEW w \in {"open", "publish"}, CheckSettings(w) PROVE SettingsInv'
  BY <1>17 DEF CheckSettings, HasUserState
<1>18. ASSUME NEW w \in {"open", "publish"}, WriteData(w) PROVE SettingsInv'
  BY <1>18 DEF WriteData
<1>19. ASSUME NEW w \in {"open", "publish"}, WriteMeta(w) PROVE SettingsInv'
  BY <1>19 DEF WriteMeta, AfterSettings
<1>20. ASSUME NEW w \in {"open", "publish"}, MarkPerGame(w) PROVE SettingsInv'
  BY <1>20 DEF MarkPerGame, Remembered
<1>21. ASSUME CompareShape PROVE SettingsInv' BY <1>21 DEF CompareShape
<1>22. ASSUME WriteJson PROVE SettingsInv' BY <1>22 DEF WriteJson
<1>23. ASSUME WritePng PROVE SettingsInv' BY <1>23 DEF WritePng
<1>24. ASSUME NEW w \in {"save", "cover"}, TakeCoverLock(w) PROVE SettingsInv'
  BY <1>24 DEF TakeCoverLock
<1>25. ASSUME NEW w \in {"save", "cover"}, MarkCoverDirty(w) PROVE SettingsInv'
  BY <1>25 DEF MarkCoverDirty
<1>26. ASSUME NEW w \in {"save", "cover"}, ClearFlag(w) PROVE SettingsInv' BY <1>26 DEF ClearFlag
<1>27. ASSUME NEW w \in {"save", "cover"}, ReleaseCoverLock(w) PROVE SettingsInv'
  BY <1>27 DEF ReleaseCoverLock, Remembered
<1>28. ASSUME NEW w \in {"open", "save", "cover"}, ReadInputs(w) PROVE SettingsInv'
  BY <1>28 DEF ReadInputs
<1>29. ASSUME NEW w \in {"open", "save", "cover"}, ReadPrevious(w) PROVE SettingsInv'
  BY <1>29 DEF ReadPrevious
<1>30. ASSUME NEW w \in {"open", "save", "cover"}, WriteArt(w) PROVE SettingsInv'
  BY <1>30 DEF WriteArt
<1>31. ASSUME NEW w \in {"open", "save", "cover"}, Sweep(w) PROVE SettingsInv' BY <1>31 DEF Sweep
<1>32. ASSUME WriteGenres PROVE SettingsInv' BY <1>32 DEF WriteGenres, Remembered
<1>33. ASSUME NEW w \in {"open", "save", "genre"}, TakeFontLock(w) PROVE SettingsInv'
  BY <1>33 DEF TakeFontLock
<1>34. ASSUME NEW w \in {"open", "save", "genre"}, KeepFont(w) PROVE SettingsInv'
  BY <1>34 DEF KeepFont
<1>35. ASSUME NEW w \in {"open", "save", "genre"}, CompareFonts(w) PROVE SettingsInv'
  BY <1>35 DEF CompareFonts
<1>36. ASSUME NEW w \in {"open", "save", "genre"}, WriteFont(w) PROVE SettingsInv'
  BY <1>36 DEF WriteFont
<1>37. ASSUME NEW w \in {"open", "save", "genre"}, MarkFonts(w) PROVE SettingsInv'
  BY <1>37 DEF MarkFonts
<1>38. ASSUME Kill PROVE SettingsInv' BY <1>38 DEF Kill, Fault, Gone, Workers
<1>39. ASSUME GeometryFailsLate PROVE SettingsInv'
  BY <1>39 DEF GeometryFailsLate, Fault, Remembered
<1>40. ASSUME NEW w \in Workers, Refuse(w) PROVE SettingsInv' BY <1>40 DEF Refuse, Remembered
<1>41. ASSUME NEW w \in Workers, WriteFails(w) PROVE SettingsInv'
  BY <1>41 DEF WriteFails, Fault, Remembered
<1>42. ASSUME NEW w \in Workers, KillTearing(w) PROVE SettingsInv'
  BY <1>42 DEF KillTearing, Fault, Gone, Workers
<1>43. ASSUME NEW w \in {"cover", "publish"}, AwaitSave(w) PROVE SettingsInv'
  BY <1>43 DEF AwaitSave, Saved
<1>44. ASSUME UserCopiesRuntime PROVE SettingsInv'
  BY <1>44 DEF UserCopiesRuntime, AllIdle, Workers
<1>45. ASSUME Play PROVE SettingsInv' BY <1>45 DEF Play, AllIdle, Workers
<1> HIDE DEF JobInv, FilesInv, PassedInv, SettingsInv
<1>46. QED BY <1>1, <1>2, <1>3, <1>4, <1>5, <1>6, <1>7, <1>8, <1>9, <1>10, <1>11, <1>12, <1>13,
   <1>14, <1>15, <1>16, <1>17, <1>18, <1>19, <1>20, <1>21, <1>22, <1>23, <1>24, <1>25, <1>26,
   <1>27, <1>28, <1>29, <1>30, <1>31, <1>32, <1>33, <1>34, <1>35, <1>36, <1>37, <1>38, <1>39,
   <1>40, <1>41, <1>42, <1>43, <1>44, <1>45 DEF Next, UserNext, OpenNext, EntryNext, FontNext,
   FaultNext, Workers

\* Only the holder of the font lock writes the fonts of a library.
LEMMA MadeStep ==
  ASSUME JobInv, TreeInv, AloneInv, EnabledInv, LockInv, MadeInv, Next
  PROVE  MadeInv'
<1>1. ASSUME BeginSave PROVE MadeInv'
  <2>1. Others("save") /\ job'["save"].at = "lock" /\ live' = live
    BY <1>1, JobInv DEF BeginSave, JobInv, Others, IdleJob, Workers, tree
  <2>2. QED BY <2>1, JobInv, MadeInv DEF MadeInv, JobInv, Others, Workers
<1>2. ASSUME NEW g \in Chars, BeginGenre(g) PROVE MadeInv'
  <2>1. Others("genre") /\ job'["genre"].at = "settingsFile" /\ live' = live
    BY <1>2, JobInv DEF BeginGenre, JobInv, Others, IdleJob, Workers, tree
  <2>2. QED BY <2>1, JobInv, MadeInv DEF MadeInv, JobInv, Others, Workers
<1>3. ASSUME PublishFonts PROVE MadeInv'
  <2>1. Others("publish") /\ job["publish"].at # "idle"
    BY <1>3, PublishFontJob DEF PublishFonts, InstallFont, At
  <2>2. \A w \in {"open", "save", "genre"} : job'[w].at \notin FontSteps
    BY <2>1, JobInv, EnabledInv DEF JobInv, EnabledInv, Others, Workers, Modal, FontSteps
  <2>3. QED BY <2>2 DEF MadeInv, FontSteps
<1>4. ASSUME InstallFont PROVE MadeInv'
  <2>1. Others("publish") /\ job["publish"].at # "idle"
    BY <1>4, PublishFontJob DEF PublishFonts, InstallFont, At
  <2>2. \A w \in {"open", "save", "genre"} : job'[w].at \notin FontSteps
    BY <2>1, JobInv, EnabledInv DEF JobInv, EnabledInv, Others, Workers, Modal, FontSteps
  <2>3. QED BY <2>2 DEF MadeInv, FontSteps
<1>5. ASSUME NEW w \in {"open", "publish"}, InstallPart(w) PROVE MadeInv'
  <2>1. /\ Others(w) /\ job[w].at \in Parts /\ job'[w].at = Successor(w, job[w].at) /\ live' = live
    BY <1>5, InstallJob DEF InstallPart
  <2>2. w = "open" => job'[w].at \notin {"write", "markFonts"} BY <2>1, SuccessorOf DEF Parts
  <2>3. QED BY <2>1, <2>2, JobInv, MadeInv DEF MadeInv, Others, JobInv, Workers
<1>6. ASSUME NEW w \in {"open", "save", "genre"}, WriteFont(w) PROVE MadeInv'
  <2>1. PICK f \in job[w].todo :
          /\ live' = [live EXCEPT ![f] = Made(job[w].chars)]
          /\ job' = [job EXCEPT ![w].todo = @ \ {f},
                               ![w].at = IF job[w].todo = {f} THEN "markFonts" ELSE "write"]
    BY <1>6 DEF WriteFont
  <2>2. /\ Others(w) /\ job'[w].todo = job[w].todo \ {f} /\ job'[w].chars = job[w].chars
        /\ job'[w].at = IF job[w].todo = {f} THEN "markFonts" ELSE "write"
    BY <2>1, JobInv DEF JobInv, Others, IdleJob, Workers
  <2>3. job[w].at = "write" BY <1>6 DEF WriteFont, At
  <2>4. \A g \in Fonts : live'[g] = IF g = f THEN Made(job[w].chars) ELSE live[g]
    BY <2>1, TreeInv DEF TreeInv, Resources
  <2>5. \A g \in Fonts \ job'[w].todo : live'[g] = Made(job'[w].chars)
    BY <2>2, <2>3, <2>4, MadeInv DEF MadeInv
  <2>6. \A v \in {"open", "save", "genre"} : v # w => job'[v].at \notin {"write", "markFonts"}
    BY <2>2, <2>3, LockInv, JobInv DEF LockInv, FontLock, FontSteps, Others, JobInv, Workers
  <2>7. job'[w].at = "markFonts" => job'[w].todo = {} BY <2>2
  <2>8. QED BY <2>5, <2>6, <2>7 DEF MadeInv
<1> USE JobInv, TreeInv, AloneInv, EnabledInv, LockInv, MadeInv DEF At, Goto, End, IdleJob,
   metadata, artwork, tree, settings, window, locks, history, JobInv, TreeInv, AloneInv,
   EnabledInv, LockInv, FontLock, MadeInv, Modal, OpenSteps, PublishSteps, CoverSteps,
   SaveSteps, GenreSteps, ArtSteps, FontSteps, Workers
<1>7. ASSUME Start PROVE MadeInv' BY <1>7 DEF Start, AllIdle
<1>8. ASSUME Close PROVE MadeInv' BY <1>8 DEF Close, AllIdle
<1>9. ASSUME BeginOpen PROVE MadeInv' BY <1>9 DEF BeginOpen, UserActs, Saved
<1>10. ASSUME OpenBare PROVE MadeInv' BY <1>10 DEF OpenBare, UserActs, Saved, Show
<1>11. ASSUME NEW t \in Chars, NEW s \in Shapes, Edit(t, s) PROVE MadeInv'
  BY <1>11 DEF Edit, UserActs
<1>12. ASSUME NEW w \in {"cover", "publish"}, NEW c \in Covers, BeginModal(w, c) PROVE MadeInv'
  BY <1>12 DEF BeginModal, UserActs
<1>13. ASSUME CheckSleeve PROVE MadeInv' BY <1>13 DEF CheckSleeve
<1>14. ASSUME WriteSleeve PROVE MadeInv' BY <1>14 DEF WriteSleeve
<1>15. ASSUME KeepUi PROVE MadeInv' BY <1>15 DEF KeepUi
<1>16. ASSUME PatchUi PROVE MadeInv' BY <1>16 DEF PatchUi
<1>17. ASSUME MarkLibrary PROVE MadeInv' BY <1>17 DEF MarkLibrary, Show, Remembered
<1>18. ASSUME NEW w \in {"open", "publish"}, CheckSettings(w) PROVE MadeInv'
  BY <1>18 DEF CheckSettings
<1>19. ASSUME NEW w \in {"open", "publish"}, WriteData(w) PROVE MadeInv' BY <1>19 DEF WriteData
<1>20. ASSUME NEW w \in {"open", "publish"}, WriteMeta(w) PROVE MadeInv'
  BY <1>20 DEF WriteMeta, AfterSettings
<1>21. ASSUME NEW w \in {"open", "publish"}, MarkPerGame(w) PROVE MadeInv'
  BY <1>21 DEF MarkPerGame, Remembered
<1>22. ASSUME CompareShape PROVE MadeInv' BY <1>22 DEF CompareShape
<1>23. ASSUME WriteJson PROVE MadeInv' BY <1>23 DEF WriteJson
<1>24. ASSUME WritePng PROVE MadeInv' BY <1>24 DEF WritePng
<1>25. ASSUME NEW w \in {"save", "cover"}, TakeCoverLock(w) PROVE MadeInv'
  BY <1>25 DEF TakeCoverLock
<1>26. ASSUME NEW w \in {"save", "cover"}, MarkCoverDirty(w) PROVE MadeInv'
  BY <1>26 DEF MarkCoverDirty
<1>27. ASSUME NEW w \in {"save", "cover"}, ClearFlag(w) PROVE MadeInv' BY <1>27 DEF ClearFlag
<1>28. ASSUME NEW w \in {"save", "cover"}, ReleaseCoverLock(w) PROVE MadeInv'
  BY <1>28 DEF ReleaseCoverLock, Remembered
<1>29. ASSUME NEW w \in {"open", "save", "cover"}, ReadInputs(w) PROVE MadeInv'
  BY <1>29 DEF ReadInputs
<1>30. ASSUME NEW w \in {"open", "save", "cover"}, ReadPrevious(w) PROVE MadeInv'
  BY <1>30 DEF ReadPrevious, AfterArt
<1>31. ASSUME NEW w \in {"open", "save", "cover"}, WriteArt(w) PROVE MadeInv'
  BY <1>31 DEF WriteArt
<1>32. ASSUME NEW w \in {"open", "save", "cover"}, Sweep(w) PROVE MadeInv'
  BY <1>32 DEF Sweep, AfterArt
<1>33. ASSUME WriteGenres PROVE MadeInv' BY <1>33 DEF WriteGenres, Remembered
<1>34. ASSUME NEW w \in {"open", "save", "genre"}, TakeFontLock(w) PROVE MadeInv'
  BY <1>34 DEF TakeFontLock
<1>35. ASSUME NEW w \in {"open", "save", "genre"}, KeepFont(w) PROVE MadeInv'
  BY <1>35 DEF KeepFont
<1>36. ASSUME NEW w \in {"open", "save", "genre"}, CompareFonts(w) PROVE MadeInv'
  BY <1>36 DEF CompareFonts, AfterFonts, Remembered
<1>37. ASSUME NEW w \in {"open", "save", "genre"}, MarkFonts(w) PROVE MadeInv'
  BY <1>37 DEF MarkFonts, AfterFonts, Remembered
<1>38. ASSUME Kill PROVE MadeInv' BY <1>38 DEF Kill, Fault, Gone
<1>39. ASSUME GeometryFailsLate PROVE MadeInv' BY <1>39 DEF GeometryFailsLate, Fault, Remembered
<1>40. ASSUME NEW w \in Workers, Refuse(w) PROVE MadeInv' BY <1>40 DEF Refuse, Remembered
<1>41. ASSUME NEW w \in Workers, WriteFails(w) PROVE MadeInv'
  BY <1>41 DEF WriteFails, Fault, WritePcs, Remembered, Parts
<1>42. ASSUME NEW w \in Workers, KillTearing(w) PROVE MadeInv'
  BY <1>42 DEF KillTearing, Fault, Gone
<1>43. ASSUME NEW w \in {"cover", "publish"}, AwaitSave(w) PROVE MadeInv'
  BY <1>43 DEF AwaitSave, Saved
<1>44. ASSUME UserCopiesRuntime PROVE MadeInv' BY <1>44 DEF UserCopiesRuntime, AllIdle, Resources
<1>45. ASSUME Play PROVE MadeInv' BY <1>45 DEF Play, AllIdle
<1> HIDE DEF JobInv, TreeInv, AloneInv, EnabledInv, LockInv, MadeInv
<1>46. QED BY <1>1, <1>2, <1>3, <1>4, <1>5, <1>6, <1>7, <1>8, <1>9, <1>10, <1>11, <1>12, <1>13,
   <1>14, <1>15, <1>16, <1>17, <1>18, <1>19, <1>20, <1>21, <1>22, <1>23, <1>24, <1>25, <1>26,
   <1>27, <1>28, <1>29, <1>30, <1>31, <1>32, <1>33, <1>34, <1>35, <1>36, <1>37, <1>38, <1>39,
   <1>40, <1>41, <1>42, <1>43, <1>44, <1>45 DEF Next, UserNext, OpenNext, EntryNext, FontNext,
   FaultNext, Workers

-----------------------------------------------------------------------------
(* What the console reads *)

\* Every font has every character of the library.
Covered == \A f \in Fonts : live[f].kind = "made" /\ Glyphs \subseteq live[f].chars

\* A save that still has to see to the fonts, or that has failed.
Behind(w) ==
    \/ w \in failed
    \/ w = "save" /\ job[w].at \in ArtSteps \cup {"clearFlag", "unlock", "fonts"}
    \/ w = "genre" /\ job[w].at = "fonts"

\* The fonts have the characters of the library, or someone is behind; who holds
\* their lock has seen all the characters, or someone else is behind.
GlyphInv ==
    /\ shown /\ Enabled /\ fontLock = None =>
         Covered \/ \E w \in {"open", "save", "genre"} : Behind(w)
    /\ \A w \in {"save", "genre"} : shown /\ fontLock = w =>
         Glyphs \subseteq job[w].chars \/ \E v \in {"open", "save", "genre"} \ {w} : Behind(v)
    /\ fontLock = "open" => Glyphs \subseteq job["open"].chars
    /\ job["open"].at \in {"scripts", "perGame", "v2"} => Covered

\* The flag is there before what makes the artwork stale.
FlagInv ==
    /\ shown /\ Enabled => art.named = Revision \/ dirty
    /\ Enabled /\ job["save"].at = "json" /\ Changed => dirty
    /\ Enabled /\ job["cover"].at = "png" => dirty

\* An opening enables a library when all is there, and nothing is taken away.
LEMMA ReadyStep ==
  ASSUME JobInv, TreeInv, FilesInv, AloneInv, EnabledInv, MetaInv, ArtInv, InstalledInv, PassedInv,
           GlyphInv, ReadyInv, Next
  PROVE  ReadyInv'
<1>1. ASSUME WriteSleeve PROVE ReadyInv'
  <2>1. /\ UNCHANGED <<have, markers, live, art, data, meta>>
        /\ job["open"].at \in {"left", "right", "geometry"}
    BY <1>1 DEF WriteSleeve, At, tree, artwork, settings
  <2>2. ~Enabled BY <2>1, PassedInv, ReadyInv DEF PassedInv, ReadyInv
  <2>3. QED BY <2>1, <2>2 DEF ReadyInv, Enabled
<1>2. ASSUME MarkLibrary PROVE ReadyInv'
  <2>1. job["open"].at = "v2" /\ UNCHANGED <<have, live, art, data, meta, sleeve>>
        /\ markers' = markers \cup {"v2"}
    BY <1>2 DEF MarkLibrary, At, tree, artwork, settings, metadata
  <2>2. /\ Parts \subseteq have /\ "runtime" \in have /\ "perGame" \in markers
    BY <2>1, InstalledInv
       DEF InstalledInv, Parts, FromStore, FromSleeve, FromArt, ArtSteps, FontSteps
  <2>3. \A r \in Resources : live[r].kind = "made"
    BY <2>1, PassedInv, GlyphInv DEF PassedInv, FromArt, GlyphInv, Covered, Resources
  <2>4. art.named = Revision /\ meta # "none" /\ sleeve \in {"plain", "whole"}
    BY <2>1, PassedInv DEF PassedInv, FromStore, FromSleeve, FromArt
  <2>5. Revision # None BY MetaInv, NoneAssumption DEF MetaInv, Revision, Revisions
  <2>6. data # "none" BY <2>4, FilesInv DEF FilesInv
  <2>7. QED BY <2>1, <2>2, <2>3, <2>4, <2>5, <2>6 DEF ReadyInv
<1>3. ASSUME NEW w \in {"open", "publish"}, WriteData(w) PROVE ReadyInv'
  <2>1. UNCHANGED <<have, markers, live, art, meta, sleeve>> /\ data' # "none"
    BY <1>3 DEF WriteData, FreshData, tree, artwork, metadata
  <2>2. QED BY <2>1, ReadyInv DEF ReadyInv, Enabled
<1>4. ASSUME NEW w \in {"open", "save", "cover"}, WriteArt(w) PROVE ReadyInv'
  <2>1. UNCHANGED <<have, markers, live, data, meta, sleeve>>
    BY <1>4 DEF WriteArt, tree, settings, metadata
  <2>2. art'.named # art.named => job[w].at = "descriptor" /\ art'.named = job[w].rev
    BY <1>4, ArtInv DEF WriteArt, At, ArtInv
  <2>3. job[w].at = "descriptor" => job[w].rev = Revision BY ArtInv DEF ArtInv, ArtSteps
  <2>4. Revision # None BY MetaInv, NoneAssumption DEF MetaInv, Revision, Revisions
  <2>5. QED BY <2>1, <2>2, <2>3, <2>4, ReadyInv DEF ReadyInv, Enabled
<1>5. ASSUME NEW w \in Workers, WriteFails(w) PROVE ReadyInv'
  <2>1. UNCHANGED <<have, markers, live, art, data, meta>> /\ sleeve' \in {sleeve, Rollback(sleeve)}
    BY <1>5 DEF WriteFails, tree, artwork, settings
  <2>2. sleeve \in {"plain", "whole"} => sleeve' = sleeve BY <2>1 DEF Rollback
  <2>3. QED BY <2>1, <2>2, ReadyInv DEF ReadyInv, Enabled
<1>6. ASSUME NEW w \in Workers, KillTearing(w) PROVE ReadyInv'
  <2>1. UNCHANGED <<have, markers, art, sleeve>>
    BY <1>6 DEF KillTearing, tree, artwork, metadata
  <2>2. \/ w = "publish"
        \/ live' = live /\ (data = "none" \/ data' # "none") /\ meta' \in {meta, "torn"}
    BY <1>6, JobInv
       DEF KillTearing, At, settings, JobInv, Workers, OpenSteps, CoverSteps, SaveSteps,
       GenreSteps, ArtSteps, FontSteps
  <2>3. w = "publish" => ~Enabled BY <1>6, EnabledInv DEF KillTearing, At, EnabledInv
  <2>4. QED BY <2>1, <2>2, <2>3, ReadyInv DEF ReadyInv, Enabled
<1> USE JobInv, TreeInv, EnabledInv, ReadyInv, Kinds DEF At, Goto, End, metadata, artwork,
   tree, settings, window, locks, history, JobInv, TreeInv, EnabledInv, Enabled, ReadyInv,
   Modal, OpenSteps, PublishSteps, Workers, Resources
<1>7. ASSUME Start PROVE ReadyInv' BY <1>7 DEF Start, AllIdle
<1>8. ASSUME Close PROVE ReadyInv' BY <1>8 DEF Close, AllIdle
<1>9. ASSUME BeginSave PROVE ReadyInv' BY <1>9 DEF BeginSave
<1>10. ASSUME BeginOpen PROVE ReadyInv' BY <1>10 DEF BeginOpen, UserActs, Saved
<1>11. ASSUME OpenBare PROVE ReadyInv' BY <1>11 DEF OpenBare, UserActs, Saved, Show
<1>12. ASSUME NEW t \in Chars, NEW s \in Shapes, Edit(t, s) PROVE ReadyInv'
  BY <1>12 DEF Edit, UserActs
<1>13. ASSUME NEW g \in Chars, BeginGenre(g) PROVE ReadyInv' BY <1>13 DEF BeginGenre, UserActs
<1>14. ASSUME NEW w \in {"cover", "publish"}, NEW c \in Covers, BeginModal(w, c) PROVE ReadyInv'
  BY <1>14 DEF BeginModal, UserActs
<1>15. ASSUME CheckSleeve PROVE ReadyInv' BY <1>15 DEF CheckSleeve
<1>16. ASSUME KeepUi PROVE ReadyInv' BY <1>16 DEF KeepUi
<1>17. ASSUME PatchUi PROVE ReadyInv' BY <1>17 DEF PatchUi
<1>18. ASSUME PublishFonts PROVE ReadyInv' BY <1>18 DEF PublishFonts
<1>19. ASSUME InstallFont PROVE ReadyInv' BY <1>19 DEF InstallFont
<1>20. ASSUME NEW w \in {"open", "publish"}, InstallPart(w) PROVE ReadyInv'
  BY <1>20 DEF InstallPart, Parts
<1>21. ASSUME NEW w \in {"open", "publish"}, CheckSettings(w) PROVE ReadyInv'
  BY <1>21 DEF CheckSettings
<1>22. ASSUME NEW w \in {"open", "publish"}, WriteMeta(w) PROVE ReadyInv'
  BY <1>22 DEF WriteMeta, AfterSettings
<1>23. ASSUME NEW w \in {"open", "publish"}, MarkPerGame(w) PROVE ReadyInv'
  BY <1>23 DEF MarkPerGame, Remembered
<1>24. ASSUME CompareShape PROVE ReadyInv' BY <1>24 DEF CompareShape
<1>25. ASSUME WriteJson PROVE ReadyInv' BY <1>25 DEF WriteJson
<1>26. ASSUME WritePng PROVE ReadyInv' BY <1>26 DEF WritePng
<1>27. ASSUME NEW w \in {"save", "cover"}, TakeCoverLock(w) PROVE ReadyInv'
  BY <1>27 DEF TakeCoverLock
<1>28. ASSUME NEW w \in {"save", "cover"}, MarkCoverDirty(w) PROVE ReadyInv'
  BY <1>28 DEF MarkCoverDirty
<1>29. ASSUME NEW w \in {"save", "cover"}, ClearFlag(w) PROVE ReadyInv' BY <1>29 DEF ClearFlag
<1>30. ASSUME NEW w \in {"save", "cover"}, ReleaseCoverLock(w) PROVE ReadyInv'
  BY <1>30 DEF ReleaseCoverLock, Remembered
<1>31. ASSUME NEW w \in {"open", "save", "cover"}, ReadInputs(w) PROVE ReadyInv'
  BY <1>31 DEF ReadInputs
<1>32. ASSUME NEW w \in {"open", "save", "cover"}, ReadPrevious(w) PROVE ReadyInv'
  BY <1>32 DEF ReadPrevious, AfterArt
<1>33. ASSUME NEW w \in {"open", "save", "cover"}, Sweep(w) PROVE ReadyInv'
  BY <1>33 DEF Sweep, AfterArt
<1>34. ASSUME WriteGenres PROVE ReadyInv' BY <1>34 DEF WriteGenres, Remembered
<1>35. ASSUME NEW w \in {"open", "save", "genre"}, TakeFontLock(w) PROVE ReadyInv'
  BY <1>35 DEF TakeFontLock
<1>36. ASSUME NEW w \in {"open", "save", "genre"}, KeepFont(w) PROVE ReadyInv'
  BY <1>36 DEF KeepFont
<1>37. ASSUME NEW w \in {"open", "save", "genre"}, CompareFonts(w) PROVE ReadyInv'
  BY <1>37 DEF CompareFonts, AfterFonts, Remembered
<1>38. ASSUME NEW w \in {"open", "save", "genre"}, WriteFont(w) PROVE ReadyInv'
  BY <1>38 DEF WriteFont
<1>39. ASSUME NEW w \in {"open", "save", "genre"}, MarkFonts(w) PROVE ReadyInv'
  BY <1>39 DEF MarkFonts, AfterFonts, Remembered
<1>40. ASSUME Kill PROVE ReadyInv' BY <1>40 DEF Kill, Fault, Gone
<1>41. ASSUME GeometryFailsLate PROVE ReadyInv' BY <1>41 DEF GeometryFailsLate, Fault, Remembered
<1>42. ASSUME NEW w \in Workers, Refuse(w) PROVE ReadyInv' BY <1>42 DEF Refuse, Remembered
<1>43. ASSUME NEW w \in {"cover", "publish"}, AwaitSave(w) PROVE ReadyInv'
  BY <1>43 DEF AwaitSave, Saved
<1>44. ASSUME UserCopiesRuntime PROVE ReadyInv' BY <1>44 DEF UserCopiesRuntime, AllIdle
<1>45. ASSUME Play PROVE ReadyInv' BY <1>45 DEF Play, AllIdle
<1> HIDE DEF JobInv, TreeInv, EnabledInv, ReadyInv
<1>46. QED BY <1>1, <1>2, <1>3, <1>4, <1>5, <1>6, <1>7, <1>8, <1>9, <1>10, <1>11, <1>12, <1>13,
   <1>14, <1>15, <1>16, <1>17, <1>18, <1>19, <1>20, <1>21, <1>22, <1>23, <1>24, <1>25, <1>26,
   <1>27, <1>28, <1>29, <1>30, <1>31, <1>32, <1>33, <1>34, <1>35, <1>36, <1>37, <1>38, <1>39,
   <1>40, <1>41, <1>42, <1>43, <1>44, <1>45 DEF Next, UserNext, OpenNext, EntryNext, FontNext,
   FaultNext, Workers

\* The flag comes first, and goes when the artwork is made of what the library holds.
LEMMA FlagStep ==
  ASSUME JobInv, AloneInv, EnabledInv, LockInv, ArtInv, PassedInv, ReadyInv, FlagInv, Next
  PROVE  FlagInv'
<1>1. ASSUME OpenBare PROVE FlagInv'
  <2>1. ~Enabled /\ markers' = markers BY <1>1 DEF OpenBare, CanPrepare
  <2>2. QED BY <2>1 DEF FlagInv, Enabled
<1>2. ASSUME WriteSleeve PROVE FlagInv'
  <2>1. markers' = markers /\ job["open"].at \in {"left", "right", "geometry"}
    BY <1>2 DEF WriteSleeve, At
  <2>2. ~Enabled BY <2>1, PassedInv, ReadyInv DEF PassedInv, ReadyInv
  <2>3. QED BY <2>1, <2>2 DEF FlagInv, Enabled
<1>3. ASSUME GeometryFailsLate PROVE FlagInv'
  <2>1. markers' = markers /\ job["open"].at = "geometry" BY <1>3 DEF GeometryFailsLate, At
  <2>2. ~Enabled BY <2>1, PassedInv, ReadyInv DEF PassedInv, ReadyInv
  <2>3. QED BY <2>1, <2>2 DEF FlagInv, Enabled
<1> USE JobInv, OneMaker, AloneInv, EnabledInv, LockInv, ArtInv, PassedInv, ReadyInv, FlagInv
   DEF At, Goto, End, IdleJob, metadata, artwork, tree, settings, window, locks, history,
   JobInv, AloneInv, EnabledInv, LockInv, ArtLock, ArtInv, PassedInv, ReadyInv, FlagInv,
   Enabled, Revision, Changed, FromArt, FromSleeve, FromStore, OpenSteps, PublishSteps,
   CoverSteps, SaveSteps, GenreSteps, ArtSteps, FontSteps, Workers
<1>4. ASSUME Start PROVE FlagInv' BY <1>4 DEF Start, AllIdle
<1>5. ASSUME Close PROVE FlagInv' BY <1>5 DEF Close, AllIdle
<1>6. ASSUME BeginSave PROVE FlagInv' BY <1>6 DEF BeginSave
<1>7. ASSUME BeginOpen PROVE FlagInv' BY <1>7 DEF BeginOpen, UserActs, Saved, Modal
<1>8. ASSUME NEW t \in Chars, NEW s \in Shapes, Edit(t, s) PROVE FlagInv'
  BY <1>8 DEF Edit, UserActs, Modal
<1>9. ASSUME NEW g \in Chars, BeginGenre(g) PROVE FlagInv' BY <1>9 DEF BeginGenre, UserActs, Modal
<1>10. ASSUME NEW w \in {"cover", "publish"}, NEW c \in Covers, BeginModal(w, c) PROVE FlagInv'
  BY <1>10 DEF BeginModal, UserActs, Modal
<1>11. ASSUME CheckSleeve PROVE FlagInv' BY <1>11 DEF CheckSleeve
<1>12. ASSUME KeepUi PROVE FlagInv' BY <1>12 DEF KeepUi
<1>13. ASSUME PatchUi PROVE FlagInv' BY <1>13 DEF PatchUi
<1>14. ASSUME MarkLibrary PROVE FlagInv' BY <1>14 DEF MarkLibrary, Show, Remembered
<1>15. ASSUME PublishFonts PROVE FlagInv' BY <1>15 DEF PublishFonts
<1>16. ASSUME InstallFont PROVE FlagInv' BY <1>16 DEF InstallFont
<1>17. ASSUME NEW w \in {"open", "publish"}, InstallPart(w) PROVE FlagInv'
  BY <1>17 DEF InstallPart, Parts
<1>18. ASSUME NEW w \in {"open", "publish"}, CheckSettings(w) PROVE FlagInv'
  BY <1>18 DEF CheckSettings
<1>19. ASSUME NEW w \in {"open", "publish"}, WriteData(w) PROVE FlagInv' BY <1>19 DEF WriteData
<1>20. ASSUME NEW w \in {"open", "publish"}, WriteMeta(w) PROVE FlagInv'
  BY <1>20 DEF WriteMeta, AfterSettings
<1>21. ASSUME NEW w \in {"open", "publish"}, MarkPerGame(w) PROVE FlagInv'
  BY <1>21 DEF MarkPerGame, Remembered
<1>22. ASSUME CompareShape PROVE FlagInv' BY <1>22 DEF CompareShape
<1>23. ASSUME WriteJson PROVE FlagInv' BY <1>23 DEF WriteJson
<1>24. ASSUME WritePng PROVE FlagInv' BY <1>24 DEF WritePng
<1>25. ASSUME NEW w \in {"save", "cover"}, TakeCoverLock(w) PROVE FlagInv'
  BY <1>25 DEF TakeCoverLock
<1>26. ASSUME NEW w \in {"save", "cover"}, MarkCoverDirty(w) PROVE FlagInv'
  BY <1>26 DEF MarkCoverDirty
<1>27. ASSUME NEW w \in {"save", "cover"}, ClearFlag(w) PROVE FlagInv' BY <1>27 DEF ClearFlag
<1>28. ASSUME NEW w \in {"save", "cover"}, ReleaseCoverLock(w) PROVE FlagInv'
  BY <1>28 DEF ReleaseCoverLock, Remembered
<1>29. ASSUME NEW w \in {"open", "save", "cover"}, ReadInputs(w) PROVE FlagInv'
  BY <1>29 DEF ReadInputs
<1>30. ASSUME NEW w \in {"open", "save", "cover"}, ReadPrevious(w) PROVE FlagInv'
  BY <1>30 DEF ReadPrevious, AfterArt
<1>31. ASSUME NEW w \in {"open", "save", "cover"}, WriteArt(w) PROVE FlagInv'
  BY <1>31 DEF WriteArt
<1>32. ASSUME NEW w \in {"open", "save", "cover"}, Sweep(w) PROVE FlagInv'
  BY <1>32 DEF Sweep, AfterArt
<1>33. ASSUME WriteGenres PROVE FlagInv' BY <1>33 DEF WriteGenres, Remembered
<1>34. ASSUME NEW w \in {"open", "save", "genre"}, TakeFontLock(w) PROVE FlagInv'
  BY <1>34 DEF TakeFontLock
<1>35. ASSUME NEW w \in {"open", "save", "genre"}, KeepFont(w) PROVE FlagInv'
  BY <1>35 DEF KeepFont
<1>36. ASSUME NEW w \in {"open", "save", "genre"}, CompareFonts(w) PROVE FlagInv'
  BY <1>36 DEF CompareFonts, AfterFonts, Remembered
<1>37. ASSUME NEW w \in {"open", "save", "genre"}, WriteFont(w) PROVE FlagInv'
  BY <1>37 DEF WriteFont
<1>38. ASSUME NEW w \in {"open", "save", "genre"}, MarkFonts(w) PROVE FlagInv'
  BY <1>38 DEF MarkFonts, AfterFonts, Remembered
<1>39. ASSUME Kill PROVE FlagInv' BY <1>39 DEF Kill, Fault, Gone
<1>40. ASSUME NEW w \in Workers, Refuse(w) PROVE FlagInv' BY <1>40 DEF Refuse, Remembered
<1>41. ASSUME NEW w \in Workers, WriteFails(w) PROVE FlagInv'
  BY <1>41 DEF WriteFails, Fault, Rollback, Remembered
<1>42. ASSUME NEW w \in Workers, KillTearing(w) PROVE FlagInv'
  BY <1>42 DEF KillTearing, Fault, Gone
<1>43. ASSUME NEW w \in {"cover", "publish"}, AwaitSave(w) PROVE FlagInv'
  BY <1>43 DEF AwaitSave, Saved
<1>44. ASSUME UserCopiesRuntime PROVE FlagInv' BY <1>44 DEF UserCopiesRuntime, AllIdle, Resources
<1>45. ASSUME Play PROVE FlagInv' BY <1>45 DEF Play, AllIdle
<1> HIDE DEF JobInv, AloneInv, EnabledInv, LockInv, ArtInv, PassedInv, ReadyInv, FlagInv
<1>46. QED BY <1>1, <1>2, <1>3, <1>4, <1>5, <1>6, <1>7, <1>8, <1>9, <1>10, <1>11, <1>12, <1>13,
   <1>14, <1>15, <1>16, <1>17, <1>18, <1>19, <1>20, <1>21, <1>22, <1>23, <1>24, <1>25, <1>26,
   <1>27, <1>28, <1>29, <1>30, <1>31, <1>32, <1>33, <1>34, <1>35, <1>36, <1>37, <1>38, <1>39,
   <1>40, <1>41, <1>42, <1>43, <1>44, <1>45 DEF Next, UserNext, OpenNext, EntryNext, FontNext,
   FaultNext, Workers

\* A job that fails is behind.
LEMMA FailedGlyphs ==
  ASSUME JobInv, LockInv, GlyphInv, NEW w \in Workers, End(w, "failed"),
         UNCHANGED <<title, genre, live, shown, markers>>
  PROVE  GlyphInv'
<1>1. /\ job'[w].at = "idle" /\ \A v \in Workers : v # w => job'[v] = job[v]
      /\ failed' = failed \cup ({w} \cap Remembered)
      /\ fontLock' = IF fontLock = w THEN None ELSE fontLock
  BY DEF End, Unlock, Release, JobInv, IdleJob
<1>2. Covered' = Covered /\ Enabled' = Enabled /\ Glyphs' = Glyphs BY DEF Covered, Glyphs, Enabled
<1>3. \A v \in {"open", "save", "genre"} : Behind(v) => Behind(v)'
  BY <1>1 DEF Behind, Workers, Remembered
<1>4. w \in {"open", "save", "genre"} => Behind(w)' BY <1>1 DEF Behind, Remembered
<1>5. w \notin {"open", "save", "genre"} => fontLock' = fontLock
  BY <1>1, LockInv, NoneAssumption DEF LockInv
<1>6. QED BY <1>1, <1>2, <1>3, <1>4, <1>5, GlyphInv, NoneAssumption DEF GlyphInv, Workers


\* Whoever changes a title or a genre sees to the fonts.
LEMMA GlyphStep ==
  ASSUME JobInv, TreeInv, AloneInv, EnabledInv, LockInv, ReadyInv, MadeInv, GlyphInv, Next
  PROVE  GlyphInv'
<1>1. ASSUME OpenBare PROVE GlyphInv'
  <2>1. ~Enabled /\ UNCHANGED <<markers, fontLock, title, genre, live, job>>
    BY <1>1 DEF OpenBare, CanPrepare, locks, metadata, tree
  <2>2. job["open"].at = "idle" /\ fontLock = None
    BY <1>1, <2>1, EnabledInv, LockInv
       DEF OpenBare, UserActs, Modal, EnabledInv, LockInv, FontLock, FontSteps
  <2>3. QED BY <2>1, <2>2, NoneAssumption DEF GlyphInv, Enabled, Workers
<1>2. ASSUME PatchUi PROVE GlyphInv'
  <2>1. /\ Others("open") /\ job["open"].at = "ui" /\ job'["open"].at = "clear"
        /\ UNCHANGED <<markers, fontLock, title, genre, shown, failed>>
        /\ live' = [live EXCEPT !["ui"] = Made({})]
    BY <1>2, JobInv DEF PatchUi, At, Goto, JobInv, Others, IdleJob, Workers, locks, metadata, window
  <2>2. \A f \in Fonts : live'[f] = live[f]
    BY <2>1, TreeInv, CharsAssumption DEF TreeInv, Resources
  <2>3. Covered' = Covered /\ Glyphs' = Glyphs /\ Enabled' = Enabled
    BY <2>1, <2>2 DEF Covered, Glyphs, Enabled
  <2>4. \A v \in {"open", "save", "genre"} : Behind(v)' = Behind(v)
    BY <2>1, JobInv DEF Behind, JobInv, Others, Workers
  <2>5. fontLock # "open" BY <2>1, LockInv DEF LockInv, FontLock, FontSteps
  <2>6. QED BY <2>1, <2>3, <2>4, <2>5, JobInv, GlyphInv DEF GlyphInv, JobInv, Others, Workers
<1>3. ASSUME InstallFont PROVE GlyphInv'
  <2>1. /\ Others("publish") /\ job["publish"].at # "idle" /\ markers' = markers
        /\ fontLock' = fontLock
    BY <1>3, PublishFontJob DEF InstallFont, At, locks
  <2>2. job'["open"].at = "idle" /\ ~Enabled /\ fontLock = None
    BY <2>1, JobInv, EnabledInv, LockInv
       DEF JobInv, EnabledInv, LockInv, FontLock, FontSteps, Others, Workers, Modal
  <2>3. QED BY <2>1, <2>2, NoneAssumption DEF GlyphInv, Enabled, Workers
<1>4. ASSUME NEW w \in {"open", "publish"}, InstallPart(w) PROVE GlyphInv'
  <2>1. /\ Others(w) /\ job[w].at \in Parts /\ job'[w].at = Successor(w, job[w].at)
        /\ UNCHANGED <<markers, fontLock, title, genre, shown, failed, live>>
    BY <1>4, InstallJob DEF InstallPart, locks, metadata, window
  <2>2. Covered' = Covered /\ Glyphs' = Glyphs /\ Enabled' = Enabled
    BY <2>1 DEF Covered, Glyphs, Enabled
  <2>3. \A v \in {"open", "save", "genre"} : Behind(v)' = Behind(v)
    BY <2>1, JobInv DEF Behind, JobInv, Others, Workers
  <2>4. w = "open" => fontLock # "open"
    BY <2>1, LockInv DEF LockInv, FontLock, FontSteps, Parts
  <2>5. job'["open"].at \in {"scripts", "perGame", "v2"}
          => job["open"].at \in {"scripts", "perGame", "v2"}
    BY <2>1, SuccessorOf, JobInv DEF Others, JobInv, Workers, Parts
  <2>6. QED BY <2>1, <2>2, <2>3, <2>4, <2>5, JobInv, GlyphInv DEF GlyphInv, JobInv, Others, Workers
<1>5. ASSUME NEW w \in {"open", "save", "genre"}, MarkFonts(w) PROVE GlyphInv'
  <2>1. /\ job[w].at = "markFonts" /\ UNCHANGED <<markers, title, genre, shown, live>>
        /\ fontLock' = IF fontLock = w THEN None ELSE fontLock
        /\ \A v \in Workers : v # w => job'[v] = job[v]
        /\ \/ w = "open" /\ failed' = failed /\ job'[w].at = "scripts"
           \/ w # "open" /\ failed' = failed \ {w} /\ job'[w].at = "idle"
    BY <1>5, JobInv
       DEF MarkFonts, At, AfterFonts, Goto, End, Unlock, Release, metadata, window, JobInv,
       Workers, IdleJob
  <2>2. fontLock = w BY <2>1, LockInv DEF LockInv, FontLock, FontSteps
  <2>3. \A f \in Fonts : live[f].kind = "made" /\ live[f].chars = job[w].chars
    BY <2>1, MadeInv DEF MadeInv, Made
  <2>4. Covered' = Covered /\ Glyphs' = Glyphs /\ Enabled' = Enabled
    BY <2>1 DEF Covered, Glyphs, Enabled
  <2>5. Glyphs \subseteq job[w].chars => Covered BY <2>3 DEF Covered
  <2>6. \A v \in {"open", "save", "genre"} : v # w /\ Behind(v) => Behind(v)'
    BY <2>1 DEF Behind, Workers
  <2>7. job'["open"].at = job["open"].at \/ w = "open" BY <2>1 DEF Workers
  <2>8. fontLock' = None BY <2>1, <2>2
  <2>9. CASE w = "open"
    <3>1. Covered BY <2>2, <2>5, <2>9, GlyphInv DEF GlyphInv
    <3>2. QED BY <2>4, <2>8, <3>1, NoneAssumption DEF GlyphInv, Workers
  <2>10. CASE w # "open"
    <3>1. shown /\ Enabled => Covered \/ \E v \in {"open", "save", "genre"} \ {w} : Behind(v)
      BY <2>2, <2>5, <2>10, GlyphInv DEF GlyphInv
    <3>2. QED BY <2>1, <2>4, <2>6, <2>7, <2>8, <2>10, <3>1, GlyphInv, NoneAssumption
              DEF GlyphInv, Workers
  <2>11. QED BY <2>9, <2>10
<1>6. ASSUME NEW w \in Workers, Refuse(w) PROVE GlyphInv'
  <2>1. End(w, "failed") /\ UNCHANGED <<title, genre, live, shown, markers>>
    BY <1>6 DEF Refuse, metadata, tree, window
  <2>2. QED BY <2>1, FailedGlyphs
<1>7. ASSUME NEW w \in Workers, WriteFails(w) PROVE GlyphInv'
  <2>1. End(w, "failed") /\ UNCHANGED <<title, genre, live, shown, markers>>
    BY <1>7 DEF WriteFails, metadata, tree, window
  <2>2. QED BY <2>1, FailedGlyphs
<1> USE JobInv, NoneAssumption, AloneInv, EnabledInv, LockInv, ReadyInv, MadeInv, GlyphInv DEF
   At, Goto, End, Unlock, Release, IdleJob, metadata, artwork, tree, settings, window, locks,
   history, JobInv, AloneInv, EnabledInv, LockInv, FontLock, ReadyInv, MadeInv, GlyphInv,
   Covered, Behind, Glyphs, Enabled, Remembered, OpenSteps, PublishSteps, CoverSteps,
   SaveSteps, GenreSteps, ArtSteps, FontSteps, Workers
<1>8. ASSUME Start PROVE GlyphInv' BY <1>8 DEF Start, AllIdle
<1>9. ASSUME Close PROVE GlyphInv' BY <1>9 DEF Close, AllIdle
<1>10. ASSUME BeginSave PROVE GlyphInv' BY <1>10 DEF BeginSave
<1>11. ASSUME BeginOpen PROVE GlyphInv' BY <1>11 DEF BeginOpen, UserActs, Saved, Modal
<1>12. ASSUME NEW t \in Chars, NEW s \in Shapes, Edit(t, s) PROVE GlyphInv'
  BY <1>12 DEF Edit, UserActs, Modal
<1>13. ASSUME NEW g \in Chars, BeginGenre(g) PROVE GlyphInv'
  BY <1>13 DEF BeginGenre, UserActs, Modal
<1>14. ASSUME NEW w \in {"cover", "publish"}, NEW c \in Covers, BeginModal(w, c) PROVE GlyphInv'
  BY <1>14 DEF BeginModal, UserActs, Modal
<1>15. ASSUME CheckSleeve PROVE GlyphInv' BY <1>15 DEF CheckSleeve
<1>16. ASSUME WriteSleeve PROVE GlyphInv' BY <1>16 DEF WriteSleeve
<1>17. ASSUME KeepUi PROVE GlyphInv' BY <1>17 DEF KeepUi
<1>18. ASSUME MarkLibrary PROVE GlyphInv' BY <1>18 DEF MarkLibrary, Show
<1>19. ASSUME PublishFonts PROVE GlyphInv' BY <1>19, ZenonT(60) DEF PublishFonts
<1>20. ASSUME NEW w \in {"open", "publish"}, CheckSettings(w) PROVE GlyphInv'
  BY <1>20 DEF CheckSettings
<1>21. ASSUME NEW w \in {"open", "publish"}, WriteData(w) PROVE GlyphInv' BY <1>21 DEF WriteData
<1>22. ASSUME NEW w \in {"open", "publish"}, WriteMeta(w) PROVE GlyphInv'
  BY <1>22 DEF WriteMeta, AfterSettings
<1>23. ASSUME NEW w \in {"open", "publish"}, MarkPerGame(w) PROVE GlyphInv'
  BY <1>23 DEF MarkPerGame
<1>24. ASSUME CompareShape PROVE GlyphInv' BY <1>24 DEF CompareShape
<1>25. ASSUME WriteJson PROVE GlyphInv' BY <1>25 DEF WriteJson
<1>26. ASSUME WritePng PROVE GlyphInv' BY <1>26 DEF WritePng
<1>27. ASSUME NEW w \in {"save", "cover"}, TakeCoverLock(w) PROVE GlyphInv'
  BY <1>27 DEF TakeCoverLock
<1>28. ASSUME NEW w \in {"save", "cover"}, MarkCoverDirty(w) PROVE GlyphInv'
  BY <1>28 DEF MarkCoverDirty
<1>29. ASSUME NEW w \in {"save", "cover"}, ClearFlag(w) PROVE GlyphInv' BY <1>29 DEF ClearFlag
<1>30. ASSUME NEW w \in {"save", "cover"}, ReleaseCoverLock(w) PROVE GlyphInv'
  BY <1>30 DEF ReleaseCoverLock
<1>31. ASSUME NEW w \in {"open", "save", "cover"}, ReadInputs(w) PROVE GlyphInv'
  BY <1>31 DEF ReadInputs
<1>32. ASSUME NEW w \in {"open", "save", "cover"}, ReadPrevious(w) PROVE GlyphInv'
  BY <1>32, SMTT(30) DEF ReadPrevious, AfterArt
<1>33. ASSUME NEW w \in {"open", "save", "cover"}, WriteArt(w) PROVE GlyphInv'
  BY <1>33 DEF WriteArt
<1>34. ASSUME NEW w \in {"open", "save", "cover"}, Sweep(w) PROVE GlyphInv'
  BY <1>34 DEF Sweep, AfterArt
<1>35. ASSUME WriteGenres PROVE GlyphInv' BY <1>35 DEF WriteGenres
<1>36. ASSUME NEW w \in {"open", "save", "genre"}, TakeFontLock(w) PROVE GlyphInv'
  BY <1>36 DEF TakeFontLock
<1>37. ASSUME NEW w \in {"open", "save", "genre"}, KeepFont(w) PROVE GlyphInv'
  BY <1>37 DEF KeepFont
<1>38. ASSUME NEW w \in {"open", "save", "genre"}, CompareFonts(w) PROVE GlyphInv'
  BY <1>38 DEF CompareFonts, FontsCached, AfterFonts, Made
<1>39. ASSUME NEW w \in {"open", "save", "genre"}, WriteFont(w) PROVE GlyphInv'
  BY <1>39, SMTT(30) DEF WriteFont, Made
<1>40. ASSUME Kill PROVE GlyphInv' BY <1>40 DEF Kill, Fault, Gone
<1>41. ASSUME GeometryFailsLate PROVE GlyphInv' BY <1>41 DEF GeometryFailsLate, Fault
<1>42. ASSUME NEW w \in Workers, KillTearing(w) PROVE GlyphInv'
  BY <1>42 DEF KillTearing, Fault, Gone
<1>43. ASSUME NEW w \in {"cover", "publish"}, AwaitSave(w) PROVE GlyphInv'
  BY <1>43 DEF AwaitSave, Saved
<1>44. ASSUME UserCopiesRuntime PROVE GlyphInv' BY <1>44 DEF UserCopiesRuntime, AllIdle, Resources
<1>45. ASSUME Play PROVE GlyphInv' BY <1>45 DEF Play, AllIdle
<1> HIDE DEF JobInv, TreeInv, AloneInv, EnabledInv, LockInv, ReadyInv, MadeInv, GlyphInv
<1>46. QED BY <1>1, <1>2, <1>3, <1>4, <1>5, <1>6, <1>7, <1>8, <1>9, <1>10, <1>11, <1>12, <1>13,
   <1>14, <1>15, <1>16, <1>17, <1>18, <1>19, <1>20, <1>21, <1>22, <1>23, <1>24, <1>25, <1>26,
   <1>27, <1>28, <1>29, <1>30, <1>31, <1>32, <1>33, <1>34, <1>35, <1>36, <1>37, <1>38, <1>39,
   <1>40, <1>41, <1>42, <1>43, <1>44, <1>45 DEF Next, UserNext, OpenNext, EntryNext, FontNext,
   FaultNext, Workers

-----------------------------------------------------------------------------
(* What the console reads is whole, and what is stale is flagged *)

\* The invariant of a library whose user is patient.
PatientInv ==
    /\ LibraryInv
    /\ AloneInv /\ EnabledInv /\ LockInv /\ MetaInv /\ ArtInv
    /\ InstalledInv /\ PassedInv /\ SettingsInv /\ ReadyInv
    /\ MadeInv /\ GlyphInv /\ FlagInv

\* No job runs at first.
LEMMA InitPatient == Init => PatientInv
<1> SUFFICES ASSUME Init PROVE PatientInv
  OBVIOUS
<1>1. LibraryInv BY InitLibrary
<1>2. \A w \in Workers : job[w] = IdleJob BY DEF Init
<1>3. /\ job["open"].at = "idle" /\ job["publish"].at = "idle" /\ job["cover"].at = "idle"
      /\ job["save"].at = "idle" /\ job["genre"].at = "idle"
  BY <1>2 DEF Workers, IdleJob
<1>4. ~Enabled /\ ~shown BY DEF Init, Enabled
<1>5. AloneInv /\ EnabledInv BY <1>3 DEF AloneInv, EnabledInv, ArtSteps, FontSteps
<1>6. LockInv
  BY <1>3, NoneAssumption DEF Init, LockInv, ArtLock, FontLock, ArtSteps, FontSteps, Workers
<1>7. MetaInv BY <1>3 DEF Init, MetaInv, OnDisk
<1>8. ArtInv BY <1>3 DEF Init, ArtInv, ArtSteps
<1>9. InstalledInv /\ PassedInv
  BY <1>3 DEF InstalledInv, PassedInv, FromStore, FromSleeve, FromArt, ArtSteps, FontSteps
<1>10. SettingsInv BY DEF Init, SettingsInv
<1>11. ReadyInv /\ FlagInv BY <1>3, <1>4 DEF ReadyInv, FlagInv
<1>12. MadeInv BY <1>3 DEF MadeInv
<1>13. GlyphInv BY <1>3, <1>4, NoneAssumption DEF Init, GlyphInv, Workers
<1>14. QED
  BY <1>1, <1>5, <1>6, <1>7, <1>8, <1>9, <1>10, <1>11, <1>12, <1>13 DEF PatientInv

\* The invariant speaks of the declared variables only.
LEMMA StutterPatient == PatientInv /\ UNCHANGED vars => PatientInv'
<1> SUFFICES ASSUME PatientInv, UNCHANGED vars PROVE PatientInv'
  OBVIOUS
<1>1. UNCHANGED <<cover, shape, title, genre, sleeve, art, dirty, base, live, have, data, meta,
                  markers, up, shown, view, asked, job, failed, coverLock, fontLock, spoiled>>
  BY DEF vars, metadata, artwork, tree, settings, window, locks, history
<1>2. LibraryInv' BY StutterLibrary DEF PatientInv
<1>3. Enabled' = Enabled /\ Revision' = Revision /\ Glyphs' = Glyphs /\ FreshData' = FreshData
      /\ Changed' = Changed
  BY <1>1 DEF Enabled, Revision, Glyphs, FreshData, Changed
<1>4. AloneInv' /\ EnabledInv' /\ LockInv' /\ MetaInv'
  BY <1>1, <1>3 DEF PatientInv, AloneInv, EnabledInv, LockInv, MetaInv
<1>5. ArtInv' BY <1>1, <1>3 DEF PatientInv, ArtInv, Whole
<1>6. InstalledInv' /\ PassedInv' /\ SettingsInv' /\ ReadyInv'
  BY <1>1, <1>3 DEF PatientInv, InstalledInv, PassedInv, SettingsInv, ReadyInv
<1>7. MadeInv' /\ FlagInv' BY <1>1, <1>3 DEF PatientInv, MadeInv, FlagInv
<1>8. GlyphInv' BY <1>1, <1>3 DEF PatientInv, GlyphInv, Covered, Behind
<1>9. QED BY <1>2, <1>4, <1>5, <1>6, <1>7, <1>8 DEF PatientInv

\* Every state a patient user can reach satisfies the invariant.
THEOREM PatientInductive ==
  ASSUME Patient
  PROVE  Spec => []PatientInv
<1>1. ASSUME PatientInv, Next PROVE PatientInv'
  <2>1. LibraryInv'
    BY <1>1, JobStep, TreeStep, KeptStep, FilesStep DEF PatientInv, LibraryInv
  <2>2. AloneInv' /\ EnabledInv' /\ LockInv' /\ MetaInv'
    BY <1>1, Patient, AloneStep, EnabledStep, LockStep, MetaStep DEF PatientInv, LibraryInv
  <2>3. ArtInv' /\ InstalledInv' /\ PassedInv' /\ SettingsInv'
    BY <1>1, ArtStep, InstalledStep, PassedStep, SettingsStep DEF PatientInv, LibraryInv
  <2>4. ReadyInv' /\ MadeInv' /\ GlyphInv' /\ FlagInv'
    BY <1>1, ReadyStep, MadeStep, GlyphStep, FlagStep DEF PatientInv, LibraryInv
  <2>5. QED BY <2>1, <2>2, <2>3, <2>4 DEF PatientInv
<1>2. PatientInv /\ [Next]_vars => PatientInv' BY <1>1, StutterPatient
<1>3. QED BY <1>2, InitPatient, PTL DEF Spec

\* What the console reads is whole at every moment, and speaks of the titles and
\* genres that are on the disk once the saves have ended.
THEOREM ReadsWhole ==
  ASSUME Patient
  PROVE  Spec => []ConsoleReadsWhole
<1>1. ASSUME PatientInv PROVE ConsoleReadsWhole
  <2>1. DescriptorWhole BY <1>1 DEF PatientInv, ArtInv, DescriptorWhole
  <2>2. EnabledMeansReady
    BY <1>1 DEF PatientInv, ReadyInv, SettingsInv, EnabledMeansReady
  <2>3. ASSUME shown, Enabled,
               \A w \in {"open", "save", "genre"} : job[w].at = "idle" /\ w \notin failed
        PROVE  Covered
    <3>1. fontLock = None BY <1>1, <2>3 DEF PatientInv, LockInv, FontLock, FontSteps
    <3>2. \A w \in {"open", "save", "genre"} : ~Behind(w) BY <2>3 DEF Behind, ArtSteps
    <3>3. QED BY <1>1, <2>3, <3>1, <3>2 DEF PatientInv, GlyphInv
  <2>4. FontsCoverTitles BY <2>3 DEF FontsCoverTitles, Covered
  <2>5. QED BY <2>1, <2>2, <2>4 DEF ConsoleReadsWhole
<1>2. QED BY <1>1, PatientInductive, PTL

\* An enabled library shows artwork made of what is on the disk, or carries the flag
\* that makes the next save prepare it again.
THEOREM StaleGetsFlagged ==
  ASSUME Patient
  PROVE  Spec => []StaleIsFlagged
<1>1. PatientInv => StaleIsFlagged BY DEF PatientInv, FlagInv, StaleIsFlagged
<1>2. QED BY <1>1, PatientInductive, PTL

=============================================================================
