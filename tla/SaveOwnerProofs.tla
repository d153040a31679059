-------------------------- MODULE SaveOwnerProofs ---------------------------
(***************************************************************************)
(* Proofs about SaveOwner, for every set of games and directories and      *)
(* every MaxVersion.  BaseInv is inductive whichever failures the code     *)
(* ignores, so types and the order of schema markers and data hold in      *)
(* every reachable state.  IInv is, where no stopped engine goes on        *)
(* writing: no save is misattributed.  SurvivalInv is, where nothing is    *)
(* ignored: what was flushed survives, and the hook implements             *)
(* PerGameSaves.  One lemma per conjunct, one step per action that can     *)
(* disturb it.                                                             *)
(***************************************************************************)
EXTENDS SaveOwner, TLAPS

-----------------------------------------------------------------------------
(* Typing of the operators the actions are built from *)

\* An owner in memory names a game and a directory.
LEMMA OwnerFields ==
  ASSUME NEW o \in Owners \cup {Absent}, o # Absent
  PROVE  o.id \in Games /\ o.dir \in Dirs
  BY DEF Owners

\* OwnerOf builds an owner, never "unknown".
LEMMA OwnerTyped ==
  ASSUME NEW g \in Games, NEW d \in Dirs
  PROVE  /\ OwnerOf(g, d) \in Owners /\ OwnerOf(g, d) # Absent
         /\ OwnerOf(g, d).id = g /\ OwnerOf(g, d).dir = d
  BY SaveOwnerAssumption DEF Owners, OwnerOf

\* Claim builds the marker file it says.
LEMMA ClaimTyped ==
  ASSUME NEW g \in Games, NEW d \in Dirs, NEW s \in {"ready", "pending"}
  PROVE  /\ Claim(s, g, d) \in Claims /\ Claim(s, g, d) # Absent
         /\ Claim(s, g, d).state = s
         /\ Claim(s, g, d).id = g /\ Claim(s, g, d).dir = d
  BY SaveOwnerAssumption DEF Claims, Claim

\* Contents of slots and files; an absent file is none.
LEMMA ContentTyped ==
  /\ Junk \in Contents /\ Junk.game = NoGame
  /\ \A g \in Games : Blank(g) \in Contents /\ Blank(g).game = g /\ Blank(g).n = 0
  /\ \A c \in Contents : c.n \in 0..MaxVersion
  /\ Absent \notin Contents
  BY SaveOwnerAssumption DEF Contents, Junk, Blank

\* A newer save belongs to the same game.
LEMMA NewerTyped ==
  ASSUME NEW c \in Contents
  PROVE  Newer(c) \subseteq Contents /\ \A d \in Newer(c) : d.game = c.game
  BY SaveOwnerAssumption DEF Contents, Newer

\* Every game has a directory.
LEMMA WhereTyped ==
  ASSUME TypeOK, NEW g \in Games
  PROVE  where[g] \in Dirs
  BY DEF TypeOK, Placements

\* What an activation reads is a save.
LEMMA LoadSourceTyped ==
  ASSUME TypeOK, NEW g \in Games
  PROVE  LoadSource(g) \in Contents
  BY ContentTyped DEF LoadSource, TypeOK

\* ... and the game's own.
LEMMA LoadSourceOwn ==
  ASSUME OwnCopies, NEW g \in Games
  PROVE  LoadSource(g).game = g
  BY ContentTyped DEF LoadSource, OwnCopies

\* save_owner_load yields an owner or none.
LEMMA LoadedTyped ==
  ASSUME NEW m \in Claims \cup {Absent}
  PROVE  Loaded(m) \in Owners \cup {Absent}
  BY OwnerTyped DEF Loaded, Claims

\* While copies are written the owner is known and its fields are typed.
LEMMA FlushOwner ==
  ASSUME BaseInv, pc \in FlushPcs \cup {"disown"}
  PROVE  owner # Absent /\ owner.id \in Games /\ owner.dir \in Dirs
  BY OwnerFields DEF BaseInv, TypeOK, FlushInv, FlushPcs, FlushAllowed, MarkerAgrees

\* However a flush ends, control goes to a step of the caller.
LEMMA FlushEnds ==
  ASSUME BaseInv, pc \in FlushPcs, FlushSucceeds \/ FlushFails
  PROVE  /\ pc' \in Steps /\ op' \in Purposes
         /\ bank' \in Contents /\ failed' \in BOOLEAN
         /\ flushed' \in [Games -> 0..MaxVersion]
<1>1. CASE FlushSucceeds
  BY <1>1, FlushOwner, ContentTyped
     DEF FlushSucceeds, BaseInv, TypeOK, FlushInv, FlushPcs, Steps, Purposes
<1>2. CASE FlushFails
  BY <1>2 DEF FlushFails, Abort, BaseInv, TypeOK, FlushInv, FlushPcs, Steps, Purposes
<1>3. QED BY <1>1, <1>2

\* A flush that succeeded goes on with what it was done for.
LEMMA FlushGoesOn ==
  ASSUME BaseInv, pc \in FlushPcs, FlushSucceeds
  PROVE  /\ op' = op /\ failed' = failed
         /\ bank' = IF op = "confirm" THEN live ELSE bank
         /\ \/ pc' = "idle" /\ op \in {"flush", "confirm"}
            \/ pc' = "disown" /\ op \in {"release", "legacy", "boot"}
            \/ pc' = "import" /\ op = "switch"
  BY DEF FlushSucceeds, BaseInv, TypeOK, FlushInv, Purposes

-----------------------------------------------------------------------------
(* Every action preserves every part of BaseInv *)

\* The files and the hook's memory keep their shape.
LEMMA TypeOKStep ==
  ASSUME BaseInv, Next
  PROVE  TypeOK'
<1>1. ASSUME NEW r \in Outcomes, WriteSchema(r)
      PROVE  TypeOK'
  BY <1>1
     DEF WriteSchema, BaseInv, TypeOK, Steps, usb, nand, liveFiles, memory, call
<1>2. ASSUME NEW r \in Outcomes, StoreCanonical(r)
      PROVE  TypeOK'
  BY <1>2
     DEF StoreCanonical, BaseInv, TypeOK, Steps, usb, nand, liveFiles, memory, call
<1>3. ASSUME NEW r \in Outcomes, RenameRecoverySchema(r)
      PROVE  TypeOK'
  BY <1>3, FlushEnds
     DEF RenameRecoverySchema, BaseInv, TypeOK, FlushPcs, Steps, usb, nand,
         liveFiles, memory, call
<1>4. ASSUME NEW r \in Outcomes, StoreSnapshot(r)
      PROVE  TypeOK'
  BY <1>4, FlushEnds, FlushOwner
     DEF StoreSnapshot, BaseInv, TypeOK, FlushPcs, Steps, usb, nand, liveFiles,
         memory, call
<1>5. ASSUME NEW r \in Outcomes, Disown(r)
      PROVE  TypeOK'
  <2>1. Claim("pending", owner.id, owner.dir) \in Claims
    BY <1>5, FlushOwner, ClaimTyped DEF Disown
  <2>2. QED
    BY <1>5, <2>1, ContentTyped
       DEF Disown, BaseInv, TypeOK, Steps, usb, nand, liveFiles, memory, call
<1>6. ASSUME FallBackToNand
      PROVE  TypeOK'
  BY <1>6
     DEF FallBackToNand, BaseInv, TypeOK, Steps, Purposes, usb, nand, liveFiles,
         memory, call
<1>7. ASSUME UnlinkSnapshot
      PROVE  TypeOK'
  BY <1>7, FlushEnds
     DEF UnlinkSnapshot, BaseInv, TypeOK, FlushPcs, usb, nand, liveFiles, memory,
         call
<1>8. ASSUME MakeRecoveryDir
      PROVE  TypeOK'
  BY <1>8
     DEF MakeRecoveryDir, BaseInv, TypeOK, Steps, Purposes, usb, nand, liveFiles,
         memory, call
<1>9. ASSUME NandUnavailable
      PROVE  TypeOK'
  BY <1>9, FlushEnds
     DEF NandUnavailable, BaseInv, TypeOK, FlushPcs, usb, nand, liveFiles, memory,
         call
<1>10. ASSUME NEW g \in Games, NEW r \in Outcomes, ActivateSame(g, r)
      PROVE  TypeOK'
  <2>1. /\ Claim("ready", g, where[g]) \in Claims
        /\ OwnerOf(g, where[g]) \in Owners
    BY WhereTyped, ClaimTyped, OwnerTyped DEF BaseInv
  <2>2. QED
    BY <1>10, <2>1
       DEF ActivateSame, Abort, BaseInv, TypeOK, Steps, Purposes, usb, nand,
           liveFiles, memory, call
<1>11. ASSUME NEW r \in Outcomes, Invalidate(r)
      PROVE  TypeOK'
  <2>1. /\ TypeOK /\ next \in Games
        /\ Claim("pending", next, where[next]) \in Claims
        /\ LoadSource(next) \in Contents
    BY <1>11, WhereTyped, ClaimTyped, LoadSourceTyped
       DEF Invalidate, BaseInv, FlushInv
  <2>2. QED
    BY <1>11, <2>1
       DEF Invalidate, TypeOK, Abort, Steps, Purposes, usb, nand, liveFiles,
           memory, call
<1>12. ASSUME NEW r \in Outcomes, RefreshDigest(r)
      PROVE  TypeOK'
  BY <1>12
     DEF RefreshDigest, BaseInv, TypeOK, Abort, Steps, Purposes, usb, nand,
         liveFiles, memory, call
<1>13. ASSUME NEW r \in Outcomes, Commit(r)
      PROVE  TypeOK'
  <2>1. /\ next \in Games
        /\ Claim("ready", next, where[next]) \in Claims
        /\ OwnerOf(next, where[next]) \in Owners
    BY <1>13, WhereTyped, ClaimTyped, OwnerTyped DEF Commit, BaseInv, FlushInv
  <2>2. QED
    BY <1>13, <2>1
       DEF Commit, Abort, BaseInv, TypeOK, Steps, Purposes, usb, nand, liveFiles,
           memory, call
<1>14. ASSUME NEW g \in Games, ActivateRefused(g)
      PROVE  TypeOK'
  BY <1>14
     DEF ActivateRefused, BaseInv, TypeOK, Abort, Steps, Purposes, usb, nand,
         liveFiles, memory, call
<1>15. ASSUME NEW g \in Games, ActivateSwitch(g)
      PROVE  TypeOK'
  BY <1>15
     DEF ActivateSwitch, BaseInv, TypeOK, Steps, Purposes, usb, nand, liveFiles,
         memory, call
<1>16. ASSUME NEW g \in Games, ActivateFresh(g)
      PROVE  TypeOK'
  BY <1>16
     DEF ActivateFresh, BaseInv, TypeOK, Steps, Purposes, usb, nand, liveFiles,
         memory, call
<1>17. ASSUME ImportUnreadable
      PROVE  TypeOK'
  BY <1>17
     DEF ImportUnreadable, BaseInv, TypeOK, Abort, Steps, Purposes, usb, nand,
         liveFiles, memory, call
<1>18. ASSUME WriteSlot
      PROVE  TypeOK'
  BY <1>18
     DEF WriteSlot, BaseInv, TypeOK, Steps, Purposes, usb, nand, liveFiles, memory,
         call
<1>19. ASSUME WriteSlotFails
      PROVE  TypeOK'
  BY <1>19, ContentTyped
     DEF WriteSlotFails, BaseInv, TypeOK, Abort, Steps, Purposes, usb, nand,
         liveFiles, memory, call
<1>20. ASSUME CallFlush
      PROVE  TypeOK'
  BY <1>20
     DEF CallFlush, BaseInv, TypeOK, Steps, Purposes, usb, nand, liveFiles, memory,
         call
<1>21. ASSUME CallRelease
      PROVE  TypeOK'
  BY <1>21
     DEF CallRelease, BaseInv, TypeOK, Steps, Purposes, usb, nand, liveFiles, memory,
         call
<1>22. ASSUME ResetBindings
      PROVE  TypeOK'
  BY <1>22
     DEF ResetBindings, BaseInv, TypeOK, Steps, Purposes, usb, nand, liveFiles,
         memory, call
<1>23. ASSUME ResetLegacy
      PROVE  TypeOK'
  BY <1>23, ZenonT(60)
     DEF ResetLegacy, BaseInv, TypeOK, Steps, Purposes, usb, nand, liveFiles, memory,
         call
<1>24. ASSUME InitFails
      PROVE  TypeOK'
  BY <1>24
     DEF InitFails, BaseInv, TypeOK, Abort, Steps, Purposes, usb, nand, liveFiles,
         memory, call
<1>25. ASSUME NEW g \in Games, Bind(g)
      PROVE  TypeOK'
  BY <1>25
     DEF Bind, BaseInv, TypeOK, Steps, Purposes, usb, nand, liveFiles, memory, call
<1>26. ASSUME EngineWritesData
      PROVE  TypeOK'
  BY <1>26, NewerTyped
     DEF EngineWritesData, BaseInv, TypeOK, Steps, usb, nand, liveFiles, memory, call
<1>27. ASSUME NEW r \in Outcomes, EngineWritesMeta(r)
      PROVE  TypeOK'
  BY <1>27
     DEF EngineWritesMeta, BaseInv, TypeOK, Steps, Purposes, usb, nand, liveFiles,
         memory, call
<1>28. ASSUME NEW v \in BOOLEAN, Boot(v)
      PROVE  TypeOK'
  BY <1>28, LoadedTyped, ContentTyped
     DEF Boot, BaseInv, TypeOK, Steps, Purposes, usb, nand, liveFiles, memory, call
<1>29. ASSUME Crash
      PROVE  TypeOK'
  BY <1>29, ContentTyped
     DEF Crash, BaseInv, TypeOK, Steps, Purposes, usb, nand, liveFiles, memory, call
<1>30. ASSUME EditorMoves
      PROVE  TypeOK'
  BY <1>30
     DEF EditorMoves, BaseInv, TypeOK, Steps, Purposes, usb, nand, liveFiles, memory,
         call
<1>31. ASSUME StoppedEngineWrites
      PROVE  TypeOK'
  BY <1>31, ContentTyped
     DEF StoppedEngineWrites, BaseInv, TypeOK, usb, nand, liveFiles, memory, call
<1>32. QED
  BY <1>1, <1>2, <1>3, <1>4, <1>5, <1>6, <1>7, <1>8, <1>9, <1>10, <1>11,
     <1>12, <1>13, <1>14, <1>15, <1>16, <1>17, <1>18, <1>19, <1>20, <1>21,
     <1>22, <1>23, <1>24, <1>25, <1>26, <1>27, <1>28, <1>29, <1>30, <1>31
     DEF Next, FlushStep, ActivateStep, ScriptStep, EngineStep

\* Only the two stores of save_owner_flush write a copy, and what they write
\* is the owner's.
LEMMA OwnCopiesStep ==
  ASSUME IInv, Next
  PROVE  OwnCopies'
<1>1. ASSUME NEW r \in Outcomes, StoreCanonical(r)
      PROVE  OwnCopies'
  <2>1. live \in Contents /\ live # Absent /\ live.game = owner.id
    BY <1>1, FlushOwner, ContentTyped, ClaimTyped
       DEF StoreCanonical, IInv, BaseInv, TypeOK, FlushInv, BankInv, FlushPcs, FlushAllowed,
           MarkerAgrees, Claimed
  <2>2. QED
    BY <1>1, <2>1
       DEF StoreCanonical, IInv, BaseInv, TypeOK, OwnCopies, IdentityIs, nand
<1>2. ASSUME NEW r \in Outcomes, StoreSnapshot(r)
      PROVE  OwnCopies'
  <2>1. live \in Contents /\ live # Absent /\ live.game = owner.id
    BY <1>2, FlushOwner, ContentTyped, ClaimTyped
       DEF StoreSnapshot, IInv, BaseInv, TypeOK, FlushInv, BankInv, FlushPcs, FlushAllowed,
           MarkerAgrees, Claimed
  <2>2. QED
    BY <1>2, <2>1 DEF StoreSnapshot, IInv, BaseInv, TypeOK, OwnCopies, usb
<1>3. ASSUME UnlinkSnapshot
      PROVE  OwnCopies'
  BY <1>3, FlushOwner
     DEF UnlinkSnapshot, IInv, BaseInv, TypeOK, OwnCopies, FlushPcs, usb, nand,
         liveFiles, memory, call
<1>4. CASE UNCHANGED <<canonical, recovery>>
  BY <1>4 DEF IInv, BaseInv, OwnCopies
<1>5. QED
  BY <1>1, <1>2, <1>3, <1>4
     DEF Next, FlushStep, ActivateStep, ScriptStep, EngineStep, WriteSchema,
         RenameRecoverySchema, Disown, FallBackToNand, MakeRecoveryDir,
         NandUnavailable, ActivateSame, Invalidate, RefreshDigest, Commit,
         ActivateRefused, ActivateSwitch, ActivateFresh, ImportUnreadable,
         WriteSlot, WriteSlotFails, CallFlush, CallRelease, ResetBindings,
         ResetLegacy, InitFails, Bind, EngineWritesData, EngineWritesMeta, Boot,
         Crash, EditorMoves, StoppedEngineWrites, usb, nand, liveFiles, memory,
         call

\* A copy is stored only beside its schema marker.
LEMMA SchemaStep ==
  ASSUME BaseInv, Next
  PROVE  SchemaPrecedesData'
<1>1. ASSUME NEW r \in Outcomes, WriteSchema(r)
      PROVE  SchemaPrecedesData'
  BY <1>1
     DEF WriteSchema, BaseInv, SchemaPrecedesData, usb, nand, liveFiles, memory, call
<1>2. ASSUME NEW r \in Outcomes, StoreCanonical(r)
      PROVE  SchemaPrecedesData'
  BY <1>2
     DEF StoreCanonical, BaseInv, TypeOK, SchemaPrecedesData, usb, nand, liveFiles,
         memory, call
<1>3. ASSUME NEW r \in Outcomes, StoreSnapshot(r)
      PROVE  SchemaPrecedesData'
  BY <1>3
     DEF StoreSnapshot, BaseInv, SchemaPrecedesData, usb, nand, liveFiles, memory,
         call
<1>4. ASSUME UnlinkSnapshot
      PROVE  SchemaPrecedesData'
  BY <1>4, FlushOwner
     DEF UnlinkSnapshot, BaseInv, TypeOK, SchemaPrecedesData, FlushPcs, usb, nand,
         liveFiles, memory, call
<1>5. ASSUME MakeRecoveryDir
      PROVE  SchemaPrecedesData'
  BY <1>5
     DEF MakeRecoveryDir, BaseInv, SchemaPrecedesData, usb, nand, liveFiles, memory,
         call
<1>6. ASSUME NEW r \in Outcomes, RenameRecoverySchema(r)
      PROVE  SchemaPrecedesData'
  BY <1>6
     DEF RenameRecoverySchema, BaseInv, SchemaPrecedesData, FlushInv, usb, nand,
         liveFiles, memory, call
<1>7. CASE UNCHANGED <<schema, canonical, recDir, recovery>>
  BY <1>7 DEF BaseInv, SchemaPrecedesData
<1>8. QED
  BY <1>1, <1>2, <1>3, <1>4, <1>5, <1>6, <1>7
     DEF Next, FlushStep, ActivateStep, ScriptStep, EngineStep, Disown,
         FallBackToNand, NandUnavailable, ActivateSame, Invalidate, RefreshDigest,
         Commit, ActivateRefused, ActivateSwitch, ActivateFresh, ImportUnreadable,
         WriteSlot, WriteSlotFails, CallFlush, CallRelease, ResetBindings,
         ResetLegacy, InitFails, Bind, EngineWritesData, EngineWritesMeta, Boot,
         Crash, EditorMoves, StoppedEngineWrites, usb, nand, liveFiles, memory,
         call

\* While a copy is written the marker, the digest and the owner agree.
LEMMA FlushInvStep ==
  ASSUME BaseInv, Next
  PROVE  FlushInv'
<1>1. ASSUME NEW r \in Outcomes, WriteSchema(r)
      PROVE  FlushInv'
  BY <1>1
     DEF WriteSchema, BaseInv, TypeOK, FlushInv, FlushPcs, FlushAllowed,
         MarkerAgrees, usb, nand, liveFiles, memory, call
<1>2. ASSUME NEW r \in Outcomes, StoreCanonical(r)
      PROVE  FlushInv'
  BY <1>2
     DEF StoreCanonical, BaseInv, TypeOK, FlushInv, FlushPcs, FlushAllowed,
         MarkerAgrees, usb, nand, liveFiles, memory, call
<1>3. ASSUME NEW r \in Outcomes, RenameRecoverySchema(r)
      PROVE  FlushInv'
  BY <1>3
     DEF RenameRecoverySchema, BaseInv, TypeOK, FlushInv, FlushPcs, FlushAllowed,
         MarkerAgrees, FlushFails, Abort, usb, nand, liveFiles, memory, call
<1>4. ASSUME NEW r \in Outcomes, StoreSnapshot(r)
      PROVE  FlushInv'
  BY <1>4, FlushGoesOn
     DEF StoreSnapshot, BaseInv, TypeOK, FlushInv, FlushPcs, FlushAllowed,
         MarkerAgrees, FlushFails, Abort, usb, nand, liveFiles, memory, call
<1>5. ASSUME NEW r \in Outcomes, Disown(r)
      PROVE  FlushInv'
  BY <1>5
     DEF Disown, BaseInv, TypeOK, FlushInv, FlushPcs, FlushAllowed, MarkerAgrees,
         usb, nand, liveFiles, memory, call
<1>6. ASSUME FallBackToNand
      PROVE  FlushInv'
  BY <1>6
     DEF FallBackToNand, BaseInv, TypeOK, FlushInv, FlushPcs, FlushAllowed,
         MarkerAgrees, usb, nand, liveFiles, memory, call
<1>7. ASSUME UnlinkSnapshot
      PROVE  FlushInv'
  BY <1>7, FlushGoesOn
     DEF UnlinkSnapshot, BaseInv, TypeOK, FlushInv, FlushPcs, FlushAllowed,
         MarkerAgrees, usb, nand, liveFiles, memory, call
<1>8. ASSUME MakeRecoveryDir
      PROVE  FlushInv'
  BY <1>8
     DEF MakeRecoveryDir, BaseInv, TypeOK, FlushInv, FlushPcs, FlushAllowed,
         MarkerAgrees, usb, nand, liveFiles, memory, call
<1>9. ASSUME NandUnavailable
      PROVE  FlushInv'
  BY <1>9
     DEF NandUnavailable, BaseInv, TypeOK, FlushInv, FlushPcs, FlushAllowed,
         MarkerAgrees, FlushFails, Abort, usb, nand, liveFiles, memory, call
<1>10. ASSUME NEW g \in Games, NEW r \in Outcomes, ActivateSame(g, r)
      PROVE  FlushInv'
  BY <1>10, WhereTyped, ClaimTyped, OwnerTyped
     DEF ActivateSame, BaseInv, TypeOK, FlushInv, FlushPcs, FlushAllowed,
         MarkerAgrees, Abort, Claim, OwnerOf, usb, nand, liveFiles,
         memory, call
<1>11. ASSUME NEW r \in Outcomes, Invalidate(r)
      PROVE  FlushInv'
  BY <1>11, WhereTyped, ClaimTyped, OwnerTyped
     DEF Invalidate, BaseInv, TypeOK, FlushInv, FlushPcs, FlushAllowed, MarkerAgrees,
         Abort, Claim, OwnerOf, usb, nand, liveFiles, memory, call
<1>12. ASSUME NEW r \in Outcomes, RefreshDigest(r)
      PROVE  FlushInv'
  BY <1>12
     DEF RefreshDigest, BaseInv, TypeOK, FlushInv, FlushPcs, FlushAllowed,
         MarkerAgrees, Abort, usb, nand, liveFiles, memory, call
<1>13. ASSUME NEW r \in Outcomes, Commit(r)
      PROVE  FlushInv'
  <2>1. next \in Games /\ where[next] \in Dirs
    BY <1>13, WhereTyped DEF Commit, BaseInv, FlushInv
  <2>2. OwnerOf(next, where[next]) # Absent
    BY <2>1, OwnerTyped
  <2>3. QED
    BY <1>13, <2>1, <2>2
       DEF Commit, BaseInv, TypeOK, FlushInv, FlushPcs, FlushAllowed, MarkerAgrees,
           Abort, Claim, OwnerOf, usb, nand, liveFiles, memory, call
<1>14. ASSUME NEW g \in Games, ActivateRefused(g)
      PROVE  FlushInv'
  BY <1>14
     DEF ActivateRefused, BaseInv, TypeOK, FlushInv, FlushPcs, FlushAllowed,
         MarkerAgrees, Abort, usb, nand, liveFiles, memory, call
<1>15. ASSUME NEW g \in Games, ActivateSwitch(g)
      PROVE  FlushInv'
  BY <1>15
     DEF ActivateSwitch, BaseInv, TypeOK, FlushInv, FlushPcs, FlushAllowed,
         MarkerAgrees, usb, nand, liveFiles, memory, call
<1>16. ASSUME NEW g \in Games, ActivateFresh(g)
      PROVE  FlushInv'
  BY <1>16
     DEF ActivateFresh, BaseInv, TypeOK, FlushInv, FlushPcs, FlushAllowed,
         MarkerAgrees, usb, nand, liveFiles, memory, call
<1>17. ASSUME ImportUnreadable
      PROVE  FlushInv'
  BY <1>17
     DEF ImportUnreadable, BaseInv, TypeOK, FlushInv, FlushPcs, FlushAllowed,
         MarkerAgrees, Abort, usb, nand, liveFiles, memory, call
<1>18. ASSUME WriteSlot
      PROVE  FlushInv'
  BY <1>18
     DEF WriteSlot, BaseInv, TypeOK, FlushInv, FlushPcs, FlushAllowed, MarkerAgrees,
         usb, nand, liveFiles, memory, call
<1>19. ASSUME WriteSlotFails
      PROVE  FlushInv'
  BY <1>19
     DEF WriteSlotFails, BaseInv, TypeOK, FlushInv, FlushPcs, FlushAllowed,
         MarkerAgrees, Abort, usb, nand, liveFiles, memory, call
<1>20. ASSUME CallFlush
      PROVE  FlushInv'
  BY <1>20
     DEF CallFlush, BaseInv, TypeOK, FlushInv, FlushPcs, FlushAllowed, MarkerAgrees,
         usb, nand, liveFiles, memory, call
<1>21. ASSUME CallRelease
      PROVE  FlushInv'
  BY <1>21
     DEF CallRelease, BaseInv, TypeOK, FlushInv, FlushPcs, FlushAllowed,
         MarkerAgrees, usb, nand, liveFiles, memory, call
<1>22. ASSUME ResetBindings
      PROVE  FlushInv'
  BY <1>22
     DEF ResetBindings, BaseInv, TypeOK, FlushInv, FlushPcs, FlushAllowed,
         MarkerAgrees, usb, nand, liveFiles, memory, call
<1>23. ASSUME ResetLegacy
      PROVE  FlushInv'
  BY <1>23
     DEF ResetLegacy, BaseInv, TypeOK, FlushInv, FlushPcs, FlushAllowed,
         MarkerAgrees, usb, nand, liveFiles, memory, call
<1>24. ASSUME InitFails
      PROVE  FlushInv'
  BY <1>24
     DEF InitFails, BaseInv, TypeOK, FlushInv, FlushPcs, FlushAllowed, MarkerAgrees,
         Abort, usb, nand, liveFiles, memory, call
<1>25. ASSUME NEW g \in Games, Bind(g)
      PROVE  FlushInv'
  BY <1>25
     DEF Bind, BaseInv, TypeOK, FlushInv, FlushPcs, FlushAllowed, MarkerAgrees, usb,
         nand, liveFiles, memory, call
<1>26. ASSUME EngineWritesData
      PROVE  FlushInv'
  BY <1>26
     DEF EngineWritesData, BaseInv, TypeOK, FlushInv, FlushPcs, FlushAllowed,
         MarkerAgrees, usb, nand, liveFiles, memory, call
<1>27. ASSUME NEW r \in Outcomes, EngineWritesMeta(r)
      PROVE  FlushInv'
  BY <1>27
     DEF EngineWritesMeta, BaseInv, TypeOK, FlushInv, FlushPcs, FlushAllowed,
         MarkerAgrees, usb, nand, liveFiles, memory, call
<1>28. ASSUME NEW v \in BOOLEAN, Boot(v)
      PROVE  FlushInv'
  BY <1>28, LoadedTyped
     DEF Boot, BaseInv, TypeOK, FlushInv, FlushPcs, FlushAllowed, MarkerAgrees,
         Loaded, Claims, Claim, OwnerOf, usb, nand, liveFiles, memory, call
<1>29. ASSUME Crash
      PROVE  FlushInv'
  BY <1>29
     DEF Crash, BaseInv, TypeOK, FlushInv, FlushPcs, FlushAllowed, MarkerAgrees, usb,
         nand, liveFiles, memory, call
<1>30. ASSUME EditorMoves
      PROVE  FlushInv'
  BY <1>30
     DEF EditorMoves, BaseInv, TypeOK, FlushInv, FlushPcs, FlushAllowed,
         MarkerAgrees, usb, nand, liveFiles, memory, call
<1>31. ASSUME StoppedEngineWrites
      PROVE  FlushInv'
  BY <1>31
     DEF StoppedEngineWrites, BaseInv, TypeOK, FlushInv, FlushPcs, FlushAllowed,
         MarkerAgrees, usb, nand, liveFiles, memory, call
<1>32. QED
  BY <1>1, <1>2, <1>3, <1>4, <1>5, <1>6, <1>7, <1>8, <1>9, <1>10, <1>11,
     <1>12, <1>13, <1>14, <1>15, <1>16, <1>17, <1>18, <1>19, <1>20, <1>21,
     <1>22, <1>23, <1>24, <1>25, <1>26, <1>27, <1>28, <1>29, <1>30, <1>31
     DEF Next, FlushStep, ActivateStep, ScriptStep, EngineStep

\* While a game is imported the bank is nobody's, and then holds its save.
LEMMA ImportInvStep ==
  ASSUME IInv, Next
  PROVE  ImportInv'
<1>1. ASSUME NEW r \in Outcomes, WriteSchema(r)
      PROVE  ImportInv'
  BY <1>1
     DEF WriteSchema, IInv, BaseInv, TypeOK, ImportInv, FlushPcs, usb, nand, liveFiles,
         memory, call
<1>2. ASSUME NEW r \in Outcomes, StoreCanonical(r)
      PROVE  ImportInv'
  BY <1>2
     DEF StoreCanonical, IInv, BaseInv, TypeOK, ImportInv, FlushPcs, usb, nand, liveFiles,
         memory, call
<1>3. ASSUME NEW r \in Outcomes, RenameRecoverySchema(r)
      PROVE  ImportInv'
  BY <1>3
     DEF RenameRecoverySchema, IInv, BaseInv, TypeOK, ImportInv, FlushPcs, FlushFails,
         Abort, FlushInv, usb, nand, liveFiles, memory, call
<1>4. ASSUME NEW r \in Outcomes, StoreSnapshot(r)
      PROVE  ImportInv'
  BY <1>4, FlushGoesOn
     DEF StoreSnapshot, IInv, BaseInv, TypeOK, ImportInv, FlushPcs, FlushFails, Abort,
         FlushInv, usb, nand, liveFiles, memory, call
<1>5. ASSUME NEW r \in Outcomes, Disown(r)
      PROVE  ImportInv'
  BY <1>5
     DEF Disown, IInv, BaseInv, TypeOK, ImportInv, FlushPcs, FlushInv, usb, nand,
         liveFiles, memory, call
<1>6. ASSUME FallBackToNand
      PROVE  ImportInv'
  BY <1>6
     DEF FallBackToNand, IInv, BaseInv, TypeOK, ImportInv, FlushPcs, usb, nand, liveFiles,
         memory, call
<1>7. ASSUME UnlinkSnapshot
      PROVE  ImportInv'
  BY <1>7, FlushGoesOn
     DEF UnlinkSnapshot, IInv, BaseInv, TypeOK, ImportInv, FlushPcs, FlushInv, usb, nand,
         liveFiles, memory, call
<1>8. ASSUME MakeRecoveryDir
      PROVE  ImportInv'
  BY <1>8
     DEF MakeRecoveryDir, IInv, BaseInv, TypeOK, ImportInv, FlushPcs, usb, nand, liveFiles,
         memory, call
<1>9. ASSUME NandUnavailable
      PROVE  ImportInv'
  BY <1>9
     DEF NandUnavailable, IInv, BaseInv, TypeOK, ImportInv, FlushPcs, FlushFails, Abort,
         FlushInv, usb, nand, liveFiles, memory, call
<1>10. ASSUME NEW g \in Games, NEW r \in Outcomes, ActivateSame(g, r)
      PROVE  ImportInv'
  BY <1>10
     DEF ActivateSame, IInv, BaseInv, TypeOK, ImportInv, FlushPcs, Abort, usb, nand,
         liveFiles, memory, call
<1>11. ASSUME NEW r \in Outcomes, Invalidate(r)
      PROVE  ImportInv'
  BY <1>11, WhereTyped, ClaimTyped, LoadSourceOwn
     DEF Invalidate, IInv, BaseInv, TypeOK, FlushInv, ImportInv, FlushPcs, Abort, usb, nand,
         liveFiles, memory, call
<1>12. ASSUME NEW r \in Outcomes, RefreshDigest(r)
      PROVE  ImportInv'
  BY <1>12
     DEF RefreshDigest, IInv, BaseInv, TypeOK, ImportInv, FlushPcs, Abort, usb, nand,
         liveFiles, memory, call
<1>13. ASSUME NEW r \in Outcomes, Commit(r)
      PROVE  ImportInv'
  BY <1>13
     DEF Commit, IInv, BaseInv, TypeOK, ImportInv, FlushPcs, Abort, usb, nand, liveFiles,
         memory, call
<1>14. ASSUME NEW g \in Games, ActivateRefused(g)
      PROVE  ImportInv'
  BY <1>14
     DEF ActivateRefused, IInv, BaseInv, TypeOK, ImportInv, FlushPcs, Abort, usb, nand,
         liveFiles, memory, call
<1>15. ASSUME NEW g \in Games, ActivateSwitch(g)
      PROVE  ImportInv'
  BY <1>15
     DEF ActivateSwitch, IInv, BaseInv, TypeOK, ImportInv, FlushPcs, usb, nand, liveFiles,
         memory, call
<1>16. ASSUME NEW g \in Games, ActivateFresh(g)
      PROVE  ImportInv'
  BY <1>16
     DEF ActivateFresh, IInv, BaseInv, TypeOK, ImportInv, FlushPcs, usb, nand, liveFiles,
         memory, call
<1>17. ASSUME ImportUnreadable
      PROVE  ImportInv'
  BY <1>17
     DEF ImportUnreadable, IInv, BaseInv, TypeOK, ImportInv, FlushPcs, Abort, usb, nand,
         liveFiles, memory, call
<1>18. ASSUME WriteSlot
      PROVE  ImportInv'
  BY <1>18
     DEF WriteSlot, IInv, BaseInv, TypeOK, ImportInv, FlushPcs, usb, nand, liveFiles,
         memory, call
<1>19. ASSUME WriteSlotFails
      PROVE  ImportInv'
  BY <1>19
     DEF WriteSlotFails, IInv, BaseInv, TypeOK, ImportInv, FlushPcs, Abort, usb, nand,
         liveFiles, memory, call
<1>20. ASSUME CallFlush
      PROVE  ImportInv'
  BY <1>20
     DEF CallFlush, IInv, BaseInv, TypeOK, ImportInv, FlushPcs, usb, nand, liveFiles,
         memory, call
<1>21. ASSUME CallRelease
      PROVE  ImportInv'
  BY <1>21
     DEF CallRelease, IInv, BaseInv, TypeOK, ImportInv, FlushPcs, usb, nand, liveFiles,
         memory, call
<1>22. ASSUME ResetBindings
      PROVE  ImportInv'
  BY <1>22
     DEF ResetBindings, IInv, BaseInv, TypeOK, ImportInv, FlushPcs, usb, nand, liveFiles,
         memory, call
<1>23. ASSUME ResetLegacy
      PROVE  ImportInv'
  BY <1>23
     DEF ResetLegacy, IInv, BaseInv, TypeOK, ImportInv, FlushPcs, usb, nand, liveFiles,
         memory, call
<1>24. ASSUME InitFails
      PROVE  ImportInv'
  BY <1>24
     DEF InitFails, IInv, BaseInv, TypeOK, ImportInv, FlushPcs, Abort, usb, nand,
         liveFiles, memory, call
<1>25. ASSUME NEW g \in Games, Bind(g)
      PROVE  ImportInv'
  BY <1>25
     DEF Bind, IInv, BaseInv, TypeOK, ImportInv, FlushPcs, usb, nand, liveFiles, memory,
         call
<1>26. ASSUME EngineWritesData
      PROVE  ImportInv'
  BY <1>26
     DEF EngineWritesData, IInv, BaseInv, TypeOK, ImportInv, FlushPcs, usb, nand,
         liveFiles, memory, call
<1>27. ASSUME NEW r \in Outcomes, EngineWritesMeta(r)
      PROVE  ImportInv'
  BY <1>27
     DEF EngineWritesMeta, IInv, BaseInv, TypeOK, ImportInv, FlushPcs, usb, nand,
         liveFiles, memory, call
<1>28. ASSUME NEW v \in BOOLEAN, Boot(v)
      PROVE  ImportInv'
  BY <1>28
     DEF Boot, IInv, BaseInv, TypeOK, ImportInv, FlushPcs, usb, nand, liveFiles, memory,
         call
<1>29. ASSUME Crash
      PROVE  ImportInv'
  BY <1>29
     DEF Crash, IInv, BaseInv, TypeOK, ImportInv, FlushPcs, usb, nand, liveFiles, memory,
         call
<1>30. ASSUME EditorMoves
      PROVE  ImportInv'
  BY <1>30
     DEF EditorMoves, IInv, BaseInv, TypeOK, ImportInv, FlushPcs, usb, nand, liveFiles,
         memory, call
<1>31. ASSUME StoppedEngineWrites
      PROVE  ImportInv'
  BY <1>31
     DEF StoppedEngineWrites, IInv, BaseInv, TypeOK, ImportInv, FlushPcs, usb, nand,
         liveFiles, memory, call
<1>32. QED
  BY <1>1, <1>2, <1>3, <1>4, <1>5, <1>6, <1>7, <1>8, <1>9, <1>10, <1>11,
     <1>12, <1>13, <1>14, <1>15, <1>16, <1>17, <1>18, <1>19, <1>20, <1>21,
     <1>22, <1>23, <1>24, <1>25, <1>26, <1>27, <1>28, <1>29, <1>30, <1>31
     DEF Next, FlushStep, ActivateStep, ScriptStep, EngineStep

\* A flush that succeeds, and reloads the bank it confirmed, keeps BankInv.
LEMMA FlushBankInv ==
  ASSUME IInv, pc \in FlushPcs, FlushSucceeds,
         UNCHANGED <<marker, live, digestOk, owner>>
  PROVE  BankInv'
<1>1. /\ op' = op /\ failed' = failed
      /\ bank' = IF op = "confirm" THEN live ELSE bank
      /\ pc' \in {"idle", "disown", "import"}
  BY FlushGoesOn DEF IInv
<1>2. \A g \in Games : Claimed(g)' <=> Claimed(g)
  BY DEF Claimed
<1>3. pc # "save" /\ digestOk /\ Running
  BY DEF IInv, BaseInv, FlushInv, FlushPcs, FlushAllowed, Running
<1>4. ASSUME NEW g \in Games, Claimed(g) PROVE live.game = g
  BY <1>3, <1>4 DEF IInv, BaseInv, BankInv
<1>5. ASSUME NEW g \in Games, Claimed(g), ~failed
      PROVE  owner # Absent /\ owner.id = g /\ bank'.game \in {g, NoGame}
  BY <1>1, <1>3, <1>4, <1>5 DEF IInv, BaseInv, BankInv
<1>6. QED
  BY <1>1, <1>2, <1>4, <1>5 DEF BankInv, FlushPcs, Running

\* A flush that fails changes no file, and blocks the engine or leaves the
\* bank as it was.
LEMMA FailedBankInv ==
  ASSUME IInv, pc \in FlushPcs, FlushFails,
         UNCHANGED <<marker, live, digestOk, owner>>
  PROVE  BankInv'
<1>1. \A g \in Games : Claimed(g)' <=> Claimed(g)
  BY DEF Claimed
<1>2. pc # "save" /\ digestOk /\ Running
  BY DEF IInv, BaseInv, FlushInv, FlushPcs, FlushAllowed, Running
<1>3. bank' = bank /\ pc' \notin {"save", "off"}
  BY DEF FlushFails, Abort
<1>4. failed' \/ (failed' = failed /\ op # "confirm")
  BY DEF FlushFails, Abort
<1>5. QED
  BY <1>1, <1>2, <1>3, <1>4 DEF IInv, BaseInv, BankInv, FlushPcs, Running

\* A ready marker beside a verified bank tells the truth.
LEMMA BankInvStep ==
  ASSUME IInv, Next, "stoppedEngineWrites" \notin ignored
  PROVE  BankInv'
<1>1. ASSUME NEW r \in Outcomes, WriteSchema(r)
      PROVE  BankInv'
  BY <1>1
     DEF WriteSchema, IInv, BaseInv, TypeOK, BankInv, FlushPcs, Running, Claimed, usb,
         nand, liveFiles, memory, call
<1>2. ASSUME NEW r \in Outcomes, StoreCanonical(r)
      PROVE  BankInv'
  BY <1>2
     DEF StoreCanonical, IInv, BaseInv, TypeOK, BankInv, FlushPcs, Running, Claimed, usb,
         nand, liveFiles, memory, call
<1>3. ASSUME NEW r \in Outcomes, RenameRecoverySchema(r)
      PROVE  BankInv'
  BY <1>3
     DEF RenameRecoverySchema, IInv, BaseInv, TypeOK, BankInv, FlushPcs, Running, Claimed,
         FlushFails, Abort, FlushInv, usb, nand, liveFiles, memory, call
<1>4. ASSUME NEW r \in Outcomes, StoreSnapshot(r)
      PROVE  BankInv'
  <2>1. /\ pc \in FlushPcs
        /\ UNCHANGED <<marker, live, digestOk, owner>>
    BY <1>4 DEF StoreSnapshot, FlushPcs, liveFiles
  <2>2. CASE FlushSucceeds
    BY <2>1, <2>2, FlushBankInv
  <2>3. CASE FlushFails
    BY <2>1, <2>3, FailedBankInv
  <2>4. QED BY <1>4, <2>2, <2>3 DEF StoreSnapshot
<1>5. ASSUME NEW r \in Outcomes, Disown(r)
      PROVE  BankInv'
  BY <1>5, WhereTyped, ClaimTyped, OwnerTyped, FlushOwner
     DEF Disown, IInv, BaseInv, TypeOK, BankInv, FlushPcs, Running, Claimed, FlushInv,
         ImportInv, usb, nand, liveFiles, memory, call
<1>6. ASSUME FallBackToNand
      PROVE  BankInv'
  BY <1>6
     DEF FallBackToNand, IInv, BaseInv, TypeOK, BankInv, FlushPcs, Running, Claimed, usb,
         nand, liveFiles, memory, call
<1>7. ASSUME UnlinkSnapshot
      PROVE  BankInv'
  <2>1. /\ pc \in FlushPcs
        /\ UNCHANGED <<marker, live, digestOk, owner>>
    BY <1>7 DEF UnlinkSnapshot, FlushPcs, liveFiles
  <2>2. QED BY <1>7, <2>1, FlushBankInv DEF UnlinkSnapshot
<1>8. ASSUME MakeRecoveryDir
      PROVE  BankInv'
  BY <1>8
     DEF MakeRecoveryDir, IInv, BaseInv, TypeOK, BankInv, FlushPcs, Running, Claimed, usb,
         nand, liveFiles, memory, call
<1>9. ASSUME NandUnavailable
      PROVE  BankInv'
  BY <1>9
     DEF NandUnavailable, IInv, BaseInv, TypeOK, BankInv, FlushPcs, Running, Claimed,
         FlushFails, Abort, FlushInv, usb, nand, liveFiles, memory, call
<1>10. ASSUME NEW g \in Games, NEW r \in Outcomes, ActivateSame(g, r)
      PROVE  BankInv'
  <2>1. /\ where[g] \in Dirs /\ owner.dir \in Dirs /\ owner # Absent
        /\ marker = Claim("ready", g, owner.dir) /\ owner.id = g /\ digestOk
    BY <1>10, WhereTyped, OwnerFields
       DEF ActivateSame, FlushAllowed, MarkerAgrees, IInv, BaseInv, TypeOK
  <2>2. \A h \in Games : (Claimed(h) <=> h = g) /\ (Claimed(h)' <=> h = g)
    BY <1>10, <2>1, ClaimTyped DEF ActivateSame, Claimed
  <2>3. /\ live' = live /\ bank' = bank /\ digestOk' = digestOk
        /\ pc = "idle" /\ ~failed /\ live.game = g /\ bank.game \in {g, NoGame}
    BY <1>10, <2>1, <2>2
       DEF ActivateSame, liveFiles, IInv, BaseInv, BankInv, Running, FlushPcs
  <2>4. CASE r = "ok"
    BY <1>10, <2>2, <2>3, <2>4, <2>1, OwnerTyped
       DEF ActivateSame, BankInv, FlushPcs, Running
  <2>5. CASE r # "ok"
    BY <1>10, <2>2, <2>3, <2>5 DEF ActivateSame, Abort, BankInv, FlushPcs, Running
  <2>6. QED BY <2>4, <2>5
<1>11. ASSUME NEW r \in Outcomes, Invalidate(r)
      PROVE  BankInv'
  BY <1>11, WhereTyped, ClaimTyped, OwnerTyped
     DEF Invalidate, IInv, BaseInv, TypeOK, BankInv, FlushPcs, Running, Claimed, Abort,
         FlushInv, ImportInv, usb, nand, liveFiles, memory, call
<1>12. ASSUME NEW r \in Outcomes, RefreshDigest(r)
      PROVE  BankInv'
  BY <1>12
     DEF RefreshDigest, IInv, BaseInv, TypeOK, BankInv, FlushPcs, Running, Claimed, Abort,
         ImportInv, usb, nand, liveFiles, memory, call
<1>13. ASSUME NEW r \in Outcomes, Commit(r)
      PROVE  BankInv'
  BY <1>13, WhereTyped, ClaimTyped, OwnerTyped
     DEF Commit, IInv, BaseInv, TypeOK, BankInv, FlushPcs, Running, Claimed, Abort,
         FlushInv, ImportInv, usb, nand, liveFiles, memory, call
<1>14. ASSUME NEW g \in Games, ActivateRefused(g)
      PROVE  BankInv'
  BY <1>14
     DEF ActivateRefused, IInv, BaseInv, TypeOK, BankInv, FlushPcs, Running, Claimed,
         Abort, usb, nand, liveFiles, memory, call
<1>15. ASSUME NEW g \in Games, ActivateSwitch(g)
      PROVE  BankInv'
  BY <1>15
     DEF ActivateSwitch, IInv, BaseInv, TypeOK, BankInv, FlushPcs, Running, Claimed,
         FlushAllowed, MarkerAgrees, Claim, usb, nand, liveFiles, memory, call
<1>16. ASSUME NEW g \in Games, ActivateFresh(g)
      PROVE  BankInv'
  BY <1>16
     DEF ActivateFresh, IInv, BaseInv, TypeOK, BankInv, FlushPcs, Running, Claimed, usb,
         nand, liveFiles, memory, call
<1>17. ASSUME ImportUnreadable
      PROVE  BankInv'
  BY <1>17
     DEF ImportUnreadable, IInv, BaseInv, TypeOK, BankInv, FlushPcs, Running, Claimed,
         Abort, usb, nand, liveFiles, memory, call
<1>18. ASSUME WriteSlot
      PROVE  BankInv'
  BY <1>18
     DEF WriteSlot, IInv, BaseInv, TypeOK, BankInv, FlushPcs, Running, Claimed, ImportInv,
         usb, nand, liveFiles, memory, call
<1>19. ASSUME WriteSlotFails
      PROVE  BankInv'
  BY <1>19
     DEF WriteSlotFails, IInv, BaseInv, TypeOK, BankInv, FlushPcs, Running, Claimed, Abort,
         ImportInv, usb, nand, liveFiles, memory, call
<1>20. ASSUME CallFlush
      PROVE  BankInv'
  BY <1>20
     DEF CallFlush, IInv, BaseInv, TypeOK, BankInv, FlushPcs, Running, Claimed,
         FlushAllowed, MarkerAgrees, Claim, usb, nand, liveFiles, memory, call
<1>21. ASSUME CallRelease
      PROVE  BankInv'
  BY <1>21
     DEF CallRelease, IInv, BaseInv, TypeOK, BankInv, FlushPcs, Running, Claimed,
         FlushAllowed, MarkerAgrees, Claim, usb, nand, liveFiles, memory, call
<1>22. ASSUME ResetBindings
      PROVE  BankInv'
  BY <1>22
     DEF ResetBindings, IInv, BaseInv, TypeOK, BankInv, FlushPcs, Running, Claimed, usb,
         nand, liveFiles, memory, call
<1>23. ASSUME ResetLegacy
      PROVE  BankInv'
  BY <1>23
     DEF ResetLegacy, IInv, BaseInv, TypeOK, BankInv, FlushPcs, Running, Claimed,
         FlushAllowed, MarkerAgrees, Claim, usb, nand, liveFiles, memory, call
<1>24. ASSUME InitFails
      PROVE  BankInv'
  BY <1>24
     DEF InitFails, IInv, BaseInv, TypeOK, BankInv, FlushPcs, Running, Claimed, Abort, usb,
         nand, liveFiles, memory, call
<1>25. ASSUME NEW g \in Games, Bind(g)
      PROVE  BankInv'
  BY <1>25
     DEF Bind, IInv, BaseInv, TypeOK, BankInv, FlushPcs, Running, Claimed, usb, nand,
         liveFiles, memory, call
<1>26. ASSUME EngineWritesData
      PROVE  BankInv'
  BY <1>26, NewerTyped
     DEF EngineWritesData, IInv, BaseInv, TypeOK, BankInv, FlushPcs, Running, Claimed, usb,
         nand, liveFiles, memory, call
<1>27. ASSUME NEW r \in Outcomes, EngineWritesMeta(r)
      PROVE  BankInv'
  BY <1>27
     DEF EngineWritesMeta, IInv, BaseInv, TypeOK, BankInv, FlushPcs, Running, Claimed, usb,
         nand, liveFiles, memory, call
<1>28. ASSUME NEW v \in BOOLEAN, Boot(v)
      PROVE  BankInv'
  BY <1>28, OwnerTyped, ContentTyped
     DEF Boot, IInv, BaseInv, TypeOK, BankInv, FlushPcs, Running, Claimed, Loaded, Claims,
         usb, nand, liveFiles, memory, call
<1>29. ASSUME Crash
      PROVE  BankInv'
  BY <1>29
     DEF Crash, IInv, BaseInv, TypeOK, BankInv, FlushPcs, Running, Claimed, usb, nand,
         liveFiles, memory, call
<1>30. ASSUME EditorMoves
      PROVE  BankInv'
  BY <1>30
     DEF EditorMoves, IInv, BaseInv, TypeOK, BankInv, FlushPcs, Running, Claimed, usb,
         nand, liveFiles, memory, call
<1>31. ASSUME StoppedEngineWrites
      PROVE  BankInv'
  BY <1>31
     DEF StoppedEngineWrites, IInv, BaseInv, TypeOK, BankInv, FlushPcs, Running, Claimed,
         usb, nand, liveFiles, memory, call
<1>32. QED
  BY <1>1, <1>2, <1>3, <1>4, <1>5, <1>6, <1>7, <1>8, <1>9, <1>10, <1>11,
     <1>12, <1>13, <1>14, <1>15, <1>16, <1>17, <1>18, <1>19, <1>20, <1>21,
     <1>22, <1>23, <1>24, <1>25, <1>26, <1>27, <1>28, <1>29, <1>30, <1>31
     DEF Next, FlushStep, ActivateStep, ScriptStep, EngineStep

-----------------------------------------------------------------------------
\* Nothing is claimed, copied or loaded before the first process starts.
LEMMA InitIInv == Init => IInv
<1> SUFFICES ASSUME Init PROVE IInv
  OBVIOUS
<1>1. /\ canonical \in [Games -> Contents \cup {Absent}]
      /\ \A g \in Games : canonical[g] # Absent => canonical[g] = Blank(g)
  BY ContentTyped DEF Init
<1>2. recovery \in [Games -> Contents \cup {Absent}]
      /\ \A g \in Games : recovery[g] = Absent
  BY DEF Init
<1>3. flushed \in [Games -> 0..MaxVersion]
  BY SaveOwnerAssumption DEF Init
<1>4. TypeOK
  BY <1>1, <1>2, <1>3, ContentTyped DEF Init, TypeOK, Steps, Purposes
<1>5. OwnCopies /\ SchemaPrecedesData
  BY <1>1, <1>2, ContentTyped DEF OwnCopies, SchemaPrecedesData
<1>6. FlushInv /\ ImportInv /\ BankInv
  BY DEF Init, FlushInv, ImportInv, BankInv, FlushPcs, Running, Claimed
<1>7. QED BY <1>4, <1>5, <1>6 DEF IInv, BaseInv

\* Nor does a stuttering step change what the invariants speak of.
LEMMA StutterBaseInv == BaseInv /\ UNCHANGED vars => BaseInv'
  BY DEF vars, usb, nand, liveFiles, memory, call, BaseInv, TypeOK,
         SchemaPrecedesData, FlushInv, FlushPcs, FlushAllowed, MarkerAgrees

LEMMA StutterIInv == IInv /\ UNCHANGED vars => IInv'
  BY StutterBaseInv
     DEF vars, usb, nand, liveFiles, memory, call, IInv, OwnCopies,
         ImportInv, BankInv, FlushPcs, Running, Claimed

\* Files, memory and the control of a call keep their shape in every reachable
\* state, whichever of the ignored failures happen.
THEOREM BaseInductive == Spec => []BaseInv
<1>1. Init => BaseInv
  BY InitIInv DEF IInv
<1>2. ASSUME BaseInv, [Next /\ UNCHANGED ignored]_vars PROVE BaseInv'
  <2>1. CASE Next
    BY <1>2, <2>1, TypeOKStep, SchemaStep, FlushInvStep DEF BaseInv
  <2>2. QED BY <1>2, <2>1, StutterBaseInv
<1>3. QED BY <1>1, <1>2, PTL DEF Spec

\* Unless an engine goes on writing the bank of a process whose legacy set-up
\* stopped, every reachable state satisfies the inductive invariant.
THEOREM Inductive == Spec => []("stoppedEngineWrites" \notin ignored => IInv)
<1> DEFINE Inv == "stoppedEngineWrites" \notin ignored => IInv
<1>1. Init => Inv
  BY InitIInv
<1>2. ASSUME Inv, [Next /\ UNCHANGED ignored]_vars PROVE Inv'
  <2> SUFFICES ASSUME "stoppedEngineWrites" \notin ignored' PROVE IInv'
    OBVIOUS
  <2>1. "stoppedEngineWrites" \notin ignored /\ IInv
    BY <1>2 DEF vars
  <2>2. CASE Next
    BY <2>1, <2>2, TypeOKStep, OwnCopiesStep, SchemaStep, FlushInvStep,
       ImportInvStep, BankInvStep DEF IInv, BaseInv
  <2>3. QED BY <1>2, <2>1, <2>2, StutterIInv
<1>3. QED BY <1>1, <1>2, PTL DEF Spec

\* Every file and the hook's memory keep their shape.
THEOREM TypeCorrect == Spec => []TypeOK
<1>1. BaseInv => TypeOK BY DEF BaseInv
<1>2. QED BY <1>1, BaseInductive, PTL

\* No sram.bin and no snapshot of a game ever holds another game's save, unless
\* an engine whose legacy set-up stopped goes on saving.
THEOREM NeverMisattributed == Spec => []NoMisattribution
<1>1. ("stoppedEngineWrites" \notin ignored => IInv) => NoMisattribution
  BY DEF IInv, NoMisattribution
<1>2. QED BY <1>1, Inductive, PTL

\* The schema markers reach the disk before the data they describe, whichever
\* of the ignored failures happen.
THEOREM SchemaFirst == Spec => []SchemaPrecedesData
<1>1. BaseInv => SchemaPrecedesData BY DEF BaseInv
<1>2. QED BY <1>1, BaseInductive, PTL

-----------------------------------------------------------------------------
(* What was flushed survives: the strengthening *)

\* The engine holds the save of g, and may write it.
Confirming == pc \in FlushPcs /\ op = "confirm"
Holds(g) == Running /\ ~failed /\ ~Confirming /\ bank.game = g

\* Each flush is in one of the two copies; whoever is not claimed reads it, and
\* whoever is claimed has it in the bank.
CopyInv ==
  \A g \in Games :
    /\ \/ flushed[g] <= LoadSource(g).n
       \/ canonical[g] # Absent /\ flushed[g] <= canonical[g].n
    /\ ~Claimed(g) => flushed[g] <= LoadSource(g).n
    /\ Claimed(g) /\ (digestOk \/ Holds(g)) => flushed[g] <= live.n

\* The bank of an engine that may save is the live file.
HeldInv == \A g \in Games : Claimed(g) /\ Holds(g) => bank = live

\* The copy that was just made is the live file, until the bank is given up.
KeptInv ==
  /\ pc = "unlink" => canonical[owner.id] = live
  /\ pc \in {"import", "disown"} =>
       \A g \in Games : Claimed(g) => LoadSource(g) = live /\ flushed[g] <= live.n
  /\ pc \in {"write", "digest", "commit"} => bytes = LoadSource(next)
  /\ pc = "save" => bank = live

Survival == CopyInv /\ HeldInv /\ KeptInv
SurvivalInv == IInv /\ Survival


\* The numbers compared are numbers.
LEMMA Numbers ==
  ASSUME IInv, NEW g \in Games
  PROVE  /\ flushed[g] \in Nat /\ live.n \in Nat /\ LoadSource(g).n \in Nat
         /\ canonical[g] # Absent => canonical[g].n \in Nat
<1>1. TypeOK BY DEF IInv, BaseInv
<1>2. LoadSource(g) \in Contents BY <1>1, LoadSourceTyped
<1>3. \A c \in Contents : c.n \in Nat BY ContentTyped, SaveOwnerAssumption
<1>4. flushed[g] \in Nat BY <1>1, SaveOwnerAssumption DEF TypeOK
<1>5. QED BY <1>1, <1>2, <1>3, <1>4 DEF TypeOK

\* Files that stay are read as before.
LEMMA SourceKept ==
  ASSUME UNCHANGED <<canonical, recovery>>
  PROVE  \A g \in Games : LoadSource(g)' = LoadSource(g) /\ canonical'[g] = canonical[g]
BY DEF LoadSource

\* While copies are written their owner, and nobody else, is claimed.
LEMMA FlushClaim ==
  ASSUME IInv, pc \in FlushPcs
  PROVE  /\ owner.id \in Games /\ digestOk
         /\ \A g \in Games : Claimed(g) <=> g = owner.id
<1>1. owner # Absent /\ owner.id \in Games /\ owner.dir \in Dirs BY FlushOwner DEF IInv
<1>2. marker = Claim("ready", owner.id, owner.dir) /\ digestOk
  BY DEF IInv, BaseInv, FlushInv, FlushAllowed, MarkerAgrees
<1>3. QED BY <1>1, <1>2, ClaimTyped DEF Claimed

\* A step that touches no copy, no claim and not the bank.
LEMMA QuietSurvives ==
  ASSUME SurvivalInv, UNCHANGED <<canonical, recovery, live, flushed>>,
         \A g \in Games : Claimed(g)' <=> Claimed(g),
         digestOk' => digestOk,
         \A g \in Games : Holds(g)' => Holds(g) /\ bank' = bank,
         pc' \notin {"unlink", "import", "disown", "write", "digest", "commit", "save"}
  PROVE  Survival'
<1>1. \A g \in Games : LoadSource(g)' = LoadSource(g) /\ canonical'[g] = canonical[g]
  BY SourceKept
<1>2. CopyInv' BY <1>1 DEF SurvivalInv, Survival, CopyInv
<1>3. HeldInv' BY DEF SurvivalInv, Survival, HeldInv
<1>4. KeptInv' BY DEF KeptInv
<1>5. QED BY <1>2, <1>3, <1>4 DEF Survival

\* The copy is made: everything the owner saved is in it.
LEMMA FlushSurvives ==
  ASSUME SurvivalInv, pc \in FlushPcs, FlushSucceeds,
         UNCHANGED <<canonical, marker, live, digestOk, owner>>,
         \A g \in Games :
           LoadSource(g)' = IF g = owner.id THEN live ELSE LoadSource(g)
  PROVE  Survival'
<1> DEFINE o == owner.id
<1>1. IInv /\ o \in Games /\ digestOk /\ \A g \in Games : Claimed(g) <=> g = o
  BY FlushClaim DEF SurvivalInv
<1>2. \A g \in Games : Claimed(g)' <=> g = o BY <1>1 DEF Claimed
<1>3. \A g \in Games : LoadSource(g)' = IF g = o THEN live ELSE LoadSource(g) OBVIOUS
<1>4. flushed' = [flushed EXCEPT ![o] = live.n] BY DEF FlushSucceeds
<1>5. flushed'[o] = live.n /\ \A g \in Games : g # o => flushed'[g] = flushed[g]
  BY <1>1, <1>4 DEF IInv, BaseInv, TypeOK
<1>6. \A g \in Games : LoadSource(g).n \in Nat /\ flushed[g] \in Nat BY <1>1, Numbers
<1> HIDE DEF o
<1>7. live.n \in Nat BY <1>1, Numbers
<1>8. CopyInv'
  <2> SUFFICES ASSUME NEW g \in Games
               PROVE  /\ \/ flushed'[g] <= LoadSource(g)'.n
                         \/ canonical'[g] # Absent /\ flushed'[g] <= canonical'[g].n
                      /\ ~Claimed(g)' => flushed'[g] <= LoadSource(g)'.n
                      /\ Claimed(g)' => flushed'[g] <= live'.n
    BY DEF CopyInv
  <2>1. CASE g = o BY <1>2, <1>3, <1>5, <1>7, <2>1
  <2>2. CASE g # o
    BY <1>1, <1>2, <1>3, <1>5, <2>2 DEF SurvivalInv, Survival, CopyInv
  <2>3. QED BY <2>1, <2>2
<1>9. /\ op' = op /\ failed' = failed
      /\ bank' = IF op = "confirm" THEN live ELSE bank
      /\ pc' \in {"idle", "disown", "import"}
  BY <1>1, FlushGoesOn DEF IInv
<1>10. HeldInv'
  <2>1. CASE op = "confirm" BY <1>9, <2>1 DEF HeldInv
  <2>2. CASE op # "confirm"
    <3>1. \A g \in Games : Holds(g)' => Holds(g) /\ bank' = bank
      BY <1>9, <2>2 DEF Holds, Confirming, Running, FlushPcs
    <3>2. QED BY <1>1, <1>2, <3>1 DEF SurvivalInv, Survival, HeldInv
  <2>3. QED BY <2>1, <2>2
<1>11. KeptInv'
  <2>1. \A g \in Games : Claimed(g)' => LoadSource(g)' = live /\ flushed'[g] <= live.n
    BY <1>2, <1>3, <1>5, <1>7
  <2>2. QED BY <1>9, <2>1 DEF KeptInv
<1>12. QED BY <1>8, <1>10, <1>11 DEF Survival

\* The bank is given up: whoever owned it has a copy.
LEMMA GivenUpSurvives ==
  ASSUME SurvivalInv, pc \in {"import", "disown"}, UNCHANGED <<canonical, recovery, flushed>>,
         \A g \in Games : ~Claimed(g)',
         pc' \in {"idle", "stopped", "flush", "write"},
         pc' = "write" => bytes' = LoadSource(next)'
  PROVE  Survival'
<1>1. \A g \in Games : LoadSource(g)' = LoadSource(g) /\ canonical'[g] = canonical[g]
  BY SourceKept
<1>2. \A g \in Games : flushed[g] <= LoadSource(g).n
  BY DEF SurvivalInv, Survival, CopyInv, KeptInv
<1>3. CopyInv' BY <1>1, <1>2 DEF CopyInv
<1>4. HeldInv' BY DEF HeldInv
<1>5. KeptInv' BY DEF KeptInv
<1>6. QED BY <1>3, <1>4, <1>5 DEF Survival

\* Nobody is claimed while the bank changes hands.
LEMMA ImportSurvives ==
  ASSUME SurvivalInv, pc \in {"write", "digest", "commit"},
         UNCHANGED <<canonical, recovery, flushed, marker, next, bytes>>,
         pc' \notin {"unlink", "import", "disown", "save"}
  PROVE  Survival'
<1>1. \A g \in Games : LoadSource(g)' = LoadSource(g) /\ canonical'[g] = canonical[g]
  BY SourceKept
<1>2. \A g \in Games : ~Claimed(g) /\ ~Claimed(g)'
  BY DEF SurvivalInv, IInv, BaseInv, ImportInv, Claimed
<1>3. CopyInv' BY <1>1, <1>2 DEF SurvivalInv, Survival, CopyInv
<1>4. HeldInv' BY <1>2 DEF HeldInv
<1>5. next \in Games BY DEF SurvivalInv, IInv, BaseInv, FlushInv
<1>6. KeptInv'
  <2>1. bytes = LoadSource(next) BY DEF SurvivalInv, Survival, KeptInv
  <2>2. bytes' = LoadSource(next)' BY <1>1, <1>5, <2>1
  <2>3. QED BY <2>2 DEF KeptInv
<1>7. QED BY <1>3, <1>4, <1>6 DEF Survival

\* Every step keeps the strengthening, where unlinking a snapshot does not fail
\* silently and nobody writes the bank of a stopped process.
LEMMA SurvivalStep ==
  ASSUME SurvivalInv, Next, ignored = {}
  PROVE  Survival'
<1>1. ASSUME NEW r \in Outcomes, WriteSchema(r)
      PROVE  Survival'
  <2>1. UNCHANGED <<canonical, recovery, live, marker, flushed>> /\ (digestOk' => digestOk)
    BY <1>1 DEF WriteSchema, usb, nand, liveFiles, memory, call
  <2>2. \A g \in Games : Claimed(g)' <=> Claimed(g) BY <2>1 DEF Claimed
  <2>3. /\ \A g \in Games : Holds(g)' => Holds(g) /\ bank' = bank
        /\ pc' \notin {"unlink", "import", "disown", "write", "digest", "commit", "save"}
    BY <1>1, SurvivalInv DEF WriteSchema, Holds, Confirming, Running, FlushPcs, Abort,
       FlushFails,
       SurvivalInv, IInv, BaseInv, FlushInv, usb, nand, liveFiles, memory, call
  <2>4. QED BY <2>1, <2>2, <2>3, SurvivalInv, QuietSurvives
<1>2. ASSUME NEW r \in Outcomes, StoreCanonical(r)
      PROVE  Survival'
  <2> DEFINE o == owner.id
  <2>1. /\ IInv /\ pc = "flush" /\ o \in Games /\ digestOk /\ \A g \in Games : Claimed(g) <=> g = o
    BY <1>2, SurvivalInv, FlushClaim DEF StoreCanonical, SurvivalInv, FlushPcs
  <2>2. /\ UNCHANGED <<recovery, marker, live, digestOk, owner, bank, failed, op, flushed>>
        /\ canonical' = canonical \/ canonical' = [canonical EXCEPT ![o] = live]
        /\ pc' = "nand" \/ (pc' = "unlink" /\ canonical' = [canonical EXCEPT ![o] = live])
    BY <1>2 DEF StoreCanonical, IdentityIs, nand, liveFiles, memory, call
  <2> HIDE DEF o
  <2>3. live # Absent /\ live.n \in Nat /\ flushed[o] \in Nat /\ LoadSource(o).n \in Nat
    BY <2>1, Numbers, ContentTyped DEF IInv, BaseInv, TypeOK
  <2>4. flushed[o] <= live.n BY <2>1, SurvivalInv DEF SurvivalInv, Survival, CopyInv
  <2>5. \A g \in Games : g # o => canonical'[g] = canonical[g] /\ LoadSource(g)' = LoadSource(g)
    BY <2>1, <2>2 DEF IInv, BaseInv, TypeOK, LoadSource
  <2>6. \A g \in Games : g = o =>
          \/ canonical'[g] = canonical[g] /\ LoadSource(g)' = LoadSource(g)
          \/ canonical'[g] = live
    BY <2>1, <2>2 DEF IInv, BaseInv, TypeOK, LoadSource
  <2>7. \A g \in Games : (Claimed(g)' <=> Claimed(g)) /\ (Holds(g)' => Holds(g))
    BY <2>1, <2>2 DEF Claimed, Holds, Confirming, Running, FlushPcs
  <2>8. CopyInv'
    BY <2>1, <2>2, <2>3, <2>4, <2>5, <2>6, <2>7, SurvivalInv DEF SurvivalInv, Survival,
       CopyInv
  <2>9. HeldInv' BY <2>2, <2>7, SurvivalInv DEF SurvivalInv, Survival, HeldInv
  <2>10. KeptInv' BY <2>1, <2>2 DEF KeptInv, IInv, BaseInv, TypeOK, o
  <2>11. QED BY <2>8, <2>9, <2>10 DEF Survival
<1>3. ASSUME NEW r \in Outcomes, RenameRecoverySchema(r)
      PROVE  Survival'
  <2>1. UNCHANGED <<canonical, recovery, live, marker, flushed>> /\ (digestOk' => digestOk)
    BY <1>3 DEF RenameRecoverySchema, FlushFails, Abort, usb, nand, liveFiles, memory, call
  <2>2. \A g \in Games : Claimed(g)' <=> Claimed(g) BY <2>1 DEF Claimed
  <2>3. /\ \A g \in Games : Holds(g)' => Holds(g) /\ bank' = bank
        /\ pc' \notin {"unlink", "import", "disown", "write", "digest", "commit", "save"}
    BY <1>3, SurvivalInv DEF RenameRecoverySchema, Holds, Confirming, Running, FlushPcs,
       Abort, FlushFails,
       SurvivalInv, IInv, BaseInv, FlushInv, usb, nand, liveFiles, memory, call
  <2>4. QED BY <2>1, <2>2, <2>3, SurvivalInv, QuietSurvives
<1>4. ASSUME NEW r \in Outcomes, StoreSnapshot(r)
      PROVE  Survival'
  <2>1. CASE FlushFails
    <3> DEFINE o == owner.id
    <3>1. /\ IInv /\ pc = "nand" /\ o \in Games /\ digestOk /\ \A g \in Games : Claimed(g) <=> g = o
      BY <1>4, SurvivalInv, FlushClaim DEF StoreSnapshot, SurvivalInv, FlushPcs
    <3>2. /\ UNCHANGED <<canonical, marker, live, digestOk, owner, bank, flushed>>
          /\ recovery' = recovery \/ recovery' = [recovery EXCEPT ![o] = live]
      BY <1>4, <2>1 DEF StoreSnapshot, FlushFails, Abort, usb, liveFiles
    <3>3. /\ pc' \notin {"unlink", "import", "disown", "write", "digest", "commit", "save"}
          /\ \A g \in Games : Holds(g)' => Holds(g)
      BY <2>1, <3>1, <3>2 DEF FlushFails, Abort, Holds, Confirming, Running, FlushPcs
    <3> HIDE DEF o
    <3>4. live # Absent /\ live.n \in Nat /\ flushed[o] \in Nat
      BY <3>1, Numbers, ContentTyped DEF IInv, BaseInv, TypeOK
    <3>5. flushed[o] <= live.n BY <3>1, SurvivalInv DEF SurvivalInv, Survival, CopyInv
    <3>6. \A g \in Games : canonical'[g] = canonical[g] /\ (g # o => LoadSource(g)' = LoadSource(g))
      BY <3>1, <3>2 DEF IInv, BaseInv, TypeOK, LoadSource
    <3>7. \A g \in Games : g = o => LoadSource(g)' = LoadSource(g) \/ LoadSource(g)' = live
      BY <3>1, <3>2, <3>4 DEF IInv, BaseInv, TypeOK, LoadSource
    <3>8. \A g \in Games : Claimed(g)' <=> Claimed(g) BY <3>2 DEF Claimed
    <3>9. CopyInv'
      BY <3>1, <3>2, <3>3, <3>4, <3>5, <3>6, <3>7, <3>8, SurvivalInv
         DEF SurvivalInv, Survival, CopyInv
    <3>10. HeldInv' BY <3>2, <3>3, <3>8, SurvivalInv DEF SurvivalInv, Survival, HeldInv
    <3>11. KeptInv' BY <3>3 DEF KeptInv
    <3>12. QED BY <3>9, <3>10, <3>11 DEF Survival
  <2>2. CASE FlushSucceeds /\ r = "ok"
    <3>1. IInv /\ pc \in FlushPcs /\ owner.id \in Games
      BY <1>4, SurvivalInv, FlushClaim DEF StoreSnapshot, SurvivalInv, FlushPcs
    <3>2. /\ UNCHANGED <<canonical, marker, live, digestOk, owner>>
          /\ recovery' = [recovery EXCEPT ![owner.id] = live]
      BY <1>4, <2>2 DEF StoreSnapshot, usb, liveFiles
    <3>3. live # Absent BY <3>1, ContentTyped DEF IInv, BaseInv, TypeOK
    <3>4. \A g \in Games : LoadSource(g)' = IF g = owner.id THEN live ELSE LoadSource(g)
      BY <3>1, <3>2, <3>3 DEF IInv, BaseInv, TypeOK, LoadSource
    <3>5. QED BY <2>2, <3>1, <3>2, <3>4, SurvivalInv, FlushSurvives
  <2>3. QED BY <1>4, <2>1, <2>2 DEF StoreSnapshot
<1>5. ASSUME NEW r \in Outcomes, Disown(r)
      PROVE  Survival'
  <2>1. pc = "disown" /\ UNCHANGED <<canonical, recovery, live, flushed, digestOk>>
    BY <1>5 DEF Disown, usb, nand
  <2>2. CASE r = "old"
    <3>1. marker' = marker /\ bank' = bank /\ failed' = failed /\ pc' \in {"idle", "stopped"}
      BY <1>5, <2>2 DEF Disown
    <3>2. \A g \in Games : Claimed(g)' <=> Claimed(g) BY <3>1 DEF Claimed
    <3>3. \A g \in Games : Holds(g)' => Holds(g) /\ bank' = bank
      BY <2>1, <3>1 DEF Holds, Confirming, Running, FlushPcs
    <3>4. QED BY <2>1, <3>1, <3>2, <3>3, SurvivalInv, QuietSurvives
  <2>3. CASE r # "old"
    <3>1. owner.id \in Games /\ owner.dir \in Dirs
      BY <2>1, SurvivalInv, FlushOwner DEF SurvivalInv, IInv
    <3>2. marker' = Claim("pending", owner.id, owner.dir) /\ pc' \in {"idle", "stopped"}
      BY <1>5, <2>3 DEF Disown
    <3>3. \A g \in Games : ~Claimed(g)' BY <3>1, <3>2, ClaimTyped DEF Claimed
    <3>4. QED BY <2>1, <3>2, <3>3, SurvivalInv, GivenUpSurvives
  <2>4. QED BY <2>2, <2>3
<1>6. ASSUME FallBackToNand
      PROVE  Survival'
  <2>1. UNCHANGED <<canonical, recovery, live, marker, flushed>> /\ (digestOk' => digestOk)
    BY <1>6 DEF FallBackToNand, usb, nand, liveFiles, memory, call
  <2>2. \A g \in Games : Claimed(g)' <=> Claimed(g) BY <2>1 DEF Claimed
  <2>3. /\ \A g \in Games : Holds(g)' => Holds(g) /\ bank' = bank
        /\ pc' \notin {"unlink", "import", "disown", "write", "digest", "commit", "save"}
    BY <1>6, SurvivalInv DEF FallBackToNand, Holds, Confirming, Running, FlushPcs, Abort,
       FlushFails,
       SurvivalInv, IInv, BaseInv, FlushInv, usb, nand, liveFiles, memory, call
  <2>4. QED BY <2>1, <2>2, <2>3, SurvivalInv, QuietSurvives
<1>7. ASSUME UnlinkSnapshot
      PROVE  Survival'
  <2>1. IInv /\ pc \in FlushPcs /\ owner.id \in Games
    BY <1>7, SurvivalInv, FlushClaim DEF UnlinkSnapshot, SurvivalInv, FlushPcs
  <2>2. /\ UNCHANGED <<canonical, marker, live, digestOk, owner>> /\ FlushSucceeds
        /\ recovery' = IF recDir = "ready" THEN [recovery EXCEPT ![owner.id] = Absent] ELSE recovery
    BY <1>7 DEF UnlinkSnapshot, usb, liveFiles
  <2>3. live # Absent /\ canonical[owner.id] = live
    BY <1>7, <2>1, SurvivalInv, ContentTyped
       DEF UnlinkSnapshot, SurvivalInv, Survival, KeptInv, IInv, BaseInv, TypeOK
  <2>4. \A g \in Games : recovery'[g] = IF g = owner.id THEN Absent ELSE recovery[g]
    BY <2>1, <2>2 DEF IInv, BaseInv, TypeOK, SchemaPrecedesData
  <2>5. \A g \in Games : LoadSource(g)' = IF g = owner.id THEN live ELSE LoadSource(g)
    BY <2>2, <2>3, <2>4 DEF LoadSource
  <2>6. QED BY <2>1, <2>2, <2>5, SurvivalInv, FlushSurvives
<1>8. ASSUME MakeRecoveryDir
      PROVE  Survival'
  <2>1. UNCHANGED <<canonical, recovery, live, marker, flushed>> /\ (digestOk' => digestOk)
    BY <1>8 DEF MakeRecoveryDir, usb, nand, liveFiles, memory, call
  <2>2. \A g \in Games : Claimed(g)' <=> Claimed(g) BY <2>1 DEF Claimed
  <2>3. /\ \A g \in Games : Holds(g)' => Holds(g) /\ bank' = bank
        /\ pc' \notin {"unlink", "import", "disown", "write", "digest", "commit", "save"}
    BY <1>8, SurvivalInv DEF MakeRecoveryDir, Holds, Confirming, Running, FlushPcs, Abort,
       FlushFails,
       SurvivalInv, IInv, BaseInv, FlushInv, usb, nand, liveFiles, memory, call
  <2>4. QED BY <2>1, <2>2, <2>3, SurvivalInv, QuietSurvives
<1>9. ASSUME NandUnavailable
      PROVE  Survival'
  <2>1. UNCHANGED <<canonical, recovery, live, marker, flushed>> /\ (digestOk' => digestOk)
    BY <1>9 DEF NandUnavailable, FlushFails, Abort, usb, nand, liveFiles, memory, call
  <2>2. \A g \in Games : Claimed(g)' <=> Claimed(g) BY <2>1 DEF Claimed
  <2>3. /\ \A g \in Games : Holds(g)' => Holds(g) /\ bank' = bank
        /\ pc' \notin {"unlink", "import", "disown", "write", "digest", "commit", "save"}
    BY <1>9, SurvivalInv DEF NandUnavailable, Holds, Confirming, Running, FlushPcs, Abort,
       FlushFails,
       SurvivalInv, IInv, BaseInv, FlushInv, usb, nand, liveFiles, memory, call
  <2>4. QED BY <2>1, <2>2, <2>3, SurvivalInv, QuietSurvives
<1>10. ASSUME NEW g \in Games, NEW r \in Outcomes, ActivateSame(g, r)
      PROVE  Survival'
  <2>1. /\ where[g] \in Dirs /\ owner.dir \in Dirs
        /\ marker = Claim("ready", g, owner.dir) /\ owner.id = g
    BY <1>10, SurvivalInv, WhereTyped, OwnerFields
       DEF ActivateSame, FlushAllowed, MarkerAgrees, SurvivalInv, IInv, BaseInv, TypeOK
  <2>2. \A h \in Games : Claimed(h)' <=> Claimed(h)
    BY <1>10, <2>1, ClaimTyped DEF ActivateSame, Claimed
  <2>3. /\ UNCHANGED <<canonical, recovery, live, flushed, digestOk>>
        /\ pc' \in {"idle", "flush"} /\ (failed' \/ (pc' = "flush" /\ op' = "confirm"))
    BY <1>10 DEF ActivateSame, Abort, usb, nand
  <2>4. \A h \in Games : ~Holds(h)' BY <2>3 DEF Holds, Confirming, FlushPcs
  <2>5. QED BY <2>2, <2>3, <2>4, SurvivalInv, QuietSurvives
<1>11. ASSUME NEW r \in Outcomes, Invalidate(r)
      PROVE  Survival'
  <2>1. /\ pc = "import" /\ UNCHANGED <<canonical, recovery, live, flushed, digestOk, bank, next>>
        /\ bytes' = LoadSource(next)
    BY <1>11 DEF Invalidate, usb, nand
  <2>2. next \in Games /\ where[next] \in Dirs
    BY <2>1, SurvivalInv, WhereTyped DEF SurvivalInv, IInv, BaseInv, FlushInv
  <2>3. CASE r = "old"
    <3>1. marker' = marker /\ failed' /\ pc' \in {"idle", "flush"}
      BY <1>11, <2>3 DEF Invalidate, Abort
    <3>2. \A g \in Games : Claimed(g)' <=> Claimed(g) BY <3>1 DEF Claimed
    <3>3. \A g \in Games : ~Holds(g)' BY <3>1 DEF Holds
    <3>4. QED BY <2>1, <3>1, <3>2, <3>3, SurvivalInv, QuietSurvives
  <2>4. CASE r # "old"
    <3>1. marker' = Claim("pending", next, where[next]) /\ pc' \in {"idle", "flush", "write"}
      BY <1>11, <2>4 DEF Invalidate, Abort
    <3>2. \A g \in Games : ~Claimed(g)' BY <2>2, <3>1, ClaimTyped DEF Claimed
    <3>3. bytes' = LoadSource(next)' BY <2>1 DEF LoadSource
    <3>4. QED BY <2>1, <3>1, <3>2, <3>3, SurvivalInv, GivenUpSurvives
  <2>5. QED BY <2>3, <2>4
<1>12. ASSUME NEW r \in Outcomes, RefreshDigest(r)
      PROVE  Survival'
  <2>1. /\ pc \in {"write", "digest", "commit"}
        /\ UNCHANGED <<canonical, recovery, flushed, marker, next, bytes>>
        /\ pc' \notin {"unlink", "import", "disown", "save"}
    BY <1>12 DEF RefreshDigest, Abort, usb, nand, liveFiles, memory, call
  <2>2. QED BY <2>1, SurvivalInv, ImportSurvives
<1>13. ASSUME NEW r \in Outcomes, Commit(r)
      PROVE  Survival'
  <2>1. /\ pc = "commit" /\ next \in Games /\ where[next] \in Dirs /\ live = bytes /\ digestOk
        /\ IInv
    BY <1>13, SurvivalInv, WhereTyped
       DEF Commit, SurvivalInv, IInv, BaseInv, FlushInv, ImportInv
  <2>2. CASE r = "old"
    <3>1. /\ UNCHANGED <<canonical, recovery, flushed, marker, next, bytes>>
          /\ pc' \notin {"unlink", "import", "disown", "save"}
      BY <1>13, <2>2 DEF Commit, Abort, usb, nand
    <3>2. QED BY <2>1, <3>1, SurvivalInv, ImportSurvives
  <2>3. CASE r # "old"
    <3>1. /\ UNCHANGED <<canonical, recovery, live, flushed, digestOk>>
          /\ marker' = Claim("ready", next, where[next]) /\ pc' \in {"idle", "flush"}
          /\ failed' \/ (pc' = "flush" /\ op' = "confirm")
      BY <1>13, <2>3 DEF Commit, Abort, usb, nand
    <3>2. \A g \in Games : Claimed(g)' <=> g = next BY <2>1, <3>1, ClaimTyped DEF Claimed
    <3>3. \A g \in Games : ~Holds(g)' BY <3>1 DEF Holds, Confirming, FlushPcs
    <3>4. \A g \in Games : ~Claimed(g) BY <2>1 DEF IInv, BaseInv, ImportInv, Claimed
    <3>5. live = LoadSource(next) BY <2>1, SurvivalInv DEF SurvivalInv, Survival, KeptInv
    <3>6. \A g \in Games : LoadSource(g)' = LoadSource(g) /\ canonical'[g] = canonical[g]
      BY <3>1, SourceKept
    <3>7. CopyInv'
      BY <2>1, <3>1, <3>2, <3>3, <3>4, <3>5, <3>6, SurvivalInv DEF SurvivalInv, Survival,
         CopyInv
    <3>8. HeldInv' BY <3>3 DEF HeldInv
    <3>9. KeptInv' BY <3>1 DEF KeptInv
    <3>10. QED BY <3>7, <3>8, <3>9 DEF Survival
  <2>4. QED BY <2>2, <2>3
<1>14. ASSUME NEW g \in Games, ActivateRefused(g)
      PROVE  Survival'
  <2>1. UNCHANGED <<canonical, recovery, live, marker, flushed>> /\ (digestOk' => digestOk)
    BY <1>14 DEF ActivateRefused, usb, nand, liveFiles, memory, call
  <2>2. \A h \in Games : Claimed(h)' <=> Claimed(h) BY <2>1 DEF Claimed
  <2>3. /\ \A h \in Games : Holds(h)' => Holds(h) /\ bank' = bank
        /\ pc' \notin {"unlink", "import", "disown", "write", "digest", "commit", "save"}
    BY <1>14, SurvivalInv DEF ActivateRefused, Holds, Confirming, Running, FlushPcs, Abort,
       FlushFails,
       SurvivalInv, IInv, BaseInv, FlushInv, usb, nand, liveFiles, memory, call
  <2>4. QED BY <2>1, <2>2, <2>3, SurvivalInv, QuietSurvives
<1>15. ASSUME NEW g \in Games, ActivateSwitch(g)
      PROVE  Survival'
  <2>1. UNCHANGED <<canonical, recovery, live, marker, flushed>> /\ (digestOk' => digestOk)
    BY <1>15 DEF ActivateSwitch, usb, nand, liveFiles, memory, call
  <2>2. \A h \in Games : Claimed(h)' <=> Claimed(h) BY <2>1 DEF Claimed
  <2>3. /\ \A h \in Games : Holds(h)' => Holds(h) /\ bank' = bank
        /\ pc' \notin {"unlink", "import", "disown", "write", "digest", "commit", "save"}
    BY <1>15, SurvivalInv DEF ActivateSwitch, Holds, Confirming, Running, FlushPcs, Abort,
       FlushFails,
       SurvivalInv, IInv, BaseInv, FlushInv, usb, nand, liveFiles, memory, call
  <2>4. QED BY <2>1, <2>2, <2>3, SurvivalInv, QuietSurvives
<1>16. ASSUME NEW g \in Games, ActivateFresh(g)
      PROVE  Survival'
  <2>1. /\ UNCHANGED <<canonical, recovery, live, marker, flushed, digestOk, bank, failed>>
        /\ pc = "idle" /\ pc' = "import" /\ owner = Absent /\ ~failed
    BY <1>16 DEF ActivateFresh, usb, nand, liveFiles, memory
  <2>2. \A h \in Games : Claimed(h)' <=> Claimed(h) BY <2>1 DEF Claimed
  <2>3. \A h \in Games : ~Claimed(h)
    BY <2>1, SurvivalInv DEF SurvivalInv, IInv, BaseInv, BankInv, Running
  <2>4. \A h \in Games : LoadSource(h)' = LoadSource(h) /\ canonical'[h] = canonical[h]
    BY <2>1, SourceKept
  <2>5. CopyInv' BY <2>1, <2>2, <2>3, <2>4, SurvivalInv DEF SurvivalInv, Survival, CopyInv
  <2>6. HeldInv' BY <2>2, <2>3 DEF HeldInv
  <2>7. KeptInv' BY <2>1, <2>2, <2>3 DEF KeptInv
  <2>8. QED BY <2>5, <2>6, <2>7 DEF Survival
<1>17. ASSUME ImportUnreadable
      PROVE  Survival'
  <2>1. UNCHANGED <<canonical, recovery, live, marker, flushed>> /\ (digestOk' => digestOk)
    BY <1>17 DEF ImportUnreadable, usb, nand, liveFiles, memory, call
  <2>2. \A g \in Games : Claimed(g)' <=> Claimed(g) BY <2>1 DEF Claimed
  <2>3. /\ \A g \in Games : Holds(g)' => Holds(g) /\ bank' = bank
        /\ pc' \notin {"unlink", "import", "disown", "write", "digest", "commit", "save"}
    BY <1>17, SurvivalInv DEF ImportUnreadable, Holds, Confirming, Running, FlushPcs,
       Abort, FlushFails,
       SurvivalInv, IInv, BaseInv, FlushInv, usb, nand, liveFiles, memory, call
  <2>4. QED BY <2>1, <2>2, <2>3, SurvivalInv, QuietSurvives
<1>18. ASSUME WriteSlot
      PROVE  Survival'
  <2>1. /\ pc \in {"write", "digest", "commit"}
        /\ UNCHANGED <<canonical, recovery, flushed, marker, next, bytes>>
        /\ pc' \notin {"unlink", "import", "disown", "save"}
    BY <1>18 DEF WriteSlot, Abort, usb, nand, liveFiles, memory, call
  <2>2. QED BY <2>1, SurvivalInv, ImportSurvives
<1>19. ASSUME WriteSlotFails
      PROVE  Survival'
  <2>1. /\ pc \in {"write", "digest", "commit"}
        /\ UNCHANGED <<canonical, recovery, flushed, marker, next, bytes>>
        /\ pc' \notin {"unlink", "import", "disown", "save"}
    BY <1>19 DEF WriteSlotFails, Abort, usb, nand, liveFiles, memory, call
  <2>2. QED BY <2>1, SurvivalInv, ImportSurvives
<1>20. ASSUME CallFlush
      PROVE  Survival'
  <2>1. UNCHANGED <<canonical, recovery, live, marker, flushed>> /\ (digestOk' => digestOk)
    BY <1>20 DEF CallFlush, usb, nand, liveFiles, memory, call
  <2>2. \A g \in Games : Claimed(g)' <=> Claimed(g) BY <2>1 DEF Claimed
  <2>3. /\ \A g \in Games : Holds(g)' => Holds(g) /\ bank' = bank
        /\ pc' \notin {"unlink", "import", "disown", "write", "digest", "commit", "save"}
    BY <1>20, SurvivalInv DEF CallFlush, Holds, Confirming, Running, FlushPcs, Abort,
       FlushFails,
       SurvivalInv, IInv, BaseInv, FlushInv, usb, nand, liveFiles, memory, call
  <2>4. QED BY <2>1, <2>2, <2>3, SurvivalInv, QuietSurvives
<1>21. ASSUME CallRelease
      PROVE  Survival'
  <2>1. UNCHANGED <<canonical, recovery, live, marker, flushed>> /\ (digestOk' => digestOk)
    BY <1>21 DEF CallRelease, usb, nand, liveFiles, memory, call
  <2>2. \A g \in Games : Claimed(g)' <=> Claimed(g) BY <2>1 DEF Claimed
  <2>3. /\ \A g \in Games : Holds(g)' => Holds(g) /\ bank' = bank
        /\ pc' \notin {"unlink", "import", "disown", "write", "digest", "commit", "save"}
    BY <1>21, SurvivalInv DEF CallRelease, Holds, Confirming, Running, FlushPcs, Abort,
       FlushFails,
       SurvivalInv, IInv, BaseInv, FlushInv, usb, nand, liveFiles, memory, call
  <2>4. QED BY <2>1, <2>2, <2>3, SurvivalInv, QuietSurvives
<1>22. ASSUME ResetBindings
      PROVE  Survival'
  <2>1. UNCHANGED <<canonical, recovery, live, marker, flushed>> /\ (digestOk' => digestOk)
    BY <1>22 DEF ResetBindings, usb, nand, liveFiles, memory, call
  <2>2. \A g \in Games : Claimed(g)' <=> Claimed(g) BY <2>1 DEF Claimed
  <2>3. /\ \A g \in Games : Holds(g)' => Holds(g) /\ bank' = bank
        /\ pc' \notin {"unlink", "import", "disown", "write", "digest", "commit", "save"}
    BY <1>22, SurvivalInv DEF ResetBindings, Holds, Confirming, Running, FlushPcs, Abort,
       FlushFails,
       SurvivalInv, IInv, BaseInv, FlushInv, usb, nand, liveFiles, memory, call
  <2>4. QED BY <2>1, <2>2, <2>3, SurvivalInv, QuietSurvives
<1>23. ASSUME ResetLegacy
      PROVE  Survival'
  <2>1. UNCHANGED <<canonical, recovery, live, marker, flushed>> /\ (digestOk' => digestOk)
    BY <1>23 DEF ResetLegacy, usb, nand, liveFiles, memory, call
  <2>2. \A g \in Games : Claimed(g)' <=> Claimed(g) BY <2>1 DEF Claimed
  <2>3. /\ \A g \in Games : Holds(g)' => Holds(g) /\ bank' = bank
        /\ pc' \notin {"unlink", "import", "disown", "write", "digest", "commit", "save"}
    BY <1>23, SurvivalInv DEF ResetLegacy, Holds, Confirming, Running, FlushPcs, Abort,
       FlushFails,
       SurvivalInv, IInv, BaseInv, FlushInv, usb, nand, liveFiles, memory, call
  <2>4. QED BY <2>1, <2>2, <2>3, SurvivalInv, QuietSurvives
<1>24. ASSUME InitFails
      PROVE  Survival'
  <2>1. UNCHANGED <<canonical, recovery, live, marker, flushed>> /\ (digestOk' => digestOk)
    BY <1>24 DEF InitFails, usb, nand, liveFiles, memory, call
  <2>2. \A g \in Games : Claimed(g)' <=> Claimed(g) BY <2>1 DEF Claimed
  <2>3. /\ \A g \in Games : Holds(g)' => Holds(g) /\ bank' = bank
        /\ pc' \notin {"unlink", "import", "disown", "write", "digest", "commit", "save"}
    BY <1>24, SurvivalInv DEF InitFails, Holds, Confirming, Running, FlushPcs, Abort,
       FlushFails,
       SurvivalInv, IInv, BaseInv, FlushInv, usb, nand, liveFiles, memory, call
  <2>4. QED BY <2>1, <2>2, <2>3, SurvivalInv, QuietSurvives
<1>25. ASSUME NEW g \in Games, Bind(g)
      PROVE  Survival'
  <2>1. UNCHANGED <<canonical, recovery, live, marker, flushed>> /\ (digestOk' => digestOk)
    BY <1>25 DEF Bind, usb, nand, liveFiles, memory, call
  <2>2. \A h \in Games : Claimed(h)' <=> Claimed(h) BY <2>1 DEF Claimed
  <2>3. /\ \A h \in Games : Holds(h)' => Holds(h) /\ bank' = bank
        /\ pc' \notin {"unlink", "import", "disown", "write", "digest", "commit", "save"}
    BY <1>25, SurvivalInv DEF Bind, Holds, Confirming, Running, FlushPcs, Abort, FlushFails,
       SurvivalInv, IInv, BaseInv, FlushInv, usb, nand, liveFiles, memory, call
  <2>4. QED BY <2>1, <2>2, <2>3, SurvivalInv, QuietSurvives
<1>26. ASSUME EngineWritesData
      PROVE  Survival'
  <2>1. /\ UNCHANGED <<canonical, recovery, marker, flushed, failed, owner>>
        /\ pc = "idle" /\ ~failed /\ pc' = "save" /\ bank' = live' /\ ~digestOk'
        /\ live' \in Newer(bank) /\ (bank.game = NoGame => owner = Absent)
    BY <1>26 DEF EngineWritesData, usb, nand
  <2>2. \A g \in Games : Claimed(g)' <=> Claimed(g) BY <2>1 DEF Claimed
  <2>3. ASSUME NEW g \in Games, Claimed(g)
        PROVE  Holds(g) /\ bank = live /\ flushed[g] <= live.n
    <3>1. owner # Absent /\ bank.game \in {g, NoGame}
      BY <2>1, <2>3, SurvivalInv DEF SurvivalInv, IInv, BaseInv, BankInv, Running, FlushPcs
    <3>2. Holds(g) BY <2>1, <3>1 DEF Holds, Confirming, Running, FlushPcs
    <3>3. QED BY <2>3, <3>2, SurvivalInv DEF SurvivalInv, Survival, CopyInv, HeldInv
  <2>4. bank \in Contents /\ IInv BY SurvivalInv DEF SurvivalInv, IInv, BaseInv, TypeOK
  <2>5. live'.n \in Nat /\ bank.n \in Nat /\ bank.n <= live'.n
    BY <2>1, <2>4, SaveOwnerAssumption DEF Newer, Contents
  <2>6. \A g \in Games : LoadSource(g)' = LoadSource(g) /\ canonical'[g] = canonical[g]
    BY <2>1, SourceKept
  <2>7. \A g \in Games : flushed[g] \in Nat BY <2>4, Numbers
  <2>8. \A g \in Games : Claimed(g) => flushed[g] <= live'.n BY <2>3, <2>5, <2>7
  <2>9. CopyInv'
    BY <2>1, <2>2, <2>6, <2>8, SurvivalInv DEF SurvivalInv, Survival, CopyInv
  <2>10. HeldInv' BY <2>1 DEF HeldInv
  <2>11. KeptInv' BY <2>1 DEF KeptInv
  <2>12. QED BY <2>9, <2>10, <2>11 DEF Survival
<1>27. ASSUME NEW r \in Outcomes, EngineWritesMeta(r)
      PROVE  Survival'
  <2>1. /\ UNCHANGED <<canonical, recovery, live, marker, flushed, bank, failed>>
        /\ pc = "save" /\ pc' = "idle"
    BY <1>27 DEF EngineWritesMeta, usb, nand, memory
  <2>2. \A g \in Games : Claimed(g)' <=> Claimed(g) BY <2>1 DEF Claimed
  <2>3. bank = live /\ ~failed
    BY <2>1, SurvivalInv DEF SurvivalInv, Survival, KeptInv, IInv, BaseInv, BankInv
  <2>4. \A g \in Games : Claimed(g) => Holds(g)
    BY <2>1, <2>3, SurvivalInv DEF SurvivalInv, IInv, BaseInv, BankInv, Holds, Confirming, Running,
       FlushPcs
  <2>5. \A g \in Games : LoadSource(g)' = LoadSource(g) /\ canonical'[g] = canonical[g]
    BY <2>1, SourceKept
  <2>6. CopyInv'
    BY <2>1, <2>2, <2>4, <2>5, SurvivalInv DEF SurvivalInv, Survival, CopyInv
  <2>7. HeldInv' BY <2>1, <2>3 DEF HeldInv
  <2>8. KeptInv' BY <2>1 DEF KeptInv
  <2>9. QED BY <2>6, <2>7, <2>8 DEF Survival
<1>28. ASSUME NEW v \in BOOLEAN, Boot(v)
      PROVE  Survival'
  <2>1. /\ UNCHANGED <<canonical, recovery, live, marker, flushed, digestOk>>
        /\ pc' \in {"idle", "flush", "stopped"}
        /\ bank' = Junk \/ (bank' = live /\ digestOk)
    BY <1>28 DEF Boot, usb, nand, liveFiles
  <2>2. \A g \in Games : Claimed(g)' <=> Claimed(g) BY <2>1 DEF Claimed
  <2>3. \A g \in Games : Holds(g)' => bank' = live /\ digestOk
    BY <2>1, ContentTyped, SaveOwnerAssumption DEF Holds
  <2>4. \A g \in Games : LoadSource(g)' = LoadSource(g) /\ canonical'[g] = canonical[g]
    BY <2>1, SourceKept
  <2>5. CopyInv'
    BY <2>1, <2>2, <2>3, <2>4, SurvivalInv DEF SurvivalInv, Survival, CopyInv
  <2>6. HeldInv' BY <2>1, <2>3 DEF HeldInv
  <2>7. KeptInv' BY <2>1 DEF KeptInv
  <2>8. QED BY <2>5, <2>6, <2>7 DEF Survival
<1>29. ASSUME Crash
      PROVE  Survival'
  <2>1. UNCHANGED <<canonical, recovery, live, marker, flushed>> /\ (digestOk' => digestOk)
    BY <1>29 DEF Crash, usb, nand, liveFiles, memory, call
  <2>2. \A g \in Games : Claimed(g)' <=> Claimed(g) BY <2>1 DEF Claimed
  <2>3. /\ \A g \in Games : Holds(g)' => Holds(g) /\ bank' = bank
        /\ pc' \notin {"unlink", "import", "disown", "write", "digest", "commit", "save"}
    BY <1>29, SurvivalInv DEF Crash, Holds, Confirming, Running, FlushPcs, Abort,
       FlushFails,
       SurvivalInv, IInv, BaseInv, FlushInv, usb, nand, liveFiles, memory, call
  <2>4. QED BY <2>1, <2>2, <2>3, SurvivalInv, QuietSurvives
<1>30. ASSUME EditorMoves
      PROVE  Survival'
  <2>1. UNCHANGED <<canonical, recovery, live, marker, flushed>> /\ (digestOk' => digestOk)
    BY <1>30 DEF EditorMoves, usb, nand, liveFiles, memory, call
  <2>2. \A g \in Games : Claimed(g)' <=> Claimed(g) BY <2>1 DEF Claimed
  <2>3. /\ \A g \in Games : Holds(g)' => Holds(g) /\ bank' = bank
        /\ pc' \notin {"unlink", "import", "disown", "write", "digest", "commit", "save"}
    BY <1>30, SurvivalInv DEF EditorMoves, Holds, Confirming, Running, FlushPcs, Abort,
       FlushFails,
       SurvivalInv, IInv, BaseInv, FlushInv, usb, nand, liveFiles, memory, call
  <2>4. QED BY <2>1, <2>2, <2>3, SurvivalInv, QuietSurvives
<1>31. ASSUME StoppedEngineWrites
      PROVE  Survival'
  BY <1>31 DEF StoppedEngineWrites
<1>32. QED
  BY <1>1, <1>2, <1>3, <1>4, <1>5, <1>6, <1>7, <1>8, <1>9, <1>10, <1>11, <1>12, <1>13,
     <1>14, <1>15, <1>16, <1>17, <1>18, <1>19, <1>20, <1>21, <1>22, <1>23, <1>24, <1>25,
     <1>26, <1>27, <1>28, <1>29, <1>30, <1>31 DEF Next, FlushStep, ActivateStep,
     ScriptStep, EngineStep

\* No game has saved before the first process starts.
LEMMA InitSurvival == Init => Survival
<1> SUFFICES ASSUME Init PROVE Survival
  OBVIOUS
<1>1. IInv BY InitIInv
<1>2. \A g \in Games : flushed[g] = 0 /\ ~Claimed(g) BY DEF Init, Claimed
<1>3. CopyInv BY <1>1, <1>2, Numbers DEF CopyInv
<1>4. HeldInv /\ KeptInv BY <1>2 DEF Init, HeldInv, KeptInv
<1>5. QED BY <1>3, <1>4 DEF Survival

\* Survival speaks of the declared variables only.
LEMMA StutterSurvival == Survival /\ UNCHANGED vars => Survival'
<1> SUFFICES ASSUME Survival, UNCHANGED vars PROVE Survival'
  OBVIOUS
<1>1. UNCHANGED <<canonical, recovery, live, digestOk, marker, owner, flushed>>
  BY DEF vars, usb, nand, liveFiles, memory
<1>2. UNCHANGED <<bank, failed, pc, op, next, bytes>> BY DEF vars, memory, call
<1>3. \A g \in Games : LoadSource(g)' = LoadSource(g) /\ canonical'[g] = canonical[g]
  BY <1>1, SourceKept
<1>4. \A g \in Games : (Claimed(g)' <=> Claimed(g)) /\ (Holds(g)' <=> Holds(g))
  BY <1>1, <1>2 DEF Claimed, Holds, Confirming, Running, FlushPcs
<1>5. CopyInv' BY <1>1, <1>3, <1>4 DEF Survival, CopyInv
<1>6. HeldInv' BY <1>1, <1>2, <1>4 DEF Survival, HeldInv
<1>7. KeptInv' BY <1>1, <1>2, <1>3, <1>4 DEF Survival, KeptInv, LoadSource
<1>8. QED BY <1>5, <1>6, <1>7 DEF Survival

\* The whole strengthening is inductive where no ignored failure happens.
THEOREM SurvivalInductive == Spec => [](ignored = {} => SurvivalInv)
<1> DEFINE Owned == "stoppedEngineWrites" \notin ignored => IInv
           Inv == ignored = {} => Survival
<1>1. Spec => []Owned BY Inductive
<1>2. Init => Inv BY InitSurvival
<1>3. ASSUME Owned, Inv, [Next /\ UNCHANGED ignored]_vars PROVE Inv'
  <2> SUFFICES ASSUME ignored' = {} PROVE Survival'
    OBVIOUS
  <2>1. ignored = {} /\ SurvivalInv BY <1>3 DEF vars, SurvivalInv
  <2>2. CASE Next BY <2>1, <2>2, SurvivalStep
  <2>3. CASE UNCHANGED vars BY <2>1, <2>3, StutterSurvival DEF SurvivalInv
  <2>4. QED BY <1>3, <2>2, <2>3
<1>4. Owned /\ Inv => (ignored = {} => SurvivalInv)
  BY DEF SurvivalInv
<1> HIDE DEF Owned, Inv
<1>5. QED BY <1>1, <1>2, <1>3, <1>4, PTL DEF Spec

\* A save that save_owner_flush reported as kept is never lost, where none of
\* the ignored failures happen.
THEOREM FlushedIsKept == Spec => []FlushedSurvives
<1>1. ASSUME SurvivalInv, NEW g \in Games
      PROVE  flushed[g] <=
               IF ~Claimed(g) THEN LoadSource(g).n
               ELSE IF digestOk THEN live.n
               ELSE IF canonical[g] # Absent /\ canonical[g].n > LoadSource(g).n
                      THEN canonical[g].n ELSE LoadSource(g).n
  <2>1. IInv BY <1>1 DEF SurvivalInv
  <2>2. /\ flushed[g] \in Nat /\ LoadSource(g).n \in Nat
        /\ canonical[g] # Absent => canonical[g].n \in Nat
    BY <2>1, Numbers
  <2>3. QED BY <1>1, <2>2 DEF SurvivalInv, Survival, CopyInv
<1>2. (ignored = {} => SurvivalInv) => FlushedSurvives BY <1>1 DEF FlushedSurvives
<1>3. QED BY <1>2, SurvivalInductive, PTL

-----------------------------------------------------------------------------
(* The console never converts an sram.bin of the old representation *)

\* StoreCanonical waits for the schema, and WriteSchema for a folder that has
\* none of the old bytes.
THEOREM LegacyUntouched == Spec => LegacySramUntouched
<1> DEFINE Kept == \A g \in Games : canonical[g] # Absent /\ g \notin schema =>
                     canonical'[g] = canonical[g] /\ g \notin schema'
<1>1. ASSUME NEW r \in Outcomes, WriteSchema(r) PROVE Kept
  BY <1>1 DEF WriteSchema, SchemaAccepted
<1>2. ASSUME NEW r \in Outcomes, StoreCanonical(r) PROVE Kept
  <2>1. PICK g \in Games :
          /\ g \in schema /\ schema' = schema
          /\ canonical' = IF r = "old" THEN canonical ELSE [canonical EXCEPT ![g] = live]
    BY <1>2 DEF StoreCanonical
  <2>2. \A h \in Games : h # g => canonical'[h] = canonical[h] BY <2>1
  <2>3. QED BY <2>1, <2>2
<1>3. ASSUME UNCHANGED <<canonical, schema>> PROVE Kept
  BY <1>3
<1>4. ASSUME Next PROVE Kept
  <2>1. CASE \E r \in Outcomes : WriteSchema(r) \/ StoreCanonical(r)
    BY <1>1, <1>2, <2>1
  <2>2. CASE UNCHANGED <<canonical, schema>> BY <1>3, <2>2
  <2>3. ASSUME FlushStep
        PROVE  \/ \E r \in Outcomes : WriteSchema(r) \/ StoreCanonical(r)
               \/ UNCHANGED <<canonical, schema>>
    BY <2>3 DEF FlushStep, RenameRecoverySchema, StoreSnapshot, Disown, FallBackToNand,
       UnlinkSnapshot, MakeRecoveryDir, NandUnavailable, usb
  <2>4. ActivateStep => UNCHANGED <<canonical, schema>>
    BY DEF ActivateStep, ActivateSame, Invalidate, RefreshDigest, Commit, ActivateRefused,
       ActivateSwitch, ActivateFresh, ImportUnreadable, WriteSlot, WriteSlotFails, usb
  <2>5. ScriptStep => UNCHANGED <<canonical, schema>>
    BY DEF ScriptStep, CallFlush, CallRelease, ResetBindings, ResetLegacy, InitFails, Bind,
       usb
  <2>6. EngineStep => UNCHANGED <<canonical, schema>>
    BY DEF EngineStep, EngineWritesData, EngineWritesMeta, Boot, StoppedEngineWrites, Crash,
       EditorMoves, usb
  <2>7. QED BY <1>4, <2>1, <2>2, <2>3, <2>4, <2>5, <2>6 DEF Next
<1>5. UNCHANGED vars => UNCHANGED <<canonical, schema>> BY DEF vars, usb
<1>6. [Next /\ UNCHANGED ignored]_vars => [Kept]_vars BY <1>4
<1>7. QED BY <1>6, PTL DEF Spec, LegacySramUntouched, Kept

-----------------------------------------------------------------------------
(* The hook implements the abstract store of one save per game *)

\* The games a process claims, and what each would next start from, as before.
ValuesKept == \A g \in Games : Authoritative(g)' = Authoritative(g)

\* A step that changes no value is a hand-over of the abstract store.
LEMMA HandoverStep ==
  ASSUME ignored = {} => ValuesKept, UNCHANGED ignored, TypeOK'
  PROVE  Promise!Handover
<1>1. [g \in Games |-> IF ignored = {} THEN Authoritative(g) ELSE 0]'
        = [g \in Games |-> IF ignored = {} THEN Authoritative(g) ELSE 0]
  BY DEF ValuesKept
<1>2. (IF ignored = {} /\ Loaded(marker) # Absent THEN marker.id ELSE NoGame)'
        \in Games \cup {NoGame}
  BY DEF TypeOK, Loaded, Claims
<1>3. QED BY <1>1, <1>2 DEF Promise!Handover

\* Neither a copy, nor the bank, nor the marker.
LEMMA QuietValues ==
  ASSUME UNCHANGED <<canonical, recovery, live, marker>>
  PROVE  ValuesKept
BY SourceKept DEF ValuesKept, Authoritative, Claimed

\* A copy of the bank, for the game that is claimed.
LEMMA CopiedValues ==
  ASSUME IInv, pc \in FlushPcs, UNCHANGED <<live, marker>>,
         \A g \in Games : g # owner.id =>
           canonical'[g] = canonical[g] /\ recovery'[g] = recovery[g]
  PROVE  ValuesKept
<1>1. \A g \in Games : Claimed(g) <=> g = owner.id BY FlushClaim
<1>2. \A g \in Games : Claimed(g)' <=> Claimed(g) BY DEF Claimed
<1>3. \A g \in Games : g # owner.id => LoadSource(g)' = LoadSource(g) BY DEF LoadSource
<1>4. QED BY <1>1, <1>2, <1>3 DEF ValuesKept, Authoritative

\* The bank is given up, after the copy.
LEMMA GivenUpValues ==
  ASSUME SurvivalInv, pc \in {"import", "disown"}, UNCHANGED <<canonical, recovery, live>>,
         \A g \in Games : ~Claimed(g)'
  PROVE  ValuesKept
<1>1. \A g \in Games : LoadSource(g)' = LoadSource(g) BY SourceKept
<1>2. \A g \in Games : Claimed(g) => LoadSource(g) = live
  BY DEF SurvivalInv, Survival, KeptInv
<1>3. QED BY <1>1, <1>2 DEF ValuesKept, Authoritative

\* Nobody is claimed while the slot is rewritten.
LEMMA ImportValues ==
  ASSUME IInv, pc \in {"write", "digest", "commit"},
         UNCHANGED <<canonical, recovery, marker>>
  PROVE  ValuesKept
<1>1. \A g \in Games : LoadSource(g)' = LoadSource(g) BY SourceKept
<1>2. \A g \in Games : ~Claimed(g) /\ ~Claimed(g)' BY DEF IInv, BaseInv, ImportInv, Claimed
<1>3. QED BY <1>1, <1>2 DEF ValuesKept, Authoritative

\* The engine's own save: the value of the game that is claimed moves on by one,
\* or stays.
LEMMA EngineValues ==
  ASSUME SurvivalInv, TypeOK', EngineWritesData, ignored = {}, UNCHANGED ignored
  PROVE  Promise!Next
<1>1. /\ UNCHANGED <<canonical, recovery, marker, failed, owner>>
      /\ pc = "idle" /\ ~failed /\ live' \in Newer(bank)
      /\ bank.game = NoGame => owner = Absent
  BY DEF EngineWritesData, usb, nand
<1>2. \A g \in Games : (Claimed(g)' <=> Claimed(g)) /\ LoadSource(g)' = LoadSource(g)
  BY <1>1, SourceKept DEF Claimed
<1>3. IInv /\ bank \in Contents BY DEF SurvivalInv, IInv, BaseInv, TypeOK
<1>4. live'.n = bank.n \/ live'.n = bank.n + 1
  BY <1>1, <1>3, SaveOwnerAssumption DEF Newer, Contents
<1>5. CASE \A g \in Games : ~Claimed(g)
  <2>1. ValuesKept BY <1>2, <1>5 DEF ValuesKept, Authoritative
  <2>2. QED BY <2>1, HandoverStep DEF Promise!Next
<1>6. ASSUME NEW g \in Games, Claimed(g)
      PROVE  Promise!Next
  <2>1. owner # Absent /\ bank.game \in {g, NoGame}
    BY <1>1, <1>3, <1>6 DEF IInv, BaseInv, BankInv, Running, FlushPcs
  <2>2. Holds(g) BY <1>1, <2>1 DEF Holds, Confirming, Running, FlushPcs
  <2>3. bank = live BY <1>6, <2>2 DEF SurvivalInv, Survival, HeldInv
  <2>4. \A h \in Games : Claimed(h) <=> h = g BY <1>6 DEF Claimed
  <2>5. Authoritative(g) = live.n /\ Authoritative(g)' = live'.n
    BY <1>2, <1>6 DEF Authoritative
  <2>6. \A h \in Games : h # g => Authoritative(h)' = Authoritative(h)
    BY <1>2, <2>4 DEF Authoritative
  <2>7. CASE live'.n = live.n
    <3>1. ValuesKept BY <2>5, <2>6, <2>7 DEF ValuesKept
    <3>2. QED BY <3>1, HandoverStep DEF Promise!Next
  <2>8. CASE live'.n = live.n + 1
    <3> DEFINE value == [h \in Games |-> IF ignored = {} THEN Authoritative(h) ELSE 0]
               holder == IF ignored = {} /\ Loaded(marker) # Absent
                           THEN marker.id ELSE NoGame
    <3>1. \A h \in Games : value[h] = Authoritative(h) /\ value'[h] = Authoritative(h)'
      OBVIOUS
    <3>2. value'[g] = value[g] + 1 BY <2>5, <2>8, <3>1
    <3>3. \A h \in Games : h # g => value'[h] = value[h] BY <2>6, <3>1
    <3>4. value = [h \in Games |-> value[h]] /\ value' = [h \in Games |-> value'[h]]
      OBVIOUS
    <3>5. value' = [value EXCEPT ![g] = @ + 1]
      <4> HIDE DEF value
      <4>1. QED BY <3>2, <3>3, <3>4
    <3>6. holder = g
      <4>1. marker # Absent /\ marker.state = "ready" /\ marker.id = g BY <1>6 DEF Claimed
      <4>2. marker.dir \in Dirs BY <1>3, <4>1 DEF IInv, BaseInv, TypeOK, Claims
      <4>3. Loaded(marker) # Absent BY <4>1, <4>2, OwnerTyped DEF Loaded
      <4>4. QED BY <4>1, <4>3
    <3>7. holder' = holder BY <1>1 DEF Loaded
    <3>8. Promise!Save(g) BY <3>5, <3>6, <3>7 DEF Promise!Save, value, holder
    <3>9. QED BY <3>8 DEF Promise!Next
  <2>9. QED BY <1>4, <2>3, <2>7, <2>8
<1>7. QED BY <1>5, <1>6

\* Every other step changes no value at all.
LEMMA ValuesStep ==
  ASSUME SurvivalInv, Next, ignored = {}
  PROVE  ValuesKept \/ EngineWritesData
<1>1. IInv BY DEF SurvivalInv
<1>2. ASSUME NEW r \in Outcomes, StoreCanonical(r)
      PROVE  ValuesKept
  <2>1. pc \in FlushPcs BY <1>2 DEF StoreCanonical, FlushPcs
  <2>2. \A g \in Games : g # owner.id => canonical'[g] = canonical[g]
    BY <1>2 DEF StoreCanonical, IdentityIs
  <2>3. UNCHANGED <<live, marker, recovery>> BY <1>2 DEF StoreCanonical, nand, liveFiles
  <2>4. QED BY <1>1, <2>1, <2>2, <2>3, CopiedValues
<1>3. ASSUME UnlinkSnapshot \/ \E r \in Outcomes : StoreSnapshot(r)
      PROVE  ValuesKept
  <2>1. pc \in FlushPcs BY <1>3 DEF UnlinkSnapshot, StoreSnapshot, FlushPcs
  <2>2. \A g \in Games : g # owner.id => recovery'[g] = recovery[g]
    BY <1>1, <1>3 DEF UnlinkSnapshot, StoreSnapshot, IInv, BaseInv, TypeOK
  <2>3. UNCHANGED <<live, marker, canonical>>
    BY <1>3 DEF UnlinkSnapshot, StoreSnapshot, usb, liveFiles
  <2>4. QED BY <1>1, <2>1, <2>2, <2>3, CopiedValues
<1>4. ASSUME NEW r \in Outcomes, Disown(r)
      PROVE  ValuesKept
  <2>1. pc = "disown" /\ UNCHANGED <<canonical, recovery, live>>
    BY <1>4 DEF Disown, usb, nand
  <2>2. CASE r = "old" BY <1>4, <2>1, <2>2, QuietValues DEF Disown
  <2>3. CASE r # "old"
    <3>1. owner.id \in Games /\ owner.dir \in Dirs BY <1>1, <2>1, FlushOwner DEF IInv
    <3>2. marker' = Claim("pending", owner.id, owner.dir) BY <1>4, <2>3 DEF Disown
    <3>3. \A g \in Games : ~Claimed(g)' BY <3>1, <3>2, ClaimTyped DEF Claimed
    <3>4. QED BY <2>1, <3>3, GivenUpValues
  <2>4. QED BY <2>2, <2>3
<1>5. ASSUME NEW g \in Games, NEW r \in Outcomes, ActivateSame(g, r)
      PROVE  ValuesKept
  <2>1. /\ where[g] \in Dirs /\ owner.dir \in Dirs
        /\ marker = Claim("ready", g, owner.dir)
    BY <1>1, <1>5, WhereTyped, OwnerFields
       DEF ActivateSame, FlushAllowed, MarkerAgrees, IInv, BaseInv, TypeOK
  <2>2. \A h \in Games : Claimed(h)' <=> Claimed(h)
    BY <1>5, <2>1, ClaimTyped DEF ActivateSame, Claimed
  <2>3. UNCHANGED <<canonical, recovery, live>> BY <1>5 DEF ActivateSame, usb, nand
  <2>4. QED BY <2>2, <2>3, SourceKept DEF ValuesKept, Authoritative
<1>6. ASSUME NEW r \in Outcomes, Invalidate(r)
      PROVE  ValuesKept
  <2>1. pc = "import" /\ UNCHANGED <<canonical, recovery, live>>
    BY <1>6 DEF Invalidate, usb, nand
  <2>2. CASE r = "old" BY <1>6, <2>1, <2>2, QuietValues DEF Invalidate
  <2>3. CASE r # "old"
    <3>1. next \in Games /\ where[next] \in Dirs
      BY <1>1, <2>1, WhereTyped DEF IInv, BaseInv, FlushInv
    <3>2. marker' = Claim("pending", next, where[next]) BY <1>6, <2>3 DEF Invalidate
    <3>3. \A g \in Games : ~Claimed(g)' BY <3>1, <3>2, ClaimTyped DEF Claimed
    <3>4. QED BY <2>1, <3>3, GivenUpValues
  <2>4. QED BY <2>2, <2>3
<1>7. ASSUME NEW r \in Outcomes, Commit(r)
      PROVE  ValuesKept
  <2>1. /\ pc = "commit" /\ next \in Games /\ where[next] \in Dirs /\ live = bytes
        /\ UNCHANGED <<canonical, recovery, live>>
    BY <1>1, <1>7, WhereTyped DEF Commit, IInv, BaseInv, FlushInv, ImportInv, usb, nand
  <2>2. CASE r = "old" BY <1>7, <2>1, <2>2, QuietValues DEF Commit
  <2>3. CASE r # "old"
    <3>1. marker' = Claim("ready", next, where[next]) BY <1>7, <2>3 DEF Commit
    <3>2. \A g \in Games : Claimed(g)' <=> g = next BY <2>1, <3>1, ClaimTyped DEF Claimed
    <3>3. \A g \in Games : ~Claimed(g) BY <1>1, <2>1 DEF IInv, BaseInv, ImportInv, Claimed
    <3>4. live = LoadSource(next) BY <2>1 DEF SurvivalInv, Survival, KeptInv
    <3>5. \A g \in Games : LoadSource(g)' = LoadSource(g) BY <2>1, SourceKept
    <3>6. QED BY <2>1, <3>2, <3>3, <3>4, <3>5 DEF ValuesKept, Authoritative
  <2>4. QED BY <2>2, <2>3
<1>8. ASSUME WriteSlot \/ WriteSlotFails
      PROVE  ValuesKept
  BY <1>1, <1>8, ImportValues DEF WriteSlot, WriteSlotFails, usb, nand
<1>9. ASSUME \/ \E r \in Outcomes : WriteSchema(r) \/ RenameRecoverySchema(r)
             \/ FallBackToNand \/ MakeRecoveryDir \/ NandUnavailable
      PROVE  UNCHANGED <<canonical, recovery, live, marker>>
  BY <1>9 DEF WriteSchema, RenameRecoverySchema, FallBackToNand, MakeRecoveryDir,
     NandUnavailable, usb, nand, liveFiles
<1>10. ASSUME \/ \E r \in Outcomes : RefreshDigest(r)
              \/ \E g \in Games : ActivateRefused(g) \/ ActivateSwitch(g) \/ ActivateFresh(g)
              \/ ImportUnreadable
       PROVE  UNCHANGED <<canonical, recovery, live, marker>>
  BY <1>10 DEF RefreshDigest, ActivateRefused, ActivateSwitch, ActivateFresh,
     ImportUnreadable, usb, nand, liveFiles
<1>11. ScriptStep => UNCHANGED <<canonical, recovery, live, marker>>
  BY DEF ScriptStep, CallFlush, CallRelease, ResetBindings, ResetLegacy, InitFails, Bind,
     usb, nand, liveFiles
<1>12. ASSUME EngineStep, ~EngineWritesData
       PROVE  UNCHANGED <<canonical, recovery, live, marker>>
  BY <1>12 DEF EngineStep, EngineWritesMeta, Boot, StoppedEngineWrites, Crash, EditorMoves,
     usb, nand, liveFiles
<1>13. CASE FlushStep
  BY <1>2, <1>3, <1>4, <1>9, <1>13, QuietValues DEF FlushStep
<1>14. CASE ActivateStep
  BY <1>5, <1>6, <1>7, <1>8, <1>10, <1>14, QuietValues DEF ActivateStep
<1>15. CASE ScriptStep BY <1>11, <1>15, QuietValues
<1>16. CASE EngineStep BY <1>12, <1>16, QuietValues
<1>17. QED BY <1>13, <1>14, <1>15, <1>16 DEF Next

\* Every reachable step is a step of the abstract store: activations, releases,
\* failures, crashes and moves are hand-overs, and only the engine of the game
\* that holds the bank makes a newer save.
THEOREM Implements == Spec => ImplementsPerGameSaves
<1>1. Init => Promise!Init
  <2> SUFFICES ASSUME Init PROVE Promise!Init
    OBVIOUS
  <2>1. marker = Absent /\ \A g \in Games : Authoritative(g) = 0
    BY ContentTyped DEF Init, Authoritative, Claimed, LoadSource
  <2>2. QED BY <2>1 DEF Promise!Init, Loaded
<1>2. ASSUME TypeOK', ignored = {} => SurvivalInv, [Next /\ UNCHANGED ignored]_vars
      PROVE  [Promise!Next]_Promise!vars
  <2>1. TypeOK' /\ UNCHANGED ignored BY <1>2 DEF vars
  <2>2. CASE UNCHANGED vars
    <3>1. UNCHANGED <<canonical, recovery, live, marker>>
      BY <2>2 DEF vars, usb, nand, liveFiles
    <3>2. ValuesKept BY <3>1, QuietValues
    <3>3. QED BY <2>1, <3>2, HandoverStep DEF Promise!Next
  <2>3. CASE Next
    <3>1. CASE ignored = {} => ValuesKept
      BY <2>1, <3>1, HandoverStep DEF Promise!Next
    <3>2. CASE ignored = {} /\ ~ValuesKept
      BY <1>2, <2>1, <2>3, <3>2, ValuesStep, EngineValues
    <3>3. QED BY <3>1, <3>2
  <2>4. QED BY <1>2, <2>2, <2>3
<1>3. QED
  BY <1>1, <1>2, TypeCorrect, SurvivalInductive, PTL
     DEF Spec, Promise!Spec, ImplementsPerGameSaves

=============================================================================
