----------------------------- MODULE SaveOwner ------------------------------
(***************************************************************************)
(* Ownership of the console's one native SRAM slot                         *)
(* (console-mod/hook-src/save_owner.h and its callers in m2hook_print.c    *)
(* and mod-assets/scripts-src/chronos_saves.nut).                          *)
(*                                                                         *)
(* The engine knows a single battery-save bank, stored in data_008 and     *)
(* guarded by an MD5 in meta_008.  The hook lends that bank to one game at *)
(* a time: a marker file names the owner, sram.bin in the game's folder on *)
(* the USB key is the canonical copy, and a snapshot on NAND is kept when  *)
(* the canonical copy cannot be written.  One action per durable step, so  *)
(* that a crash can fall between any two of them.                          *)
(*                                                                         *)
(* save_files_atomic (temporary, fsync, rename, fsync of the directory) is *)
(* one step with three outcomes, because an error of the last fsync comes  *)
(* after the rename: "ok", "old" (error, old file kept) and "new" (error,  *)
(* new file visible).                                                      *)
(***************************************************************************)
EXTENDS Naturals, FiniteSets

CONSTANTS
  Games,        \* stable game identities
  NoGame,       \* not a game: content or ownership nobody claims
  Dirs,         \* game directories of the USB library
  Absent,       \* "no such file"
  MaxVersion,   \* bound on the saves one game makes
  Faults        \* failures the code ignores: "unlink", "stoppedEngineWrites"

ASSUME SaveOwnerAssumption ==
  /\ NoGame \notin Games
  /\ MaxVersion \in Nat
  /\ Absent \notin [game : Games \cup {NoGame}, n : 0..MaxVersion]
  /\ Absent \notin [id : Games, dir : Dirs]
  /\ Absent \notin [state : {"ready", "pending"}, id : Games, dir : Dirs]
  /\ Faults \subseteq {"unlink", "stoppedEngineWrites"}

VARIABLES
  where,        \* USB: the directory that holds each game (.chronos-game-id)
  schema,       \* USB: games whose saves/.chronos-sram-schema says 2
  canonical,    \* USB: sram.bin of each game
  recDir,       \* NAND: state of .chronos-sram-recovery
  recovery,     \* NAND: <id>.bin snapshot of each game
  marker,       \* .chronos-sram-owner-v2, beside the live bank
  live,         \* the SRAM slot inside data_008
  digestOk,     \* does meta_008 hold the MD5 of data_008?
  owner,        \* g_save_owner, in memory (Absent: known = 0)
  enabled,      \* g_save_routes.enabled, in memory
  bound,        \* games with a binding in g_save_routes, in memory
  bank,         \* the SRAM in the engine's memory
  failed,       \* s_chronos_save_failed
  pc,           \* the step the hook (or the engine's save) is at
  op,           \* what the steps are done for
  next,         \* the game being activated
  bytes,        \* the SRAM read for it
  flushed,      \* history: version of each game's last successful flush
  ignored       \* those of Faults that may happen in this behaviour

usb == <<where, schema, canonical>>
nand == <<recDir, recovery>>
liveFiles == <<marker, live, digestOk>>
memory == <<owner, enabled, bound, bank, failed>>
call == <<pc, op, next, bytes>>
vars == <<usb, nand, liveFiles, memory, call, flushed, ignored>>

-----------------------------------------------------------------------------
(* Data *)

Contents == [game : Games \cup {NoGame}, n : 0..MaxVersion]
Junk == [game |-> NoGame, n |-> 0]
Blank(g) == [game |-> g, n |-> 0]

Claims == [state : {"ready", "pending"}, id : Games, dir : Dirs]
Owners == [id : Games, dir : Dirs]
Outcomes == {"ok", "old", "new"}
Steps == {"off", "idle", "save", "flush", "unlink", "nand", "nandSchema",
          "disown", "import", "write", "digest", "commit", "stopped"}
Purposes == {"none", "flush", "release", "legacy", "boot", "switch", "confirm"}

Claim(state, g, d) == [state |-> state, id |-> g, dir |-> d]
OwnerOf(g, d) == [id |-> g, dir |-> d]

\* save_owner_load: only a ready marker names an owner.
Loaded(m) ==
  IF m # Absent /\ m.state = "ready" THEN OwnerOf(m.id, m.dir) ELSE Absent

\* save_owner_check_marker: the marker on disk still names the owner in memory.
MarkerAgrees(o) == o # Absent /\ marker = Claim("ready", o.id, o.dir)

\* A bug to test the properties with: the identity file is not compared.
IdentityUnchecked(g, id) == TRUE

\* save_files_identity: the folder's .chronos-game-id is the expected one.
IdentityIs(g, id) == g = id

\* What save_owner_flush demands before it touches any copy.
FlushAllowed == MarkerAgrees(owner) /\ digestOk

\* Bugs to test the properties with: sram.bin is preferred to the snapshot, or
\* no bytes stand for a missing file.
LoadCanonicalFirst(g) ==
  IF canonical[g] # Absent THEN canonical[g]
  ELSE IF recovery[g] # Absent THEN recovery[g]
  ELSE Blank(g)

\* The bytes save_owner_activate reads for g: the NAND snapshot first, then
\* sram.bin, then zeros.
LoadSource(g) ==
  IF recovery[g] # Absent THEN recovery[g]
  ELSE IF canonical[g] # Absent THEN canonical[g]
  ELSE Blank(g)

\* A bug to test the properties with: any sram.bin is taken as current.
SchemaUnchecked(g) == TRUE

\* save_owner_schema without "create": an sram.bin without the schema marker
\* may be in the old, shifted representation and is refused.
SchemaAccepted(g) == g \in schema \/ canonical[g] = Absent

Placements == {w \in [Games -> Dirs] : \A g, h \in Games : w[g] = w[h] => g = h}

-----------------------------------------------------------------------------
Init ==
  /\ where \in Placements
  /\ schema = {}
  /\ \E old \in SUBSET Games :       \* games that only have a V1 sram.bin
       canonical = [g \in Games |-> IF g \in old THEN Blank(g) ELSE Absent]
  /\ recDir = "absent"
  /\ recovery = [g \in Games |-> Absent]
  /\ marker = Absent
  /\ live = Junk
  /\ digestOk = TRUE
  /\ owner = Absent
  /\ enabled = FALSE
  /\ bound = {}
  /\ bank = Junk
  /\ failed = FALSE
  /\ pc = "off"
  /\ op = "none"
  /\ next = NoGame
  /\ bytes = Junk
  /\ flushed = [g \in Games |-> 0]
  /\ ignored \in {{}, Faults}

-----------------------------------------------------------------------------
(* How a call ends *)

\* chronos_abort_game_init: every later save and flush is blocked, then
\* chronosSaveActivate("") tries to flush and disown what the hook still owns.
Abort ==
  /\ failed' = TRUE
  /\ op' = "release"
  /\ pc' = IF owner' # Absent /\ MarkerAgrees(owner)' /\ digestOk'
             THEN "flush" ELSE "idle"

\* save_owner_flush returned 0 (canonical) or 1 (NAND): on with the caller.
FlushSucceeds ==
  /\ flushed' = [flushed EXCEPT ![owner.id] = live.n]
  /\ pc' = CASE op = "flush" -> "idle"
             [] op \in {"release", "legacy", "boot"} -> "disown"
             [] op = "switch" -> "import"
             [] op = "confirm" -> "idle"
  /\ bank' = IF op = "confirm" THEN live ELSE bank   \* chronos_reload_sram
  /\ UNCHANGED <<failed, op>>

\* save_owner_flush returned -1.
FlushFails ==
  /\ \/ /\ op \in {"flush", "release", "legacy"}
        /\ pc' = "idle"
        /\ UNCHANGED <<failed, op>>
     \/ /\ op = "boot"
        /\ pc' = "stopped"
        /\ UNCHANGED <<failed, op>>
     \/ /\ op \in {"switch", "confirm"}
        /\ Abort
  /\ UNCHANGED <<bank, flushed>>

-----------------------------------------------------------------------------
(* save_owner_flush, after its checks *)

\* save_owner_schema(create): the schema marker comes before the first sram.bin.
WriteSchema(result) ==
  /\ pc = "flush"
  /\ \E g \in Games :
       /\ where[g] = owner.dir /\ IdentityIs(g, owner.id)
       /\ g \notin schema /\ SchemaAccepted(g)
       /\ schema' = IF result = "old" THEN schema ELSE schema \cup {g}
  /\ pc' = IF result = "ok" THEN "flush" ELSE "nand"
  /\ UNCHANGED <<where, canonical, nand, liveFiles, memory, op, next, bytes, flushed>>

\* A bug to test the properties with: sram.bin is stored before its schema.
StoreBeforeSchema(result) ==
  /\ pc = "flush"
  /\ \E g \in Games :
       /\ where[g] = owner.dir /\ IdentityIs(g, owner.id)
       /\ SchemaAccepted(g)
       /\ canonical' = IF result = "old" THEN canonical
                                         ELSE [canonical EXCEPT ![g] = live]
  /\ pc' = IF result = "ok" THEN "unlink" ELSE "nand"
  /\ UNCHANGED <<where, schema, nand, liveFiles, memory, op, next, bytes, flushed>>

\* save_owner_store_at(game, "sram.bin").
StoreCanonical(result) ==
  /\ pc = "flush"
  /\ \E g \in Games :
       /\ where[g] = owner.dir /\ IdentityIs(g, owner.id)
       /\ g \in schema
       /\ canonical' = IF result = "old" THEN canonical
                                         ELSE [canonical EXCEPT ![g] = live]
  /\ pc' = IF result = "ok" THEN "unlink" ELSE "nand"
  /\ UNCHANGED <<where, schema, nand, liveFiles, memory, op, next, bytes, flushed>>

\* The game folder is missing, moved, of another identity, of an unknown
\* schema or does not read: keep the save on NAND.
FallBackToNand ==
  /\ pc = "flush"
  /\ pc' = "nand"
  /\ UNCHANGED <<usb, nand, liveFiles, memory, op, next, bytes, flushed>>

\* The canonical copy is stored: drop the snapshot.  The result of unlinkat is
\* not checked, and neither is that of opening the recovery directory.
UnlinkSnapshot ==
  /\ pc = "unlink"
  /\ \/ recovery' = IF recDir = "ready"
                      THEN [recovery EXCEPT ![owner.id] = Absent] ELSE recovery
     \/ "unlink" \in ignored /\ UNCHANGED recovery
  /\ FlushSucceeds
  /\ UNCHANGED <<usb, recDir, liveFiles, owner, enabled, bound, next, bytes>>

\* save_owner_recovery_directory(create): mkdir, and the empty directory is
\* about to get its schema marker through a temporary file.
MakeRecoveryDir ==
  /\ pc = "nand"
  /\ recDir \in {"absent", "empty"}
  /\ recDir' \in {"empty", "debris"}
  /\ recDir = "absent" => recDir' = "empty"
  /\ recDir = "empty" => recDir' = "debris"
  /\ pc' = IF recDir' = "debris" THEN "nandSchema" ELSE "nand"
  /\ UNCHANGED <<usb, recovery, liveFiles, memory, op, next, bytes, flushed>>

\* The temporary is renamed to .chronos-sram-schema, or removed on an error.
RenameRecoverySchema(result) ==
  /\ pc = "nandSchema"
  /\ recDir' = IF result = "old" THEN "empty" ELSE "ready"
  /\ UNCHANGED <<usb, recovery, liveFiles, owner, enabled, bound, next, bytes>>
  /\ IF result = "ok"
       THEN pc' = "nand" /\ UNCHANGED <<op, failed, bank, flushed>>
       ELSE FlushFails

\* save_owner_store_at(recovery, "<id>.bin").
StoreSnapshot(result) ==
  /\ pc = "nand"
  /\ recDir = "ready"
  /\ recovery' = IF result = "old" THEN recovery
                                   ELSE [recovery EXCEPT ![owner.id] = live]
  /\ UNCHANGED <<usb, recDir, liveFiles, owner, enabled, bound, next, bytes>>
  /\ IF result = "ok" THEN FlushSucceeds ELSE FlushFails

\* mkdir or open fails, or the directory holds files but no schema (EPROTO).
NandUnavailable ==
  /\ pc = "nand"
  /\ UNCHANGED <<usb, nand, liveFiles, owner, enabled, bound, next, bytes>>
  /\ FlushFails

-----------------------------------------------------------------------------
(* save_owner_deactivate, and the two legacy paths: the flush succeeded, mark *)
(* the bank as nobody's.                                                      *)

Disown(result) ==
  /\ pc = "disown"
  /\ marker' = IF result = "old" THEN marker
                                 ELSE Claim("pending", owner.id, owner.dir)
  /\ IF result = "ok"
       THEN /\ owner' = Absent
            /\ bank' = Junk
            /\ enabled' = (enabled /\ op # "legacy")
            /\ bound' = IF op = "legacy" THEN {} ELSE bound
            /\ pc' = "idle"
       ELSE /\ pc' = IF op = "boot" THEN "stopped" ELSE "idle"
            /\ UNCHANGED <<owner, bank, enabled, bound>>
  /\ UNCHANGED <<usb, nand, live, digestOk, failed, op, next, bytes, flushed>>

-----------------------------------------------------------------------------
(* save_owner_activate *)

\* An early return before anything is written: no binding, a folder that does
\* not open or has another identity, an old schema, a stale marker, a digest
\* that does not match.
ActivateRefused(g) ==
  /\ pc = "idle" /\ enabled /\ ~failed
  /\ next' = g
  /\ UNCHANGED <<usb, nand, liveFiles, owner, enabled, bound, bank, bytes, flushed>>
  /\ Abort

\* Same identity at boot, or after a move: the live bank may be newer, so it is
\* claimed for the current directory and flushed, never reloaded.
ActivateSame(g, result) ==
  /\ pc = "idle" /\ enabled /\ ~failed
  /\ g \in bound /\ SchemaAccepted(g)
  /\ FlushAllowed /\ owner.id = g
  /\ next' = g
  /\ marker' = IF result = "old" THEN marker ELSE Claim("ready", g, where[g])
  /\ UNCHANGED <<usb, nand, live, digestOk, enabled, bound, bank, bytes, flushed>>
  /\ IF result = "ok"
       THEN /\ owner' = OwnerOf(g, where[g])
            /\ pc' = "flush" /\ op' = "confirm"
            /\ UNCHANGED failed
       ELSE UNCHANGED owner /\ Abort

\* A bug to test the properties with: the outgoing game is not flushed.
ActivateUnflushed(g) ==
  /\ pc = "idle" /\ enabled /\ ~failed
  /\ g \in bound /\ SchemaAccepted(g)
  /\ FlushAllowed /\ owner.id # g
  /\ next' = g
  /\ pc' = "import" /\ op' = "switch"
  /\ UNCHANGED <<usb, nand, liveFiles, memory, bytes, flushed>>

\* Another game owns the bank: flush it first.
ActivateSwitch(g) ==
  /\ pc = "idle" /\ enabled /\ ~failed
  /\ g \in bound /\ SchemaAccepted(g)
  /\ FlushAllowed /\ owner.id # g
  /\ next' = g
  /\ pc' = "flush" /\ op' = "switch"
  /\ UNCHANGED <<usb, nand, liveFiles, memory, bytes, flushed>>

\* Nobody owns the bank: nothing to flush.
ActivateFresh(g) ==
  /\ pc = "idle" /\ enabled /\ ~failed
  /\ g \in bound /\ SchemaAccepted(g)
  /\ owner = Absent
  /\ next' = g
  /\ pc' = "import" /\ op' = "switch"
  /\ UNCHANGED <<usb, nand, liveFiles, memory, bytes, flushed>>

\* Read the incoming SRAM, then invalidate the marker before the bank changes.
Invalidate(result) ==
  /\ pc = "import"
  /\ recDir # "debris"
  /\ bytes' = LoadSource(next)
  /\ marker' = IF result = "old" THEN marker
                                 ELSE Claim("pending", next, where[next])
  /\ UNCHANGED <<usb, nand, live, digestOk, enabled, bound, bank, next, flushed>>
  /\ IF result = "ok"
       THEN /\ owner' = Absent
            /\ pc' = "write"
            /\ UNCHANGED <<op, failed>>
       ELSE UNCHANGED owner /\ Abort

\* The snapshot or sram.bin does not read, or the recovery directory has files
\* and no schema.
ImportUnreadable ==
  /\ pc = "import"
  /\ UNCHANGED <<usb, nand, liveFiles, owner, enabled, bound, bank, next, bytes, flushed>>
  /\ Abort

\* slice_write and fsync of the slot; a failure may leave a torn slot.
WriteSlot ==
  /\ pc = "write"
  /\ live' = bytes
  /\ digestOk' = (digestOk /\ live = bytes)
  /\ pc' = "digest"
  /\ UNCHANGED <<usb, nand, marker, memory, op, next, bytes, flushed>>

WriteSlotFails ==
  /\ pc = "write"
  /\ live' \in {live, bytes, Junk}
  /\ digestOk' = (digestOk /\ live' = live)
  /\ UNCHANGED <<usb, nand, marker, owner, enabled, bound, bank, next, bytes, flushed>>
  /\ Abort

\* save_digest_refresh.
RefreshDigest(result) ==
  /\ pc = "digest"
  /\ digestOk' = (result # "old" \/ digestOk)
  /\ UNCHANGED <<usb, nand, marker, live, owner, enabled, bound, bank, next, bytes, flushed>>
  /\ IF result = "ok"
       THEN pc' = "commit" /\ UNCHANGED <<op, failed>>
       ELSE Abort

\* The ready marker commits the new owner; a flush follows.
Commit(result) ==
  /\ pc = "commit"
  /\ marker' = IF result = "old" THEN marker ELSE Claim("ready", next, where[next])
  /\ UNCHANGED <<usb, nand, live, digestOk, enabled, bound, bank, next, bytes, flushed>>
  /\ IF result = "ok"
       THEN /\ owner' = OwnerOf(next, where[next])
            /\ pc' = "flush" /\ op' = "confirm"
            /\ UNCHANGED failed
       ELSE UNCHANGED owner /\ Abort

-----------------------------------------------------------------------------
(* The other natives, and the script that calls them *)

\* chronosSaveFlush; without an owner or in legacy mode it does nothing, and a
\* stale marker or digest makes it fail without effect.
CallFlush ==
  /\ pc = "idle" /\ enabled /\ ~failed
  /\ FlushAllowed
  /\ pc' = "flush" /\ op' = "flush"
  /\ UNCHANGED <<usb, nand, liveFiles, memory, next, bytes, flushed>>

\* chronos_prepare_game_change: chronosSaveActivate("").
CallRelease ==
  /\ pc = "idle" /\ enabled /\ ~failed
  /\ FlushAllowed
  /\ pc' = "flush" /\ op' = "release"
  /\ UNCHANGED <<usb, nand, liveFiles, memory, next, bytes, flushed>>

\* chronosSaveResetBindings("v2").
ResetBindings ==
  /\ pc = "idle"
  /\ enabled' = TRUE
  /\ bound' = {}
  /\ UNCHANGED <<usb, nand, liveFiles, owner, bank, failed, call, flushed>>

\* chronosSaveResetBindings("legacy"): release the owner first, if any.
ResetLegacy ==
  /\ pc = "idle"
  /\ IF enabled /\ owner # Absent
       THEN /\ FlushAllowed
            /\ pc' = "flush" /\ op' = "legacy"
            /\ UNCHANGED <<enabled, bound>>
       ELSE /\ enabled' = FALSE
            /\ bound' = {}
            /\ UNCHANGED <<pc, op>>
  /\ UNCHANGED <<usb, nand, liveFiles, owner, bank, failed, next, bytes, flushed>>

\* chronosSaveBind, once its folder and identity are verified.
Bind(g) ==
  /\ pc = "idle" /\ enabled
  /\ bound' = bound \cup {g}
  /\ UNCHANGED <<usb, nand, liveFiles, owner, enabled, bank, failed, call, flushed>>

\* The game activated does not initialise: chronos_complete_game_init(false).
InitFails ==
  /\ pc = "idle" /\ enabled /\ ~failed
  /\ owner # Absent
  /\ UNCHANGED <<usb, nand, liveFiles, owner, enabled, bound, bank, next, bytes, flushed>>
  /\ Abort

-----------------------------------------------------------------------------
(* The engine's own saves (save_systemdata): data_008, then meta_008 *)

Newer(c) == IF c.game # NoGame /\ c.n < MaxVersion
              THEN {c, [c EXCEPT !.n = @ + 1]} ELSE {c}

\* After a failed save context nothing is saved: chronos_capture_sram throws,
\* as only a V2 process, where chronos_save_enabled() holds, has failed.  A bank
\* that did not load at boot is not saved over the owner's data.
EngineWritesData ==
  /\ pc = "idle" /\ ~failed
  /\ bank.game = NoGame => owner = Absent
  /\ live' \in Newer(bank)
  /\ bank' = live'
  /\ digestOk' = FALSE
  /\ pc' = "save"
  /\ UNCHANGED <<usb, nand, marker, owner, enabled, bound, failed, op, next, bytes, flushed>>

EngineWritesMeta(result) ==
  /\ pc = "save"
  /\ digestOk' = (result # "old")
  /\ pc' = "idle"
  /\ UNCHANGED <<usb, nand, marker, live, memory, op, next, bytes, flushed>>

-----------------------------------------------------------------------------
(* Processes come and go *)

\* m2hook_init.  A process that is not V2 flushes and disowns a V2 bank; if it
\* cannot, it stops before it installs the hook and the engine runs on.
Boot(v2) ==
  /\ pc = "off"
  /\ owner' = Loaded(marker)
  /\ bank' = IF owner' # Absent /\ digestOk THEN live ELSE Junk
  /\ enabled' = v2
  /\ \/ /\ v2 \/ owner' = Absent
        /\ pc' = "idle" /\ op' = "none"
     \/ /\ ~v2 /\ owner' # Absent
        /\ op' = "boot"
        /\ pc' = IF digestOk THEN "flush" ELSE "stopped"
  /\ UNCHANGED <<usb, nand, liveFiles, bound, failed, next, bytes, flushed>>

\* Only with the fault: the engine that goes on without the hook saves a bank
\* of its own, with a correct digest.
StoppedEngineWrites ==
  /\ "stoppedEngineWrites" \in ignored
  /\ pc = "stopped"
  /\ live' = Junk
  /\ digestOk' = TRUE
  /\ UNCHANGED <<usb, nand, marker, memory, call, flushed>>

\* Power loss, kill (USB removed) or restart, at any step.
Crash ==
  /\ pc # "off"
  /\ owner' = Absent
  /\ enabled' = FALSE
  /\ bound' = {}
  /\ bank' = Junk
  /\ failed' = FALSE
  /\ pc' = "off" /\ op' = "none" /\ next' = NoGame /\ bytes' = Junk
  /\ UNCHANGED <<usb, nand, liveFiles, flushed>>

\* The key is on the PC: the editor moves games to other directories.
EditorMoves ==
  /\ pc = "off"
  /\ where' \in Placements
  /\ UNCHANGED <<schema, canonical, nand, liveFiles, memory, call, flushed>>

-----------------------------------------------------------------------------
FlushStep ==
  \/ \E r \in Outcomes :
       \/ WriteSchema(r)
       \/ StoreCanonical(r)
       \/ RenameRecoverySchema(r)
       \/ StoreSnapshot(r)
       \/ Disown(r)
  \/ FallBackToNand
  \/ UnlinkSnapshot
  \/ MakeRecoveryDir
  \/ NandUnavailable

ActivateStep ==
  \/ \E r \in Outcomes :
       \/ \E g \in Games : ActivateSame(g, r)
       \/ Invalidate(r)
       \/ RefreshDigest(r)
       \/ Commit(r)
  \/ \E g \in Games : ActivateRefused(g) \/ ActivateSwitch(g) \/ ActivateFresh(g)
  \/ ImportUnreadable
  \/ WriteSlot
  \/ WriteSlotFails

ScriptStep ==
  \/ CallFlush
  \/ CallRelease
  \/ ResetBindings
  \/ ResetLegacy
  \/ InitFails
  \/ \E g \in Games : Bind(g)

EngineStep ==
  \/ EngineWritesData
  \/ \E r \in Outcomes : EngineWritesMeta(r)
  \/ \E v2 \in BOOLEAN : Boot(v2)
  \/ StoppedEngineWrites
  \/ Crash
  \/ EditorMoves

Next == FlushStep \/ ActivateStep \/ ScriptStep \/ EngineStep

Spec == Init /\ [][Next /\ UNCHANGED ignored]_vars
-----------------------------------------------------------------------------
(* Properties *)

Claimed(g) == marker # Absent /\ marker.state = "ready" /\ marker.id = g

\* The version of g's save that a next activation of g starts from.
Authoritative(g) == IF Claimed(g) THEN live.n ELSE LoadSource(g).n

\* The shape of every file and of the hook's memory.
TypeOK ==
  /\ where \in Placements
  /\ schema \subseteq Games
  /\ canonical \in [Games -> Contents \cup {Absent}]
  /\ recDir \in {"absent", "empty", "debris", "ready"}
  /\ recovery \in [Games -> Contents \cup {Absent}]
  /\ marker \in Claims \cup {Absent}
  /\ live \in Contents
  /\ digestOk \in BOOLEAN
  /\ owner \in Owners \cup {Absent}
  /\ enabled \in BOOLEAN
  /\ bound \subseteq Games
  /\ bank \in Contents
  /\ failed \in BOOLEAN
  /\ pc \in Steps
  /\ op \in Purposes
  /\ next \in Games \cup {NoGame}
  /\ bytes \in Contents
  /\ flushed \in [Games -> 0..MaxVersion]

OwnCopies ==
  \A g \in Games :
    /\ canonical[g] # Absent => canonical[g].game = g
    /\ recovery[g] # Absent => recovery[g].game = g

\* No game's sram.bin and no game's NAND snapshot ever holds another game's
\* save or the native dummy bank, whatever fails or crashes in between
\* (the identity, marker and digest checks of save_owner_flush).
NoMisattribution == "stoppedEngineWrites" \notin ignored => OwnCopies

\* A save that save_owner_flush reported as kept is never lost: it is in the
\* verified live bank while the game owns it, and otherwise in the copy the
\* next activation prefers.
FlushedSurvives ==
  ignored = {} =>
    \A g \in Games :
      flushed[g] <=
        IF ~Claimed(g) THEN LoadSource(g).n
        ELSE IF digestOk THEN live.n
        ELSE IF canonical[g] # Absent /\ canonical[g].n > LoadSource(g).n
               THEN canonical[g].n ELSE LoadSource(g).n

\* The hook never writes an sram.bin or a snapshot that a later start would
\* refuse to interpret: the schema markers reach the disk first
\* (save_owner_schema, save_owner_recovery_directory).
SchemaPrecedesData ==
  /\ \A g \in Games : canonical[g] # Absent /\ canonical[g].n > 0 => g \in schema
  /\ (\E g \in Games : recovery[g] # Absent) => recDir = "ready"

\* An sram.bin of the old representation is never changed, and its folder
\* never declared converted, by the console ("Never infer or repair it inside
\* the console hook", save_owner_schema).
LegacySramUntouched ==
  [][\A g \in Games : canonical[g] # Absent /\ g \notin schema =>
       canonical'[g] = canonical[g] /\ g \notin schema']_vars

\* The files that make a claim agree with the bank, at every step.
FlushPcs == {"flush", "unlink", "nand", "nandSchema"}
Running == pc \notin {"off", "stopped"}

\* While a copy is written the marker, the digest and the owner agree; a switch
\* and an import have a game.
FlushInv ==
  /\ pc \in FlushPcs => FlushAllowed /\ op # "none"
  /\ pc = "disown" => MarkerAgrees(owner) /\ op \in {"release", "legacy", "boot"}
  /\ pc \in FlushPcs /\ op \in {"switch", "confirm"} => next \in Games
  /\ pc \in {"import", "write", "digest", "commit"} => next \in Games
  /\ pc = "commit" => digestOk
  /\ pc = "nandSchema" => recDir = "debris"

\* While a game is imported the bank is nobody's, and then holds its save.
ImportInv ==
  /\ pc \in {"write", "digest", "commit"} =>
       /\ marker # Absent /\ marker.state = "pending"
       /\ bytes.game = next
  /\ pc \in {"digest", "commit"} => live = bytes

\* A ready marker beside a verified bank tells the truth, and an engine that
\* may still save holds the owner's SRAM.
BankInv ==
  /\ \A g \in Games : Claimed(g) /\ (digestOk \/ pc = "save") => live.game = g
  /\ pc = "save" => ~failed
  /\ \A g \in Games : Claimed(g) /\ Running /\ ~failed =>
       /\ owner # Absent /\ owner.id = g
       /\ (pc \in FlushPcs /\ op = "confirm") \/ bank.game \in {g, NoGame}
  /\ pc = "off" => ~failed

\* The inductive strengthening of SchemaPrecedesData, whatever is ignored.
BaseInv ==
  /\ TypeOK
  /\ SchemaPrecedesData
  /\ FlushInv

\* The inductive strengthening of NoMisattribution.
IInv ==
  /\ BaseInv
  /\ OwnCopies
  /\ ImportInv
  /\ BankInv

Promise == INSTANCE PerGameSaves WITH
  value <- [g \in Games |-> IF ignored = {} THEN Authoritative(g) ELSE 0],
  holder <- IF ignored = {} /\ Loaded(marker) # Absent THEN marker.id ELSE NoGame

\* The hook implements the abstract per-game store: no activation, release,
\* failure, crash or move changes the save any game will next start from;
\* only the owner's own saves do.
ImplementsPerGameSaves == Promise!Spec

=============================================================================
