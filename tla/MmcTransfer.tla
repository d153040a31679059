----------------------------- MODULE MmcTransfer -----------------------------
(***************************************************************************)
(* Backups and restores of the console's storage (pce-recovery: nc.rs,      *)
(* image.rs, ssh.rs, console.rs, and the commands of the two applications   *)
(* that use them: the editor and the recovery utility).                     *)
(*                                                                           *)
(* A transfer starts a shell on the console over SSH.  The shell starts nc   *)
(* with the partition as its input or output, and the host connects to it.   *)
(* A directory on the console is the lock that the applications share.       *)
(* Every remote command may fail, its answer may be lost, and the shell, nc, *)
(* the host and a cancellation run side by side.                             *)
(*                                                                           *)
(* The storage is a sequence of blocks; an image is one too.  Timeouts may   *)
(* end a wait at any time.                                                   *)
(***************************************************************************)
EXTENDS Naturals, Sequences, FiniteSets

CONSTANTS Apps, Editors,  \* applications; those of the editor's kind
          Parts, Layout,  \* partition -> <<first, last>> block
          Factory,        \* the blocks at first; their number never changes
          Odd,            \* partitions that differ from the factory layout
          Archives,       \* files an image is taken from: sequences of members
          Mounts,         \* sets of mounted partitions
          Batches,        \* what the editor is asked to back up
          MaxTransfers,   \* bound: remote listeners started
          MaxFaults,      \* bound: failed commands, timeouts, changed files, power cuts
          None

ASSUME AppsAssumption == Editors \subseteq Apps /\ None \notin Apps

\* Partitions have a number, the whole storage has 0; blocks count from 1, and no
\* two partitions share one.
ASSUME LayoutAssumption ==
  /\ Parts \subseteq Nat \ {0}
  /\ Layout \in [Parts -> (Nat \ {0}) \X Nat]
  /\ \A p, q \in Parts : p = q \/ Layout[p][2] < Layout[q][1] \/ Layout[q][2] < Layout[p][1]

ASSUME BatchesAssumption == \A ids \in Batches : ids \in Seq({0} \cup Parts) /\ ids # <<>>

VARIABLES
    busy,      \* AppState::busy, PartitionState::busy
    system,    \* what the console runs: "ram", "normal" or nothing ("off")
    mounted,   \* partitions mounted on the console
    disk,      \* contents of the storage
    op,        \* the operation of each application
    archive,   \* the file on the computer
    preview,   \* PartitionState::prepared, which the window shows
    folder, manifest,      \* the backup directory
    lock,      \* /tmp/chronos-mmc-transfer
    cancels,   \* /tmp/chronos-mmc-cancel-*
    shell, nc, \* processes of the console, by token
    tokens, faults         \* bounds

console == <<lock, cancels, shell, nc>>
local == <<archive, preview, folder, manifest>>
bounds == <<tokens, faults>>
vars == <<busy, system, mounted, disk, op, local, console, bounds>>

Ids == {0} \cup Parts
Tokens == 1 .. MaxTransfers
Area(id) == IF id = 0 THEN <<1, Len(Factory)>> ELSE Layout[id]
Size(id) == Area(id)[2] - Area(id)[1] + 1
Slice(d, id) == SubSeq(d, Area(id)[1], Area(id)[2])
Content(id) == Slice(disk, id)
Up == system # "off"

\* "confirmed" and "seen" are history: what the user confirmed, and what the
\* partition has held since the operation was started.
Idle == [kind |-> "none", pc |-> "idle", id |-> 0, todo |-> <<>>, data |-> <<>>, n |-> 0,
         t |-> 0, conn |-> 0, worker |-> "none", ok |-> FALSE,
         confirmed |-> None, seen |-> {}]
Go(a, pc) == op' = [op EXCEPT ![a].pc = pc]
Free(a) == ~busy[a] /\ op[a].kind = "none" /\ tokens < MaxTransfers

Operation(kind, pc, id, todo, data, confirmed) ==
    [Idle EXCEPT !.kind = kind, !.pc = pc, !.id = id, !.todo = todo, !.data = data,
                 !.confirmed = confirmed, !.seen = {Content(id)}]

Begin(a, kind, pc, id, todo, data, confirmed) ==
    /\ busy' = [busy EXCEPT ![a] = TRUE]
    /\ op' = [op EXCEPT ![a] = Operation(kind, pc, id, todo, data, confirmed)]

End(a) ==
    /\ busy' = [busy EXCEPT ![a] = FALSE]
    /\ op' = [op EXCEPT ![a] = Idle]

-----------------------------------------------------------------------------
(* image.rs: the member of an archive that fits, and its verified bytes. *)

Candidates(id, f) == {m \in {f[i] : i \in DOMAIN f} : m.regular /\ m.size = Size(id)}

\* What the window shows of a member: not whether its bytes agree with its CRC.
Entry(m) == [m EXCEPT !.data = None, !.good = None]

\* The user chooses in a listing of the file, which may have changed since.
Choices == UNION {{[id |-> id, entry |-> Entry(m)] : m \in UNION {Candidates(id, f) : f \in Archives}}
                  : id \in Ids}

\* select_entry: nothing but the very member that was chosen.
Selected(c) == {m \in Candidates(c.id, archive) : Entry(m) = c.entry}

\* copy_verified: the CRC and the length are those the archive declares.
Verifies(m) == m.good /\ Len(m.data) = m.size

\* console_prepare_restore: the old snapshot goes first.
Prepare(a, c) ==
    /\ a \in Editors /\ Free(a)
    /\ Begin(a, "prepare", "stage", c.id, <<>>, <<>>, c)
    /\ preview' = [preview EXCEPT ![a] = None]
    /\ UNCHANGED <<system, mounted, disk, archive, folder, manifest, console, bounds>>

Stage(a) ==
    /\ op[a].pc = "stage"
    /\ \E m \in Selected(op[a].confirmed) :
         /\ Verifies(m)
         /\ preview' = [preview EXCEPT ![a] = [id |-> op[a].id, data |-> m.data]]
    /\ End(a)
    /\ UNCHANGED <<system, mounted, disk, archive, folder, manifest, console, bounds>>

\* The image changed, is damaged, or its size is a lie.
StageFails(a) ==
    /\ op[a].pc = "stage"
    /\ \A m \in Selected(op[a].confirmed) : ~Verifies(m)
    /\ End(a)
    /\ UNCHANGED <<system, mounted, disk, local, console, bounds>>

\* console_cancel_restore, also while the editor backs up, and
\* console_inspect_image, which cancels too.
CancelRestore(a) ==
    /\ preview[a] # None
    /\ preview' = [preview EXCEPT ![a] = None]
    /\ UNCHANGED <<busy, system, mounted, disk, op, archive, folder, manifest, console, bounds>>

-----------------------------------------------------------------------------
(* The start of an operation. *)

\* A bug: the file is read again.
RestoreDataFromFile(a) == (CHOOSE m \in Candidates(preview[a].id, archive) : TRUE).data

\* console_restore: the snapshot, not the file, is restored.
RestoreData(a) == preview[a].data

Restore(a) ==
    /\ a \in Editors /\ Free(a) /\ preview[a] # None
    /\ Begin(a, "restore", "inspect", preview[a].id, <<>>, RestoreData(a), preview[a])
    /\ preview' = [preview EXCEPT ![a] = None]
    /\ UNCHANGED <<system, mounted, disk, archive, folder, manifest, console, bounds>>

\* partition_restore: the whole image is loaded, then written.
RestoreImage(a, c) ==
    /\ a \notin Editors /\ Free(a)
    /\ \E m \in Selected(c) :
         /\ Verifies(m)
         /\ Begin(a, "restore", "preflight", c.id, <<>>, m.data, [id |-> c.id, data |-> m.data])
    /\ UNCHANGED <<system, mounted, disk, local, console, bounds>>

\* console_backup: one of the allowed selections, into a directory without any of its files.
Backup(a, ids) ==
    /\ a \in Editors /\ Free(a)
    /\ ids # <<>> /\ \A i, j \in DOMAIN ids : ids[i] = ids[j] => i = j
    /\ 0 \in {ids[i] : i \in DOMAIN ids} => Len(ids) = 1
    /\ manifest = None /\ \A i \in DOMAIN ids : folder[ids[i]] = None
    /\ Begin(a, "backup", "inspect", Head(ids), ids, <<>>, ids)
    /\ UNCHANGED <<system, mounted, disk, local, console, bounds>>

\* partition_dump and partition_dump_all.
Dump(a, ids) ==
    /\ a \notin Editors /\ Free(a)
    /\ Begin(a, "dump", "name", Head(ids), ids, <<>>, None)
    /\ UNCHANGED <<system, mounted, disk, local, console, bounds>>

\* require_recovery: the editor asks before it opens a snapshot or a file.
RequireRecovery(a) ==
    /\ op[a].pc = "inspect" /\ Up
    /\ IF system = "ram" THEN Go(a, "preflight") /\ UNCHANGED busy ELSE End(a)
    /\ UNCHANGED <<system, mounted, disk, local, console, bounds>>

\* dump_inner: an existing file is left alone.
Name(a) ==
    /\ op[a].pc = "name"
    /\ Go(a, IF folder[op[a].id] = None THEN "preflight" ELSE "done")
    /\ UNCHANGED <<busy, system, mounted, disk, local, console, bounds>>

-----------------------------------------------------------------------------
(* The console's side: listener_command, step by step. *)

NoNc == [state |-> "none", writing |-> FALSE, pos |-> 1, last |-> 0, pipe |-> <<>>,
         closed |-> FALSE, ok |-> FALSE]
Gone == [NoNc EXCEPT !.state = "gone"]

\* Every command of the shell may end it: the trap kills nc and removes the pid file.
Trap(t) ==
    /\ shell' = [shell EXCEPT ![t] = "done"]
    /\ nc' = [nc EXCEPT ![t] = [Gone EXCEPT !.ok = nc[t].ok]]
    /\ lock' = IF lock = None THEN None ELSE [lock EXCEPT !.pid = None]
    /\ UNCHANGED cancels

LockOf(t) == lock # None /\ lock.owner = t
Step(t, from, to) == shell[t] = from /\ shell' = [shell EXCEPT ![t] = to]
Quiet == UNCHANGED <<busy, system, mounted, disk, op, local, bounds>>

\* The owner and the cancellation are tested; before the trap is set nothing is undone.
ShellTest(t) ==
    /\ shell[t] = "test" /\ Quiet
    /\ CASE ~LockOf(t) -> Step(t, "test", "done") /\ UNCHANGED <<lock, cancels, nc>>
         [] LockOf(t) /\ t \in cancels -> Trap(t)
         [] OTHER         -> /\ Step(t, "test", "pid")
                             /\ nc' = [nc EXCEPT ![t].state = "new"]
                             /\ UNCHANGED <<lock, cancels>>

\* The pid is written and the cancellation tested again.  Without the lock
\* directory there is nowhere to write, and the shell ends.
ShellPid(t) ==
    /\ shell[t] = "pid" /\ Quiet
    /\ IF lock = None THEN Trap(t)
       ELSE /\ Step(t, "pid", "wait")
            /\ lock' = [lock EXCEPT !.pid = t]
            /\ nc' = [nc EXCEPT ![t] = IF t \in cancels THEN Gone ELSE @]
            /\ UNCHANGED cancels

ShellWait(t) == shell[t] = "wait" /\ nc[t].state = "gone" /\ Quiet /\ Trap(t)

Listening == {c \in Tokens : nc[c].state = "listening"}

\* The port has one listener; a second nc ends.
NcListen(t) ==
    /\ nc[t].state = "new" /\ Quiet
    /\ nc' = [nc EXCEPT ![t] = IF Listening = {} THEN [@ EXCEPT !.state = "listening"] ELSE Gone]
    /\ UNCHANGED <<lock, cancels, shell>>

\* nc has the bytes in its pipe even when the host is gone.
NcWrite(t) ==
    /\ nc[t].state = "open" /\ nc[t].writing /\ nc[t].pipe # <<>>
    /\ disk' = [disk EXCEPT ![nc[t].pos] = Head(nc[t].pipe)]
    /\ op' = [b \in Apps |-> [op[b] EXCEPT !.seen = IF op[b].kind = "none" THEN {}
                                                     ELSE @ \cup {Slice(disk', op[b].id)}]]
    /\ nc' = [nc EXCEPT ![t].pipe = Tail(@), ![t].pos = @ + 1]
    /\ UNCHANGED <<busy, system, mounted, local, lock, cancels, shell, bounds>>

NcEnd(t) ==
    /\ nc[t].state = "open" /\ Quiet
    /\ IF nc[t].writing THEN nc[t].closed /\ nc[t].pipe = <<>>
       ELSE nc[t].closed \/ nc[t].pos > nc[t].last
    /\ nc' = [nc EXCEPT ![t].state = "gone", ![t].ok = TRUE]
    /\ UNCHANGED <<lock, cancels, shell>>

-----------------------------------------------------------------------------
(* nc.rs: preflight, RemoteListener::start and connect. *)

Keep == UNCHANGED <<busy, system, mounted, disk, local>>

\* A bug: the mounts are not looked at.
QuietUnmounted(id) == id \notin Odd /\ system = "ram"

\* validate_target: layout, node, RAM root, and no mount on the target.
QuietTarget(id) ==
    /\ id \notin Odd /\ system = "ram"
    /\ IF id = 0 THEN mounted = {} ELSE id \notin mounted

Preflight(a) ==
    /\ op[a].pc = "preflight" /\ Up
    /\ Go(a, IF QuietTarget(op[a].id) THEN "acquire" ELSE "done")
    /\ Keep /\ UNCHANGED <<console, bounds>>

\* mkdir, the owner, and the probe of the port, in one command.
Taken == lock # None \/ Listening # {}

Acquire(a) ==
    /\ op[a].pc = "acquire" /\ Up /\ tokens < MaxTransfers
    /\ IF Taken THEN Go(a, "done") /\ UNCHANGED <<lock, tokens>>
       ELSE /\ tokens' = tokens + 1
            /\ lock' = [owner |-> tokens', pid |-> None]
            /\ op' = [op EXCEPT ![a].pc = "ready", ![a].t = tokens', ![a].worker = "starting"]
    /\ Keep /\ UNCHANGED <<cancels, shell, nc, faults>>

\* The bound on listeners is reached: as if the port were taken.
AcquireNoMore(a) ==
    /\ op[a].pc = "acquire" /\ Up /\ tokens = MaxTransfers
    /\ Go(a, "done")
    /\ Keep /\ UNCHANGED <<console, bounds>>

Writing(a) == op[a].kind = "restore"

\* The worker's own SSH session reaches the console.
WorkerStart(a) ==
    LET t == op[a].t IN
    /\ op[a].worker = "starting" /\ Up
    /\ op' = [op EXCEPT ![a].worker = "running"]
    /\ shell' = [shell EXCEPT ![t] = "test"]
    /\ nc' = [nc EXCEPT ![t].writing = Writing(a), ![t].pos = Area(op[a].id)[1],
                        ![t].last = Area(op[a].id)[2]]
    /\ Keep /\ UNCHANGED <<lock, cancels, bounds>>

WorkerEnds(a) ==
    /\ op[a].worker = "running" /\ shell[op[a].t] = "done"
    /\ op' = [op EXCEPT ![a].worker = IF nc[op[a].t].ok THEN "ok" ELSE "failed"]
    /\ Keep /\ UNCHANGED <<console, bounds>>

\* The session breaks while the shell goes on.
WorkerLost(a) ==
    /\ op[a].worker \in {"starting", "running"}
    /\ ~Up \/ faults < MaxFaults
    /\ op' = [op EXCEPT ![a].worker = "failed"]
    /\ faults' = IF Up THEN faults + 1 ELSE faults
    /\ Keep /\ UNCHANGED <<console, tokens>>

Ended(w) == w \in {"ok", "failed"}

\* listener_ready_command: the process of the pid file has the listening socket.
ReadyCheck(a) ==
    /\ op[a].pc = "ready" /\ Up
    /\ \/ Ended(op[a].worker) /\ Go(a, "cancel")
       \/ ~Ended(op[a].worker) /\ ~LockOf(op[a].t) /\ Go(a, "cancel")
       \/ /\ ~Ended(op[a].worker) /\ LockOf(op[a].t)
          /\ lock.pid \in Listening
          /\ Go(a, "connect")
    /\ Keep /\ UNCHANGED <<console, bounds>>

\* A wait for the console that takes too long, or a file that does not read, is a
\* fault too.
Slow == faults < MaxFaults /\ faults' = faults + 1

\* verify_snapshot: the snapshot of a restore does not read as it was staged.
RecheckFails(a) ==
    /\ a \in Editors /\ Writing(a) /\ op[a].pc = "preflight"
    /\ Slow /\ Go(a, "done")
    /\ Keep /\ UNCHANGED <<console, tokens>>

\* LISTENER_READY_TIMEOUT, also when a late trap of another shell took the pid file.
ReadyTimeout(a) ==
    /\ op[a].pc = "ready" /\ Go(a, "cancel")
    /\ IF lock # None /\ lock.pid = None /\ shell[op[a].t] = "wait" THEN UNCHANGED faults ELSE Slow
    /\ Keep /\ UNCHANGED <<console, tokens>>

Connect(a) ==
    /\ op[a].pc = "connect" /\ Up
    /\ IF Listening = {} THEN Go(a, "cancel") /\ UNCHANGED nc
       ELSE \E c \in Listening :
              /\ nc' = [nc EXCEPT ![c].state = "open"]
              /\ op' = [op EXCEPT ![a].pc = "stream", ![a].conn = c]
    /\ Keep /\ UNCHANGED <<lock, cancels, shell, bounds>>

-----------------------------------------------------------------------------
(* The stream, and the end of the listener. *)

Conn(a) == nc[op[a].conn]
Close(a) == nc' = [nc EXCEPT ![op[a].conn].closed = TRUE]

Send(a) ==
    /\ op[a].pc = "stream" /\ Writing(a) /\ Up /\ Conn(a).state = "open"
    /\ op[a].n < Len(op[a].data)
    /\ nc' = [nc EXCEPT ![op[a].conn].pipe = Append(@, op[a].data[op[a].n + 1])]
    /\ op' = [op EXCEPT ![a].n = @ + 1]
    /\ Keep /\ UNCHANGED <<lock, cancels, shell, bounds>>

SendEnd(a) ==
    /\ op[a].pc = "stream" /\ Writing(a) /\ op[a].n = Len(op[a].data)
    /\ Close(a) /\ Go(a, "finish")
    /\ Keep /\ UNCHANGED <<lock, cancels, shell, bounds>>

\* The next block that nc reads.  More than the partition holds is an error.
Receive(a) ==
    /\ op[a].pc = "stream" /\ ~Writing(a) /\ Up
    /\ Conn(a).state = "open" /\ ~Conn(a).writing /\ Conn(a).pos <= Conn(a).last
    /\ IF op[a].n < Size(op[a].id)
       THEN /\ nc' = [nc EXCEPT ![op[a].conn].pos = @ + 1]
            /\ op' = [op EXCEPT ![a].data = Append(@, disk[Conn(a).pos]), ![a].n = @ + 1]
       ELSE Close(a) /\ Go(a, "cancel")
    /\ Keep /\ UNCHANGED <<lock, cancels, shell, bounds>>

ReceiveEnd(a) ==
    /\ op[a].pc = "stream" /\ ~Writing(a) /\ Conn(a).state = "gone"
    /\ Go(a, "finish")
    /\ Keep /\ UNCHANGED <<console, bounds>>

\* A wrong end of the line keeps silent until the socket's timeout.
Stalled(a) == Conn(a).state = "gone" \/ Conn(a).writing # Writing(a)

\* A broken stream: what nc has in its pipe it still writes.
StreamFails(a) ==
    /\ op[a].pc = "stream"
    /\ IF ~Up \/ Stalled(a) THEN UNCHANGED faults
       ELSE faults < MaxFaults /\ faults' = faults + 1
    /\ Close(a) /\ Go(a, "cancel")
    /\ Keep /\ UNCHANGED <<lock, cancels, shell, tokens>>

\* finish: the worker is only given up after it has ended.
Finish(a) ==
    /\ op[a].pc = "finish" /\ Ended(op[a].worker)
    /\ op' = [op EXCEPT ![a].worker = "none",
                        ![a].pc = CASE op[a].worker = "failed" -> "release"
                                    [] Writing(a) \/ op[a].n = Size(op[a].id) -> "sha1"
                                    [] OTHER                   -> "release"]
    /\ Keep /\ UNCHANGED <<console, bounds>>

\* wait_for_worker: thirty seconds.
FinishTimeout(a) ==
    /\ op[a].pc = "finish" /\ ~Ended(op[a].worker)
    /\ IF op[a].conn # op[a].t THEN UNCHANGED faults ELSE Slow
    /\ Go(a, "cancel")
    /\ Keep /\ UNCHANGED <<console, tokens>>

\* A bug: what was sent or received is taken for what is there.
SameHashTrusting(a) == TRUE

\* sync, and remote_sha1 of the whole device against the bytes that went through.
SameHash(a) == Content(op[a].id) = op[a].data

Sha1(a) ==
    /\ op[a].pc = "sha1" /\ Up
    /\ op' = [op EXCEPT ![a].pc = "release", ![a].ok = SameHash(a)]
    /\ Keep /\ UNCHANGED <<console, bounds>>

-----------------------------------------------------------------------------
(* RemoteListener::drop. *)

\* The process in the pid file is killed if the lock is this listener's.
Cancel(a) ==
    /\ op[a].pc = "cancel" /\ Up
    /\ cancels' = cancels \cup {op[a].t}
    /\ nc' = IF LockOf(op[a].t) /\ lock.pid # None THEN [nc EXCEPT ![lock.pid] = Gone] ELSE nc
    /\ Go(a, "join")
    /\ Keep /\ UNCHANGED <<lock, shell, bounds>>

\* A bug: the worker is awaited without telling it to stop.
JoinUncancelled(a) ==
    /\ op[a].pc = "join" /\ Ended(op[a].worker)
    /\ op' = [op EXCEPT ![a].pc = "release", ![a].worker = "none"]
    /\ Keep /\ UNCHANGED <<console, bounds>>

\* exec_cancellable gives its session up; the shell may go on.
Join(a) ==
    /\ op[a].pc = "join"
    /\ op' = [op EXCEPT ![a].pc = "release", ![a].worker = "none"]
    /\ Keep /\ UNCHANGED <<console, bounds>>

Owns(a) == LockOf(op[a].t)

Release(a) ==
    /\ op[a].pc = "release" /\ Up
    /\ lock' = IF Owns(a) THEN None ELSE lock
    /\ cancels' = cancels \ {op[a].t}
    /\ Go(a, "done")
    /\ Keep /\ UNCHANGED <<shell, nc, bounds>>

-----------------------------------------------------------------------------
(* Commands that fail or whose answer is lost. *)

OnError(pc) ==
    CASE pc \in {"preflight", "inspect", "acquire", "release"} -> "done"
      [] pc \in {"ready", "connect"} -> "cancel"
      [] pc = "cancel"               -> "join"
      [] OTHER                       -> "release"

Remote == {"inspect", "preflight", "acquire", "ready", "connect", "sha1", "cancel", "release"}

\* The command is not run: an error, or the end of its time.
SshFails(a) ==
    /\ op[a].pc \in Remote
    /\ ~Up \/ faults < MaxFaults
    /\ faults' = IF Up THEN faults + 1 ELSE faults
    /\ Go(a, OnError(op[a].pc))
    /\ Keep /\ UNCHANGED <<console, tokens>>

\* The lock was taken, but the answer is lost: nobody will release it.
AcquireLost(a) ==
    /\ op[a].pc = "acquire" /\ Up /\ ~Taken
    /\ faults < MaxFaults /\ tokens < MaxTransfers
    /\ faults' = faults + 1 /\ tokens' = tokens + 1
    /\ lock' = [owner |-> tokens', pid |-> None]
    /\ Go(a, "done")
    /\ Keep /\ UNCHANGED <<cancels, shell, nc>>

-----------------------------------------------------------------------------
(* The end of a transfer. *)

\* persist_noclobber: the verified file gets its name if it is still free.
Persists(a) == op[a].ok /\ folder[op[a].id] = None

NextTransfer(a) ==
    op' = [op EXCEPT ![a] = Operation(op[a].kind,
        IF op[a].kind = "dump" THEN "name" ELSE "preflight", op[a].todo[2], Tail(op[a].todo), <<>>,
        op[a].confirmed)]

Persist(a) == folder' = [folder EXCEPT ![op[a].id] = a]

RestoreEnds(a) ==
    /\ op[a].pc = "done" /\ Writing(a)
    /\ End(a)
    /\ UNCHANGED <<system, mounted, disk, local, console, bounds>>

\* dump_all goes on after an error, the editor's backup does not.
DumpEnds(a) ==
    /\ op[a].pc = "done" /\ op[a].kind = "dump"
    /\ IF Persists(a) THEN Persist(a) ELSE UNCHANGED folder
    /\ IF Len(op[a].todo) > 1 THEN NextTransfer(a) /\ UNCHANGED busy ELSE End(a)
    /\ UNCHANGED <<system, mounted, disk, archive, preview, manifest, console, bounds>>

BackupEnds(a) ==
    /\ op[a].pc = "done" /\ op[a].kind = "backup"
    /\ IF ~Persists(a) THEN End(a) /\ UNCHANGED folder
       ELSE /\ Persist(a)
            /\ IF Len(op[a].todo) > 1 THEN NextTransfer(a) ELSE Go(a, "manifest")
            /\ UNCHANGED busy
    /\ UNCHANGED <<system, mounted, disk, archive, preview, manifest, console, bounds>>

\* The files of this backup are those that it persisted.
Manifest(a) ==
    /\ op[a].pc = "manifest"
    /\ manifest' = IF manifest = None THEN op[a].confirmed ELSE manifest
    /\ End(a)
    /\ UNCHANGED <<system, mounted, disk, archive, preview, folder, console, bounds>>

-----------------------------------------------------------------------------
(* The surroundings. *)

\* Another file takes the place of the image.
ChangeFile(f) ==
    /\ faults < MaxFaults
    /\ archive # f /\ archive' = f
    /\ faults' = faults + 1
    /\ UNCHANGED <<busy, system, mounted, disk, op, preview, folder, manifest, console, tokens>>

\* The power goes: the memory, and with it the lock and every process, is gone.
ConsoleStops ==
    /\ Up /\ faults < MaxFaults
    /\ system' = "off" /\ mounted' = {}
    /\ lock' = None /\ cancels' = {}
    /\ shell' = [t \in Tokens |-> "none"] /\ nc' = [t \in Tokens |-> NoNc]
    /\ faults' = faults + 1
    /\ UNCHANGED <<busy, disk, op, local, tokens>>

\* A boot takes longer than any operation waits for a connection.  The normal
\* system mounts partitions; in the recovery system the user may have.
Boots == [system : {"ram"}, mounted : SUBSET Parts] \cup
         [system : {"normal"}, mounted : SUBSET Parts \ {{}}]

ConsoleStarts ==
    /\ system = "off" /\ \A a \in Apps : op[a].pc \in {"idle", "stage", "name", "done", "manifest"}
    /\ \E b \in Boots : b.mounted \in Mounts /\ system' = b.system /\ mounted' = b.mounted
    /\ UNCHANGED <<busy, disk, op, local, console, bounds>>

ReleaseOp(a) == RestoreEnds(a) \/ DumpEnds(a) \/ BackupEnds(a) \/ Manifest(a)

HostStep(a) ==
    \/ Stage(a) \/ StageFails(a) \/ RequireRecovery(a) \/ Name(a) \/ Preflight(a) \/ Acquire(a)
    \/ AcquireNoMore(a) \/ RecheckFails(a) \/ ReadyCheck(a) \/ ReadyTimeout(a) \/ Connect(a)
    \/ Send(a) \/ SendEnd(a) \/ Receive(a) \/ ReceiveEnd(a) \/ StreamFails(a) \/ Finish(a) \/ FinishTimeout(a)
    \/ Sha1(a) \/ Cancel(a) \/ Join(a) \/ Release(a) \/ SshFails(a)
    \/ ReleaseOp(a)

ShellStep(t) ==
    \/ ShellTest(t) \/ ShellPid(t) \/ ShellWait(t)
NcStep(t) == NcListen(t) \/ NcWrite(t) \/ NcEnd(t)
WorkerStep(a) == WorkerStart(a) \/ WorkerEnds(a) \/ WorkerLost(a)

UserStep(a) ==
    \/ \E c \in Choices : Prepare(a, c) \/ RestoreImage(a, c)
    \/ CancelRestore(a) \/ Restore(a)
    \/ \E ids \in Batches : Backup(a, ids) \/ Dump(a, ids)

Init ==
    /\ \E b \in Boots : b.mounted \in Mounts /\ system = b.system /\ mounted = b.mounted
    /\ busy = [a \in Apps |-> FALSE] /\ op = [a \in Apps |-> Idle]
    /\ disk = Factory /\ archive \in Archives
    /\ preview = [a \in Apps |-> None]
    /\ folder = [id \in Ids |-> None] /\ manifest = None
    /\ lock = None /\ cancels = {}
    /\ shell = [t \in Tokens |-> "none"] /\ nc = [t \in Tokens |-> NoNc]
    /\ tokens = 0 /\ faults = 0

Next ==
    \/ \E a \in Apps : UserStep(a) \/ HostStep(a) \/ WorkerStep(a) \/ AcquireLost(a)
    \/ \E t \in Tokens : ShellStep(t) \/ NcStep(t)
    \/ \E f \in Archives : ChangeFile(f)
    \/ ConsoleStops \/ ConsoleStarts

\* The host and the console run; SSH answers or times out.
Fairness ==
    /\ \A a \in Apps : WF_vars(HostStep(a)) /\ WF_vars(WorkerStep(a))
    /\ \A t \in Tokens : WF_vars(ShellStep(t)) /\ WF_vars(NcStep(t))

Spec == Init /\ [][Next]_vars /\ Fairness

-----------------------------------------------------------------------------
(* Properties. *)

\* A restore that is reported as verified left what the user confirmed on the
\* partition the user confirmed, whatever happened to the file in between.
VerifiedIsConfirmed ==
    [][\A a \in Apps : Writing(a) /\ op'[a].ok /\ ~op[a].ok =>
         /\ op[a].id = op[a].confirmed.id
         /\ Content(op[a].id) = op[a].confirmed.data]_vars

\* A saved backup is what its partition held as a whole at a moment of the
\* backup, never parts from before and after another application's restore;
\* it is never replaced, and a manifest names only files that are saved.
BackupsAreWhole ==
    [][/\ \A id \in Ids : folder'[id] # folder[id] =>
            folder[id] = None /\ op[folder'[id]].id = id /\ op[folder'[id]].data \in op[folder'[id]].seen
       /\ manifest' # manifest => \E a \in Editors : \A i \in DOMAIN manifest' : folder[manifest'[i]] = a
      ]_vars

\* No process reads or writes a block of a mounted partition, none serves an
\* operation on a partition whose layout is not the factory's, and none runs on
\* the normal system.
OnlyQuietTargets ==
    \A t \in Tokens : nc[t].state \in {"listening", "open"} =>
        /\ system = "ram"
        /\ \A p \in mounted : Layout[p][2] < nc[t].pos \/ nc[t].last < Layout[p][1]
        /\ \A a \in Apps : op[a].t = t => op[a].id \notin Odd

\* Whatever SSH does, an operation ends and the application can be used again.
OperationEnds == \A a \in Apps : busy[a] ~> ~busy[a]
=============================================================================
