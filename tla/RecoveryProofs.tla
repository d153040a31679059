--------------------------- MODULE RecoveryProofs ---------------------------
(*****************************************************************************)
(* Proofs about the recovery of a console.                                   *)
(*                                                                           *)
(* MmcTransfer, for any applications, partitions, layout of the disk, images *)
(* and faults.  TransferInv is inductive: an operation works on the target   *)
(* it has looked at, a process of the console keeps off what is mounted      *)
(* until it is gone, a restore carries what was confirmed, and what was      *)
(* verified was on the partition.                                            *)
(*                                                                           *)
(* FelBoot, for any payloads, devices, errors, kills and boots.  BootInv is  *)
(* inductive: a boot that talks to the device is at one place of its plan,   *)
(* the device is at the same place of the exchange, and what the operations  *)
(* before it are for is achieved; or the device waits for the rest of an     *)
(* exchange that was broken off; or the last transfers of this boot failed   *)
(* and the error was tolerated.                                              *)
(*                                                                           *)
(* One lemma per part, one step per action.  That operations and boots end   *)
(* is left to the model checker.                                             *)
(*****************************************************************************)
EXTENDS MmcTransfer, FelBoot, SequenceTheorems, TLAPS

-----------------------------------------------------------------------------
(* The inductive invariant *)

\* The fields of an operation and of a process of the console.
OpFields == DOMAIN Idle
NcFields == DOMAIN NoNc

\* The steps of a transfer after the target was looked at.
Past == {"acquire", "ready", "connect", "stream", "finish", "sha1", "cancel", "join", "release"}
\* ... of them, those during which the worker may exist.
Serving == {"ready", "connect", "stream", "finish", "cancel", "join"}

\* The blocks a process has still to pass are of no mounted partition.
Disjoint(t) == \A p \in mounted : Layout[p][2] < nc[t].pos \/ nc[t].last < Layout[p][1]

\* Operations and processes have their fields, and what they work on exists.
ShapeInv ==
    /\ DOMAIN op = Apps /\ \A a \in Apps : DOMAIN op[a] = OpFields /\ op[a].id \in Ids
    /\ DOMAIN nc = Tokens /\ \A t \in Tokens : DOMAIN nc[t] = NcFields /\ nc[t].pos \in Nat
    /\ DOMAIN shell = Tokens
    /\ DOMAIN preview = Apps /\ \A a \in Apps : preview[a] # None => preview[a].id \in Ids
    /\ DOMAIN folder = Ids
    /\ mounted \subseteq Parts

\* While a transfer runs its target is what the preflight found.
TargetInv ==
    \A a \in Apps :
        /\ op[a].worker # "none" => op[a].pc \in Serving
        /\ op[a].pc \in Past /\ Up => QuietTarget(op[a].id)
        /\ op[a].t # 0 => op[a].id \notin Odd

\* A process of the console has a quiet target until it is gone.
Alive(t) == shell[t] \in {"test", "pid", "wait"} \/ nc[t].state \in {"new", "listening", "open"}
ProcessInv == \A t \in Tokens : Alive(t) => system = "ram" /\ Disjoint(t)

\* A restore works on what the user confirmed.
RestoreInv == \A a \in Apps : Writing(a) =>
    op[a].id = op[a].confirmed.id /\ op[a].data = op[a].confirmed.data

\* What an operation has verified, its partition has held.
SeenInv ==
    \A a \in Apps :
        /\ op[a].kind # "none" => Content(op[a].id) \in op[a].seen
        /\ op[a].ok => op[a].data \in op[a].seen /\ op[a].pc \in {"release", "done", "manifest"}
        /\ op[a].kind = "none" => op[a].pc = "idle"

\* What is asked for is saved or still to do.
TodoOf(a) ==
    /\ op[a].kind \in {"backup", "dump"} =>
         op[a].todo \in Seq(Ids) /\ op[a].todo # <<>> /\ op[a].id = op[a].todo[1]
    /\ op[a].kind = "backup" =>
         /\ a \in Editors /\ op[a].confirmed \in Seq(Ids)
         /\ \A i \in DOMAIN op[a].confirmed :
              \/ folder[op[a].confirmed[i]] = a
              \/ /\ op[a].pc # "manifest"
                 /\ \E j \in DOMAIN op[a].todo : op[a].todo[j] = op[a].confirmed[i]
    /\ op[a].pc = "manifest" => op[a].kind = "backup"

TodoInv == \A a \in Apps : TodoOf(a)

\* The inductive invariant.
TransferInv == ShapeInv /\ TargetInv /\ ProcessInv /\ RestoreInv /\ SeenInv /\ TodoInv

-----------------------------------------------------------------------------
(* What the helpers of the actions do to an operation and a process *)

\* The other applications' operations are left alone.
Others(a) == DOMAIN op' = Apps /\ \A b \in Apps : b # a => op'[b] = op[b]

\* An operation that starts.
LEMMA BeginEffect ==
  ASSUME ShapeInv, NEW a \in Apps, NEW kind, NEW at, NEW id, NEW rest, NEW data, NEW confirmed,
         Begin(a, kind, at, id, rest, data, confirmed)
  PROVE  /\ Others(a) /\ DOMAIN op'[a] = OpFields
         /\ op'[a].kind = kind /\ op'[a].pc = at /\ op'[a].id = id /\ op'[a].todo = rest
         /\ op'[a].data = data /\ op'[a].confirmed = confirmed
         /\ op'[a].t = 0 /\ op'[a].worker = "none" /\ op'[a].seen = {Content(id)} /\ ~op'[a].ok
BY DEF Begin, Operation, ShapeInv, Idle, OpFields, Others

\* An operation that ends.
LEMMA EndEffect ==
  ASSUME ShapeInv, NEW a \in Apps, End(a)
  PROVE  /\ Others(a) /\ DOMAIN op'[a] = OpFields
         /\ op'[a].kind = "none" /\ op'[a].pc = "idle" /\ op'[a].id = 0
         /\ op'[a].t = 0 /\ op'[a].worker = "none" /\ ~op'[a].ok
BY DEF End, ShapeInv, Idle, OpFields, Others

\* The next transfer of an operation.
LEMMA NextEffect ==
  ASSUME ShapeInv, NEW a \in Apps, NextTransfer(a)
  PROVE  /\ Others(a) /\ DOMAIN op'[a] = OpFields
         /\ op'[a].kind = op[a].kind /\ op'[a].pc = IF op[a].kind = "dump" THEN "name"
              ELSE "preflight"
         /\ op'[a].id = op[a].todo[2] /\ op'[a].todo = Tail(op[a].todo)
         /\ op'[a].confirmed = op[a].confirmed
         /\ op'[a].t = 0 /\ op'[a].worker = "none" /\ op'[a].seen = {Content(op[a].todo[2])}
         /\ ~op'[a].ok
BY DEF NextTransfer, Operation, ShapeInv, Idle, OpFields, Others

\* An operation that goes on.
LEMMA GoEffect ==
  ASSUME ShapeInv, NEW a \in Apps, NEW at, Go(a, at)
  PROVE  /\ Others(a) /\ DOMAIN op'[a] = OpFields /\ op'[a].pc = at
         /\ op'[a].kind = op[a].kind /\ op'[a].id = op[a].id /\ op'[a].todo = op[a].todo
         /\ op'[a].data = op[a].data /\ op'[a].confirmed = op[a].confirmed
         /\ op'[a].t = op[a].t /\ op'[a].worker = op[a].worker /\ op'[a].seen = op[a].seen
         /\ (op'[a].ok <=> op[a].ok)
BY DEF Go, ShapeInv, Idle, OpFields, Others

\* Zero and the partitions are numbers of what can be transferred.
LEMMA IdsTyped == 0 \in Ids /\ Parts \subseteq Ids /\ \A p \in Parts : p \in Nat /\ p # 0
BY LayoutAssumption DEF Ids

\* The first and the last block are numbers.
LEMMA AreaTyped ==
  ASSUME NEW id \in Ids
  PROVE  Area(id)[1] \in Nat
BY LayoutAssumption DEF Area, Ids

\* What is left to do has ids.
LEMMA TodoTyped ==
  ASSUME NEW s \in Seq(Ids), s # <<>>
  PROVE  /\ s[1] \in Ids /\ Head(s) = s[1]
         /\ Len(s) > 1 => s[2] \in Ids /\ Tail(s) \in Seq(Ids) /\ Tail(s) # <<>>
              /\ Tail(s)[1] = s[2]
         /\ \A j \in DOMAIN s : j = 1 \/ \E k \in DOMAIN Tail(s) : Tail(s)[k] = s[j]
<1>1. Len(s) \in Nat /\ Len(s) > 0 /\ DOMAIN s = 1 .. Len(s) OBVIOUS
<1>2. s[1] \in Ids /\ Head(s) = s[1] BY <1>1
<1>3. /\ Tail(s) \in Seq(Ids) /\ Len(Tail(s)) = Len(s) - 1
      /\ \A k \in 1 .. Len(s) - 1 : Tail(s)[k] = s[k + 1]
  BY <1>1
<1>4. ASSUME NEW j \in DOMAIN s, j # 1
      PROVE  \E k \in DOMAIN Tail(s) : Tail(s)[k] = s[j]
  <2>1. j - 1 \in 1 .. Len(s) - 1 /\ (j - 1) + 1 = j BY <1>1, <1>4
  <2>2. Tail(s)[j - 1] = s[j] /\ j - 1 \in DOMAIN Tail(s) BY <1>3, <2>1
  <2>3. QED BY <2>2
<1>5. ASSUME Len(s) > 1 PROVE s[2] \in Ids /\ Tail(s) # <<>> /\ Tail(s)[1] = s[2]
  <2>1. 1 \in 1 .. Len(s) - 1 /\ 2 \in DOMAIN s BY <1>1, <1>5
  <2>2. Tail(s)[1] = s[1 + 1] BY <1>3, <2>1
  <2>3. Len(Tail(s)) # 0 BY <1>1, <1>3, <1>5
  <2> DEFINE r == Tail(s)
  <2>4. Len(r) # 0 /\ r[1] = s[1 + 1] BY <2>2, <2>3
  <2>5. s[2] \in Ids BY <2>1
  <2>6. 1 + 1 = 2 OBVIOUS
  <2> HIDE DEF r
  <2>7. r # <<>> /\ r[1] = s[2] BY <2>4, <2>6
  <2>8. QED BY <2>5, <2>7 DEF r
<1>6. QED BY <1>2, <1>3, <1>4, <1>5

\* A shell that is trapped takes its process with it.
LEMMA TrapEffect ==
  ASSUME ShapeInv, NEW t \in Tokens, Trap(t)
  PROVE  /\ DOMAIN shell' = Tokens /\ DOMAIN nc' = Tokens
         /\ \A u \in Tokens : u # t => nc'[u] = nc[u] /\ shell'[u] = shell[u]
         /\ DOMAIN nc'[t] = NcFields /\ nc'[t].pos = 1 /\ nc'[t].state = "gone"
         /\ shell'[t] = "done"
BY DEF Trap, ShapeInv, NoNc, Gone, NcFields

\* Operations and processes keep their fields.
LEMMA ShapeStep ==
  ASSUME TransferInv, Next
  PROVE  ShapeInv'
<1>1. ASSUME NEW a \in Apps, NEW c \in Choices, Prepare(a, c) PROVE ShapeInv'
  <2>1. ShapeInv BY TransferInv DEF TransferInv
  <2>2. Begin(a, "prepare", "stage", c.id, <<>>, <<>>, c) BY <1>1 DEF Prepare
  <2>3. c.id \in Ids BY DEF Choices
  <2> HIDE DEF Begin
  <2>4. Others(a) /\ DOMAIN op'[a] = OpFields /\ op'[a].id \in Ids BY <2>1, <2>2, <2>3, BeginEffect
  <2>5. QED BY <1>1, <2>1, <2>4 DEF Prepare, ShapeInv, console, local, bounds, Others
<1>2. ASSUME NEW a \in Apps, NEW c \in Choices, RestoreImage(a, c) PROVE ShapeInv'
  <2>1. ShapeInv BY TransferInv DEF TransferInv
  <2>2. PICK m : Begin(a, "restore", "preflight", c.id, <<>>, m.data, [id |-> c.id,
          data |-> m.data])
    BY <1>2 DEF RestoreImage
  <2>3. c.id \in Ids BY DEF Choices
  <2>4. Others(a) /\ DOMAIN op'[a] = OpFields /\ op'[a].id = c.id BY <2>1, <2>2, BeginEffect
  <2>5. QED BY <1>2, <2>1, <2>3, <2>4 DEF RestoreImage, ShapeInv, console, local, bounds, Others
<1>3. ASSUME NEW a \in Apps, CancelRestore(a) PROVE ShapeInv'
  BY <1>3, TransferInv DEF CancelRestore, console, bounds, TransferInv, ShapeInv, OpFields,
     NcFields, Idle, NoNc
<1>4. ASSUME NEW a \in Apps, Restore(a) PROVE ShapeInv'
  <2>1. ShapeInv BY TransferInv DEF TransferInv
  <2>2. Begin(a, "restore", "inspect", preview[a].id, <<>>, RestoreData(a), preview[a])
    BY <1>4 DEF Restore
  <2>3. preview[a].id \in Ids BY <1>4, <2>1 DEF Restore, ShapeInv
  <2> HIDE DEF Begin
  <2>4. Others(a) /\ DOMAIN op'[a] = OpFields /\ op'[a].id \in Ids BY <2>1, <2>2, <2>3, BeginEffect
  <2>5. QED BY <1>4, <2>1, <2>4 DEF Restore, ShapeInv, console, local, bounds, Others
<1>5. ASSUME NEW a \in Apps, NEW ids \in Batches, Backup(a, ids) PROVE ShapeInv'
  <2>1. ShapeInv BY TransferInv DEF TransferInv
  <2>2. Begin(a, "backup", "inspect", Head(ids), ids, <<>>, ids) BY <1>5 DEF Backup
  <2>3. Head(ids) \in Ids BY BatchesAssumption DEF Ids
  <2> HIDE DEF Begin
  <2>4. Others(a) /\ DOMAIN op'[a] = OpFields /\ op'[a].id \in Ids BY <2>1, <2>2, <2>3, BeginEffect
  <2>5. QED BY <1>5, <2>1, <2>4 DEF Backup, ShapeInv, console, local, bounds, Others
<1>6. ASSUME NEW a \in Apps, NEW ids \in Batches, Dump(a, ids) PROVE ShapeInv'
  <2>1. ShapeInv BY TransferInv DEF TransferInv
  <2>2. Begin(a, "dump", "name", Head(ids), ids, <<>>, None) BY <1>6 DEF Dump
  <2>3. Head(ids) \in Ids BY BatchesAssumption DEF Ids
  <2> HIDE DEF Begin
  <2>4. Others(a) /\ DOMAIN op'[a] = OpFields /\ op'[a].id \in Ids BY <2>1, <2>2, <2>3, BeginEffect
  <2>5. QED BY <1>6, <2>1, <2>4 DEF Dump, ShapeInv, console, local, bounds, Others
<1>7. ASSUME NEW a \in Apps, Stage(a) PROVE ShapeInv'
  <2>1. ShapeInv BY TransferInv DEF TransferInv
  <2>2. Others(a) /\ DOMAIN op'[a] = OpFields /\ op'[a].id \in Ids
    BY <1>7, <2>1, IdsTyped, EndEffect DEF Stage
  <2>3. preview'[a].id \in Ids /\ DOMAIN preview' = Apps /\ \A b \in Apps : b # a
          => preview'[b] = preview[b]
    BY <1>7, <2>1 DEF Stage, ShapeInv
  <2>4. QED BY <1>7, <2>1, <2>2, <2>3 DEF Stage, ShapeInv, console, local, bounds, Others
<1>8. ASSUME NEW a \in Apps, StageFails(a) PROVE ShapeInv'
  <2>1. ShapeInv BY TransferInv DEF TransferInv
  <2>2. Others(a) /\ DOMAIN op'[a] = OpFields /\ op'[a].id \in Ids
    BY <1>8, <2>1, IdsTyped, EndEffect DEF StageFails
  <2>3. QED BY <1>8, <2>1, <2>2 DEF StageFails, ShapeInv, console, local, bounds, Others
<1>9. ASSUME NEW a \in Apps, RequireRecovery(a) PROVE ShapeInv'
  <2>1. ShapeInv BY TransferInv DEF TransferInv
  <2>2. Others(a) /\ DOMAIN op'[a] = OpFields /\ op'[a].id \in Ids
    BY <1>9, <2>1, IdsTyped, EndEffect, GoEffect DEF RequireRecovery, ShapeInv
  <2>3. QED BY <1>9, <2>1, <2>2 DEF RequireRecovery, ShapeInv, console, local, bounds, Others
<1>10. ASSUME NEW a \in Apps, Name(a) PROVE ShapeInv'
  BY <1>10, TransferInv DEF Name, Go, local, console, bounds, TransferInv, ShapeInv, OpFields,
     NcFields, Idle, NoNc
<1>11. ASSUME NEW a \in Apps, Preflight(a) PROVE ShapeInv'
  BY <1>11, TransferInv DEF Preflight, Up, Go, Keep, console, bounds, local, TransferInv,
     ShapeInv, OpFields, NcFields, Idle, NoNc
<1>12. ASSUME NEW a \in Apps, Acquire(a) PROVE ShapeInv'
  BY <1>12, TransferInv DEF Acquire, Up, Go, Keep, local, TransferInv, ShapeInv, OpFields,
     NcFields, Idle, NoNc
<1>13. ASSUME NEW a \in Apps, AcquireNoMore(a) PROVE ShapeInv'
  BY <1>13, TransferInv DEF AcquireNoMore, Up, Go, Keep, console, bounds, local, TransferInv,
     ShapeInv, OpFields, NcFields, Idle, NoNc
<1>14. ASSUME NEW a \in Apps, ReadyCheck(a) PROVE ShapeInv'
  BY <1>14, TransferInv DEF ReadyCheck, Up, Go, LockOf, Keep, console, bounds, local,
     TransferInv, ShapeInv, OpFields, NcFields, Idle, NoNc
<1>15. ASSUME NEW a \in Apps, ReadyTimeout(a) PROVE ShapeInv'
  BY <1>15, TransferInv DEF ReadyTimeout, Go, Slow, Keep, console, local, TransferInv,
     ShapeInv, OpFields, NcFields, Idle, NoNc
<1>16. ASSUME NEW a \in Apps, Connect(a) PROVE ShapeInv'
  BY <1>16, TransferInv DEF Connect, Up, Go, Keep, bounds, local, TransferInv, ShapeInv,
     OpFields, NcFields, Idle, NoNc
<1>17. ASSUME NEW a \in Apps, Send(a) PROVE ShapeInv'
  BY <1>17, TransferInv DEF Send, Writing, Up, Conn, Keep, bounds, local, TransferInv,
     ShapeInv, OpFields, NcFields, Idle, NoNc
<1>18. ASSUME NEW a \in Apps, SendEnd(a) PROVE ShapeInv'
  BY <1>18, TransferInv DEF SendEnd, Writing, Close, Go, Keep, bounds, local, TransferInv,
     ShapeInv, OpFields, NcFields, Idle, NoNc
<1>19. ASSUME NEW a \in Apps, Receive(a) PROVE ShapeInv'
  <2>1. ShapeInv BY TransferInv DEF TransferInv
  <2>2. Others(a) /\ DOMAIN op'[a] = OpFields /\ op'[a].id = op[a].id
    BY <1>19, <2>1 DEF Receive, Go, ShapeInv, OpFields, Idle, Others
  <2>3. /\ DOMAIN nc' = Tokens
        /\ \A t \in Tokens : DOMAIN nc'[t] = NcFields /\ nc'[t].pos \in Nat
    BY <1>19, <2>1 DEF Receive, Close, Conn, ShapeInv, NcFields, NoNc
  <2>4. QED BY <1>19, <2>1, <2>2, <2>3 DEF Receive, Keep, ShapeInv, local, Others
<1>20. ASSUME NEW a \in Apps, ReceiveEnd(a) PROVE ShapeInv'
  BY <1>20, TransferInv DEF ReceiveEnd, Writing, Conn, Go, Keep, console, bounds, local,
     TransferInv, ShapeInv, OpFields, NcFields, Idle, NoNc
<1>21. ASSUME NEW a \in Apps, StreamFails(a) PROVE ShapeInv'
  BY <1>21, TransferInv DEF StreamFails, Up, Close, Go, Keep, local, TransferInv, ShapeInv,
     OpFields, NcFields, Idle, NoNc
<1>22. ASSUME NEW a \in Apps, Finish(a) PROVE ShapeInv'
  BY <1>22, TransferInv DEF Finish, Writing, Keep, console, bounds, local, TransferInv,
     ShapeInv, OpFields, NcFields, Idle, NoNc
<1>23. ASSUME NEW a \in Apps, FinishTimeout(a) PROVE ShapeInv'
  BY <1>23, TransferInv DEF FinishTimeout, Slow, Go, Keep, console, local, TransferInv,
     ShapeInv, OpFields, NcFields, Idle, NoNc
<1>24. ASSUME NEW a \in Apps, Sha1(a) PROVE ShapeInv'
  BY <1>24, TransferInv DEF Sha1, Up, Keep, console, bounds, local, TransferInv, ShapeInv,
     OpFields, NcFields, Idle, NoNc
<1>25. ASSUME NEW a \in Apps, Cancel(a) PROVE ShapeInv'
  BY <1>25, TransferInv DEF Cancel, Up, LockOf, Gone, Go, Keep, bounds, local, NoNc,
     TransferInv, ShapeInv, OpFields, NcFields, Idle
<1>26. ASSUME NEW a \in Apps, Join(a) PROVE ShapeInv'
  BY <1>26, TransferInv DEF Join, Keep, console, bounds, local, TransferInv, ShapeInv,
     OpFields, NcFields, Idle, NoNc
<1>27. ASSUME NEW a \in Apps, Release(a) PROVE ShapeInv'
  BY <1>27, TransferInv DEF Release, Up, Owns, Go, Keep, bounds, local, LockOf, TransferInv,
     ShapeInv, OpFields, NcFields, Idle, NoNc
<1>28. ASSUME NEW a \in Apps, SshFails(a) PROVE ShapeInv'
  BY <1>28, TransferInv DEF SshFails, Remote, Up, Go, OnError, Keep, console, local,
     TransferInv, ShapeInv, OpFields, NcFields, Idle, NoNc
<1>29. ASSUME NEW a \in Apps, RestoreEnds(a) PROVE ShapeInv'
  <2>1. ShapeInv BY TransferInv DEF TransferInv
  <2>2. Others(a) /\ DOMAIN op'[a] = OpFields /\ op'[a].id \in Ids
    BY <1>29, <2>1, IdsTyped, EndEffect DEF RestoreEnds
  <2>3. QED BY <1>29, <2>1, <2>2 DEF RestoreEnds, ShapeInv, console, local, bounds, Others
<1>30. ASSUME NEW a \in Apps, DumpEnds(a) PROVE ShapeInv'
  <2>1. ShapeInv /\ TodoInv BY TransferInv DEF TransferInv
  <2>2. CASE End(a)
    <3>1. Others(a) /\ DOMAIN op'[a] = OpFields /\ op'[a].id \in Ids
      BY <2>1, <2>2, IdsTyped, EndEffect
    <3>2. QED BY <1>30, <2>1, <3>1 DEF DumpEnds, Persist, ShapeInv, console, local, bounds, Others
  <2>3. CASE NextTransfer(a) /\ Len(op[a].todo) > 1
    <3>1. op[a].todo[2] \in Ids BY <1>30, <2>1, <2>3, TodoTyped DEF DumpEnds, TodoInv, TodoOf
    <3>2. Others(a) /\ DOMAIN op'[a] = OpFields /\ op'[a].id \in Ids BY <2>1, <2>3, <3>1, NextEffect
    <3>3. QED BY <1>30, <2>1, <3>2 DEF DumpEnds, Persist, ShapeInv, console, local, bounds, Others
  <2>4. QED BY <1>30, <2>2, <2>3 DEF DumpEnds
<1>31. ASSUME NEW a \in Apps, BackupEnds(a) PROVE ShapeInv'
  <2>1. ShapeInv /\ TodoInv BY TransferInv DEF TransferInv
  <2>2. CASE End(a)
    <3>1. Others(a) /\ DOMAIN op'[a] = OpFields /\ op'[a].id \in Ids
      BY <2>1, <2>2, IdsTyped, EndEffect
    <3>2. QED BY <1>31, <2>1, <3>1 DEF BackupEnds, Persist, ShapeInv, console, local, bounds, Others
  <2>3. CASE NextTransfer(a) /\ Len(op[a].todo) > 1
    <3>1. op[a].todo[2] \in Ids BY <1>31, <2>1, <2>3, TodoTyped DEF BackupEnds, TodoInv, TodoOf
    <3>2. Others(a) /\ DOMAIN op'[a] = OpFields /\ op'[a].id \in Ids BY <2>1, <2>3, <3>1, NextEffect
    <3>3. QED BY <1>31, <2>1, <3>2 DEF BackupEnds, Persist, ShapeInv, console, local, bounds, Others
  <2>4. CASE Go(a, "manifest")
    <3>1. Others(a) /\ DOMAIN op'[a] = OpFields /\ op'[a].id \in Ids
      BY <2>1, <2>4, GoEffect DEF ShapeInv
    <3>2. QED BY <1>31, <2>1, <3>1 DEF BackupEnds, Persist, ShapeInv, console, local, bounds, Others
  <2>5. QED BY <1>31, <2>2, <2>3, <2>4 DEF BackupEnds
<1>32. ASSUME NEW a \in Apps, Manifest(a) PROVE ShapeInv'
  <2>1. ShapeInv BY TransferInv DEF TransferInv
  <2>2. Others(a) /\ DOMAIN op'[a] = OpFields /\ op'[a].id \in Ids
    BY <1>32, <2>1, IdsTyped, EndEffect DEF Manifest
  <2>3. QED BY <1>32, <2>1, <2>2 DEF Manifest, ShapeInv, console, local, bounds, Others
<1>33. ASSUME NEW a \in Apps, WorkerStart(a) PROVE ShapeInv'
  BY <1>33, TransferInv DEF WorkerStart, Up, Writing, Area, Keep, bounds, local, TransferInv,
     ShapeInv, OpFields, NcFields, Idle, NoNc
<1>34. ASSUME NEW a \in Apps, WorkerEnds(a) PROVE ShapeInv'
  BY <1>34, TransferInv DEF WorkerEnds, Keep, console, bounds, local, TransferInv, ShapeInv,
     OpFields, NcFields, Idle, NoNc
<1>35. ASSUME NEW a \in Apps, WorkerLost(a) PROVE ShapeInv'
  BY <1>35, TransferInv DEF WorkerLost, Up, Keep, console, local, TransferInv, ShapeInv,
     OpFields, NcFields, Idle, NoNc
<1>36. ASSUME NEW a \in Apps, AcquireLost(a) PROVE ShapeInv'
  BY <1>36, TransferInv DEF AcquireLost, Up, Go, Keep, local, TransferInv, ShapeInv, OpFields,
     NcFields, Idle, NoNc
<1>37. ASSUME NEW t \in Tokens, ShellTest(t) PROVE ShapeInv'
  <2>1. ShapeInv BY TransferInv DEF TransferInv
  <2>2. CASE Trap(t) BY <1>37, <2>1, <2>2, TrapEffect DEF ShellTest, ShapeInv, Quiet, local, bounds
  <2>3. CASE ~Trap(t)
    BY <1>37, <2>1, <2>3
       DEF ShellTest, ShapeInv, Quiet, local, bounds, Step, NoNc, Gone, NcFields
  <2>4. QED BY <2>2, <2>3
<1>38. ASSUME NEW t \in Tokens, ShellPid(t) PROVE ShapeInv'
  <2>1. ShapeInv BY TransferInv DEF TransferInv
  <2>2. CASE Trap(t) BY <1>38, <2>1, <2>2, TrapEffect DEF ShellPid, ShapeInv, Quiet, local, bounds
  <2>3. CASE ~Trap(t)
    BY <1>38, <2>1, <2>3
       DEF ShellPid, ShapeInv, Quiet, local, bounds, Step, NoNc, Gone, NcFields
  <2>4. QED BY <2>2, <2>3
<1>39. ASSUME NEW t \in Tokens, ShellWait(t) PROVE ShapeInv'
  BY <1>39, TransferInv DEF ShellWait, Quiet, Trap, Gone, NoNc, local, bounds, TransferInv,
     ShapeInv, OpFields, NcFields, Idle
<1>40. ASSUME NEW t \in Tokens, NcListen(t) PROVE ShapeInv'
  BY <1>40, TransferInv DEF NcListen, Quiet, Gone, NoNc, local, bounds, TransferInv, ShapeInv,
     OpFields, NcFields, Idle
<1>41. ASSUME NEW t \in Tokens, NcWrite(t) PROVE ShapeInv'
  BY <1>41, TransferInv DEF NcWrite, local, bounds, TransferInv, ShapeInv, OpFields, NcFields,
     Idle, NoNc
<1>42. ASSUME NEW t \in Tokens, NcEnd(t) PROVE ShapeInv'
  BY <1>42, TransferInv DEF NcEnd, Quiet, local, bounds, TransferInv, ShapeInv, OpFields,
     NcFields, Idle, NoNc
<1>43. ASSUME NEW f \in Archives, ChangeFile(f) PROVE ShapeInv'
  BY <1>43, TransferInv DEF ChangeFile, console, TransferInv, ShapeInv, OpFields, NcFields,
     Idle, NoNc
<1>44. ASSUME ConsoleStops PROVE ShapeInv'
  BY <1>44, TransferInv DEF ConsoleStops, Up, NoNc, local, TransferInv, ShapeInv, OpFields,
     NcFields, Idle
<1>45. ASSUME ConsoleStarts PROVE ShapeInv'
  <2>1. ShapeInv BY TransferInv DEF TransferInv
  <2>2. mounted' \subseteq Parts BY <1>45 DEF ConsoleStarts, Boots
  <2>3. QED BY <1>45, <2>1, <2>2 DEF ConsoleStarts, ShapeInv, console, local, bounds
<1>46. ASSUME NEW a \in Apps, RecheckFails(a) PROVE ShapeInv'
  BY <1>46, TransferInv DEF RecheckFails, Go, Slow, Keep, console, local, TransferInv,
     ShapeInv, OpFields, NcFields, Idle, NoNc
<1>47. QED BY <1>1, <1>2, <1>3, <1>4, <1>5, <1>6, <1>7, <1>8, <1>9, <1>10, <1>11, <1>12, <1>13,
   <1>14, <1>15, <1>16, <1>17, <1>18, <1>19, <1>20, <1>21, <1>22, <1>23, <1>24, <1>25, <1>26,
   <1>27, <1>28, <1>29, <1>30, <1>31, <1>32, <1>33, <1>34, <1>35, <1>36, <1>37, <1>38, <1>39,
   <1>40, <1>41, <1>42, <1>43, <1>44, <1>45, <1>46 DEF Next, UserStep, HostStep, ReleaseOp,
   WorkerStep, ShellStep, NcStep

\* While a transfer runs its target stays what the preflight found: mounts and the
\* system change when the power goes, and no boot is quicker than the operation.
LEMMA TargetStep ==
  ASSUME TransferInv, Next
  PROVE  TargetInv'
<1>1. ASSUME NEW a \in Apps, NEW c \in Choices, Prepare(a, c) PROVE TargetInv'
  <2>1. ShapeInv /\ TargetInv BY TransferInv DEF TransferInv
  <2>2. Begin(a, "prepare", "stage", c.id, <<>>, <<>>, c) BY <1>1 DEF Prepare
  <2> HIDE DEF Begin
  <2>3. Others(a) /\ op'[a].pc = "stage" /\ op'[a].t = 0 /\ op'[a].worker = "none"
    BY <2>1, <2>2, BeginEffect
  <2>4. QED BY <1>1, <2>1, <2>3
            DEF Prepare, Others, TargetInv, QuietTarget, Up, Past, Serving, console, local, bounds
<1>2. ASSUME NEW a \in Apps, NEW c \in Choices, RestoreImage(a, c) PROVE TargetInv'
  <2>1. ShapeInv /\ TargetInv BY TransferInv DEF TransferInv
  <2>2. PICK m : Begin(a, "restore", "preflight", c.id, <<>>, m.data, [id |-> c.id,
          data |-> m.data])
    BY <1>2 DEF RestoreImage
  <2>3. Others(a) /\ op'[a].pc = "preflight" /\ op'[a].t = 0 /\ op'[a].worker = "none"
    BY <2>1, <2>2, BeginEffect
  <2>4. QED BY <1>2, <2>1, <2>3
            DEF RestoreImage, Others, TargetInv, QuietTarget, Up, Past, Serving, console, local,
                bounds
<1>3. ASSUME NEW a \in Apps, CancelRestore(a) PROVE TargetInv'
  BY <1>3, TransferInv DEF CancelRestore, console, bounds, TransferInv, ShapeInv, OpFields,
     Idle, TargetInv, QuietTarget, Up, Past, Serving, local
<1>4. ASSUME NEW a \in Apps, Restore(a) PROVE TargetInv'
  <2>1. ShapeInv /\ TargetInv BY TransferInv DEF TransferInv
  <2>2. Begin(a, "restore", "inspect", preview[a].id, <<>>, RestoreData(a), preview[a])
    BY <1>4 DEF Restore
  <2> HIDE DEF Begin
  <2>3. Others(a) /\ op'[a].pc = "inspect" /\ op'[a].t = 0 /\ op'[a].worker = "none"
    BY <2>1, <2>2, BeginEffect
  <2>4. QED BY <1>4, <2>1, <2>3
            DEF Restore, Others, TargetInv, QuietTarget, Up, Past, Serving, console, local, bounds
<1>5. ASSUME NEW a \in Apps, NEW ids \in Batches, Backup(a, ids) PROVE TargetInv'
  <2>1. ShapeInv /\ TargetInv BY TransferInv DEF TransferInv
  <2>2. Begin(a, "backup", "inspect", Head(ids), ids, <<>>, ids) BY <1>5 DEF Backup
  <2> HIDE DEF Begin
  <2>3. Others(a) /\ op'[a].pc = "inspect" /\ op'[a].t = 0 /\ op'[a].worker = "none"
    BY <2>1, <2>2, BeginEffect
  <2>4. QED BY <1>5, <2>1, <2>3
            DEF Backup, Others, TargetInv, QuietTarget, Up, Past, Serving, console, local, bounds
<1>6. ASSUME NEW a \in Apps, NEW ids \in Batches, Dump(a, ids) PROVE TargetInv'
  <2>1. ShapeInv /\ TargetInv BY TransferInv DEF TransferInv
  <2>2. Begin(a, "dump", "name", Head(ids), ids, <<>>, None) BY <1>6 DEF Dump
  <2> HIDE DEF Begin
  <2>3. Others(a) /\ op'[a].pc = "name" /\ op'[a].t = 0 /\ op'[a].worker = "none"
    BY <2>1, <2>2, BeginEffect
  <2>4. QED BY <1>6, <2>1, <2>3
            DEF Dump, Others, TargetInv, QuietTarget, Up, Past, Serving, console, local, bounds
<1>7. ASSUME NEW a \in Apps, Stage(a) PROVE TargetInv'
  <2>1. ShapeInv /\ TargetInv BY TransferInv DEF TransferInv
  <2>2. Others(a) /\ op'[a].pc = "idle" /\ op'[a].t = 0 /\ op'[a].worker = "none"
    BY <1>7, <2>1, EndEffect DEF Stage
  <2>3. QED BY <1>7, <2>1, <2>2
            DEF Stage, Others, TargetInv, QuietTarget, Up, Past, Serving, console, local, bounds
<1>8. ASSUME NEW a \in Apps, StageFails(a) PROVE TargetInv'
  <2>1. ShapeInv /\ TargetInv BY TransferInv DEF TransferInv
  <2>2. Others(a) /\ op'[a].pc = "idle" /\ op'[a].t = 0 /\ op'[a].worker = "none"
    BY <1>8, <2>1, EndEffect DEF StageFails
  <2>3. QED BY <1>8, <2>1, <2>2
            DEF StageFails, Others, TargetInv, QuietTarget, Up, Past, Serving, console, local,
                bounds
<1>9. ASSUME NEW a \in Apps, RequireRecovery(a) PROVE TargetInv'
  <2>1. ShapeInv /\ TargetInv BY TransferInv DEF TransferInv
  <2>2. CASE End(a)
    <3>1. Others(a) /\ op'[a].pc = "idle" /\ op'[a].t = 0 /\ op'[a].worker = "none"
      BY <2>1, <2>2, EndEffect
    <3>2. QED BY <1>9, <2>1, <2>2, <3>1
              DEF RequireRecovery, Others, Persist, TargetInv, QuietTarget, Up, Past, Serving,
                  console, local, bounds
  <2>3. CASE Go(a, "preflight")
    <3>1. Others(a) /\ op'[a].pc = "preflight" /\ op'[a].t = op[a].t /\ op'[a].worker = op[a].worker
            /\ op'[a].id = op[a].id
      BY <2>1, <2>3, GoEffect
    <3>2. QED BY <1>9, <2>1, <2>3, <3>1
              DEF RequireRecovery, Others, Persist, TargetInv, QuietTarget, Up, Past, Serving,
                  console, local, bounds
  <2>4. QED BY <1>9, <2>2, <2>3 DEF RequireRecovery
<1>10. ASSUME NEW a \in Apps, Name(a) PROVE TargetInv'
  BY <1>10, TransferInv DEF Name, Go, local, console, bounds, TransferInv, ShapeInv, OpFields,
     Idle, TargetInv, QuietTarget, Up, Past, Serving
<1>11. ASSUME NEW a \in Apps, Preflight(a) PROVE TargetInv'
  BY <1>11, TransferInv DEF Preflight, Up, Go, Keep, console, bounds, local, TransferInv,
     ShapeInv, OpFields, Idle, TargetInv, QuietTarget, Past, Serving
<1>12. ASSUME NEW a \in Apps, Acquire(a) PROVE TargetInv'
  BY <1>12, TransferInv DEF Acquire, Up, Go, Keep, local, TransferInv, ShapeInv, OpFields,
     Idle, TargetInv, QuietTarget, Past, Serving, console, bounds
<1>13. ASSUME NEW a \in Apps, AcquireNoMore(a) PROVE TargetInv'
  BY <1>13, TransferInv DEF AcquireNoMore, Up, Go, Keep, console, bounds, local, TransferInv,
     ShapeInv, OpFields, Idle, TargetInv, QuietTarget, Past, Serving
<1>14. ASSUME NEW a \in Apps, ReadyCheck(a) PROVE TargetInv'
  BY <1>14, TransferInv DEF ReadyCheck, Up, Go, LockOf, Keep, console, bounds, local,
     TransferInv, ShapeInv, OpFields, Idle, TargetInv, QuietTarget, Past, Serving
<1>15. ASSUME NEW a \in Apps, ReadyTimeout(a) PROVE TargetInv'
  BY <1>15, TransferInv DEF ReadyTimeout, Go, Slow, Keep, console, local, TransferInv,
     ShapeInv, OpFields, Idle, TargetInv, QuietTarget, Up, Past, Serving, bounds
<1>16. ASSUME NEW a \in Apps, Connect(a) PROVE TargetInv'
  BY <1>16, TransferInv DEF Connect, Up, Go, Keep, bounds, local, TransferInv, ShapeInv,
     OpFields, Idle, TargetInv, QuietTarget, Past, Serving, console
<1>17. ASSUME NEW a \in Apps, Send(a) PROVE TargetInv'
  BY <1>17, TransferInv DEF Send, Writing, Up, Conn, Keep, bounds, local, TransferInv,
     ShapeInv, OpFields, Idle, TargetInv, QuietTarget, Past, Serving, console
<1>18. ASSUME NEW a \in Apps, SendEnd(a) PROVE TargetInv'
  BY <1>18, TransferInv DEF SendEnd, Writing, Close, Go, Keep, bounds, local, TransferInv,
     ShapeInv, OpFields, Idle, TargetInv, QuietTarget, Up, Past, Serving, console
<1>19. ASSUME NEW a \in Apps, Receive(a) PROVE TargetInv'
  <2>1. /\ Others(a) /\ op[a].pc = "stream" /\ op'[a].pc \in {"stream", "cancel"}
        /\ op'[a].id = op[a].id /\ op'[a].t = op[a].t /\ op'[a].worker = op[a].worker
    BY <1>19, TransferInv DEF Receive, Go, TransferInv, ShapeInv, OpFields, Idle, Others
  <2>2. QED BY <1>19, <2>1, TransferInv
            DEF Receive, Keep, TransferInv, Others, local, TargetInv, QuietTarget, Up, Past,
                Serving, console, local, bounds
<1>20. ASSUME NEW a \in Apps, ReceiveEnd(a) PROVE TargetInv'
  BY <1>20, TransferInv DEF ReceiveEnd, Writing, Conn, Go, Keep, console, bounds, local,
     TransferInv, ShapeInv, OpFields, Idle, TargetInv, QuietTarget, Up, Past, Serving
<1>21. ASSUME NEW a \in Apps, StreamFails(a) PROVE TargetInv'
  BY <1>21, TransferInv DEF StreamFails, Up, Close, Go, Keep, local, TransferInv, ShapeInv,
     OpFields, Idle, TargetInv, QuietTarget, Past, Serving, console, bounds
<1>22. ASSUME NEW a \in Apps, Finish(a) PROVE TargetInv'
  BY <1>22, TransferInv DEF Finish, Writing, Keep, console, bounds, local, TransferInv,
     ShapeInv, OpFields, Idle, TargetInv, QuietTarget, Up, Past, Serving
<1>23. ASSUME NEW a \in Apps, FinishTimeout(a) PROVE TargetInv'
  BY <1>23, TransferInv DEF FinishTimeout, Slow, Go, Keep, console, local, TransferInv,
     ShapeInv, OpFields, Idle, TargetInv, QuietTarget, Up, Past, Serving, bounds
<1>24. ASSUME NEW a \in Apps, Sha1(a) PROVE TargetInv'
  BY <1>24, TransferInv DEF Sha1, Up, Keep, console, bounds, local, TransferInv, ShapeInv,
     OpFields, Idle, TargetInv, QuietTarget, Past, Serving
<1>25. ASSUME NEW a \in Apps, Cancel(a) PROVE TargetInv'
  BY <1>25, TransferInv DEF Cancel, Up, LockOf, Gone, Go, Keep, bounds, local, NoNc,
     TransferInv, ShapeInv, OpFields, Idle, TargetInv, QuietTarget, Past, Serving, console
<1>26. ASSUME NEW a \in Apps, Join(a) PROVE TargetInv'
  BY <1>26, TransferInv DEF Join, Keep, console, bounds, local, TransferInv, ShapeInv,
     OpFields, Idle, TargetInv, QuietTarget, Up, Past, Serving
<1>27. ASSUME NEW a \in Apps, Release(a) PROVE TargetInv'
  BY <1>27, TransferInv DEF Release, Up, Owns, Go, Keep, bounds, local, LockOf, TransferInv,
     ShapeInv, OpFields, Idle, TargetInv, QuietTarget, Past, Serving, console
<1>28. ASSUME NEW a \in Apps, SshFails(a) PROVE TargetInv'
  BY <1>28, TransferInv DEF SshFails, Remote, Up, Go, OnError, Keep, console, local,
     TransferInv, ShapeInv, OpFields, Idle, TargetInv, QuietTarget, Past, Serving, bounds
<1>29. ASSUME NEW a \in Apps, RestoreEnds(a) PROVE TargetInv'
  <2>1. ShapeInv /\ TargetInv BY TransferInv DEF TransferInv
  <2>2. Others(a) /\ op'[a].pc = "idle" /\ op'[a].t = 0 /\ op'[a].worker = "none"
    BY <1>29, <2>1, EndEffect DEF RestoreEnds
  <2>3. QED BY <1>29, <2>1, <2>2
            DEF RestoreEnds, Others, TargetInv, QuietTarget, Up, Past, Serving, console, local,
                bounds
<1>30. ASSUME NEW a \in Apps, DumpEnds(a) PROVE TargetInv'
  <2>1. ShapeInv /\ TargetInv BY TransferInv DEF TransferInv
  <2>2. CASE End(a)
    <3>1. Others(a) /\ op'[a].pc = "idle" /\ op'[a].t = 0 /\ op'[a].worker = "none"
      BY <2>1, <2>2, EndEffect
    <3>2. QED BY <1>30, <2>1, <2>2, <3>1
              DEF DumpEnds, Others, Persist, TargetInv, QuietTarget, Up, Past, Serving, console,
                  local, bounds
  <2>3. CASE NextTransfer(a)
    <3>1. Others(a) /\ op'[a].pc \in {"name", "preflight"} /\ op'[a].t = 0 /\ op'[a].worker = "none"
      BY <2>1, <2>3, NextEffect
    <3>2. QED BY <1>30, <2>1, <2>3, <3>1
              DEF DumpEnds, Others, Persist, TargetInv, QuietTarget, Up, Past, Serving, console,
                  local, bounds
  <2>4. QED BY <1>30, <2>2, <2>3 DEF DumpEnds
<1>31. ASSUME NEW a \in Apps, BackupEnds(a) PROVE TargetInv'
  <2>1. ShapeInv /\ TargetInv BY TransferInv DEF TransferInv
  <2>2. CASE End(a)
    <3>1. Others(a) /\ op'[a].pc = "idle" /\ op'[a].t = 0 /\ op'[a].worker = "none"
      BY <2>1, <2>2, EndEffect
    <3>2. QED BY <1>31, <2>1, <2>2, <3>1
              DEF BackupEnds, Others, Persist, TargetInv, QuietTarget, Up, Past, Serving, console,
                  local, bounds
  <2>3. CASE NextTransfer(a)
    <3>1. Others(a) /\ op'[a].pc \in {"name", "preflight"} /\ op'[a].t = 0 /\ op'[a].worker = "none"
      BY <2>1, <2>3, NextEffect
    <3>2. QED BY <1>31, <2>1, <2>3, <3>1
              DEF BackupEnds, Others, Persist, TargetInv, QuietTarget, Up, Past, Serving, console,
                  local, bounds
  <2>4. CASE Go(a, "manifest")
    <3>1. Others(a) /\ op'[a].pc = "manifest" /\ op'[a].t = op[a].t /\ op'[a].worker = op[a].worker
            /\ op'[a].id = op[a].id
      BY <2>1, <2>4, GoEffect
    <3>2. QED BY <1>31, <2>1, <2>4, <3>1
              DEF BackupEnds, Others, Persist, TargetInv, QuietTarget, Up, Past, Serving, console,
                  local, bounds
  <2>5. QED BY <1>31, <2>2, <2>3, <2>4 DEF BackupEnds
<1>32. ASSUME NEW a \in Apps, Manifest(a) PROVE TargetInv'
  <2>1. ShapeInv /\ TargetInv BY TransferInv DEF TransferInv
  <2>2. Others(a) /\ op'[a].pc = "idle" /\ op'[a].t = 0 /\ op'[a].worker = "none"
    BY <1>32, <2>1, EndEffect DEF Manifest
  <2>3. QED BY <1>32, <2>1, <2>2
            DEF Manifest, Others, TargetInv, QuietTarget, Up, Past, Serving, console, local, bounds
<1>33. ASSUME NEW a \in Apps, WorkerStart(a) PROVE TargetInv'
  BY <1>33, TransferInv DEF WorkerStart, Up, Writing, Area, Keep, bounds, local, TransferInv,
     ShapeInv, OpFields, Idle, TargetInv, QuietTarget, Past, Serving, console
<1>34. ASSUME NEW a \in Apps, WorkerEnds(a) PROVE TargetInv'
  BY <1>34, TransferInv DEF WorkerEnds, Keep, console, bounds, local, TransferInv, ShapeInv,
     OpFields, Idle, TargetInv, QuietTarget, Up, Past, Serving
<1>35. ASSUME NEW a \in Apps, WorkerLost(a) PROVE TargetInv'
  BY <1>35, TransferInv DEF WorkerLost, Up, Keep, console, local, TransferInv, ShapeInv,
     OpFields, Idle, TargetInv, QuietTarget, Past, Serving, bounds
<1>36. ASSUME NEW a \in Apps, AcquireLost(a) PROVE TargetInv'
  BY <1>36, TransferInv DEF AcquireLost, Up, Go, Keep, local, TransferInv, ShapeInv, OpFields,
     Idle, TargetInv, QuietTarget, Past, Serving, console, bounds
<1>37. ASSUME NEW t \in Tokens, ShellTest(t) PROVE TargetInv'
  BY <1>37, TransferInv DEF ShellTest, Quiet, LockOf, Step, Trap, Gone, NoNc, local, bounds,
     TransferInv, ShapeInv, OpFields, Idle, TargetInv, QuietTarget, Up, Past, Serving, console
<1>38. ASSUME NEW t \in Tokens, ShellPid(t) PROVE TargetInv'
  BY <1>38, TransferInv DEF ShellPid, Quiet, Trap, Step, Gone, NoNc, local, bounds,
     TransferInv, ShapeInv, OpFields, Idle, TargetInv, QuietTarget, Up, Past, Serving, console
<1>39. ASSUME NEW t \in Tokens, ShellWait(t) PROVE TargetInv'
  BY <1>39, TransferInv DEF ShellWait, Quiet, Trap, Gone, NoNc, local, bounds, TransferInv,
     ShapeInv, OpFields, Idle, TargetInv, QuietTarget, Up, Past, Serving, console
<1>40. ASSUME NEW t \in Tokens, NcListen(t) PROVE TargetInv'
  BY <1>40, TransferInv DEF NcListen, Quiet, Gone, NoNc, local, bounds, TransferInv, ShapeInv,
     OpFields, Idle, TargetInv, QuietTarget, Up, Past, Serving, console
<1>41. ASSUME NEW t \in Tokens, NcWrite(t) PROVE TargetInv'
  BY <1>41, TransferInv DEF NcWrite, local, bounds, TransferInv, ShapeInv, OpFields, Idle,
     TargetInv, QuietTarget, Up, Past, Serving, console
<1>42. ASSUME NEW t \in Tokens, NcEnd(t) PROVE TargetInv'
  BY <1>42, TransferInv DEF NcEnd, Quiet, local, bounds, TransferInv, ShapeInv, OpFields, Idle,
     TargetInv, QuietTarget, Up, Past, Serving, console
<1>43. ASSUME NEW f \in Archives, ChangeFile(f) PROVE TargetInv'
  BY <1>43, TransferInv DEF ChangeFile, console, TransferInv, ShapeInv, OpFields, Idle,
     TargetInv, QuietTarget, Up, Past, Serving, local, bounds
<1>44. ASSUME ConsoleStops PROVE TargetInv'
  BY <1>44, TransferInv DEF ConsoleStops, Up, NoNc, local, TransferInv, ShapeInv, OpFields,
     Idle, TargetInv, QuietTarget, Past, Serving, console, bounds
<1>45. ASSUME ConsoleStarts PROVE TargetInv'
  BY <1>45, TransferInv DEF ConsoleStarts, local, console, bounds, TransferInv, ShapeInv,
     OpFields, Idle, TargetInv, QuietTarget, Up, Past, Serving
<1>46. ASSUME NEW a \in Apps, RecheckFails(a) PROVE TargetInv'
  BY <1>46, TransferInv DEF RecheckFails, Go, Slow, Keep, console, local, TransferInv,
     ShapeInv, OpFields, Idle, TargetInv, QuietTarget, Up, Past, Serving, bounds
<1>47. QED BY <1>1, <1>2, <1>3, <1>4, <1>5, <1>6, <1>7, <1>8, <1>9, <1>10, <1>11, <1>12, <1>13,
   <1>14, <1>15, <1>16, <1>17, <1>18, <1>19, <1>20, <1>21, <1>22, <1>23, <1>24, <1>25, <1>26,
   <1>27, <1>28, <1>29, <1>30, <1>31, <1>32, <1>33, <1>34, <1>35, <1>36, <1>37, <1>38, <1>39,
   <1>40, <1>41, <1>42, <1>43, <1>44, <1>45, <1>46 DEF Next, UserStep, HostStep, ReleaseOp,
   WorkerStep, ShellStep, NcStep

\* A block of a partition that is not mounted is none of a mounted one.
LEMMA AreaDisjoint ==
  ASSUME NEW id \in Ids, QuietTarget(id), mounted \subseteq Parts
  PROVE  \A p \in mounted : Layout[p][2] < Area(id)[1] \/ Area(id)[2] < Layout[p][1]
BY LayoutAssumption DEF QuietTarget, Area, Ids

\* The blocks still to come of a process are fewer and fewer.
LEMMA ProcessKept ==
  ASSUME TransferInv, UNCHANGED <<system, mounted>>,
         \A t \in Tokens : Alive(t)' =>
            /\ Alive(t)
            /\ nc'[t].pos \in Nat
            /\ nc'[t].last = 0 \/ (nc'[t].last = nc[t].last /\ nc'[t].pos >= nc[t].pos)
  PROVE  ProcessInv'
<1> SUFFICES ASSUME NEW t \in Tokens, Alive(t)', NEW p \in mounted
             PROVE  system = "ram" /\ (Layout[p][2] < nc'[t].pos \/ nc'[t].last < Layout[p][1])
  <2>1. CASE mounted = {} BY <2>1, TransferInv DEF TransferInv, ProcessInv, Disjoint
  <2>2. QED BY <2>1, TransferInv DEF TransferInv, ProcessInv, Disjoint
<1>1. /\ Layout[p][1] \in Nat \ {0} /\ Layout[p][2] \in Nat /\ nc[t].pos \in Nat
  BY LayoutAssumption DEF TransferInv, ShapeInv
<1>2. system = "ram" /\ (Layout[p][2] < nc[t].pos \/ nc[t].last < Layout[p][1])
  BY DEF TransferInv, ProcessInv, Disjoint
<1>3. CASE nc'[t].last = 0 BY <1>1, <1>2, <1>3
<1>4. CASE nc'[t].last = nc[t].last /\ nc'[t].pos >= nc[t].pos BY <1>1, <1>2, <1>4
<1>5. QED BY <1>3, <1>4


\* A process of the console has a quiet target from the start of its shell to its own
\* end, whatever becomes of the operation it was started for.
LEMMA ProcessStep ==
  ASSUME TransferInv, Next
  PROVE  ProcessInv'
<1>1. ASSUME NEW a \in Apps, NEW c \in Choices, Prepare(a, c) PROVE ProcessInv'
  BY <1>1, TransferInv DEF Prepare, console, bounds, TransferInv, ShapeInv, NcFields, NoNc,
     Gone, local, ProcessInv, Alive, Disjoint
<1>2. ASSUME NEW a \in Apps, NEW c \in Choices, RestoreImage(a, c) PROVE ProcessInv'
  BY <1>2, TransferInv DEF RestoreImage, local, console, bounds, TransferInv, ShapeInv,
     NcFields, NoNc, Gone, ProcessInv, Alive, Disjoint
<1>3. ASSUME NEW a \in Apps, CancelRestore(a) PROVE ProcessInv'
  BY <1>3, TransferInv DEF CancelRestore, console, bounds, TransferInv, ShapeInv, NcFields,
     NoNc, Gone, local, ProcessInv, Alive, Disjoint
<1>4. ASSUME NEW a \in Apps, Restore(a) PROVE ProcessInv'
  BY <1>4, TransferInv DEF Restore, console, bounds, TransferInv, ShapeInv, NcFields, NoNc,
     Gone, local, ProcessInv, Alive, Disjoint
<1>5. ASSUME NEW a \in Apps, NEW ids \in Batches, Backup(a, ids) PROVE ProcessInv'
  BY <1>5, TransferInv DEF Backup, local, console, bounds, TransferInv, ShapeInv, NcFields,
     NoNc, Gone, ProcessInv, Alive, Disjoint
<1>6. ASSUME NEW a \in Apps, NEW ids \in Batches, Dump(a, ids) PROVE ProcessInv'
  BY <1>6, TransferInv DEF Dump, local, console, bounds, TransferInv, ShapeInv, NcFields, NoNc,
     Gone, ProcessInv, Alive, Disjoint
<1>7. ASSUME NEW a \in Apps, Stage(a) PROVE ProcessInv'
  BY <1>7, TransferInv DEF Stage, console, bounds, TransferInv, ShapeInv, NcFields, NoNc, Gone,
     local, ProcessInv, Alive, Disjoint
<1>8. ASSUME NEW a \in Apps, StageFails(a) PROVE ProcessInv'
  BY <1>8, TransferInv DEF StageFails, local, console, bounds, TransferInv, ShapeInv, NcFields,
     NoNc, Gone, ProcessInv, Alive, Disjoint
<1>9. ASSUME NEW a \in Apps, RequireRecovery(a) PROVE ProcessInv'
  BY <1>9, TransferInv DEF RequireRecovery, Up, local, console, bounds, TransferInv, ShapeInv,
     NcFields, NoNc, Gone, ProcessInv, Alive, Disjoint
<1>10. ASSUME NEW a \in Apps, Name(a) PROVE ProcessInv'
  BY <1>10, TransferInv DEF Name, local, console, bounds, TransferInv, ShapeInv, NcFields,
     NoNc, Gone, ProcessInv, Alive, Disjoint
<1>11. ASSUME NEW a \in Apps, Preflight(a) PROVE ProcessInv'
  BY <1>11, TransferInv DEF Preflight, Up, Keep, console, bounds, local, TransferInv, ShapeInv,
     NcFields, NoNc, Gone, ProcessInv, Alive, Disjoint
<1>12. ASSUME NEW a \in Apps, Acquire(a) PROVE ProcessInv'
  BY <1>12, TransferInv DEF Acquire, Up, Keep, local, TransferInv, ShapeInv, NcFields, NoNc,
     Gone, console, bounds, ProcessInv, Alive, Disjoint
<1>13. ASSUME NEW a \in Apps, AcquireNoMore(a) PROVE ProcessInv'
  BY <1>13, TransferInv DEF AcquireNoMore, Up, Keep, console, bounds, local, TransferInv,
     ShapeInv, NcFields, NoNc, Gone, ProcessInv, Alive, Disjoint
<1>14. ASSUME NEW a \in Apps, ReadyCheck(a) PROVE ProcessInv'
  BY <1>14, TransferInv DEF ReadyCheck, Up, LockOf, Keep, console, bounds, local, TransferInv,
     ShapeInv, NcFields, NoNc, Gone, ProcessInv, Alive, Disjoint
<1>15. ASSUME NEW a \in Apps, ReadyTimeout(a) PROVE ProcessInv'
  BY <1>15, TransferInv DEF ReadyTimeout, Slow, Keep, console, local, TransferInv, ShapeInv,
     NcFields, NoNc, Gone, bounds, ProcessInv, Alive, Disjoint
<1>16. ASSUME NEW a \in Apps, Connect(a) PROVE ProcessInv'
  <2>1. ShapeInv BY TransferInv DEF TransferInv
  <2>2. \A u \in Tokens : Alive(u)' =>
          /\ Alive(u) /\ nc'[u].pos \in Nat
          /\ nc'[u].last = 0 \/ (nc'[u].last = nc[u].last /\ nc'[u].pos >= nc[u].pos)
    BY <1>16, <2>1 DEF Connect, ShapeInv, NcFields, NoNc, Gone, Alive, Listening
  <2>3. QED BY <1>16, <2>2, TransferInv, ProcessKept DEF Connect, Keep
<1>17. ASSUME NEW a \in Apps, Send(a) PROVE ProcessInv'
  BY <1>17, TransferInv DEF Send, Writing, Up, Conn, Keep, bounds, local, TransferInv,
     ShapeInv, NcFields, NoNc, Gone, console, ProcessInv, Alive, Disjoint
<1>18. ASSUME NEW a \in Apps, SendEnd(a) PROVE ProcessInv'
  BY <1>18, TransferInv DEF SendEnd, Writing, Close, Keep, bounds, local, TransferInv,
     ShapeInv, NcFields, NoNc, Gone, console, ProcessInv, Alive, Disjoint
<1>19. ASSUME NEW a \in Apps, Receive(a) PROVE ProcessInv'
  <2>1. ShapeInv BY TransferInv DEF TransferInv
  <2>2. \A u \in Tokens : Alive(u)' =>
          /\ Alive(u) /\ nc'[u].pos \in Nat
          /\ nc'[u].last = 0 \/ (nc'[u].last = nc[u].last /\ nc'[u].pos >= nc[u].pos)
    BY <1>19, <2>1 DEF Receive, ShapeInv, NcFields, NoNc, Gone, Alive, Close, Conn
  <2>3. QED BY <1>19, <2>2, TransferInv, ProcessKept DEF Receive, Keep
<1>20. ASSUME NEW a \in Apps, ReceiveEnd(a) PROVE ProcessInv'
  BY <1>20, TransferInv DEF ReceiveEnd, Writing, Conn, Keep, console, bounds, local,
     TransferInv, ShapeInv, NcFields, NoNc, Gone, ProcessInv, Alive, Disjoint
<1>21. ASSUME NEW a \in Apps, StreamFails(a) PROVE ProcessInv'
  BY <1>21, TransferInv DEF StreamFails, Up, Close, Keep, local, TransferInv, ShapeInv,
     NcFields, NoNc, Gone, console, bounds, ProcessInv, Alive, Disjoint
<1>22. ASSUME NEW a \in Apps, Finish(a) PROVE ProcessInv'
  BY <1>22, TransferInv DEF Finish, Writing, Keep, console, bounds, local, TransferInv,
     ShapeInv, NcFields, NoNc, Gone, ProcessInv, Alive, Disjoint
<1>23. ASSUME NEW a \in Apps, FinishTimeout(a) PROVE ProcessInv'
  BY <1>23, TransferInv DEF FinishTimeout, Slow, Keep, console, local, TransferInv, ShapeInv,
     NcFields, NoNc, Gone, bounds, ProcessInv, Alive, Disjoint
<1>24. ASSUME NEW a \in Apps, Sha1(a) PROVE ProcessInv'
  BY <1>24, TransferInv DEF Sha1, Up, Keep, console, bounds, local, TransferInv, ShapeInv,
     NcFields, NoNc, Gone, ProcessInv, Alive, Disjoint
<1>25. ASSUME NEW a \in Apps, Cancel(a) PROVE ProcessInv'
  <2>1. ShapeInv BY TransferInv DEF TransferInv
  <2>2. \A u \in Tokens : Alive(u)' =>
          /\ Alive(u) /\ nc'[u].pos \in Nat
          /\ nc'[u].last = 0 \/ (nc'[u].last = nc[u].last /\ nc'[u].pos >= nc[u].pos)
    BY <1>25, <2>1 DEF Cancel, ShapeInv, NcFields, NoNc, Gone, Alive
  <2>3. QED BY <1>25, <2>2, TransferInv, ProcessKept DEF Cancel, Keep
<1>26. ASSUME NEW a \in Apps, Join(a) PROVE ProcessInv'
  BY <1>26, TransferInv DEF Join, Keep, console, bounds, local, TransferInv, ShapeInv,
     NcFields, NoNc, Gone, ProcessInv, Alive, Disjoint
<1>27. ASSUME NEW a \in Apps, Release(a) PROVE ProcessInv'
  BY <1>27, TransferInv DEF Release, Up, Owns, Keep, bounds, local, LockOf, TransferInv,
     ShapeInv, NcFields, NoNc, Gone, console, ProcessInv, Alive, Disjoint
<1>28. ASSUME NEW a \in Apps, SshFails(a) PROVE ProcessInv'
  BY <1>28, TransferInv DEF SshFails, Remote, Up, OnError, Keep, console, local, TransferInv,
     ShapeInv, NcFields, NoNc, Gone, bounds, ProcessInv, Alive, Disjoint
<1>29. ASSUME NEW a \in Apps, RestoreEnds(a) PROVE ProcessInv'
  BY <1>29, TransferInv DEF RestoreEnds, Writing, local, console, bounds, TransferInv,
     ShapeInv, NcFields, NoNc, Gone, ProcessInv, Alive, Disjoint
<1>30. ASSUME NEW a \in Apps, DumpEnds(a) PROVE ProcessInv'
  BY <1>30, TransferInv DEF DumpEnds, Persist, console, bounds, TransferInv, ShapeInv,
     NcFields, NoNc, Gone, local, ProcessInv, Alive, Disjoint
<1>31. ASSUME NEW a \in Apps, BackupEnds(a) PROVE ProcessInv'
  BY <1>31, TransferInv DEF BackupEnds, Persist, console, bounds, TransferInv, ShapeInv,
     NcFields, NoNc, Gone, local, ProcessInv, Alive, Disjoint
<1>32. ASSUME NEW a \in Apps, Manifest(a) PROVE ProcessInv'
  BY <1>32, TransferInv DEF Manifest, console, bounds, TransferInv, ShapeInv, NcFields, NoNc,
     Gone, local, ProcessInv, Alive, Disjoint
<1>33. ASSUME NEW a \in Apps, WorkerStart(a) PROVE ProcessInv'
  <2>1. ShapeInv BY TransferInv DEF TransferInv
  <2> DEFINE t == op[a].t
  <2>2. /\ \A u \in Tokens : u # t => nc'[u] = nc[u] /\ shell'[u] = shell[u]
        /\ t \in Tokens => nc'[t].pos = Area(op[a].id)[1] /\ nc'[t].last = Area(op[a].id)[2]
    BY <1>33, <2>1 DEF WorkerStart, ShapeInv, NcFields, NoNc
  <2>3. Up /\ QuietTarget(op[a].id) /\ op[a].id \in Ids /\ mounted \subseteq Parts
    BY <1>33, TransferInv DEF WorkerStart, TransferInv, ShapeInv, TargetInv, Past, Serving
  <2>4. system = "ram" BY <2>3 DEF QuietTarget
  <2>5. UNCHANGED <<system, mounted>> BY <1>33 DEF WorkerStart, Keep
  <2>6. \A p \in mounted : Layout[p][2] < Area(op[a].id)[1] \/ Area(op[a].id)[2] < Layout[p][1]
    BY <2>3, AreaDisjoint
  <2> HIDE DEF t
  <2>7. QED BY <2>2, <2>4, <2>5, <2>6, TransferInv DEF TransferInv, ProcessInv, Alive, Disjoint
<1>34. ASSUME NEW a \in Apps, WorkerEnds(a) PROVE ProcessInv'
  BY <1>34, TransferInv DEF WorkerEnds, Keep, console, bounds, local, TransferInv, ShapeInv,
     NcFields, NoNc, Gone, ProcessInv, Alive, Disjoint
<1>35. ASSUME NEW a \in Apps, WorkerLost(a) PROVE ProcessInv'
  BY <1>35, TransferInv DEF WorkerLost, Up, Keep, console, local, TransferInv, ShapeInv,
     NcFields, NoNc, Gone, bounds, ProcessInv, Alive, Disjoint
<1>36. ASSUME NEW a \in Apps, AcquireLost(a) PROVE ProcessInv'
  BY <1>36, TransferInv DEF AcquireLost, Up, Keep, local, TransferInv, ShapeInv, NcFields,
     NoNc, Gone, console, bounds, ProcessInv, Alive, Disjoint
<1>37. ASSUME NEW t \in Tokens, ShellTest(t) PROVE ProcessInv'
  <2>1. ShapeInv BY TransferInv DEF TransferInv
  <2>2. ASSUME Trap(t)
        PROVE  \A u \in Tokens : Alive(u)' =>
          /\ Alive(u) /\ nc'[u].pos \in Nat
          /\ nc'[u].last = 0 \/ (nc'[u].last = nc[u].last /\ nc'[u].pos >= nc[u].pos)
    <3>1. \A u \in Tokens : u # t => nc'[u] = nc[u] /\ shell'[u] = shell[u]
      BY <2>1, <2>2, TrapEffect
    <3>2. nc'[t].state = "gone" /\ shell'[t] = "done" BY <2>1, <2>2, TrapEffect
    <3>3. QED BY <2>1, <3>1, <3>2 DEF ShapeInv, Alive
  <2>3. ASSUME ~Trap(t)
        PROVE  \A u \in Tokens : Alive(u)' =>
          /\ Alive(u) /\ nc'[u].pos \in Nat
          /\ nc'[u].last = 0 \/ (nc'[u].last = nc[u].last /\ nc'[u].pos >= nc[u].pos)
    <3>1. /\ \A u \in Tokens : u # t => nc'[u] = nc[u] /\ shell'[u] = shell[u]
          /\ Alive(t)
      BY <1>37, <2>1, <2>3 DEF ShellTest, Step, ShapeInv, Alive
    <3>2. nc'[t].last = 0 \/ (nc'[t].last = nc[t].last /\ nc'[t].pos = nc[t].pos)
      BY <1>37, <2>1, <2>3 DEF ShellTest, Step, ShapeInv, NoNc, Gone, NcFields
    <3>3. nc'[t].pos \in Nat /\ nc[t].pos \in Nat
      BY <1>37, <2>1, <2>3 DEF ShellTest, Step, ShapeInv, NoNc, Gone, NcFields
    <3>4. \A u \in Tokens : u # t => nc[u].pos \in Nat /\ (Alive(u)' <=> Alive(u))
      BY <2>1, <3>1 DEF ShapeInv, Alive
    <3>5. QED BY <3>1, <3>2, <3>3, <3>4
  <2>4. QED BY <1>37, <2>2, <2>3, TransferInv, ProcessKept DEF ShellTest, Quiet
<1>38. ASSUME NEW t \in Tokens, ShellPid(t) PROVE ProcessInv'
  <2>1. ShapeInv BY TransferInv DEF TransferInv
  <2>2. ASSUME Trap(t)
        PROVE  \A u \in Tokens : Alive(u)' =>
          /\ Alive(u) /\ nc'[u].pos \in Nat
          /\ nc'[u].last = 0 \/ (nc'[u].last = nc[u].last /\ nc'[u].pos >= nc[u].pos)
    <3>1. \A u \in Tokens : u # t => nc'[u] = nc[u] /\ shell'[u] = shell[u]
      BY <2>1, <2>2, TrapEffect
    <3>2. nc'[t].state = "gone" /\ shell'[t] = "done" BY <2>1, <2>2, TrapEffect
    <3>3. QED BY <2>1, <3>1, <3>2 DEF ShapeInv, Alive
  <2>3. ASSUME ~Trap(t)
        PROVE  \A u \in Tokens : Alive(u)' =>
          /\ Alive(u) /\ nc'[u].pos \in Nat
          /\ nc'[u].last = 0 \/ (nc'[u].last = nc[u].last /\ nc'[u].pos >= nc[u].pos)
    <3>1. /\ \A u \in Tokens : u # t => nc'[u] = nc[u] /\ shell'[u] = shell[u]
          /\ Alive(t)
      BY <1>38, <2>1, <2>3 DEF ShellPid, Step, ShapeInv, Alive
    <3>2. nc'[t].last = 0 \/ (nc'[t].last = nc[t].last /\ nc'[t].pos = nc[t].pos)
      BY <1>38, <2>1, <2>3 DEF ShellPid, Step, ShapeInv, NoNc, Gone, NcFields
    <3>3. nc'[t].pos \in Nat /\ nc[t].pos \in Nat
      BY <1>38, <2>1, <2>3 DEF ShellPid, Step, ShapeInv, NoNc, Gone, NcFields
    <3>4. \A u \in Tokens : u # t => nc[u].pos \in Nat /\ (Alive(u)' <=> Alive(u))
      BY <2>1, <3>1 DEF ShapeInv, Alive
    <3>5. QED BY <3>1, <3>2, <3>3, <3>4
  <2>4. QED BY <1>38, <2>2, <2>3, TransferInv, ProcessKept DEF ShellPid, Quiet
<1>39. ASSUME NEW t \in Tokens, ShellWait(t) PROVE ProcessInv'
  BY <1>39, TransferInv DEF ShellWait, Quiet, Trap, Gone, NoNc, local, bounds, TransferInv,
     ShapeInv, NcFields, console, ProcessInv, Alive, Disjoint
<1>40. ASSUME NEW t \in Tokens, NcListen(t) PROVE ProcessInv'
  <2>1. ShapeInv BY TransferInv DEF TransferInv
  <2>2. \A u \in Tokens : Alive(u)' =>
          /\ Alive(u) /\ nc'[u].pos \in Nat
          /\ nc'[u].last = 0 \/ (nc'[u].last = nc[u].last /\ nc'[u].pos >= nc[u].pos)
    BY <1>40, <2>1 DEF NcListen, ShapeInv, NcFields, NoNc, Gone, Alive, Quiet, Listening
  <2>3. QED BY <1>40, <2>2, TransferInv, ProcessKept DEF NcListen, Quiet
<1>41. ASSUME NEW t \in Tokens, NcWrite(t) PROVE ProcessInv'
  BY <1>41, TransferInv DEF NcWrite, local, bounds, TransferInv, ShapeInv, NcFields, NoNc,
     Gone, console, ProcessInv, Alive, Disjoint
<1>42. ASSUME NEW t \in Tokens, NcEnd(t) PROVE ProcessInv'
  BY <1>42, TransferInv DEF NcEnd, Quiet, local, bounds, TransferInv, ShapeInv, NcFields, NoNc,
     Gone, console, ProcessInv, Alive, Disjoint
<1>43. ASSUME NEW f \in Archives, ChangeFile(f) PROVE ProcessInv'
  BY <1>43, TransferInv DEF ChangeFile, console, TransferInv, ShapeInv, NcFields, NoNc, Gone,
     local, bounds, ProcessInv, Alive, Disjoint
<1>44. ASSUME ConsoleStops PROVE ProcessInv'
  BY <1>44, TransferInv DEF ConsoleStops, Up, NoNc, local, TransferInv, ShapeInv, NcFields,
     Gone, console, bounds, ProcessInv, Alive, Disjoint
<1>45. ASSUME ConsoleStarts PROVE ProcessInv'
  BY <1>45, TransferInv DEF ConsoleStarts, local, console, bounds, TransferInv, ShapeInv,
     NcFields, NoNc, Gone, ProcessInv, Alive, Disjoint
<1>46. ASSUME NEW a \in Apps, RecheckFails(a) PROVE ProcessInv'
  BY <1>46, TransferInv DEF RecheckFails, Slow, Keep, console, local, TransferInv, ShapeInv,
     NcFields, NoNc, Gone, bounds, ProcessInv, Alive, Disjoint
<1>47. QED BY <1>1, <1>2, <1>3, <1>4, <1>5, <1>6, <1>7, <1>8, <1>9, <1>10, <1>11, <1>12, <1>13,
   <1>14, <1>15, <1>16, <1>17, <1>18, <1>19, <1>20, <1>21, <1>22, <1>23, <1>24, <1>25, <1>26,
   <1>27, <1>28, <1>29, <1>30, <1>31, <1>32, <1>33, <1>34, <1>35, <1>36, <1>37, <1>38, <1>39,
   <1>40, <1>41, <1>42, <1>43, <1>44, <1>45, <1>46 DEF Next, UserStep, HostStep, ReleaseOp,
   WorkerStep, ShellStep, NcStep

\* A restore works on what the user confirmed, whatever happens to the file.
LEMMA RestoreStep ==
  ASSUME TransferInv, Next
  PROVE  RestoreInv'
<1>1. ASSUME NEW a \in Apps, NEW c \in Choices, Prepare(a, c) PROVE RestoreInv'
  <2>1. ShapeInv /\ RestoreInv BY TransferInv DEF TransferInv
  <2>2. Begin(a, "prepare", "stage", c.id, <<>>, <<>>, c) BY <1>1 DEF Prepare
  <2> HIDE DEF Begin
  <2>3. Others(a) /\ op'[a].kind = "prepare" BY <2>1, <2>2, BeginEffect
  <2>4. QED BY <1>1, <2>1, <2>3 DEF Prepare, Others, RestoreInv, Writing, console, local, bounds
<1>2. ASSUME NEW a \in Apps, NEW c \in Choices, RestoreImage(a, c) PROVE RestoreInv'
  <2>1. ShapeInv /\ RestoreInv BY TransferInv DEF TransferInv
  <2>2. PICK m : Begin(a, "restore", "preflight", c.id, <<>>, m.data, [id |-> c.id,
          data |-> m.data])
    BY <1>2 DEF RestoreImage
  <2>3. Others(a) /\ op'[a].kind = "restore" /\ op'[a].id = c.id /\ op'[a].data = m.data
        /\ op'[a].confirmed = [id |-> c.id, data |-> m.data] BY <2>1, <2>2, BeginEffect
  <2>4. QED BY <1>2, <2>1, <2>3
            DEF RestoreImage, Others, RestoreInv, Writing, console, local, bounds
<1>3. ASSUME NEW a \in Apps, CancelRestore(a) PROVE RestoreInv'
  BY <1>3, TransferInv DEF CancelRestore, console, bounds, TransferInv, ShapeInv, OpFields,
     Idle, RestoreInv, Writing, local
<1>4. ASSUME NEW a \in Apps, Restore(a) PROVE RestoreInv'
  <2>1. ShapeInv /\ RestoreInv BY TransferInv DEF TransferInv
  <2>2. Begin(a, "restore", "inspect", preview[a].id, <<>>, RestoreData(a), preview[a])
    BY <1>4 DEF Restore
  <2> HIDE DEF Begin
  <2>3. Others(a) /\ op'[a].kind = "restore" /\ op'[a].id = preview[a].id
          /\ op'[a].data = RestoreData(a) /\ op'[a].confirmed = preview[a]
    BY <2>1, <2>2, BeginEffect
  <2>4. QED BY <1>4, <2>1, <2>3
            DEF Restore, RestoreData, Others, RestoreInv, Writing, console, local, bounds
<1>5. ASSUME NEW a \in Apps, NEW ids \in Batches, Backup(a, ids) PROVE RestoreInv'
  <2>1. ShapeInv /\ RestoreInv BY TransferInv DEF TransferInv
  <2>2. Begin(a, "backup", "inspect", Head(ids), ids, <<>>, ids) BY <1>5 DEF Backup
  <2> HIDE DEF Begin
  <2>3. Others(a) /\ op'[a].kind = "backup" BY <2>1, <2>2, BeginEffect
  <2>4. QED BY <1>5, <2>1, <2>3 DEF Backup, Others, RestoreInv, Writing, console, local, bounds
<1>6. ASSUME NEW a \in Apps, NEW ids \in Batches, Dump(a, ids) PROVE RestoreInv'
  <2>1. ShapeInv /\ RestoreInv BY TransferInv DEF TransferInv
  <2>2. Begin(a, "dump", "name", Head(ids), ids, <<>>, None) BY <1>6 DEF Dump
  <2> HIDE DEF Begin
  <2>3. Others(a) /\ op'[a].kind = "dump" BY <2>1, <2>2, BeginEffect
  <2>4. QED BY <1>6, <2>1, <2>3 DEF Dump, Others, RestoreInv, Writing, console, local, bounds
<1>7. ASSUME NEW a \in Apps, Stage(a) PROVE RestoreInv'
  <2>1. ShapeInv /\ RestoreInv BY TransferInv DEF TransferInv
  <2>2. Others(a) /\ op'[a].kind = "none" BY <1>7, <2>1, EndEffect DEF Stage
  <2>3. QED BY <1>7, <2>1, <2>2 DEF Stage, Others, RestoreInv, Writing, console, local, bounds
<1>8. ASSUME NEW a \in Apps, StageFails(a) PROVE RestoreInv'
  <2>1. ShapeInv /\ RestoreInv BY TransferInv DEF TransferInv
  <2>2. Others(a) /\ op'[a].kind = "none" BY <1>8, <2>1, EndEffect DEF StageFails
  <2>3. QED BY <1>8, <2>1, <2>2 DEF StageFails, Others, RestoreInv, Writing, console, local, bounds
<1>9. ASSUME NEW a \in Apps, RequireRecovery(a) PROVE RestoreInv'
  <2>1. ShapeInv /\ RestoreInv BY TransferInv DEF TransferInv
  <2>2. CASE End(a)
    <3>1. Others(a) /\ op'[a].kind = "none" BY <2>1, <2>2, EndEffect
    <3>2. QED BY <1>9, <2>1, <2>2, <3>1
              DEF RequireRecovery, Others, Persist, RestoreInv, Writing, console, local, bounds
  <2>3. CASE Go(a, "preflight")
    <3>1. Others(a) /\ op'[a].kind = op[a].kind /\ op'[a].id = op[a].id /\ op'[a].data = op[a].data
        /\ op'[a].confirmed = op[a].confirmed BY <2>1, <2>3, GoEffect
    <3>2. QED BY <1>9, <2>1, <2>3, <3>1
              DEF RequireRecovery, Others, Persist, RestoreInv, Writing, console, local, bounds
  <2>4. QED BY <1>9, <2>2, <2>3 DEF RequireRecovery
<1>10. ASSUME NEW a \in Apps, Name(a) PROVE RestoreInv'
  BY <1>10, TransferInv DEF Name, Go, local, console, bounds, TransferInv, ShapeInv, OpFields,
     Idle, RestoreInv, Writing
<1>11. ASSUME NEW a \in Apps, Preflight(a) PROVE RestoreInv'
  BY <1>11, TransferInv DEF Preflight, Up, Go, Keep, console, bounds, local, TransferInv,
     ShapeInv, OpFields, Idle, RestoreInv, Writing
<1>12. ASSUME NEW a \in Apps, Acquire(a) PROVE RestoreInv'
  BY <1>12, TransferInv DEF Acquire, Up, Go, Keep, local, TransferInv, ShapeInv, OpFields,
     Idle, RestoreInv, Writing, console, bounds
<1>13. ASSUME NEW a \in Apps, AcquireNoMore(a) PROVE RestoreInv'
  BY <1>13, TransferInv DEF AcquireNoMore, Up, Go, Keep, console, bounds, local, TransferInv,
     ShapeInv, OpFields, Idle, RestoreInv, Writing
<1>14. ASSUME NEW a \in Apps, ReadyCheck(a) PROVE RestoreInv'
  BY <1>14, TransferInv DEF ReadyCheck, Up, Go, LockOf, Keep, console, bounds, local,
     TransferInv, ShapeInv, OpFields, Idle, RestoreInv, Writing
<1>15. ASSUME NEW a \in Apps, ReadyTimeout(a) PROVE RestoreInv'
  BY <1>15, TransferInv DEF ReadyTimeout, Go, Slow, Keep, console, local, TransferInv,
     ShapeInv, OpFields, Idle, RestoreInv, Writing, bounds
<1>16. ASSUME NEW a \in Apps, Connect(a) PROVE RestoreInv'
  BY <1>16, TransferInv DEF Connect, Up, Go, Keep, bounds, local, TransferInv, ShapeInv,
     OpFields, Idle, RestoreInv, Writing, console
<1>17. ASSUME NEW a \in Apps, Send(a) PROVE RestoreInv'
  BY <1>17, TransferInv DEF Send, Writing, Up, Conn, Keep, bounds, local, TransferInv,
     ShapeInv, OpFields, Idle, RestoreInv, console
<1>18. ASSUME NEW a \in Apps, SendEnd(a) PROVE RestoreInv'
  BY <1>18, TransferInv DEF SendEnd, Writing, Close, Go, Keep, bounds, local, TransferInv,
     ShapeInv, OpFields, Idle, RestoreInv, console
<1>19. ASSUME NEW a \in Apps, Receive(a) PROVE RestoreInv'
  BY <1>19, TransferInv DEF Receive, Writing, Up, Conn, Close, Go, Keep, bounds, local,
     TransferInv, ShapeInv, OpFields, Idle, RestoreInv, console
<1>20. ASSUME NEW a \in Apps, ReceiveEnd(a) PROVE RestoreInv'
  BY <1>20, TransferInv DEF ReceiveEnd, Writing, Conn, Go, Keep, console, bounds, local,
     TransferInv, ShapeInv, OpFields, Idle, RestoreInv
<1>21. ASSUME NEW a \in Apps, StreamFails(a) PROVE RestoreInv'
  BY <1>21, TransferInv DEF StreamFails, Up, Close, Go, Keep, local, TransferInv, ShapeInv,
     OpFields, Idle, RestoreInv, Writing, console, bounds
<1>22. ASSUME NEW a \in Apps, Finish(a) PROVE RestoreInv'
  BY <1>22, TransferInv DEF Finish, Writing, Keep, console, bounds, local, TransferInv,
     ShapeInv, OpFields, Idle, RestoreInv
<1>23. ASSUME NEW a \in Apps, FinishTimeout(a) PROVE RestoreInv'
  BY <1>23, TransferInv DEF FinishTimeout, Slow, Go, Keep, console, local, TransferInv,
     ShapeInv, OpFields, Idle, RestoreInv, Writing, bounds
<1>24. ASSUME NEW a \in Apps, Sha1(a) PROVE RestoreInv'
  BY <1>24, TransferInv DEF Sha1, Up, Keep, console, bounds, local, TransferInv, ShapeInv,
     OpFields, Idle, RestoreInv, Writing
<1>25. ASSUME NEW a \in Apps, Cancel(a) PROVE RestoreInv'
  BY <1>25, TransferInv DEF Cancel, Up, LockOf, Gone, Go, Keep, bounds, local, NoNc,
     TransferInv, ShapeInv, OpFields, Idle, RestoreInv, Writing, console
<1>26. ASSUME NEW a \in Apps, Join(a) PROVE RestoreInv'
  BY <1>26, TransferInv DEF Join, Keep, console, bounds, local, TransferInv, ShapeInv,
     OpFields, Idle, RestoreInv, Writing
<1>27. ASSUME NEW a \in Apps, Release(a) PROVE RestoreInv'
  BY <1>27, TransferInv DEF Release, Up, Owns, Go, Keep, bounds, local, LockOf, TransferInv,
     ShapeInv, OpFields, Idle, RestoreInv, Writing, console
<1>28. ASSUME NEW a \in Apps, SshFails(a) PROVE RestoreInv'
  BY <1>28, TransferInv DEF SshFails, Remote, Up, Go, OnError, Keep, console, local,
     TransferInv, ShapeInv, OpFields, Idle, RestoreInv, Writing, bounds
<1>29. ASSUME NEW a \in Apps, RestoreEnds(a) PROVE RestoreInv'
  <2>1. ShapeInv /\ RestoreInv BY TransferInv DEF TransferInv
  <2>2. Others(a) /\ op'[a].kind = "none" BY <1>29, <2>1, EndEffect DEF RestoreEnds
  <2>3. QED BY <1>29, <2>1, <2>2
            DEF RestoreEnds, Others, RestoreInv, Writing, console, local, bounds
<1>30. ASSUME NEW a \in Apps, DumpEnds(a) PROVE RestoreInv'
  <2>1. ShapeInv /\ RestoreInv BY TransferInv DEF TransferInv
  <2>2. CASE End(a)
    <3>1. Others(a) /\ op'[a].kind = "none" BY <2>1, <2>2, EndEffect
    <3>2. QED BY <1>30, <2>1, <2>2, <3>1
              DEF DumpEnds, Others, Persist, RestoreInv, Writing, console, local, bounds
  <2>3. CASE NextTransfer(a)
    <3>1. Others(a) /\ op'[a].kind = op[a].kind BY <2>1, <2>3, NextEffect
    <3>2. QED BY <1>30, <2>1, <2>3, <3>1
              DEF DumpEnds, Others, Persist, RestoreInv, Writing, console, local, bounds
  <2>4. QED BY <1>30, <2>2, <2>3 DEF DumpEnds
<1>31. ASSUME NEW a \in Apps, BackupEnds(a) PROVE RestoreInv'
  <2>1. ShapeInv /\ RestoreInv BY TransferInv DEF TransferInv
  <2>2. CASE End(a)
    <3>1. Others(a) /\ op'[a].kind = "none" BY <2>1, <2>2, EndEffect
    <3>2. QED BY <1>31, <2>1, <2>2, <3>1
              DEF BackupEnds, Others, Persist, RestoreInv, Writing, console, local, bounds
  <2>3. CASE NextTransfer(a)
    <3>1. Others(a) /\ op'[a].kind = op[a].kind BY <2>1, <2>3, NextEffect
    <3>2. QED BY <1>31, <2>1, <2>3, <3>1
              DEF BackupEnds, Others, Persist, RestoreInv, Writing, console, local, bounds
  <2>4. CASE Go(a, "manifest")
    <3>1. Others(a) /\ op'[a].kind = op[a].kind /\ op'[a].id = op[a].id /\ op'[a].data = op[a].data
        /\ op'[a].confirmed = op[a].confirmed BY <2>1, <2>4, GoEffect
    <3>2. QED BY <1>31, <2>1, <2>4, <3>1
              DEF BackupEnds, Others, Persist, RestoreInv, Writing, console, local, bounds
  <2>5. QED BY <1>31, <2>2, <2>3, <2>4 DEF BackupEnds
<1>32. ASSUME NEW a \in Apps, Manifest(a) PROVE RestoreInv'
  <2>1. ShapeInv /\ RestoreInv BY TransferInv DEF TransferInv
  <2>2. Others(a) /\ op'[a].kind = "none" BY <1>32, <2>1, EndEffect DEF Manifest
  <2>3. QED BY <1>32, <2>1, <2>2 DEF Manifest, Others, RestoreInv, Writing, console, local, bounds
<1>33. ASSUME NEW a \in Apps, WorkerStart(a) PROVE RestoreInv'
  BY <1>33, TransferInv DEF WorkerStart, Up, Writing, Area, Keep, bounds, local, TransferInv,
     ShapeInv, OpFields, Idle, RestoreInv, console
<1>34. ASSUME NEW a \in Apps, WorkerEnds(a) PROVE RestoreInv'
  BY <1>34, TransferInv DEF WorkerEnds, Keep, console, bounds, local, TransferInv, ShapeInv,
     OpFields, Idle, RestoreInv, Writing
<1>35. ASSUME NEW a \in Apps, WorkerLost(a) PROVE RestoreInv'
  BY <1>35, TransferInv DEF WorkerLost, Up, Keep, console, local, TransferInv, ShapeInv,
     OpFields, Idle, RestoreInv, Writing, bounds
<1>36. ASSUME NEW a \in Apps, AcquireLost(a) PROVE RestoreInv'
  BY <1>36, TransferInv DEF AcquireLost, Up, Go, Keep, local, TransferInv, ShapeInv, OpFields,
     Idle, RestoreInv, Writing, console, bounds
<1>37. ASSUME NEW t \in Tokens, ShellTest(t) PROVE RestoreInv'
  BY <1>37, TransferInv DEF ShellTest, Quiet, LockOf, Step, Trap, Gone, NoNc, local, bounds,
     TransferInv, ShapeInv, OpFields, Idle, RestoreInv, Writing, console
<1>38. ASSUME NEW t \in Tokens, ShellPid(t) PROVE RestoreInv'
  BY <1>38, TransferInv DEF ShellPid, Quiet, Trap, Step, Gone, NoNc, local, bounds,
     TransferInv, ShapeInv, OpFields, Idle, RestoreInv, Writing, console
<1>39. ASSUME NEW t \in Tokens, ShellWait(t) PROVE RestoreInv'
  BY <1>39, TransferInv DEF ShellWait, Quiet, Trap, Gone, NoNc, local, bounds, TransferInv,
     ShapeInv, OpFields, Idle, RestoreInv, Writing, console
<1>40. ASSUME NEW t \in Tokens, NcListen(t) PROVE RestoreInv'
  BY <1>40, TransferInv DEF NcListen, Quiet, Gone, NoNc, local, bounds, TransferInv, ShapeInv,
     OpFields, Idle, RestoreInv, Writing, console
<1>41. ASSUME NEW t \in Tokens, NcWrite(t) PROVE RestoreInv'
  BY <1>41, TransferInv DEF NcWrite, local, bounds, TransferInv, ShapeInv, OpFields, Idle,
     RestoreInv, Writing, console
<1>42. ASSUME NEW t \in Tokens, NcEnd(t) PROVE RestoreInv'
  BY <1>42, TransferInv DEF NcEnd, Quiet, local, bounds, TransferInv, ShapeInv, OpFields, Idle,
     RestoreInv, Writing, console
<1>43. ASSUME NEW f \in Archives, ChangeFile(f) PROVE RestoreInv'
  BY <1>43, TransferInv DEF ChangeFile, console, TransferInv, ShapeInv, OpFields, Idle,
     RestoreInv, Writing, local, bounds
<1>44. ASSUME ConsoleStops PROVE RestoreInv'
  BY <1>44, TransferInv DEF ConsoleStops, Up, NoNc, local, TransferInv, ShapeInv, OpFields,
     Idle, RestoreInv, Writing, console, bounds
<1>45. ASSUME ConsoleStarts PROVE RestoreInv'
  BY <1>45, TransferInv DEF ConsoleStarts, local, console, bounds, TransferInv, ShapeInv,
     OpFields, Idle, RestoreInv, Writing
<1>46. ASSUME NEW a \in Apps, RecheckFails(a) PROVE RestoreInv'
  BY <1>46, TransferInv DEF RecheckFails, Go, Slow, Keep, console, local, TransferInv,
     ShapeInv, OpFields, Idle, RestoreInv, Writing, bounds
<1>47. QED BY <1>1, <1>2, <1>3, <1>4, <1>5, <1>6, <1>7, <1>8, <1>9, <1>10, <1>11, <1>12, <1>13,
   <1>14, <1>15, <1>16, <1>17, <1>18, <1>19, <1>20, <1>21, <1>22, <1>23, <1>24, <1>25, <1>26,
   <1>27, <1>28, <1>29, <1>30, <1>31, <1>32, <1>33, <1>34, <1>35, <1>36, <1>37, <1>38, <1>39,
   <1>40, <1>41, <1>42, <1>43, <1>44, <1>45, <1>46 DEF Next, UserStep, HostStep, ReleaseOp,
   WorkerStep, ShellStep, NcStep

\* What an operation has verified, its partition has held: who writes a block tells
\* every operation, and a digest is taken of the partition as it is.
LEMMA SeenStep ==
  ASSUME TransferInv, Next
  PROVE  SeenInv'
<1>1. ASSUME NEW a \in Apps, NEW c \in Choices, Prepare(a, c) PROVE SeenInv'
  <2>1. ShapeInv /\ SeenInv BY TransferInv DEF TransferInv
  <2>2. Begin(a, "prepare", "stage", c.id, <<>>, <<>>, c) BY <1>1 DEF Prepare
  <2> HIDE DEF Begin
  <2>3. Others(a) /\ op'[a].kind = "prepare" /\ op'[a].id = c.id /\ ~op'[a].ok
        /\ op'[a].seen = {Content(c.id)} BY <2>1, <2>2, BeginEffect
  <2>4. QED BY <1>1, <2>1, <2>3 DEF Prepare, Others, SeenInv, Content, console, local, bounds
<1>2. ASSUME NEW a \in Apps, NEW c \in Choices, RestoreImage(a, c) PROVE SeenInv'
  <2>1. ShapeInv /\ SeenInv BY TransferInv DEF TransferInv
  <2>2. PICK m : Begin(a, "restore", "preflight", c.id, <<>>, m.data, [id |-> c.id,
          data |-> m.data])
    BY <1>2 DEF RestoreImage
  <2>3. Others(a) /\ op'[a].kind = "restore" /\ op'[a].id = c.id /\ ~op'[a].ok
        /\ op'[a].seen = {Content(c.id)} BY <2>1, <2>2, BeginEffect
  <2>4. QED BY <1>2, <2>1, <2>3 DEF RestoreImage, Others, SeenInv, Content, console, local, bounds
<1>3. ASSUME NEW a \in Apps, CancelRestore(a) PROVE SeenInv'
  BY <1>3, TransferInv DEF CancelRestore, console, bounds, TransferInv, ShapeInv, OpFields,
     Idle, SeenInv, Content, local
<1>4. ASSUME NEW a \in Apps, Restore(a) PROVE SeenInv'
  <2>1. ShapeInv /\ SeenInv BY TransferInv DEF TransferInv
  <2>2. Begin(a, "restore", "inspect", preview[a].id, <<>>, RestoreData(a), preview[a])
    BY <1>4 DEF Restore
  <2> HIDE DEF Begin
  <2>3. Others(a) /\ op'[a].kind = "restore" /\ op'[a].id = preview[a].id /\ ~op'[a].ok
        /\ op'[a].seen = {Content(preview[a].id)} BY <2>1, <2>2, BeginEffect
  <2>4. QED BY <1>4, <2>1, <2>3 DEF Restore, Others, SeenInv, Content, console, local, bounds
<1>5. ASSUME NEW a \in Apps, NEW ids \in Batches, Backup(a, ids) PROVE SeenInv'
  <2>1. ShapeInv /\ SeenInv BY TransferInv DEF TransferInv
  <2>2. Begin(a, "backup", "inspect", Head(ids), ids, <<>>, ids) BY <1>5 DEF Backup
  <2> HIDE DEF Begin
  <2>3. Others(a) /\ op'[a].kind = "backup" /\ op'[a].id = Head(ids) /\ ~op'[a].ok
        /\ op'[a].seen = {Content(Head(ids))} BY <2>1, <2>2, BeginEffect
  <2>4. QED BY <1>5, <2>1, <2>3 DEF Backup, Others, SeenInv, Content, console, local, bounds
<1>6. ASSUME NEW a \in Apps, NEW ids \in Batches, Dump(a, ids) PROVE SeenInv'
  <2>1. ShapeInv /\ SeenInv BY TransferInv DEF TransferInv
  <2>2. Begin(a, "dump", "name", Head(ids), ids, <<>>, None) BY <1>6 DEF Dump
  <2> HIDE DEF Begin
  <2>3. Others(a) /\ op'[a].kind = "dump" /\ op'[a].id = Head(ids) /\ ~op'[a].ok
        /\ op'[a].seen = {Content(Head(ids))} BY <2>1, <2>2, BeginEffect
  <2>4. QED BY <1>6, <2>1, <2>3 DEF Dump, Others, SeenInv, Content, console, local, bounds
<1>7. ASSUME NEW a \in Apps, Stage(a) PROVE SeenInv'
  <2>1. ShapeInv /\ SeenInv BY TransferInv DEF TransferInv
  <2>2. Others(a) /\ op'[a].kind = "none" /\ op'[a].pc = "idle" /\ ~op'[a].ok
    BY <1>7, <2>1, EndEffect DEF Stage
  <2>3. QED BY <1>7, <2>1, <2>2 DEF Stage, Others, SeenInv, Content, console, local, bounds
<1>8. ASSUME NEW a \in Apps, StageFails(a) PROVE SeenInv'
  <2>1. ShapeInv /\ SeenInv BY TransferInv DEF TransferInv
  <2>2. Others(a) /\ op'[a].kind = "none" /\ op'[a].pc = "idle" /\ ~op'[a].ok
    BY <1>8, <2>1, EndEffect DEF StageFails
  <2>3. QED BY <1>8, <2>1, <2>2 DEF StageFails, Others, SeenInv, Content, console, local, bounds
<1>9. ASSUME NEW a \in Apps, RequireRecovery(a) PROVE SeenInv'
  <2>1. ShapeInv /\ SeenInv BY TransferInv DEF TransferInv
  <2>2. CASE End(a)
    <3>1. Others(a) /\ op'[a].kind = "none" /\ op'[a].pc = "idle" /\ ~op'[a].ok
      BY <2>1, <2>2, EndEffect
    <3>2. QED BY <1>9, <2>1, <2>2, <3>1
              DEF RequireRecovery, Others, Persist, SeenInv, Content, console, local, bounds
  <2>3. CASE Go(a, "preflight")
    <3>1. Others(a) /\ op'[a].kind = op[a].kind /\ op'[a].id = op[a].id /\ op'[a].data = op[a].data
        /\ (op'[a].ok <=> op[a].ok) /\ op'[a].pc = "preflight" /\ op'[a].seen = op[a].seen
          BY <2>1, <2>3, GoEffect
    <3>2. QED BY <1>9, <2>1, <2>3, <3>1
              DEF RequireRecovery, Others, Persist, SeenInv, Content, console, local, bounds
  <2>4. QED BY <1>9, <2>2, <2>3 DEF RequireRecovery
<1>10. ASSUME NEW a \in Apps, Name(a) PROVE SeenInv'
  BY <1>10, TransferInv DEF Name, Go, local, console, bounds, TransferInv, ShapeInv, OpFields,
     Idle, SeenInv, Content
<1>11. ASSUME NEW a \in Apps, Preflight(a) PROVE SeenInv'
  BY <1>11, TransferInv DEF Preflight, Up, Go, Keep, console, bounds, local, TransferInv,
     ShapeInv, OpFields, Idle, SeenInv, Content
<1>12. ASSUME NEW a \in Apps, Acquire(a) PROVE SeenInv'
  BY <1>12, TransferInv DEF Acquire, Up, Go, Keep, local, TransferInv, ShapeInv, OpFields,
     Idle, SeenInv, Content, console, bounds
<1>13. ASSUME NEW a \in Apps, AcquireNoMore(a) PROVE SeenInv'
  BY <1>13, TransferInv DEF AcquireNoMore, Up, Go, Keep, console, bounds, local, TransferInv,
     ShapeInv, OpFields, Idle, SeenInv, Content
<1>14. ASSUME NEW a \in Apps, ReadyCheck(a) PROVE SeenInv'
  BY <1>14, TransferInv DEF ReadyCheck, Up, Go, LockOf, Keep, console, bounds, local,
     TransferInv, ShapeInv, OpFields, Idle, SeenInv, Content
<1>15. ASSUME NEW a \in Apps, ReadyTimeout(a) PROVE SeenInv'
  BY <1>15, TransferInv DEF ReadyTimeout, Go, Slow, Keep, console, local, TransferInv,
     ShapeInv, OpFields, Idle, SeenInv, Content, bounds
<1>16. ASSUME NEW a \in Apps, Connect(a) PROVE SeenInv'
  BY <1>16, TransferInv DEF Connect, Up, Go, Keep, bounds, local, TransferInv, ShapeInv,
     OpFields, Idle, SeenInv, Content, console
<1>17. ASSUME NEW a \in Apps, Send(a) PROVE SeenInv'
  BY <1>17, TransferInv DEF Send, Writing, Up, Conn, Keep, bounds, local, TransferInv,
     ShapeInv, OpFields, Idle, SeenInv, Content, console
<1>18. ASSUME NEW a \in Apps, SendEnd(a) PROVE SeenInv'
  BY <1>18, TransferInv DEF SendEnd, Writing, Close, Go, Keep, bounds, local, TransferInv,
     ShapeInv, OpFields, Idle, SeenInv, Content, console
<1>19. ASSUME NEW a \in Apps, Receive(a) PROVE SeenInv'
  BY <1>19, TransferInv, SMTT(30) DEF Receive, Writing, Up, Conn, Close, Go, Keep, bounds, local,
     TransferInv, ShapeInv, OpFields, Idle, SeenInv, Content, console
<1>20. ASSUME NEW a \in Apps, ReceiveEnd(a) PROVE SeenInv'
  BY <1>20, TransferInv DEF ReceiveEnd, Writing, Conn, Go, Keep, console, bounds, local,
     TransferInv, ShapeInv, OpFields, Idle, SeenInv, Content
<1>21. ASSUME NEW a \in Apps, StreamFails(a) PROVE SeenInv'
  BY <1>21, TransferInv DEF StreamFails, Up, Close, Go, Keep, local, TransferInv, ShapeInv,
     OpFields, Idle, SeenInv, Content, console, bounds
<1>22. ASSUME NEW a \in Apps, Finish(a) PROVE SeenInv'
  BY <1>22, TransferInv DEF Finish, Writing, Keep, console, bounds, local, TransferInv,
     ShapeInv, OpFields, Idle, SeenInv, Content
<1>23. ASSUME NEW a \in Apps, FinishTimeout(a) PROVE SeenInv'
  BY <1>23, TransferInv DEF FinishTimeout, Slow, Go, Keep, console, local, TransferInv,
     ShapeInv, OpFields, Idle, SeenInv, Content, bounds
<1>24. ASSUME NEW a \in Apps, Sha1(a) PROVE SeenInv'
  BY <1>24, TransferInv DEF Sha1, Up, Keep, console, bounds, local, TransferInv, ShapeInv,
     OpFields, Idle, SeenInv, Content
<1>25. ASSUME NEW a \in Apps, Cancel(a) PROVE SeenInv'
  BY <1>25, TransferInv DEF Cancel, Up, LockOf, Gone, Go, Keep, bounds, local, NoNc,
     TransferInv, ShapeInv, OpFields, Idle, SeenInv, Content, console
<1>26. ASSUME NEW a \in Apps, Join(a) PROVE SeenInv'
  BY <1>26, TransferInv DEF Join, Keep, console, bounds, local, TransferInv, ShapeInv,
     OpFields, Idle, SeenInv, Content
<1>27. ASSUME NEW a \in Apps, Release(a) PROVE SeenInv'
  BY <1>27, TransferInv DEF Release, Up, Owns, Go, Keep, bounds, local, LockOf, TransferInv,
     ShapeInv, OpFields, Idle, SeenInv, Content, console
<1>28. ASSUME NEW a \in Apps, SshFails(a) PROVE SeenInv'
  BY <1>28, TransferInv DEF SshFails, Remote, Up, Go, OnError, Keep, console, local,
     TransferInv, ShapeInv, OpFields, Idle, SeenInv, Content, bounds
<1>29. ASSUME NEW a \in Apps, RestoreEnds(a) PROVE SeenInv'
  <2>1. ShapeInv /\ SeenInv BY TransferInv DEF TransferInv
  <2>2. Others(a) /\ op'[a].kind = "none" /\ op'[a].pc = "idle" /\ ~op'[a].ok
    BY <1>29, <2>1, EndEffect DEF RestoreEnds
  <2>3. QED BY <1>29, <2>1, <2>2 DEF RestoreEnds, Others, SeenInv, Content, console, local, bounds
<1>30. ASSUME NEW a \in Apps, DumpEnds(a) PROVE SeenInv'
  <2>1. ShapeInv /\ SeenInv BY TransferInv DEF TransferInv
  <2>2. CASE End(a)
    <3>1. Others(a) /\ op'[a].kind = "none" /\ op'[a].pc = "idle" /\ ~op'[a].ok
      BY <2>1, <2>2, EndEffect
    <3>2. QED BY <1>30, <2>1, <2>2, <3>1
              DEF DumpEnds, Others, Persist, SeenInv, Content, console, local, bounds
  <2>3. CASE NextTransfer(a)
    <3>1. Others(a) /\ op'[a].id = op[a].todo[2] /\ ~op'[a].ok /\ op'[a].kind = op[a].kind
        /\ op'[a].seen = {Content(op[a].todo[2])} BY <2>1, <2>3, NextEffect
    <3>2. QED BY <1>30, <2>1, <2>3, <3>1
              DEF DumpEnds, Others, Persist, SeenInv, Content, console, local, bounds
  <2>4. QED BY <1>30, <2>2, <2>3 DEF DumpEnds
<1>31. ASSUME NEW a \in Apps, BackupEnds(a) PROVE SeenInv'
  <2>1. ShapeInv /\ SeenInv BY TransferInv DEF TransferInv
  <2>2. CASE End(a)
    <3>1. Others(a) /\ op'[a].kind = "none" /\ op'[a].pc = "idle" /\ ~op'[a].ok
      BY <2>1, <2>2, EndEffect
    <3>2. QED BY <1>31, <2>1, <2>2, <3>1
              DEF BackupEnds, Others, Persist, SeenInv, Content, console, local, bounds
  <2>3. CASE NextTransfer(a)
    <3>1. Others(a) /\ op'[a].id = op[a].todo[2] /\ ~op'[a].ok /\ op'[a].kind = op[a].kind
        /\ op'[a].seen = {Content(op[a].todo[2])} BY <2>1, <2>3, NextEffect
    <3>2. QED BY <1>31, <2>1, <2>3, <3>1
              DEF BackupEnds, Others, Persist, SeenInv, Content, console, local, bounds
  <2>4. CASE Go(a, "manifest")
    <3>1. Others(a) /\ op'[a].kind = op[a].kind /\ op'[a].id = op[a].id /\ op'[a].data = op[a].data
        /\ (op'[a].ok <=> op[a].ok) /\ op'[a].pc = "manifest" /\ op'[a].seen = op[a].seen
          BY <2>1, <2>4, GoEffect
    <3>2. QED BY <1>31, <2>1, <2>4, <3>1
              DEF BackupEnds, Others, Persist, SeenInv, Content, console, local, bounds
  <2>5. QED BY <1>31, <2>2, <2>3, <2>4 DEF BackupEnds
<1>32. ASSUME NEW a \in Apps, Manifest(a) PROVE SeenInv'
  <2>1. ShapeInv /\ SeenInv BY TransferInv DEF TransferInv
  <2>2. Others(a) /\ op'[a].kind = "none" /\ op'[a].pc = "idle" /\ ~op'[a].ok
    BY <1>32, <2>1, EndEffect DEF Manifest
  <2>3. QED BY <1>32, <2>1, <2>2 DEF Manifest, Others, SeenInv, Content, console, local, bounds
<1>33. ASSUME NEW a \in Apps, WorkerStart(a) PROVE SeenInv'
  BY <1>33, TransferInv DEF WorkerStart, Up, Writing, Area, Keep, bounds, local, TransferInv,
     ShapeInv, OpFields, Idle, SeenInv, Content, console
<1>34. ASSUME NEW a \in Apps, WorkerEnds(a) PROVE SeenInv'
  BY <1>34, TransferInv DEF WorkerEnds, Keep, console, bounds, local, TransferInv, ShapeInv,
     OpFields, Idle, SeenInv, Content
<1>35. ASSUME NEW a \in Apps, WorkerLost(a) PROVE SeenInv'
  BY <1>35, TransferInv DEF WorkerLost, Up, Keep, console, local, TransferInv, ShapeInv,
     OpFields, Idle, SeenInv, Content, bounds
<1>36. ASSUME NEW a \in Apps, AcquireLost(a) PROVE SeenInv'
  BY <1>36, TransferInv DEF AcquireLost, Up, Go, Keep, local, TransferInv, ShapeInv, OpFields,
     Idle, SeenInv, Content, console, bounds
<1>37. ASSUME NEW t \in Tokens, ShellTest(t) PROVE SeenInv'
  BY <1>37, TransferInv DEF ShellTest, Quiet, LockOf, Step, Trap, Gone, NoNc, local, bounds,
     TransferInv, ShapeInv, OpFields, Idle, SeenInv, Content, console
<1>38. ASSUME NEW t \in Tokens, ShellPid(t) PROVE SeenInv'
  BY <1>38, TransferInv DEF ShellPid, Quiet, Trap, Step, Gone, NoNc, local, bounds,
     TransferInv, ShapeInv, OpFields, Idle, SeenInv, Content, console
<1>39. ASSUME NEW t \in Tokens, ShellWait(t) PROVE SeenInv'
  BY <1>39, TransferInv DEF ShellWait, Quiet, Trap, Gone, NoNc, local, bounds, TransferInv,
     ShapeInv, OpFields, Idle, SeenInv, Content, console
<1>40. ASSUME NEW t \in Tokens, NcListen(t) PROVE SeenInv'
  BY <1>40, TransferInv DEF NcListen, Quiet, Gone, NoNc, local, bounds, TransferInv, ShapeInv,
     OpFields, Idle, SeenInv, Content, console
<1>41. ASSUME NEW t \in Tokens, NcWrite(t) PROVE SeenInv'
  BY <1>41, TransferInv DEF NcWrite, local, bounds, TransferInv, ShapeInv, OpFields, Idle,
     SeenInv, Content, console
<1>42. ASSUME NEW t \in Tokens, NcEnd(t) PROVE SeenInv'
  BY <1>42, TransferInv DEF NcEnd, Quiet, local, bounds, TransferInv, ShapeInv, OpFields, Idle,
     SeenInv, Content, console
<1>43. ASSUME NEW f \in Archives, ChangeFile(f) PROVE SeenInv'
  BY <1>43, TransferInv DEF ChangeFile, console, TransferInv, ShapeInv, OpFields, Idle,
     SeenInv, Content, local, bounds
<1>44. ASSUME ConsoleStops PROVE SeenInv'
  BY <1>44, TransferInv DEF ConsoleStops, Up, NoNc, local, TransferInv, ShapeInv, OpFields,
     Idle, SeenInv, Content, console, bounds
<1>45. ASSUME ConsoleStarts PROVE SeenInv'
  BY <1>45, TransferInv DEF ConsoleStarts, local, console, bounds, TransferInv, ShapeInv,
     OpFields, Idle, SeenInv, Content
<1>46. ASSUME NEW a \in Apps, RecheckFails(a) PROVE SeenInv'
  BY <1>46, TransferInv DEF RecheckFails, Go, Slow, Keep, console, local, TransferInv,
     ShapeInv, OpFields, Idle, SeenInv, Content, bounds
<1>47. QED BY <1>1, <1>2, <1>3, <1>4, <1>5, <1>6, <1>7, <1>8, <1>9, <1>10, <1>11, <1>12, <1>13,
   <1>14, <1>15, <1>16, <1>17, <1>18, <1>19, <1>20, <1>21, <1>22, <1>23, <1>24, <1>25, <1>26,
   <1>27, <1>28, <1>29, <1>30, <1>31, <1>32, <1>33, <1>34, <1>35, <1>36, <1>37, <1>38, <1>39,
   <1>40, <1>41, <1>42, <1>43, <1>44, <1>45, <1>46 DEF Next, UserStep, HostStep, ReleaseOp,
   WorkerStep, ShellStep, NcStep

\* A file that is saved stays.
Grows == \A id \in Ids : folder[id] # None => folder'[id] = folder[id]

\* An operation that another one leaves alone.
LEMMA TodoOther ==
  ASSUME TransferInv, NEW b \in Apps, op'[b] = op[b], Grows
  PROVE  TodoOf(b)'
<1>1. TodoOf(b) /\ b # None BY AppsAssumption DEF TransferInv, TodoInv
<1>2. ASSUME op[b].kind = "backup", NEW i \in DOMAIN op[b].confirmed, folder[op[b].confirmed[i]] = b
      PROVE  folder'[op[b].confirmed[i]] = b
  <2>1. op[b].confirmed[i] \in Ids BY <1>1, <1>2 DEF TodoOf
  <2>2. QED BY <1>1, <1>2, <2>1 DEF Grows
<1>3. QED BY <1>1, <1>2 DEF TodoOf

\* An operation that goes on with the same work.
LEMMA TodoSame ==
  ASSUME TransferInv, Grows, NEW a \in Apps,
         \A b \in Apps : b # a => op'[b] = op[b],
         op'[a].kind = op[a].kind, op'[a].id = op[a].id, op'[a].todo = op[a].todo,
         op'[a].confirmed = op[a].confirmed,
         op'[a].pc # "manifest"
  PROVE  TodoInv'
<1>1. TodoOf(a) /\ a # None BY AppsAssumption DEF TransferInv, TodoInv
<1>2. ASSUME op[a].kind = "backup", NEW i \in DOMAIN op[a].confirmed, folder[op[a].confirmed[i]] = a
      PROVE  folder'[op[a].confirmed[i]] = a
  <2>1. op[a].confirmed[i] \in Ids BY <1>1, <1>2 DEF TodoOf
  <2>2. QED BY <1>1, <1>2, <2>1 DEF Grows
<1>3. TodoOf(a)' BY <1>1, <1>2 DEF TodoOf
<1>4. QED BY <1>3, TodoOther DEF TodoInv

\* The verified file gets its name.
LEMMA PersistGrows ==
  ASSUME ShapeInv, NEW a \in Apps, op[a].id \in Ids, Persists(a), Persist(a)
  PROVE  Grows /\ folder'[op[a].id] = a
BY DEF ShapeInv, Persists, Persist, Grows

\* The next transfer of an operation, or its end.
LEMMA TodoNext ==
  ASSUME TransferInv, Grows, NEW a \in Apps,
         op[a].kind \in {"backup", "dump"}, op[a].kind = "backup" => folder'[op[a].id] = a,
         NextTransfer(a) /\ Len(op[a].todo) > 1
  PROVE  TodoInv'
<1> DEFINE s == op[a].todo
<1>1. ShapeInv /\ TodoOf(a) /\ a # None BY AppsAssumption DEF TransferInv, TodoInv
<1>2. s \in Seq(Ids) /\ s # <<>> /\ op[a].id = s[1] BY <1>1 DEF TodoOf
<1>3. /\ s[2] \in Ids /\ Tail(s) \in Seq(Ids) /\ Tail(s) # <<>> /\ Tail(s)[1] = s[2]
      /\ \A j \in DOMAIN s : j = 1 \/ \E k \in DOMAIN Tail(s) : Tail(s)[k] = s[j]
  BY <1>2, TodoTyped
<1>4. /\ Others(a) /\ op'[a].kind = op[a].kind /\ op'[a].pc \in {"name", "preflight"}
      /\ op'[a].id = s[2] /\ op'[a].todo = Tail(s) /\ op'[a].confirmed = op[a].confirmed
  BY <1>1, NextEffect
<1> HIDE DEF s
<1>5. ASSUME op[a].kind = "backup", NEW i \in DOMAIN op[a].confirmed
      PROVE  \/ folder'[op[a].confirmed[i]] = a
             \/ \E k \in DOMAIN Tail(s) : Tail(s)[k] = op[a].confirmed[i]
  <2>1. op[a].confirmed[i] \in Ids BY <1>1, <1>5 DEF TodoOf
  <2>2. CASE folder[op[a].confirmed[i]] = a BY <1>1, <2>1, <2>2 DEF Grows
  <2>3. CASE \E j \in DOMAIN s : s[j] = op[a].confirmed[i]
    <3>1. PICK j \in DOMAIN s : s[j] = op[a].confirmed[i] BY <2>3
    <3>2. CASE j = 1 BY <1>2, <1>5, <3>1, <3>2
    <3>3. CASE j # 1 BY <1>3, <3>1, <3>3
    <3>4. QED BY <3>2, <3>3
  <2>4. QED BY <1>1, <1>5, <2>2, <2>3 DEF TodoOf, s
<1>6. TodoOf(a)'
  <2> DEFINE r == Tail(s)
  <2>1. r \in Seq(Ids) /\ r # <<>> /\ op'[a].id = r[1] /\ op'[a].todo = r BY <1>3, <1>4
  <2>2. op[a].kind = "backup" => a \in Editors /\ op[a].confirmed \in Seq(Ids) BY <1>1 DEF TodoOf
  <2>3. \A i \in DOMAIN op[a].confirmed : op[a].kind = "backup" =>
          folder'[op[a].confirmed[i]] = a \/ \E k \in DOMAIN r : r[k] = op[a].confirmed[i]
    BY <1>5
  <2> HIDE DEF r
  <2>4. QED BY <1>4, <2>1, <2>2, <2>3, ZenonT(60) DEF TodoOf
<1>7. QED BY <1>4, <1>6, TodoOther DEF TodoInv, Others


\* What is asked for is saved or still to do.
LEMMA TodoStep ==
  ASSUME TransferInv, Next
  PROVE  TodoInv'
<1>1. ASSUME NEW a \in Apps, NEW c \in Choices, Prepare(a, c) PROVE TodoInv'
  <2>1. TransferInv /\ ShapeInv BY TransferInv DEF TransferInv
  <2>2. Begin(a, "prepare", "stage", c.id, <<>>, <<>>, c) BY <1>1 DEF Prepare
  <2> HIDE DEF Begin
  <2>5. Others(a) /\ op'[a].kind = "prepare" /\ op'[a].pc = "stage"
    BY <2>1, <2>2, BeginEffect
  <2>6. Grows BY <1>1 DEF Prepare, Grows, local
  <2>7. TodoOf(a)' BY <1>1, <2>5 DEF Prepare, TodoOf
  <2>8. QED BY <2>1, <2>5, <2>6, <2>7, TodoOther DEF TodoInv, Others
<1>2. ASSUME NEW a \in Apps, NEW c \in Choices, RestoreImage(a, c) PROVE TodoInv'
  <2>1. TransferInv /\ ShapeInv BY TransferInv DEF TransferInv
  <2>2. PICK m : Begin(a, "restore", "preflight", c.id, <<>>, m.data, [id |-> c.id,
          data |-> m.data])
    BY <1>2 DEF RestoreImage
  <2>3. Others(a) /\ op'[a].kind = "restore" /\ op'[a].pc = "preflight" BY <2>1, <2>2, BeginEffect
  <2>4. Grows BY <1>2 DEF RestoreImage, Grows, local
  <2>5. TodoOf(a)' BY <2>3 DEF TodoOf
  <2>6. QED BY <2>1, <2>3, <2>4, <2>5, TodoOther DEF TodoInv, Others
<1>3. ASSUME NEW a \in Apps, CancelRestore(a) PROVE TodoInv'
  BY <1>3, TransferInv DEF CancelRestore, console, bounds, TransferInv, ShapeInv, OpFields,
     Idle, TodoInv, TodoOf
<1>4. ASSUME NEW a \in Apps, Restore(a) PROVE TodoInv'
  <2>1. TransferInv /\ ShapeInv BY TransferInv DEF TransferInv
  <2>2. Begin(a, "restore", "inspect", preview[a].id, <<>>, RestoreData(a), preview[a])
    BY <1>4 DEF Restore
  <2> HIDE DEF Begin
  <2>5. Others(a) /\ op'[a].kind = "restore" /\ op'[a].pc = "inspect"
    BY <2>1, <2>2, BeginEffect
  <2>6. Grows BY <1>4 DEF Restore, Grows, local
  <2>7. TodoOf(a)' BY <1>4, <2>5 DEF Restore, TodoOf
  <2>8. QED BY <2>1, <2>5, <2>6, <2>7, TodoOther DEF TodoInv, Others
<1>5. ASSUME NEW a \in Apps, NEW ids \in Batches, Backup(a, ids) PROVE TodoInv'
  <2>1. TransferInv /\ ShapeInv BY TransferInv DEF TransferInv
  <2>2. Begin(a, "backup", "inspect", Head(ids), ids, <<>>, ids) BY <1>5 DEF Backup
  <2> HIDE DEF Begin
  <2>4. ids \in Seq(Ids) /\ ids # <<>> BY BatchesAssumption DEF Ids
  <2>5. Others(a) /\ op'[a].kind = "backup" /\ op'[a].pc = "inspect" /\ op'[a].id = ids[1]
          /\ op'[a].todo = ids /\ op'[a].confirmed = ids
    BY <2>1, <2>2, <2>4, TodoTyped, BeginEffect
  <2>6. Grows BY <1>5 DEF Backup, Grows, local
  <2>7. TodoOf(a)' BY <1>5, <2>5, <2>4 DEF Backup, TodoOf
  <2>8. QED BY <2>1, <2>5, <2>6, <2>7, TodoOther DEF TodoInv, Others
<1>6. ASSUME NEW a \in Apps, NEW ids \in Batches, Dump(a, ids) PROVE TodoInv'
  <2>1. TransferInv /\ ShapeInv BY TransferInv DEF TransferInv
  <2>2. Begin(a, "dump", "name", Head(ids), ids, <<>>, None) BY <1>6 DEF Dump
  <2> HIDE DEF Begin
  <2>4. ids \in Seq(Ids) /\ ids # <<>> BY BatchesAssumption DEF Ids
  <2>5. Others(a) /\ op'[a].kind = "dump" /\ op'[a].pc = "name" /\ op'[a].id = ids[1]
          /\ op'[a].todo = ids /\ op'[a].confirmed = None
    BY <2>1, <2>2, <2>4, TodoTyped, BeginEffect
  <2>6. Grows BY <1>6 DEF Dump, Grows, local
  <2>7. TodoOf(a)' BY <1>6, <2>5, <2>4 DEF Dump, TodoOf
  <2>8. QED BY <2>1, <2>5, <2>6, <2>7, TodoOther DEF TodoInv, Others
<1>7. ASSUME NEW a \in Apps, Stage(a) PROVE TodoInv'
  <2>1. TransferInv /\ ShapeInv BY TransferInv DEF TransferInv
  <2>2. Others(a) /\ op'[a].kind = "none" /\ op'[a].pc = "idle" BY <1>7, <2>1, EndEffect DEF Stage
  <2>3. Grows BY <1>7 DEF Stage, Grows, local
  <2>4. TodoOf(a)' BY <2>2 DEF TodoOf
  <2>5. QED BY <2>1, <2>2, <2>3, <2>4, TodoOther DEF TodoInv, Others
<1>8. ASSUME NEW a \in Apps, StageFails(a) PROVE TodoInv'
  <2>1. TransferInv /\ ShapeInv BY TransferInv DEF TransferInv
  <2>2. Others(a) /\ op'[a].kind = "none" /\ op'[a].pc = "idle"
    BY <1>8, <2>1, EndEffect DEF StageFails
  <2>3. Grows BY <1>8 DEF StageFails, Grows, local
  <2>4. TodoOf(a)' BY <2>2 DEF TodoOf
  <2>5. QED BY <2>1, <2>2, <2>3, <2>4, TodoOther DEF TodoInv, Others
<1>9. ASSUME NEW a \in Apps, RequireRecovery(a) PROVE TodoInv'
  <2>1. TransferInv /\ ShapeInv BY TransferInv DEF TransferInv
  <2>2. Grows BY <1>9 DEF RequireRecovery, Grows, local
  <2>3. CASE End(a)
    <3>1. Others(a) /\ op'[a].kind = "none" /\ op'[a].pc = "idle" BY <2>1, <2>3, EndEffect
    <3>2. TodoOf(a)' BY <3>1 DEF TodoOf
    <3>3. QED BY <2>1, <2>2, <3>1, <3>2, TodoOther DEF TodoInv, Others
  <2>4. CASE Go(a, "preflight") BY <2>1, <2>2, <2>4, GoEffect, TodoSame DEF Others
  <2>5. QED BY <1>9, <2>3, <2>4 DEF RequireRecovery
<1>10. ASSUME NEW a \in Apps, Name(a) PROVE TodoInv'
  BY <1>10, TransferInv DEF Name, Go, local, console, bounds, TransferInv, ShapeInv, OpFields,
     Idle, TodoInv, TodoOf
<1>11. ASSUME NEW a \in Apps, Preflight(a) PROVE TodoInv'
  BY <1>11, TransferInv DEF Preflight, Up, Go, Keep, console, bounds, local, TransferInv,
     ShapeInv, OpFields, Idle, TodoInv, TodoOf
<1>12. ASSUME NEW a \in Apps, Acquire(a) PROVE TodoInv'
  BY <1>12, TransferInv, SMTT(30) DEF Acquire, Up, Go, Keep, local, TransferInv, ShapeInv, OpFields,
     Idle, TodoInv, TodoOf
<1>13. ASSUME NEW a \in Apps, AcquireNoMore(a) PROVE TodoInv'
  BY <1>13, TransferInv DEF AcquireNoMore, Up, Go, Keep, console, bounds, local, TransferInv,
     ShapeInv, OpFields, Idle, TodoInv, TodoOf
<1>14. ASSUME NEW a \in Apps, ReadyCheck(a) PROVE TodoInv'
  BY <1>14, TransferInv DEF ReadyCheck, Up, Go, LockOf, Keep, console, bounds, local,
     TransferInv, ShapeInv, OpFields, Idle, TodoInv, TodoOf
<1>15. ASSUME NEW a \in Apps, ReadyTimeout(a) PROVE TodoInv'
  BY <1>15, TransferInv DEF ReadyTimeout, Go, Slow, Keep, console, local, TransferInv,
     ShapeInv, OpFields, Idle, TodoInv, TodoOf
<1>16. ASSUME NEW a \in Apps, Connect(a) PROVE TodoInv'
  BY <1>16, TransferInv DEF Connect, Up, Go, Keep, bounds, local, TransferInv, ShapeInv,
     OpFields, Idle, TodoInv, TodoOf
<1>17. ASSUME NEW a \in Apps, Send(a) PROVE TodoInv'
  BY <1>17, TransferInv DEF Send, Writing, Up, Conn, Keep, bounds, local, TransferInv,
     ShapeInv, OpFields, Idle, TodoInv, TodoOf
<1>18. ASSUME NEW a \in Apps, SendEnd(a) PROVE TodoInv'
  BY <1>18, TransferInv DEF SendEnd, Writing, Close, Go, Keep, bounds, local, TransferInv,
     ShapeInv, OpFields, Idle, TodoInv, TodoOf
<1>19. ASSUME NEW a \in Apps, Receive(a) PROVE TodoInv'
  <2>1. /\ \A b \in Apps : b # a => op'[b] = op[b]
        /\ op'[a].kind = op[a].kind /\ op'[a].id = op[a].id /\ op'[a].todo = op[a].todo
        /\ op'[a].confirmed = op[a].confirmed /\ op'[a].pc \in {"stream", "cancel"}
    BY <1>19, TransferInv DEF Receive, Go, TransferInv, ShapeInv, OpFields, Idle
  <2>2. Grows BY <1>19 DEF Receive, Keep, Grows, local
  <2>3. QED BY <2>1, <2>2, TransferInv, TodoSame
<1>20. ASSUME NEW a \in Apps, ReceiveEnd(a) PROVE TodoInv'
  BY <1>20, TransferInv DEF ReceiveEnd, Writing, Conn, Go, Keep, console, bounds, local,
     TransferInv, ShapeInv, OpFields, Idle, TodoInv, TodoOf
<1>21. ASSUME NEW a \in Apps, StreamFails(a) PROVE TodoInv'
  BY <1>21, TransferInv DEF StreamFails, Up, Close, Go, Keep, local, TransferInv, ShapeInv,
     OpFields, Idle, TodoInv, TodoOf
<1>22. ASSUME NEW a \in Apps, Finish(a) PROVE TodoInv'
  BY <1>22, TransferInv DEF Finish, Writing, Keep, console, bounds, local, TransferInv,
     ShapeInv, OpFields, Idle, TodoInv, TodoOf
<1>23. ASSUME NEW a \in Apps, FinishTimeout(a) PROVE TodoInv'
  BY <1>23, TransferInv DEF FinishTimeout, Slow, Go, Keep, console, local, TransferInv,
     ShapeInv, OpFields, Idle, TodoInv, TodoOf
<1>24. ASSUME NEW a \in Apps, Sha1(a) PROVE TodoInv'
  BY <1>24, TransferInv DEF Sha1, Up, Keep, console, bounds, local, TransferInv, ShapeInv,
     OpFields, Idle, TodoInv, TodoOf
<1>25. ASSUME NEW a \in Apps, Cancel(a) PROVE TodoInv'
  BY <1>25, TransferInv DEF Cancel, Up, LockOf, Gone, Go, Keep, bounds, local, NoNc,
     TransferInv, ShapeInv, OpFields, Idle, TodoInv, TodoOf
<1>26. ASSUME NEW a \in Apps, Join(a) PROVE TodoInv'
  BY <1>26, TransferInv DEF Join, Keep, console, bounds, local, TransferInv, ShapeInv,
     OpFields, Idle, TodoInv, TodoOf
<1>27. ASSUME NEW a \in Apps, Release(a) PROVE TodoInv'
  BY <1>27, TransferInv DEF Release, Up, Owns, Go, Keep, bounds, local, LockOf, TransferInv,
     ShapeInv, OpFields, Idle, TodoInv, TodoOf
<1>28. ASSUME NEW a \in Apps, SshFails(a) PROVE TodoInv'
  BY <1>28, TransferInv DEF SshFails, Remote, Up, Go, OnError, Keep, console, local,
     TransferInv, ShapeInv, OpFields, Idle, TodoInv, TodoOf
<1>29. ASSUME NEW a \in Apps, RestoreEnds(a) PROVE TodoInv'
  <2>1. TransferInv /\ ShapeInv BY TransferInv DEF TransferInv
  <2>2. Others(a) /\ op'[a].kind = "none" /\ op'[a].pc = "idle"
    BY <1>29, <2>1, EndEffect DEF RestoreEnds
  <2>3. Grows BY <1>29 DEF RestoreEnds, Grows, local
  <2>4. TodoOf(a)' BY <2>2 DEF TodoOf
  <2>5. QED BY <2>1, <2>2, <2>3, <2>4, TodoOther DEF TodoInv, Others
<1>30. ASSUME NEW a \in Apps, DumpEnds(a) PROVE TodoInv'
  <2>1. TransferInv /\ ShapeInv BY TransferInv DEF TransferInv
  <2>2. op[a].id \in Ids /\ op[a].kind = "dump" BY <1>30, <2>1 DEF DumpEnds, ShapeInv
  <2>3. Grows BY <1>30, <2>1, <2>2, PersistGrows DEF DumpEnds, Grows
  <2>4. CASE End(a)
    <3>1. Others(a) /\ op'[a].kind = "none" /\ op'[a].pc = "idle" BY <2>1, <2>4, EndEffect
    <3>2. TodoOf(a)' BY <3>1 DEF TodoOf
    <3>3. QED BY <2>1, <2>3, <3>1, <3>2, TodoOther DEF TodoInv, Others
  <2>5. CASE NextTransfer(a) /\ Len(op[a].todo) > 1 BY <2>1, <2>2, <2>3, <2>5, TodoNext
  <2>6. QED BY <1>30, <2>4, <2>5 DEF DumpEnds
<1>31. ASSUME NEW a \in Apps, BackupEnds(a) PROVE TodoInv'
  <2>1. TransferInv /\ ShapeInv BY TransferInv DEF TransferInv
  <2>2. op[a].id \in Ids /\ op[a].kind = "backup" /\ TodoOf(a)
    BY <1>31, <2>1 DEF BackupEnds, ShapeInv, TransferInv, TodoInv
  <2>3. Grows /\ (Persists(a) => folder'[op[a].id] = a)
    BY <1>31, <2>1, <2>2, PersistGrows DEF BackupEnds, Grows
  <2>4. CASE End(a)
    <3>1. Others(a) /\ op'[a].kind = "none" /\ op'[a].pc = "idle" BY <2>1, <2>4, EndEffect
    <3>2. TodoOf(a)' BY <3>1 DEF TodoOf
    <3>3. QED BY <2>1, <2>3, <3>1, <3>2, TodoOther DEF TodoInv, Others
  <2>5. CASE NextTransfer(a) /\ Persists(a) /\ Len(op[a].todo) > 1
    BY <2>1, <2>2, <2>3, <2>5, TodoNext
  <2>6. CASE Go(a, "manifest") /\ Persists(a) /\ ~(Len(op[a].todo) > 1)
    <3>1. /\ Others(a) /\ op'[a].kind = "backup" /\ op'[a].id = op[a].id
          /\ op'[a].todo = op[a].todo /\ op'[a].confirmed = op[a].confirmed
      BY <2>1, <2>2, <2>6, GoEffect
    <3>2. \A j \in DOMAIN op[a].todo : op[a].todo[j] = op[a].id
      BY <2>2, <2>6 DEF TodoOf
    <3>3. ASSUME NEW i \in DOMAIN op[a].confirmed
          PROVE  folder'[op[a].confirmed[i]] = a
      <4>1. op[a].confirmed[i] \in Ids /\ a # None BY <2>2, <3>3, AppsAssumption DEF TodoOf
      <4>2. QED BY <2>2, <2>3, <2>6, <3>2, <3>3, <4>1 DEF TodoOf, Grows
    <3>4. TodoOf(a)' BY <2>2, <3>1, <3>3 DEF TodoOf
    <3>5. QED BY <2>1, <2>3, <3>1, <3>4, TodoOther DEF TodoInv, Others
  <2>7. QED BY <1>31, <2>4, <2>5, <2>6 DEF BackupEnds
<1>32. ASSUME NEW a \in Apps, Manifest(a) PROVE TodoInv'
  <2>1. TransferInv /\ ShapeInv BY TransferInv DEF TransferInv
  <2>2. Others(a) /\ op'[a].kind = "none" /\ op'[a].pc = "idle"
    BY <1>32, <2>1, EndEffect DEF Manifest
  <2>3. Grows BY <1>32 DEF Manifest, Grows, local
  <2>4. TodoOf(a)' BY <2>2 DEF TodoOf
  <2>5. QED BY <2>1, <2>2, <2>3, <2>4, TodoOther DEF TodoInv, Others
<1>33. ASSUME NEW a \in Apps, WorkerStart(a) PROVE TodoInv'
  BY <1>33, TransferInv DEF WorkerStart, Up, Writing, Area, Keep, bounds, local, TransferInv,
     ShapeInv, OpFields, Idle, TodoInv, TodoOf
<1>34. ASSUME NEW a \in Apps, WorkerEnds(a) PROVE TodoInv'
  BY <1>34, TransferInv DEF WorkerEnds, Keep, console, bounds, local, TransferInv, ShapeInv,
     OpFields, Idle, TodoInv, TodoOf
<1>35. ASSUME NEW a \in Apps, WorkerLost(a) PROVE TodoInv'
  BY <1>35, TransferInv DEF WorkerLost, Up, Keep, console, local, TransferInv, ShapeInv,
     OpFields, Idle, TodoInv, TodoOf
<1>36. ASSUME NEW a \in Apps, AcquireLost(a) PROVE TodoInv'
  BY <1>36, TransferInv DEF AcquireLost, Up, Go, Keep, local, TransferInv, ShapeInv, OpFields,
     Idle, TodoInv, TodoOf
<1>37. ASSUME NEW t \in Tokens, ShellTest(t) PROVE TodoInv'
  BY <1>37, TransferInv DEF ShellTest, Quiet, LockOf, Step, Trap, Gone, NoNc, local, bounds,
     TransferInv, ShapeInv, OpFields, Idle, TodoInv, TodoOf
<1>38. ASSUME NEW t \in Tokens, ShellPid(t) PROVE TodoInv'
  BY <1>38, TransferInv DEF ShellPid, Quiet, Trap, Step, Gone, NoNc, local, bounds,
     TransferInv, ShapeInv, OpFields, Idle, TodoInv, TodoOf
<1>39. ASSUME NEW t \in Tokens, ShellWait(t) PROVE TodoInv'
  BY <1>39, TransferInv DEF ShellWait, Quiet, Trap, Gone, NoNc, local, bounds, TransferInv,
     ShapeInv, OpFields, Idle, TodoInv, TodoOf
<1>40. ASSUME NEW t \in Tokens, NcListen(t) PROVE TodoInv'
  BY <1>40, TransferInv DEF NcListen, Quiet, Gone, NoNc, local, bounds, TransferInv, ShapeInv,
     OpFields, Idle, TodoInv, TodoOf
<1>41. ASSUME NEW t \in Tokens, NcWrite(t) PROVE TodoInv'
  BY <1>41, TransferInv DEF NcWrite, local, bounds, TransferInv, ShapeInv, OpFields, Idle,
     TodoInv, TodoOf
<1>42. ASSUME NEW t \in Tokens, NcEnd(t) PROVE TodoInv'
  BY <1>42, TransferInv DEF NcEnd, Quiet, local, bounds, TransferInv, ShapeInv, OpFields, Idle,
     TodoInv, TodoOf
<1>43. ASSUME NEW f \in Archives, ChangeFile(f) PROVE TodoInv'
  BY <1>43, TransferInv DEF ChangeFile, console, TransferInv, ShapeInv, OpFields, Idle,
     TodoInv, TodoOf
<1>44. ASSUME ConsoleStops PROVE TodoInv'
  BY <1>44, TransferInv DEF ConsoleStops, Up, NoNc, local, TransferInv, ShapeInv, OpFields,
     Idle, TodoInv, TodoOf
<1>45. ASSUME ConsoleStarts PROVE TodoInv'
  BY <1>45, TransferInv DEF ConsoleStarts, local, console, bounds, TransferInv, ShapeInv,
     OpFields, Idle, TodoInv, TodoOf
<1>46. ASSUME NEW a \in Apps, RecheckFails(a) PROVE TodoInv'
  BY <1>46, TransferInv DEF RecheckFails, Go, Slow, Keep, console, local, TransferInv,
     ShapeInv, OpFields, Idle, TodoInv, TodoOf
<1>47. QED BY <1>1, <1>2, <1>3, <1>4, <1>5, <1>6, <1>7, <1>8, <1>9, <1>10, <1>11, <1>12, <1>13,
   <1>14, <1>15, <1>16, <1>17, <1>18, <1>19, <1>20, <1>21, <1>22, <1>23, <1>24, <1>25, <1>26,
   <1>27, <1>28, <1>29, <1>30, <1>31, <1>32, <1>33, <1>34, <1>35, <1>36, <1>37, <1>38, <1>39,
   <1>40, <1>41, <1>42, <1>43, <1>44, <1>45, <1>46 DEF Next, UserStep, HostStep, ReleaseOp,
   WorkerStep, ShellStep, NcStep

-----------------------------------------------------------------------------
(* The invariant holds *)

\* Nothing is transferred at first.
LEMMA InitTransfer == Init => TransferInv
<1> SUFFICES ASSUME Init PROVE TransferInv
  OBVIOUS
<1>1. \A a \in Apps : op[a] = Idle BY DEF Init
<1>2. \A t \in Tokens : nc[t] = NoNc /\ shell[t] = "none" BY DEF Init
<1>3. mounted \subseteq Parts BY DEF Init, Boots
<1>4. ShapeInv
  BY <1>1, <1>2, <1>3, IdsTyped DEF Init, ShapeInv, OpFields, NcFields, Idle, NoNc
<1>5. TargetInv BY <1>1 DEF TargetInv, Idle, Past, Serving
<1>6. ProcessInv BY <1>2 DEF ProcessInv, Alive, NoNc
<1>7. RestoreInv /\ SeenInv /\ TodoInv
  BY <1>1 DEF RestoreInv, Writing, SeenInv, TodoInv, TodoOf, Idle
<1>8. QED BY <1>4, <1>5, <1>6, <1>7 DEF TransferInv

\* The invariant speaks of the declared variables only.
LEMMA StutterTransfer == TransferInv /\ UNCHANGED vars => TransferInv'
<1> SUFFICES ASSUME TransferInv, UNCHANGED vars PROVE TransferInv'
  OBVIOUS
<1>1. UNCHANGED <<op, nc, shell, preview, folder, mounted, system, disk>>
  BY DEF vars, console, local
<1>2. ShapeInv' /\ TargetInv' /\ RestoreInv'
  BY <1>1 DEF TransferInv, ShapeInv, TargetInv, QuietTarget, Up, RestoreInv, Writing
<1>3. ProcessInv' BY <1>1 DEF TransferInv, ProcessInv, Alive, Disjoint
<1>4. SeenInv' BY <1>1 DEF TransferInv, SeenInv, Content
<1>5. TodoInv' BY <1>1 DEF TransferInv, TodoInv, TodoOf
<1>6. QED BY <1>2, <1>3, <1>4, <1>5 DEF TransferInv

\* Every reachable state satisfies the invariant.
THEOREM Inductive == Spec => []TransferInv
<1>1. ASSUME TransferInv, [Next]_vars PROVE TransferInv'
  <2>1. CASE Next
    BY <1>1, <2>1, ShapeStep, TargetStep, ProcessStep, RestoreStep, SeenStep, TodoStep
       DEF TransferInv
  <2>2. QED BY <1>1, <2>1, StutterTransfer
<1>2. QED BY <1>1, InitTransfer, PTL DEF Spec

\* No process of the console reads or writes a block of a mounted partition, none
\* serves an operation on a partition with another layout, none runs on the
\* normal system.
THEOREM TargetsAreQuiet == Spec => []OnlyQuietTargets
<1>1. TransferInv => OnlyQuietTargets
  BY DEF TransferInv, TargetInv, ProcessInv, Alive, Disjoint, OnlyQuietTargets, Tokens
<1>2. QED BY <1>1, Inductive, PTL

-----------------------------------------------------------------------------
(* What a step may report *)

\* What a step that reports a restore as verified found.
Verified ==
  \A a \in Apps : Writing(a) /\ op'[a].ok /\ ~op[a].ok =>
    /\ op[a].id = op[a].confirmed.id
    /\ Content(op[a].id) = op[a].confirmed.data

\* Only the digest of the whole partition reports a restore as verified.
LEMMA VerifiedStep ==
  ASSUME TransferInv, Next
  PROVE  Verified
<1>1. ASSUME NEW a \in Apps, NEW c \in Choices, Prepare(a, c) PROVE Verified
  <2>1. ShapeInv BY TransferInv DEF TransferInv
  <2>2. Begin(a, "prepare", "stage", c.id, <<>>, <<>>, c) BY <1>1 DEF Prepare
  <2> HIDE DEF Begin
  <2>3. Others(a) /\ ~op'[a].ok BY <2>1, <2>2, BeginEffect
  <2>4. QED BY <1>1, <2>1, <2>3 DEF Prepare, Others, Verified
<1>2. ASSUME NEW a \in Apps, NEW c \in Choices, RestoreImage(a, c) PROVE Verified
  <2>1. ShapeInv BY TransferInv DEF TransferInv
  <2>2. PICK m : Begin(a, "restore", "preflight", c.id, <<>>, m.data, [id |-> c.id,
          data |-> m.data])
    BY <1>2 DEF RestoreImage
  <2>3. Others(a) /\ ~op'[a].ok BY <2>1, <2>2, BeginEffect
  <2>4. QED BY <1>2, <2>1, <2>3 DEF RestoreImage, Others, Verified
<1>3. ASSUME NEW a \in Apps, CancelRestore(a) PROVE Verified
  BY <1>3, TransferInv DEF CancelRestore, console, bounds, TransferInv, ShapeInv, OpFields,
     Idle, Verified
<1>4. ASSUME NEW a \in Apps, Restore(a) PROVE Verified
  <2>1. ShapeInv BY TransferInv DEF TransferInv
  <2>2. Begin(a, "restore", "inspect", preview[a].id, <<>>, RestoreData(a), preview[a])
    BY <1>4 DEF Restore
  <2> HIDE DEF Begin
  <2>3. Others(a) /\ ~op'[a].ok BY <2>1, <2>2, BeginEffect
  <2>4. QED BY <1>4, <2>1, <2>3 DEF Restore, Others, Verified
<1>5. ASSUME NEW a \in Apps, NEW ids \in Batches, Backup(a, ids) PROVE Verified
  <2>1. ShapeInv BY TransferInv DEF TransferInv
  <2>2. Begin(a, "backup", "inspect", Head(ids), ids, <<>>, ids) BY <1>5 DEF Backup
  <2> HIDE DEF Begin
  <2>3. Others(a) /\ ~op'[a].ok BY <2>1, <2>2, BeginEffect
  <2>4. QED BY <1>5, <2>1, <2>3 DEF Backup, Others, Verified
<1>6. ASSUME NEW a \in Apps, NEW ids \in Batches, Dump(a, ids) PROVE Verified
  <2>1. ShapeInv BY TransferInv DEF TransferInv
  <2>2. Begin(a, "dump", "name", Head(ids), ids, <<>>, None) BY <1>6 DEF Dump
  <2> HIDE DEF Begin
  <2>3. Others(a) /\ ~op'[a].ok BY <2>1, <2>2, BeginEffect
  <2>4. QED BY <1>6, <2>1, <2>3 DEF Dump, Others, Verified
<1>7. ASSUME NEW a \in Apps, Stage(a) PROVE Verified
  <2>1. ShapeInv BY TransferInv DEF TransferInv
  <2>2. Others(a) /\ ~op'[a].ok BY <1>7, <2>1, EndEffect DEF Stage
  <2>3. QED BY <1>7, <2>1, <2>2 DEF Stage, Others, Verified
<1>8. ASSUME NEW a \in Apps, StageFails(a) PROVE Verified
  <2>1. ShapeInv BY TransferInv DEF TransferInv
  <2>2. Others(a) /\ ~op'[a].ok BY <1>8, <2>1, EndEffect DEF StageFails
  <2>3. QED BY <1>8, <2>1, <2>2 DEF StageFails, Others, Verified
<1>9. ASSUME NEW a \in Apps, RequireRecovery(a) PROVE Verified
  <2>1. ShapeInv BY TransferInv DEF TransferInv
  <2>2. CASE End(a)
    <3>1. Others(a) /\ ~op'[a].ok BY <2>1, <2>2, EndEffect
    <3>2. QED BY <1>9, <2>1, <2>2, <3>1 DEF RequireRecovery, Others, Persist, Verified
  <2>3. CASE Go(a, "preflight")
    <3>1. Others(a) /\ (op'[a].ok <=> op[a].ok) BY <2>1, <2>3, GoEffect
    <3>2. QED BY <1>9, <2>1, <2>3, <3>1 DEF RequireRecovery, Others, Persist, Verified
  <2>4. QED BY <1>9, <2>2, <2>3 DEF RequireRecovery
<1>10. ASSUME NEW a \in Apps, Name(a) PROVE Verified
  BY <1>10, TransferInv DEF Name, Go, local, console, bounds, TransferInv, ShapeInv, OpFields,
     Idle, Verified
<1>11. ASSUME NEW a \in Apps, Preflight(a) PROVE Verified
  BY <1>11, TransferInv DEF Preflight, Up, Go, Keep, console, bounds, local, TransferInv,
     ShapeInv, OpFields, Idle, Verified
<1>12. ASSUME NEW a \in Apps, Acquire(a) PROVE Verified
  BY <1>12, TransferInv DEF Acquire, Up, Go, Keep, local, TransferInv, ShapeInv, OpFields,
     Idle, Verified
<1>13. ASSUME NEW a \in Apps, AcquireNoMore(a) PROVE Verified
  BY <1>13, TransferInv DEF AcquireNoMore, Up, Go, Keep, console, bounds, local, TransferInv,
     ShapeInv, OpFields, Idle, Verified
<1>14. ASSUME NEW a \in Apps, ReadyCheck(a) PROVE Verified
  BY <1>14, TransferInv DEF ReadyCheck, Up, Go, LockOf, Keep, console, bounds, local,
     TransferInv, ShapeInv, OpFields, Idle, Verified
<1>15. ASSUME NEW a \in Apps, ReadyTimeout(a) PROVE Verified
  BY <1>15, TransferInv DEF ReadyTimeout, Go, Slow, Keep, console, local, TransferInv,
     ShapeInv, OpFields, Idle, Verified
<1>16. ASSUME NEW a \in Apps, Connect(a) PROVE Verified
  BY <1>16, TransferInv DEF Connect, Up, Go, Keep, bounds, local, TransferInv, ShapeInv,
     OpFields, Idle, Verified
<1>17. ASSUME NEW a \in Apps, Send(a) PROVE Verified
  BY <1>17, TransferInv DEF Send, Writing, Up, Conn, Keep, bounds, local, TransferInv,
     ShapeInv, OpFields, Idle, Verified
<1>18. ASSUME NEW a \in Apps, SendEnd(a) PROVE Verified
  BY <1>18, TransferInv DEF SendEnd, Writing, Close, Go, Keep, bounds, local, TransferInv,
     ShapeInv, OpFields, Idle, Verified
<1>19. ASSUME NEW a \in Apps, Receive(a) PROVE Verified
  BY <1>19, TransferInv DEF Receive, Writing, Up, Conn, Close, Go, Keep, bounds, local,
     TransferInv, ShapeInv, OpFields, Idle, Verified
<1>20. ASSUME NEW a \in Apps, ReceiveEnd(a) PROVE Verified
  BY <1>20, TransferInv DEF ReceiveEnd, Writing, Conn, Go, Keep, console, bounds, local,
     TransferInv, ShapeInv, OpFields, Idle, Verified
<1>21. ASSUME NEW a \in Apps, StreamFails(a) PROVE Verified
  BY <1>21, TransferInv DEF StreamFails, Up, Close, Go, Keep, local, TransferInv, ShapeInv,
     OpFields, Idle, Verified
<1>22. ASSUME NEW a \in Apps, Finish(a) PROVE Verified
  BY <1>22, TransferInv DEF Finish, Writing, Keep, console, bounds, local, TransferInv,
     ShapeInv, OpFields, Idle, Verified
<1>23. ASSUME NEW a \in Apps, FinishTimeout(a) PROVE Verified
  BY <1>23, TransferInv DEF FinishTimeout, Slow, Go, Keep, console, local, TransferInv,
     ShapeInv, OpFields, Idle, Verified
<1>24. ASSUME NEW a \in Apps, Sha1(a) PROVE Verified
  <2>1. ShapeInv /\ RestoreInv BY TransferInv DEF TransferInv
  <2>2. Others(a) /\ (op'[a].ok <=> SameHash(a))
    BY <1>24, <2>1 DEF Sha1, ShapeInv, OpFields, Idle, Others
  <2>3. QED BY <2>1, <2>2 DEF Verified, RestoreInv, SameHash, Others
<1>25. ASSUME NEW a \in Apps, Cancel(a) PROVE Verified
  BY <1>25, TransferInv DEF Cancel, Up, LockOf, Gone, Go, Keep, bounds, local, NoNc,
     TransferInv, ShapeInv, OpFields, Idle, Verified
<1>26. ASSUME NEW a \in Apps, Join(a) PROVE Verified
  BY <1>26, TransferInv DEF Join, Keep, console, bounds, local, TransferInv, ShapeInv,
     OpFields, Idle, Verified
<1>27. ASSUME NEW a \in Apps, Release(a) PROVE Verified
  BY <1>27, TransferInv DEF Release, Up, Owns, Go, Keep, bounds, local, LockOf, TransferInv,
     ShapeInv, OpFields, Idle, Verified
<1>28. ASSUME NEW a \in Apps, SshFails(a) PROVE Verified
  BY <1>28, TransferInv DEF SshFails, Remote, Up, Go, OnError, Keep, console, local,
     TransferInv, ShapeInv, OpFields, Idle, Verified
<1>29. ASSUME NEW a \in Apps, RestoreEnds(a) PROVE Verified
  <2>1. ShapeInv BY TransferInv DEF TransferInv
  <2>2. Others(a) /\ ~op'[a].ok BY <1>29, <2>1, EndEffect DEF RestoreEnds
  <2>3. QED BY <1>29, <2>1, <2>2 DEF RestoreEnds, Others, Verified
<1>30. ASSUME NEW a \in Apps, DumpEnds(a) PROVE Verified
  <2>1. ShapeInv BY TransferInv DEF TransferInv
  <2>2. CASE End(a)
    <3>1. Others(a) /\ ~op'[a].ok BY <2>1, <2>2, EndEffect
    <3>2. QED BY <1>30, <2>1, <2>2, <3>1 DEF DumpEnds, Others, Persist, Verified
  <2>3. CASE NextTransfer(a)
    <3>1. Others(a) /\ ~op'[a].ok BY <2>1, <2>3, NextEffect
    <3>2. QED BY <1>30, <2>1, <2>3, <3>1 DEF DumpEnds, Others, Persist, Verified
  <2>4. QED BY <1>30, <2>2, <2>3 DEF DumpEnds
<1>31. ASSUME NEW a \in Apps, BackupEnds(a) PROVE Verified
  <2>1. ShapeInv BY TransferInv DEF TransferInv
  <2>2. CASE End(a)
    <3>1. Others(a) /\ ~op'[a].ok BY <2>1, <2>2, EndEffect
    <3>2. QED BY <1>31, <2>1, <2>2, <3>1 DEF BackupEnds, Others, Persist, Verified
  <2>3. CASE NextTransfer(a)
    <3>1. Others(a) /\ ~op'[a].ok BY <2>1, <2>3, NextEffect
    <3>2. QED BY <1>31, <2>1, <2>3, <3>1 DEF BackupEnds, Others, Persist, Verified
  <2>4. CASE Go(a, "manifest")
    <3>1. Others(a) /\ (op'[a].ok <=> op[a].ok) BY <2>1, <2>4, GoEffect
    <3>2. QED BY <1>31, <2>1, <2>4, <3>1 DEF BackupEnds, Others, Persist, Verified
  <2>5. QED BY <1>31, <2>2, <2>3, <2>4 DEF BackupEnds
<1>32. ASSUME NEW a \in Apps, Manifest(a) PROVE Verified
  <2>1. ShapeInv BY TransferInv DEF TransferInv
  <2>2. Others(a) /\ ~op'[a].ok BY <1>32, <2>1, EndEffect DEF Manifest
  <2>3. QED BY <1>32, <2>1, <2>2 DEF Manifest, Others, Verified
<1>33. ASSUME NEW a \in Apps, WorkerStart(a) PROVE Verified
  BY <1>33, TransferInv DEF WorkerStart, Up, Writing, Area, Keep, bounds, local, TransferInv,
     ShapeInv, OpFields, Idle, Verified
<1>34. ASSUME NEW a \in Apps, WorkerEnds(a) PROVE Verified
  BY <1>34, TransferInv DEF WorkerEnds, Keep, console, bounds, local, TransferInv, ShapeInv,
     OpFields, Idle, Verified
<1>35. ASSUME NEW a \in Apps, WorkerLost(a) PROVE Verified
  BY <1>35, TransferInv DEF WorkerLost, Up, Keep, console, local, TransferInv, ShapeInv,
     OpFields, Idle, Verified
<1>36. ASSUME NEW a \in Apps, AcquireLost(a) PROVE Verified
  BY <1>36, TransferInv DEF AcquireLost, Up, Go, Keep, local, TransferInv, ShapeInv, OpFields,
     Idle, Verified
<1>37. ASSUME NEW t \in Tokens, ShellTest(t) PROVE Verified
  BY <1>37, TransferInv DEF ShellTest, Quiet, LockOf, Step, Trap, Gone, NoNc, local, bounds,
     TransferInv, ShapeInv, OpFields, Idle, Verified
<1>38. ASSUME NEW t \in Tokens, ShellPid(t) PROVE Verified
  BY <1>38, TransferInv DEF ShellPid, Quiet, Trap, Step, Gone, NoNc, local, bounds,
     TransferInv, ShapeInv, OpFields, Idle, Verified
<1>39. ASSUME NEW t \in Tokens, ShellWait(t) PROVE Verified
  BY <1>39, TransferInv DEF ShellWait, Quiet, Trap, Gone, NoNc, local, bounds, TransferInv,
     ShapeInv, OpFields, Idle, Verified
<1>40. ASSUME NEW t \in Tokens, NcListen(t) PROVE Verified
  BY <1>40, TransferInv DEF NcListen, Quiet, Gone, NoNc, local, bounds, TransferInv, ShapeInv,
     OpFields, Idle, Verified
<1>41. ASSUME NEW t \in Tokens, NcWrite(t) PROVE Verified
  BY <1>41, TransferInv DEF NcWrite, local, bounds, TransferInv, ShapeInv, OpFields, Idle,
     Verified
<1>42. ASSUME NEW t \in Tokens, NcEnd(t) PROVE Verified
  BY <1>42, TransferInv DEF NcEnd, Quiet, local, bounds, TransferInv, ShapeInv, OpFields, Idle,
     Verified
<1>43. ASSUME NEW f \in Archives, ChangeFile(f) PROVE Verified
  BY <1>43, TransferInv DEF ChangeFile, console, TransferInv, ShapeInv, OpFields, Idle,
     Verified
<1>44. ASSUME ConsoleStops PROVE Verified
  BY <1>44, TransferInv DEF ConsoleStops, Up, NoNc, local, TransferInv, ShapeInv, OpFields,
     Idle, Verified
<1>45. ASSUME ConsoleStarts PROVE Verified
  BY <1>45, TransferInv DEF ConsoleStarts, local, console, bounds, TransferInv, ShapeInv,
     OpFields, Idle, Verified
<1>46. ASSUME NEW a \in Apps, RecheckFails(a) PROVE Verified
  BY <1>46, TransferInv DEF RecheckFails, Go, Slow, Keep, console, local, TransferInv,
     ShapeInv, OpFields, Idle, Verified
<1>47. QED BY <1>1, <1>2, <1>3, <1>4, <1>5, <1>6, <1>7, <1>8, <1>9, <1>10, <1>11, <1>12, <1>13,
   <1>14, <1>15, <1>16, <1>17, <1>18, <1>19, <1>20, <1>21, <1>22, <1>23, <1>24, <1>25, <1>26,
   <1>27, <1>28, <1>29, <1>30, <1>31, <1>32, <1>33, <1>34, <1>35, <1>36, <1>37, <1>38, <1>39,
   <1>40, <1>41, <1>42, <1>43, <1>44, <1>45, <1>46 DEF Next, UserStep, HostStep, ReleaseOp,
   WorkerStep, ShellStep, NcStep

\* A restore that is reported as verified left what the user confirmed on the
\* partition the user confirmed.
THEOREM VerifiedRestores == Spec => VerifiedIsConfirmed
<1>1. ASSUME TransferInv, Next PROVE Verified BY <1>1, VerifiedStep
<1>2. TransferInv /\ [Next]_vars =>
        [\A a \in Apps : Writing(a) /\ op'[a].ok /\ ~op[a].ok =>
           /\ op[a].id = op[a].confirmed.id
           /\ Content(op[a].id) = op[a].confirmed.data]_vars
  BY <1>1 DEF Verified
<1>3. QED BY <1>2, Inductive, PTL DEF Spec, VerifiedIsConfirmed

\* What a step that saves a file or writes a manifest found.
Whole ==
  /\ \A id \in Ids : folder'[id] # folder[id] =>
       folder[id] = None /\ op[folder'[id]].id = id /\ op[folder'[id]].data \in op[folder'[id]].seen
  /\ manifest' # manifest =>
       \E a \in Editors : \A i \in DOMAIN manifest' : folder[manifest'[i]] = a

\* A file that gets its name was verified, and what was verified was there.
LEMMA WholeStep ==
  ASSUME TransferInv, Next
  PROVE  Whole
<1>1. ASSUME NEW a \in Apps, DumpEnds(a) \/ BackupEnds(a) PROVE Whole
  <2>1. op[a].id \in Ids /\ DOMAIN folder = Ids BY DEF TransferInv, ShapeInv
  <2>2. manifest' = manifest BY <1>1 DEF DumpEnds, BackupEnds
  <2>3. CASE folder' = folder BY <2>2, <2>3 DEF Whole
  <2>4. CASE Persists(a) /\ Persist(a)
    <3>1. folder[op[a].id] = None /\ op[a].data \in op[a].seen
      BY <2>4 DEF Persists, TransferInv, SeenInv
    <3>2. \A id \in Ids : folder'[id] = IF id = op[a].id THEN a ELSE folder[id]
      BY <2>1, <2>4 DEF Persist
    <3>3. QED BY <2>2, <3>1, <3>2 DEF Whole
  <2>5. QED BY <1>1, <2>3, <2>4 DEF DumpEnds, BackupEnds
<1>2. ASSUME NEW a \in Apps, Manifest(a) PROVE Whole
  <2>1. folder' = folder BY <1>2 DEF Manifest
  <2>2. TodoOf(a) /\ op[a].pc = "manifest" BY <1>2 DEF Manifest, TransferInv, TodoInv
  <2>3. a \in Editors /\ \A i \in DOMAIN op[a].confirmed : folder[op[a].confirmed[i]] = a
    BY <2>2 DEF TodoOf
  <2>4. manifest' = op[a].confirmed \/ manifest' = manifest BY <1>2 DEF Manifest
  <2>5. QED BY <2>1, <2>3, <2>4 DEF Whole
<1>3. ASSUME UNCHANGED <<folder, manifest>> PROVE Whole BY <1>3 DEF Whole
<1>4. ASSUME NEW a \in Apps, UserStep(a)
      PROVE  UNCHANGED <<folder, manifest>>
  BY <1>4 DEF UserStep, Prepare, RestoreImage, CancelRestore, Restore, Backup, Dump, local
<1>5. ASSUME NEW a \in Apps, HostStep(a), ~DumpEnds(a), ~BackupEnds(a), ~Manifest(a)
      PROVE  UNCHANGED <<folder, manifest>>
  BY <1>5 DEF HostStep, ReleaseOp, Stage, StageFails, RequireRecovery, Name, Preflight, Acquire,
     AcquireNoMore, RecheckFails, ReadyCheck, ReadyTimeout, Connect, Send, SendEnd, Receive,
     ReceiveEnd, StreamFails, Finish, FinishTimeout, Sha1, Cancel, Join, Release, SshFails,
     RestoreEnds, Keep, local
<1>6. ASSUME NEW a \in Apps, WorkerStep(a) \/ AcquireLost(a)
      PROVE  UNCHANGED <<folder, manifest>>
  BY <1>6 DEF WorkerStep, WorkerStart, WorkerEnds, WorkerLost, AcquireLost, Keep, local
<1>7. ASSUME NEW t \in Tokens, ShellStep(t) \/ NcStep(t)
      PROVE  UNCHANGED <<folder, manifest>>
  BY <1>7 DEF ShellStep, ShellTest, ShellPid, ShellWait, NcStep, NcListen, NcWrite, NcEnd, Quiet,
     local
<1>8. (\E f \in Archives : ChangeFile(f)) \/ ConsoleStops \/ ConsoleStarts
      => UNCHANGED <<folder, manifest>>
  BY DEF ChangeFile, ConsoleStops, ConsoleStarts, local
<1>9. CASE \E a \in Apps : UserStep(a) \/ HostStep(a) \/ WorkerStep(a) \/ AcquireLost(a)
  <2>1. PICK a \in Apps : UserStep(a) \/ HostStep(a) \/ WorkerStep(a) \/ AcquireLost(a) BY <1>9
  <2>2. QED BY <1>1, <1>2, <1>3, <1>4, <1>5, <1>6, <2>1
<1>10. QED BY <1>3, <1>7, <1>8, <1>9 DEF Next

\* A saved backup is what its partition held as a whole at a moment of the backup,
\* it is never replaced, and a manifest names only files of its own backup.
THEOREM SavedBackups == Spec => BackupsAreWhole
<1>1. ASSUME TransferInv, Next PROVE Whole BY <1>1, WholeStep
<1>2. TransferInv /\ [Next]_vars => [Whole]_vars BY <1>1
<1>3. QED BY <1>2, Inductive, PTL DEF Spec, BackupsAreWhole, Whole

-----------------------------------------------------------------------------
(* The transfers of an operation *)

\* The operations of a boot, and what a transfer can be.
Steps ==
    [do : {"write"}, at : Addresses] \cup [do : {"exe"}, at : SRAM]
    \cup [do : {"jump"}, at : {"uboot", "trampoline"}]
    \cup [do : {"version", "soc"}, at : {Nothing}]

Request(req, at) == [is |-> "request", req |-> req, at |-> at]
Payloads ==
    [is : {"request"}, req : {"version", "write", "exec"}, at : Addresses \cup {Nothing}]
    \cup [is : {"data"}, piece : Nat] \cup [is : {"version", "felstatus"}]
Kinds == {"request", "data", "version", "felstatus"}
Contents == [is : {"envelope"}, in : BOOLEAN, of : Kinds] \cup Payloads \cup [is : {"status"}]
Xfers == [out : BOOLEAN, tolerant : BOOLEAN, what : Contents]

\* Transfers whose errors count.
Strict == [out : BOOLEAN, tolerant : {FALSE}, what : Contents]

\* The status and the version come from the device.
Inward(w) == w.is \in {"version", "felstatus"}

\* Transfers n + 1 .. n + 3 of t carry payload w: its envelope, itself, a status.
Series(t, n, w) ==
    /\ t[n + 1].out /\ t[n + 1].what = [is |-> "envelope", in |-> Inward(w), of |-> w.is]
    /\ t[n + 2].out = ~Inward(w) /\ t[n + 2].what = w
    /\ ~t[n + 3].out /\ t[n + 3].what = [is |-> "status"]

\* The payloads of an operation in their order, counted from 0, and how many there are.
Payload(s, j) ==
    CASE s.do = "version" -> IF j = 0 THEN Request("version", Nothing)
                             ELSE IF j = 1 THEN [is |-> "version"] ELSE [is |-> "felstatus"]
      [] s.do = "write"   -> IF j % 3 = 0 THEN Request("write", s.at)
                             ELSE IF j % 3 = 1 THEN [is |-> "data", piece |-> (j \div 3) + 1]
                             ELSE [is |-> "felstatus"]
      [] OTHER            -> IF j = 0 THEN Request("exec", s.at) ELSE [is |-> "felstatus"]

Count(s) ==

         CASE s.do = "version" -> 3 [] s.do = "soc" -> 0 [] s.do = "write" -> 3 * Pieces(s.at) [] OTHER -> 2

\* The operation s is its series; errors are tolerated in a jump at most.
Serial(s) ==
    /\ Transfers(s) \in Seq(Xfers) /\ Len(Transfers(s)) = 3 * Count(s)
    /\ s.do # "jump" => Transfers(s) \in Seq(Strict)
    /\ \A j \in 0 .. Count(s) - 1 : Series(Transfers(s), 3 * j, Payload(s, j))

-----------------------------------------------------------------------------
(* The inductive invariant of FelBoot *)

\* What a boot consists of, as StartRecovery plans it.
BootOf(steps) == <<BootStep("version", Nothing), BootStep("soc", Nothing)>> \o steps
BootPlans == {BootOf(Chronos), BootOf(Trampoline)}

\* The device has taken r transfers of the series that carries payload w.
InPhase(r, w) ==
    /\ r = 0 => phase = "envelope"
    /\ r = 1 => phase = "payload" /\ inward = Inward(w) /\ wants = w.is
    /\ r = 2 => phase = "status"

\* Address a holds pieces 1 .. n of what this boot writes to it.
Holds(a, n) == mem[a] = [by |-> attempt, pieces |-> 1 .. n]

Pending(req, at) == request = Request(req, at)

\* What an operation has achieved once it is over; nothing comes back from a jump.
Achieved(s) ==
    /\ s.do = "soc"   => soc = "r16"
    /\ s.do = "write" /\ Keeps(s.at) => Holds(s.at, Pieces(s.at))
    /\ s.do = "exe" /\ s.at = "fes1"  => dram # "none"
    /\ s.do = "exe" /\ s.at = "thunk" => flushed
    /\ s.do # "jump"

\* ... and after j of its series and r transfers of the next one.
Underway(s, j, r) ==
    /\ s.do = "version" => (j > 0 \/ r = 2 => request.req # "exec")
    /\ s.do = "soc"   => soc = "r16"
    /\ s.do = "write" =>
         /\ j > 0 \/ r = 2 => Pending("write", s.at)
         /\ LET n == IF r = 2 THEN (j + 2) \div 3 ELSE (j + 1) \div 3
            IN  n > 0 /\ Keeps(s.at) => Holds(s.at, n)
    /\ s.do \in {"exe", "jump"} =>
         /\ (j = 0 /\ r = 2) \/ (j = 1 /\ r = 0) => Pending("exec", s.at)
         /\ (j = 1 /\ r # 0) \/ j = 2 => Achieved(s)

\* The application works on operation i of boot b: j of its series are over, of
\* the next one r transfers are made.
Session(b, i, j, r) ==
    /\ plan = SubSeq(b, i + 1, Len(b))
    /\ todo = SubSeq(Transfers(b[i]), 3 * j + r + 1, 3 * Count(b[i]))
    /\ j = Count(b[i]) => r = 0
    /\ \A h \in 1 .. i - 1 : Achieved(b[h])
    /\ Underway(b[i], j, r)
    /\ InPhase(r, Payload(b[i], j))

\* It has not sent anything yet.
Unsent == plan \in BootPlans /\ todo = <<>> /\ (broken.in # plug => phase = "envelope")

\* The device waits for the rest of an exchange that was broken off.
Stuck == broken.in = plug /\ todo = Version /\ phase # "envelope"

\* A transfer of this boot failed, and the error was tolerated.
Spent == plan = <<>> /\ todo = <<>> /\ broken = [in |-> handle, by |-> attempt]

InSession ==
    \/ Unsent \/ Stuck \/ Spent
    \/ \E b \in BootPlans : \E i \in 1 .. Len(b) : \E j \in 0 .. Count(b[i]),
         r \in 0 .. 2 : Session(b, i, j, r)

\* The window and the application agree on what goes on.
AppInv ==
    /\ working <=> pc # "idle"
    /\ pc \in {"idle", "wait", "trigger", "await", "open", "run", "link"}
    /\ pc = "idle" => todo = <<>>
    /\ pc \in {"wait", "trigger", "await", "open"} => todo = <<>> /\ plan \in BootPlans
    /\ attempt \in Nat

\* The device a session is with is the one that was opened, or gone for good.
HandleInv ==
    /\ plug \in Nat
    /\ mode \in {"off", "bootrom", "triggered", "fel", "started", "ram", "normal"}
    /\ pc = "run" => handle \in Nat /\ handle <= plug
    /\ pc = "run" /\ handle = plug => mode \in {"fel", "started", "ram", "off"}

\* A device nobody talks to is at the start of an exchange unless one with this
\* enumeration of it was broken off.
PhaseInv ==
    /\ phase \in {"envelope", "payload", "status"}
    /\ phase = "payload" => wants # "envelope"
    /\ broken.in # plug /\ ~(pc = "run" /\ handle = plug) /\ mode = "fel" => phase = "envelope"
    /\ DOMAIN mem = Addresses

SessionInv == pc = "run" /\ handle = plug /\ mode = "fel" => InSession

BootInv == AppInv /\ HandleInv /\ PhaseInv /\ SessionInv

\* Three transfers make a series.
LEMMA ThreeAreSeq ==
  ASSUME NEW a \in Strict, NEW b \in Strict, NEW c \in Strict
  PROVE  /\ <<a, b, c>> \in Seq(Strict) /\ Len(<<a, b, c>>) = 3
         /\ <<a, b, c>>[1] = a /\ <<a, b, c>>[2] = b /\ <<a, b, c>>[3] = c
OBVIOUS

LEMMA EnvelopeIs ==
  ASSUME NEW in \in BOOLEAN, NEW of \in Kinds
  PROVE  /\ Envelope(in, of) \in Strict /\ Envelope(in, of).out
         /\ Envelope(in, of).what = [is |-> "envelope", in |-> in, of |-> of]
<1> DEFINE e == [is |-> "envelope", in |-> in, of |-> of]
<1>1. e \in [is : {"envelope"}, in : BOOLEAN, of : Kinds]
  OBVIOUS
<1> HIDE DEF e
<1>2. Envelope(in, of) = [out |-> TRUE, what |-> e, tolerant |-> FALSE]
  BY DEF Envelope, Out, e
<1> QED BY <1>1, <1>2 DEF Strict, Contents, e

LEMMA StatusIs ==
  AwStatus \in Strict /\ ~AwStatus.out /\ AwStatus.what = [is |-> "status"]
BY DEF AwStatus, In, Strict, Contents

LEMMA PayloadIs ==
  ASSUME NEW w \in Payloads
  PROVE  /\ Out(w) \in Strict /\ Out(w).out /\ Out(w).what = w
         /\ In(w) \in Strict /\ ~In(w).out /\ In(w).what = w
         /\ w.is \in Kinds
<1>1. w.is \in Kinds
  BY DEF Payloads, Kinds
<1> QED BY <1>1 DEF Out, In, Strict, Contents

LEMMA ThreeAreSeries ==
  ASSUME NEW a \in Strict, NEW b \in Strict, NEW w,
         a.out, a.what = [is |-> "envelope", in |-> Inward(w), of |-> w.is],
         b.out = ~Inward(w), b.what = w
  PROVE  LET t == <<a, b, AwStatus>>
         IN  t \in Seq(Strict) /\ Len(t) = 3 /\ Series(t, 0, w)
<1> DEFINE t == <<a, b, AwStatus>>
<1>1. t \in Seq(Strict) /\ Len(t) = 3 /\ t[1] = a /\ t[2] = b /\ t[3] = AwStatus
  BY StatusIs, ThreeAreSeq
<1> HIDE DEF t
<1>2. Series(t, 0, w)
  BY <1>1, StatusIs DEF Series
<1> QED BY <1>1, <1>2 DEF t

\* A function on 1 .. m is a sequence.
LEMMA FunctionIsSeq ==
  ASSUME NEW S, NEW m \in Nat, NEW f \in [1 .. m -> S]
  PROVE  f \in Seq(S) /\ Len(f) = m
OBVIOUS

\* A request, the data of a write and a read are one series each.
LEMMA FelRequestIs ==
  ASSUME NEW req \in {"version", "write", "exec"}, NEW at \in Addresses \cup {Nothing}
  PROVE  /\ FelRequest(req, at) \in Seq(Strict) /\ Len(FelRequest(req, at)) = 3
         /\ Series(FelRequest(req, at), 0, Request(req, at))
<1> DEFINE w == Request(req, at)
<1>1. w \in Payloads /\ Inward(w) = FALSE /\ w.is = "request"
  BY DEF Payloads, Inward, Request
<1>2. FelRequest(req, at) = <<Envelope(FALSE, "request"), Out(w), AwStatus>>
  BY DEF FelRequest, Request
<1> HIDE DEF w
<1>3. Envelope(FALSE, "request") \in Strict /\ Envelope(FALSE, "request").out
      /\ Envelope(FALSE, "request").what = [is |-> "envelope", in |-> Inward(w), of |-> w.is]
  BY <1>1, EnvelopeIs DEF Kinds
<1>4. Out(w) \in Strict /\ Out(w).out /\ Out(w).what = w
  BY <1>1, PayloadIs
<1>5. FelRequest(req, at) \in Seq(Strict) /\ Len(FelRequest(req, at)) = 3
        /\ Series(FelRequest(req, at), 0, w)
  BY <1>1, <1>2, <1>3, <1>4, ThreeAreSeries
<1> QED BY <1>5 DEF w

LEMMA FelReadIs ==
  ASSUME NEW what \in {"version", "felstatus"}
  PROVE  /\ FelReadData(what) \in Seq(Strict) /\ Len(FelReadData(what)) = 3
         /\ Series(FelReadData(what), 0, [is |-> what])
<1> DEFINE w == [is |-> what]
<1>1. w \in Payloads /\ Inward(w) = TRUE /\ w.is = what /\ what \in Kinds
  BY DEF Payloads, Inward, Kinds
<1>2. FelReadData(what) = <<Envelope(TRUE, what), In(w), AwStatus>>
  BY DEF FelReadData
<1> HIDE DEF w
<1>3. Envelope(TRUE, what) \in Strict /\ Envelope(TRUE, what).out
      /\ Envelope(TRUE, what).what = [is |-> "envelope", in |-> Inward(w), of |-> w.is]
  BY <1>1, EnvelopeIs
<1>4. In(w) \in Strict /\ In(w).out = ~Inward(w) /\ In(w).what = w
  <2>1. In(w).out = FALSE
    BY DEF In
  <2> QED BY <1>1, <2>1, PayloadIs
<1>5. FelReadData(what) \in Seq(Strict) /\ Len(FelReadData(what)) = 3
        /\ Series(FelReadData(what), 0, w)
  BY <1>1, <1>2, <1>3, <1>4, ThreeAreSeries
<1> QED BY <1>5 DEF w

LEMMA FelWriteIs ==
  ASSUME NEW i \in Nat
  PROVE  /\ FelWriteData(i) \in Seq(Strict) /\ Len(FelWriteData(i)) = 3
         /\ Series(FelWriteData(i), 0, [is |-> "data", piece |-> i])
<1> DEFINE w == [is |-> "data", piece |-> i]
<1>1. w \in Payloads /\ Inward(w) = FALSE /\ w.is = "data"
  BY DEF Payloads, Inward
<1>2. FelWriteData(i) = <<Envelope(FALSE, "data"), Out(w), AwStatus>>
  BY DEF FelWriteData
<1> HIDE DEF w
<1>3. Envelope(FALSE, "data") \in Strict /\ Envelope(FALSE, "data").out
      /\ Envelope(FALSE, "data").what = [is |-> "envelope", in |-> Inward(w), of |-> w.is]
  BY <1>1, EnvelopeIs DEF Kinds
<1>4. Out(w) \in Strict /\ Out(w).out /\ Out(w).what = w
  BY <1>1, PayloadIs
<1>5. FelWriteData(i) \in Seq(Strict) /\ Len(FelWriteData(i)) = 3 /\ Series(FelWriteData(i), 0, w)
  BY <1>1, <1>2, <1>3, <1>4, ThreeAreSeries
<1> QED BY <1>5 DEF w

\* The status of a jump is the same series, except that it may stay away.
Tolerated == [i \in DOMAIN ReadFelStatus |-> [ReadFelStatus[i] EXCEPT !.tolerant = TRUE]]

LEMMA FelJumpIs ==
  Tolerated \in Seq(Xfers) /\ Len(Tolerated) = 3 /\ Series(Tolerated, 0, [is |-> "felstatus"])
<1>1. /\ ReadFelStatus \in Seq(Strict) /\ Len(ReadFelStatus) = 3
      /\ Series(ReadFelStatus, 0, [is |-> "felstatus"])
  BY FelReadIs DEF ReadFelStatus
<1>2. DOMAIN ReadFelStatus = 1 .. 3 /\ \A i \in 1 .. 3 : ReadFelStatus[i] \in Strict
  BY <1>1, LenProperties, ElementOfSeq
<1>3. \A i \in 1 .. 3 : Tolerated[i] = [ReadFelStatus[i] EXCEPT !.tolerant = TRUE]
  BY <1>2 DEF Tolerated
<1>4. \A i \in 1 .. 3 : Tolerated[i] \in Xfers /\ Tolerated[i].out = ReadFelStatus[i].out
                        /\ Tolerated[i].what = ReadFelStatus[i].what
  BY <1>2, <1>3 DEF Strict, Xfers
<1>5. Tolerated \in Seq(Xfers) /\ Len(Tolerated) = 3
  <2>1. Tolerated = [i \in 1 .. 3 |-> Tolerated[i]]
    BY <1>2 DEF Tolerated
  <2>2. [i \in 1 .. 3 |-> Tolerated[i]] \in [1 .. 3 -> Xfers]
    BY <1>4
  <2>3. Tolerated \in [1 .. 3 -> Xfers] /\ 3 \in Nat
    BY <2>1, <2>2
  <2> QED BY <2>3, FunctionIsSeq
<1> QED BY <1>1, <1>4, <1>5 DEF Series

LEMMA StrictIsSeq ==
  ASSUME NEW t \in Seq(Strict)
  PROVE  t \in Seq(Xfers)
<1>1. Strict \subseteq Xfers
  BY DEF Strict, Xfers
<1> QED BY <1>1

\* One series after another.
LEMMA ConcatSeries ==
  ASSUME NEW X, NEW s \in Seq(X), NEW t \in Seq(X), Len(t) = 3,
         NEW w, Series(t, 0, w)
  PROVE  /\ s \o t \in Seq(X) /\ Len(s \o t) = Len(s) + 3
         /\ \A i \in 1 .. Len(s) : (s \o t)[i] = s[i]
         /\ Series(s \o t, Len(s), w)
<1> DEFINE m == Len(s)
<1>0. m \in Nat
  BY LenProperties<1> DEFINE u == s \o t
<1>1. /\ u \in Seq(X) /\ Len(u) = Len(s) + Len(t)
      /\ \A i \in 1 .. Len(s) + Len(t) : u[i] = IF i <= Len(s) THEN s[i] ELSE t[i - Len(s)]
  BY ConcatProperties
<1> HIDE DEF u, m
<1>2. \A i \in 1 .. m + 3 : u[i] = IF i <= m THEN s[i] ELSE t[i - m]
  BY <1>0, <1>1 DEF m
<1>3. u[m + 1] = t[1] /\ u[m + 2] = t[2] /\ u[m + 3] = t[3] /\ \A i \in 1 .. m : u[i] = s[i]
  BY <1>0, <1>2
<1>4. Series(u, m, w)
  BY <1>3 DEF Series
<1> QED BY <1>1, <1>3, <1>4 DEF u, m

LEMMA SerialVersion ==
  ASSUME NEW s \in Steps, s.do = "version"
  PROVE  Serial(s)
<1> DEFINE r == FelRequest("version", Nothing)
           u == r \o FelReadData("version")
           v == u \o ReadFelStatus
<1>1. Transfers(s) = v /\ Count(s) = 3
  BY DEF Transfers, Version, Count
<1>2. r \in Seq(Strict) /\ Len(r) = 3 /\ Series(r, 0, Request("version", Nothing))
  BY FelRequestIs
<1> HIDE DEF r
<1>3. /\ u \in Seq(Strict) /\ Len(u) = 6 /\ \A i \in 1 .. 3 : u[i] = r[i]
      /\ Series(u, 3, [is |-> "version"])
  <2>1. /\ FelReadData("version") \in Seq(Strict) /\ Len(FelReadData("version")) = 3
        /\ Series(FelReadData("version"), 0, [is |-> "version"])
    BY FelReadIs
  <2> QED BY <1>2, <2>1, ConcatSeries
<1> HIDE DEF u
<1>4. /\ v \in Seq(Strict) /\ Len(v) = 9 /\ \A i \in 1 .. 6 : v[i] = u[i]
      /\ Series(v, 6, [is |-> "felstatus"])
  <2>1. /\ ReadFelStatus \in Seq(Strict) /\ Len(ReadFelStatus) = 3
        /\ Series(ReadFelStatus, 0, [is |-> "felstatus"])
    BY FelReadIs DEF ReadFelStatus
  <2>2. Len(u) + 3 = 9
    BY <1>3
  <2>3. /\ u \o ReadFelStatus \in Seq(Strict) /\ Len(u \o ReadFelStatus) = Len(u) + 3
        /\ \A i \in 1 .. Len(u) : (u \o ReadFelStatus)[i] = u[i]
        /\ Series(u \o ReadFelStatus, Len(u), [is |-> "felstatus"])
    BY <1>3, <2>1, ConcatSeries
  <2> QED BY <1>3, <2>2, <2>3
<1> HIDE DEF v
<1>5. Series(v, 0, Request("version", Nothing)) /\ Series(v, 3, [is |-> "version"])
  BY <1>2, <1>3, <1>4 DEF Series
<1>6. \A j \in 0 .. 2 : Series(v, 3 * j, Payload(s, j))
  <2>1. Payload(s, 0) = Request("version", Nothing) /\ Payload(s, 1) = [is |-> "version"]
        /\ Payload(s, 2) = [is |-> "felstatus"]
    BY DEF Payload
  <2>2. \A j \in 0 .. 2 : j = 0 \/ j = 1 \/ j = 2
    OBVIOUS
  <2> QED BY <1>4, <1>5, <2>1, <2>2
<1> QED BY <1>1, <1>4, <1>6, StrictIsSeq DEF Serial

LEMMA SerialExe ==
  ASSUME NEW s \in Steps, s.do \in {"exe", "jump"}
  PROVE  Serial(s)
<1> DEFINE r == FelRequest("exec", s.at)
           f == IF s.do = "exe" THEN ReadFelStatus ELSE Tolerated
           v == r \o f
<1>1. Transfers(s) = v /\ Count(s) = 2
  BY DEF Transfers, Exe, ExeNoReturn, Count, Tolerated
<1>2. r \in Seq(Strict) /\ r \in Seq(Xfers) /\ Len(r) = 3 /\ Series(r, 0, Request("exec", s.at))
  <2>1. s.at \in Addresses
    BY DEF Steps, Addresses, SRAM
  <2> QED BY <2>1, FelRequestIs, StrictIsSeq
<1>3. f \in Seq(Xfers) /\ Len(f) = 3 /\ Series(f, 0, [is |-> "felstatus"])
  BY FelReadIs, FelJumpIs, StrictIsSeq DEF ReadFelStatus
<1>0. s.do = "exe" => f \in Seq(Strict)
  BY FelReadIs DEF ReadFelStatus
<1> HIDE DEF r, f
<1>4. /\ v \in Seq(Xfers) /\ Len(v) = 6 /\ \A i \in 1 .. 3 : v[i] = r[i]
      /\ Series(v, 3, [is |-> "felstatus"])
  BY <1>2, <1>3, ConcatSeries
<1>7. s.do = "exe" => v \in Seq(Strict)
  BY <1>0, <1>2, <1>3, ConcatSeries
<1> HIDE DEF v
<1>5. Series(v, 0, Request("exec", s.at))
  BY <1>2, <1>4 DEF Series
<1>6. \A j \in 0 .. 1 : Series(v, 3 * j, Payload(s, j))
  <2>1. Payload(s, 0) = Request("exec", s.at) /\ Payload(s, 1) = [is |-> "felstatus"]
    BY DEF Payload
  <2>2. \A j \in 0 .. 1 : j = 0 \/ j = 1
    OBVIOUS
  <2> QED BY <1>4, <1>5, <2>1, <2>2
<1> QED BY <1>1, <1>4, <1>6, <1>7 DEF Serial

LEMMA PiecesType ==
  ASSUME NEW at \in Addresses
  PROVE  Pieces(at) \in Nat \ {0}
BY PayloadsAssumption DEF Pieces

LEMMA PieceIs ==
  ASSUME NEW at \in Addresses, NEW k \in Nat
  PROVE  /\ WritePiece(at, k) \in Seq(Strict) /\ Len(WritePiece(at, k)) = 9
         /\ Series(WritePiece(at, k), 0, Request("write", at))
         /\ Series(WritePiece(at, k), 3, [is |-> "data", piece |-> k])
         /\ Series(WritePiece(at, k), 6, [is |-> "felstatus"])
<1> DEFINE r == FelRequest("write", at)
           u == r \o FelWriteData(k)
           v == u \o ReadFelStatus
<1>1. WritePiece(at, k) = v
  BY DEF WritePiece
<1>2. r \in Seq(Strict) /\ Len(r) = 3 /\ Series(r, 0, Request("write", at))
  BY FelRequestIs
<1> HIDE DEF r
<1>3. /\ u \in Seq(Strict) /\ Len(u) = 6 /\ \A i \in 1 .. 3 : u[i] = r[i]
      /\ Series(u, 3, [is |-> "data", piece |-> k])
  <2>1. /\ FelWriteData(k) \in Seq(Strict) /\ Len(FelWriteData(k)) = 3
        /\ Series(FelWriteData(k), 0, [is |-> "data", piece |-> k])
    BY FelWriteIs
  <2> QED BY <1>2, <2>1, ConcatSeries
<1> HIDE DEF u
<1>4. /\ v \in Seq(Strict) /\ Len(v) = 9 /\ \A i \in 1 .. 6 : v[i] = u[i]
      /\ Series(v, 6, [is |-> "felstatus"])
  <2>1. /\ ReadFelStatus \in Seq(Strict) /\ Len(ReadFelStatus) = 3
        /\ Series(ReadFelStatus, 0, [is |-> "felstatus"])
    BY FelReadIs DEF ReadFelStatus
  <2>2. Len(u) + 3 = 9
    BY <1>3
  <2>3. /\ u \o ReadFelStatus \in Seq(Strict) /\ Len(u \o ReadFelStatus) = Len(u) + 3
        /\ \A i \in 1 .. Len(u) : (u \o ReadFelStatus)[i] = u[i]
        /\ Series(u \o ReadFelStatus, Len(u), [is |-> "felstatus"])
    BY <1>3, <2>1, ConcatSeries
  <2> QED BY <1>3, <2>2, <2>3
<1> HIDE DEF v
<1>5. Series(v, 0, Request("write", at)) /\ Series(v, 3, [is |-> "data", piece |-> k])
  BY <1>2, <1>3, <1>4 DEF Series
<1> QED BY <1>1, <1>4, <1>5

LEMMA SerialWrite ==
  ASSUME NEW s \in Steps, s.do = "write"
  PROVE  Serial(s)
<1>1. s.at \in Addresses /\ Pieces(s.at) \in Nat \ {0}
  BY PiecesType DEF Steps
<1>2. Transfers(s) = Write(s.at) /\ Count(s) = 3 * Pieces(s.at)
  BY DEF Transfers, Count
<1> DEFINE at == s.at  P == Pieces(s.at)  T == Write(at)
<1>3. /\ T = [n \in 1 .. 9 * P |-> T[n]]
      /\ \A n \in 1 .. 9 * P : T[n] = WritePiece(at, ((n - 1) \div 9) + 1)[((n - 1) % 9) + 1]
  BY DEF Write
<1> HIDE DEF T
<1>4. \A k \in 0 .. P - 1, j \in 1 .. 9 : T[9 * k + j] = WritePiece(at, k + 1)[j]
  <2> TAKE k \in 0 .. P - 1, j \in 1 .. 9
  <2>1. 9 * k + j \in 1 .. 9 * P /\ ((9 * k + j - 1) \div 9) = k /\ ((9 * k + j - 1) % 9) = j - 1
    BY <1>1
  <2>2. PICK n \in 1 .. 9 * P : n = 9 * k + j /\ ((n - 1) \div 9) = k /\ ((n - 1) % 9) = j - 1
    BY <2>1
  <2>3. T[n] = WritePiece(at, ((n - 1) \div 9) + 1)[((n - 1) % 9) + 1]
    BY <1>3
  <2>4. (j - 1) + 1 = j
    OBVIOUS
  <2> QED BY <2>2, <2>3, <2>4
<1>5. \A n \in 1 .. 9 * P : T[n] \in Strict
  <2> TAKE n \in 1 .. 9 * P
  <2>1. PICK k \in 0 .. P - 1, j \in 1 .. 9 : n = 9 * k + j
    <3>1. ((n - 1) \div 9) \in 0 .. P - 1 /\ ((n - 1) % 9) + 1 \in 1 .. 9
          /\ n = 9 * ((n - 1) \div 9) + (((n - 1) % 9) + 1)
      BY <1>1
    <3> QED BY <3>1
  <2>0. k + 1 \in Nat /\ at \in Addresses
    BY <1>1
  <2>2. WritePiece(at, k + 1) \in Seq(Strict) /\ Len(WritePiece(at, k + 1)) = 9
    BY <2>0, PieceIs
  <2>3. WritePiece(at, k + 1)[j] \in Strict
    BY <2>2, ElementOfSeq
  <2> QED BY <1>4, <2>1, <2>3
<1>6. T \in Seq(Strict) /\ Len(T) = 9 * P
  <2>1. 9 * P \in Nat
    BY <1>1
  <2>2. [n \in 1 .. 9 * P |-> T[n]] \in [1 .. 9 * P -> Strict]
    BY <1>5
  <2>3. T \in [1 .. 9 * P -> Strict]
    BY <1>3, <2>2
  <2> QED BY <2>1, <2>3, FunctionIsSeq
<1>7. ASSUME NEW j \in 0 .. 3 * P - 1
      PROVE  Series(T, 3 * j, Payload(s, j))
  <2>1. PICK k \in 0 .. P - 1, c \in 0 .. 2 : j = 3 * k + c
    <3>1. (j \div 3) \in 0 .. P - 1 /\ (j % 3) \in 0 .. 2 /\ j = 3 * (j \div 3) + (j % 3)
      BY <1>1
    <3> QED BY <3>1
  <2>2. (j \div 3) = k /\ (j % 3) = c /\ 3 * j = 9 * k + 3 * c
    BY <2>1
  <2> DEFINE w == WritePiece(at, k + 1)
  <2>0. k + 1 \in Nat /\ at \in Addresses
    BY <1>1
  <2>3. /\ Series(w, 0, Request("write", at)) /\ Series(w, 3, [is |-> "data", piece |-> k + 1])
        /\ Series(w, 6, [is |-> "felstatus"])
    BY <2>0, PieceIs
  <2>4. Payload(s, j) = CASE c = 0 -> Request("write", at) [] c = 1 -> [is |-> "data",
          piece |-> k + 1]
                          [] c = 2 -> [is |-> "felstatus"]
    BY <2>2 DEF Payload
  <2>5. Series(w, 3 * c, Payload(s, j))
    <3>1. CASE c = 0
      BY <2>3, <2>4, <3>1
    <3>2. CASE c = 1
      BY <2>3, <2>4, <3>2
    <3>3. CASE c = 2
      BY <2>3, <2>4, <3>3
    <3> QED BY <3>1, <3>2, <3>3
  <2>6. \A i \in 1 .. 3 : T[3 * j + i] = w[3 * c + i]
    <3> TAKE i \in 1 .. 3
    <3>1. 3 * c + i \in 1 .. 9 /\ 3 * j + i = 9 * k + (3 * c + i)
      BY <2>2
    <3> QED BY <1>4, <3>1
  <2> HIDE DEF w
  <2>7. T[3 * j + 1] = w[3 * c + 1] /\ T[3 * j + 2] = w[3 * c + 2] /\ T[3 * j + 3] = w[3 * c + 3]
    BY <2>6
  <2> QED BY <2>5, <2>7 DEF Series
<1> QED BY <1>1, <1>2, <1>6, <1>7, StrictIsSeq DEF Serial, T

\* Every operation of a boot is its series.
LEMMA StepsAreSerial ==
  ASSUME NEW s \in Steps
  PROVE  Serial(s)
<1>1. CASE s.do = "soc"
  <2>1. Transfers(s) = <<>> /\ Count(s) = 0
    BY <1>1 DEF Transfers, Count
  <2> QED BY <2>1 DEF Serial
<1>2. s.do \in {"write", "exe", "jump", "version", "soc"}
  BY DEF Steps
<1> QED BY <1>1, <1>2, SerialVersion, SerialExe, SerialWrite

-----------------------------------------------------------------------------
(* The order of the operations of a boot *)

Before(b, i, s) == \E h \in 1 .. i - 1 : b[h] = s

\* What operation i of boot b needs was done before it, no address is written
\* twice, and none in DRAM before FES1 is executed.
Prepared(b, i) ==
    /\ b[i].do = "jump" <=> i = Len(b)
    /\ b[i].do = "write" => \A h \in 1 .. i - 1 : b[h].do = "write" => b[h].at # b[i].at
    /\ b[i].do = "write" /\ b[i].at \notin SRAM => Before(b, i, BootStep("exe", "fes1"))
    /\ b[i].do = "exe" /\ b[i].at = "fes1" =>
         \A h \in 1 .. i - 1 : b[h].do = "write" => b[h].at \in SRAM
    /\ b[i].do \in {"exe", "jump"} =>
         /\ Before(b, i, BootStep("soc", Nothing))
         /\ \A a \in NeedsToRun(b[i].at) : Before(b, i, BootStep("write", a))
    /\ b[i].do = "jump" =>
         /\ Before(b, i, BootStep("exe", "fes1"))
         /\ b[i].at = "trampoline" => Before(b, i, BootStep("exe", "thunk"))

Ordered(b) ==
    /\ b \in Seq(Steps) /\ Len(b) > 2
    /\ b[1] = BootStep("version", Nothing)
    /\ \A i \in 1 .. Len(b) : Prepared(b, i)

LEMMA StepsExist ==
  /\ BootStep("version", Nothing) \in Steps /\ BootStep("soc", Nothing) \in Steps
  /\ \A at \in Addresses : BootStep("write", at) \in Steps
  /\ \A at \in SRAM : BootStep("exe", at) \in Steps
  /\ \A at \in {"uboot", "trampoline"} : BootStep("jump", at) \in Steps
BY DEF BootStep, Steps

LEMMA ConcatSteps ==
  ASSUME NEW t \in Seq(Steps)
  PROVE  /\ BootOf(t) \in Seq(Steps) /\ Len(BootOf(t)) = Len(t) + 2
         /\ BootOf(t)[1] = BootStep("version", Nothing) /\ BootOf(t)[2] = BootStep("soc", Nothing)
         /\ \A i \in 1 .. Len(t) : BootOf(t)[i + 2] = t[i]
<1> DEFINE v == BootStep("version", Nothing)  c == BootStep("soc", Nothing)  s == <<v, c>>
<1>1. v \in Steps /\ c \in Steps
  BY StepsExist
<1> HIDE DEF v, c
<1>2. s \in Seq(Steps) /\ Len(s) = 2 /\ s[1] = v /\ s[2] = c
  BY <1>1
<1> HIDE DEF s
<1> DEFINE u == s \o t
<1>3. /\ u \in Seq(Steps) /\ Len(u) = Len(s) + Len(t)
      /\ \A i \in 1 .. Len(s) + Len(t) : u[i] = IF i <= Len(s) THEN s[i] ELSE t[i - Len(s)]
  BY <1>2, ConcatProperties
<1> HIDE DEF u
<1>4. Len(t) \in Nat
  BY LenProperties
<1>5. \A i \in 1 .. Len(t) : u[i + 2] = t[i]
  <2> TAKE i \in 1 .. Len(t)
  <2>1. u[i + 2] = IF i + 2 <= 2 THEN s[i + 2] ELSE t[(i + 2) - 2]
    BY <1>2, <1>3, <1>4
  <2> QED BY <2>1, <1>4
<1>6. u[1] = v /\ u[2] = c
  BY <1>2, <1>3, <1>4
<1> QED BY <1>2, <1>3, <1>4, <1>5, <1>6 DEF BootOf, u, s, v, c

LEMMA ChronosIs ==
  LET b == BootOf(Chronos)
  IN  /\ b \in Seq(Steps) /\ Len(b) = 7
      /\ b[1] = BootStep("version", Nothing) /\ b[2] = BootStep("soc", Nothing)
      /\ b[3] = BootStep("write", "fes1") /\ b[4] = BootStep("exe", "fes1")
      /\ b[5] = BootStep("write", "bootimg") /\ b[6] = BootStep("write", "uboot")
      /\ b[7] = BootStep("jump", "uboot")
<1> DEFINE b == BootOf(Chronos)
<1>1. /\ BootStep("write", "fes1") \in Steps /\ BootStep("exe", "fes1") \in Steps
      /\ BootStep("write", "bootimg") \in Steps /\ BootStep("write", "uboot") \in Steps
      /\ BootStep("jump", "uboot") \in Steps
  BY StepsExist DEF Addresses, SRAM
<1>2. /\ Chronos \in Seq(Steps) /\ Len(Chronos) = 5
      /\ Chronos[1] = BootStep("write", "fes1") /\ Chronos[2] = BootStep("exe", "fes1")
      /\ Chronos[3] = BootStep("write", "bootimg") /\ Chronos[4] = BootStep("write", "uboot")
      /\ Chronos[5] = BootStep("jump", "uboot")
  BY <1>1 DEF Chronos
<1>3. /\ b \in Seq(Steps) /\ Len(b) = 7
      /\ b[1] = BootStep("version", Nothing) /\ b[2] = BootStep("soc", Nothing)
      /\ \A i \in 1 .. 5 : b[i + 2] = Chronos[i]
  <2>1. /\ b \in Seq(Steps) /\ Len(b) = Len(Chronos) + 2
        /\ b[1] = BootStep("version", Nothing) /\ b[2] = BootStep("soc", Nothing)
        /\ \A i \in 1 .. Len(Chronos) : b[i + 2] = Chronos[i]
    BY <1>2, ConcatSteps
  <2> QED BY <1>2, <2>1
<1> HIDE DEF b
<1>4. b[3] = Chronos[1] /\ b[4] = Chronos[2] /\ b[5] = Chronos[3] /\ b[6] = Chronos[4]
        /\ b[7] = Chronos[5]
  BY <1>3
<1> QED BY <1>2, <1>3, <1>4 DEF b

LEMMA TrampolineIs ==
  LET b == BootOf(Trampoline)
  IN  /\ b \in Seq(Steps) /\ Len(b) = 11
      /\ b[1] = BootStep("version", Nothing) /\ b[2] = BootStep("soc", Nothing)
      /\ b[3] = BootStep("write", "fes1") /\ b[4] = BootStep("exe", "fes1")
      /\ b[5] = BootStep("write", "atags") /\ b[6] = BootStep("write", "kernel")
      /\ b[7] = BootStep("write", "initrd") /\ b[8] = BootStep("write", "trampoline")
      /\ b[9] = BootStep("write", "thunk") /\ b[10] = BootStep("exe", "thunk")
      /\ b[11] = BootStep("jump", "trampoline")
<1> DEFINE b == BootOf(Trampoline)
<1>1. /\ BootStep("write", "fes1") \in Steps /\ BootStep("exe", "fes1") \in Steps
      /\ BootStep("write", "atags") \in Steps /\ BootStep("write", "kernel") \in Steps
      /\ BootStep("write", "initrd") \in Steps /\ BootStep("write", "trampoline") \in Steps
      /\ BootStep("write", "thunk") \in Steps /\ BootStep("exe", "thunk") \in Steps
      /\ BootStep("jump", "trampoline") \in Steps
  BY StepsExist DEF Addresses, SRAM
<1>2. /\ Trampoline \in Seq(Steps) /\ Len(Trampoline) = 9
      /\ Trampoline[1] = BootStep("write", "fes1") /\ Trampoline[2] = BootStep("exe", "fes1")
      /\ Trampoline[3] = BootStep("write", "atags") /\ Trampoline[4] = BootStep("write", "kernel")
      /\ Trampoline[5] = BootStep("write", "initrd")
           /\ Trampoline[6] = BootStep("write", "trampoline")
      /\ Trampoline[7] = BootStep("write", "thunk") /\ Trampoline[8] = BootStep("exe", "thunk")
      /\ Trampoline[9] = BootStep("jump", "trampoline")
  BY <1>1 DEF Trampoline
<1>3. /\ b \in Seq(Steps) /\ Len(b) = 11
      /\ b[1] = BootStep("version", Nothing) /\ b[2] = BootStep("soc", Nothing)
      /\ \A i \in 1 .. 9 : b[i + 2] = Trampoline[i]
  <2>1. /\ b \in Seq(Steps) /\ Len(b) = Len(Trampoline) + 2
        /\ b[1] = BootStep("version", Nothing) /\ b[2] = BootStep("soc", Nothing)
        /\ \A i \in 1 .. Len(Trampoline) : b[i + 2] = Trampoline[i]
    BY <1>2, ConcatSteps
  <2> QED BY <1>2, <2>1
<1> HIDE DEF b
<1>4. /\ b[3] = Trampoline[1] /\ b[4] = Trampoline[2] /\ b[5] = Trampoline[3]
           /\ b[6] = Trampoline[4]
      /\ b[7] = Trampoline[5] /\ b[8] = Trampoline[6] /\ b[9] = Trampoline[7]
           /\ b[10] = Trampoline[8]
      /\ b[11] = Trampoline[9]
  BY <1>3
<1> QED BY <1>2, <1>3, <1>4 DEF b

LEMMA ChronosOrdered == Ordered(BootOf(Chronos))
<1> DEFINE b == BootOf(Chronos)
<1>1. /\ b \in Seq(Steps) /\ Len(b) = 7
      /\ b[1] = BootStep("version", Nothing) /\ b[2] = BootStep("soc", Nothing)
      /\ b[3] = BootStep("write", "fes1") /\ b[4] = BootStep("exe", "fes1")
      /\ b[5] = BootStep("write", "bootimg") /\ b[6] = BootStep("write", "uboot")
      /\ b[7] = BootStep("jump", "uboot")
  BY ChronosIs
<1> HIDE DEF b
<1>2. Prepared(b, 1) /\ Prepared(b, 2) /\ Prepared(b, 3)
  BY <1>1 DEF Prepared, BootStep, SRAM
<1>3. Before(b, 4, BootStep("soc", Nothing)) /\ Before(b, 4, BootStep("write", "fes1"))
  BY <1>1 DEF Before
<1>4. Prepared(b, 4)
  BY <1>1, <1>3 DEF Prepared, BootStep, SRAM, NeedsToRun
<1>5. Before(b, 5, BootStep("exe", "fes1")) /\ Before(b, 6, BootStep("exe", "fes1"))
  BY <1>1 DEF Before
<1>6. Prepared(b, 5)
  BY <1>1, <1>5 DEF Prepared, BootStep, SRAM
<1>7. Prepared(b, 6)
  BY <1>1, <1>5 DEF Prepared, BootStep, SRAM
<1>8. /\ Before(b, 7, BootStep("exe", "fes1")) /\ Before(b, 7, BootStep("soc", Nothing))
      /\ Before(b, 7, BootStep("write", "bootimg")) /\ Before(b, 7, BootStep("write", "uboot"))
  BY <1>1 DEF Before
<1>9. Prepared(b, 7)
  BY <1>1, <1>8 DEF Prepared, BootStep, SRAM, NeedsToRun
<1>10. \A i \in 1 .. 7 : Prepared(b, i)
  <2>1. \A i \in 1 .. 7 : i = 1 \/ i = 2 \/ i = 3 \/ i = 4 \/ i = 5 \/ i = 6 \/ i = 7
    OBVIOUS
  <2> QED BY <1>2, <1>4, <1>6, <1>7, <1>9, <2>1
<1> QED BY <1>1, <1>10 DEF Ordered, b

LEMMA TrampolineOrdered == Ordered(BootOf(Trampoline))
<1> DEFINE b == BootOf(Trampoline)
<1>1. /\ b \in Seq(Steps) /\ Len(b) = 11
      /\ b[1] = BootStep("version", Nothing) /\ b[2] = BootStep("soc", Nothing)
      /\ b[3] = BootStep("write", "fes1") /\ b[4] = BootStep("exe", "fes1")
      /\ b[5] = BootStep("write", "atags") /\ b[6] = BootStep("write", "kernel")
      /\ b[7] = BootStep("write", "initrd") /\ b[8] = BootStep("write", "trampoline")
      /\ b[9] = BootStep("write", "thunk") /\ b[10] = BootStep("exe", "thunk")
      /\ b[11] = BootStep("jump", "trampoline")
  BY TrampolineIs
<1> HIDE DEF b
<1>2. Prepared(b, 1) /\ Prepared(b, 2) /\ Prepared(b, 3)
  BY <1>1 DEF Prepared, BootStep, SRAM
<1>3. Before(b, 4, BootStep("soc", Nothing)) /\ Before(b, 4, BootStep("write", "fes1"))
  BY <1>1 DEF Before
<1>4. Prepared(b, 4)
  BY <1>1, <1>3 DEF Prepared, BootStep, SRAM, NeedsToRun
<1>5. ASSUME NEW i \in 5 .. 9
      PROVE  Prepared(b, i)
  <2>1. b[i].do = "write" /\ i # Len(b)
    BY <1>1 DEF BootStep
  <2>2. Before(b, i, BootStep("exe", "fes1"))
    BY <1>1 DEF Before
  <2>3. \A h \in 1 .. i - 1 : b[h].do = "write" => b[h].at # b[i].at
    BY <1>1 DEF BootStep
  <2> QED BY <2>1, <2>2, <2>3 DEF Prepared
<1>6. Before(b, 10, BootStep("soc", Nothing)) /\ Before(b, 10, BootStep("write", "thunk"))
  BY <1>1 DEF Before
<1>7. Prepared(b, 10)
  BY <1>1, <1>6 DEF Prepared, BootStep, SRAM, NeedsToRun
<1>8. /\ Before(b, 11, BootStep("exe", "fes1")) /\ Before(b, 11, BootStep("soc", Nothing))
      /\ Before(b, 11, BootStep("exe", "thunk"))
  BY <1>1 DEF Before
<1>9. /\ Before(b, 11, BootStep("write", "atags")) /\ Before(b, 11, BootStep("write", "kernel"))
      /\ Before(b, 11, BootStep("write", "initrd"))
           /\ Before(b, 11, BootStep("write", "trampoline"))
  BY <1>1 DEF Before
<1>10. Prepared(b, 11)
  BY <1>1, <1>8, <1>9 DEF Prepared, BootStep, SRAM, NeedsToRun
<1>11. \A i \in 1 .. 11 : Prepared(b, i)
  <2>1. \A i \in 1 .. 11 : i = 1 \/ i = 2 \/ i = 3 \/ i = 4 \/ i \in 5 .. 9 \/ i = 10 \/ i = 11
    OBVIOUS
  <2> QED BY <1>2, <1>4, <1>5, <1>7, <1>10, <2>1
<1> QED BY <1>1, <1>11 DEF Ordered, b

LEMMA BootsAreOrdered ==
  ASSUME NEW b \in BootPlans
  PROVE  Ordered(b)
BY ChronosOrdered, TrampolineOrdered DEF BootPlans

-----------------------------------------------------------------------------
(* What a session has before it and what it takes next *)

LEMMA StepOfBoot ==
  ASSUME NEW b \in BootPlans, NEW i \in 1 .. Len(b)
  PROVE  /\ b \in Seq(Steps) /\ Len(b) \in Nat /\ b[i] \in Steps
         /\ Serial(b[i]) /\ Count(b[i]) \in Nat /\ Prepared(b, i)
<1>1. Ordered(b)
  BY BootsAreOrdered
<1>2. b \in Seq(Steps) /\ Len(b) \in Nat /\ b[i] \in Steps
  BY <1>1, LenProperties, ElementOfSeq DEF Ordered
<1> DEFINE s == b[i]
<1>3. s \in Steps
  BY <1>2
<1> HIDE DEF s
<1>4. s.do = "write" => s.at \in Addresses
  BY <1>3 DEF Steps
<1>5. s.do = "write" => 3 * Pieces(s.at) \in Nat
  BY <1>4, PiecesType
<1>6. Count(s) \in Nat
  BY <1>5 DEF Count
<1>7. Serial(s)
  BY <1>3, StepsAreSerial
<1> QED BY <1>1, <1>2, <1>6, <1>7 DEF Ordered, s

\* What is left of an operation.
LEMMA RestOfStep ==
  ASSUME NEW s \in Steps, NEW j \in 0 .. Count(s), NEW r \in 0 .. 2, j = Count(s) => r = 0,
         Count(s) \in Nat
  PROVE  LET t == Transfers(s)
             q == SubSeq(t, 3 * j + r + 1, 3 * Count(s))
         IN  /\ j = Count(s) => q = <<>>
             /\ j # Count(s) => /\ q # <<>> /\ Head(q) = t[3 * j + r + 1]
                                /\ Tail(q) = SubSeq(t, 3 * j + r + 2, 3 * Count(s))
<1> DEFINE t == Transfers(s)
           q == SubSeq(t, 3 * j + r + 1, 3 * Count(s))
<1>1. t \in Seq(Xfers) /\ Len(t) = 3 * Count(s)
  BY StepsAreSerial DEF Serial
<1> HIDE DEF t
<1>2. CASE j = Count(s)
  <2>1. 3 * j + r + 1 \in Int /\ 3 * Count(s) \in Int /\ 3 * Count(s) < 3 * j + r + 1
    BY <1>2
  <2>2. q = <<>>
    BY <2>1, SubSeqEmpty
  <2> QED BY <1>2, <2>2 DEF t
<1>3. CASE j # Count(s)
  <2> DEFINE m == 3 * j + r + 1
  <2>1. m \in 1 .. Len(t) /\ Len(t) \in m .. Len(t) /\ m + 1 = 3 * j + r + 2 /\ m \in Int
          /\ Len(t) \in Int
    BY <1>1, <1>3
  <2> HIDE DEF m
  <2>2. Head(SubSeq(t, m, Len(t))) = t[m] /\ Tail(SubSeq(t, m, Len(t))) = SubSeq(t, m + 1, Len(t))
    BY <1>1, <2>1, HeadTailOfSubSeq
  <2>3. \A k \in m .. Len(t) : t[k] \in Xfers
    BY <1>1, <2>1, ElementOfSeq
  <2>4. SubSeq(t, m, Len(t)) \in Seq(Xfers) /\ Len(SubSeq(t, m, Len(t))) = Len(t) - m + 1
    BY <2>1, <2>3, SubSeqProperties
  <2>5. SubSeq(t, m, Len(t)) # <<>>
    <3>1. Len(SubSeq(t, m, Len(t))) # 0
      BY <2>1, <2>4
    <3> QED BY <3>1, EmptySeq
  <2>6. q # <<>> /\ Head(q) = t[m] /\ Tail(q) = SubSeq(t, 3 * j + r + 2, 3 * Count(s))
    BY <1>1, <2>1, <2>2, <2>5 DEF m
  <2> QED BY <1>3, <2>6 DEF t, m
<1> QED BY <1>2, <1>3

\* Which transfer is next.
LEMMA NextIs ==
  ASSUME NEW b \in BootPlans, NEW i \in 1 .. Len(b), NEW j \in 0 .. Count(b[i]), NEW r \in 0 .. 2,
         Session(b, i, j, r)
  PROVE  /\ todo = <<>> <=> j = Count(b[i])
         /\ j # Count(b[i]) =>
              LET w == Payload(b[i], j)
              IN  /\ Tail(todo) = SubSeq(Transfers(b[i]), 3 * j + r + 2, 3 * Count(b[i]))
                  /\ r = 0 => /\ Next1.out
                              /\ Next1.what = [is |-> "envelope", in |-> Inward(w), of |-> w.is]
                  /\ r = 1 => Next1.out = ~Inward(w) /\ Next1.what = w
                  /\ r = 2 => ~Next1.out /\ Next1.what = [is |-> "status"]
<1> DEFINE s == b[i]  t == Transfers(s)  w == Payload(s, j)
<1>1. s \in Steps /\ Serial(s) /\ Count(s) \in Nat
  BY StepOfBoot
<1>2. todo = SubSeq(t, 3 * j + r + 1, 3 * Count(s)) /\ (j = Count(s) => r = 0)
  BY DEF Session
<1>3. j \in 0 .. Count(s)
  OBVIOUS
<1> HIDE DEF s
<1>4. /\ j = Count(s) => todo = <<>>
      /\ j # Count(s) => /\ todo # <<>> /\ Head(todo) = t[3 * j + r + 1]
                         /\ Tail(todo) = SubSeq(t, 3 * j + r + 2, 3 * Count(s))
  BY <1>1, <1>2, <1>3, RestOfStep
<1>5. j # Count(s) => Series(t, 3 * j, w)
  <2>1. j # Count(s) => j \in 0 .. Count(s) - 1
    BY <1>1, <1>3
  <2> QED BY <1>1, <2>1 DEF Serial
<1> HIDE DEF t, w
<1>6. j # Count(s) => /\ r = 0 => /\ Next1.out
                                  /\ Next1.what = [is |-> "envelope", in |-> Inward(w), of |-> w.is]
                      /\ r = 1 => Next1.out = ~Inward(w) /\ Next1.what = w
                      /\ r = 2 => ~Next1.out /\ Next1.what = [is |-> "status"]
  <2>1. CASE r = 0
    <3>1. 3 * j + r + 1 = 3 * j + 1
      BY <2>1
    <3> QED BY <1>4, <1>5, <2>1, <3>1 DEF Series, Next1
  <2>2. CASE r = 1
    <3>1. 3 * j + r + 1 = 3 * j + 2
      BY <2>2
    <3> QED BY <1>4, <1>5, <2>2, <3>1 DEF Series, Next1
  <2>3. CASE r = 2
    <3>1. 3 * j + r + 1 = 3 * j + 3
      BY <2>3
    <3> QED BY <1>4, <1>5, <2>3, <3>1 DEF Series, Next1
  <2> QED BY <2>1, <2>2, <2>3
<1> QED BY <1>4, <1>6 DEF s, t, w

\* The device takes part in what a session does next.
LEMMA SessionFits ==
  ASSUME NEW b \in BootPlans, NEW i \in 1 .. Len(b), NEW j \in 0 .. Count(b[i]), NEW r \in 0 .. 2,
         Session(b, i, j, r), todo # <<>>
  PROVE  Fits(Next1)
<1> DEFINE w == Payload(b[i], j)
<1>1. /\ r = 0 => Next1.out /\ Next1.what = [is |-> "envelope", in |-> Inward(w), of |-> w.is]
      /\ r = 1 => Next1.out = ~Inward(w) /\ Next1.what = w
      /\ r = 2 => ~Next1.out /\ Next1.what = [is |-> "status"]
  BY NextIs
<1>2. InPhase(r, w)
  BY DEF Session
<1> HIDE DEF w
<1>3. CASE r = 0
  BY <1>1, <1>2, <1>3 DEF InPhase, Fits
<1>4. CASE r = 1
  <2>1. phase = "payload" /\ inward = Inward(w) /\ wants = w.is
    BY <1>2, <1>4 DEF InPhase
  <2>2. Next1.out # inward /\ Next1.what.is = wants
    BY <1>1, <1>4, <2>1
  <2> QED BY <2>1, <2>2 DEF Fits
<1>5. CASE r = 2
  BY <1>1, <1>2, <1>5 DEF InPhase, Fits
<1> QED BY <1>3, <1>4, <1>5

-----------------------------------------------------------------------------
(* A transfer of a session *)

LEMMA AchievedKept ==
  ASSUME NEW s, soc' = soc, attempt' = attempt, flushed => flushed',
         dram # "none" => dram' # "none",
         s.do = "write" => mem'[s.at] = mem[s.at] /\ (s.at \in SRAM \/ dram' = dram),
         Achieved(s)
  PROVE  Achieved(s)'
BY DEF Achieved, Holds, Keeps

\* Only the felstatus of exe and jump makes the firmware jump.
LEMMA JumpIsAsked ==
  ASSUME NEW b \in BootPlans, NEW i \in 1 .. Len(b), NEW j \in 0 .. Count(b[i]),
         Session(b, i, j, 0), todo # <<>>
  PROVE  Jumps(Next1) <=> b[i].do \in {"exe", "jump"} /\ j = 1
<1> DEFINE s == b[i]  w == Payload(s, j)
<1>1. s \in Steps /\ j # Count(s) /\ Underway(s, j, 0) /\ Count(s) \in Nat
  BY StepOfBoot, NextIs DEF Session
<1>2. Next1.what = [is |-> "envelope", in |-> Inward(w), of |-> w.is]
  <2>1. PICK r \in 0 .. 2 : r = 0
    OBVIOUS
  <2>2. Session(b, i, j, r)
    BY <2>1
  <2> QED BY <1>1, <2>1, <2>2, NextIs
<1>3. Jumps(Next1) <=> w.is = "felstatus" /\ request # Nothing /\ request.req = "exec"
  BY <1>2 DEF Jumps
<1>4. s.do \in {"write", "exe", "jump", "version", "soc"}
  BY <1>1 DEF Steps
<1>5. j \in 0 .. Count(s)
  OBVIOUS
<1> HIDE DEF s
<1>6. CASE s.do = "version"
  <2>1. w.is = "felstatus" => j # 0
    BY <1>6 DEF Payload, Request, w
  <2>2. j # 0 => request.req # "exec"
    BY <1>1, <1>5, <1>6 DEF Underway
  <2> QED BY <1>3, <1>6, <2>1, <2>2 DEF s
<1>7. CASE s.do = "write"
  <2>1. w.is = "felstatus" => j # 0
    BY <1>7 DEF Payload, Request, w
  <2>2. j # 0 => request.req = "write"
    BY <1>1, <1>5, <1>7 DEF Underway, Pending, Request
  <2> QED BY <1>3, <1>7, <2>1, <2>2 DEF s
<1>8. CASE s.do = "soc"
  BY <1>1, <1>5, <1>8 DEF Count
<1>9. CASE s.do \in {"exe", "jump"}
  <2>1. j \in {0, 1}
    BY <1>1, <1>5, <1>9 DEF Count
  <2>2. w.is = "felstatus" <=> j = 1
    BY <1>9, <2>1 DEF Payload, Request, w
  <2>3. j = 1 => request = Request("exec", s.at)
    BY <1>1, <1>9 DEF Underway, Pending
  <2>4. s.at \in Addresses
    BY <1>1, <1>9 DEF Steps, Addresses, SRAM
  <2>5. Request("exec", s.at) # Nothing /\ Request("exec", s.at).req = "exec"
    BY <2>4, NothingAssumption DEF Request
  <2> QED BY <1>3, <1>9, <2>2, <2>3, <2>5 DEF s
<1> QED BY <1>4, <1>6, <1>7, <1>8, <1>9 DEF s

\* The parts of a transfer.
LEMMA TransferIs ==
  ASSUME Transfer
  PROVE  /\ todo' = Tail(todo) /\ todo # <<>> /\ pc = "run" /\ Reachable /\ Fits(Next1)
         /\ UNCHANGED <<plug, soc, acl, working, pc, handle, plan, attempt, files, link, report,
              incidents>>
         /\ phase = "envelope" =>
              /\ DeviceEnvelope(Next1) /\ request' = IF Jumps(Next1) THEN Nothing ELSE request
              /\ phase' = "payload" /\ mem' = mem
         /\ phase = "payload" =>
              /\ DevicePayload(Next1.what) /\ phase' = "status"
              /\ UNCHANGED <<inward, wants, dram, flushed, mode>>
         /\ phase = "status" =>
              phase' = "envelope" /\ UNCHANGED <<request, mem, inward, wants, dram, flushed, mode>>
BY DEF Transfer, Takes

LEMMA OrMonotone ==
  ASSUME NEW x, NEW y, NEW z, x = (y \/ z)
  PROVE  (y => x) /\ (z => x)
BY Zenon

\* An envelope: the firmware may jump.
LEMMA EnvelopeKeeps ==
  ASSUME NEW b \in BootPlans, NEW i \in 1 .. Len(b), NEW j \in 0 .. Count(b[i]),
         Session(b, i, j, 0), Transfer, mode' = "fel"
  PROVE  j # Count(b[i]) /\ Session(b, i, j, 1)'
<1> DEFINE s == b[i]  w == Payload(s, j)
<1>1. /\ s \in Steps /\ j # Count(s) /\ Underway(s, j, 0) /\ Count(s) \in Nat /\ phase = "envelope"
      /\ \A h \in 1 .. i - 1 : Achieved(b[h])
  <2>1. todo # <<>>
    BY TransferIs
  <2>2. PICK r \in 0 .. 2 : r = 0
    OBVIOUS
  <2>3. j # Count(s)
    BY <2>1, <2>2, NextIs
  <2>4. Underway(s, j, 0) /\ phase = "envelope" /\ \A h \in 1 .. i - 1 : Achieved(b[h])
    BY DEF Session, InPhase
  <2> QED BY <2>3, <2>4, StepOfBoot
<1>2. /\ Next1.what = [is |-> "envelope", in |-> Inward(w), of |-> w.is]
      /\ Tail(todo) = SubSeq(Transfers(s), 3 * j + 2, 3 * Count(s))
  <2>1. j \in Nat /\ 3 * j + 0 + 2 = 3 * j + 2
    BY <1>1
  <2>2. PICK r \in 0 .. 2 : r = 0
    OBVIOUS
  <2>3. Session(b, i, j, r)
    BY <2>2
  <2>4. Tail(todo) = SubSeq(Transfers(s), 3 * j + r + 2, 3 * Count(s))
    BY <1>1, <2>3, NextIs
  <2>5. Next1.what = [is |-> "envelope", in |-> Inward(w), of |-> w.is]
    BY <1>1, <2>2, <2>3, NextIs
  <2> HIDE DEF s, w
  <2> QED BY <2>1, <2>2, <2>4, <2>5
<1>3. /\ DeviceEnvelope(Next1) /\ request' = IF Jumps(Next1) THEN Nothing ELSE request
      /\ phase' = "payload" /\ mem' = mem /\ todo' = Tail(todo) /\ plan' = plan
      /\ soc' = soc /\ attempt' = attempt
  BY <1>1, TransferIs
<1>4. Jumps(Next1) <=> s.do \in {"exe", "jump"} /\ j = 1
  BY JumpIsAsked, TransferIs
<1>5. /\ dram # "none" => dram' # "none"
      /\ Jumps(Next1) /\ request.at = "fes1" => dram' # "none"
      /\ ~(Jumps(Next1) /\ request.at = "fes1") => dram' = dram
  BY <1>3 DEF DeviceEnvelope
<1>6. (flushed => flushed') /\ (Jumps(Next1) /\ request.at = "thunk" => flushed')
  BY <1>3, OrMonotone DEF DeviceEnvelope
<1>7. \A h \in 1 .. i - 1 : Achieved(b[h])'
  <2> TAKE h \in 1 .. i - 1
  <2>1. Achieved(b[h])
    BY <1>1
  <2>2. CASE Jumps(Next1) /\ request.at = "fes1"
    <3>1. s.do \in {"exe", "jump"} /\ request.at = s.at
      BY <1>1, <1>4, <2>2 DEF Underway, Pending, Request
    <3>2. s.do = "jump" => s.at \notin SRAM
      BY <1>1 DEF Steps, SRAM
    <3>3. s.do = "exe" /\ s.at = "fes1"
      BY <2>2, <3>1, <3>2 DEF SRAM
    <3>4. b[h].do = "write" => b[h].at \in SRAM
      BY <3>3, StepOfBoot DEF Prepared
    <3> QED BY <1>3, <1>5, <1>6, <2>1, <3>4, AchievedKept
  <2>3. CASE ~(Jumps(Next1) /\ request.at = "fes1")
    BY <1>3, <1>5, <1>6, <2>1, <2>3, AchievedKept
  <2> QED BY <2>2, <2>3
<1>8. plan' = SubSeq(b, i + 1, Len(b))
  BY <1>3 DEF Session
<1>9. todo' = SubSeq(Transfers(s), 3 * j + 1 + 1, 3 * Count(s))
  <2>1. 3 * j + 1 + 1 = 3 * j + 2
    OBVIOUS
  <2> QED BY <1>2, <1>3, <2>1
<1>10. InPhase(1, w)'
  <2>1. inward' = Inward(w) /\ wants' = w.is
    BY <1>2, <1>3 DEF DeviceEnvelope
  <2> HIDE DEF w
  <2> QED BY <1>3, <2>1 DEF InPhase
<1>11. j \in 0 .. Count(s)
  OBVIOUS
<1> HIDE DEF s, w
<1>12. Underway(s, j, 1)'
  <2>1. CASE s.do = "version"
    BY <1>1, <1>3, <1>4, <2>1 DEF Underway
  <2>2. CASE s.do = "soc"
    BY <1>1, <1>3, <2>2 DEF Underway
  <2>3. CASE s.do = "write"
    <3>1. request' = request
      BY <1>3, <1>4, <2>3
    <3>2. dram' = dram
      BY <1>4, <1>5, <2>3
    <3> QED BY <1>1, <1>3, <2>3, <3>1, <3>2 DEF Underway, Pending, Holds, Keeps
  <2>4. CASE s.do \in {"exe", "jump"} /\ j # 1
    <3>1. j = 0
      BY <1>1, <1>11, <2>4 DEF Count
    <3> QED BY <2>4, <3>1 DEF Underway
  <2>5. CASE s.do \in {"exe", "jump"} /\ j = 1
    <3>1. Jumps(Next1) /\ request.at = s.at
      BY <1>1, <1>4, <2>5 DEF Underway, Pending, Request
    <3>2. s.do = "jump" => s.at \notin SRAM
      BY <1>1 DEF Steps, SRAM
    <3>3. s.do # "jump"
      BY <1>3, <3>1, <3>2 DEF DeviceEnvelope
    <3>4. Achieved(s)'
      BY <1>5, <1>6, <2>5, <3>1, <3>3 DEF Achieved
    <3> QED BY <2>5, <3>4 DEF Underway
  <2>6. s.do \in {"write", "exe", "jump", "version", "soc"}
    BY <1>1 DEF Steps
  <2> QED BY <2>1, <2>2, <2>3, <2>4, <2>5, <2>6
<1> QED BY <1>1, <1>7, <1>8, <1>9, <1>10, <1>12 DEF Session, s, w

\* The data of a write add a piece to what is there.
LEMMA DataArrive ==
  ASSUME NEW at \in Addresses, NEW k \in Nat, DOMAIN mem = Addresses, attempt \in Nat,
         request.at = at, Keeps(at), k > 0 => Holds(at, k),
         DevicePayload([is |-> "data", piece |-> k + 1])
  PROVE  /\ mem'[at] = [by |-> attempt, pieces |-> 1 .. k + 1]
         /\ \A a \in Addresses \ {at} : mem'[a] = mem[a]
         /\ request' = request
<1> DEFINE old == IF k + 1 > 1 /\ mem[at] # Nothing /\ mem[at].by = attempt THEN mem[at].pieces
  ELSE {}
<1>1. mem' = [mem EXCEPT ![at] = [by |-> attempt, pieces |-> {k + 1} \cup old]]
        /\ request' = request
  BY DEF DevicePayload
<1>2. {k + 1} \cup old = 1 .. k + 1
  <2>1. CASE k = 0
    BY <2>1
  <2>2. CASE k > 0
    <3>1. mem[at] = [by |-> attempt, pieces |-> 1 .. k]
      BY <2>2 DEF Holds
    <3>2. mem[at] \in [by : Nat, pieces : SUBSET Nat]
      BY <3>1
    <3>3. mem[at] # Nothing
      BY <3>2, NothingAssumption
    <3>4. old = 1 .. k
      BY <2>2, <3>1, <3>3
    <3> HIDE DEF old
    <3> QED BY <3>4
  <2> QED BY <2>1, <2>2
<1> QED BY <1>1, <1>2

\* What is written goes to no address of another step.
LEMMA WriteIsNew ==
  ASSUME NEW b \in BootPlans, NEW i \in 1 .. Len(b), b[i].do = "write"
  PROVE  \A h \in 1 .. i - 1 : b[h].do = "write" => b[h].at # b[i].at
<1>1. Prepared(b, i)
  BY StepOfBoot
<1> QED BY <1>1 DEF Prepared

\* The payload: a request, the data of a write, or what the host reads.
LEMMA PayloadKeeps ==
  ASSUME NEW b \in BootPlans, NEW i \in 1 .. Len(b), NEW j \in 0 .. Count(b[i]),
         Session(b, i, j, 1), Transfer, DOMAIN mem = Addresses, attempt \in Nat
  PROVE  j # Count(b[i]) /\ Session(b, i, j, 2)'
<1> DEFINE s == b[i]  w == Payload(s, j)
<1>1. /\ s \in Steps /\ j # Count(s) /\ Underway(s, j, 1) /\ Count(s) \in Nat /\ phase = "payload"
      /\ \A h \in 1 .. i - 1 : Achieved(b[h])
  BY StepOfBoot, NextIs, TransferIs DEF Session, InPhase
<1>2. Next1.what = w /\ Tail(todo) = SubSeq(Transfers(s), 3 * j + 3, 3 * Count(s))
  <2>1. j \in Nat /\ 3 * j + 1 + 2 = 3 * j + 3
    BY <1>1
  <2>2. PICK r \in 0 .. 2 : r = 1
    OBVIOUS
  <2>3. Session(b, i, j, r)
    BY <2>2
  <2>4. Tail(todo) = SubSeq(Transfers(s), 3 * j + r + 2, 3 * Count(s))
    BY <1>1, <2>3, NextIs
  <2>5. Next1.what = w
    BY <1>1, <2>2, <2>3, NextIs
  <2> HIDE DEF s, w
  <2> QED BY <2>1, <2>2, <2>4, <2>5
<1>3. /\ DevicePayload(w) /\ phase' = "status" /\ todo' = Tail(todo) /\ plan' = plan
      /\ UNCHANGED <<soc, attempt, dram, flushed>>
  BY <1>1, <1>2, TransferIs
<1>4. plan' = SubSeq(b, i + 1, Len(b))
  BY <1>3 DEF Session
<1>5. todo' = SubSeq(Transfers(s), 3 * j + 2 + 1, 3 * Count(s))
  <2>1. 3 * j + 2 + 1 = 3 * j + 3
    OBVIOUS
  <2> QED BY <1>2, <1>3, <2>1
<1>6. InPhase(2, w)'
  BY <1>3 DEF InPhase
<1>7. w.is = "data" => s.do = "write"
  BY DEF Payload, Request
<1>8. w.is # "data" => mem' = mem
  BY <1>3 DEF DevicePayload
<1>9. j \in Nat
  BY <1>1
<1>10. (\A h \in 1 .. i - 1 : Achieved(b[h])') /\ Underway(s, j, 2)'
  <2>1. CASE w.is # "data"
    <3>1. \A h \in 1 .. i - 1 : Achieved(b[h])'
      <4> TAKE h \in 1 .. i - 1
      <4>1. Achieved(b[h])
        BY <1>1
      <4> QED BY <1>3, <1>8, <2>1, <4>1, AchievedKept
    <3>2. request' = IF w.is = "request" THEN w ELSE request
      BY <1>3 DEF DevicePayload
    <3> HIDE DEF s
    <3>3. CASE s.do = "version"
      <4>1. CASE j = 0
        <5>1. w = Request("version", Nothing)
          BY <3>3, <4>1 DEF Payload, w
        <5> HIDE DEF w
        <5>2. request' = w
          BY <3>2, <5>1 DEF Request
        <5> QED BY <3>1, <3>3, <4>1, <5>1, <5>2 DEF Underway, Request, s
      <4>2. CASE j # 0
        <5>1. request' = request
          BY <3>2, <3>3, <4>2 DEF Payload, w
        <5> QED BY <1>1, <1>9, <3>1, <3>3, <4>2, <5>1 DEF Underway, s
      <4> QED BY <4>1, <4>2
    <3>4. CASE s.do = "soc"
      BY <1>1, <1>3, <3>1, <3>4 DEF Underway, s
    <3>5. CASE s.do = "write"
      <4>1. j % 3 # 1
        BY <2>1, <3>5 DEF Payload, w
      <4>2. ((j + 2) \div 3) = ((j + 1) \div 3)
        BY <1>9, <4>1
      <4>3. Pending("write", s.at)'
        <5>1. CASE j % 3 = 0
          <6>1. w = Request("write", s.at)
            BY <3>5, <5>1 DEF Payload, w
          <6> HIDE DEF w
          <6>2. request' = w
            BY <3>2, <6>1 DEF Request
          <6> QED BY <6>1, <6>2 DEF Pending
        <5>2. CASE j % 3 # 0
          <6>1. j > 0
            BY <1>9, <5>2
          <6>2. request' = request
            BY <3>2, <3>5, <4>1, <5>2 DEF Payload, w
          <6> QED BY <1>1, <3>5, <6>1, <6>2 DEF Underway, Pending
        <5> QED BY <5>1, <5>2
      <4>4. ((j + 1) \div 3) > 0 /\ Keeps(s.at) => Holds(s.at, (j + 1) \div 3)
        BY <1>1, <3>5 DEF Underway
      <4>5. (((j + 2) \div 3) > 0 /\ Keeps(s.at) => Holds(s.at, (j + 2) \div 3))'
        BY <1>3, <1>8, <2>1, <4>2, <4>4 DEF Holds, Keeps
      <4> QED BY <3>1, <3>5, <4>3, <4>5 DEF Underway, s
    <3>6. CASE s.do \in {"exe", "jump"}
      <4>1. CASE j = 0
        <5>1. w = Request("exec", s.at)
          BY <3>6, <4>1 DEF Payload, w
        <5> HIDE DEF w
        <5>2. request' = w
          BY <3>2, <5>1 DEF Request
        <5> QED BY <3>1, <3>6, <4>1, <5>1, <5>2 DEF Underway, Pending, s
      <4>2. CASE j = 1
        <5>1. Achieved(s)
          BY <1>1, <3>6, <4>2 DEF Underway
        <5>2. Achieved(s)'
          BY <1>3, <3>6, <5>1, AchievedKept
        <5> QED BY <3>1, <3>6, <4>2, <5>2 DEF Underway, s
      <4>3. j \in {0, 1}
        BY <1>1, <1>9, <3>6 DEF Count, s
      <4> QED BY <4>1, <4>2, <4>3
    <3>7. s.do \in {"write", "exe", "jump", "version", "soc"}
      BY <1>1 DEF Steps
    <3> QED BY <3>1, <3>3, <3>4, <3>5, <3>6, <3>7 DEF s
  <2>2. CASE w.is = "data"
    <3>1. s.do = "write" /\ s.at \in Addresses
      BY <1>1, <1>7, <2>2 DEF Steps
    <3>2. j % 3 = 1 /\ w = [is |-> "data", piece |-> (j \div 3) + 1]
      <4> HIDE DEF s
      <4> QED BY <2>2, <3>1 DEF Payload, Request, w
    <3> DEFINE k == j \div 3
    <3>3. k \in Nat /\ ((j + 1) \div 3) = k /\ ((j + 2) \div 3) = k + 1 /\ j > 0
      BY <1>9, <3>2
    <3>4. request = Request("write", s.at) /\ (k > 0 /\ Keeps(s.at) => Holds(s.at, k))
      <4> HIDE DEF s
      <4> QED BY <1>1, <3>1, <3>3 DEF Underway, Pending
    <3>5. \A h \in 1 .. i - 1 : b[h].do = "write" => b[h].at # s.at
      BY <3>1, WriteIsNew
    <3>6. /\ Keeps(s.at) => mem'[s.at] = [by |-> attempt, pieces |-> 1 .. k + 1]
          /\ \A a \in Addresses \ {s.at} : mem'[a] = mem[a]
          /\ request' = request
      <4>1. request.at = s.at
        BY <3>4 DEF Request
      <4>2. DevicePayload([is |-> "data", piece |-> k + 1])
        BY <1>3, <3>2
      <4> HIDE DEF s, k
      <4>3. CASE Keeps(s.at)
        BY <3>1, <3>3, <3>4, <4>1, <4>2, <4>3, DataArrive
      <4>4. CASE ~Keeps(s.at)
        BY <4>1, <4>2, <4>4 DEF DevicePayload
      <4> QED BY <4>3, <4>4
    <3>7. \A h \in 1 .. i - 1 : Achieved(b[h])'
      <4> TAKE h \in 1 .. i - 1
      <4>1. Achieved(b[h]) /\ h \in 1 .. Len(b)
        BY <1>1, StepOfBoot
      <4>2. b[h].do = "write" => b[h].at \in Addresses \ {s.at}
        <5>1. b[h] \in Steps
          BY <4>1, StepOfBoot
        <5>2. b[h].do = "write" => b[h].at \in Addresses
          BY <5>1 DEF Steps
        <5> QED BY <3>5, <5>2
      <4>3. b[h].do = "write" => mem'[b[h].at] = mem[b[h].at]
        BY <3>6, <4>2
      <4>4. (dram # "none" => dram' # "none") /\ (flushed => flushed')
        BY <1>3
      <4> QED BY <1>3, <4>1, <4>3, <4>4, AchievedKept
    <3>8. Underway(s, j, 2)'
      <4> HIDE DEF s, k
      <4>1. Pending("write", s.at)'
        BY <3>4, <3>6 DEF Pending
      <4>2. Keeps(s.at)' => Holds(s.at, (j + 2) \div 3)'
        BY <1>3, <3>3, <3>6 DEF Holds, Keeps
      <4> QED BY <3>1, <4>1, <4>2 DEF Underway
    <3> QED BY <3>7, <3>8
  <2> QED BY <2>1, <2>2
<1> QED BY <1>1, <1>4, <1>5, <1>6, <1>10 DEF Session

\* A status ends the series.
LEMMA StatusKeeps ==
  ASSUME NEW b \in BootPlans, NEW i \in 1 .. Len(b), NEW j \in 0 .. Count(b[i]),
         Session(b, i, j, 2), Transfer
  PROVE  j + 1 \in 0 .. Count(b[i]) /\ Session(b, i, j + 1, 0)'
<1> DEFINE s == b[i]
<1>1. /\ s \in Steps /\ j # Count(s) /\ Underway(s, j, 2) /\ Count(s) \in Nat /\ phase = "status"
      /\ \A h \in 1 .. i - 1 : Achieved(b[h])
  BY StepOfBoot, NextIs, TransferIs DEF Session, InPhase
<1>2. Tail(todo) = SubSeq(Transfers(s), 3 * (j + 1) + 0 + 1, 3 * Count(s))
  <2>1. j \in Nat /\ 3 * j + 2 + 2 = 3 * (j + 1) + 0 + 1
    BY <1>1
  <2>2. PICK r \in 0 .. 2 : r = 2
    OBVIOUS
  <2>3. Session(b, i, j, r)
    BY <2>2
  <2>4. Tail(todo) = SubSeq(Transfers(s), 3 * j + r + 2, 3 * Count(s))
    BY <1>1, <2>3, NextIs
  <2> HIDE DEF s
  <2> QED BY <2>1, <2>2, <2>4
<1>3. /\ phase' = "envelope" /\ todo' = Tail(todo) /\ plan' = plan
      /\ UNCHANGED <<soc, attempt, request, mem, dram, flushed>>
  BY <1>1, TransferIs
<1>4. \A h \in 1 .. i - 1 : Achieved(b[h])'
  <2> TAKE h \in 1 .. i - 1
  <2>1. Achieved(b[h])
    BY <1>1
  <2> QED BY <1>3, <2>1, AchievedKept
<1>5. j + 1 \in 0 .. Count(s) /\ j \in Nat
  BY <1>1
<1>6. plan' = SubSeq(b, i + 1, Len(b))
  BY <1>3 DEF Session
<1> HIDE DEF s
<1>7. Underway(s, j + 1, 0)'
  <2>1. CASE s.do = "version"
    BY <1>1, <1>3, <2>1 DEF Underway
  <2>2. CASE s.do = "soc"
    BY <1>1, <1>3, <2>2 DEF Underway
  <2>3. CASE s.do = "write"
    <3>1. (((j + 1) + 1) \div 3) = ((j + 2) \div 3)
      BY <1>5
    <3> QED BY <1>1, <1>3, <2>3, <3>1 DEF Underway, Pending, Holds, Keeps
  <2>4. CASE s.do \in {"exe", "jump"}
    <3>1. j \in {0, 1}
      BY <1>1, <1>5, <2>4 DEF Count
    <3>2. j = 0 => Pending("exec", s.at)'
      BY <1>1, <1>3, <2>4 DEF Underway, Pending
    <3>3. j = 1 => Achieved(s)'
      <4>1. j = 1 => Achieved(s)
        BY <1>1, <2>4 DEF Underway
      <4> QED BY <1>3, <2>4, <4>1, AchievedKept
    <3> QED BY <2>4, <3>1, <3>2, <3>3 DEF Underway
  <2>5. s.do \in {"write", "exe", "jump", "version", "soc"}
    BY <1>1 DEF Steps
  <2> QED BY <2>1, <2>2, <2>3, <2>4, <2>5
<1>8. InPhase(0, Payload(s, j + 1))'
  BY <1>3 DEF InPhase
<1> QED BY <1>2, <1>3, <1>4, <1>5, <1>6, <1>7, <1>8 DEF Session, s

\* The first operation begins with an envelope.
LEMMA VersionIs ==
  Version \in Seq(Xfers) /\ Version # <<>> /\ Version[1].out /\ Version[1].what.is = "envelope"
<1> DEFINE s == BootStep("version", Nothing)
<1>1. s \in Steps /\ Transfers(s) = Version /\ Count(s) = 3
  BY StepsExist DEF BootStep, Transfers, Count
<1> HIDE DEF s
<1>2. /\ Version \in Seq(Xfers) /\ Len(Version) = 9
      /\ \A j \in 0 .. 2 : Series(Version, 3 * j, Payload(s, j))
  <2>1. Serial(s) /\ 3 * Count(s) = 9
    BY <1>1, StepsAreSerial
  <2> QED BY <1>1, <2>1 DEF Serial
<1>3. PICK n \in 0 .. 2 : n = 0
  OBVIOUS
<1>4. Series(Version, 3 * n, Payload(s, n)) /\ 3 * n + 1 = 1
  BY <1>2, <1>3
<1>5. Version # <<>>
  BY <1>2, EmptySeq
<1> QED BY <1>2, <1>4, <1>5 DEF Series

\* A session goes on with each transfer.
LEMMA TransferInSession ==
  ASSUME BootInv, Transfer, mode' = "fel"
  PROVE  InSession'
<1>1. /\ pc = "run" /\ handle = plug /\ todo # <<>> /\ Fits(Next1)
      /\ mode \in {"fel", "started", "ram", "off"} /\ Visible
  BY TransferIs DEF BootInv, HandleInv, Reachable
<1>2. InSession
  BY <1>1 DEF BootInv, SessionInv, Visible
<1>3. ~Unsent /\ ~Spent
  BY <1>1 DEF Unsent, Spent
<1>4. CASE Stuck
  <2>1. Next1.out /\ Next1.what.is = "envelope"
    <3>1. Next1 = Version[1]
      BY <1>4, VersionIs DEF Stuck, Next1
    <3> QED BY <3>1, VersionIs
  <2>2. phase \in {"payload", "status"} /\ (phase = "payload" => wants # "envelope")
    BY <1>4 DEF Stuck, BootInv, PhaseInv
  <2> QED BY <1>1, <2>1, <2>2 DEF Fits
<1>5. CASE \E b \in BootPlans : \E i \in 1 .. Len(b) : \E j \in 0 .. Count(b[i]),
        r \in 0 .. 2 : Session(b, i, j, r)
  <2>1. PICK b \in BootPlans : \E i \in 1 .. Len(b) : \E j \in 0 .. Count(b[i]),
          r \in 0 .. 2 : Session(b, i, j, r)
    BY <1>5
  <2>2. PICK i \in 1 .. Len(b) : \E j \in 0 .. Count(b[i]), r \in 0 .. 2 : Session(b, i, j, r)
    BY <2>1
  <2>3. PICK j \in 0 .. Count(b[i]), r \in 0 .. 2 : Session(b, i, j, r)
    BY <2>2
  <2>4. CASE r = 0
    <3>1. Session(b, i, j, 0)
      BY <2>3, <2>4
    <3>2. Session(b, i, j, 1)'
      BY <3>1, EnvelopeKeeps
    <3> QED BY <3>2 DEF InSession
  <2>5. CASE r = 1
    <3>1. Session(b, i, j, 1)
      BY <2>3, <2>5
    <3>2. Session(b, i, j, 2)'
      BY <3>1, PayloadKeeps DEF BootInv, AppInv, PhaseInv
    <3> QED BY <3>2 DEF InSession
  <2>6. CASE r = 2
    <3>1. Session(b, i, j, 2)
      BY <2>3, <2>6
    <3>2. j + 1 \in 0 .. Count(b[i]) /\ Session(b, i, j + 1, 0)'
      BY <3>1, StatusKeeps
    <3> QED BY <3>2 DEF InSession
  <2> QED BY <2>4, <2>5, <2>6
<1> QED BY <1>2, <1>3, <1>4, <1>5 DEF InSession

\* An operation without transfers left has achieved what it is for.
LEMMA WholeStepAchieved ==
  ASSUME NEW s \in Steps, Count(s) \in Nat, Underway(s, Count(s), 0)
  PROVE  Achieved(s)
<1>1. CASE s.do \in {"version", "soc"}
  BY <1>1 DEF Achieved, Underway
<1>2. CASE s.do = "write"
  <2>1. Pieces(s.at) \in Nat \ {0}
    BY <1>2, PiecesType DEF Steps
  <2>2. Count(s) = 3 * Pieces(s.at)
    BY <1>2 DEF Count
  <2>3. ((Count(s) + 1) \div 3) = Pieces(s.at)
    BY <2>1, <2>2
  <2> QED BY <1>2, <2>1, <2>3 DEF Achieved, Underway
<1>3. CASE s.do \in {"exe", "jump"}
  <2>1. Count(s) = 2
    BY <1>3 DEF Count
  <2> QED BY <1>3, <2>1 DEF Underway
<1>4. s.do \in {"write", "exe", "jump", "version", "soc"}
  BY DEF Steps
<1> QED BY <1>1, <1>2, <1>3, <1>4

\* The end of an operation is the start of the next one.
LEMMA NextOperation ==
  ASSUME NEW b \in BootPlans, NEW i \in 1 .. Len(b), NEW j \in 0 .. Count(b[i]), NEW r \in 0 .. 2,
         Session(b, i, j, r), StartStep, pc' = "run"
  PROVE  i + 1 \in 1 .. Len(b) /\ Session(b, i + 1, 0, 0)'
<1>1. todo = <<>> /\ plan # <<>> /\ ~MayNotStart(Head(plan))
      /\ todo' = Transfers(Head(plan)) /\ plan' = Tail(plan)
      /\ UNCHANGED <<device, attempt>>
  BY DEF StartStep, Conclude, Calm
<1>2. b \in Seq(Steps) /\ Len(b) \in Nat /\ b[i] \in Steps /\ Count(b[i]) \in Nat
  BY StepOfBoot
<1>3. j = Count(b[i]) /\ r = 0 /\ plan = SubSeq(b, i + 1, Len(b)) /\ phase = "envelope"
      /\ Underway(b[i], Count(b[i]), 0) /\ \A h \in 1 .. i - 1 : Achieved(b[h])
  BY <1>1, NextIs DEF Session, InPhase
<1>4. i # Len(b)
  <2>1. SUFFICES ASSUME i = Len(b) PROVE FALSE
    OBVIOUS
  <2>2. i + 1 \in Int /\ Len(b) \in Int /\ Len(b) < i + 1
    BY <1>2, <2>1
  <2> QED BY <1>1, <1>3, <2>2, SubSeqEmpty
<1>5. i + 1 \in 1 .. Len(b) /\ Len(b) \in i + 1 .. Len(b) /\ i + 1 + 1 \in Int
  BY <1>2, <1>4
<1>6. Head(plan) = b[i + 1] /\ Tail(plan) = SubSeq(b, i + 1 + 1, Len(b))
  BY <1>2, <1>3, <1>5, HeadTailOfSubSeq
<1> DEFINE s == b[i + 1]
<1>7. s \in Steps /\ Serial(s) /\ Count(s) \in Nat
  BY <1>5, StepOfBoot
<1>8. s.do = "soc" => soc = "r16"
  BY <1>1, <1>6 DEF MayNotStart, KnownSoc
<1>9. \A h \in 1 .. i : Achieved(b[h])
  <2>1. Achieved(b[i])
    BY <1>2, <1>3, WholeStepAchieved
  <2>2. \A h \in 1 .. i : h = i \/ h \in 1 .. i - 1
    BY <1>2
  <2> QED BY <1>3, <2>1, <2>2
<1>10. \A h \in 1 .. (i + 1) - 1 : Achieved(b[h])'
  <2> TAKE h \in 1 .. (i + 1) - 1
  <2>1. h \in 1 .. i
    BY <1>2
  <2>2. Achieved(b[h])
    BY <1>9, <2>1
  <2> QED BY <1>1, <2>2, AchievedKept DEF device
<1>11. Underway(s, 0, 0)' /\ InPhase(0, Payload(s, 0))'
  <2>1. (0 + 1) \div 3 = 0
    OBVIOUS
  <2> HIDE DEF s
  <2>2. phase' = "envelope" /\ soc' = soc
    BY <1>1, <1>3 DEF device
  <2> QED BY <1>8, <2>1, <2>2 DEF Underway, InPhase
<1>12. todo' = SubSeq(Transfers(s), 3 * 0 + 0 + 1, 3 * Count(s))
  <2>1. todo' = Transfers(s)
    BY <1>1, <1>6
  <2> HIDE DEF s
  <2>2. Transfers(s) \in Seq(Xfers) /\ Len(Transfers(s)) = 3 * Count(s)
    BY <1>7 DEF Serial
  <2>3. SubSeq(Transfers(s), 1, Len(Transfers(s))) = Transfers(s)
    BY <2>2, SubSeqFull
  <2>4. 3 * 0 + 0 + 1 = 1
    OBVIOUS
  <2> QED BY <2>1, <2>2, <2>3, <2>4
<1>13. plan' = SubSeq(b, (i + 1) + 1, Len(b))
  BY <1>1, <1>6
<1> HIDE DEF s
<1>14. (0 = Count(s) => 0 = 0)
  OBVIOUS
<1> QED BY <1>5, <1>10, <1>11, <1>12, <1>13, <1>14 DEF Session, s

\* The first operation: the device may be in the middle of an earlier exchange.
LEMMA FirstOperation ==
  ASSUME Unsent, StartStep, pc' = "run", phase \in {"envelope", "payload", "status"}
  PROVE  InSession'
<1> DEFINE b == plan
<1>1. b \in BootPlans /\ (broken.in # plug => phase = "envelope")
  BY DEF Unsent
<1>2. Ordered(b)
  BY <1>1, BootsAreOrdered
<1>3. b \in Seq(Steps) /\ Len(b) > 2 /\ b # <<>> /\ 1 \in 1 .. Len(b) /\ Len(b) \in Nat
      /\ b[1] = BootStep("version", Nothing)
  <2>1. b \in Seq(Steps) /\ Len(b) > 2 /\ b[1] = BootStep("version", Nothing)
    BY <1>2 DEF Ordered
  <2>2. Len(b) \in Nat
    BY <2>1, LenProperties
  <2>3. b # <<>>
    BY <2>1, EmptySeq
  <2> QED BY <2>1, <2>2, <2>3
<1>4. /\ todo' = Transfers(b[1]) /\ plan' = SubSeq(b, 2, Len(b))
      /\ UNCHANGED <<device, attempt, broken>>
  <2>1. todo' = Transfers(Head(b)) /\ plan' = Tail(b) /\ UNCHANGED <<device, attempt, broken>>
    BY DEF StartStep, Conclude, Calm, incidents
  <2>2. Head(b) = b[1] /\ Tail(b) = SubSeq(b, 2, Len(b))
    BY <1>3, TailIsSubSeq
  <2> QED BY <2>1, <2>2
<1>5. b[1].do = "version" /\ Transfers(b[1]) = Version /\ Count(b[1]) = 3 /\ b[1] \in Steps
  BY <1>3, StepsExist DEF BootStep, Transfers, Count
<1>6. CASE phase # "envelope"
  <2>1. broken'.in = plug' /\ todo' = Version /\ phase' # "envelope"
    BY <1>1, <1>4, <1>5, <1>6 DEF device
  <2> QED BY <2>1 DEF InSession, Stuck
<1>7. CASE phase = "envelope"
  <2>1. PICK c \in BootPlans : c = plan
    BY <1>1
  <2>2. c[1] \in Steps /\ c[1].do = "version" /\ Count(c[1]) = 3 /\ 1 \in 1 .. Len(c)
    BY <1>3, <1>5, <2>1
  <2>3. plan' = SubSeq(c, 1 + 1, Len(c)) /\ todo' = Transfers(c[1])
    BY <1>4, <2>1
  <2>4. todo' = SubSeq(Transfers(c[1]), 3 * 0 + 0 + 1, 3 * Count(c[1]))
    <3>1. Transfers(c[1]) \in Seq(Xfers) /\ Len(Transfers(c[1])) = 3 * Count(c[1])
      BY <2>2, StepsAreSerial DEF Serial
    <3>2. SubSeq(Transfers(c[1]), 1, Len(Transfers(c[1]))) = Transfers(c[1])
      BY <3>1, SubSeqFull
    <3>3. 3 * 0 + 0 + 1 = 1
      OBVIOUS
    <3> QED BY <2>3, <3>1, <3>2, <3>3
  <2>5. Underway(c[1], 0, 0)' /\ InPhase(0, Payload(c[1], 0))'
    <3>1. phase' = "envelope"
      BY <1>4, <1>7 DEF device
    <3> QED BY <2>2, <3>1 DEF Underway, InPhase
  <2>6. Session(c, 1, 0, 0)'
    BY <2>2, <2>3, <2>4, <2>5 DEF Session
  <2>7. 0 \in 0 .. Count(c[1]) /\ 0 \in 0 .. 2
    BY <2>2
  <2> QED BY <2>2, <2>6, <2>7 DEF InSession
<1> QED BY <1>6, <1>7

-----------------------------------------------------------------------------
(* BootInv is inductive *)

LEMMA BootInvInit ==
  ASSUME FelInit
  PROVE  BootInv
BY DEF FelInit, BootInv, AppInv, HandleInv, PhaseInv, SessionInv

\* An application that is done, and one that does not talk to the device.
LEMMA Concluded ==
  ASSUME NEW say, Conclude(say), BootInv, attempt' \in Nat, UNCHANGED device,
         broken'.in # plug /\ mode = "fel" => phase = "envelope"
  PROVE  BootInv'
<1>1. pc' = "idle" /\ ~working' /\ todo' = <<>>
  BY DEF Conclude
<1>2. AppInv'
  BY <1>1 DEF AppInv
<1>3. HandleInv' /\ SessionInv'
  BY <1>1 DEF HandleInv, SessionInv, BootInv, device
<1>4. PhaseInv'
  BY <1>1 DEF PhaseInv, BootInv, device
<1> QED BY <1>2, <1>3, <1>4 DEF BootInv

LEMMA NotRunning ==
  ASSUME BootInv, pc # "run", broken.in # plug, mode = "fel"
  PROVE  phase = "envelope"
BY DEF BootInv, PhaseInv

\* A step of the application that leaves the device alone and does not run a boot.
LEMMA Apart ==
  ASSUME BootInv, UNCHANGED <<device, broken>>, pc # "run", pc' # "run", AppInv'
  PROVE  BootInv'
BY DEF BootInv, HandleInv, PhaseInv, SessionInv, device

LEMMA WaitKeeps ==
  ASSUME BootInv, StartRecovery \/ Detected \/ WaitFails \/ TriggerFails \/ FelSeen \/ FelTimeout
                  \/ NetworkConnect \/ LinkCommand \/ LinkFails \/ Inspect
  PROVE  BootInv'
<1>1. CASE StartRecovery
  <2>1. attempt' \in Nat /\ broken' = broken /\ UNCHANGED device /\ pc = "idle"
    BY <1>1 DEF StartRecovery, BootInv, AppInv, incidents
  <2>2. CASE Network \/ ~Needed \subseteq files
    <3>1. PICK say : Conclude(say)
      BY <1>1, <2>2 DEF StartRecovery
    <3> QED BY <2>1, <3>1, Concluded, NotRunning
  <2>3. CASE ~(Network \/ ~Needed \subseteq files)
    <3>1. working' = TRUE /\ pc' = "wait" /\ todo' = todo
          /\ plan' = <<BootStep("version", Nothing), BootStep("soc", Nothing)>> \o BootPlan
      BY <1>1, <2>3 DEF StartRecovery
    <3>2. plan' \in BootPlans
      BY <3>1 DEF BootPlan, BootPlans, BootOf
    <3>3. todo = <<>>
      BY <2>1 DEF BootInv, AppInv
    <3>4. BootPlans' = BootPlans
      BY DEF BootPlans, BootOf, Chronos, Trampoline, BootStep
    <3>5. AppInv'
      BY <2>1, <3>1, <3>2, <3>3 DEF AppInv
    <3> QED BY <2>1, <3>1, <3>5, Apart
  <2> QED BY <2>2, <2>3
<1>2. CASE WaitFails \/ TriggerFails \/ FelTimeout \/ LinkFails \/ Inspect
  <2>1. pc # "run" /\ (\E say : Conclude(say)) /\ Calm
    BY <1>2 DEF WaitFails, TriggerFails, FelTimeout, LinkFails, Inspect
  <2>2. PICK say : Conclude(say)
    BY <2>1
  <2>3. attempt' \in Nat /\ broken' = broken /\ UNCHANGED device
    BY <2>1 DEF Calm, BootInv, AppInv, incidents
  <2> QED BY <2>1, <2>2, <2>3, Concluded, NotRunning
<1>3. CASE Detected \/ FelSeen
  <2>1. CASE \E say : Conclude(say)
    <3>1. PICK say : Conclude(say)
      BY <2>1
    <3>2. pc # "run" /\ attempt' \in Nat /\ broken' = broken /\ UNCHANGED device
      BY <1>3 DEF Detected, FelSeen, Calm, BootInv, AppInv, incidents
    <3> QED BY <3>1, <3>2, Concluded, NotRunning
  <2>2. CASE ~(\E say : Conclude(say))
    <3>1. /\ pc \in {"wait", "await"} /\ pc' \in {"trigger", "open"}
               /\ UNCHANGED <<working, plan, todo>>
          /\ UNCHANGED <<device, attempt, broken>>
      BY <1>3, <2>2 DEF Detected, FelSeen, GoTo, Calm, incidents
    <3>2. AppInv'
      BY <3>1 DEF BootInv, AppInv
    <3> QED BY <3>1, <3>2, Apart
  <2> QED BY <2>1, <2>2
<1>4. CASE NetworkConnect
  <2>1. pc = "idle" /\ attempt' \in Nat /\ broken' = broken /\ UNCHANGED device
    BY <1>4 DEF NetworkConnect, Calm, BootInv, AppInv, incidents
  <2>2. CASE Network
    <3>1. working' = TRUE /\ pc' = "link"
      BY <1>4, <2>2 DEF NetworkConnect
    <3>2. AppInv'
      BY <2>1, <3>1 DEF AppInv
    <3> QED BY <2>1, <3>1, <3>2, Apart
  <2>3. CASE ~Network
    <3>1. Conclude("failed")
      BY <1>4, <2>3 DEF NetworkConnect
    <3> QED BY <2>1, <3>1, Concluded, NotRunning
  <2> QED BY <2>2, <2>3
<1>5. CASE LinkCommand
  <2>1. pc = "link" /\ pc' = "link" /\ UNCHANGED <<device, working, attempt, broken>>
    BY <1>5 DEF LinkCommand, incidents
  <2>2. AppInv'
    BY <2>1 DEF BootInv, AppInv
  <2> QED BY <2>1, <2>2, Apart
<1> QED BY <1>1, <1>2, <1>3, <1>4, <1>5

\* What a session relies on does not change.
LEMMA SessionKept ==
  ASSUME InSession,
         UNCHANGED <<plug, soc, phase, inward, wants, request, mem, dram, flushed, plan, todo,
                     handle, attempt, broken>>
  PROVE  InSession'
<1>1. CASE Unsent
  BY <1>1 DEF Unsent, InSession
<1>2. CASE Stuck \/ Spent
  BY <1>2 DEF Stuck, Spent, InSession
<1>3. CASE \E b \in BootPlans : \E i \in 1 .. Len(b) : \E j \in 0 .. Count(b[i]),
        r \in 0 .. 2 : Session(b, i, j, r)
  <2>1. ASSUME NEW b, NEW i, NEW j, NEW r, Session(b, i, j, r)
        PROVE  Session(b, i, j, r)'
    <3>1. \A s : Achieved(s) => Achieved(s)'
      BY DEF Achieved, Holds, Keeps
    <3>2. Underway(b[i], j, r)'
      BY <2>1, <3>1 DEF Session, Underway, Pending, Holds, Keeps
    <3>3. InPhase(r, Payload(b[i], j))'
      BY <2>1 DEF Session, InPhase
    <3> QED BY <2>1, <3>1, <3>2, <3>3 DEF Session
  <2> QED BY <1>3, <2>1 DEF InSession
<1> QED BY <1>1, <1>2, <1>3 DEF InSession

LEMMA TriggerKeeps ==
  ASSUME BootInv, Trigger
  PROVE  BootInv'
<1>1. /\ pc = "trigger" /\ pc' = "await" /\ mode' = "triggered"
      /\ UNCHANGED <<plug, phase, wants, mem, working, plan, todo, attempt, broken>>
  BY DEF Trigger, GoTo, incidents
<1>2. AppInv'
  BY <1>1 DEF BootInv, AppInv
<1>3. HandleInv' /\ PhaseInv' /\ SessionInv'
  BY <1>1 DEF BootInv, HandleInv, PhaseInv, SessionInv
<1> QED BY <1>2, <1>3 DEF BootInv

LEMMA OpenKeeps ==
  ASSUME BootInv, Open
  PROVE  BootInv'
<1>1. pc = "open" /\ Calm /\ attempt' \in Nat /\ broken' = broken /\ UNCHANGED device
      /\ todo = <<>> /\ plan \in BootPlans
  BY DEF Open, Calm, BootInv, AppInv, incidents
<1>2. CASE Opens /\ acl
  <2>1. pc' = "run" /\ handle' = plug /\ UNCHANGED <<working, plan, todo>> /\ mode = "fel"
    BY <1>2 DEF Open, Opens
  <2>2. AppInv'
    BY <1>1, <2>1 DEF BootInv, AppInv
  <2>3. HandleInv'
    BY <1>1, <2>1 DEF BootInv, HandleInv, device
  <2>4. PhaseInv'
    BY <1>1, <2>1 DEF BootInv, PhaseInv, device
  <2>5. Unsent'
    <3>1. broken.in # plug => phase = "envelope"
      BY <1>1, <2>1, NotRunning
    <3>2. plan' \in BootPlans'
      BY <1>1, <2>1 DEF BootPlans, BootOf, Chronos, Trampoline, BootStep
    <3> QED BY <1>1, <2>1, <3>1, <3>2 DEF Unsent, device
  <2> QED BY <2>2, <2>3, <2>4, <2>5 DEF BootInv, SessionInv, InSession
<1>3. CASE ~(Opens /\ acl)
  <2>1. Conclude("failed")
    BY <1>3 DEF Open
  <2> QED BY <1>1, <2>1, Concluded, NotRunning
<1> QED BY <1>2, <1>3

\* Between two operations the device is at the start of an exchange.
LEMMA BetweenOperations ==
  ASSUME BootInv, pc = "run", todo = <<>>, broken.in # plug, mode = "fel"
  PROVE  phase = "envelope"
<1>1. CASE handle # plug
  BY <1>1 DEF BootInv, PhaseInv
<1>2. CASE handle = plug
  <2>1. InSession
    BY <1>2 DEF BootInv, SessionInv
  <2>2. ~Stuck /\ ~Spent
    BY <1>2 DEF Stuck, Spent
  <2>3. Unsent => phase = "envelope"
    BY DEF Unsent
  <2>4. ASSUME NEW b \in BootPlans, NEW i \in 1 .. Len(b), NEW j \in 0 .. Count(b[i]),
                 NEW r \in 0 .. 2,
               Session(b, i, j, r)
        PROVE  phase = "envelope"
    BY <2>4, NextIs DEF Session, InPhase
  <2> QED BY <2>1, <2>2, <2>3, <2>4 DEF InSession
<1> QED BY <1>1, <1>2

LEMMA StartStepKeeps ==
  ASSUME BootInv, StartStep
  PROVE  BootInv'
<1>1. pc = "run" /\ todo = <<>> /\ attempt' \in Nat /\ broken' = broken
        /\ UNCHANGED device
      /\ attempt' = attempt /\ Calm
  BY DEF StartStep, Calm, BootInv, AppInv, incidents
<1>2. CASE MayNotStart(Head(plan))
  <2>1. Conclude("failed")
    BY <1>2 DEF StartStep
  <2> QED BY <1>1, <2>1, Concluded, BetweenOperations
<1>3. CASE ~MayNotStart(Head(plan))
  <2>1. UNCHANGED <<working, pc, handle>>
    BY <1>3 DEF StartStep
  <2>2. AppInv'
    BY <1>1, <2>1 DEF BootInv, AppInv
  <2>3. HandleInv'
    BY <1>1, <2>1 DEF BootInv, HandleInv, device
  <2>4. PhaseInv'
    BY <1>1, <2>1 DEF BootInv, PhaseInv, device
  <2>5. SessionInv'
    <3>1. SUFFICES ASSUME handle = plug, mode = "fel"
                   PROVE  InSession'
      BY <1>1, <2>1 DEF SessionInv, device
    <3>2. InSession /\ pc' = "run"
      BY <1>1, <2>1, <3>1 DEF BootInv, SessionInv
    <3>3. CASE Unsent
      BY <1>1, <3>2, <3>3, FirstOperation DEF BootInv, PhaseInv
    <3>4. ~Stuck /\ ~Spent
      BY <1>1, VersionIs DEF Stuck, Spent, StartStep
    <3>5. ASSUME NEW b \in BootPlans, NEW i \in 1 .. Len(b), NEW j \in 0 .. Count(b[i]),
                   NEW r \in 0 .. 2,
                 Session(b, i, j, r)
          PROVE  InSession'
      <4>1. i + 1 \in 1 .. Len(b) /\ Session(b, i + 1, 0, 0)'
        BY <3>2, <3>5, NextOperation
      <4>2. 0 \in 0 .. Count(b[i + 1]) /\ 0 \in 0 .. 2
        BY <4>1, StepOfBoot
      <4> QED BY <4>1, <4>2 DEF InSession
    <3> QED BY <3>2, <3>3, <3>4, <3>5 DEF InSession
  <2> QED BY <2>2, <2>3, <2>4, <2>5 DEF BootInv
<1> QED BY <1>2, <1>3

LEMMA BootSentKeeps ==
  ASSUME BootInv, BootSent
  PROVE  BootInv'
<1>1. pc = "run" /\ todo = <<>> /\ attempt' \in Nat /\ broken' = broken
        /\ UNCHANGED device
      /\ Conclude("sent")
  BY DEF BootSent, Calm, BootInv, AppInv, incidents
<1> QED BY <1>1, Concluded, BetweenOperations

\* The payload an envelope announces is none.
LEMMA EnvelopeAnnounces ==
  ASSUME BootInv, pc = "run", todo # <<>>, Reachable, phase = "envelope"
  PROVE  Next1.what.of # "envelope"
<1>1. handle = plug /\ mode = "fel"
  BY DEF BootInv, HandleInv, Reachable, Visible
<1>2. InSession
  BY <1>1 DEF BootInv, SessionInv
<1>3. ~Unsent /\ ~Stuck /\ ~Spent
  BY DEF Unsent, Stuck, Spent
<1>4. ASSUME NEW b \in BootPlans, NEW i \in 1 .. Len(b), NEW j \in 0 .. Count(b[i]),
               NEW r \in 0 .. 2,
             Session(b, i, j, r)
      PROVE  Next1.what.of # "envelope"
  <2> DEFINE w == Payload(b[i], j)
  <2>1. r = 0
    BY <1>4 DEF Session, InPhase
  <2>2. Next1.what = [is |-> "envelope", in |-> Inward(w), of |-> w.is]
    BY <1>4, <2>1, NextIs
  <2>3. w.is # "envelope"
    BY DEF Payload, Request
  <2> QED BY <2>2, <2>3
<1> QED BY <1>2, <1>3, <1>4 DEF InSession

\* What a transfer makes of the device, whatever the host hears of it.
LEMMA TakesIs ==
  ASSUME BootInv, pc = "run", todo # <<>>, Reachable, Takes(Next1)
  PROVE  /\ mode' \in {"fel", "started"} /\ plug' = plug
         /\ phase' \in {"envelope", "payload", "status"}
         /\ phase' = "payload" => wants' # "envelope"
         /\ DOMAIN mem' = Addresses
<1>1. mode = "fel" /\ phase \in {"envelope", "payload", "status"} /\ DOMAIN mem = Addresses
  BY DEF BootInv, HandleInv, PhaseInv, Reachable, Visible
<1>2. CASE phase = "envelope"
  <2>1. DeviceEnvelope(Next1) /\ phase' = "payload" /\ mem' = mem /\ plug' = plug
    BY <1>2 DEF Takes
  <2> QED BY <1>1, <1>2, <2>1, EnvelopeAnnounces DEF DeviceEnvelope
<1>3. CASE phase = "payload"
  <2>1. DevicePayload(Next1.what) /\ phase' = "status" /\ mode' = mode /\ plug' = plug
    BY <1>3 DEF Takes
  <2>2. mem' = mem \/ \E x, a : mem' = [mem EXCEPT ![a] = x]
    BY <2>1 DEF DevicePayload
  <2> QED BY <1>1, <2>1, <2>2
<1>4. CASE phase = "status"
  BY <1>1, <1>4 DEF Takes
<1> QED BY <1>1, <1>2, <1>3, <1>4

LEMMA TransferKeeps ==
  ASSUME BootInv, Transfer
  PROVE  BootInv'
<1>1. /\ pc = "run" /\ todo # <<>> /\ Reachable /\ Takes(Next1)
      /\ UNCHANGED <<plug, working, pc, handle, plan, attempt, broken>>
  BY DEF Transfer, Takes, incidents
<1>2. handle = plug
  BY <1>1 DEF Reachable
<1>3. AppInv'
  BY <1>1 DEF BootInv, AppInv
<1>4. HandleInv' /\ PhaseInv'
  BY <1>1, <1>2, TakesIs DEF BootInv, HandleInv, PhaseInv
<1>5. SessionInv'
  BY TransferInSession DEF SessionInv
<1> QED BY <1>3, <1>4, <1>5 DEF BootInv

\* Errors are tolerated at the end of the last operation only.
LEMMA TolerantIsLast ==
  ASSUME BootInv, pc = "run", todo # <<>>, Reachable, Next1.tolerant
  PROVE  plan = <<>>
<1>1. handle = plug /\ mode = "fel"
  BY DEF BootInv, HandleInv, Reachable, Visible
<1>2. InSession /\ ~Unsent /\ ~Spent
  BY <1>1 DEF BootInv, SessionInv, Unsent, Spent
<1>3. ~Stuck
  <2>1. Version \in Seq(Strict) /\ Version # <<>>
    <3>1. BootStep("version", Nothing) \in Steps
          /\ Transfers(BootStep("version", Nothing)) = Version
          /\ BootStep("version", Nothing).do # "jump"
      BY StepsExist DEF BootStep, Transfers
    <3>2. Serial(BootStep("version", Nothing))
      BY <3>1, StepsAreSerial
    <3> QED BY <3>1, <3>2, VersionIs DEF Serial
  <2>2. Head(Version) \in Strict
    BY <2>1
  <2> QED BY <2>2 DEF Stuck, Next1, Strict
<1>4. ASSUME NEW b \in BootPlans, NEW i \in 1 .. Len(b), NEW j \in 0 .. Count(b[i]),
             NEW r \in 0 .. 2, Session(b, i, j, r)
      PROVE  plan = <<>>
  <2> DEFINE s == b[i]  t == Transfers(s)
  <2>1. s \in Steps /\ Serial(s) /\ Count(s) \in Nat /\ Prepared(b, i) /\ Len(b) \in Nat
    BY StepOfBoot
  <2>2. j # Count(s) /\ j \in 0 .. Count(s)
    BY <1>4, NextIs
  <2>3. todo = SubSeq(t, 3 * j + r + 1, 3 * Count(s)) /\ plan = SubSeq(b, i + 1, Len(b))
    BY <1>4 DEF Session
  <2> HIDE DEF s
  <2>4. Next1 = t[3 * j + r + 1]
    BY <2>1, <2>2, <2>3, RestOfStep DEF Next1
  <2>5. s.do = "jump"
    <3>1. SUFFICES ASSUME s.do # "jump"
                   PROVE  FALSE
      OBVIOUS
    <3>2. t \in Seq(Strict) /\ Len(t) = 3 * Count(s)
      BY <2>1, <3>1 DEF Serial
    <3> HIDE DEF t
    <3>3. 3 * j + r + 1 \in 1 .. Len(t)
      BY <2>1, <2>2, <3>2
    <3>4. Next1 \in Strict
      BY <2>4, <3>2, <3>3, ElementOfSeq
    <3> QED BY <3>4 DEF Strict
  <2>6. i = Len(b)
    BY <2>1, <2>5 DEF Prepared, s
  <2>7. i + 1 \in Int /\ Len(b) \in Int /\ Len(b) < i + 1
    BY <2>1, <2>6
  <2> QED BY <2>3, <2>7, SubSeqEmpty
<1> QED BY <1>2, <1>3, <1>4 DEF InSession

LEMMA TransferFailsKeeps ==
  ASSUME BootInv, TransferFails
  PROVE  BootInv'
<1>1. pc = "run" /\ attempt' = attempt /\ attempt' \in Nat /\ broken' = broken /\ UNCHANGED device
      /\ ~Reachable /\ Fails
  BY DEF TransferFails, Calm, BootInv, AppInv, incidents
<1>2. ~(handle = plug /\ mode = "fel")
  BY <1>1 DEF Reachable, Visible
<1>3. CASE Next1.tolerant
  <2>1. UNCHANGED <<working, pc, handle, plan>>
    BY <1>1, <1>3 DEF Fails
  <2>2. AppInv'
    BY <1>1, <2>1 DEF BootInv, AppInv
  <2>3. HandleInv' /\ PhaseInv' /\ SessionInv'
    BY <1>1, <1>2, <2>1 DEF BootInv, HandleInv, PhaseInv, SessionInv, device
  <2> QED BY <2>2, <2>3 DEF BootInv
<1>4. CASE ~Next1.tolerant
  <2>1. Conclude("failed")
    BY <1>1, <1>4 DEF Fails
  <2>2. broken'.in # plug /\ mode = "fel" => phase = "envelope"
    BY <1>1, <1>2 DEF BootInv, PhaseInv
  <2> QED BY <1>1, <2>1, <2>2, Concluded
<1> QED BY <1>3, <1>4

LEMMA TransferErrsKeeps ==
  ASSUME BootInv, TransferErrs
  PROVE  BootInv'
<1>1. /\ pc = "run" /\ todo # <<>> /\ Reachable /\ Fails /\ attempt' = attempt
      /\ Takes(Next1) \/ UNCHANGED device
      /\ broken' = [in |-> handle, by |-> attempt]
  BY DEF TransferErrs
<1>2. handle = plug /\ attempt \in Nat /\ plug \in Nat /\ mode = "fel"
  BY <1>1 DEF Reachable, Visible, BootInv, AppInv, HandleInv
<1>3. /\ mode' \in {"fel", "started"} /\ plug' = plug
      /\ phase' \in {"envelope", "payload", "status"}
      /\ phase' = "payload" => wants' # "envelope"
      /\ DOMAIN mem' = Addresses
  <2>1. CASE Takes(Next1)
    BY <1>1, <2>1, TakesIs
  <2>2. CASE UNCHANGED device
    BY <1>2, <2>2 DEF device, BootInv, PhaseInv
  <2> QED BY <1>1, <2>1, <2>2
<1>4. broken'.in = plug'
  BY <1>1, <1>2, <1>3
<1>5. PhaseInv'
  BY <1>3, <1>4 DEF PhaseInv
<1>6. CASE Next1.tolerant
  <2>1. todo' = <<>> /\ UNCHANGED <<working, pc, handle, plan>>
    BY <1>1, <1>6 DEF Fails
  <2>2. AppInv' /\ HandleInv'
    BY <1>1, <1>3, <2>1 DEF BootInv, AppInv, HandleInv
  <2>3. Spent'
    BY <1>1, <1>6, <2>1, TolerantIsLast DEF Spent
  <2> QED BY <1>5, <2>2, <2>3 DEF BootInv, SessionInv, InSession
<1>7. CASE ~Next1.tolerant
  <2>1. pc' = "idle" /\ ~working' /\ todo' = <<>>
    BY <1>1, <1>7 DEF Fails, Conclude
  <2>2. AppInv' /\ HandleInv' /\ SessionInv'
    BY <1>1, <1>2, <1>3, <2>1 DEF AppInv, HandleInv, SessionInv
  <2> QED BY <1>5, <2>2 DEF BootInv
<1> QED BY <1>6, <1>7

LEMMA KilledKeeps ==
  ASSUME BootInv, Killed
  PROVE  BootInv'
<1>1. attempt' \in Nat /\ UNCHANGED device /\ Conclude(Nothing)
      /\ broken' = IF pc = "run" /\ Reachable THEN [in |-> handle, by |-> attempt] ELSE broken
  BY DEF Killed, BootInv, AppInv
<1>2. broken'.in # plug /\ mode = "fel" => phase = "envelope"
  BY <1>1 DEF Reachable, Visible, BootInv, PhaseInv
<1> QED BY <1>1, <1>2, Concluded

\* A device that was switched, or started something, is another one.
LEMMA ClearedKeeps ==
  ASSUME BootInv, Cleared, UNCHANGED <<host, attempt, broken>>, plug' \in Nat,
         mode' \in {"off", "bootrom", "fel", "ram", "normal"},
         plug' > plug \/ (plug' = plug /\ mode' \in {"off", "ram"})
            \/ (plug' = plug /\ mode = "bootrom" /\ mode' # "fel")
  PROVE  BootInv'
<1>1. UNCHANGED <<working, pc, handle, plan, todo>> /\ phase' = "envelope"
      /\ mem' = [a \in Addresses |-> Nothing]
  BY DEF Cleared, host
<1>2. AppInv'
  BY <1>1 DEF BootInv, AppInv
<1>3. HandleInv' /\ SessionInv'
  <2>1. plug \in Nat /\ (pc = "run" => handle \in Nat /\ handle <= plug)
        /\ (pc = "run" /\ handle = plug => mode # "bootrom")
    BY DEF BootInv, HandleInv
  <2> QED BY <1>1, <2>1 DEF HandleInv, SessionInv
<1>4. PhaseInv'
  BY <1>1 DEF PhaseInv
<1> QED BY <1>2, <1>3, <1>4 DEF BootInv

LEMMA DeviceKeeps ==
  ASSUME BootInv, DeviceStep
  PROVE  BootInv'
<1>1. plug \in Nat
  BY DEF BootInv, HandleInv
<1>2. CASE SwitchOn
  BY <1>1, <1>2, ClearedKeeps DEF SwitchOn, Elsewhere, incidents
<1>3. CASE SwitchOff
  BY <1>1, <1>3, ClearedKeeps DEF SwitchOff, Elsewhere, incidents
<1>4. CASE StartsNormally
  BY <1>1, <1>4, ClearedKeeps DEF StartsNormally, Elsewhere, incidents
<1>5. CASE EntersFel
  BY <1>1, <1>5, ClearedKeeps DEF EntersFel, Elsewhere, incidents
<1>6. CASE StartsRecovery
  BY <1>1, <1>6, ClearedKeeps DEF StartsRecovery, Elsewhere, incidents
<1>7. CASE Udev
  <2>1. UNCHANGED <<mode, plug, soc, phase, inward, wants, request, mem, dram, flushed>>
        /\ UNCHANGED <<working, pc, handle, plan, todo, attempt, broken>>
    BY <1>7 DEF Udev, Elsewhere, host, incidents
  <2>2. AppInv' /\ HandleInv' /\ PhaseInv'
    BY <2>1 DEF BootInv, AppInv, HandleInv, PhaseInv
  <2>3. SessionInv'
    BY <2>1, SessionKept DEF BootInv, SessionInv
  <2> QED BY <2>2, <2>3 DEF BootInv
<1> QED BY <1>2, <1>3, <1>4, <1>5, <1>6, <1>7 DEF DeviceStep

LEMMA UnchangedKeeps ==
  ASSUME BootInv, UNCHANGED <<device, host, attempt, broken>>
  PROVE  BootInv'
<1>1. AppInv' /\ HandleInv' /\ PhaseInv'
  BY DEF BootInv, AppInv, HandleInv, PhaseInv, device, host
<1>2. SessionInv'
  BY SessionKept DEF BootInv, SessionInv, device, host
<1> QED BY <1>1, <1>2 DEF BootInv

LEMMA BootInvNext ==
  ASSUME BootInv, [FelNext]_felVars
  PROVE  BootInv'
<1>1. CASE UNCHANGED felVars
  BY <1>1, UnchangedKeeps DEF felVars, incidents
<1>2. CASE ChangeFiles
  BY <1>2, UnchangedKeeps DEF ChangeFiles, incidents
<1>3. CASE AppStep
  BY <1>3, WaitKeeps, TriggerKeeps, OpenKeeps, StartStepKeeps, BootSentKeeps, TransferKeeps,
     TransferFailsKeeps DEF AppStep
<1> QED BY <1>1, <1>2, <1>3, WaitKeeps, KilledKeeps, TransferErrsKeeps, DeviceKeeps DEF FelNext

-----------------------------------------------------------------------------
(* The theorems about FelBoot *)

\* In every reachable state, for any payloads, devices, errors, kills and boots, the
\* application and the device are where BootInv says.
THEOREM BootInductive == FelSpec => []BootInv
<1>1. FelInit => BootInv
  BY BootInvInit
<1>2. BootInv /\ [FelNext]_felVars => BootInv'
  BY BootInvNext
<1> QED BY <1>1, <1>2, PTL DEF FelSpec

\* Host and device stay in step, whatever is unplugged, fails or is killed, unless
\* an exchange with this very enumeration of the device was broken off by a kill
\* or an error.
THEOREM StaysInStep == FelSpec => []InStep
<1>1. ASSUME BootInv
      PROVE  InStep
  <2>1. SUFFICES ASSUME Blocked, broken.in # plug
                 PROVE  FALSE
    BY DEF InStep
  <2>2. pc = "run" /\ handle = plug /\ mode = "fel" /\ todo # <<>> /\ ~Fits(Next1)
    BY <1>1, <2>1 DEF Blocked, Reachable, Visible, BootInv, HandleInv
  <2>3. InSession /\ ~Unsent /\ ~Stuck /\ ~Spent
    BY <1>1, <2>1, <2>2 DEF BootInv, SessionInv, Unsent, Stuck, Spent
  <2> QED BY <2>2, <2>3, SessionFits DEF InSession
<1> QED BY <1>1, BootInductive, PTL

\* What was done before an operation of a session.
LEMMA DoneBefore ==
  ASSUME NEW b \in BootPlans, NEW i \in 1 .. Len(b), \A h \in 1 .. i - 1 : Achieved(b[h]),
         b[i].do \in {"exe", "jump"}
  PROVE  /\ soc = "r16"
         /\ \A a \in NeedsToRun(b[i].at) : Keeps(a) => Holds(a, Pieces(a))
         /\ b[i].do = "jump" => dram # "none"
         /\ b[i].do = "jump" /\ b[i].at = "trampoline" => flushed
<1>1. Prepared(b, i)
  BY StepOfBoot
<1>2. soc = "r16"
  BY <1>1 DEF Prepared, Before, Achieved, BootStep
<1>3. ASSUME NEW a \in NeedsToRun(b[i].at)
      PROVE  Keeps(a) => Holds(a, Pieces(a))
  <2>1. Before(b, i, BootStep("write", a))
    BY <1>1 DEF Prepared
  <2> QED BY <2>1 DEF Before, Achieved, BootStep
<1>4. b[i].do = "jump" => dram # "none"
  BY <1>1 DEF Prepared, Before, Achieved, BootStep
<1>5. b[i].do = "jump" /\ b[i].at = "trampoline" => flushed
  BY <1>1 DEF Prepared, Before, Achieved, BootStep
<1> QED BY <1>2, <1>3, <1>4, <1>5

\* Only a transfer takes the device from an envelope to its payload.
LEMMA OnlyTransferSends ==
  ASSUME [FelNext]_felVars, phase = "envelope", phase' = "payload"
  PROVE  Transfer \/ TransferErrs
<1>1. phase' # phase /\ phase' # "envelope"
  OBVIOUS
<1>0. SUFFICES ASSUME ~TransferErrs
               PROVE  Transfer
  OBVIOUS
<1>2. ~UNCHANGED felVars /\ ~ChangeFiles /\ ~StartRecovery /\ ~NetworkConnect /\ ~Killed
  BY <1>1 DEF felVars, device, ChangeFiles, StartRecovery, NetworkConnect, Killed, Calm
<1>3. ~DeviceStep
  BY <1>1
     DEF DeviceStep, SwitchOn, SwitchOff, Udev, StartsNormally, EntersFel, StartsRecovery, Cleared
<1>4. AppStep
  BY <1>0, <1>2, <1>3 DEF FelNext
<1>5. ~Detected /\ ~WaitFails /\ ~Trigger /\ ~TriggerFails /\ ~FelSeen /\ ~FelTimeout /\ ~Open
  BY <1>1 DEF Detected, WaitFails, Trigger, TriggerFails, FelSeen, FelTimeout, Open, Calm, device
<1>6. ~StartStep /\ ~BootSent /\ ~TransferFails /\ ~LinkCommand /\ ~LinkFails /\ ~Inspect
  BY <1>1 DEF StartStep, BootSent, TransferFails, LinkCommand, LinkFails, Inspect, Calm, device
<1> QED BY <1>4, <1>5, <1>6 DEF AppStep

\* Only a console executes anything, and only what this boot has written as a
\* whole.  The last jump comes after FES1 and has everything it needs in the DRAM,
\* unless FES1 could not initialise it; and it goes through the trampoline with a
\* clean instruction cache.
THEOREM WholeBootsRun == FelSpec => RunsOnlyWhole
<1>1. ASSUME BootInv, [FelNext]_felVars, pc = "run", Reachable, phase = "envelope",
               phase' = "payload",
             Jumps(Next1)
      PROVE  /\ soc = "r16"
             /\ \A a \in NeedsToRun(request.at) : Keeps(a) => WholeAt(a)
             /\ request.at \notin SRAM => dram # "none"
             /\ request.at = "trampoline" => flushed
  <2>1. todo # <<>>
    BY <1>1, OnlyTransferSends DEF Transfer, TransferErrs
  <2>2. handle = plug /\ mode = "fel" /\ attempt \in Nat
    BY <1>1 DEF Reachable, Visible, BootInv, HandleInv, AppInv
  <2>3. InSession /\ ~Unsent /\ ~Stuck /\ ~Spent
    BY <1>1, <2>1, <2>2 DEF BootInv, SessionInv, Unsent, Stuck, Spent
  <2>4. PICK b \in BootPlans : \E i \in 1 .. Len(b) : \E j \in 0 .. Count(b[i]),
          r \in 0 .. 2 : Session(b, i, j, r)
    BY <2>3 DEF InSession
  <2>5. PICK i \in 1 .. Len(b) : \E j \in 0 .. Count(b[i]), r \in 0 .. 2 : Session(b, i, j, r)
    BY <2>4
  <2>6. PICK j \in 0 .. Count(b[i]), r \in 0 .. 2 : Session(b, i, j, r)
    BY <2>5
  <2>7. Session(b, i, j, 0)
    <3>1. r = 0
      BY <1>1, <2>6 DEF Session, InPhase
    <3> QED BY <2>6, <3>1
  <2>8. b[i].do \in {"exe", "jump"} /\ j = 1
    BY <1>1, <2>1, <2>7, JumpIsAsked
  <2>9. request.at = b[i].at /\ \A h \in 1 .. i - 1 : Achieved(b[h])
    BY <2>7, <2>8 DEF Session, Underway, Pending, Request
  <2>10. /\ soc = "r16"
         /\ \A a \in NeedsToRun(request.at) : Keeps(a) => Holds(a, Pieces(a))
         /\ b[i].do = "jump" => dram # "none"
         /\ b[i].do = "jump" /\ request.at = "trampoline" => flushed
    BY <2>8, <2>9, DoneBefore
  <2>11. b[i] \in Steps
    BY StepOfBoot
  <2>12. b[i].do = "exe" => request.at \in SRAM
    BY <2>9, <2>11 DEF Steps
  <2>13. ASSUME NEW a \in NeedsToRun(request.at), Keeps(a)
         PROVE  WholeAt(a)
    <3>1. mem[a] = [by |-> attempt, pieces |-> 1 .. Pieces(a)]
      BY <2>10, <2>13 DEF Holds
    <3>2. a \in Addresses
      BY <2>8, <2>9, <2>11 DEF NeedsToRun, Steps, Addresses, SRAM
    <3>3. mem[a] \in [by : Nat, pieces : SUBSET Nat]
      BY <2>2, <3>1, <3>2, PiecesType
    <3>4. mem[a] # Nothing
      BY <3>3, NothingAssumption
    <3>5. mem[a].by = attempt /\ mem[a].pieces = 1 .. Pieces(a)
      BY <3>1
    <3> QED BY <3>4, <3>5 DEF WholeAt
  <2> QED BY <2>8, <2>10, <2>12, <2>13 DEF SRAM
<1> QED BY <1>1, BootInductive, PTL DEF FelSpec, RunsOnlyWhole

\* A boot of which no transfer failed and that is reported as sent did jump, in
\* either sequence.
THEOREM SentBootsJumped == FelSpec => SentJumpsWithoutError
<1>1. ASSUME BootInv, [FelNext]_felVars, report' = "sent", report # "sent"
      PROVE  Jumped \/ broken = [in |-> handle, by |-> attempt]
  <2>1. BootSent
    <3>1. mode # "sent" /\ Nothing # "sent" /\ report' # report
      BY <1>1, NothingAssumption DEF BootInv, HandleInv
    <3>2. ~UNCHANGED felVars /\ ~ChangeFiles /\ ~DeviceStep
      BY <3>1
         DEF felVars, ChangeFiles, DeviceStep, SwitchOn, SwitchOff, Udev, StartsNormally, EntersFel,
                  StartsRecovery, Elsewhere
    <3>3. ~StartRecovery /\ ~NetworkConnect /\ ~Killed
      BY <1>1, <3>1 DEF StartRecovery, NetworkConnect, Killed, Conclude
    <3>4. ~Detected /\ ~WaitFails /\ ~Trigger /\ ~TriggerFails /\ ~FelSeen /\ ~FelTimeout /\ ~Open
      BY <1>1, <3>1
         DEF Detected, WaitFails, Trigger, TriggerFails, FelSeen, FelTimeout, Open, Conclude, GoTo
    <3>5. ~StartStep /\ ~Transfer /\ ~TransferFails /\ ~TransferErrs /\ ~LinkCommand /\ ~LinkFails /\ ~Inspect
      BY <1>1, <3>1
         DEF StartStep, Transfer, TransferFails, TransferErrs, Fails, LinkCommand, LinkFails, Inspect,
             Conclude
    <3> QED BY <1>1, <3>2, <3>3, <3>4, <3>5 DEF FelNext, AppStep
  <2>2. SUFFICES ASSUME mode = "fel", plug = handle, ~Spent
                 PROVE  FALSE
    BY DEF Jumped, Spent
  <2>3. pc = "run" /\ todo = <<>> /\ plan = <<>> /\ InSession
    BY <1>1, <2>1, <2>2 DEF BootSent, BootInv, SessionInv
  <2>4. ~Stuck
    BY <2>3, VersionIs DEF Stuck
  <2>5. ~Unsent
    <3>1. ASSUME NEW b \in BootPlans
          PROVE  b # <<>>
      <4>1. b \in Seq(Steps) /\ Len(b) > 2
        BY BootsAreOrdered DEF Ordered
      <4> QED BY <4>1, EmptySeq
    <3> QED BY <2>3, <3>1 DEF Unsent
  <2>6. ASSUME NEW b \in BootPlans, NEW i \in 1 .. Len(b), NEW j \in 0 .. Count(b[i]),
                 NEW r \in 0 .. 2,
               Session(b, i, j, r)
        PROVE  FALSE
    <3>1. b \in Seq(Steps) /\ Len(b) \in Nat /\ b[i] \in Steps /\ Prepared(b, i)
            /\ Count(b[i]) \in Nat
      BY StepOfBoot
    <3>2. j = Count(b[i]) /\ r = 0 /\ Underway(b[i], Count(b[i]), 0)
      BY <2>3, <2>6, NextIs DEF Session
    <3>3. Achieved(b[i])
      BY <3>1, <3>2, WholeStepAchieved
    <3>4. i # Len(b)
      BY <3>1, <3>3 DEF Prepared, Achieved
    <3>5. \A k \in i + 1 .. Len(b) : b[k] \in Steps
      BY <3>1, ElementOfSeq
    <3>6. Len(plan) = Len(b) - i
      <4>1. i + 1 \in Int /\ Len(b) \in Int /\ i + 1 <= Len(b) /\ Len(b) - (i + 1) + 1 = Len(b) - i
        BY <3>1, <3>4
      <4>2. Len(SubSeq(b, i + 1, Len(b))) = Len(b) - (i + 1) + 1
        BY <3>5, <4>1, SubSeqProperties
      <4> QED BY <2>6, <4>1, <4>2 DEF Session
    <3> QED BY <2>3, <3>1, <3>4, <3>6
  <2> QED BY <2>2, <2>3, <2>4, <2>5, <2>6 DEF InSession
<1> QED BY <1>1, BootInductive, PTL DEF FelSpec, SentJumpsWithoutError
=============================================================================
