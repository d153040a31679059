----------------------------- MODULE UsbHotplug -----------------------------
(***************************************************************************)
(* The USB key on the console: the udev handlers pce-usb-attach and        *)
(* pce-usb-detach, the boot script mount-usb-drives, their shared library  *)
(* pce-usb-lib.sh and the launcher gameapp, as concurrent shell processes  *)
(* over one mount table.                                                   *)
(*                                                                         *)
(* udev runs the handlers of one device one after the other, and those of  *)
(* different devices, the boot script, and the launcher side by side; no   *)
(* script takes a lock.  One action per command another process can        *)
(* observe or disturb.                                                     *)
(***************************************************************************)
EXTENDS Naturals, Sequences, FiniteSets, SequencesExt

CONSTANTS
  Devs,        \* partitions of USB keys (/dev/sd?N)
  Published,   \* those that hold a published library
  Nand,        \* the stock ext4 partition of /usr/game
  Boot,        \* the boot script's process
  Wrappers,    \* bound: gameapp wrappers alive at one time
  Sessions     \* circumstances: the partitions in use, the bound on keys plugged
               \* or pulled after power-on, whether everybody waits for the
               \* console to settle, and what else may happen

ASSUME UsbAssumption ==
  /\ Published \subseteq Devs
  /\ Nand \notin Devs /\ Boot \notin Devs
  /\ Sessions \subseteq
       [devs : SUBSET Devs, plugs : Nat, calm : BOOLEAN,
        faults : SUBSET {"bind", "umount", "ioError", "crash", "slowWrapper"}]

VARIABLES
  session,     \* the circumstances of this run, which nothing changes
  present,     \* partitions whose device node exists
  queue,       \* udev events of each partition, not yet handled
  plugs,       \* number of plug and unplug events so far
  mnt,         \* partitions mounted on /mnt/usb, first to last
  game,        \* layers mounted on /usr/game, first to last
  exitFile,    \* /tmp/.game.exit
  starts,      \* "gameapp start" commands that have not run yet
  wrap,        \* the gameapp wrappers and their engines
  proc,        \* the handler each partition (and the boot script) is running
  off          \* "no", or why the console was powered off

mounts == <<mnt, game>>
launcher == <<exitFile, starts, wrap>>
keys == <<session, present, queue, plugs>>
usbVars == <<keys, mounts, launcher, proc, off>>

-----------------------------------------------------------------------------
(* The mount table *)

Kids == {"roms", "save"}
Layer(src) == [src |-> src, roms |-> <<>>, save |-> <<>>]

\* /dev/sd* lines of "mount" for a target, hidden layers included.
Count(target) ==
  CASE target = "mnt"  -> Len(mnt)
    [] target = "game" -> Cardinality({i \in DOMAIN game : game[i].src \in Devs})
    [] target \in Kids ->
         Cardinality(UNION {{i} \X DOMAIN game[i][target] : i \in DOMAIN game})

\* A path is looked up through the top layer of /usr/game.
CanPop(target) ==
  CASE target = "mnt"  -> mnt # <<>>
    [] target = "game" -> game # <<>>
    [] target \in Kids -> game # <<>> /\ Last(game)[target] # <<>>

\* umount -l: the topmost mount at the path goes, with what is mounted below it.
Pop(target) ==
  CASE target = "mnt"  -> mnt' = Front(mnt) /\ UNCHANGED game
    [] target = "game" -> game' = Front(game) /\ UNCHANGED mnt
    [] target \in Kids -> /\ game' = [game EXCEPT ![Len(game)][target] = Front(@)]
                          /\ UNCHANGED mnt

\* Children before their parent (sort -ru).
IfInUse(target) == IF Count(target) > 0 THEN <<target>> ELSE <<>>
TargetsInUse == IfInUse("roms") \o IfInUse("save") \o IfInUse("game")

\* What a test of the key's files can answer: a pulled key may still be cached.
Readable ==
  IF mnt = <<>> THEN {FALSE}
  ELSE IF Last(mnt) \notin Published THEN {FALSE}
  ELSE IF Last(mnt) \in present THEN {TRUE} ELSE BOOLEAN

BindOutcomes == Readable \cup (IF "bind" \in session.faults THEN {FALSE} ELSE {})

-----------------------------------------------------------------------------
(* Processes *)

Idle == [job |-> "none", at |-> "idle", dev |-> Nand, restart |-> FALSE,
         todo |-> <<>>, left |-> 0, then |-> "idle"]
Fresh == [at |-> "none", usb |-> FALSE, layer |-> Nand, cause |-> "none"]

At(p, step) == off = "no" /\ proc[p].at = step
Goto(p, step) == proc' = [proc EXCEPT ![p].at = step]

\* pce_drop_game_binds lists its targets once, then pops them one by one.
DropThen(p, targets, step) ==
  proc' = [proc EXCEPT ![p].at = "drop", ![p].todo = targets, ![p].then = step]

\* rcS goes on to S99first_startup when the boot script ends.
Finish(p) ==
  /\ proc' = [proc EXCEPT ![p] = Idle]
  /\ starts' = IF p = Boot THEN starts + 1 ELSE starts

EnginesRunning == {w \in Wrappers : wrap[w].at = "run"}

Quiet ==
  /\ \A p \in Devs \cup {Boot} : proc[p].job = "none"
  /\ \A d \in Devs : queue[d] = <<>>
  /\ starts = 0
  /\ \A w \in Wrappers : wrap[w].at \in {"none", "run"}

UsbInit ==
  /\ session \in Sessions
  /\ present \in {keys0 \in SUBSET session.devs : session.calm => \A a, b \in keys0 : a = b}
  /\ queue = [d \in Devs |-> IF d \in present THEN <<"add">> ELSE <<>>]  \* cold plug
  /\ plugs = 0
  /\ mnt = <<>>
  /\ game = <<Layer(Nand)>>
  /\ exitFile = FALSE
  /\ starts = 0
  /\ wrap = [w \in Wrappers |-> Fresh]
  /\ proc = [p \in Devs \cup {Boot} |->
               IF p = Boot THEN [Idle EXCEPT !.job = "boot", !.at = "look"] ELSE Idle]
  /\ off = "no"

-----------------------------------------------------------------------------
(* The user and udev *)

Event(d, what) ==
  /\ off = "no" /\ d \in session.devs /\ plugs < session.plugs
  /\ session.calm => Quiet
  /\ plugs' = plugs + 1
  /\ queue' = [queue EXCEPT ![d] = Append(@, what)]
  /\ UNCHANGED <<session, mounts, launcher, proc, off>>

\* The kernel gives a device name out again once nothing uses the old device;
\* until then the same key comes back under another name.
Held(d) ==
  \/ d \in Range(mnt)
  \/ \E i \in DOMAIN game : game[i].src = d \/ d \in Range(game[i].roms) \cup Range(game[i].save)
  \/ \E w \in EnginesRunning : wrap[w].layer = d

Plug(d) ==
  /\ d \notin present /\ ~Held(d)
  /\ present' = present \cup {d}
  /\ Event(d, "add")

Unplug(d) ==
  /\ d \in present
  /\ present' = present \ {d}
  /\ Event(d, "remove")

RunHandler(d) ==
  /\ At(d, "idle") /\ queue[d] # <<>>
  /\ proc' = [proc EXCEPT ![d] =
       IF Head(queue[d]) = "add"
         THEN [Idle EXCEPT !.job = "attach", !.at = "node", !.dev = d]
         ELSE [Idle EXCEPT !.job = "detach", !.at = "look", !.dev = d]]
  /\ queue' = [queue EXCEPT ![d] = Tail(@)]
  /\ UNCHANGED <<session, present, plugs, mounts, launcher, off>>

-----------------------------------------------------------------------------
(* Up to the mount of the key *)

\* [ -b "$DEV" ]
FindNode(p) ==
  /\ At(p, "node")
  /\ IF proc[p].dev \in present THEN Goto(p, "look") /\ UNCHANGED starts ELSE Finish(p)
  /\ UNCHANGED <<keys, mounts, exitFile, wrap, off>>

\* Each script first asks what is mounted on /mnt/usb; the boot script, when
\* calm, starts after the cold-plug events.
LookMounted(p) ==
  /\ At(p, "look")
  /\ p = Boot /\ session.calm => \A d \in Devs : queue[d] = <<>> /\ proc[d].job = "none"
  /\ LET mine == mnt # <<>> /\ Head(mnt) = proc[p].dev
         step == CASE proc[p].job = "boot"   -> IF mnt = <<>> THEN "poll" ELSE "exit"
                   [] proc[p].job = "attach" -> IF mnt = <<>> THEN "mount"
                                                ELSE IF mine THEN "check" ELSE "exit"
                   [] proc[p].job = "detach" -> IF mine THEN "touch" ELSE "exit"
     IN IF step = "exit" THEN Finish(p) ELSE Goto(p, step) /\ UNCHANGED starts
  /\ UNCHANGED <<keys, mounts, exitFile, wrap, off>>

\* A bug: no limit of ten seconds.
PollForever(p) ==
  /\ At(p, "poll")
  /\ \E d \in present : proc' = [proc EXCEPT ![p].at = "mount", ![p].dev = d]
  /\ UNCHANGED <<keys, mounts, launcher, off>>

\* mount-usb-drives: the first node to appear within ten seconds, or none.
PollNode(p) ==
  /\ At(p, "poll")
  /\ \/ \E d \in present : /\ proc' = [proc EXCEPT ![p].at = "mount", ![p].dev = d]
                           /\ UNCHANGED starts
     \/ present = {} /\ Finish(p)
  /\ UNCHANGED <<keys, mounts, exitFile, wrap, off>>

\* mount -t vfat; the kernel refuses the same file system twice at one place.
MountKey(p) ==
  /\ At(p, "mount")
  /\ LET d == proc[p].dev IN
       IF d \in present /\ (mnt = <<>> \/ Last(mnt) # d)
         THEN mnt' = Append(mnt, d) /\ Goto(p, "check") /\ UNCHANGED starts
         ELSE Finish(p) /\ UNCHANGED mnt
  /\ UNCHANGED <<keys, game, exitFile, wrap, off>>

\* pce_check_library before anything is stopped.
CheckLibrary(p) ==
  /\ At(p, "check")
  /\ \E ok \in Readable :
       IF ok
         THEN /\ Goto(p, IF proc[p].job = "boot" THEN "apply" ELSE "engine")
              /\ UNCHANGED <<mnt, starts>>
         ELSE /\ Finish(p)
              /\ mnt' = IF mnt = <<>> THEN mnt ELSE Front(mnt)
  /\ UNCHANGED <<keys, game, exitFile, wrap, off>>

-----------------------------------------------------------------------------
(* Stopping the engine *)

\* Two bugs: the engine is left running, and its restart is forgotten.
SeeEngineOnly(p) ==
  /\ At(p, "engine")
  /\ proc' = [proc EXCEPT ![p].restart = EnginesRunning # {}, ![p].at = "apply"]
  /\ UNCHANGED <<keys, mounts, launcher, off>>

\* pidof m2engage
SeeEngine(p) ==
  /\ At(p, "engine")
  /\ proc' = [proc EXCEPT ![p].restart = EnginesRunning # {},
                          ![p].at = IF EnginesRunning # {} THEN "touch" ELSE "apply"]
  /\ UNCHANGED <<keys, mounts, launcher, off>>

\* A bug: the kill is not announced.
TouchNothing(p) == At(p, "touch") /\ Goto(p, "kill") /\ UNCHANGED <<keys, mounts, launcher, off>>

\* pce_kill_engine: touch .game.exit, killall -9, sleep 1.
TouchExit(p) ==
  /\ At(p, "touch")
  /\ exitFile' = TRUE
  /\ Goto(p, "kill")
  /\ UNCHANGED <<keys, mounts, starts, wrap, off>>

KillEngine(p) ==
  /\ At(p, "kill")
  /\ wrap' = [w \in Wrappers |->
                IF wrap[w].at = "run" THEN [wrap[w] EXCEPT !.at = "exited", !.cause = "killed"]
                                      ELSE wrap[w]]
  /\ Goto(p, "sleep")
  /\ UNCHANGED <<keys, mounts, exitFile, starts, off>>

\* The second is long enough for the wrapper's tests, unless it is slow.
Sleep(p) ==
  /\ At(p, "sleep")
  /\ "slowWrapper" \in session.faults \/ \A w \in Wrappers : wrap[w].at # "exited"
  /\ IF proc[p].job = "detach" THEN DropThen(p, TargetsInUse, "remount") ELSE Goto(p, "apply")
  /\ UNCHANGED <<keys, mounts, launcher, off>>

-----------------------------------------------------------------------------
(* pce_apply_bind and pce_drop_binds *)

ApplyBind(p) ==
  /\ At(p, "apply")
  /\ \E ok \in Readable :
       IF ok THEN DropThen(p, TargetsInUse, "bindGame") ELSE Goto(p, "failed")
  /\ UNCHANGED <<keys, mounts, launcher, off>>

\* pop_sd_binds_on: count first, then unmount exactly that many times.
CountLayers(p) ==
  /\ At(p, "drop")
  /\ proc' = IF proc[p].todo = <<>>
               THEN [proc EXCEPT ![p].at = proc[p].then]
               ELSE [proc EXCEPT ![p].at = "pop", ![p].left = Count(Head(proc[p].todo))]
  /\ UNCHANGED <<keys, mounts, launcher, off>>

PopLayer(p) ==
  /\ At(p, "pop") /\ proc[p].left > 0
  /\ CanPop(Head(proc[p].todo))
  /\ Pop(Head(proc[p].todo))
  /\ proc' = [proc EXCEPT ![p].left = @ - 1]
  /\ UNCHANGED <<keys, launcher, off>>

\* All popped, or UNMOUNT FAILED: on to the next target.
NextTarget(p) ==
  /\ At(p, "pop")
  /\ proc[p].left = 0 \/ ~CanPop(Head(proc[p].todo)) \/ "umount" \in session.faults
  /\ proc' = [proc EXCEPT ![p].at = "drop", ![p].todo = Tail(@), ![p].left = 0]
  /\ UNCHANGED <<keys, mounts, launcher, off>>

BindGame(p) ==
  /\ At(p, "bindGame")
  /\ \E ok \in BindOutcomes :
       IF ok THEN game' = Append(game, Layer(Last(mnt))) /\ Goto(p, "roms")
             ELSE Goto(p, "failed") /\ UNCHANGED game
  /\ UNCHANGED <<keys, mnt, launcher, off>>

\* A bug: what is bound already stays when a bind fails.
BindKidOnly(p, kid) ==
  /\ At(p, kid)
  /\ \E ok \in BindOutcomes :
       IF ok /\ game # <<>>
         THEN /\ game' = [game EXCEPT ![Len(game)][kid] = Append(@, Last(mnt))]
              /\ IF kid = "roms" THEN Goto(p, "save") /\ UNCHANGED starts
                 ELSE IF proc[p].restart THEN Goto(p, "schedule") /\ UNCHANGED starts
                 ELSE Finish(p)
         ELSE Goto(p, "failed") /\ UNCHANGED <<game, starts>>
  /\ UNCHANGED <<keys, mnt, exitFile, wrap, off>>

\* The published ROMs, then the published saves, on the top layer.
BindKid(p, kid) ==
  /\ At(p, kid)
  /\ \E ok \in BindOutcomes :
       IF ok /\ game # <<>>
         THEN /\ game' = [game EXCEPT ![Len(game)][kid] = Append(@, Last(mnt))]
              /\ IF kid = "roms" THEN Goto(p, "save") /\ UNCHANGED starts
                 ELSE IF proc[p].restart THEN Goto(p, "schedule") /\ UNCHANGED starts
                 ELSE Finish(p)
         ELSE DropThen(p, TargetsInUse, "failed") /\ UNCHANGED <<game, starts>>
  /\ UNCHANGED <<keys, mnt, exitFile, wrap, off>>

BindFailed(p) ==
  /\ At(p, "failed")
  /\ IF proc[p].job = "boot" THEN Goto(p, "umount") ELSE DropThen(p, TargetsInUse, "remount")
  /\ UNCHANGED <<keys, mounts, launcher, off>>

\* pce_drop_binds: the stock partition comes back if nothing is mounted; the
\* detach handler then pops every layer of /mnt/usb.
RemountStock(p) ==
  /\ At(p, "remount")
  /\ game' = IF game = <<>> THEN <<Layer(Nand)>> ELSE game
  /\ IF proc[p].job = "detach" THEN DropThen(p, <<"mnt">>, "schedule") ELSE Goto(p, "umount")
  /\ UNCHANGED <<keys, mnt, launcher, off>>

UnmountKey(p) ==
  /\ At(p, "umount")
  /\ mnt' = IF mnt = <<>> THEN mnt ELSE Front(mnt)
  /\ IF proc[p].restart THEN Goto(p, "schedule") /\ UNCHANGED starts ELSE Finish(p)
  /\ UNCHANGED <<keys, game, exitFile, wrap, off>>

\* pce_schedule_start: detached, it runs whenever it runs.
ScheduleStart(p) ==
  /\ At(p, "schedule")
  /\ starts' = starts + 1
  /\ proc' = [proc EXCEPT ![p] = Idle]
  /\ UNCHANGED <<keys, mounts, exitFile, wrap, off>>

-----------------------------------------------------------------------------
(* gameapp *)

\* rm .game.exit; StartGame &
StartGame(w) ==
  /\ off = "no" /\ starts > 0
  /\ wrap[w].at = "none"
  /\ starts' = starts - 1
  /\ exitFile' = FALSE
  /\ wrap' = [wrap EXCEPT ![w] = [Fresh EXCEPT !.at = "start"]]
  /\ UNCHANGED <<keys, mounts, proc, off>>

\* [ -f /usr/game/lib/m2hook_print.so ]: only the key's tree has the hook.
ChoosePreload(w) ==
  /\ off = "no" /\ wrap[w].at = "start"
  /\ \E usb \in IF game = <<>> \/ Last(game).src = Nand THEN {FALSE}
                ELSE IF Last(game).src \in present THEN {TRUE} ELSE BOOLEAN :
       wrap' = [wrap EXCEPT ![w].at = "exec", ![w].usb = usb]
  /\ UNCHANGED <<keys, mounts, exitFile, starts, proc, off>>

\* cd /usr/game && ./m2engage
ExecEngine(w) ==
  /\ off = "no" /\ wrap[w].at = "exec"
  /\ wrap' = [wrap EXCEPT ![w] =
       IF game # <<>> /\ Last(game).src \in present \cup {Nand}
         THEN [@ EXCEPT !.at = "run", !.layer = Last(game).src]
         ELSE [@ EXCEPT !.at = "exited", !.cause = "noEngine"]]
  /\ UNCHANGED <<keys, mounts, exitFile, starts, proc, off>>

EngineEnds(w, cause) ==
  /\ off = "no" /\ wrap[w].at = "run"
  /\ cause \in {"user"} \cup session.faults
  /\ cause = "ioError" => wrap[w].layer \in Devs \ present
  /\ wrap' = [wrap EXCEPT ![w].at = "exited", ![w].cause = cause]
  /\ UNCHANGED <<keys, mounts, exitFile, starts, proc, off>>

\* The engine was killed on purpose, or its key is gone.
Expected(w) == exitFile \/ (wrap[w].usb /\ mnt = <<>>)

\* Otherwise shutdown-detection, and poweroff even if that one returns.
AfterEngine(w) ==
  /\ off = "no" /\ wrap[w].at = "exited"
  /\ off' = IF Expected(w) THEN "no" ELSE wrap[w].cause
  /\ wrap' = [wrap EXCEPT ![w] = Fresh]
  /\ UNCHANGED <<keys, mounts, exitFile, starts, proc>>

-----------------------------------------------------------------------------
HandlerStep(p) ==
  \/ FindNode(p) \/ LookMounted(p) \/ PollNode(p) \/ MountKey(p) \/ CheckLibrary(p)
  \/ SeeEngine(p) \/ TouchExit(p) \/ KillEngine(p) \/ Sleep(p)
  \/ ApplyBind(p) \/ CountLayers(p) \/ PopLayer(p) \/ NextTarget(p)
  \/ BindGame(p) \/ (\E kid \in Kids : BindKid(p, kid)) \/ BindFailed(p)
  \/ RemountStock(p) \/ UnmountKey(p) \/ ScheduleStart(p)

LauncherStep(w) ==
  StartGame(w) \/ ChoosePreload(w) \/ ExecEngine(w) \/ AfterEngine(w)

UsbNext ==
  \/ \E d \in Devs : Plug(d) \/ Unplug(d) \/ RunHandler(d)
  \/ \E p \in Devs \cup {Boot} : HandlerStep(p)
  \/ \E w \in Wrappers : LauncherStep(w) \/ \E cause \in {"user", "crash", "ioError"} : EngineEnds(w, cause)

UsbSpec == UsbInit /\ [][UsbNext]_usbVars

\* Every script and every udev worker is a process the kernel schedules.
UsbFairSpec ==
  /\ UsbSpec
  /\ \A d \in Devs : WF_usbVars(RunHandler(d))
  /\ \A p \in Devs \cup {Boot} : WF_usbVars(HandlerStep(p))
  /\ \A w \in Wrappers : WF_usbVars(LauncherStep(w))

-----------------------------------------------------------------------------
(* Properties *)

Layers == [src : Devs \cup {Nand}, roms : Seq(Devs), save : Seq(Devs)]

\* The shape of the mount table, the processes and the launcher's files.
UsbTypeOK ==
  /\ present \subseteq Devs
  /\ queue \in [Devs -> Seq({"add", "remove"})]
  /\ session \in Sessions /\ plugs \in 0..session.plugs
  /\ mnt \in Seq(Devs)
  /\ game \in Seq(Layers)
  /\ exitFile \in BOOLEAN
  /\ starts \in Nat
  /\ wrap \in [Wrappers -> [at : {"none", "start", "exec", "run", "exited"}, usb : BOOLEAN,
                            layer : Devs \cup {Nand},
                            cause : {"none", "user", "crash", "ioError", "killed", "noEngine"}]]
  /\ \A p \in Devs \cup {Boot} :
       /\ proc[p].job \in {"none", "attach", "detach", "boot"}
       /\ proc[p].left \in Nat
       /\ proc[p].dev \in Devs \cup {Nand}
  /\ off \in {"no", "user", "crash", "ioError", "killed", "noEngine"}

\* Once everything has settled exactly one engine runs, from the tree that is
\* visible at /usr/game, with the hook when that tree is the key's.
OneMatchingEngine ==
  Quiet /\ off = "no" =>
    \E w \in Wrappers :
      /\ EnginesRunning = {w}
      /\ wrap[w].layer = Last(game).src
      /\ wrap[w].usb <=> wrap[w].layer # Nand

\* Once everything has settled either the key is bound whole, one layer with
\* its ROMs and saves, or nothing of any key is left in the mount table
\* (pce_apply_bind: "dropping partial USB mounts").
AllOrNothing ==
  Quiet /\ off = "no" =>
    \/ mnt = <<>> /\ game = <<Layer(Nand)>>
    \/ /\ Len(mnt) = 1 /\ mnt[1] \in present
       /\ game = <<Layer(Nand), [src |-> mnt[1], roms |-> mnt, save |-> mnt]>>

\* When people wait for the console, mounts and engine agree once everything has
\* settled, whichever binds failed.
SettledWhole == session.calm => AllOrNothing /\ OneMatchingEngine

\* When people wait, the console is powered off only because the user quit
\* (gameapp: "Skip in either case; let pce-usb-{attach,detach} restart the engine").
PowerOffOnlyByUser == session.calm => off \in {"no", "user"}

\* "Replace mounts only after the old engine has stopped" (pce-usb-attach), when
\* nobody plugs a key while the console starts an engine.
MountsReplacedWithoutEngine == [][session.calm /\ game' # game => EnginesRunning = {}]_usbVars

\* However the keys come and go, the scripts come to rest: no handler waits for
\* something that no longer happens.
Settles == <>[](Quiet \/ off # "no")

=============================================================================
