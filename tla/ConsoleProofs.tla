--------------------------- MODULE ConsoleProofs ---------------------------
(***************************************************************************)
(* What runs on the console: the scripts that bind a USB key keep one      *)
(* picture of it, mounts, events and engine alike, as long as people wait; *)
(* the natives that read a folder keep the staged tree, the worker and the *)
(* tickets in order.                                                       *)
(***************************************************************************)
EXTENDS UsbHotplug, CatalogRuntime, FiniteSetTheorems, TLAPS

-----------------------------------------------------------------------------
(* The mount table of one key *)

Procs == Devs \cup {Boot}
Bare == <<Layer(Nand)>>
Keyed(d, r, s) == <<Layer(Nand), [src |-> d, roms |-> r, save |-> s]>>

Todos == {<<>>, <<"mnt">>, <<"game">>, <<"roms", "game">>, <<"save", "game">>,
          <<"roms", "save", "game">>}

\* What is bound of a key when these targets are still to be dropped.
GameFor(d, todo) ==
  CASE todo = <<"game">>                 -> Keyed(d, <<>>, <<>>)
    [] todo = <<"roms", "game">>         -> Keyed(d, <<d>>, <<>>)
    [] todo = <<"save", "game">>         -> Keyed(d, <<>>, <<d>>)
    [] todo = <<"roms", "save", "game">> -> Keyed(d, <<d>>, <<d>>)
    [] OTHER                             -> Bare

Unbound == mnt = <<>> /\ game = Bare
Bound(d) == mnt = <<d>> /\ game = Keyed(d, <<d>>, <<d>>)
MountedBare(d) == mnt = <<d>> /\ game = Bare
Usable(d) == d \in present /\ d \in Published

\* Steps at which a script has no business with the mounts, and the others.
Steady == {"idle", "node", "look", "poll", "schedule"}
Changing == {"mount", "check", "engine", "touch", "kill", "sleep", "apply", "drop", "pop",
             "bindGame", "roms", "save", "failed", "remount", "umount"}

\* Steps before which the engine has been stopped.
AfterKill == {"apply", "drop", "pop", "bindGame", "roms", "save", "failed", "remount",
              "umount", "schedule"}

Jobs == [job : {"none", "attach", "detach", "boot"}, at : Steady \cup Changing,
         dev : Devs \cup {Nand}, restart : BOOLEAN, todo : Todos, left : {0, 1},
         then : {"idle", "bindGame", "failed", "remount", "schedule"}]
Wraps == [at : {"none", "start", "exec", "run", "exited"}, usb : BOOLEAN,
          layer : Devs \cup {Nand}, cause : {"none", "user", "killed"}]

Shapes ==
  /\ session \in Sessions /\ present \subseteq Devs
  /\ queue \in [Devs -> {<<>>, <<"add">>, <<"remove">>}]
  /\ exitFile \in BOOLEAN /\ starts \in {0, 1}
  /\ wrap \in [Wrappers -> Wraps] /\ proc \in [Procs -> Jobs]
  /\ off \in {"no", "user"}

\* Which steps each kind of script has.
JobSteps(j) ==
  /\ j.job = "none" <=> j.at = "idle"
  /\ j.at \in {"node", "engine"} => j.job = "attach"
  /\ j.at = "poll" => j.job = "boot"
  /\ j.at \in {"touch", "kill", "sleep", "remount", "schedule"} => j.job \in {"attach", "detach"}
  /\ j.at \in {"mount", "check", "apply", "bindGame", "roms", "save", "failed", "umount"} =>
       j.job \in {"attach", "boot"}
  /\ j.job \in {"boot", "detach"} \/ j.at \in {"node", "look", "mount", "check", "engine"} =>
       ~j.restart
  /\ j.job = "attach" /\ j.at \in {"touch", "kill", "sleep", "schedule"} => j.restart
  /\ j.at \in {"drop", "pop"} =>
       \/ j.then = "bindGame" /\ j.job # "detach" /\ j.at = "drop" /\ j.todo = <<>>
       \/ j.then = "failed" /\ j.job # "detach" /\ j.todo # <<"mnt">>
       \/ j.then = "remount" /\ j.job # "boot" /\ j.todo # <<"mnt">>
       \/ j.then = "schedule" /\ j.job = "detach" /\ j.todo \in {<<>>, <<"mnt">>}
  /\ j.at = "pop" => j.todo # <<>>
JobInv ==
  \A p \in Procs :
    /\ JobSteps(proc[p])
    /\ p # Boot => proc[p].job # "boot" /\ (proc[p].job # "none" => proc[p].dev = p)
    /\ p = Boot => proc[p].job \in {"none", "boot"}
    /\ proc[p].job # "none" /\ proc[p].at \notin {"look", "poll"} => proc[p].dev \in Devs

\* What is mounted at each step of the script that changes mounts.
StepMounts(j) ==
  LET d == j.dev IN
  /\ j.at = "poll" => Unbound
  /\ j.at = "mount" => Unbound /\ d \in present
  /\ j.at = "check" => MountedBare(d) /\ d \in present
  /\ j.at \in {"engine", "apply", "bindGame", "failed"} => MountedBare(d) /\ Usable(d)
  /\ j.at \in {"touch", "kill", "sleep"} =>
       IF j.job = "detach" THEN Bound(d) ELSE MountedBare(d) /\ Usable(d)
  /\ j.at = "roms" => mnt = <<d>> /\ game = Keyed(d, <<>>, <<>>) /\ Usable(d)
  /\ j.at = "save" => mnt = <<d>> /\ game = Keyed(d, <<d>>, <<>>) /\ Usable(d)
  /\ j.at \in {"drop", "pop"} =>
       LET todo == IF j.at = "pop" /\ j.left = 0 THEN Tail(j.todo) ELSE j.todo IN
       /\ game = GameFor(d, todo)
       /\ mnt = IF j.then = "schedule" /\ todo = <<>> THEN <<>> ELSE <<d>>
       /\ j.then \in {"bindGame", "failed"} => Usable(d)
  /\ j.at \in {"remount", "umount"} => MountedBare(d)
  /\ j.at = "schedule" /\ j.job = "detach" => Unbound

\* Otherwise the key is bound whole or not at all.
WholeOrNone == Unbound \/ \E d \in Devs : Bound(d)
MountInv ==
  /\ \A p \in Procs : StepMounts(proc[p])
  /\ (\A p \in Procs : proc[p].at \in Steady) => WholeOrNone

\* Nodes and events agree, and nobody attaches a key that is bound.
Stirring(d) == queue[d] # <<>> \/ proc[d].job # "none"
Attaching(d) ==
  queue[d] = <<"add">> \/ (proc[d].job = "attach" /\ proc[d].at \in {"node", "look"})
Detaching(d) == queue[d] = <<"remove">> \/ proc[d].job = "detach"
EventInv ==
  /\ \A d \in Devs :
       /\ Attaching(d) => d \in present /\ mnt # <<d>>
       /\ Detaching(d) => d \notin present
       /\ mnt = <<d>> /\ d \notin present => Detaching(d)
       /\ queue[d] # <<>> => proc[d].job = "none"
  /\ \A d, e \in Devs : Stirring(d) /\ Stirring(e) => d = e

\* One thing happens at a time: the boot, then an event, then a start.
Launching == starts = 1 \/ \E w \in Wrappers : wrap[w].at \in {"start", "exec"}
TurnInv ==
  /\ proc[Boot].job = "boot" =>
       /\ proc[Boot].at # "look" => \A d \in Devs : ~Stirring(d)
       /\ starts = 0 /\ ~exitFile /\ \A w \in Wrappers : wrap[w].at = "none"
       /\ \A d \in Devs : ~Detaching(d) /\ ~proc[d].restart
  /\ Launching => proc[Boot].job = "none" /\ \A d \in Devs : ~Stirring(d)
  /\ starts = 1 => \A w \in Wrappers : wrap[w].at = "none"
  /\ \A v, w \in Wrappers : wrap[v].at # "none" /\ wrap[w].at # "none" => v = w

\* The script has announced that it kills the engine, and will start one.
WillStart(j) == (j.job = "detach" /\ j.at # "look") \/ (j.job = "attach" /\ j.restart)
Announced(j) == WillStart(j) /\ j.at # "touch"
Leaving(w) == wrap[w].at = "exited" /\ ~exitFile

\* The engine and what it was started from.
EngineInv ==
  /\ \A w \in Wrappers :
       /\ wrap[w].at = "exec" => (wrap[w].usb <=> Last(game).src # Nand)
       /\ wrap[w].at = "run" =>
            wrap[w].layer = Last(game).src /\ (wrap[w].usb <=> wrap[w].layer # Nand)
       /\ wrap[w].at = "exited" =>
            /\ wrap[w].cause \in {"user", "killed"}
            /\ wrap[w].cause = "killed" => exitFile
            /\ ~exitFile /\ wrap[w].usb => mnt # <<>>
  /\ \A p \in Procs :
       /\ proc[p].job = "attach" /\ proc[p].at \in Changing =>
            \A w \in Wrappers : wrap[w].at \in {"run", "exited"} => ~wrap[w].usb
       /\ proc[p].at \in AfterKill \cup {"sleep"} => EnginesRunning = {}
       /\ proc[p].at \in AfterKill /\ WillStart(proc[p]) =>
            \A w \in Wrappers : wrap[w].at = "none"
       /\ Announced(proc[p]) => exitFile
  /\ exitFile => starts = 1 \/ \E p \in Procs : Announced(proc[p])

\* An engine runs, or one will be started, or the console powers off.
StartInv ==
  off = "no" =>
    \/ proc[Boot].job = "boot" \/ starts = 1
    \/ \E w \in Wrappers : wrap[w].at \in {"start", "exec", "run"} \/ Leaving(w)
    \/ \E p \in Procs : WillStart(proc[p])

Calm == Shapes /\ JobInv /\ MountInv /\ EventInv /\ TurnInv /\ EngineInv /\ StartInv
CalmInv == session.calm => Calm

-----------------------------------------------------------------------------
(* One script moves *)

Moves(p) ==
  /\ proc' \in [Procs -> Jobs]
  /\ \A q \in Procs : q # p => proc'[q] = proc[q]

\* The script whose turn it is.
Turns(p) ==
  /\ proc[p].job # "none"
  /\ p = Boot /\ proc[p].at = "look" => \A d \in Devs : ~Stirring(d)

\* What rests while p moves.
Elsewhere(p) ==
  /\ \A q \in Procs : q # p =>
       \/ proc[q].at = "idle" /\ proc[q].job = "none"
       \/ q = Boot /\ proc[q].at = "look" /\ proc[q].job = "boot"
  /\ \A d \in Devs : queue[d] = <<>> /\ (d # p => ~Stirring(d))
  /\ starts = 0 /\ \A w \in Wrappers : wrap[w].at \notin {"start", "exec"}

LEMMA Alone ==
  ASSUME Shapes, JobInv, EventInv, TurnInv, NEW p \in Procs, Turns(p)
  PROVE  Elsewhere(p)
<1> USE UsbAssumption
<1>1. \A d \in Devs : d # p => ~Stirring(d)
  <2>1. CASE p = Boot BY <2>1 DEF TurnInv, Turns, JobInv, Procs
  <2>2. CASE p \in Devs
    BY <2>2 DEF EventInv, Turns, Stirring
  <2>3. QED BY <2>1, <2>2 DEF Procs
<1>2. \A d \in Devs : queue[d] = <<>>
  <2>1. CASE p = Boot BY <2>1, <1>1 DEF Stirring
  <2>2. CASE p \in Devs
    BY <1>1, <2>2 DEF EventInv, Turns, Stirring
  <2>3. QED BY <2>1, <2>2 DEF Procs
<1>3. ~Launching
  <2>1. CASE p = Boot BY <2>1 DEF TurnInv, Turns
  <2>2. CASE p \in Devs BY <2>2 DEF TurnInv, Turns, Stirring
  <2>3. QED BY <2>1, <2>2 DEF Procs
<1>4. starts = 0 /\ \A w \in Wrappers : wrap[w].at \notin {"start", "exec"}
  BY <1>3 DEF Launching, Shapes
<1>5. ASSUME NEW q \in Procs, q # p
      PROVE  \/ proc[q].at = "idle" /\ proc[q].job = "none"
             \/ q = Boot /\ proc[q].at = "look" /\ proc[q].job = "boot"
  <2>1. CASE q \in Devs
    BY <1>1, <1>5, <2>1 DEF Stirring, JobInv, JobSteps, Procs
  <2>2. CASE q = Boot
    <3>1. p \in Devs BY <1>5, <2>2 DEF Procs
    <3>2. Stirring(p) BY <3>1 DEF Turns, Stirring
    <3>3. proc[q].job \in {"none", "boot"} BY <2>2, <1>5 DEF JobInv
    <3>4. QED BY <2>2, <3>1, <3>2, <3>3, <1>5 DEF TurnInv, JobInv, JobSteps
  <2>3. QED BY <2>1, <2>2 DEF Procs
<1>6. QED BY ONLY <1>1, <1>2, <1>4, <1>5 DEF Elsewhere

LEMMA StepJob ==
  ASSUME Shapes, JobInv, NEW p \in Procs, Moves(p), JobSteps(proc[p])',
         proc'[p].job \in {"none", proc[p].job},
         proc'[p].job # "none" =>
           proc'[p].dev = proc[p].dev \/ (p = Boot /\ proc'[p].dev \in Devs),
         proc'[p].job # "none" /\ proc'[p].at \notin {"look", "poll"} => proc'[p].dev \in Devs
  PROVE  JobInv'
<1> SUFFICES ASSUME NEW q \in Procs
             PROVE  /\ JobSteps(proc'[q])
                    /\ q # Boot =>
                         proc'[q].job # "boot" /\ (proc'[q].job # "none" => proc'[q].dev = q)
                    /\ q = Boot => proc'[q].job \in {"none", "boot"}
                    /\ proc'[q].job # "none" /\ proc'[q].at \notin {"look", "poll"} =>
                         proc'[q].dev \in Devs
  BY DEF JobInv, JobSteps, Procs
<1>1. CASE q = p BY <1>1 DEF JobInv, JobSteps
<1>2. CASE q # p BY <1>2 DEF JobInv, Moves
<1>3. QED BY <1>1, <1>2

LEMMA StepMount ==
  ASSUME NEW p \in Procs, Moves(p), Elsewhere(p), StepMounts(proc[p])',
         proc'[p].at \in Steady => WholeOrNone'
  PROVE  MountInv'
<1>1. ASSUME NEW q \in Procs PROVE StepMounts(proc[q])'
  <2>1. CASE q = p BY <2>1
  <2>2. CASE q # p
    <3>1. proc'[q].at \in {"idle", "look"} BY <2>2 DEF Elsewhere, Moves
    <3>2. QED BY <3>1 DEF StepMounts
  <2>3. QED BY <2>1, <2>2
<1>2. QED BY <1>1 DEF MountInv, Procs

\* How the mount of the key may change under the events.
Landing(p) ==
  \/ /\ mnt' = mnt
     /\ proc'[p].job = proc[p].job \/ proc[p].job # "detach" \/ mnt # <<p>>
     /\ proc'[p].at \in {"node", "look"} => proc[p].at \in {"node", "look"}
  \/ proc'[p].at \notin {"node", "look"} /\ (mnt' = <<>> \/ \E d \in present : mnt' = <<d>>)

LEMMA StepEvent ==
  ASSUME Shapes, EventInv, NEW p \in Procs, Moves(p), Elsewhere(p), UNCHANGED <<present, queue>>,
         proc[p].job # "none", proc'[p].job \in {"none", proc[p].job}, Landing(p)
  PROVE  EventInv'
<1> USE UsbAssumption
<1>1. ASSUME NEW d \in Devs
      PROVE  (/\ Attaching(d) => d \in present /\ mnt # <<d>>
              /\ Detaching(d) => d \notin present
              /\ mnt = <<d>> /\ d \notin present => Detaching(d)
              /\ queue[d] # <<>> => proc[d].job = "none")'
  <2>0. d \in Procs /\ queue[d] = <<>> BY DEF Procs, Elsewhere
  <2>1. CASE d = p
    BY <2>0, <2>1 DEF EventInv, Landing, Attaching, Detaching
  <2>2. CASE d # p
    <3>1. proc'[d] = proc[d] /\ proc[d].job = "none"
      BY <2>0, <2>2 DEF Elsewhere, Moves, Stirring
    <3>2. ~Attaching(d)' /\ ~Detaching(d)'
      BY <2>0, <3>1 DEF Attaching, Detaching
    <3>3. ~(mnt = <<d>> /\ d \notin present)
      BY <2>0, <3>1 DEF EventInv, Detaching
    <3>4. ~(mnt' = <<d>> /\ d \notin present')
      BY <3>3 DEF Landing
    <3>5. QED BY <2>0, <3>1, <3>2, <3>4
  <2>3. QED BY <2>1, <2>2
<1>2. ASSUME NEW d \in Devs, NEW e \in Devs, Stirring(d)', Stirring(e)'
      PROVE  d = e
  <2>1. \A f \in Devs : Stirring(f)' => f = p
    BY DEF Stirring, Elsewhere, Moves, Procs
  <2>2. QED BY <1>2, <2>1
<1>3. QED
  <2>1. \A d \in Devs :
          (/\ Attaching(d) => d \in present /\ mnt # <<d>>
           /\ Detaching(d) => d \notin present
           /\ mnt = <<d>> /\ d \notin present => Detaching(d)
           /\ queue[d] # <<>> => proc[d].job = "none")'
    BY <1>1
  <2>2. \A d, e \in Devs : Stirring(d)' /\ Stirring(e)' => d = e BY <1>2
  <2>3. QED BY <2>1, <2>2 DEF EventInv

LEMMA StepTurn ==
  ASSUME Shapes, JobInv, TurnInv, NEW p \in Procs, Moves(p), Elsewhere(p), UNCHANGED queue,
         proc[p].job # "none", proc'[p].job \in {"none", proc[p].job},
         \A w \in Wrappers : wrap'[w].at = wrap[w].at
                             \/ (wrap[w].at = "run" /\ wrap'[w].at = "exited"),
         proc'[p].job # "none" => starts' = 0,
         \/ proc[p].restart
         \/ proc[p].job = "detach"
         \/ (~proc'[p].restart \/ \E w \in Wrappers : wrap[w].at = "run") /\ exitFile' = exitFile,
         starts' = 0 \/ (starts' = 1 /\ \A w \in Wrappers : wrap[w].at = "none"),
         starts' = 1 => \A q \in Procs : proc'[q].job = "none"
  PROVE  TurnInv'
<1> USE UsbAssumption
<1>1. proc'[Boot].job = "boot" => proc[Boot].job = "boot"
  BY DEF Moves, Procs, JobInv
<1>2. \A d \in Devs : Stirring(d)' => d = p /\ Stirring(d)
  BY DEF Stirring, Elsewhere, Moves, Procs
<1>3. ASSUME proc'[Boot].job = "boot" PROVE starts' = 0
  BY <1>3 DEF Procs
<1>4. ASSUME proc'[Boot].job = "boot", proc'[Boot].at # "look", NEW d \in Devs
      PROVE  ~Stirring(d)'
  BY <1>2, <1>4, <1>1 DEF TurnInv, Moves, Procs
<1>5. ASSUME proc'[Boot].job = "boot", NEW w \in Wrappers PROVE wrap'[w].at = "none"
  BY <1>1, <1>5 DEF TurnInv
<1>6. ASSUME proc'[Boot].job = "boot" PROVE ~exitFile'
  <2>1. p \in Devs => ~proc[p].restart /\ proc[p].job # "detach"
    BY <1>1, <1>6 DEF TurnInv, Detaching
  <2>2. p = Boot => ~proc[p].restart /\ proc[p].job # "detach"
    BY <1>1, <1>6 DEF JobInv, JobSteps
  <2>3. QED BY <2>1, <2>2, <1>1, <1>6 DEF TurnInv, Procs
<1>7. ASSUME proc'[Boot].job = "boot", NEW d \in Devs
      PROVE  ~Detaching(d)' /\ ~proc'[d].restart
  BY <1>1, <1>7 DEF TurnInv, Detaching, Elsewhere, Moves, Procs
<1>8. ASSUME Launching' PROVE proc'[Boot].job = "none" /\ \A d \in Devs : ~Stirring(d)'
  <2>1. starts' = 1 BY <1>8 DEF Launching, Elsewhere
  <2>2. QED BY <2>1 DEF Stirring, Elsewhere, Procs
<1>9. starts' = 1 => \A w \in Wrappers : wrap'[w].at = "none"
  OBVIOUS
<1>10. \A v, w \in Wrappers : wrap'[v].at # "none" /\ wrap'[w].at # "none" => v = w
  BY DEF TurnInv
<1>11. QED BY <1>3, <1>4, <1>5, <1>6, <1>7, <1>8, <1>9, <1>10 DEF TurnInv

LEMMA StepEngine ==
  ASSUME Shapes, EngineInv, NEW p \in Procs, Moves(p), Elsewhere(p), UNCHANGED exitFile,
         UNCHANGED wrap,
         game' = game \/ EnginesRunning = {},
         mnt' # <<>> \/ mnt' = mnt \/ \A w \in Wrappers : wrap[w].at \in {"run", "exited"}
           => ~wrap[w].usb,
         proc'[p].job = "attach" /\ proc'[p].at \in Changing =>
            \A w \in Wrappers : wrap[w].at \in {"run", "exited"} => ~wrap[w].usb,
         proc'[p].at \in AfterKill \cup {"sleep"} => EnginesRunning = {},
         proc'[p].at \in AfterKill /\ WillStart(proc'[p]) =>
            \A w \in Wrappers : wrap[w].at = "none",
         Announced(proc'[p]) => exitFile,
         Announced(proc[p]) => Announced(proc'[p]) \/ starts' = 1
  PROVE  EngineInv'
<1>1. ASSUME NEW w \in Wrappers
      PROVE  (/\ wrap[w].at = "exec" => (wrap[w].usb <=> Last(game).src # Nand)
              /\ wrap[w].at = "run" =>
                   wrap[w].layer = Last(game).src /\ (wrap[w].usb <=> wrap[w].layer # Nand)
              /\ wrap[w].at = "exited" =>
                   /\ wrap[w].cause \in {"user", "killed"}
                   /\ wrap[w].cause = "killed" => exitFile
                   /\ ~exitFile /\ wrap[w].usb => mnt # <<>>)'
  <2>1. wrap'[w].at = wrap[w].at /\ wrap'[w].at # "exec" BY DEF Elsewhere
  <2>2. CASE wrap[w].at = "run"
    <3>1. EnginesRunning # {} BY <2>2 DEF EnginesRunning
    <3>2. game' = game BY <3>1
    <3>3. QED BY <2>2, <3>2 DEF EngineInv
  <2>3. CASE wrap[w].at # "run" BY <2>1, <2>3 DEF EngineInv
  <2>4. QED BY <2>2, <2>3
<1>2. ASSUME NEW q \in Procs
      PROVE  (/\ proc[q].job = "attach" /\ proc[q].at \in Changing =>
                   \A w \in Wrappers : wrap[w].at \in {"run", "exited"} => ~wrap[w].usb
              /\ proc[q].at \in AfterKill \cup {"sleep"} => EnginesRunning = {}
              /\ proc[q].at \in AfterKill /\ WillStart(proc[q]) =>
                   \A w \in Wrappers : wrap[w].at = "none"
              /\ Announced(proc[q]) => exitFile)'
  <2>1. EnginesRunning' = EnginesRunning BY DEF EnginesRunning
  <2>2. CASE q = p BY <2>1, <2>2
  <2>3. CASE q # p
    <3>1. proc'[q] = proc[q] BY <2>3 DEF Moves
    <3>2. QED BY <2>1, <3>1 DEF EngineInv
  <2>4. QED BY <2>2, <2>3
<1>3. exitFile' => starts' = 1 \/ \E q \in Procs : Announced(proc'[q])
  <2>1. ASSUME exitFile PROVE \E q \in Procs : Announced(proc[q])
    BY <2>1 DEF EngineInv, Elsewhere
  <2>2. ASSUME NEW q \in Procs, Announced(proc[q]) PROVE q = p
    BY <2>2 DEF Elsewhere, Announced, WillStart
  <2>3. QED BY <2>1, <2>2
<1>4. QED BY <1>1, <1>2, <1>3 DEF EngineInv, Procs

\* A start is still to come after the step: the script remembers, or it schedules.
LEMMA StepStart ==
  ASSUME Shapes, StartInv, NEW p \in Procs, Moves(p), Elsewhere(p), UNCHANGED <<off, exitFile,
           wrap>>,
         WillStart(proc[p]) => WillStart(proc'[p]) \/ starts' = 1,
         proc[p].job = "boot" => proc'[p].job = "boot" \/ starts' = 1
  PROVE  StartInv'
<1> SUFFICES ASSUME off = "no"
             PROVE  \/ proc'[Boot].job = "boot" \/ starts' = 1
                    \/ \E w \in Wrappers :
                         wrap'[w].at \in {"start", "exec", "run"} \/ Leaving(w)'
                    \/ \E q \in Procs : WillStart(proc'[q])
  BY DEF StartInv, Procs
<1>1. CASE proc[Boot].job = "boot" BY <1>1 DEF Moves, Procs
<1>2. CASE \E w \in Wrappers : wrap[w].at \in {"start", "exec", "run"} \/ Leaving(w)
  BY <1>2 DEF Leaving
<1>3. CASE \E q \in Procs : WillStart(proc[q])
  BY <1>3 DEF Moves
<1>4. QED BY <1>1, <1>2, <1>3 DEF StartInv, Elsewhere

-----------------------------------------------------------------------------
(* The mount table operators on the stacks of one key *)

LEMMA Ends ==
  /\ \A a : Last(<<a>>) = a /\ Front(<<a>>) = <<>>
  /\ \A a, b : Last(<<a, b>>) = b /\ Front(<<a, b>>) = <<a>>
<1>1. \A a : Len(<<a>>) = 1 /\ <<a>>[1] = a OBVIOUS
<1>2. \A a, b : Len(<<a, b>>) = 2 /\ <<a, b>>[2] = b OBVIOUS
<1>3. \A a : SubSeq(<<a>>, 1, 0) = <<>> OBVIOUS
<1>4. ASSUME NEW a, NEW b PROVE <<a>> = SubSeq(<<a, b>>, 1, 1) OBVIOUS
<1>5. \A a : Last(<<a>>) = a /\ Front(<<a>>) = <<>> BY <1>1, <1>3 DEF Last, Front
<1>6. ASSUME NEW a, NEW b PROVE Last(<<a, b>>) = b /\ Front(<<a, b>>) = <<a>>
  <2>1. <<a>> = SubSeq(<<a, b>>, 1, 1) BY <1>4
  <2>2. Len(<<a, b>>) = 2 /\ Len(<<a, b>>) - 1 = 1 /\ <<a, b>>[2] = b OBVIOUS
  <2>3. Front(<<a, b>>) = <<a>> BY <2>1, <2>2 DEF Front
  <2>4. Last(<<a, b>>) = b BY <2>2 DEF Last
  <2>5. QED BY <2>3, <2>4
<1>7. QED BY <1>5, <1>6

LEMMA KeyedFields ==
  ASSUME NEW d, NEW r, NEW s
  PROVE  LET g == Keyed(d, r, s) IN
         /\ Len(g) = 2 /\ DOMAIN g = {1, 2} /\ Last(g) = g[2] /\ Front(g) = Bare
         /\ g[1].src = Nand /\ g[1].roms = <<>> /\ g[1].save = <<>>
         /\ g[2].src = d /\ g[2].roms = r /\ g[2].save = s
BY Ends DEF Keyed, Bare, Layer

LEMMA BareFields ==
  /\ Len(Bare) = 1 /\ DOMAIN Bare = {1} /\ Last(Bare) = Bare[1]
  /\ Bare[1].src = Nand /\ Bare[1].roms = <<>> /\ Bare[1].save = <<>>
BY Ends DEF Bare, Layer

LEMMA CountBare ==
  ASSUME game = Bare
  PROVE  Count("roms") = 0 /\ Count("save") = 0 /\ Count("game") = 0
<1>1. {i \in DOMAIN game : game[i].src \in Devs} = {} BY BareFields, UsbAssumption
<1>2. UNION {{i} \X DOMAIN game[i]["roms"] : i \in DOMAIN game} = {} BY BareFields
<1>3. UNION {{i} \X DOMAIN game[i]["save"] : i \in DOMAIN game} = {} BY BareFields
<1>4. QED BY <1>1, <1>2, <1>3, FS_EmptySet DEF Count, Kids

LEMMA CountKeyed ==
  ASSUME NEW d \in Devs, NEW r \in {<<>>, <<d>>}, NEW s \in {<<>>, <<d>>},
         game = Keyed(d, r, s)
  PROVE  /\ Count("roms") = IF r = <<>> THEN 0 ELSE 1
         /\ Count("save") = IF s = <<>> THEN 0 ELSE 1
         /\ Count("game") = 1
<1> USE KeyedFields, UsbAssumption
<1>1. {i \in DOMAIN game : game[i].src \in Devs} = {2} OBVIOUS
<1>2. UNION {{i} \X DOMAIN game[i]["roms"] : i \in DOMAIN game} =
        IF r = <<>> THEN {} ELSE {<<2, 1>>}
  <2>1. game[1]["roms"] = <<>> /\ game[2]["roms"] = r /\ DOMAIN game = {1, 2} OBVIOUS
  <2>2. DOMAIN game[1]["roms"] = {} /\ DOMAIN game[2]["roms"] = IF r = <<>> THEN {} ELSE {1}
    BY <2>1
  <2>3. QED BY <2>1, <2>2
<1>3. UNION {{i} \X DOMAIN game[i]["save"] : i \in DOMAIN game} =
        IF s = <<>> THEN {} ELSE {<<2, 1>>}
  <2>1. game[1]["save"] = <<>> /\ game[2]["save"] = s /\ DOMAIN game = {1, 2} OBVIOUS
  <2>2. DOMAIN game[1]["save"] = {} /\ DOMAIN game[2]["save"] = IF s = <<>> THEN {} ELSE {1}
    BY <2>1
  <2>3. QED BY <2>1, <2>2
<1>4. Cardinality({}) = 0 /\ Cardinality({2}) = 1 /\ Cardinality({<<2, 1>>}) = 1
  BY FS_EmptySet, FS_Singleton
<1>5. Count("game") = 1 BY <1>1, <1>4 DEF Count, Kids
<1>6. Count("roms") = IF r = <<>> THEN 0 ELSE 1 BY <1>2, <1>4 DEF Count, Kids
<1>7. Count("save") = IF s = <<>> THEN 0 ELSE 1 BY <1>3, <1>4 DEF Count, Kids
<1>8. QED BY <1>5, <1>6, <1>7

LEMMA Concatenations ==
  /\ (<<>> \o <<>>) \o <<"game">> = <<"game">>
  /\ (<<"roms">> \o <<>>) \o <<"game">> = <<"roms", "game">>
  /\ (<<>> \o <<"save">>) \o <<"game">> = <<"save", "game">>
  /\ (<<"roms">> \o <<"save">>) \o <<"game">> = <<"roms", "save", "game">>
<1>1. <<>> = <<>> \o <<>> OBVIOUS
<1>2. <<"game">> = <<>> \o <<"game">> OBVIOUS
<1>3. <<"roms">> = <<"roms">> \o <<>> OBVIOUS
<1>4. <<"save">> = <<>> \o <<"save">> OBVIOUS
<1>5. <<"roms", "game">> = <<"roms">> \o <<"game">> OBVIOUS
<1>6. <<"save", "game">> = <<"save">> \o <<"game">> OBVIOUS
<1>7. <<"roms", "save">> = <<"roms">> \o <<"save">> OBVIOUS
<1>8. <<"roms", "save", "game">> = <<"roms", "save">> \o <<"game">> OBVIOUS
<1>9. QED BY <1>1, <1>2, <1>3, <1>4, <1>5, <1>6, <1>7, <1>8

LEMMA CountFor ==
  ASSUME NEW d \in Devs, NEW todo \in Todos, todo # <<"mnt">>, game = GameFor(d, todo)
  PROVE  /\ TargetsInUse = todo
         /\ todo # <<>> => Count(Head(todo)) = 1
<1>1. CASE todo = <<>>
  <2>1. game = Bare BY <1>1 DEF GameFor
  <2>2. QED BY <1>1, <2>1, CountBare DEF TargetsInUse, IfInUse
<1>2. CASE todo = <<"game">>
  <2>1. game = Keyed(d, <<>>, <<>>) BY <1>2 DEF GameFor
  <2>2. Count("roms") = 0 /\ Count("save") = 0 /\ Count("game") = 1
    BY <2>1, CountKeyed
  <2>3. IfInUse("roms") = <<>> /\ IfInUse("save") = <<>> /\ IfInUse("game") = <<"game">>
    BY <2>2 DEF IfInUse
  <2>4. TargetsInUse = todo BY <1>2, <2>3, Concatenations DEF TargetsInUse
  <2>5. Head(todo) = "game" BY <1>2
  <2>6. QED BY <2>2, <2>4, <2>5
<1>3. CASE todo = <<"roms", "game">>
  <2>1. game = Keyed(d, <<d>>, <<>>) BY <1>3 DEF GameFor
  <2>2. Count("roms") = 1 /\ Count("save") = 0 /\ Count("game") = 1
    BY <2>1, CountKeyed
  <2>3. IfInUse("roms") = <<"roms">> /\ IfInUse("save") = <<>> /\ IfInUse("game") = <<"game">>
    BY <2>2 DEF IfInUse
  <2>4. TargetsInUse = todo BY <1>3, <2>3, Concatenations DEF TargetsInUse
  <2>5. Head(todo) = "roms" BY <1>3
  <2>6. QED BY <2>2, <2>4, <2>5
<1>4. CASE todo = <<"save", "game">>
  <2>1. game = Keyed(d, <<>>, <<d>>) BY <1>4 DEF GameFor
  <2>2. Count("roms") = 0 /\ Count("save") = 1 /\ Count("game") = 1
    BY <2>1, CountKeyed
  <2>3. IfInUse("roms") = <<>> /\ IfInUse("save") = <<"save">> /\ IfInUse("game") = <<"game">>
    BY <2>2 DEF IfInUse
  <2>4. TargetsInUse = todo BY <1>4, <2>3, Concatenations DEF TargetsInUse
  <2>5. Head(todo) = "save" BY <1>4
  <2>6. QED BY <2>2, <2>4, <2>5
<1>5. CASE todo = <<"roms", "save", "game">>
  <2>1. game = Keyed(d, <<d>>, <<d>>) BY <1>5 DEF GameFor
  <2>2. Count("roms") = 1 /\ Count("save") = 1 /\ Count("game") = 1
    BY <2>1, CountKeyed
  <2>3. IfInUse("roms") = <<"roms">> /\ IfInUse("save") = <<"save">> /\ IfInUse("game") = <<"game">>
    BY <2>2 DEF IfInUse
  <2>4. TargetsInUse = todo BY <1>5, <2>3, Concatenations DEF TargetsInUse
  <2>5. Head(todo) = "roms" BY <1>5
  <2>6. QED BY <2>2, <2>4, <2>5
<1>6. QED BY <1>1, <1>2, <1>3, <1>4, <1>5 DEF Todos

LEMMA PopFor ==
  ASSUME NEW d \in Devs, NEW todo \in Todos, todo \notin {<<>>, <<"mnt">>},
         game = GameFor(d, todo)
  PROVE  /\ CanPop(Head(todo))
         /\ Pop(Head(todo)) => game' = GameFor(d, Tail(todo)) /\ mnt' = mnt
         /\ Tail(todo) \in Todos /\ Tail(todo) # <<"mnt">>
<1> USE KeyedFields
<1>1. CASE todo = <<"game">>
  <2>1. game = Keyed(d, <<>>, <<>>) /\ Head(todo) = "game" /\ Tail(todo) = <<>>
    BY <1>1 DEF GameFor
  <2>2. GameFor(d, Tail(todo)) = Bare BY <2>1 DEF GameFor
  <2>3. CanPop("game")
    BY <2>1 DEF CanPop, Kids, Bare
  <2>4. Pop("game") => game' = Front(game) /\ mnt' = mnt
    BY DEF Pop, Kids
  <2>5. QED BY <2>1, <2>2, <2>3, <2>4 DEF Todos
<1>2. CASE todo = <<"roms", "game">>
  <2>1. game = Keyed(d, <<d>>, <<>>) /\ Head(todo) = "roms" /\ Tail(todo) = <<"game">>
    BY <1>2 DEF GameFor
  <2>2. GameFor(d, Tail(todo)) = Keyed(d, <<>>, <<>>) BY <2>1 DEF GameFor
  <2>3. [game EXCEPT ![Len(game)]["roms"] = Front(@)] = Keyed(d, <<>>, <<>>)
    BY <2>1, Ends DEF Keyed, Layer
  <2>4. CanPop("roms")
    BY <2>1 DEF CanPop, Kids, Bare
  <2>5. Pop("roms") => game' = [game EXCEPT ![Len(game)]["roms"] = Front(@)] /\ mnt' = mnt
    BY DEF Pop, Kids
  <2>6. QED BY <2>1, <2>2, <2>3, <2>4, <2>5 DEF Todos
<1>3. CASE todo = <<"save", "game">>
  <2>1. game = Keyed(d, <<>>, <<d>>) /\ Head(todo) = "save" /\ Tail(todo) = <<"game">>
    BY <1>3 DEF GameFor
  <2>2. GameFor(d, Tail(todo)) = Keyed(d, <<>>, <<>>) BY <2>1 DEF GameFor
  <2>3. [game EXCEPT ![Len(game)]["save"] = Front(@)] = Keyed(d, <<>>, <<>>)
    BY <2>1, Ends DEF Keyed, Layer
  <2>4. CanPop("save")
    BY <2>1 DEF CanPop, Kids, Bare
  <2>5. Pop("save") => game' = [game EXCEPT ![Len(game)]["save"] = Front(@)] /\ mnt' = mnt
    BY DEF Pop, Kids
  <2>6. QED BY <2>1, <2>2, <2>3, <2>4, <2>5 DEF Todos
<1>4. CASE todo = <<"roms", "save", "game">>
  <2>1. game = Keyed(d, <<d>>, <<d>>) /\ Head(todo) = "roms" /\ Tail(todo) = <<"save", "game">>
    BY <1>4 DEF GameFor
  <2>2. GameFor(d, Tail(todo)) = Keyed(d, <<>>, <<d>>) BY <2>1 DEF GameFor
  <2>3. [game EXCEPT ![Len(game)]["roms"] = Front(@)] = Keyed(d, <<>>, <<d>>)
    BY <2>1, Ends DEF Keyed, Layer
  <2>4. CanPop("roms")
    BY <2>1 DEF CanPop, Kids, Bare
  <2>5. Pop("roms") => game' = [game EXCEPT ![Len(game)]["roms"] = Front(@)] /\ mnt' = mnt
    BY DEF Pop, Kids
  <2>6. QED BY <2>1, <2>2, <2>3, <2>4, <2>5 DEF Todos
<1>5. QED BY <1>1, <1>2, <1>3, <1>4 DEF Todos

-----------------------------------------------------------------------------
(* What a step of a script has to respect *)

\* The script goes on, or ends and leaves a start behind if it has to.
GoesOn(p) ==
  /\ JobSteps(proc[p])'
  /\ \/ /\ proc'[p].job = proc[p].job /\ starts' = starts
        /\ proc'[p].dev = proc[p].dev \/ (p = Boot /\ proc'[p].dev \in Devs)
        /\ proc'[p].at \in {"look", "poll"} \/ proc'[p].dev \in Devs
        /\ WillStart(proc[p]) => WillStart(proc'[p])
        /\ Announced(proc[p]) => Announced(proc'[p])
     \/ /\ proc'[p].job = "none"
        /\ IF proc[p].job = "boot" \/ proc[p].at = "schedule"
             THEN starts' = starts + 1
             ELSE starts' = starts /\ ~WillStart(proc[p])

\* The engine is where the script believes it to be.
EngineAllows(p) ==
  LET j == proc'[p] IN
  /\ game' = game \/ EnginesRunning = {}
  /\ mnt' # <<>> \/ mnt' = mnt
     \/ \A w \in Wrappers : wrap[w].at \in {"run", "exited"} => ~wrap[w].usb
  /\ j.job = "attach" /\ j.at \in Changing =>
       \A w \in Wrappers : wrap[w].at \in {"run", "exited"} => ~wrap[w].usb
  /\ j.at \in AfterKill \cup {"sleep"} => EnginesRunning = {}
  /\ j.at \in AfterKill /\ WillStart(j) => \A w \in Wrappers : wrap[w].at = "none"
  /\ Announced(j) => exitFile
  /\ proc[p].restart \/ ~j.restart \/ \E w \in Wrappers : wrap[w].at = "run"

LEMMA Step ==
  ASSUME Calm, NEW p \in Procs, Turns(p), Moves(p),
         UNCHANGED <<session, present, queue, exitFile, wrap, off>>,
         GoesOn(p), EngineAllows(p), Landing(p),
         StepMounts(proc[p])', proc'[p].at \in Steady => WholeOrNone'
  PROVE  Calm'
<1> USE UsbAssumption DEF Calm
<1>1. Elsewhere(p) BY Alone
<1>2. proc[p].job # "none" BY DEF Turns
<1>3. proc'[p].job \in {"none", proc[p].job} BY DEF GoesOn
<1>4. ASSUME proc[p].job = "boot" \/ proc[p].at = "schedule"
      PROVE  /\ \A w \in Wrappers : wrap[w].at = "none"
             /\ \A q \in Procs : q # p => proc[q].job = "none"
  <2>1. CASE proc[p].job = "boot"
    <3>1. p = Boot BY <2>1 DEF JobInv
    <3>2. QED BY <2>1, <3>1, <1>1 DEF TurnInv, Elsewhere
  <2>2. CASE proc[p].at = "schedule"
    <3>1. WillStart(proc[p]) BY <2>2 DEF WillStart, JobInv, JobSteps
    <3>2. \A w \in Wrappers : wrap[w].at = "none"
      BY <2>2, <3>1 DEF EngineInv, AfterKill
    <3>3. p # Boot
      BY <3>1 DEF JobInv, WillStart
    <3>4. proc[Boot].job # "boot"
      BY <3>1, <3>3 DEF TurnInv, Detaching, WillStart, Procs
    <3>5. QED BY <3>2, <3>4, <1>1 DEF Elsewhere
  <2>3. QED BY <1>4, <2>1, <2>2
<1>5. starts' \in {0, 1} /\ (starts' = 1 => /\ \A w \in Wrappers : wrap[w].at = "none"
                                            /\ \A q \in Procs : proc'[q].job = "none")
  BY <1>1, <1>4 DEF GoesOn, Elsewhere, Moves
<1>6. Shapes' BY <1>5 DEF Shapes, Moves
<1>7. JobInv' BY <1>3, StepJob DEF GoesOn
<1>8. MountInv' BY <1>1, StepMount
<1>9. EventInv' BY <1>1, <1>2, <1>3, StepEvent
<1>10. TurnInv'
  <2>1. proc'[p].job # "none" => starts' = 0 BY <1>1, <1>2, <1>5 DEF GoesOn, Elsewhere
  <2>2. \/ proc[p].restart \/ proc[p].job = "detach"
        \/ (~proc'[p].restart \/ \E w \in Wrappers : wrap[w].at = "run") /\ exitFile' = exitFile
    BY DEF EngineAllows
  <2>3. QED BY <1>1, <1>2, <1>3, <1>5, <2>1, <2>2, StepTurn
<1>11. EngineInv'
  <2>1. Announced(proc[p]) => Announced(proc'[p]) \/ starts' = 1
    BY <1>1 DEF GoesOn, Announced, Elsewhere
  <2>2. QED BY <1>1, <2>1, StepEngine DEF EngineAllows
<1>12. StartInv'
  <2>1. WillStart(proc[p]) => WillStart(proc'[p]) \/ starts' = 1
    BY <1>1 DEF GoesOn, Elsewhere
  <2>2. proc[p].job = "boot" => proc'[p].job = "boot" \/ starts' = 1
    BY <1>1 DEF GoesOn, Elsewhere
  <2>3. QED BY <1>1, <2>1, <2>2, StepStart
<1>13. QED BY <1>6, <1>7, <1>8, <1>9, <1>10, <1>11, <1>12

LEMMA Acts ==
  ASSUME Calm, NEW p \in Procs, proc[p].at \notin {"idle", "look"}
  PROVE  Turns(p) /\ Elsewhere(p)
<1>1. Turns(p) BY DEF Calm, JobInv, JobSteps, Turns
<1>2. QED BY <1>1, Alone DEF Calm

\* While no script changes the mounts, the key is bound whole or not at all.
LEMMA WholeAt ==
  ASSUME Calm, NEW p \in Procs, Elsewhere(p), proc[p].at \in Steady
  PROVE  WholeOrNone
BY DEF Calm, MountInv, Elsewhere, Steady

\* The hook says which tree an engine runs from, and nobody has announced a kill.
LEMMA AtLook ==
  ASSUME Calm, NEW p \in Procs, Elsewhere(p), proc[p].at = "look"
  PROVE  /\ ~exitFile
         /\ mnt = <<>> => \A w \in Wrappers : wrap[w].at \in {"run", "exited"} => ~wrap[w].usb
<1>1. ~Announced(proc[p]) BY DEF Calm, JobInv, JobSteps, Announced, WillStart
<1>2. \A q \in Procs : ~Announced(proc[q])
  BY <1>1 DEF Announced, WillStart, Elsewhere
<1>3. ~exitFile BY <1>2 DEF Calm, EngineInv, Elsewhere
<1>4. ASSUME mnt = <<>>, NEW w \in Wrappers, wrap[w].at \in {"run", "exited"}
      PROVE  ~wrap[w].usb
  <2>1. CASE wrap[w].at = "exited" BY <1>3, <1>4, <2>1 DEF Calm, EngineInv
  <2>2. CASE wrap[w].at = "run"
    <3>1. WholeOrNone BY WholeAt DEF Steady
    <3>2. game = Bare BY <1>4, <3>1 DEF WholeOrNone, Unbound, Bound
    <3>3. Last(game).src = Nand BY <3>2, BareFields
    <3>4. QED BY <2>2, <3>3 DEF Calm, EngineInv
  <2>3. QED BY <1>4, <2>1, <2>2
<1>5. QED BY <1>3, <1>4

\* Only the step changes.
Onward(p, step) ==
  LET i == proc[p]
      j == proc'[p]
  IN /\ j.at = step /\ j.job = i.job /\ j.dev = i.dev /\ j.restart = i.restart
     /\ j.todo = i.todo /\ j.left = i.left /\ j.then = i.then

LEMMA JobsAt ==
  ASSUME NEW j \in Jobs
  PROVE  /\ \A d \in Devs : [j EXCEPT !.at = "mount", !.dev = d] \in Jobs
         /\ \A b \in BOOLEAN : /\ [j EXCEPT !.restart = b, !.at = "touch"] \in Jobs
                               /\ [j EXCEPT !.restart = b, !.at = "apply"] \in Jobs
         /\ \A todo \in Todos, step \in {"bindGame", "failed", "remount", "schedule"} :
              [j EXCEPT !.at = "drop", !.todo = todo, !.then = step] \in Jobs
         /\ \A n \in {0, 1} : /\ [j EXCEPT !.at = "pop", !.left = n] \in Jobs
                              /\ [j EXCEPT !.left = n] \in Jobs
         /\ \A todo \in Todos : [j EXCEPT !.at = "drop", !.todo = todo, !.left = 0] \in Jobs
<1>1. ASSUME NEW d \in Devs PROVE [j EXCEPT !.at = "mount", !.dev = d] \in Jobs
  BY DEF Jobs, Changing
<1>2. ASSUME NEW b \in BOOLEAN PROVE [j EXCEPT !.restart = b, !.at = "touch"] \in Jobs
  BY DEF Jobs, Changing
<1>3. ASSUME NEW b \in BOOLEAN PROVE [j EXCEPT !.restart = b, !.at = "apply"] \in Jobs
  BY DEF Jobs, Changing
<1>4. ASSUME NEW todo \in Todos, NEW step \in {"bindGame", "failed", "remount", "schedule"}
      PROVE  [j EXCEPT !.at = "drop", !.todo = todo, !.then = step] \in Jobs
  BY DEF Jobs, Changing
<1>5. ASSUME NEW n \in {0, 1} PROVE [j EXCEPT !.at = "pop", !.left = n] \in Jobs
  BY DEF Jobs, Changing
<1>6. ASSUME NEW n \in {0, 1} PROVE [j EXCEPT !.left = n] \in Jobs
  BY DEF Jobs
<1>7. ASSUME NEW todo \in Todos
      PROVE  [j EXCEPT !.at = "drop", !.todo = todo, !.left = 0] \in Jobs
  BY DEF Jobs, Changing
<1>8. QED BY <1>1, <1>2, <1>3, <1>4, <1>5, <1>6, <1>7

LEMMA GoingTo ==
  ASSUME Calm, NEW p \in Procs, NEW step \in Steady \cup Changing,
         proc' = [proc EXCEPT ![p].at = step]
  PROVE  Moves(p) /\ Onward(p, step)
BY DEF Calm, Shapes, Moves, Jobs, Onward

LEMMA FindNodeKeeps ==
  ASSUME Calm, NEW p \in Procs, FindNode(p)
  PROVE  Calm'
<1>1. /\ proc[p].at = "node" /\ proc[p].job = "attach" /\ ~proc[p].restart
      /\ p \in Devs /\ proc[p].dev = p
  BY DEF FindNode, At, Calm, JobInv, JobSteps, Procs
<1>2. Turns(p) /\ Elsewhere(p) BY <1>1, Acts
<1>3. p \in present BY <1>1 DEF Calm, EventInv, Attaching
<1>4. /\ proc' = [proc EXCEPT ![p].at = "look"]
      /\ UNCHANGED <<session, present, queue, exitFile, wrap, off, mnt, game, starts>>
  BY <1>1, <1>3 DEF FindNode, Goto, keys, mounts
<1>5. Moves(p) /\ Onward(p, "look") BY <1>4, GoingTo DEF Steady
<1>6. GoesOn(p) BY <1>1, <1>4, <1>5 DEF Onward, GoesOn, JobSteps, WillStart, Announced
<1>7. EngineAllows(p)
  BY <1>1, <1>4, <1>5 DEF Onward, EngineAllows, AfterKill, Announced, WillStart, Changing
<1>8. Landing(p) BY <1>1, <1>4, <1>5 DEF Landing, Onward
<1>9. WholeOrNone' /\ StepMounts(proc[p])'
  <2>1. WholeOrNone BY <1>1, <1>2, WholeAt DEF Steady
  <2>2. QED BY <2>1, <1>4, <1>5 DEF WholeOrNone, Unbound, Bound, StepMounts, Onward
<1>10. QED BY <1>2, <1>4, <1>5, <1>6, <1>7, <1>8, <1>9, Step

LEMMA LookMountedKeeps ==
  ASSUME Calm, session.calm, NEW p \in Procs, LookMounted(p)
  PROVE  Calm'
<1> USE UsbAssumption
<1>1. proc[p].at = "look" /\ ~proc[p].restart /\ proc[p].job \in {"attach", "detach", "boot"}
  BY DEF LookMounted, At, Calm, Shapes, Jobs, JobInv, JobSteps
<1>2. Turns(p) BY <1>1 DEF LookMounted, Turns, Stirring
<1>3. Elsewhere(p) BY <1>2, Alone DEF Calm
<1>4. WholeOrNone BY <1>1, <1>3, WholeAt DEF Steady
<1>5. /\ ~exitFile
      /\ mnt = <<>> => \A w \in Wrappers : wrap[w].at \in {"run", "exited"} => ~wrap[w].usb
  BY <1>1, <1>3, AtLook
<1>6. proc[p].job \in {"attach", "detach"} => p \in Devs /\ proc[p].dev = p
  BY DEF Calm, JobInv, Procs
<1>7. proc[p].job = "attach" => p \in present /\ mnt # <<p>>
  BY <1>1, <1>6 DEF Calm, EventInv, Attaching
<1>8. UNCHANGED <<session, present, queue, exitFile, wrap, off, mnt, game>>
  BY DEF LookMounted, keys, mounts
<1>9. (mnt # <<>> /\ Head(mnt) = proc[p].dev) <=> (mnt # <<>> /\ mnt = <<proc[p].dev>>)
  <2>1. \A d : mnt = <<d>> => Head(mnt) = d /\ mnt # <<>> OBVIOUS
  <2>2. QED BY <1>4, <2>1 DEF WholeOrNone, Unbound, Bound
<1>10. CASE /\ proc' = [proc EXCEPT ![p] = Idle]
            /\ starts' = IF p = Boot THEN starts + 1 ELSE starts
            /\ proc[p].job = "detach" => mnt # <<p>>
  <2>1. Idle \in Jobs /\ Idle.job = "none" /\ Idle.at = "idle" /\ ~Idle.restart
    BY DEF Idle, Jobs, Steady, Todos
  <2>2. Moves(p) /\ proc'[p] = Idle
    BY <1>10, <2>1 DEF Calm, Shapes, Moves
  <2>3. GoesOn(p)
    <3>1. proc[p].job = "boot" <=> p = Boot BY <1>1, <1>6 DEF Calm, JobInv
    <3>2. ~WillStart(proc[p]) BY <1>1 DEF WillStart
    <3>3. JobSteps(proc[p])' BY <2>1, <2>2 DEF JobSteps
    <3>4. QED BY <1>1, <1>10, <2>1, <2>2, <3>1, <3>2, <3>3 DEF GoesOn
  <2>4. EngineAllows(p)
    BY <1>8, <2>1, <2>2 DEF EngineAllows, AfterKill, Announced, WillStart, Changing
  <2>5. Landing(p) BY <1>8, <1>10, <2>1, <2>2 DEF Landing
  <2>6. WholeOrNone' BY <1>4, <1>8 DEF WholeOrNone, Unbound, Bound
  <2>7. StepMounts(proc[p])' BY <2>1, <2>2 DEF StepMounts
  <2>8. QED BY <1>2, <1>8, <2>2, <2>3, <2>4, <2>5, <2>6, <2>7, Step
<1>11. CASE /\ proc' = [proc EXCEPT ![p].at = "poll"] /\ starts' = starts
            /\ proc[p].job = "boot" /\ mnt = <<>>
  <2>1. Moves(p) /\ Onward(p, "poll") BY <1>11, GoingTo DEF Steady
  <2>2. GoesOn(p) BY <1>1, <1>11, <2>1 DEF Onward, GoesOn, JobSteps, WillStart, Announced
  <2>3. EngineAllows(p)
    BY <1>1, <1>8, <1>11, <2>1 DEF Onward, EngineAllows, AfterKill, Announced, WillStart, Changing
  <2>4. Landing(p) BY <1>8, <1>11, <2>1 DEF Onward, Landing
  <2>5. Unbound' BY <1>4, <1>8, <1>11 DEF WholeOrNone, Unbound, Bound
  <2>6. StepMounts(proc[p])' BY <2>1, <2>5 DEF Onward, StepMounts
  <2>7. WholeOrNone' BY <2>5 DEF Onward, WholeOrNone
  <2>8. QED BY <1>2, <1>8, <2>1, <2>2, <2>3, <2>4, <2>6, <2>7, Step
<1>12. CASE /\ proc' = [proc EXCEPT ![p].at = "mount"] /\ starts' = starts
            /\ proc[p].job = "attach" /\ mnt = <<>>
  <2>1. Moves(p) /\ Onward(p, "mount") BY <1>12, GoingTo DEF Changing
  <2>2. GoesOn(p)
    BY <1>1, <1>6, <1>12, <2>1 DEF Onward, GoesOn, JobSteps, WillStart, Announced
  <2>3. EngineAllows(p)
    BY <1>1, <1>5, <1>8, <1>12, <2>1 DEF Onward, EngineAllows, AfterKill, Announced, WillStart
  <2>4. Landing(p) BY <1>8, <1>12, <2>1 DEF Onward, Landing
  <2>5. Unbound' BY <1>4, <1>8, <1>12 DEF WholeOrNone, Unbound, Bound
  <2>6. StepMounts(proc[p])' BY <1>6, <1>7, <1>8, <1>12, <2>1, <2>5 DEF Onward, StepMounts
  <2>7. proc'[p].at \notin Steady BY <1>1, <2>1 DEF Onward, Steady
  <2>8. QED BY <1>2, <1>8, <2>1, <2>2, <2>3, <2>4, <2>6, <2>7, Step
<1>13. CASE /\ proc' = [proc EXCEPT ![p].at = "touch"] /\ starts' = starts
            /\ proc[p].job = "detach" /\ mnt = <<p>>
  <2>1. Moves(p) /\ Onward(p, "touch") BY <1>13, GoingTo DEF Changing
  <2>2. GoesOn(p)
    BY <1>1, <1>6, <1>13, <2>1 DEF Onward, GoesOn, JobSteps, WillStart, Announced
  <2>3. EngineAllows(p)
    BY <1>1, <1>8, <1>13, <2>1 DEF Onward, EngineAllows, AfterKill, Announced
  <2>4. Landing(p) BY <1>8, <1>13, <2>1 DEF Onward, Landing
  <2>5. Bound(p)' BY <1>4, <1>8, <1>13 DEF WholeOrNone, Unbound, Bound
  <2>6. StepMounts(proc[p])' BY <1>6, <1>13, <2>1, <2>5 DEF Onward, StepMounts
  <2>7. proc'[p].at \notin Steady BY <1>1, <2>1 DEF Onward, Steady
  <2>8. QED BY <1>2, <1>8, <2>1, <2>2, <2>3, <2>4, <2>6, <2>7, Step
<1>14. QED
  <2>1. CASE proc[p].job = "boot"
    BY <1>10, <1>11, <2>1 DEF LookMounted, Goto, Finish
  <2>2. CASE proc[p].job = "attach"
    <3>1. ~(mnt # <<>> /\ Head(mnt) = proc[p].dev) BY <1>6, <1>7, <1>9, <2>2
    <3>2. QED BY <1>10, <1>12, <2>2, <3>1 DEF LookMounted, Goto, Finish
  <2>3. CASE proc[p].job = "detach"
    BY <1>6, <1>9, <1>10, <1>13, <2>3 DEF LookMounted, Goto, Finish
  <2>4. QED BY <1>1, <2>1, <2>2, <2>3

\* A script that owes nobody a start ends, and leaves a whole mount table.
LEMMA Finishing ==
  ASSUME Calm, NEW p \in Procs, Turns(p), Elsewhere(p), Finish(p),
         UNCHANGED <<session, present, queue, exitFile, wrap, off>>,
         ~WillStart(proc[p]), proc[p].at # "schedule", WholeOrNone',
         game' = game \/ EnginesRunning = {},
         \/ mnt' = mnt /\ (proc[p].job # "detach" \/ mnt # <<p>>)
         \/ mnt' = <<>> /\ \A w \in Wrappers : wrap[w].at \in {"run", "exited"} => ~wrap[w].usb
         \/ \E d \in present : mnt' = <<d>>
  PROVE  Calm'
<1> USE UsbAssumption
<1>1. Idle \in Jobs /\ Idle.job = "none" /\ Idle.at = "idle" /\ ~Idle.restart
  BY DEF Idle, Jobs, Steady, Todos
<1>2. Moves(p) /\ proc'[p] = Idle
  BY <1>1 DEF Finish, Calm, Shapes, Moves
<1>3. GoesOn(p)
  <2>1. proc[p].job = "boot" <=> p = Boot BY DEF Calm, JobInv, Turns
  <2>2. JobSteps(proc[p])' BY <1>1, <1>2 DEF JobSteps
  <2>3. QED BY <1>1, <1>2, <2>1, <2>2 DEF GoesOn, Finish
<1>4. EngineAllows(p)
  <2>1. mnt' # <<>> \/ mnt' = mnt
        \/ \A w \in Wrappers : wrap[w].at \in {"run", "exited"} => ~wrap[w].usb
    OBVIOUS
  <2>2. QED BY <1>1, <1>2, <2>1 DEF EngineAllows, AfterKill, Announced, WillStart, Changing
<1>5. Landing(p) BY <1>1, <1>2 DEF Landing
<1>6. StepMounts(proc[p])' BY <1>1, <1>2 DEF StepMounts
<1>7. QED BY <1>2, <1>3, <1>4, <1>5, <1>6, Step

\* At boot no engine runs, and the console waits for none.
LEMMA AtBoot ==
  ASSUME Calm, NEW p \in Procs, proc[p].job = "boot"
  PROVE  /\ p = Boot /\ EnginesRunning = {} /\ ~WillStart(proc[p]) /\ ~proc[p].restart
         /\ \A w \in Wrappers : wrap[w].at = "none"
BY DEF Calm, JobInv, JobSteps, TurnInv, EnginesRunning, WillStart

LEMMA PollNodeKeeps ==
  ASSUME Calm, NEW p \in Procs, PollNode(p)
  PROVE  Calm'
<1>1. proc[p].at = "poll" /\ proc[p].job = "boot" /\ ~proc[p].restart /\ Unbound
  BY DEF PollNode, At, Calm, JobInv, JobSteps, MountInv, StepMounts
<1>2. Turns(p) /\ Elsewhere(p) BY <1>1, Acts
<1>3. p = Boot /\ EnginesRunning = {} /\ ~WillStart(proc[p]) BY <1>1, AtBoot
<1>4. UNCHANGED <<session, present, queue, exitFile, wrap, off, mnt, game>>
  BY DEF PollNode, keys, mounts
<1>5. CASE Finish(p)
  <2>1. WholeOrNone' BY <1>1, <1>4 DEF WholeOrNone, Unbound
  <2>2. QED BY <1>1, <1>2, <1>3, <1>4, <1>5, <2>1, Finishing
<1>6. ASSUME NEW d \in present, starts' = starts,
             proc' = [proc EXCEPT ![p].at = "mount", ![p].dev = d]
      PROVE  Calm'
  <2>0. d \in Devs BY <1>6 DEF Calm, Shapes
  <2>1. /\ Moves(p) /\ proc'[p].at = "mount" /\ proc'[p].dev = d
        /\ proc'[p].job = "boot" /\ ~proc'[p].restart
    <3>1. proc \in [Procs -> Jobs] BY DEF Calm, Shapes
    <3>2. [proc[p] EXCEPT !.at = "mount", !.dev = d] \in Jobs BY <2>0, <3>1, JobsAt
    <3>3. proc' = [proc EXCEPT ![p] = [proc[p] EXCEPT !.at = "mount", !.dev = d]] BY <1>6
    <3>4. Moves(p) /\ proc'[p] = [proc[p] EXCEPT !.at = "mount", !.dev = d]
      BY <3>1, <3>2, <3>3 DEF Moves
    <3>5. QED BY <1>1, <3>1, <3>4 DEF Jobs
  <2>2. GoesOn(p)
    BY <1>1, <1>3, <1>6, <2>0, <2>1 DEF GoesOn, JobSteps, WillStart, Announced
  <2>3. EngineAllows(p)
    BY <1>3, <1>4, <2>1 DEF EngineAllows, AfterKill, Announced, WillStart
  <2>4. Landing(p) BY <1>1, <1>4, <2>1 DEF Landing
  <2>5. StepMounts(proc[p])' BY <1>1, <1>4, <2>1 DEF StepMounts, Unbound
  <2>6. proc'[p].at \notin Steady BY <2>1 DEF Steady
  <2>7. QED BY <1>2, <1>4, <2>1, <2>2, <2>3, <2>4, <2>5, <2>6, Step
<1>7. QED BY <1>5, <1>6 DEF PollNode

\* What is known of the engine while a script attaches or boots.
LEMMA AtAttach ==
  ASSUME Calm, NEW p \in Procs, proc[p].job \in {"attach", "boot"}, proc[p].at \in Changing
  PROVE  /\ \A w \in Wrappers : wrap[w].at \in {"run", "exited"} => ~wrap[w].usb
         /\ proc[p].dev \in Devs
         /\ proc[p].at \in AfterKill => EnginesRunning = {}
BY AtBoot DEF Calm, EngineInv, JobInv, Changing

LEMMA MountKeyKeeps ==
  ASSUME Calm, NEW p \in Procs, MountKey(p)
  PROVE  Calm'
<1>1. /\ proc[p].at = "mount" /\ proc[p].job \in {"attach", "boot"} /\ ~proc[p].restart
      /\ Unbound /\ proc[p].dev \in present
  BY DEF MountKey, At, Calm, JobInv, JobSteps, MountInv, StepMounts
<1>2. Turns(p) /\ Elsewhere(p) BY <1>1, Acts
<1>3. /\ \A w \in Wrappers : wrap[w].at \in {"run", "exited"} => ~wrap[w].usb
      /\ proc[p].dev \in Devs
  BY <1>1, AtAttach DEF Changing
<1>4. /\ mnt' = <<proc[p].dev>> /\ proc' = [proc EXCEPT ![p].at = "check"]
      /\ UNCHANGED <<session, present, queue, exitFile, wrap, off, starts, game>>
  BY <1>1 DEF MountKey, Goto, keys, Unbound
<1>5. Moves(p) /\ Onward(p, "check") BY <1>4, GoingTo DEF Changing
<1>6. GoesOn(p)
  BY <1>1, <1>3, <1>4, <1>5 DEF Onward, GoesOn, JobSteps, WillStart, Announced
<1>7. EngineAllows(p)
  BY <1>1, <1>3, <1>4, <1>5 DEF Onward, EngineAllows, AfterKill, Announced, WillStart
<1>8. Landing(p) BY <1>1, <1>4, <1>5 DEF Onward, Landing
<1>9. StepMounts(proc[p])'
  BY <1>1, <1>4, <1>5 DEF Onward, StepMounts, Unbound, MountedBare
<1>10. proc'[p].at \notin Steady BY <1>5 DEF Onward, Steady
<1>11. QED BY <1>2, <1>4, <1>5, <1>6, <1>7, <1>8, <1>9, <1>10, Step

\* A mounted key that is there answers, and the answer is whether it has a library.
LEMMA Answers ==
  ASSUME NEW d, mnt = <<d>>, d \in present
  PROVE  Readable = IF d \in Published THEN {TRUE} ELSE {FALSE}
<1>1. mnt # <<>> /\ Last(mnt) = d BY Ends
<1>2. QED BY <1>1 DEF Readable

LEMMA CheckLibraryKeeps ==
  ASSUME Calm, NEW p \in Procs, CheckLibrary(p)
  PROVE  Calm'
<1>1. /\ proc[p].at = "check" /\ proc[p].job \in {"attach", "boot"} /\ ~proc[p].restart
      /\ MountedBare(proc[p].dev) /\ proc[p].dev \in present
  BY DEF CheckLibrary, At, Calm, JobInv, JobSteps, MountInv, StepMounts
<1>2. Turns(p) /\ Elsewhere(p) BY <1>1, Acts
<1>3. /\ \A w \in Wrappers : wrap[w].at \in {"run", "exited"} => ~wrap[w].usb
      /\ proc[p].dev \in Devs
  BY <1>1, AtAttach DEF Changing
<1>4. UNCHANGED <<session, present, queue, exitFile, wrap, off, game>>
  BY DEF CheckLibrary, keys
<1>5. Readable = IF proc[p].dev \in Published THEN {TRUE} ELSE {FALSE}
  BY <1>1, Answers DEF MountedBare
<1>6. CASE proc[p].dev \notin Published
  <2>1. Finish(p) /\ mnt' = IF mnt = <<>> THEN mnt ELSE Front(mnt)
    BY <1>5, <1>6 DEF CheckLibrary
  <2>2. mnt' = <<>> BY <1>1, <2>1, Ends DEF MountedBare
  <2>3. WholeOrNone' BY <1>1, <1>4, <2>2 DEF MountedBare, WholeOrNone, Unbound
  <2>4. ~WillStart(proc[p]) BY <1>1 DEF WillStart
  <2>5. QED BY <1>1, <1>2, <1>3, <1>4, <2>1, <2>2, <2>3, <2>4, Finishing
<1>7. CASE proc[p].dev \in Published
  <2>0. UNCHANGED <<mnt, starts>>
        /\ proc' = [proc EXCEPT ![p].at = IF proc[p].job = "boot" THEN "apply" ELSE "engine"]
    BY <1>5, <1>7 DEF CheckLibrary, Goto
  <2>1. PICK step \in {"apply", "engine"} :
          /\ proc' = [proc EXCEPT ![p].at = step]
          /\ step = IF proc[p].job = "boot" THEN "apply" ELSE "engine"
    BY <2>0
  <2>2. Moves(p) /\ Onward(p, step) BY <2>1, GoingTo DEF Changing
  <2>3. GoesOn(p)
    BY <1>1, <1>3, <2>0, <2>1, <2>2 DEF Onward, GoesOn, JobSteps, WillStart, Announced
  <2>4. EngineAllows(p)
    BY <1>1, <1>3, <1>4, <2>0, <2>1, <2>2, AtBoot
    DEF Onward, EngineAllows, AfterKill, Announced, WillStart
  <2>5. Landing(p) BY <1>1, <2>0, <2>1, <2>2 DEF Onward, Landing
  <2>6. StepMounts(proc[p])'
    BY <1>1, <1>4, <1>7, <2>0, <2>1, <2>2 DEF Onward, StepMounts, Usable, MountedBare
  <2>7. proc'[p].at \notin Steady BY <2>1, <2>2 DEF Onward, Steady
  <2>8. QED BY <1>2, <1>4, <2>2, <2>3, <2>4, <2>5, <2>6, <2>7, Step
<1>8. QED BY <1>6, <1>7

\* What the code's callers wait for: binds may fail, nothing else does.
Gentle == \A s \in Sessions : s.calm => s.faults \subseteq {"bind"}

LEMMA SeeEngineKeeps ==
  ASSUME Calm, NEW p \in Procs, SeeEngine(p)
  PROVE  Calm'
<1>1. /\ proc[p].at = "engine" /\ proc[p].job = "attach" /\ ~proc[p].restart
      /\ MountedBare(proc[p].dev) /\ Usable(proc[p].dev)
  BY DEF SeeEngine, At, Calm, JobInv, JobSteps, MountInv, StepMounts
<1>2. Turns(p) /\ Elsewhere(p) BY <1>1, Acts
<1>3. /\ \A w \in Wrappers : wrap[w].at \in {"run", "exited"} => ~wrap[w].usb
      /\ proc[p].dev \in Devs
  BY <1>1, AtAttach DEF Changing
<1>4. UNCHANGED <<session, present, queue, exitFile, wrap, off, mnt, game, starts>>
  BY DEF SeeEngine, keys, mounts, launcher
<1>5. \E b \in BOOLEAN, step \in {"touch", "apply"} :
        /\ proc' = [proc EXCEPT ![p] = [proc[p] EXCEPT !.restart = b, !.at = step]]
        /\ b <=> EnginesRunning # {}
        /\ step = IF b THEN "touch" ELSE "apply"
  <2>1. CASE EnginesRunning # {}
    <3>1. proc' = [proc EXCEPT ![p] = [proc[p] EXCEPT !.restart = TRUE, !.at = "touch"]]
      BY <2>1 DEF SeeEngine
    <3>2. QED BY <2>1, <3>1
  <2>2. CASE EnginesRunning = {}
    <3>1. proc' = [proc EXCEPT ![p] = [proc[p] EXCEPT !.restart = FALSE, !.at = "apply"]]
      BY <2>2 DEF SeeEngine
    <3>2. QED BY <2>2, <3>1
  <2>3. QED BY <2>1, <2>2
<1>6. PICK b \in BOOLEAN, step \in {"touch", "apply"} :
        /\ proc' = [proc EXCEPT ![p] = [proc[p] EXCEPT !.restart = b, !.at = step]]
        /\ b <=> EnginesRunning # {}
        /\ step = IF b THEN "touch" ELSE "apply"
  BY <1>5
<1>7. /\ Moves(p) /\ proc'[p].at = step /\ proc'[p].restart = b
      /\ proc'[p].job = "attach" /\ proc'[p].dev = proc[p].dev
  <2>1. proc \in [Procs -> Jobs] BY DEF Calm, Shapes
  <2>2. [proc[p] EXCEPT !.restart = b, !.at = step] \in Jobs BY <1>6, <2>1, JobsAt
  <2>3. Moves(p) /\ proc'[p] = [proc[p] EXCEPT !.restart = b, !.at = step]
    BY <1>6, <2>1, <2>2 DEF Moves
  <2>4. QED BY <1>1, <2>1, <2>3 DEF Jobs
<1>8. GoesOn(p)
  BY <1>1, <1>3, <1>4, <1>6, <1>7 DEF GoesOn, JobSteps, WillStart, Announced
<1>9. EngineAllows(p)
  <2>1. b => \E w \in Wrappers : wrap[w].at = "run" BY <1>6 DEF EnginesRunning
  <2>2. QED BY <1>3, <1>4, <1>6, <1>7, <2>1
    DEF EngineAllows, AfterKill, Announced, WillStart
<1>10. Landing(p) BY <1>1, <1>4, <1>6, <1>7 DEF Landing
<1>11. StepMounts(proc[p])'
  BY <1>1, <1>4, <1>6, <1>7 DEF StepMounts, Usable, MountedBare
<1>12. proc'[p].at \notin Steady BY <1>6, <1>7 DEF Steady
<1>13. QED BY <1>2, <1>4, <1>7, <1>8, <1>9, <1>10, <1>11, <1>12, Step

\* What is known of a script that stops the engine.
LEMMA AtStop ==
  ASSUME Calm, NEW p \in Procs, proc[p].at \in {"touch", "kill", "sleep"}
  PROVE  /\ proc[p].job \in {"attach", "detach"} /\ WillStart(proc[p])
         /\ proc[p].restart \/ proc[p].job = "detach"
         /\ proc[p].dev \in Devs
         /\ proc[p].job = "detach" => Bound(proc[p].dev)
         /\ proc[p].job = "attach" => MountedBare(proc[p].dev) /\ Usable(proc[p].dev)
BY DEF Calm, JobInv, JobSteps, MountInv, StepMounts, WillStart

LEMMA TouchExitKeeps ==
  ASSUME Calm, NEW p \in Procs, TouchExit(p)
  PROVE  Calm'
<1> USE UsbAssumption DEF Calm
<1>1. proc[p].at = "touch" BY DEF TouchExit, At
<1>2. Turns(p) /\ Elsewhere(p) /\ proc[p].job # "none" BY <1>1, Acts DEF Turns
<1>3. /\ proc[p].job \in {"attach", "detach"} /\ WillStart(proc[p])
      /\ proc[p].restart \/ proc[p].job = "detach"
      /\ proc[p].dev \in Devs
      /\ proc[p].job = "detach" => Bound(proc[p].dev)
      /\ proc[p].job = "attach" => MountedBare(proc[p].dev) /\ Usable(proc[p].dev)
  BY <1>1, AtStop
<1>4. /\ exitFile' = TRUE /\ proc' = [proc EXCEPT ![p].at = "kill"]
      /\ UNCHANGED <<session, present, queue, wrap, off, mnt, game, starts>>
  BY DEF TouchExit, Goto, keys, mounts
<1>5. Moves(p) /\ Onward(p, "kill") BY <1>4, GoingTo DEF Changing
<1>6. Shapes' BY <1>4, <1>5 DEF Shapes, Moves
<1>7. JobSteps(proc[p])' BY <1>1, <1>3, <1>5 DEF Onward, JobSteps, JobInv
<1>8. JobInv' BY <1>3, <1>5, <1>7, StepJob DEF Onward
<1>9. StepMounts(proc[p])'
  BY <1>1, <1>3, <1>4, <1>5 DEF Onward, StepMounts, Usable, MountedBare, Bound
<1>10. MountInv' BY <1>2, <1>5, <1>9, StepMount DEF Onward, Steady
<1>11. Landing(p) BY <1>4, <1>5 DEF Onward, Landing
<1>12. EventInv' BY <1>2, <1>4, <1>5, <1>11, StepEvent DEF Onward
<1>13. TurnInv'
  <2>1. starts' = 0 BY <1>2, <1>4 DEF Elsewhere
  <2>2. \A w \in Wrappers : wrap'[w].at = wrap[w].at BY <1>4
  <2>3. proc'[p].job = proc[p].job BY <1>5 DEF Onward
  <2>4. UNCHANGED queue BY <1>4
  <2>5. QED BY ONLY <1>2, <1>3, <1>5, <2>1, <2>2, <2>3, <2>4, StepTurn, Calm DEF Calm
<1>14. WillStart(proc'[p]) /\ Announced(proc'[p])
  BY <1>1, <1>3, <1>5 DEF Onward, WillStart, Announced
<1>15. EngineInv'
  <2>1. EnginesRunning' = EnginesRunning BY <1>4 DEF EnginesRunning
  <2>2. ASSUME NEW q \in Procs
        PROVE  (/\ proc[q].job = "attach" /\ proc[q].at \in Changing =>
                     \A w \in Wrappers : wrap[w].at \in {"run", "exited"} => ~wrap[w].usb
                /\ proc[q].at \in AfterKill \cup {"sleep"} => EnginesRunning = {}
                /\ proc[q].at \in AfterKill /\ WillStart(proc[q]) =>
                     \A w \in Wrappers : wrap[w].at = "none"
                /\ Announced(proc[q]) => exitFile)'
    <3>1. CASE q = p
      <4>1. proc[p].at \in Changing BY <1>1 DEF Changing
      <4>2. QED BY <1>4, <1>5, <3>1, <4>1 DEF Onward, EngineInv, AfterKill
    <3>2. CASE q # p
      <4>1. proc'[q] = proc[q] BY <1>5, <3>2 DEF Moves
      <4>2. QED BY <1>4, <2>1, <4>1 DEF EngineInv
    <3>3. QED BY <3>1, <3>2
  <2>3. \A w \in Wrappers :
          (/\ wrap[w].at = "exec" => (wrap[w].usb <=> Last(game).src # Nand)
           /\ wrap[w].at = "run" =>
                wrap[w].layer = Last(game).src /\ (wrap[w].usb <=> wrap[w].layer # Nand)
           /\ wrap[w].at = "exited" =>
                /\ wrap[w].cause \in {"user", "killed"}
                /\ wrap[w].cause = "killed" => exitFile
                /\ ~exitFile /\ wrap[w].usb => mnt # <<>>)'
    BY <1>4 DEF EngineInv
  <2>4. QED BY <2>2, <2>3, <1>14 DEF EngineInv, Procs
<1>16. StartInv' BY <1>14 DEF StartInv, Procs
<1>17. QED BY <1>6, <1>8, <1>10, <1>12, <1>13, <1>15, <1>16

LEMMA KillEngineKeeps ==
  ASSUME Calm, NEW p \in Procs, KillEngine(p)
  PROVE  Calm'
<1> USE UsbAssumption DEF Calm
<1>1. proc[p].at = "kill" BY DEF KillEngine, At
<1>2. Turns(p) /\ Elsewhere(p) /\ proc[p].job # "none" BY <1>1, Acts DEF Turns
<1>3. /\ proc[p].job \in {"attach", "detach"} /\ WillStart(proc[p])
      /\ proc[p].restart \/ proc[p].job = "detach"
      /\ proc[p].dev \in Devs
      /\ proc[p].job = "detach" => Bound(proc[p].dev)
      /\ proc[p].job = "attach" => MountedBare(proc[p].dev) /\ Usable(proc[p].dev)
  BY <1>1, AtStop
<1>4. /\ proc' = [proc EXCEPT ![p].at = "sleep"]
      /\ UNCHANGED <<session, present, queue, exitFile, off, mnt, game, starts>>
      /\ wrap' = [w \in Wrappers |->
                    IF wrap[w].at = "run"
                      THEN [wrap[w] EXCEPT !.at = "exited", !.cause = "killed"]
                      ELSE wrap[w]]
  BY DEF KillEngine, Goto, keys, mounts
<1>5. Moves(p) /\ Onward(p, "sleep") BY <1>4, GoingTo DEF Changing
<1>6. exitFile BY <1>1, <1>3 DEF EngineInv, Announced
<1>7. ASSUME NEW w \in Wrappers
      PROVE  /\ wrap'[w] \in Wraps /\ wrap'[w].usb = wrap[w].usb
             /\ wrap[w].at = "run" => wrap'[w].at = "exited" /\ wrap'[w].cause = "killed"
             /\ wrap[w].at # "run" => wrap'[w] = wrap[w]
  BY <1>4 DEF Shapes, Wraps
<1>8. Shapes' BY <1>4, <1>5, <1>7 DEF Shapes, Moves
<1>9. JobSteps(proc[p])' BY <1>1, <1>3, <1>5 DEF Onward, JobSteps, JobInv
<1>10. JobInv' BY <1>3, <1>5, <1>9, StepJob DEF Onward
<1>11. StepMounts(proc[p])'
  <2>1. UNCHANGED <<mnt, game, present>> /\ proc'[p].dev = proc[p].dev
        /\ proc'[p].at = "sleep" /\ proc'[p].job = proc[p].job
    BY <1>4, <1>5 DEF Onward
  <2>2. QED BY ONLY <1>3, <2>1 DEF StepMounts, Usable, MountedBare, Bound
<1>12. MountInv' BY <1>2, <1>5, <1>11, StepMount DEF Onward, Steady
<1>13. Landing(p) BY <1>4, <1>5 DEF Onward, Landing
<1>14. EventInv' BY <1>2, <1>4, <1>5, <1>13, StepEvent DEF Onward
<1>15. TurnInv'
  <2>1. \A w \in Wrappers : wrap'[w].at = wrap[w].at
                            \/ (wrap[w].at = "run" /\ wrap'[w].at = "exited")
    BY <1>7
  <2>2. starts' = 0 BY <1>2, <1>4 DEF Elsewhere
  <2>3. proc'[p].job = proc[p].job BY <1>5 DEF Onward
  <2>4. UNCHANGED queue BY <1>4
  <2>5. QED BY ONLY <1>2, <1>3, <1>5, <2>1, <2>2, <2>3, <2>4, StepTurn, Calm DEF Calm
<1>16. WillStart(proc'[p]) /\ Announced(proc'[p])
  BY <1>1, <1>3, <1>5 DEF Onward, WillStart, Announced
<1>17. EngineInv'
  <2>1. EnginesRunning' = {} BY <1>7 DEF EnginesRunning
  <2>2. ASSUME NEW q \in Procs
        PROVE  (/\ proc[q].job = "attach" /\ proc[q].at \in Changing =>
                     \A w \in Wrappers : wrap[w].at \in {"run", "exited"} => ~wrap[w].usb
                /\ proc[q].at \in AfterKill \cup {"sleep"} => EnginesRunning = {}
                /\ proc[q].at \in AfterKill /\ WillStart(proc[q]) =>
                     \A w \in Wrappers : wrap[w].at = "none"
                /\ Announced(proc[q]) => exitFile)'
    <3>1. CASE q = p
      <4>1. proc[p].at \in Changing BY <1>1 DEF Changing
      <4>2. proc'[p].at = "sleep" /\ proc'[p].job = proc[p].job BY <1>5 DEF Onward
      <4>3. ASSUME proc[p].job = "attach", NEW w \in Wrappers,
                   wrap'[w].at \in {"run", "exited"}
            PROVE  ~wrap'[w].usb
        <5>1. wrap[w].at \in {"run", "exited"} BY <1>7, <4>3
        <5>2. QED BY <1>7, <4>1, <4>3, <5>1 DEF EngineInv
      <4>4. QED BY <1>4, <1>6, <2>1, <3>1, <4>2, <4>3 DEF AfterKill
    <3>2. CASE q # p
      <4>1. proc'[q] = proc[q] /\ proc[q].at \in {"idle", "look"}
        BY <1>2, <1>5, <3>2 DEF Moves, Elsewhere
      <4>2. QED BY <1>4, <1>6, <2>1, <4>1 DEF AfterKill, Changing
    <3>3. QED BY <3>1, <3>2
  <2>3. \A w \in Wrappers :
          (/\ wrap[w].at = "exec" => (wrap[w].usb <=> Last(game).src # Nand)
           /\ wrap[w].at = "run" =>
                wrap[w].layer = Last(game).src /\ (wrap[w].usb <=> wrap[w].layer # Nand)
           /\ wrap[w].at = "exited" =>
                /\ wrap[w].cause \in {"user", "killed"}
                /\ wrap[w].cause = "killed" => exitFile
                /\ ~exitFile /\ wrap[w].usb => mnt # <<>>)'
    BY <1>2, <1>4, <1>6, <1>7 DEF EngineInv, Elsewhere
  <2>4. QED BY <2>2, <2>3, <1>16 DEF EngineInv, Procs
<1>18. StartInv' BY <1>16 DEF StartInv, Procs
<1>19. QED BY <1>8, <1>10, <1>12, <1>14, <1>15, <1>17, <1>18

\* A step after the engine has stopped that leaves the key and starts alone.
LEMMA Quietly ==
  ASSUME Calm, NEW p \in Procs, Turns(p), Moves(p), JobSteps(proc[p])',
         UNCHANGED <<session, present, queue, exitFile, wrap, off, starts, mnt>>,
         proc[p].at \in Changing, proc'[p].at \in Changing \cup {"schedule"},
         proc'[p].job = proc[p].job, proc'[p].dev = proc[p].dev,
         proc'[p].restart = proc[p].restart, proc[p].at = "touch" <=> proc'[p].at = "touch",
         EnginesRunning = {}, proc'[p].at # "sleep",
         WillStart(proc[p]) => \A w \in Wrappers : wrap[w].at = "none",
         StepMounts(proc[p])', proc'[p].at = "schedule" => WholeOrNone'
  PROVE  Calm'
<1>1. proc[p].dev \in Devs
  BY DEF Calm, JobInv, Changing, Turns
<1>2. WillStart(proc[p]) <=> WillStart(proc'[p])
  BY DEF WillStart, Changing
<1>3. Announced(proc[p]) <=> Announced(proc'[p]) BY <1>2 DEF Announced
<1>4. GoesOn(p) BY <1>1, <1>2, <1>3 DEF GoesOn
<1>5. EngineAllows(p)
  <2>1. Announced(proc[p]) => exitFile BY DEF Calm, EngineInv
  <2>2. proc[p].job = "attach" =>
          \A w \in Wrappers : wrap[w].at \in {"run", "exited"} => ~wrap[w].usb
    BY DEF Calm, EngineInv
  <2>3. QED BY <1>2, <1>3, <2>1, <2>2 DEF EngineAllows
<1>6. Landing(p) BY DEF Landing, Changing
<1>7. proc'[p].at \in Steady => WholeOrNone'
  BY DEF Steady, Changing
<1>8. QED BY <1>4, <1>5, <1>6, <1>7, Step

\* The targets are listed.
LEMMA DroppingTo ==
  ASSUME Calm, NEW p \in Procs, NEW todo \in Todos,
         NEW step \in {"bindGame", "failed", "remount", "schedule"}, DropThen(p, todo, step)
  PROVE  /\ Moves(p) /\ proc'[p].at = "drop" /\ proc'[p].todo = todo /\ proc'[p].then = step
         /\ proc'[p].job = proc[p].job /\ proc'[p].dev = proc[p].dev
         /\ proc'[p].restart = proc[p].restart
<1>1. proc \in [Procs -> Jobs] BY DEF Calm, Shapes
<1>2. [proc[p] EXCEPT !.at = "drop", !.todo = todo, !.then = step] \in Jobs BY <1>1, JobsAt
<1>3. proc' = [proc EXCEPT ![p] =
                 [proc[p] EXCEPT !.at = "drop", !.todo = todo, !.then = step]]
  BY DEF DropThen
<1>4. Moves(p) /\ proc'[p] = [proc[p] EXCEPT !.at = "drop", !.todo = todo, !.then = step]
  BY <1>1, <1>2, <1>3 DEF Moves
<1>5. QED BY <1>1, <1>4 DEF Jobs

\* A script after the engine has stopped begins to drop what is bound.
LEMMA DropsQuietly ==
  ASSUME Calm, NEW p \in Procs, Turns(p), NEW todo \in Todos,
         NEW step \in {"bindGame", "failed", "remount", "schedule"}, DropThen(p, todo, step),
         UNCHANGED <<session, present, queue, exitFile, wrap, off, starts, mnt, game>>,
         proc[p].at \in Changing \ {"touch"}, EnginesRunning = {},
         WillStart(proc[p]) => \A w \in Wrappers : wrap[w].at = "none",
         mnt = <<proc[p].dev>>, game = GameFor(proc[p].dev, todo),
         \/ step = "bindGame" /\ todo = <<>> /\ proc[p].job # "detach" /\ Usable(proc[p].dev)
         \/ step = "failed" /\ todo # <<"mnt">> /\ proc[p].job # "detach" /\ Usable(proc[p].dev)
         \/ step = "remount" /\ todo # <<"mnt">> /\ proc[p].job # "boot"
         \/ step = "schedule" /\ todo = <<"mnt">> /\ proc[p].job = "detach"
  PROVE  Calm'
<1>1. /\ Moves(p) /\ proc'[p].at = "drop" /\ proc'[p].todo = todo /\ proc'[p].then = step
      /\ proc'[p].job = proc[p].job /\ proc'[p].dev = proc[p].dev
      /\ proc'[p].restart = proc[p].restart
  BY DroppingTo
<1>2. JobSteps(proc[p])'
  <2>1. proc[p].job # "none" BY DEF Turns
  <2>2. proc[p].job \in {"boot", "detach"} => ~proc[p].restart BY DEF Calm, JobInv, JobSteps
  <2>3. QED BY <1>1, <2>1, <2>2 DEF JobSteps
<1>3. StepMounts(proc[p])'
  <2>1. <<"mnt">> # <<>> OBVIOUS
  <2>2. (GameFor(proc[p].dev, todo))' = GameFor(proc'[p].dev, todo)
    BY DEF GameFor, Keyed, Bare, Layer
  <2>3. QED BY <1>1, <2>1, <2>2 DEF StepMounts, Usable
<1>4. QED BY <1>1, <1>2, <1>3, Quietly DEF Changing

LEMMA SleepKeeps ==
  ASSUME Gentle, Calm, session.calm, NEW p \in Procs, Sleep(p)
  PROVE  Calm'
<1>1. proc[p].at = "sleep" BY DEF Sleep, At
<1>2. Turns(p) /\ Elsewhere(p) BY <1>1, Acts
<1>3. /\ proc[p].job \in {"attach", "detach"} /\ WillStart(proc[p])
      /\ proc[p].restart \/ proc[p].job = "detach"
      /\ proc[p].dev \in Devs
      /\ proc[p].job = "detach" => Bound(proc[p].dev)
      /\ proc[p].job = "attach" => MountedBare(proc[p].dev) /\ Usable(proc[p].dev)
  BY <1>1, AtStop
<1>4. UNCHANGED <<session, present, queue, exitFile, wrap, off, mnt, game, starts>>
  BY DEF Sleep, keys, mounts, launcher
<1>5. EnginesRunning = {} BY <1>1 DEF Calm, EngineInv
<1>6. \A w \in Wrappers : wrap[w].at = "none"
  <2>1. "slowWrapper" \notin session.faults BY DEF Gentle, Calm, Shapes
  <2>2. \A w \in Wrappers : wrap[w].at # "exited" BY <2>1 DEF Sleep
  <2>3. \A w \in Wrappers : wrap[w].at # "run" BY <1>5 DEF EnginesRunning
  <2>4. QED BY <1>2, <2>2, <2>3 DEF Elsewhere, Calm, Shapes, Wraps
<1>7. CASE proc[p].job = "detach"
  <2>1. <<"roms", "save", "game">> \in Todos /\ <<"roms", "save", "game">> # <<"mnt">>
    BY DEF Todos
  <2>2. GameFor(proc[p].dev, <<"roms", "save", "game">>) =
          Keyed(proc[p].dev, <<proc[p].dev>>, <<proc[p].dev>>)
    BY DEF GameFor
  <2>3. game = GameFor(proc[p].dev, <<"roms", "save", "game">>) BY <1>3, <1>7, <2>2 DEF Bound
  <2>4. TargetsInUse = <<"roms", "save", "game">> BY <1>3, <2>1, <2>3, CountFor
  <2>5. DropThen(p, <<"roms", "save", "game">>, "remount")
    BY <1>7, <2>4 DEF Sleep
  <2>6. QED BY <1>1, <1>2, <1>3, <1>4, <1>5, <1>6, <1>7, <2>1, <2>3, <2>5, DropsQuietly
    DEF Bound, Changing
<1>8. CASE proc[p].job = "attach"
  <2>1. proc' = [proc EXCEPT ![p].at = "apply"] BY <1>8 DEF Sleep, Goto
  <2>2. Moves(p) /\ Onward(p, "apply") BY <2>1, GoingTo DEF Changing
  <2>3. JobSteps(proc[p])' BY <1>8, <2>2 DEF Onward, JobSteps
  <2>4. StepMounts(proc[p])'
    BY <1>3, <1>4, <1>8, <2>2 DEF Onward, StepMounts, Usable, MountedBare
  <2>5. QED BY <1>1, <1>2, <1>4, <1>5, <1>6, <2>2, <2>3, <2>4, Quietly DEF Onward, Changing
<1>9. QED BY <1>3, <1>7, <1>8

\* What is known after the engine has stopped.
LEMMA AtMounts ==
  ASSUME Calm, NEW p \in Procs, proc[p].at \in AfterKill \ {"schedule"}
  PROVE  /\ Turns(p) /\ Elsewhere(p) /\ EnginesRunning = {} /\ proc[p].dev \in Devs
         /\ proc[p].at \in Changing \ {"touch"} /\ proc[p].job \in {"attach", "detach", "boot"}
         /\ WillStart(proc[p]) => \A w \in Wrappers : wrap[w].at = "none"
         /\ proc[p].job \in {"attach", "boot"} =>
              \A w \in Wrappers : wrap[w].at \in {"run", "exited"} => ~wrap[w].usb
<1>1. Turns(p) /\ Elsewhere(p) BY Acts DEF AfterKill
<1>2. proc[p].at \in Changing \ {"touch"} BY DEF AfterKill, Changing
<1>3. proc[p].dev \in Devs BY <1>1, <1>2 DEF Calm, JobInv, Turns, Changing
<1>4. proc[p].job \in {"attach", "detach", "boot"} BY <1>1 DEF Calm, Shapes, Jobs, Turns
<1>5. EnginesRunning = {} /\ (WillStart(proc[p]) => \A w \in Wrappers : wrap[w].at = "none")
  BY DEF Calm, EngineInv
<1>6. proc[p].job \in {"attach", "boot"} =>
        \A w \in Wrappers : wrap[w].at \in {"run", "exited"} => ~wrap[w].usb
  BY <1>2, AtAttach
<1>7. QED BY <1>1, <1>2, <1>3, <1>4, <1>5, <1>6

LEMMA ApplyBindKeeps ==
  ASSUME Calm, NEW p \in Procs, ApplyBind(p)
  PROVE  Calm'
<1>1. /\ proc[p].at = "apply" /\ proc[p].job \in {"attach", "boot"}
      /\ MountedBare(proc[p].dev) /\ Usable(proc[p].dev)
  BY DEF ApplyBind, At, Calm, JobInv, JobSteps, MountInv, StepMounts
<1>2. /\ Turns(p) /\ EnginesRunning = {} /\ proc[p].dev \in Devs
      /\ proc[p].at \in Changing \ {"touch"}
      /\ WillStart(proc[p]) => \A w \in Wrappers : wrap[w].at = "none"
  BY <1>1, AtMounts DEF AfterKill
<1>3. UNCHANGED <<session, present, queue, exitFile, wrap, off, mnt, game, starts>>
  BY DEF ApplyBind, keys, mounts, launcher
<1>4. Readable = {TRUE} BY <1>1, Answers DEF MountedBare, Usable
<1>5. <<>> \in Todos /\ <<>> # <<"mnt">> BY DEF Todos
<1>6. game = GameFor(proc[p].dev, <<>>) BY <1>1 DEF MountedBare, GameFor
<1>7. TargetsInUse = <<>> BY <1>2, <1>5, <1>6, CountFor
<1>8. DropThen(p, <<>>, "bindGame") BY <1>4, <1>7 DEF ApplyBind
<1>9. QED BY <1>1, <1>2, <1>3, <1>5, <1>6, <1>8, DropsQuietly DEF MountedBare

\* The operators of the mount table depend on nothing but the device.
LEMMA Rigid ==
  ASSUME NEW d, NEW todo
  PROVE  (GameFor(d, todo))' = GameFor(d, todo)
BY DEF GameFor, Keyed, Bare, Layer

LEMMA DropFacts ==
  ASSUME Calm, NEW p \in Procs, proc[p].at \in {"drop", "pop"}
  PROVE  LET j == proc[p]
             todo == IF j.at = "pop" /\ j.left = 0 THEN Tail(j.todo) ELSE j.todo
         IN /\ game = GameFor(j.dev, todo)
            /\ mnt = IF j.then = "schedule" /\ todo = <<>> THEN <<>> ELSE <<j.dev>>
            /\ j.then \in {"bindGame", "failed"} => Usable(j.dev)
            /\ \/ j.then = "bindGame" /\ j.job # "detach" /\ j.at = "drop" /\ j.todo = <<>>
               \/ j.then = "failed" /\ j.job # "detach" /\ j.todo # <<"mnt">>
               \/ j.then = "remount" /\ j.job # "boot" /\ j.todo # <<"mnt">>
               \/ j.then = "schedule" /\ j.job = "detach" /\ j.todo \in {<<>>, <<"mnt">>}
            /\ j.at = "pop" => j.todo # <<>>
            /\ j.todo \in Todos /\ j.left \in {0, 1} /\ j.job # "none"
            /\ j.job \in {"boot", "detach"} => ~j.restart
BY DEF Calm, Shapes, Jobs, JobInv, JobSteps, MountInv, StepMounts

LEMMA CountLayersKeeps ==
  ASSUME Calm, NEW p \in Procs, CountLayers(p)
  PROVE  Calm'
<1> DEFINE j == proc[p]
<1>1. j.at = "drop" BY DEF CountLayers, At
<1>2. /\ Turns(p) /\ EnginesRunning = {} /\ j.dev \in Devs
      /\ j.at \in Changing \ {"touch"} /\ j.job \in {"attach", "detach", "boot"}
      /\ WillStart(j) => \A w \in Wrappers : wrap[w].at = "none"
  BY <1>1, AtMounts DEF AfterKill
<1>3. UNCHANGED <<session, present, queue, exitFile, wrap, off, mnt, game, starts>>
  BY DEF CountLayers, keys, mounts, launcher
<1>4. /\ game = GameFor(j.dev, j.todo)
      /\ mnt = IF j.then = "schedule" /\ j.todo = <<>> THEN <<>> ELSE <<j.dev>>
      /\ j.then \in {"bindGame", "failed"} => Usable(j.dev)
      /\ \/ j.then = "bindGame" /\ j.job # "detach" /\ j.todo = <<>>
         \/ j.then = "failed" /\ j.job # "detach" /\ j.todo # <<"mnt">>
         \/ j.then = "remount" /\ j.job # "boot" /\ j.todo # <<"mnt">>
         \/ j.then = "schedule" /\ j.job = "detach" /\ j.todo \in {<<>>, <<"mnt">>}
      /\ j.todo \in Todos /\ (j.job \in {"boot", "detach"} => ~j.restart)
  BY <1>1, DropFacts
<1>5. CASE j.todo = <<>>
  <2>1. PICK step \in {"bindGame", "failed", "remount", "schedule"} :
          step = j.then /\ proc' = [proc EXCEPT ![p].at = step]
    BY <1>4, <1>5 DEF CountLayers
  <2>2. Moves(p) /\ Onward(p, step) BY <2>1, GoingTo DEF Changing, Steady
  <2>3. game = Bare BY <1>4, <1>5 DEF GameFor
  <2>4. JobSteps(proc[p])' BY <1>2, <1>4, <2>1, <2>2 DEF Onward, JobSteps
  <2>5. step # "schedule" => MountedBare(j.dev)'
    BY <1>3, <1>4, <2>1, <2>2, <2>3 DEF Onward, MountedBare, Bare, Layer
  <2>6. step \in {"bindGame", "failed"} => Usable(j.dev)'
    BY <1>3, <1>4, <2>1, <2>2 DEF Onward, Usable
  <2>7. step = "schedule" => Unbound' BY <1>3, <1>4, <1>5, <2>1, <2>3 DEF Unbound, Bare, Layer
  <2>8. StepMounts(proc[p])'
    BY <2>1, <2>2, <2>5, <2>6, <2>7 DEF Onward, StepMounts
  <2>9. step = "schedule" => WholeOrNone' BY <2>7 DEF WholeOrNone
  <2>10. QED BY <1>1, <1>2, <1>3, <2>1, <2>2, <2>4, <2>8, <2>9, Quietly DEF Onward, Changing
<1>6. CASE j.todo # <<>>
  <2>1. Count(Head(j.todo)) = 1
    <3>1. CASE j.todo = <<"mnt">>
      <4>1. Head(j.todo) = "mnt" /\ mnt = <<j.dev>> BY <1>4, <3>1
      <4>2. Count("mnt") = Len(mnt) BY DEF Count, Kids
      <4>3. Len(<<j.dev>>) = 1 OBVIOUS
      <4>4. QED BY <4>1, <4>2, <4>3
    <3>2. CASE j.todo # <<"mnt">> BY <1>2, <1>4, <1>6, <3>2, CountFor
    <3>3. QED BY <3>1, <3>2
  <2>2. proc' = [proc EXCEPT ![p] = [j EXCEPT !.at = "pop", !.left = 1]]
    BY <1>6, <2>1 DEF CountLayers
  <2>3. /\ Moves(p) /\ proc'[p].at = "pop" /\ proc'[p].left = 1
        /\ proc'[p].todo = j.todo /\ proc'[p].then = j.then /\ proc'[p].job = j.job
        /\ proc'[p].dev = j.dev /\ proc'[p].restart = j.restart
    <3>1. proc \in [Procs -> Jobs] BY DEF Calm, Shapes
    <3>2. [j EXCEPT !.at = "pop", !.left = 1] \in Jobs BY <3>1, JobsAt
    <3>3. Moves(p) /\ proc'[p] = [j EXCEPT !.at = "pop", !.left = 1]
      BY <2>2, <3>1, <3>2 DEF Moves
    <3>4. QED BY <3>1, <3>3 DEF Jobs
  <2>4. JobSteps(proc[p])' BY <1>2, <1>4, <1>6, <2>3 DEF JobSteps
  <2>5. StepMounts(proc[p])'
    <3>1. game' = (GameFor(j.dev, j.todo))' BY <1>3, <1>4, <2>3 DEF GameFor, Keyed, Bare, Layer
    <3>2. QED BY <1>3, <1>4, <2>3, <3>1 DEF StepMounts, Usable
  <2>6. QED BY <1>1, <1>2, <1>3, <2>3, <2>4, <2>5, Quietly DEF Changing
<1>7. QED BY <1>5, <1>6

LEMMA PopLayerKeeps ==
  ASSUME Calm, NEW p \in Procs, PopLayer(p)
  PROVE  Calm' /\ EnginesRunning = {}
<1> DEFINE j == proc[p]
<1>1. j.at = "pop" /\ j.left = 1
  BY DropFacts DEF PopLayer, At
<1>2. /\ Turns(p) /\ EnginesRunning = {} /\ j.dev \in Devs
      /\ j.at \in Changing \ {"touch"} /\ j.job \in {"attach", "detach", "boot"}
      /\ WillStart(j) => \A w \in Wrappers : wrap[w].at = "none"
      /\ j.job \in {"attach", "boot"} =>
           \A w \in Wrappers : wrap[w].at \in {"run", "exited"} => ~wrap[w].usb
  BY <1>1, AtMounts DEF AfterKill
<1>3. UNCHANGED <<session, present, queue, exitFile, wrap, off, starts>>
  BY DEF PopLayer, keys, launcher
<1>4. /\ game = GameFor(j.dev, j.todo) /\ mnt = <<j.dev>>
      /\ j.then \in {"bindGame", "failed"} => Usable(j.dev)
      /\ \/ j.then = "failed" /\ j.job # "detach" /\ j.todo # <<"mnt">>
         \/ j.then = "remount" /\ j.job # "boot" /\ j.todo # <<"mnt">>
         \/ j.then = "schedule" /\ j.job = "detach" /\ j.todo = <<"mnt">>
      /\ j.todo \in Todos /\ j.todo # <<>> /\ (j.job \in {"boot", "detach"} => ~j.restart)
  BY <1>1, DropFacts
<1>5. /\ Moves(p) /\ proc'[p].at = "pop" /\ proc'[p].left = 0
      /\ proc'[p].todo = j.todo /\ proc'[p].then = j.then /\ proc'[p].job = j.job
      /\ proc'[p].dev = j.dev /\ proc'[p].restart = j.restart
  <2>1. proc \in [Procs -> Jobs] BY DEF Calm, Shapes
  <2>2. [j EXCEPT !.left = 0] \in Jobs BY <2>1, JobsAt
  <2>3. proc' = [proc EXCEPT ![p] = [j EXCEPT !.left = 0]] BY <1>1 DEF PopLayer
  <2>4. Moves(p) /\ proc'[p] = [j EXCEPT !.left = 0]
    BY <2>1, <2>2, <2>3 DEF Moves
  <2>5. QED BY <1>1, <2>1, <2>4 DEF Jobs
<1>6. GoesOn(p)
  <2>1. JobSteps(proc[p])' BY <1>2, <1>4, <1>5 DEF JobSteps
  <2>2. QED BY <1>1, <1>2, <1>3, <1>5, <2>1 DEF GoesOn, WillStart, Announced
<1>7. EngineAllows(p)
  <2>1. Announced(j) => exitFile BY DEF Calm, EngineInv
  <2>2. Announced(proc'[p]) => exitFile BY <1>1, <1>5, <2>1 DEF Announced, WillStart
  <2>3. WillStart(proc'[p]) => WillStart(j) BY <1>1, <1>5 DEF WillStart
  <2>4. j.job = "detach" => WillStart(j) BY <1>1 DEF WillStart
  <2>5. QED BY <1>2, <1>5, <2>2, <2>3, <2>4 DEF EngineAllows
<1>8. /\ game' = GameFor(j.dev, Tail(j.todo))
      /\ mnt' = IF j.then = "schedule" THEN <<>> ELSE <<j.dev>>
      /\ j.then = "schedule" => Tail(j.todo) = <<>>
  <2>1. CASE j.todo = <<"mnt">>
    <3>1. j.then = "schedule" /\ Head(j.todo) = "mnt" /\ Tail(j.todo) = <<>> BY <1>4, <2>1
    <3>2. mnt' = Front(mnt) /\ game' = game BY <3>1 DEF PopLayer, Pop, Kids
    <3>3. game = Bare /\ GameFor(j.dev, <<>>) = Bare BY <1>4, <2>1 DEF GameFor
    <3>4. QED BY <1>4, <3>1, <3>2, <3>3, Ends
  <2>2. CASE j.todo # <<"mnt">>
    <3>1. game' = GameFor(j.dev, Tail(j.todo)) /\ mnt' = mnt
      BY <1>2, <1>4, <2>2, PopFor DEF PopLayer
    <3>2. QED BY <1>4, <2>2, <3>1
  <2>3. QED BY <2>1, <2>2
<1>9. Landing(p) BY <1>1, <1>4, <1>5, <1>8 DEF Landing
<1>10. StepMounts(proc[p])'
  <2>1. game' = (GameFor(j.dev, Tail(j.todo)))'
    BY <1>5, <1>8 DEF GameFor, Keyed, Bare, Layer
  <2>2. QED BY <1>3, <1>4, <1>5, <1>8, <2>1 DEF StepMounts, Usable
<1>11. proc'[p].at \notin Steady BY <1>5 DEF Steady
<1>12. QED BY <1>2, <1>3, <1>5, <1>6, <1>7, <1>9, <1>10, <1>11, Step

LEMMA TodoTails ==
  ASSUME NEW todo \in Todos, todo # <<>>
  PROVE  /\ Tail(todo) \in Todos
         /\ Tail(todo) = <<"mnt">> <=> FALSE
         /\ todo = <<"mnt">> => Tail(todo) = <<>>
<1>1. CASE todo = <<"mnt">> \/ todo = <<"game">>
  <2>0. ASSUME NEW a PROVE <<>> = Tail(<<a>>) OBVIOUS
  <2>1. Tail(todo) = <<>> BY <1>1, <2>0
  <2>2. QED BY <2>1 DEF Todos
<1>2. CASE todo = <<"roms", "game">> \/ todo = <<"save", "game">>
  <2>0. ASSUME NEW a, NEW b PROVE <<b>> = Tail(<<a, b>>) OBVIOUS
  <2>1. Tail(todo) = <<"game">> BY <1>2, <2>0
  <2>2. <<"game">> # <<"mnt">> /\ todo # <<"mnt">> BY <1>2
  <2>3. QED BY <2>1, <2>2 DEF Todos
<1>3. CASE todo = <<"roms", "save", "game">>
  <2>1. Tail(todo) = <<"save", "game">> BY <1>3
  <2>2. <<"save", "game">> # <<"mnt">> /\ todo # <<"mnt">> BY <1>3
  <2>3. QED BY <2>1, <2>2 DEF Todos
<1>4. QED BY <1>1, <1>2, <1>3 DEF Todos

LEMMA NextTargetKeeps ==
  ASSUME Gentle, Calm, session.calm, NEW p \in Procs, NextTarget(p)
  PROVE  Calm'
<1> DEFINE j == proc[p]
<1>1. j.at = "pop" BY DEF NextTarget, At
<1>2. /\ Turns(p) /\ EnginesRunning = {} /\ j.dev \in Devs
      /\ j.at \in Changing \ {"touch"} /\ j.job \in {"attach", "detach", "boot"}
      /\ WillStart(j) => \A w \in Wrappers : wrap[w].at = "none"
  BY <1>1, AtMounts DEF AfterKill
<1>3. UNCHANGED <<session, present, queue, exitFile, wrap, off, mnt, game, starts>>
  BY DEF NextTarget, keys, mounts, launcher
<1>4. LET todo == IF j.left = 0 THEN Tail(j.todo) ELSE j.todo IN
      /\ game = GameFor(j.dev, todo)
      /\ mnt = IF j.then = "schedule" /\ todo = <<>> THEN <<>> ELSE <<j.dev>>
      /\ j.then \in {"bindGame", "failed"} => Usable(j.dev)
      /\ \/ j.then = "failed" /\ j.job # "detach" /\ j.todo # <<"mnt">>
         \/ j.then = "remount" /\ j.job # "boot" /\ j.todo # <<"mnt">>
         \/ j.then = "schedule" /\ j.job = "detach" /\ j.todo = <<"mnt">>
      /\ j.todo \in Todos /\ j.todo # <<>> /\ (j.job \in {"boot", "detach"} => ~j.restart)
      /\ j.left \in {0, 1}
  BY <1>1, DropFacts
<1>5. j.left = 0
  <2>1. SUFFICES ASSUME j.left = 1 PROVE FALSE BY <1>4
  <2>2. "umount" \notin session.faults BY DEF Gentle, Calm, Shapes
  <2>3. CanPop(Head(j.todo))
    <3>1. CASE j.todo = <<"mnt">>
      <4>1. mnt # <<>> /\ Head(j.todo) = "mnt" BY <1>4, <2>1, <3>1
      <4>2. QED BY <4>1 DEF CanPop, Kids
    <3>2. CASE j.todo # <<"mnt">> BY <1>2, <1>4, <2>1, <3>2, PopFor
    <3>3. QED BY <3>1, <3>2
  <2>4. QED BY <2>1, <2>2, <2>3 DEF NextTarget
<1>6. Tail(j.todo) \in Todos
      /\ (Tail(j.todo) = <<"mnt">> <=> FALSE)
      /\ (j.todo = <<"mnt">> => Tail(j.todo) = <<>>)
  BY <1>4, TodoTails
<1>7. /\ Moves(p) /\ proc'[p].at = "drop"
      /\ proc'[p].todo = Tail(j.todo) /\ proc'[p].then = j.then /\ proc'[p].job = j.job
      /\ proc'[p].dev = j.dev /\ proc'[p].restart = j.restart
  <2>1. proc \in [Procs -> Jobs] BY DEF Calm, Shapes
  <2>2. [j EXCEPT !.at = "drop", !.todo = Tail(j.todo), !.left = 0] \in Jobs
    BY <1>6, <2>1, JobsAt
  <2>3. proc' = [proc EXCEPT ![p] =
                   [j EXCEPT !.at = "drop", !.todo = Tail(j.todo), !.left = 0]]
    BY DEF NextTarget
  <2>4. Moves(p) /\ proc'[p] = [j EXCEPT !.at = "drop", !.todo = Tail(j.todo), !.left = 0]
    BY <2>1, <2>2, <2>3 DEF Moves
  <2>5. QED BY <2>1, <2>4 DEF Jobs
<1>8. JobSteps(proc[p])' BY <1>2, <1>4, <1>6, <1>7 DEF JobSteps
<1>9. StepMounts(proc[p])'
  <2>1. game' = (GameFor(j.dev, j.todo))'
    BY <1>3, <1>4, <1>5, <1>7 DEF GameFor, Keyed, Bare, Layer
  <2>2. QED BY <1>3, <1>4, <1>5, <1>7, <2>1 DEF StepMounts, Usable
<1>10. QED BY <1>1, <1>2, <1>3, <1>7, <1>8, <1>9, Quietly DEF Changing

LEMMA Binds ==
  ASSUME NEW d, mnt = <<d>>, Usable(d)
  PROVE  \A ok \in BindOutcomes : ok \in BOOLEAN
<1>1. Readable = {TRUE} BY Answers DEF Usable
<1>2. QED BY <1>1 DEF BindOutcomes

LEMMA BindGameKeeps ==
  ASSUME Calm, NEW p \in Procs, BindGame(p)
  PROVE  Calm' /\ EnginesRunning = {}
<1> DEFINE j == proc[p]
<1>1. j.at = "bindGame" /\ j.job \in {"attach", "boot"} /\ MountedBare(j.dev) /\ Usable(j.dev)
      /\ (j.job = "boot" => ~j.restart)
  BY DEF BindGame, At, Calm, JobInv, JobSteps, MountInv, StepMounts
<1>2. /\ Turns(p) /\ EnginesRunning = {} /\ j.dev \in Devs
      /\ j.at \in Changing \ {"touch"}
      /\ WillStart(j) => \A w \in Wrappers : wrap[w].at = "none"
  BY <1>1, AtMounts DEF AfterKill
<1>3. UNCHANGED <<session, present, queue, exitFile, wrap, off, mnt, starts>>
  BY DEF BindGame, keys, launcher
<1>4. PICK step \in {"roms", "failed"} :
        /\ proc' = [proc EXCEPT ![p].at = step]
        /\ step = "roms" => game' = Append(game, Layer(Last(mnt)))
        /\ step = "failed" => game' = game
  BY <1>1, Binds DEF BindGame, Goto, MountedBare
<1>5. Moves(p) /\ Onward(p, step) BY <1>4, GoingTo DEF Changing
<1>6. JobSteps(proc[p])' BY <1>1, <1>4, <1>5 DEF Onward, JobSteps
<1>7. step = "roms" => game' = Keyed(j.dev, <<>>, <<>>)
  BY <1>1, <1>4, Ends DEF MountedBare, Bare, Keyed, Layer
<1>8. StepMounts(proc[p])'
  <2>1. CASE step = "roms"
    <3>1. game' = Keyed(proc'[p].dev, <<>>, <<>>) BY <1>5, <1>7, <2>1 DEF Onward
    <3>2. QED BY <1>1, <1>3, <1>5, <2>1, <3>1
      DEF Onward, StepMounts, Usable, MountedBare, Keyed, Layer
  <2>2. CASE step = "failed"
    BY <1>1, <1>3, <1>4, <1>5, <2>2 DEF Onward, StepMounts, Usable, MountedBare
  <2>3. QED BY <2>1, <2>2
<1>9. QED BY <1>1, <1>2, <1>3, <1>4, <1>5, <1>6, <1>8, Quietly DEF Onward, Changing

LEMMA BindKidKeeps ==
  ASSUME Calm, NEW p \in Procs, NEW kid \in Kids, BindKid(p, kid)
  PROVE  Calm' /\ EnginesRunning = {}
<1> DEFINE j == proc[p]
<1>1. /\ j.at = kid /\ j.at \in {"roms", "save"} /\ j.job \in {"attach", "boot"}
      /\ mnt = <<j.dev>> /\ Usable(j.dev)
      /\ j.at = "roms" => game = Keyed(j.dev, <<>>, <<>>)
      /\ j.at = "save" => game = Keyed(j.dev, <<j.dev>>, <<>>)
      /\ j.job = "boot" => ~j.restart
  BY DEF BindKid, At, Kids, Calm, JobInv, JobSteps, MountInv, StepMounts
<1>2. /\ Turns(p) /\ Elsewhere(p) /\ EnginesRunning = {} /\ j.dev \in Devs
      /\ j.at \in Changing \ {"touch"}
      /\ WillStart(j) => \A w \in Wrappers : wrap[w].at = "none"
  BY <1>1, AtMounts DEF AfterKill
<1>3. UNCHANGED <<session, present, queue, exitFile, wrap, off, mnt>>
  BY DEF BindKid, keys
<1>4. CASE DropThen(p, TargetsInUse, "failed") /\ UNCHANGED <<game, starts>>
  <2>1. PICK todo \in {<<"game">>, <<"roms", "game">>} :
          todo = IF j.at = "roms" THEN <<"game">> ELSE <<"roms", "game">>
    BY <1>1
  <2>2. todo \in Todos /\ todo # <<"mnt">> BY <2>1 DEF Todos
  <2>3. game = GameFor(j.dev, todo)
    <3>1. <<"game">> # <<"roms", "game">> OBVIOUS
    <3>2. QED BY <1>1, <2>1, <3>1 DEF GameFor
  <2>4. TargetsInUse = todo BY <1>2, <2>2, <2>3, CountFor
  <2>5. DropThen(p, todo, "failed") BY <1>4, <2>4
  <2>6. QED BY <1>1, <1>2, <1>3, <1>4, <2>2, <2>3, <2>5, DropsQuietly
<1>5. CASE /\ game' = [game EXCEPT ![Len(game)][kid] = Append(@, Last(mnt))]
           /\ IF kid = "roms" THEN Goto(p, "save") /\ UNCHANGED starts
              ELSE IF j.restart THEN Goto(p, "schedule") /\ UNCHANGED starts
              ELSE Finish(p)
  <2>1. Last(mnt) = j.dev BY <1>1, Ends
  <2>2. j.at = "roms" => game' = Keyed(j.dev, <<j.dev>>, <<>>)
    BY <1>1, <1>5, <2>1 DEF Keyed, Layer
  <2>3. j.at = "save" => game' = Keyed(j.dev, <<j.dev>>, <<j.dev>>)
    BY <1>1, <1>5, <2>1 DEF Keyed, Layer
  <2>4. CASE kid = "roms" /\ Goto(p, "save") /\ UNCHANGED starts
    <3>1. Moves(p) /\ Onward(p, "save") BY <2>4, GoingTo DEF Changing, Goto
    <3>2. JobSteps(proc[p])' BY <1>1, <3>1 DEF Onward, JobSteps
    <3>3. game' = Keyed(proc'[p].dev, <<proc'[p].dev>>, <<>>)
      BY <1>1, <2>2, <2>4, <3>1 DEF Onward
    <3>4. StepMounts(proc[p])'
      BY <1>1, <1>3, <3>1, <3>3 DEF Onward, StepMounts, Usable, Keyed, Layer
    <3>5. QED BY <1>1, <1>2, <1>3, <2>4, <3>1, <3>2, <3>4, Quietly DEF Onward, Changing
  <2>5. CASE kid = "save" /\ j.restart /\ Goto(p, "schedule") /\ UNCHANGED starts
    <3>1. Moves(p) /\ Onward(p, "schedule") BY <2>5, GoingTo DEF Steady, Goto
    <3>2. j.job = "attach" BY <1>1, <2>5
    <3>3. JobSteps(proc[p])' BY <1>1, <2>5, <3>1, <3>2 DEF Onward, JobSteps
    <3>4. StepMounts(proc[p])'
      BY <3>1, <3>2 DEF Onward, StepMounts
    <3>5. Bound(j.dev)' => WholeOrNone' BY <1>2, <3>1 DEF WholeOrNone, Onward
    <3>6. (Bound(j.dev))' BY <1>1, <1>3, <2>3, <2>5, <3>1 DEF Bound, Onward, Keyed, Layer
    <3>7. QED BY <1>1, <1>2, <1>3, <2>5, <3>1, <3>3, <3>4, <3>5, <3>6, Quietly
      DEF Onward, Changing
  <2>6. CASE kid = "save" /\ ~j.restart /\ Finish(p)
    <3>1. ~WillStart(j) BY <1>1, <2>6 DEF WillStart
    <3>2. \E d \in Devs : mnt' = <<d>> /\ game' = Keyed(d, <<d>>, <<d>>)
      BY <1>1, <1>2, <1>3, <2>3, <2>6
    <3>3. WholeOrNone' BY <3>2 DEF WholeOrNone, Bound, Keyed, Layer
    <3>4. QED BY <1>1, <1>2, <1>3, <2>6, <3>1, <3>3, Finishing
  <2>7. QED BY <1>5, <2>4, <2>5, <2>6, <1>1
<1>6. QED
  <2>1. \A ok \in BindOutcomes : ok \in BOOLEAN BY <1>1, Binds
  <2>2. QED BY <1>2, <1>4, <1>5, <2>1 DEF BindKid

LEMMA BindFailedKeeps ==
  ASSUME Calm, NEW p \in Procs, BindFailed(p)
  PROVE  Calm'
<1> DEFINE j == proc[p]
<1>1. j.at = "failed" /\ j.job \in {"attach", "boot"} /\ MountedBare(j.dev) /\ Usable(j.dev)
      /\ (j.job = "boot" => ~j.restart)
  BY DEF BindFailed, At, Calm, JobInv, JobSteps, MountInv, StepMounts
<1>2. /\ Turns(p) /\ EnginesRunning = {} /\ j.dev \in Devs
      /\ j.at \in Changing \ {"touch"}
      /\ WillStart(j) => \A w \in Wrappers : wrap[w].at = "none"
  BY <1>1, AtMounts DEF AfterKill
<1>3. UNCHANGED <<session, present, queue, exitFile, wrap, off, mnt, game, starts>>
  BY DEF BindFailed, keys, mounts, launcher
<1>4. CASE j.job = "boot"
  <2>1. proc' = [proc EXCEPT ![p].at = "umount"] BY <1>4 DEF BindFailed, Goto
  <2>2. Moves(p) /\ Onward(p, "umount") BY <2>1, GoingTo DEF Changing
  <2>3. JobSteps(proc[p])' BY <1>1, <1>4, <2>2 DEF Onward, JobSteps
  <2>4. StepMounts(proc[p])'
    BY <1>1, <1>3, <2>2 DEF Onward, StepMounts, MountedBare
  <2>5. QED BY <1>1, <1>2, <1>3, <2>2, <2>3, <2>4, Quietly DEF Onward, Changing
<1>5. CASE j.job = "attach"
  <2>1. <<>> \in Todos /\ <<>> # <<"mnt">> BY DEF Todos
  <2>2. game = GameFor(j.dev, <<>>) BY <1>1 DEF MountedBare, GameFor
  <2>3. TargetsInUse = <<>> BY <1>2, <2>1, <2>2, CountFor
  <2>4. DropThen(p, <<>>, "remount") BY <1>5, <2>3 DEF BindFailed
  <2>5. QED BY <1>1, <1>2, <1>3, <1>5, <2>1, <2>2, <2>4, DropsQuietly DEF MountedBare
<1>6. QED BY <1>1, <1>4, <1>5

LEMMA RemountStockKeeps ==
  ASSUME Calm, NEW p \in Procs, RemountStock(p)
  PROVE  Calm' /\ EnginesRunning = {}
<1> DEFINE j == proc[p]
<1>1. j.at = "remount" /\ j.job \in {"attach", "detach"} /\ MountedBare(j.dev)
  BY DEF RemountStock, At, Calm, JobInv, JobSteps, MountInv, StepMounts
<1>2. /\ Turns(p) /\ EnginesRunning = {} /\ j.dev \in Devs
      /\ j.at \in Changing \ {"touch"}
      /\ WillStart(j) => \A w \in Wrappers : wrap[w].at = "none"
  BY <1>1, AtMounts DEF AfterKill
<1>3. game # <<>> BY <1>1 DEF MountedBare, Bare
<1>4. UNCHANGED <<session, present, queue, exitFile, wrap, off, mnt, game, starts>>
  BY <1>3 DEF RemountStock, keys, launcher
<1>5. CASE j.job = "detach"
  <2>1. DropThen(p, <<"mnt">>, "schedule") BY <1>5 DEF RemountStock
  <2>2. game = GameFor(j.dev, <<"mnt">>) BY <1>1 DEF MountedBare, GameFor
  <2>3. <<"mnt">> \in Todos BY DEF Todos
  <2>4. QED BY <1>1, <1>2, <1>4, <1>5, <2>1, <2>2, <2>3, DropsQuietly DEF MountedBare
<1>6. CASE j.job = "attach"
  <2>1. proc' = [proc EXCEPT ![p].at = "umount"] BY <1>6 DEF RemountStock, Goto
  <2>2. Moves(p) /\ Onward(p, "umount") BY <2>1, GoingTo DEF Changing
  <2>3. JobSteps(proc[p])' BY <1>1, <1>6, <2>2 DEF Onward, JobSteps
  <2>4. StepMounts(proc[p])'
    BY <1>1, <1>4, <2>2 DEF Onward, StepMounts, MountedBare
  <2>5. QED BY <1>1, <1>2, <1>4, <2>2, <2>3, <2>4, Quietly DEF Onward, Changing
<1>7. QED BY <1>1, <1>2, <1>5, <1>6

LEMMA UnmountKeyKeeps ==
  ASSUME Calm, NEW p \in Procs, UnmountKey(p)
  PROVE  Calm'
<1> DEFINE j == proc[p]
<1>1. j.at = "umount" /\ j.job \in {"attach", "boot"} /\ MountedBare(j.dev)
      /\ (j.job = "boot" => ~j.restart)
  BY DEF UnmountKey, At, Calm, JobInv, JobSteps, MountInv, StepMounts
<1>2. /\ Turns(p) /\ Elsewhere(p) /\ EnginesRunning = {} /\ j.dev \in Devs
      /\ j.at \in Changing \ {"touch"}
      /\ WillStart(j) => \A w \in Wrappers : wrap[w].at = "none"
      /\ \A w \in Wrappers : wrap[w].at \in {"run", "exited"} => ~wrap[w].usb
  BY <1>1, AtMounts DEF AfterKill
<1>3. UNCHANGED <<session, present, queue, exitFile, wrap, off, game>>
  BY DEF UnmountKey, keys
<1>4. mnt' = <<>> BY <1>1, Ends DEF UnmountKey, MountedBare
<1>5. Unbound' BY <1>1, <1>3, <1>4 DEF MountedBare, Unbound, Bare, Layer
<1>6. WholeOrNone' BY <1>5 DEF WholeOrNone
<1>7. CASE j.restart /\ Goto(p, "schedule") /\ UNCHANGED starts
  <2>1. Moves(p) /\ Onward(p, "schedule") BY <1>7, GoingTo DEF Steady, Goto
  <2>2. j.job = "attach" BY <1>1, <1>7
  <2>3. GoesOn(p)
    BY <1>1, <1>2, <1>7, <2>1, <2>2 DEF Onward, GoesOn, JobSteps, WillStart, Announced
  <2>4. EngineAllows(p)
    <3>1. Announced(j) BY <1>1, <1>7, <2>2 DEF Announced, WillStart
    <3>2. exitFile BY <3>1 DEF Calm, EngineInv
    <3>3. WillStart(j) BY <3>1 DEF Announced
    <3>4. QED BY <1>2, <1>3, <1>7, <2>1, <3>2, <3>3 DEF Onward, EngineAllows, Changing
  <2>5. Landing(p) BY <1>4, <2>1 DEF Onward, Landing
  <2>6. StepMounts(proc[p])' BY <2>1, <2>2 DEF Onward, StepMounts
  <2>7. QED BY <1>2, <1>3, <1>6, <2>1, <2>3, <2>4, <2>5, <2>6, Step
<1>8. CASE ~j.restart /\ Finish(p)
  <2>1. ~WillStart(j) BY <1>1, <1>8 DEF WillStart
  <2>2. QED BY <1>1, <1>2, <1>3, <1>4, <1>6, <1>8, <2>1, Finishing
<1>9. QED BY <1>7, <1>8 DEF UnmountKey

LEMMA ScheduleStartKeeps ==
  ASSUME Calm, NEW p \in Procs, ScheduleStart(p)
  PROVE  Calm'
<1> DEFINE j == proc[p]
<1>1. j.at = "schedule" /\ j.job \in {"attach", "detach"} /\ (j.job = "detach" => Unbound)
  BY DEF ScheduleStart, At, Calm, JobInv, JobSteps, MountInv, StepMounts
<1>2. Turns(p) /\ Elsewhere(p) BY <1>1, Acts
<1>3. WholeOrNone BY <1>1, <1>2, WholeAt DEF Steady
<1>4. UNCHANGED <<session, present, queue, exitFile, wrap, off, mnt, game>>
      /\ starts' = starts + 1 /\ proc' = [proc EXCEPT ![p] = Idle]
  BY DEF ScheduleStart, keys, mounts
<1>5. Idle \in Jobs /\ Idle.job = "none" /\ Idle.at = "idle" /\ ~Idle.restart
  BY UsbAssumption DEF Idle, Jobs, Steady, Todos
<1>6. Moves(p) /\ proc'[p] = Idle
  BY <1>4, <1>5 DEF Calm, Shapes, Moves
<1>7. GoesOn(p)
  <2>1. JobSteps(proc[p])' BY <1>5, <1>6 DEF JobSteps
  <2>2. QED BY <1>1, <1>4, <1>5, <1>6, <2>1 DEF GoesOn
<1>8. EngineAllows(p)
  BY <1>4, <1>5, <1>6 DEF EngineAllows, AfterKill, Announced, WillStart, Changing
<1>9. Landing(p)
  BY <1>1, <1>4, <1>5, <1>6 DEF Landing, Unbound
<1>10. WholeOrNone' BY <1>3, <1>4 DEF WholeOrNone, Unbound, Bound, Bare, Keyed, Layer
<1>11. StepMounts(proc[p])' BY <1>5, <1>6 DEF StepMounts
<1>12. QED BY <1>2, <1>4, <1>6, <1>7, <1>8, <1>9, <1>10, <1>11, Step

-----------------------------------------------------------------------------
(* The user and udev *)

LEMMA AllQuiet ==
  ASSUME Calm, Quiet
  PROVE  /\ \A q \in Procs : proc[q].job = "none" /\ proc[q].at = "idle"
         /\ \A d \in Devs : queue[d] = <<>> /\ ~Stirring(d)
         /\ WholeOrNone /\ starts = 0
         /\ \A d \in Devs : mnt = <<d>> => d \in present
<1>1. \A q \in Procs : proc[q].job = "none" /\ proc[q].at = "idle"
  BY DEF Quiet, Calm, JobInv, JobSteps, Procs
<1>2. \A d \in Devs : queue[d] = <<>> /\ ~Stirring(d) /\ ~Detaching(d)
  BY <1>1 DEF Quiet, Stirring, Detaching, Procs
<1>3. WholeOrNone BY <1>1 DEF Calm, MountInv, Steady
<1>4. \A d \in Devs : mnt = <<d>> => d \in present BY <1>2 DEF Calm, EventInv
<1>5. QED BY <1>1, <1>2, <1>3, <1>4 DEF Quiet

LEMMA EventKeeps ==
  ASSUME Calm, session.calm, NEW d \in Devs, NEW what \in {"add", "remove"}, Event(d, what),
         what = "add" => present' = present \cup {d} /\ mnt # <<d>>,
         what = "remove" => present' = present \ {d}
  PROVE  Calm'
<1>1. /\ queue' = [queue EXCEPT ![d] = Append(@, what)]
      /\ UNCHANGED <<session, mnt, game, exitFile, starts, wrap, proc, off>> /\ Quiet
  BY DEF Event, mounts, launcher
<1>2. /\ \A q \in Procs : proc[q].job = "none" /\ proc[q].at = "idle"
      /\ \A e \in Devs : queue[e] = <<>> /\ ~Stirring(e)
      /\ WholeOrNone /\ starts = 0
      /\ \A e \in Devs : mnt = <<e>> => e \in present
  BY <1>1, AllQuiet
<1>3. /\ queue' \in [Devs -> {<<>>, <<"add">>, <<"remove">>}]
      /\ queue'[d] = <<what>> /\ \A e \in Devs : e # d => queue'[e] = <<>>
  <2>1. <<what>> = Append(<<>>, what) OBVIOUS
  <2>2. QED BY <1>1, <1>2, <2>1 DEF Calm, Shapes
<1>4. Shapes' BY <1>1, <1>3 DEF Calm, Shapes
<1>5. JobInv' BY <1>1 DEF Calm, JobInv, JobSteps, Procs
<1>6. MountInv'
  <2>1. ASSUME NEW q \in Procs PROVE StepMounts(proc[q])'
    <3>1. proc'[q].at = "idle" BY <1>1, <1>2
    <3>2. QED BY <3>1 DEF StepMounts
  <2>2. WholeOrNone' BY <1>1, <1>2 DEF WholeOrNone, Unbound, Bound, Bare, Keyed, Layer
  <2>3. QED BY <2>1, <2>2 DEF MountInv, Procs
<1>7. EventInv'
  <2>1. ASSUME NEW e \in Devs
        PROVE  (/\ Attaching(e) => e \in present /\ mnt # <<e>>
                /\ Detaching(e) => e \notin present
                /\ mnt = <<e>> /\ e \notin present => Detaching(e)
                /\ queue[e] # <<>> => proc[e].job = "none")'
    <3>1. e \in Procs /\ proc'[e].job = "none" BY <1>1, <1>2 DEF Procs
    <3>2. CASE e = d
      <4>1. what = "add" \/ what = "remove" OBVIOUS
      <4>2. <<"add">> # <<"remove">> OBVIOUS
      <4>3. QED BY <1>1, <1>3, <3>1, <3>2, <4>1, <4>2 DEF Attaching, Detaching
    <3>3. CASE e # d
      <4>1. ~Attaching(e)' /\ ~Detaching(e)' BY <1>3, <3>1, <3>3 DEF Attaching, Detaching
      <4>2. mnt' = <<e>> => e \in present' BY <1>1, <1>2, <3>3
      <4>3. QED BY <3>1, <4>1, <4>2
    <3>4. QED BY <3>2, <3>3
  <2>2. \A e, f \in Devs : Stirring(e)' /\ Stirring(f)' => e = f
    BY <1>1, <1>2, <1>3 DEF Stirring, Procs
  <2>3. QED BY <2>1, <2>2 DEF EventInv
<1>8. TurnInv'
  <2>1. ~Launching'
    BY <1>1, <1>2 DEF Launching, Quiet
  <2>2. proc'[Boot].job # "boot" BY <1>1, <1>2 DEF Procs
  <2>3. \A v, w \in Wrappers : wrap'[v].at # "none" /\ wrap'[w].at # "none" => v = w
    BY <1>1 DEF Calm, TurnInv
  <2>4. QED BY <1>1, <1>2, <2>1, <2>2, <2>3 DEF TurnInv
<1>9. EngineInv'
  BY <1>1 DEF Calm, EngineInv, EnginesRunning, Procs, Announced, WillStart
<1>10. StartInv'
  BY <1>1 DEF Calm, StartInv, Leaving, Procs, WillStart
<1>11. QED BY <1>4, <1>5, <1>6, <1>7, <1>8, <1>9, <1>10 DEF Calm

LEMMA PlugKeeps ==
  ASSUME Calm, session.calm, NEW d \in Devs, Plug(d)
  PROVE  Calm'
<1>1. Event(d, "add") /\ present' = present \cup {d} /\ ~Held(d) BY DEF Plug
<1>2. mnt # <<d>>
  <2>1. SUFFICES ASSUME mnt = <<d>> PROVE FALSE OBVIOUS
  <2>2. 1 \in DOMAIN mnt /\ mnt[1] = d BY <2>1
  <2>3. d \in Range(mnt) BY <2>2 DEF Range
  <2>4. QED BY <1>1, <2>3 DEF Held
<1>3. QED BY <1>1, <1>2, EventKeeps

LEMMA UnplugKeeps ==
  ASSUME Calm, session.calm, NEW d \in Devs, Unplug(d)
  PROVE  Calm'
BY EventKeeps DEF Unplug

LEMMA RunHandlerKeeps ==
  ASSUME Calm, NEW d \in Devs, RunHandler(d)
  PROVE  Calm'
<1> USE UsbAssumption
<1>1. /\ d \in Procs /\ proc[d].at = "idle" /\ proc[d].job = "none" /\ Stirring(d)
      /\ queue[d] \in {<<"add">>, <<"remove">>}
  BY DEF RunHandler, At, Procs, Stirring, Calm, EventInv, Shapes
<1>2. /\ queue' = [queue EXCEPT ![d] = <<>>]
      /\ UNCHANGED <<session, present, mnt, game, exitFile, starts, wrap, off>>
  <2>1. ASSUME NEW a PROVE <<>> = Tail(<<a>>) OBVIOUS
  <2>2. Tail(queue[d]) = <<>> BY <1>1, <2>1
  <2>3. QED BY <2>2 DEF RunHandler, mounts, launcher
<1>3. \E job \in {"attach", "detach"} :
        /\ proc' = [proc EXCEPT ![d] = [Idle EXCEPT !.job = job, !.dev = d,
                      !.at = IF job = "attach" THEN "node" ELSE "look"]]
        /\ job = "attach" <=> queue[d] = <<"add">>
  <2>1. CASE queue[d] = <<"add">>
    <3>1. Head(queue[d]) = "add" BY <2>1
    <3>2. proc' = [proc EXCEPT ![d] = [Idle EXCEPT !.job = "attach", !.at = "node", !.dev = d]]
      BY <3>1 DEF RunHandler
    <3>3. QED BY <2>1, <3>2
  <2>2. CASE queue[d] = <<"remove">>
    <3>1. Head(queue[d]) = "remove" /\ queue[d] # <<"add">> BY <2>2
    <3>2. proc' = [proc EXCEPT ![d] = [Idle EXCEPT !.job = "detach", !.at = "look", !.dev = d]]
      BY <3>1 DEF RunHandler
    <3>3. QED BY <3>1, <3>2
  <2>3. QED BY <1>1, <2>1, <2>2
<1>4. PICK job \in {"attach", "detach"} :
        /\ proc' = [proc EXCEPT ![d] = [Idle EXCEPT !.job = job, !.dev = d,
                      !.at = IF job = "attach" THEN "node" ELSE "look"]]
        /\ job = "attach" <=> queue[d] = <<"add">>
  BY <1>3
<1>5. /\ Moves(d) /\ proc'[d].job = job /\ proc'[d].dev = d /\ ~proc'[d].restart
      /\ proc'[d].at = IF job = "attach" THEN "node" ELSE "look"
  <2>1. Idle \in Jobs /\ ~Idle.restart BY DEF Idle, Jobs, Steady, Todos
  <2>2. [Idle EXCEPT !.job = job, !.dev = d, !.at = IF job = "attach" THEN "node" ELSE "look"]
          \in Jobs
    BY <2>1 DEF Jobs, Steady
  <2>3. Idle = [job |-> "none", at |-> "idle", dev |-> Nand, restart |-> FALSE,
                todo |-> <<>>, left |-> 0, then |-> "idle"]
    BY DEF Idle
  <2>4. proc'[d] = [Idle EXCEPT !.job = job, !.dev = d,
                      !.at = IF job = "attach" THEN "node" ELSE "look"]
    BY <1>1, <1>4 DEF Calm, Shapes
  <2>5. /\ proc'[d].job = job /\ proc'[d].dev = d /\ ~proc'[d].restart
        /\ proc'[d].at = IF job = "attach" THEN "node" ELSE "look"
    BY <2>3, <2>4
  <2>6. proc' \in [Procs -> Jobs] BY <1>1, <1>4, <2>2 DEF Calm, Shapes
  <2>7. \A q \in Procs : q # d => proc'[q] = proc[q] BY <1>1, <1>4 DEF Calm, Shapes
  <2>8. QED BY <2>5, <2>6, <2>7 DEF Moves
<1>6. /\ \A e \in Devs : e # d => ~Stirring(e) /\ ~Stirring(e)' /\ queue'[e] = <<>>
      /\ \A e \in Devs : queue'[e] = <<>>
      /\ ~Launching /\ proc[Boot].at \in {"idle", "look"} /\ proc'[Boot] = proc[Boot]
  <2>1. \A e \in Devs : e # d => ~Stirring(e) BY <1>1 DEF Calm, EventInv
  <2>2. \A e \in Devs : queue'[e] = <<>> BY <1>2, <2>1 DEF Calm, Shapes, Stirring
  <2>3. \A e \in Devs : e # d => ~Stirring(e)'
    BY <1>2, <1>5, <2>1, <2>2 DEF Stirring, Moves, Procs
  <2>4. ~Launching BY <1>1 DEF Calm, TurnInv
  <2>5. proc[Boot].at \in {"idle", "look"}
    BY <1>1 DEF Calm, TurnInv, JobInv, JobSteps, Procs
  <2>6. proc'[Boot] = proc[Boot] BY <1>5 DEF Moves, Procs
  <2>7. QED BY <2>1, <2>2, <2>3, <2>4, <2>5, <2>6
<1>7. Shapes' BY <1>2, <1>5, <1>6 DEF Calm, Shapes, Moves
<1>8. JobInv'
  <2>1. ASSUME NEW q \in Procs
        PROVE  /\ JobSteps(proc'[q])
               /\ q # Boot => proc'[q].job # "boot" /\ (proc'[q].job # "none" => proc'[q].dev = q)
               /\ q = Boot => proc'[q].job \in {"none", "boot"}
               /\ proc'[q].job # "none" /\ proc'[q].at \notin {"look", "poll"} =>
                    proc'[q].dev \in Devs
    <3>1. CASE q = d BY <1>5, <3>1 DEF JobSteps
    <3>2. CASE q # d BY <1>5, <3>2 DEF Calm, JobInv, Moves
    <3>3. QED BY <3>1, <3>2
  <2>2. QED BY <2>1 DEF JobInv, JobSteps, Procs
<1>9. MountInv'
  <2>1. ASSUME NEW q \in Procs PROVE StepMounts(proc[q])'
    <3>1. proc'[q].at \in {"idle", "node", "look"}
      <4>1. CASE q = d BY <1>5, <4>1
      <4>2. CASE q # d /\ q = Boot BY <1>6, <4>2
      <4>3. CASE q # d /\ q \in Devs
        BY <1>5, <1>6, <4>3 DEF Calm, JobInv, JobSteps, Stirring, Moves
      <4>4. QED BY <4>1, <4>2, <4>3 DEF Procs
    <3>2. QED BY <3>1 DEF StepMounts
  <2>2. WholeOrNone
    <3>1. ASSUME NEW q \in Procs PROVE proc[q].at \in Steady
      <4>1. CASE q \in Devs
        BY <1>1, <1>6, <4>1 DEF Calm, JobInv, JobSteps, Stirring, Steady
      <4>2. CASE q = Boot BY <1>6, <4>2 DEF Steady
      <4>3. QED BY <4>1, <4>2 DEF Procs
    <3>2. QED BY <3>1 DEF Calm, MountInv
  <2>3. WholeOrNone' BY <1>2, <2>2 DEF WholeOrNone, Unbound, Bound, Bare, Keyed, Layer
  <2>4. QED BY <2>1, <2>3 DEF MountInv, Procs
<1>10. EventInv'
  <2>1. ASSUME NEW e \in Devs
        PROVE  (/\ Attaching(e) => e \in present /\ mnt # <<e>>
                /\ Detaching(e) => e \notin present
                /\ mnt = <<e>> /\ e \notin present => Detaching(e)
                /\ queue[e] # <<>> => proc[e].job = "none")'
    <3>1. CASE e = d
      <4>1. Attaching(d)' => Attaching(d) BY <1>4, <1>5, <1>6 DEF Attaching
      <4>2. Detaching(d)' <=> Detaching(d)
        <5>1. <<"add">> # <<"remove">> OBVIOUS
        <5>2. QED BY <1>1, <1>4, <1>5, <1>6, <5>1 DEF Detaching
      <4>3. QED BY <1>2, <1>6, <3>1, <4>1, <4>2 DEF Calm, EventInv
    <3>2. CASE e # d
      <4>1. ~Attaching(e)' /\ ~Detaching(e)' /\ ~Detaching(e)
        BY <1>6, <3>2 DEF Attaching, Detaching, Stirring
      <4>2. QED BY <1>2, <1>6, <4>1 DEF Calm, EventInv
    <3>3. QED BY <3>1, <3>2
  <2>2. \A e, f \in Devs : Stirring(e)' /\ Stirring(f)' => e = f BY <1>6
  <2>3. QED BY <2>1, <2>2 DEF EventInv
<1>11. TurnInv'
  <2>1. ~Launching' BY <1>2, <1>6 DEF Launching
  <2>2. ASSUME proc'[Boot].job = "boot"
        PROVE  /\ proc'[Boot].at = "look" /\ starts' = 0 /\ ~exitFile'
               /\ \A w \in Wrappers : wrap'[w].at = "none"
               /\ \A e \in Devs : ~Detaching(e)' /\ ~proc'[e].restart
    <3>1. proc[Boot].job = "boot" /\ proc[Boot].at = "look"
      BY <1>6, <2>2 DEF Calm, JobInv, JobSteps, Procs
    <3>2. ~Detaching(d) BY <3>1 DEF Calm, TurnInv
    <3>3. job = "attach" BY <1>1, <1>4, <3>2 DEF Detaching
    <3>4. ASSUME NEW e \in Devs PROVE ~Detaching(e)' /\ ~proc'[e].restart
      <4>1. CASE e = d BY <1>5, <1>6, <3>3, <4>1 DEF Detaching
      <4>2. CASE e # d
        <5>1. e \in Procs /\ proc'[e] = proc[e] BY <1>5, <4>2 DEF Moves, Procs
        <5>2. QED BY <1>6, <3>1, <4>2, <5>1 DEF Calm, TurnInv, Detaching
      <4>3. QED BY <4>1, <4>2
    <3>5. QED BY <1>2, <1>6, <3>1, <3>4 DEF Calm, TurnInv
  <2>3. starts' = 1 => \A w \in Wrappers : wrap'[w].at = "none" BY <1>2 DEF Calm, TurnInv
  <2>4. \A v, w \in Wrappers : wrap'[v].at # "none" /\ wrap'[w].at # "none" => v = w
    BY <1>2 DEF Calm, TurnInv
  <2>5. QED BY <2>1, <2>2, <2>3, <2>4 DEF TurnInv
<1>12. EngineInv'
  <2>1. ASSUME NEW q \in Procs
        PROVE  (/\ proc[q].job = "attach" /\ proc[q].at \in Changing =>
                     \A w \in Wrappers : wrap[w].at \in {"run", "exited"} => ~wrap[w].usb
                /\ proc[q].at \in AfterKill \cup {"sleep"} => EnginesRunning = {}
                /\ proc[q].at \in AfterKill /\ WillStart(proc[q]) =>
                     \A w \in Wrappers : wrap[w].at = "none"
                /\ Announced(proc[q]) => exitFile)'
    <3>1. CASE q = d
      BY <1>5, <3>1 DEF Changing, AfterKill, Announced, WillStart
    <3>2. CASE q # d
      <4>1. proc'[q] = proc[q] BY <1>5, <3>2 DEF Moves
      <4>2. QED BY <1>2, <4>1 DEF Calm, EngineInv, EnginesRunning
    <3>3. QED BY <3>1, <3>2
  <2>2. exitFile' => starts' = 1 \/ \E q \in Procs : Announced(proc'[q])
    <3>1. ~Announced(proc[d]) BY <1>1 DEF Announced, WillStart
    <3>2. QED BY <1>2, <1>5, <3>1 DEF Calm, EngineInv, Moves
  <2>3. \A w \in Wrappers :
          (/\ wrap[w].at = "exec" => (wrap[w].usb <=> Last(game).src # Nand)
           /\ wrap[w].at = "run" =>
                wrap[w].layer = Last(game).src /\ (wrap[w].usb <=> wrap[w].layer # Nand)
           /\ wrap[w].at = "exited" =>
                /\ wrap[w].cause \in {"user", "killed"}
                /\ wrap[w].cause = "killed" => exitFile
                /\ ~exitFile /\ wrap[w].usb => mnt # <<>>)'
    BY <1>2 DEF Calm, EngineInv
  <2>4. QED BY <2>1, <2>2, <2>3 DEF EngineInv, Procs
<1>13. StartInv'
  <2>1. ~WillStart(proc[d]) BY <1>1 DEF WillStart
  <2>2. \A q \in Procs : WillStart(proc[q]) => WillStart(proc'[q]) BY <1>5, <2>1 DEF Moves
  <2>3. \A w \in Wrappers : Leaving(w) => Leaving(w)' BY <1>2 DEF Leaving
  <2>4. QED BY <1>2, <1>6, <2>2, <2>3 DEF Calm, StartInv, Procs
<1>14. QED BY <1>7, <1>8, <1>9, <1>10, <1>11, <1>12, <1>13 DEF Calm

-----------------------------------------------------------------------------
(* The launcher *)

\* What a step of a wrapper leaves alone.
WrapperMoves(w) ==
  /\ UNCHANGED <<session, present, queue, mnt, game, proc>>
  /\ wrap' \in [Wrappers -> Wraps]
  /\ \A v \in Wrappers : v # w => wrap'[v] = wrap[v]

LEMMA WrapperLeaves ==
  ASSUME Calm, NEW w \in Wrappers, WrapperMoves(w)
  PROVE  JobInv' /\ MountInv' /\ EventInv'
<1>1. UNCHANGED <<session, present, queue, mnt, game, proc>> BY DEF WrapperMoves
<1>2. JobInv' BY <1>1 DEF Calm, JobInv, JobSteps, Procs
<1>3. MountInv'
  <2>1. ASSUME NEW q \in Procs PROVE StepMounts(proc[q])'
    <3>1. StepMounts(proc[q]) BY DEF Calm, MountInv
    <3>2. QED
      BY <1>1, <3>1 DEF StepMounts, Unbound, Bound, MountedBare, Usable, Bare, Keyed, Layer,
                        GameFor
  <2>2. WholeOrNone' <=> WholeOrNone BY <1>1 DEF WholeOrNone, Unbound, Bound, Bare, Keyed, Layer
  <2>3. QED BY <1>1, <2>1, <2>2 DEF Calm, MountInv, Procs
<1>4. EventInv'
  BY <1>1 DEF Calm, EventInv, Attaching, Detaching, Stirring
<1>5. QED BY <1>2, <1>3, <1>4

LEMMA WrapperSet ==
  ASSUME Calm, NEW w \in Wrappers, NEW r \in Wraps, wrap' = [wrap EXCEPT ![w] = r],
         UNCHANGED <<session, present, queue, mnt, game, proc>>
  PROVE  WrapperMoves(w) /\ wrap'[w] = r
BY DEF Calm, Shapes, WrapperMoves

\* Nothing stirs while an engine is being started.
LEMMA AtLaunch ==
  ASSUME Calm, Launching
  PROVE  /\ \A q \in Procs : proc[q].job = "none" /\ proc[q].at = "idle"
         /\ \A q \in Procs : ~Announced(proc[q]) /\ ~WillStart(proc[q])
         /\ WholeOrNone
         /\ \A d \in Devs : mnt = <<d>> => d \in present
<1>1. proc[Boot].job = "none" /\ \A d \in Devs : ~Stirring(d) BY DEF Calm, TurnInv
<1>2. \A q \in Procs : proc[q].job = "none" BY <1>1 DEF Stirring, Procs
<1>3. \A q \in Procs : proc[q].at = "idle" BY <1>2 DEF Calm, JobInv, JobSteps
<1>4. \A q \in Procs : ~Announced(proc[q]) /\ ~WillStart(proc[q])
  BY <1>2 DEF Announced, WillStart
<1>5. WholeOrNone BY <1>3 DEF Calm, MountInv, Steady
<1>6. \A d \in Devs : ~Detaching(d) BY <1>1, <1>2 DEF Stirring, Detaching, Procs
<1>7. \A d \in Devs : mnt = <<d>> => d \in present BY <1>6 DEF Calm, EventInv
<1>8. QED BY <1>2, <1>3, <1>4, <1>5, <1>7

LEMMA NoKeyNoLayer ==
  ASSUME Calm, mnt = <<>>
  PROVE  game = Bare
<1>1. CASE \A p \in Procs : proc[p].at \in Steady
  <2>1. WholeOrNone BY <1>1 DEF Calm, MountInv
  <2>2. QED BY <2>1 DEF WholeOrNone, Unbound, Bound
<1>2. CASE \E p \in Procs : proc[p].at \notin Steady
  <2>1. PICK p \in Procs : proc[p].at \notin Steady BY <1>2
  <2>2. proc[p].at \in Changing BY <2>1 DEF Calm, Shapes, Jobs
  <2>3. StepMounts(proc[p]) BY DEF Calm, MountInv
  <2>4. \A d : mnt # <<d>> OBVIOUS
  <2>5. CASE proc[p].at = "mount" BY <2>3, <2>5 DEF StepMounts, Unbound
  <2>6. CASE proc[p].at \in {"drop", "pop"}
    <3>1. GameFor(proc[p].dev, <<>>) = Bare BY DEF GameFor
    <3>2. QED BY <2>3, <2>4, <2>6, <3>1 DEF StepMounts
  <2>7. CASE proc[p].at \notin {"mount", "drop", "pop"}
    BY <2>2, <2>3, <2>4, <2>7 DEF StepMounts, Changing, Bound, MountedBare
  <2>8. QED BY <2>5, <2>6, <2>7
<1>3. QED BY <1>1, <1>2

LEMMA StartGameKeeps ==
  ASSUME Calm, NEW w \in Wrappers, StartGame(w)
  PROVE  Calm'
<1>1. starts = 1 /\ Launching BY DEF StartGame, Calm, Shapes, Launching
<1>2. /\ starts' = 0 /\ exitFile' = FALSE
      /\ UNCHANGED <<session, present, queue, mnt, game, proc, off>>
  BY <1>1 DEF StartGame, keys, mounts
<1>3. [Fresh EXCEPT !.at = "start"] \in Wraps BY DEF Fresh, Wraps
<1>4. /\ WrapperMoves(w) /\ wrap'[w] = [Fresh EXCEPT !.at = "start"]
  BY <1>2, <1>3, WrapperSet DEF StartGame
<1>5. wrap'[w].at = "start" BY <1>4 DEF Fresh
<1>6. \A v \in Wrappers : v # w => wrap'[v].at = "none"
  BY <1>1, <1>4 DEF Calm, TurnInv, WrapperMoves
<1>7. Shapes' BY <1>2, <1>4 DEF Calm, Shapes, WrapperMoves
<1>8. TurnInv'
  <2>1. proc'[Boot].job = "none" /\ \A d \in Devs : ~Stirring(d)'
    BY <1>1, <1>2 DEF Calm, TurnInv, Stirring
  <2>2. QED BY <1>2, <1>5, <1>6, <2>1 DEF TurnInv
<1>9. EngineInv'
  <2>1. \A q \in Procs : proc'[q].job = "none" /\ proc'[q].at = "idle"
    BY <1>1, <1>2, AtLaunch
  <2>2. \A v \in Wrappers : wrap'[v].at \in {"none", "start"} BY <1>5, <1>6
  <2>3. QED BY <1>2, <2>1, <2>2 DEF EngineInv, Changing, AfterKill, Announced, WillStart, Procs
<1>10. StartInv' BY <1>5 DEF StartInv
<1>11. QED BY <1>4, <1>7, <1>8, <1>9, <1>10, WrapperLeaves DEF Calm

\* A wrapper on its way to its engine.
LEMMA LaunchKeeps ==
  ASSUME Calm, NEW w \in Wrappers, wrap[w].at \in {"start", "exec"}, WrapperMoves(w),
         UNCHANGED <<starts, exitFile, off>>, wrap'[w].at \in {"exec", "run"},
         wrap'[w].usb <=> Last(game).src # Nand,
         wrap'[w].at = "run" => wrap'[w].layer = Last(game).src
  PROVE  Calm'
<1>1. Launching BY DEF Launching
<1>2. /\ UNCHANGED <<session, present, queue, mnt, game, proc>>
      /\ \A v \in Wrappers : v # w => wrap'[v] = wrap[v]
  BY DEF WrapperMoves
<1>3. starts = 0 BY DEF Calm, TurnInv, Shapes
<1>4. \A v \in Wrappers : v # w => wrap'[v].at = "none" BY <1>2 DEF Calm, TurnInv
<1>5. Shapes' BY <1>2 DEF Calm, Shapes, WrapperMoves
<1>6. TurnInv'
  <2>1. proc'[Boot].job = "none" /\ \A d \in Devs : ~Stirring(d)'
    BY <1>1, <1>2 DEF Calm, TurnInv, Stirring
  <2>2. QED BY <1>3, <1>4, <2>1 DEF TurnInv
<1>7. EngineInv'
  <2>1. \A q \in Procs : proc'[q].job = "none" /\ proc'[q].at = "idle"
    BY <1>1, <1>2, AtLaunch
  <2>2. ~exitFile BY <1>1, <1>3, AtLaunch DEF Calm, EngineInv
  <2>3. QED
    BY <1>2, <1>4, <2>1, <2>2 DEF EngineInv, Changing, AfterKill, Announced, WillStart, Procs
<1>8. StartInv' BY DEF StartInv
<1>9. QED BY <1>5, <1>6, <1>7, <1>8, WrapperLeaves DEF Calm

\* The tree an engine is started from is there, whole.
LEMMA TreeAtLaunch ==
  ASSUME Calm, Launching
  PROVE  game # <<>> /\ Last(game).src \in present \cup {Nand}
<1>1. CASE Unbound
  <2>1. game = Bare /\ Last(game).src = Nand BY <1>1, BareFields DEF Unbound
  <2>2. Bare # <<>> BY DEF Bare
  <2>3. QED BY <2>1, <2>2
<1>2. CASE \E d \in Devs : Bound(d)
  <2>1. PICK d \in Devs : Bound(d) BY <1>2
  <2>2. game = Keyed(d, <<d>>, <<d>>) /\ d \in present BY <2>1, AtLaunch DEF Bound
  <2>3. Keyed(d, <<d>>, <<d>>) # <<>> BY DEF Keyed
  <2>4. QED BY <2>2, <2>3, KeyedFields
<1>3. QED BY <1>1, <1>2, AtLaunch DEF WholeOrNone

LEMMA ChoosePreloadKeeps ==
  ASSUME Calm, NEW w \in Wrappers, ChoosePreload(w)
  PROVE  Calm'
<1> USE UsbAssumption
<1>1. wrap[w].at = "start" /\ Launching BY DEF ChoosePreload, Launching
<1>2. game # <<>> /\ Last(game).src \in present \cup {Nand} BY <1>1, TreeAtLaunch
<1>3. UNCHANGED <<session, present, queue, mnt, game, proc, starts, exitFile, off>>
  BY DEF ChoosePreload, keys, mounts
<1>4. PICK usb \in BOOLEAN : /\ wrap' = [wrap EXCEPT ![w].at = "exec", ![w].usb = usb]
                             /\ usb <=> Last(game).src # Nand
  BY <1>2 DEF ChoosePreload
<1>5. wrap[w] \in Wraps BY DEF Calm, Shapes
<1>6. [wrap[w] EXCEPT !.at = "exec", !.usb = usb] \in Wraps BY <1>5 DEF Wraps
<1>7. wrap' = [wrap EXCEPT ![w] = [wrap[w] EXCEPT !.at = "exec", !.usb = usb]]
  BY <1>4 DEF Calm, Shapes
<1>8. WrapperMoves(w) /\ wrap'[w] = [wrap[w] EXCEPT !.at = "exec", !.usb = usb]
  BY <1>3, <1>6, <1>7, WrapperSet
<1>9. wrap'[w].at = "exec" /\ wrap'[w].usb = usb BY <1>5, <1>8 DEF Wraps
<1>10. QED BY <1>1, <1>3, <1>4, <1>8, <1>9, LaunchKeeps

LEMMA ExecEngineKeeps ==
  ASSUME Calm, NEW w \in Wrappers, ExecEngine(w)
  PROVE  Calm'
<1> USE UsbAssumption
<1>1. wrap[w].at = "exec" /\ Launching BY DEF ExecEngine, Launching
<1>2. game # <<>> /\ Last(game).src \in present \cup {Nand} BY <1>1, TreeAtLaunch
<1>3. UNCHANGED <<session, present, queue, mnt, game, proc, starts, exitFile, off>>
  BY DEF ExecEngine, keys, mounts
<1>4. wrap[w] \in Wraps BY DEF Calm, Shapes
<1>5. [wrap[w] EXCEPT !.at = "run", !.layer = Last(game).src] \in Wraps
  BY <1>2, <1>4 DEF Wraps, Calm, Shapes
<1>6. wrap' = [wrap EXCEPT ![w] = [wrap[w] EXCEPT !.at = "run", !.layer = Last(game).src]]
  BY <1>2 DEF ExecEngine, Calm, Shapes
<1>7. WrapperMoves(w) /\ wrap'[w] = [wrap[w] EXCEPT !.at = "run", !.layer = Last(game).src]
  BY <1>3, <1>5, <1>6, WrapperSet
<1>8. wrap'[w].at = "run" /\ wrap'[w].layer = Last(game).src /\ wrap'[w].usb = wrap[w].usb
  BY <1>4, <1>7 DEF Wraps
<1>9. wrap[w].usb <=> Last(game).src # Nand BY <1>1 DEF Calm, EngineInv
<1>10. QED BY <1>1, <1>3, <1>7, <1>8, <1>9, LaunchKeeps

\* A wrapper whose engine ends, or that ends itself.
LEMMA WrapperTurn ==
  ASSUME Calm, NEW w \in Wrappers, wrap[w].at \in {"run", "exited"}, WrapperMoves(w),
         UNCHANGED <<starts, exitFile>>, wrap'[w].at \in {"exited", "none"}
  PROVE  TurnInv'
<1>1. /\ UNCHANGED <<session, present, queue, mnt, game, proc>>
      /\ \A v \in Wrappers : v # w => wrap'[v] = wrap[v]
  BY DEF WrapperMoves
<1>2. starts = 0 BY DEF Calm, TurnInv, Shapes
<1>3. \A v \in Wrappers : v # w => wrap'[v].at = "none" BY <1>1 DEF Calm, TurnInv
<1>4. proc[Boot].job # "boot" BY DEF Calm, TurnInv
<1>5. ~Launching' BY <1>2, <1>3 DEF Launching
<1>6. QED BY <1>1, <1>2, <1>3, <1>4, <1>5 DEF TurnInv

\* And what the scripts rely on.
LEMMA WrapperEngine ==
  ASSUME Calm, NEW w \in Wrappers, wrap[w].at \in {"run", "exited"}, WrapperMoves(w),
         UNCHANGED <<starts, exitFile>>, wrap'[w].at \in {"exited", "none"},
         wrap'[w].at = "exited" =>
           wrap'[w].cause = "user" /\ wrap'[w].usb = wrap[w].usb /\ wrap[w].at = "run"
  PROVE  EngineInv'
<1>1. /\ UNCHANGED <<session, present, queue, mnt, game, proc>>
      /\ \A v \in Wrappers : v # w => wrap'[v] = wrap[v]
  BY DEF WrapperMoves
<1>2. \A v \in Wrappers : v # w => wrap'[v].at = "none" BY <1>1 DEF Calm, TurnInv
<1>3. EnginesRunning' \subseteq EnginesRunning BY <1>2 DEF EnginesRunning
<1>4. ASSUME wrap'[w].at = "exited", wrap'[w].usb PROVE mnt # <<>>
  <2>1. Last(game).src # Nand BY <1>4 DEF Calm, EngineInv
  <2>2. game # Bare BY <2>1, BareFields
  <2>3. QED BY <2>2, NoKeyNoLayer
<1>5. ASSUME NEW v \in Wrappers
      PROVE  (/\ wrap[v].at = "exec" => (wrap[v].usb <=> Last(game).src # Nand)
              /\ wrap[v].at = "run" =>
                   wrap[v].layer = Last(game).src /\ (wrap[v].usb <=> wrap[v].layer # Nand)
              /\ wrap[v].at = "exited" =>
                   /\ wrap[v].cause \in {"user", "killed"}
                   /\ wrap[v].cause = "killed" => exitFile
                   /\ ~exitFile /\ wrap[v].usb => mnt # <<>>)'
  BY <1>1, <1>2, <1>4
<1>6. ASSUME NEW q \in Procs
      PROVE  (/\ proc[q].job = "attach" /\ proc[q].at \in Changing =>
                   \A v \in Wrappers : wrap[v].at \in {"run", "exited"} => ~wrap[v].usb
              /\ proc[q].at \in AfterKill \cup {"sleep"} => EnginesRunning = {}
              /\ proc[q].at \in AfterKill /\ WillStart(proc[q]) =>
                   \A v \in Wrappers : wrap[v].at = "none"
              /\ Announced(proc[q]) => exitFile)'
  <2>1. (proc[q].job = "attach" /\ proc[q].at \in Changing =>
           \A v \in Wrappers : wrap[v].at \in {"run", "exited"} => ~wrap[v].usb)'
    BY <1>1, <1>2 DEF Calm, EngineInv
  <2>2. (proc[q].at \in AfterKill \cup {"sleep"} => EnginesRunning = {})'
    BY <1>1, <1>3 DEF Calm, EngineInv
  <2>3. ~(proc[q].at \in AfterKill /\ WillStart(proc[q])) BY DEF Calm, EngineInv
  <2>4. QED BY <1>1, <2>1, <2>2, <2>3 DEF Calm, EngineInv
<1>7. exitFile' => starts' = 1 \/ \E q \in Procs : Announced(proc'[q])
  BY <1>1 DEF Calm, EngineInv
<1>8. QED BY <1>5, <1>6, <1>7 DEF EngineInv, Procs

LEMMA EngineEndsKeeps ==
  ASSUME Gentle, Calm, session.calm, NEW w \in Wrappers,
         NEW cause \in {"user", "crash", "ioError"}, EngineEnds(w, cause)
  PROVE  Calm'
<1>1. cause = "user" BY DEF EngineEnds, Gentle, Calm, Shapes
<1>2. wrap[w].at = "run" /\ wrap[w] \in Wraps BY DEF EngineEnds, Calm, Shapes
<1>3. UNCHANGED <<session, present, queue, mnt, game, proc, starts, exitFile, off>>
  BY DEF EngineEnds, keys, mounts
<1>4. [wrap[w] EXCEPT !.at = "exited", !.cause = "user"] \in Wraps BY <1>2 DEF Wraps
<1>5. wrap' = [wrap EXCEPT ![w] = [wrap[w] EXCEPT !.at = "exited", !.cause = "user"]]
  BY <1>1 DEF EngineEnds, Calm, Shapes
<1>6. WrapperMoves(w) /\ wrap'[w] = [wrap[w] EXCEPT !.at = "exited", !.cause = "user"]
  BY <1>3, <1>4, <1>5, WrapperSet
<1>7. wrap'[w].at = "exited" /\ wrap'[w].cause = "user" /\ wrap'[w].usb = wrap[w].usb
  BY <1>2, <1>6 DEF Wraps
<1>8. Shapes' BY <1>3, <1>6 DEF Calm, Shapes, WrapperMoves
<1>9. TurnInv' BY <1>2, <1>3, <1>6, <1>7, WrapperTurn
<1>10. EngineInv' BY <1>2, <1>3, <1>6, <1>7, WrapperEngine
<1>11. StartInv'
  <2>1. CASE exitFile
    <3>1. starts = 1 \/ \E q \in Procs : WillStart(proc[q])
      BY <2>1 DEF Calm, EngineInv, Announced
    <3>2. QED BY <1>3, <3>1 DEF StartInv, Procs
  <2>2. CASE ~exitFile BY <1>3, <1>7, <2>2 DEF StartInv, Leaving
  <2>3. QED BY <2>1, <2>2
<1>12. QED BY <1>6, <1>8, <1>9, <1>10, <1>11, WrapperLeaves DEF Calm

LEMMA AfterEngineKeeps ==
  ASSUME Calm, NEW w \in Wrappers, AfterEngine(w)
  PROVE  Calm'
<1>1. wrap[w].at = "exited" /\ wrap[w] \in Wraps /\ off = "no"
  BY DEF AfterEngine, Calm, Shapes
<1>2. UNCHANGED <<session, present, queue, mnt, game, proc, starts, exitFile>>
  BY DEF AfterEngine, keys, mounts
<1>3. Fresh \in Wraps /\ Fresh.at = "none" BY DEF Fresh, Wraps
<1>4. WrapperMoves(w) /\ wrap'[w] = Fresh BY <1>2, <1>3, WrapperSet DEF AfterEngine
<1>5. off' = "user" \/ (off' = "no" /\ exitFile)
  BY <1>1 DEF AfterEngine, Expected, Calm, EngineInv
<1>6. Shapes' BY <1>2, <1>4, <1>5 DEF Calm, Shapes, WrapperMoves
<1>7. TurnInv' BY <1>1, <1>2, <1>3, <1>4, WrapperTurn
<1>8. EngineInv' BY <1>1, <1>2, <1>3, <1>4, WrapperEngine
<1>9. StartInv'
  <2>1. CASE off' = "user" BY <2>1 DEF StartInv
  <2>2. CASE exitFile
    <3>1. starts = 1 \/ \E q \in Procs : WillStart(proc[q])
      BY <2>2 DEF Calm, EngineInv, Announced
    <3>2. QED BY <1>2, <3>1 DEF StartInv, Procs
  <2>3. QED BY <1>5, <2>1, <2>2
<1>10. QED BY <1>4, <1>6, <1>7, <1>8, <1>9, WrapperLeaves DEF Calm

-----------------------------------------------------------------------------
(* Every step of a calm session *)

LEMMA CalmInit ==
  ASSUME UsbInit, session.calm
  PROVE  Calm
<1> USE UsbAssumption
<1>1. /\ session \in Sessions /\ present \subseteq Devs
      /\ \A a, b \in present : a = b
  BY DEF UsbInit
<1>2. /\ queue = [d \in Devs |-> IF d \in present THEN <<"add">> ELSE <<>>]
      /\ mnt = <<>> /\ game = Bare /\ exitFile = FALSE /\ starts = 0
      /\ wrap = [w \in Wrappers |-> Fresh] /\ off = "no"
  BY DEF UsbInit, Bare
<1>3. proc = [p \in Procs |->
                IF p = Boot THEN [Idle EXCEPT !.job = "boot", !.at = "look"] ELSE Idle]
  BY DEF UsbInit, Procs
<1>4. /\ Idle \in Jobs /\ Idle.job = "none" /\ Idle.at = "idle" /\ ~Idle.restart
      /\ [Idle EXCEPT !.job = "boot", !.at = "look"] \in Jobs
      /\ [Idle EXCEPT !.job = "boot", !.at = "look"].job = "boot"
      /\ [Idle EXCEPT !.job = "boot", !.at = "look"].at = "look"
      /\ ~[Idle EXCEPT !.job = "boot", !.at = "look"].restart
  BY DEF Idle, Jobs, Steady, Todos
<1>5. Fresh \in Wraps /\ Fresh.at = "none" BY DEF Fresh, Wraps
<1>6. /\ proc \in [Procs -> Jobs]
      /\ proc[Boot].job = "boot" /\ proc[Boot].at = "look" /\ ~proc[Boot].restart
      /\ \A p \in Procs : p # Boot => proc[p].job = "none" /\ proc[p].at = "idle"
           /\ ~proc[p].restart
  BY <1>3, <1>4 DEF Procs
<1>7. \A w \in Wrappers : wrap[w].at = "none" BY <1>2, <1>5
<1>8. ASSUME NEW d \in Devs
      PROVE  /\ proc[d].job = "none" /\ ~proc[d].restart
             /\ queue[d] = (IF d \in present THEN <<"add">> ELSE <<>>)
             /\ queue[d] # <<>> => d \in present
             /\ ~Detaching(d)
  <2>1. proc[d].job = "none" /\ ~proc[d].restart BY <1>6 DEF Procs
  <2>2. queue[d] = IF d \in present THEN <<"add">> ELSE <<>> BY <1>2
  <2>3. <<"add">> # <<"remove">> /\ <<>> # <<"remove">> OBVIOUS
  <2>4. QED BY <2>1, <2>2, <2>3 DEF Detaching
<1>9. Shapes BY <1>1, <1>2, <1>5, <1>6 DEF Shapes
<1>10. JobInv BY <1>6 DEF JobInv, JobSteps, Procs
<1>11. MountInv
  <2>1. \A p \in Procs : proc[p].at \in {"idle", "look"} BY <1>6
  <2>2. \A p \in Procs : StepMounts(proc[p]) BY <2>1 DEF StepMounts
  <2>3. WholeOrNone BY <1>2 DEF WholeOrNone, Unbound
  <2>4. QED BY <2>2, <2>3 DEF MountInv
<1>12. EventInv
  <2>1. \A d \in Devs : mnt # <<d>> BY <1>2
  <2>2. \A d \in Devs : Stirring(d) => d \in present BY <1>8 DEF Stirring
  <2>3. \A d \in Devs : Attaching(d) => d \in present
    <3>1. ASSUME NEW d \in Devs, Attaching(d) PROVE d \in present
      <4>1. queue[d] = <<"add">> BY <1>8, <3>1 DEF Attaching
      <4>2. <<"add">> # <<>> OBVIOUS
      <4>3. QED BY <1>8, <4>1, <4>2
    <3>2. QED BY <3>1
  <2>4. QED BY <1>1, <1>8, <2>1, <2>2, <2>3 DEF EventInv
<1>13. TurnInv BY <1>2, <1>6, <1>7, <1>8 DEF TurnInv, Launching
<1>14. EngineInv
  <2>1. EnginesRunning = {} BY <1>7 DEF EnginesRunning
  <2>2. \A p \in Procs : ~Announced(proc[p]) BY <1>6 DEF Announced, WillStart
  <2>3. \A p \in Procs : proc[p].at \notin Changing BY <1>6 DEF Changing
  <2>4. QED BY <1>2, <1>7, <2>1, <2>2, <2>3 DEF EngineInv
<1>15. StartInv BY <1>6 DEF StartInv
<1>16. QED BY <1>9, <1>10, <1>11, <1>12, <1>13, <1>14, <1>15 DEF Calm

LEMMA CalmStutters ==
  ASSUME Calm, UNCHANGED usbVars
  PROVE  Calm'
<1>1. UNCHANGED <<session, present, queue, mnt, game, exitFile, starts, wrap, proc, off>>
  BY DEF usbVars, keys, mounts, launcher
<1>2. Shapes' BY <1>1 DEF Calm, Shapes
<1>3. JobInv' BY <1>1 DEF Calm, JobInv, JobSteps, Procs
<1>4. MountInv'
  <2>1. ASSUME NEW q \in Procs PROVE StepMounts(proc[q])'
    <3>1. StepMounts(proc[q]) BY DEF Calm, MountInv
    <3>2. QED
      BY <1>1, <3>1 DEF StepMounts, Unbound, Bound, MountedBare, Usable, Bare, Keyed, Layer,
                        GameFor
  <2>2. WholeOrNone' <=> WholeOrNone BY <1>1 DEF WholeOrNone, Unbound, Bound, Bare, Keyed, Layer
  <2>3. QED BY <1>1, <2>1, <2>2 DEF Calm, MountInv, Procs
<1>5. EventInv' BY <1>1 DEF Calm, EventInv, Attaching, Detaching, Stirring
<1>6. TurnInv' BY <1>1 DEF Calm, TurnInv, Launching, Detaching, Stirring
<1>7. EngineInv' BY <1>1 DEF Calm, EngineInv, EnginesRunning, Procs, Announced, WillStart
<1>8. StartInv' BY <1>1 DEF Calm, StartInv, Leaving, Procs, WillStart
<1>9. QED BY <1>2, <1>3, <1>4, <1>5, <1>6, <1>7, <1>8 DEF Calm

LEMMA SessionStays ==
  ASSUME [UsbNext]_usbVars
  PROVE  session' = session
<1>1. ASSUME NEW p \in Devs \cup {Boot}, HandlerStep(p) PROVE session' = session
  BY <1>1 DEF HandlerStep, keys, FindNode, LookMounted, PollNode, MountKey, CheckLibrary, SeeEngine,
       TouchExit, KillEngine, Sleep, ApplyBind, CountLayers, PopLayer, NextTarget, BindGame,
       BindKid, BindFailed, RemountStock, UnmountKey, ScheduleStart
<1>2. ASSUME NEW d \in Devs, Plug(d) \/ Unplug(d) \/ RunHandler(d) PROVE session' = session
  BY <1>2 DEF Plug, Unplug, Event, RunHandler
<1>3. ASSUME NEW w \in Wrappers,
             LauncherStep(w) \/ \E cause \in {"user", "crash", "ioError"} : EngineEnds(w, cause)
      PROVE  session' = session
  BY <1>3 DEF LauncherStep, StartGame, ChoosePreload, ExecEngine, AfterEngine, EngineEnds, keys
<1>4. QED BY <1>1, <1>2, <1>3 DEF UsbNext, usbVars, keys

\* A script's step keeps the agreement, and mounts change only without an engine.
LEMMA HandlerKeeps ==
  ASSUME Gentle, Calm, session.calm, NEW p \in Procs, HandlerStep(p)
  PROVE  Calm' /\ (game' # game => EnginesRunning = {})
<1>1. CASE FindNode(p) BY <1>1, FindNodeKeeps DEF FindNode, mounts
<1>2. CASE LookMounted(p) BY <1>2, LookMountedKeeps DEF LookMounted, mounts
<1>3. CASE PollNode(p) BY <1>3, PollNodeKeeps DEF PollNode, mounts
<1>4. CASE MountKey(p) BY <1>4, MountKeyKeeps DEF MountKey
<1>5. CASE CheckLibrary(p) BY <1>5, CheckLibraryKeeps DEF CheckLibrary
<1>6. CASE SeeEngine(p) BY <1>6, SeeEngineKeeps DEF SeeEngine, mounts
<1>7. CASE TouchExit(p) BY <1>7, TouchExitKeeps DEF TouchExit, mounts
<1>8. CASE KillEngine(p) BY <1>8, KillEngineKeeps DEF KillEngine, mounts
<1>9. CASE Sleep(p) BY <1>9, SleepKeeps DEF Sleep, mounts
<1>10. CASE ApplyBind(p) BY <1>10, ApplyBindKeeps DEF ApplyBind, mounts
<1>11. CASE CountLayers(p) BY <1>11, CountLayersKeeps DEF CountLayers, mounts
<1>12. CASE PopLayer(p) BY <1>12, PopLayerKeeps
<1>13. CASE NextTarget(p) BY <1>13, NextTargetKeeps DEF NextTarget, mounts
<1>14. CASE BindGame(p) BY <1>14, BindGameKeeps
<1>15. CASE \E kid \in Kids : BindKid(p, kid) BY <1>15, BindKidKeeps
<1>16. CASE BindFailed(p) BY <1>16, BindFailedKeeps DEF BindFailed, mounts
<1>17. CASE RemountStock(p) BY <1>17, RemountStockKeeps
<1>18. CASE UnmountKey(p) BY <1>18, UnmountKeyKeeps DEF UnmountKey
<1>19. CASE ScheduleStart(p) BY <1>19, ScheduleStartKeeps DEF ScheduleStart, mounts
<1>20. QED
  BY <1>1, <1>2, <1>3, <1>4, <1>5, <1>6, <1>7, <1>8, <1>9, <1>10, <1>11, <1>12, <1>13, <1>14,
     <1>15, <1>16, <1>17, <1>18, <1>19 DEF HandlerStep

LEMMA CalmStep ==
  ASSUME Gentle, Calm, session.calm, [UsbNext]_usbVars
  PROVE  Calm' /\ (game' # game => EnginesRunning = {})
<1>1. ASSUME NEW d \in Devs, Plug(d)
      PROVE  Calm' /\ (game' # game => EnginesRunning = {})
  BY <1>1, PlugKeeps DEF Plug, Event, mounts
<1>2. ASSUME NEW d \in Devs, Unplug(d)
      PROVE  Calm' /\ (game' # game => EnginesRunning = {})
  BY <1>2, UnplugKeeps DEF Unplug, Event, mounts
<1>3. ASSUME NEW d \in Devs, RunHandler(d)
      PROVE  Calm' /\ (game' # game => EnginesRunning = {})
  BY <1>3, RunHandlerKeeps DEF RunHandler, mounts
<1>4. ASSUME NEW p \in Devs \cup {Boot}, HandlerStep(p)
      PROVE  Calm' /\ (game' # game => EnginesRunning = {})
  BY <1>4, HandlerKeeps DEF Procs
<1>5. ASSUME NEW w \in Wrappers, LauncherStep(w)
      PROVE  Calm' /\ (game' # game => EnginesRunning = {})
  <2>1. CASE StartGame(w) BY <2>1, StartGameKeeps DEF StartGame, mounts
  <2>2. CASE ChoosePreload(w) BY <2>2, ChoosePreloadKeeps DEF ChoosePreload, mounts
  <2>3. CASE ExecEngine(w) BY <2>3, ExecEngineKeeps DEF ExecEngine, mounts
  <2>4. CASE AfterEngine(w) BY <2>4, AfterEngineKeeps DEF AfterEngine, mounts
  <2>5. QED BY <1>5, <2>1, <2>2, <2>3, <2>4 DEF LauncherStep
<1>6. ASSUME NEW w \in Wrappers, NEW cause \in {"user", "crash", "ioError"}, EngineEnds(w, cause)
      PROVE  Calm' /\ (game' # game => EnginesRunning = {})
  BY <1>6, EngineEndsKeeps DEF EngineEnds, mounts
<1>7. CASE UNCHANGED usbVars BY <1>7, CalmStutters DEF usbVars, mounts
<1>8. QED BY <1>1, <1>2, <1>3, <1>4, <1>5, <1>6, <1>7 DEF UsbNext

-----------------------------------------------------------------------------
(* The theorems *)

\* In a calm session nodes, events, scripts, mounts and the launcher agree at
\* every step, whatever the keys, the number of plugs and the binds that fail.
THEOREM CalmAgrees ==
  ASSUME Gentle
  PROVE  UsbSpec => []CalmInv
<1>1. UsbInit => CalmInv BY CalmInit DEF CalmInv
<1>2. CalmInv /\ [UsbNext]_usbVars => CalmInv'
  BY CalmStep, SessionStays DEF CalmInv
<1>3. QED BY <1>1, <1>2, PTL DEF UsbSpec

LEMMA CalmSettlesWhole ==
  ASSUME CalmInv
  PROVE  SettledWhole
<1> SUFFICES ASSUME session.calm, Quiet, off = "no"
             PROVE  /\ \/ mnt = <<>> /\ game = <<Layer(Nand)>>
                       \/ /\ Len(mnt) = 1 /\ mnt[1] \in present
                          /\ game = <<Layer(Nand), [src |-> mnt[1], roms |-> mnt, save |-> mnt]>>
                    /\ \E w \in Wrappers :
                         /\ EnginesRunning = {w}
                         /\ wrap[w].layer = Last(game).src
                         /\ wrap[w].usb <=> wrap[w].layer # Nand
  BY DEF SettledWhole, AllOrNothing, OneMatchingEngine
<1>1. Calm BY DEF CalmInv
<1>2. /\ \A q \in Procs : proc[q].job = "none" /\ proc[q].at = "idle"
      /\ WholeOrNone /\ starts = 0
      /\ \A d \in Devs : mnt = <<d>> => d \in present
  BY <1>1, AllQuiet
<1>3. \/ mnt = <<>> /\ game = <<Layer(Nand)>>
      \/ /\ Len(mnt) = 1 /\ mnt[1] \in present
         /\ game = <<Layer(Nand), [src |-> mnt[1], roms |-> mnt, save |-> mnt]>>
  <2>1. CASE Unbound BY <2>1 DEF Unbound, Bare
  <2>2. ASSUME NEW d \in Devs, Bound(d)
        PROVE  /\ Len(mnt) = 1 /\ mnt[1] \in present
               /\ game = <<Layer(Nand), [src |-> mnt[1], roms |-> mnt, save |-> mnt]>>
    <3>1. mnt = <<d>> /\ game = Keyed(d, <<d>>, <<d>>) /\ d \in present
      BY <1>2, <2>2 DEF Bound
    <3>2. Len(mnt) = 1 /\ mnt[1] = d BY <3>1
    <3>3. QED BY <3>1, <3>2 DEF Keyed
  <2>3. QED BY <1>2, <2>1, <2>2 DEF WholeOrNone
<1>4. PICK w \in Wrappers : wrap[w].at = "run"
  <2>1. proc[Boot].job # "boot" /\ \A q \in Procs : ~WillStart(proc[q])
    BY <1>2 DEF WillStart, Procs
  <2>2. PICK w \in Wrappers : wrap[w].at \in {"start", "exec", "run"} \/ Leaving(w)
    BY <1>1, <1>2, <2>1 DEF Calm, StartInv
  <2>3. wrap[w].at \in {"none", "run"} BY DEF Quiet
  <2>4. QED BY <2>2, <2>3 DEF Leaving
<1>5. EnginesRunning = {w}
  BY <1>1, <1>4 DEF Calm, TurnInv, EnginesRunning
<1>6. wrap[w].layer = Last(game).src /\ (wrap[w].usb <=> wrap[w].layer # Nand)
  BY <1>1, <1>4 DEF Calm, EngineInv
<1>7. QED BY <1>3, <1>5, <1>6

\* Once a calm session has settled the key is bound whole or not at all, and one
\* engine runs from the tree that is visible, with the hook when it is the key's.
THEOREM SettlesWhole ==
  ASSUME Gentle
  PROVE  UsbSpec => []SettledWhole
<1>1. CalmInv => SettledWhole BY CalmSettlesWhole
<1>2. QED BY <1>1, CalmAgrees, PTL

\* In a calm session no script that kills or restarts the engine ever switches
\* the console off (gameapp's test of /tmp/.game.exit).
THEOREM OnlyUserPowersOff ==
  ASSUME Gentle
  PROVE  UsbSpec => []PowerOffOnlyByUser
<1>1. CalmInv => PowerOffOnlyByUser BY DEF CalmInv, Calm, Shapes, PowerOffOnlyByUser
<1>2. QED BY <1>1, CalmAgrees, PTL

\* In a calm session no layer of /usr/game comes or goes under a running engine
\* (pce-usb-attach and pce-usb-detach stop it first).
THEOREM NoMountUnderEngine ==
  ASSUME Gentle
  PROVE  UsbSpec => MountsReplacedWithoutEngine
<1>1. CalmInv /\ [UsbNext]_usbVars => [session.calm /\ game' # game => EnginesRunning = {}]_usbVars
  BY CalmStep DEF CalmInv
<1>2. QED BY <1>1, CalmAgrees, PTL DEF UsbSpec, MountsReplacedWithoutEngine

-----------------------------------------------------------------------------
(* The natives that read a folder *)

\* The root of a lineup is a folder.
LEMMA RootIsFolder == ASSUME NEW f \in Folders PROVE Root(f.lineup) \in Folders
BY DEF Folders, Root

\* The stock lineup of ensure.
LEMMA JpIsFolder == Root("jp") \in Folders
BY DEF Folders, Root

\* The records every task and thread starts from.
LEMMA RestingType == Resting \in TaskStates /\ NoThread \in Threads
BY DEF Resting, NoThread, TaskStates, Threads

-----------------------------------------------------------------------------
(* The worker *)

\* A step of the thread that stages nothing keeps the invariant when its own
\* record stays in order.
LEMMA ThreadKeeps ==
  ASSUME IInv, UNCHANGED <<disk, state, ticket, taken, stage, script>>,
         thread.at \notin {"none", "done"}, thread'.at # "none",
         thread' \in Threads, thread'.folder = thread.folder,
         thread'.at \in {"marker", "anchor"} => thread'.parts = {},
         thread'.at \in {"settings", "entries", "store"} =>
           thread'.lib \in Libraries /\ thread'.parts \subseteq {thread'.lib},
         thread'.at \in {"entries", "store"} => thread'.parts # {},
         thread'.at \in {"result", "done"} \/ ~thread'.ok,
         thread'.ok => thread.ok,
         thread.ok => thread'.ok,
         thread.at = "result" => thread'.at = "done"
  PROVE  IInv'
<1>1. TypeOK' /\ WholeSnapshot' /\ NoStaleResult'
  BY DEF IInv, TypeOK, WholeSnapshot, NoStaleResult, disk, script
<1>2. StageAccounted' BY DEF IInv, StageAccounted, TypeOK, Threads
<1>3. ReadsWhole' BY DEF IInv, ReadsWhole, Whole, script
<1>4. TicketsIssued' BY DEF IInv, TicketsIssued, script
<1>5. LatestServed' BY DEF IInv, LatestServed, script
<1>6. TurnKept' BY DEF IInv, TurnKept, script
<1> QED BY <1>1, <1>2, <1>3, <1>4, <1>5, <1>6 DEF IInv

LEMMA GiveUpKeeps ==
  ASSUME IInv, GiveUp, UNCHANGED <<disk, state, ticket, taken, stage, script>>,
         thread.at \in {"marker", "anchor", "settings", "entries"}
  PROVE  IInv'
<1>1. /\ thread' \in Threads /\ thread'.folder = thread.folder
      /\ thread'.at = "fail" /\ thread'.ok = thread.ok
  BY DEF IInv, TypeOK, Threads, GiveUp
<1>2. ~thread.ok BY DEF IInv, ReadsWhole
<1> QED BY <1>1, <1>2, ThreadKeeps

LEMMA ReadMarkerKeeps == ASSUME IInv, ReadMarker PROVE IInv'
<1>1. CASE thread' = [thread EXCEPT !.at = "anchor"]
  <2>1. /\ thread' \in Threads /\ thread'.folder = thread.folder /\ thread'.parts = thread.parts
        /\ thread'.at = "anchor" /\ thread'.ok = thread.ok
    BY <1>1 DEF IInv, TypeOK, Threads
  <2>2. thread.at = "marker" /\ thread.parts = {} /\ ~thread.ok
    BY DEF IInv, ReadsWhole, ReadMarker
  <2> QED BY <2>1, <2>2, ThreadKeeps DEF ReadMarker
<1>2. CASE GiveUp BY <1>2, GiveUpKeeps DEF ReadMarker
<1> QED BY <1>1, <1>2 DEF ReadMarker

LEMMA OpenAnchorKeeps == ASSUME IInv, OpenAnchor PROVE IInv'
<1>1. CASE root # Null /\ thread' = [thread EXCEPT !.at = "settings", !.lib = root]
  <2>1. /\ thread' \in Threads /\ thread'.folder = thread.folder /\ thread'.parts = thread.parts
        /\ thread'.at = "settings" /\ thread'.ok = thread.ok /\ thread'.lib = root
        /\ root \in Libraries
    BY <1>1 DEF IInv, TypeOK, Threads
  <2>2. thread.at = "anchor" /\ thread.parts = {} /\ ~thread.ok
    BY DEF IInv, ReadsWhole, OpenAnchor
  <2> QED BY <2>1, <2>2, ThreadKeeps DEF OpenAnchor
<1>2. CASE GiveUp BY <1>2, GiveUpKeeps DEF OpenAnchor
<1> QED BY <1>1, <1>2 DEF OpenAnchor

LEMMA ReadPartKeeps == ASSUME IInv, ReadPart PROVE IInv'
<1>1. CASE thread' = [thread EXCEPT !.at = After(@), !.parts = @ \cup {thread.lib}]
  <2>1. /\ thread.at \in {"settings", "entries"} /\ ~thread.ok
        /\ thread.lib \in Libraries /\ thread.parts \subseteq {thread.lib}
    BY DEF IInv, ReadsWhole, ReadPart
  <2>2. /\ thread' \in Threads /\ thread'.folder = thread.folder
        /\ thread'.parts = {thread.lib} /\ thread'.lib = thread.lib
        /\ thread'.at \in {"entries", "store"} /\ thread'.ok = thread.ok
    BY <1>1, <2>1 DEF IInv, TypeOK, Threads, After
  <2> QED BY <2>1, <2>2, ThreadKeeps DEF ReadPart
<1>2. CASE GiveUp BY <1>2, GiveUpKeeps DEF ReadPart
<1> QED BY <1>1, <1>2 DEF ReadPart

LEMMA PostResultKeeps == ASSUME IInv, PostResult PROVE IInv'
<1>1. /\ thread' \in Threads /\ thread'.folder = thread.folder
      /\ thread'.at = "done" /\ thread'.ok = thread.ok
  BY DEF IInv, TypeOK, Threads, PostResult
<1> QED BY <1>1, ThreadKeeps DEF PostResult

\* The tree of a read that failed is staged like any other, and is not a folder.
LEMMA StoreErrorKeeps == ASSUME IInv, StoreError PROVE IInv'
<1>1. /\ thread.at = "fail" /\ thread \in Threads /\ ~thread.ok
  BY DEF IInv, ReadsWhole, StoreError, TypeOK
<1>2. /\ thread' \in Threads /\ thread'.at = "result" /\ ~thread'.ok
      /\ thread'.folder = thread.folder
  BY <1>1 DEF StoreError, Threads
<1>3. stage' \in {Broken, Null} /\ UNCHANGED <<disk, state, ticket, taken, script>>
  BY DEF StoreError
<1>4. TypeOK' /\ WholeSnapshot' /\ NoStaleResult'
  BY <1>2, <1>3 DEF IInv, TypeOK, WholeSnapshot, NoStaleResult, disk, script
<1>5. StageAccounted' BY <1>1, <1>2, <1>3 DEF IInv, StageAccounted
<1>6. ReadsWhole' BY <1>1, <1>2, <1>3 DEF IInv, ReadsWhole, script
<1>7. TicketsIssued' /\ TurnKept' BY <1>3 DEF IInv, TicketsIssued, TurnKept, script
<1>8. LatestServed' BY <1>1, <1>2, <1>3 DEF IInv, LatestServed, script
<1> QED BY <1>4, <1>5, <1>6, <1>7, <1>8 DEF IInv

\* Only the thread of a busy catalogue gets here, so nothing was staged before.
LEMMA StoreStageKeeps == ASSUME IInv, StoreStage PROVE IInv'
<1>1. /\ thread.at = "store" /\ thread.lib \in Libraries /\ thread.parts = {thread.lib}
      /\ thread.folder \in Folders /\ thread \in Threads
  BY DEF IInv, ReadsWhole, StoreStage, TypeOK
<1>2. /\ thread' \in Threads /\ thread'.at = "result" /\ thread'.ok
      /\ thread'.folder = thread.folder
  BY <1>1 DEF StoreStage, Threads
<1>3. stage' \in Snapshots /\ Whole(stage)' /\ stage'.folder = thread.folder
  BY <1>1 DEF StoreStage, Snapshots, Whole, Threads
<1>4. UNCHANGED <<disk, state, ticket, taken, script>> BY DEF StoreStage
<1>5. stage' \notin {Broken, Null} BY <1>3, CatalogAssumption
<1>6. TypeOK' /\ WholeSnapshot' /\ NoStaleResult'
  BY <1>2, <1>3, <1>4 DEF IInv, TypeOK, WholeSnapshot, NoStaleResult, disk, script
<1>7. StageAccounted' BY <1>1, <1>2, <1>4, <1>5 DEF IInv, StageAccounted
<1>8. ReadsWhole' BY <1>1, <1>2, <1>3, <1>4, <1>5 DEF IInv, ReadsWhole, script
<1>9. TicketsIssued' /\ TurnKept' BY <1>4 DEF IInv, TicketsIssued, TurnKept, script
<1>10. LatestServed' BY <1>1, <1>2, <1>3, <1>4 DEF IInv, LatestServed, script
<1> QED BY <1>6, <1>7, <1>8, <1>9, <1>10 DEF IInv

-----------------------------------------------------------------------------
(* The natives *)

\* What a throwing read leaves of the task: at most a second try at the root.
LEMMA ThrowTask ==
  ASSUME IInv, NEW t \in Tasks, Throw(t), task[t].at # "idle"
  PROVE  /\ task' \in [Tasks -> TaskStates] /\ turn' \in Tasks \cup {Null}
         /\ \A u \in Tasks \ {t} : task'[u] = task[u]
         /\ task'[t].at \in {"idle", "begin"} /\ task'[t].got = Null
         /\ task'[t].at # "idle" => task'[t].folder \in Folders
         /\ task'[t].why # "go"
         /\ task'[t].ticket \in {0, task[t].ticket}
<1>1. /\ task \in [Tasks -> TaskStates] /\ task[t] \in TaskStates /\ task[t].folder \in Folders
  BY DEF IInv, TypeOK, TicketsIssued
<1>2. CASE /\ task[t].why = "ensure"
           /\ task' = [task EXCEPT ![t].at = "begin", ![t].folder = Root(@.lineup), ![t].got = Null]
           /\ turn' = t
  <2>1. task'[t] = [task[t] EXCEPT !.at = "begin", !.folder = Root(task[t].folder.lineup),
          !.got = Null]
    BY <1>1, <1>2
  <2>2. Root(task[t].folder.lineup) \in Folders BY <1>1, RootIsFolder
  <2>3. /\ task'[t] \in TaskStates /\ task'[t].at = "begin" /\ task'[t].got = Null
        /\ task'[t].folder \in Folders /\ task'[t].why = "ensure"
        /\ task'[t].ticket = task[t].ticket
    BY <1>1, <1>2, <2>1, <2>2 DEF TaskStates
  <2> QED BY <1>1, <1>2, <2>3
<1>3. CASE task' = [task EXCEPT ![t] = Resting] /\ turn' = Null
  <2>1. task'[t] = Resting BY <1>1, <1>3
  <2>2. /\ task'[t].at = "idle" /\ task'[t].got = Null /\ task'[t].why = "none"
        /\ task'[t].ticket = 0
    BY <2>1 DEF Resting
  <2> QED BY <1>1, <1>3, <2>1, <2>2, RestingType
<1> QED BY <1>2, <1>3 DEF Throw

\* The scripts' part of the invariant after a throw.
LEMMA ThrowKeeps ==
  ASSUME IInv, NEW t \in Tasks, Throw(t), task[t].at # "idle",
         UNCHANGED <<disk, ticket, base, live>>,
         state' \in {"none", "busy", "ready", "failed", "taken"},
         stage' \in {stage, Null}, thread' \in {thread, NoThread},
         taken' \in [ticket : Nat, lib : Libraries \cup {Null}, folder : Folders \cup {Null}],
         taken' = taken \/ taken'.ticket = 0,
         (thread' = thread /\ thread.ok) => stage' = stage,
         StageAccounted',
         turn \in {Null, t}
  PROVE  IInv'
<1> DEFINE rest == Tasks \ {t}
<1>1. /\ task' \in [Tasks -> TaskStates] /\ turn' \in Tasks \cup {Null}
      /\ \A u \in rest : task'[u] = task[u]
      /\ task'[t].at \in {"idle", "begin"} /\ task'[t].got = Null
      /\ task'[t].at # "idle" => task'[t].folder \in Folders
      /\ task'[t].why # "go"
      /\ task'[t].ticket \in {0, task[t].ticket}
  BY ThrowTask
<1>2. NoThread.at = "none" /\ ~NoThread.ok BY DEF NoThread
<1>3. TypeOK' BY <1>1, RestingType DEF IInv, TypeOK, disk
<1>4. WholeSnapshot' BY DEF IInv, WholeSnapshot
<1>5. NoStaleResult' BY <1>1 DEF IInv, NoStaleResult
<1>6. ReadsWhole'
  <2>1. thread' = NoThread \/ thread' = thread OBVIOUS
  <2>2. \A u \in Tasks : task'[u].got # Null => Whole(task'[u].got) /\ task'[u].got.lib \in V2
    BY <1>1 DEF IInv, ReadsWhole
  <2>3. stage' \notin {Broken, Null} => Whole(stage)' BY DEF IInv, ReadsWhole, Whole
  <2> QED BY <1>2, <2>1, <2>2, <2>3 DEF IInv, ReadsWhole, Whole
<1>7. TicketsIssued'
  <2>1. ticket \in Nat /\ taken.ticket <= ticket /\ task[t].ticket \in Nat
    BY DEF IInv, TypeOK, TicketsIssued, TaskStates
  <2>2. taken'.ticket <= ticket' BY <2>1
  <2>3. \A u \in Tasks : task'[u].ticket <= ticket BY <1>1, <2>1 DEF IInv, TicketsIssued
  <2>4. \A u \in Tasks : task'[u].at # "idle" => task'[u].folder \in Folders
    BY <1>1 DEF IInv, TicketsIssued
  <2>5. \A u \in Tasks : task'[u].why = "go" => task'[u].prev \in Folders
    BY <1>1 DEF IInv, TicketsIssued
  <2>6. \A u \in Tasks : task'[u].at \in {"poll", "take", "build", "profile", "commit"}
          => task'[u].ticket > 0
    BY <1>1 DEF IInv, TicketsIssued
  <2>7. \A u \in Tasks : task'[u].ticket > 0
          => \A v \in Tasks \ {u} : task'[v].ticket # task'[u].ticket
    BY <1>1, <2>1 DEF IInv, TicketsIssued
  <2> QED BY <2>2, <2>3, <2>4, <2>5, <2>6, <2>7 DEF TicketsIssued
<1>8. LatestServed'
  <2> SUFFICES ASSUME NEW u \in Tasks, (task[u].ticket = ticket)',
                      task'[u].at \in {"poll", "take", "build", "profile", "commit"}
               PROVE  /\ task'[u].at \in {"poll", "take"} =>
                           /\ thread'.at # "none" => thread'.folder = task'[u].folder
                           /\ stage' \notin {Broken, Null} => stage'.folder = task'[u].folder
                      /\ task'[u].at \in {"build", "profile", "commit"}
                           /\ taken'.ticket = ticket' =>
                           taken'.lib = task'[u].got.lib /\ taken'.folder = task'[u].got.folder
    BY DEF LatestServed
  <2>1. u # t /\ task'[u] = task[u] BY <1>1
  <2>2. task[u].ticket > 0 BY <2>1 DEF IInv, TicketsIssued
  <2>3. taken'.ticket = ticket' => taken' = taken BY <2>1, <2>2
  <2> QED BY <1>2, <2>1, <2>3 DEF IInv, LatestServed
<1>9. TurnKept'
  <2>1. \A u \in rest : task[u].at # "take" BY CatalogAssumption DEF IInv, TurnKept
  <2> QED BY <1>1, <2>1 DEF IInv, TurnKept
<1> QED BY <1>3, <1>4, <1>5, <1>6, <1>7, <1>8, <1>9 DEF IInv

\* A task's next record, when it keeps its ticket or its ticket is new.
LEMMA TicketsKept ==
  ASSUME IInv, NEW t \in Tasks, ticket' \in Nat, ticket' >= ticket, taken'.ticket <= ticket',
         \A u \in Tasks \ {t} : task'[u] = task[u],
         task'[t].ticket \in {0, task[t].ticket} \/ (task'[t].ticket = ticket' /\ ticket' > ticket),
         task'[t].at # "idle" => task'[t].folder \in Folders,
         task'[t].why = "go" => task'[t].prev \in Folders,
         task'[t].at \in {"poll", "take", "build", "profile", "commit"} => task'[t].ticket > 0
  PROVE  TicketsIssued'
<1>1. ticket \in Nat /\ \A u \in Tasks : task[u].ticket \in Nat /\ task[u].ticket <= ticket
  BY DEF IInv, TypeOK, TicketsIssued, TaskStates
<1>2. \A u \in Tasks : task'[u].ticket <= ticket' BY <1>1
<1>3. \A u \in Tasks : task'[u].at # "idle" => task'[u].folder \in Folders
  BY DEF IInv, TicketsIssued
<1>4. \A u \in Tasks : task'[u].why = "go" => task'[u].prev \in Folders
  BY DEF IInv, TicketsIssued
<1>5. \A u \in Tasks : task'[u].at \in {"poll", "take", "build", "profile", "commit"}
        => task'[u].ticket > 0
  BY DEF IInv, TicketsIssued
<1>6. \A u \in Tasks : task'[u].ticket > 0
        => \A v \in Tasks \ {u} : task'[v].ticket # task'[u].ticket
  BY <1>1 DEF IInv, TicketsIssued
<1> QED BY <1>2, <1>3, <1>4, <1>5, <1>6 DEF TicketsIssued

\* What the join of a finished thread can leave.
LEMMA PolledFacts ==
  ASSUME IInv
  PROVE  /\ Polled.state \in {"none", "busy", "ready", "failed", "taken"}
         /\ Polled.stage \in {stage, Null} /\ Polled.thread \in {thread, NoThread}
         /\ Polled.thread = thread /\ thread.ok => Polled.stage = stage
         /\ Polled.state = "busy" <=> Polled.thread.at # "none"
         /\ Polled.state = "busy" => Polled.stage = stage /\ Polled.thread = thread
              /\ state = "busy"
         /\ Polled.state = "ready" => Polled.stage = stage /\ stage \notin {Broken, Null}
         /\ Polled.stage # Null =>
              Polled.state = "ready" \/ Polled.thread.at \in {"result", "done"}
<1>1. NoThread.at = "none" /\ ~NoThread.ok BY DEF NoThread
<1>2. Null \notin Snapshots BY CatalogAssumption
<1>3. CASE state # "busy" \/ thread.at # "done"
  <2>1. Polled = [state |-> state, stage |-> stage, thread |-> thread] BY <1>3 DEF Polled
  <2> QED BY <2>1 DEF IInv, StageAccounted, TypeOK
<1>4. CASE state = "busy" /\ thread.at = "done" /\ thread.ok /\ Current(stage)
  <2>1. Polled = [state |-> "ready", stage |-> stage, thread |-> NoThread] BY <1>4 DEF Polled
  <2>2. stage \notin {Broken, Null} BY <1>4 DEF IInv, ReadsWhole
  <2>3. NoThread # thread BY <1>1, <1>4
  <2> QED BY <1>1, <2>1, <2>2, <2>3
<1>5. CASE state = "busy" /\ thread.at = "done" /\ ~(thread.ok /\ Current(stage))
  <2>1. Polled = [state |-> "failed", stage |-> Null, thread |-> NoThread]
    <3>1. ~(state # "busy" \/ thread.at # "done") BY <1>5
    <3> QED BY <1>5, <3>1 DEF Polled
  <2>2. NoThread # thread BY <1>1, <1>5
  <2> QED BY <1>1, <2>1, <2>2
<1> QED BY <1>3, <1>4, <1>5

\* beginReadFolder issues a new ticket only when no worker is alive.
LEMMA BeginKeeps == ASSUME IInv, NEW t \in Tasks, Begin(t) PROVE IInv'
<1>1. /\ turn \in {Null, t} /\ task[t].at = "begin" /\ task[t].folder \in Folders
      /\ UNCHANGED <<disk, base, live>>
  BY DEF Begin, Runs, IInv, TicketsIssued
<1>2. NoThread.at = "none" /\ ~NoThread.ok BY DEF NoThread
<1>3. CASE root \notin V2
  <2>1. Throw(t) /\ UNCHANGED native BY <1>3 DEF Begin
  <2>2. StageAccounted' BY <2>1 DEF IInv, StageAccounted, native
  <2> QED BY <1>1, <2>1, <2>2, ThrowKeeps DEF native, IInv, TypeOK
<1>4. CASE root \in V2 /\ Polled.state = "busy"
  <2>1. Throw(t) /\ Become(Polled) /\ UNCHANGED <<ticket, taken>> BY <1>4 DEF Begin
  <2>2. state' = state /\ stage' = stage /\ thread' = thread
    BY <1>4, <2>1, PolledFacts DEF Become
  <2>3. StageAccounted' BY <2>2 DEF IInv, StageAccounted
  <2> QED BY <1>1, <2>1, <2>2, <2>3, ThrowKeeps DEF IInv, TypeOK
<1>5. ASSUME stage' = Null, taken' = [taken EXCEPT !.ticket = 0],
             state' = "none", thread' = NoThread, Throw(t), UNCHANGED ticket
      PROVE  IInv'
  <2>1. StageAccounted' BY <1>2, <1>5 DEF StageAccounted
  <2>2. /\ taken' \in [ticket : Nat, lib : Libraries \cup {Null}, folder : Folders \cup {Null}]
        /\ taken'.ticket = 0
    BY <1>5 DEF IInv, TypeOK
  <2>3. ~(thread' = thread /\ thread.ok) BY <1>2, <1>5
  <2> QED BY <1>1, <1>5, <2>1, <2>2, <2>3, ThrowKeeps
<1>6. ASSUME stage' = Null, taken' = [taken EXCEPT !.ticket = 0], state' = "busy",
             ticket' = ticket + 1,
             thread' = [NoThread EXCEPT !.at = "marker", !.folder = task[t].folder],
             task' = [task EXCEPT ![t].at = "poll", ![t].ticket = ticket + 1],
             turn' = t
      PROVE  IInv'
  <2>1. /\ task \in [Tasks -> TaskStates] /\ ticket \in Nat /\ task[t].got = Null
    BY <1>1 DEF IInv, TypeOK, TurnKept
  <2>2. /\ task' \in [Tasks -> TaskStates] /\ \A u \in Tasks \ {t} : task'[u] = task[u]
        /\ task'[t].at = "poll" /\ task'[t].ticket = ticket + 1 /\ task'[t].got = Null
        /\ task'[t].folder = task[t].folder /\ task'[t].why = task[t].why
        /\ task'[t].prev = task[t].prev
    <3>1. task'[t] = [task[t] EXCEPT !.at = "poll", !.ticket = ticket + 1] BY <1>6, <2>1
    <3>2. task[t] \in TaskStates /\ ticket + 1 \in Nat BY <2>1
    <3>3. /\ task'[t] \in TaskStates /\ task'[t].at = "poll" /\ task'[t].ticket = ticket + 1
          /\ task'[t].got = task[t].got /\ task'[t].folder = task[t].folder
          /\ task'[t].why = task[t].why /\ task'[t].prev = task[t].prev
      BY <3>1, <3>2 DEF TaskStates
    <3> QED BY <1>6, <2>1, <3>3
  <2>3. /\ thread' \in Threads /\ thread'.at = "marker" /\ thread'.folder = task[t].folder
        /\ thread'.parts = {} /\ ~thread'.ok
    BY <1>1, <1>6, RestingType DEF Threads, NoThread
  <2>4. /\ taken' \in [ticket : Nat, lib : Libraries \cup {Null}, folder : Folders \cup {Null}]
        /\ taken'.ticket = 0
    BY <1>6 DEF IInv, TypeOK
  <2>5. TypeOK' BY <1>1, <1>6, <2>1, <2>2, <2>3, <2>4 DEF IInv, TypeOK, disk
  <2>6. StageAccounted' BY <1>6, <2>3 DEF StageAccounted
  <2>7. WholeSnapshot' /\ NoStaleResult' BY <1>1, <2>2 DEF IInv, WholeSnapshot, NoStaleResult
  <2>8. ReadsWhole' BY <1>1, <1>6, <2>2, <2>3 DEF IInv, ReadsWhole, Whole
  <2>9. TicketsIssued'
    <3>1. task[t].why = "go" => task[t].prev \in Folders BY DEF IInv, TicketsIssued
    <3> QED BY <1>1, <1>6, <2>1, <2>2, <2>4, <3>1, TicketsKept
  <2>10. \A u \in Tasks \ {t} : task[u].ticket \in Nat /\ task[u].ticket <= ticket
    BY DEF IInv, TypeOK, TicketsIssued, TaskStates
  <2>11. LatestServed' BY <1>6, <2>1, <2>2, <2>3, <2>10 DEF LatestServed
  <2>12. \A u \in Tasks \ {t} : task[u].at # "take" BY <1>1, CatalogAssumption DEF IInv, TurnKept
  <2>13. TurnKept' BY <2>2, <2>12 DEF IInv, TurnKept
  <2> QED BY <2>5, <2>6, <2>7, <2>8, <2>9, <2>11, <2>13 DEF IInv
<1> QED BY <1>3, <1>4, <1>5, <1>6 DEF Begin

\* pollReadFolder joins the thread; only the holder of the latest ticket goes on.
LEMMA PollKeeps == ASSUME IInv, NEW t \in Tasks, Poll(t) PROVE IInv'
<1>1. turn \in {Null, t} /\ task[t].at = "poll" /\ UNCHANGED <<disk, ticket, taken, base, live>>
  BY DEF Poll, Runs, native
<1>2. NoThread.at = "none" /\ ~NoThread.ok BY DEF NoThread
<1>3. CASE task[t].ticket # ticket
  <2>1. Throw(t) /\ UNCHANGED native BY <1>3 DEF Poll
  <2>2. StageAccounted' BY <2>1 DEF IInv, StageAccounted, native
  <2> QED BY <1>1, <2>1, <2>2, ThrowKeeps DEF native, IInv, TypeOK
<1>4. CASE task[t].ticket = ticket
  <2>1. Become(Polled) BY <1>4 DEF Poll
  <2>2. StageAccounted'
    <3>1. state' = Polled.state /\ stage' = Polled.stage /\ thread' = Polled.thread
      BY <2>1 DEF Become
    <3> QED BY <3>1, PolledFacts DEF StageAccounted
  <2>3. CASE Polled.state = "busy" /\ turn' = Null /\ UNCHANGED task
    <3>1. state' = state /\ stage' = stage /\ thread' = thread BY <2>1, <2>3, PolledFacts DEF Become
    <3>2. TypeOK'
      <4>1. turn' \in Tasks \cup {Null} BY <2>3
      <4> QED BY <1>1, <2>3, <3>1, <4>1 DEF IInv, TypeOK, disk
    <3>3. WholeSnapshot' /\ NoStaleResult'
      BY <1>1, <2>3 DEF IInv, WholeSnapshot, NoStaleResult
    <3>6. ReadsWhole' BY <2>3, <3>1 DEF IInv, ReadsWhole, Whole
    <3>7. TicketsIssued' /\ LatestServed'
      BY <1>1, <2>3, <3>1 DEF IInv, TicketsIssued, LatestServed
    <3>4. \A u \in Tasks : task[u].at # "take" BY <1>1, CatalogAssumption DEF IInv, TurnKept
    <3>5. TurnKept' BY <2>3, <3>4 DEF IInv, TurnKept
    <3> QED BY <2>2, <3>2, <3>3, <3>5, <3>6, <3>7 DEF IInv
  <2>4. CASE /\ Polled.state = "ready" /\ turn' = t
             /\ task' = [task EXCEPT ![t].at = "take"]
    <3>1. state' = "ready" /\ stage' = stage /\ stage \notin {Broken, Null}
          /\ thread' \in {thread, NoThread}
      BY <2>1, <2>4, PolledFacts DEF Become
    <3>2. task \in [Tasks -> TaskStates] /\ task[t].got = Null
      BY <1>1 DEF IInv, TypeOK, TurnKept
    <3>3. /\ task' \in [Tasks -> TaskStates] /\ \A u \in Tasks \ {t} : task'[u] = task[u]
          /\ task'[t].at = "take" /\ task'[t].ticket = task[t].ticket
          /\ task'[t].got = Null /\ task'[t].why = task[t].why
          /\ task'[t].folder = task[t].folder /\ task'[t].prev = task[t].prev
      <4>1. task'[t] = [task[t] EXCEPT !.at = "take"] BY <2>4, <3>2
      <4>2. task[t] \in TaskStates BY <3>2
      <4>3. /\ task'[t] \in TaskStates /\ task'[t].at = "take" /\ task'[t].ticket = task[t].ticket
            /\ task'[t].got = task[t].got /\ task'[t].why = task[t].why
            /\ task'[t].folder = task[t].folder /\ task'[t].prev = task[t].prev
        BY <4>1, <4>2 DEF TaskStates
      <4> QED BY <2>4, <3>2, <4>3
    <3>4. TypeOK' BY <1>1, <2>4, <3>1, <3>3, RestingType DEF IInv, TypeOK, disk
    <3>5. WholeSnapshot' /\ NoStaleResult' BY <1>1, <3>3 DEF IInv, WholeSnapshot, NoStaleResult
    <3>6. thread'.at = "none" BY <2>2, <3>1 DEF StageAccounted
    <3>7. ReadsWhole'
      <4>1. \A u \in Tasks : task'[u].got # Null => Whole(task'[u].got) /\ task'[u].got.lib \in V2
        BY <3>3 DEF IInv, ReadsWhole
      <4> QED BY <1>2, <3>1, <3>6, <4>1 DEF IInv, ReadsWhole, Whole
    <3>8. TicketsIssued'
      <4>1. /\ ticket \in Nat /\ taken.ticket \in Nat /\ taken.ticket <= ticket
            /\ task[t].why = "go" => task[t].prev \in Folders
            /\ task[t].folder \in Folders /\ task[t].ticket > 0
        BY <1>1 DEF IInv, TypeOK, TicketsIssued
      <4> QED BY <1>1, <3>3, <4>1, TicketsKept
    <3>9. LatestServed'
      BY <1>1, <1>4, <3>1, <3>3, <3>6 DEF IInv, LatestServed
    <3>10. \A u \in Tasks : task[u].at # "take" BY <1>1, CatalogAssumption DEF IInv, TurnKept
    <3>11. TurnKept' BY <1>1, <1>4, <2>4, <3>1, <3>3, <3>10 DEF IInv, TurnKept
    <3> QED BY <2>2, <3>4, <3>5, <3>7, <3>8, <3>9, <3>11 DEF IInv
  <2>5. CASE Throw(t)
    <3>1. /\ state' \in {"none", "busy", "ready", "failed", "taken"}
          /\ stage' \in {stage, Null} /\ thread' \in {thread, NoThread}
          /\ (thread' = thread /\ thread.ok => stage' = stage)
      BY <2>1, PolledFacts DEF Become
    <3> QED BY <1>1, <2>2, <2>5, <3>1, ThrowKeeps DEF IInv, TypeOK
  <2> QED BY <1>4, <2>3, <2>4, <2>5 DEF Poll
<1> QED BY <1>3, <1>4

\* takeFolder hands the staged tree to the task whose turn it still is.
LEMMA TakeKeeps == ASSUME IInv, NEW t \in Tasks, Take(t) PROVE IInv'
<1>1. /\ task[t].at = "take" /\ turn = t /\ state = "ready" /\ task[t].ticket = ticket
      /\ UNCHANGED <<disk, ticket, thread, base, live>>
  BY DEF Take, Runs, IInv, TurnKept
<1>2. thread.at = "none" /\ stage \notin {Broken, Null} /\ Whole(stage) /\ ~thread.ok
  <2>1. thread.at = "none" /\ stage \notin {Broken, Null} BY <1>1 DEF IInv, StageAccounted
  <2> QED BY <2>1 DEF IInv, ReadsWhole
<1>3. CASE state' = "failed" /\ stage' = Null /\ Throw(t) /\ UNCHANGED taken
  <2>1. StageAccounted' BY <1>1, <1>2, <1>3 DEF StageAccounted
  <2> QED BY <1>1, <1>2, <1>3, <2>1, ThrowKeeps DEF IInv, TypeOK
<1>4. CASE UNCHANGED <<state, stage, taken>> /\ Throw(t)
  <2>1. StageAccounted' BY <1>1, <1>4 DEF IInv, StageAccounted
  <2> QED BY <1>1, <1>4, <2>1, ThrowKeeps DEF IInv, TypeOK
<1>5. CASE /\ Current(stage)
           /\ taken' = [ticket |-> ticket, lib |-> stage.lib, folder |-> stage.folder]
           /\ state' = "taken" /\ stage' = Null
           /\ task' = [task EXCEPT ![t].at = "build", ![t].got = stage]
           /\ turn' = t
  <2>1. /\ task \in [Tasks -> TaskStates] /\ stage \in Snapshots /\ ticket \in Nat
        /\ stage.lib \in Libraries /\ stage.folder \in Folders
    BY <1>2 DEF IInv, TypeOK, Snapshots
  <2>2. stage.lib \in V2 /\ stage.folder = task[t].folder
    BY <1>1, <1>2, <1>5 DEF Current, IInv, LatestServed
  <2>3. /\ task' \in [Tasks -> TaskStates] /\ \A u \in Tasks \ {t} : task'[u] = task[u]
        /\ task'[t].at = "build" /\ task'[t].ticket = ticket /\ task'[t].got = stage
        /\ task'[t].folder = task[t].folder /\ task'[t].why = task[t].why
        /\ task'[t].prev = task[t].prev
    <3>1. task'[t] = [task[t] EXCEPT !.at = "build", !.got = stage] BY <1>5, <2>1
    <3>2. task[t] \in TaskStates BY <2>1
    <3>3. /\ task'[t] \in TaskStates /\ task'[t].at = "build" /\ task'[t].ticket = task[t].ticket
          /\ task'[t].got = stage /\ task'[t].folder = task[t].folder
          /\ task'[t].why = task[t].why /\ task'[t].prev = task[t].prev
      BY <2>1, <3>1, <3>2 DEF TaskStates
    <3> QED BY <1>1, <1>5, <2>1, <3>3
  <2>4. /\ taken' \in [ticket : Nat, lib : Libraries \cup {Null}, folder : Folders \cup {Null}]
        /\ taken'.ticket = ticket /\ taken'.lib = stage.lib /\ taken'.folder = stage.folder
    BY <1>5, <2>1
  <2>5. TypeOK' BY <1>1, <1>5, <2>3, <2>4 DEF IInv, TypeOK, disk
  <2>6. StageAccounted' BY <1>1, <1>2, <1>5 DEF StageAccounted
  <2>7. WholeSnapshot' BY <1>1 DEF IInv, WholeSnapshot
  <2>8. NoStaleResult' BY <2>2, <2>3 DEF IInv, NoStaleResult
  <2>9. ReadsWhole'
    <3>1. \A u \in Tasks : task'[u].got # Null => Whole(task'[u].got) /\ task'[u].got.lib \in V2
      BY <1>2, <2>2, <2>3 DEF IInv, ReadsWhole
    <3> QED BY <1>1, <1>2, <1>5, <3>1 DEF ReadsWhole
  <2>10. TicketsIssued'
    <3>1. /\ task[t].why = "go" => task[t].prev \in Folders
          /\ task[t].folder \in Folders /\ task[t].ticket > 0
      BY <1>1 DEF IInv, TicketsIssued
    <3> QED BY <1>1, <2>1, <2>3, <2>4, <3>1, TicketsKept
  <2>11. LatestServed'
    <3>1. \A u \in Tasks \ {t} : task[u].ticket # ticket BY <1>1 DEF IInv, TicketsIssued
    <3> QED BY <1>1, <2>3, <2>4, <3>1 DEF LatestServed
  <2>12. \A u \in Tasks \ {t} : task[u].at # "take" BY <1>1 DEF IInv, TurnKept
  <2>13. TurnKept' BY <1>2, <2>3, <2>12 DEF IInv, TurnKept
  <2> QED BY <2>5, <2>6, <2>7, <2>8, <2>9, <2>10, <2>11, <2>13 DEF IInv
<1> QED BY <1>3, <1>4, <1>5 DEF Take

-----------------------------------------------------------------------------
(* The scripts and the key *)

\* A script that calls no native keeps the invariant when its own record is
\* either a fresh request or the next stage of building what it got.
LEMMA ScriptKeeps ==
  ASSUME IInv, NEW t \in Tasks, turn \in {Null, t}, turn' \in {Null, t},
         UNCHANGED <<root, swaps, native>>,
         current' \in [Libraries -> Folders \cup {Null}], base' \in BOOLEAN,
         live' \in Snapshots \cup {Null}, WholeSnapshot',
         task' \in [Tasks -> TaskStates], \A u \in Tasks \ {t} : task'[u] = task[u],
         \/ /\ task'[t].at \in {"idle", "begin"} /\ task'[t].got = Null
            /\ task'[t].at # "idle" => task'[t].folder \in Folders
            /\ task'[t].why = "go" => task'[t].prev \in Folders
            /\ task'[t].ticket = 0
         \/ /\ task[t].at \in {"build", "profile"} /\ task'[t].at \in {"profile", "commit"}
            /\ task'[t].got = task[t].got /\ task'[t].folder = task[t].folder
            /\ task'[t].why = task[t].why /\ task'[t].prev = task[t].prev
            /\ task'[t].ticket = task[t].ticket
  PROVE  IInv'
<1>1. TypeOK' BY DEF IInv, TypeOK, native
<1>2. StageAccounted' BY DEF IInv, StageAccounted, native
<1>3. NoStaleResult' BY DEF IInv, NoStaleResult
<1>4. ReadsWhole'
  <2>1. \A u \in Tasks : task'[u].got # Null => Whole(task'[u].got) /\ task'[u].got.lib \in V2
    BY DEF IInv, ReadsWhole
  <2> QED BY <2>1 DEF IInv, ReadsWhole, Whole, native
<1>5. /\ ticket \in Nat /\ taken.ticket \in Nat /\ taken.ticket <= ticket
      /\ task[t].at # "idle" => task[t].folder \in Folders
      /\ task[t].why = "go" => task[t].prev \in Folders
      /\ task[t].at \in {"poll", "take", "build", "profile", "commit"} => task[t].ticket > 0
  BY DEF IInv, TypeOK, TicketsIssued
<1>6. TicketsIssued' BY <1>5, TicketsKept DEF native
<1>7. LatestServed' BY DEF IInv, LatestServed, native
<1>8. \A u \in Tasks \ {t} : task[u].at # "take" BY CatalogAssumption DEF IInv, TurnKept
<1>9. TurnKept' BY <1>8 DEF IInv, TurnKept, native
<1> QED BY <1>1, <1>2, <1>3, <1>4, <1>6, <1>7, <1>9, WholeSnapshot' DEF IInv

LEMMA EnsureKeeps == ASSUME IInv, NEW t \in Tasks, Ensure(t) PROVE IInv'
<1>1. /\ turn \in {Null, t} /\ turn' = t /\ UNCHANGED <<disk, native, base, live>>
      /\ task \in [Tasks -> TaskStates]
  BY DEF Ensure, Runs, IInv, TypeOK
<1> DEFINE remembered == IF root = Null THEN Null ELSE current[root]
           asked == IF remembered = Null THEN Root("jp") ELSE remembered
           next == [Resting EXCEPT !.at = "begin", !.why = "ensure", !.folder = asked]
<1>2. asked \in Folders
  <2>1. remembered \in Folders \cup {Null} BY DEF IInv, TypeOK
  <2> QED BY <2>1, JpIsFolder
<1>3. task' = [task EXCEPT ![t] = next] BY DEF Ensure
<1>4. /\ next \in TaskStates /\ next.at = "begin" /\ next.why = "ensure" /\ next.got = Null
      /\ next.folder = asked /\ next.ticket = 0
  <2> HIDE DEF asked
  <2> QED BY <1>2 DEF Resting, TaskStates
<1>5. task'[t] = next BY <1>1, <1>3
<1>6. task' \in [Tasks -> TaskStates] /\ \A u \in Tasks \ {t} : task'[u] = task[u]
  <2> HIDE DEF next
  <2> QED BY <1>1, <1>3, <1>4
<1> HIDE DEF next, asked
<1>7. WholeSnapshot' BY <1>1 DEF IInv, WholeSnapshot
<1> QED BY <1>1, <1>2, <1>4, <1>5, <1>6, <1>7, ScriptKeeps DEF IInv, TypeOK, disk

LEMMA NavigateKeeps == ASSUME IInv, NEW folder \in Folders, Navigate(folder) PROVE IInv'
<1>1. /\ Menu \in Tasks /\ turn \in {Null, Menu} /\ turn' = Menu
      /\ UNCHANGED <<disk, native, base, live>> /\ task \in [Tasks -> TaskStates]
  BY CatalogAssumption DEF Navigate, Runs, IInv, TypeOK
<1> DEFINE next == [Resting EXCEPT !.at = "begin", !.why = "go", !.folder = folder,
                      !.prev = live.folder]
<1>2. live.folder \in Folders BY DEF Navigate, IInv, TypeOK, Snapshots
<1>3. task' = [task EXCEPT ![Menu] = next] BY DEF Navigate
<1>4. /\ next \in TaskStates /\ next.at = "begin" /\ next.got = Null
      /\ next.folder = folder /\ next.prev = live.folder /\ next.ticket = 0
  BY <1>2 DEF Resting, TaskStates
<1> HIDE DEF next
<1>5. task'[Menu] = next BY <1>1, <1>3
<1>6. task' \in [Tasks -> TaskStates] /\ \A u \in Tasks \ {Menu} : task'[u] = task[u]
  BY <1>1, <1>3, <1>4
<1>7. WholeSnapshot' BY <1>1 DEF IInv, WholeSnapshot
<1> QED BY <1>1, <1>2, <1>4, <1>5, <1>6, <1>7, ScriptKeeps DEF IInv, TypeOK, disk

\* The next stage of building what the task got.
LEMMA BuildTask ==
  ASSUME IInv, NEW t \in Tasks, NEW at \in {"profile", "commit"},
         task' = [task EXCEPT ![t].at = at]
  PROVE  /\ task' \in [Tasks -> TaskStates] /\ \A u \in Tasks \ {t} : task'[u] = task[u]
         /\ task'[t].at = at /\ task'[t].got = task[t].got
         /\ task'[t].folder = task[t].folder /\ task'[t].why = task[t].why
         /\ task'[t].prev = task[t].prev /\ task'[t].ticket = task[t].ticket
<1>1. task \in [Tasks -> TaskStates] BY DEF IInv, TypeOK
<1>2. task'[t] = [task[t] EXCEPT !.at = at] BY <1>1
<1>3. task[t] \in TaskStates BY <1>1
<1>4. /\ task'[t] \in TaskStates /\ task'[t].at = at /\ task'[t].got = task[t].got
      /\ task'[t].folder = task[t].folder /\ task'[t].why = task[t].why
      /\ task'[t].prev = task[t].prev /\ task'[t].ticket = task[t].ticket
  BY <1>2, <1>3 DEF TaskStates
<1> QED BY <1>1, <1>4

LEMMA BuildViewsKeeps == ASSUME IInv, NEW t \in Tasks, BuildViews(t) PROVE IInv'
<1>1. /\ turn \in {Null, t} /\ task[t].at = "build" /\ UNCHANGED <<disk, native, base, live>>
  BY DEF BuildViews, Runs
<1>2. CASE Throw(t)
  <2>1. StageAccounted' BY <1>1 DEF IInv, StageAccounted, native
  <2> QED BY <1>1, <1>2, <2>1, ThrowKeeps DEF native, IInv, TypeOK
<1>3. ASSUME NEW at \in {"profile", "commit"}, task' = [task EXCEPT ![t].at = at],
             turn' \in {Null, t}
      PROVE  IInv'
  <2>1. WholeSnapshot' BY <1>1 DEF IInv, WholeSnapshot
  <2> QED BY <1>1, <1>3, <2>1, BuildTask, ScriptKeeps DEF IInv, TypeOK, disk
<1> QED BY <1>2, <1>3 DEF BuildViews

LEMMA StaticProfileKeeps == ASSUME IInv, NEW t \in Tasks, StaticProfile(t) PROVE IInv'
<1>1. /\ turn \in {Null, t} /\ task[t].at = "profile" /\ UNCHANGED <<disk, native, live>>
      /\ task' = [task EXCEPT ![t].at = "commit"] /\ turn' = t /\ base' = TRUE
  BY DEF StaticProfile, Runs
<1>2. WholeSnapshot' BY <1>1 DEF IInv, WholeSnapshot
<1> QED BY <1>1, <1>2, BuildTask, ScriptKeeps DEF IInv, TypeOK, disk

\* Remembering changes one field of current, to the folder that was taken.
LEMMA RememberedType ==
  ASSUME IInv, NEW t \in Tasks, current' \in Remembered(t)
  PROVE  current' \in [Libraries -> Folders \cup {Null}]
BY DEF IInv, TypeOK, Remembered

LEMMA CommitKeeps == ASSUME IInv, NEW t \in Tasks, Commit(t) PROVE IInv'
<1>1. /\ turn \in {Null, t} /\ task[t].at = "commit" /\ UNCHANGED <<root, swaps, native, base>>
      /\ live' = task[t].got /\ current' \in Remembered(t)
      /\ task \in [Tasks -> TaskStates]
  BY DEF Commit, Runs, IInv, TypeOK
<1>2. /\ task[t] \in TaskStates /\ live' \in Snapshots \cup {Null}
  BY <1>1 DEF TaskStates
<1>3. WholeSnapshot' BY <1>1 DEF WholeSnapshot, IInv, ReadsWhole, Whole
<1>4. current' \in [Libraries -> Folders \cup {Null}] BY <1>1, RememberedType
<1>5. base' \in BOOLEAN BY <1>1 DEF IInv, TypeOK
<1>6. CASE task' = [task EXCEPT ![t] = Resting] /\ turn' = Null
  <2>1. task'[t] = Resting BY <1>1, <1>6
  <2>2. Resting.at = "idle" /\ Resting.got = Null /\ Resting.why = "none" /\ Resting.ticket = 0
    BY DEF Resting
  <2>3. task' \in [Tasks -> TaskStates] /\ \A u \in Tasks \ {t} : task'[u] = task[u]
    BY <1>1, <1>6, RestingType
  <2> QED BY <1>1, <1>2, <1>3, <1>4, <1>5, <1>6, <2>1, <2>2, <2>3, ScriptKeeps
<1>7. CASE /\ task[t].why = "go" /\ turn' = t
           /\ task' = [task EXCEPT ![t] = [Resting EXCEPT !.at = "begin", !.why = "undo",
                                             !.folder = task[t].prev]]
  <2> DEFINE next == [Resting EXCEPT !.at = "begin", !.why = "undo", !.folder = task[t].prev]
  <2>1. task[t].prev \in Folders BY <1>7 DEF IInv, TicketsIssued
  <2>2. /\ next \in TaskStates /\ next.at = "begin" /\ next.got = Null /\ next.why = "undo"
        /\ next.folder \in Folders /\ next.ticket = 0
    BY <2>1 DEF Resting, TaskStates
  <2>3. task' = [task EXCEPT ![t] = next] BY <1>7
  <2> HIDE DEF next
  <2>4. task'[t] = next BY <1>1, <2>3
  <2>5. task' \in [Tasks -> TaskStates] /\ \A u \in Tasks \ {t} : task'[u] = task[u]
    BY <1>1, <2>2, <2>3
  <2> QED BY <1>1, <1>2, <1>3, <1>4, <1>5, <1>7, <2>2, <2>4, <2>5, ScriptKeeps
<1> QED BY <1>6, <1>7 DEF Commit

LEMMA SwapKeyKeeps == ASSUME IInv, SwapKey PROVE IInv'
<1>1. /\ root' \in Libraries \cup {Null} /\ swaps' \in 0..MaxSwaps
      /\ UNCHANGED <<current, native, script>>
  BY CatalogAssumption DEF SwapKey, IInv, TypeOK
<1>2. TypeOK' BY <1>1 DEF IInv, TypeOK, native, script
<1>3. StageAccounted' /\ WholeSnapshot' /\ NoStaleResult'
  BY <1>1 DEF IInv, StageAccounted, WholeSnapshot, NoStaleResult, native, script
<1>4. ReadsWhole' /\ TicketsIssued'
  BY <1>1 DEF IInv, ReadsWhole, TicketsIssued, Whole, native, script
<1>5. LatestServed' /\ TurnKept' BY <1>1 DEF IInv, LatestServed, TurnKept, native, script
<1> QED BY <1>2, <1>3, <1>4, <1>5 DEF IInv

-----------------------------------------------------------------------------
(* The theorems *)

LEMMA InitIInv == Init => IInv
<1> SUFFICES ASSUME Init PROVE IInv OBVIOUS
<1>1. /\ Resting.at = "idle" /\ Resting.got = Null /\ Resting.why = "none" /\ Resting.ticket = 0
      /\ NoThread.at = "none" /\ ~NoThread.ok
  BY DEF Resting, NoThread
<1>2. \A t \in Tasks : task[t] = Resting BY DEF Init
<1>3. TypeOK
  <2>1. current \in [Libraries -> Folders \cup {Null}] BY CatalogAssumption DEF Init
  <2>2. task \in [Tasks -> TaskStates] BY RestingType DEF Init
  <2>3. taken \in [ticket : Nat, lib : Libraries \cup {Null}, folder : Folders \cup {Null}]
    BY DEF Init
  <2>4. swaps \in 0..MaxSwaps /\ ticket \in Nat BY CatalogAssumption DEF Init
  <2> QED BY <2>1, <2>2, <2>3, <2>4, RestingType DEF Init, TypeOK
<1>4. StageAccounted /\ WholeSnapshot BY <1>1 DEF Init, StageAccounted, WholeSnapshot
<1>5. NoStaleResult /\ ReadsWhole BY <1>1, <1>2 DEF Init, NoStaleResult, ReadsWhole
<1>6. TicketsIssued BY <1>1, <1>2 DEF Init, TicketsIssued
<1>7. LatestServed /\ TurnKept BY <1>1, <1>2 DEF LatestServed, TurnKept
<1> QED BY <1>3, <1>4, <1>5, <1>6, <1>7 DEF IInv

LEMMA StepKeeps == IInv /\ [Next]_vars => IInv'
<1> SUFFICES ASSUME IInv, [Next]_vars PROVE IInv' OBVIOUS
<1>1. CASE WorkerStep
  BY <1>1, ReadMarkerKeeps, OpenAnchorKeeps, ReadPartKeeps, StoreStageKeeps, StoreErrorKeeps,
     PostResultKeeps
  DEF WorkerStep
<1>2. ASSUME NEW t \in Tasks, Ensure(t) \/ TaskStep(t) PROVE IInv'
  BY <1>2, EnsureKeeps, BeginKeeps, PollKeeps, TakeKeeps, BuildViewsKeeps, StaticProfileKeeps,
     CommitKeeps DEF TaskStep
<1>3. ASSUME NEW folder \in Folders, Navigate(folder) PROVE IInv' BY <1>3, NavigateKeeps
<1>4. CASE SwapKey BY <1>4, SwapKeyKeeps
<1>5. CASE UNCHANGED vars
  <2>1. UNCHANGED <<root, swaps, current, state, ticket, taken, stage, thread, task, turn, base,
          live>>
    BY <1>5 DEF vars, disk, native, script
  <2>2. TypeOK' /\ StageAccounted' /\ WholeSnapshot' /\ NoStaleResult'
    BY <2>1 DEF IInv, TypeOK, StageAccounted, WholeSnapshot, NoStaleResult
  <2>3. ReadsWhole' /\ TicketsIssued' /\ LatestServed' /\ TurnKept'
    BY <2>1 DEF IInv, ReadsWhole, Whole, TicketsIssued, LatestServed, TurnKept
  <2> QED BY <2>2, <2>3 DEF IInv
<1> QED BY <1>1, <1>2, <1>3, <1>4, <1>5 DEF Next

\* The inductive invariant holds throughout: natives, worker, scripts and key
\* never leave the order the natives of catalog_runtime.h depend on.
THEOREM CatalogOrdered == Spec => []IInv
<1>1. IInv /\ [Next]_vars => IInv' BY StepKeeps
<1> QED BY <1>1, InitIInv, PTL DEF Spec

\* The staged tree has one owner in every state, so catalog_free_stage neither
\* misses a tree nor frees one twice, for any number of tasks and reads.
THEOREM StageHasOneOwner == Spec => []StageAccounted
<1>1. IInv => StageAccounted BY DEF IInv
<1> QED BY <1>1, CatalogOrdered, PTL

\* However often the key is changed, the live folder was read whole from one
\* V2 library.
THEOREM SnapshotsWhole == Spec => []WholeSnapshot
<1>1. IInv => WholeSnapshot BY DEF IInv
<1> QED BY <1>1, CatalogOrdered, PTL

\* No task is given the folder another task asked for.
THEOREM ResultsMatchRequests == Spec => []NoStaleResult
<1>1. IInv => NoStaleResult BY DEF IInv
<1> QED BY <1>1, CatalogOrdered, PTL

\* While the worker runs, no native touches the staged tree or the request.
LEMMA WorkerKept ==
  ASSUME IInv, [Next]_vars, Working
  PROVE  /\ stage' # stage => thread.at \in {"store", "fail"}
         /\ thread'.folder = thread.folder
<1>1. thread.at # "none" /\ thread.at # "done" /\ state = "busy" /\ thread \in Threads
  BY DEF Working, IInv, StageAccounted, TypeOK
<1>2. Polled = [state |-> state, stage |-> stage, thread |-> thread] BY <1>1 DEF Polled
<1>3. CASE WorkerStep
  <2>1. CASE ReadMarker \/ OpenAnchor \/ ReadPart \/ StoreStage \/ StoreError \/ PostResult
    BY <1>1, <2>1
    DEF ReadMarker, OpenAnchor, ReadPart, StoreStage, StoreError, PostResult, GiveUp, Threads
  <2> QED BY <1>3, <2>1 DEF WorkerStep
<1>4. ASSUME NEW t \in Tasks, Begin(t) \/ Poll(t) PROVE stage' = stage /\ thread' = thread
  BY <1>1, <1>2, <1>4 DEF Begin, Poll, Become, native
<1>5. ASSUME NEW t \in Tasks, Take(t) PROVE FALSE
  BY <1>1, <1>5 DEF Take, Runs, IInv, TurnKept
<1>6. ASSUME NEW t \in Tasks, Ensure(t) \/ BuildViews(t) \/ StaticProfile(t) \/ Commit(t)
      PROVE  stage' = stage /\ thread' = thread
  BY <1>6 DEF Ensure, BuildViews, StaticProfile, Commit, native
<1>7. ASSUME NEW folder \in Folders, Navigate(folder) PROVE stage' = stage /\ thread' = thread
  BY <1>7 DEF Navigate, native
<1>8. CASE SwapKey \/ UNCHANGED vars BY <1>8 DEF SwapKey, vars, native
<1> QED BY <1>3, <1>4, <1>5, <1>6, <1>7, <1>8 DEF Next, TaskStep

\* folder_worker.h: the request is the worker's while it runs, and so is the
\* stage, which no native replaces before the join.
THEOREM WorkerAlone == Spec => WorkerUndisturbed
<1>1. IInv /\ [Next]_vars =>
        [Working => /\ stage' # stage => thread.at \in {"store", "fail"}
                    /\ thread'.folder = thread.folder]_vars
  BY WorkerKept
<1> QED BY <1>1, CatalogOrdered, PTL DEF Spec, WorkerUndisturbed

\* Only the end of a read remembers a folder, and it is the one it shows.
LEMMA OnlyCommitRemembers ==
  ASSUME IInv, [Next]_vars, NEW lib \in Libraries, current'[lib] # current[lib]
  PROVE  live' # Null /\ live'.lib = lib /\ live'.folder = current'[lib]
<1>1. PICK t \in Tasks : Commit(t)
  BY DEF Next, SwapKey, WorkerStep, ReadMarker, OpenAnchor, ReadPart, StoreStage, StoreError,
         PostResult, Ensure, Navigate, TaskStep, Begin, Poll, Take, BuildViews, StaticProfile, disk, vars
<1>2. current \in [Libraries -> Folders \cup {Null}] BY DEF IInv, TypeOK
<1>3. /\ task[t].at = "commit" /\ live' = task[t].got
      /\ task[t].ticket = ticket /\ taken.ticket = ticket /\ root = taken.lib
      /\ current' = [current EXCEPT ![root] = taken.folder]
  BY <1>1 DEF Commit, Runs, Remembered
<1>4. lib = root /\ current'[lib] = taken.folder BY <1>2, <1>3
<1>5. task[t].got # Null BY <1>3 DEF IInv, TurnKept
<1>6. taken.lib = task[t].got.lib /\ taken.folder = task[t].got.folder
  BY <1>3 DEF IInv, LatestServed
<1> QED BY <1>3, <1>4, <1>5, <1>6

\* chronosRememberFolder never records, for any library, a folder other than
\* the one shown, nor one read from another library.
THEOREM RememberedIsShown == Spec => RememberedIsLive
<1>1. IInv /\ [Next]_vars =>
        [\A lib \in Libraries :
           current'[lib] # current[lib] =>
             live' # Null /\ live'.lib = lib /\ live'.folder = current'[lib]]_vars
  BY OnlyCommitRemembers
<1> QED BY <1>1, CatalogOrdered, PTL DEF Spec, RememberedIsLive
=============================================================================
