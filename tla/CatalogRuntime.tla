--------------------------- MODULE CatalogRuntime ---------------------------
(***************************************************************************)
(* Reading a folder of the USB library: the natives beginReadFolder,       *)
(* pollReadFolder, takeFolder and chronosRememberFolder                    *)
(* (catalog_runtime.h), their transient worker thread (folder_worker.h,    *)
(* catalog_read_folder), and the scripts that call them                    *)
(* (ChronosLibrary.read and .ensure, wait_folder_swap).                    *)
(*                                                                         *)
(* Squirrel tasks share one thread and hand it over only in wait(0); the   *)
(* worker and the key are independent of them.  A folder's contents are    *)
(* abstracted to the libraries they were read from.                        *)
(***************************************************************************)
EXTENDS Naturals

CONSTANTS
  Libraries,   \* directories that can appear at SAVE_LIBRARY_ROOT (device, inode)
  V2,          \* those with a valid .chronos-library-v2
  Names,       \* names of folders below a lineup's root
  Tasks,       \* Squirrel tasks that ask for folders
  Menu,        \* the one that navigates
  Null,        \* no library, no snapshot, nobody
  Broken,      \* a snapshot that holds an error
  Start,       \* bound: what .current-v2 may hold at power-on
  MaxTicket,   \* bound: reads begun
  MaxSwaps     \* bound: times the key is pulled or another one mounted

Folders == [lineup : {"jp", "us"}, name : Names \cup {"_root"}]
Root(lineup) == [lineup |-> lineup, name |-> "_root"]
Snapshots == [lib : Libraries, parts : SUBSET Libraries, folder : Folders]

ASSUME CatalogAssumption ==
  /\ V2 \subseteq Libraries
  /\ Menu \in Tasks
  /\ Null \notin Libraries \cup Folders \cup Snapshots \cup Tasks
  /\ Broken \notin Snapshots \cup {Null}
  /\ Start \subseteq Folders \cup {Null}
  /\ MaxTicket \in Nat /\ MaxSwaps \in Nat

VARIABLES
  root,        \* the library at SAVE_LIBRARY_ROOT, or Null
  swaps,       \* how often it changed
  current,     \* .current-v2 of each library, or Null
  state,       \* g_catalog_state
  ticket,      \* g_catalog_ticket
  taken,       \* g_catalog_taken and g_catalog_taken_ticket
  stage,       \* g_catalog_stage
  thread,      \* g_catalog_worker and its thread
  task,        \* what each Squirrel task is doing
  turn,        \* the task that runs until its next wait(0), or Null
  base,        \* is base_profile loaded?
  live         \* ChronosLibrary.snapshot

disk == <<root, swaps, current>>
native == <<state, ticket, taken, stage, thread>>
script == <<task, turn, base, live>>
vars == <<disk, native, script>>

NoThread == [at |-> "none", folder |-> Null, lib |-> Null, parts |-> {}, ok |-> FALSE]
Resting == [at |-> "idle", why |-> "none", folder |-> Null, prev |-> Null,
            ticket |-> 0, got |-> Null]

Init ==
  /\ root \in Libraries
  /\ swaps = 0
  /\ current \in [Libraries -> Start]
  /\ state = "none" /\ ticket = 0
  /\ taken = [ticket |-> 0, lib |-> Null, folder |-> Null]
  /\ stage = Null
  /\ thread = NoThread
  /\ task = [t \in Tasks |-> Resting]
  /\ turn = Null /\ base = FALSE /\ live = Null

-----------------------------------------------------------------------------
(* The key *)

SwapKey ==
  /\ swaps < MaxSwaps
  /\ swaps' = swaps + 1
  /\ root' \in (Libraries \cup {Null}) \ {root}
  /\ UNCHANGED <<current, native, script>>

-----------------------------------------------------------------------------
(* The worker thread *)

Working == thread.at \notin {"none", "done"}

\* catalog_read_folder leaves at the first error.
GiveUp == thread' = [thread EXCEPT !.at = "fail"]

ReadMarker ==
  /\ thread.at = "marker"
  /\ IF root \in V2 THEN thread' = [thread EXCEPT !.at = "anchor"] ELSE GiveUp
  /\ UNCHANGED <<disk, state, ticket, taken, stage, script>>

OpenAnchor ==
  /\ thread.at = "anchor"
  /\ IF root # Null THEN thread' = [thread EXCEPT !.at = "settings", !.lib = root] ELSE GiveUp
  /\ UNCHANGED <<disk, state, ticket, taken, stage, script>>

After(at) == IF at = "settings" THEN "entries" ELSE "store"

\* A bug: files opened by path, not below the anchor.
ReadByPath ==
  /\ thread.at \in {"settings", "entries"}
  /\ \/ /\ root # Null
        /\ thread' = [thread EXCEPT !.at = After(@), !.parts = @ \cup {root}]
     \/ GiveUp
  /\ UNCHANGED <<disk, state, ticket, taken, stage, script>>

\* settings_games.json, then the folder and its games, all below the anchor.
ReadPart ==
  /\ thread.at \in {"settings", "entries"}
  /\ \/ thread' = [thread EXCEPT !.at = After(@), !.parts = @ \cup {thread.lib}]
     \/ GiveUp
  /\ UNCHANGED <<disk, state, ticket, taken, stage, script>>

\* g_catalog_stage is assigned on this thread, outside the lock.
StoreStage ==
  /\ thread.at = "store"
  /\ stage' = [lib |-> thread.lib, parts |-> thread.parts, folder |-> thread.folder]
  /\ thread' = [thread EXCEPT !.at = "result", !.ok = TRUE]
  /\ UNCHANGED <<disk, state, ticket, taken, script>>

\* After an error there is a snapshot with its text, or none for want of memory.
StoreError ==
  /\ thread.at = "fail"
  /\ stage' \in {Broken, Null}
  /\ thread' = [thread EXCEPT !.at = "result"]
  /\ UNCHANGED <<disk, state, ticket, taken, script>>

PostResult ==
  /\ thread.at = "result"
  /\ thread' = [thread EXCEPT !.at = "done"]
  /\ UNCHANGED <<disk, state, ticket, taken, stage, script>>

WorkerStep == ReadMarker \/ OpenAnchor \/ ReadPart \/ StoreStage \/ StoreError \/ PostResult

-----------------------------------------------------------------------------
(* The natives *)

Current(s) == s # Null /\ root = s.lib /\ root \in V2

\* catalog_poll_worker: joins a finished thread and judges what it staged.
Polled ==
  IF state # "busy" \/ thread.at # "done"
    THEN [state |-> state, stage |-> stage, thread |-> thread]
  ELSE IF thread.ok /\ Current(stage)
    THEN [state |-> "ready", stage |-> stage, thread |-> NoThread]
    ELSE [state |-> "failed", stage |-> Null, thread |-> NoThread]

Become(n) == state' = n.state /\ stage' = n.stage /\ thread' = n.thread

\* A read that throws: ensure tries the root of the lineup once, a navigation
\* keeps the folder it came from.
Throw(t) ==
  IF task[t].why = "ensure" /\ task[t].folder.name # "_root"
    THEN /\ task' = [task EXCEPT ![t].at = "begin", ![t].folder = Root(@.lineup), ![t].got = Null]
         /\ turn' = t
    ELSE /\ task' = [task EXCEPT ![t] = Resting]
         /\ turn' = Null

Runs(t, step) == turn \in {Null, t} /\ task[t].at = step

\* A bug: the stage is dropped before the worker is known to be idle.
BeginUnpolled(t) ==
  /\ Runs(t, "begin")
  /\ root \in V2
  /\ stage' = Null
  /\ taken' = [taken EXCEPT !.ticket = 0]
  /\ IF thread.at # "none"
       THEN state' = "none" /\ Throw(t) /\ UNCHANGED <<ticket, thread>>
       ELSE /\ state' = "busy"
            /\ ticket' = ticket + 1
            /\ thread' = [NoThread EXCEPT !.at = "marker", !.folder = task[t].folder]
            /\ task' = [task EXCEPT ![t].at = "poll", ![t].ticket = ticket + 1]
            /\ turn' = t
  /\ UNCHANGED <<disk, base, live>>

\* beginReadFolder
Begin(t) ==
  /\ Runs(t, "begin")
  /\ IF root \notin V2
       THEN Throw(t) /\ UNCHANGED native
     ELSE IF Polled.state = "busy"
       THEN Throw(t) /\ Become(Polled) /\ UNCHANGED <<ticket, taken>>
     ELSE /\ stage' = Null
          /\ taken' = [taken EXCEPT !.ticket = 0]
          /\ \/ /\ state' = "busy"
                /\ ticket' = ticket + 1
                /\ thread' = [NoThread EXCEPT !.at = "marker", !.folder = task[t].folder]
                /\ task' = [task EXCEPT ![t].at = "poll", ![t].ticket = ticket + 1]
                /\ turn' = t
             \/ /\ state' = "none"      \* pthread_create fails
                /\ thread' = NoThread
                /\ Throw(t)
                /\ UNCHANGED ticket
  /\ UNCHANGED <<disk, base, live>>

\* A bug: an outdated ticket looks like a worker that is still busy.
PollPatient(t) ==
  /\ Runs(t, "poll")
  /\ Become(Polled)
  /\ CASE task[t].ticket # ticket \/ Polled.state = "busy" -> turn' = Null /\ UNCHANGED task
       [] task[t].ticket = ticket /\ Polled.state = "ready" ->
            turn' = t /\ task' = [task EXCEPT ![t].at = "take"]
       [] OTHER -> Throw(t)
  /\ UNCHANGED <<disk, ticket, taken, base, live>>

\* A bug: the ticket is not compared.
PollUnchecked(t) ==
  /\ Runs(t, "poll")
  /\ Become(Polled)
  /\ CASE Polled.state = "busy"  -> turn' = Null /\ UNCHANGED task
       [] Polled.state = "ready" -> turn' = t /\ task' = [task EXCEPT ![t].at = "take"]
       [] OTHER                  -> Throw(t)
  /\ UNCHANGED <<disk, ticket, taken, base, live>>

\* pollReadFolder, and wait(0) while it answers "busy".
Poll(t) ==
  /\ Runs(t, "poll")
  /\ IF task[t].ticket # ticket
       THEN Throw(t) /\ UNCHANGED native
       ELSE /\ Become(Polled)
            /\ CASE Polled.state = "busy"  -> turn' = Null /\ UNCHANGED task
                 [] Polled.state = "ready" -> turn' = t /\ task' = [task EXCEPT ![t].at = "take"]
                 [] OTHER                  -> Throw(t)
            /\ UNCHANGED <<ticket, taken>>
  /\ UNCHANGED <<disk, base, live>>

\* takeFolder, in the same turn as the poll that answered "ready": its own test
\* of the ticket cannot fail.  The tables it builds may not fit in memory.
Take(t) ==
  /\ Runs(t, "take")
  /\ IF ~Current(stage)
       THEN state' = "failed" /\ stage' = Null /\ Throw(t) /\ UNCHANGED taken
     ELSE \/ UNCHANGED <<state, stage, taken>> /\ Throw(t)
          \/ /\ taken' = [ticket |-> ticket, lib |-> stage.lib, folder |-> stage.folder]
             /\ state' = "taken" /\ stage' = Null
             /\ task' = [task EXCEPT ![t].at = "build", ![t].got = stage]
             /\ turn' = t
  /\ UNCHANGED <<disk, ticket, thread, base, live>>

-----------------------------------------------------------------------------
(* The scripts *)

\* ensure: the remembered folder, or the root of the Japanese lineup.
Ensure(t) ==
  /\ Runs(t, "idle") /\ ticket < MaxTicket
  /\ live = Null
  /\ LET remembered == IF root = Null THEN Null ELSE current[root] IN
       task' = [task EXCEPT ![t] = [Resting EXCEPT !.at = "begin", !.why = "ensure",
                  !.folder = IF remembered = Null THEN Root("jp") ELSE remembered]]
  /\ turn' = t
  /\ UNCHANGED <<disk, native, base, live>>

\* wait_folder_swap
Navigate(folder) ==
  /\ Runs(Menu, "idle") /\ ticket < MaxTicket
  /\ live # Null
  /\ task' = [task EXCEPT ![Menu] = [Resting EXCEPT !.at = "begin", !.why = "go",
                !.folder = folder, !.prev = live.folder]]
  /\ turn' = Menu
  /\ UNCHANGED <<disk, native, base, live>>

\* build_top and build_profile; the first use of static_profile waits for the
\* stock profile, and either may throw.
BuildViews(t) ==
  /\ Runs(t, "build")
  /\ \/ base /\ turn' = t /\ task' = [task EXCEPT ![t].at = "commit"]
     \/ ~base /\ turn' = Null /\ task' = [task EXCEPT ![t].at = "profile"]
     \/ Throw(t)
  /\ UNCHANGED <<disk, native, base, live>>

StaticProfile(t) ==
  /\ Runs(t, "profile")
  /\ base' = TRUE
  /\ task' = [task EXCEPT ![t].at = "commit"]
  /\ turn' = t
  /\ UNCHANGED <<disk, native, live>>

\* A bug: the library is not compared with the one the folder was taken from.
RememberedAnywhere(t) ==
  IF task[t].ticket = ticket /\ taken.ticket = ticket /\ root \in V2
    THEN {current, [current EXCEPT ![root] = taken.folder]}
    ELSE {current}

\* chronosRememberFolder: .current-v2 is replaced whole, or not at all.
Remembered(t) ==
  IF task[t].ticket = ticket /\ taken.ticket = ticket /\ root = taken.lib /\ root \in V2
    THEN {current, [current EXCEPT ![root] = taken.folder]}
    ELSE {current}

\* The end of read: the new folder goes live and is remembered.  A navigation
\* whose artwork is rejected then reads the previous folder again
\* (finish_source_folder_swap).
Commit(t) ==
  /\ Runs(t, "commit")
  /\ live' = task[t].got
  /\ current' \in Remembered(t)
  /\ \/ task' = [task EXCEPT ![t] = Resting] /\ turn' = Null
     \/ /\ task[t].why = "go"
        /\ task' = [task EXCEPT ![t] = [Resting EXCEPT !.at = "begin", !.why = "undo",
                      !.folder = task[t].prev]]
        /\ turn' = t
  /\ UNCHANGED <<root, swaps, native, base>>

TaskStep(t) == Begin(t) \/ Poll(t) \/ Take(t) \/ BuildViews(t) \/ StaticProfile(t) \/ Commit(t)

Next ==
  \/ SwapKey
  \/ WorkerStep
  \/ \E t \in Tasks : Ensure(t) \/ TaskStep(t)
  \/ \E folder \in Folders : Navigate(folder)

Spec == Init /\ [][Next]_vars

\* The kernel schedules the worker; the engine resumes every task each frame.
FairSpec == Spec /\ WF_vars(WorkerStep) /\ \A t \in Tasks : SF_vars(TaskStep(t))

-----------------------------------------------------------------------------
(* Properties *)

Threads == [at : {"none", "marker", "anchor", "settings", "entries", "store", "fail", "result",
                  "done"},
            folder : Folders \cup {Null}, lib : Libraries \cup {Null},
            parts : SUBSET Libraries, ok : BOOLEAN]

TaskStates == [at : {"idle", "begin", "poll", "take", "build", "profile", "commit"},
               why : {"none", "ensure", "go", "undo"},
               folder : Folders \cup {Null}, prev : Folders \cup {Null},
               ticket : Nat, got : Snapshots \cup {Null}]

\* The shape of the native state, the thread and the tasks.
TypeOK ==
  /\ root \in Libraries \cup {Null}
  /\ swaps \in 0..MaxSwaps
  /\ current \in [Libraries -> Folders \cup {Null}]
  /\ state \in {"none", "busy", "ready", "failed", "taken"}
  /\ ticket \in Nat
  /\ taken \in [ticket : Nat, lib : Libraries \cup {Null}, folder : Folders \cup {Null}]
  /\ stage \in Snapshots \cup {Broken, Null}
  /\ thread \in Threads
  /\ task \in [Tasks -> TaskStates]
  /\ turn \in Tasks \cup {Null}
  /\ base \in BOOLEAN
  /\ live \in Snapshots \cup {Null}

\* The staged tree has one owner: the worker while the state is busy, the menu
\* thread while it is ready, and it is freed in every other state, the tree of
\* a read that failed like any other.  Nothing leaks and nothing is freed twice,
\* whatever ticket a native is called with.
StageAccounted ==
  /\ state = "busy" <=> thread.at # "none"
  /\ stage # Null => state = "ready" \/ thread.at \in {"result", "done"}
  /\ state = "ready" => stage \notin {Broken, Null}

\* While the worker runs without the lock nobody else assigns the stage, and
\* the request it reads is not overwritten (folder_worker.h: "IO runs outside
\* the mutex").
WorkerUndisturbed ==
  [][Working => /\ stage' # stage => thread.at \in {"store", "fail"}
                /\ thread'.folder = thread.folder]_vars

\* The live folder was read whole from one V2 library, even if the key was
\* changed while it was read.
WholeSnapshot == live # Null => live.parts = {live.lib} /\ live.lib \in V2

\* A task is never given the folder another one asked for (V2-runtime-library.md:
\* a "generation ticket, reject stale results").
NoStaleResult == \A t \in Tasks : task[t].got # Null => task[t].got.folder = task[t].folder

\* What .current-v2 of a library is set to is the folder then shown, and it was
\* read from that same library.
RememberedIsLive ==
  [][\A lib \in Libraries :
       current'[lib] # current[lib] =>
         live' # Null /\ live'.lib = lib /\ live'.folder = current'[lib]]_vars

\* Every read ends, with the folder or with an error: no task waits for a
\* worker whose result another one has discarded.
ReadsEnd == \A t \in Tasks : task[t].at = "poll" ~> task[t].at = "idle"

-----------------------------------------------------------------------------
(* The inductive invariant *)

\* A read takes its parts from the library it opened, the snapshots made of it
\* keep them, and what a task got had passed the comparison with the root.
Whole(s) == s.parts = {s.lib}

ReadsWhole ==
  /\ thread.at \in {"marker", "anchor"} => thread.parts = {}
  /\ thread.at \in {"settings", "entries", "store"} =>
       thread.lib \in Libraries /\ thread.parts \subseteq {thread.lib}
  /\ thread.at \in {"entries", "store"} => thread.parts # {}
  /\ thread.ok => thread.at \in {"result", "done"}
  /\ thread.at # "none" => thread.folder \in Folders
  /\ thread.ok => stage \notin {Broken, Null}
  /\ stage \notin {Broken, Null} => Whole(stage)
  /\ \A t \in Tasks : task[t].got # Null => Whole(task[t].got) /\ task[t].got.lib \in V2

\* A task's request is a folder, and its ticket was issued to it alone.
TicketsIssued ==
  /\ taken.ticket <= ticket
  /\ \A t \in Tasks :
       /\ task[t].ticket <= ticket
       /\ task[t].at # "idle" => task[t].folder \in Folders
       /\ task[t].why = "go" => task[t].prev \in Folders
       /\ task[t].at \in {"poll", "take", "build", "profile", "commit"} => task[t].ticket > 0
       /\ task[t].ticket > 0 => \A u \in Tasks \ {t} : task[u].ticket # task[t].ticket

\* The worker and the stage serve the task that holds the latest ticket, and
\* what chronosRememberFolder would write is what that task got.
LatestServed ==
  \A t \in Tasks : task[t].ticket = ticket =>
    /\ task[t].at \in {"poll", "take"} =>
         /\ thread.at # "none" => thread.folder = task[t].folder
         /\ stage \notin {Broken, Null} => stage.folder = task[t].folder
    /\ task[t].at \in {"build", "profile", "commit"} /\ taken.ticket = ticket =>
         taken.lib = task[t].got.lib /\ taken.folder = task[t].got.folder

\* Between "ready" and the tables of takeFolder no other task runs.
TurnKept ==
  \A t \in Tasks :
    /\ task[t].at = "take" => turn = t /\ state = "ready" /\ task[t].ticket = ticket
    /\ task[t].at \in {"build", "profile", "commit"} => task[t].got # Null
    /\ task[t].at \in {"idle", "begin", "poll", "take"} => task[t].got = Null

\* What makes StageAccounted, WholeSnapshot, NoStaleResult and RememberedIsLive
\* true after every step of natives, worker, scripts and key.
IInv ==
  /\ TypeOK /\ StageAccounted /\ WholeSnapshot /\ NoStaleResult
  /\ ReadsWhole /\ TicketsIssued /\ LatestServed /\ TurnKept
=============================================================================
