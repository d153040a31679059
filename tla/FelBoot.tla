------------------------------- MODULE FelBoot -------------------------------
(***************************************************************************)
(* Starting the recovery system over USB (pce-fel, sunxi-fel, and the       *)
(* recovery application: recovery.rs, network.rs, main.rs; linux-network).  *)
(*                                                                           *)
(* Switched on while a USB host listens, the console's boot ROM answers for  *)
(* a moment.  A trigger makes it come back in FEL mode, where the host       *)
(* writes payloads to its memory and starts them.  Every FEL operation is a  *)
(* series of bulk transfers that host and device must take in step.          *)
(*                                                                           *)
(* The user may switch the console off, kill the application between any two *)
(* transfers and change the payload files; a transfer may fail while the     *)
(* console stays.  The FEL firmware is not in the repository: it is modelled *)
(* as sunxi-fel uses it.                                                     *)
(***************************************************************************)
EXTENDS Naturals, Sequences

CONSTANTS Dirs,      \* payload directories: sets of file names
          Chunks,    \* file -> number of 512 KiB pieces
          Socs,      \* what may be connected; "r16" is the console
          MaxPlugs,  \* bound: enumerations of the device
          MaxKills,  \* bound: kills of the application
          MaxErrors, \* bound: transfers that fail though the device is there
          MaxBoots,  \* bound: boots asked for
          Nothing

SRAM == {"fes1", "thunk"}
Addresses == SRAM \cup {"bootimg", "uboot", "atags", "kernel", "initrd", "trampoline"}

\* A payload file is not empty, and Nothing is none of the records.
ASSUME PayloadsAssumption == Chunks \in [Addresses \ {"thunk"} -> Nat \ {0}]
ASSUME NothingAssumption ==
  /\ Nothing # "sent"
  /\ Nothing \notin [is : {"request"}, req : {"write", "exec"}, at : Addresses]
  /\ Nothing \notin [by : Nat, pieces : SUBSET Nat]

VARIABLES
    mode,     \* the device: "off", "bootrom", "triggered", "fel", "started", "ram", "normal"
    plug,     \* which enumeration this is
    soc,
    acl,      \* udev gave the user access to the device
    phase,    \* the device's next transfer: "envelope", "payload" or "status"
    inward, wants, \* whether the payload goes to the host, and what it is
    request,  \* the FEL request under way
    mem,      \* address -> the attempt and the pieces that were written
    dram,     \* "none", or what executing FES1 came to: "ready", "failed"
    flushed,  \* the instruction cache is clean
    working,  \* AppState::busy
    pc,       \* what the application does
    handle,   \* FelDevice: the enumeration it was opened in
    plan,     \* FEL operations that are left
    todo,     \* transfers of the operation under way
    attempt,  \* bound and history: boots so far
    files,    \* the payload directory
    link,     \* commands of the network setup that have been run
    report,   \* what the window says
    kills, errors, \* bounds
    broken    \* history: the enumeration and the attempt whose exchange was broken off last

device == <<mode, plug, soc, acl, phase, inward, wants, request, mem, dram, flushed>>
host == <<working, pc, handle, plan, todo>>
incidents == <<kills, errors, broken>>
felVars == <<device, host, attempt, files, link, report, incidents>>

-----------------------------------------------------------------------------
(* sunxi-fel: the transfers of an operation. *)

Out(what) == [out |-> TRUE, what |-> what, tolerant |-> FALSE]
In(what) == [out |-> FALSE, what |-> what, tolerant |-> FALSE]

Envelope(in, of) == Out([is |-> "envelope", in |-> in, of |-> of])
AwStatus == In([is |-> "status"])

\* fel_request, fel_read_data, fel_write_data and read_fel_status.
FelRequest(req, at) ==
    LET r == [is |-> "request", req |-> req, at |-> at]
    IN  <<Envelope(FALSE, "request"), Out(r), AwStatus>>

\* A bug: the status after the data is left in the device.
FelReadDataUnacknowledged(what) == <<Envelope(TRUE, what), In([is |-> what])>>

FelReadData(what) == <<Envelope(TRUE, what), In([is |-> what]), AwStatus>>
FelWriteData(piece) ==
    <<Envelope(FALSE, "data"), Out([is |-> "data", piece |-> piece]), AwStatus>>

ReadFelStatus == FelReadData("felstatus")

Pieces(at) == IF at = "thunk" THEN 1 ELSE Chunks[at]

WritePiece(at, i) == FelRequest("write", at) \o FelWriteData(i) \o ReadFelStatus
Write(at) == [n \in 1 .. 9 * Pieces(at) |-> WritePiece(at, ((n - 1) \div 9) + 1)[((n - 1) % 9) + 1]]

Exe(at) == FelRequest("exec", at) \o ReadFelStatus

\* A bug: a status that is not expected back is not asked for.
ExeWithoutStatus(at) == FelRequest("exec", at)

\* The device may be gone before it answers.
ExeNoReturn(at) ==
    FelRequest("exec",
      at) \o [i \in DOMAIN ReadFelStatus |-> [ReadFelStatus[i] EXCEPT !.tolerant = TRUE]]

Version == FelRequest("version", Nothing) \o FelReadData("version") \o ReadFelStatus

-----------------------------------------------------------------------------
(* pce-fel: the two boot sequences. *)

BootStep(do, at) == [do |-> do, at |-> at]

Chronos ==
    <<BootStep("write", "fes1"), BootStep("exe", "fes1"), BootStep("write", "bootimg"),
      BootStep("write", "uboot"), BootStep("jump", "uboot")>>

\* A bug: DRAM is written before it is initialised.
TrampolineEarly ==
    <<BootStep("write", "fes1"), BootStep("write", "atags"), BootStep("exe", "fes1"),
      BootStep("write", "kernel"),
      BootStep("write", "initrd"), BootStep("write", "trampoline"), BootStep("write", "thunk"),
      BootStep("exe", "thunk"), BootStep("jump", "trampoline")>>

Trampoline ==
    <<BootStep("write", "fes1"), BootStep("exe", "fes1"), BootStep("write", "atags"),
      BootStep("write", "kernel"),
      BootStep("write", "initrd"), BootStep("write", "trampoline"), BootStep("write", "thunk"),
      BootStep("exe", "thunk"), BootStep("jump", "trampoline")>>

\* RecoveryPayloads::from_dir and check.
IsChronos == {"bootimg", "uboot"} \subseteq files
Needed == IF IsChronos THEN {"fes1", "bootimg", "uboot"}
          ELSE {"fes1", "atags", "kernel", "initrd", "trampoline"}
BootPlan == IF IsChronos THEN Chronos ELSE Trampoline

-----------------------------------------------------------------------------
(* The application. *)

Conclude(say) ==
    /\ working' = FALSE /\ pc' = "idle" /\ handle' = Nothing /\ plan' = <<>> /\ todo' = <<>>
    /\ report' = say

GoTo(to) == pc' = to /\ UNCHANGED <<working, handle, plan, todo, report>>
Calm == UNCHANGED <<device, attempt, files, link, incidents>>

\* linux_network::discover: the RNDIS interface of either system.
Network == mode \in {"ram", "normal"}

\* start_recovery, and the start of run_inner.
StartRecovery ==
    /\ ~working /\ attempt < MaxBoots
    /\ attempt' = attempt + 1
    /\ IF Network \/ ~Needed \subseteq files
       THEN Conclude(IF Network THEN "network" ELSE "failed")
       ELSE /\ working' = TRUE /\ pc' = "wait"
         /\ plan' = <<BootStep("version", Nothing), BootStep("soc", Nothing)>> \o BootPlan
            /\ report' = Nothing
            /\ UNCHANGED <<handle, todo>>
    /\ UNCHANGED <<device, files, link, incidents>>

Visible == mode \in {"bootrom", "fel"}

\* wait_for_startup and wait_for_device: the descriptors are only looked at.
Detected ==
    /\ pc = "wait"
    /\ \/ Network /\ Conclude("network")
       \/ mode = "bootrom" /\ acl /\ GoTo("trigger")
       \/ mode = "fel" /\ acl /\ GoTo("open")
    /\ Calm

\* A bug: the wait has no end.
WaitFailsNever == FALSE

\* The deadline, or no access within the time udev is given.
WaitFails == pc = "wait" /\ (~Visible \/ ~acl) /\ Conclude("failed") /\ Calm

\* trigger.
Trigger ==
    /\ pc = "trigger" /\ mode = "bootrom" /\ acl
    /\ mode' = "triggered"
    /\ GoTo("await")
    /\ UNCHANGED <<plug, soc, acl, phase, inward, wants, request, mem, dram, flushed, attempt,
                   files, link, incidents>>

TriggerFails == pc = "trigger" /\ ~(mode = "bootrom" /\ acl) /\ Conclude("failed") /\ Calm

\* wait_for_state(Fel), or its fifteen seconds.
FelSeen == pc = "await" /\ mode = "fel" /\ acl /\ GoTo("open") /\ Calm
FelTimeout == pc = "await" /\ ~(mode = "fel" /\ acl) /\ Conclude("failed") /\ Calm

\* FelDevice::open, and the state of what was opened.
Opens == mode = "fel"

Open ==
    /\ pc = "open"
    /\ IF Opens /\ acl
       THEN pc' = "run" /\ handle' = plug /\ UNCHANGED <<working, plan, todo, report>>
       ELSE Conclude("failed")
    /\ Calm

-----------------------------------------------------------------------------
(* Operations and transfers. *)

Transfers(s) ==
    CASE s.do = "version" -> Version
      [] s.do = "soc"     -> <<>>
      [] s.do = "write"   -> Write(s.at)
      [] s.do = "exe"     -> Exe(s.at)
      [] s.do = "jump"    -> ExeNoReturn(s.at)

\* soc_code is that of the console.
KnownSoc == soc = "r16"

\* boot_recovery checks once more that the files of the sequence are there.
Written == {plan[n].at : n \in {m \in DOMAIN plan : plan[m].do = "write"}} \ {"thunk"}

MayNotStart(s) == \/ s.do = "soc" /\ (~KnownSoc \/ ~(Written \subseteq files))
                  \/ s.do = "write" /\ s.at \notin files \cup {"thunk"}

\* The next operation; a payload is read when its turn comes.
StartStep ==
    /\ pc = "run" /\ todo = <<>> /\ plan # <<>>
    /\ IF MayNotStart(Head(plan)) THEN Conclude("failed")
       ELSE /\ todo' = Transfers(Head(plan)) /\ plan' = Tail(plan)
            /\ UNCHANGED <<working, pc, handle, report>>
    /\ Calm

BootSent == pc = "run" /\ todo = <<>> /\ plan = <<>> /\ Conclude("sent") /\ Calm

Reachable == Visible /\ plug = handle
Next1 == Head(todo)

\* The transfer that the firmware will take part in.
Fits(x) ==
    CASE phase = "envelope" -> x.out /\ x.what.is = "envelope"
      [] phase = "payload"  -> x.out # inward /\ x.what.is = wants
      [] phase = "status"   -> ~x.out /\ x.what.is = "status"

\* DRAM that is not initialised keeps nothing.
Keeps(at) == at \in SRAM \/ dram = "ready"

\* A request, and the data of a write.
DevicePayload(w) ==
    /\ request' = IF w.is = "request" THEN w ELSE request
    /\ mem' = IF w.is = "data" /\ Keeps(request.at)
              THEN [mem EXCEPT ![request.at] =
                       [by |-> attempt,
                        pieces |-> {w.piece} \cup IF w.piece > 1 /\ @ # Nothing /\ @.by = attempt
                                                  THEN @.pieces ELSE {}]]
              ELSE mem

\* The firmware jumps when it is asked for the status after an exec request.
\* FES1 and the cache thunk return; the others do not.
Jumps(x) == x.what.is = "envelope" /\ x.what.of = "felstatus" /\ request # Nothing
            /\ request.req = "exec"

\* Whether FES1 could initialise the DRAM is in no status that the host reads.
DeviceEnvelope(x) ==
    /\ inward' = x.what.in /\ wants' = x.what.of
    /\ IF Jumps(x) /\ request.at = "fes1" THEN dram' \in {"ready", "failed"} ELSE dram' = dram
    /\ flushed' = (flushed \/ (Jumps(x) /\ request.at = "thunk"))
    /\ mode' = IF Jumps(x) /\ request.at \notin SRAM THEN "started" ELSE mode

\* What the device does in its turn.
Takes(x) ==
    /\ CASE phase = "envelope" ->
              /\ DeviceEnvelope(x)
              /\ request' = IF Jumps(x) THEN Nothing ELSE request
              /\ phase' = "payload"
              /\ UNCHANGED mem
         [] phase = "payload" ->
              /\ DevicePayload(x.what)
              /\ phase' = "status"
              /\ UNCHANGED <<inward, wants, dram, flushed, mode>>
         [] phase = "status" ->
              /\ phase' = "envelope"
              /\ UNCHANGED <<request, mem, inward, wants, dram, flushed, mode>>
    /\ UNCHANGED <<plug, soc, acl>>

Transfer ==
    /\ pc = "run" /\ todo # <<>> /\ Reachable /\ Fits(Next1)
    /\ Takes(Next1) /\ todo' = Tail(todo)
    /\ UNCHANGED <<working, pc, handle, plan, attempt, files, link, report, incidents>>

\* An error ends the boot, but not one of the status after the last exec.
Fails == IF Next1.tolerant THEN todo' = <<>> /\ UNCHANGED <<working, pc, handle, plan, report>>
         ELSE Conclude("failed")

\* The device is gone.
TransferFails == pc = "run" /\ todo # <<>> /\ ~Reachable /\ Fails /\ Calm

\* The device is there, and the transfer ends with an error, as a short transfer
\* or with a bad status, before the device has taken it or after.
TransferErrs ==
    /\ pc = "run" /\ todo # <<>> /\ Reachable
    /\ errors < MaxErrors /\ errors' = errors + 1
    /\ (Fits(Next1) /\ Takes(Next1)) \/ UNCHANGED device
    /\ broken' = [in |-> handle, by |-> attempt]
    /\ Fails
    /\ UNCHANGED <<attempt, files, link, kills>>

\* The process is killed; the device keeps its place in the exchange.
Killed ==
    /\ working /\ kills < MaxKills /\ kills' = kills + 1
    /\ broken' = IF pc = "run" /\ Reachable THEN [in |-> handle, by |-> attempt] ELSE broken
    /\ Conclude(Nothing)
    /\ UNCHANGED <<device, attempt, files, link, errors>>

-----------------------------------------------------------------------------
(* network.rs, linux-network: the address of the console. *)

LinkCommands == <<"up", "address", "route">>

NetworkConnect ==
    /\ ~working
    /\ IF Network THEN /\ working' = TRUE /\ pc' = "link" /\ todo' = LinkCommands
         /\ report' = Nothing
                       /\ UNCHANGED <<handle, plan>>
       ELSE Conclude("failed")
    /\ Calm

LinkCommand ==
    /\ pc = "link" /\ todo # <<>> /\ Network
    /\ link' = link \cup {Head(todo)} /\ todo' = Tail(todo)
    /\ UNCHANGED <<device, working, pc, handle, plan, attempt, files, report, incidents>>

\* The password is not given, or the interface is gone.
LinkFails == pc = "link" /\ todo # <<>> /\ Conclude("failed") /\ Calm

Inspect ==
    /\ pc = "link" /\ todo = <<>>
    /\ Conclude(IF Network THEN mode ELSE "unknown")
    /\ Calm

-----------------------------------------------------------------------------
(* The console, the user and udev. *)

Elsewhere == UNCHANGED <<host, attempt, files, report, incidents>>
Cleared ==
    /\ acl' = FALSE /\ phase' = "envelope" /\ inward' = FALSE /\ wants' = Nothing
         /\ request' = Nothing
    /\ mem' = [a \in Addresses |-> Nothing] /\ dram' = "none" /\ flushed' = FALSE

SwitchOn ==
    /\ mode = "off" /\ plug < MaxPlugs
    /\ mode' = "bootrom" /\ plug' = plug + 1 /\ soc' \in Socs
    /\ Cleared /\ UNCHANGED link /\ Elsewhere

SwitchOff ==
    /\ mode # "off" /\ mode' = "off"
    /\ link' = {}
    /\ Cleared /\ UNCHANGED <<plug, soc>> /\ Elsewhere

Udev ==
    /\ Visible /\ ~acl /\ acl' = TRUE
    /\ UNCHANGED <<mode, plug, soc, phase, inward, wants, request, mem, dram, flushed, link>>
    /\ Elsewhere

\* Nobody triggers: the boot ROM starts the installed system.
StartsNormally ==
    /\ mode = "bootrom" /\ mode' = "normal"
    /\ Cleared /\ UNCHANGED <<plug, soc, link>> /\ Elsewhere

EntersFel ==
    /\ mode = "triggered" /\ mode' = "fel" /\ plug' = plug + 1
    /\ Cleared /\ UNCHANGED <<soc, link>> /\ Elsewhere

\* What was jumped to comes up, with an empty memory of its own.
StartsRecovery ==
    /\ mode = "started" /\ mode' = "ram"
    /\ Cleared /\ UNCHANGED <<plug, soc, link>> /\ Elsewhere

ChangeFiles ==
    /\ files' \in Dirs \ {files}
    /\ UNCHANGED <<device, host, attempt, link, report, incidents>>

-----------------------------------------------------------------------------
FelInit ==
    /\ mode = "off" /\ plug = 0 /\ soc \in Socs /\ acl = FALSE
    /\ phase = "envelope" /\ inward = FALSE /\ wants = Nothing /\ request = Nothing
    /\ mem = [a \in Addresses |-> Nothing] /\ dram = "none" /\ flushed = FALSE
    /\ working = FALSE /\ pc = "idle" /\ handle = Nothing /\ plan = <<>> /\ todo = <<>>
    /\ attempt = 0 /\ files \in Dirs /\ link = {} /\ report = Nothing
    /\ kills = 0 /\ errors = 0 /\ broken = [in |-> 0, by |-> 0]

AppStep ==
    \/ Detected \/ WaitFails \/ Trigger \/ TriggerFails \/ FelSeen \/ FelTimeout \/ Open
    \/ StartStep \/ BootSent \/ Transfer \/ TransferFails \/ LinkCommand \/ LinkFails \/ Inspect

DeviceStep == SwitchOn \/ SwitchOff \/ Udev \/ StartsNormally \/ EntersFel \/ StartsRecovery

FelNext ==
    \/ StartRecovery \/ NetworkConnect \/ AppStep \/ DeviceStep \/ ChangeFiles
    \/ Killed \/ TransferErrs

\* The application runs, and the USB stack completes what the device takes part in
\* and what it was unplugged from.
FelSpec == FelInit /\ [][FelNext]_felVars /\ WF_felVars(AppStep)

-----------------------------------------------------------------------------
(* Properties. *)

WholeAt(a) == mem[a] # Nothing /\ mem[a].by = attempt /\ mem[a].pieces = 1 .. Pieces(a)

NeedsToRun(a) ==
    CASE a = "uboot"      -> {"bootimg", "uboot"}
      [] a = "trampoline" -> {"atags", "kernel", "initrd", "trampoline"}
      [] OTHER            -> {a}

\* Only a console executes anything, and only what this boot has written as a
\* whole.  The last jump comes after FES1 and has everything it needs in the DRAM,
\* unless FES1 could not initialise it, which the host does not learn; and it goes
\* through the trampoline with a clean instruction cache.
RunsOnlyWhole ==
    [][pc = "run" /\ Reachable /\ phase = "envelope" /\ phase' = "payload" /\ Jumps(Next1) =>
         /\ soc = "r16"
         /\ \A a \in NeedsToRun(request.at) : Keeps(a) => WholeAt(a)
         /\ request.at \notin SRAM => dram # "none"
         /\ request.at = "trampoline" => flushed]_felVars

\* A boot that is reported as sent: the console has jumped or is gone, it does
\* not wait in FEL mode for more.
Jumped == ~(mode = "fel" /\ plug = handle)

\* What exe_no_return says of itself: what it tolerates are errors of the reads at
\* the end, when the device may have jumped already.  It also tolerates an error of
\* the envelope before them, the prompt without which the device does not jump.
SentMeansJumped == [][report' = "sent" /\ report # "sent" => Jumped]_felVars

\* A boot of which no transfer failed and that is reported as sent did jump: no
\* transfer is left out, in either sequence.
SentJumpsWithoutError ==
    [][report' = "sent" /\ report # "sent" =>
         Jumped \/ broken = [in |-> handle, by |-> attempt]]_felVars

\* The host waits for a transfer that the device does not take part in.
Blocked == pc = "run" /\ todo # <<>> /\ Reachable /\ ~Fits(Next1)

\* Host and device stay in step, whatever is unplugged, fails or is killed, unless
\* an exchange with this very enumeration of the device was broken off by a kill
\* or an error.  Switching the console off and on makes it good.
InStep == Blocked => broken.in = plug

\* Every boot and every connection ends, unless the device still waits for the
\* rest of an exchange that was broken off: a bulk transfer has no time limit.
BootEnds == working ~> (~working \/ Blocked)
=============================================================================
