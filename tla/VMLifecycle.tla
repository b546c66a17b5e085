---------------------------- MODULE VMLifecycle ----------------------------
(***************************************************************************)
(* The life of the virtual machines of one config directory: concurrent    *)
(* `kairos-lab start` and `kairos-lab reset` invocations sharing           *)
(* state.json with `cleanup`, and the QEMU processes the starts launch     *)
(* (internal/app/app.go, internal/state/state.go, internal/vm/vm.go).      *)
(*                                                                         *)
(* Every invocation is an operating-system process of its own, so it is an *)
(* element of a set and is run at most once.  A starter s is identified    *)
(* with its own PID and with the PID of the one QEMU child it may launch:  *)
(* a record's StarterPID and PID both hold s.                              *)
(*                                                                         *)
(* Store.Update (lock, load, fn, save, unlock) is one step here, and an    *)
(* Update that fails -- lock timeout, unreadable file, failed save --      *)
(* changes nothing.  Load and the plain Save of reset and of the exit-time *)
(* fallback are steps of their own, which is where writes can be lost.     *)
(* Networking is abstracted to "the preparation succeeds or fails".        *)
(***************************************************************************)
EXTENDS Naturals, FiniteSets

CONSTANTS
  DiskNames,   \* disk names; a VM record has the name of its disk
  Starters,    \* `start` invocations: starter PID and QEMU PID
  Resetters,   \* `reset` and `cleanup` invocations
  MaxVMIndex,  \* highest VM index (99 in the code)
  NoProc,      \* the PID value 0
  NoVM         \* "no record of this name"

Indices == 0..MaxVMIndex

(* The fields of state.VM the lifecycle reads.  paths says that LogPath    *)
(* and QGASockPath are set (a bare reservation has neither); both are      *)
(* functions of index.  ip and stopped say that IPAddress and StoppedAt are  *)
(* not empty.                                                              *)
VM == [index : Indices, starter : Starters, pid : Starters \cup {NoProc},
       paths : BOOLEAN, ip : BOOLEAN, stopped : BOOLEAN]

(* What a Load returns and a Save publishes.                               *)
State == [disks : SUBSET DiskNames, vms : [DiskNames -> VM \cup {NoVM}]]

Procs == Starters \cup Resetters

ASSUME IndexAssumption == MaxVMIndex \in Nat
ASSUME ProcAssumption  == NoProc \notin Starters /\ Starters \cap Resetters = {}
ASSUME NoVMAssumption  == NoVM \notin VM

VARIABLES
  file,        \* contents of state.json
  pc,          \* where each invocation is
  snap,        \* each invocation's in-memory state, from its Load
  name,        \* starter: the disk (and VM) name it resolved
  target,      \* reset: the names whose disk and VM it removes
  index,       \* starter: the index it reserved
  qemu,        \* starter: its QEMU child
  poll,        \* starter: its address poller goroutine
  pidRecorded, \* history: starters whose PID write succeeded
  overwritten  \* history: a plain write was made over another VM's entry

vars == <<file, pc, snap, name, target, index, qemu, poll, pidRecorded, overwritten>>
locals == <<snap, name, target, index>>

NewState == [disks |-> {}, vms |-> [n \in DiskNames |-> NoVM]]

StarterPCs == {"idle", "loaded", "prompt", "reserved", "releasing", "recorded",
               "spawnFailed", "spawned", "running", "joining", "exited", "dead"}
ResetPCs   == {"idle", "confirm", "plan", "cleaning", "exited", "dead"}

(* The code points between which a starter's record stands for it.         *)
Holding == {"reserved", "releasing", "recorded", "spawnFailed", "spawned",
            "running", "joining"}

-----------------------------------------------------------------------------
(* Liveness of a record, and the operations on the record table.           *)

QemuRunning(q) == q \in Starters /\ qemu[q] = "running"

StarterRunning(p) == pc[p] \notin {"idle", "exited", "dead"}

VMIsLiveByStarterOnly(v) == v # NoVM /\ StarterRunning(v.starter)
VMIsLiveByPIDOnly(v) == v # NoVM /\ QemuRunning(v.pid)

VMIsLive(v) ==
  v # NoVM /\ (QemuRunning(v.pid) \/ StarterRunning(v.starter))

HeldIndices(st) ==
  {st.vms[n].index : n \in {m \in DiskNames : VMIsLive(st.vms[m])}}

LowestIndexFromOne(st) ==
  LET free == (1..(MaxVMIndex + 1)) \ HeldIndices(st)
  IN  {i \in free : \A j \in free : i <= j}

(* The lowest index no live VM holds: a singleton, empty when all are      *)
(* held.                                                                   *)
NextFreeVMIndex(st) ==
  LET free == Indices \ HeldIndices(st)
  IN  {i \in free : \A j \in free : i <= j}

UpsertVM(st, n, v) == [st EXCEPT !.vms[n] = v]

RemoveVM(st, n) == [st EXCEPT !.vms[n] = NoVM]

NoRefusal(st, n) == TRUE

(* start refuses a name whose record is live.                              *)
MayReserve(st, n) == ~VMIsLive(st.vms[n])

Reservation(s, i) ==
  [index |-> i, starter |-> s, pid |-> NoProc,
   paths |-> FALSE, ip |-> FALSE, stopped |-> FALSE]

(* vmRecord as "[2/3] Recording VM state" builds it.                       *)
VMRecord(s) ==
  [index |-> index[s], starter |-> s, pid |-> NoProc,
   paths |-> TRUE, ip |-> FALSE, stopped |-> FALSE]

WithPID(s) == [VMRecord(s) EXCEPT !.pid = s]

ChannelIgnored(s, merged) == [VMRecord(s) EXCEPT !.stopped = TRUE, !.ip = merged]

(* vmRecord at the exit: PID 0, StoppedAt, and the address from the poller's channel  *)
(* or, when that is empty, from the record already in the file (merged).   *)
FinalVMRecord(s, merged) ==
  [VMRecord(s) EXCEPT !.stopped = TRUE, !.ip = (poll[s] = "sent") \/ merged]

-----------------------------------------------------------------------------
Init ==
  /\ file = NewState
  /\ pc = [p \in Procs |-> "idle"]
  /\ snap = [p \in Procs |-> NewState]
  /\ name \in [Starters -> DiskNames]
  /\ target = [r \in Resetters |-> {}]
  /\ index = [s \in Starters |-> 0]
  /\ qemu = [s \in Starters |-> "none"]
  /\ poll = [s \in Starters |-> "off"]
  /\ pidRecorded = {}
  /\ overwritten = FALSE

Goto(p, from, to) == pc[p] = from /\ pc' = [pc EXCEPT ![p] = to]

-----------------------------------------------------------------------------
(* start                                                                   *)

(* Load, requireSetup, and the choice of a disk: name[s] names a disk of   *)
(* the state just loaded, or a new one.                                    *)
Load(s) ==
  /\ Goto(s, "idle", "loaded")
  /\ snap' = [snap EXCEPT ![s] = file]
  /\ UNCHANGED <<file, name, target, index, qemu, poll, pidRecorded, overwritten>>

(* "Materialize disk": the image is created (new disk) or recreated (size  *)
(* changed) and the disk is added to the in-memory state only.             *)
Materialize(s) ==
  /\ Goto(s, "loaded", "prompt")
  /\ snap' = [snap EXCEPT ![s].disks = @ \cup {name[s]}]
  /\ UNCHANGED <<file, name, target, index, qemu, poll, pidRecorded, overwritten>>

(* The early returns that write nothing: a declined review or confirmation,*)
(* a missing privilege or firmware, a live VM of the same name, no free    *)
(* index, a lock timeout; in reset and cleanup also a live VM, or a file or *)
(* package that cannot be removed.                                         *)
GiveUp(p) ==
  /\ pc[p] \in {"loaded", "prompt", "confirm", "plan", "cleaning"}
  /\ pc' = [pc EXCEPT ![p] = "exited"]
  /\ UNCHANGED <<file, locals, qemu, poll, pidRecorded, overwritten>>

(* The Update that refuses a live name, allocates the index and writes the *)
(* reservation over whatever dead record the name had.                     *)
Reserve(s) ==
  /\ Goto(s, "prompt", "reserved")
  /\ MayReserve(file, name[s])
  /\ \E i \in NextFreeVMIndex(file) :
       /\ index' = [index EXCEPT ![s] = i]
       /\ file' = UpsertVM(file, name[s], Reservation(s, i))
  /\ UNCHANGED <<snap, name, target, qemu, poll, pidRecorded, overwritten>>

(* A declined sudo prompt, a failed network preparation, a QEMU command    *)
(* that cannot be built, or a Recording Update that fails.                 *)
PrepareFails(s) ==
  /\ Goto(s, "reserved", "releasing")
  /\ UNCHANGED <<file, locals, qemu, poll, pidRecorded, overwritten>>

(* The deferred release: only a record that is still this starter's        *)
(* reservation goes.                                                       *)
Release(s) ==
  LET v == file.vms[name[s]] IN
  /\ Goto(s, "releasing", "exited")
  /\ file' = IF v # NoVM /\ v.pid = NoProc /\ v.starter = s
             THEN RemoveVM(file, name[s]) ELSE file
  /\ UNCHANGED <<locals, qemu, poll, pidRecorded, overwritten>>

(* The release's own Update fails; its error is dropped.                   *)
ReleaseFails(s) ==
  /\ Goto(s, "releasing", "exited")
  /\ UNCHANGED <<file, locals, qemu, poll, pidRecorded, overwritten>>

WithoutDisk(st, n) == st

(* The disk record of the in-memory state, copied into the fresh one.      *)
WithDisk(st, n) == [st EXCEPT !.disks = @ \cup {n}]

(* "[2/3] Recording VM state": disk and VM record, on freshly loaded       *)
(* state, without looking at the record the name has there.                *)
Record(s) ==
  /\ Goto(s, "reserved", "recorded")
  /\ file' = UpsertVM(WithDisk(file, name[s]), name[s], VMRecord(s))
  /\ UNCHANGED <<locals, qemu, poll, pidRecorded, overwritten>>

(* The log file cannot be opened: the record stays as it was written.      *)
OpenLogFails(s) ==
  /\ Goto(s, "recorded", "exited")
  /\ UNCHANGED <<file, locals, qemu, poll, pidRecorded, overwritten>>

SpawnFails(s) ==
  /\ Goto(s, "recorded", "spawnFailed")
  /\ UNCHANGED <<file, locals, qemu, poll, pidRecorded, overwritten>>

(* The Update that stores LastError in the record, or its failure, which   *)
(* is dropped.                                                             *)
RecordSpawnError(s) ==
  /\ Goto(s, "spawnFailed", "exited")
  /\ \/ file' = UpsertVM(file, name[s], VMRecord(s))
     \/ file' = file
  /\ UNCHANGED <<locals, qemu, poll, pidRecorded, overwritten>>

Spawn(s) ==
  /\ Goto(s, "recorded", "spawned")
  /\ qemu' = [qemu EXCEPT ![s] = "running"]
  /\ UNCHANGED <<file, locals, poll, pidRecorded, overwritten>>

(* The poller is started beside the VM, except in user mode.               *)
StartPoller(s) == \E m \in {"off", "polling"} : poll' = [poll EXCEPT ![s] = m]

RecordPID(s) ==
  /\ Goto(s, "spawned", "running")
  /\ file' = UpsertVM(file, name[s], WithPID(s))
  /\ pidRecorded' = pidRecorded \cup {s}
  /\ StartPoller(s)
  /\ UNCHANGED <<locals, qemu, overwritten>>

(* The PID Update fails: a warning, and the run goes on.                   *)
RecordPIDFails(s) ==
  /\ Goto(s, "spawned", "running")
  /\ StartPoller(s)
  /\ UNCHANGED <<file, locals, qemu, pidRecorded, overwritten>>

(* command.Wait returns; the poller is cancelled and joined.               *)
WaitReturns(s) ==
  /\ qemu[s] = "exited"
  /\ Goto(s, "running", "joining")
  /\ UNCHANGED <<file, locals, qemu, poll, pidRecorded, overwritten>>

Joined(s) == poll[s] \in {"off", "sent", "stopped"}

(* finalizeVMRecord's Update.                                              *)
Finalize(s) ==
  LET v == file.vms[name[s]] IN
  /\ Goto(s, "joining", "exited")
  /\ Joined(s)
  /\ file' = UpsertVM(file, name[s], FinalVMRecord(s, v # NoVM /\ v.ip))
  /\ UNCHANGED <<locals, qemu, poll, pidRecorded, overwritten>>

(* finalizeVMRecord's fallback: the Update failed, before it read the file *)
(* (lock timeout, unreadable file) or after it merged the address, and the *)
(* state loaded at the start of the run is published whole.                *)
FinalizeFallback(s) ==
  LET v == file.vms[name[s]] IN
  /\ Goto(s, "joining", "exited")
  /\ Joined(s)
  /\ \E merged \in {FALSE, v # NoVM /\ v.ip} :
       file' = UpsertVM(snap[s], name[s], FinalVMRecord(s, merged))
  /\ overwritten' = (overwritten \/ \E n \in DiskNames \ {name[s]} :
                       \/ file'.vms[n] # file.vms[n]
                       \/ (n \in file'.disks) # (n \in file.disks))
  /\ UNCHANGED <<locals, qemu, poll, pidRecorded>>

(* Both writes of the exit fail.                                           *)
FinalizeFails(s) ==
  /\ Goto(s, "joining", "exited")
  /\ Joined(s)
  /\ UNCHANGED <<file, locals, qemu, poll, pidRecorded, overwritten>>

-----------------------------------------------------------------------------
(* The poller goroutine, joined before the starter goes on.                *)

PollerRuns(s) == pc[s] \in {"running", "joining"}

(* A source answers, possibly in the attempt that cancellation interrupts. *)
PollResolves(s) ==
  /\ PollerRuns(s) /\ poll[s] = "polling"
  /\ poll' = [poll EXCEPT ![s] = "resolved"]
  /\ UNCHANGED <<file, pc, locals, qemu, pidRecorded, overwritten>>

PollOnlyTimesOut(s) == poll[s] = "polling" /\ pc[s] = "running"
PollGoesOn(s) == poll[s] = "polling"

(* Cancelled, or out of time.                                              *)
PollStops(s) ==
  /\ PollerRuns(s) /\ PollGoesOn(s)
  /\ poll' = [poll EXCEPT ![s] = "stopped"]
  /\ UNCHANGED <<file, pc, locals, qemu, pidRecorded, overwritten>>

(* recordVMIP: an Update that sets the address on the record of that name, *)
(* and fails when there is none.  The result goes to the channel whether   *)
(* or not it was recorded.                                                 *)
RecordVMIP(s) ==
  LET v == file.vms[name[s]] IN
  /\ PollerRuns(s) /\ poll[s] = "resolved"
  /\ poll' = [poll EXCEPT ![s] = "sent"]
  /\ \/ v # NoVM /\ file' = UpsertVM(file, name[s], [v EXCEPT !.ip = TRUE])
     \/ file' = file
  /\ UNCHANGED <<pc, locals, qemu, pidRecorded, overwritten>>

-----------------------------------------------------------------------------
(* The environment: QEMU ends; an invocation is killed at any point, which *)
(* runs no deferred release and leaves QEMU running.                       *)

QemuExits(s) ==
  /\ qemu[s] = "running"
  /\ qemu' = [qemu EXCEPT ![s] = "exited"]
  /\ UNCHANGED <<file, pc, locals, poll, pidRecorded, overwritten>>

Crash(p) ==
  /\ pc[p] \notin {"idle", "exited", "dead"}
  /\ pc' = [pc EXCEPT ![p] = "dead"]
  /\ UNCHANGED <<file, locals, qemu, poll, pidRecorded, overwritten>>

-----------------------------------------------------------------------------
(* reset                                                                   *)

(* Load and the live check: with -disk only that VM counts and the disk    *)
(* must exist, without it every VM does.  A refusal changes nothing.       *)
ResetLoad(r) ==
  /\ Goto(r, "idle", "confirm")
  /\ snap' = [snap EXCEPT ![r] = file]
  /\ \E T \in {{n} : n \in file.disks} \cup {DiskNames} :
       /\ \A n \in T : ~VMIsLive(file.vms[n])
       /\ target' = [target EXCEPT ![r] = T]
  /\ UNCHANGED <<file, name, index, qemu, poll, pidRecorded, overwritten>>

(* What reset publishes: its snapshot without the targets.                 *)
ResetState(r) ==
  [disks |-> snap[r].disks \ target[r],
   vms   |-> [n \in DiskNames |-> IF n \in target[r] THEN NoVM ELSE snap[r].vms[n]]]

(* After the confirmation: files removed, then a plain Save.               *)
ResetSave(r) ==
  /\ Goto(r, "confirm", "exited")
  /\ file' = ResetState(r)
  /\ overwritten' = (overwritten \/ \E n \in DiskNames :
       IF n \in target[r]
       THEN VMIsLive(file.vms[n])
       ELSE file'.vms[n] # file.vms[n] \/ (n \in file'.disks) # (n \in file.disks))
  /\ UNCHANGED <<locals, qemu, poll, pidRecorded>>

-----------------------------------------------------------------------------
(* cleanup                                                                 *)

CleanupLoad(r) ==
  /\ Goto(r, "idle", "plan")
  /\ snap' = [snap EXCEPT ![r] = file]
  /\ UNCHANGED <<file, name, target, index, qemu, poll, pidRecorded, overwritten>>

(* After the confirmation every VM of the state loaded before it is probed.*)
CleanupCheck(r) ==
  /\ Goto(r, "plan", "cleaning")
  /\ \A n \in DiskNames : ~VMIsLive(snap[r].vms[n])
  /\ UNCHANGED <<file, locals, qemu, poll, pidRecorded, overwritten>>

(* The managed files and directories go, and state.json last: an absent    *)
(* file loads as the empty state.                                          *)
CleanupRemove(r) ==
  /\ Goto(r, "cleaning", "exited")
  /\ file' = NewState
  /\ overwritten' = (overwritten \/ \E n \in DiskNames : VMIsLive(file.vms[n]))
  /\ UNCHANGED <<locals, qemu, poll, pidRecorded>>

-----------------------------------------------------------------------------
StarterStep(s) ==
  \/ Load(s) \/ Materialize(s) \/ GiveUp(s) \/ Reserve(s)
  \/ PrepareFails(s) \/ Release(s) \/ ReleaseFails(s) \/ Record(s)
  \/ OpenLogFails(s) \/ SpawnFails(s) \/ RecordSpawnError(s) \/ Spawn(s)
  \/ RecordPID(s) \/ RecordPIDFails(s) \/ WaitReturns(s)
  \/ Finalize(s) \/ FinalizeFallback(s) \/ FinalizeFails(s)

PollerStep(s) == PollResolves(s) \/ PollStops(s) \/ RecordVMIP(s)

ResetStep(r) ==
  \/ ResetLoad(r) \/ ResetSave(r) \/ GiveUp(r)
  \/ CleanupLoad(r) \/ CleanupCheck(r) \/ CleanupRemove(r)

Next ==
  \/ \E s \in Starters : StarterStep(s) \/ PollerStep(s) \/ QemuExits(s)
  \/ \E r \in Resetters : ResetStep(r)
  \/ \E p \in Procs : Crash(p)

Spec == Init /\ [][Next]_vars

(* A started invocation runs: the scheduler gives it time, its prompts are *)
(* answered and its poller's deadline, cancellation or write comes.        *)
(* Nothing says that an address is found, that QEMU exits, that an         *)
(* invocation is made, or that one is killed.                              *)
Fairness ==
  \A s \in Starters :
    /\ WF_vars(pc[s] # "idle" /\ StarterStep(s))
    /\ WF_vars(PollStops(s) \/ RecordVMIP(s))

FairSpec == Spec /\ Fairness

-----------------------------------------------------------------------------
(* Properties                                                              *)

(* Every variable has its type.                                            *)
TypeOK ==
  /\ file \in State
  /\ pc \in [Procs -> StarterPCs \cup ResetPCs]
  /\ snap \in [Procs -> State]
  /\ name \in [Starters -> DiskNames]
  /\ target \in [Resetters -> SUBSET DiskNames]
  /\ index \in [Starters -> Indices]
  /\ qemu \in [Starters -> {"none", "running", "exited"}]
  /\ poll \in [Starters -> {"off", "polling", "resolved", "sent", "stopped"}]
  /\ pidRecorded \subseteq Starters
  /\ overwritten \in BOOLEAN

(* While no plain Save has overwritten another VM's entry, two live        *)
(* records never hold the same index, and so never the same tap, ports,    *)
(* socket or log.                                                          *)
LiveIndicesDistinct ==
  ~overwritten =>
    \A m, n \in DiskNames :
      (m # n /\ VMIsLive(file.vms[m]) /\ VMIsLive(file.vms[n]))
        => file.vms[m].index # file.vms[n].index

(* While no plain Save has overwritten another VM's entry, the record of   *)
(* the name a starter reserved names that starter and its index until the  *)
(* starter ends: no sibling, no other start of the name and no reset takes *)
(* it away.                                                                *)
ReservationHeld ==
  ~overwritten =>
    \A s \in Starters : pc[s] \in Holding =>
      LET v == file.vms[name[s]] IN v # NoVM /\ v.starter = s /\ v.index = index[s]

(* A QEMU that state.json can know about: its starter is still there or    *)
(* its PID write succeeded.                                                *)
Known(s) == qemu[s] = "running" /\ (StarterRunning(s) \/ s \in pidRecorded)

(* While no plain Save has overwritten another VM's entry, two running     *)
(* QEMUs that state.json can know about share neither an index nor a disk, *)
(* even when their starters were killed and their names were started       *)
(* again.                                                                  *)
RunningVMsDistinct ==
  ~overwritten =>
    \A s, t \in Starters : (s # t /\ Known(s) /\ Known(t))
      => index[s] # index[t] /\ name[s] # name[t]

(* An address the poller resolved is in the record the starter leaves      *)
(* behind, whichever of the poller's write, the exit's write and its       *)
(* fallback came last or failed.                                           *)
AddressKept ==
  \A s \in Starters : poll[s] = "sent" =>
    LET v == file.vms[name[s]] IN
    (v # NoVM /\ v.starter = s /\ v.stopped) => v.ip

(* While no plain Save has overwritten another VM's entry, a record that   *)
(* got past its reservation has its disk in the same file: otherwise       *)
(* `reset -disk` could not name the disk, and its image would stay behind. *)
RecordedVMHasDisk ==
  ~overwritten => \A n \in DiskNames : (file.vms[n] # NoVM /\ file.vms[n].paths) => n \in file.disks

(* A starter without a running QEMU, from its reservation on, either gets  *)
(* one or stops being counted as live: no failed, declined or finished     *)
(* start holds an index forever.                                           *)
IndexFreed ==
  \A s \in Starters :
    (pc[s] \in Holding /\ qemu[s] # "running")
      ~> \/ qemu[s] = "running"
         \/ \A n \in DiskNames :
              ~(file.vms[n] # NoVM /\ file.vms[n].starter = s /\ VMIsLive(file.vms[n]))

-----------------------------------------------------------------------------
(* The live records are the leases of a VMRegistry, until one of the plain *)
(* writes loses it.                                                        *)

BeforeReserve == {"idle", "loaded", "prompt", "confirm", "plan", "cleaning"}

LeaseOf(n) ==
  [name |-> n, holder |-> file.vms[n].starter, index |-> file.vms[n].index]

Leases ==
  IF overwritten THEN {}
  ELSE {LeaseOf(n) : n \in {m \in DiskNames : VMIsLive(file.vms[m])}}

Spent == {s \in Starters : pc[s] \notin BeforeReserve}

Registry == INSTANCE VMRegistry WITH
              Names <- DiskNames, Holders <- Starters,
              leases <- Leases, spent <- Spent, lost <- overwritten

(* Every step, failure and kill of a start, a reset, a cleanup or QEMU     *)
(* grants one lease to a start that had none, ends one, loses the registry *)
(* by one of the plain writes, or leaves all leases as they are: no two    *)
(* change at once, none changes its holder or index, none comes back.      *)
ImplementsRegistry == Registry!Spec

-----------------------------------------------------------------------------
(* The inductive invariant behind the properties above.                    *)

(* A record is of the starter that wrote it: at the name and with the      *)
(* index that starter reserved, with the PID 0 or the one it launched, and *)
(* once stopped with the address that starter's poller sent, if any.       *)
OfItsStarter(v, n) ==
  /\ name[v.starter] = n
  /\ index[v.starter] = v.index
  /\ pc[v.starter] \notin BeforeReserve
  /\ v.pid # NoProc => v.pid = v.starter /\ v.starter \in pidRecorded
  /\ v.stopped => pc[v.starter] = "exited" /\ (poll[v.starter] = "sent" => v.ip)

WellFormed(st) == \A n \in DiskNames : st.vms[n] # NoVM => OfItsStarter(st.vms[n], n)

RecordsOfTheirStarters == WellFormed(file) /\ \A p \in Procs : WellFormed(snap[p])

(* The state of QEMU and the knowledge of its PID against the starter's pc.*)
QemuFollowsStarter ==
  \A s \in Starters :
    /\ pc[s] \notin {"spawned", "running", "joining", "exited", "dead"} => qemu[s] = "none"
    /\ pc[s] \in {"joining", "exited"} => qemu[s] # "running"
    /\ s \in pidRecorded => pc[s] \in {"running", "joining", "exited", "dead"}

(* A recorded PID of a running QEMU stays in the record of its name.       *)
RunningPIDKept ==
  ~overwritten =>
    \A s \in pidRecorded : qemu[s] = "running" =>
      file.vms[name[s]] # NoVM /\ file.vms[name[s]].pid = s

(* The disk of a started VM is in its starter's memory and then in the file*)
DiskKept ==
  \A s \in Starters :
    /\ pc[s] \in Holding \cup {"prompt"} => name[s] \in snap[s].disks
    /\ (~overwritten /\ pc[s] \in Holding \ {"reserved", "releasing"}) => name[s] \in file.disks

IInv ==
  /\ TypeOK
  /\ RecordsOfTheirStarters
  /\ QemuFollowsStarter
  /\ RunningPIDKept
  /\ ReservationHeld
  /\ LiveIndicesDistinct
  /\ DiskKept
  /\ RecordedVMHasDisk
=============================================================================
