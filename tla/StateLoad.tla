----------------------------- MODULE StateLoad -----------------------------
(***************************************************************************)
(* What Store.Load makes of state.json (internal/state/state.go): a        *)
(* schema-1 file is migrated, a record that cannot be trusted is set aside,*)
(* a file of a newer binary is refused.  And what becomes of the VMs when  *)
(* every write starts from such a Load: what Load set aside, the next Save *)
(* drops.                                                                  *)
(*                                                                         *)
(* An Update is one step here, and so is a reset; StateStore and           *)
(* VMLifecycle have what comes between.                                    *)
(***************************************************************************)
EXTENDS Naturals

CONSTANTS
  Invocations,  \* starts, setups and resets, each made once
  OldQemu,      \* a QEMU that runs since before the first of them
  Loadable,     \* disk names of letters, digits, '.', '_' and '-'
  Refused,      \* other disk names, "kairos-v1.35.2+k3s1" for one
  NoName,       \* the empty name
  Nobody,       \* no process
  NoVM,         \* no record
  MaxVMIndex

Disks    == Loadable \cup Refused
Procs    == Invocations \cup {OldQemu}
Indices  == 0..MaxVMIndex
OutOfRange == MaxVMIndex + 1

(* filepath.Base of a disk's path.                                         *)
BaseName(d) == <<d, "qcow2">>

VMNames == Disks \cup {BaseName(d) : d \in Disks} \cup {NoName}

ASSUME IndexAssumption == MaxVMIndex \in Nat
ASSUME ProcAssumption == OldQemu \notin Invocations /\ Nobody \notin Procs
ASSUME NameAssumption ==
  /\ Loadable \cap Refused = {}
  /\ \A d, e \in Disks : BaseName(d) \notin Disks \cup {NoName}
  /\ NoName \notin Disks

VM == [index : 0..OutOfRange, mode : {"known", "unknown"}, holder : Procs \cup {Nobody}]

(* The schema-1 record: name is its DiskName (or Name), path the disk its  *)
(* DiskPath is of.                                                         *)
LegacyVM == [name : Disks \cup {NoName}, path : Disks \cup {NoName},
             mode : {"known", "unknown"}, holder : {OldQemu, Nobody}]

ASSUME NoVMAssumption == NoVM \notin VM \cup LegacyVM

NoVMs  == [n \in VMNames |-> NoVM]
Tables == [VMNames -> VM \cup {NoVM}]

SchemaVersion == 3

File == [version : 0..(SchemaVersion + 1), vms : Tables,
         legacy : LegacyVM \cup {NoVM}, disks : SUBSET Disks]

(* No file loads as this one.                                              *)
NewState == [version |-> SchemaVersion, vms |-> NoVMs, legacy |-> NoVM, disks |-> {}]

-----------------------------------------------------------------------------
(* Load                                                                    *)

LegacyName(l) ==
  CASE l.name # NoName -> l.name
    [] l.name = NoName /\ l.path # NoName -> BaseName(l.path)
    [] OTHER -> NoName

MigratedAsStopped(l) == [index |-> 0, mode |-> l.mode, holder |-> Nobody]

MigratedRecord(l) == [index |-> 0, mode |-> l.mode, holder |-> l.holder]

LegacyKept(f) ==
  IF f.legacy # NoVM /\ f.vms[LegacyName(f.legacy)] = NoVM
  THEN [f EXCEPT !.vms = [f.vms EXCEPT ![LegacyName(f.legacy)] = MigratedRecord(f.legacy)]]
  ELSE f

(* A record of the name that is there already stays.                       *)
Migrated(f) ==
  IF f.legacy = NoVM THEN f
  ELSE LET n == LegacyName(f.legacy) IN
       [f EXCEPT !.vms = IF f.vms[n] = NoVM
                         THEN [f.vms EXCEPT ![n] = MigratedRecord(f.legacy)] ELSE f.vms,
                 !.legacy = NoVM]

NameLoads(n) == n \notin Refused \cup {BaseName(d) : d \in Refused}

ValidBelowLast(n, v) == NameLoads(n) /\ v.index < MaxVMIndex /\ v.mode # "unknown"

Valid(n, v) == NameLoads(n) /\ v.index \in Indices /\ v.mode # "unknown"

Quarantine(f) ==
  [f EXCEPT !.vms = [n \in VMNames |->
                       IF f.vms[n] # NoVM /\ Valid(n, f.vms[n]) THEN f.vms[n] ELSE NoVM]]

LoadsAny(f) == TRUE

Loads(f) == f.version <= SchemaVersion

Loaded(f) == [Quarantine(Migrated(f)) EXCEPT !.version = SchemaVersion]

-----------------------------------------------------------------------------
(* The record operations                                                   *)

UpsertVM(f, n, v) == [f EXCEPT !.vms = [f.vms EXCEPT ![n] = v]]

RemoveVMs(f, N) == [f EXCEPT !.vms = [n \in VMNames |-> IF n \in N THEN NoVM ELSE f.vms[n]]]

Holds(f, n) == f.vms[n] # NoVM

VARIABLES
  file,        \* state.json
  pc,          \* where each invocation is, and whether OldQemu runs
  name,        \* the name its VM is recorded under
  disk,        \* the disk its VM runs on
  index,       \* the index its VM was given
  snap,        \* the state its first Load returned
  overwritten, \* history: a plain Save changed another VM's entry
  misread      \* history: OldQemu's record is one that Load sets aside

run  == <<name, disk, index>>
hist == <<overwritten, misread>>
vars == <<file, pc, run, snap, hist>>

Alive(p) == pc[p] \notin {"idle", "ended"}
Live(v)  == v # NoVM /\ v.holder # Nobody /\ Alive(v.holder)

Goto(p, from, to) == pc[p] = from /\ pc' = [pc EXCEPT ![p] = to]

(* What older binaries left: the file f with disk d's VM under the name n *)
(* and the index i in it, and runs says whether it is still running.       *)
OldFile(f, n, d, i, runs) ==
  \/ f = NewState /\ n = NoName /\ d = NoName /\ i = 0 /\ ~runs
  \/ \E l \in LegacyVM :
       /\ l.name # NoName => l.path = l.name
       /\ d = l.path /\ n = LegacyName(l) /\ i = 0
       /\ runs = (l.holder = OldQemu) /\ (runs => d # NoName)
       /\ f = [version |-> 1, vms |-> NoVMs, legacy |-> l, disks |-> {d} \cap Disks]
  \/ \E v \in VM :
       /\ d \in Disks /\ n = d /\ i = v.index
       /\ v.holder \in {OldQemu, Nobody} /\ runs = (v.holder = OldQemu)
       /\ f = [version |-> 2, vms |-> [NoVMs EXCEPT ![n] = v], legacy |-> NoVM, disks |-> {d}]

Init ==
  \E n \in VMNames, d \in Disks \cup {NoName}, i \in 0..OutOfRange, runs \in BOOLEAN :
    /\ OldFile(file, n, d, i, runs)
    /\ pc = [p \in Procs |-> IF p = OldQemu /\ runs THEN "running" ELSE "idle"]
    /\ name = [p \in Procs |-> IF p = OldQemu THEN n ELSE NoName]
    /\ disk = [p \in Procs |-> IF p = OldQemu THEN d ELSE NoName]
    /\ index = [p \in Procs |-> IF p = OldQemu THEN i ELSE 0]
    /\ snap = [p \in Procs |-> NewState]
    /\ overwritten = FALSE
    /\ misread = (runs /\ ~Holds(Loaded(file), n))

-----------------------------------------------------------------------------
(* start                                                                   *)

Update(p, from, to, f) ==
  /\ Loads(file)
  /\ Goto(p, from, to)
  /\ file' = f
  /\ UNCHANGED <<snap, hist>>

(* The disk is a listed one or a new one: validDiskName refuses neither of *)
(* the two kinds of names.                                                 *)
StartLoads(p, d) ==
  /\ Loads(file)
  /\ Goto(p, "idle", "loaded")
  /\ name' = [name EXCEPT ![p] = d]
  /\ disk' = [disk EXCEPT ![p] = d]
  /\ snap' = [snap EXCEPT ![p] = Loaded(file)]
  /\ UNCHANGED <<file, index, hist>>

NoRefusal(f, n) == TRUE

MayReserve(f, n) == ~Live(f.vms[n])

HeldIndices(f) == {f.vms[n].index : n \in {m \in VMNames : Live(f.vms[m])}}

LowestFromOne(f) ==
  {i \in (1..MaxVMIndex + 1) \ HeldIndices(f) : \A j \in 1..(i - 1) : j \in HeldIndices(f)}

(* The lowest index no live record holds; none when all are held.          *)
NextFreeVMIndex(f) ==
  {i \in Indices \ HeldIndices(f) : \A j \in 0..(i - 1) : j \in HeldIndices(f)}

VMRecord(p, i) == [index |-> i, mode |-> "known", holder |-> p]

Reserve(p) ==
  LET f == Loaded(file) IN
  \E i \in NextFreeVMIndex(f) :
    /\ MayReserve(f, name[p])
    /\ index' = [index EXCEPT ![p] = i]
    /\ Update(p, "loaded", "reserved", UpsertVM(f, name[p], VMRecord(p, i)))
    /\ UNCHANGED <<name, disk>>

Mine(p) == VMRecord(p, index[p])

(* The Recording Update, and those after it: each upserts the record into  *)
(* what it loaded, whatever that holds.                                    *)
Record(p) ==
  LET f == Loaded(file) IN
  /\ Update(p, "reserved", "recorded",
            [UpsertVM(f, name[p], Mine(p)) EXCEPT !.disks = @ \cup {disk[p]}])
  /\ UNCHANGED run

(* QEMU runs, whether its PID could be written or not.                     *)
Launch(p) ==
  \/ Update(p, "recorded", "running", UpsertVM(Loaded(file), name[p], Mine(p))) /\ UNCHANGED run
  \/ Goto(p, "recorded", "running") /\ UNCHANGED <<file, run, snap, hist>>

LaunchFails(p) ==
  /\ Update(p, "recorded", "ended", UpsertVM(Loaded(file), name[p], Mine(p)))
  /\ UNCHANGED run

(* recordVMIP: with no record of the name there is nothing to write.       *)
RecordIP(p) ==
  /\ Holds(Loaded(file), name[p])
  /\ Update(p, "running", "running", Loaded(file))
  /\ UNCHANGED run

Stopped(p) == [Mine(p) EXCEPT !.holder = Nobody]

Finalize(p) ==
  /\ Update(p, "running", "ended", UpsertVM(Loaded(file), name[p], Stopped(p)))
  /\ UNCHANGED run

Release(p) ==
  LET f == Loaded(file) IN
  /\ Update(p, "reserved", "ended",
            IF Holds(f, name[p]) /\ f.vms[name[p]].holder = p THEN RemoveVMs(f, {name[p]}) ELSE f)
  /\ UNCHANGED run

(* An early return, a failed write, a kill.                                *)
End(p) ==
  /\ Alive(p)
  /\ pc' = [pc EXCEPT ![p] = "ended"]
  /\ UNCHANGED <<file, run, snap, hist>>

-----------------------------------------------------------------------------
(* Plain writes                                                            *)

(* A Save of a state loaded long ago does not look at the file.            *)
PlainSave(p, from, own, st) ==
  /\ Goto(p, from, "ended")
  /\ file' = st
  /\ overwritten' = (overwritten \/ \E n \in VMNames \ own :
                                      Loaded(file).vms[n] # st.vms[n])
  /\ UNCHANGED <<run, snap, misread>>

(* The exit-time fallback, when its Update failed.                         *)
FinalizeFallback(p) ==
  PlainSave(p, "running", {name[p]},
    [UpsertVM(snap[p], name[p], Stopped(p)) EXCEPT !.disks = @ \cup {disk[p]}])

(* setup and download.                                                     *)
SetupLoads(p) ==
  /\ Loads(file)
  /\ Goto(p, "idle", "setup")
  /\ snap' = [snap EXCEPT ![p] = Loaded(file)]
  /\ UNCHANGED <<file, run, hist>>

SetupSaves(p) == PlainSave(p, "setup", {}, snap[p])

(* reset of the disks D with the VMs named in N: one disk's, or all.       *)
Reset(p, D, N) ==
  LET f == Loaded(file) IN
  /\ Loads(file)
  /\ \A n \in N : ~Live(f.vms[n])
  /\ Goto(p, "idle", "ended")
  /\ file' = [RemoveVMs(f, N) EXCEPT !.disks = @ \ D]
  /\ UNCHANGED <<run, snap, hist>>

ResetDisk(p, d) == d \in file.disks /\ Reset(p, {d}, {d})
ResetAll(p)     == Reset(p, Disks, VMNames)

(* A newer kairos-lab is installed, and saves.                             *)
NewerBinarySaves ==
  /\ Loads(file)
  /\ file' = [Loaded(file) EXCEPT !.version = SchemaVersion + 1]
  /\ UNCHANGED <<pc, run, snap, hist>>

-----------------------------------------------------------------------------
Step(p) ==
  \/ \E d \in Disks : StartLoads(p, d)
  \/ Reserve(p) \/ Record(p) \/ Launch(p) \/ LaunchFails(p) \/ RecordIP(p)
  \/ Finalize(p) \/ Release(p) \/ End(p)
  \/ FinalizeFallback(p) \/ SetupLoads(p) \/ SetupSaves(p)
  \/ ResetAll(p) \/ \E d \in Disks : ResetDisk(p, d)

Next == (\E p \in Invocations : Step(p)) \/ End(OldQemu) \/ NewerBinarySaves

Spec == Init /\ [][Next]_vars

-----------------------------------------------------------------------------
(* Properties                                                              *)

TypeOK ==
  /\ file \in File
  /\ pc \in [Procs -> {"idle", "loaded", "reserved", "recorded", "running", "setup", "ended"}]
  /\ name \in [Procs -> VMNames]
  /\ disk \in [Procs -> Disks \cup {NoName}]
  /\ index \in [Procs -> 0..OutOfRange] /\ \A p \in Invocations : index[p] \in Indices
  /\ snap \in [Procs -> File]
  /\ overwritten \in BOOLEAN /\ misread \in BOOLEAN

(* A VM whose record every later Load trusts.                              *)
Trusted(q) == NameLoads(name[q]) /\ (q = OldQemu => ~misread)

Started(q) == pc[q] \in {"reserved", "recorded", "running"}

(* What is running is in the state the next command loads, under its index:*)
(* neither migration nor quarantine, nor an index at the end of the range  *)
(* that NextFreeVMIndex gives and invalidVMReason checks, drops a VM whose *)
(* name the whitelist accepts.                                             *)
RunningVMLoads ==
  \A q \in Procs : Started(q) /\ Trusted(q) /\ ~overwritten =>
    /\ Holds(Loaded(file), name[q])
    /\ Loaded(file).vms[name[q]].index = index[q]
    /\ Loaded(file).vms[name[q]].holder = q

(* Two VMs share an index only after a plain Save of a stale state, or if  *)
(* Load does not trust the record of one of them.  The VM an older binary  *)
(* left running counts.                                                    *)
IndicesDistinct ==
  \A q, r \in Procs :
    q # r /\ Started(q) /\ Started(r) /\ Trusted(q) /\ Trusted(r) /\ ~overwritten
      => index[q] # index[r]

(* Nor do two of them run on one disk; the record of the older binary's VM *)
(* may have been named for the file its disk is in, which is another name. *)
DisksDistinct ==
  \A q, r \in Procs :
    q # r /\ Started(q) /\ Started(r) /\ Trusted(q) /\ Trusted(r) /\ ~overwritten
      => \/ disk[q] # disk[r]
         \/ name[q] # disk[q] \/ name[r] # disk[r]

(* So no two VMs that run share the MAC address, tap and forwarded ports   *)
(* that come from an index, or corrupt one image: what MayReserve and      *)
(* NextFreeVMIndex are for, with every state they see being a loaded one.  *)
LiveVMsDistinct == IndicesDistinct /\ DisksDistinct

(* A record appears, changes or goes only by a step of a start of its name *)
(* or by a reset; a migrated record that was reset does not come back.     *)
OnlyOwnRecordChanges ==
  [][\A n \in VMNames :
       Loaded(file').vms[n] # Loaded(file).vms[n] =>
         \/ overwritten'
         \/ \E p \in Invocations : pc[p] # pc'[p] /\ name[p] = n /\ pc[p] # "idle"
         \/ \E p \in Invocations : pc[p] = "idle" /\ pc'[p] = "ended" /\ ~Holds(Loaded(file'), n)]_vars

(* The file of a newer binary is written over only by a plain Save of what *)
(* was loaded before the newer binary wrote.                               *)
NewerFileKept ==
  [][file.version > SchemaVersion /\ file' # file =>
       \E p \in Invocations : pc[p] \in {"running", "setup"} /\ pc'[p] = "ended"]_vars

(* The comment of validDiskNameCharset: a name Save wrote is always a name *)
(* Load's next read will accept.                                           *)
WrittenNamesLoad ==
  \A p \in Invocations :
    Holds(file, name[p]) /\ file.vms[name[p]].holder = p => Holds(Loaded(file), name[p])

-----------------------------------------------------------------------------
(* The records implement the registry                                      *)

LeaseOf(n) ==
  LET v == Loaded(file).vms[n] IN [name |-> n, holder |-> v.holder, index |-> v.index]

(* The live records of what the next command loads, that of the VM an      *)
(* older binary left running among them.                                   *)
Leases ==
  IF overwritten THEN {} ELSE {LeaseOf(n) : n \in {m \in VMNames : Live(Loaded(file).vms[m])}}

Spent == {p \in Procs : pc[p] \notin {"idle", "loaded"}}

Registry == INSTANCE VMRegistry WITH
              Names <- VMNames, Holders <- Procs,
              leases <- Leases, spent <- Spent, lost <- overwritten

(* Whatever Load migrates, sets aside and drops, a step grants one lease   *)
(* to a start that had none, ends one lease, or loses them by a plain Save *)
(* of a stale state: a record that is set aside was never a lease.         *)
ImplementsRegistry == Registry!Spec
=============================================================================
