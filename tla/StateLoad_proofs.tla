-------------------------- MODULE StateLoad_proofs --------------------------
(***************************************************************************)
(* Theorems about StateLoad: what Load does to a file, and that the VMs it *)
(* trusts stay in it, for any names, invocations and indices.              *)
(***************************************************************************)
EXTENDS StateLoad, TLAPS

USE IndexAssumption, ProcAssumption, NameAssumption, NoVMAssumption

(* A record Load returned.                                                 *)
Clean(n, v) == v = NoVM \/ Valid(n, v)

(* A state Load returned: nothing left to migrate or to set aside.         *)
CleanState(f) == f.legacy = NoVM /\ \A n \in VMNames : Clean(n, f.vms[n])

-----------------------------------------------------------------------------
(* Load                                                                    *)

LEMMA LegacyNameType ==
  ASSUME NEW l \in LegacyVM
  PROVE  LegacyName(l) \in VMNames /\ MigratedRecord(l) \in VM
BY DEF LegacyVM, LegacyName, MigratedRecord, VM, VMNames, OutOfRange, Procs

LEMMA MigratedType ==
  ASSUME NEW f \in File
  PROVE  Migrated(f) \in File /\ Migrated(f).legacy = NoVM
<1>1. CASE f.legacy = NoVM
  BY <1>1 DEF Migrated
<1>2. CASE f.legacy # NoVM
  <2>1. f.legacy \in LegacyVM
    BY <1>2 DEF File
  <2>2. LegacyName(f.legacy) \in VMNames /\ MigratedRecord(f.legacy) \in VM
    BY <2>1, LegacyNameType
  <2>3. f.vms \in Tables
    BY DEF File
  <2> DEFINE n == LegacyName(f.legacy)
             T == IF f.vms[n] = NoVM THEN [f.vms EXCEPT ![n] = MigratedRecord(f.legacy)] ELSE f.vms
  <2>4. T \in Tables
    BY <2>2, <2>3 DEF Tables
  <2>5. Migrated(f) = [f EXCEPT !.vms = T, !.legacy = NoVM]
    BY <1>2 DEF Migrated
  <2> HIDE DEF T
  <2> QED
    BY <2>4, <2>5 DEF File
<1> QED
  BY <1>1, <1>2

(* Load returns a clean state, whatever it reads.                          *)
THEOREM LoadedClean ==
  ASSUME NEW f \in File
  PROVE  Loaded(f) \in File /\ CleanState(Loaded(f)) /\ Loaded(f).version = SchemaVersion
<1> DEFINE g == Migrated(f)
           T == [n \in VMNames |-> IF g.vms[n] # NoVM /\ Valid(n, g.vms[n]) THEN g.vms[n] ELSE NoVM]
<1>1. g \in File /\ g.legacy = NoVM
  BY MigratedType
<1>2. Loaded(f) = [[g EXCEPT !.vms = T] EXCEPT !.version = SchemaVersion]
  BY DEF Loaded, Quarantine
<1>3. g.vms \in Tables
  BY <1>1 DEF File
<1>4. T \in Tables /\ \A n \in VMNames : Clean(n, T[n])
  BY <1>3 DEF Tables, Clean
<1> HIDE DEF g, T
<1>5. Loaded(f) = [g EXCEPT !.vms = T, !.version = SchemaVersion]
  BY <1>1, <1>2 DEF File
<1>6. SchemaVersion \in 0..(SchemaVersion + 1)
  BY DEF SchemaVersion
<1>7. Loaded(f) \in File /\ Loaded(f).legacy = NoVM /\ Loaded(f).vms = T
      /\ Loaded(f).version = SchemaVersion
  BY <1>1, <1>4, <1>5, <1>6 DEF File
<1> QED
  BY <1>4, <1>7 DEF CleanState

(* And leaves a state without a legacy record as it is, but for what it    *)
(* cannot trust.                                                           *)
LEMMA LoadedVMs ==
  ASSUME NEW f \in File, f.legacy = NoVM
  PROVE  /\ Loaded(f).vms = [n \in VMNames |-> IF Clean(n, f.vms[n]) THEN f.vms[n] ELSE NoVM]
         /\ Loaded(f).disks = f.disks
<1> DEFINE T == [n \in VMNames |-> IF f.vms[n] # NoVM /\ Valid(n, f.vms[n]) THEN f.vms[n] ELSE NoVM]
           U == [n \in VMNames |-> IF Clean(n, f.vms[n]) THEN f.vms[n] ELSE NoVM]
<1>1. Loaded(f) = [[f EXCEPT !.vms = T] EXCEPT !.version = SchemaVersion]
  BY DEF Loaded, Quarantine, Migrated
<1>2. T = U
  BY DEF Clean
<1> HIDE DEF T, U
<1>3. Loaded(f).vms = T /\ Loaded(f).disks = f.disks
  BY <1>1 DEF File
<1> QED
  BY <1>2, <1>3 DEF U

LEMMA LoadedCleanVMs ==
  ASSUME NEW f \in File, CleanState(f)
  PROVE  Loaded(f).vms = f.vms /\ Loaded(f).disks = f.disks
<1>1. f.vms = [n \in VMNames |-> f.vms[n]]
  BY DEF File, Tables
<1>2. \A n \in VMNames : Clean(n, f.vms[n])
  BY DEF CleanState
<1> QED
  BY <1>1, <1>2, LoadedVMs DEF CleanState

(* Loading what was loaded and saved is to load it once: Load may be run   *)
(* with or without a Save to follow.                                       *)
THEOREM LoadingTwice ==
  ASSUME NEW f \in File
  PROVE  Loaded(Loaded(f)) = Loaded(f)
<1> DEFINE g == Loaded(f)
           h == Loaded(g)
<1>1. g \in File /\ CleanState(g) /\ g.version = SchemaVersion
  BY LoadedClean
<1> HIDE DEF g
<1>2. h \in File /\ CleanState(h) /\ h.version = SchemaVersion
  BY <1>1, LoadedClean
<1>3. h.vms = g.vms /\ h.disks = g.disks
  BY <1>1, LoadedCleanVMs
<1> HIDE DEF h
<1>4. h = g
  BY <1>1, <1>2, <1>3 DEF File, CleanState
<1> QED
  BY <1>4 DEF g, h

LEMMA LoadedFromMigrated ==
  ASSUME NEW f \in File, NEW m \in VMNames
  PROVE  Loaded(f).vms[m] \in {Migrated(f).vms[m], NoVM}
<1> DEFINE g == Migrated(f)
           T == [n \in VMNames |-> IF g.vms[n] # NoVM /\ Valid(n, g.vms[n]) THEN g.vms[n] ELSE NoVM]
<1>1. g \in File
  BY MigratedType
<1>2. Loaded(f) = [[g EXCEPT !.vms = T] EXCEPT !.version = SchemaVersion]
  BY DEF Loaded, Quarantine
<1>3. T[m] \in {g.vms[m], NoVM}
  OBVIOUS
<1> HIDE DEF g, T
<1>4. Loaded(f).vms = T
  BY <1>1, <1>2 DEF File
<1> QED
  BY <1>3, <1>4 DEF g

(* What is written into a state without a legacy record loads as it is     *)
(* where it is clean, and not otherwise.                                   *)
LEMMA LoadedAt ==
  ASSUME NEW g \in File, g.legacy = NoVM, NEW m \in VMNames
  PROVE  Loaded(g).vms[m] = IF Clean(m, g.vms[m]) THEN g.vms[m] ELSE NoVM
BY LoadedVMs

(* What a Load returned and was saved loads again.                         *)
LEMMA LoadedAgain ==
  ASSUME NEW f \in File, NEW g \in File, g.legacy = NoVM, NEW m \in VMNames,
         g.vms[m] = Loaded(f).vms[m]
  PROVE  Loaded(g).vms[m] = Loaded(f).vms[m]
<1>1. Clean(m, Loaded(f).vms[m])
  BY LoadedClean DEF CleanState
<1> QED
  BY <1>1, LoadedAt

-----------------------------------------------------------------------------
(* The record operations                                                   *)

LEMMA UpsertFacts ==
  ASSUME NEW f \in File, NEW n \in VMNames, NEW v \in VM
  PROVE  /\ UpsertVM(f, n, v) \in File
         /\ UpsertVM(f, n, v).legacy = f.legacy
         /\ UpsertVM(f, n, v).vms[n] = v
         /\ \A m \in VMNames : m # n => UpsertVM(f, n, v).vms[m] = f.vms[m]
<1> DEFINE T == [f.vms EXCEPT ![n] = v]
<1>1. f.vms \in Tables
  BY DEF File
<1>2. T \in Tables /\ T[n] = v /\ \A m \in VMNames : m # n => T[m] = f.vms[m]
  BY <1>1 DEF Tables
<1> HIDE DEF T
<1>3. UpsertVM(f, n, v) = [f EXCEPT !.vms = T]
  BY DEF UpsertVM, T
<1> QED
  BY <1>2, <1>3 DEF File

LEMMA RemoveFacts ==
  ASSUME NEW f \in File, NEW N
  PROVE  /\ RemoveVMs(f, N) \in File
         /\ RemoveVMs(f, N).legacy = f.legacy
         /\ \A m \in VMNames : RemoveVMs(f, N).vms[m] = IF m \in N THEN NoVM ELSE f.vms[m]
<1> DEFINE T == [n \in VMNames |-> IF n \in N THEN NoVM ELSE f.vms[n]]
<1>1. f.vms \in Tables
  BY DEF File
<1>2. T \in Tables /\ \A m \in VMNames : T[m] = IF m \in N THEN NoVM ELSE f.vms[m]
  BY <1>1 DEF Tables
<1> HIDE DEF T
<1>3. RemoveVMs(f, N) = [f EXCEPT !.vms = T]
  BY DEF RemoveVMs, T
<1> QED
  BY <1>2, <1>3 DEF File

LEMMA DisksFacts ==
  ASSUME NEW f \in File, NEW D \in SUBSET Disks
  PROVE  /\ [f EXCEPT !.disks = D] \in File
         /\ [f EXCEPT !.disks = D].legacy = f.legacy
         /\ [f EXCEPT !.disks = D].vms = f.vms
BY DEF File

LEMMA RecordFacts ==
  ASSUME NEW p \in Invocations, NEW i \in Indices
  PROVE  /\ VMRecord(p, i) \in VM
         /\ VMRecord(p, i).index = i /\ VMRecord(p, i).holder = p
         /\ \A n \in VMNames : NameLoads(n) => Valid(n, VMRecord(p, i))
         /\ [VMRecord(p, i) EXCEPT !.holder = Nobody] \in VM
BY DEF VMRecord, VM, Procs, Valid, Indices, OutOfRange

LEMMA NewStateClean == NewState \in File /\ CleanState(NewState)
BY DEF NewState, File, CleanState, Clean, Tables, NoVMs, SchemaVersion

LEMMA NextFreeFacts ==
  ASSUME NEW f, NEW i \in NextFreeVMIndex(f)
  PROVE  /\ i \in Indices
         /\ \A m \in VMNames : Live(f.vms[m]) => f.vms[m].index # i
BY DEF NextFreeVMIndex, HeldIndices

-----------------------------------------------------------------------------
(* Types                                                                   *)

(* What an invocation loaded and keeps is as Load returns it.              *)
SnapsClean == \A p \in Procs : CleanState(snap[p])

(* A start has a disk from its first step on.                              *)
DisksChosen ==
  \A p \in Invocations : pc[p] \in {"loaded", "reserved", "recorded", "running"} => disk[p] \in Disks

Typed == TypeOK /\ SnapsClean /\ DisksChosen

LEMMA OldFileType ==
  ASSUME NEW f, NEW n, NEW d \in Disks \cup {NoName}, NEW i \in 0..OutOfRange, NEW b \in BOOLEAN,
         OldFile(f, n, d, i, b)
  PROVE  f \in File
<1>1. CASE f = NewState
  BY <1>1, NewStateClean
<1>2. CASE \E l \in LegacyVM : f = [version |-> 1, vms |-> NoVMs, legacy |-> l, disks |-> {d} \cap Disks]
  BY <1>2 DEF File, NoVMs, Tables, SchemaVersion
<1>3. ASSUME NEW v \in VM, d \in Disks, n = d,
             f = [version |-> 2, vms |-> [NoVMs EXCEPT ![n] = v], legacy |-> NoVM, disks |-> {d}]
      PROVE  f \in File
  <2>1. [NoVMs EXCEPT ![n] = v] \in Tables
    BY <1>3 DEF NoVMs, Tables, VMNames
  <2> QED
    BY <1>3, <2>1 DEF File, SchemaVersion
<1> QED
  BY <1>1, <1>2, <1>3 DEF OldFile

(* The steps that leave what each invocation is about alone.               *)
LEMMA TypedSteps ==
  ASSUME Typed, NEW p \in Procs, UNCHANGED <<run, snap>>,
         NEW t \in {"reserved", "recorded", "running", "ended"}, pc' = [pc EXCEPT ![p] = t],
         t = "ended" \/ pc[p] \in {"loaded", "reserved", "recorded", "running"},
         overwritten' \in BOOLEAN, misread' = misread, file' \in File
  PROVE  Typed'
<1>1. TypeOK'
  BY DEF Typed, TypeOK, run
<1>2. SnapsClean'
  BY DEF Typed, SnapsClean
<1>3. DisksChosen'
  BY DEF Typed, DisksChosen, run, TypeOK
<1> QED
  BY <1>1, <1>2, <1>3 DEF Typed

(* What an invocation writes of its own VM.                                *)
LEMMA OwnWriteType ==
  ASSUME Typed, NEW p \in Invocations
  PROVE  /\ name[p] \in VMNames /\ Mine(p) \in VM /\ Stopped(p) \in VM
         /\ Loaded(file) \in File /\ snap[p] \in File
         /\ pc[p] \in {"loaded", "reserved", "recorded", "running"} => disk[p] \in Disks
BY RecordFacts, LoadedClean DEF Typed, TypeOK, DisksChosen, Mine, Stopped, Procs

LEMMA InitTyped == Init => Typed
<1> SUFFICES ASSUME Init PROVE Typed
  OBVIOUS
<1> PICK n \in VMNames, d \in Disks \cup {NoName}, i \in 0..OutOfRange, b \in BOOLEAN :
      /\ OldFile(file, n, d, i, b)
      /\ pc = [p \in Procs |-> IF p = OldQemu /\ b THEN "running" ELSE "idle"]
      /\ name = [p \in Procs |-> IF p = OldQemu THEN n ELSE NoName]
      /\ disk = [p \in Procs |-> IF p = OldQemu THEN d ELSE NoName]
      /\ index = [p \in Procs |-> IF p = OldQemu THEN i ELSE 0]
      /\ snap = [p \in Procs |-> NewState]
      /\ overwritten = FALSE
      /\ misread = (b /\ ~Holds(Loaded(file), n))
  BY DEF Init
<1>1. file \in File
  BY OldFileType
<1>2. index \in [Procs -> 0..OutOfRange] /\ \A p \in Invocations : index[p] \in Indices
  BY DEF Procs, Indices, OutOfRange
<1>3. misread \in BOOLEAN
  BY DEF Holds
<1>4. NoName \in VMNames
  BY DEF VMNames
<1>5. TypeOK
  BY <1>1, <1>2, <1>3, <1>4, NewStateClean DEF TypeOK
<1>6. SnapsClean /\ DisksChosen
  BY NewStateClean DEF SnapsClean, DisksChosen, Procs
<1> QED
  BY <1>5, <1>6 DEF Typed

LEMMA StepTyped ==
  ASSUME Typed, NEW p \in Invocations, Step(p)
  PROVE  Typed'
<1> p \in Procs
  BY DEF Procs
<1>1. ASSUME NEW d \in Disks, StartLoads(p, d) PROVE Typed'
  <2>1. TypeOK'
    BY <1>1, LoadedClean DEF Typed, TypeOK, StartLoads, Goto, hist, VMNames
  <2>2. SnapsClean'
    BY <1>1, LoadedClean DEF Typed, TypeOK, StartLoads, SnapsClean
  <2>3. DisksChosen'
    BY <1>1 DEF Typed, TypeOK, StartLoads, Goto, DisksChosen
  <2> QED
    BY <2>1, <2>2, <2>3 DEF Typed
<1>2. CASE Reserve(p)
  <2> DEFINE f == Loaded(file)
  <2>1. PICK i \in NextFreeVMIndex(f) :
          /\ index' = [index EXCEPT ![p] = i]
          /\ Update(p, "loaded", "reserved", UpsertVM(f, name[p], VMRecord(p, i)))
          /\ UNCHANGED <<name, disk>>
    BY <1>2 DEF Reserve
  <2>2. i \in Indices
    BY NextFreeFacts
  <2> HIDE DEF f
  <2>3. f \in File
    BY OwnWriteType DEF f
  <2>4. file' \in File
    BY <2>1, <2>2, <2>3, OwnWriteType, RecordFacts, UpsertFacts DEF Update
  <2>5. TypeOK'
    BY <2>1, <2>2, <2>4 DEF Typed, TypeOK, Update, Goto, hist, Indices, OutOfRange
  <2>6. SnapsClean' /\ DisksChosen'
    BY <2>1 DEF Typed, TypeOK, Update, Goto, SnapsClean, DisksChosen
  <2> QED
    BY <2>5, <2>6 DEF Typed
<1>3. CASE Record(p)
  <2> DEFINE g == UpsertVM(Loaded(file), name[p], Mine(p))
  <2>1. g \in File
    BY OwnWriteType, UpsertFacts
  <2>2. file' = [g EXCEPT !.disks = g.disks \cup {disk[p]}] /\ UNCHANGED run
        /\ Goto(p, "reserved", "recorded") /\ UNCHANGED <<snap, hist>>
    BY <1>3 DEF Record, Update
  <2> HIDE DEF g
  <2>3. g.disks \cup {disk[p]} \in SUBSET Disks
    BY <2>1, <2>2, OwnWriteType DEF Goto, File
  <2>4. file' \in File
    BY <2>1, <2>2, <2>3, DisksFacts
  <2> QED
    BY <2>2, <2>4, TypedSteps DEF Goto, hist, Typed, TypeOK
<1>4. ASSUME NEW v \in {Mine(p), Stopped(p)}, NEW from, NEW to \in {"running", "ended"},
             from \in {"recorded", "running"},
             Update(p, from, to, UpsertVM(Loaded(file), name[p], v)), UNCHANGED run
      PROVE  Typed'
  <2>1. file' \in File
    BY <1>4, OwnWriteType, UpsertFacts DEF Update
  <2> QED
    BY <1>4, <2>1, TypedSteps DEF Update, Goto, hist, Typed, TypeOK
<1>5. CASE Goto(p, "recorded", "running") /\ UNCHANGED <<file, run, snap, hist>>
  BY <1>5, TypedSteps DEF Goto, hist, Typed, TypeOK
<1>6. CASE RecordIP(p)
  <2>1. file' \in File
    BY <1>6, OwnWriteType DEF RecordIP, Update
  <2> QED
    BY <1>6, <2>1, TypedSteps DEF RecordIP, Update, Goto, hist, Typed, TypeOK
<1>7. CASE Release(p)
  <2>1. file' \in File
    BY <1>7, OwnWriteType, RemoveFacts DEF Release, Update
  <2> QED
    BY <1>7, <2>1, TypedSteps DEF Release, Update, Goto, hist, Typed, TypeOK
<1>8. CASE End(p)
  BY <1>8, TypedSteps DEF End, hist, Typed, TypeOK
<1>9. ASSUME NEW from, NEW own, NEW st \in File, PlainSave(p, from, own, st)
      PROVE  Typed'
  BY <1>9, TypedSteps DEF PlainSave, Goto, Typed, TypeOK
<1>10. CASE FinalizeFallback(p)
  <2> DEFINE g == UpsertVM(snap[p], name[p], Stopped(p))
  <2>1. g \in File
    BY OwnWriteType, UpsertFacts
  <2>2. PlainSave(p, "running", {name[p]}, [g EXCEPT !.disks = g.disks \cup {disk[p]}])
    BY <1>10 DEF FinalizeFallback
  <2> HIDE DEF g
  <2>3. g.disks \cup {disk[p]} \in SUBSET Disks
    BY <2>1, <2>2, OwnWriteType DEF PlainSave, Goto, File
  <2> QED
    BY <1>9, <2>1, <2>2, <2>3, DisksFacts
<1>11. CASE SetupLoads(p)
  <2>1. TypeOK'
    BY <1>11, LoadedClean DEF Typed, TypeOK, SetupLoads, Goto, run, hist
  <2>2. SnapsClean' /\ DisksChosen'
    BY <1>11, LoadedClean DEF Typed, TypeOK, SetupLoads, Goto, run, SnapsClean, DisksChosen
  <2> QED
    BY <2>1, <2>2 DEF Typed
<1>12. CASE SetupSaves(p)
  BY <1>9, <1>12, OwnWriteType DEF SetupSaves
<1>13. ASSUME NEW D, NEW N, Reset(p, D, N) PROVE Typed'
  <2> DEFINE g == RemoveVMs(Loaded(file), N)
  <2>1. g \in File
    BY OwnWriteType, RemoveFacts
  <2>2. file' = [g EXCEPT !.disks = g.disks \ D] /\ Goto(p, "idle", "ended")
        /\ UNCHANGED <<run, snap, hist>>
    BY <1>13 DEF Reset
  <2> HIDE DEF g
  <2>3. file' \in File
    BY <2>1, <2>2, DisksFacts DEF File
  <2> QED
    BY <2>2, <2>3, TypedSteps DEF Goto, hist, Typed, TypeOK
<1> QED
  BY <1>1, <1>2, <1>3, <1>4, <1>5, <1>6, <1>7, <1>8, <1>10, <1>11, <1>12, <1>13
  DEF Step, Launch, LaunchFails, Finalize, ResetAll, ResetDisk

LEMMA NextTyped == Typed /\ [Next]_vars => Typed'
<1> SUFFICES ASSUME Typed, [Next]_vars PROVE Typed'
  OBVIOUS
<1>1. CASE End(OldQemu)
  BY <1>1, TypedSteps DEF End, hist, Typed, TypeOK, Procs
<1>2. CASE NewerBinarySaves
  <2> DEFINE g == Loaded(file)
  <2>1. g \in File
    BY LoadedClean DEF Typed, TypeOK
  <2>2. file' = [g EXCEPT !.version = SchemaVersion + 1]
    BY <1>2 DEF NewerBinarySaves
  <2> HIDE DEF g
  <2>3. file' \in File
    BY <2>1, <2>2 DEF File, SchemaVersion
  <2>4. TypeOK' /\ SnapsClean' /\ DisksChosen'
    BY <1>2, <2>3 DEF Typed, TypeOK, NewerBinarySaves, run, hist, SnapsClean, DisksChosen
  <2> QED
    BY <2>4 DEF Typed
<1>3. CASE UNCHANGED vars
  BY <1>3 DEF vars, run, hist, Typed, TypeOK, SnapsClean, DisksChosen
<1> QED
  BY <1>1, <1>2, <1>3, StepTyped DEF Next

(* Every variable keeps its type: what Load returns and what is written    *)
(* back is a state file, for any names and any number of invocations.      *)
THEOREM TypeCorrect == Spec => []TypeOK
<1>1. Spec => []Typed
  BY InitTyped, NextTyped, PTL DEF Spec
<1>2. Typed => TypeOK
  BY DEF Typed
<1> QED
  BY <1>1, <1>2, PTL

-----------------------------------------------------------------------------
(* The running VMs and their records                                       *)

Recorded(f, n, i, q) ==
  Holds(Loaded(f), n) /\ Loaded(f).vms[n].index = i /\ Loaded(f).vms[n].holder = q

IInv == Typed /\ RunningVMLoads /\ IndicesDistinct

(* Two running VMs have two names: a name has one holder.                  *)
LEMMA NamesDistinct ==
  ASSUME IInv, NEW p \in Invocations, NEW q \in Procs \ {p},
         Started(p), Started(q), Trusted(q), ~overwritten
  PROVE  name[p] # name[q]
<1> p \in Procs /\ p # OldQemu
  BY DEF Procs
<1>1. CASE Trusted(p)
  BY <1>1 DEF IInv, RunningVMLoads
<1>2. CASE ~Trusted(p)
  BY <1>2 DEF Trusted
<1> QED
  BY <1>1, <1>2

(* A step after which the running VMs are among those before it, with the  *)
(* records they had.                                                       *)
LEMMA KeptRecords ==
  ASSUME IInv,
         \A q \in Procs : (Started(q) /\ Trusted(q) /\ ~overwritten)' =>
           /\ Started(q) /\ Trusted(q) /\ ~overwritten
           /\ name'[q] = name[q] /\ index'[q] = index[q]
           /\ Loaded(file').vms[name[q]] = Loaded(file).vms[name[q]]
  PROVE  RunningVMLoads' /\ IndicesDistinct'
<1>1. RunningVMLoads'
  BY DEF IInv, RunningVMLoads, Holds
<1>2. IndicesDistinct'
  BY DEF IInv, IndicesDistinct
<1> QED
  BY <1>1, <1>2

(* A step of a start that has an index, which writes its own record only.  *)
LEMMA OwnWrite ==
  ASSUME IInv, NEW p \in Invocations, Started(p), file' \in File, file'.legacy = NoVM,
         UNCHANGED <<name, index, misread>>, overwritten => overwritten',
         \A q \in Procs \ {p} : pc'[q] = pc[q],
         ~overwritten' => \A m \in VMNames \ {name[p]} : file'.vms[m] = Loaded(file).vms[m],
         Started(p)' => file'.vms[name[p]] = Mine(p)
  PROVE  RunningVMLoads' /\ IndicesDistinct'
<1> p \in Procs /\ p # OldQemu
  BY DEF Procs
<1>1. ASSUME NEW q \in Procs, (Started(q) /\ Trusted(q) /\ ~overwritten)'
      PROVE  /\ Started(q) /\ Trusted(q) /\ ~overwritten
             /\ Recorded(file', name[q], index[q], q)
  <2>1. Trusted(q) /\ ~overwritten /\ ~overwritten'
    BY <1>1 DEF Trusted
  <2>2. name[q] \in VMNames /\ name[p] \in VMNames /\ index[p] \in Indices /\ file \in File
    BY DEF IInv, Typed, TypeOK
  <2>3. CASE q = p
    <3>1. file'.vms[name[p]] = VMRecord(p, index[p])
      BY <1>1, <2>3 DEF Mine
    <3>2. NameLoads(name[p])
      BY <2>1, <2>3 DEF Trusted
    <3>3. /\ Valid(name[p], VMRecord(p, index[p])) /\ VMRecord(p, index[p]) \in VM
          /\ VMRecord(p, index[p]).index = index[p] /\ VMRecord(p, index[p]).holder = p
      BY <2>2, <3>2, RecordFacts
    <3>4. Loaded(file').vms[name[p]] = VMRecord(p, index[p])
      BY <2>2, <3>1, <3>3, LoadedAt DEF Clean
    <3>5. Recorded(file', name[p], index[p], p)
      BY <3>3, <3>4 DEF Recorded, Holds
    <3> QED
      BY <2>1, <2>3, <3>5
  <2>4. CASE q # p
    <3>1. Started(q)
      BY <1>1, <2>4 DEF Started
    <3>2. name[q] # name[p]
      BY <2>1, <2>4, <3>1, NamesDistinct
    <3>3. file'.vms[name[q]] = Loaded(file).vms[name[q]]
      BY <2>1, <2>2, <3>2
    <3>4. Loaded(file').vms[name[q]] = Loaded(file).vms[name[q]]
      BY <2>2, <3>3, LoadedAgain
    <3> QED
      BY <2>1, <3>1, <3>4 DEF IInv, RunningVMLoads, Recorded, Holds
  <2> QED
    BY <2>3, <2>4
<1>2. RunningVMLoads'
  BY <1>1 DEF RunningVMLoads, Recorded
<1>3. IndicesDistinct'
  BY <1>1 DEF IInv, IndicesDistinct
<1> QED
  BY <1>2, <1>3

LEMMA ReserveSafe ==
  ASSUME IInv, NEW p \in Invocations, Reserve(p)
  PROVE  RunningVMLoads' /\ IndicesDistinct'
<1> DEFINE f == Loaded(file)
<1> p \in Procs /\ p # OldQemu
  BY DEF Procs
<1>1. PICK i \in NextFreeVMIndex(f) :
        /\ MayReserve(f, name[p])
        /\ index' = [index EXCEPT ![p] = i]
        /\ Update(p, "loaded", "reserved", UpsertVM(f, name[p], VMRecord(p, i)))
        /\ UNCHANGED <<name, disk>>
  BY DEF Reserve
<1>2. i \in Indices /\ \A m \in VMNames : Live(f.vms[m]) => f.vms[m].index # i
  BY NextFreeFacts
<1>3. /\ file \in File /\ name \in [Procs -> VMNames] /\ index \in [Procs -> 0..OutOfRange]
      /\ pc \in [Procs -> {"idle", "loaded", "reserved", "recorded", "running", "setup", "ended"}]
  BY DEF IInv, Typed, TypeOK
<1>4. f \in File /\ f.legacy = NoVM
  BY <1>3, LoadedClean DEF CleanState
<1>5. /\ file' \in File /\ file'.legacy = NoVM /\ file'.vms[name[p]] = VMRecord(p, i)
      /\ \A m \in VMNames : m # name[p] => file'.vms[m] = f.vms[m]
  <2> HIDE DEF f
  <2>1. VMRecord(p, i) \in VM
    BY <1>2, RecordFacts
  <2>2. file' = UpsertVM(f, name[p], VMRecord(p, i)) /\ name[p] \in VMNames
    BY <1>1, <1>3 DEF Update
  <2> QED
    BY <1>4, <2>1, <2>2, UpsertFacts
<1>6. pc' = [pc EXCEPT ![p] = "reserved"] /\ UNCHANGED <<name, snap, overwritten, misread>>
  BY <1>1 DEF Update, Goto, hist
<1>7. ASSUME NEW q \in Procs \ {p}, (Started(q) /\ Trusted(q) /\ ~overwritten)'
      PROVE  /\ Started(q) /\ Trusted(q) /\ ~overwritten /\ index'[q] = index[q]
             /\ index[q] # i /\ Recorded(file', name[q], index[q], q)
  <2>1. Started(q) /\ Trusted(q) /\ ~overwritten /\ index'[q] = index[q]
    BY <1>1, <1>3, <1>6, <1>7 DEF Started, Trusted
  <2>2. f.vms[name[q]] # NoVM /\ f.vms[name[q]].index = index[q] /\ f.vms[name[q]].holder = q
    BY <2>1 DEF IInv, RunningVMLoads, Holds
  <2>3. Live(f.vms[name[q]])
    BY <2>1, <2>2 DEF Live, Alive, Started
  <2>4. index[q] # i /\ name[q] # name[p]
    BY <1>1, <1>2, <1>3, <2>2, <2>3 DEF MayReserve
  <2>5. Loaded(file').vms[name[q]] = f.vms[name[q]]
    BY <1>3, <1>5, <2>4, LoadedAgain
  <2> QED
    BY <2>1, <2>2, <2>4, <2>5 DEF Recorded, Holds
<1>8. ASSUME Trusted(p)'
      PROVE  index'[p] = i /\ Recorded(file', name[p], i, p)
  <2>1. NameLoads(name[p]) /\ name[p] \in VMNames /\ i \in Indices
    BY <1>2, <1>3, <1>6, <1>8 DEF Trusted
  <2>2. /\ Valid(name[p], VMRecord(p, i)) /\ VMRecord(p, i) \in VM
        /\ VMRecord(p, i).index = i /\ VMRecord(p, i).holder = p
    BY <2>1, RecordFacts
  <2>3. Loaded(file').vms[name[p]] = VMRecord(p, i)
    BY <1>5, <2>1, <2>2, LoadedAt DEF Clean
  <2>4. Recorded(file', name[p], i, p)
    BY <2>2, <2>3 DEF Recorded, Holds
  <2> QED
    BY <1>1, <1>3, <2>4
<1>9. RunningVMLoads'
  BY <1>6, <1>7, <1>8 DEF RunningVMLoads, Recorded
<1>10. IndicesDistinct'
  BY <1>1, <1>3, <1>6, <1>7, <1>8 DEF IInv, IndicesDistinct
<1> QED
  BY <1>9, <1>10

(* The state a later step of a start writes: its own record, in what that  *)
(* step loaded.                                                            *)
LEMMA OwnUpsert ==
  ASSUME IInv, NEW p \in Invocations, Started(p), NEW from, NEW to, NEW v \in {Mine(p), Stopped(p)},
         NEW D \in SUBSET Disks,
         LET g == UpsertVM(Loaded(file), name[p], v)
         IN  Update(p, from, to, g) \/ Update(p, from, to, [g EXCEPT !.disks = D]),
         UNCHANGED run, to = "ended" \/ v = Mine(p)
  PROVE  RunningVMLoads' /\ IndicesDistinct'
<1> DEFINE f == Loaded(file)
           g == UpsertVM(f, name[p], v)
<1>1. f \in File /\ f.legacy = NoVM /\ name[p] \in VMNames /\ v \in VM
  BY OwnWriteType, LoadedClean DEF IInv, Typed, TypeOK, CleanState
<1>2. Goto(p, from, to) /\ file' \in {g, [g EXCEPT !.disks = D]} /\ UNCHANGED hist
  BY DEF Update
<1> HIDE DEF f
<1>3. /\ g \in File /\ g.legacy = NoVM /\ g.vms[name[p]] = v
      /\ \A m \in VMNames : m # name[p] => g.vms[m] = f.vms[m]
  BY <1>1, UpsertFacts
<1> HIDE DEF g
<1>4. [g EXCEPT !.disks = D] \in File /\ [g EXCEPT !.disks = D].legacy = NoVM
      /\ [g EXCEPT !.disks = D].vms = g.vms
  BY <1>3, DisksFacts
<1>5. file' \in File /\ file'.legacy = NoVM /\ file'.vms = g.vms
  BY <1>2, <1>3, <1>4
<1>6. (\A q \in Procs \ {p} : pc'[q] = pc[q]) /\ (Started(p)' => v = Mine(p))
  BY <1>2 DEF Goto, Started, IInv, Typed, TypeOK, Procs
<1> QED
  BY <1>2, <1>3, <1>5, <1>6, OwnWrite DEF f, hist, run

(* A plain Save that changes nothing but what is its own.                  *)
LEMMA PlainSaveSafe ==
  ASSUME IInv, NEW p \in Invocations, NEW from \in {"running", "setup"},
         NEW own, NEW st, st \in File, st.legacy = NoVM,
         PlainSave(p, from, own, st),
         own = {} \/ (own = {name[p]} /\ from = "running")
  PROVE  RunningVMLoads' /\ IndicesDistinct'
<1> p \in Procs
  BY DEF Procs
<1> DEFINE f == Loaded(file)
<1>1. /\ pc[p] = from /\ pc' = [pc EXCEPT ![p] = "ended"] /\ file' = st
      /\ UNCHANGED <<name, index, misread>> /\ (overwritten => overwritten')
      /\ ~overwritten' => \A m \in VMNames \ own : st.vms[m] = f.vms[m]
  BY DEF PlainSave, Goto, run
<1>2. ~Started(p)' /\ \A q \in Procs \ {p} : pc'[q] = pc[q]
  BY <1>1 DEF Started, IInv, Typed, TypeOK
<1>3. CASE own = {name[p]} /\ from = "running"
  <2>1. Started(p) /\ file' \in File /\ file'.legacy = NoVM
    BY <1>1, <1>3 DEF Started
  <2>2. ~overwritten' => \A m \in VMNames \ {name[p]} : file'.vms[m] = Loaded(file).vms[m]
    BY <1>1, <1>3
  <2> QED
    BY <1>1, <1>2, <2>1, <2>2, OwnWrite
<1>4. CASE own = {}
  <2>1. ASSUME NEW q \in Procs, (Started(q) /\ Trusted(q) /\ ~overwritten)'
        PROVE  /\ Started(q) /\ Trusted(q) /\ ~overwritten
               /\ name'[q] = name[q] /\ index'[q] = index[q]
               /\ Loaded(file').vms[name[q]] = Loaded(file).vms[name[q]]
    <3>1. Started(q) /\ Trusted(q) /\ ~overwritten
      BY <1>1, <1>2, <2>1 DEF Started, Trusted
    <3>2. name[q] \in VMNames /\ file \in File
      BY DEF IInv, Typed, TypeOK
    <3>3. file'.vms[name[q]] = Loaded(file).vms[name[q]]
      BY <1>1, <1>4, <2>1, <3>2
    <3> QED
      BY <1>1, <3>1, <3>2, <3>3, LoadedAgain
  <2> QED
    BY <2>1, KeptRecords
<1> QED
  BY <1>3, <1>4

(* A reset spares the records of live VMs.                                 *)
LEMMA ResetSafe ==
  ASSUME IInv, NEW p \in Invocations, NEW D, NEW N, Reset(p, D, N), N \subseteq VMNames
  PROVE  RunningVMLoads' /\ IndicesDistinct'
<1> p \in Procs
  BY DEF Procs
<1> DEFINE f == Loaded(file)
           g == RemoveVMs(f, N)
<1>1. f \in File /\ f.legacy = NoVM /\ file \in File
  BY LoadedClean DEF IInv, Typed, TypeOK, CleanState
<1>2. /\ \A n \in N : ~Live(f.vms[n])
      /\ pc[p] = "idle" /\ pc' = [pc EXCEPT ![p] = "ended"]
      /\ file' = [g EXCEPT !.disks = g.disks \ D] /\ UNCHANGED <<name, index, overwritten, misread>>
  BY DEF Reset, Goto, run, hist
<1> HIDE DEF f
<1>3. /\ g \in File /\ g.legacy = NoVM
      /\ \A m \in VMNames : g.vms[m] = IF m \in N THEN NoVM ELSE f.vms[m]
  BY <1>1, RemoveFacts
<1> HIDE DEF g
<1>4. g.disks \ D \in SUBSET Disks
  BY <1>3 DEF File
<1>5. file' \in File /\ file'.legacy = NoVM /\ file'.vms = g.vms
  BY <1>2, <1>3, <1>4, DisksFacts
<1>6. ASSUME NEW q \in Procs, (Started(q) /\ Trusted(q) /\ ~overwritten)'
      PROVE  /\ Started(q) /\ Trusted(q) /\ ~overwritten
             /\ name'[q] = name[q] /\ index'[q] = index[q]
             /\ Loaded(file').vms[name[q]] = Loaded(file).vms[name[q]]
  <2>1. Started(q) /\ Trusted(q) /\ ~overwritten /\ name[q] \in VMNames
    BY <1>2, <1>6 DEF Started, Trusted, IInv, Typed, TypeOK
  <2>2. f.vms[name[q]] # NoVM /\ f.vms[name[q]].holder = q
    BY <2>1 DEF IInv, RunningVMLoads, Holds, f
  <2>3. q # Nobody /\ Alive(q)
    BY <2>1 DEF Alive, Started
  <2>4. Live(f.vms[name[q]])
    BY <2>2, <2>3 DEF Live
  <2>5. name[q] \notin N
    BY <1>2, <2>4
  <2>6. file'.vms[name[q]] = Loaded(file).vms[name[q]]
    BY <1>3, <1>5, <2>1, <2>5 DEF f
  <2> QED
    BY <1>1, <1>2, <1>5, <2>1, <2>6, LoadedAgain
<1> QED
  BY <1>6, KeptRecords

(* The steps that leave what Load returns as it was.                       *)
LEMMA SameLoad ==
  ASSUME IInv, file' = file \/ (file' \in File /\ file'.legacy = NoVM /\ file'.vms = Loaded(file).vms),
         UNCHANGED hist,
         \A q \in Procs : Started(q)' => Started(q) /\ name'[q] = name[q] /\ index'[q] = index[q]
  PROVE  RunningVMLoads' /\ IndicesDistinct'
<1>1. ASSUME NEW q \in Procs, (Started(q) /\ Trusted(q) /\ ~overwritten)'
      PROVE  /\ Started(q) /\ Trusted(q) /\ ~overwritten
             /\ name'[q] = name[q] /\ index'[q] = index[q]
             /\ Loaded(file').vms[name[q]] = Loaded(file).vms[name[q]]
  <2>1. Started(q) /\ Trusted(q) /\ ~overwritten /\ name'[q] = name[q] /\ index'[q] = index[q]
    BY <1>1 DEF Trusted, hist
  <2>2. name[q] \in VMNames /\ file \in File
    BY DEF IInv, Typed, TypeOK
  <2> QED
    BY <2>1, <2>2, LoadedAgain
<1> QED
  BY <1>1, KeptRecords

LEMMA StepSafe ==
  ASSUME IInv, Typed', NEW p \in Invocations, Step(p)
  PROVE  RunningVMLoads' /\ IndicesDistinct'
<1> p \in Procs
  BY DEF Procs
<1>1. /\ pc \in [Procs -> {"idle", "loaded", "reserved", "recorded", "running", "setup", "ended"}]
      /\ name \in [Procs -> VMNames] /\ file \in File
      /\ Loaded(file) \in File /\ Loaded(file).legacy = NoVM
      /\ Loaded(file).disks \in SUBSET Disks
  BY LoadedClean DEF IInv, Typed, TypeOK, CleanState, File
<1>2. ASSUME NEW d \in Disks, StartLoads(p, d)
      PROVE  RunningVMLoads' /\ IndicesDistinct'
  <2>1. \A q \in Procs : Started(q)' => Started(q) /\ name'[q] = name[q] /\ index'[q] = index[q]
    BY <1>1, <1>2 DEF StartLoads, Goto, Started
  <2> QED
    BY <1>2, <2>1, SameLoad DEF StartLoads
<1>3. CASE Record(p)
  <2>1. disk[p] \in Disks /\ Started(p)
    BY <1>3, OwnWriteType DEF Record, Update, Goto, IInv, Started
  <2>2. UpsertVM(Loaded(file), name[p], Mine(p)).disks = Loaded(file).disks
    BY <1>1 DEF UpsertVM, File
  <2>3. UpsertVM(Loaded(file), name[p], Mine(p)).disks \cup {disk[p]} \in SUBSET Disks
    BY <1>1, <2>1, <2>2
  <2> QED
    BY <1>3, <2>1, <2>3, OwnUpsert DEF Record
<1>4. ASSUME NEW v \in {Mine(p), Stopped(p)}, NEW from \in {"recorded", "running"}, NEW to,
             Update(p, from, to, UpsertVM(Loaded(file), name[p], v)), UNCHANGED run,
             to = "ended" \/ v = Mine(p)
      PROVE  RunningVMLoads' /\ IndicesDistinct'
  <2>1. Started(p)
    BY <1>4 DEF Update, Goto, Started
  <2> QED
    BY <1>4, <2>1, OwnUpsert
<1>5. CASE Goto(p, "recorded", "running") /\ UNCHANGED <<file, run, snap, hist>>
  <2>1. \A q \in Procs : Started(q)' => Started(q) /\ name'[q] = name[q] /\ index'[q] = index[q]
    BY <1>1, <1>5 DEF Goto, Started, run
  <2> QED
    BY <1>5, <2>1, SameLoad
<1>6. CASE RecordIP(p)
  <2>1. \A q \in Procs : Started(q)' => Started(q) /\ name'[q] = name[q] /\ index'[q] = index[q]
    BY <1>1, <1>6 DEF RecordIP, Update, Goto, Started, run
  <2> QED
    BY <1>1, <1>6, <2>1, SameLoad DEF RecordIP, Update
<1>7. CASE Release(p)
  <2> DEFINE f == Loaded(file)
  <2>1. /\ Goto(p, "reserved", "ended") /\ UNCHANGED <<run, hist>>
        /\ file' = IF Holds(f, name[p]) /\ f.vms[name[p]].holder = p
                   THEN RemoveVMs(f, {name[p]}) ELSE f
    BY <1>7 DEF Release, Update
  <2> HIDE DEF f
  <2>2. file' \in File /\ file'.legacy = NoVM
        /\ \A m \in VMNames \ {name[p]} : file'.vms[m] = f.vms[m]
    BY <1>1, <2>1, RemoveFacts DEF f
  <2>3. Started(p) /\ ~Started(p)' /\ \A q \in Procs \ {p} : pc'[q] = pc[q]
    BY <1>1, <2>1 DEF Goto, Started
  <2> QED
    BY <2>1, <2>2, <2>3, OwnWrite DEF run, hist, f
<1>8. CASE End(p)
  <2>1. \A q \in Procs : Started(q)' => Started(q) /\ name'[q] = name[q] /\ index'[q] = index[q]
    BY <1>1, <1>8 DEF End, Started, run
  <2> QED
    BY <1>8, <2>1, SameLoad DEF End
<1>9. CASE FinalizeFallback(p)
  <2> DEFINE g == UpsertVM(snap[p], name[p], Stopped(p))
             D == g.disks \cup {disk[p]}
  <2>1. g \in File /\ g.legacy = NoVM
    BY OwnWriteType, UpsertFacts DEF IInv, Typed, SnapsClean, CleanState
  <2>2. PlainSave(p, "running", {name[p]}, [g EXCEPT !.disks = D])
    BY <1>9 DEF FinalizeFallback
  <2> HIDE DEF g
  <2>3. D \in SUBSET Disks
    BY <2>1, <2>2, OwnWriteType DEF PlainSave, Goto, IInv, File
  <2>4. [g EXCEPT !.disks = D] \in File /\ [g EXCEPT !.disks = D].legacy = NoVM
    BY <2>1, <2>3, DisksFacts
  <2> QED
    BY <1>1, <2>2, <2>4, PlainSaveSafe
<1>10. CASE SetupLoads(p)
  <2>1. \A q \in Procs : Started(q)' => Started(q) /\ name'[q] = name[q] /\ index'[q] = index[q]
    BY <1>1, <1>10 DEF SetupLoads, Goto, Started, run
  <2> QED
    BY <1>10, <2>1, SameLoad DEF SetupLoads
<1>11. CASE SetupSaves(p)
  <2>1. snap[p] \in File /\ snap[p].legacy = NoVM
    BY OwnWriteType DEF IInv, Typed, SnapsClean, CleanState
  <2> DEFINE st == snap[p]
             own == {}
  <2>2. PlainSave(p, "setup", own, st)
    BY <1>11 DEF SetupSaves
  <2>3. st \in File /\ st.legacy = NoVM /\ own = {}
    BY <2>1
  <2> HIDE DEF st, own
  <2> QED
    BY <2>2, <2>3, PlainSaveSafe
<1>12. CASE ResetAll(p) \/ \E d \in Disks : ResetDisk(p, d)
  BY <1>12, ResetSafe DEF ResetAll, ResetDisk, VMNames
<1> QED
  BY <1>2, <1>3, <1>4, <1>5, <1>6, <1>7, <1>8, <1>9, <1>10, <1>11, <1>12, ReserveSafe
  DEF Step, Launch, LaunchFails, Finalize

LEMMA InitSafe == Init => IInv
<1> SUFFICES ASSUME Init PROVE RunningVMLoads /\ IndicesDistinct
  BY InitTyped DEF IInv
<1> PICK n \in VMNames, d \in Disks \cup {NoName}, i \in 0..OutOfRange, b \in BOOLEAN :
      /\ OldFile(file, n, d, i, b)
      /\ pc = [p \in Procs |-> IF p = OldQemu /\ b THEN "running" ELSE "idle"]
      /\ name = [p \in Procs |-> IF p = OldQemu THEN n ELSE NoName]
      /\ index = [p \in Procs |-> IF p = OldQemu THEN i ELSE 0]
      /\ misread = (b /\ ~Holds(Loaded(file), n))
  BY DEF Init
<1>1. ASSUME NEW q \in Procs, Started(q)
      PROVE  q = OldQemu /\ b /\ name[q] = n /\ index[q] = i
  BY <1>1 DEF Started
<1>2. file \in File
  BY OldFileType
<1>3. ASSUME b, Holds(Loaded(file), n)
      PROVE  Loaded(file).vms[n].index = i /\ Loaded(file).vms[n].holder = OldQemu
  <2>1. CASE \E l \in LegacyVM :
                /\ n = LegacyName(l) /\ i = 0 /\ l.holder = OldQemu
                /\ file = [version |-> 1, vms |-> NoVMs, legacy |-> l, disks |-> {d} \cap Disks]
    <3> PICK l \in LegacyVM :
                /\ n = LegacyName(l) /\ i = 0 /\ l.holder = OldQemu
                /\ file = [version |-> 1, vms |-> NoVMs, legacy |-> l, disks |-> {d} \cap Disks]
      BY <2>1
    <3>1. l # NoVM /\ NoVMs[n] = NoVM
      BY DEF NoVMs
    <3>2. Migrated(file) = [file EXCEPT !.vms = [NoVMs EXCEPT ![n] = MigratedRecord(l)], !.legacy = NoVM]
      BY <3>1 DEF Migrated
    <3>3. Migrated(file).vms = [NoVMs EXCEPT ![n] = MigratedRecord(l)]
      BY <3>2
    <3>4. Migrated(file).vms[n] = MigratedRecord(l)
      BY <3>3 DEF NoVMs
    <3>5. Loaded(file).vms[n] = MigratedRecord(l)
      BY <1>2, <1>3, <3>4, LoadedFromMigrated DEF Holds
    <3> QED
      BY <3>5 DEF MigratedRecord
  <2>2. ASSUME NEW v \in VM, n = d, i = v.index, v.holder = OldQemu,
               file = [version |-> 2, vms |-> [NoVMs EXCEPT ![n] = v], legacy |-> NoVM, disks |-> {d}]
        PROVE  Loaded(file).vms[n].index = i /\ Loaded(file).vms[n].holder = OldQemu
    <3>1. file.legacy = NoVM /\ file.vms[n] = v
      BY <2>2 DEF NoVMs
    <3>2. Loaded(file).vms[n] = v
      BY <1>2, <1>3, <3>1, LoadedAt DEF Holds
    <3> QED
      BY <2>2, <3>2
  <2> QED
    BY <1>3, <2>1, <2>2, ProcAssumption DEF OldFile, Procs
<1>4. RunningVMLoads
  BY <1>1, <1>3 DEF RunningVMLoads, Trusted
<1>5. IndicesDistinct
  BY <1>1 DEF IndicesDistinct
<1> QED
  BY <1>4, <1>5

LEMMA NextSafe == IInv /\ [Next]_vars => IInv'
<1> SUFFICES ASSUME IInv, [Next]_vars PROVE IInv'
  OBVIOUS
<1>1. Typed'
  BY NextTyped DEF IInv
<1>2. CASE End(OldQemu) \/ UNCHANGED vars
  <2>1. \A q \in Procs : Started(q)' => Started(q) /\ name'[q] = name[q] /\ index'[q] = index[q]
    BY <1>2 DEF End, Started, vars, run, IInv, Typed, TypeOK
  <2> QED
    BY <1>1, <1>2, <2>1, SameLoad DEF End, vars, IInv
<1>3. CASE NewerBinarySaves
  <2>1. \A q \in Procs : Started(q)' => Started(q) /\ name'[q] = name[q] /\ index'[q] = index[q]
    BY <1>3 DEF NewerBinarySaves, Started, run
  <2>2. Loaded(file) \in File /\ Loaded(file).legacy = NoVM
    BY LoadedClean DEF IInv, Typed, TypeOK, CleanState
  <2> DEFINE f == Loaded(file)
  <2>3. file' = [f EXCEPT !.version = SchemaVersion + 1]
    BY <1>3 DEF NewerBinarySaves
  <2>4. file' \in File
    BY <1>1 DEF Typed, TypeOK
  <2> HIDE DEF f
  <2>5. file'.legacy = NoVM /\ file'.vms = f.vms
    BY <2>2, <2>3 DEF f, File
  <2> QED
    BY <1>1, <1>3, <2>1, <2>4, <2>5, SameLoad DEF NewerBinarySaves, IInv, f
<1>4. ASSUME NEW p \in Invocations, Step(p) PROVE IInv'
  BY <1>1, <1>4, StepSafe DEF IInv
<1> QED
  BY <1>2, <1>3, <1>4 DEF Next

LEMMA InvCorrect == Spec => []IInv
BY InitSafe, NextSafe, PTL DEF Spec

-----------------------------------------------------------------------------
(* What is running, under a name Load accepts, is in the state the next    *)
(* command loads, with its index: unless a plain Save rolled it back.      *)
THEOREM RunningVMsLoad == Spec => []RunningVMLoads
<1>1. IInv => RunningVMLoads
  BY DEF IInv
<1> QED
  BY <1>1, InvCorrect, PTL

(* No two such VMs have one index (MAC addresses, taps, shared network).   *)
THEOREM IndicesCorrect == Spec => []IndicesDistinct
<1>1. IInv => IndicesDistinct
  BY DEF IInv
<1> QED
  BY <1>1, InvCorrect, PTL

(* No two such VMs run on one disk.                                        *)
THEOREM DisksCorrect == Spec => []DisksDistinct
<1>1. IInv => DisksDistinct
  BY DEF IInv, RunningVMLoads, DisksDistinct
<1> QED
  BY <1>1, InvCorrect, PTL

(* Both: the allocation and the refusal do what they are for on the states *)
(* Load returns.                                                           *)
THEOREM LiveVMsDistinctCorrect == Spec => []LiveVMsDistinct
BY IndicesCorrect, DisksCorrect, PTL DEF LiveVMsDistinct

-----------------------------------------------------------------------------
(* What one step may do to the file                                        *)

Own(p) ==
  /\ pc[p] # "idle" /\ pc'[p] # pc[p] /\ name' = name
  /\ overwritten' \/ \A m \in VMNames \ {name[p]} : file'.vms[m] = Loaded(file).vms[m]

Removal(p) ==
  /\ pc[p] = "idle" /\ pc'[p] = "ended"
  /\ \A m \in VMNames : file'.vms[m] \in {NoVM, Loaded(file).vms[m]}

Effect(p) ==
  file'.legacy = NoVM /\ (Own(p) \/ Removal(p) \/ file'.vms = Loaded(file).vms)

(* Under the lock and the version check: all but the plain Saves.          *)
Checked(p) ==
  Loads(file) \/ (pc[p] \in {"running", "setup"} /\ pc'[p] = "ended")

LEMMA StepEffect ==
  ASSUME Typed, NEW p \in Invocations, Step(p)
  PROVE  file' = file \/ (Effect(p) /\ Checked(p))
<1> p \in Procs
  BY DEF Procs
<1> DEFINE f == Loaded(file)
<1>1. /\ pc \in [Procs -> {"idle", "loaded", "reserved", "recorded", "running", "setup", "ended"}]
      /\ name[p] \in VMNames /\ file \in File /\ f \in File /\ f.legacy = NoVM
      /\ Mine(p) \in VM /\ Stopped(p) \in VM
      /\ snap[p] \in File /\ snap[p].legacy = NoVM
  BY LoadedClean, OwnWriteType DEF Typed, TypeOK, CleanState, SnapsClean
<1> HIDE DEF f
<1>2. ASSUME NEW from \in {"loaded", "reserved", "recorded", "running"}, NEW to, to # from,
             NEW v \in VM,
             Update(p, from, to, UpsertVM(f, name[p], v)), name' = name
      PROVE  Effect(p) /\ Checked(p)
  <2>1. file' = UpsertVM(f, name[p], v) /\ Loads(file) /\ pc[p] = from /\ pc'[p] = to
    BY <1>1, <1>2 DEF Update, Goto
  <2> DEFINE n == name[p]
             g == UpsertVM(f, n, v)
  <2>2. n \in VMNames /\ f \in File /\ f.legacy = NoVM
    BY <1>1
  <2> HIDE DEF n
  <2>3. g.legacy = f.legacy /\ \A m \in VMNames : m # n => g.vms[m] = f.vms[m]
    BY <2>2, UpsertFacts
  <2> HIDE DEF g
  <2>4. file'.legacy = NoVM /\ \A m \in VMNames \ {name[p]} : file'.vms[m] = f.vms[m]
    BY <2>1, <2>2, <2>3 DEF g, n
  <2> QED
    BY <1>2, <2>1, <2>4 DEF Effect, Own, Checked, f
<1>3. CASE Reserve(p)
  <2>1. PICK i \in NextFreeVMIndex(f) :
          Update(p, "loaded", "reserved", UpsertVM(f, name[p], VMRecord(p, i))) /\ name' = name
    BY <1>3 DEF Reserve, f
  <2>2. VMRecord(p, i) \in VM
    BY NextFreeFacts, RecordFacts
  <2> QED
    BY <1>2, <2>1, <2>2
<1>4. CASE Record(p)
  <2> DEFINE g == UpsertVM(f, name[p], Mine(p))
  <2>1. /\ file' = [g EXCEPT !.disks = g.disks \cup {disk[p]}] /\ Loads(file)
        /\ pc[p] = "reserved" /\ pc'[p] = "recorded" /\ name' = name
    BY <1>1, <1>4 DEF Record, Update, Goto, run, f
  <2>2. g \in File /\ g.legacy = NoVM /\ \A m \in VMNames \ {name[p]} : g.vms[m] = f.vms[m]
    BY <1>1, UpsertFacts
  <2> HIDE DEF g
  <2>3. file'.legacy = g.legacy /\ file'.vms = g.vms
    BY <2>1, <2>2 DEF File
  <2> QED
    BY <2>1, <2>2, <2>3 DEF Effect, Own, Checked, f
<1>5. CASE Launch(p) \/ LaunchFails(p) \/ Finalize(p)
  BY <1>1, <1>2, <1>5 DEF Launch, LaunchFails, Finalize, run, f
<1>6. CASE RecordIP(p)
  BY <1>1, <1>6 DEF RecordIP, Update, Effect, Checked, f
<1>7. CASE Release(p)
  <2>1. /\ file' = IF Holds(f, name[p]) /\ f.vms[name[p]].holder = p
                   THEN RemoveVMs(f, {name[p]}) ELSE f
        /\ Loads(file) /\ pc[p] = "reserved" /\ pc'[p] = "ended" /\ name' = name
    BY <1>1, <1>7 DEF Release, Update, Goto, run, f
  <2>2. file'.legacy = NoVM /\ \A m \in VMNames \ {name[p]} : file'.vms[m] = f.vms[m]
    BY <1>1, <2>1, RemoveFacts
  <2> QED
    BY <2>1, <2>2 DEF Effect, Own, Checked, f
<1>8. ASSUME NEW from \in {"running", "setup"}, NEW own, NEW st, PlainSave(p, from, own, st),
             st.legacy = NoVM, own \subseteq {name[p]}
      PROVE  Effect(p) /\ Checked(p)
  <2>1. /\ pc[p] = from /\ pc'[p] = "ended" /\ file' = st /\ name' = name
        /\ overwritten' \/ \A m \in VMNames \ own : st.vms[m] = f.vms[m]
    BY <1>1, <1>8 DEF PlainSave, Goto, run, f
  <2> QED
    BY <1>8, <2>1 DEF Effect, Own, Checked, f
<1>9. CASE FinalizeFallback(p)
  <2> DEFINE g == UpsertVM(snap[p], name[p], Stopped(p))
             st == [g EXCEPT !.disks = g.disks \cup {disk[p]}]
  <2>1. g \in File /\ g.legacy = NoVM
    BY <1>1, UpsertFacts
  <2>2. PlainSave(p, "running", {name[p]}, st)
    BY <1>9 DEF FinalizeFallback
  <2> HIDE DEF g
  <2>3. st.legacy = NoVM
    BY <2>1 DEF File
  <2> QED
    BY <1>8, <2>2, <2>3
<1>10. CASE SetupSaves(p)
  BY <1>1, <1>8, <1>10 DEF SetupSaves
<1>11. ASSUME NEW D, NEW N, Reset(p, D, N) PROVE Effect(p) /\ Checked(p)
  <2> DEFINE g == RemoveVMs(f, N)
  <2>1. /\ file' = [g EXCEPT !.disks = g.disks \ D] /\ Loads(file)
        /\ pc[p] = "idle" /\ pc'[p] = "ended"
    BY <1>1, <1>11 DEF Reset, Goto, f
  <2>2. g \in File /\ g.legacy = NoVM /\ \A m \in VMNames : g.vms[m] \in {NoVM, f.vms[m]}
    BY <1>1, RemoveFacts
  <2> HIDE DEF g
  <2>3. file'.legacy = g.legacy /\ file'.vms = g.vms
    BY <2>1, <2>2 DEF File
  <2> QED
    BY <2>1, <2>2, <2>3 DEF Effect, Removal, Checked, f
<1> QED
  BY <1>3, <1>4, <1>5, <1>6, <1>7, <1>9, <1>10, <1>11
  DEF Step, StartLoads, End, SetupLoads, ResetAll, ResetDisk, Launch

(* A record, as Load returns it, appears, changes or goes only by a step   *)
(* of a start of its name, by a reset, or by a plain Save that was noted.  *)
THEOREM OwnRecordCorrect == Spec => OnlyOwnRecordChanges
<1> DEFINE A ==
      \A n \in VMNames :
       Loaded(file').vms[n] # Loaded(file).vms[n] =>
         \/ overwritten'
         \/ \E p \in Invocations : pc[p] # pc'[p] /\ name[p] = n /\ pc[p] # "idle"
         \/ \E p \in Invocations : pc[p] = "idle" /\ pc'[p] = "ended" /\ ~Holds(Loaded(file'), n)
<1>1. IInv /\ IInv' /\ [Next]_vars => [A]_vars
  <2> SUFFICES ASSUME IInv, IInv', Next, NEW n \in VMNames,
                      Loaded(file').vms[n] # Loaded(file).vms[n], ~overwritten'
               PROVE  \E p \in Invocations :
                        \/ pc[p] # pc'[p] /\ name[p] = n /\ pc[p] # "idle"
                        \/ pc[p] = "idle" /\ pc'[p] = "ended" /\ ~Holds(Loaded(file'), n)
    BY DEF vars
  <2>1. file \in File /\ file' \in File
    BY DEF IInv, Typed, TypeOK
  <2>2. file' # file
    OBVIOUS
  <2>3. CASE NewerBinarySaves
    <3> DEFINE f == Loaded(file)
    <3>1. f \in File /\ f.legacy = NoVM /\ file' = [f EXCEPT !.version = SchemaVersion + 1]
      BY <2>1, <2>3, LoadedClean DEF NewerBinarySaves, CleanState
    <3> HIDE DEF f
    <3>2. file'.legacy = NoVM /\ file'.vms[n] = f.vms[n]
      BY <3>1 DEF File
    <3> QED
      BY <2>1, <3>2, LoadedAgain DEF f
  <2>4. ASSUME NEW p \in Invocations, Step(p)
        PROVE  \/ pc[p] # pc'[p] /\ name[p] = n /\ pc[p] # "idle"
               \/ pc[p] = "idle" /\ pc'[p] = "ended" /\ ~Holds(Loaded(file'), n)
    <3>1. Effect(p)
      BY <2>2, <2>4, StepEffect DEF IInv
    <3>2. file'.legacy = NoVM /\ file'.vms[n] # Loaded(file).vms[n]
      BY <2>1, <3>1, LoadedAgain DEF Effect
    <3>3. CASE Own(p)
      BY <3>2, <3>3 DEF Own
    <3>4. CASE Removal(p)
      <4>1. file'.vms[n] = NoVM
        BY <3>2, <3>4 DEF Removal
      <4>2. Loaded(file').vms[n] = NoVM
        BY <2>1, <3>2, <4>1, LoadedAt
      <4> QED
        BY <3>4, <4>2 DEF Removal, Holds
    <3> QED
      BY <3>1, <3>2, <3>3, <3>4 DEF Effect
  <2> QED
    BY <2>2, <2>3, <2>4 DEF Next, End
<1> QED
  BY <1>1, InvCorrect, PTL DEF Spec, OnlyOwnRecordChanges

(* The file of a newer binary is written over only by a plain Save.        *)
THEOREM NewerFileCorrect == Spec => NewerFileKept
<1> DEFINE A ==
      file.version > SchemaVersion /\ file' # file =>
        \E p \in Invocations : pc[p] \in {"running", "setup"} /\ pc'[p] = "ended"
<1>1. IInv /\ [Next]_vars => [A]_vars
  <2> SUFFICES ASSUME IInv, Next, file.version > SchemaVersion, file' # file
               PROVE  \E p \in Invocations : pc[p] \in {"running", "setup"} /\ pc'[p] = "ended"
    BY DEF vars
  <2>1. ~Loads(file)
    BY DEF Loads, SchemaVersion, IInv, Typed, TypeOK, File
  <2>2. PICK p \in Invocations : Step(p)
    BY <2>1 DEF Next, End, NewerBinarySaves
  <2> QED
    BY <2>1, <2>2, StepEffect DEF Checked, IInv
<1> QED
  BY <1>1, InvCorrect, PTL DEF Spec, NewerFileKept

-----------------------------------------------------------------------------
(* The records implement the registry                                      *)

(* What the next command finds under the name n.                           *)
Rec(n) == Loaded(file).vms[n]

HadIndex == {"reserved", "recorded", "running", "ended"}

(* Until a plain Save rolls the file back, a record is of the one who      *)
(* reserved it, at his name and with his index, live or not.               *)
RecordsOfHolders ==
  ~overwritten =>
    \A n \in VMNames :
      Rec(n) # NoVM /\ Rec(n).holder # Nobody =>
        LET h == Rec(n).holder IN
        h \in Procs /\ pc[h] \in HadIndex /\ name[h] = n /\ index[h] = Rec(n).index

(* A step is one process's, which keeps its name and index once it has     *)
(* them.                                                                   *)
Acts(p) ==
  /\ pc[p] # "ended"
  /\ pc[p] \in HadIndex => pc'[p] \in HadIndex /\ name'[p] = name[p] /\ index'[p] = index[p]
  /\ pc[p] = "setup" => pc'[p] \in {"setup", "ended"}
  /\ \A q \in Procs \ {p} : pc'[q] = pc[q] /\ name'[q] = name[q] /\ index'[q] = index[q]

SameElsewhere(n) == \A m \in VMNames \ {n} : Rec(m)' = Rec(m)

Keeps == \A m \in VMNames : Rec(m)' = Rec(m)

Reserves(p, n) ==
  /\ pc[p] = "loaded" /\ pc'[p] = "reserved" /\ name[p] = n /\ name'[p] = n
  /\ index'[p] \in Indices /\ \A m \in VMNames : Live(Rec(m)) => Rec(m).index # index'[p]
  /\ ~Live(Rec(n)) /\ SameElsewhere(n)
  /\ Rec(n)' \in {NoVM, VMRecord(p, index'[p])}

Writes(p, n) ==
  /\ Started(p) /\ name[p] = n /\ SameElsewhere(n)
  /\ Rec(n)' \in {NoVM, Mine(p), Stopped(p)}
  /\ \/ Rec(n) = NoVM /\ Rec(n)' = NoVM
     \/ Rec(n) # NoVM /\ Rec(n).holder = p /\ Rec(n).index = index[p]

Removes(p) ==
  /\ pc[p] = "idle" /\ pc'[p] = "ended"
  /\ \A m \in VMNames : Rec(m)' = Rec(m) \/ (Rec(m)' = NoVM /\ ~Live(Rec(m)))

LEMMA StepActs ==
  ASSUME Typed, NEW p \in Invocations, Step(p)
  PROVE  Acts(p)
<1>1. /\ p \in Procs
      /\ pc \in [Procs -> {"idle", "loaded", "reserved", "recorded", "running", "setup", "ended"}]
      /\ name \in [Procs -> VMNames] /\ index \in [Procs -> 0..OutOfRange]
  BY DEF Typed, TypeOK, Procs
<1> USE DEF Acts, HadIndex, Goto, run, Update
<1>2. ASSUME NEW d \in Disks, StartLoads(p, d) PROVE Acts(p)
  BY <1>1, <1>2 DEF StartLoads
<1>3. CASE Reserve(p)
  BY <1>1, <1>3 DEF Reserve
<1>4. CASE Record(p) \/ Launch(p) \/ LaunchFails(p) \/ RecordIP(p)
  BY <1>1, <1>4 DEF Record, Launch, LaunchFails, RecordIP
<1>5. CASE Finalize(p) \/ Release(p) \/ End(p)
  BY <1>1, <1>5 DEF Finalize, Release, End, Alive
<1>6. CASE FinalizeFallback(p) \/ SetupLoads(p) \/ SetupSaves(p)
  BY <1>1, <1>6 DEF FinalizeFallback, SetupLoads, SetupSaves, PlainSave
<1>7. ASSUME NEW D, NEW N, Reset(p, D, N) PROVE Acts(p)
  BY <1>1, <1>7 DEF Reset
<1> QED
  BY <1>2, <1>3, <1>4, <1>5, <1>6, <1>7 DEF Step, ResetAll, ResetDisk

(* What a start past its reservation writes under its name.                *)
LEMMA OwnRecord ==
  ASSUME Typed, NEW p \in Invocations, Step(p), Started(p), file' # file
  PROVE  file'.vms[name[p]] \in {NoVM, Mine(p), Stopped(p), Rec(name[p])}
<1> DEFINE f == Loaded(file)
           n == name[p]
<1>1. /\ n \in VMNames /\ f \in File /\ snap[p] \in File
      /\ Mine(p) \in VM /\ Stopped(p) \in VM
      /\ Loaded(file).vms[n] = f.vms[n]
  BY OwnWriteType
<1>2. pc[p] \in {"reserved", "recorded", "running"}
  BY DEF Started
<1> HIDE DEF f, n
<1>3. ASSUME NEW g \in File, NEW v \in {Mine(p), Stopped(p)}, NEW D,
             file' \in {UpsertVM(g, n, v), [UpsertVM(g, n, v) EXCEPT !.disks = D]}
      PROVE  file'.vms[n] = v
  <2> DEFINE u == UpsertVM(g, n, v)
  <2>1. u \in File /\ u.vms[n] = v
    BY <1>1, <1>3, UpsertFacts
  <2>2. file' \in {u, [u EXCEPT !.disks = D]}
    BY <1>3
  <2> HIDE DEF u
  <2>3. [u EXCEPT !.disks = D].vms = u.vms
    BY <2>1 DEF File
  <2> QED
    BY <2>1, <2>2, <2>3
<1>4. CASE Record(p)
  BY <1>1, <1>3, <1>4 DEF Record, Update, f, n
<1>5. CASE Launch(p) \/ LaunchFails(p)
  BY <1>1, <1>3, <1>5 DEF Launch, LaunchFails, Update, f, n
<1>6. CASE Finalize(p)
  BY <1>1, <1>3, <1>6 DEF Finalize, Update, f, n
<1>7. CASE FinalizeFallback(p)
  BY <1>1, <1>3, <1>7 DEF FinalizeFallback, PlainSave, n
<1>8. CASE RecordIP(p)
  BY <1>8 DEF RecordIP, Update, Rec
<1>9. CASE Release(p)
  <2>1. file' \in {RemoveVMs(f, {n}), f}
    BY <1>9 DEF Release, Update, f, n
  <2>2. RemoveVMs(f, {n}).vms[n] = NoVM
    BY <1>1, RemoveFacts
  <2> QED
    BY <1>1, <2>1, <2>2 DEF n, Rec
<1> QED
  BY <1>2, <1>4, <1>5, <1>6, <1>7, <1>8, <1>9
  DEF Step, n, StartLoads, Reserve, Update, Goto, End, SetupLoads, SetupSaves, PlainSave,
      ResetAll, ResetDisk, Reset

LEMMA ReserveRecords ==
  ASSUME IInv, NEW p \in Invocations, Reserve(p)
  PROVE  \E n \in VMNames : Reserves(p, n)
<1> PICK n \in VMNames : n = name[p]
  BY DEF IInv, Typed, TypeOK, Procs
<1> DEFINE f == Loaded(file)
<1>1. PICK i \in NextFreeVMIndex(f) :
        /\ MayReserve(f, n) /\ index' = [index EXCEPT ![p] = i]
        /\ pc[p] = "loaded" /\ pc' = [pc EXCEPT ![p] = "reserved"] /\ name' = name
        /\ file' = UpsertVM(f, n, VMRecord(p, i))
  BY DEF Reserve, Update, Goto
<1>2. i \in Indices /\ \A m \in VMNames : Live(f.vms[m]) => f.vms[m].index # i
  BY NextFreeFacts
<1>3. VMRecord(p, i) \in VM
  BY <1>2, RecordFacts
<1>4. /\ n \in VMNames /\ file \in File /\ f \in File /\ f.legacy = NoVM
      /\ index'[p] = i /\ pc'[p] = "reserved"
  BY <1>1, LoadedClean DEF IInv, Typed, TypeOK, CleanState, Procs
<1>5. \A m \in VMNames : Rec(m) = f.vms[m]
  BY DEF Rec
<1> HIDE DEF f
<1>6. /\ file' \in File /\ file'.legacy = NoVM /\ file'.vms[n] = VMRecord(p, i)
      /\ \A m \in VMNames : m # n => file'.vms[m] = f.vms[m]
  BY <1>1, <1>3, <1>4, UpsertFacts
<1>7. Rec(n)' \in {NoVM, VMRecord(p, i)}
  BY <1>4, <1>6, LoadedAt DEF Rec
<1>8. SameElsewhere(n)
  BY <1>4, <1>6, LoadedAgain DEF SameElsewhere, Rec, f
<1> QED
  BY <1>1, <1>2, <1>4, <1>5, <1>7, <1>8 DEF Reserves, MayReserve

LEMMA ResetRecords ==
  ASSUME IInv, NEW p \in Invocations, NEW D, NEW N, Reset(p, D, N)
  PROVE  Removes(p)
<1> DEFINE f == Loaded(file)
           g == RemoveVMs(f, N)
<1>1. file \in File /\ f \in File /\ f.legacy = NoVM
  BY LoadedClean DEF IInv, Typed, TypeOK, CleanState
<1>2. /\ \A n \in N : ~Live(f.vms[n])
      /\ pc[p] = "idle" /\ pc' = [pc EXCEPT ![p] = "ended"]
      /\ file' = [g EXCEPT !.disks = g.disks \ D]
  BY DEF Reset, Goto
<1>3. pc'[p] = "ended"
  BY <1>2 DEF IInv, Typed, TypeOK, Procs
<1> HIDE DEF f
<1>4. /\ g \in File /\ g.legacy = NoVM
      /\ \A m \in VMNames : g.vms[m] = IF m \in N THEN NoVM ELSE f.vms[m]
  BY <1>1, RemoveFacts
<1> HIDE DEF g
<1>5. g.disks \ D \in SUBSET Disks
  BY <1>4 DEF File
<1>6. file' \in File /\ file'.legacy = NoVM /\ file'.vms = g.vms
  BY <1>2, <1>4, <1>5, DisksFacts
<1>7. ASSUME NEW m \in VMNames
      PROVE  Rec(m)' = Rec(m) \/ (Rec(m)' = NoVM /\ ~Live(Rec(m)))
  <2>1. CASE m \in N
    BY <1>2, <1>4, <1>6, <2>1, LoadedAt DEF Rec, f
  <2>2. CASE m \notin N
    BY <1>1, <1>4, <1>6, <2>2, LoadedAgain DEF Rec, f
  <2> QED
    BY <2>1, <2>2
<1> QED
  BY <1>2, <1>3, <1>7 DEF Removes

(* What a step does to the records the next command finds.                 *)
LEMMA StepRecords ==
  ASSUME IInv, file' \in File, NEW p \in Invocations, Step(p), ~overwritten'
  PROVE  Keeps \/ Removes(p) \/ \E n \in VMNames : Reserves(p, n) \/ Writes(p, n)
<1> PICK n \in VMNames : n = name[p]
  BY DEF IInv, Typed, TypeOK, Procs
<1>1. /\ file \in File /\ n \in VMNames /\ Typed /\ index[p] \in Indices
      /\ pc[p] \in {"idle", "loaded", "reserved", "recorded", "running", "setup", "ended"}
  BY DEF IInv, Typed, TypeOK, Procs
<1>2. CASE file' = file
  BY <1>2 DEF Keeps, Rec
<1>3. CASE file' # file /\ pc[p] \in {"idle", "loaded", "ended"}
  <2>1. Reserve(p) \/ ResetAll(p) \/ \E d \in Disks : ResetDisk(p, d)
    BY <1>3 DEF Step, StartLoads, Record, Launch, LaunchFails, RecordIP, Finalize, Release, End,
       FinalizeFallback, SetupLoads, SetupSaves, PlainSave, Update, Goto
  <2> QED
    BY <2>1, ReserveRecords, ResetRecords DEF ResetAll, ResetDisk
<1>4. CASE file' # file /\ pc[p] = "setup"
  <2>1. SetupSaves(p)
    BY <1>4 DEF Step, StartLoads, Reserve, Record, Launch, LaunchFails, RecordIP, Finalize, Release,
       End, FinalizeFallback, SetupLoads, PlainSave, Update, Goto, ResetAll, ResetDisk, Reset
  <2>2. file' = snap[p] /\ \A m \in VMNames : Loaded(file).vms[m] = snap[p].vms[m]
    BY <2>1 DEF SetupSaves, PlainSave
  <2>3. file'.legacy = NoVM
    BY <1>1, <2>2 DEF Typed, SnapsClean, CleanState, Procs
  <2> QED
    BY <1>1, <2>2, <2>3, LoadedAgain DEF Keeps, Rec
<1>5. CASE file' # file /\ Started(p)
  <2>1. file'.legacy = NoVM /\ (Own(p) \/ file'.vms = Loaded(file).vms)
    BY <1>1, <1>5, StepEffect DEF Effect, Removal, Started
  <2>2. SameElsewhere(n)
    BY <1>1, <2>1, LoadedAgain DEF Own, SameElsewhere, Rec
  <2>3. CASE file'.vms[n] = Rec(n)
    <3>1. Rec(n)' = Rec(n)
      BY <1>1, <2>1, <2>3, LoadedAgain DEF Rec
    <3> QED
      BY <2>2, <3>1 DEF Keeps, SameElsewhere
  <2>4. CASE file'.vms[n] \in {NoVM, Mine(p), Stopped(p)}
    <3>1. Rec(n)' = IF Clean(n, file'.vms[n]) THEN file'.vms[n] ELSE NoVM
      BY <1>1, <2>1, LoadedAt DEF Rec
    <3>2. CASE NameLoads(n)
      <4>1. Trusted(p) /\ ~overwritten
        <5>1. overwritten => overwritten'
          BY DEF Step, StartLoads, Reserve, Record, Launch, LaunchFails, RecordIP, Finalize, Release,
             End, FinalizeFallback, SetupLoads, SetupSaves, PlainSave, Update, hist, ResetAll,
             ResetDisk, Reset
        <5> QED
          BY <3>2, <5>1 DEF Trusted, Procs
      <4>2. Rec(n) # NoVM /\ Rec(n).holder = p /\ Rec(n).index = index[p]
        BY <1>5, <4>1 DEF IInv, RunningVMLoads, Holds, Rec, Procs
      <4> QED
        BY <1>5, <2>2, <2>4, <3>1, <4>2 DEF Writes
    <3>3. CASE ~NameLoads(n)
      <4>1. Rec(n)' = NoVM
        BY <3>1, <3>3 DEF Clean, Valid
      <4>2. Rec(n) = NoVM
        BY <1>1, <3>3, LoadedClean DEF CleanState, Clean, Valid, Rec
      <4> QED
        BY <1>5, <2>2, <4>1, <4>2 DEF Writes
    <3> QED
      BY <3>2, <3>3
  <2> QED
    BY <1>1, <1>5, <2>3, <2>4, OwnRecord
<1> QED
  BY <1>1, <1>2, <1>3, <1>4, <1>5 DEF Started

(* A step is one process's, or it leaves every process and record alone.   *)
LEMMA NextRecords ==
  ASSUME IInv, Typed', [Next]_vars
  PROVE  \/ UNCHANGED <<pc, name, index, overwritten>> /\ Keeps
         \/ \E p \in Procs :
              /\ Acts(p)
              /\ overwritten => overwritten'
              /\ ~overwritten' =>
                   Keeps \/ Removes(p) \/ \E n \in VMNames : Reserves(p, n) \/ Writes(p, n)
<1>1. file \in File /\ file' \in File /\ Typed
  BY DEF IInv, Typed, TypeOK
<1>2. CASE UNCHANGED vars
  BY <1>2 DEF vars, run, hist, Keeps, Rec
<1>3. CASE NewerBinarySaves
  <2> DEFINE f == Loaded(file)
  <2>1. f \in File /\ f.legacy = NoVM /\ file' = [f EXCEPT !.version = SchemaVersion + 1]
    BY <1>1, <1>3, LoadedClean DEF NewerBinarySaves, CleanState
  <2> HIDE DEF f
  <2>2. file'.legacy = NoVM /\ file'.vms = f.vms
    BY <2>1 DEF File
  <2> QED
    BY <1>1, <1>3, <2>2, LoadedAgain DEF NewerBinarySaves, run, hist, Keeps, Rec, f
<1>4. CASE End(OldQemu)
  <2>1. Acts(OldQemu)
    BY <1>1, <1>4 DEF End, Alive, Acts, HadIndex, run, Typed, TypeOK, Procs
  <2> QED
    BY <1>4, <2>1 DEF End, hist, Keeps, Rec, Procs
<1>5. ASSUME NEW p \in Invocations, Step(p)
      PROVE  /\ p \in Procs /\ Acts(p) /\ (overwritten => overwritten')
             /\ ~overwritten' =>
                  Keeps \/ Removes(p) \/ \E n \in VMNames : Reserves(p, n) \/ Writes(p, n)
  <2>1. overwritten => overwritten'
    BY <1>5 DEF Step, StartLoads, Reserve, Record, Launch, LaunchFails, RecordIP, Finalize, Release,
       End, FinalizeFallback, SetupLoads, SetupSaves, PlainSave, Update, hist, ResetAll,
       ResetDisk, Reset
  <2> QED
    BY <1>1, <1>5, <2>1, StepActs, StepRecords DEF Procs
<1> QED
  BY <1>2, <1>3, <1>4, <1>5 DEF Next

LEMMA RecordsInit == Init => RecordsOfHolders
<1> SUFFICES ASSUME Init, NEW m \in VMNames, Rec(m) # NoVM, Rec(m).holder # Nobody
             PROVE  LET h == Rec(m).holder IN
                    h \in Procs /\ pc[h] \in HadIndex /\ name[h] = m /\ index[h] = Rec(m).index
  BY DEF RecordsOfHolders
<1> PICK n \in VMNames, d \in Disks \cup {NoName}, i \in 0..OutOfRange, b \in BOOLEAN :
      /\ OldFile(file, n, d, i, b)
      /\ pc = [p \in Procs |-> IF p = OldQemu /\ b THEN "running" ELSE "idle"]
      /\ name = [p \in Procs |-> IF p = OldQemu THEN n ELSE NoName]
      /\ index = [p \in Procs |-> IF p = OldQemu THEN i ELSE 0]
  BY DEF Init
<1>1. file \in File
  BY OldFileType
<1>2. ASSUME NEW v, v.holder \in {OldQemu, Nobody}, v.index = i, b = (v.holder = OldQemu),
             Rec(m) = v, m = n
      PROVE  LET h == Rec(m).holder IN
             h \in Procs /\ pc[h] \in HadIndex /\ name[h] = m /\ index[h] = Rec(m).index
  BY <1>2 DEF Procs, HadIndex
<1>3. CASE file = NewState
  BY <1>3, NewStateClean, LoadedCleanVMs DEF Rec, NewState, NoVMs
<1>4. ASSUME NEW l \in LegacyVM, n = LegacyName(l), i = 0, b = (l.holder = OldQemu),
             file = [version |-> 1, vms |-> NoVMs, legacy |-> l, disks |-> {d} \cap Disks]
      PROVE  LET h == Rec(m).holder IN
             h \in Procs /\ pc[h] \in HadIndex /\ name[h] = m /\ index[h] = Rec(m).index
  <2>1. l # NoVM /\ NoVMs[n] = NoVM
    BY DEF NoVMs
  <2>2. Migrated(file) = [file EXCEPT !.vms = [NoVMs EXCEPT ![n] = MigratedRecord(l)], !.legacy = NoVM]
    BY <1>4, <2>1 DEF Migrated
  <2>3. Migrated(file).vms = [NoVMs EXCEPT ![n] = MigratedRecord(l)]
    BY <1>4, <2>2
  <2>4. m = n /\ Rec(m) = MigratedRecord(l)
    BY <1>1, <2>3, LoadedFromMigrated DEF Rec, NoVMs
  <2> QED
    BY <1>2, <1>4, <2>4 DEF MigratedRecord, LegacyVM
<1>5. ASSUME NEW v \in VM, d \in Disks, n = d, i = v.index, v.holder \in {OldQemu, Nobody},
             b = (v.holder = OldQemu),
             file = [version |-> 2, vms |-> [NoVMs EXCEPT ![n] = v], legacy |-> NoVM, disks |-> {d}]
      PROVE  LET h == Rec(m).holder IN
             h \in Procs /\ pc[h] \in HadIndex /\ name[h] = m /\ index[h] = Rec(m).index
  <2>1. file.legacy = NoVM /\ file.vms = [NoVMs EXCEPT ![n] = v]
    BY <1>5
  <2>2. Rec(m) = file.vms[m]
    BY <1>1, <2>1, LoadedAt DEF Rec
  <2>3. m = n /\ Rec(m) = v
    BY <2>1, <2>2 DEF NoVMs
  <2> QED
    BY <1>2, <1>5, <2>3
<1> QED
  BY <1>3, <1>4, <1>5 DEF OldFile

LEMMA RecordsStep ==
  ASSUME IInv, Typed', RecordsOfHolders, [Next]_vars
  PROVE  RecordsOfHolders'
<1> SUFFICES ASSUME ~overwritten', NEW n \in VMNames, Rec(n)' # NoVM, (Rec(n)').holder # Nobody
             PROVE  LET h == (Rec(n)').holder IN
                    h \in Procs /\ pc'[h] \in HadIndex /\ name'[h] = n /\ index'[h] = (Rec(n)').index
  BY DEF RecordsOfHolders
<1>1. CASE UNCHANGED <<pc, name, index, overwritten>> /\ Keeps
  BY <1>1 DEF RecordsOfHolders, Keeps
<1>2. ASSUME NEW p \in Procs, Acts(p), ~overwritten,
             Keeps \/ Removes(p) \/ \E m \in VMNames : Reserves(p, m) \/ Writes(p, m)
      PROVE  LET h == (Rec(n)').holder IN
             h \in Procs /\ pc'[h] \in HadIndex /\ name'[h] = n /\ index'[h] = (Rec(n)').index
  <2>1. CASE Rec(n)' = Rec(n)
    BY <1>2, <2>1 DEF RecordsOfHolders, Acts
  <2>2. CASE Rec(n)' # Rec(n)
    <3>1. Reserves(p, n) \/ Writes(p, n)
      BY <1>2, <2>2 DEF Keeps, Removes, Reserves, Writes, SameElsewhere
    <3>2. CASE Reserves(p, n)
      BY <3>2 DEF Reserves, VMRecord, HadIndex
    <3>3. CASE Writes(p, n)
      BY <1>2, <3>3 DEF Writes, Mine, Stopped, VMRecord, HadIndex, Started, Acts
    <3> QED
      BY <3>1, <3>2, <3>3
  <2> QED
    BY <2>1, <2>2
<1> QED
  BY <1>1, <1>2, NextRecords

RecordsInv == IInv /\ RecordsOfHolders

LEMMA RecordsInvCorrect == Spec => []RecordsInv
<1>1. Init => RecordsInv
  BY InitSafe, RecordsInit DEF RecordsInv
<1>2. RecordsInv /\ [Next]_vars => RecordsInv'
  BY NextSafe, RecordsStep DEF RecordsInv, IInv
<1> QED
  BY <1>1, <1>2, PTL DEF Spec

LEMMA LeaseFacts ==
  ASSUME RecordsInv, ~overwritten, NEW n \in VMNames, Live(Rec(n))
  PROVE  /\ LeaseOf(n) = [name |-> n, holder |-> Rec(n).holder, index |-> Rec(n).index]
         /\ LeaseOf(n) \in Registry!Lease
         /\ Rec(n).holder \in Spent /\ name[Rec(n).holder] = n
<1>1. /\ LeaseOf(n) = [name |-> n, holder |-> Rec(n).holder, index |-> Rec(n).index]
      /\ file \in File
  BY DEF LeaseOf, Rec, RecordsInv, IInv, Typed, TypeOK
<1>2. Valid(n, Rec(n)) /\ Rec(n) # NoVM /\ Rec(n).holder # Nobody
  BY <1>1, LoadedClean DEF CleanState, Clean, Rec, Live
<1>3. Rec(n).holder \in Procs /\ pc[Rec(n).holder] \in HadIndex /\ name[Rec(n).holder] = n
  BY <1>2 DEF RecordsInv, RecordsOfHolders
<1> QED
  BY <1>1, <1>2, <1>3 DEF Registry!Lease, Valid, Spent, HadIndex

(* A step of p leaves the leases of the others as they are.                *)
LEMMA OthersLeases ==
  ASSUME RecordsInv, ~overwritten, NEW p \in Procs, Acts(p),
         Keeps \/ Removes(p) \/ \E m \in VMNames : Reserves(p, m) \/ Writes(p, m),
         NEW n \in VMNames, Live(Rec(n)), Rec(n).holder # p
  PROVE  Live(Rec(n))' /\ LeaseOf(n)' = LeaseOf(n)
<1>1. Rec(n).holder \in Procs
  BY LeaseFacts DEF Spent
<1>2. Rec(n)' = Rec(n)
  BY DEF Keeps, Removes, Reserves, Writes, SameElsewhere, Live
<1> QED
  BY <1>1, <1>2 DEF Live, Alive, Acts, LeaseOf, Rec

(* And without a reservation it leaves no lease that was not there.        *)
LEMMA NoOtherLeases ==
  ASSUME RecordsInv, RecordsInv', ~overwritten, ~overwritten', NEW p \in Procs, Acts(p),
         Keeps \/ Removes(p) \/ \E m \in VMNames : Writes(p, m),
         NEW n \in VMNames, Live(Rec(n))'
  PROVE  Live(Rec(n)) /\ LeaseOf(n)' = LeaseOf(n)
<1>1. Rec(n)' # NoVM /\ (Rec(n)').holder # Nobody /\ pc'[(Rec(n)').holder] \notin {"idle", "ended"}
  BY DEF Live, Alive
<1>2. CASE Rec(n)' = Rec(n)
  <2>1. Rec(n).holder \in Procs /\ pc[Rec(n).holder] \in HadIndex
    BY <1>1, <1>2 DEF RecordsInv, RecordsOfHolders
  <2> QED
    BY <1>1, <1>2, <2>1 DEF Live, Alive, Acts, LeaseOf, Rec, HadIndex
<1>3. CASE Rec(n)' # Rec(n)
  <2>1. Writes(p, n)
    BY <1>1, <1>3 DEF Keeps, Removes, Writes, SameElsewhere
  <2>2. Rec(n)' = Mine(p) /\ Rec(n) # NoVM /\ Rec(n).holder = p /\ Rec(n).index = index[p]
    BY <1>1, <2>1 DEF Writes, Stopped, Mine, VMRecord
  <2>3. (Rec(n)').holder = p /\ (Rec(n)').index = index[p]
    BY <2>2 DEF Mine, VMRecord
  <2>4. Live(Rec(n))
    BY <1>1, <2>1, <2>2, <2>3 DEF Live, Alive, Writes, Started
  <2> QED
    BY <2>2, <2>3, <2>4 DEF LeaseOf, Rec
<1> QED
  BY <1>2, <1>3

LEMMA SpentMoves ==
  ASSUME Typed, NEW p \in Procs, Acts(p)
  PROVE  Spent' = Spent \/ (p \notin Spent /\ Spent' = Spent \cup {p})
<1>1. pc[p] \in {"idle", "loaded", "reserved", "recorded", "running", "setup", "ended"}
  BY DEF Typed, TypeOK
<1>2. p \in Spent => p \in Spent'
  BY <1>1 DEF Spent, Acts, HadIndex
<1> QED
  BY <1>2 DEF Spent, Acts

(* A reservation grants a lease, or none if Load does not trust its name.  *)
LEMMA ReserveGrants ==
  ASSUME RecordsInv, RecordsInv', ~overwritten, ~overwritten', NEW p \in Procs, Acts(p),
         NEW n \in VMNames, Reserves(p, n)
  PROVE  [Registry!Next]_Registry!vars
<1> DEFINE i == index'[p]
           Lives == {m \in VMNames : Live(Rec(m))}
           LivesAfter == {m \in VMNames : Live(Rec(m))'}
           new == [name |-> n, holder |-> p, index |-> i]
<1>1. Leases = {LeaseOf(m) : m \in Lives} /\ Leases' = {LeaseOf(m)' : m \in LivesAfter}
  BY DEF Leases, Rec
<1>2. p \notin Spent /\ Spent' = Spent \cup {p} /\ UNCHANGED overwritten
  BY SpentMoves DEF RecordsInv, IInv, Typed, TypeOK, Reserves, Spent
<1>3. n \notin Lives /\ \A m \in Lives : Rec(m).index # i
  BY DEF Reserves
<1>4. \A m \in Lives : m \in LivesAfter /\ LeaseOf(m)' = LeaseOf(m)
  <2> SUFFICES ASSUME NEW m \in Lives PROVE m \in LivesAfter /\ LeaseOf(m)' = LeaseOf(m)
    OBVIOUS
  <2>1. Rec(m).holder # p
    BY <1>2, LeaseFacts
  <2> QED
    BY <2>1, OthersLeases
<1>5. ASSUME NEW m \in LivesAfter, m # n PROVE m \in Lives
  <2>1. Rec(m)' = Rec(m) /\ Rec(m)' # NoVM /\ (Rec(m)').holder # Nobody
    BY <1>5 DEF Reserves, SameElsewhere, Live
  <2>2. Rec(m).holder \in Procs /\ pc[Rec(m).holder] \in HadIndex
    BY <2>1 DEF RecordsInv, RecordsOfHolders
  <2>3. Rec(m).holder # p
    BY <2>2 DEF Reserves, HadIndex
  <2> QED
    BY <1>5, <2>1, <2>2, <2>3 DEF Live, Alive, Acts
<1>6. CASE Rec(n)' = NoVM
  <2>1. n \notin LivesAfter
    BY <1>6 DEF Live
  <2>2. Leases' = Leases
    BY <1>1, <1>3, <1>4, <1>5, <2>1
  <2> QED
    BY <1>2, <2>2 DEF Registry!Next, Registry!Forgo
<1>7. CASE Rec(n)' = VMRecord(p, i)
  <2>1. n \in LivesAfter /\ LeaseOf(n)' = new
    <3>1. i \in Indices /\ pc'[p] = "reserved" /\ p # Nobody
      BY DEF Reserves
    <3>2. VMRecord(p, i) \in VM /\ VMRecord(p, i).holder = p /\ VMRecord(p, i).index = i
      BY <3>1 DEF VMRecord, VM, Indices, OutOfRange
    <3> HIDE DEF i
    <3>3. Live(Rec(n))'
      BY <1>7, <3>1, <3>2 DEF Live, Alive
    <3> QED
      BY <1>7, <3>2, <3>3 DEF LeaseOf, Rec
  <2>2. Leases' = Leases \cup {new}
    BY <1>1, <1>3, <1>4, <1>5, <2>1
  <2>3. \A m \in Lives : LeaseOf(m).name # n /\ LeaseOf(m).index # i
    BY <1>3, LeaseFacts
  <2>4. Registry!Free(n, i)
    BY <1>1, <2>3 DEF Registry!Free
  <2>5. i \in Indices
    BY DEF Reserves
  <2> HIDE DEF i
  <2>6. Registry!Grant(p, n, i)
    BY <1>2, <2>2, <2>4 DEF Registry!Grant
  <2> QED
    BY <2>5, <2>6 DEF Registry!Next
<1> QED
  BY <1>6, <1>7 DEF Reserves

(* Any other step ends at most one lease, that of who makes it.            *)
LEMMA StepEnds ==
  ASSUME RecordsInv, RecordsInv', ~overwritten, ~overwritten', NEW p \in Procs, Acts(p),
         Keeps \/ Removes(p) \/ \E m \in VMNames : Writes(p, m)
  PROVE  [Registry!Next]_Registry!vars
<1> DEFINE Lives == {m \in VMNames : Live(Rec(m))}
           LivesAfter == {m \in VMNames : Live(Rec(m))'}
<1>1. Leases = {LeaseOf(m) : m \in Lives} /\ Leases' = {LeaseOf(m)' : m \in LivesAfter}
  BY DEF Leases, Rec
<1>2. Spent' = Spent \/ (p \notin Spent /\ Spent' = Spent \cup {p})
  BY SpentMoves DEF RecordsInv, IInv
<1>3. UNCHANGED overwritten
  BY DEF RecordsInv, IInv, Typed, TypeOK
<1>4. \A m \in LivesAfter : m \in Lives /\ LeaseOf(m)' = LeaseOf(m)
  BY NoOtherLeases
<1>5. CASE \A m \in Lives : m \in LivesAfter
  <2>1. Leases' = Leases
    BY <1>1, <1>4, <1>5
  <2> QED
    BY <1>2, <1>3, <2>1 DEF Registry!Next, Registry!Forgo, Registry!vars
<1>6. ASSUME NEW n \in Lives, n \notin LivesAfter
      PROVE  [Registry!Next]_Registry!vars
  <2>1. Rec(n).holder = p
    BY <1>6, OthersLeases
  <2>2. p \in Spent /\ name[p] = n
    BY <2>1, LeaseFacts
  <2>3. \A m \in Lives \ {n} : m \in LivesAfter
    <3> SUFFICES ASSUME NEW m \in Lives, m # n PROVE m \in LivesAfter
      OBVIOUS
    <3>1. Rec(m).holder # p
      BY <2>2, LeaseFacts
    <3> QED
      BY <3>1, OthersLeases
  <2>4. \A m \in Lives : LeaseOf(m).name = m
    BY LeaseFacts
  <2>5. Leases' = Leases \ {LeaseOf(n)} /\ LeaseOf(n) \in Leases
    BY <1>1, <1>4, <1>6, <2>3, <2>4
  <2>6. Registry!End(LeaseOf(n))
    BY <1>2, <1>3, <2>2, <2>5 DEF Registry!End
  <2> QED
    BY <2>5, <2>6 DEF Registry!Next
<1> QED
  BY <1>5, <1>6

(* A plain Save that rolls records back loses the registry for good.       *)
LEMMA SaveLoses ==
  ASSUME RecordsInv, NEW p \in Procs, Acts(p), [Next]_vars, overwritten', overwritten' \in BOOLEAN
  PROVE  [Registry!Next]_Registry!vars
<1>1. Leases' = {} /\ overwritten' = TRUE /\ overwritten \in BOOLEAN
  BY DEF Leases, RecordsInv, IInv, Typed, TypeOK
<1>2. Spent' = Spent \/ (p \notin Spent /\ Spent' = Spent \cup {p})
  BY SpentMoves DEF RecordsInv, IInv
<1>3. CASE overwritten
  BY <1>1, <1>2, <1>3 DEF Leases, Registry!Next, Registry!Forgo, Registry!vars
<1>4. CASE ~overwritten
  <2>1. PICK q \in Invocations : FinalizeFallback(q) \/ SetupSaves(q)
    BY <1>1, <1>4 DEF Next, Step, StartLoads, Reserve, Record, Launch, LaunchFails, RecordIP,
       Finalize, Release, End, SetupLoads, Update, hist, ResetAll, ResetDisk, Reset,
       NewerBinarySaves, vars
  <2>2. pc[q] \in {"running", "setup"} /\ pc' = [pc EXCEPT ![q] = "ended"]
    BY <2>1 DEF FinalizeFallback, SetupSaves, PlainSave, Goto
  <2>3. Spent' = Spent
    BY <2>2 DEF Spent, RecordsInv, IInv, Typed, TypeOK
  <2> QED
    BY <1>1, <1>4, <2>3 DEF Registry!Next, Registry!Lose
<1> QED
  BY <1>3, <1>4

(* What a command finds in state.json is a registry of leases, whatever    *)
(* Load migrates, sets aside and the next write drops.                     *)
THEOREM RegistryCorrect == Spec => ImplementsRegistry
<1>1. Init /\ RecordsInv => Registry!Init
  <2> SUFFICES ASSUME Init, RecordsInv PROVE Registry!Init
    OBVIOUS
  <2>1. ~overwritten /\ overwritten = FALSE
    BY DEF Init
  <2>2. Leases = {LeaseOf(m) : m \in {k \in VMNames : Live(Rec(k))}}
    BY <2>1 DEF Leases, Rec
  <2>3. \A l \in Leases : l \in Registry!Lease /\ l.holder \in Spent
    BY <2>1, <2>2, LeaseFacts
  <2>4. \A p \in Procs : p \in Spent => p = OldQemu
    BY DEF Init, Spent
  <2>5. Registry!Exclusive
    <3> SUFFICES ASSUME NEW k \in VMNames, NEW m \in VMNames, Live(Rec(k)), Live(Rec(m)), k # m
                 PROVE  FALSE
      BY <2>2 DEF Registry!Exclusive
    <3>1. Rec(k).holder = OldQemu /\ Rec(m).holder = OldQemu
      BY <2>1, <2>4, LeaseFacts DEF Spent
    <3> QED
      BY <2>1, <3>1, LeaseFacts
  <2> QED
    BY <2>1, <2>3, <2>5 DEF Registry!Init, Spent
<1>2. RecordsInv /\ RecordsInv' /\ [Next]_vars => [Registry!Next]_Registry!vars
  <2> SUFFICES ASSUME RecordsInv, RecordsInv', [Next]_vars PROVE [Registry!Next]_Registry!vars
    OBVIOUS
  <2>1. Typed' /\ overwritten' \in BOOLEAN /\ overwritten \in BOOLEAN
    BY DEF RecordsInv, IInv, Typed, TypeOK
  <2>2. CASE UNCHANGED <<pc, name, index, overwritten>> /\ Keeps
    <3>1. \A m \in VMNames : Live(Rec(m))' = Live(Rec(m)) /\ LeaseOf(m)' = LeaseOf(m)
      BY <2>2 DEF Keeps, Live, Alive, LeaseOf, Rec
    <3>2. UNCHANGED <<Leases, Spent, overwritten>>
      BY <2>2, <3>1 DEF Leases, Spent, Rec
    <3> QED
      BY <3>2 DEF Registry!vars
  <2>3. ASSUME NEW p \in Procs, Acts(p), overwritten => overwritten',
               ~overwritten' =>
                 Keeps \/ Removes(p) \/ \E n \in VMNames : Reserves(p, n) \/ Writes(p, n)
        PROVE  [Registry!Next]_Registry!vars
    <3>1. CASE overwritten'
      BY <2>1, <2>3, <3>1, SaveLoses
    <3>2. CASE ~overwritten'
      BY <2>3, <3>2, ReserveGrants, StepEnds
    <3> QED
      BY <3>1, <3>2
  <2> QED
    BY <2>1, <2>2, <2>3, NextRecords DEF RecordsInv
<1>3. QED
  BY <1>1, <1>2, RecordsInvCorrect, PTL DEF Spec, ImplementsRegistry, Registry!Spec

-----------------------------------------------------------------------------
(* When no write overwrites                                                *)

(* Between its Load and its Save a setup or a download sees no other       *)
(* invocation come any further.                                            *)
SetupsUndisturbed ==
  \A p \in Invocations : pc[p] = "setup" => \A q \in Invocations \ {p} : pc'[q] = pc[q]

(* No exit falls back on the state its start loaded.                       *)
NoFallback == \A p \in Invocations : ~FinalizeFallback(p)

SnapshotsCurrent ==
  \A p \in Invocations : pc[p] = "setup" => \A m \in VMNames : snap[p].vms[m] = Rec(m)

(* A step that takes no invocation further leaves the records alone.       *)
LEMMA StillKeeps ==
  ASSUME IInv, Typed', [Next]_vars, \A q \in Invocations : pc'[q] = pc[q]
  PROVE  Keeps /\ snap' = snap
<1>1. file \in File /\ file' \in File /\ Typed
  BY DEF IInv, Typed, TypeOK
<1>2. CASE UNCHANGED vars
  BY <1>2 DEF vars, Keeps, Rec
<1>3. CASE End(OldQemu)
  BY <1>3 DEF End, Keeps, Rec
<1>4. CASE NewerBinarySaves
  <2> DEFINE f == Loaded(file)
  <2>1. f \in File /\ f.legacy = NoVM /\ file' = [f EXCEPT !.version = SchemaVersion + 1]
    BY <1>1, <1>4, LoadedClean DEF NewerBinarySaves, CleanState
  <2> HIDE DEF f
  <2>2. file'.legacy = NoVM /\ file'.vms = f.vms
    BY <2>1 DEF File
  <2> QED
    BY <1>1, <1>4, <2>2, LoadedAgain DEF NewerBinarySaves, Keeps, Rec, f
<1>5. ASSUME NEW q \in Invocations, Step(q) PROVE Keeps /\ snap' = snap
  <2>1. pc'[q] = pc[q] /\ q \in Procs
    BY DEF Procs
  <2>2. file' = file \/ (file'.legacy = NoVM /\ file'.vms = Loaded(file).vms)
    BY <1>1, <1>5, <2>1, StepEffect DEF Effect, Own, Removal
  <2>3. Keeps
    BY <1>1, <2>2, LoadedAgain DEF Keeps, Rec
  <2>4. (\A d \in Disks : ~StartLoads(q, d)) /\ ~SetupLoads(q)
    BY <1>1, <2>1 DEF StartLoads, SetupLoads, Goto, Typed, TypeOK
  <2>5. snap' = snap
    BY <1>5, <2>4 DEF Step, Reserve, Record, Launch, LaunchFails, RecordIP, Finalize, Release, End,
       FinalizeFallback, SetupSaves, PlainSave, Update, ResetAll, ResetDisk, Reset
  <2> QED
    BY <2>3, <2>5
<1> QED
  BY <1>2, <1>3, <1>4, <1>5 DEF Next

LEMMA SnapshotsStep ==
  ASSUME IInv, Typed', [Next]_vars, [SetupsUndisturbed]_vars, SnapshotsCurrent
  PROVE  SnapshotsCurrent'
<1> SUFFICES ASSUME NEW p \in Invocations, pc'[p] = "setup", NEW m \in VMNames
             PROVE  snap'[p].vms[m] = Rec(m)'
  BY DEF SnapshotsCurrent
<1>1. /\ p \in Procs /\ Typed
      /\ pc \in [Procs -> {"idle", "loaded", "reserved", "recorded", "running", "setup", "ended"}]
  BY DEF Procs, IInv, Typed, TypeOK
<1>2. CASE pc[p] = "setup"
  <2>1. \A q \in Invocations : pc'[q] = pc[q]
    BY <1>2 DEF SetupsUndisturbed, vars
  <2> QED
    BY <1>2, <2>1, StillKeeps DEF SnapshotsCurrent, Keeps
<1>3. CASE pc[p] # "setup"
  <2>1. ~NewerBinarySaves /\ ~End(OldQemu) /\ ~UNCHANGED vars
    BY <1>1, <1>3, ProcAssumption DEF NewerBinarySaves, End, vars
  <2>2. PICK q \in Invocations : Step(q)
    BY <2>1 DEF Next
  <2>3. q = p
    BY <1>1, <1>3, <2>2, StepActs DEF Acts
  <2>4. SetupLoads(p)
    BY <1>1, <1>3, <2>2, <2>3
    DEF Step, StartLoads, Reserve, Record, Launch, LaunchFails, RecordIP, Finalize, Release, End,
        FinalizeFallback, SetupSaves, PlainSave, Update, Goto, ResetAll, ResetDisk, Reset
  <2> QED
    BY <1>1, <2>4 DEF SetupLoads, Rec, Typed, TypeOK
<1> QED
  BY <1>2, <1>3

LEMMA UndisturbedStep ==
  ASSUME Typed, [Next]_vars, [NoFallback]_vars, SnapshotsCurrent, ~overwritten
  PROVE  ~overwritten'
<1>1. CASE UNCHANGED vars
  BY <1>1 DEF vars, hist
<1>2. ASSUME NEW p \in Invocations, SetupSaves(p) PROVE ~overwritten'
  <2>1. pc[p] = "setup" /\ overwritten' = \E n \in VMNames \ {} : Rec(n) # snap[p].vms[n]
    BY <1>2 DEF SetupSaves, PlainSave, Goto, Rec
  <2> QED
    BY <2>1 DEF SnapshotsCurrent
<1>3. ASSUME NEW p \in Invocations, Step(p), ~SetupSaves(p), ~FinalizeFallback(p)
      PROVE  ~overwritten'
  BY <1>3 DEF Step, StartLoads, Reserve, Record, Launch, LaunchFails, RecordIP, Finalize, Release,
     End, SetupLoads, Update, hist, ResetAll, ResetDisk, Reset
<1>4. CASE End(OldQemu) \/ NewerBinarySaves
  BY <1>4 DEF End, NewerBinarySaves, hist
<1> QED
  BY <1>1, <1>2, <1>3, <1>4 DEF Next, NoFallback

(* When nothing comes between a setup's Load and its Save and no exit falls*)
(* back, no record is ever overwritten: what is running and trusted is in  *)
(* the state the next command loads, without a further condition.          *)
THEOREM UndisturbedCorrect ==
  Spec /\ [][SetupsUndisturbed]_vars /\ [][NoFallback]_vars => []~overwritten
<1>1. Init => SnapshotsCurrent /\ ~overwritten
  BY DEF Init, SnapshotsCurrent, Procs
<1>2. /\ IInv /\ IInv' /\ SnapshotsCurrent /\ ~overwritten
      /\ [Next]_vars /\ [SetupsUndisturbed]_vars /\ [NoFallback]_vars
      => SnapshotsCurrent' /\ ~overwritten'
  BY SnapshotsStep, UndisturbedStep DEF IInv
<1> QED
  BY <1>1, <1>2, InvCorrect, PTL DEF Spec
=============================================================================
