------------------------- MODULE VMLifecycle_proofs -------------------------
(***************************************************************************)
(* Proofs about VMLifecycle, for any number of invocations, disk names and *)
(* indices.                                                                *)
(***************************************************************************)
EXTENDS VMLifecycle, TLAPS

-----------------------------------------------------------------------------
(* The operations on the record table.                                     *)

(* UpsertVM yields a state that differs only in the record of n.           *)
LEMMA UpsertFacts ==
  ASSUME NEW st \in State, NEW n \in DiskNames, NEW v \in VM
  PROVE  /\ UpsertVM(st, n, v) \in State
         /\ UpsertVM(st, n, v).disks = st.disks
         /\ UpsertVM(st, n, v).vms[n] = v
         /\ \A m \in DiskNames : m # n => UpsertVM(st, n, v).vms[m] = st.vms[m]
  BY DEF UpsertVM, State

(* RemoveVM yields a state that differs only in the record of n.           *)
LEMMA RemoveFacts ==
  ASSUME NEW st \in State, NEW n \in DiskNames
  PROVE  /\ RemoveVM(st, n) \in State
         /\ RemoveVM(st, n).disks = st.disks
         /\ RemoveVM(st, n).vms[n] = NoVM
         /\ \A m \in DiskNames : m # n => RemoveVM(st, n).vms[m] = st.vms[m]
  BY DEF RemoveVM, State

(* Adding a disk leaves the records alone.                                 *)
LEMMA WithDiskFacts ==
  ASSUME NEW st \in State, NEW n \in DiskNames
  PROVE  /\ WithDisk(st, n) \in State
         /\ WithDisk(st, n).disks = st.disks \cup {n}
         /\ WithDisk(st, n).vms = st.vms
  BY DEF WithDisk, State

(* The index a reservation takes is in range and held by no live VM.       *)
LEMMA NextFreeFacts ==
  ASSUME NEW st, NEW i \in NextFreeVMIndex(st)
  PROVE  /\ i \in Indices
         /\ \A m \in DiskNames : VMIsLive(st.vms[m]) => st.vms[m].index # i
  BY DEF NextFreeVMIndex, HeldIndices

(* The records a starter writes are records of that starter.               *)
LEMMA RecordFacts ==
  ASSUME NEW s \in Starters, NEW i \in Indices, NEW b \in BOOLEAN,
         index[s] \in Indices
  PROVE  /\ Reservation(s, i) \in VM
         /\ VMRecord(s) \in VM
         /\ WithPID(s) \in VM
         /\ FinalVMRecord(s, b) \in VM
         /\ Reservation(s, i).index = i
         /\ Reservation(s, i).starter = s
         /\ Reservation(s, i).pid = NoProc
         /\ VMRecord(s).index = index[s]
         /\ VMRecord(s).starter = s
         /\ VMRecord(s).pid = NoProc
         /\ WithPID(s).index = index[s]
         /\ WithPID(s).starter = s
         /\ WithPID(s).pid = s
         /\ FinalVMRecord(s, b).index = index[s]
         /\ FinalVMRecord(s, b).starter = s
         /\ FinalVMRecord(s, b).pid = NoProc
         /\ ~Reservation(s, i).stopped
         /\ ~VMRecord(s).stopped
         /\ ~WithPID(s).stopped
         /\ poll[s] = "sent" => FinalVMRecord(s, b).ip
  BY DEF VM, Reservation, VMRecord, WithPID, FinalVMRecord

(* recordVMIP's update of a record leaves its other fields alone.          *)
LEMMA WithIPFacts ==
  ASSUME NEW v \in VM
  PROVE  /\ [v EXCEPT !.ip = TRUE] \in VM
         /\ [v EXCEPT !.ip = TRUE].index = v.index
         /\ [v EXCEPT !.ip = TRUE].starter = v.starter
         /\ [v EXCEPT !.ip = TRUE].pid = v.pid
         /\ [v EXCEPT !.ip = TRUE].paths = v.paths
         /\ [v EXCEPT !.ip = TRUE].stopped = v.stopped
         /\ [v EXCEPT !.ip = TRUE].ip
  BY DEF VM

-----------------------------------------------------------------------------
(* Type correctness                                                        *)

(* What a reset publishes is a state.                                      *)
LEMMA ResetStateType ==
  ASSUME TypeOK, NEW r \in Resetters
  PROVE  ResetState(r) \in State
  BY DEF TypeOK, State, ResetState, Procs

(* Every initial state has its types.                                      *)
LEMMA TypeInit == Init => TypeOK
<1> SUFFICES ASSUME Init PROVE TypeOK
  OBVIOUS
<1>1. NewState \in State
  BY DEF NewState, State
<1>2. 0 \in Indices
  BY IndexAssumption DEF Indices
<1>3. QED
  BY <1>1, <1>2 DEF Init, TypeOK, StarterPCs, ResetPCs

(* Every step of an invocation, a poller, QEMU or a kill keeps the types.  *)
LEMMA TypeStep == TypeOK /\ [Next]_vars => TypeOK'
<1> SUFFICES ASSUME TypeOK, [Next]_vars PROVE TypeOK'
  OBVIOUS
<1> USE DEF TypeOK, Procs, locals
<1>1. ASSUME NEW s \in Starters, StarterStep(s) PROVE TypeOK'
  <2>1. CASE Load(s)
    BY <2>1 DEF Load, Goto, StarterPCs
  <2>2. CASE Materialize(s)
    <3>1. [snap[s] EXCEPT !.disks = @ \cup {name[s]}] \in State
      BY DEF State
    <3>2. QED
      BY <2>2, <3>1 DEF Materialize, Goto, StarterPCs
  <2>3. CASE GiveUp(s)
    BY <2>3 DEF GiveUp, StarterPCs
  <2>4. CASE Reserve(s)
    <3>1. PICK i \in NextFreeVMIndex(file) :
            /\ index' = [index EXCEPT ![s] = i]
            /\ file' = UpsertVM(file, name[s], Reservation(s, i))
      BY <2>4 DEF Reserve
    <3>2. i \in Indices
      BY NextFreeFacts
    <3>3. file' \in State
      BY <3>1, <3>2, RecordFacts, UpsertFacts
    <3>4. QED
      BY <2>4, <3>1, <3>2, <3>3 DEF Reserve, Goto, StarterPCs
  <2>5. CASE PrepareFails(s)
    BY <2>5 DEF PrepareFails, Goto, StarterPCs
  <2>6. CASE Release(s)
    <3>1. file' \in State
      BY <2>6, RemoveFacts DEF Release
    <3>2. QED
      BY <2>6, <3>1 DEF Release, Goto, StarterPCs
  <2>7. CASE ReleaseFails(s)
    BY <2>7 DEF ReleaseFails, Goto, StarterPCs
  <2>8. CASE Record(s)
    <3>1. file' \in State
      BY <2>8, WithDiskFacts, UpsertFacts, RecordFacts DEF Record
    <3>2. QED
      BY <2>8, <3>1 DEF Record, Goto, StarterPCs
  <2>9. CASE OpenLogFails(s)
    BY <2>9 DEF OpenLogFails, Goto, StarterPCs
  <2>10. CASE SpawnFails(s)
    BY <2>10 DEF SpawnFails, Goto, StarterPCs
  <2>11. CASE RecordSpawnError(s)
    <3>1. file' \in State
      BY <2>11, UpsertFacts, RecordFacts DEF RecordSpawnError
    <3>2. QED
      BY <2>11, <3>1 DEF RecordSpawnError, Goto, StarterPCs
  <2>12. CASE Spawn(s)
    BY <2>12 DEF Spawn, Goto, StarterPCs
  <2>13. CASE RecordPID(s)
    <3>1. file' \in State
      BY <2>13, UpsertFacts, RecordFacts DEF RecordPID
    <3>2. QED
      BY <2>13, <3>1 DEF RecordPID, Goto, StartPoller, StarterPCs
  <2>14. CASE RecordPIDFails(s)
    BY <2>14 DEF RecordPIDFails, Goto, StartPoller, StarterPCs
  <2>15. CASE WaitReturns(s)
    BY <2>15 DEF WaitReturns, Goto, StarterPCs
  <2>16. CASE Finalize(s)
    <3>1. file' \in State
      BY <2>16, UpsertFacts, RecordFacts DEF Finalize, State, VM
    <3>2. QED
      BY <2>16, <3>1 DEF Finalize, Goto, StarterPCs
  <2>17. CASE FinalizeFallback(s)
    <3>1. PICK merged \in BOOLEAN : file' = UpsertVM(snap[s], name[s], FinalVMRecord(s, merged))
      BY <2>17 DEF FinalizeFallback, State, VM
    <3>2. FinalVMRecord(s, merged) \in VM /\ snap[s] \in State /\ name[s] \in DiskNames
      BY RecordFacts
    <3>3. file' \in State
      BY <3>1, <3>2, UpsertFacts
    <3>4. QED
      BY <2>17, <3>3 DEF FinalizeFallback, Goto, StarterPCs
  <2>18. CASE FinalizeFails(s)
    BY <2>18 DEF FinalizeFails, Goto, StarterPCs
  <2>19. QED
    BY <1>1, <2>1, <2>2, <2>3, <2>4, <2>5, <2>6, <2>7, <2>8, <2>9, <2>10, <2>11,
       <2>12, <2>13, <2>14, <2>15, <2>16, <2>17, <2>18 DEF StarterStep
<1>2. ASSUME NEW s \in Starters, PollerStep(s) PROVE TypeOK'
  <2>1. CASE PollResolves(s)
    BY <2>1 DEF PollResolves
  <2>2. CASE PollStops(s)
    BY <2>2 DEF PollStops
  <2>3. CASE RecordVMIP(s)
    <3>1. file.vms[name[s]] \in VM \cup {NoVM}
      BY DEF State
    <3>2. file' \in State
      BY <2>3, <3>1, WithIPFacts, UpsertFacts DEF RecordVMIP
    <3>3. QED
      BY <2>3, <3>2 DEF RecordVMIP
  <2>4. QED
    BY <1>2, <2>1, <2>2, <2>3 DEF PollerStep
<1>3. ASSUME NEW s \in Starters, QemuExits(s) PROVE TypeOK'
  BY <1>3 DEF QemuExits
<1>4. ASSUME NEW r \in Resetters, ResetStep(r) PROVE TypeOK'
  <2>1. CASE ResetLoad(r)
    <3>1. target' \in [Resetters -> SUBSET DiskNames]
      BY <2>1 DEF ResetLoad, State
    <3>2. QED
      BY <2>1, <3>1 DEF ResetLoad, Goto, ResetPCs
  <2>2. CASE GiveUp(r)
    BY <2>2 DEF GiveUp, ResetPCs
  <2>3. CASE ResetSave(r)
    BY <2>3, ResetStateType DEF ResetSave, Goto, ResetPCs
  <2>4. CASE CleanupLoad(r) \/ CleanupCheck(r)
    BY <2>4 DEF CleanupLoad, CleanupCheck, Goto, ResetPCs
  <2>5. CASE CleanupRemove(r)
    <3>1. NewState \in State
      BY DEF NewState, State
    <3>2. QED
      BY <2>5, <3>1 DEF CleanupRemove, Goto, ResetPCs
  <2>6. QED
    BY <1>4, <2>1, <2>2, <2>3, <2>4, <2>5 DEF ResetStep
<1>5. ASSUME NEW p \in Procs, Crash(p) PROVE TypeOK'
  BY <1>5 DEF Crash, ResetPCs
<1>6. CASE UNCHANGED vars
  BY <1>6 DEF vars
<1>7. QED
  BY <1>1, <1>2, <1>3, <1>4, <1>5, <1>6 DEF Next

(* Every variable keeps its type in every reachable state of every         *)
(* instance.                                                               *)
THEOREM TypeCorrect == Spec => []TypeOK
<1>1. QED
  BY TypeInit, TypeStep, PTL DEF Spec
-----------------------------------------------------------------------------
(* The inductive invariant                                                 *)

(* The empty state.json with no invocation started satisfies the invariant.*)
LEMMA InvInit == Init => IInv
<1> SUFFICES ASSUME Init PROVE IInv
  OBVIOUS
<1>1. TypeOK
  BY TypeInit
<1>2. \A n \in DiskNames : NewState.vms[n] = NoVM
  BY DEF NewState
<1>3. RecordsOfTheirStarters /\ RunningPIDKept /\ ReservationHeld /\ LiveIndicesDistinct
  BY <1>2 DEF Init, RecordsOfTheirStarters, WellFormed, RunningPIDKept, ReservationHeld,
              LiveIndicesDistinct, VMIsLive, Procs, Holding
<1>4. QemuFollowsStarter
  BY DEF Init, QemuFollowsStarter, Procs
<1>5. DiskKept /\ RecordedVMHasDisk
  BY <1>2 DEF Init, DiskKept, RecordedVMHasDisk, Procs, Holding
<1>6. QED
  BY <1>1, <1>3, <1>4, <1>5 DEF IInv

(* The types of what the file and the in-memory states hold.               *)
LEMMA Types ==
  ASSUME TypeOK
  PROVE  /\ \A n \in DiskNames : file.vms[n] # NoVM =>
              /\ file.vms[n] \in VM
              /\ file.vms[n].starter \in Starters
              /\ file.vms[n].index \in Indices
              /\ file.vms[n].pid \in Starters \cup {NoProc}
         /\ \A p \in Procs, n \in DiskNames : snap[p].vms[n] # NoVM =>
              /\ snap[p].vms[n] \in VM
              /\ snap[p].vms[n].starter \in Starters
  BY DEF TypeOK, State, VM

(* A starter's program counter and its QEMU agree.                         *)
LEMMA QemuFollowsStarterStep ==
  TypeOK /\ QemuFollowsStarter /\ [Next]_vars => QemuFollowsStarter'
<1> SUFFICES ASSUME TypeOK, QemuFollowsStarter, [Next]_vars PROVE QemuFollowsStarter'
  OBVIOUS
<1> USE DEF TypeOK, QemuFollowsStarter, Procs, locals, Goto
<1>1. ASSUME NEW s \in Starters, StarterStep(s) PROVE QemuFollowsStarter'
  <2>1. CASE Load(s) \/ Materialize(s) \/ GiveUp(s) \/ Reserve(s) \/ PrepareFails(s)
    BY <2>1 DEF Load, Materialize, GiveUp, Reserve, PrepareFails
  <2>2. CASE Release(s) \/ ReleaseFails(s) \/ Record(s) \/ OpenLogFails(s) \/ SpawnFails(s)
    BY <2>2 DEF Release, ReleaseFails, Record, OpenLogFails, SpawnFails
  <2>3. CASE RecordSpawnError(s) \/ Spawn(s)
    BY <2>3 DEF RecordSpawnError, Spawn
  <2>4. CASE RecordPID(s) \/ RecordPIDFails(s) \/ WaitReturns(s)
    BY <2>4 DEF RecordPID, RecordPIDFails, WaitReturns
  <2>5. CASE Finalize(s) \/ FinalizeFallback(s) \/ FinalizeFails(s)
    BY <2>5 DEF Finalize, FinalizeFallback, FinalizeFails
  <2>6. QED
    BY <1>1, <2>1, <2>2, <2>3, <2>4, <2>5 DEF StarterStep
<1>2. ASSUME NEW s \in Starters, PollerStep(s) PROVE QemuFollowsStarter'
  BY <1>2 DEF PollerStep, PollResolves, PollStops, RecordVMIP
<1>3. ASSUME NEW s \in Starters, QemuExits(s) PROVE QemuFollowsStarter'
  BY <1>3 DEF QemuExits
<1>4. ASSUME NEW r \in Resetters, ResetStep(r) PROVE QemuFollowsStarter'
  BY <1>4, ProcAssumption DEF ResetStep, ResetLoad, GiveUp, ResetSave,
                              CleanupLoad, CleanupCheck, CleanupRemove
<1>5. ASSUME NEW p \in Procs, Crash(p) PROVE QemuFollowsStarter'
  BY <1>5, ProcAssumption DEF Crash
<1>6. CASE UNCHANGED vars
  BY <1>6 DEF vars
<1>7. QED
  BY <1>1, <1>2, <1>3, <1>4, <1>5, <1>6 DEF Next

(* The part of the state that says whose a record is never moves back.     *)
OwnershipFrame ==
  /\ name' = name
  /\ \A s \in Starters : pc[s] \notin BeforeReserve =>
       pc'[s] \notin BeforeReserve /\ index'[s] = index[s]
  /\ \A s \in Starters : pc[s] = "exited" => pc'[s] = "exited" /\ poll'[s] = poll[s]
  /\ pidRecorded \subseteq pidRecorded'

(* No step moves it back, and nothing moves in an ended invocation.        *)
LEMMA Frame == TypeOK /\ [Next]_vars => OwnershipFrame
<1> SUFFICES ASSUME TypeOK, [Next]_vars PROVE OwnershipFrame
  OBVIOUS
<1> USE DEF OwnershipFrame, BeforeReserve
<1> USE DEF TypeOK, Procs, locals, Goto
<1>1. ASSUME NEW s \in Starters, StarterStep(s) PROVE OwnershipFrame
  <2>1. CASE Load(s) \/ Materialize(s) \/ GiveUp(s) \/ PrepareFails(s)
    BY <2>1 DEF Load, Materialize, GiveUp, PrepareFails
  <2>2. CASE Reserve(s)
    BY <2>2 DEF Reserve
  <2>3. CASE Release(s) \/ ReleaseFails(s) \/ Record(s) \/ OpenLogFails(s) \/ SpawnFails(s)
    BY <2>3 DEF Release, ReleaseFails, Record, OpenLogFails, SpawnFails
  <2>4. CASE RecordSpawnError(s) \/ Spawn(s)
    BY <2>4 DEF RecordSpawnError, Spawn
  <2>5. CASE RecordPID(s) \/ RecordPIDFails(s) \/ WaitReturns(s)
    BY <2>5 DEF RecordPID, RecordPIDFails, StartPoller, WaitReturns
  <2>6. CASE Finalize(s) \/ FinalizeFallback(s) \/ FinalizeFails(s)
    BY <2>6 DEF Finalize, FinalizeFallback, FinalizeFails
  <2>7. QED
    BY <1>1, <2>1, <2>2, <2>3, <2>4, <2>5, <2>6 DEF StarterStep
<1>2. ASSUME NEW s \in Starters, PollerStep(s) PROVE OwnershipFrame
  BY <1>2 DEF PollerStep, PollerRuns, PollResolves, PollStops, RecordVMIP
<1>3. ASSUME NEW s \in Starters, QemuExits(s) PROVE OwnershipFrame
  BY <1>3 DEF QemuExits
<1>4. ASSUME NEW r \in Resetters, ResetStep(r) PROVE OwnershipFrame
  BY <1>4, ProcAssumption DEF ResetStep, ResetLoad, GiveUp, ResetSave,
                              CleanupLoad, CleanupCheck, CleanupRemove
<1>5. ASSUME NEW p \in Procs, Crash(p) PROVE OwnershipFrame
  BY <1>5 DEF Crash
<1>6. CASE UNCHANGED vars
  BY <1>6 DEF vars
<1>7. QED
  BY <1>1, <1>2, <1>3, <1>4, <1>5, <1>6 DEF Next

(* OfItsStarter of a given record in the next state.                       *)
StillOfItsStarter(v, n) ==
  /\ name'[v.starter] = n
  /\ index'[v.starter] = v.index
  /\ pc'[v.starter] \notin BeforeReserve
  /\ v.pid # NoProc => v.pid = v.starter /\ v.starter \in pidRecorded'
  /\ v.stopped => pc'[v.starter] = "exited" /\ (poll'[v.starter] = "sent" => v.ip)

(* Whose a record is does not change.                                      *)
LEMMA Persist ==
  TypeOK /\ [Next]_vars =>
    \A v \in VM, n \in DiskNames : OfItsStarter(v, n) => StillOfItsStarter(v, n)
  BY Frame DEF OfItsStarter, StillOfItsStarter, OwnershipFrame, VM

(* Every record in the file and in the in-memory states stays the record   *)
(* of its starter.                                                         *)
LEMMA RecordsStep ==
  TypeOK /\ QemuFollowsStarter /\ RecordsOfTheirStarters /\ [Next]_vars
    => RecordsOfTheirStarters'
<1> SUFFICES ASSUME TypeOK, QemuFollowsStarter, RecordsOfTheirStarters, [Next]_vars
             PROVE  RecordsOfTheirStarters'
  OBVIOUS
<1> DEFINE InFile == \A n \in DiskNames :
                       file'.vms[n] # NoVM => StillOfItsStarter(file'.vms[n], n)
<1> DEFINE InMemory == \A p \in Procs, n \in DiskNames :
                         snap'[p].vms[n] # NoVM => StillOfItsStarter(snap'[p].vms[n], n)
<1>1. \A n \in DiskNames : file.vms[n] # NoVM => StillOfItsStarter(file.vms[n], n)
  BY Persist, Types DEF RecordsOfTheirStarters, WellFormed
<1>2. \A p \in Procs, n \in DiskNames :
        snap[p].vms[n] # NoVM => StillOfItsStarter(snap[p].vms[n], n)
  BY Persist, Types DEF RecordsOfTheirStarters, WellFormed
<1>3. SUFFICES InFile /\ InMemory
  BY DEF RecordsOfTheirStarters, WellFormed, OfItsStarter, StillOfItsStarter
<1> HIDE DEF InFile, InMemory
<1>4. ASSUME UNCHANGED file PROVE InFile
  BY <1>1, <1>4 DEF InFile
<1>5. ASSUME UNCHANGED snap PROVE InMemory
  BY <1>2, <1>5 DEF InMemory
<1>6. ASSUME NEW p \in Procs, snap' = [snap EXCEPT ![p] = file] PROVE InMemory
  BY <1>1, <1>2, <1>6 DEF InMemory, TypeOK
<1>7. ASSUME NEW s \in Starters, NEW F \in State, NEW v \in VM,
             F.vms = file.vms \/ F.vms = snap[s].vms,
             file' = UpsertVM(F, name[s], v), StillOfItsStarter(v, name[s])
      PROVE  InFile
  <2>1. name[s] \in DiskNames /\ s \in Procs
    BY DEF TypeOK, Procs
  <2>2. QED
    BY <1>1, <1>2, <1>7, <2>1, UpsertFacts DEF InFile
<1>8. ASSUME NEW s \in Starters, StarterStep(s) PROVE InFile /\ InMemory
  <2> USE DEF Goto, locals
  <2>1. CASE Load(s) \/ Materialize(s)
    <3>1. Materialize(s) => \A p \in Procs : snap'[p].vms = snap[p].vms
      BY DEF Materialize, TypeOK, State, Procs
    <3>2. Materialize(s) => InMemory
      BY <3>1, <1>2 DEF InMemory
    <3>3. QED
      BY <2>1, <3>2, <1>4, <1>6 DEF Load, Materialize, Procs
  <2>2. CASE GiveUp(s) \/ PrepareFails(s) \/ ReleaseFails(s) \/ OpenLogFails(s) \/ SpawnFails(s)
    BY <2>2, <1>4, <1>5 DEF GiveUp, PrepareFails, ReleaseFails, OpenLogFails, SpawnFails
  <2>3. CASE Reserve(s)
    <3>1. PICK i \in NextFreeVMIndex(file) :
            /\ index' = [index EXCEPT ![s] = i]
            /\ file' = UpsertVM(file, name[s], Reservation(s, i))
      BY <2>3 DEF Reserve
    <3>2. i \in Indices
      BY NextFreeFacts
    <3>3. Reservation(s, i) \in VM /\ StillOfItsStarter(Reservation(s, i), name[s])
      BY <2>3, <3>1, <3>2 DEF Reserve, StillOfItsStarter, Reservation, TypeOK, Procs, VM, BeforeReserve
    <3>4. InFile
      BY <3>1, <3>3, <1>7 DEF TypeOK
    <3>5. QED
      BY <2>3, <3>4, <1>5 DEF Reserve
  <2>4. CASE Release(s)
    <3>1. InFile
      BY <2>4, <1>1, RemoveFacts DEF Release, InFile, TypeOK
    <3>2. QED
      BY <2>4, <3>1, <1>5 DEF Release
  <2>5. CASE Record(s)
    <3>1. WithDisk(file, name[s]) \in State /\ WithDisk(file, name[s]).vms = file.vms
      BY WithDiskFacts DEF TypeOK
    <3>2. VMRecord(s) \in VM /\ StillOfItsStarter(VMRecord(s), name[s])
      BY <2>5 DEF Record, StillOfItsStarter, VMRecord, TypeOK, Procs, VM, BeforeReserve
    <3>3. QED
      BY <2>5, <3>1, <3>2, <1>5, <1>7 DEF Record
  <2>6. CASE RecordSpawnError(s)
    <3>1. VMRecord(s) \in VM /\ StillOfItsStarter(VMRecord(s), name[s])
      BY <2>6 DEF RecordSpawnError, StillOfItsStarter, VMRecord, TypeOK, Procs, VM, BeforeReserve
    <3>2. QED
      BY <2>6, <3>1, <1>4, <1>5, <1>7 DEF RecordSpawnError, TypeOK
  <2>7. CASE Spawn(s) \/ RecordPIDFails(s) \/ WaitReturns(s) \/ FinalizeFails(s)
    BY <2>7, <1>4, <1>5 DEF Spawn, RecordPIDFails, WaitReturns, FinalizeFails
  <2>8. CASE RecordPID(s)
    <3>1. WithPID(s) \in VM
      BY RecordFacts DEF TypeOK
    <3>2. StillOfItsStarter(WithPID(s), name[s])
      BY <2>8 DEF RecordPID, StillOfItsStarter, VMRecord, WithPID, TypeOK, Procs, BeforeReserve
    <3>3. QED
      BY <2>8, <3>1, <3>2, <1>5, <1>7 DEF RecordPID, TypeOK
  <2>9. CASE Finalize(s) \/ FinalizeFallback(s)
    <3>1. ASSUME NEW b \in BOOLEAN
          PROVE  FinalVMRecord(s, b) \in VM /\ StillOfItsStarter(FinalVMRecord(s, b), name[s])
      <4>1. /\ FinalVMRecord(s, b) \in VM
            /\ FinalVMRecord(s, b).starter = s
            /\ FinalVMRecord(s, b).index = index[s]
            /\ FinalVMRecord(s, b).pid = NoProc
            /\ poll[s] = "sent" => FinalVMRecord(s, b).ip
        BY RecordFacts DEF TypeOK
      <4>2. pc'[s] = "exited" /\ UNCHANGED <<name, index, poll>>
        <5>1. pc \in [Procs -> StarterPCs \cup ResetPCs] /\ s \in Procs
          BY DEF TypeOK, Procs
        <5>2. QED
          BY <2>9, <5>1 DEF Finalize, FinalizeFallback, Goto, locals
      <4>3. "exited" \notin BeforeReserve
        BY DEF BeforeReserve
      <4>4. QED
        BY <4>1, <4>2, <4>3 DEF StillOfItsStarter
    <3>2. file \in State /\ snap[s] \in State /\ s \in Procs /\ name[s] \in DiskNames
      BY DEF TypeOK, Procs
    <3>3. CASE Finalize(s)
      <4>1. (file.vms[name[s]] # NoVM /\ file.vms[name[s]].ip) \in BOOLEAN
        BY <3>2 DEF State, VM
      <4>2. QED
        BY <3>3, <3>1, <3>2, <4>1, <1>5, <1>7 DEF Finalize
    <3>4. CASE FinalizeFallback(s)
      <4>1. PICK merged \in BOOLEAN : file' = UpsertVM(snap[s], name[s], FinalVMRecord(s, merged))
        BY <3>4, <3>2 DEF FinalizeFallback, State, VM
      <4>2. QED
        BY <3>4, <3>1, <3>2, <4>1, <1>5, <1>7 DEF FinalizeFallback
    <3>5. QED
      BY <2>9, <3>3, <3>4
  <2>10. QED
    BY <1>8, <2>1, <2>2, <2>3, <2>4, <2>5, <2>6, <2>7, <2>8, <2>9 DEF StarterStep
<1>9. ASSUME NEW s \in Starters, PollerStep(s) PROVE InFile /\ InMemory
  <2>1. CASE PollResolves(s) \/ PollStops(s)
    BY <2>1, <1>4, <1>5 DEF PollResolves, PollStops, locals
  <2>2. CASE RecordVMIP(s)
    <3> DEFINE v == file.vms[name[s]]
               w == [v EXCEPT !.ip = TRUE]
    <3>1. CASE v # NoVM /\ file' = UpsertVM(file, name[s], w)
      <4>1. v \in VM /\ name[s] \in DiskNames
        BY <3>1, Types DEF TypeOK
      <4>2. /\ w \in VM
            /\ w.starter = v.starter /\ w.index = v.index /\ w.pid = v.pid
            /\ w.stopped = v.stopped /\ w.ip
        BY <4>1, WithIPFacts
      <4>3. StillOfItsStarter(v, name[s])
        BY <1>1, <3>1, <4>1
      <4>4. StillOfItsStarter(w, name[s])
        BY <4>2, <4>3 DEF StillOfItsStarter
      <4> HIDE DEF w, v
      <4>5. InFile
        BY <3>1, <4>2, <4>4, <1>7 DEF TypeOK
      <4>6. QED
        BY <2>2, <4>5, <1>5 DEF RecordVMIP, locals
    <3>2. CASE file' = file
      BY <2>2, <3>2, <1>4, <1>5 DEF RecordVMIP, locals
    <3>3. QED
      BY <2>2, <3>1, <3>2 DEF RecordVMIP
  <2>3. QED
    BY <1>9, <2>1, <2>2 DEF PollerStep
<1>10. ASSUME NEW s \in Starters, QemuExits(s) PROVE InFile /\ InMemory
  BY <1>10, <1>4, <1>5 DEF QemuExits, locals
<1>11. ASSUME NEW r \in Resetters, ResetStep(r) PROVE InFile /\ InMemory
  <2>1. CASE ResetLoad(r)
    BY <2>1, <1>4, <1>6 DEF ResetLoad, Procs
  <2>2. CASE GiveUp(r)
    BY <2>2, <1>4, <1>5 DEF GiveUp, locals
  <2>3. CASE ResetSave(r)
    <3>1. InFile
      BY <2>3, <1>2 DEF ResetSave, ResetState, InFile, Procs
    <3>2. QED
      BY <2>3, <3>1, <1>5 DEF ResetSave, locals
  <2>4. CASE CleanupLoad(r) \/ CleanupCheck(r)
    BY <2>4, <1>4, <1>5, <1>6 DEF CleanupLoad, CleanupCheck, Procs, locals
  <2>5. CASE CleanupRemove(r)
    <3>1. InFile
      BY <2>5 DEF CleanupRemove, NewState, InFile
    <3>2. QED
      BY <2>5, <3>1, <1>5 DEF CleanupRemove, locals
  <2>6. QED
    BY <1>11, <2>1, <2>2, <2>3, <2>4, <2>5 DEF ResetStep
<1>12. ASSUME NEW p \in Procs, Crash(p) PROVE InFile /\ InMemory
  BY <1>12, <1>4, <1>5 DEF Crash, locals
<1>13. CASE UNCHANGED vars
  BY <1>13, <1>4, <1>5 DEF vars
<1>14. QED
  BY <1>8, <1>9, <1>10, <1>11, <1>12, <1>13 DEF Next

(* A given record is live in the next state.                               *)
LiveNext(v) ==
  \/ v.pid \in Starters /\ qemu'[v.pid] = "running"
  \/ pc'[v.starter] \notin {"idle", "exited", "dead"}

(* A record that is not live never becomes live again: its starter is past *)
(* its reservation, and a PID is only recorded after the launch.           *)
LEMMA NothingRevives ==
  TypeOK /\ QemuFollowsStarter /\ [Next]_vars =>
    \A v \in VM, n \in DiskNames : OfItsStarter(v, n) /\ LiveNext(v) => VMIsLive(v)
<1> SUFFICES ASSUME TypeOK, QemuFollowsStarter, [Next]_vars,
                    NEW v \in VM, NEW n \in DiskNames, OfItsStarter(v, n), LiveNext(v)
             PROVE  VMIsLive(v)
  OBVIOUS
<1> DEFINE Ended == \A s \in Starters :
                      /\ pc[s] \in {"exited", "dead"} => pc'[s] = pc[s]
                      /\ (qemu[s] # "running" /\ qemu'[s] = "running") => pc[s] = "recorded"
<1>1. Ended
  <2> USE DEF TypeOK, Procs, locals, Goto
  <2>1. CASE UNCHANGED vars \/ \E p \in Procs : Crash(p)
    BY <2>1 DEF vars, Crash
  <2>2. ASSUME NEW r \in Resetters, ResetStep(r) PROVE Ended
    BY <2>2, ProcAssumption DEF ResetStep, ResetLoad, GiveUp, ResetSave,
                                CleanupLoad, CleanupCheck, CleanupRemove
  <2>3. ASSUME NEW s \in Starters, PollerStep(s) \/ QemuExits(s) PROVE Ended
    BY <2>3 DEF PollerStep, PollResolves, PollStops, RecordVMIP, QemuExits
  <2>4. ASSUME NEW s \in Starters, StarterStep(s) PROVE Ended
    <3>1. CASE Load(s) \/ Materialize(s) \/ GiveUp(s) \/ Reserve(s) \/ PrepareFails(s)
      BY <3>1 DEF Load, Materialize, GiveUp, Reserve, PrepareFails
    <3>2. CASE Release(s) \/ ReleaseFails(s) \/ Record(s) \/ OpenLogFails(s) \/ SpawnFails(s)
      BY <3>2 DEF Release, ReleaseFails, Record, OpenLogFails, SpawnFails
    <3>3. CASE RecordSpawnError(s) \/ Spawn(s) \/ RecordPID(s) \/ RecordPIDFails(s)
      BY <3>3 DEF RecordSpawnError, Spawn, RecordPID, RecordPIDFails
    <3>4. CASE WaitReturns(s) \/ Finalize(s) \/ FinalizeFallback(s) \/ FinalizeFails(s)
      BY <3>4 DEF WaitReturns, Finalize, FinalizeFallback, FinalizeFails
    <3> QED
      BY <2>4, <3>1, <3>2, <3>3, <3>4 DEF StarterStep
  <2> QED
    BY <2>1, <2>2, <2>3, <2>4 DEF Next
<1>2. v # NoVM /\ v.starter \in Starters /\ v.pid \in Starters \cup {NoProc}
  BY NoVMAssumption DEF VM
<1>3. CASE v.pid \in Starters /\ qemu'[v.pid] = "running"
  <2>1. pc[v.pid] # "recorded"
    BY <1>3, ProcAssumption DEF OfItsStarter, QemuFollowsStarter
  <2>2. QED
    BY <1>1, <1>2, <1>3, <2>1 DEF VMIsLive, QemuRunning
<1>4. CASE pc'[v.starter] \notin {"idle", "exited", "dead"}
  BY <1>1, <1>2, <1>4 DEF OfItsStarter, BeforeReserve, VMIsLive, StarterRunning
<1>5. QED
  BY <1>3, <1>4 DEF LiveNext

-----------------------------------------------------------------------------
(* What a step does to the file while no plain Save overwrites another     *)
(* VM's entry: each name is kept, written by the starter that holds it,    *)
(* reserved, or removed.                                                   *)

Kept(n) ==
  /\ n \in file.disks => n \in file'.disks
  /\ \/ file'.vms[n] = file.vms[n]
     \/ /\ file'.vms[n] # NoVM /\ file.vms[n] # NoVM
        /\ file'.vms[n].index = file.vms[n].index
        /\ file'.vms[n].starter = file.vms[n].starter
        /\ file'.vms[n].pid = file.vms[n].pid
        /\ file'.vms[n].paths = file.vms[n].paths

WrittenBy(s, n) ==
  /\ name[s] = n
  /\ pc[s] \in Holding
  /\ n \in file'.disks
  /\ file'.vms[n] # NoVM
  /\ file'.vms[n].starter = s
  /\ file'.vms[n].index = index[s]
  /\ (s \in pidRecorded' /\ qemu'[s] = "running") => file'.vms[n].pid = s

ReservedBy(s, n) ==
  /\ name[s] = n
  /\ pc[s] = "prompt" /\ pc'[s] = "reserved"
  /\ ~VMIsLive(file.vms[n])
  /\ n \in file.disks => n \in file'.disks
  /\ file'.vms[n] # NoVM
  /\ file'.vms[n].starter = s
  /\ file'.vms[n].index = index'[s]
  /\ ~file'.vms[n].paths
  /\ \A m \in DiskNames : VMIsLive(file.vms[m]) => file.vms[m].index # index'[s]
  /\ \A m \in DiskNames \ {n} : Kept(m)

Removed(n) ==
  /\ file'.vms[n] = NoVM
  /\ \/ ~VMIsLive(file.vms[n])
     \/ /\ file.vms[n].pid = NoProc
        /\ pc'[file.vms[n].starter] = "exited"

Change(n) ==
  \/ Kept(n)
  \/ \E s \in Starters : WrittenBy(s, n)
  \/ \E s \in Starters : ReservedBy(s, n)
  \/ Removed(n)

(* A step that ends with no overwriting began with none, and changes the   *)
(* file in one of these ways at every name.                                *)
LEMMA FileStep ==
  IInv /\ [Next]_vars /\ ~overwritten' => ~overwritten /\ \A n \in DiskNames : Change(n)
<1> SUFFICES ASSUME IInv, [Next]_vars, ~overwritten'
             PROVE  ~overwritten /\ \A n \in DiskNames : Change(n)
  OBVIOUS
<1> USE DEF locals, Goto
<1> DEFINE Good == ~overwritten /\ \A n \in DiskNames : Change(n)
<1>1. TypeOK /\ QemuFollowsStarter /\ DiskKept
  BY DEF IInv
<1>2. ASSUME UNCHANGED <<file, overwritten>> PROVE Good
  BY <1>2 DEF Change, Kept
<1>3. file \in State /\ \A s \in Starters : name[s] \in DiskNames /\ s \in Procs /\ index[s] \in Indices
  BY <1>1 DEF TypeOK, Procs
<1>4. \A v \in VM : v # NoVM
  BY NoVMAssumption
<1>5. ASSUME NEW s \in Starters, NEW F \in State, NEW v \in VM,
             file' = UpsertVM(F, name[s], v), v.starter = s, v.index = index[s],
             pc[s] \in Holding, name[s] \in F.disks, UNCHANGED overwritten,
             \A n \in DiskNames \ {name[s]} :
               F.vms[n] = file.vms[n] /\ (n \in file.disks => n \in F.disks),
             (s \in pidRecorded' /\ qemu'[s] = "running") => v.pid = s
      PROVE  Good
  <2>1. /\ file'.disks = F.disks
        /\ file'.vms[name[s]] = v
        /\ \A n \in DiskNames \ {name[s]} : file'.vms[n] = F.vms[n]
    BY <1>3, <1>5, UpsertFacts
  <2>2. WrittenBy(s, name[s])
    BY <1>4, <1>5, <2>1 DEF WrittenBy
  <2>3. \A n \in DiskNames \ {name[s]} : Kept(n)
    BY <1>5, <2>1 DEF Kept
  <2>4. QED
    BY <1>5, <2>2, <2>3 DEF Change
<1>6. ASSUME NEW s \in Starters, StarterStep(s) PROVE Good
  <2>1. CASE Load(s) \/ Materialize(s) \/ GiveUp(s) \/ PrepareFails(s)
    BY <2>1, <1>2 DEF Load, Materialize, GiveUp, PrepareFails
  <2>2. CASE ReleaseFails(s) \/ OpenLogFails(s) \/ SpawnFails(s) \/ Spawn(s)
    BY <2>2, <1>2 DEF ReleaseFails, OpenLogFails, SpawnFails, Spawn
  <2>3. CASE RecordPIDFails(s) \/ WaitReturns(s) \/ FinalizeFails(s)
    BY <2>3, <1>2 DEF RecordPIDFails, WaitReturns, FinalizeFails
  <2>4. CASE Reserve(s)
    <3>1. PICK i \in NextFreeVMIndex(file) :
            /\ index' = [index EXCEPT ![s] = i]
            /\ file' = UpsertVM(file, name[s], Reservation(s, i))
      BY <2>4 DEF Reserve
    <3>2. i \in Indices /\ \A m \in DiskNames : VMIsLive(file.vms[m]) => file.vms[m].index # i
      BY NextFreeFacts
    <3>3. /\ Reservation(s, i) \in VM
          /\ Reservation(s, i).starter = s /\ Reservation(s, i).index = i
          /\ ~Reservation(s, i).paths
      BY <3>2 DEF Reservation, VM
    <3>4. /\ file'.disks = file.disks
          /\ file'.vms[name[s]] = Reservation(s, i)
          /\ \A n \in DiskNames \ {name[s]} : file'.vms[n] = file.vms[n]
      BY <1>3, <3>1, <3>3, UpsertFacts
    <3>5. \A n \in DiskNames \ {name[s]} : Kept(n)
      BY <3>4 DEF Kept
    <3>6. index'[s] = i /\ pc[s] = "prompt" /\ pc'[s] = "reserved"
      BY <2>4, <1>1, <1>3, <3>1 DEF Reserve, TypeOK
    <3>7. ~VMIsLive(file.vms[name[s]])
      BY <2>4 DEF Reserve, MayReserve
    <3>8. ReservedBy(s, name[s])
      BY <1>4, <3>2, <3>3, <3>4, <3>5, <3>6, <3>7 DEF ReservedBy
    <3>9. QED
      BY <2>4, <3>5, <3>8 DEF Reserve, Change
  <2>5. CASE Release(s)
    <3>1. CASE file' = file
      BY <2>5, <3>1, <1>2 DEF Release
    <3>2. CASE /\ file.vms[name[s]].pid = NoProc
               /\ file.vms[name[s]].starter = s
               /\ file' = RemoveVM(file, name[s])
      <4>1. /\ file'.disks = file.disks
            /\ file'.vms[name[s]] = NoVM
            /\ \A n \in DiskNames \ {name[s]} : file'.vms[n] = file.vms[n]
        BY <1>3, <3>2, RemoveFacts
      <4>2. pc'[s] = "exited"
        BY <2>5, <1>1, <1>3 DEF Release, TypeOK
      <4>3. Removed(name[s])
        BY <3>2, <4>1, <4>2 DEF Removed
      <4>4. \A n \in DiskNames \ {name[s]} : Kept(n)
        BY <4>1 DEF Kept
      <4>5. QED
        BY <2>5, <4>3, <4>4 DEF Release, Change
    <3>3. QED
      BY <2>5, <3>1, <3>2 DEF Release
  <2>6. CASE Record(s)
    <3>1. /\ WithDisk(file, name[s]) \in State
          /\ WithDisk(file, name[s]).vms = file.vms
          /\ WithDisk(file, name[s]).disks = file.disks \cup {name[s]}
      BY <1>3, WithDiskFacts
    <3>2. s \notin pidRecorded'
      BY <2>6, <1>1 DEF Record, QemuFollowsStarter
    <3>3. file' = UpsertVM(WithDisk(file, name[s]), name[s], VMRecord(s)) /\ UNCHANGED overwritten
      BY <2>6 DEF Record
    <3>4. VMRecord(s) \in VM /\ VMRecord(s).starter = s /\ VMRecord(s).index = index[s]
      BY <1>3, RecordFacts
    <3>5. pc[s] \in Holding
      BY <2>6 DEF Record, Holding
    <3>6. QED
      BY <3>1, <3>2, <3>3, <3>4, <3>5, <1>5
  <2>7. CASE RecordSpawnError(s)
    <3>1. name[s] \in file.disks \/ overwritten
      BY <2>7, <1>1 DEF RecordSpawnError, DiskKept, Holding
    <3>2. s \notin pidRecorded'
      BY <2>7, <1>1 DEF RecordSpawnError, QemuFollowsStarter
    <3>3. CASE file' = file
      BY <2>7, <3>3, <1>2 DEF RecordSpawnError
    <3>4. CASE file' = UpsertVM(file, name[s], VMRecord(s))
      <4>1. VMRecord(s) \in VM /\ VMRecord(s).starter = s /\ VMRecord(s).index = index[s]
        BY <1>3, RecordFacts
      <4>2. pc[s] \in Holding /\ UNCHANGED overwritten
        BY <2>7 DEF RecordSpawnError, Holding
      <4>3. QED
        BY <3>1, <3>2, <3>4, <4>1, <4>2, <1>3, <1>5
    <3>5. QED
      BY <2>7, <3>3, <3>4 DEF RecordSpawnError
  <2>8. CASE RecordPID(s)
    <3>1. name[s] \in file.disks \/ overwritten
      BY <2>8, <1>1 DEF RecordPID, DiskKept, Holding
    <3>2. QED
      <4>1. /\ WithPID(s) \in VM
            /\ WithPID(s).starter = s /\ WithPID(s).index = index[s] /\ WithPID(s).pid = s
        BY <1>3, RecordFacts
      <4>2. /\ file' = UpsertVM(file, name[s], WithPID(s))
            /\ pc[s] \in Holding /\ UNCHANGED overwritten
        BY <2>8 DEF RecordPID, Holding
      <4>3. QED
        BY <3>1, <4>1, <4>2, <1>3, <1>5
  <2>9. CASE Finalize(s)
    <3>1. name[s] \in file.disks \/ overwritten
      BY <2>9, <1>1 DEF Finalize, DiskKept, Holding
    <3>2. qemu'[s] # "running"
      BY <2>9, <1>1, <1>3 DEF Finalize, QemuFollowsStarter
    <3>3. (file.vms[name[s]] # NoVM /\ file.vms[name[s]].ip) \in BOOLEAN
      BY <1>3 DEF State, VM
    <3>4. PICK b \in BOOLEAN : file' = UpsertVM(file, name[s], FinalVMRecord(s, b))
      BY <2>9, <3>3 DEF Finalize
    <3>5. /\ FinalVMRecord(s, b) \in VM
          /\ FinalVMRecord(s, b).starter = s
          /\ FinalVMRecord(s, b).index = index[s]
      BY <1>3, RecordFacts
    <3>6. pc[s] \in Holding /\ UNCHANGED overwritten
      BY <2>9 DEF Finalize, Holding
    <3>7. QED
      BY <3>1, <3>2, <3>4, <3>5, <3>6, <1>3, <1>5
  <2>10. CASE FinalizeFallback(s)
    <3>1. snap[s] \in State /\ name[s] \in snap[s].disks
      BY <2>10, <1>1, <1>3 DEF FinalizeFallback, DiskKept, Holding, TypeOK
    <3>2. qemu'[s] # "running"
      BY <2>10, <1>1, <1>3 DEF FinalizeFallback, QemuFollowsStarter
    <3>3. PICK merged \in BOOLEAN : file' = UpsertVM(snap[s], name[s], FinalVMRecord(s, merged))
      BY <2>10, <1>3 DEF FinalizeFallback, State, VM
    <3>4. /\ FinalVMRecord(s, merged) \in VM
          /\ FinalVMRecord(s, merged).starter = s
          /\ FinalVMRecord(s, merged).index = index[s]
          /\ UNCHANGED overwritten
      BY <2>10, <1>1, <1>3, RecordFacts DEF FinalizeFallback, TypeOK
    <3>5. /\ file'.disks = snap[s].disks
          /\ \A n \in DiskNames \ {name[s]} : file'.vms[n] = snap[s].vms[n]
      BY <1>3, <3>1, <3>3, <3>4, UpsertFacts
    <3>6. \A n \in DiskNames \ {name[s]} :
            snap[s].vms[n] = file.vms[n] /\ (n \in file.disks => n \in snap[s].disks)
      BY <2>10, <3>5 DEF FinalizeFallback
    <3>7. QED
      BY <2>10, <3>1, <3>2, <3>3, <3>4, <3>6, <1>3, <1>5 DEF FinalizeFallback, Holding
  <2>11. QED
    BY <1>6, <2>1, <2>2, <2>3, <2>4, <2>5, <2>6, <2>7, <2>8, <2>9, <2>10 DEF StarterStep
<1>7. ASSUME NEW s \in Starters, PollerStep(s) PROVE Good
  <2>1. CASE file' = file
    BY <1>7, <2>1, <1>2 DEF PollerStep, PollResolves, PollStops, RecordVMIP
  <2>2. CASE file' # file
    <3>1. /\ UNCHANGED overwritten
          /\ file.vms[name[s]] # NoVM
          /\ file' = UpsertVM(file, name[s], [file.vms[name[s]] EXCEPT !.ip = TRUE])
      BY <1>7, <2>2 DEF PollerStep, PollResolves, PollStops, RecordVMIP
    <3>2. file.vms[name[s]] \in VM
      BY <3>1, <1>3 DEF State
    <3>3. PICK w \in VM :
            /\ file' = UpsertVM(file, name[s], w)
            /\ w.index = file.vms[name[s]].index
            /\ w.starter = file.vms[name[s]].starter
            /\ w.pid = file.vms[name[s]].pid
            /\ w.paths = file.vms[name[s]].paths
      BY <3>1, <3>2, WithIPFacts
    <3>4. /\ file'.disks = file.disks
          /\ file'.vms[name[s]] = w
          /\ \A n \in DiskNames \ {name[s]} : file'.vms[n] = file.vms[n]
      BY <1>3, <3>3, UpsertFacts
    <3>5. QED
      BY <1>4, <3>1, <3>3, <3>4 DEF Change, Kept
  <2>3. QED
    BY <2>1, <2>2
<1>8. ASSUME NEW s \in Starters, QemuExits(s) PROVE Good
  BY <1>8, <1>2 DEF QemuExits
<1>9. ASSUME NEW r \in Resetters, ResetStep(r) PROVE Good
  <2>1. CASE ResetLoad(r) \/ GiveUp(r) \/ CleanupLoad(r) \/ CleanupCheck(r)
    BY <2>1, <1>2 DEF ResetLoad, GiveUp, CleanupLoad, CleanupCheck
  <2>2. CASE ResetSave(r)
    <3>1. ~overwritten
      BY <2>2, <1>1 DEF ResetSave, TypeOK
    <3>2. \A n \in target[r] \cap DiskNames : Removed(n)
      BY <2>2 DEF ResetSave, ResetState, Removed
    <3>3. \A n \in DiskNames \ target[r] : Kept(n)
      BY <2>2 DEF ResetSave, Kept
    <3>4. QED
      BY <3>1, <3>2, <3>3 DEF Change
  <2>3. CASE CleanupRemove(r)
    BY <2>3, <1>1 DEF CleanupRemove, NewState, Change, Removed, TypeOK
  <2>4. QED
    BY <1>9, <2>1, <2>2, <2>3 DEF ResetStep
<1>10. ASSUME NEW p \in Procs, Crash(p) PROVE Good
  BY <1>10, <1>2 DEF Crash
<1>11. CASE UNCHANGED vars
  BY <1>11, <1>2 DEF vars
<1>12. QED
  BY <1>6, <1>7, <1>8, <1>9, <1>10, <1>11 DEF Next

-----------------------------------------------------------------------------
(* The invariants that follow from how the file changes.                   *)

(* Under the invariant, a record that is live after a step was live before *)
(* it, with the same starter and index, unless the step reserved its name. *)
LEMMA LiveFromLive ==
  ASSUME IInv, [Next]_vars, ~overwritten',
         NEW n \in DiskNames, VMIsLive(file.vms[n])'
  PROVE  \/ /\ VMIsLive(file.vms[n]) /\ file.vms[n].index = file'.vms[n].index
            /\ file.vms[n].starter = file'.vms[n].starter
         \/ \E s \in Starters : ReservedBy(s, n)
<1>1. TypeOK /\ QemuFollowsStarter /\ RecordsOfTheirStarters
  BY DEF IInv
<1>2. ~overwritten /\ Change(n)
  BY FileStep
<1>3. file'.vms[n] # NoVM /\ LiveNext(file'.vms[n])
  BY DEF VMIsLive, QemuRunning, StarterRunning, LiveNext
<1>4. CASE Kept(n)
  <2>1. /\ LiveNext(file.vms[n]) /\ file.vms[n] # NoVM
        /\ file.vms[n].index = file'.vms[n].index /\ file.vms[n].starter = file'.vms[n].starter
    BY <1>3, <1>4 DEF Kept, LiveNext
  <2>2. file.vms[n] \in VM /\ OfItsStarter(file.vms[n], n)
    BY <1>1, <2>1, Types DEF RecordsOfTheirStarters, WellFormed
  <2>3. QED
    BY <1>1, <2>1, <2>2, NothingRevives
<1>5. ASSUME NEW s \in Starters, WrittenBy(s, n)
      PROVE  /\ VMIsLive(file.vms[n]) /\ file.vms[n].index = file'.vms[n].index
             /\ file.vms[n].starter = file'.vms[n].starter
  <2>1. /\ file.vms[n] # NoVM /\ file.vms[n].starter = s
        /\ file.vms[n].index = index[s]
    BY <1>2, <1>5 DEF IInv, ReservationHeld, WrittenBy
  <2>2. QED
    BY <1>5, <2>1 DEF WrittenBy, Holding, VMIsLive, StarterRunning
<1>6. ~Removed(n)
  BY <1>3 DEF Removed
<1>7. QED
  BY <1>2, <1>4, <1>5, <1>6 DEF Change

(* Live records go on having distinct indices.                             *)
LEMMA LiveIndicesStep == IInv /\ [Next]_vars => LiveIndicesDistinct'
<1> SUFFICES ASSUME IInv, [Next]_vars, ~overwritten',
                    NEW m \in DiskNames, NEW n \in DiskNames, m # n,
                    VMIsLive(file.vms[m])', VMIsLive(file.vms[n])'
             PROVE  file'.vms[m].index # file'.vms[n].index
  BY DEF LiveIndicesDistinct
<1>1. ~overwritten
  BY FileStep
<1>2. ASSUME NEW k \in DiskNames, NEW l \in DiskNames, k # l,
             NEW s \in Starters, ReservedBy(s, k), VMIsLive(file.vms[l])'
      PROVE  file'.vms[k].index # file'.vms[l].index
  <2>1. ~(\E t \in Starters : ReservedBy(t, l))
    <3> SUFFICES ASSUME NEW t \in Starters, ReservedBy(t, l) PROVE FALSE
      OBVIOUS
    <3>1. Kept(k) /\ ~VMIsLive(file.vms[k]) /\ file'.vms[k].starter = s /\ pc'[s] = "reserved"
      BY <1>2 DEF ReservedBy
    <3>2. file.vms[k] # NoVM /\ file.vms[k].starter = s
      BY <1>2, <3>1 DEF Kept, ReservedBy
    <3>3. pc[s] = "prompt"
      BY <1>2 DEF ReservedBy
    <3>4. VMIsLive(file.vms[k])
      BY <3>2, <3>3 DEF VMIsLive, StarterRunning
    <3>5. QED
      BY <3>1, <3>4
  <2>2. VMIsLive(file.vms[l]) /\ file.vms[l].index = file'.vms[l].index
    BY <1>2, <2>1, LiveFromLive
  <2>3. QED
    BY <1>2, <2>2 DEF ReservedBy
<1>3. CASE \E s \in Starters : ReservedBy(s, m) \/ ReservedBy(s, n)
  <2>1. ASSUME NEW s \in Starters, ReservedBy(s, m)
        PROVE  file'.vms[m].index # file'.vms[n].index
    BY <1>2, <2>1
  <2>2. ASSUME NEW s \in Starters, ReservedBy(s, n)
        PROVE  file'.vms[m].index # file'.vms[n].index
    BY <1>2, <2>2
  <2>3. QED
    BY <1>3, <2>1, <2>2
<1>4. CASE ~(\E s \in Starters : ReservedBy(s, m) \/ ReservedBy(s, n))
  <2>1. /\ VMIsLive(file.vms[m]) /\ file.vms[m].index = file'.vms[m].index
        /\ VMIsLive(file.vms[n]) /\ file.vms[n].index = file'.vms[n].index
    BY <1>4, LiveFromLive
  <2>2. QED
    BY <1>1, <2>1 DEF IInv, LiveIndicesDistinct
<1>5. QED
  BY <1>3, <1>4

(* A starter that holds a name after a step held it before, unless the     *)
(* step is its reservation.                                                *)
LEMMA HoldingFromHolding ==
  ASSUME TypeOK, [Next]_vars, NEW s \in Starters, pc'[s] \in Holding, pc[s] \notin Holding
  PROVE  Reserve(s)
<1> USE DEF TypeOK, Procs, locals, Goto, Holding
<1>1. ASSUME NEW t \in Starters, StarterStep(t) PROVE Reserve(s)
  <2>1. CASE Reserve(t)
    BY <2>1 DEF Reserve
  <2>2. CASE Load(t) \/ Materialize(t) \/ GiveUp(t) \/ PrepareFails(t)
    BY <2>2 DEF Load, Materialize, GiveUp, PrepareFails
  <2>3. CASE Release(t) \/ ReleaseFails(t) \/ Record(t) \/ OpenLogFails(t) \/ SpawnFails(t)
    BY <2>3 DEF Release, ReleaseFails, Record, OpenLogFails, SpawnFails
  <2>4. CASE RecordSpawnError(t) \/ Spawn(t) \/ RecordPID(t) \/ RecordPIDFails(t)
    BY <2>4 DEF RecordSpawnError, Spawn, RecordPID, RecordPIDFails
  <2>5. CASE WaitReturns(t) \/ Finalize(t) \/ FinalizeFallback(t) \/ FinalizeFails(t)
    BY <2>5 DEF WaitReturns, Finalize, FinalizeFallback, FinalizeFails
  <2>6. QED
    BY <1>1, <2>1, <2>2, <2>3, <2>4, <2>5 DEF StarterStep
<1>2. ASSUME NEW t \in Starters, PollerStep(t) \/ QemuExits(t) PROVE FALSE
  BY <1>2 DEF PollerStep, PollResolves, PollStops, RecordVMIP, QemuExits
<1>3. ASSUME NEW r \in Resetters, ResetStep(r) PROVE FALSE
  BY <1>3, ProcAssumption DEF ResetStep, ResetLoad, GiveUp, ResetSave,
                              CleanupLoad, CleanupCheck, CleanupRemove
<1>4. ASSUME NEW p \in Procs, Crash(p) PROVE FALSE
  BY <1>4 DEF Crash
<1>5. CASE UNCHANGED vars
  BY <1>5 DEF vars
<1>6. QED
  BY <1>1, <1>2, <1>3, <1>4, <1>5 DEF Next

(* The holder of a name keeps its record.                                  *)
LEMMA ReservationStep == IInv /\ [Next]_vars => ReservationHeld'
<1> SUFFICES ASSUME IInv, [Next]_vars, ~overwritten', NEW s \in Starters, pc'[s] \in Holding
             PROVE  /\ file'.vms[name'[s]] # NoVM
                    /\ file'.vms[name'[s]].starter = s
                    /\ file'.vms[name'[s]].index = index'[s]
  BY DEF ReservationHeld
<1> DEFINE n == name[s]
<1>1. TypeOK /\ ~overwritten /\ n \in DiskNames /\ s \in Procs
  BY FileStep DEF IInv, TypeOK, Procs
<1>2. CASE pc[s] \notin Holding
  <2>1. Reserve(s)
    BY <1>1, <1>2, HoldingFromHolding
  <2>2. PICK i \in NextFreeVMIndex(file) :
          /\ index' = [index EXCEPT ![s] = i]
          /\ file' = UpsertVM(file, n, Reservation(s, i))
    BY <2>1 DEF Reserve
  <2>3. i \in Indices
    BY NextFreeFacts
  <2>4. /\ Reservation(s, i) \in VM
        /\ Reservation(s, i).starter = s /\ Reservation(s, i).index = i
    BY <2>3 DEF Reservation, VM
  <2>5. file'.vms[n] = Reservation(s, i) /\ index'[s] = i /\ name' = name
    BY <1>1, <2>1, <2>2, <2>4, UpsertFacts DEF Reserve, TypeOK, locals
  <2>6. QED
    BY <2>4, <2>5, NoVMAssumption
<1>3. CASE pc[s] \in Holding
  <2>1. file.vms[n] # NoVM /\ file.vms[n].starter = s /\ file.vms[n].index = index[s]
    BY <1>1, <1>3 DEF IInv, ReservationHeld
  <2>2. VMIsLive(file.vms[n])
    BY <1>3, <2>1 DEF VMIsLive, StarterRunning, Holding
  <2>3. name' = name /\ index'[s] = index[s]
    BY <1>1, <1>3, Frame DEF OwnershipFrame, Holding, BeforeReserve
  <2>4. Change(n)
    BY <1>1, FileStep
  <2>5. CASE Kept(n)
    BY <2>1, <2>3, <2>5 DEF Kept
  <2>6. ASSUME NEW t \in Starters, WrittenBy(t, n)
        PROVE  t = s /\ file'.vms[n] # NoVM /\ file'.vms[n].starter = t /\ file'.vms[n].index = index[t]
    BY <1>1, <2>1, <2>6 DEF IInv, ReservationHeld, WrittenBy
  <2>7. ~(\E t \in Starters : ReservedBy(t, n))
    BY <2>2 DEF ReservedBy
  <2>8. ~Removed(n)
    BY <2>1, <2>2 DEF Removed, Holding
  <2>9. QED
    BY <2>3, <2>4, <2>5, <2>6, <2>7, <2>8 DEF Change
<1>4. QED
  BY <1>2, <1>3

(* The recorded PID of a running QEMU stays in its record.                 *)
LEMMA RunningPIDStep == IInv /\ [Next]_vars => RunningPIDKept'
<1> SUFFICES ASSUME IInv, [Next]_vars, ~overwritten',
                    NEW s \in pidRecorded', qemu'[s] = "running"
             PROVE  file'.vms[name'[s]] # NoVM /\ file'.vms[name'[s]].pid = s
  BY DEF RunningPIDKept
<1> DEFINE n == name[s]
<1>1. TypeOK /\ TypeOK' /\ ~overwritten
  BY FileStep, TypeStep DEF IInv
<1>2. s \in Starters /\ n \in DiskNames /\ name' = name
  BY <1>1, Frame DEF TypeOK, OwnershipFrame
<1>3. CASE s \notin pidRecorded
  <2>1. RecordPID(s)
    <3> USE DEF locals
    <3>1. ASSUME NEW t \in Starters, StarterStep(t) PROVE RecordPID(s)
      BY <1>1, <1>2, <1>3, <3>1
         DEF TypeOK, StarterStep, Load, Materialize, GiveUp, Reserve, PrepareFails, Release,
             ReleaseFails, Record, OpenLogFails, SpawnFails, RecordSpawnError, Spawn, RecordPID,
             RecordPIDFails, WaitReturns, Finalize, FinalizeFallback, FinalizeFails
    <3>2. ASSUME NEW t \in Starters, PollerStep(t) \/ QemuExits(t) PROVE FALSE
      BY <1>3, <3>2 DEF PollerStep, PollResolves, PollStops, RecordVMIP, QemuExits
    <3>3. ASSUME NEW r \in Resetters, ResetStep(r) PROVE FALSE
      BY <1>3, <3>3 DEF ResetStep, ResetLoad, GiveUp, ResetSave,
                        CleanupLoad, CleanupCheck, CleanupRemove
    <3>4. ASSUME NEW p \in Procs, Crash(p) PROVE FALSE
      BY <1>3, <3>4 DEF Crash
    <3>5. CASE UNCHANGED vars
      BY <1>3, <3>5 DEF vars
    <3>6. QED
      BY <3>1, <3>2, <3>3, <3>4, <3>5 DEF Next
  <2>2. WithPID(s) \in VM /\ WithPID(s).pid = s
    BY <1>1, <1>2, RecordFacts DEF TypeOK
  <2>3. file'.vms[n] = WithPID(s)
    BY <1>1, <1>2, <2>1, <2>2, UpsertFacts DEF RecordPID, TypeOK
  <2>4. QED
    BY <1>2, <2>2, <2>3, NoVMAssumption
<1>4. CASE s \in pidRecorded
  <2>1. qemu[s] = "running"
    <3>1. pc[s] # "recorded"
      BY <1>2, <1>4 DEF IInv, QemuFollowsStarter
    <3>2. ASSUME NEW t \in Starters, StarterStep(t) PROVE qemu[s] = "running"
      BY <1>1, <1>2, <3>1, <3>2
         DEF TypeOK, Goto, StarterStep, Load, Materialize, GiveUp, Reserve, PrepareFails, Release,
             ReleaseFails, Record, OpenLogFails, SpawnFails, RecordSpawnError, Spawn, RecordPID,
             RecordPIDFails, WaitReturns, Finalize, FinalizeFallback, FinalizeFails
    <3>3. ASSUME NEW t \in Starters, PollerStep(t) \/ QemuExits(t) PROVE qemu[s] = "running"
      BY <1>1, <1>2, <3>3 DEF TypeOK, PollerStep, PollResolves, PollStops, RecordVMIP, QemuExits
    <3>4. ASSUME NEW r \in Resetters, ResetStep(r) PROVE qemu[s] = "running"
      BY <3>4 DEF ResetStep, ResetLoad, GiveUp, ResetSave,
                  CleanupLoad, CleanupCheck, CleanupRemove
    <3>5. ASSUME NEW p \in Procs, Crash(p) PROVE qemu[s] = "running"
      BY <3>5 DEF Crash
    <3>6. CASE UNCHANGED vars
      BY <3>6 DEF vars
    <3>7. QED
      BY <3>2, <3>3, <3>4, <3>5, <3>6 DEF Next
  <2>2. file.vms[n] # NoVM /\ file.vms[n].pid = s
    BY <1>1, <1>4, <2>1 DEF IInv, RunningPIDKept
  <2>3. VMIsLive(file.vms[n]) /\ s # NoProc
    BY <1>2, <2>1, <2>2, ProcAssumption DEF VMIsLive, QemuRunning
  <2>4. file.vms[n].starter = s
    BY <1>2, <2>2, <2>3 DEF IInv, RecordsOfTheirStarters, WellFormed, OfItsStarter
  <2>5. Change(n)
    BY <1>2, FileStep
  <2>6. CASE Kept(n)
    BY <1>2, <2>2, <2>6 DEF Kept
  <2>7. ASSUME NEW t \in Starters, WrittenBy(t, n)
        PROVE  file'.vms[n] # NoVM /\ file'.vms[n].pid = s
    <3>1. t = s
      BY <1>1, <2>4, <2>7 DEF IInv, ReservationHeld, WrittenBy
    <3>2. QED
      BY <2>7, <3>1 DEF WrittenBy
  <2>8. ~(\E t \in Starters : ReservedBy(t, n)) /\ ~Removed(n)
    BY <2>2, <2>3 DEF ReservedBy, Removed
  <2>9. QED
    BY <1>2, <2>5, <2>6, <2>7, <2>8 DEF Change
<1>5. QED
  BY <1>3, <1>4

(* From the image's creation on, the disk is in the starter's memory; past *)
(* the Recording step the starter was there before or just recorded.       *)
LEMMA DiskInMemory ==
  ASSUME TypeOK, DiskKept, [Next]_vars, NEW s \in Starters
  PROVE  /\ pc'[s] \in Holding \cup {"prompt"} => name'[s] \in snap'[s].disks
         /\ pc'[s] \in Holding \ {"reserved", "releasing"} =>
              pc[s] \in Holding \ {"reserved", "releasing"} \/ Record(s)
<1> DEFINE Goal ==
      /\ pc'[s] \in Holding \cup {"prompt"} => name'[s] \in snap'[s].disks
      /\ pc'[s] \in Holding \ {"reserved", "releasing"} =>
           pc[s] \in Holding \ {"reserved", "releasing"} \/ Record(s)
<1>1. pc[s] \in Holding \cup {"prompt"} => name[s] \in snap[s].disks
  BY DEF DiskKept
<1> USE DEF TypeOK, Procs, locals, Goto, Holding
<1>2. ASSUME NEW t \in Starters, StarterStep(t) PROVE Goal
  <2>1. CASE Load(t)
    BY <1>1, <2>1 DEF Load
  <2>2. CASE Materialize(t)
    BY <1>1, <2>2 DEF Materialize, State
  <2>3. CASE GiveUp(t) \/ Reserve(t) \/ PrepareFails(t) \/ Release(t) \/ ReleaseFails(t)
    BY <1>1, <2>3 DEF GiveUp, Reserve, PrepareFails, Release, ReleaseFails
  <2>4. CASE Record(t)
    BY <1>1, <2>4 DEF Record
  <2>5. CASE OpenLogFails(t) \/ SpawnFails(t) \/ RecordSpawnError(t) \/ Spawn(t)
    BY <1>1, <2>5 DEF OpenLogFails, SpawnFails, RecordSpawnError, Spawn
  <2>6. CASE RecordPID(t) \/ RecordPIDFails(t) \/ WaitReturns(t)
    BY <1>1, <2>6 DEF RecordPID, RecordPIDFails, WaitReturns
  <2>7. CASE Finalize(t) \/ FinalizeFallback(t) \/ FinalizeFails(t)
    BY <1>1, <2>7 DEF Finalize, FinalizeFallback, FinalizeFails
  <2>8. QED
    BY <1>2, <2>1, <2>2, <2>3, <2>4, <2>5, <2>6, <2>7 DEF StarterStep
<1>3. ASSUME NEW t \in Starters, PollerStep(t) \/ QemuExits(t) PROVE Goal
  BY <1>1, <1>3 DEF PollerStep, PollResolves, PollStops, RecordVMIP, QemuExits
<1>4. ASSUME NEW r \in Resetters, ResetStep(r) PROVE Goal
  BY <1>1, <1>4, ProcAssumption DEF ResetStep, ResetLoad, GiveUp, ResetSave,
                                    CleanupLoad, CleanupCheck, CleanupRemove
<1>5. ASSUME NEW p \in Procs, Crash(p) PROVE Goal
  BY <1>1, <1>5 DEF Crash
<1>6. CASE UNCHANGED vars
  BY <1>1, <1>6 DEF vars
<1>7. QED
  BY <1>2, <1>3, <1>4, <1>5, <1>6 DEF Next

(* The disk of a started VM stays in the file while the starter holds it.  *)
LEMMA DiskStep == IInv /\ [Next]_vars => DiskKept'
<1> SUFFICES ASSUME IInv, [Next]_vars, NEW s \in Starters, ~overwritten',
                    pc'[s] \in Holding \ {"reserved", "releasing"}
             PROVE  name'[s] \in file'.disks
  BY DiskInMemory DEF DiskKept, IInv
<1> DEFINE n == name[s]
<1>1. TypeOK /\ DiskKept /\ ~overwritten /\ n \in DiskNames /\ name' = name
  BY FileStep, Frame DEF IInv, TypeOK, OwnershipFrame
<1>2. CASE Record(s)
  <2>1. WithDisk(file, n) \in State /\ n \in WithDisk(file, n).disks
    BY <1>1, WithDiskFacts DEF TypeOK
  <2>2. VMRecord(s) \in VM
    BY <1>1, RecordFacts DEF TypeOK
  <2>3. QED
    BY <1>1, <1>2, <2>1, <2>2, UpsertFacts DEF Record
<1>3. CASE pc[s] \in Holding \ {"reserved", "releasing"}
  <2>1. n \in file.disks
    BY <1>1, <1>3 DEF DiskKept
  <2>2. file.vms[n] # NoVM /\ file.vms[n].starter = s
    BY <1>1, <1>3 DEF IInv, ReservationHeld
  <2>3. VMIsLive(file.vms[n])
    BY <1>3, <2>2 DEF VMIsLive, StarterRunning, Holding
  <2>4. ~(\E t \in Starters : ReservedBy(t, n)) /\ ~Removed(n)
    BY <2>2, <2>3 DEF ReservedBy, Removed, Holding
  <2>5. Change(n)
    BY <1>1, FileStep
  <2>6. QED
    BY <1>1, <2>1, <2>4, <2>5 DEF Change, Kept, WrittenBy
<1>4. QED
  BY <1>1, <1>2, <1>3, DiskInMemory

(* A record past its reservation keeps its disk in the file.               *)
LEMMA RecordedDiskStep == IInv /\ [Next]_vars => RecordedVMHasDisk'
<1> SUFFICES ASSUME IInv, [Next]_vars, ~overwritten', NEW n \in DiskNames,
                    file'.vms[n] # NoVM, file'.vms[n].paths
             PROVE  n \in file'.disks
  BY DEF RecordedVMHasDisk
<1>1. ~overwritten /\ Change(n)
  BY FileStep
<1>2. CASE Kept(n)
  BY <1>1, <1>2 DEF Kept, IInv, RecordedVMHasDisk
<1>3. QED
  BY <1>1, <1>2 DEF Change, WrittenBy, ReservedBy, Removed

(* The invariant is inductive.                                             *)
LEMMA InvStep == IInv /\ [Next]_vars => IInv'
<1> SUFFICES ASSUME IInv, [Next]_vars PROVE IInv'
  OBVIOUS
<1>1. TypeOK' /\ RecordsOfTheirStarters' /\ QemuFollowsStarter'
  BY TypeStep, RecordsStep, QemuFollowsStarterStep DEF IInv
<1>2. RunningPIDKept' /\ ReservationHeld' /\ LiveIndicesDistinct'
  BY RunningPIDStep, ReservationStep, LiveIndicesStep
<1>3. DiskKept' /\ RecordedVMHasDisk'
  BY DiskStep, RecordedDiskStep
<1>4. QED
  BY <1>1, <1>2, <1>3 DEF IInv

(* The invariant of every instance.                                        *)
THEOREM InvCorrect == Spec => []IInv
<1>1. QED
  BY InvInit, InvStep, PTL DEF Spec

(* Until a plain Save overwrites another VM's entry, no two live records   *)
(* share an index.                                                         *)
THEOREM LiveIndicesCorrect == Spec => []LiveIndicesDistinct
<1>1. IInv => LiveIndicesDistinct
  BY DEF IInv
<1>2. QED
  BY <1>1, InvCorrect, PTL

(* Until then, a starter's reservation is its own until it ends.           *)
THEOREM ReservationCorrect == Spec => []ReservationHeld
<1>1. IInv => ReservationHeld
  BY DEF IInv
<1>2. QED
  BY <1>1, InvCorrect, PTL

(* Until then, a record past its reservation has its disk in the file.     *)
THEOREM RecordedDiskCorrect == Spec => []RecordedVMHasDisk
<1>1. IInv => RecordedVMHasDisk
  BY DEF IInv
<1>2. QED
  BY <1>1, InvCorrect, PTL

(* What counts as live is a start between its reservation and its end, or  *)
(* a QEMU whose starter was killed: never a start that returned.           *)
LiveRecordsOfRunning ==
  \A n \in DiskNames : VMIsLive(file.vms[n]) =>
    LET s == file.vms[n].starter
    IN  pc[s] \in Holding \/ (pc[s] = "dead" /\ qemu[s] = "running")

(* No write, not even one that overwrites other VMs' entries, leaves a     *)
(* record live that belongs to a start that gave up, failed or returned.   *)
THEOREM LiveRecordsCorrect == Spec => []LiveRecordsOfRunning
<1>1. IInv => LiveRecordsOfRunning
  <2> SUFFICES ASSUME IInv, NEW n \in DiskNames, VMIsLive(file.vms[n]),
                      NEW s, s = file.vms[n].starter
               PROVE  pc[s] \in Holding \/ (pc[s] = "dead" /\ qemu[s] = "running")
    BY DEF LiveRecordsOfRunning
  <2>1. file.vms[n] \in VM /\ OfItsStarter(file.vms[n], n)
    BY DEF IInv, TypeOK, State, VMIsLive, RecordsOfTheirStarters, WellFormed
  <2>2. s \in Starters /\ pc[s] \in (StarterPCs \cup ResetPCs) \ BeforeReserve
    BY <2>1 DEF VM, Procs, OfItsStarter, IInv, TypeOK
  <2>3. pc[s] \in Holding \cup {"exited", "dead"}
    BY <2>2 DEF StarterPCs, ResetPCs, BeforeReserve, Holding
  <2>4. CASE pc[s] \in {"exited", "dead"}
    <3>1. QemuRunning(file.vms[n].pid)
      BY <2>4 DEF VMIsLive, StarterRunning
    <3>2. file.vms[n].pid = s /\ qemu[s] = "running"
      BY <3>1, <2>1, ProcAssumption DEF QemuRunning, OfItsStarter
    <3>3. pc[s] # "exited"
      BY <3>2, <2>2 DEF IInv, QemuFollowsStarter
    <3> QED
      BY <2>4, <3>2, <3>3
  <2> QED
    BY <2>3, <2>4
<1> QED
  BY <1>1, InvCorrect, PTL

(* Until then, two QEMUs state.json can know about never run with the same *)
(* index or on the same disk, killed starters included: each has a live    *)
(* record of its own under its name.                                       *)
THEOREM RunningVMsCorrect == Spec => []RunningVMsDistinct
<1>1. ASSUME IInv, ~overwritten, NEW s \in Starters, Known(s)
      PROVE  LET v == file.vms[name[s]] IN
             VMIsLive(v) /\ v.starter = s /\ v.index = index[s]
  <2>1. TypeOK /\ QemuFollowsStarter /\ name[s] \in DiskNames
    BY <1>1 DEF IInv, TypeOK
  <2>2. CASE s \in pidRecorded
    <3>1. file.vms[name[s]] # NoVM /\ file.vms[name[s]].pid = s /\ s # NoProc
      BY <1>1, <2>2, ProcAssumption DEF IInv, RunningPIDKept, Known
    <3>2. OfItsStarter(file.vms[name[s]], name[s])
      BY <1>1, <2>1, <3>1 DEF IInv, RecordsOfTheirStarters, WellFormed
    <3>3. QED
      BY <1>1, <3>1, <3>2 DEF OfItsStarter, VMIsLive, QemuRunning, Known
  <2>3. CASE StarterRunning(s)
    <3>1. pc[s] \in Holding
      BY <1>1, <2>1, <2>3 DEF Known, QemuFollowsStarter, StarterRunning, Holding, TypeOK
    <3>2. QED
      BY <1>1, <2>3, <3>1 DEF IInv, ReservationHeld, VMIsLive
  <2>4. QED
    BY <1>1, <2>2, <2>3 DEF Known
<1>2. IInv => RunningVMsDistinct
  <2> SUFFICES ASSUME IInv, ~overwritten, NEW s \in Starters, NEW t \in Starters,
                      s # t, Known(s), Known(t)
               PROVE  index[s] # index[t] /\ name[s] # name[t]
    BY DEF RunningVMsDistinct
  <2>1. /\ VMIsLive(file.vms[name[s]]) /\ file.vms[name[s]].starter = s
        /\ file.vms[name[s]].index = index[s]
        /\ VMIsLive(file.vms[name[t]]) /\ file.vms[name[t]].starter = t
        /\ file.vms[name[t]].index = index[t]
    BY <1>1
  <2>2. name[s] # name[t] /\ name[s] \in DiskNames /\ name[t] \in DiskNames
    BY <2>1 DEF IInv, TypeOK
  <2>3. QED
    BY <2>1, <2>2 DEF IInv, LiveIndicesDistinct
<1>3. QED
  BY <1>2, InvCorrect, PTL

(* A record a starter stopped holds the address its poller sent.           *)
THEOREM AddressCorrect == Spec => []AddressKept
<1>1. IInv => AddressKept
  BY DEF IInv, TypeOK, RecordsOfTheirStarters, WellFormed, OfItsStarter, AddressKept
<1>2. QED
  BY <1>1, InvCorrect, PTL

-----------------------------------------------------------------------------
(* The records implement the registry                                      *)

(* Nothing happens to the starter s or its QEMU.                           *)
Stands(s) == pc'[s] = pc[s] /\ qemu'[s] = qemu[s]

(* A step is one invocation's: the others stand, and so do their QEMUs.    *)
LEMMA OneMoves == TypeOK /\ [Next]_vars => \E a : \A s \in Starters \ {a} : Stands(s)
<1> SUFFICES ASSUME TypeOK, [Next]_vars PROVE \E a : \A s \in Starters \ {a} : Stands(s)
  OBVIOUS
<1> USE DEF TypeOK, Procs, locals, Goto, Stands
<1>1. ASSUME NEW a \in Starters, StarterStep(a) PROVE \A s \in Starters \ {a} : Stands(s)
  <2>1. CASE Load(a) \/ Materialize(a) \/ GiveUp(a) \/ Reserve(a) \/ PrepareFails(a)
    BY <2>1 DEF Load, Materialize, GiveUp, Reserve, PrepareFails
  <2>2. CASE Release(a) \/ ReleaseFails(a) \/ Record(a) \/ OpenLogFails(a) \/ SpawnFails(a)
    BY <2>2 DEF Release, ReleaseFails, Record, OpenLogFails, SpawnFails
  <2>3. CASE RecordSpawnError(a) \/ Spawn(a) \/ RecordPID(a) \/ RecordPIDFails(a)
    BY <2>3 DEF RecordSpawnError, Spawn, RecordPID, RecordPIDFails
  <2>4. CASE WaitReturns(a) \/ Finalize(a) \/ FinalizeFallback(a) \/ FinalizeFails(a)
    BY <2>4 DEF WaitReturns, Finalize, FinalizeFallback, FinalizeFails
  <2>5. QED
    BY <1>1, <2>1, <2>2, <2>3, <2>4 DEF StarterStep
<1>2. ASSUME NEW a \in Starters, PollerStep(a) \/ QemuExits(a)
      PROVE  \A s \in Starters \ {a} : Stands(s)
  BY <1>2 DEF PollerStep, PollResolves, PollStops, RecordVMIP, QemuExits
<1>3. ASSUME NEW r \in Resetters, ResetStep(r) PROVE \A s \in Starters \ {r} : Stands(s)
  BY <1>3 DEF ResetStep, ResetLoad, GiveUp, ResetSave, CleanupLoad, CleanupCheck, CleanupRemove
<1>4. ASSUME NEW p \in Procs, Crash(p) PROVE \A s \in Starters \ {p} : Stands(s)
  BY <1>4 DEF Crash
<1>5. CASE UNCHANGED vars
  BY <1>5 DEF vars
<1>6. QED
  BY <1>1, <1>2, <1>3, <1>4, <1>5 DEF Next

(* A live record is its starter's, who reserved its name, and its QEMU is  *)
(* that starter's.                                                         *)
LEMMA LeaseFacts ==
  ASSUME IInv, NEW n \in DiskNames, VMIsLive(file.vms[n])
  PROVE  /\ LeaseOf(n) \in Registry!Lease
         /\ file.vms[n].starter \in Spent
         /\ name[file.vms[n].starter] = n
         /\ QemuRunning(file.vms[n].pid) => file.vms[n].pid = file.vms[n].starter
<1>1. file.vms[n] # NoVM /\ TypeOK /\ WellFormed(file)
  BY DEF VMIsLive, IInv, RecordsOfTheirStarters
<1>2. /\ file.vms[n].starter \in Starters /\ file.vms[n].index \in Indices
      /\ OfItsStarter(file.vms[n], n)
  BY <1>1, Types DEF WellFormed
<1>3. QED
  BY <1>2, ProcAssumption DEF OfItsStarter, LeaseOf, Registry!Lease, Spent, QemuRunning

(* The lease of a starter that stands is kept.                             *)
LEMMA LeaseKept ==
  ASSUME IInv, [Next]_vars, ~overwritten', NEW n \in DiskNames, VMIsLive(file.vms[n]),
         Stands(file.vms[n].starter)
  PROVE  VMIsLive(file.vms[n])' /\ LeaseOf(n)' = LeaseOf(n)
<1> DEFINE h == file.vms[n].starter
<1>1. /\ h \in Spent /\ h \in Starters /\ name[h] = n
      /\ QemuRunning(file.vms[n].pid) => file.vms[n].pid = h
  BY LeaseFacts DEF Spent
<1>2. file.vms[n] # NoVM /\ (QemuRunning(file.vms[n].pid) \/ StarterRunning(h))
  BY DEF VMIsLive
<1>3. ~overwritten /\ Change(n)
  BY FileStep
<1>4. CASE Kept(n)
  <2>1. /\ file'.vms[n] # NoVM /\ file'.vms[n].starter = h
        /\ file'.vms[n].index = file.vms[n].index /\ file'.vms[n].pid = file.vms[n].pid
    BY <1>2, <1>4 DEF Kept
  <2>2. QED
    BY <1>1, <1>2, <2>1 DEF VMIsLive, QemuRunning, StarterRunning, Stands, LeaseOf
<1>5. ASSUME NEW s \in Starters, WrittenBy(s, n)
      PROVE  VMIsLive(file.vms[n])' /\ LeaseOf(n)' = LeaseOf(n)
  <2>1. s = h /\ file.vms[n].index = index[h]
    BY <1>3, <1>5 DEF IInv, ReservationHeld, WrittenBy
  <2>2. /\ file'.vms[n] # NoVM /\ file'.vms[n].starter = h
        /\ file'.vms[n].index = file.vms[n].index /\ pc[h] \in Holding
    BY <1>5, <2>1 DEF WrittenBy
  <2>3. QED
    BY <2>2 DEF VMIsLive, StarterRunning, Stands, LeaseOf, Holding
<1>6. ~\E s \in Starters : ReservedBy(s, n)
  BY DEF ReservedBy
<1>7. ~Removed(n)
  BY <1>1, <1>2, ProcAssumption DEF Removed, Stands, QemuRunning, StarterRunning, VMIsLive
<1>8. QED
  BY <1>3, <1>4, <1>5, <1>6, <1>7 DEF Change

(* While the registry is kept, a step grants the lease of a reservation, or*)
(* ends at most one.                                                       *)
LEMMA LeaseStep ==
  ASSUME IInv, IInv', [Next]_vars, ~overwritten'
  PROVE  [Registry!Next]_Registry!vars
<1> DEFINE Live == {m \in DiskNames : VMIsLive(file.vms[m])}
           LiveAfter == {m \in DiskNames : VMIsLive(file.vms[m])'}
<1>1. TypeOK /\ ~overwritten /\ name \in [Starters -> DiskNames] /\ UNCHANGED overwritten
  BY FileStep DEF IInv, TypeOK
<1>2. Leases = {LeaseOf(n) : n \in Live} /\ Leases' = {LeaseOf(n)' : n \in LiveAfter}
  BY <1>1 DEF Leases
<1>3. PICK a : \A s \in Starters \ {a} : Stands(s)
  BY <1>1, OneMoves
<1>4. \A s \in Spent : s \in Spent'
  BY <1>1, Frame DEF OwnershipFrame, Spent
<1>5. Spent' = Spent \/ (a \in Starters /\ a \notin Spent /\ Spent' = Spent \cup {a})
  BY <1>3, <1>4 DEF Spent, Stands
<1>6. ASSUME NEW n \in Live, ~(n \in LiveAfter /\ LeaseOf(n)' = LeaseOf(n))
      PROVE  a \in Spent /\ n = name[a] /\ LeaseOf(n).holder = a
  <2>1. ~Stands(file.vms[n].starter)
    BY <1>6, LeaseKept
  <2>2. file.vms[n].starter \in Spent /\ name[file.vms[n].starter] = n
    BY LeaseFacts
  <2>3. file.vms[n].starter = a
    BY <1>3, <2>1, <2>2 DEF Spent
  <2>4. QED
    BY <2>2, <2>3 DEF LeaseOf
<1>7. CASE \E s \in Starters, n \in DiskNames : ReservedBy(s, n)
  <2>1. PICK s \in Starters, n \in DiskNames : ReservedBy(s, n)
    BY <1>7
  <2> DEFINE i == file'.vms[n].index
  <2>2. pc[s] = "prompt" /\ pc'[s] = "reserved"
    BY <2>1 DEF ReservedBy
  <2>3. s = a /\ s \notin Spent /\ s \in Spent'
    BY <1>3, <2>2 DEF Stands, Spent, BeforeReserve
  <2>4. Spent' = Spent \cup {s}
    BY <1>5, <2>3
  <2>5. \A m \in Live : m \in LiveAfter /\ LeaseOf(m)' = LeaseOf(m)
    BY <1>6, <2>3
  <2>6. n \notin Live /\ n \in LiveAfter
    BY <2>1, <2>2 DEF ReservedBy, VMIsLive, StarterRunning
  <2>7. \A m \in LiveAfter \ {n} : m \in Live
    <3> SUFFICES ASSUME NEW m \in LiveAfter \ {n}, m \notin Live PROVE FALSE
      OBVIOUS
    <3>1. PICK t \in Starters : ReservedBy(t, m)
      BY LiveFromLive
    <3>2. t = a
      BY <1>3, <3>1 DEF ReservedBy, Stands
    <3>3. QED
      BY <2>1, <2>3, <3>1, <3>2 DEF ReservedBy
  <2>8. LeaseOf(n)' = [name |-> n, holder |-> s, index |-> i]
    BY <2>1 DEF LeaseOf, ReservedBy
  <2>9. Leases' = Leases \cup {[name |-> n, holder |-> s, index |-> i]}
    BY <1>2, <2>5, <2>6, <2>7, <2>8
  <2>10. i \in Indices
    BY <2>6 DEF IInv, TypeOK, State, VM, VMIsLive
  <2>11. Registry!Free(n, i)
    BY <1>2, <2>1, <2>6 DEF Registry!Free, LeaseOf, ReservedBy
  <2>12. Registry!Grant(s, n, i)
    BY <1>1, <2>3, <2>4, <2>9, <2>11 DEF Registry!Grant
  <2>13. QED
    BY <2>10, <2>12 DEF Registry!Next
<1>8. CASE ~\E s \in Starters, n \in DiskNames : ReservedBy(s, n)
  <2>1. \A n \in LiveAfter : n \in Live /\ LeaseOf(n)' = LeaseOf(n)
    BY <1>8, LiveFromLive DEF LeaseOf
  <2>2. Leases' \subseteq Leases
    BY <1>2, <2>1
  <2>3. CASE Leases' = Leases
    <3>1. CASE Spent' = Spent
      BY <1>1, <2>3, <3>1 DEF Registry!vars
    <3>2. CASE a \in Starters /\ a \notin Spent /\ Spent' = Spent \cup {a}
      BY <1>1, <2>3, <3>2 DEF Registry!Next, Registry!Forgo
    <3>3. QED
      BY <1>5, <3>1, <3>2
  <2>4. CASE Leases' # Leases
    <3>1. PICK l \in Leases : l \notin Leases'
      BY <2>2, <2>4
    <3>2. PICK n \in Live : l = LeaseOf(n)
      BY <1>2, <3>1
    <3>3. ~(n \in LiveAfter /\ LeaseOf(n)' = LeaseOf(n))
      BY <1>2, <3>1, <3>2
    <3>4. a \in Spent /\ n = name[a]
      BY <1>6, <3>3
    <3>5. \A m \in Live \ {n} : m \in LiveAfter /\ LeaseOf(m)' = LeaseOf(m)
      BY <1>6, <3>4
    <3>6. Leases' = Leases \ {l}
      BY <1>2, <2>2, <3>1, <3>2, <3>5
    <3>7. Spent' = Spent
      BY <1>5, <3>4
    <3>8. Registry!End(l)
      BY <1>1, <3>6, <3>7 DEF Registry!End
    <3>9. QED
      BY <3>1, <3>8 DEF Registry!Next
  <2>5. QED
    BY <2>3, <2>4
<1>9. QED
  BY <1>7, <1>8

(* A plain write that overwrites another VM's entry loses the registry, and*)
(* nothing brings it back.                                                 *)
LEMMA LossStep ==
  ASSUME TypeOK, [Next]_vars, overwritten'
  PROVE  [Registry!Next]_Registry!vars
<1>1. Leases' = {} /\ overwritten' = TRUE
  BY DEF Leases, TypeOK, State
<1>2. PICK a : \A s \in Starters \ {a} : Stands(s)
  BY OneMoves
<1>3. \A s \in Spent : s \in Spent'
  BY Frame DEF OwnershipFrame, Spent
<1>4. Spent' = Spent \/ (a \in Starters /\ a \notin Spent /\ Spent' = Spent \cup {a})
  BY <1>2, <1>3 DEF Spent, Stands
<1>5. CASE overwritten
  <2>1. UNCHANGED <<Leases, overwritten>>
    BY <1>1, <1>5 DEF Leases, TypeOK
  <2>2. QED
    BY <1>4, <2>1 DEF Registry!Next, Registry!Forgo, Registry!vars
<1>6. CASE ~overwritten
  <2>1. \/ \E s \in Starters : FinalizeFallback(s)
        \/ \E r \in Resetters : ResetSave(r) \/ CleanupRemove(r)
    <3>1. ASSUME overwritten' = overwritten PROVE FALSE
      BY <1>1, <1>6, <3>1
    <3>2. QED
      BY <3>1 DEF Next, StarterStep, PollerStep, ResetStep, vars, Load, Materialize, GiveUp, Reserve,
           PrepareFails, Release, ReleaseFails, Record, OpenLogFails, SpawnFails, RecordSpawnError,
           Spawn, RecordPID, RecordPIDFails, WaitReturns, Finalize, FinalizeFails, PollResolves,
           PollStops, RecordVMIP, QemuExits, Crash, ResetLoad, CleanupLoad, CleanupCheck
  <2>2. Spent' = Spent
    BY <2>1, ProcAssumption
       DEF FinalizeFallback, ResetSave, CleanupRemove, Goto, Spent, BeforeReserve, TypeOK, Procs
  <2>3. Registry!Lose
    BY <1>1, <1>6, <2>2 DEF Registry!Lose
  <2>4. QED
    BY <2>3 DEF Registry!Next
<1>7. QED
  BY <1>5, <1>6

(* For any invocations, names and indices, the records of state.json are   *)
(* the registry: leases are granted, end and are lost one step at a time   *)
(* and as it says, whatever fails, is killed or overlaps.                  *)
THEOREM RegistryCorrect == Spec => ImplementsRegistry
<1>1. Init => Registry!Init
  BY DEF Init, NewState, Registry!Init, Registry!Exclusive, Leases, LeaseOf, VMIsLive, Spent,
         BeforeReserve, Procs
<1>2. IInv /\ IInv' /\ [Next]_vars => [Registry!Next]_Registry!vars
  BY LeaseStep, LossStep DEF IInv
<1>3. QED
  BY <1>1, <1>2, InvCorrect, PTL DEF Spec, ImplementsRegistry, Registry!Spec

-----------------------------------------------------------------------------
(* When no write overwrites                                                *)

Pending == {"confirm", "plan", "cleaning"}

(* While a reset or a cleanup is between its Load and its write, nobody    *)
(* else is under way.                                                      *)
ResetsAlone ==
  \A r \in Resetters : pc[r] \in Pending =>
    \A p \in Procs \ {r} : pc[p] \in {"idle", "exited", "dead"}

(* No exit falls back on the state its start loaded.                       *)
NoFallback == \A s \in Starters : ~FinalizeFallback(s)

(* What such a reset or cleanup loaded is what is there, and what it found *)
(* dead is.                                                                *)
SnapshotsCurrent ==
  \A r \in Resetters :
    /\ pc[r] \in Pending => snap[r] = file
    /\ pc[r] = "confirm" => \A n \in target[r] : ~VMIsLive(file.vms[n])
    /\ pc[r] = "cleaning" => \A n \in DiskNames : ~VMIsLive(file.vms[n])

(* Where the plain writes are: elsewhere the flag stays.                   *)
LEMMA OnlyPlainWrites ==
  ASSUME [Next]_vars, ~overwritten
  PROVE  \/ ~overwritten'
         \/ \E s \in Starters : FinalizeFallback(s)
         \/ \E r \in Resetters : ResetSave(r) \/ CleanupRemove(r)
<1>1. CASE overwritten' = overwritten
  BY <1>1
<1>2. CASE overwritten' # overwritten
  BY <1>2 DEF Next, StarterStep, PollerStep, ResetStep, vars, Load, Materialize, GiveUp, Reserve,
     PrepareFails, Release, ReleaseFails, Record, OpenLogFails, SpawnFails, RecordSpawnError,
     Spawn, RecordPID, RecordPIDFails, WaitReturns, Finalize, FinalizeFails, PollResolves,
     PollStops, RecordVMIP, QemuExits, Crash, ResetLoad, CleanupLoad, CleanupCheck
<1> QED
  BY <1>1, <1>2

(* While it is alone only its own steps and the ends of QEMUs happen.      *)
LEMMA AloneSteps ==
  ASSUME TypeOK, [Next]_vars, ResetsAlone, ResetsAlone',
         NEW r \in Resetters, pc[r] \in Pending, pc'[r] \in Pending
  PROVE  \/ UNCHANGED vars
         \/ CleanupCheck(r)
         \/ \E s \in Starters : QemuExits(s)
<1> USE DEF TypeOK, Procs, Pending
<1>1. \A p \in Procs \ {r} :
        pc[p] \in {"idle", "exited", "dead"} /\ pc'[p] \in {"idle", "exited", "dead"}
  BY DEF ResetsAlone
<1>2. ASSUME NEW s \in Starters, StarterStep(s) PROVE FALSE
  <2>1. s \in Procs \ {r}
    BY ProcAssumption
  <2>2. CASE Load(s)
    BY <1>1, <2>1, <2>2 DEF Load, Goto
  <2>3. CASE ~Load(s)
    BY <1>1, <1>2, <2>1, <2>3
       DEF StarterStep, Goto, Materialize, GiveUp, Reserve, PrepareFails, Release, ReleaseFails,
           Record, OpenLogFails, SpawnFails, RecordSpawnError, Spawn, RecordPID, RecordPIDFails,
           WaitReturns, Finalize, FinalizeFallback, FinalizeFails
  <2> QED
    BY <2>2, <2>3
<1>3. ASSUME NEW s \in Starters, PollerStep(s) PROVE FALSE
  <2>1. s \in Procs \ {r}
    BY ProcAssumption
  <2> QED
    BY <1>1, <1>3, <2>1 DEF PollerStep, PollResolves, PollStops, RecordVMIP, PollerRuns
<1>4. ASSUME NEW q \in Resetters \ {r}, ResetStep(q) PROVE FALSE
  BY <1>1, <1>4 DEF ResetStep, ResetLoad, ResetSave, GiveUp, CleanupLoad, CleanupCheck,
     CleanupRemove, Goto
<1>5. ASSUME ResetStep(r) PROVE CleanupCheck(r)
  BY <1>5 DEF ResetStep, ResetLoad, ResetSave, GiveUp, CleanupLoad, CleanupRemove, Goto
<1>6. ASSUME NEW p \in Procs, Crash(p) PROVE FALSE
  BY <1>1, <1>6 DEF Crash
<1> QED
  BY <1>2, <1>3, <1>4, <1>5, <1>6 DEF Next

LEMMA SnapshotsStep ==
  ASSUME TypeOK, [Next]_vars, ResetsAlone, ResetsAlone', SnapshotsCurrent
  PROVE  SnapshotsCurrent'
<1> SUFFICES ASSUME NEW r \in Resetters, pc'[r] \in Pending
             PROVE  /\ snap'[r] = file'
                    /\ pc'[r] = "confirm" => \A n \in target'[r] : ~VMIsLive(file.vms[n])'
                    /\ pc'[r] = "cleaning" => \A n \in DiskNames : ~VMIsLive(file.vms[n])'
  BY DEF SnapshotsCurrent, Pending
<1>1. CASE pc[r] \in Pending
  <2>1. CASE UNCHANGED vars
    BY <1>1, <2>1 DEF vars, SnapshotsCurrent, VMIsLive, QemuRunning, StarterRunning
  <2>2. CASE CleanupCheck(r)
    BY <1>1, <2>2 DEF CleanupCheck, Goto, locals, SnapshotsCurrent, VMIsLive, QemuRunning,
       StarterRunning, TypeOK, Procs, Pending
  <2>3. ASSUME NEW s \in Starters, QemuExits(s)
        PROVE  /\ snap'[r] = file'
               /\ pc'[r] = "confirm" => \A n \in target'[r] : ~VMIsLive(file.vms[n])'
               /\ pc'[r] = "cleaning" => \A n \in DiskNames : ~VMIsLive(file.vms[n])'
    <3>1. UNCHANGED <<file, pc, snap, target>>
      BY <2>3 DEF QemuExits, locals
    <3>2. \A n : VMIsLive(file.vms[n])' => VMIsLive(file.vms[n])
      BY <2>3, <3>1 DEF QemuExits, VMIsLive, QemuRunning, StarterRunning, TypeOK
    <3> QED
      BY <1>1, <3>1, <3>2 DEF SnapshotsCurrent
  <2> QED
    BY <1>1, <2>1, <2>2, <2>3, AloneSteps
<1>2. CASE pc[r] \notin Pending
  <2>1. ResetLoad(r) \/ CleanupLoad(r)
    <3>1. r \in Procs /\ r \notin Starters /\ pc'[r] # pc[r]
      BY <1>2, ProcAssumption DEF Procs
    <3>2. \A s \in Starters : ~StarterStep(s)
      BY <3>1 DEF StarterStep, Load, Materialize, GiveUp, Reserve, PrepareFails, Release,
         ReleaseFails, Record, OpenLogFails, SpawnFails, RecordSpawnError, Spawn, RecordPID,
         RecordPIDFails, WaitReturns, Finalize, FinalizeFallback, FinalizeFails, Goto, TypeOK
    <3>3. \A s \in Starters : ~PollerStep(s) /\ ~QemuExits(s)
      BY <3>1 DEF PollerStep, PollResolves, PollStops, RecordVMIP, QemuExits
    <3>4. \A p \in Procs : ~Crash(p)
      BY <3>1 DEF Crash, TypeOK, Pending
    <3>5. \A q \in Resetters : ResetStep(q) => q = r
      BY <3>1 DEF ResetStep, ResetLoad, ResetSave, GiveUp, CleanupLoad, CleanupCheck,
         CleanupRemove, Goto, TypeOK, Procs
    <3>6. ResetStep(r)
      BY <3>1, <3>2, <3>3, <3>4, <3>5 DEF Next, vars
    <3> QED
      BY <1>2, <3>1, <3>6 DEF ResetStep, ResetSave, GiveUp, CleanupCheck, CleanupRemove, Goto,
         TypeOK, Pending
  <2>2. CASE ResetLoad(r)
    <3>1. /\ pc' = [pc EXCEPT ![r] = "confirm"] /\ UNCHANGED <<file, qemu>>
          /\ pc'[r] = "confirm" /\ snap'[r] = file
          /\ \A n \in target'[r] : n \in DiskNames /\ ~VMIsLive(file.vms[n])
      BY <2>2 DEF ResetLoad, Goto, TypeOK, Procs, State
    <3>2. ASSUME NEW n \in DiskNames, ~VMIsLive(file.vms[n]) PROVE ~VMIsLive(file.vms[n])'
      <4>1. file.vms[n] # NoVM => file.vms[n].starter \in Starters
        BY Types
      <4>2. file.vms[n] # NoVM => file.vms[n].starter # r
        BY <4>1, ProcAssumption
      <4> QED
        BY <3>1, <3>2, <4>1, <4>2 DEF VMIsLive, QemuRunning, StarterRunning, TypeOK, Procs
    <3> QED
      BY <3>1, <3>2
  <2>3. CASE CleanupLoad(r)
    BY <2>3 DEF CleanupLoad, Goto, TypeOK, Procs
  <2> QED
    BY <2>1, <2>2, <2>3
<1> QED
  BY <1>1, <1>2

(* A reset or a cleanup that was alone overwrites nothing, and while no    *)
(* exit falls back nothing else does.                                      *)
LEMMA AloneStep ==
  ASSUME TypeOK, [Next]_vars, [NoFallback]_vars, SnapshotsCurrent, ~overwritten
  PROVE  ~overwritten'
<1>1. ASSUME NEW r \in Resetters, ResetSave(r) PROVE ~overwritten'
  <2>1. pc[r] = "confirm" /\ snap[r] = file /\ \A n \in target[r] : ~VMIsLive(file.vms[n])
    BY <1>1 DEF ResetSave, Goto, SnapshotsCurrent, Pending
  <2>2. file' = ResetState(r)
    BY <1>1 DEF ResetSave
  <2>3. \A n \in DiskNames \ target[r] :
          file'.vms[n] = file.vms[n] /\ ((n \in file'.disks) = (n \in file.disks))
    BY <2>1, <2>2 DEF ResetState
  <2>4. ~ \E n \in DiskNames :
          IF n \in target[r]
          THEN VMIsLive(file.vms[n])
          ELSE file'.vms[n] # file.vms[n] \/ (n \in file'.disks) # (n \in file.disks)
    BY <2>1, <2>3
  <2> QED
    BY <1>1, <2>4 DEF ResetSave
<1>2. ASSUME NEW r \in Resetters, CleanupRemove(r) PROVE ~overwritten'
  BY <1>2 DEF CleanupRemove, Goto, SnapshotsCurrent, Pending
<1>3. ASSUME NEW s \in Starters, FinalizeFallback(s) PROVE ~overwritten'
  <2>1. UNCHANGED vars
    BY <1>3 DEF NoFallback
  <2> QED
    BY <2>1 DEF vars
<1> QED
  BY <1>1, <1>2, <1>3, OnlyPlainWrites

(* When resets and cleanups run alone and no exit falls back, no entry of  *)
(* state.json is ever overwritten: reservations, indices, disks and leases *)
(* are kept without the condition their properties state.                  *)
THEOREM AloneCorrect == Spec /\ []ResetsAlone /\ [][NoFallback]_vars => []~overwritten
<1>1. Init => TypeOK /\ SnapshotsCurrent /\ ~overwritten
  BY TypeInit DEF Init, SnapshotsCurrent, Pending, Procs
<1>2. /\ TypeOK /\ SnapshotsCurrent /\ ~overwritten
      /\ [Next]_vars /\ [NoFallback]_vars /\ ResetsAlone /\ ResetsAlone'
      => TypeOK' /\ SnapshotsCurrent' /\ ~overwritten'
  BY TypeStep, SnapshotsStep, AloneStep
<1> QED
  BY <1>1, <1>2, PTL DEF Spec

(* Hence under those conditions a starter that is under way has its record *)
(* and index in the file, and no two QEMUs that state.json can know about  *)
(* share an index or a disk, whatever else fails or is killed.             *)
THEOREM AloneSafe ==
  Spec /\ []ResetsAlone /\ [][NoFallback]_vars =>
    /\ [](\A s \in Starters : pc[s] \in Holding =>
            LET v == file.vms[name[s]] IN v # NoVM /\ v.starter = s /\ v.index = index[s])
    /\ [](\A s, t \in Starters : (s # t /\ Known(s) /\ Known(t))
            => index[s] # index[t] /\ name[s] # name[t])
<1>1. ~overwritten /\ ReservationHeld /\ RunningVMsDistinct =>
        /\ \A s \in Starters : pc[s] \in Holding =>
             LET v == file.vms[name[s]] IN v # NoVM /\ v.starter = s /\ v.index = index[s]
        /\ \A s, t \in Starters : (s # t /\ Known(s) /\ Known(t))
             => index[s] # index[t] /\ name[s] # name[t]
  BY DEF ReservationHeld, RunningVMsDistinct
<1> QED
  BY <1>1, AloneCorrect, ReservationCorrect, RunningVMsCorrect, PTL
=============================================================================
