-------------------------- MODULE StateStore_proofs --------------------------
(***************************************************************************)
(* The store's safety properties for any number of updates, plain saves    *)
(* and cleanups, and the refinement of AtomicStore by updates alone.       *)
(***************************************************************************)
EXTENDS StateStore, TLAPS

(* The empty store satisfies the inductive invariant.                      *)
LEMMA InitIInv == Init => IInv
<1> SUFFICES ASSUME Init PROVE IInv
  OBVIOUS
<1>1. TypeOK
  <2>1. dest \in Contents /\ mem \in [Writers -> Contents]
    BY DEF Init, Contents
  <2>2. tries \in [Updaters -> 0..MaxTries]
    BY TriesAssumption DEF Init
  <2>3. QED
    BY <2>1, <2>2 DEF Init, TypeOK, PCs
<1>2. OneLockFile /\ Exclusive /\ MergesFresh
  BY DEF Init, OneLockFile, Exclusive, MergesFresh, Inside, Procs, Writers
<1>3. SeenIfPublished /\ FilesWhole
  BY DEF Init, SeenIfPublished, FilesWhole, Procs
<1>4. QED
  BY <1>1, <1>2, <1>3 DEF IInv

(* Every step keeps every variable's type.                                 *)
LEMMA TypeStep == ASSUME TypeOK, [Next]_vars PROVE TypeOK'
<1>1. CASE UNCHANGED vars
  BY <1>1 DEF TypeOK, vars, file, lock
<1>2. ASSUME NEW u \in Updaters, OpenLock(u) \/ OpenLockFails(u) \/ LockFails(u) \/ LockStep(u)
      PROVE  TypeOK'
  <2>1. CASE OpenLock(u)
    BY <2>1 DEF TypeOK, OpenLock, Goto, file, PCs, Inside, Procs, Writers
  <2>2. CASE Retry(u)
    <3>1. tries[u] \in 0..MaxTries /\ tries[u] < MaxTries
      BY <2>2 DEF TypeOK, Retry, TriesLeft
    <3>2. (IF tries[u] > MaxTries THEN tries[u] ELSE tries[u] + 1) \in 0..MaxTries
      BY <3>1, TriesAssumption
    <3>3. QED
      BY <2>2, <3>2 DEF TypeOK, Retry, file
  <2>3. CASE OpenLockFails(u) \/ LockFails(u) \/ Lock(u) \/ LockTimesOut(u)
    BY <2>3 DEF TypeOK, OpenLockFails, LockFails, Lock, LockTimesOut, Goto, file, lock, PCs,
                Inside
  <2>4. QED
    BY <1>2, <2>1, <2>2, <2>3 DEF LockStep
<1>3. ASSUME NEW p \in Writers, WriterStep(p) PROVE TypeOK'
  <2>1. p \in Procs
    BY DEF Procs
  <2>2. CASE LoadAndChange(p)
    <3>1. dest \cup {p} \in Contents
      BY DEF TypeOK, Contents
    <3>2. QED
      BY <2>1, <2>2, <3>1 DEF TypeOK, LoadAndChange, file, lock, PCs, Inside
  <2>3. CASE Rename(p)
    BY <2>1, <2>3 DEF TypeOK, Rename, lock, PCs, Inside
  <2>4. CASE CreateTemp(p) \/ WriteTemp(p) \/ Abort(p)
    BY <2>1, <2>4 DEF TypeOK, CreateTemp, WriteTemp, Abort, TempRemoved, Goto,
                      file, lock, PCs, Inside
  <2>5. CASE \/ LoadOrChangeFails(p) \/ CreateTempFails(p) \/ SaveFails(p)
             \/ Return(p) \/ Crash(p)
    BY <2>1, <2>5 DEF TypeOK, LoadOrChangeFails, CreateTempFails, SaveFails, Return, Crash,
                      Goto, file, lock, PCs, Inside
  <2>6. QED
    BY <1>3, <2>2, <2>3, <2>4, <2>5 DEF WriterStep
<1>4. ASSUME NEW c \in Cleaners, CleanerStep(c) PROVE TypeOK'
  BY <1>4 DEF TypeOK, CleanerStep, RemoveLockFile, RemoveTemp, RemoveState, RemoveDir,
              RemoveStateFile, StateFileGone, Goto, file, lock, PCs, Inside, Procs, Contents
<1>5. QED
  BY <1>1, <1>2, <1>3, <1>4 DEF Next

(* Every step keeps the lock file one, and its holder alone.               *)
LEMMA LockInvStep ==
  ASSUME TypeOK, OneLockFile, Exclusive, [Next]_vars
  PROVE  OneLockFile' /\ Exclusive'
<1>1. CASE UNCHANGED vars
  BY <1>1 DEF OneLockFile, Exclusive, vars, lock
<1>2. ASSUME NEW u \in Updaters, OpenLock(u) PROVE OneLockFile' /\ Exclusive'
  BY <1>2 DEF TypeOK, OpenLock, Goto, OneLockFile, Exclusive, Inside, Procs, Writers
<1>3. ASSUME NEW u \in Updaters, Lock(u) PROVE OneLockFile' /\ Exclusive'
  BY <1>3 DEF TypeOK, Lock, LockFree, Goto, OneLockFile, Exclusive, Inside, Procs, Writers,
              lock
<1>4. ASSUME NEW u \in Updaters,
             OpenLockFails(u) \/ LockFails(u) \/ Retry(u) \/ LockTimesOut(u)
      PROVE  OneLockFile' /\ Exclusive'
  BY <1>4 DEF TypeOK, OpenLockFails, LockFails, Retry, LockTimesOut, Goto,
              OneLockFile, Exclusive, Inside, Procs, Writers, lock
<1>5. ASSUME NEW p \in Writers, WriterStep(p) PROVE OneLockFile' /\ Exclusive'
  <2>1. /\ UNCHANGED lock
        /\ pc[p] \in Inside \cup {"locking"} \/ p \notin Updaters
        /\ \E s \in PCs : pc' = [pc EXCEPT ![p] = s]
    BY <1>5 DEF WriterStep, LoadAndChange, LoadOrChangeFails, ReadyToLoad, CreateTemp,
                CreateTempFails, WriteTemp, SaveFails, Rename, MayRename, Abort, Return, Crash,
                Goto, PCs, Inside
  <2>2. pc[p] \notin Inside /\ p \in Updaters => pc'[p] \notin Inside \cup {"locking"}
    BY <1>5 DEF TypeOK, WriterStep, LoadAndChange, LoadOrChangeFails, ReadyToLoad, CreateTemp,
                CreateTempFails, WriteTemp, SaveFails, Rename, MayRename, Abort, Return, Crash,
                Goto, PCs, Inside, Procs
  <2>3. QED
    BY <2>1, <2>2 DEF TypeOK, OneLockFile, Exclusive, lock, Procs, Writers
<1>6. ASSUME NEW c \in Cleaners, CleanerStep(c) PROVE OneLockFile' /\ Exclusive'
  BY <1>6, RolesAssumption
     DEF TypeOK, CleanerStep, RemoveLockFile, RemoveTemp, RemoveState, RemoveDir,
         RemoveStateFile, StateFileGone, Goto, file, lock, OneLockFile, Exclusive, Inside,
         Procs, Writers
<1>7. QED
  BY <1>1, <1>2, <1>3, <1>4, <1>5, <1>6 DEF Next, LockStep

(* Every step keeps a change unseen until it is published.                 *)
LEMMA SeenStep ==
  ASSUME TypeOK, SeenIfPublished, [Next]_vars PROVE SeenIfPublished'
<1>1. CASE UNCHANGED vars
  BY <1>1 DEF SeenIfPublished, vars, file
<1>2. ASSUME NEW u \in Updaters, OpenLock(u) \/ OpenLockFails(u) \/ LockFails(u) \/ LockStep(u)
      PROVE  SeenIfPublished'
  BY <1>2 DEF TypeOK, OpenLock, OpenLockFails, LockFails, LockStep, Lock, Retry, LockTimesOut,
              Goto, SeenIfPublished, file, Procs
<1>3. ASSUME NEW p \in Writers, WriterStep(p) PROVE SeenIfPublished'
  <2>1. CASE LoadAndChange(p)
    BY <2>1 DEF TypeOK, LoadAndChange, ReadyToLoad, SeenIfPublished, file, Procs
  <2>2. CASE Rename(p)
    BY <2>2 DEF TypeOK, Rename, SeenIfPublished, file, Procs
  <2>3. CASE \/ CreateTemp(p) \/ WriteTemp(p) \/ Abort(p)
             \/ LoadOrChangeFails(p) \/ CreateTempFails(p) \/ SaveFails(p)
    BY <2>3 DEF TypeOK, CreateTemp, WriteTemp, Abort, LoadOrChangeFails, ReadyToLoad,
                CreateTempFails, SaveFails, Goto, SeenIfPublished, file, Procs
  <2>4. CASE Return(p) \/ Crash(p)
    BY <2>4 DEF TypeOK, Return, Crash, Inside, Goto, SeenIfPublished, file, Procs
  <2>5. QED
    BY <1>3, <2>1, <2>2, <2>3, <2>4 DEF WriterStep
<1>4. ASSUME NEW c \in Cleaners, CleanerStep(c) PROVE SeenIfPublished'
  BY <1>4, RolesAssumption
     DEF TypeOK, CleanerStep, RemoveLockFile, RemoveTemp, RemoveState, RemoveDir,
         RemoveStateFile, StateFileGone, Goto, file, SeenIfPublished, Procs
<1>5. QED
  BY <1>1, <1>2, <1>3, <1>4 DEF Next

(* Every step keeps state.json whole, and temporary files to Saves at work.*)
LEMMA FilesStep ==
  ASSUME TypeOK, FilesWhole, [Next]_vars PROVE FilesWhole'
<1>1. CASE UNCHANGED vars
  BY <1>1 DEF FilesWhole, vars, file
<1>2. ASSUME NEW u \in Updaters, OpenLock(u) \/ OpenLockFails(u) \/ LockFails(u) \/ LockStep(u)
      PROVE  FilesWhole'
  BY <1>2 DEF TypeOK, OpenLock, OpenLockFails, LockFails, LockStep, Lock, Retry, LockTimesOut,
              Goto, FilesWhole, file, Procs
<1>3. ASSUME NEW p \in Writers, WriterStep(p) PROVE FilesWhole'
  <2>1. CASE LoadAndChange(p) \/ LoadOrChangeFails(p)
    BY <2>1 DEF TypeOK, LoadAndChange, LoadOrChangeFails, ReadyToLoad, FilesWhole, file, Procs
  <2>2. CASE Rename(p)
    BY <2>2 DEF TypeOK, Rename, MayRename, FilesWhole, Procs
  <2>3. CASE CreateTemp(p) \/ CreateTempFails(p) \/ WriteTemp(p)
    BY <2>3 DEF TypeOK, CreateTemp, CreateTempFails, WriteTemp, Goto, FilesWhole, file, Procs
  <2>4. CASE SaveFails(p) \/ Abort(p) \/ Return(p) \/ Crash(p)
    BY <2>4 DEF TypeOK, SaveFails, Abort, TempRemoved, Return, Crash, Goto, FilesWhole, file,
                Procs
  <2>5. QED
    BY <1>3, <2>1, <2>2, <2>3, <2>4 DEF WriterStep
<1>4. ASSUME NEW c \in Cleaners, CleanerStep(c) PROVE FilesWhole'
  BY <1>4, RolesAssumption
     DEF TypeOK, CleanerStep, RemoveLockFile, RemoveTemp, RemoveState, RemoveDir,
         RemoveStateFile, StateFileGone, Goto, file, FilesWhole, Procs
<1>5. QED
  BY <1>1, <1>2, <1>3, <1>4 DEF Next

(* Every step keeps the update inside working on the file as it is.        *)
LEMMA FreshStep ==
  ASSUME TypeOK, Exclusive, MergesFresh, [Next]_vars PROVE MergesFresh'
<1>1. CASE UNCHANGED vars
  BY <1>1 DEF MergesFresh, vars, file, lock
<1>2. ASSUME NEW u \in Updaters, OpenLock(u) \/ OpenLockFails(u) \/ LockFails(u) \/ LockStep(u)
      PROVE  MergesFresh'
  BY <1>2 DEF TypeOK, OpenLock, OpenLockFails, LockFails, LockStep, Lock, Retry, LockTimesOut,
              Goto, MergesFresh, file, lock, Procs, Writers
<1>3. ASSUME NEW p \in Writers, WriterStep(p) PROVE MergesFresh'
  <2>1. CASE LoadAndChange(p)
    BY <2>1 DEF TypeOK, LoadAndChange, ReadyToLoad, MergesFresh, file, lock, Procs, Writers
  <2>2. CASE Rename(p) /\ p \in Updaters
    <3>1. SUFFICES ASSUME ~plain, ~unlinked, NEW u \in Updaters PROVE
             /\ pc'[u] \in {"loaded", "created", "written"} => mem'[u] = dest' \cup {u}
             /\ pc'[u] \in {"renamed", "done"} => u \in dest'
      BY <2>2 DEF Rename, MergesFresh, lock
    <3>2. mem[p] = dest \cup {p} /\ dest' = dest \cup {p} /\ pc[p] = "written"
      BY <2>2, <3>1 DEF Rename, MayRename, MergesFresh
    <3>3. u # p => pc'[u] = pc[u] /\ pc[u] \notin {"loaded", "created", "written"}
      BY <2>2, <3>1, <3>2 DEF TypeOK, Rename, Exclusive, Inside, Procs, Writers
    <3>4. pc'[p] = "renamed"
      BY <2>2 DEF TypeOK, Rename, Procs
    <3>5. QED
      BY <3>1, <3>2, <3>3, <3>4 DEF MergesFresh
  <2>3. CASE Rename(p) /\ p \in Savers
    BY <2>3 DEF Rename, MergesFresh
  <2>4. CASE \/ LoadOrChangeFails(p) \/ CreateTemp(p) \/ CreateTempFails(p) \/ WriteTemp(p)
             \/ SaveFails(p) \/ Abort(p) \/ Return(p) \/ Crash(p)
    BY <2>4 DEF TypeOK, LoadOrChangeFails, CreateTemp, CreateTempFails, WriteTemp, SaveFails,
                Abort, Return, Crash, Goto, MergesFresh, file, lock, Procs, Writers
  <2>5. QED
    BY <1>3, <2>1, <2>2, <2>3, <2>4 DEF WriterStep, Writers
<1>4. ASSUME NEW c \in Cleaners, CleanerStep(c) PROVE MergesFresh'
  BY <1>4, RolesAssumption
     DEF TypeOK, CleanerStep, RemoveLockFile, RemoveTemp, RemoveState, RemoveDir,
         RemoveStateFile, StateFileGone, Goto, file, lock, MergesFresh, Procs, Writers
<1>5. QED
  BY <1>1, <1>2, <1>3, <1>4 DEF Next

(* The inductive invariant holds at every moment of every execution.       *)
THEOREM InvCorrect == Spec => []IInv
<1>1. Init => IInv
  BY InitIInv
<1>2. IInv /\ [Next]_vars => IInv'
  BY TypeStep, LockInvStep, SeenStep, FilesStep, FreshStep DEF IInv
<1>3. QED
  BY <1>1, <1>2, PTL DEF Spec

(* Every variable keeps its type, for any number of calls.                 *)
THEOREM TypeCorrect == Spec => []TypeOK
<1>1. IInv => TypeOK
  BY DEF IInv
<1>2. QED
  BY <1>1, InvCorrect, PTL

(* Until the lock file is removed, one Update at a time is between its     *)
(* load and its save.                                                      *)
THEOREM ExclusiveCorrect == Spec => []Exclusive
<1>1. IInv => Exclusive
  BY DEF IInv
<1>2. QED
  BY <1>1, InvCorrect, PTL

(* While only Updates write, no published change is lost.                  *)
THEOREM NoUpdateLostCorrect == Spec => []NoUpdateLost
<1>1. IInv => NoUpdateLost
  BY DEF IInv, MergesFresh, NoUpdateLost
<1>2. QED
  BY <1>1, InvCorrect, PTL

(* No reader ever meets a truncated state.json.                            *)
THEOREM WholeFileCorrect == Spec => []WholeFile
<1>1. IInv => WholeFile
  BY DEF IInv, FilesWhole, WholeFile
<1>2. QED
  BY <1>1, InvCorrect, PTL

(* A write that returned an error left no trace.                           *)
THEOREM FailureCorrect == Spec => []FailureLeavesNothing
<1>1. IInv => FailureLeavesNothing
  BY DEF IInv, SeenIfPublished, FilesWhole, FailureLeavesNothing
<1>2. QED
  BY <1>1, InvCorrect, PTL

-----------------------------------------------------------------------------
(* Updates alone implement the atomic store.                               *)

UpdatesOnly == Savers = {} /\ Cleaners = {}

(* What a step that publishes nothing must do to be a step of the atomic   *)
(* store: leave the file alone and report at most one outcome.             *)
LEMMA ReportOrStutter ==
  ASSUME TypeOK, NEW u \in Updaters, dest' = dest,
         NEW s, pc' = [pc EXCEPT ![u] = s],
         pc[u] \notin {"done", "failed"},
         \/ s \notin {"done", "failed"}
         \/ s = "done" /\ u \in dest
         \/ s = "failed" /\ u \notin dest
  PROVE  [Atomic!Next]_Atomic!vars
<1> DEFINE out == [v \in Updaters |-> Published(v)]
<1>1. \A v \in Updaters : pc'[v] = IF v = u THEN s ELSE pc[v]
  BY DEF TypeOK, Procs, Writers
<1>2. \A v \in Updaters \ {u} : Published(v)' = Published(v)
  BY <1>1 DEF Published
<1>3. CASE s \notin {"done", "failed"}
  <2>1. Published(u)' = Published(u)
    BY <1>1, <1>3 DEF Published
  <2>2. out' = out
    BY <1>2, <2>1
  <2>3. QED
    BY <2>2 DEF Atomic!vars
<1>4. CASE s = "done" /\ u \in dest
  <2>1. Published(u) = "applied" /\ Published(u)' = "done"
    BY <1>1, <1>4 DEF Published
  <2>2. out[u] = "applied" /\ out' = [out EXCEPT ![u] = "done"]
    BY <1>2, <2>1
  <2>3. Atomic!ReportDone(u)
    BY <2>2 DEF Atomic!ReportDone
  <2>4. QED
    BY <2>3 DEF Atomic!Next
<1>5. CASE s = "failed" /\ u \notin dest
  <2>1. Published(u) = "none" /\ Published(u)' = "failed"
    BY <1>1, <1>5 DEF Published
  <2>2. out[u] = "none" /\ out' = [out EXCEPT ![u] = "failed"]
    BY <1>2, <2>1
  <2>3. Atomic!ReportFailure(u)
    BY <2>2 DEF Atomic!ReportFailure
  <2>4. QED
    BY <2>3 DEF Atomic!Next
<1>6. QED
  BY <1>3, <1>4, <1>5

(* The rename is the moment an update takes effect.                        *)
LEMMA RenameApplies ==
  ASSUME IInv, ~plain, ~unlinked, NEW u \in Updaters, Rename(u)
  PROVE  Atomic!Apply(u)
<1> DEFINE out == [v \in Updaters |-> Published(v)]
<1>1. /\ pc[u] = "written" /\ u \notin dest /\ dest' = dest \cup {u}
      /\ \A v \in Updaters : pc'[v] = IF v = u THEN "renamed" ELSE pc[v]
  BY DEF Rename, MayRename, IInv, TypeOK, SeenIfPublished, MergesFresh, Procs, Writers
<1>2. Published(u) = "none" /\ Published(u)' = "applied"
  BY <1>1 DEF Published
<1>3. \A v \in Updaters \ {u} : Published(v)' = Published(v)
  BY <1>1 DEF Published
<1>4. out[u] = "none" /\ out' = [out EXCEPT ![u] = "applied"]
  BY <1>2, <1>3
<1>5. QED
  BY <1>1, <1>4 DEF Atomic!Apply

(* Every step of an Update is a step of the atomic store, or none.         *)
LEMMA AtomicStep ==
  ASSUME IInv, ~plain, ~unlinked, UpdatesOnly, [Next]_vars
  PROVE  [Atomic!Next]_Atomic!vars
<1>1. CASE UNCHANGED vars
  BY <1>1 DEF vars, file, Atomic!vars, Published
<1>2. ASSUME NEW u \in Updaters, OpenLock(u) \/ OpenLockFails(u) \/ LockFails(u) \/ Lock(u)
                                   \/ LockTimesOut(u)
      PROVE  [Atomic!Next]_Atomic!vars
  <2>1. PICK s \in {"locking", "failed", "locked"} : pc' = [pc EXCEPT ![u] = s]
    BY <1>2 DEF OpenLock, OpenLockFails, LockFails, Lock, LockTimesOut, Goto
  <2>2. dest' = dest /\ pc[u] \in {"idle", "locking"}
    BY <1>2 DEF OpenLock, OpenLockFails, LockFails, Lock, LockTimesOut, Goto, file
  <2>3. u \notin dest
    BY <2>2 DEF IInv, SeenIfPublished, Writers
  <2>4. QED
    BY <2>1, <2>2, <2>3, ReportOrStutter DEF IInv
<1>3. ASSUME NEW u \in Updaters, Retry(u) PROVE [Atomic!Next]_Atomic!vars
  BY <1>3 DEF Retry, file, Atomic!vars, Published
<1>4. ASSUME NEW u \in Updaters, Rename(u) PROVE [Atomic!Next]_Atomic!vars
  BY <1>4, RenameApplies DEF Atomic!Next
<1>5. ASSUME NEW u \in Updaters, Return(u) PROVE [Atomic!Next]_Atomic!vars
  <2>1. PICK s \in {"done", "failed"} : /\ pc' = [pc EXCEPT ![u] = s]
                                        /\ pc[u] = IF s = "done" THEN "renamed" ELSE "erred"
    BY <1>5 DEF Return, Goto
  <2>2. dest' = dest
    BY <1>5 DEF Return, file
  <2>3. IF s = "done" THEN u \in dest ELSE u \notin dest
    BY <2>1 DEF IInv, SeenIfPublished, MergesFresh, Writers
  <2>4. QED
    BY <2>1, <2>2, <2>3, ReportOrStutter DEF IInv
<1>6. ASSUME NEW u \in Updaters, WriterStep(u), ~Rename(u), ~Return(u)
      PROVE  [Atomic!Next]_Atomic!vars
  <2>1. PICK s \in Inside \cup {"dead"} : pc' = [pc EXCEPT ![u] = s]
    BY <1>6 DEF WriterStep, LoadAndChange, LoadOrChangeFails, CreateTemp, CreateTempFails,
                WriteTemp, SaveFails, Abort, Crash, Goto, Inside
  <2>2. dest' = dest /\ pc[u] \notin {"done", "failed"} /\ s \notin {"done", "failed"}
    BY <1>6, <2>1 DEF WriterStep, LoadAndChange, LoadOrChangeFails, ReadyToLoad, CreateTemp,
                CreateTempFails, WriteTemp, SaveFails, Abort, Crash, Goto, Inside, file
  <2>3. QED
    BY <2>1, <2>2, ReportOrStutter DEF IInv
<1>7. QED
  BY <1>1, <1>2, <1>3, <1>4, <1>5, <1>6
     DEF Next, LockStep, WriterStep, UpdatesOnly, Writers

(* With no plain writer and no cleanup, whatever the number of Updates,    *)
(* failures, timeouts and kills, Store.Update is the atomic store.         *)
THEOREM AtomicCorrect == ASSUME UpdatesOnly PROVE Spec => ImplementsAtomicStore
<1> DEFINE Undisturbed == ~plain /\ ~unlinked
<1>1. Init => Atomic!Init
  BY DEF Init, Atomic!Init, Published, Procs, Writers
<1>2. Init => Undisturbed
  BY DEF Init
<1>3. Undisturbed /\ [Next]_vars => Undisturbed'
  <2>1. SUFFICES ASSUME Undisturbed, [Next]_vars PROVE Undisturbed'
    OBVIOUS
  <2>2. CASE \E p \in Writers : Rename(p)
    <3>1. PICK p \in Writers : Rename(p)
      BY <2>2
    <3>2. plain' = (plain \/ p \in Savers) /\ unlinked' = unlinked
      BY <3>1 DEF Rename, lock
    <3>3. p \notin Savers
      BY DEF UpdatesOnly
    <3>4. QED
      BY <2>1, <3>2, <3>3
  <2>3. CASE ~\E p \in Writers : Rename(p)
    <3>1. plain' = plain /\ unlinked' = unlinked
      BY <2>1, <2>3
         DEF UpdatesOnly, Next, LockStep, OpenLock, OpenLockFails, LockFails, Lock, Retry,
             LockTimesOut, WriterStep, LoadAndChange, LoadOrChangeFails, CreateTemp,
             CreateTempFails, WriteTemp, SaveFails, Abort, Return, Crash, lock, vars
    <3>2. QED
      BY <2>1, <3>1
  <2>4. QED
    BY <2>2, <2>3
<1>4. IInv /\ Undisturbed /\ [Next]_vars => [Atomic!Next]_Atomic!vars
  BY AtomicStep
<1>5. QED
  BY <1>1, <1>2, <1>3, <1>4, InvCorrect, PTL DEF Spec, ImplementsAtomicStore, Atomic!Spec
=============================================================================
