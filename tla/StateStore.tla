---------------------------- MODULE StateStore -----------------------------
(***************************************************************************)
(* How state.json is written (internal/state/state.go and                  *)
(* state_lock_unix.go): Store.Update under a flock, the plain Load ... Save*)
(* of setup, download, reset and of the exit-time fallback, the temporary  *)
(* file and the rename inside Save, and cleanup, which removes the         *)
(* directory with the lock file in it.                                     *)
(*                                                                         *)
(* A writer is one call: a process, or a goroutine of one -- every call    *)
(* opens a descriptor of its own, so both contend alike.  Its change to the*)
(* state is that its own identity is in it.                                *)
(***************************************************************************)
EXTENDS Naturals

CONSTANTS
  Updaters,    \* calls of Store.Update
  Savers,      \* plain Load ... Save
  Cleaners,    \* cleanup's removal of the directory and of state.json
  MaxTries     \* lockAcquireTimeout / lockRetryInterval

Writers == Updaters \cup Savers
Procs   == Writers \cup Cleaners

Contents == SUBSET Writers

ASSUME TriesAssumption == MaxTries \in Nat
ASSUME RolesAssumption ==
  /\ Updaters \cap Savers = {}
  /\ Writers \cap Cleaners = {}

VARIABLES
  dest,      \* the changes in state.json; absent loads as {}
  whole,     \* whether state.json is wholly written
  temp,      \* each Save's temporary file; once written, it holds mem
  mem,       \* each writer's state in memory
  pc,        \* where each call is
  lockFile,  \* the lock file at the path: a number per file ever created
  lockThere, \* whether the path names it
  fd,        \* the lock file each updater opened
  tries,     \* how often each updater found it locked
  plain,     \* history: a plain Save or a removal changed state.json
  unlinked   \* history: the lock file was removed

file == <<dest, whole>>
lock == <<lockFile, lockThere, fd, tries, unlinked>>
vars == <<file, temp, mem, pc, lock, plain>>

(* An updater holds the lock from its flock to its unlock or its end.      *)
Inside == {"locked", "loaded", "created", "written", "aborting", "renamed", "erred"}

Goto(p, from, to) == pc[p] = from /\ pc' = [pc EXCEPT ![p] = to]

Init ==
  /\ dest = {} /\ whole = TRUE
  /\ temp = [p \in Writers |-> "none"]
  /\ mem = [p \in Writers |-> {}]
  /\ pc = [p \in Procs |-> "idle"]
  /\ lockFile = 0 /\ lockThere = FALSE
  /\ fd = [u \in Updaters |-> 0]
  /\ tries = [u \in Updaters |-> 0]
  /\ plain = FALSE /\ unlinked = FALSE

-----------------------------------------------------------------------------
(* acquireLock                                                             *)

(* Opens the file at the path, creating it when there is none.             *)
OpenLock(u) ==
  LET opened == IF lockThere THEN lockFile ELSE lockFile + 1 IN
  /\ Goto(u, "idle", "locking")
  /\ lockFile' = opened
  /\ lockThere' = TRUE
  /\ fd' = [fd EXCEPT ![u] = opened]
  /\ UNCHANGED <<file, temp, mem, tries, plain, unlinked>>

OpenLockFails(u) ==
  /\ Goto(u, "idle", "failed")
  /\ UNCHANGED <<file, temp, mem, lock, plain>>

LockIgnored(u) == TRUE

(* flock excludes the holders of the same file.                            *)
LockFree(u) == \A v \in Updaters \ {u} : ~(pc[v] \in Inside /\ fd[v] = fd[u])

Lock(u) ==
  /\ Goto(u, "locking", "locked")
  /\ LockFree(u)
  /\ UNCHANGED <<file, temp, mem, lock, plain>>

NoDeadline(u) == TRUE
OneTryTooMany(u) == tries[u] <= MaxTries
TriesLeft(u) == tries[u] < MaxTries

(* Tries saturate at MaxTries + 1.                                         *)
Retry(u) ==
  /\ pc[u] = "locking" /\ ~LockFree(u)
  /\ TriesLeft(u)
  /\ tries' = [tries EXCEPT ![u] = IF @ > MaxTries THEN @ ELSE @ + 1]
  /\ UNCHANGED <<file, temp, mem, pc, lockFile, lockThere, fd, plain, unlinked>>

LockTimesOut(u) ==
  /\ ~LockFree(u)
  /\ ~TriesLeft(u)
  /\ Goto(u, "locking", "failed")
  /\ UNCHANGED <<file, temp, mem, lock, plain>>

(* flock fails for another reason than a holder.                           *)
LockFails(u) ==
  /\ Goto(u, "locking", "failed")
  /\ UNCHANGED <<file, temp, mem, lock, plain>>

-----------------------------------------------------------------------------
(* Load, and the change fn makes                                           *)

(* Where a writer reads the file: an updater once it is locked.            *)
ReadyToLoad(p) == pc[p] = IF p \in Updaters THEN "locked" ELSE "idle"

LoadAndChange(p) ==
  /\ ReadyToLoad(p)
  /\ whole
  /\ mem' = [mem EXCEPT ![p] = dest \cup {p}]
  /\ pc' = [pc EXCEPT ![p] = "loaded"]
  /\ UNCHANGED <<file, temp, lock, plain>>

(* An unreadable file, a newer schema, or fn's own refusal.                *)
LoadOrChangeFails(p) ==
  /\ ReadyToLoad(p)
  /\ pc' = [pc EXCEPT ![p] = "erred"]
  /\ UNCHANGED <<file, temp, mem, lock, plain>>

-----------------------------------------------------------------------------
(* Save                                                                    *)

(* A new file under a name nobody else uses.                               *)
CreateTemp(p) ==
  /\ Goto(p, "loaded", "created")
  /\ temp' = [temp EXCEPT ![p] = "incomplete"]
  /\ UNCHANGED <<file, mem, lock, plain>>

CreateTempFails(p) ==
  /\ Goto(p, "loaded", "erred")
  /\ UNCHANGED <<file, temp, mem, lock, plain>>

(* Written, flushed, its mode set, closed.  The name may be gone.          *)
WriteTemp(p) ==
  /\ Goto(p, "created", "written")
  /\ temp' = [temp EXCEPT ![p] = IF @ = "none" THEN "none" ELSE "complete"]
  /\ UNCHANGED <<file, mem, lock, plain>>

(* A write, sync, chmod or close fails, or the rename.                     *)
SaveFails(p) ==
  /\ pc[p] \in {"created", "written"}
  /\ pc' = [pc EXCEPT ![p] = "aborting"]
  /\ UNCHANGED <<file, temp, mem, lock, plain>>

RenameUnwritten(p) == pc[p] \in {"created", "written"}
MayRename(p) == pc[p] = "written"

Rename(p) ==
  /\ MayRename(p) /\ temp[p] # "none"
  /\ dest' = mem[p]
  /\ whole' = (temp[p] = "complete")
  /\ temp' = [temp EXCEPT ![p] = "none"]
  /\ pc' = [pc EXCEPT ![p] = "renamed"]
  /\ plain' = (plain \/ p \in Savers)
  /\ UNCHANGED <<mem, lock>>

LitterKept(p) == temp
TempRemoved(p) == [temp EXCEPT ![p] = "none"]

(* The deferred removal of the temporary file.                             *)
Abort(p) ==
  /\ Goto(p, "aborting", "erred")
  /\ temp' = TempRemoved(p)
  /\ UNCHANGED <<file, mem, lock, plain>>

(* The return, with the deferred unlock of an Update.                      *)
Return(p) ==
  /\ \/ Goto(p, "renamed", "done")
     \/ Goto(p, "erred", "failed")
  /\ UNCHANGED <<file, temp, mem, lock, plain>>

(* A killed process: the kernel drops its flock, its temporary file stays. *)
Crash(p) ==
  /\ pc[p] \in Inside \cup {"locking"}
  /\ pc' = [pc EXCEPT ![p] = "dead"]
  /\ UNCHANGED <<file, temp, mem, lock, plain>>

-----------------------------------------------------------------------------
(* cleanup: RemoveAll unlinks entry after entry, in any order and again    *)
(* when new ones appear, until it can remove the directory; RemoveStateFile*)
(* follows.                                                                *)

RemoveLockFile(c) ==
  /\ pc[c] = "idle" /\ lockThere
  /\ lockThere' = FALSE
  /\ unlinked' = TRUE
  /\ UNCHANGED <<file, temp, mem, pc, lockFile, fd, tries, plain>>

RemoveTemp(c, p) ==
  /\ pc[c] = "idle" /\ temp[p] # "none"
  /\ temp' = [temp EXCEPT ![p] = "none"]
  /\ UNCHANGED <<file, mem, pc, lock, plain>>

StateFileGone == dest' = {} /\ whole' = TRUE /\ plain' = TRUE

RemoveState(c) ==
  /\ pc[c] = "idle" /\ dest # {}
  /\ StateFileGone
  /\ UNCHANGED <<temp, mem, pc, lock>>

RemoveDir(c) ==
  /\ ~lockThere /\ dest = {} /\ \A p \in Writers : temp[p] = "none"
  /\ Goto(c, "idle", "dirGone")
  /\ UNCHANGED <<file, temp, mem, lock, plain>>

RemoveStateFile(c) ==
  /\ Goto(c, "dirGone", "done")
  /\ StateFileGone
  /\ UNCHANGED <<temp, mem, lock>>

-----------------------------------------------------------------------------
LockStep(u) == Lock(u) \/ Retry(u) \/ LockTimesOut(u)

WriterStep(p) ==
  \/ LoadAndChange(p) \/ LoadOrChangeFails(p)
  \/ CreateTemp(p) \/ CreateTempFails(p) \/ WriteTemp(p) \/ SaveFails(p)
  \/ Rename(p) \/ Abort(p) \/ Return(p) \/ Crash(p)

CleanerStep(c) ==
  \/ RemoveLockFile(c) \/ RemoveState(c) \/ RemoveDir(c) \/ RemoveStateFile(c)
  \/ \E p \in Writers : RemoveTemp(c, p)

Next ==
  \/ \E u \in Updaters : OpenLock(u) \/ OpenLockFails(u) \/ LockStep(u) \/ LockFails(u)
  \/ \E p \in Writers : WriterStep(p)
  \/ \E c \in Cleaners : CleanerStep(c)

Spec == Init /\ [][Next]_vars

(* Only the callers that wait are scheduled: a holder may be wedged.       *)
FairSpec == Spec /\ \A u \in Updaters : WF_vars(LockStep(u))

-----------------------------------------------------------------------------
(* Properties                                                              *)

PCs == Inside \cup {"idle", "locking", "done", "failed", "dead", "dirGone"}

(* Every variable has its type.                                            *)
TypeOK ==
  /\ dest \in Contents
  /\ whole \in BOOLEAN
  /\ temp \in [Writers -> {"none", "incomplete", "complete"}]
  /\ mem \in [Writers -> Contents]
  /\ pc \in [Procs -> PCs]
  /\ lockFile \in Nat
  /\ lockThere \in BOOLEAN
  /\ fd \in [Updaters -> Nat]
  /\ tries \in [Updaters -> 0..MaxTries]
  /\ plain \in BOOLEAN
  /\ unlinked \in BOOLEAN

(* Until a cleanup removes the lock file, two Updates are never between    *)
(* their load and their save at once, kills and timeouts included.         *)
Exclusive ==
  ~unlinked =>
    \A u, v \in Updaters : (u # v /\ pc[u] \in Inside) => pc[v] \notin Inside

(* While only Updates write, the change of each that published is in the   *)
(* file for good: none is overwritten by another's older copy.             *)
NoUpdateLost ==
  (~plain /\ ~unlinked) =>
    \A u \in Updaters : pc[u] \in {"renamed", "done"} => u \in dest

(* state.json is whole at every moment, whoever writes, is killed or       *)
(* removes the directory: a reader never meets a truncated one.            *)
WholeFile == whole

(* A write that returned an error left nothing: not its change, in the     *)
(* file or in a copy another writer will publish, and no temporary file.   *)
FailureLeavesNothing ==
  \A p \in Writers : pc[p] = "failed" =>
    /\ temp[p] = "none"
    /\ p \notin dest
    /\ \A q \in Writers \ {p} : p \notin mem[q]

(* An Update that waits for the lock gets it or returns an error, also     *)
(* when the holder is wedged.                                              *)
LockWaitEnds == \A u \in Updaters : pc[u] = "locking" ~> pc[u] # "locking"

(* Updates alone implement the atomic store.                               *)
Published(u) ==
  IF pc[u] \in {"done", "failed"} THEN pc[u]
  ELSE IF u \in dest THEN "applied" ELSE "none"

Atomic == INSTANCE AtomicStore WITH
            state <- dest, outcome <- [u \in Updaters |-> Published(u)]

ImplementsAtomicStore == Atomic!Spec

-----------------------------------------------------------------------------
(* The inductive invariant behind the safety properties.                   *)

(* Until it is removed there is one lock file, and all contenders have it. *)
OneLockFile ==
  ~unlinked => \A u \in Updaters :
    pc[u] \in Inside \cup {"locking"} => lockThere /\ fd[u] = lockFile

(* A change is seen elsewhere only once it was published.                  *)
SeenIfPublished ==
  \A p \in Writers : pc[p] \notin {"renamed", "done", "dead"} =>
    p \notin dest /\ \A q \in Writers \ {p} : p \notin mem[q]

(* The file is whole, as is a temporary file about to be renamed, and only *)
(* a Save under way or a kill leaves a temporary file.                     *)
FilesWhole ==
  /\ whole
  /\ \A p \in Writers :
       /\ pc[p] = "written" => temp[p] \in {"none", "complete"}
       /\ pc[p] \notin {"created", "written", "aborting", "dead"} => temp[p] = "none"

(* While only Updates write, the one inside is about to add its own change *)
(* to the file as it is, and what was published stays.                     *)
MergesFresh ==
  (~plain /\ ~unlinked) => \A u \in Updaters :
    /\ pc[u] \in {"loaded", "created", "written"} => mem[u] = dest \cup {u}
    /\ pc[u] \in {"renamed", "done"} => u \in dest

IInv ==
  /\ TypeOK
  /\ OneLockFile
  /\ Exclusive
  /\ SeenIfPublished
  /\ FilesWhole
  /\ MergesFresh
=============================================================================
