---------------------------- MODULE Provisioning ----------------------------
(***************************************************************************)
(* What setup puts on the host and cleanup takes away (runSetup and        *)
(* runCleanup of internal/app/app.go, internal/app/auroraboot.go,          *)
(* internal/auroraboot): packages, the AuroraBoot image in a container     *)
(* runtime's store, the auroraboot shim and its directory -- beside a user *)
(* who installs, pulls, writes and removes the same things.                *)
(*                                                                         *)
(* Setup and cleanup are run again and again, and killed at any moment.    *)
(* Their Load is plain and so is every Save; what a step only does in      *)
(* memory belongs to the Save or the command that follows it.              *)
(***************************************************************************)
CONSTANTS
  Invocations,  \* setups and cleanups that may run at a time
  Required,     \* the dependencies every host needs
  Packages,     \* the packages of the host's package manager that they are about
  Needs,        \* of each dependency, those with the binaries that are looked for
  Mapped,       \* of each dependency, those that are installed for it
  Preferences,  \* values of setup's -runtime flag, "none" when it is not given
  UserThings    \* what the user adds and removes between the first setup and the last cleanup

Runtimes == {"docker", "podman"}
Deps     == Required \cup Runtimes

(* A runtime is one package with one binary.                               *)
HostPackages == Packages \cup Runtimes

(* The pinned image in a runtime's store.                                  *)
Image(rt) == IF rt = "docker" THEN "docker image" ELSE "podman image"
Images == {Image(rt) : rt \in Runtimes}
Things == HostPackages \cup Images

ASSUME RequiredAssumption == Required \cap Runtimes = {}
ASSUME PackageAssumption ==
  /\ Packages \cap (Runtimes \cup Images) = {}
  /\ Needs \in [Required -> SUBSET Packages] /\ Mapped \in [Required -> SUBSET Packages]
ASSUME UserAssumption == UserThings \subseteq Things
ASSUME PreferenceAssumption == Preferences \subseteq Runtimes \cup {"none"}

(* InstallablePackages and UninstallablePackages: a dependency is          *)
(* installed and uninstalled with all of its packages.                     *)
PackagesOf(deps) == UNION {IF d \in Runtimes THEN {d} ELSE Mapped[d] : d \in deps}

(* What state.json says of it: Setup.DependencyCheckPassed, the two lists  *)
(* of dependencies, AuroraBoot.Runtime, whether the image is among the     *)
(* pulled ones, ShimPath and ShimDirCreated.  PreExistingImages is only    *)
(* ever printed.                                                           *)
Record == [passed : BOOLEAN, preExisting : SUBSET Deps, installed : SUBSET Deps,
           runtime : Runtimes \cup {"none"}, pulled : BOOLEAN,
           shim : BOOLEAN, shimDir : BOOLEAN]

NewRecord == [passed |-> FALSE, preExisting |-> {}, installed |-> {}, runtime |-> "none",
              pulled |-> FALSE, shim |-> FALSE, shimDir |-> FALSE]

VARIABLES
  there,    \* the things on the host
  shim,     \* ~/.local/bin/auroraboot: "absent", "managed" or the user's ("foreign")
  dir,      \* whether its directory exists
  file,     \* state.json
  pc,       \* where each invocation is
  mem,      \* the state in its memory
  prefer,   \* setup: the -runtime flag
  missing,  \* setup: the required dependencies it found missing
  partly,   \* setup, history: the user's packages of dependencies that were incomplete then
  made,     \* setup: whether it created the directory
  planned,  \* cleanup: whether its plan has the shim
  err,      \* cleanup: whether removing the shim, directory or image failed
  users,    \* history: things the user put there, for kairos-lab to keep
  ours,     \* history: things kairos-lab put there, for it to remove
  adopted,  \* history: the user's packages that were set down as kairos-lab's with the rest
  late,     \* history: the user wrote a shim after setup's last look
  astray    \* history: why the records are not to be relied on any more, "no" while they are

host   == <<there, shim, dir>>
locals == <<prefer, missing, partly, made, planned, err>>
hist   == <<users, ours, adopted, late, astray>>
vars   == <<host, file, pc, mem, locals, hist>>

Ended == {"idle", "complete"}
Active == {p \in Invocations : pc[p] \notin Ended}

Goto(p, from, to) == pc[p] = from /\ pc' = [pc EXCEPT ![p] = to]

Init ==
  /\ \E installed \in SUBSET HostPackages :
       there \in {installed \cup I : I \in SUBSET {Image(rt) : rt \in Runtimes \cap installed}}
  /\ shim \in {"absent", "foreign"} /\ dir \in BOOLEAN /\ (shim # "absent" => dir)
  /\ file = NewRecord
  /\ pc = [p \in Invocations |-> "idle"]
  /\ mem = [p \in Invocations |-> NewRecord]
  /\ prefer = [p \in Invocations |-> "none"]
  /\ missing = [p \in Invocations |-> {}]
  /\ partly = [p \in Invocations |-> {}]
  /\ made = [p \in Invocations |-> FALSE]
  /\ planned = [p \in Invocations |-> FALSE]
  /\ err = [p \in Invocations |-> FALSE]
  /\ users = there /\ ours = {} /\ adopted = {} /\ late = FALSE /\ astray = "no"

-----------------------------------------------------------------------------
(* The user, and the runtimes.                                             *)

(* What kairos-lab already has down as its own, or may be working on.      *)
Claimed(x) ==
  \/ Active # {}
  \/ x \in PackagesOf(file.installed)
  \/ file.pulled /\ file.runtime # "none" /\ x = Image(file.runtime)

UserAdds(x) ==
  /\ x \notin there
  /\ \A rt \in Runtimes : x = Image(rt) => rt \in there
  /\ there' = there \cup {x}
  /\ IF Claimed(x) THEN UNCHANGED <<users, adopted>>
     ELSE users' = users \cup {x} /\ adopted' = adopted \ {x}
  /\ UNCHANGED <<shim, dir, file, pc, mem, locals, ours, late, astray>>

UserRemoves(x) ==
  /\ x \in there
  /\ there' = there \ {x} /\ users' = users \ {x} /\ ours' = ours \ {x}
  /\ adopted' = adopted \ {x}
  /\ UNCHANGED <<shim, dir, file, pc, mem, locals, late, astray>>

UserWritesShim ==
  /\ shim # "foreign"
  /\ shim' = "foreign" /\ dir' = TRUE
  /\ late' = \E p \in Invocations : pc[p] = "rename"
  /\ UNCHANGED <<there, file, pc, mem, locals, users, ours, adopted, astray>>

UserRemovesShim ==
  /\ dir /\ shim' = "absent" /\ dir' \in BOOLEAN
  /\ UNCHANGED <<there, file, pc, mem, locals, hist>>

(* A daemon starts and stops, is out of reach, denies the user: a runtime  *)
(* that is installed may answer a command or not, each time anew.  Asked   *)
(* for an image it may say no for any of these reasons.                    *)
Detected(preference) ==
  IF preference = "none" THEN Runtimes \cap there ELSE {preference} \cap there

Inspect(rt) == {Image(rt) \in there, FALSE}

-----------------------------------------------------------------------------
(* runSetup                                                                *)

(* An early return, a declined prompt, a failure without effect, a failed  *)
(* Save, a kill: the invocation is over, the file as it was.               *)
Leave(p) ==
  /\ p \in Active
  /\ pc' = [pc EXCEPT ![p] = "idle"]
  /\ mem' = [mem EXCEPT ![p] = NewRecord]
  /\ prefer' = [prefer EXCEPT ![p] = "none"]
  /\ missing' = [missing EXCEPT ![p] = {}]
  /\ partly' = [partly EXCEPT ![p] = {}]
  /\ made' = [made EXCEPT ![p] = FALSE]
  /\ planned' = [planned EXCEPT ![p] = FALSE]
  /\ err' = [err EXCEPT ![p] = FALSE]

Abandon(p) == Leave(p) /\ UNCHANGED <<host, file, hist>>

(* The first reason stays, but for a misread answer.                       *)
Astray(reason, happens) ==
  astray' = IF happens /\ (astray = "no" \/ reason = "misread") THEN reason ELSE astray

(* A plain Save.                                                           *)
Save(p, from, to, record) ==
  /\ Goto(p, from, to)
  /\ mem' = [mem EXCEPT ![p] = record]
  /\ file' = record

Begin(p, to, record) ==
  /\ pc[p] \in Ended
  /\ pc' = [pc EXCEPT ![p] = to]
  /\ mem' = [mem EXCEPT ![p] = record]
  /\ Astray("overlapped", Active # {})

(* DetectPresent: all of its binaries are on the PATH.                     *)
Complete(d) == Needs[d] \subseteq there

Present == {d \in Required : Complete(d)}

SetupLoads(p) ==
  /\ Begin(p, "checked", [file EXCEPT !.preExisting = @ \cup Present])
  /\ \E f \in Preferences : prefer' = [prefer EXCEPT ![p] = f]
  /\ missing' = [missing EXCEPT ![p] = Required \ Present]
  /\ partly' = [partly EXCEPT ![p] = users \cap PackagesOf({d \in Required : ~Complete(d)})]
  /\ UNCHANGED <<host, file, made, planned, err, users, ours, adopted, late>>

(* The package manager installs what is not there yet, or fails half-way.  *)
(* Each dependency is claimed as a whole, with what was there of it.       *)
Install(p, new, from, to) ==
  \/ /\ Goto(p, from, to)
     /\ there' = there \cup PackagesOf(new) /\ ours' = ours \cup (PackagesOf(new) \ there)
     /\ mem' = [mem EXCEPT ![p].installed = @ \cup new]
     /\ UNCHANGED <<locals, shim, dir, file, users, adopted, late, astray>>
  \/ /\ pc[p] = from /\ Leave(p)
     /\ \E part \in SUBSET PackagesOf(new) :
          there' = there \cup part /\ ours' = ours \cup (part \ there)
     /\ UNCHANGED <<shim, dir, file, users, adopted, late, astray>>

InstallMissing(p) == missing[p] # {} /\ Install(p, missing[p], "checked", "installed")

SaveInstalled(p) ==
  /\ Save(p, "installed", "ready", mem[p])
  /\ adopted' = adopted \cup partly[p]
  /\ UNCHANGED <<host, locals, users, ours, late, astray>>

SetupPasses(p) ==
  /\ pc[p] = "ready" \/ (pc[p] = "checked" /\ missing[p] = {})
  /\ Save(p, pc[p], "auroraboot", [mem[p] EXCEPT !.passed = TRUE])
  /\ UNCHANGED <<host, locals, hist>>

-----------------------------------------------------------------------------
(* setupAuroraBoot                                                         *)

OverwriteShim == TRUE

(* foreignAuroraBoot, and InstallShim's own look.                          *)
ShimMayBeWritten == shim # "foreign"

(* A runtime is detected and recorded.  From here on it is the one the     *)
(* records of pulled images are about, whichever they were about before.   *)
ChooseRuntime(p, rt) ==
  /\ \/ pc[p] = "auroraboot" /\ ShimMayBeWritten /\ rt \in Detected(prefer[p])
     \/ pc[p] = "redetect" /\ rt \in Detected(IF prefer[p] = "none" THEN "docker" ELSE prefer[p])
  /\ LET m == mem[p] IN
     /\ Save(p, pc[p], "image",
             [m EXCEPT !.runtime = rt,
                       !.preExisting = IF rt \in m.installed THEN @ ELSE @ \cup {rt}])
     /\ Astray("switched", m.pulled /\ m.runtime # rt)
  /\ UNCHANGED <<host, locals, users, ours, adopted, late>>

(* One is installed only where there is none.                              *)
NoRuntime(p) ==
  /\ Runtimes \cap there = {} /\ ShimMayBeWritten
  /\ Goto(p, "auroraboot", "installRuntime")
  /\ UNCHANGED <<host, file, mem, locals, hist>>

InstallRuntime(p) ==
  Install(p, {IF prefer[p] = "none" THEN "docker" ELSE prefer[p]}, "installRuntime", "runtimeInstalled")

SaveRuntime(p) ==
  /\ Save(p, "runtimeInstalled", "redetect", mem[p])
  /\ UNCHANGED <<host, locals, hist>>

RecordPresentAsPulled(m) == [m EXCEPT !.pulled = TRUE]

(* An image that is there goes on the other list, which is only printed.   *)
RecordPresent(m) == m

ImagePresent(p) ==
  /\ TRUE \in Inspect(mem[p].runtime)
  /\ Save(p, "image", "shim", RecordPresent(mem[p]))
  /\ UNCHANGED <<host, locals, hist>>

RecordNothing(m) == m
RecordPull(m) == [m EXCEPT !.pulled = TRUE]

(* Recorded before the pull starts.                                        *)
ImageAbsent(p) ==
  /\ FALSE \in Inspect(mem[p].runtime)
  /\ Save(p, "image", "pull", RecordPull(mem[p]))
  /\ Astray("misread", Image(mem[p].runtime) \in there)
  /\ UNCHANGED <<host, locals, users, ours, adopted, late>>

Pull(p) ==
  LET image == Image(mem[p].runtime) IN
  /\ mem[p].runtime \in there
  /\ Goto(p, "pull", "shim")
  /\ there' = there \cup {image}
  /\ ours' = ours \cup ({image} \ there)
  /\ UNCHANGED <<shim, dir, file, mem, locals, users, adopted, late, astray>>

(* The record is dropped again.                                            *)
PullFails(p) ==
  /\ pc[p] = "pull"
  /\ file' = [mem[p] EXCEPT !.pulled = FALSE]
  /\ Leave(p)
  /\ UNCHANGED <<host, hist>>

(* InstallShim: the look, the directory, the temporary file.               *)
PrepareShim(p) ==
  /\ Goto(p, "shim", "rename")
  /\ ShimMayBeWritten
  /\ made' = [made EXCEPT ![p] = ~dir]
  /\ dir' = TRUE
  /\ UNCHANGED <<there, shim, file, mem, prefer, missing, partly, planned, err, hist>>

RenameShim(p) ==
  /\ Goto(p, "rename", "shimmed")
  /\ dir
  /\ shim' = "managed" /\ late' = FALSE
  /\ UNCHANGED <<there, dir, file, mem, locals, users, ours, adopted, astray>>

SaveShim(p) ==
  /\ pc[p] = "shimmed"
  /\ file' = [mem[p] EXCEPT !.shim = TRUE, !.shimDir = @ \/ made[p]]
  /\ Leave(p)
  /\ UNCHANGED <<host, hist>>

-----------------------------------------------------------------------------
(* runCleanup                                                              *)

(* planAuroraBootCleanup leaves out a recorded shim that is gone or not    *)
(* managed any more; a record setup wrote passes its other checks.         *)
PlansShim == file.shim /\ shim = "managed"

CleanupLoads(p) ==
  /\ file.passed
  /\ Begin(p, "rmShim", file)
  /\ planned' = [planned EXCEPT ![p] = PlansShim]
  /\ err' = [err EXCEPT ![p] = FALSE]
  /\ UNCHANGED <<host, file, prefer, missing, partly, made, users, ours, adopted, late>>

(* One removal: nothing to do, done, or failed; cleanup goes on.           *)
Failed(p) == err' = [err EXCEPT ![p] = TRUE]

RemoveShim(p) ==
  /\ Goto(p, "rmShim", "rmDir")
  /\ \/ (~planned[p] \/ shim = "absent") /\ UNCHANGED <<shim, err>>
     \/ planned[p] /\ shim = "managed" /\ shim' = "absent" /\ UNCHANGED err
     \/ planned[p] /\ shim # "absent" /\ Failed(p) /\ UNCHANGED shim
  /\ UNCHANGED <<there, dir, file, mem, prefer, missing, partly, made, planned, hist>>

AnyDirRemovable(p) == mem[p].shimDir /\ dir

(* Only an empty directory goes; it may hold other files.                  *)
DirRemovable(p) == mem[p].shimDir /\ dir /\ shim = "absent"

RemoveShimDir(p) ==
  /\ Goto(p, "rmDir", "rmImage")
  /\ \/ UNCHANGED <<dir, err>>
     \/ DirRemovable(p) /\ dir' = FALSE /\ UNCHANGED err
     \/ DirRemovable(p) /\ Failed(p) /\ UNCHANGED dir
  /\ UNCHANGED <<there, shim, file, mem, prefer, missing, partly, made, planned, hist>>

(* removeTrackedImage: whether the image is to be removed.  A runtime that *)
(* is not there, or was not detected, is an error and not an absence.      *)
TrackedImage(rt) == IF rt \in there THEN Inspect(rt) ELSE {}

RemoveImage(p) ==
  LET rt == mem[p].runtime IN
  /\ Goto(p, "rmImage", "uninstall")
  /\ \/ ~mem[p].pulled /\ UNCHANGED <<there, ours, err, astray>>
     \/ /\ mem[p].pulled /\ TRUE \in TrackedImage(rt)
        /\ there' = there \ {Image(rt)} /\ ours' = ours \ {Image(rt)}
        /\ UNCHANGED <<err, astray>>
     \/ /\ mem[p].pulled /\ FALSE \in TrackedImage(rt)
        /\ Astray("misread", rt \in there /\ Image(rt) \in there)
        /\ UNCHANGED <<there, ours, err>>
     \/ mem[p].pulled /\ Failed(p) /\ UNCHANGED <<there, ours, astray>>
  /\ UNCHANGED <<shim, dir, file, mem, prefer, missing, partly, made, planned, users, adopted, late>>

AllButPreExisting(m) == Deps \ m.preExisting
DependenciesToRemove(m) == m.installed \ m.preExisting

(* A failure, half-way or at its prompt, ends cleanup with the file kept.  *)
Uninstall(p) ==
  LET gone == PackagesOf(DependenciesToRemove(mem[p])) IN
  /\ \/ /\ Goto(p, "uninstall", "rmState")
        /\ there' = there \ gone /\ ours' = ours \ gone
        /\ UNCHANGED <<mem, locals>>
     \/ /\ pc[p] = "uninstall" /\ Leave(p)
        /\ \E part \in SUBSET gone : there' = there \ part /\ ours' = ours \ part
  /\ UNCHANGED <<shim, dir, file, users, adopted, late, astray>>

(* The configuration directory goes with state.json in it, then the cache  *)
(* directory.  At the end "incomplete" tells the user what to remove by    *)
(* hand; a directory that cannot be removed, or a kill, comes before that. *)
RemoveState(p) ==
  /\ file' = NewRecord
  /\ \/ ~err[p] /\ Goto(p, "rmState", "complete") /\ UNCHANGED <<mem, locals, ours, astray>>
     \/ err[p] /\ pc[p] = "rmState" /\ Leave(p) /\ ours' = ours \ Images /\ UNCHANGED astray
     \/ pc[p] = "rmState" /\ Leave(p) /\ Astray("unreported", err[p]) /\ UNCHANGED ours
  /\ adopted' = IF Active = {p} THEN adopted \ there ELSE adopted
  /\ UNCHANGED <<host, users, late>>

-----------------------------------------------------------------------------
SetupStep(p) ==
  \/ SetupLoads(p) \/ InstallMissing(p) \/ SaveInstalled(p) \/ SetupPasses(p)
  \/ \E rt \in Runtimes : ChooseRuntime(p, rt)
  \/ NoRuntime(p) \/ InstallRuntime(p) \/ SaveRuntime(p)
  \/ ImagePresent(p) \/ ImageAbsent(p) \/ Pull(p) \/ PullFails(p)
  \/ PrepareShim(p) \/ RenameShim(p) \/ SaveShim(p)

CleanupStep(p) ==
  \/ CleanupLoads(p) \/ RemoveShim(p) \/ RemoveShimDir(p) \/ RemoveImage(p)
  \/ Uninstall(p) \/ RemoveState(p)

Next ==
  \/ \E p \in Invocations : SetupStep(p) \/ CleanupStep(p) \/ Abandon(p)
  \/ \E x \in UserThings : UserAdds(x) \/ UserRemoves(x)
  \/ UserWritesShim \/ UserRemovesShim

Spec == Init /\ [][Next]_vars

-----------------------------------------------------------------------------
(* Properties                                                              *)

SetupPCs == {"checked", "installed", "ready", "auroraboot", "installRuntime",
             "runtimeInstalled", "redetect", "image", "pull", "shim", "rename", "shimmed"}
CleanupPCs == {"rmShim", "rmDir", "rmImage", "uninstall", "rmState"}

(* Every variable has its type.                                            *)
TypeOK ==
  /\ there \subseteq Things
  /\ shim \in {"absent", "managed", "foreign"} /\ dir \in BOOLEAN
  /\ (shim # "absent" => dir)
  /\ file \in Record
  /\ pc \in [Invocations -> Ended \cup SetupPCs \cup CleanupPCs]
  /\ mem \in [Invocations -> Record]
  /\ prefer \in [Invocations -> Preferences \cup {"none"}]
  /\ missing \in [Invocations -> SUBSET Required]
  /\ partly \in [Invocations -> SUBSET Packages]
  /\ made \in [Invocations -> BOOLEAN]
  /\ planned \in [Invocations -> BOOLEAN] /\ err \in [Invocations -> BOOLEAN]
  /\ users \subseteq Things /\ ours \subseteq Things /\ adopted \subseteq Packages
  /\ late \in BOOLEAN
  /\ astray \in {"no", "overlapped", "switched", "misread", "unreported"}

(* A package the user installed while kairos-lab neither ran nor had it    *)
(* down as its own is never uninstalled, however often setup and cleanup   *)
(* run, fail half-way or are killed -- unless it was adopted: it is one of *)
(* several packages of a dependency of which another was not there when a  *)
(* setup looked, which then installed the rest and set all down as its own.*)
UsersPackagesKept == (users \ adopted) \cap HostPackages \subseteq there

(* Nor is an image the user pulled then, until the records go astray: the  *)
(* runtime is changed under a record of a pull, a runtime that does not    *)
(* answer passes for one without the image, two invocations overlap, or a  *)
(* cleanup cannot remove a directory once state.json is gone.              *)
UsersImagesKept == astray = "no" => users \cap Images \subseteq there

(* No step of kairos-lab replaces or removes a shim of the user's that was *)
(* there when it last looked.                                              *)
UsersShimKept ==
  [][(shim = "foreign" /\ shim' # "foreign") => (UNCHANGED pc \/ late)]_vars

(* An image setup pulled is in state.json, with its runtime, from before   *)
(* the pull until it is removed or a cleanup has reported it, whatever is  *)
(* killed or fails; so a cleanup that says complete has left none.         *)
PulledImageRecorded ==
  astray = "no" => \A rt \in Runtimes :
    Image(rt) \in ours => file.pulled /\ file.runtime = rt

-----------------------------------------------------------------------------
(* What the README says and the code does not keep.                        *)

(* "Removes everything created by kairos-lab: ... Dependencies installed   *)
(* by the tool": a cleanup that says complete has uninstalled every        *)
(* package it had down as installed by kairos-lab and that was.            *)
OwnPackagesRemoved ==
  [][\A p \in Invocations : (pc[p] # "complete" /\ pc'[p] = "complete") =>
       PackagesOf(mem[p].installed) \cap ours' = {}]_vars

-----------------------------------------------------------------------------
(* The inductive invariant behind UsersPackagesKept.                       *)

(* No record of an installation, and none that is about to be made, is of  *)
(* a package the user put there and kairos-lab did not, or is not about to,*)
(* adopt.                                                                  *)
AboutToAdopt(p) == IF pc[p] = "installed" THEN partly[p] ELSE {}

ClaimsNone(p) ==
  /\ (users \ adopted) \cap PackagesOf(mem[p].installed) \subseteq AboutToAdopt(p)
  /\ (users \ adopted) \cap PackagesOf(missing[p]) \subseteq partly[p]
  /\ pc[p] = "installRuntime" => users \cap Runtimes = {}

NoneClaimed ==
  /\ (users \ adopted) \cap PackagesOf(file.installed) = {}
  /\ \A p \in Active : ClaimsNone(p)

(* Only a setup has found anything missing.                                *)
MissingOnlyInSetup == \A p \in Invocations : pc[p] \notin SetupPCs => missing[p] = {}

IInv == TypeOK /\ UsersPackagesKept /\ NoneClaimed /\ MissingOnlyInSetup
=============================================================================
