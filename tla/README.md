# kairos-lab: models, checks and proofs

`kairos-lab` is a command-line program that runs Kairos virtual machines with
QEMU. Every command is a process of its own; nothing runs between commands but
the QEMU processes. Whatever two commands know of each other they know through

* `state.json` in the config directory, read by every command and written by
  `setup`, `download`, `start`, `reset` and `cleanup`,
* the lock file `.state.lock` beside it, taken by `Store.Update` only,
* the files of the cache directory (disk images, one socket and one log per VM
  index, downloaded ISOs),
* the host: process IDs, the bridge, taps and NetworkManager connections.

The interesting questions are therefore those of a small distributed system
without a server: stale reads, lost writes, crashes between two steps, and
decisions taken before a prompt and acted on after it.

## Inventory

| part | source | state | operations | what makes it correct |
|---|---|---|---|---|
| State store | `internal/state/state.go`, `state_lock_unix.go` | `state.json`, lock file, temporary files | `Load`, `Save` (temporary file, rename), `Update` (lock, load, fn, save), `RemoveStateFile`, record operations | readers see a whole state; no Update is lost; a wedged holder stops nobody for ever |
| State load | `state.go` | schema version, legacy record, VM list | `migrateLegacyVM`, `quarantineInvalidVMs` | idempotent; a running VM with an accepted name is never set aside; a newer file is refused |
| VM lifecycle | `internal/app/app.go` (`runStart`, `runReset`, `runCleanup`), `internal/vm/vm.go` (`VMIsLive`) | VM records, PIDs, indices | reserve, release, record, spawn, poll, finalize, reset, cleanup | one live VM per index, disk and name; nothing removed under a live VM; nothing held for ever |
| Linux shared network | `internal/vm/network_linux.go`, `network_shared_parse.go`, `network_names.go` | NM connections, bridge, taps, `Network` record | prepare, revert, `CleanupLinuxBridge`, stale cleanup | no sibling's network torn down; what was created is removed |
| Address lookup | `internal/vm/ipaddr*.go`, `mac.go` | poller goroutine; the lease file and neighbour table it reads | `Resolve`, `Poll`, `recordVMIP` | never a sibling's or an old address; a silent agent holds a poll up for one read timeout at a time; stops with QEMU; a found address is kept |
| Setup, AuroraBoot | `app.go`, `app/auroraboot.go`, `internal/auroraboot`, `shim.sh` | setup and AuroraBoot records, images, shim file | install, pull, undo | only what kairos-lab installed is removed |
| Dependencies, cleanup plan | `internal/deps`, `internal/cleanup` | package lists | classify, install, remove | pre-existing packages are kept, as far as a dependency is a unit |
| ISO download | `internal/iso` | downloads directory, the release's checksum files | list, choose, fetch the checksum, download, verify, rename | nothing unverified bears an ISO's name, whichever downloads overlap or are killed |
| Privileges, macOS | `privilege*.go`, `network_darwin*.go` | none | host probes | refuse before changing anything |
| QEMU command, status, installer | `vm.go`, `app.go`, `install.sh` | none | pure or read-only | |

How they interact: `start` loads the state, resolves a disk, creates its image,
reserves a record and an index in one `Update`, prepares the network, records
the VM in a second `Update`, launches QEMU, records its PID in a third, runs a
poller goroutine that records the address in a fourth, waits, joins the poller
and writes the exit in a fifth (falling back to a plain `Save`). `reset` and
`cleanup` load once, refuse when a VM is live, prompt, remove files and then
save without the lock, or remove `state.json`. `VMIsLive` decides everywhere
whether a record stands for something: its QEMU PID or its starter PID runs.

Hard behaviours: concurrent starts and resets with prompts of arbitrary length
between their reads and writes; kills between any two steps (deferred functions
do not run, QEMU survives); each write failing on its own; the poller racing the
exit; index reuse; the fallback that ignores the file's contents.
`PROJECT.json` lists the hazards at their lines.

## Modules

`VMLifecycle` - `start`, `reset` and `cleanup` over the shared `state.json`.

| model | code |
|---|---|
| `file` | `state.json`: disk names and one record per name (`VM`: `index`, `starter` = `StarterPID`, `pid` = `PID`, `paths` = `LogPath`/`QGASockPath` set, `ip` = `IPAddress` set, `stopped` = `StoppedAt` set) |
| `pc[p]` | where the invocation is; `dead` is a killed one, `exited` one that returned |
| `snap[p]` | its in-memory `*state.State` |
| `name`, `index` | `vmName` and `vmIndex` of a start |
| `target` | the names a reset removes (`-disk X`, or all) |
| `qemu`, `poll` | its QEMU child and its poller goroutine with the result channel |
| `pidRecorded`, `overwritten` | history, read by properties only |

One action is one step of an invocation that another can see or that can fail
on its own: an `Update` (atomic, or failed and without effect), a plain `Load`,
a plain `Save`, a launch, a `Wait`. The action comments name the code. Prompts
are not actions: an invocation may stay in a state for as long as it likes. A
starter is identified with its PID and with the PID of the one QEMU it may
launch; PIDs are not reused. `overwritten` becomes true when a plain write
(reset, cleanup, the exit-time fallback) changes an entry other than the one it
is about, or removes a live record; the code has no lock there, and the
properties that such a write destroys are stated until then.

An `Update` is one step here; `StateStore` shows why that is sound among
`Update`s. What happens between the load and the rename of an `Update` when a
plain `Save` falls into it is not in this module (nor in `StateLoad`, where an
`Update` is one step too): there the `Save` is lost.

Abstracted: the network preparation (succeeds or fails; `LinuxNetwork` has it), command-line and
review details (early returns are `GiveUp`), the contents of disks and logs,
which of a record's paths is which (all are functions of `index`). A name is
chosen before the run; whether it is a new disk depends on the state loaded.
After a cleanup a further start presupposes another `setup`, which is not modelled.

`MCVMLifecycle` - instances for TLC: symmetry, a view that forgets the memory of
ended invocations.

`VMLifecycle_proofs` - theorems and proofs about `VMLifecycle`.

`VMRegistry` - what the records promise the starts that share them: a live record
is a lease of its name and its index. A lease is granted to a start once, while
nobody has the name or the index; it never changes holder, name or index; leases
end one at a time; and a stale state written over a newer one loses the registry.
`VMLifecycle` and `StateLoad` both implement it (`ImplementsRegistry`), with
mappings of their own:

| `VMRegistry` | `VMLifecycle` | `StateLoad` |
|---|---|---|
| `leases` | name, starter and index of each live record of `file`, none once `overwritten` | the same of what the next `Load` returns of the file |
| `spent` | the starts past their reservation, and those that ended | the invocations that are no longer about to start, and the VM of the older binary |
| `lost` | `overwritten` | `overwritten` |

In `StateLoad` leases of an earlier time may be there at first (the VM an older
binary left running), and the migration of its record must move nothing.
`VMRegistry_proofs` - what every implementation inherits: `Exclusive`, `OneLeaseEach`.

`StateStore` - how `state.json` is written: the steps of `Store.Update`
(`acquireLock` with its tries, load, change, temporary file, write, rename,
unlock), of a plain `Load ... Save`, and of cleanup's `RemoveAll` of the
directory. A writer's change is that its own identity is in the file, so that
"lost" and "half done" can be said of it.

| model | code |
|---|---|
| `dest`, `whole` | `state.json`, and whether it parses |
| `temp[p]`, `mem[p]` | the temporary file of a `Save`, the `*State` it writes |
| `lockFile`, `lockThere`, `fd[u]` | the lock file as an inode, whether `.state.lock` names it, the descriptor each `Update` opened |
| `tries[u]` | retries so far, of `MaxTries` = timeout / interval |
| `plain`, `unlinked` | history: a plain write changed the file, the lock file was removed |

A lock is held by who is `Inside` with that descriptor: `flock` drops with the
process. Every step may fail, and a writer may be killed at any.

`AtomicStore` - the promise: an update applies at one moment or never, is
reported done after it applied and failed only if it never does. `StateStore`
implements it (`ImplementsAtomicStore`: `state <- dest`, the outcome from `pc`
and `dest`) when only `Update`s write.

`StateStore_proofs` - theorems and proofs about `StateStore`.

`LinuxNetwork` - the host network of the VMs of one config directory: one action
per root command or probe of `PrepareLinuxShared`, `PrepareLinuxBridge`,
`cleanupNMConnections`, `revertSharedSetup` and `CleanupLinuxBridge`, driven by
`start`, `reset` and `cleanup`.

| model | code |
|---|---|
| `host` | the bridge's connection (by its `ipv4.method`), the uplink's and the taps' connections, bridge and tap devices, the ports of the bridge |
| `vms`, `created` | the records of `state.json` (index, starter), `Network.CreatedByKairosLab` |
| `pc`, `name`, `mode`, `at` | where an invocation is, what it starts, the index whose tap it works on |
| `sibling`, `spare` | `siblingLive`, decided at the reservation or plan, and whether a teardown leaves the bridge |
| `mayHave`, `kept`, `todo`, `byIndex0`, `cleanup` | a removal's memory: `s.Network`, the records it will save, those it still cleans up for, the stale cleanup of index 0 |
| `err`, `failed`, `slave` | the collected errors of a teardown and of the command, the port to reconnect |
| `unseen`, `late`, `sharedBy` | history, read by properties only |

The host (external to the repository) is modelled from what the code relies on
and from the fake host of `network_linux_test.go`: deleting a connection takes
its device, activating a connection that is up keeps its ports, NetworkManager
attaches an interface whenever its profile names a bridge that is up. A
connection added with autoconnect comes up at once. With `Blind` a probe may
answer "no" of what is there, since the code reads every probe failure so. A
command fails without effect, except an activation, which may have happened.
The bridge name is the default one; the checks of a stored name are a refusal.
Interfaces with generated tap names are the taps of the model; a record is live
while its start runs (a QEMU that outlives a killed start is a start that runs).

`LinuxNetwork_proofs` - theorems and proofs about `LinuxNetwork`.

`MCStateStore`, `MCLinuxNetwork` - instances for TLC: symmetry only.

`Provisioning` - what `setup` puts on the host and `cleanup` takes away:
packages, the AuroraBoot image, the shim and its directory, one action per
command, look or save of `runSetup`, `setupAuroraBoot` and `runCleanup`, beside
a user who handles the same things. The records speak of dependencies, the host
has packages. `Needs[d]` are the packages with the binaries that are looked for:
`DetectPresent` wants all of them (`Complete`). `Mapped[d]` are those `d` is
installed and uninstalled with (`PackagesOf`). A binary stands for the package
that brings it; a container runtime is one package.

| model | code |
|---|---|
| `there` | the packages on the host and the pinned image in each runtime's store |
| `shim`, `dir` | `~/.local/bin/auroraboot`: absent, with the marker line, or without it; its directory |
| `file`, `mem[p]` | `Setup` and `AuroraBoot` of `state.json`, and of an invocation's `*State` (`pulled`: the image is in `PulledImages`; `shim`, `shimDir`: `ShimPath`, `ShimDirCreated` set) |
| `pc[p]`, `prefer`, `missing`, `made` | where a setup is, its `-runtime`, what it found missing, `createdDir` |
| `planned`, `err` | a cleanup's plan for the shim, `auroraBootErr` |
| `users`, `ours` | history: what the user put there while nothing claimed it, what kairos-lab put there |
| `partly[p]`, `adopted` | history: the user's packages of dependencies that a setup found incomplete, and those of them that it then set down as installed by kairos-lab |
| `late` | history: the user wrote a shim after `InstallShim` looked |
| `astray` | history: the first thing that made the records unreliable, see below |

The load and plan of each command, its `Save`s and its removals are one step
each; `Leave` is an early return, an error or a kill, at any of them. A runtime
that is installed answers or not, each time anew. `IsManagedShim` and the
`os.Remove` after it are one step: a user's file written between the two is not
in the model.

`astray` names what the code cannot tell or does not keep, and `UsersImagesKept`
and `PulledImageRecorded` are stated until one of these happens: `switched` (a
setup with another runtime renames the runtime of the recorded pull), `misread`
(`ImageExists` takes any exit code of a detected runtime for "no such image"),
`overlapped` (a setup or cleanup begins while another runs, and plain `Save`s
overwrite each other), `unreported` (a directory cannot be removed or cleanup is
killed after `state.json` went with its own, before the errors are printed).
`UsersPackagesKept` and `UsersShimKept` need none of them.

`UsersPackagesKept` has an exception of its own, `adopted`, because the code does
not keep what `README.md:259` says ("not pre-existing ones") of a dependency that
is there in part. With apt, qemu is `qemu-system-x86` and `qemu-utils`. To a user
who has only `qemu-utils`, setup finds "qemu" missing (`deps.go:100`), installs
both packages, which leaves his as it is, and records "qemu" as installed by
kairos-lab (`app.go:163`); cleanup uninstalls both (`app.go:2103`, `2249`). TLC
reaches this in ten steps when the exception is left out. With it the property
says that this is the only way: nothing is adopted of a dependency that was
complete, and nothing before a setup has installed the rest and saved it.

`MCProvisioning` - the instance for TLC: qemu under apt, and a view that forgets
history no property asks for any more.

`Provisioning_proofs` - theorems and proofs about `Provisioning`.

`StateLoad` - what `Store.Load` makes of a file, and what becomes of the VMs when
every write starts from a load.

| model | code |
|---|---|
| `file` | `state.json`: `version`, `vms` (name to index, mode known or not, and `holder`: the process whose PID the record has), `legacy` (the schema-1 `vm` object), `disks` |
| `Loaded(f)` | `Load` of the file `f`: `Migrated` (`migrateLegacyVM`), then `Quarantine` (`Valid` is `invalidVMReason`) |
| `Loadable`, `Refused` | names `validDiskNameCharset` accepts, and names that `validDiskName` lets a start use all the same |
| `pc`, `name`, `disk`, `index`, `snap` | an invocation: a start, a setup or download, a reset |
| `OldQemu` | a QEMU that an older binary left running |
| `overwritten`, `misread` | history: a plain `Save` changed another VM's entry; `OldQemu`'s record was never one that `Load` accepts |

`Init` ranges over what older binaries can have left (`OldFile`): nothing, a
schema-1 file with its one VM under any of the names `migrateLegacyVM` derives,
a schema-2 file with one record, valid or not, its VM running or not. An
`Update` is one step, and so is a reset: what comes between is in `StateStore`
and `VMLifecycle`. A record's PIDs are one `holder` here.

`IsoDownload` - the downloads directory: `ListDownloaded`, the choice of
`SelectOrDownloadISO`, `FetchChecksum` and the steps of `downloadISO`, by several
invocations at once, beside a user, a cleanup and a release that is edited.

| model | code |
|---|---|
| `files`, `dir` | the directory: an entry per ISO of the release and one `.part-*` file per invocation |
| `sums` | the `.sha256` asset of each ISO: lines of a digest and a name |
| `pc`, `name`, `want`, `listing`, `path` | an invocation: the ISO it downloads, `wantSHA256`, what it offered, what it settled on |
| `ever`, `touched`, `raced` | history: digests ever published of an ISO, entries the user wrote, whether a target was replaced since it was looked at |

A digest is identified with the content it is of. A body that arrives is any
content, or `Partial`: cut short unnoticed when no length was announced.

`AddressLookup` - `Resolve` and `Poll` for one guest of `start` or `status`, with
the parsers of dnsmasq's lease file, `ip neigh` and the agent's answer as
operators (`ParseLeases`, `ParseNeigh`, `ParseQGA`).

| model | code |
|---|---|
| `lease[a]`, `neigh[<<a, d>>]` | the line of address `a` in the lease file (MAC, expiry), and the MAC of the neighbour entry of `a` on device `d` |
| `has[m]` | external: the address the guest with MAC `m` uses |
| `now`, `tick`, `asked`, `readUntil` | the clock, the ticker, and the agent exchange with its deadline |
| `began` | history: when the attempt began |
| `caller`, `mac`, `mode`, `cancelled` | `start`'s poll or `status`'s single lookup, `IPLookup.MAC` and `Mode`, the cancellation when QEMU has exited |
| `pc`, `answer` | the source being asked, `IPResult` |
| `torn` | history: the answer came from a line that was being written |

The DHCP server (external) is modelled from what the comment of
`parseDnsmasqLeases` relies on: it gives an address to another guest only when
it was never leased or its lease has run out, and a line stays until then. A
guest uses an address it leased and gives it up with the lease. Both files are
kept by address, so an answer is any matching line, where the code takes the
first: the server's order is not known.

The neighbour table is external as well. A guest that starts to use an address has
its entry on the bridge in the same step (`Uses`): the model leaves no time in
which the entry is still that of the address's last user. That is an assumption
about the kernel and the guest, and `ipaddr.go:26-28` does not make it: the cache
"can hold a stale entry from a previous boot". The arp part of `NotASiblings`, as
far as it is about the bridge, rests on it. An entry may go at any
time (`Age`), and those of the uplink are never refreshed.

`MCStateLoad`, `MCIsoDownload`, `MCAddressLookup` - instances for TLC, with views
that forget what ended invocations remember. `StateLoad_proofs`,
`IsoDownload_proofs`, `AddressLookup_proofs` - theorems and proofs.

## Runs

| run | instance | shows |
|---|---|---|
| `lifecycle` | 2 starts, 1 reset or cleanup, 2 names, indices 0..1 | the registry of live VMs is implemented; type invariant and the five safety invariants, with every failure and kill |
| `lifecycle_live` | 2 starts, 2 names, one index, fair | `IndexFreed`, with the index exhausted while one start is live and reused after it |
| `store` | 2 Updates, 1 plain Save, 1 cleanup, 1 retry | the store's safety, with every failure, timeout and kill |
| `store_atomic` | 3 Updates, 1 retry, lock attempts fair | `Update`s alone implement `AtomicStore`; a wait for the lock ends |
| `network` | 2 shared starts, 1 reset or cleanup, 2 names, indices 0..1 | who may take a guest off the network; a failed preparation is undone |
| `network_ports` | 2 starts of any modes, one NIC of the user's, blind probes | no NIC shares the bridge with a guest unless it came after the last check |
| `provision` | 1 invocation at a time, repeated without end; qemu of two packages; the user starts with any of them and handles `qemu-utils` and both images | nothing of the user's is removed but an adopted package, a pulled image is recorded |
| `state_load` | 2 invocations, 2 accepted names and 1 refused one, indices 0..1, every old file | no running VM with an accepted name drops out of the state or shares its index or disk; the registry of live VMs is implemented; who may change a record |
| `iso_download` | 2 invocations, 1 ISO, 2 contents, 4 shapes of checksum file | only verified files bear an ISO's name, with every overlap, kill and failure; downloads end |
| `address` | 2 guests, 2 addresses and an IPv6 one, a poll of 4 units with a tick every 2, an exchange of 1 | no sibling's address is answered; the poll's cadence and end |
| `breaks_OwnPackagesRemoved` | as `provision`, without a user and with both values of `-runtime` | a statement of the repository's README that the code does not keep |
| `breaks_WrittenNamesLoad` | as `state_load`, one accepted name | a statement of a comment that the code does not keep |

Bounds. Two starts meet in every order on one name, on two names, and after one
another (index reuse); one reset or cleanup is enough for every lost write
found, each of which is one stale snapshot published over one newer entry; two
indices let one start take the index another gave up, one index leaves a start
none. Two Updates and a Save suffice for a lost write, three Updates for a
wedged holder with two waiting; `MaxTries` only counts how often a waiter looks
and one retry has both of its outcomes. On the network the conflicts are between
two parties: a guest and the one who disconnects it. In `Provisioning`
nothing is counted and no invocation is the last one, so the instance is a
closed cycle of setups and cleanups. One dependency of two packages is enough for
each of them to be there, missing, the user's or kairos-lab's beside the other;
of `docker` and `podman` each is one package. `-runtime` is left out in `provision`: which
runtime is detected is a choice either way, though only docker is then installed.
Overlapping invocations are covered by the proof only. In `StateLoad` a start
and what a second one or a reset does to its record are two invocations, and
`OldQemu` is a third party; a migrated record, a refused name and an index out of
range each occur with every order of them. In `IsoDownload` two downloads of one
ISO are the conflict; the names of other ISOs occur in the checksum files. In
`AddressLookup` one sibling is who an address can be taken from, two addresses
let a guest move, leases run out within the poll, and an exchange that the probe
delayed runs past a tick with time left for another attempt. `CHECK_DEADLOCK FALSE`
everywhere: in the other modules every invocation runs once and ends, so the
system stops.

### Lifecycle properties

* `ImplementsRegistry` - every step grants one lease to a start that had none, ends
  one, loses the registry by a plain write, or leaves all leases as they are. The
  invariants below say what a state may hold; this says how the live records may
  change: no two at once, none changing hands, none coming back.
* `LiveIndicesDistinct` - two live records have different indices.
* `ReservationHeld` - from its reservation to its end a starter's record is its own.
* `RunningVMsDistinct` - two running QEMUs the state can know about (starter
  alive, or PID written) differ in index and disk, also when their starters were
  killed and their names started again. A QEMU whose starter was killed before
  it wrote the PID is known to nobody; the code cannot protect it.
* `RecordedVMHasDisk` - a record past its reservation has its disk in the file.
* `AddressKept` - an address the poller sent is in the record of the stopped
  VM, whichever write of it failed or came last. It needs no exception.
* `IndexFreed` - a start past its reservation gets a running QEMU or stops
  being live.

### Store properties

* `Exclusive`, `NoUpdateLost` - one `Update` between load and save, none
  overwritten by an older copy. Both end with the removal of the lock file: a
  cleanup unlinks it under a holder, and the next `Update` locks a new file.
* `WholeFile` - no reader meets a truncated file, whoever is killed.
* `FailureLeavesNothing` - an error means the change is nowhere.
* `LockWaitEnds` - a wedged holder stops nobody for ever.

### Network properties

* `SiblingsKept` - a guest leaves the network only by a step of an invocation
  that is allowed to: one that decided about siblings before the guest could be
  seen (`unseen`), a removal for an older record of the same index, or the stale
  cleanup of a removal, which asks nobody (`MayDisconnect`). These three are what
  the code does not protect; the property shows there is no fourth, in no
  failure, revert or partial teardown.
* `NoForeignNIC` - an interface attached before a shared start's last port check
  never shares the bridge with its guest.
* `PreparationReverts` - a shared start that failed with no sibling leaves no
  `ipv4.method shared` of its own behind, unless the delete failed too.

### Provisioning properties

* `UsersPackagesKept` - a package the user installed while no record or running
  command claimed it is never uninstalled, unless it was adopted: a package of
  a dependency of which another was missing when a setup looked.
* `UsersImagesKept` - nor is such an image, until the records go astray.
* `PulledImageRecorded` - an image setup pulled is in `state.json` with its
  runtime from before the pull until it is removed or reported.
* `UsersShimKept` - no step replaces or removes an `auroraboot` of the user's
  that was there when the code last looked.

### Load properties

* `RunningVMLoads` - a started VM with an accepted name is in what the next
  command loads, under its own index and held by its own process. The VM an older
  binary left running counts.
* `LiveVMsDistinct` - hence no two of them share an index or a disk. The record
  migrated from a file without a disk name is named for the image file, so a
  start of the disk's own name is not refused: `DisksDistinct` excepts it.
* `ImplementsRegistry` - what `Load` lets through of files of any age is the registry
  of `VMRegistry`: loading, migrating, setting aside and saving move no lease.
* `OnlyOwnRecordChanges` - the record of a name, as loaded, changes only by a
  start of that name or goes by a reset; a migrated record does not come back.
* `NewerFileKept` - the file of a newer binary is written over only by a plain
  `Save` of a state loaded before it.

### Download properties

* `OnlyVerifiedKept` - what bears an ISO's name is what the release published for
  that ISO at some time, unless the user wrote it.
* `TempsRemoved` - only a killed download leaves its `.part-*` file.
* `VerifiedISOKept` - a file that is what the release publishes is removed, other
  than by cleanup, only by a download that looked or asked too early: the code
  hashes the target and removes it by name, without a lock (`iso.go:245`).
* `DownloadEnds` - a silent server stops no download for ever.

### Address properties

* `NotASiblings` - an address answered is no other guest's, and one from the lease
  file is one the server would give to nobody else. Excepted are a line cut
  in its address while it is written, and the fallback of `parseLinuxNeigh`: with
  nothing of this NIC on the bridge it answers from an old entry of the uplink.
* `SilenceIsBounded` - an agent that never answers holds a poll up for one read
  timeout at a time. The next attempt comes when an interval is over since this
  one began; if the exchange runs past that tick, it comes when the exchange is
  over, at most the read timeout after it was asked. So a silent agent can cost
  a tick (the comment at `ipaddr.go:356` says the timeout is added to the
  interval), but never the rest of the poll.
* `PollEnds` - every lookup ends.

### Known divergences

Two findings, each quoted in `PROJECT.json` and found by a run:
`WrittenNamesLoad` (start accepts names that every `Load` sets aside, the ISO's own
name among them; such a VM is in nobody's state, and its index and disk are given
out while it runs) and `OwnPackagesRemoved` (a second setup records the packages
the first one installed as pre-existing, and cleanup keeps them and says complete).

Five more statements that the models show not to hold, each at the exception the
property of that part has to make: that pre-existing packages are not uninstalled
(`README.md:259`; those of a dependency that was there in part are: `adopted`); that an image that was there is kept
(`README.md:258`; a recorded pull does not name its runtime: `switched`); that a
start of another name does not tear the first one's network down
(`README.md:286`; siblings are decided before the sudo prompt and acted on after
it: `unseen`); that a removal takes only the VM's own tap (`network_linux.go:794`;
a tap is named by an index that may have been given away: `MayDisconnect`); that
the stored bridge is kept for the next run to finish (`network_linux.go:812`;
reset drops the records whose teardown failed, and with them the reason to try).

Met while modelling, and kept out of the runs because each needs only the
reading of a few lines: a reset may remove a reservation while its start is
still preparing, and the start records itself without looking; a PID whose
write failed is not written again; two starts of one new name both create the
image when they loaded before either recorded; a reset of one disk removes the
socket and log of its record's index, which may be a later VM's; the stale
cleanup of reset and cleanup does not ask for live siblings (`app.go:2039`); a
start that fails after its network was prepared leaves the network up; a
user-mode sibling counts as live and so spares a stale bridge; the stored
network is overwritten with the start's own (`app.go:1027`); the exit-time
fallback publishes the state loaded when the run began, siblings included, as
its comment says it may (`app.go:1706`); a shim and its directory are recorded
after they are made, so a kill between leaves them unrecorded
(`auroraboot.go:81`); a package manager that fails half-way leaves packages no
record names (`app.go:163`); the fallback also writes over a newer
binary's file, which its `Update` had refused; the comment of `migrateLegacyVM`
names an "any VM" refusal in `runStart` that is not there any more; `download`
saves the state it loaded before a download of up to half an hour
(`app.go:202`); K3s versions are sorted as strings and the first is labelled
latest, so v1.9 comes before v1.10 (`releases.go:165`); a lease line cut in its
address reads as a line of another address.

### Fairness

`VMLifecycle`: weak fairness of each started invocation, and of its poller's
stop or write: the operating system schedules them, prompts are answered, and a
poll has a timeout and a cancellation. Nothing is assumed of an address being
found, of QEMU's exit, of an invocation ever being made, or of kills.
`StateStore`: weak fairness of the lock attempts alone (`LockStep`): the waiter
loops on a timer of its own. Nothing is assumed of the holder.
`IsoDownload`: weak fairness of each download's local steps and of the timeouts of
its two HTTP clients, 30 seconds for the checksum and 30 minutes for the ISO.
Nothing is assumed of the server. `AddressLookup`: weak fairness of the lookup's
own steps and of the clock. Nothing is assumed of the agent, of the guests or the
server; of the `ip` probe only that it is killed when the context is done.
`StateLoad` has no liveness property.

## Proofs

The assumptions are those the modules state: `MaxVMIndex` and `MaxTries` are
natural numbers, roles are disjoint, the PID 0 is nobody's, "no record" is not a
record; in `LinuxNetwork`, the uplink is no NIC that the user's own profiles make a
port; in `Provisioning`, a required dependency is no runtime, packages are neither
runtimes nor images, and preferences name runtimes.

`VMLifecycle_proofs` proves, for every set of invocations and names and every
index bound, `TypeOK` and all five safety invariants. None is inductive alone.
`IInv` adds:

* `RecordsOfTheirStarters` - every record, in the file or in any memory, is one
  its starter wrote: same name and index, PID 0 or the launched one, and if
  stopped, with the address sent. Stale snapshots satisfy it too, so it holds
  across lost writes, and it is why `AddressKept` needs no exception.
* `QemuFollowsStarter` - a QEMU runs only from its starter's launch on, and a PID
  is recorded only after it. With the previous part: a record that is not live
  never becomes live again (`NothingRevives`).
* `RunningPIDKept` - a recorded PID of a running QEMU stays in its record.
* `DiskKept` - a started disk is in its starter's memory, then in the file.

`FileStep` reduces every step to four kinds of change at a name (kept, written
by its holder, reserved, removed while not live or by its own release). Each
invariant's step follows from that case split: `LiveFromLive` says a live record
was live before with the same index unless just reserved, and a reservation
takes an index no live record has. `RunningVMsCorrect` follows because every
known QEMU has a live record of its own under its name.

`RegistryCorrect` proves the refinement of `VMRegistry`: `Reserve` is `Grant`, the step
after which a record is no longer live is `End` (a release, a return, the exit of a
QEMU without a starter, a kill), a step that sets `overwritten` is `Lose`, a start
that ends without a reservation is `Forgo`, and every other step is a stutter.
`LiveRecordsCorrect` says of any state, overwritten or not, that what counts as
live is a start between its reservation and its end or a QEMU that outlived its
starter: the safety half of `IndexFreed`.

`AloneCorrect` says when `overwritten` stays false: if no start and no other reset
is under way while a reset or cleanup is between its load and its write
(`ResetsAlone`), and no exit falls back on its old state (`NoFallback`).
`SnapshotsCurrent` is its invariant: what such a reset loaded is what is there.
`AloneSafe` then has reservations and running VMs without the exception. Neither
hypothesis can be dropped: on a small instance TLC finds an overwriting write when
either is left out, and none under both.

`VMRegistry_proofs` proves `TypeOK`, `Exclusive` and `OneLeaseEach` of the registry for
any names, holders and indices; they hold of whatever implements it.

`StateStore_proofs` proves, for any number of writers, cleanups and retries, the
type invariant and `Exclusive`, `NoUpdateLost`, `WholeFile` and
`FailureLeavesNothing`. Its `IInv` adds `OneLockFile` (until it is removed, all
contenders have the same lock file open, so `flock` excludes them),
`SeenIfPublished` (nobody loads a change before its rename), `FilesWhole` (what
is renamed was written) and `MergesFresh` (the one inside holds the file as it
is, plus its own change). `AtomicCorrect` proves the refinement under
`UpdatesOnly` (no plain `Save`, no cleanup): a rename is `Apply`, because
`MergesFresh` says what it publishes; a return reports; every other step is a
stutter (`ReportOrStutter`).

`LinuxNetwork_proofs` proves, for any VMs, modes, index bound, NICs and number of
starts and removals, with probes that answer or are blind, `TypeOK` and the three
safety properties. Two facts carry them: a step moves one invocation (`StepAlone`),
and it does one of five things to the host (`HostSteps`): add to it, write
`ipv4.method shared`, take its own tap down, its uplink, or the bridge.
`NoForeignNIC` follows since only a NIC itself joins and the step to `prepared`
is a check. `PreparationReverts` needs `SharedLater` (the last writer is past its
write, where every exit but that with a sibling deletes the bridge). `SiblingsKept`
needs `SiblingsInv`:

* `SiblingsSeen` - of two starts, each either decided that there is a sibling and
  has an index of its own, or could not count the other (`unseen`).
* `RemoversSaw` - a removal that found no sibling could not count a start, or still
  has its record to refuse over after the prompt, and then does.
* `RemoversSpare`, `StartsAlone`, `BridgeSpared` - who is at the bridge in a
  teardown or revert decided that there is no sibling, unless it is the stale
  cleanup of a removal.

`AloneSiblings` says how much of that is due to interleaving: if invocations come one
at a time, prompts included (`OneAtATime`; VMs keep running meanwhile), a guest leaves
the network in one way only, by a `reset` of a VM that does not run, which takes
down the tap of an index that its record still has and the guest was given since.
The bridge under the guest stays. That case is in the code (TLC reaches it with two
starts and a reset), so the conclusion is as strong as it can be. It rests on
`AloneInv`: `state.json` shows every VM that runs and remembers its network
(`RunningShown`), a start remembers that network and found those VMs to be siblings
with indices other than its own (`StartKnows`), and so did a removal, unless it has
one among its targets and is going to refuse over it (`RemoverKnows`). Every step is a
load, a reservation, a write or a return, or is quiet: it forgets nothing
(`StartQuiet`, `RemoverQuiet`).

`Provisioning_proofs` proves, for any dependencies, whichever packages they need
and are mapped to, any preferences, user and number of invocations at a time
(overlapping ones included), `TypeOK` and `UsersPackagesKept`. The latter is not
inductive: cleanup uninstalls what `state.json` names. `IInv` adds `NoneClaimed`
and `MissingOnlyInSetup` (a cleanup carries no list of missing dependencies).
`NoneClaimed` says that no record, saved or in a running command's memory, and no
runtime about to be installed is of a package of the user's that was not adopted.
What a setup found missing may be, if it is in `partly`; from its installation to
its save its memory may claim that too (`AboutToAdopt`), and with the save it is
adopted. Every step is one invocation's (`OneMoves`): an installation claims only
what was found missing and is not the user's or is about to be adopted
(`InstallKeeps`), a `Save` publishes only what its memory claims and adopts
(`SaveClaims`), an uninstallation takes only what it claims. Adoption ends only with
the user's own doing or with a cleanup that nothing overlaps.
It also proves the other three properties. `UsersImagesKept` and
`PulledImageRecorded` follow from `ImagesInv`: until `astray` there is one
invocation at a time (`OneAtATime`), it remembers of the image what is on record,
a recorded image is not the user's, and none of kairos-lab's is there before a pull
or after a removal that did not fail. `UsersShimKept` follows from `ShimInv` (a
user's shim met by a rename was written after the look), overlapping or not.

`StateLoad_proofs` proves every property of the `state_load` run, for any
invocations, names and index bound. First the two facts about the pure part:
`LoadedClean` (what `Load` returns is of the current version, without a legacy
record and with valid ones only) and `LoadingTwice`. The inductive invariant
`IInv` is `RunningVMLoads`, `IndicesDistinct` and `Typed`: the type invariant,
`SnapsClean` (what an invocation loaded and keeps is as `Load` returns it) and
`DisksChosen`. A reservation takes an index no live record has, and by
`RunningVMLoads` every running VM has a live record, so `IndicesDistinct` follows;
`DisksCorrect` follows from a name having one holder. `StepEffect` reduces a
step to a change at one name, a removal, or a plain write.
`LoadingTwice` covers every file; that loading again changes nothing needs no run.

Its `RegistryCorrect` needs more than `IInv`: `RecordsOfHolders` (a record with a
live holder is that holder's own, at the name and the index it reserved, and who
has not reserved yet has no record), because a lease is of a holder and `IInv`
speaks of names only. `StepRecords` shows it inductive; `ReserveGrants`, `StepEnds`
and `SaveLoses` map the steps. `UndisturbedCorrect` is the counterpart of
`AloneCorrect`: no plain write rolls a record back if no other invocation moves
while a setup is between its load and its save (`SetupsUndisturbed`) and no exit
falls back; TLC finds a rollback when either hypothesis is dropped.

`IsoDownload_proofs` proves the four safety properties of `iso_download`, for any
ISOs, checksum files and number of invocations. `IInv` adds `OnlyISOsOffered` (only
targets are listed or chosen), `EverPublished` and `WantsPublished` (a digest a
download verifies against was published for its own ISO), `VerifiedTemps` (what is
about to be renamed was verified, or is the user's) and `StaleTargets` (what is
about to be removed did not verify, unless it was replaced since).

`AddressLookup_proofs` proves the three safety properties of `address`, for any
NICs, addresses and timeouts that satisfy `TimeAssumption`. `IInv` adds
`LeasedToUser` (in shared mode a guest uses an address only by a lease of its own
that has not run out), `UsersDistinct`, `BridgeRows` (an address with a bridge
entry of a NIC is used by no other), `LeaseInShared` and `TimersKept` (how the
clock stands to the ticker and the exchange at each `pc`). `LookupBounded` is the
safety half of `PollEnds`: `Left` (14 for each second of the budget that is left, 7
for a tick that is due, and the places ahead) is a natural number that every
step of the lookup and of the clock makes smaller and that no guest, table or
agent makes larger.

Only model-checked: `IndexFreed`, `LockWaitEnds`, `DownloadEnds` and `PollEnds`
(liveness under fairness is beyond the prover) and the refuted statements. Every
safety property of a passing run, and both refinements of `VMRegistry`, are theorems;
that of `AtomicStore` as well. For `IndexFreed` and `PollEnds` the part that is not
about fairness is proved too (`LiveRecordsCorrect`, `LookupBounded`).

## Plan

1. `VMLifecycle`, its runs and proofs: done.
2. `StateStore` and `AtomicStore`, their runs, proofs and refinement: done.
3. `LinuxNetwork`, its runs and proofs: done.
4. `Provisioning`, its runs and proofs: done.
5. `StateLoad`, `IsoDownload` and `AddressLookup`, their runs and proofs: done.
6. `VMRegistry`, its two refinements, the condition under which no plain write
   overwrites anything, and the one way a guest leaves the network when invocations
   come one at a time: done.
7. The bounded part of `LockWaitEnds` and `DownloadEnds`, as `LookupBounded` has it for
   `PollEnds`.
8. User mode and macOS's formats in `AddressLookup`; the names of devices and of
   the stored bridge in `LinuxNetwork`.

## Not modelled

Argument parsing, prompts' wording, output, the QEMU command line, `status`
(read only), the installer script, macOS interface selection: pure or read-only,
or a single probe before anything changes. Parsers of `ip link` and `nmcli` output
and the validation of stored bridge and uplink names are abstracted to the answer
or the refusal. The address lookup in user mode, where only the agent is asked and
every guest has the same address, and macOS's lease and ARP files are left out.
Those have rules of their own: an ARP entry is taken without a preference for an
interface (`ipaddr_darwin.go:41`), and a lease of 0 counts as run out, where
dnsmasq's 0 never does. The characters of names, digests and MAC addresses are
abstracted to whether they match or are accepted. PID reuse
and a clock that is set back are outside the models.
