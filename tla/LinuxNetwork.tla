---------------------------- MODULE LinuxNetwork ----------------------------
(***************************************************************************)
(* The host network of the VMs of one config directory on Linux            *)
(* (internal/vm/network_linux.go): the preparation of --network shared and *)
(* bridged with its stale cleanup, port checks and revert, and the         *)
(* teardown by reset and cleanup, as `start`, `reset` and `cleanup`        *)
(* (internal/app/app.go) drive them for several VMs at once.               *)
(*                                                                         *)
(* Each root command and each probe of the host is a step.  state.json is  *)
(* what this component reads of it: the records with their indices, and    *)
(* Network.CreatedByKairosLab.  Its bridge name is the default one.        *)
(***************************************************************************)
EXTENDS Naturals

CONSTANTS
  Names,        \* VM names
  Modes,        \* the network modes the starts may use
  Starts,       \* `start` invocations
  Removers,     \* `reset` and `cleanup` invocations
  MaxVMIndex,   \* highest VM index
  ForeignNICs,  \* host interfaces some profile of the user's makes ports of the bridge
  Blind,        \* whether a probe may answer "no" about what is there
  NoVM          \* "no record of this name"

Indices == 0..MaxVMIndex
Procs == Starts \cup Removers

VM == [index : Indices, starter : Starts]

ASSUME IndexAssumption == MaxVMIndex \in Nat
ASSUME ModeAssumption == Modes \subseteq {"shared", "bridged", "user"}
ASSUME RoleAssumption ==
  Starts \cap Removers = {} /\ NoVM \notin VM
ASSUME BlindAssumption == Blind \in BOOLEAN
ASSUME NICAssumption == "uplink" \notin ForeignNICs

(* The host: the ipv4 method of the bridge's connection ("none" without    *)
(* one), the <bridge>-uplink connection, the tap connections, the bridge   *)
(* and tap devices, and the ports of the bridge.                           *)
Host == [bridge : {"none", "auto", "shared"}, uplink : BOOLEAN, taps : SUBSET Indices,
         link : BOOLEAN, tapLinks : SUBSET Indices,
         ports : SUBSET Indices, nics : SUBSET (ForeignNICs \cup {"uplink"})]

VARIABLES
  host,         \* the host's network
  vms,          \* the records of state.json
  created,      \* its Network.CreatedByKairosLab
  pc,           \* where each invocation is
  name, mode,   \* start: the VM's name and network mode
  at,           \* the index whose tap an invocation works on
  sibling,      \* its decision that another VM is live
  spare,        \* whether a teardown spares the bridge
  mayHave,      \* its in-memory CreatedByKairosLab
  cleanup,      \* whether a reset or cleanup is a cleanup
  kept,         \* reset: the records it will save
  todo,         \* reset, cleanup: the records still to clean up for
  byIndex0,     \* reset, cleanup: clean up index 0 for want of a record
  err, failed,  \* this teardown, any teardown of the command had a failure
  slave,        \* the port to reconnect: "none", "found", or "owed" once freed
  unseen,       \* history: the starts its sibling decision could not count
  late,         \* history: starts beside which a NIC was attached after their last check
  sharedBy      \* history: the last start that wrote ipv4.method shared

state  == <<vms, created>>
plan   == <<mayHave, cleanup, kept, todo, byIndex0, failed>>
tear   == <<at, sibling, spare, err, slave>>
config == <<name, mode>>
hist   == <<unseen, late, sharedBy>>
vars   == <<host, state, pc, config, tear, plan, hist>>

Ended == {"failed", "refused", "stopped", "dead", "complete", "warned"}

Goto(p, from, to) == pc[p] = from /\ pc' = [pc EXCEPT ![p] = to]

(* A record is live while its start, and with it its QEMU, runs.           *)
VMIsLive(v) == pc[v.starter] \notin Ended
Live(n) == vms[n] # NoVM /\ VMIsLive(vms[n])

Init ==
  /\ host = [bridge |-> "none", uplink |-> FALSE, taps |-> {}, link |-> FALSE,
             tapLinks |-> {}, ports |-> {}, nics |-> {}]
  /\ vms = [n \in Names |-> NoVM] /\ created = FALSE
  /\ pc = [p \in Procs |-> "idle"]
  /\ name \in [Starts -> Names] /\ mode \in [Starts -> Modes]
  /\ at = [p \in Procs |-> 0]
  /\ sibling = [p \in Procs |-> FALSE]
  /\ spare = [p \in Procs |-> FALSE]
  /\ mayHave = [p \in Procs |-> FALSE]
  /\ cleanup = [r \in Removers |-> FALSE]
  /\ kept = [r \in Removers |-> [n \in Names |-> NoVM]]
  /\ todo = [r \in Removers |-> {}]
  /\ byIndex0 = [r \in Removers |-> FALSE]
  /\ err = [p \in Procs |-> FALSE]
  /\ failed = [r \in Removers |-> FALSE]
  /\ slave = [p \in Procs |-> "none"]
  /\ unseen = [p \in Procs |-> {}] /\ late = {} /\ sharedBy = {}

-----------------------------------------------------------------------------
(* What the root commands do to the host, and what probes answer.          *)

(* A probe answers "no" for whatever keeps it from answering.              *)
Probe(there) == IF Blind THEN {there, FALSE} ELSE {there}

BridgeDown(h) == [h EXCEPT !.link = FALSE, !.ports = {}, !.nics = {}]
TapDown(h, i) == [h EXCEPT !.tapLinks = @ \ {i}, !.ports = @ \ {i}]

(* Activating a connection that is not there changes nothing.              *)
BridgeUp(h) == IF h.bridge = "none" THEN h ELSE [h EXCEPT !.link = TRUE]
TapUp(h, i) ==
  IF i \notin h.taps THEN h
  ELSE [BridgeUp(h) EXCEPT !.tapLinks = @ \cup {i},
                           !.ports = IF h.bridge = "none" THEN @ ELSE @ \cup {i}]
UplinkUp(h) ==
  IF ~h.uplink \/ h.bridge = "none" THEN h
  ELSE [BridgeUp(h) EXCEPT !.nics = @ \cup {"uplink"}]

(* Deleting a connection takes its device away.                            *)
DeleteTap(h, i) == [TapDown(h, i) EXCEPT !.taps = @ \ {i}]
DeleteUplink(h) == [h EXCEPT !.uplink = FALSE, !.nics = @ \ {"uplink"}]
DeleteBridge(h) == [BridgeDown(h) EXCEPT !.bridge = "none"]

(* NetworkManager makes an interface a port because its profile says so,   *)
(* whenever the bridge is up.                                              *)
NICAttaches(n) ==
  /\ host.link /\ n \notin host.nics
  /\ n \in ForeignNICs \/ (n = "uplink" /\ host.uplink)
  /\ host' = [host EXCEPT !.nics = @ \cup {n}]
  /\ late' = late \cup {p \in Starts : pc[p] \in {"prepared", "running"}}
  /\ UNCHANGED <<state, pc, config, tear, plan, unseen, sharedBy>>

-----------------------------------------------------------------------------
(* start: up to the reservation                                            *)

Load(p) ==
  /\ Goto(p, "idle", "loaded")
  /\ mayHave' = [mayHave EXCEPT ![p] = created]
  /\ UNCHANGED <<host, state, config, tear, cleanup, kept, todo, byIndex0, failed, hist>>

(* The invocations that decided about siblings before p's reservation.     *)
Decided == {q \in Procs : pc[q] \notin Ended \cup {"idle", "loaded"}}

(* The starts under way that the file does not show.                       *)
Lost == {q \in Starts \cap Decided : vms[name[q]] # [index |-> at[q], starter |-> q]}

NoSibling(ours) == FALSE
SiblingLive(ours) == \E n \in Names \ ours : Live(n)

FreeIndicesFromOne == (1..(MaxVMIndex + 1)) \ {vms[n].index : n \in {m \in Names : Live(m)}}

FreeIndices == Indices \ {vms[n].index : n \in {m \in Names : Live(m)}}

Reserve(p) ==
  LET n == name[p] IN
  /\ Goto(p, "loaded", IF mode[p] = "user" THEN "prepared" ELSE "preflight")
  /\ ~Live(n)
  /\ \E i \in FreeIndices :
       /\ \A j \in FreeIndices : i <= j
       /\ vms' = [vms EXCEPT ![n] = [index |-> i, starter |-> p]]
       /\ at' = [at EXCEPT ![p] = i]
  /\ sibling' = [sibling EXCEPT ![p] = SiblingLive({n})]
  /\ unseen' = [q \in Procs |-> IF q = p THEN Lost
                                ELSE IF q \in Decided THEN unseen[q] \cup {p} ELSE unseen[q]]
  /\ UNCHANGED <<host, created, config, spare, err, slave, plan, late, sharedBy>>

(* Every earlier return, and a refused name.                               *)
GiveUp(p) ==
  /\ Goto(p, "loaded", "refused")
  /\ UNCHANGED <<host, state, config, tear, plan, hist>>

(* The deferred release of a start that failed in its preparation, or      *)
(* later.  Its Update may fail.                                            *)
Release(p) ==
  /\ Goto(p, "failing", "failed") \/ Goto(p, "aborting", "failed")
  /\ \/ /\ vms[name[p]] # NoVM /\ vms[name[p]].starter = p
        /\ vms' = [vms EXCEPT ![name[p]] = NoVM]
     \/ UNCHANGED vms
  /\ UNCHANGED <<host, created, config, tear, plan, hist>>

-----------------------------------------------------------------------------
(* cleanupNMConnections                                                    *)

Stale(i) == host.bridge # "none" \/ host.link \/ host.uplink \/ i \in host.taps

(* findBridgeSlave looks before anything is deleted.                       *)
BeginTeardown(p, from, i, sparing) ==
  /\ Goto(p, from, "delTapConn")
  /\ at' = [at EXCEPT ![p] = i]
  /\ spare' = [spare EXCEPT ![p] = sparing]
  /\ err' = [err EXCEPT ![p] = FALSE]
  /\ \E found \in Probe(~sparing /\ host.link /\ host.nics # {}) :
       slave' = [slave EXCEPT ![p] = IF found THEN "found" ELSE "none"]
  /\ UNCHANGED <<host, state, config, sibling, hist>>

(* A delete is issued for what the probe saw; a failure is collected and   *)
(* the teardown goes on.                                                   *)
Delete(p, from, to, there, h) ==
  /\ Goto(p, from, to)
  /\ \E seen \in Probe(there) :
       \/ ~seen /\ UNCHANGED <<host, err>>
       \/ seen /\ host' = h /\ UNCHANGED err
       \/ seen /\ UNCHANGED host /\ err' = [err EXCEPT ![p] = TRUE]
  /\ UNCHANGED <<state, config, at, sibling, spare, plan, hist>>

DelTapConn(p) ==
  /\ Delete(p, "delTapConn", IF spare[p] THEN "delTapLink" ELSE "delUplinkConn",
            at[p] \in host.taps, DeleteTap(host, at[p]))
  /\ UNCHANGED slave

DelUplinkConn(p) ==
  /\ Delete(p, "delUplinkConn", "delBridgeConn", host.uplink, DeleteUplink(host))
  /\ slave' = IF host.uplink /\ ~host'.uplink /\ slave[p] = "found"
              THEN [slave EXCEPT ![p] = "owed"] ELSE slave

DelBridgeConn(p) ==
  /\ Delete(p, "delBridgeConn", "delTapLink", host.bridge # "none", DeleteBridge(host))
  /\ UNCHANGED slave

DelTapLink(p) ==
  /\ Delete(p, "delTapLink", IF spare[p] THEN "tornDown" ELSE "delBridgeLink",
            at[p] \in host.tapLinks, TapDown(host, at[p]))
  /\ UNCHANGED slave

DelBridgeLink(p) ==
  /\ Delete(p, "delBridgeLink", "reconnect", host.link, BridgeDown(host))
  /\ UNCHANGED slave

(* The freed interface leaves for a profile of its own.                    *)
Reconnect(p) ==
  /\ Goto(p, "reconnect", "tornDown")
  /\ err' \in {err} \cup (IF slave[p] = "owed" THEN {[err EXCEPT ![p] = TRUE]} ELSE {})
  /\ UNCHANGED <<host, state, config, at, sibling, spare, slave, plan, hist>>

TeardownStep(p) ==
  \/ DelTapConn(p) \/ DelUplinkConn(p) \/ DelBridgeConn(p)
  \/ DelTapLink(p) \/ DelBridgeLink(p) \/ Reconnect(p)

-----------------------------------------------------------------------------
(* PrepareLinuxShared and PrepareLinuxBridge                               *)

Stay(p, from, to) == Goto(p, from, to) /\ UNCHANGED <<host, state, config, tear, plan, hist>>

(* linuxNetworkPreflight: what is stale goes, unless a sibling is live.    *)
Preflight(p) ==
  \/ /\ ~sibling[p] /\ TRUE \in Probe(Stale(at[p]))
     /\ BeginTeardown(p, "preflight", at[p], FALSE)
     /\ UNCHANGED plan
  \/ /\ sibling[p] \/ FALSE \in Probe(Stale(at[p]))
     /\ Stay(p, "preflight", "addBridge")
  \/ Stay(p, "preflight", "failing")

(* A failed teardown is fatal for shared.                                  *)
TornDown(p) ==
  Stay(p, "tornDown", IF err[p] /\ mode[p] = "shared" THEN "failing" ELSE "addBridge")

(* A root command of the preparation succeeds, or fails without effect.    *)
Command(p, from, to, onError, h) ==
  /\ \/ Goto(p, from, to) /\ host' = h
     \/ Goto(p, from, onError) /\ UNCHANGED host
  /\ UNCHANGED <<state, config, tear, plan, hist>>

(* `nmcli connection add` is skipped for a connection that was seen.  NM   *)
(* activates what is added with autoconnect, which bridged does.           *)
AddBridge(p) ==
  \/ Stay(p, "addBridge", "failing")
  \/ TRUE \in Probe(host.bridge # "none") /\ Stay(p, "addBridge", "modBridge")
  \/ /\ FALSE \in Probe(host.bridge # "none")
     /\ Command(p, "addBridge", "modBridge", "failing",
                IF host.bridge # "none" THEN host
                ELSE [host EXCEPT !.bridge = "auto", !.link = @ \/ mode[p] = "bridged"])

(* From here on ipv4.method is written.                                    *)
ModBridge(p) ==
  \/ Stay(p, "modBridge", "failing")
  \/ /\ host.bridge # "none"
     /\ Goto(p, "modBridge", IF mode[p] = "shared" THEN "addTap" ELSE "addUplink")
     /\ host' = [host EXCEPT !.bridge = IF mode[p] = "shared" THEN "shared" ELSE "auto"]
     /\ sharedBy' = IF mode[p] = "shared" THEN {p} ELSE sharedBy
     /\ UNCHANGED <<state, config, tear, plan, unseen, late>>

AddUplink(p) ==
  \/ TRUE \in Probe(host.uplink) /\ Stay(p, "addUplink", "modUplink")
  \/ /\ FALSE \in Probe(host.uplink)
     /\ Command(p, "addUplink", "modUplink", "failing",
                UplinkUp([host EXCEPT !.uplink = TRUE]))

ModUplink(p) ==
  Stay(p, "modUplink", "failing") \/ (host.uplink /\ Stay(p, "modUplink", "addTap"))

NoRevert(p) == "failing"

(* Past that write, shared reverts when a step fails; bridged returns.     *)
OnError(p) == IF mode[p] = "shared" THEN "revert" ELSE "failing"

AddTap(p) ==
  LET added == [host EXCEPT !.taps = @ \cup {at[p]}] IN
  \/ TRUE \in Probe(at[p] \in host.taps) /\ Stay(p, "addTap", "modTap")
  \/ /\ FALSE \in Probe(at[p] \in host.taps)
     /\ Command(p, "addTap", "modTap", OnError(p),
                IF mode[p] = "bridged" THEN TapUp(added, at[p]) ELSE added)

ModTap(p) ==
  \/ Stay(p, "modTap", OnError(p))
  \/ at[p] \in host.taps /\ Stay(p, "modTap", IF mode[p] = "shared" THEN "preCheck" ELSE "upBridge")

AnyPorts == TRUE

(* Taps with generated names of the same owner are exempt; nothing else is.*)
OnlyTaps == host.nics = {}

(* refusePreexistingBridgePort: only a device has ports.  A failed probe   *)
(* refuses.                                                                *)
PreCheck(p) ==
  \/ (~host.link \/ OnlyTaps) /\ Stay(p, "preCheck", "upBridge")
  \/ Stay(p, "preCheck", "revert")

(* Activation may have happened when nmcli reports a failure.              *)
UpBridge(p) ==
  /\ \/ /\ host.bridge # "none"
        /\ Goto(p, "upBridge", IF mode[p] = "shared" THEN "upCheck" ELSE "upUplink")
        /\ host' = BridgeUp(host)
     \/ Goto(p, "upBridge", OnError(p)) /\ host' \in {host, BridgeUp(host)}
  /\ UNCHANGED <<state, config, tear, plan, hist>>

UpUplink(p) ==
  /\ \/ host.uplink /\ host.bridge # "none" /\ Goto(p, "upUplink", "upTap") /\ host' = UplinkUp(host)
     \/ Goto(p, "upUplink", "failing") /\ host' \in {host, UplinkUp(host)}
  /\ UNCHANGED <<state, config, tear, plan, hist>>

UpCheck(p) ==
  (OnlyTaps /\ Stay(p, "upCheck", "upTap")) \/ Stay(p, "upCheck", "revert")

(* The prepared network is noted in memory.                                *)
Note(p) == mayHave' = [mayHave EXCEPT ![p] = TRUE]

UpTap(p) ==
  /\ \/ /\ at[p] \in host.taps /\ host.bridge # "none"
        /\ host' = TapUp(host, at[p])
        /\ IF mode[p] = "shared" THEN Goto(p, "upTap", "tapCheck") /\ UNCHANGED mayHave
           ELSE Goto(p, "upTap", "prepared") /\ Note(p)
     \/ /\ Goto(p, "upTap", OnError(p)) /\ host' \in {host, TapUp(host, at[p])}
        /\ UNCHANGED mayHave
  /\ UNCHANGED <<state, config, tear, cleanup, kept, todo, byIndex0, failed, hist>>

TapCheck(p) ==
  \/ /\ OnlyTaps /\ Goto(p, "tapCheck", "prepared") /\ Note(p)
     /\ UNCHANGED <<host, state, config, tear, cleanup, kept, todo, byIndex0, failed, hist>>
  \/ Stay(p, "tapCheck", "revert")

PrepareStep(p) ==
  \/ Preflight(p) \/ TornDown(p) \/ AddBridge(p) \/ ModBridge(p) \/ AddUplink(p)
  \/ ModUplink(p) \/ AddTap(p) \/ ModTap(p) \/ PreCheck(p) \/ UpBridge(p) \/ UpUplink(p)
  \/ UpCheck(p) \/ UpTap(p) \/ TapCheck(p)

-----------------------------------------------------------------------------
(* revertSharedSetup                                                       *)

RevertDown(p) ==
  /\ Goto(p, "revert", "revertTap")
  /\ host' \in {host} \cup (IF sibling[p] THEN {} ELSE {BridgeDown(host)})
  /\ err' = [err EXCEPT ![p] = FALSE]
  /\ UNCHANGED <<state, config, at, sibling, spare, slave, plan, hist>>

RevertTap(p) ==
  /\ Goto(p, "revertTap", IF sibling[p] THEN "failing" ELSE "revertBridge")
  /\ host' \in {host, DeleteTap(host, at[p])}
  /\ UNCHANGED <<state, config, tear, plan, hist>>

RevertBridge(p) ==
  /\ Goto(p, "revertBridge", "failing")
  /\ \/ host' = DeleteBridge(host) /\ UNCHANGED err
     \/ UNCHANGED host /\ err' = [err EXCEPT ![p] = TRUE]
  /\ UNCHANGED <<state, config, at, sibling, spare, slave, plan, hist>>

-----------------------------------------------------------------------------
(* start: the recording and the run                                        *)

Record(p) ==
  /\ Goto(p, "prepared", "running")
  /\ vms' = [vms EXCEPT ![name[p]] = [index |-> at[p], starter |-> p]]
  /\ created' = mayHave[p]
  /\ UNCHANGED <<host, config, tear, plan, hist>>

RecordFails(p) == Stay(p, "prepared", "aborting")

Stop(p) == Stay(p, "running", "stopped")

(* An invocation is killed.  A QEMU whose start is killed keeps its record *)
(* live by its own PID, as if the start ran on.                            *)
Crash(p) ==
  /\ pc[p] \notin Ended \cup {"idle", "running"}
  /\ Stay(p, pc[p], "dead")

-----------------------------------------------------------------------------
(* reset and cleanup                                                       *)

Records(T) == {vms[n] : n \in {m \in T : vms[m] # NoVM}}

(* The plan made on the loaded state, which is acted on after the prompt.  *)
MakePlan(r, T, all, index0) ==
  /\ Goto(r, "idle", "confirm")
  /\ mayHave' = [mayHave EXCEPT ![r] = created]
  /\ cleanup' = [cleanup EXCEPT ![r] = all]
  /\ kept' = [kept EXCEPT ![r] = [n \in Names |-> IF n \in T THEN NoVM ELSE vms[n]]]
  /\ todo' = [todo EXCEPT ![r] = Records(T)]
  /\ byIndex0' = [byIndex0 EXCEPT ![r] = index0]
  /\ sibling' = [sibling EXCEPT ![r] = SiblingLive(T)]
  /\ unseen' = [unseen EXCEPT ![r] = Lost]
  /\ UNCHANGED <<host, state, config, at, spare, err, slave, failed, late, sharedBy>>

(* Reset refuses over a live target at once, cleanup after the prompt.     *)
ResetPlans(r) ==
  \E T \in {Names} \cup {{n} : n \in Names} :
    /\ \A n \in T : ~Live(n)
    /\ \E stale \in Probe(Stale(0)) : MakePlan(r, T, FALSE, ~created /\ stale)

CleanupPlans(r) ==
  \E stale \in Probe(Stale(0)) :
    MakePlan(r, Names, TRUE, IF created THEN Records(Names) = {} ELSE stale)

Proceed(r) ==
  /\ Stay(r, "confirm", "targets")
  /\ \A v \in todo[r] : ~VMIsLive(v)

(* Or a refusal over a live VM, or a file that cannot be removed.          *)
Decline(r) == Stay(r, "confirm", "refused")

(* Every record but the last is cleaned up for as though a sibling were    *)
(* live.                                                                   *)
CleanUpFor(r, v) ==
  /\ mayHave[r] /\ v \in todo[r]
  /\ BeginTeardown(r, "targets", v.index, sibling[r] \/ todo[r] # {v})
  /\ todo' = [todo EXCEPT ![r] = @ \ {v}]
  /\ UNCHANGED <<mayHave, cleanup, kept, byIndex0, failed>>

CleanUpIndex0(r) ==
  /\ byIndex0[r]
  /\ BeginTeardown(r, "targets", 0, FALSE)
  /\ byIndex0' = [byIndex0 EXCEPT ![r] = FALSE]
  /\ UNCHANGED <<mayHave, cleanup, kept, todo, failed>>

(* The memory of the network goes when the bridge went.                    *)
CleanedUp(r) ==
  /\ Goto(r, "tornDown", "targets")
  /\ failed' = [failed EXCEPT ![r] = @ \/ err[r]]
  /\ mayHave' = [mayHave EXCEPT ![r] = @ /\ (err[r] \/ spare[r])]
  /\ UNCHANGED <<host, state, config, tear, cleanup, kept, todo, byIndex0, hist>>

NetworkDone(r) == ~byIndex0[r] /\ (mayHave[r] => todo[r] = {})

(* Reset saves the state it loaded, cleanup removes it.                    *)
Save(r) ==
  /\ NetworkDone(r)
  /\ Goto(r, "targets", IF failed[r] THEN "warned" ELSE "complete")
  /\ vms' = kept[r] /\ created' = (mayHave[r] /\ ~cleanup[r])
  /\ UNCHANGED <<host, config, tear, plan, hist>>

SaveFails(r) == NetworkDone(r) /\ Stay(r, "targets", "refused")

-----------------------------------------------------------------------------
StartStep(p) ==
  \/ Load(p) \/ Reserve(p) \/ GiveUp(p) \/ PrepareStep(p)
  \/ RevertDown(p) \/ RevertTap(p) \/ RevertBridge(p)
  \/ Record(p) \/ RecordFails(p) \/ Release(p) \/ Stop(p)

RemoverStep(r) ==
  \/ ResetPlans(r) \/ CleanupPlans(r) \/ Proceed(r) \/ Decline(r)
  \/ CleanUpIndex0(r) \/ CleanedUp(r) \/ Save(r) \/ SaveFails(r)
  \/ \E v \in todo[r] : CleanUpFor(r, v)

Next ==
  \/ \E p \in Starts : StartStep(p)
  \/ \E r \in Removers : RemoverStep(r)
  \/ \E p \in Procs : TeardownStep(p) \/ Crash(p)
  \/ \E n \in ForeignNICs \cup {"uplink"} : NICAttaches(n)

Spec == Init /\ [][Next]_vars

-----------------------------------------------------------------------------
(* Properties                                                              *)

StartPCs == {"idle", "loaded", "preflight", "addBridge", "modBridge", "addUplink", "modUplink",
             "addTap", "modTap", "preCheck", "upBridge", "upUplink", "upCheck", "upTap",
             "tapCheck", "prepared", "running", "revert", "revertTap", "revertBridge",
             "failing", "aborting"}
TeardownPCs == {"delTapConn", "delUplinkConn", "delBridgeConn", "delTapLink", "delBridgeLink",
                "reconnect", "tornDown"}
RemoverPCs == {"idle", "confirm", "targets"}

(* Every variable has its type.                                            *)
TypeOK ==
  /\ host \in Host
  /\ vms \in [Names -> VM \cup {NoVM}]
  /\ created \in BOOLEAN
  /\ pc \in [Procs -> StartPCs \cup TeardownPCs \cup RemoverPCs \cup Ended]
  /\ name \in [Starts -> Names] /\ mode \in [Starts -> Modes]
  /\ at \in [Procs -> Indices]
  /\ sibling \in [Procs -> BOOLEAN] /\ spare \in [Procs -> BOOLEAN]
  /\ mayHave \in [Procs -> BOOLEAN]
  /\ cleanup \in [Removers -> BOOLEAN]
  /\ kept \in [Removers -> [Names -> VM \cup {NoVM}]]
  /\ todo \in [Removers -> SUBSET VM]
  /\ byIndex0 \in [Removers -> BOOLEAN]
  /\ err \in [Procs -> BOOLEAN] /\ failed \in [Removers -> BOOLEAN]
  /\ slave \in [Procs -> {"none", "found", "owed"}]
  /\ unseen \in [Procs -> SUBSET Starts]
  /\ late \subseteq Starts /\ sharedBy \subseteq Starts

(* The guest of a start is on the network, or about to be launched onto it.*)
Guest(q) == mode[q] # "user" /\ pc[q] \in {"tapCheck", "prepared", "running"}
Connected(q) == at[q] \in host.ports /\ host.link
Disconnects(q) == Guest(q) /\ Connected(q) /\ Guest(q)' /\ ~Connected(q)'
Moves(p) == pc'[p] # pc[p]

(* Who may take a guest off the network: an invocation that decided about  *)
(* siblings before that guest's start was there to be seen, a removal for  *)
(* an older record of the same index, and the stale cleanup of a removal,  *)
(* which asks nobody.                                                      *)
MayDisconnect(p, q) ==
  \/ q \in unseen[p]
  \/ p \in Removers /\ (at[p] = at[q] \/ (~mayHave[p] /\ ~spare[p]))

(* No other step, failure or revert of a start or a removal takes a guest  *)
(* off the network.                                                        *)
SiblingsKept ==
  [][\A q \in Starts : Disconnects(q) =>
       \E p \in Procs \ {q} : Moves(p) /\ MayDisconnect(p, q)]_vars

(* A NIC that became a port of the bridge before a shared start's last     *)
(* check never shares it with its guest.                                   *)
NoForeignNIC ==
  \A p \in Starts : (mode[p] = "shared" /\ pc[p] \in {"prepared", "running"} /\ p \notin late) =>
    host.nics \cap ForeignNICs = {}

(* A shared start whose preparation failed with no sibling leaves no       *)
(* ipv4.method shared of its own behind, unless removing that failed too.  *)
PreparationReverts ==
  \A p \in Starts : (pc[p] = "failing" /\ sharedBy = {p} /\ ~sibling[p] /\ ~err[p]) =>
    host.bridge # "shared"
=============================================================================
