------------------------ MODULE LinuxNetwork_proofs -------------------------
(***************************************************************************)
(* Proofs about LinuxNetwork, for any VMs, modes, starts, removals, index  *)
(* bound and NICs, and with probes that answer or may be blind.            *)
(***************************************************************************)
EXTENDS LinuxNetwork, TLAPS

PCs == StartPCs \cup TeardownPCs \cup RemoverPCs \cup Ended

-----------------------------------------------------------------------------
(* The root commands                                                       *)

(* What comes down stays a host, and takes no NIC in.                      *)
LEMMA Downs ==
  ASSUME NEW h \in Host, NEW i \in Indices
  PROVE  /\ {BridgeDown(h), TapDown(h, i), DeleteTap(h, i), DeleteUplink(h), DeleteBridge(h)} \subseteq Host
         /\ \A g \in {BridgeDown(h), TapDown(h, i), DeleteTap(h, i), DeleteUplink(h), DeleteBridge(h)} :
              /\ g.nics \subseteq h.nics
              /\ g.bridge \in {h.bridge, "none"}
<1>1. BridgeDown(h) \in Host /\ BridgeDown(h).nics = {} /\ BridgeDown(h).bridge = h.bridge
  BY DEF Host, BridgeDown
<1>2. TapDown(h, i) \in Host /\ TapDown(h, i).nics = h.nics /\ TapDown(h, i).bridge = h.bridge
  BY DEF Host, TapDown
<1>3. DeleteTap(h, i) \in Host /\ DeleteTap(h, i).nics = h.nics /\ DeleteTap(h, i).bridge = h.bridge
  BY <1>2 DEF Host, DeleteTap
<1>4. /\ DeleteUplink(h) \in Host /\ DeleteUplink(h).nics \subseteq h.nics
      /\ DeleteUplink(h).bridge = h.bridge
  BY DEF Host, DeleteUplink
<1>5. DeleteBridge(h) \in Host /\ DeleteBridge(h).nics = {} /\ DeleteBridge(h).bridge = "none"
  BY <1>1 DEF Host, DeleteBridge
<1> QED
  BY <1>1, <1>2, <1>3, <1>4, <1>5

(* What comes up takes no guest off, and no NIC in but the uplink.         *)
LEMMA Ups ==
  ASSUME NEW h \in Host, NEW i \in Indices
  PROVE  /\ {BridgeUp(h), TapUp(h, i), UplinkUp(h)} \subseteq Host
         /\ \A g \in {BridgeUp(h), TapUp(h, i), UplinkUp(h)} :
              /\ g.nics \subseteq h.nics \cup {"uplink"}
              /\ g.bridge = h.bridge
              /\ h.ports \subseteq g.ports
              /\ h.link => g.link
<1>1. /\ BridgeUp(h) \in Host /\ BridgeUp(h).nics = h.nics /\ BridgeUp(h).bridge = h.bridge
      /\ BridgeUp(h).ports = h.ports /\ BridgeUp(h).taps = h.taps
      /\ h.link => BridgeUp(h).link
  BY DEF Host, BridgeUp
<1>2. /\ TapUp(h, i) \in Host /\ TapUp(h, i).nics = h.nics /\ TapUp(h, i).bridge = h.bridge
      /\ h.ports \subseteq TapUp(h, i).ports
      /\ h.link => TapUp(h, i).link
  BY <1>1 DEF Host, TapUp
<1>3. /\ UplinkUp(h) \in Host /\ UplinkUp(h).nics \subseteq h.nics \cup {"uplink"}
      /\ UplinkUp(h).bridge = h.bridge /\ UplinkUp(h).ports = h.ports
      /\ h.link => UplinkUp(h).link
  BY <1>1 DEF Host, UplinkUp
<1> QED
  BY <1>1, <1>2, <1>3

LEMMA Probes ==
  ASSUME NEW there \in BOOLEAN, NEW seen \in Probe(there)
  PROVE  seen \in BOOLEAN /\ (seen => there)
BY DEF Probe

-----------------------------------------------------------------------------
(* Type correctness                                                        *)

(* A step that moves one invocation, and changes nothing else but the      *)
(* host.                                                                   *)
LEMMA TypeMoved ==
  ASSUME TypeOK, NEW p \in Procs, NEW to \in PCs, pc' = [pc EXCEPT ![p] = to],
         host' \in Host, UNCHANGED <<state, config, tear, plan, hist>>
  PROVE  TypeOK'
BY DEF TypeOK, PCs, state, config, tear, plan, hist

LEMMA TypeStayed ==
  ASSUME TypeOK, NEW p \in Procs, NEW from, NEW to \in PCs, Stay(p, from, to)
  PROVE  TypeOK'
BY TypeMoved DEF Stay, Goto, TypeOK

LEMMA TypeCommand ==
  ASSUME TypeOK, NEW p \in Procs, NEW from, NEW to \in PCs, NEW onError \in PCs, NEW h \in Host,
         Command(p, from, to, onError, h)
  PROVE  TypeOK'
BY TypeMoved DEF Command, Goto, TypeOK

LEMMA TypeBegun ==
  ASSUME TypeOK, NEW p \in Procs, NEW from, NEW i \in Indices, NEW sparing \in BOOLEAN,
         BeginTeardown(p, from, i, sparing),
         mayHave' = mayHave, cleanup' = cleanup, kept' = kept, failed' = failed,
         todo' \in [Removers -> SUBSET VM], byIndex0' \in [Removers -> BOOLEAN]
  PROVE  TypeOK'
BY DEF TypeOK, BeginTeardown, Goto, TeardownPCs, Probe, state, config, hist

LEMMA TypeDeleted ==
  ASSUME TypeOK, NEW p \in Procs, NEW from, NEW to \in PCs, NEW there, NEW h \in Host,
         Delete(p, from, to, there, h), slave' \in [Procs -> {"none", "found", "owed"}]
  PROVE  TypeOK'
<1>1. host' \in Host /\ err' \in [Procs -> BOOLEAN]
  BY DEF TypeOK, Delete
<1>2. /\ pc' = [pc EXCEPT ![p] = to]
      /\ UNCHANGED <<state, config, at, sibling, spare, plan, hist>>
  BY DEF Delete, Goto
<1> QED
  BY <1>1, <1>2 DEF TypeOK, PCs, state, config, plan, hist

LEMMA TypeTeardown ==
  ASSUME TypeOK, NEW p \in Procs, TeardownStep(p)
  PROVE  TypeOK'
<1> host \in Host /\ at[p] \in Indices /\ slave \in [Procs -> {"none", "found", "owed"}]
  BY DEF TypeOK
<1> {"delTapConn", "delUplinkConn", "delBridgeConn", "delTapLink", "delBridgeLink",
     "reconnect", "tornDown"} \subseteq PCs
  BY DEF PCs, TeardownPCs
<1>1. CASE DelTapConn(p)
  BY <1>1, TypeDeleted, Downs DEF DelTapConn
<1>2. CASE DelUplinkConn(p)
  BY <1>2, TypeDeleted, Downs DEF DelUplinkConn
<1>3. CASE DelBridgeConn(p)
  BY <1>3, TypeDeleted, Downs DEF DelBridgeConn
<1>4. CASE DelTapLink(p)
  BY <1>4, TypeDeleted, Downs DEF DelTapLink
<1>5. CASE DelBridgeLink(p)
  BY <1>5, TypeDeleted, Downs DEF DelBridgeLink
<1>6. CASE Reconnect(p)
  BY <1>6 DEF Reconnect, Goto, TypeOK, TeardownPCs, state, config, plan, hist
<1> QED
  BY <1>1, <1>2, <1>3, <1>4, <1>5, <1>6 DEF TeardownStep

LEMMA TypePrepare ==
  ASSUME TypeOK, NEW p \in Starts, PrepareStep(p)
  PROVE  TypeOK'
<1> p \in Procs
  BY DEF Procs
<1> host \in Host /\ at[p] \in Indices
  BY DEF TypeOK
<1> StartPCs \subseteq PCs /\ OnError(p) \in StartPCs
  BY DEF PCs, StartPCs, OnError
<1>1. CASE Preflight(p)
  <2>1. CASE BeginTeardown(p, "preflight", at[p], FALSE) /\ UNCHANGED plan
    BY <2>1, TypeBegun DEF plan, TypeOK
  <2>2. CASE \E to \in {"addBridge", "failing"} : Stay(p, "preflight", to)
    BY <2>2, TypeStayed DEF StartPCs
  <2> QED
    BY <1>1, <2>1, <2>2 DEF Preflight
<1>2. CASE TornDown(p)
  BY <1>2, TypeStayed DEF TornDown, StartPCs
<1>3. CASE AddBridge(p)
  <2>1. [host EXCEPT !.bridge = "auto", !.link = @ \/ mode[p] = "bridged"] \in Host
    BY DEF Host
  <2> QED
    BY <1>3, <2>1, TypeStayed, TypeCommand DEF AddBridge, StartPCs
<1>4. CASE ModBridge(p)
  <2>1. CASE Stay(p, "modBridge", "failing")
    BY <2>1, TypeStayed DEF StartPCs
  <2>2. CASE ~Stay(p, "modBridge", "failing")
    <3>1. host' \in Host
      BY <1>4, <2>2 DEF ModBridge, Host
    <3>2. pc' \in [Procs -> PCs] /\ sharedBy' \subseteq Starts
      BY <1>4, <2>2 DEF ModBridge, Goto, TypeOK, PCs, StartPCs
    <3> QED
      BY <1>4, <2>2, <3>1, <3>2 DEF ModBridge, TypeOK, PCs, state, config, tear, plan
  <2> QED
    BY <2>1, <2>2
<1>5. CASE AddUplink(p)
  <2>1. UplinkUp([host EXCEPT !.uplink = TRUE]) \in Host
    <3>1. [host EXCEPT !.uplink = TRUE] \in Host
      BY DEF Host
    <3> QED
      BY <3>1, Ups
  <2> QED
    BY <1>5, <2>1, TypeStayed, TypeCommand DEF AddUplink, StartPCs
<1>6. CASE ModUplink(p)
  BY <1>6, TypeStayed DEF ModUplink, StartPCs
<1>7. CASE AddTap(p)
  <2> DEFINE added == [host EXCEPT !.taps = @ \cup {at[p]}]
  <2>1. added \in Host
    BY DEF Host
  <2>2. (IF mode[p] = "bridged" THEN TapUp(added, at[p]) ELSE added) \in Host
    BY <2>1, Ups
  <2> QED
    BY <1>7, <2>2, TypeStayed, TypeCommand DEF AddTap, StartPCs
<1>8. CASE ModTap(p)
  BY <1>8, TypeStayed DEF ModTap, StartPCs
<1>9. CASE PreCheck(p)
  BY <1>9, TypeStayed DEF PreCheck, StartPCs
<1>10. CASE UpBridge(p)
  BY <1>10, Ups, TypeMoved DEF UpBridge, Goto, StartPCs
<1>11. CASE UpUplink(p)
  BY <1>11, Ups, TypeMoved DEF UpUplink, Goto, StartPCs
<1>12. CASE UpCheck(p)
  BY <1>12, TypeStayed DEF UpCheck, StartPCs
<1>13. CASE UpTap(p)
  <2>1. host' \in Host
    BY <1>13, Ups DEF UpTap
  <2>2. pc' \in [Procs -> PCs]
    <3>1. \E to \in PCs : pc' = [pc EXCEPT ![p] = to]
      BY <1>13 DEF UpTap, Goto, StartPCs
    <3> QED
      BY <3>1 DEF TypeOK, PCs
  <2>3. mayHave' \in [Procs -> BOOLEAN]
    BY <1>13 DEF UpTap, Note, TypeOK
  <2> QED
    BY <1>13, <2>1, <2>2, <2>3 DEF UpTap, TypeOK, PCs, state, config, tear, hist
<1>14. CASE TapCheck(p)
  BY <1>14, TypeStayed DEF TapCheck, Goto, Note, TypeOK, StartPCs, state, config, tear, hist
<1> QED
  BY <1>1, <1>2, <1>3, <1>4, <1>5, <1>6, <1>7, <1>8, <1>9, <1>10, <1>11, <1>12, <1>13, <1>14
  DEF PrepareStep

LEMMA TypeReserve ==
  ASSUME TypeOK, NEW p \in Starts, Reserve(p)
  PROVE  TypeOK'
<1> p \in Procs
  BY DEF Procs
<1>1. /\ vms' \in [Names -> VM \cup {NoVM}]
      /\ at' \in [Procs -> Indices]
  <2>1. PICK i \in FreeIndices :
          /\ vms' = [vms EXCEPT ![name[p]] = [index |-> i, starter |-> p]]
          /\ at' = [at EXCEPT ![p] = i]
    BY DEF Reserve
  <2>2. i \in Indices /\ [index |-> i, starter |-> p] \in VM
    BY DEF FreeIndices, VM
  <2> QED
    BY <2>1, <2>2 DEF TypeOK
<1>2. pc' \in [Procs -> PCs]
  <2>1. \E to \in {"prepared", "preflight"} : pc' = [pc EXCEPT ![p] = to]
    BY DEF Reserve, Goto
  <2> QED
    BY <2>1 DEF TypeOK, PCs, StartPCs
<1>3. sibling' \in [Procs -> BOOLEAN]
  BY DEF Reserve, TypeOK, SiblingLive
<1>4. unseen' \in [Procs -> SUBSET Starts]
  <2>1. Lost \subseteq Starts
    BY DEF Lost
  <2>2. unseen' = [q \in Procs |-> IF q = p THEN Lost
                                  ELSE IF q \in Decided THEN unseen[q] \cup {p} ELSE unseen[q]]
    BY DEF Reserve
  <2> QED
    BY <2>1, <2>2 DEF TypeOK
<1>5. UNCHANGED <<host, created, config, spare, err, slave, plan, late, sharedBy>>
  BY DEF Reserve
<1> QED
  BY <1>1, <1>2, <1>3, <1>4, <1>5 DEF TypeOK, PCs, config, plan

LEMMA TypeStart ==
  ASSUME TypeOK, NEW p \in Starts, StartStep(p)
  PROVE  TypeOK'
<1> p \in Procs
  BY DEF Procs
<1> /\ host \in Host /\ at[p] \in Indices
    /\ {host, BridgeDown(host), DeleteTap(host, at[p]), DeleteBridge(host)} \subseteq Host
  BY Downs DEF TypeOK
<1> StartPCs \subseteq PCs /\ {"failed", "refused", "stopped", "dead"} \subseteq PCs
  BY DEF PCs, Ended
<1>1. CASE Load(p)
  BY <1>1 DEF Load, Goto, TypeOK, StartPCs, state, config, tear, hist
<1>2. CASE GiveUp(p)
  BY <1>2, TypeStayed DEF GiveUp, Stay
<1>3. CASE RevertDown(p)
  BY <1>3 DEF RevertDown, Goto, TypeOK, StartPCs, state, config, plan, hist
<1>4. CASE RevertTap(p)
  BY <1>4, TypeMoved DEF RevertTap, Goto, StartPCs
<1>5. CASE RevertBridge(p)
  BY <1>5 DEF RevertBridge, Goto, TypeOK, StartPCs, state, config, plan, hist
<1>6. CASE Record(p)
  <2>1. name[p] \in Names /\ [index |-> at[p], starter |-> p] \in VM
    BY DEF TypeOK, VM
  <2>2. vms' \in [Names -> VM \cup {NoVM}] /\ created' \in BOOLEAN /\ pc' \in [Procs -> PCs]
    BY <1>6, <2>1 DEF Record, Goto, TypeOK, PCs, StartPCs
  <2> QED
    BY <1>6, <2>2 DEF Record, TypeOK, PCs, config, tear, plan, hist
<1>7. CASE Release(p)
  <2>1. vms' \in [Names -> VM \cup {NoVM}] /\ pc' \in [Procs -> PCs]
    BY <1>7 DEF Release, Goto, TypeOK, PCs, Ended
  <2> QED
    BY <1>7, <2>1 DEF Release, TypeOK, PCs, config, tear, plan, hist
<1>8. CASE RecordFails(p) \/ Stop(p)
  BY <1>8, TypeStayed DEF RecordFails, Stop, StartPCs
<1> QED
  BY <1>1, <1>2, <1>3, <1>4, <1>5, <1>6, <1>7, <1>8, TypeReserve, TypePrepare DEF StartStep

LEMMA TypePlanned ==
  ASSUME TypeOK, NEW r \in Removers, NEW T \in SUBSET Names, NEW all \in BOOLEAN,
         NEW index0 \in BOOLEAN, MakePlan(r, T, all, index0)
  PROVE  TypeOK'
<1> r \in Procs
  BY DEF Procs
<1>1. Records(T) \subseteq VM /\ Lost \subseteq Starts /\ SiblingLive(T) \in BOOLEAN
  BY DEF Records, Lost, SiblingLive, TypeOK
<1>2. [n \in Names |-> IF n \in T THEN NoVM ELSE vms[n]] \in [Names -> VM \cup {NoVM}]
  BY DEF TypeOK
<1>3. /\ pc' \in [Procs -> PCs] /\ mayHave' \in [Procs -> BOOLEAN]
      /\ cleanup' \in [Removers -> BOOLEAN] /\ byIndex0' \in [Removers -> BOOLEAN]
  BY DEF MakePlan, Goto, TypeOK, PCs, RemoverPCs
<1>4. /\ sibling' \in [Procs -> BOOLEAN] /\ unseen' \in [Procs -> SUBSET Starts]
      /\ todo' \in [Removers -> SUBSET VM]
  BY <1>1 DEF MakePlan, TypeOK
<1>5. kept' \in [Removers -> [Names -> VM \cup {NoVM}]]
  BY <1>2 DEF MakePlan, TypeOK
<1> QED
  BY <1>3, <1>4, <1>5 DEF MakePlan, TypeOK, PCs, state, config

LEMMA TypeRemover ==
  ASSUME TypeOK, NEW r \in Removers, RemoverStep(r)
  PROVE  TypeOK'
<1> r \in Procs
  BY DEF Procs
<1> {"targets", "refused", "complete", "warned"} \subseteq PCs
  BY DEF PCs, RemoverPCs, Ended
<1>1. CASE ResetPlans(r)
  <2>1. PICK T \in SUBSET Names, stale \in BOOLEAN : MakePlan(r, T, FALSE, ~created /\ stale)
    BY <1>1 DEF ResetPlans, Probe, Stale
  <2> QED
    BY <2>1, TypePlanned
<1>2. CASE CleanupPlans(r)
  <2>1. PICK stale \in Probe(Stale(0)) :
          MakePlan(r, Names, TRUE, IF created THEN Records(Names) = {} ELSE stale)
    BY <1>2 DEF CleanupPlans
  <2>2. stale \in BOOLEAN
    BY DEF Probe, Stale
  <2> QED
    BY <2>1, <2>2, TypePlanned
<1>3. CASE Proceed(r) \/ Decline(r) \/ SaveFails(r)
  BY <1>3, TypeStayed DEF Proceed, Decline, SaveFails
<1>4. CASE CleanUpIndex0(r)
  <2>1. 0 \in Indices
    BY IndexAssumption DEF Indices
  <2> QED
    BY <1>4, <2>1, TypeBegun DEF CleanUpIndex0, TypeOK
<1>5. CASE CleanedUp(r)
  BY <1>5 DEF CleanedUp, Goto, TypeOK, RemoverPCs, state, config, tear, hist
<1>6. CASE Save(r)
  <2>1. vms' \in [Names -> VM \cup {NoVM}] /\ created' \in BOOLEAN
    BY <1>6 DEF Save, TypeOK
  <2>2. pc' \in [Procs -> PCs]
    BY <1>6 DEF Save, Goto, TypeOK, PCs, Ended
  <2> QED
    BY <1>6, <2>1, <2>2 DEF Save, TypeOK, PCs, config, tear, plan, hist
<1>7. CASE \E v \in todo[r] : CleanUpFor(r, v)
  <2>1. PICK v \in todo[r] : CleanUpFor(r, v)
    BY <1>7
  <2>2. v.index \in Indices
    BY DEF TypeOK, VM
  <2>3. (sibling[r] \/ todo[r] # {v}) \in BOOLEAN
    BY DEF TypeOK
  <2>4. todo' \in [Removers -> SUBSET VM]
    BY <2>1 DEF CleanUpFor, TypeOK
  <2>5. BeginTeardown(r, "targets", v.index, sibling[r] \/ todo[r] # {v})
    BY <2>1 DEF CleanUpFor
  <2> QED
    BY <2>1, <2>2, <2>3, <2>4, <2>5, TypeBegun DEF CleanUpFor, TypeOK
<1> QED
  BY <1>1, <1>2, <1>3, <1>4, <1>5, <1>6, <1>7 DEF RemoverStep

LEMMA TypeNext == TypeOK /\ [Next]_vars => TypeOK'
<1> SUFFICES ASSUME TypeOK, [Next]_vars PROVE TypeOK'
  OBVIOUS
<1>1. ASSUME NEW p \in Procs, Crash(p) PROVE TypeOK'
  BY <1>1, TypeStayed DEF Crash, PCs, Ended
<1>2. ASSUME NEW n \in ForeignNICs \cup {"uplink"}, NICAttaches(n) PROVE TypeOK'
  <2>1. host' \in Host
    BY <1>2 DEF NICAttaches, TypeOK, Host
  <2> QED
    BY <1>2, <2>1 DEF NICAttaches, TypeOK, state, config, tear, plan
<1>3. CASE UNCHANGED vars
  BY <1>3 DEF TypeOK, vars, state, config, tear, plan, hist
<1>4. CASE \E p \in Starts : StartStep(p)
  BY <1>4, TypeStart
<1>5. CASE \E r \in Removers : RemoverStep(r)
  BY <1>5, TypeRemover
<1>6. CASE \E p \in Procs : TeardownStep(p)
  BY <1>6, TypeTeardown
<1> QED
  BY <1>1, <1>2, <1>3, <1>4, <1>5, <1>6 DEF Next

(* Every variable of the network has its type.                             *)
THEOREM TypeCorrect == Spec => []TypeOK
<1>1. Init => TypeOK
  <2> SUFFICES ASSUME Init PROVE TypeOK
    OBVIOUS
  <2>1. 0 \in Indices
    BY IndexAssumption DEF Indices
  <2>2. host \in Host
    BY DEF Init, Host
  <2>3. kept \in [Removers -> [Names -> VM \cup {NoVM}]] /\ todo \in [Removers -> SUBSET VM]
    BY DEF Init
  <2> QED
    BY <2>1, <2>2, <2>3 DEF Init, TypeOK, StartPCs
<1> QED
  BY <1>1, TypeNext, PTL DEF Spec

-----------------------------------------------------------------------------
(* What a step does to the host                                            *)

(* It adds to it, or makes no difference;                                  *)
Rises ==
  /\ host'.nics \subseteq host.nics \cup {"uplink"}
  /\ host'.bridge \in {host.bridge, "auto"}
  /\ host.ports \subseteq host'.ports
  /\ host.link => host'.link
  /\ UNCHANGED sharedBy

(* writes ipv4.method shared;                                              *)
WritesShared(p) ==
  /\ mode[p] = "shared"
  /\ Goto(p, "modBridge", "addTap")
  /\ host' = [host EXCEPT !.bridge = "shared"]
  /\ sharedBy' = {p}

(* takes its own tap down;                                                 *)
LowersTap(p) ==
  /\ pc[p] \in {"delTapConn", "delTapLink", "revertTap"} /\ pc'[p] # pc[p]
  /\ host' \in {TapDown(host, at[p]), DeleteTap(host, at[p])}
  /\ UNCHANGED sharedBy

(* takes the uplink off the bridge;                                        *)
LowersUplink(p) ==
  /\ pc[p] = "delUplinkConn" /\ pc'[p] # pc[p]
  /\ host' = DeleteUplink(host)
  /\ UNCHANGED sharedBy

(* or takes the bridge down, which the revert of a start with a sibling    *)
(* does not.                                                               *)
LowersBridge(p) ==
  /\ \/ pc[p] \in {"delBridgeConn", "delBridgeLink", "revertBridge"}
     \/ pc[p] = "revert" /\ ~sibling[p]
  /\ pc'[p] # pc[p]
  /\ host' \in {BridgeDown(host), DeleteBridge(host)}
  /\ UNCHANGED sharedBy

HostStep(p) ==
  \/ Rises \/ WritesShared(p) \/ LowersTap(p) \/ LowersUplink(p) \/ LowersBridge(p)

LEMMA SameHost ==
  ASSUME host' = host, UNCHANGED sharedBy
  PROVE  Rises
BY DEF Rises

LEMMA StayRises ==
  ASSUME NEW p, NEW from, NEW to, Stay(p, from, to)
  PROVE  Rises
BY SameHost DEF Stay, hist

LEMMA TeardownHost ==
  ASSUME TypeOK, NEW p \in Procs, TeardownStep(p)
  PROVE  HostStep(p)
<1>1. ASSUME NEW from, NEW to, NEW there, NEW h, Delete(p, from, to, there, h)
      PROVE  /\ pc[p] = from /\ pc'[p] = to
             /\ UNCHANGED sharedBy
             /\ host' = host \/ host' = h
  BY <1>1 DEF Delete, Goto, hist, TypeOK
<1>2. CASE DelTapConn(p)
  <2>1. /\ pc[p] = "delTapConn" /\ pc'[p] \in {"delTapLink", "delUplinkConn"}
        /\ UNCHANGED sharedBy
        /\ host' = host \/ host' = DeleteTap(host, at[p])
    BY <1>2, <1>1 DEF DelTapConn
  <2> QED
    BY <2>1, SameHost DEF HostStep, LowersTap
<1>3. CASE DelUplinkConn(p)
  <2>1. /\ pc[p] = "delUplinkConn" /\ pc'[p] = "delBridgeConn"
        /\ UNCHANGED sharedBy
        /\ host' = host \/ host' = DeleteUplink(host)
    BY <1>3, <1>1 DEF DelUplinkConn
  <2> QED
    BY <2>1, SameHost DEF HostStep, LowersUplink
<1>4. CASE DelBridgeConn(p)
  <2>1. /\ pc[p] = "delBridgeConn" /\ pc'[p] = "delTapLink"
        /\ UNCHANGED sharedBy
        /\ host' = host \/ host' = DeleteBridge(host)
    BY <1>4, <1>1 DEF DelBridgeConn
  <2> QED
    BY <2>1, SameHost DEF HostStep, LowersBridge
<1>5. CASE DelTapLink(p)
  <2>1. /\ pc[p] = "delTapLink" /\ pc'[p] \in {"tornDown", "delBridgeLink"}
        /\ UNCHANGED sharedBy
        /\ host' = host \/ host' = TapDown(host, at[p])
    BY <1>5, <1>1 DEF DelTapLink
  <2> QED
    BY <2>1, SameHost DEF HostStep, LowersTap
<1>6. CASE DelBridgeLink(p)
  <2>1. /\ pc[p] = "delBridgeLink" /\ pc'[p] = "reconnect"
        /\ UNCHANGED sharedBy
        /\ host' = host \/ host' = BridgeDown(host)
    BY <1>6, <1>1 DEF DelBridgeLink
  <2> QED
    BY <2>1, SameHost DEF HostStep, LowersBridge
<1>7. CASE Reconnect(p)
  BY <1>7, SameHost DEF Reconnect, HostStep, hist
<1> QED
  BY <1>2, <1>3, <1>4, <1>5, <1>6, <1>7 DEF TeardownStep

LEMMA PrepareHost ==
  ASSUME TypeOK, NEW p \in Starts, PrepareStep(p)
  PROVE  HostStep(p)
<1> p \in Procs
  BY DEF Procs
<1> host \in Host /\ at[p] \in Indices
  BY DEF TypeOK
<1>1. CASE Preflight(p)
  BY <1>1, SameHost, StayRises DEF Preflight, BeginTeardown, HostStep, hist
<1>2. CASE TornDown(p) \/ ModUplink(p) \/ ModTap(p) \/ PreCheck(p) \/ UpCheck(p)
  BY <1>2, StayRises DEF TornDown, ModUplink, ModTap, PreCheck, UpCheck, HostStep
<1>3. CASE AddBridge(p)
  BY <1>3, StayRises, SameHost DEF AddBridge, Command, HostStep, Rises, Host, hist
<1>4. CASE ModBridge(p)
  <2>1. CASE Stay(p, "modBridge", "failing")
    BY <2>1, StayRises DEF HostStep
  <2>2. CASE ~Stay(p, "modBridge", "failing") /\ mode[p] = "shared"
    BY <1>4, <2>2 DEF ModBridge, HostStep, WritesShared
  <2>3. CASE ~Stay(p, "modBridge", "failing") /\ mode[p] # "shared"
    <3>1. host' = [host EXCEPT !.bridge = "auto"] /\ UNCHANGED sharedBy
      BY <1>4, <2>3 DEF ModBridge
    <3> QED
      BY <3>1 DEF HostStep, Rises, Host
  <2> QED
    BY <2>1, <2>2, <2>3
<1>5. CASE AddUplink(p)
  <2> DEFINE g == [host EXCEPT !.uplink = TRUE]
  <2>1. g \in Host /\ g.nics = host.nics /\ g.bridge = host.bridge
        /\ g.ports = host.ports /\ g.link = host.link
    BY DEF Host
  <2>2. /\ UplinkUp(g).nics \subseteq host.nics \cup {"uplink"}
        /\ UplinkUp(g).bridge = host.bridge /\ host.ports \subseteq UplinkUp(g).ports
        /\ host.link => UplinkUp(g).link
    BY <2>1, Ups
  <2>3. CASE Stay(p, "addUplink", "modUplink")
    BY <2>3, StayRises DEF HostStep
  <2>4. CASE Command(p, "addUplink", "modUplink", "failing", UplinkUp(g))
    BY <2>4, <2>2, SameHost DEF Command, HostStep, Rises, hist
  <2> QED
    BY <1>5, <2>3, <2>4 DEF AddUplink
<1>6. CASE AddTap(p)
  <2> DEFINE g == [host EXCEPT !.taps = @ \cup {at[p]}]
             h == IF mode[p] = "bridged" THEN TapUp(g, at[p]) ELSE g
  <2>1. g \in Host /\ g.nics = host.nics /\ g.bridge = host.bridge
        /\ g.ports = host.ports /\ g.link = host.link
    BY DEF Host
  <2>2. /\ h.nics \subseteq host.nics \cup {"uplink"}
        /\ h.bridge = host.bridge /\ host.ports \subseteq h.ports
        /\ host.link => h.link
    BY <2>1, Ups
  <2>3. CASE Stay(p, "addTap", "modTap")
    BY <2>3, StayRises DEF HostStep
  <2>4. CASE Command(p, "addTap", "modTap", OnError(p), h)
    BY <2>4, <2>2, SameHost DEF Command, HostStep, Rises, hist
  <2> QED
    BY <1>6, <2>3, <2>4 DEF AddTap
<1>7. CASE UpBridge(p) \/ UpUplink(p) \/ UpTap(p)
  <2>1. host' \in {host, BridgeUp(host), UplinkUp(host), TapUp(host, at[p])} /\ UNCHANGED sharedBy
    BY <1>7 DEF UpBridge, UpUplink, UpTap, hist
  <2>2. Rises
    BY <2>1, Ups DEF Rises
  <2> QED
    BY <2>2 DEF HostStep
<1>8. CASE TapCheck(p)
  BY <1>8, StayRises, SameHost DEF TapCheck, HostStep, hist
<1> QED
  BY <1>1, <1>2, <1>3, <1>4, <1>5, <1>6, <1>7, <1>8 DEF PrepareStep

LEMMA StartHost ==
  ASSUME TypeOK, NEW p \in Starts, StartStep(p)
  PROVE  HostStep(p)
<1> p \in Procs
  BY DEF Procs
<1>1. CASE RevertDown(p)
  BY <1>1, SameHost DEF RevertDown, Goto, HostStep, LowersBridge, TypeOK, hist
<1>2. CASE RevertTap(p)
  BY <1>2, SameHost DEF RevertTap, Goto, HostStep, LowersTap, TypeOK, hist
<1>3. CASE RevertBridge(p)
  BY <1>3, SameHost DEF RevertBridge, Goto, HostStep, LowersBridge, TypeOK, hist
<1>4. CASE Load(p) \/ Reserve(p) \/ GiveUp(p) \/ Record(p) \/ Release(p)
  BY <1>4, SameHost DEF Load, Reserve, GiveUp, Record, Release, HostStep, hist
<1>5. CASE RecordFails(p) \/ Stop(p)
  BY <1>5, StayRises DEF RecordFails, Stop, HostStep
<1> QED
  BY <1>1, <1>2, <1>3, <1>4, <1>5, PrepareHost DEF StartStep

LEMMA RemoverHost ==
  ASSUME NEW r \in Removers, RemoverStep(r)
  PROVE  Rises
<1>1. CASE ResetPlans(r) \/ CleanupPlans(r)
  BY <1>1, SameHost DEF ResetPlans, CleanupPlans, MakePlan
<1>2. CASE Proceed(r) \/ Decline(r) \/ SaveFails(r)
  BY <1>2, StayRises DEF Proceed, Decline, SaveFails
<1>3. CASE CleanUpIndex0(r) \/ \E v \in todo[r] : CleanUpFor(r, v)
  BY <1>3, SameHost DEF CleanUpIndex0, CleanUpFor, BeginTeardown, hist
<1>4. CASE CleanedUp(r) \/ Save(r)
  BY <1>4, SameHost DEF CleanedUp, Save, hist
<1> QED
  BY <1>1, <1>2, <1>3, <1>4 DEF RemoverStep

(* No step does anything else to it, but a NIC that attaches by itself.    *)
LEMMA HostSteps ==
  ASSUME TypeOK, [Next]_vars
  PROVE  \/ \E n \in ForeignNICs \cup {"uplink"} : NICAttaches(n)
         \/ \E p \in Procs : HostStep(p)
         \/ Rises
<1>1. CASE \E p \in Starts : StartStep(p)
  BY <1>1, StartHost DEF Procs
<1>2. CASE \E r \in Removers : RemoverStep(r)
  BY <1>2, RemoverHost
<1>3. CASE \E p \in Procs : TeardownStep(p)
  BY <1>3, TeardownHost
<1>4. CASE \E p \in Procs : Crash(p)
  BY <1>4, StayRises DEF Crash
<1>5. CASE UNCHANGED vars
  BY <1>5, SameHost DEF vars, hist
<1> QED
  BY <1>1, <1>2, <1>3, <1>4, <1>5 DEF Next

-----------------------------------------------------------------------------
(* A step moves one invocation, and leaves the others where they were.     *)

Step(p) ==
  \/ p \in Starts /\ StartStep(p)
  \/ p \in Removers /\ RemoverStep(p)
  \/ TeardownStep(p) \/ Crash(p)

Alone(p) ==
  /\ UNCHANGED config /\ UNCHANGED late
  /\ \A q \in Procs \ {p} :
       /\ pc'[q] = pc[q] /\ at'[q] = at[q] /\ sibling'[q] = sibling[q]
       /\ spare'[q] = spare[q] /\ mayHave'[q] = mayHave[q] /\ err'[q] = err[q]
  /\ \A r \in Removers \ {p} : todo'[r] = todo[r] /\ byIndex0'[r] = byIndex0[r]

LEMMA StayAlone ==
  ASSUME TypeOK, NEW p \in Procs, NEW from, NEW to, Stay(p, from, to)
  PROVE  Alone(p)
BY DEF Stay, Goto, Alone, TypeOK, hist, tear, plan

LEMMA StepAlone ==
  ASSUME TypeOK, NEW p \in Procs, Step(p)
  PROVE  Alone(p)
<1>1. ASSUME NEW from, NEW to, NEW onError, NEW h, Command(p, from, to, onError, h)
      PROVE  Alone(p)
  BY <1>1 DEF Command, Goto, Alone, TypeOK, hist, tear, plan
<1>2. ASSUME NEW from, NEW i, NEW sparing, BeginTeardown(p, from, i, sparing),
             mayHave' = mayHave,
             \A r \in Removers \ {p} : todo'[r] = todo[r] /\ byIndex0'[r] = byIndex0[r]
      PROVE  Alone(p)
  BY <1>2 DEF BeginTeardown, Goto, Alone, TypeOK, hist
<1>3. CASE p \in Starts /\ PrepareStep(p)
  <2>1. CASE Preflight(p)
    BY <2>1, <1>2, StayAlone DEF Preflight, plan
  <2>2. CASE \/ TornDown(p) \/ ModUplink(p) \/ ModTap(p) \/ PreCheck(p) \/ UpCheck(p)
             \/ AddBridge(p) \/ AddUplink(p) \/ AddTap(p)
    BY <2>2, <1>1, StayAlone
    DEF TornDown, ModUplink, ModTap, PreCheck, UpCheck, AddBridge, AddUplink, AddTap
  <2>3. CASE ModBridge(p)
    <3>1. CASE Stay(p, "modBridge", "failing")
      BY <3>1, StayAlone
    <3>2. CASE ~Stay(p, "modBridge", "failing")
      BY <2>3, <3>2 DEF ModBridge, Goto, Alone, TypeOK, hist, tear, plan
    <3> QED
      BY <3>1, <3>2
  <2>4. CASE UpBridge(p) \/ UpUplink(p)
    BY <2>4 DEF UpBridge, UpUplink, Goto, Alone, TypeOK, hist, tear, plan
  <2>5. CASE UpTap(p)
    BY <2>5 DEF UpTap, Goto, Note, Alone, TypeOK, hist, tear
  <2>6. CASE TapCheck(p)
    BY <2>6, StayAlone DEF TapCheck, Goto, Note, Alone, TypeOK, hist, tear
  <2> QED
    BY <1>3, <2>1, <2>2, <2>3, <2>4, <2>5, <2>6 DEF PrepareStep
<1>4. CASE p \in Starts /\ StartStep(p) /\ ~PrepareStep(p)
  <2>1. CASE Load(p)
    BY <2>1 DEF Load, Goto, Alone, TypeOK, hist, tear
  <2>2. CASE Reserve(p)
    BY <2>2 DEF Reserve, Goto, Alone, TypeOK, plan
  <2>3. CASE GiveUp(p) \/ RecordFails(p) \/ Stop(p)
    BY <2>3, StayAlone DEF GiveUp, RecordFails, Stop, Stay
  <2>4. CASE RevertDown(p) \/ RevertTap(p) \/ RevertBridge(p)
    BY <2>4 DEF RevertDown, RevertTap, RevertBridge, Goto, Alone, TypeOK, hist, plan, tear
  <2>5. CASE Record(p) \/ Release(p)
    BY <2>5 DEF Record, Release, Goto, Alone, TypeOK, hist, plan, tear
  <2> QED
    BY <1>4, <2>1, <2>2, <2>3, <2>4, <2>5 DEF StartStep
<1>5. CASE p \in Removers /\ RemoverStep(p)
  <2>1. CASE ResetPlans(p) \/ CleanupPlans(p)
    <3>1. PICK T, all, index0 : MakePlan(p, T, all, index0)
      BY <2>1 DEF ResetPlans, CleanupPlans
    <3> QED
      BY <3>1 DEF MakePlan, Goto, Alone, TypeOK, hist
  <2>2. CASE Proceed(p) \/ Decline(p) \/ SaveFails(p)
    BY <2>2, StayAlone DEF Proceed, Decline, SaveFails
  <2>3. CASE CleanUpIndex0(p)
    BY <2>3, <1>2 DEF CleanUpIndex0, TypeOK
  <2>4. CASE \E v \in todo[p] : CleanUpFor(p, v)
    BY <2>4, <1>2 DEF CleanUpFor, TypeOK
  <2>5. CASE CleanedUp(p) \/ Save(p)
    BY <2>5 DEF CleanedUp, Save, Goto, Alone, TypeOK, hist, plan, tear
  <2> QED
    BY <1>5, <2>1, <2>2, <2>3, <2>4, <2>5 DEF RemoverStep
<1>6. CASE TeardownStep(p)
  <2>1. CASE Reconnect(p)
    BY <2>1 DEF Reconnect, Goto, Alone, TypeOK, hist, plan
  <2>2. ASSUME NEW from, NEW to, NEW there, NEW h, Delete(p, from, to, there, h)
        PROVE  Alone(p)
    <3>1. \A q \in Procs \ {p} : err'[q] = err[q]
      BY <2>2 DEF Delete, TypeOK
    <3> QED
      BY <2>2, <3>1 DEF Delete, Goto, Alone, TypeOK, hist, plan
  <2> QED
    BY <1>6, <2>1, <2>2
    DEF TeardownStep, DelTapConn, DelUplinkConn, DelBridgeConn, DelTapLink, DelBridgeLink
<1>7. CASE Crash(p)
  BY <1>7, StayAlone DEF Crash
<1> QED
  BY <1>3, <1>4, <1>5, <1>6, <1>7 DEF Step

LEMMA Steps ==
  ASSUME TypeOK, [Next]_vars
  PROVE  \/ \E n \in ForeignNICs \cup {"uplink"} : NICAttaches(n)
         \/ UNCHANGED vars
         \/ \E p \in Procs : Step(p)
BY DEF Next, Step, Procs

-----------------------------------------------------------------------------
(* The ports of the bridge, and the method of a failed start               *)

(* Where a shared start is once it wrote the method.                       *)
Written == {"addTap", "modTap", "preCheck", "upBridge", "upCheck", "upTap", "tapCheck",
            "prepared", "running", "revert", "revertTap", "revertBridge",
            "failing", "aborting"} \cup Ended

(* A step of a start to the end of its preparation follows a check of the  *)
(* ports, it stays past its write, and it fails without a sibling only     *)
(* once the bridge is deleted.                                             *)
SharedStep(p) ==
  mode[p] = "shared" =>
    /\ pc'[p] \in {"prepared", "running"} =>
         pc[p] \in {"prepared", "running"} \/ (OnlyTaps /\ host' = host)
    /\ pc[p] \in Written => pc'[p] \in Written
    /\ (pc[p] \in Written /\ pc'[p] = "failing" /\ ~sibling'[p] /\ ~err'[p]) =>
         host'.bridge # "shared"

LEMMA StartShared ==
  ASSUME TypeOK, NEW p \in Starts, Step(p)
  PROVE  SharedStep(p)
<1> SUFFICES ASSUME mode[p] = "shared" PROVE SharedStep(p)
  BY DEF SharedStep
<1> p \in Procs
  BY DEF Procs
<1> host \in Host /\ at[p] \in Indices /\ OnError(p) = "revert"
  BY DEF TypeOK, OnError
<1>0. ASSUME NEW from, NEW to, Goto(p, from, to)
      PROVE  pc[p] = from /\ pc'[p] = to
  BY <1>0 DEF Goto, TypeOK
<1>1. ASSUME NEW from, NEW to, Goto(p, from, to),
             to \notin {"prepared", "running", "failing"} \/ from \notin Written,
             to \notin {"prepared", "running"},
             from \in Written => to \in Written
      PROVE  SharedStep(p)
  BY <1>0, <1>1 DEF SharedStep
<1>2. CASE PrepareStep(p)
  <2>1. CASE Preflight(p)
    BY <2>1, <1>1 DEF Preflight, BeginTeardown, Stay, Written, Ended
  <2>2. CASE TornDown(p) \/ AddBridge(p) \/ AddUplink(p) \/ ModUplink(p) \/ UpUplink(p)
    BY <2>2, <1>1
    DEF TornDown, AddBridge, AddUplink, ModUplink, UpUplink, Stay, Command, Written, Ended
  <2>3. CASE ModBridge(p)
    BY <2>3, <1>1 DEF ModBridge, Stay, Written, Ended
  <2>4. CASE AddTap(p)
    BY <2>4, <1>1 DEF AddTap, Stay, Command, Written
  <2>5. CASE ModTap(p) \/ PreCheck(p) \/ UpBridge(p) \/ UpCheck(p)
    BY <2>5, <1>1 DEF ModTap, PreCheck, UpBridge, UpCheck, Stay, Written
  <2>6. CASE UpTap(p)
    BY <2>6, <1>1 DEF UpTap, Written
  <2>7. CASE TapCheck(p)
    BY <2>7, <1>0, <1>1 DEF TapCheck, Stay, Written, SharedStep
  <2> QED
    BY <1>2, <2>1, <2>2, <2>3, <2>4, <2>5, <2>6, <2>7 DEF PrepareStep
<1>3. CASE StartStep(p) /\ ~PrepareStep(p)
  <2>1. CASE Load(p) \/ Reserve(p) \/ GiveUp(p)
    BY <2>1, <1>1 DEF Load, Reserve, GiveUp, Written, Ended
  <2>2. CASE RevertDown(p)
    BY <2>2, <1>1 DEF RevertDown, Written
  <2>3. CASE RevertTap(p)
    <3>1. sibling' = sibling
      BY <2>3 DEF RevertTap, tear
    <3>2. CASE sibling[p]
      BY <2>3, <3>1, <3>2, <1>0 DEF RevertTap, Written, SharedStep
    <3>3. CASE ~sibling[p]
      BY <2>3, <3>3, <1>1 DEF RevertTap, Written
    <3> QED
      BY <3>2, <3>3
  <2>4. CASE RevertBridge(p)
    <3>1. pc[p] = "revertBridge" /\ pc'[p] = "failing"
      BY <2>4, <1>0 DEF RevertBridge
    <3>2. err'[p] \/ host'.bridge # "shared"
      <4>1. DeleteBridge(host).bridge = "none"
        BY DEF DeleteBridge, BridgeDown, Host
      <4> QED
        BY <2>4, <4>1 DEF RevertBridge, TypeOK
    <3> QED
      BY <3>1, <3>2 DEF SharedStep, Written
  <2>5. CASE Record(p)
    BY <2>5, <1>0 DEF Record, SharedStep, Written
  <2>6. CASE RecordFails(p) \/ Stop(p)
    BY <2>6, <1>1 DEF RecordFails, Stop, Stay, Written, Ended
  <2>7. CASE Release(p)
    BY <2>7, <1>1 DEF Release, Written, Ended
  <2> QED
    BY <1>3, <2>1, <2>2, <2>3, <2>4, <2>5, <2>6, <2>7 DEF StartStep
<1>4. CASE TeardownStep(p)
  <2>1. ASSUME NEW from, NEW to, NEW there, NEW h, Delete(p, from, to, there, h)
        PROVE  Goto(p, from, to)
    BY <2>1 DEF Delete
  <2>2. PICK from \in TeardownPCs, to \in TeardownPCs : Goto(p, from, to)
    BY <1>4, <2>1
    DEF TeardownStep, DelTapConn, DelUplinkConn, DelBridgeConn, DelTapLink, DelBridgeLink,
        Reconnect, TeardownPCs
  <2> QED
    BY <2>2, <1>1 DEF TeardownPCs, Written, Ended
<1>5. CASE Crash(p)
  BY <1>5, <1>1 DEF Crash, Stay, Written, Ended
<1> QED
  BY <1>2, <1>3, <1>4, <1>5, RoleAssumption DEF Step

(* Only by itself does a NIC of the user's become a port.                  *)
LEMMA NICsAttach ==
  ASSUME TypeOK, [Next]_vars
  PROVE  \/ \E n \in ForeignNICs \cup {"uplink"} : NICAttaches(n)
         \/ host'.nics \cap ForeignNICs \subseteq host.nics
<1>1. CASE Rises
  BY <1>1, NICAssumption DEF Rises
<1>2. CASE \E p \in Procs : HostStep(p)
  <2>1. PICK p \in Procs : HostStep(p)
    BY <1>2
  <2>2. host \in Host /\ at[p] \in Indices
    BY DEF TypeOK
  <2>3. CASE WritesShared(p)
    BY <2>2, <2>3 DEF WritesShared, Host
  <2>4. CASE LowersTap(p) \/ LowersUplink(p) \/ LowersBridge(p)
    BY <2>2, <2>4, Downs DEF LowersTap, LowersUplink, LowersBridge
  <2> QED
    BY <1>1, <2>1, <2>3, <2>4 DEF HostStep
<1> QED
  BY <1>1, <1>2, HostSteps

(* A NIC that became a port of the bridge before a shared start's last     *)
(* check never shares it with its guest.                                   *)
THEOREM NoForeignNICCorrect == Spec => []NoForeignNIC
<1>1. Init => NoForeignNIC
  BY DEF Init, NoForeignNIC, Procs
<1>2. TypeOK /\ NoForeignNIC /\ [Next]_vars => NoForeignNIC'
  <2> SUFFICES ASSUME TypeOK, NoForeignNIC, [Next]_vars, NEW p \in Starts, mode'[p] = "shared",
                      pc'[p] \in {"prepared", "running"}, p \notin late'
               PROVE  host'.nics \cap ForeignNICs = {}
    BY DEF NoForeignNIC
  <2> p \in Procs
    BY DEF Procs
  <2>1. CASE \E n \in ForeignNICs \cup {"uplink"} : NICAttaches(n)
    <3>1. pc' = pc /\ mode' = mode
      BY <2>1 DEF NICAttaches, config
    <3>2. p \in late'
      BY <2>1, <3>1 DEF NICAttaches
    <3> QED
      BY <3>2
  <2>2. CASE UNCHANGED vars
    BY <2>2 DEF NoForeignNIC, vars, config, hist
  <2>3. ASSUME NEW q \in Procs, Step(q), ~\E n \in ForeignNICs \cup {"uplink"} : NICAttaches(n)
        PROVE  host'.nics \cap ForeignNICs = {}
    <3>1. mode' = mode /\ late' = late
      BY <2>3, StepAlone DEF Alone, config
    <3>2. CASE pc[p] \in {"prepared", "running"}
      BY <2>3, <3>1, <3>2, NICsAttach DEF NoForeignNIC
    <3>3. CASE pc[p] \notin {"prepared", "running"}
      <4>1. q = p
        BY <2>3, <3>3, StepAlone DEF Alone
      <4>2. OnlyTaps /\ host' = host
        BY <2>3, <3>1, <3>3, <4>1, StartShared DEF SharedStep
      <4> QED
        BY <4>2 DEF OnlyTaps
    <3> QED
      BY <3>2, <3>3
  <2> QED
    BY <2>1, <2>2, <2>3, Steps
<1> QED
  BY <1>1, <1>2, TypeCorrect, PTL DEF Spec

(* The method written last is that of a shared start past its write, and   *)
(* before one is written it is not shared.                                 *)
SharedLater ==
  /\ sharedBy = {} => host.bridge # "shared"
  /\ \A p \in Starts : sharedBy = {p} => mode[p] = "shared" /\ pc[p] \in Written

(* Only a write makes the method shared.                                   *)
LEMMA MethodWritten ==
  ASSUME TypeOK, [Next]_vars
  PROVE  \/ UNCHANGED sharedBy /\ (host'.bridge = "shared" => host.bridge = "shared")
         \/ \E p \in Procs : WritesShared(p)
<1>1. CASE \E n \in ForeignNICs \cup {"uplink"} : NICAttaches(n)
  BY <1>1 DEF NICAttaches, TypeOK, Host
<1>2. ASSUME Rises
      PROVE  UNCHANGED sharedBy /\ (host'.bridge = "shared" => host.bridge = "shared")
  BY <1>2 DEF Rises
<1>3. ASSUME NEW p \in Procs, HostStep(p), ~WritesShared(p)
      PROVE  UNCHANGED sharedBy /\ (host'.bridge = "shared" => host.bridge = "shared")
  <2>1. host \in Host /\ at[p] \in Indices
    BY DEF TypeOK
  <2>2. CASE LowersTap(p) \/ LowersUplink(p) \/ LowersBridge(p)
    BY <2>1, <2>2, Downs DEF LowersTap, LowersUplink, LowersBridge
  <2> QED
    BY <1>2, <1>3, <2>2 DEF HostStep
<1> QED
  BY <1>1, <1>2, <1>3, HostSteps

(* A shared start whose preparation failed with no sibling leaves no       *)
(* ipv4.method shared of its own behind, unless removing that failed too.  *)
THEOREM PreparationCorrect == Spec => []PreparationReverts
<1> DEFINE I == SharedLater /\ PreparationReverts
<1>1. Init => I
  <2> SUFFICES ASSUME Init PROVE I
    OBVIOUS
  <2>1. host.bridge = "none" /\ sharedBy = {}
    BY DEF Init
  <2> QED
    BY <2>1 DEF SharedLater, PreparationReverts
<1>2. TypeOK /\ I /\ [Next]_vars => I'
  <2> SUFFICES ASSUME TypeOK, SharedLater, PreparationReverts, [Next]_vars
               PROVE  SharedLater' /\ PreparationReverts'
    OBVIOUS
  <2>1. CASE \E p \in Procs : WritesShared(p)
    <3>1. PICK p \in Procs : WritesShared(p)
      BY <2>1
    <3>2. sharedBy' = {p} /\ pc'[p] = "addTap" /\ mode[p] = "shared"
      BY <3>1 DEF WritesShared, Goto, TypeOK
    <3>3. mode' = mode
      <4>1. CASE UNCHANGED vars
        BY <4>1 DEF vars, config
      <4>2. CASE \E n \in ForeignNICs \cup {"uplink"} : NICAttaches(n)
        BY <4>2 DEF NICAttaches, config
      <4> QED
        BY <4>1, <4>2, Steps, StepAlone DEF Alone, config
    <3> QED
      BY <3>2, <3>3 DEF SharedLater, PreparationReverts, Written
  <2>2. CASE UNCHANGED sharedBy /\ (host'.bridge = "shared" => host.bridge = "shared")
    <3> SUFFICES ASSUME NEW p \in Starts, sharedBy = {p}
                 PROVE  /\ mode'[p] = "shared" /\ pc'[p] \in Written
                        /\ (pc'[p] = "failing" /\ ~sibling'[p] /\ ~err'[p]) =>
                             host'.bridge # "shared"
      BY <2>2 DEF SharedLater, PreparationReverts
    <3> p \in Procs
      BY DEF Procs
    <3>0. /\ mode[p] = "shared" /\ pc[p] \in Written
          /\ (pc[p] = "failing" /\ ~sibling[p] /\ ~err[p]) => host.bridge # "shared"
      BY DEF SharedLater, PreparationReverts
    <3>1. CASE UNCHANGED vars \/ \E n \in ForeignNICs \cup {"uplink"} : NICAttaches(n)
      <4>1. UNCHANGED <<pc, mode, sibling, err>>
        BY <3>1 DEF vars, NICAttaches, config, tear
      <4> QED
        BY <2>2, <3>0, <4>1
    <3>2. ASSUME Step(p)
          PROVE  /\ mode'[p] = "shared" /\ pc'[p] \in Written
                 /\ (pc'[p] = "failing" /\ ~sibling'[p] /\ ~err'[p]) =>
                      host'.bridge # "shared"
      BY <3>0, <3>2, StepAlone, StartShared DEF Alone, config, SharedStep
    <3>3. ASSUME NEW q \in Procs \ {p}, Step(q)
          PROVE  UNCHANGED <<pc[p], mode, sibling[p], err[p]>>
      BY <3>3, StepAlone DEF Alone, config
    <3> QED
      BY <2>2, <3>0, <3>1, <3>2, <3>3, Steps
  <2> QED
    BY <2>1, <2>2, MethodWritten
<1> QED
  BY <1>1, <1>2, TypeCorrect, PTL DEF Spec

-----------------------------------------------------------------------------
(* The guests of siblings                                                  *)

(* A start whose reservation found no sibling, or shares the index of      *)
(* another, could not count that one.                                      *)
SiblingsSeen ==
  \A p, q \in Starts \cap Decided :
    (p # q /\ (~sibling[p] \/ at[p] = at[q])) => q \in unseen[p]

(* A removal that found none has the start among the records it refuses    *)
(* over after its prompt, or could not count it.                           *)
RemoversSaw ==
  \A r \in Removers \cap Decided, q \in Starts \cap Decided :
    ~sibling[r] => \/ q \in unseen[r]
                   \/ pc[r] = "confirm" /\ [index |-> at[q], starter |-> q] \in todo[r]

(* A removal that knows of its network takes the bridge down only without  *)
(* a sibling;                                                              *)
RemoversSpare ==
  \A r \in Removers :
    /\ pc[r] \in RemoverPCs \cup TeardownPCs \cup Ended
    /\ (mayHave[r] /\ byIndex0[r]) => ~sibling[r]
    /\ (mayHave[r] /\ pc[r] \in TeardownPCs /\ ~spare[r]) => ~sibling[r]

(* a start always does.                                                    *)
StartsAlone ==
  \A p \in Starts : pc[p] \in TeardownPCs \cup {"revertBridge"} => ~sibling[p]

(* A teardown that spares the bridge stays away from it.                   *)
AtBridge == {"delUplinkConn", "delBridgeConn", "delBridgeLink", "reconnect"}

BridgeSpared == \A p \in Procs : pc[p] \in AtBridge => ~spare[p]

SiblingsInv ==
  SiblingsSeen /\ RemoversSaw /\ RemoversSpare /\ StartsAlone /\ BridgeSpared

(* A step of an invocation that decides nothing: it goes no further back,  *)
(* and tears down only as its decision says.                               *)
Undecided == Ended \cup {"idle", "loaded"}

Follows(p) ==
  /\ UNCHANGED <<sibling, unseen>>
  /\ pc[p] \in Undecided => pc'[p] \in Undecided
  /\ pc'[p] \in AtBridge => ~spare'[p]
  /\ p \in Starts =>
       /\ UNCHANGED at
       /\ pc'[p] \in TeardownPCs \cup {"revertBridge"} =>
            pc[p] \in TeardownPCs \/ ~sibling[p]
  /\ p \in Removers =>
       /\ pc'[p] \in RemoverPCs \cup TeardownPCs \cup Ended
       /\ mayHave'[p] => mayHave[p]
       /\ byIndex0'[p] => byIndex0[p]
       /\ pc'[p] # "confirm"
       /\ (pc[p] = "confirm" /\ pc'[p] \notin Undecided) => \A v \in todo[p] : ~VMIsLive(v)
       /\ (pc'[p] \in TeardownPCs /\ ~spare'[p] /\ mayHave[p]) =>
            \/ ~sibling[p] \/ byIndex0[p]
            \/ pc[p] \in TeardownPCs /\ ~spare[p]

LEMMA TeardownFollows ==
  ASSUME TypeOK, BridgeSpared, NEW p \in Procs, TeardownStep(p)
  PROVE  Follows(p)
<1>1. /\ UNCHANGED <<at, sibling, spare, unseen, mayHave, byIndex0>>
  <2>1. ASSUME NEW from, NEW to, NEW there, NEW h, Delete(p, from, to, there, h)
        PROVE  UNCHANGED <<at, sibling, spare, unseen, mayHave, byIndex0>>
    BY <2>1 DEF Delete, plan, hist
  <2>2. CASE Reconnect(p)
    BY <2>2 DEF Reconnect, plan, hist
  <2> QED
    BY <2>1, <2>2
    DEF TeardownStep, DelTapConn, DelUplinkConn, DelBridgeConn, DelTapLink, DelBridgeLink
<1>2. /\ pc[p] \in TeardownPCs /\ pc'[p] \in TeardownPCs
      /\ pc'[p] \in AtBridge => pc[p] \in AtBridge \/ ~spare[p]
  <2>1. ASSUME NEW from, NEW to, Goto(p, from, to)
        PROVE  pc[p] = from /\ pc'[p] = to
    BY <2>1 DEF Goto, TypeOK
  <2>2. CASE DelTapConn(p)
    BY <2>1, <2>2 DEF DelTapConn, Delete, TeardownPCs, AtBridge
  <2>3. CASE DelUplinkConn(p)
    BY <2>1, <2>3 DEF DelUplinkConn, Delete, TeardownPCs, AtBridge
  <2>4. CASE DelBridgeConn(p) \/ DelBridgeLink(p)
    BY <2>1, <2>4 DEF DelBridgeConn, DelBridgeLink, Delete, TeardownPCs, AtBridge
  <2>5. CASE DelTapLink(p)
    BY <2>1, <2>5 DEF DelTapLink, Delete, TeardownPCs, AtBridge
  <2>6. CASE Reconnect(p)
    BY <2>1, <2>6 DEF Reconnect, TeardownPCs, AtBridge
  <2> QED
    BY <2>2, <2>3, <2>4, <2>5, <2>6 DEF TeardownStep
<1>3. pc[p] \notin Undecided /\ pc[p] # "confirm" /\ pc'[p] \notin {"confirm", "revertBridge"}
  BY <1>2 DEF TeardownPCs, Undecided, Ended
<1> QED
  BY <1>1, <1>2, <1>3 DEF Follows, BridgeSpared

LEMMA StayFollows ==
  ASSUME TypeOK, NEW p \in Procs, NEW from, NEW to, Stay(p, from, to),
         from \in Undecided => to \in Undecided,
         to \notin AtBridge \cup TeardownPCs \cup {"revertBridge", "confirm"},
         p \in Removers => /\ to \in RemoverPCs \cup Ended
                           /\ (from = "confirm" /\ to \notin Undecided) =>
                                \A v \in todo[p] : ~VMIsLive(v)
  PROVE  Follows(p)
BY DEF Stay, Goto, TypeOK, Follows, tear, plan, hist

LEMMA StartFollows ==
  ASSUME TypeOK, NEW p \in Starts, StartStep(p)
  PROVE  Reserve(p) \/ Follows(p)
<1> p \in Procs /\ p \notin Removers
  BY RoleAssumption DEF Procs
<1> OnError(p) \in {"revert", "failing"}
  BY DEF OnError
<1> DEFINE Safe == AtBridge \cup TeardownPCs \cup {"revertBridge", "confirm"}
<1>0. ASSUME NEW from, NEW to, Goto(p, from, to), from \notin Undecided \/ to \in Undecided,
             to \notin Safe, UNCHANGED <<sibling, unseen, at>>
      PROVE  Follows(p)
  BY <1>0 DEF Goto, TypeOK, Follows
<1>1. CASE PrepareStep(p)
  <2>1. CASE Preflight(p)
    <3>1. CASE BeginTeardown(p, "preflight", at[p], FALSE) /\ ~sibling[p]
      BY <3>1 DEF BeginTeardown, Goto, TypeOK, Follows, AtBridge, Undecided, Ended, hist
    <3>2. CASE \E to \in {"addBridge", "failing"} : Stay(p, "preflight", to)
      BY <3>2, StayFollows DEF AtBridge, TeardownPCs, Undecided, Ended
    <3> QED
      BY <2>1, <3>1, <3>2 DEF Preflight
  <2>2. CASE TornDown(p)
    BY <2>2, StayFollows DEF TornDown, AtBridge, TeardownPCs, Undecided, Ended
  <2>3. ASSUME NEW from, NEW to, NEW onError, NEW h, Command(p, from, to, onError, h),
               from \notin Undecided, to \notin Safe, onError \notin Safe
        PROVE  Follows(p)
    BY <2>3, <1>0 DEF Command, tear, hist
  <2>4. ASSUME NEW from, NEW to, Stay(p, from, to), from \notin Undecided, to \notin Safe
        PROVE  Follows(p)
    BY <2>4, <1>0 DEF Stay, tear, hist
  <2>5. CASE AddBridge(p) \/ AddUplink(p) \/ ModUplink(p)
    BY <2>5, <2>3, <2>4
    DEF AddBridge, AddUplink, ModUplink, AtBridge, TeardownPCs, Undecided, Ended
  <2>6. CASE AddTap(p) \/ ModTap(p) \/ PreCheck(p) \/ UpCheck(p)
    BY <2>6, <2>3, <2>4
    DEF AddTap, ModTap, PreCheck, UpCheck, AtBridge, TeardownPCs, Undecided, Ended
  <2>7. CASE ModBridge(p)
    <3>1. CASE Stay(p, "modBridge", "failing")
      BY <3>1, <2>4 DEF AtBridge, TeardownPCs, Undecided, Ended
    <3>2. CASE ~Stay(p, "modBridge", "failing")
      BY <2>7, <3>2, <1>0
      DEF ModBridge, AtBridge, TeardownPCs, Undecided, Ended, tear
    <3> QED
      BY <3>1, <3>2
  <2>8. CASE UpBridge(p) \/ UpUplink(p)
    BY <2>8, <1>0
    DEF UpBridge, UpUplink, AtBridge, TeardownPCs, Undecided, Ended, tear, hist
  <2>9. CASE UpTap(p)
    BY <2>9, <1>0 DEF UpTap, AtBridge, TeardownPCs, Undecided, Ended, tear, hist
  <2>10. CASE TapCheck(p)
    BY <2>10, <1>0, <2>4 DEF TapCheck, AtBridge, TeardownPCs, Undecided, Ended, tear, hist
  <2> QED
    BY <1>1, <2>1, <2>2, <2>5, <2>6, <2>7, <2>8, <2>9, <2>10 DEF PrepareStep
<1>2. CASE Load(p) \/ GiveUp(p)
  BY <1>2, <1>0 DEF Load, GiveUp, AtBridge, TeardownPCs, Undecided, Ended, tear, hist
<1>3. CASE RevertDown(p)
  BY <1>3, <1>0 DEF RevertDown, AtBridge, TeardownPCs, Undecided, Ended, hist
<1>4. CASE RevertTap(p)
  BY <1>4 DEF RevertTap, Goto, TypeOK, Follows, AtBridge, TeardownPCs, Undecided, Ended, tear, hist
<1>5. CASE RevertBridge(p)
  BY <1>5, <1>0 DEF RevertBridge, AtBridge, TeardownPCs, Undecided, Ended, hist
<1>6. CASE Record(p) \/ Release(p)
  BY <1>6, <1>0 DEF Record, Release, AtBridge, TeardownPCs, Undecided, Ended, tear, hist
<1>7. CASE RecordFails(p) \/ Stop(p)
  BY <1>7, <1>0 DEF RecordFails, Stop, Stay, AtBridge, TeardownPCs, Undecided, Ended, tear, hist
<1> QED
  BY <1>1, <1>2, <1>3, <1>4, <1>5, <1>6, <1>7 DEF StartStep

LEMMA RemoverFollows ==
  ASSUME TypeOK, NEW r \in Removers, RemoverStep(r)
  PROVE  ResetPlans(r) \/ CleanupPlans(r) \/ Follows(r)
<1> r \in Procs /\ r \notin Starts
  BY RoleAssumption DEF Procs
<1>1. CASE Proceed(r)
  BY <1>1, StayFollows DEF Proceed, AtBridge, TeardownPCs, RemoverPCs, Undecided, Ended
<1>2. CASE Decline(r) \/ SaveFails(r)
  BY <1>2, StayFollows DEF Decline, SaveFails, AtBridge, TeardownPCs, Undecided, Ended
<1>3. CASE CleanUpIndex0(r)
  <2>1. /\ byIndex0[r] /\ UNCHANGED <<sibling, unseen, mayHave>>
        /\ pc[r] = "targets" /\ pc'[r] = "delTapConn" /\ ~byIndex0'[r]
    BY <1>3 DEF CleanUpIndex0, BeginTeardown, Goto, TypeOK, hist
  <2> QED
    BY <2>1 DEF Follows, AtBridge, TeardownPCs, Undecided, Ended
<1>4. CASE \E v \in todo[r] : CleanUpFor(r, v)
  <2>1. PICK v \in todo[r] : CleanUpFor(r, v)
    BY <1>4
  <2>2. /\ UNCHANGED <<sibling, unseen, mayHave, byIndex0>>
        /\ pc[r] = "targets" /\ pc'[r] = "delTapConn"
    BY <2>1 DEF CleanUpFor, BeginTeardown, Goto, TypeOK, hist
  <2>3. spare'[r] = (sibling[r] \/ todo[r] # {v})
    BY <2>1 DEF CleanUpFor, BeginTeardown, TypeOK
  <2> QED
    BY <2>2, <2>3 DEF Follows, AtBridge, TeardownPCs, Undecided, Ended
<1>5. CASE CleanedUp(r)
  <2>1. /\ UNCHANGED <<sibling, unseen, byIndex0>>
        /\ pc[r] = "tornDown" /\ pc'[r] = "targets" /\ (mayHave'[r] => mayHave[r])
    BY <1>5 DEF CleanedUp, Goto, TypeOK, tear, hist
  <2> QED
    BY <2>1 DEF Follows, AtBridge, TeardownPCs, RemoverPCs, Undecided, Ended
<1>6. CASE Save(r)
  <2>1. /\ UNCHANGED <<sibling, unseen, byIndex0, mayHave>>
        /\ pc[r] = "targets" /\ pc'[r] \in {"warned", "complete"}
    BY <1>6 DEF Save, Goto, TypeOK, tear, plan, hist
  <2> QED
    BY <2>1 DEF Follows, AtBridge, TeardownPCs, Undecided, Ended
<1> QED
  BY <1>1, <1>2, <1>3, <1>4, <1>5, <1>6 DEF RemoverStep

LEMMA StepFollows ==
  ASSUME TypeOK, BridgeSpared, NEW p \in Procs, Step(p)
  PROVE  \/ Follows(p)
         \/ p \in Starts /\ Reserve(p)
         \/ p \in Removers /\ \E T \in SUBSET Names, all, index0 \in BOOLEAN :
                                /\ MakePlan(p, T, all, index0)
                                /\ (index0 /\ created) => T = Names
<1>1. CASE p \in Removers /\ ResetPlans(p)
  <2>1. PICK T \in SUBSET Names, stale \in BOOLEAN : MakePlan(p, T, FALSE, ~created /\ stale)
    BY <1>1 DEF ResetPlans, Probe, Stale
  <2>2. (~created /\ stale) \in BOOLEAN
    OBVIOUS
  <2> QED
    BY <1>1, <2>1, <2>2
<1>2. CASE p \in Removers /\ CleanupPlans(p)
  <2>1. PICK stale \in Probe(Stale(0)) :
          MakePlan(p, Names, TRUE, IF created THEN Records(Names) = {} ELSE stale)
    BY <1>2 DEF CleanupPlans
  <2>2. (IF created THEN Records(Names) = {} ELSE stale) \in BOOLEAN
    BY DEF Probe, Stale
  <2> QED
    BY <1>2, <2>1, <2>2
<1>3. CASE Crash(p)
  <2>1. "dead" \in Undecided /\ "dead" \in Ended
        /\ "dead" \notin AtBridge \cup TeardownPCs \cup {"revertBridge", "confirm"}
    BY DEF Undecided, Ended, AtBridge, TeardownPCs
  <2> QED
    BY <1>3, <2>1, StayFollows DEF Crash
<1> QED
  BY <1>1, <1>2, <1>3, StartFollows, RemoverFollows, TeardownFollows DEF Step

LEMMA DecidedBy ==
  /\ Decided = {q \in Procs : pc[q] \notin Undecided}
  /\ Decided' = {q \in Procs : pc'[q] \notin Undecided}
BY DEF Decided, Undecided

LEMMA FollowsSiblings ==
  ASSUME TypeOK, SiblingsInv, NEW p \in Procs, Alone(p), Follows(p)
  PROVE  SiblingsInv'
<1> USE RoleAssumption
<1>1. Decided' \subseteq Decided
  BY DecidedBy DEF Alone, Follows
<1>2. \A q \in Starts : at'[q] = at[q]
  BY DEF Alone, Follows, Procs
<1>3. SiblingsSeen'
  BY <1>1, <1>2 DEF SiblingsInv, SiblingsSeen, Follows
<1>4. RemoversSaw'
  <2> SUFFICES ASSUME NEW r \in Removers \cap Decided', NEW q \in Starts \cap Decided',
                      ~sibling[r], q \notin unseen[r]
               PROVE  pc'[r] = "confirm" /\ [index |-> at[q], starter |-> q] \in todo'[r]
    BY <1>2 DEF RemoversSaw, Follows
  <2>1. pc[r] = "confirm" /\ [index |-> at[q], starter |-> q] \in todo[r]
    BY <1>1 DEF SiblingsInv, RemoversSaw
  <2>2. VMIsLive([index |-> at[q], starter |-> q])
    BY <1>1, DecidedBy DEF VMIsLive, Undecided
  <2>3. r # p
    BY <2>1, <2>2, DecidedBy DEF Follows
  <2> QED
    BY <2>1, <2>3 DEF Alone, Procs
<1>5. RemoversSpare'
  <2> SUFFICES ASSUME NEW r \in Removers
               PROVE  /\ pc'[r] \in RemoverPCs \cup TeardownPCs \cup Ended
                      /\ (mayHave'[r] /\ byIndex0'[r]) => ~sibling[r]
                      /\ (mayHave'[r] /\ pc'[r] \in TeardownPCs /\ ~spare'[r]) => ~sibling[r]
    BY DEF RemoversSpare, Follows
  <2>1. /\ pc[r] \in RemoverPCs \cup TeardownPCs \cup Ended
        /\ (mayHave[r] /\ byIndex0[r]) => ~sibling[r]
        /\ (mayHave[r] /\ pc[r] \in TeardownPCs /\ ~spare[r]) => ~sibling[r]
    BY DEF SiblingsInv, RemoversSpare
  <2>2. CASE r = p
    BY <2>1, <2>2 DEF Follows
  <2>3. CASE r # p
    BY <2>1, <2>3 DEF Alone, Procs
  <2> QED
    BY <2>2, <2>3
<1>6. StartsAlone'
  BY DEF SiblingsInv, StartsAlone, Alone, Follows, Procs
<1>7. BridgeSpared'
  BY DEF SiblingsInv, BridgeSpared, Alone, Follows
<1> QED
  BY <1>3, <1>4, <1>5, <1>6, <1>7 DEF SiblingsInv

(* The record of a start that is not lost is live.                         *)
LEMMA ShownLive ==
  ASSUME TypeOK, NEW q \in Starts \cap Decided, q \notin Lost
  PROVE  /\ vms[name[q]] = [index |-> at[q], starter |-> q]
         /\ Live(name[q])
<1>1. vms[name[q]] = [index |-> at[q], starter |-> q]
  BY DEF Lost
<1>2. [index |-> at[q], starter |-> q] \in VM /\ pc[q] \notin Ended
  BY DEF TypeOK, Decided, VM
<1> QED
  BY <1>1, <1>2, RoleAssumption DEF Live, VMIsLive

LEMMA ReserveSiblings ==
  ASSUME TypeOK, SiblingsInv, NEW p \in Starts, Alone(p), Reserve(p)
  PROVE  SiblingsInv'
<1> p \in Procs /\ p \notin Removers
  BY RoleAssumption DEF Procs
<1>1. /\ pc[p] = "loaded" /\ pc'[p] \in {"prepared", "preflight"}
      /\ UNCHANGED <<spare, plan>>
      /\ sibling'[p] = SiblingLive({name[p]})
      /\ ~Live(name[p])
  BY DEF Reserve, Goto, TypeOK
<1>2. /\ unseen'[p] = Lost
      /\ \A q \in Procs \ {p} : unseen[q] \subseteq unseen'[q] /\ (q \in Decided => p \in unseen'[q])
  BY DEF Reserve
<1>3. PICK i \in FreeIndices : at' = [at EXCEPT ![p] = i]
  BY DEF Reserve
<1>4. p \notin Decided /\ Decided' = Decided \cup {p}
  BY <1>1, DecidedBy DEF Alone, Undecided, Ended
<1>5. ASSUME NEW q \in Starts \cap Decided, q \notin Lost
      PROVE  sibling'[p] /\ at'[p] # at'[q]
  <2>1. vms[name[q]] = [index |-> at[q], starter |-> q] /\ Live(name[q]) /\ name[q] \in Names
    BY <1>5, ShownLive DEF TypeOK
  <2>2. SiblingLive({name[p]})
    BY <1>1, <2>1 DEF SiblingLive
  <2>3. i # at[q]
    BY <2>1 DEF FreeIndices
  <2>4. at'[p] = i /\ at'[q] = at[q]
    BY <1>3, <1>4 DEF TypeOK, Procs
  <2> QED
    BY <1>1, <2>2, <2>3, <2>4
<1>6. SiblingsSeen'
  <2> SUFFICES ASSUME NEW q1 \in Starts \cap Decided', NEW q2 \in Starts \cap Decided',
                      q1 # q2, ~sibling'[q1] \/ at'[q1] = at'[q2]
               PROVE  q2 \in unseen'[q1]
    BY DEF SiblingsSeen
  <2>1. CASE q1 = p
    BY <1>2, <1>4, <1>5, <2>1
  <2>2. CASE q2 = p
    BY <1>2, <1>4, <2>2 DEF Procs
  <2>3. CASE q1 # p /\ q2 # p
    <3>1. /\ sibling'[q1] = sibling[q1] /\ at'[q1] = at[q1] /\ at'[q2] = at[q2]
      BY <2>3 DEF Alone, Procs
    <3> QED
      BY <1>2, <1>4, <2>3, <3>1 DEF SiblingsInv, SiblingsSeen, Procs
  <2> QED
    BY <2>1, <2>2, <2>3
<1>7. RemoversSaw'
  <2> SUFFICES ASSUME NEW r \in Removers \cap Decided', NEW q \in Starts \cap Decided', ~sibling'[r]
               PROVE  \/ q \in unseen'[r]
                      \/ pc'[r] = "confirm" /\ [index |-> at'[q], starter |-> q] \in todo'[r]
    BY DEF RemoversSaw
  <2>1. /\ r \in Procs \ {p} /\ r \in Decided
        /\ pc'[r] = pc[r] /\ sibling'[r] = sibling[r] /\ todo'[r] = todo[r]
    BY <1>4 DEF Alone, Procs
  <2>2. CASE q = p
    BY <1>2, <2>1, <2>2
  <2>3. CASE q # p
    <3>1. q \in Decided /\ at'[q] = at[q]
      BY <1>4, <2>3 DEF Alone, Procs
    <3> QED
      BY <1>2, <2>1, <3>1 DEF SiblingsInv, RemoversSaw
  <2> QED
    BY <2>2, <2>3
<1>8. RemoversSpare'
  <2>1. \A r \in Removers : /\ pc'[r] = pc[r] /\ sibling'[r] = sibling[r] /\ spare'[r] = spare[r]
                            /\ mayHave'[r] = mayHave[r] /\ byIndex0'[r] = byIndex0[r]
    BY DEF Alone, Procs
  <2> QED
    BY <2>1 DEF SiblingsInv, RemoversSpare
<1>9. StartsAlone'
  BY <1>1 DEF SiblingsInv, StartsAlone, Alone, Procs, TeardownPCs
<1>10. BridgeSpared'
  BY <1>1 DEF SiblingsInv, BridgeSpared, Alone, AtBridge
<1> QED
  BY <1>6, <1>7, <1>8, <1>9, <1>10 DEF SiblingsInv

LEMMA PlanSiblings ==
  ASSUME TypeOK, SiblingsInv, NEW r \in Removers, Alone(r),
         NEW T \in SUBSET Names, NEW all \in BOOLEAN, NEW index0 \in BOOLEAN,
         MakePlan(r, T, all, index0), (index0 /\ created) => T = Names
  PROVE  SiblingsInv'
<1> r \in Procs /\ r \notin Starts
  BY RoleAssumption DEF Procs
<1>1. /\ pc[r] = "idle" /\ pc'[r] = "confirm"
      /\ mayHave'[r] = created /\ byIndex0'[r] = index0
      /\ todo'[r] = Records(T)
      /\ sibling'[r] = SiblingLive(T)
      /\ unseen'[r] = Lost
  BY DEF MakePlan, Goto, TypeOK
<1>2. \A q \in Procs \ {r} : unseen'[q] = unseen[q]
  BY DEF MakePlan, TypeOK
<1>3. Decided' = Decided \cup {r}
  BY <1>1, DecidedBy DEF Alone, Undecided, Ended
<1>4. SiblingsSeen'
  <2>1. \A q \in Starts : /\ sibling'[q] = sibling[q] /\ at'[q] = at[q] /\ unseen'[q] = unseen[q]
                          /\ (q \in Decided' => q \in Decided)
    BY <1>2, <1>3 DEF Alone, Procs
  <2> QED
    BY <2>1 DEF SiblingsInv, SiblingsSeen
<1>5. RemoversSaw'
  <2> SUFFICES ASSUME NEW o \in Removers \cap Decided', NEW q \in Starts \cap Decided', ~sibling'[o]
               PROVE  \/ q \in unseen'[o]
                      \/ pc'[o] = "confirm" /\ [index |-> at'[q], starter |-> q] \in todo'[o]
    BY DEF RemoversSaw
  <2>1. q \in Decided /\ at'[q] = at[q]
    BY <1>3 DEF Alone, Procs
  <2>2. CASE o # r
    <3>1. /\ o \in Decided /\ pc'[o] = pc[o] /\ sibling'[o] = sibling[o] /\ todo'[o] = todo[o]
          /\ unseen'[o] = unseen[o]
      BY <1>2, <1>3, <2>2 DEF Alone, Procs
    <3> QED
      BY <2>1, <3>1 DEF SiblingsInv, RemoversSaw
  <2>3. CASE o = r /\ q \notin Lost
    <3>1. vms[name[q]] = [index |-> at[q], starter |-> q] /\ Live(name[q]) /\ name[q] \in Names
      BY <2>1, <2>3, ShownLive DEF TypeOK
    <3>2. name[q] \in T
      BY <1>1, <2>3, <3>1 DEF SiblingLive
    <3>3. [index |-> at[q], starter |-> q] \in Records(T)
      BY <3>1, <3>2 DEF Records, Live
    <3> QED
      BY <1>1, <2>1, <2>3, <3>3
  <2> QED
    BY <1>1, <2>2, <2>3
<1>6. RemoversSpare'
  <2> SUFFICES ASSUME NEW o \in Removers
               PROVE  /\ pc'[o] \in RemoverPCs \cup TeardownPCs \cup Ended
                      /\ (mayHave'[o] /\ byIndex0'[o]) => ~sibling'[o]
                      /\ (mayHave'[o] /\ pc'[o] \in TeardownPCs /\ ~spare'[o]) => ~sibling'[o]
    BY DEF RemoversSpare
  <2>1. CASE o # r
    <3>1. /\ pc'[o] = pc[o] /\ sibling'[o] = sibling[o] /\ spare'[o] = spare[o]
          /\ mayHave'[o] = mayHave[o] /\ byIndex0'[o] = byIndex0[o]
      BY <2>1 DEF Alone, Procs
    <3> QED
      BY <3>1 DEF SiblingsInv, RemoversSpare
  <2>2. CASE o = r
    <3>1. (created /\ index0) => ~SiblingLive(T)
      BY DEF SiblingLive
    <3> QED
      BY <1>1, <2>2, <3>1 DEF RemoverPCs, TeardownPCs
  <2> QED
    BY <2>1, <2>2
<1>7. StartsAlone'
  BY DEF SiblingsInv, StartsAlone, Alone, Procs
<1>8. BridgeSpared'
  BY <1>1 DEF SiblingsInv, BridgeSpared, Alone, AtBridge
<1> QED
  BY <1>4, <1>5, <1>6, <1>7, <1>8 DEF SiblingsInv

(* Who decided that nobody else is on the bridge could count every start   *)
(* but those its history names.                                            *)
THEOREM SiblingsInvCorrect == Spec => []SiblingsInv
<1>1. Init => SiblingsInv
  <2> SUFFICES ASSUME Init PROVE SiblingsInv
    OBVIOUS
  <2>1. \A p \in Procs : pc[p] = "idle" /\ ~mayHave[p]
    BY DEF Init
  <2>2. Decided = {}
    BY <2>1, DecidedBy DEF Undecided
  <2> QED
    BY <2>1, <2>2
    DEF SiblingsInv, SiblingsSeen, RemoversSaw, RemoversSpare, StartsAlone, BridgeSpared,
        RemoverPCs, TeardownPCs, AtBridge, Procs
<1>2. TypeOK /\ SiblingsInv /\ [Next]_vars => SiblingsInv'
  <2> SUFFICES ASSUME TypeOK, SiblingsInv, [Next]_vars PROVE SiblingsInv'
    OBVIOUS
  <2>1. CASE UNCHANGED vars \/ \E n \in ForeignNICs \cup {"uplink"} : NICAttaches(n)
    <3>1. UNCHANGED <<pc, tear, plan, unseen>>
      BY <2>1 DEF vars, NICAttaches, hist
    <3> QED
      BY <3>1, DecidedBy
      DEF SiblingsInv, SiblingsSeen, RemoversSaw, RemoversSpare, StartsAlone, BridgeSpared,
          tear, plan
  <2>2. ASSUME NEW p \in Procs, Step(p) PROVE SiblingsInv'
    <3>1. Alone(p)
      BY <2>2, StepAlone
    <3>2. BridgeSpared
      BY DEF SiblingsInv
    <3> QED
      BY <2>2, <3>1, <3>2, StepFollows, FollowsSiblings, ReserveSiblings, PlanSiblings
  <2> QED
    BY <2>1, <2>2, Steps
<1> QED
  BY <1>1, <1>2, TypeCorrect, PTL DEF Spec

(* No other step, failure or revert of a start or a removal takes a guest  *)
(* off the network.                                                        *)
THEOREM SiblingsCorrect == Spec => SiblingsKept
<1> DEFINE Kept == \A q \in Starts : Disconnects(q) =>
                     \E p \in Procs \ {q} : Moves(p) /\ MayDisconnect(p, q)
<1>1. TypeOK /\ SiblingsInv /\ [Next]_vars => [Kept]_vars
  <2> SUFFICES ASSUME TypeOK, SiblingsInv, [Next]_vars, NEW q \in Starts, Disconnects(q)
               PROVE  \E p \in Procs \ {q} : Moves(p) /\ MayDisconnect(p, q)
    OBVIOUS
  <2> q \in Procs
    BY DEF Procs
  <2>0. /\ pc[q] \in {"tapCheck", "prepared", "running"}
        /\ pc'[q] \in {"tapCheck", "prepared", "running"}
        /\ at[q] \in host.ports /\ host.link
        /\ ~(at'[q] \in host'.ports /\ host'.link)
    BY DEF Disconnects, Guest, Connected
  <2>1. host \in Host /\ at \in [Procs -> Indices] /\ q \in Decided
    BY <2>0 DEF TypeOK, Decided, Ended
  <2>2. at'[q] = at[q]
    <3>1. CASE UNCHANGED vars \/ \E n \in ForeignNICs \cup {"uplink"} : NICAttaches(n)
      BY <3>1 DEF vars, NICAttaches, tear
    <3>2. ASSUME NEW p \in Procs, p # q, Step(p) PROVE at'[q] = at[q]
      BY <3>2, StepAlone DEF Alone
    <3>3. ASSUME Step(q) PROVE at'[q] = at[q]
      <4>1. ~Reserve(q) /\ q \notin Removers
        BY <2>0, RoleAssumption DEF Reserve, Goto
      <4>2. Follows(q)
        BY <3>3, <4>1, StepFollows DEF SiblingsInv
      <4> QED
        BY <4>2 DEF Follows
    <3> QED
      BY <3>1, <3>2, <3>3, Steps
  <2>3. CASE \E n \in ForeignNICs \cup {"uplink"} : NICAttaches(n)
    BY <2>0, <2>1, <2>2, <2>3 DEF NICAttaches, Host
  <2>4. CASE Rises
    BY <2>0, <2>2, <2>4 DEF Rises
  <2>5. ASSUME NEW p \in Procs, HostStep(p), ~Rises
        PROVE  \E o \in Procs \ {q} : Moves(o) /\ MayDisconnect(o, q)
    <3>1. CASE WritesShared(p)
      BY <2>0, <2>1, <2>2, <3>1 DEF WritesShared, Host
    <3>2. CASE LowersUplink(p)
      <4>1. DeleteUplink(host).ports = host.ports /\ DeleteUplink(host).link = host.link
        BY <2>1 DEF DeleteUplink, Host
      <4> QED
        BY <2>0, <2>2, <3>2, <4>1 DEF LowersUplink
    <3>3. CASE LowersTap(p)
      <4>1. \A h \in {TapDown(host, at[p]), DeleteTap(host, at[p])} :
              h.link = host.link /\ h.ports = host.ports \ {at[p]}
        BY <2>1 DEF TapDown, DeleteTap, Host
      <4>2. at[p] = at[q]
        BY <2>0, <2>2, <3>3, <4>1 DEF LowersTap
      <4>3. p # q /\ Moves(p) /\ p \in Decided
        BY <2>0, <3>3 DEF LowersTap, Moves, Decided, Ended
      <4>4. p \in Starts => q \in unseen[p]
        BY <2>1, <4>2, <4>3 DEF SiblingsInv, SiblingsSeen
      <4> QED
        BY <4>2, <4>3, <4>4 DEF MayDisconnect, Procs
    <3>4. CASE LowersBridge(p)
      <4>1. p # q /\ Moves(p) /\ p \in Decided
        BY <2>0, <3>4 DEF LowersBridge, Moves, Decided, Ended
      <4>2. CASE p \in Starts
        <5>1. ~sibling[p]
          BY <3>4, <4>2 DEF LowersBridge, SiblingsInv, StartsAlone, TeardownPCs
        <5> QED
          BY <2>1, <4>1, <4>2, <5>1 DEF SiblingsInv, SiblingsSeen, MayDisconnect
      <4>3. CASE p \in Removers
        <5>1. pc[p] \in {"delBridgeConn", "delBridgeLink"}
          BY <3>4, <4>3 DEF LowersBridge, SiblingsInv, RemoversSpare, RemoverPCs, TeardownPCs, Ended
        <5>2. ~spare[p]
          BY <5>1 DEF SiblingsInv, BridgeSpared, AtBridge
        <5>3. mayHave[p] => ~sibling[p]
          BY <4>3, <5>1, <5>2 DEF SiblingsInv, RemoversSpare, TeardownPCs
        <5>4. mayHave[p] => q \in unseen[p]
          BY <2>1, <4>1, <4>3, <5>1, <5>3 DEF SiblingsInv, RemoversSaw
        <5> QED
          BY <4>1, <4>3, <5>2, <5>4 DEF MayDisconnect
      <4> QED
        BY <4>2, <4>3 DEF Procs
    <3> QED
      BY <2>5, <3>1, <3>2, <3>3, <3>4 DEF HostStep
  <2> QED
    BY <2>3, <2>4, <2>5, HostSteps
<1> QED
  BY <1>1, TypeCorrect, SiblingsInvCorrect, PTL DEF Spec, SiblingsKept

-----------------------------------------------------------------------------
(* One invocation at a time                                                *)

(* Between the load of a command and its return, or the launch of its VM.  *)
Underway(p) == pc[p] \notin Ended \cup {"idle", "running"}

OneAtATime == \A p, q \in Procs : (p # q /\ Underway(p)) => ~Underway(q)

(* A VM that runs, its record, and whether it is on a network of ours.     *)
Runs(q) == pc[q] = "running"
Own(q) == [index |-> at[q], starter |-> q]
Networked(q) == Runs(q) /\ mode[q] # "user"

(* state.json shows every VM that runs, and remembers its network.         *)
RunningShown ==
  \A q \in Starts : Runs(q) => vms[name[q]] = Own(q) /\ (Networked(q) => created)

(* A start remembers the network as well, found the VMs that run to be     *)
(* siblings, and has an index of its own.                                  *)
StartKnows(p) ==
  /\ created => mayHave[p]
  /\ pc[p] = "prepared" => mode[p] = "user" \/ mayHave[p]
  /\ pc[p] # "loaded" =>
       \A q \in Starts : Runs(q) => sibling[p] /\ at[p] # at[q] /\ name[p] # name[q]

(* So does a removal, unless it has a VM that runs among its targets and   *)
(* is going to refuse over it: it saves its record and spares the bridge.  *)
RemoverKnows(r) ==
  \A q \in Starts : Runs(q) =>
    /\ \/ sibling[r] /\ ~cleanup[r] /\ kept[r][name[q]] = Own(q)
       \/ pc[r] = "confirm" /\ Own(q) \in todo[r]
    /\ Networked(q) =>
         mayHave[r] /\ ~byIndex0[r] /\ (pc[r] \in TeardownPCs => spare[r])

AloneInv ==
  /\ RunningShown
  /\ \A p \in Starts : Underway(p) => StartKnows(p)
  /\ \A r \in Removers : Underway(r) => RemoverKnows(r)

(* A step of a start that neither loads, reserves nor writes.              *)
QuietStart(p) ==
  /\ UNCHANGED <<vms, created, sibling, at>>
  /\ mayHave[p] => mayHave'[p]
  /\ pc'[p] \notin {"running", "loaded"}
  /\ Underway(p) /\ (Underway(p)' => pc[p] # "loaded")
  /\ pc'[p] = "prepared" => mode[p] = "user" \/ mayHave'[p]

LEMMA StayQuiet ==
  ASSUME TypeOK, NEW p \in Starts, NEW from, NEW to, Stay(p, from, to),
         from \notin Ended \cup {"idle", "running"}, from = "loaded" => to \in Ended,
         to \notin {"running", "loaded", "prepared"}
  PROVE  QuietStart(p)
BY DEF Stay, Goto, TypeOK, QuietStart, Underway, state, tear, plan, Procs, Ended

LEMMA TeardownQuiet ==
  ASSUME TypeOK, NEW p \in Procs, TeardownStep(p)
  PROVE  /\ UNCHANGED <<state, config, at, sibling, spare, plan>>
         /\ pc[p] \in TeardownPCs /\ pc'[p] \in TeardownPCs
<1>1. ASSUME NEW from, NEW to, NEW there, NEW h, Delete(p, from, to, there, h)
      PROVE  UNCHANGED <<state, config, at, sibling, spare, plan>> /\ pc[p] = from /\ pc'[p] = to
  BY <1>1 DEF Delete, Goto, TypeOK
<1>2. CASE DelTapConn(p)
  BY <1>1, <1>2 DEF DelTapConn, TeardownPCs
<1>3. CASE DelUplinkConn(p) \/ DelBridgeConn(p) \/ DelBridgeLink(p)
  BY <1>1, <1>3 DEF DelUplinkConn, DelBridgeConn, DelBridgeLink, TeardownPCs
<1>4. CASE DelTapLink(p)
  BY <1>1, <1>4 DEF DelTapLink, TeardownPCs
<1>5. CASE Reconnect(p)
  BY <1>5 DEF Reconnect, Goto, TypeOK, TeardownPCs
<1> QED
  BY <1>2, <1>3, <1>4, <1>5 DEF TeardownStep

LEMMA PrepareQuiet ==
  ASSUME TypeOK, NEW p \in Starts, PrepareStep(p)
  PROVE  QuietStart(p)
<1> p \in Procs
  BY DEF Procs
<1> OnError(p) \in {"revert", "failing"}
  BY DEF OnError
<1> DEFINE Early == Ended \cup {"idle", "running", "loaded"}
           Late == {"running", "loaded", "prepared"}
<1>0. ASSUME NEW from, NEW to, Goto(p, from, to), from \notin Early, to \notin Late,
             UNCHANGED <<state, sibling, at, mayHave>>
      PROVE  QuietStart(p)
  BY <1>0 DEF Goto, TypeOK, QuietStart, Underway, state
<1>1. ASSUME NEW from, NEW to, Stay(p, from, to), from \notin Early, to \notin Late
      PROVE  QuietStart(p)
  BY <1>1, <1>0 DEF Stay, tear, plan
<1>2. CASE Preflight(p)
  <2>1. CASE BeginTeardown(p, "preflight", at[p], FALSE) /\ UNCHANGED plan
    <3>1. at' = at
      BY <2>1 DEF BeginTeardown, TypeOK
    <3> QED
      BY <2>1, <3>1, <1>0 DEF BeginTeardown, plan, Ended
  <2> QED
    BY <1>2, <2>1, <1>1 DEF Preflight, Ended
<1>3. CASE TornDown(p) \/ ModUplink(p) \/ ModTap(p) \/ PreCheck(p) \/ UpCheck(p)
  BY <1>3, <1>1 DEF TornDown, ModUplink, ModTap, PreCheck, UpCheck, Ended
<1>4. CASE AddBridge(p) \/ AddUplink(p) \/ AddTap(p)
  <2>1. PICK from \in {"addBridge", "addUplink", "addTap"},
             to \in {"modBridge", "modUplink", "modTap", "failing", "revert"} : Goto(p, from, to)
    BY <1>4 DEF AddBridge, AddUplink, AddTap, Stay, Command
  <2>2. UNCHANGED <<state, sibling, at, mayHave>>
    BY <1>4 DEF AddBridge, AddUplink, AddTap, Stay, Command, tear, plan
  <2> QED
    BY <2>1, <2>2, <1>0 DEF Ended
<1>5. CASE ModBridge(p)
  <2>1. CASE Stay(p, "modBridge", "failing")
    BY <2>1, <1>1 DEF Ended
  <2>2. CASE ~Stay(p, "modBridge", "failing")
    BY <1>5, <2>2, <1>0 DEF ModBridge, tear, plan, Ended
  <2> QED
    BY <2>1, <2>2
<1>6. CASE UpBridge(p) \/ UpUplink(p)
  BY <1>6, <1>0 DEF UpBridge, UpUplink, tear, plan, Ended
<1>7. CASE UpTap(p)
  BY <1>7 DEF UpTap, Goto, Note, TypeOK, QuietStart, Underway, state, tear, Ended
<1>8. CASE TapCheck(p)
  <2>1. CASE Stay(p, "tapCheck", "revert")
    BY <2>1, <1>1 DEF Ended
  <2>2. CASE ~Stay(p, "tapCheck", "revert")
    BY <1>8, <2>2 DEF TapCheck, Goto, Note, TypeOK, QuietStart, Underway, state, tear, Ended
  <2> QED
    BY <2>1, <2>2
<1> QED
  BY <1>2, <1>3, <1>4, <1>5, <1>6, <1>7, <1>8 DEF PrepareStep

LEMMA StartQuiet ==
  ASSUME TypeOK, NEW p \in Starts, Step(p)
  PROVE  Load(p) \/ Reserve(p) \/ Record(p) \/ Release(p) \/ Stop(p) \/ QuietStart(p)
<1> p \in Procs /\ p \notin Removers
  BY RoleAssumption DEF Procs
<1>1. CASE GiveUp(p)
  BY <1>1 DEF GiveUp, Goto, TypeOK, QuietStart, Underway, state, tear, plan, Ended
<1>2. CASE RecordFails(p)
  BY <1>2, StayQuiet DEF RecordFails, Ended
<1>3. CASE RevertDown(p) \/ RevertBridge(p)
  BY <1>3 DEF RevertDown, RevertBridge, Goto, TypeOK, QuietStart, Underway, state, plan, Ended
<1>4. CASE RevertTap(p)
  BY <1>4 DEF RevertTap, Goto, TypeOK, QuietStart, Underway, state, tear, plan, Ended
<1>5. CASE TeardownStep(p)
  BY <1>5, TeardownQuiet DEF QuietStart, Underway, TeardownPCs, Ended, state, plan
<1>6. CASE Crash(p)
  BY <1>6, StayQuiet DEF Crash, Ended
<1>7. CASE PrepareStep(p)
  BY <1>7, PrepareQuiet
<1> QED
  BY <1>1, <1>2, <1>3, <1>4, <1>5, <1>6, <1>7 DEF Step, StartStep

(* A step of a removal that neither plans nor saves.                       *)
QuietRemover(r) ==
  /\ UNCHANGED <<vms, created, sibling, kept, cleanup>>
  /\ Underway(r) /\ pc'[r] # "confirm"
  /\ (Underway(r)' /\ pc[r] = "confirm") => \A v \in todo[r] : ~VMIsLive(v)
  /\ byIndex0'[r] => byIndex0[r]
  /\ mayHave[r] => mayHave'[r] \/ (pc[r] \in TeardownPCs /\ ~spare[r])
  /\ pc'[r] \in TeardownPCs =>
       spare'[r] \/ ~sibling[r] \/ byIndex0[r] \/ (pc[r] \in TeardownPCs /\ ~spare[r])

LEMMA RemoverQuiet ==
  ASSUME TypeOK, NEW r \in Removers, Step(r)
  PROVE  ResetPlans(r) \/ CleanupPlans(r) \/ Save(r) \/ QuietRemover(r)
<1> r \in Procs /\ r \notin Starts
  BY RoleAssumption DEF Procs
<1>1. CASE Proceed(r)
  BY <1>1 DEF Proceed, Stay, Goto, TypeOK, QuietRemover, Underway, state, tear, plan,
     TeardownPCs, Ended
<1>2. CASE Decline(r) \/ SaveFails(r) \/ Crash(r)
  <2>1. PICK from, to : /\ to \in Ended /\ from \notin Ended \cup {"idle", "running"}
                        /\ Stay(r, from, to)
    BY <1>2 DEF Decline, SaveFails, Crash, Ended
  <2>2. /\ UNCHANGED <<vms, created, sibling, mayHave, byIndex0, kept, cleanup>>
        /\ pc[r] \notin Ended \cup {"idle", "running"} /\ pc'[r] \in Ended
    BY <2>1 DEF Stay, Goto, TypeOK, state, tear, plan
  <2> QED
    BY <2>2 DEF QuietRemover, Underway, TeardownPCs, Ended
<1>3. CASE CleanUpIndex0(r)
  <2>1. /\ byIndex0[r] /\ UNCHANGED <<vms, created, sibling, mayHave, kept, cleanup>>
        /\ pc[r] = "targets" /\ pc'[r] = "delTapConn" /\ ~byIndex0'[r]
    BY <1>3 DEF CleanUpIndex0, BeginTeardown, Goto, TypeOK, state
  <2> QED
    BY <2>1 DEF QuietRemover, Underway, Ended
<1>4. CASE \E v \in todo[r] : CleanUpFor(r, v)
  <2>1. PICK v \in todo[r] : CleanUpFor(r, v)
    BY <1>4
  <2>2. /\ UNCHANGED <<vms, created, sibling, mayHave, byIndex0, kept, cleanup>>
        /\ pc[r] = "targets" /\ pc'[r] = "delTapConn"
    BY <2>1 DEF CleanUpFor, BeginTeardown, Goto, TypeOK, state
  <2>3. spare'[r] = (sibling[r] \/ todo[r] # {v})
    BY <2>1 DEF CleanUpFor, BeginTeardown, TypeOK
  <2> QED
    BY <2>2, <2>3 DEF QuietRemover, Underway, Ended
<1>5. CASE CleanedUp(r)
  <2>1. /\ UNCHANGED <<vms, created, sibling, byIndex0, kept, cleanup>>
        /\ pc[r] = "tornDown" /\ pc'[r] = "targets"
        /\ mayHave[r] => mayHave'[r] \/ ~spare[r]
    BY <1>5 DEF CleanedUp, Goto, TypeOK, state, tear
  <2> QED
    BY <2>1 DEF QuietRemover, Underway, TeardownPCs, Ended
<1>6. CASE TeardownStep(r)
  <2>1. /\ UNCHANGED <<vms, created, sibling, mayHave, byIndex0, kept, cleanup, spare>>
        /\ pc[r] \in TeardownPCs /\ pc'[r] \in TeardownPCs
    BY <1>6, TeardownQuiet DEF state, plan
  <2> QED
    BY <2>1 DEF QuietRemover, Underway, TeardownPCs, Ended
<1> QED
  BY <1>1, <1>2, <1>3, <1>4, <1>5, <1>6 DEF Step, RemoverStep

(* Who runs, and on which index, is nobody else's doing.                   *)
LEMMA OthersRun ==
  ASSUME NEW p \in Procs, Alone(p), NEW q \in Starts, q # p
  PROVE  /\ Runs(q)' = Runs(q) /\ Networked(q)' = Networked(q) /\ Own(q)' = Own(q)
         /\ name'[q] = name[q] /\ at'[q] = at[q]
BY DEF Alone, Procs, Runs, Networked, Own, config

(* The invocation that moves is the one under way, before and after.       *)
LEMMA OthersAside ==
  ASSUME OneAtATime, OneAtATime', NEW p \in Procs, Alone(p), Underway(p) \/ Underway(p)'
  PROVE  \A q \in Procs \ {p} : ~Underway(q) /\ ~Underway(q)'
BY DEF OneAtATime, Underway, Alone

(* So the invariant is about what runs and about that one.                 *)
LEMMA AloneFrom ==
  ASSUME OneAtATime, OneAtATime', NEW p \in Procs, Alone(p), Underway(p) \/ Underway(p)',
         RunningShown',
         (p \in Starts /\ Underway(p)') => StartKnows(p)',
         (p \in Removers /\ Underway(p)') => RemoverKnows(p)'
  PROVE  AloneInv'
<1>1. \A q \in Procs \ {p} : ~Underway(q)'
  BY OthersAside
<1> QED
  BY <1>1 DEF AloneInv, Procs

LEMMA StartKeepsAlone ==
  ASSUME TypeOK, AloneInv, OneAtATime, OneAtATime', NEW p \in Starts, Step(p)
  PROVE  AloneInv'
<1> p \in Procs /\ p \notin Removers /\ Alone(p)
  BY StepAlone, RoleAssumption DEF Procs
<1>0. /\ RunningShown /\ (Underway(p) => StartKnows(p))
      /\ \A q \in Starts : q # p => /\ Runs(q)' = Runs(q) /\ Networked(q)' = Networked(q)
                                    /\ Own(q)' = Own(q) /\ name'[q] = name[q] /\ at'[q] = at[q]
      /\ name' = name /\ mode' = mode /\ name[p] \in Names /\ \A q \in Starts : name[q] \in Names
  BY OthersRun DEF AloneInv, Alone, config, TypeOK
<1>1. CASE Stop(p)
  <2>1. /\ UNCHANGED <<vms, created, mayHave, name, mode, at, sibling, spare, cleanup, kept, todo, byIndex0>>
        /\ pc[p] = "running" /\ pc' = [pc EXCEPT ![p] = "stopped"]
    BY <1>1 DEF Stop, Stay, Goto, state, config, tear, plan
  <2>2. \A q \in Procs : pc'[q] = IF q = p THEN "stopped" ELSE pc[q]
    BY <2>1 DEF TypeOK
  <2>3. /\ \A q \in Starts : (Runs(q)' => Runs(q)) /\ (Networked(q)' => Networked(q)) /\ Own(q)' = Own(q)
        /\ \A q \in Procs : Underway(q)' => Underway(q) /\ pc'[q] = pc[q]
    BY <2>1, <2>2 DEF Runs, Networked, Own, Underway, Procs, Ended
  <2>4. RunningShown'
    BY <1>0, <2>1, <2>3 DEF RunningShown
  <2>5. ASSUME NEW s \in Starts, Underway(s)' PROVE StartKnows(s)'
    <3>1. StartKnows(s) /\ pc'[s] = pc[s]
      BY <2>3, <2>5 DEF AloneInv, Procs
    <3> QED
      BY <2>1, <2>3, <3>1 DEF StartKnows
  <2>6. ASSUME NEW r \in Removers, Underway(r)' PROVE RemoverKnows(r)'
    <3>1. RemoverKnows(r) /\ pc'[r] = pc[r]
      BY <2>3, <2>6 DEF AloneInv, Procs
    <3> QED
      BY <2>1, <2>3, <3>1 DEF RemoverKnows
  <2> QED
    BY <2>4, <2>5, <2>6 DEF AloneInv
<1>2. CASE Load(p)
  <2>1. /\ UNCHANGED <<vms, created>> /\ mayHave'[p] = created /\ pc'[p] = "loaded"
    BY <1>2 DEF Load, Goto, TypeOK, state
  <2>2. Underway(p)' /\ ~Runs(p)'
    BY <2>1 DEF Underway, Runs, Ended
  <2>3. RunningShown'
    BY <1>0, <2>1, <2>2 DEF RunningShown
  <2>4. StartKnows(p)'
    BY <2>1 DEF StartKnows
  <2> QED
    BY <2>2, <2>3, <2>4, AloneFrom
<1>3. CASE Reserve(p)
  <2>1. /\ pc[p] = "loaded" /\ pc'[p] \in {"prepared", "preflight"}
        /\ pc'[p] = "prepared" => mode[p] = "user"
        /\ UNCHANGED <<created, mayHave>> /\ ~Live(name[p])
        /\ sibling'[p] = SiblingLive({name[p]})
    BY <1>3 DEF Reserve, Goto, TypeOK, plan
  <2>2. PICK i \in FreeIndices :
          /\ vms' = [vms EXCEPT ![name[p]] = [index |-> i, starter |-> p]]
          /\ at' = [at EXCEPT ![p] = i]
    BY <1>3 DEF Reserve
  <2>3. at'[p] = i
    BY <2>2 DEF TypeOK
  <2>4. ASSUME NEW q \in Starts, Runs(q)
        PROVE  /\ q # p /\ vms[name[q]] = Own(q) /\ name[q] # name[p]
               /\ vms'[name[q]] = Own(q) /\ sibling'[p] /\ i # at[q]
    <3>1. q # p /\ vms[name[q]] = Own(q) /\ vms[name[q]] \in VM \cup {NoVM}
      BY <1>0, <2>1, <2>4 DEF RunningShown, Runs, TypeOK
    <3>2. Own(q) \in VM /\ VMIsLive(Own(q)) /\ Own(q).index = at[q]
      BY <2>4 DEF Own, VM, VMIsLive, Runs, Ended, TypeOK, Procs
    <3>3. Live(name[q])
      BY <3>1, <3>2, RoleAssumption DEF Live
    <3>4. name[q] # name[p] /\ sibling'[p] /\ i # at[q]
      BY <1>0, <2>1, <2>2, <3>1, <3>2, <3>3 DEF SiblingLive, FreeIndices
    <3> QED
      BY <1>0, <2>2, <3>1, <3>4 DEF TypeOK
  <2>5. Underway(p) /\ Underway(p)' /\ ~Runs(p)'
    BY <2>1 DEF Underway, Runs, Ended
  <2>6. RunningShown'
    BY <1>0, <2>1, <2>4, <2>5 DEF RunningShown
  <2>7. StartKnows(p)'
    BY <1>0, <2>1, <2>3, <2>4, <2>5 DEF StartKnows
  <2> QED
    BY <2>5, <2>6, <2>7, AloneFrom
<1>4. CASE Record(p) \/ Release(p)
  <2>1. /\ pc[p] \in {"prepared", "failing", "aborting"} /\ pc'[p] \in {"running", "failed"}
        /\ UNCHANGED at
        /\ \A n \in Names \ {name[p]} : vms'[n] = vms[n]
    BY <1>4 DEF Record, Release, Goto, TypeOK, tear
  <2>2. Underway(p) /\ ~Underway(p)' /\ StartKnows(p)
    BY <1>0, <2>1 DEF Underway, Ended
  <2>3. ASSUME NEW q \in Starts, q # p, Runs(q)
        PROVE  vms'[name[q]] = Own(q) /\ (Networked(q) => created')
    <3>1. vms[name[q]] = Own(q) /\ (Networked(q) => created) /\ name[q] # name[p]
      BY <1>0, <2>1, <2>2, <2>3 DEF RunningShown, StartKnows
    <3>2. created => created'
      BY <1>4, <2>2 DEF Record, Release, StartKnows
    <3> QED
      BY <1>0, <2>1, <3>1, <3>2
  <2>4. ASSUME Runs(p)' PROVE vms'[name[p]] = Own(p)' /\ (Networked(p)' => created')
    <3>1. /\ pc[p] = "prepared" /\ vms' = [vms EXCEPT ![name[p]] = [index |-> at[p], starter |-> p]]
          /\ created' = mayHave[p]
      BY <1>4, <2>1, <2>4 DEF Record, Release, Goto, TypeOK, Runs
    <3> QED
      BY <1>0, <2>1, <2>2, <3>1 DEF StartKnows, Own, Networked, TypeOK
  <2>5. RunningShown'
    BY <1>0, <2>3, <2>4 DEF RunningShown
  <2> QED
    BY <2>2, <2>5, AloneFrom
<1>5. CASE QuietStart(p)
  <2>1. Underway(p) /\ ~Runs(p)'
    BY <1>5 DEF QuietStart, Runs
  <2>2. RunningShown'
    BY <1>0, <1>5, <2>1 DEF RunningShown, QuietStart
  <2>3. Underway(p)' => StartKnows(p)'
    BY <1>0, <1>5, <2>1 DEF StartKnows, QuietStart
  <2> QED
    BY <2>1, <2>2, <2>3, AloneFrom
<1> QED
  BY <1>1, <1>2, <1>3, <1>4, <1>5, StartQuiet

LEMMA RemoverKeepsAlone ==
  ASSUME TypeOK, SiblingsInv, AloneInv, OneAtATime, OneAtATime', NEW r \in Removers, Step(r)
  PROVE  AloneInv'
<1> r \in Procs /\ r \notin Starts /\ Alone(r)
  BY StepAlone, RoleAssumption DEF Procs
<1>0. /\ RunningShown /\ (Underway(r) => RemoverKnows(r))
      /\ \A q \in Starts : /\ Runs(q)' = Runs(q) /\ Networked(q)' = Networked(q)
                           /\ Own(q)' = Own(q) /\ name'[q] = name[q] /\ name[q] \in Names
  BY OthersRun DEF AloneInv, TypeOK
<1>1. ASSUME NEW T \in SUBSET Names, NEW all \in BOOLEAN, NEW index0 \in BOOLEAN,
             MakePlan(r, T, all, index0), all => T = Names,
             (index0 /\ created) => Records(Names) = {}
      PROVE  AloneInv'
  <2>1. /\ pc[r] = "idle" /\ pc'[r] = "confirm" /\ UNCHANGED state
        /\ mayHave'[r] = created /\ byIndex0'[r] = index0
        /\ cleanup'[r] = all /\ todo'[r] = Records(T) /\ sibling'[r] = SiblingLive(T)
        /\ \A n \in Names \ T : kept'[r][n] = vms[n]
    BY <1>1 DEF MakePlan, Goto, TypeOK
  <2>2. Underway(r)'
    BY <2>1 DEF Underway, Ended
  <2>3. RunningShown'
    BY <1>0, <2>1 DEF RunningShown, state
  <2>4. ASSUME NEW q \in Starts, Runs(q)
        PROVE  /\ \/ sibling'[r] /\ ~cleanup'[r] /\ kept'[r][name[q]] = Own(q)
                  \/ pc'[r] = "confirm" /\ Own(q) \in todo'[r]
               /\ Networked(q) => mayHave'[r] /\ ~byIndex0'[r]
    <3>1. vms[name[q]] = Own(q) /\ (Networked(q) => created)
      BY <1>0, <2>4 DEF RunningShown
    <3>2. Own(q) \in VM /\ VMIsLive(Own(q))
      BY <2>4 DEF Own, VM, VMIsLive, Runs, Ended, TypeOK, Procs
    <3>3. Live(name[q]) /\ Own(q) # NoVM
      BY <3>1, <3>2, RoleAssumption DEF Live
    <3>4. Own(q) \in Records(Names)
      BY <1>0, <3>1, <3>3 DEF Records
    <3>5. CASE name[q] \in T
      <4>1. Own(q) \in Records(T)
        BY <3>1, <3>3, <3>5 DEF Records
      <4> QED
        BY <1>1, <2>1, <3>1, <3>4, <4>1
    <3>6. CASE name[q] \notin T
      <4>1. SiblingLive(T) /\ ~all
        BY <1>0, <1>1, <3>3, <3>6 DEF SiblingLive
      <4> QED
        BY <1>0, <1>1, <2>1, <3>1, <3>4, <3>6, <4>1
    <3> QED
      BY <3>5, <3>6
  <2>5. RemoverKnows(r)'
    BY <1>0, <2>1, <2>4 DEF RemoverKnows, TeardownPCs
  <2> QED
    BY <2>2, <2>3, <2>5, AloneFrom
<1>2. CASE ResetPlans(r)
  <2>1. PICK T \in SUBSET Names, stale \in BOOLEAN : MakePlan(r, T, FALSE, ~created /\ stale)
    BY <1>2 DEF ResetPlans, Probe, Stale
  <2>2. (~created /\ stale) \in BOOLEAN
    OBVIOUS
  <2> QED
    BY <1>1, <2>1, <2>2
<1>3. CASE CleanupPlans(r)
  <2>1. PICK stale \in BOOLEAN :
          MakePlan(r, Names, TRUE, IF created THEN Records(Names) = {} ELSE stale)
    BY <1>3 DEF CleanupPlans, Probe, Stale
  <2>2. (IF created THEN Records(Names) = {} ELSE stale) \in BOOLEAN
    OBVIOUS
  <2> QED
    BY <1>1, <2>1, <2>2
<1>4. CASE Save(r)
  <2>1. /\ pc[r] = "targets" /\ pc'[r] \in {"warned", "complete"}
        /\ vms' = kept[r] /\ created' = (mayHave[r] /\ ~cleanup[r])
    BY <1>4 DEF Save, Goto, TypeOK
  <2>2. Underway(r) /\ ~Underway(r)' /\ RemoverKnows(r)
    BY <1>0, <2>1 DEF Underway, Ended
  <2>3. RunningShown'
    BY <1>0, <2>1, <2>2 DEF RunningShown, RemoverKnows
  <2> QED
    BY <2>2, <2>3, AloneFrom
<1>5. CASE QuietRemover(r)
  <2>1. Underway(r) /\ RemoverKnows(r)
    BY <1>0, <1>5 DEF QuietRemover
  <2>2. RunningShown'
    BY <1>0, <1>5 DEF RunningShown, QuietRemover
  <2>3. ASSUME Underway(r)', NEW q \in Starts, Runs(q)
        PROVE  /\ sibling'[r] /\ ~cleanup'[r] /\ kept'[r][name[q]] = Own(q)
               /\ Networked(q) =>
                    mayHave'[r] /\ ~byIndex0'[r] /\ (pc'[r] \in TeardownPCs => spare'[r])
    <3>1. VMIsLive(Own(q))
      BY <2>3 DEF VMIsLive, Own, Runs, Ended
    <3>2. sibling[r] /\ ~cleanup[r] /\ kept[r][name[q]] = Own(q)
      BY <1>5, <2>1, <2>3, <3>1 DEF RemoverKnows, QuietRemover
    <3>3. Networked(q) =>
            mayHave[r] /\ ~byIndex0[r] /\ (pc[r] \in TeardownPCs => spare[r])
      BY <2>1, <2>3 DEF RemoverKnows
    <3> QED
      BY <1>5, <3>2, <3>3 DEF QuietRemover
  <2>4. Underway(r)' => RemoverKnows(r)'
    BY <1>0, <2>3 DEF RemoverKnows
  <2> QED
    BY <2>1, <2>2, <2>4, AloneFrom
<1> QED
  BY <1>2, <1>3, <1>4, <1>5, RemoverQuiet

(* Invocations one at a time: no VM that runs is forgotten.                *)
LEMMA AloneInvCorrect == Spec /\ []OneAtATime => []AloneInv
<1>1. Init => AloneInv
  <2> SUFFICES ASSUME Init PROVE AloneInv
    OBVIOUS
  <2>1. \A p \in Procs : ~Underway(p) /\ ~Runs(p)
    BY DEF Init, Underway, Runs
  <2> QED
    BY <2>1 DEF AloneInv, RunningShown, Procs
<1>2. /\ TypeOK /\ SiblingsInv /\ AloneInv /\ OneAtATime /\ OneAtATime' /\ [Next]_vars
      => AloneInv'
  <2> SUFFICES ASSUME TypeOK, SiblingsInv, AloneInv, OneAtATime, OneAtATime', [Next]_vars
               PROVE  AloneInv'
    OBVIOUS
  <2>1. CASE UNCHANGED vars \/ \E n \in ForeignNICs \cup {"uplink"} : NICAttaches(n)
    <3>1. UNCHANGED <<state, pc, config, tear, plan>>
      BY <2>1 DEF vars, NICAttaches
    <3> QED
      BY <3>1 DEF AloneInv, RunningShown, StartKnows, RemoverKnows, Underway, Runs, Networked, Own,
         state, config, tear, plan
  <2>2. ASSUME NEW p \in Procs, Step(p) PROVE AloneInv'
    BY <2>2, StartKeepsAlone, RemoverKeepsAlone DEF Procs
  <2> QED
    BY <2>1, <2>2, Steps
<1> QED
  BY <1>1, <1>2, TypeCorrect, SiblingsInvCorrect, PTL DEF Spec

(* With invocations one at a time, prompts included, a guest is taken off  *)
(* the network in one way only: reset of a VM that does not run takes down *)
(* the tap of an index which the record still has and the guest was given  *)
(* since.  The bridge under a guest stays.                                 *)
THEOREM AloneSiblings ==
  Spec /\ []OneAtATime =>
    [][\A q \in Starts : Disconnects(q) =>
         \E r \in Removers : Moves(r) /\ at[r] = at[q] /\ spare[r]]_vars
<1> DEFINE Kept == \A q \in Starts : Disconnects(q) =>
                     \E r \in Removers : Moves(r) /\ at[r] = at[q] /\ spare[r]
<1>1. TypeOK /\ SiblingsInv /\ AloneInv /\ OneAtATime /\ [Next]_vars => [Kept]_vars
  <2> SUFFICES ASSUME TypeOK, SiblingsInv, AloneInv, OneAtATime, [Next]_vars,
                      NEW q \in Starts, Disconnects(q)
               PROVE  \E r \in Removers : Moves(r) /\ at[r] = at[q] /\ spare[r]
    OBVIOUS
  <2> q \in Procs
    BY DEF Procs
  <2>0. /\ pc[q] \in {"tapCheck", "prepared", "running"} /\ mode[q] # "user"
        /\ pc'[q] \in {"tapCheck", "prepared", "running"}
        /\ at[q] \in host.ports /\ host.link
        /\ ~(at'[q] \in host'.ports /\ host'.link)
    BY DEF Disconnects, Guest, Connected
  <2>1. host \in Host /\ at \in [Procs -> Indices]
    BY DEF TypeOK
  <2>2. at'[q] = at[q]
    <3>1. CASE UNCHANGED vars \/ \E n \in ForeignNICs \cup {"uplink"} : NICAttaches(n)
      BY <3>1 DEF vars, NICAttaches, tear
    <3>2. ASSUME NEW p \in Procs, p # q, Step(p) PROVE at'[q] = at[q]
      BY <3>2, StepAlone DEF Alone
    <3>3. ASSUME Step(q) PROVE at'[q] = at[q]
      <4>1. ~Reserve(q) /\ q \notin Removers
        BY <2>0, RoleAssumption DEF Reserve, Goto
      <4>2. Follows(q)
        BY <3>3, <4>1, StepFollows DEF SiblingsInv
      <4> QED
        BY <4>2 DEF Follows
    <3> QED
      BY <3>1, <3>2, <3>3, Steps
  <2>3. CASE \E n \in ForeignNICs \cup {"uplink"} : NICAttaches(n)
    BY <2>0, <2>1, <2>2, <2>3 DEF NICAttaches, Host
  <2>4. CASE Rises
    BY <2>0, <2>2, <2>4 DEF Rises
  <2>5. ASSUME NEW p \in Procs, HostStep(p), ~Rises
        PROVE  \E r \in Removers : Moves(r) /\ at[r] = at[q] /\ spare[r]
    <3>1. CASE WritesShared(p)
      BY <2>0, <2>1, <2>2, <3>1 DEF WritesShared, Host
    <3>2. CASE LowersUplink(p)
      <4>1. DeleteUplink(host).ports = host.ports /\ DeleteUplink(host).link = host.link
        BY <2>1 DEF DeleteUplink, Host
      <4> QED
        BY <2>0, <2>2, <3>2, <4>1 DEF LowersUplink
    <3>3. CASE LowersTap(p) \/ LowersBridge(p)
      <4>1. p # q /\ Moves(p) /\ Underway(p)
        BY <2>0, <3>3 DEF LowersTap, LowersBridge, Moves, Underway, Ended
      <4>2. Runs(q) /\ Networked(q)
        BY <2>0, <4>1 DEF OneAtATime, Underway, Runs, Networked, Ended
      <4>3. CASE p \in Starts
        <5>1. sibling[p] /\ at[p] # at[q]
          BY <3>3, <4>1, <4>2, <4>3 DEF AloneInv, StartKnows, LowersTap, LowersBridge
        <5>2. ~LowersBridge(p)
          BY <4>3, <5>1 DEF LowersBridge, SiblingsInv, StartsAlone, TeardownPCs
        <5>3. LowersTap(p)
          BY <3>3, <5>2
        <5>4. \A h \in {TapDown(host, at[p]), DeleteTap(host, at[p])} :
                h.link = host.link /\ h.ports = host.ports \ {at[p]}
          BY <2>1 DEF TapDown, DeleteTap, Host
        <5> QED
          BY <2>0, <2>2, <5>1, <5>3, <5>4 DEF LowersTap
      <4>4. CASE p \in Removers
        <5>1. pc[p] \in RemoverPCs \cup TeardownPCs \cup Ended
          BY <4>4 DEF SiblingsInv, RemoversSpare
        <5>2. pc[p] \in TeardownPCs
          BY <3>3, <5>1 DEF LowersTap, LowersBridge, RemoverPCs, TeardownPCs, Ended
        <5>3. spare[p]
          BY <4>1, <4>2, <4>4, <5>2 DEF AloneInv, RemoverKnows
        <5>4. ~LowersBridge(p)
          BY <5>2, <5>3 DEF LowersBridge, SiblingsInv, BridgeSpared, AtBridge, TeardownPCs
        <5>5. \A h \in {TapDown(host, at[p]), DeleteTap(host, at[p])} :
                h.link = host.link /\ h.ports = host.ports \ {at[p]}
          BY <2>1 DEF TapDown, DeleteTap, Host
        <5>6. at[p] = at[q]
          BY <2>0, <2>2, <3>3, <5>4, <5>5 DEF LowersTap
        <5> QED
          BY <4>1, <4>4, <5>3, <5>6
      <4> QED
        BY <4>3, <4>4 DEF Procs
    <3> QED
      BY <2>5, <3>1, <3>2, <3>3 DEF HostStep
  <2> QED
    BY <2>3, <2>4, <2>5, HostSteps
<1> QED
  BY <1>1, TypeCorrect, SiblingsInvCorrect, AloneInvCorrect, PTL DEF Spec
=============================================================================
