--------------------------- MODULE AddressLookup ---------------------------
(***************************************************************************)
(* Looking for the address of a guest (internal/vm, ipaddr.go and          *)
(* ipaddr_parse.go): Resolve asks the lease file, the neighbour table and  *)
(* the guest agent in turn; Poll, run beside a VM, does so on a ticker     *)
(* until it has an answer, its budget is spent or QEMU has exited; status  *)
(* asks once.  Meanwhile guests come and go, leases run out and the tables *)
(* keep what is old.                                                       *)
(*                                                                         *)
(* The file and the table are kept by address, so whoever reads them may   *)
(* meet the lines of one NIC in any order.                                 *)
(***************************************************************************)
EXTENDS Integers

CONSTANTS
  NICs,         \* hardware addresses
  MAC,          \* the one of this disk
  NoMAC,        \* none, or what is not one: a row or a record without
  Addresses,    \* IPv4 addresses of guests
  Odd,          \* addresses no guest is reached at: IPv6, multicast
  NoIP,         \* no address
  Bridge, Uplink,
  NoExpiry,     \* an expiry of 0, or one that cannot be read
  LeaseTime,
  Interval,     \* DefaultIPPollInterval
  ReadTimeout,  \* qgaReadTimeout
  PollTimeout,  \* DefaultIPPollTimeout
  LiveTimeout   \* liveIPLookupTimeout

ASSUME NameAssumption ==
  /\ MAC \in NICs /\ NoMAC \notin NICs /\ NoIP \notin Addresses \cup Odd /\ Addresses \cap Odd = {}
  /\ Bridge # Uplink /\ NoExpiry \notin Int
ASSUME TimeAssumption ==
  /\ Interval \in Nat \ {0} /\ ReadTimeout \in 0..Interval
  /\ {PollTimeout, LiveTimeout} \subseteq Nat \ {0} /\ LeaseTime \in Nat

VARIABLES
  now,       \* the clock
  lease,     \* the lease file
  neigh,     \* the neighbour table
  has,       \* the address each running guest uses
  caller,    \* "start" or "status"
  mac,       \* IPLookup.MAC
  mode,      \* IPLookup.Mode
  cancelled, \* QEMU has exited, and Wait has returned
  pc,        \* where the lookup is
  began,     \* history: when the attempt began
  tick,      \* the time of the next tick
  asked,     \* when the agent was asked last
  readUntil, \* the deadline of that exchange
  answer,    \* IPResult
  torn       \* history: the answer came from a line that was being written

guests == <<lease, neigh, has>>
lookup == <<caller, mac, mode>>
timers == <<began, tick, asked, readUntil>>
result == <<answer, torn>>
vars   == <<now, guests, lookup, cancelled, pc, timers, result>>

NoLine   == [mac |-> NoMAC, until |-> NoExpiry]
Line     == [mac : NICs \cup {NoMAC}, until : Int \cup {NoExpiry}]
NoAnswer == [ip |-> NoIP, source |-> "none"]
Places   == (Addresses \cup Odd) \X {Bridge, Uplink}

Budget == IF caller = "start" THEN PollTimeout ELSE LiveTimeout

(* ctx: Poll's timeout or status's, and the cancellation.                  *)
CtxDone == cancelled \/ now >= Budget

-----------------------------------------------------------------------------
(* The parsers: the addresses that may be found, none for "".              *)

SameMAC(needle, candidate) == needle # NoMAC /\ candidate = needle

AnyAddress(a) == TRUE

UsableIPv4(a) == a \in Addresses

NeverExpired(line) == FALSE

LeaseExpired(line) == line.until # NoExpiry /\ line.until < now

(* Of the rows a reader got to see.                                        *)
ParseLeases(rows) ==
  {a \in rows : SameMAC(mac, lease[a].mac) /\ ~LeaseExpired(lease[a]) /\ UsableIPv4(a)}

(* An entry on iface, and only without one any other.                      *)
ParseNeigh(iface) ==
  LET Found(d) == {a \in Addresses \cup Odd : SameMAC(mac, neigh[<<a, d>>]) /\ UsableIPv4(a)}
  IN  IF Found(iface) # {} THEN Found(iface) ELSE Found(Bridge) \cup Found(Uplink)

ParseQGA == {a \in {has[m] : m \in {n \in NICs : SameMAC(mac, n)}} : UsableIPv4(a)}

-----------------------------------------------------------------------------
(* What an earlier run left: a lease of any NIC, run out or not, and       *)
(* entries on the uplink.                                                  *)
Init ==
  /\ now = 0
  /\ lease \in [Addresses -> {[mac |-> m, until |-> u] : m \in NICs, u \in {-1, LeaseTime}}
                               \cup {NoLine}]
  /\ neigh \in {n \in [Places -> {MAC, NoMAC}] :
                 \A p \in Places : n[p] = MAC => p \in Addresses \X {Uplink}}
  /\ has = [m \in NICs |-> NoIP]
  /\ caller \in {"start", "status"}
  /\ mac \in {MAC} \cup (IF caller = "status" THEN {NoMAC} ELSE {})
  /\ mode \in {"shared", "bridged"}
  /\ cancelled = FALSE
  /\ pc = "attempt"
  /\ began = 0 /\ tick = Interval
  /\ asked = 0 /\ readUntil = 0
  /\ answer = NoAnswer
  /\ torn = FALSE

-----------------------------------------------------------------------------
(* Resolve                                                                 *)

Goto(from, to) == pc = from /\ pc' = to

Answers(a, source) ==
  /\ answer' = [ip |-> a, source |-> source]
  /\ pc' = "done"

Unanswered(from) ==
  /\ Goto(from, IF caller = "start" THEN "waiting" ELSE "done")
  /\ UNCHANGED <<now, guests, lookup, cancelled, timers, result>>

(* An invalid MAC ends Poll and Resolve at once.                           *)
Refuse ==
  /\ mac = NoMAC
  /\ Goto("attempt", "done")
  /\ UNCHANGED <<now, guests, lookup, cancelled, timers, result>>

Attempt ==
  /\ mac # NoMAC /\ ~CtxDone
  /\ Goto("attempt", IF mode = "shared" THEN "lease" ELSE "neigh")
  /\ UNCHANGED <<now, guests, lookup, cancelled, timers, result>>

AttemptTooLate == mac # NoMAC /\ CtxDone /\ Unanswered("attempt")

(* A file that cannot be read has no rows, one being written only some.    *)
LeaseFound ==
  \E a \in ParseLeases(Addresses) :
    /\ pc = "lease" /\ Answers(a, "dhcp-lease")
    /\ UNCHANGED <<now, guests, lookup, cancelled, timers, torn>>

LeaseNotFound ==
  \E rows \in SUBSET Addresses :
    /\ ParseLeases(rows) = {}
    /\ Goto("lease", "neigh")
    /\ UNCHANGED <<now, guests, lookup, cancelled, timers, result>>

(* A line cut within its address reads as a line of another address.       *)
LeaseTorn ==
  \E a \in ParseLeases(Addresses), b \in Addresses :
    /\ pc = "lease" /\ Answers(b, "dhcp-lease")
    /\ torn' = TRUE
    /\ UNCHANGED <<now, guests, lookup, cancelled, timers>>

(* The probe is killed when ctx is done.                                   *)
NeighbourFound ==
  \E a \in ParseNeigh(Bridge) :
    /\ ~CtxDone
    /\ pc = "neigh" /\ Answers(a, "arp")
    /\ UNCHANGED <<now, guests, lookup, cancelled, timers, torn>>

(* There is none, or the probe failed.                                     *)
NeighbourNotFound ==
  /\ Goto("neigh", "dial")
  /\ UNCHANGED <<now, guests, lookup, cancelled, timers, result>>

QgaPatient(t) == Budget

(* qgaDeadline, asked for at t.                                            *)
QgaDeadline(t) == IF Budget < t + ReadTimeout THEN Budget ELSE t + ReadTimeout

AskAgent ==
  /\ Goto("dial", "reading")
  /\ asked' = now
  /\ readUntil' = QgaDeadline(now)
  /\ UNCHANGED <<now, guests, lookup, cancelled, began, tick, result>>

(* Or it never does: nobody may be reading what it was sent.               *)
AgentAnswers ==
  \E a \in ParseQGA :
    /\ pc = "reading" /\ now <= readUntil
    /\ Answers(a, "qemu-guest-agent")
    /\ UNCHANGED <<now, guests, lookup, cancelled, timers, torn>>

(* No socket, a connection that breaks, an answer without an address.      *)
AgentFails == Unanswered("reading")

(* The watcher moves the deadline when ctx is done.                        *)
ReadOver == now >= readUntil \/ CtxDone

ReadEnds == ReadOver /\ Unanswered("reading")

-----------------------------------------------------------------------------
(* Poll                                                                    *)

(* The ticker keeps one tick and drops the others.                         *)
NextAttempt ==
  /\ now >= tick
  /\ Goto("waiting", "attempt")
  /\ began' = now
  /\ tick' = ((now \div Interval) + 1) * Interval
  /\ UNCHANGED <<now, guests, lookup, cancelled, asked, readUntil, result>>

GiveUpOnAttempt ==
  /\ CtxDone
  /\ Goto("attempt", "done")
  /\ UNCHANGED <<now, guests, lookup, cancelled, timers, result>>

GiveUp ==
  /\ CtxDone
  /\ Goto("waiting", "done")
  /\ UNCHANGED <<now, guests, lookup, cancelled, timers, result>>

-----------------------------------------------------------------------------
(* The others                                                              *)

RunOut(line, t) == line.until # NoExpiry /\ line.until < t

Uses(m, a) ==
  /\ m # mac \/ ~cancelled
  /\ has' = [has EXCEPT ![m] = a]
  /\ neigh' = [neigh EXCEPT ![<<a, Bridge>>] = m]
  /\ UNCHANGED <<now, lookup, cancelled, pc, timers, result>>

Free(m, a) == \A n \in NICs \ {m} : has[n] # a

MayLease(m, a) == Free(m, a) /\ (lease[a].mac \in {NoMAC, m} \/ RunOut(lease[a], now))

(* The server hands out or renews an address that is nobody else's: one    *)
(* never leased, or whose lease ran out.  A NIC may have several leases.   *)
Lease(m, a) ==
  /\ mode = "shared" /\ MayLease(m, a)
  /\ \E u \in {now + LeaseTime, NoExpiry} : lease' = [lease EXCEPT ![a] = [mac |-> m, until |-> u]]
  /\ Uses(m, a)

(* A server on the network of the uplink does.                             *)
LanLease(m, a) ==
  /\ mode = "bridged" /\ Free(m, a)
  /\ Uses(m, a)
  /\ UNCHANGED lease

(* A guest speaks IPv6 as well, or a multicast entry is kept.              *)
Speak(m, a) ==
  /\ has[m] # NoIP
  /\ neigh' = [neigh EXCEPT ![<<a, Bridge>>] = m]
  /\ UNCHANGED <<now, lease, has, lookup, cancelled, pc, timers, result>>

Age(p) ==
  /\ neigh' = [neigh EXCEPT ![p] = NoMAC]
  /\ UNCHANGED <<now, lease, has, lookup, cancelled, pc, timers, result>>

Leave(m) ==
  /\ has' = [has EXCEPT ![m] = NoIP]
  /\ UNCHANGED <<now, lease, neigh, lookup, cancelled, pc, timers, result>>

(* QEMU exits, and runStart's cancelIPPoll.                                *)
Cancel ==
  /\ caller = "start" /\ ~cancelled
  /\ cancelled' = TRUE
  /\ has' = [has EXCEPT ![mac] = NoIP]
  /\ UNCHANGED <<now, lease, neigh, lookup, pc, timers, result>>

(* Time passes while the probe, the agent or the ticker is waited for, and *)
(* no timer that is due waits.  A guest gives up a lease that runs out.    *)
Tick ==
  /\ \/ pc = "neigh" /\ ~CtxDone
     \/ pc = "reading" /\ ~ReadOver
     \/ pc = "waiting" /\ ~CtxDone /\ now < tick
  /\ now' = now + 1
  /\ has' = [m \in NICs |-> IF mode = "shared" /\ has[m] # NoIP /\ RunOut(lease[has[m]], now')
                             THEN NoIP ELSE has[m]]
  /\ UNCHANGED <<lease, neigh, lookup, cancelled, pc, timers, result>>

-----------------------------------------------------------------------------
LookupStep ==
  \/ Refuse \/ Attempt \/ AttemptTooLate
  \/ LeaseFound \/ LeaseNotFound \/ LeaseTorn
  \/ NeighbourFound \/ NeighbourNotFound
  \/ AskAgent \/ AgentAnswers \/ AgentFails \/ ReadEnds
  \/ NextAttempt \/ GiveUp

Next ==
  \/ LookupStep \/ Cancel \/ Tick
  \/ \E m \in NICs : Leave(m) \/ (\E a \in Addresses : Lease(m, a) \/ LanLease(m, a))
                     \/ (\E a \in Odd : Speak(m, a))
  \/ \E p \in Places : Age(p)

(* The lookup's own code runs, and so does the clock.  Nothing is assumed  *)
(* of the agent, and of the probe only that it can be killed.              *)
Own ==
  \/ Refuse \/ Attempt \/ AttemptTooLate \/ LeaseFound \/ LeaseNotFound
  \/ CtxDone /\ NeighbourNotFound
  \/ AskAgent \/ ReadEnds \/ NextAttempt \/ GiveUp

Fairness == WF_vars(Own) /\ WF_vars(Tick)

Spec == Init /\ [][Next]_vars /\ Fairness

-----------------------------------------------------------------------------
(* Properties                                                              *)

TypeOK ==
  /\ now \in 0..Budget
  /\ lease \in [Addresses -> Line]
  /\ neigh \in [Places -> NICs \cup {NoMAC}]
  /\ has \in [NICs -> Addresses \cup {NoIP}]
  /\ caller \in {"start", "status"}
  /\ mac \in {MAC, NoMAC}
  /\ mode \in {"shared", "bridged"}
  /\ cancelled \in BOOLEAN
  /\ pc \in {"attempt", "lease", "neigh", "dial", "reading", "waiting", "done"}
  /\ began \in 0..now /\ tick \in Nat /\ asked \in 0..now /\ readUntil \in 0..Budget
  /\ answer \in {NoAnswer} \cup [ip : Addresses, source : {"dhcp-lease", "arp", "qemu-guest-agent"}]
  /\ torn \in BOOLEAN

(* No address that another guest uses is answered for this one: not from a *)
(* lease an earlier run left, and from the neighbour table only while that *)
(* has nothing of this NIC on the bridge.  And what the lease file answers *)
(* the server would not give to another guest either.                      *)
NotASiblings ==
  [][answer' # answer /\ ~torn' =>
       /\ \/ Free(mac, answer'.ip)
          \/ answer'.source = "arp" /\ \A a \in Addresses : neigh[<<a, Bridge>>] # mac
       /\ answer'.source = "dhcp-lease" =>
            \A m \in NICs \ {mac} : ~MayLease(m, answer'.ip)]_vars

(* An agent that accepts and never answers holds a poll up for one read    *)
(* timeout, however long it stays silent.  The next attempt is due when an *)
(* interval is over since this one began; an exchange that runs past that  *)
(* is added to it, up to its timeout, and no time passes after both.       *)
SilenceIsBounded ==
  /\ pc = "reading" => now <= asked + ReadTimeout
  /\ pc = "waiting" => now <= began + Interval \/ now <= asked + ReadTimeout

(* Every lookup ends, even beside a guest that never gets an address.      *)
PollEnds == <>(pc = "done")
=============================================================================
