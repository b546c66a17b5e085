------------------------ MODULE AddressLookup_proofs ------------------------
(***************************************************************************)
(* Proofs about AddressLookup, for any NICs, addresses and durations.      *)
(***************************************************************************)
EXTENDS AddressLookup, TLAPS

USE NameAssumption, TimeAssumption

(* In shared mode guests use the addresses our server leased to them.      *)
LeasedToUser ==
  mode = "shared" =>
    \A m \in NICs : has[m] # NoIP => lease[has[m]].mac = m /\ ~RunOut(lease[has[m]], now)

(* Who has an entry on the bridge is the last to have used that address.   *)
BridgeRows == \A m \in NICs, a \in Addresses : neigh[<<a, Bridge>>] = m => Free(m, a)

(* Guests use different addresses.                                         *)
UsersDistinct == \A m \in NICs : has[m] # NoIP => Free(m, has[m])

LeaseInShared == pc = "lease" => mode = "shared"

(* No timer that is due has been waited past.                              *)
TimersKept ==
  /\ tick <= began + Interval
  /\ pc = "attempt" => now < tick
  /\ pc = "reading" => now <= readUntil /\ readUntil <= asked + ReadTimeout
  /\ pc = "waiting" => now <= asked + ReadTimeout \/ now <= tick

IInv == TypeOK /\ LeasedToUser /\ BridgeRows /\ UsersDistinct /\ LeaseInShared /\ TimersKept

(* The next tick is ahead.                                                 *)
LEMMA NextTick ==
  ASSUME NEW n \in Nat
  PROVE  /\ ((n \div Interval) + 1) * Interval \in Nat
         /\ n < ((n \div Interval) + 1) * Interval
         /\ ((n \div Interval) + 1) * Interval <= n + Interval
<1> DEFINE q == n \div Interval
<1>a. Interval \in Nat /\ Interval > 0
  OBVIOUS
<1>b. q \in Int /\ n % Interval \in Int
  BY <1>a
<1>c. n % Interval >= 0 /\ n % Interval < Interval
  BY <1>a
<1>d. n = (Interval * q) + (n % Interval)
  BY <1>a
<1>e. q >= 0
  BY <1>a, <1>b, <1>c, <1>d
<1>1. q \in Nat /\ n % Interval \in 0..(Interval - 1) /\ n = (Interval * q) + (n % Interval)
  BY <1>a, <1>b, <1>c, <1>d, <1>e
<1> HIDE DEF q
<1>2. (q + 1) * Interval = Interval * q + Interval /\ Interval * q \in Nat
  BY <1>1
<1>3. (q + 1) * Interval \in Nat /\ n < (q + 1) * Interval /\ (q + 1) * Interval <= n + Interval
  BY <1>1, <1>2
<1> QED
  BY <1>3 DEF q

LEMMA BudgetNat == Budget \in Nat \ {0}
BY DEF Budget

LEMMA InitInv == Init => IInv
<1> SUFFICES ASSUME Init PROVE IInv
  OBVIOUS
<1> USE DEF Init
<1>1. lease \in [Addresses -> Line]
  <2> DEFINE Left == {[mac |-> m, until |-> u] : m \in NICs, u \in {-1, LeaseTime}} \cup {NoLine}
  <2>1. Left \subseteq Line
    BY DEF Line, NoLine
  <2>2. lease \in [Addresses -> Left]
    OBVIOUS
  <2> HIDE DEF Left
  <2> QED
    BY <2>1, <2>2
<1>2. neigh \in [Places -> NICs \cup {NoMAC}]
  OBVIOUS
<1>6. now \in 0..Budget /\ readUntil \in 0..Budget /\ asked \in 0..now /\ began \in 0..now /\ tick \in Nat
  BY BudgetNat
<1>7. has \in [NICs -> Addresses \cup {NoIP}] /\ mac \in {MAC, NoMAC}
  OBVIOUS
<1>8. caller \in {"start", "status"} /\ mode \in {"shared", "bridged"}
  OBVIOUS
<1>9. cancelled = FALSE /\ pc = "attempt" /\ answer = NoAnswer /\ torn = FALSE
  OBVIOUS
<1>3. TypeOK
  <2> HIDE DEF Init
  <2> QED
    BY <1>1, <1>2, <1>6, <1>7, <1>8, <1>9 DEF TypeOK
<1>4. BridgeRows /\ LeasedToUser /\ UsersDistinct
  <2>1. \A m \in NICs : has[m] = NoIP
    OBVIOUS
  <2>2. \A m \in NICs, a \in Addresses : Free(m, a)
    BY <2>1 DEF Free
  <2> QED
    BY <2>1, <2>2 DEF BridgeRows, LeasedToUser, UsersDistinct
<1>5. LeaseInShared /\ TimersKept
  BY DEF LeaseInShared, TimersKept
<1> QED
  BY <1>3, <1>4, <1>5 DEF IInv

-----------------------------------------------------------------------------
(* A step of the lookup leaves the guests alone.                           *)
LEMMA LookupInv == IInv /\ LookupStep => IInv'
<1> SUFFICES ASSUME IInv, LookupStep PROVE IInv'
  OBVIOUS
<1>1. UNCHANGED <<now, guests, lookup, cancelled>>
  BY DEF LookupStep, Refuse, Attempt, AttemptTooLate, Unanswered, LeaseFound, LeaseNotFound, LeaseTorn,
     NeighbourFound, NeighbourNotFound, AskAgent, AgentAnswers, AgentFails, ReadEnds, NextAttempt, GiveUp
<1>2. LeasedToUser' /\ BridgeRows' /\ UsersDistinct'
  BY <1>1 DEF IInv, LeasedToUser, BridgeRows, UsersDistinct, Free, guests, lookup
<1>3. now \in Nat /\ now' = now /\ Budget' = Budget /\ Budget \in Nat
  BY <1>1, BudgetNat DEF IInv, TypeOK, Budget, lookup
<1>4. /\ began' \in 0..now' /\ tick' \in Nat /\ asked' \in 0..now' /\ readUntil' \in 0..Budget'
      /\ LeaseInShared' /\ TimersKept'
  <2>1. CASE AskAgent
    <3>1. QgaDeadline(now) \in 0..Budget /\ now <= QgaDeadline(now) /\ QgaDeadline(now) <= now + ReadTimeout
      BY <1>3 DEF QgaDeadline, IInv, TypeOK
    <3> QED
      BY <1>3, <2>1, <3>1 DEF AskAgent, Goto, IInv, TypeOK, LeaseInShared, TimersKept
  <2>2. CASE NextAttempt
    <3>1. tick' \in Nat /\ now < tick' /\ tick' <= now + Interval
      BY <1>3, <2>2, NextTick DEF NextAttempt
    <3>2. began' = now /\ pc' = "attempt" /\ UNCHANGED <<asked, readUntil>>
      BY <2>2 DEF NextAttempt, Goto
    <3> QED
      BY <1>3, <3>1, <3>2 DEF IInv, TypeOK, LeaseInShared, TimersKept
  <2>3. CASE Attempt
    BY <1>3, <2>3 DEF Attempt, Goto, IInv, TypeOK, LeaseInShared, TimersKept, timers, lookup
  <2>4. CASE AttemptTooLate \/ ReadEnds \/ AgentFails
    BY <1>3, <2>4 DEF AttemptTooLate, ReadEnds, AgentFails, Unanswered, Goto, IInv, TypeOK,
       LeaseInShared, TimersKept, timers
  <2>5. CASE Refuse \/ LeaseFound \/ LeaseNotFound \/ LeaseTorn \/ NeighbourFound
              \/ NeighbourNotFound \/ AgentAnswers \/ GiveUp
    <3>1. pc' \in {"done", "neigh", "dial"} /\ UNCHANGED timers
      BY <2>5 DEF Refuse, LeaseFound, LeaseNotFound, LeaseTorn, NeighbourFound, NeighbourNotFound,
         AgentAnswers, GiveUp, Answers, Goto
    <3> QED
      BY <1>3, <3>1 DEF IInv, TypeOK, LeaseInShared, TimersKept, timers
  <2> QED
    BY <2>1, <2>2, <2>3, <2>4, <2>5 DEF LookupStep
<1>5. /\ pc' \in {"attempt", "lease", "neigh", "dial", "reading", "waiting", "done"}
      /\ torn' \in BOOLEAN
  BY DEF LookupStep, Refuse, Attempt, AttemptTooLate, Unanswered, LeaseFound, LeaseNotFound, LeaseTorn,
     NeighbourFound, NeighbourNotFound, AskAgent, AgentAnswers, AgentFails, ReadEnds, NextAttempt, GiveUp,
     Goto, Answers, result, IInv, TypeOK
<1>6. answer' \in {NoAnswer} \cup [ip : Addresses, source : {"dhcp-lease", "arp", "qemu-guest-agent"}]
  <2>1. CASE LeaseFound \/ LeaseTorn \/ NeighbourFound \/ AgentAnswers
    <3>1. PICK a \in Addresses, s \in {"dhcp-lease", "arp", "qemu-guest-agent"} : Answers(a, s)
      BY <2>1 DEF LeaseFound, LeaseTorn, NeighbourFound, AgentAnswers, ParseLeases, ParseNeigh, ParseQGA,
         UsableIPv4
    <3> QED
      BY <3>1 DEF Answers
  <2>2. CASE UNCHANGED answer
    BY <2>2 DEF IInv, TypeOK
  <2> QED
    BY <2>1, <2>2 DEF LookupStep, Refuse, Attempt, AttemptTooLate, Unanswered, LeaseNotFound,
       NeighbourNotFound, AskAgent, AgentFails, ReadEnds, NextAttempt, GiveUp, result
<1>7. TypeOK'
  BY <1>1, <1>3, <1>4, <1>5, <1>6 DEF IInv, TypeOK, guests, lookup
<1> QED
  BY <1>2, <1>4, <1>7 DEF IInv

(* A step of the guests or of their tables leaves the lookup alone.        *)
LEMMA Outside ==
  ASSUME IInv, UNCHANGED <<now, lookup, pc, timers, result>>, cancelled' \in BOOLEAN,
         lease' \in [Addresses -> Line], neigh' \in [Places -> NICs \cup {NoMAC}],
         has' \in [NICs -> Addresses \cup {NoIP}],
         LeasedToUser', BridgeRows', UsersDistinct'
  PROVE  IInv'
<1>1. Budget' = Budget
  BY DEF Budget, lookup
<1> QED
  BY <1>1 DEF IInv, TypeOK, LeaseInShared, TimersKept, lookup, timers, result

(* m takes an address nobody else uses, leased to it in shared mode.       *)
LEMMA UsesInv ==
  ASSUME IInv, NEW m \in NICs, NEW a \in Addresses, Free(m, a), Uses(m, a), UNCHANGED cancelled,
         lease' \in [Addresses -> Line],
         \A b \in Addresses \ {a} : lease'[b] = lease[b],
         mode = "shared" => lease'[a].mac = m /\ ~RunOut(lease'[a], now)
  PROVE  IInv'
<1>1. /\ has' = [has EXCEPT ![m] = a] /\ neigh' = [neigh EXCEPT ![<<a, Bridge>>] = m]
      /\ UNCHANGED <<now, lookup, pc, timers, result>>
  BY DEF Uses
<1>2. has' \in [NICs -> Addresses \cup {NoIP}] /\ neigh' \in [Places -> NICs \cup {NoMAC}]
  BY <1>1 DEF IInv, TypeOK, Places
<1>3. /\ has'[m] = a /\ \A n \in NICs \ {m} : has'[n] = has[n]
      /\ neigh'[<<a, Bridge>>] = m /\ \A b \in Addresses \ {a} : neigh'[<<b, Bridge>>] = neigh[<<b, Bridge>>]
  BY <1>1 DEF IInv, TypeOK, Places
<1>4. UsersDistinct'
  BY <1>3 DEF UsersDistinct, Free, IInv, TypeOK
<1>5. BridgeRows'
  BY <1>3 DEF BridgeRows, Free, IInv, TypeOK
<1>6. LeasedToUser'
  <2> SUFFICES ASSUME mode = "shared", NEW n \in NICs, has'[n] # NoIP
               PROVE  lease'[has'[n]].mac = n /\ ~RunOut(lease'[has'[n]], now)
    BY <1>1 DEF LeasedToUser, lookup, RunOut
  <2>1. CASE n = m
    BY <1>3, <2>1
  <2>2. CASE n # m
    <3>1. has'[n] = has[n] /\ has[n] \in Addresses \ {a}
      BY <1>3, <2>2 DEF Free, IInv, TypeOK
    <3> QED
      BY <3>1 DEF LeasedToUser, IInv
  <2> QED
    BY <2>1, <2>2
<1>7. cancelled' \in BOOLEAN
  BY DEF IInv, TypeOK
<1> QED
  BY <1>1, <1>2, <1>4, <1>5, <1>6, <1>7, Outside

(* Guests stop using addresses; nothing else of them changes.              *)
LEMMA GiveUpAddresses ==
  ASSUME IInv, has' \in [NICs -> Addresses \cup {NoIP}], \A m \in NICs : has'[m] \in {NoIP, has[m]},
         UNCHANGED <<lease, neigh, mode, now>>
  PROVE  LeasedToUser' /\ BridgeRows' /\ UsersDistinct'
<1>1. LeasedToUser'
  BY DEF IInv, LeasedToUser, RunOut
<1>2. BridgeRows' /\ UsersDistinct'
  BY DEF IInv, TypeOK, BridgeRows, UsersDistinct, Free
<1> QED
  BY <1>1, <1>2

LEMMA GuestInv ==
  ASSUME IInv, NEW m \in NICs, NEW a \in Addresses
  PROVE  Lease(m, a) \/ LanLease(m, a) => IInv'
<1>1. ASSUME Lease(m, a) PROVE IInv'
  <2>1. PICK u \in {now + LeaseTime, NoExpiry} : lease' = [lease EXCEPT ![a] = [mac |-> m, until |-> u]]
    BY <1>1 DEF Lease
  <2>2. [mac |-> m, until |-> u] \in Line /\ ~RunOut([mac |-> m, until |-> u], now)
    BY DEF Line, RunOut, IInv, TypeOK
  <2>3. lease'[a] = [mac |-> m, until |-> u] /\ \A b \in Addresses \ {a} : lease'[b] = lease[b]
    BY <2>1 DEF IInv, TypeOK
  <2>4. lease' \in [Addresses -> Line]
    BY <2>1, <2>2 DEF IInv, TypeOK
  <2>5. lease'[a].mac = m /\ ~RunOut(lease'[a], now)
    BY <2>2, <2>3
  <2>6. Free(m, a) /\ Uses(m, a) /\ UNCHANGED cancelled
    BY <1>1 DEF Lease, MayLease, Uses
  <2> QED
    BY <2>3, <2>4, <2>5, <2>6, UsesInv
<1>2. ASSUME LanLease(m, a) PROVE IInv'
  BY <1>2, UsesInv DEF LanLease, Uses, IInv, TypeOK
<1> QED
  BY <1>1, <1>2

LEMMA StepInv == IInv /\ Next => IInv'
<1> SUFFICES ASSUME IInv, Next PROVE IInv'
  OBVIOUS
<1>1. CASE LookupStep
  BY <1>1, LookupInv
<1>2. CASE Tick
  <2>1. now' = now + 1 /\ UNCHANGED <<lease, neigh, lookup, cancelled, pc, timers, result>>
    BY <1>2 DEF Tick
  <2>2. has' \in [NICs -> Addresses \cup {NoIP}] /\ \A m \in NICs : has'[m] \in {NoIP, has[m]}
    BY <1>2 DEF Tick, IInv, TypeOK
  <2>3. \A m \in NICs : mode = "shared" /\ has'[m] # NoIP => ~RunOut(lease[has[m]], now')
    BY <1>2 DEF Tick
  <2>4. LeasedToUser' /\ BridgeRows' /\ UsersDistinct'
    <3>1. LeasedToUser'
      BY <2>1, <2>2, <2>3 DEF IInv, LeasedToUser, RunOut, lookup
    <3>2. BridgeRows' /\ UsersDistinct'
      BY <2>1, <2>2 DEF IInv, TypeOK, BridgeRows, UsersDistinct, Free
    <3> QED
      BY <3>1, <3>2
  <2>5. now \in Nat /\ Budget \in Nat /\ Budget' = Budget
    BY <2>1, BudgetNat DEF IInv, TypeOK, Budget, lookup
  <2>6. now' \in 0..Budget' /\ TimersKept' /\ LeaseInShared'
    BY <1>2, <2>1, <2>5 DEF Tick, CtxDone, ReadOver, IInv, TypeOK, TimersKept, LeaseInShared, timers,
       lookup
  <2> QED
    BY <2>1, <2>2, <2>4, <2>5, <2>6 DEF IInv, TypeOK, lookup, timers, result
<1>3. CASE Cancel
  <2>1. /\ has' \in [NICs -> Addresses \cup {NoIP}] /\ \A m \in NICs : has'[m] \in {NoIP, has[m]}
        /\ UNCHANGED <<lease, neigh, now, lookup, pc, timers, result>> /\ cancelled' \in BOOLEAN
    BY <1>3 DEF Cancel, IInv, TypeOK
  <2> QED
    BY <2>1, GiveUpAddresses, Outside DEF lookup, IInv, TypeOK
<1>4. ASSUME NEW m \in NICs, Leave(m) PROVE IInv'
  <2>1. /\ has' \in [NICs -> Addresses \cup {NoIP}] /\ \A n \in NICs : has'[n] \in {NoIP, has[n]}
        /\ UNCHANGED <<lease, neigh, now, lookup, cancelled, pc, timers, result>>
    BY <1>4 DEF Leave, IInv, TypeOK
  <2> QED
    BY <2>1, GiveUpAddresses, Outside DEF lookup, IInv, TypeOK
<1>5. ASSUME NEW m \in NICs, NEW a \in Odd, Speak(m, a) PROVE IInv'
  <2>1. /\ neigh' = [neigh EXCEPT ![<<a, Bridge>>] = m] /\ neigh' \in [Places -> NICs \cup {NoMAC}]
        /\ UNCHANGED <<now, lease, has, lookup, cancelled, pc, timers, result>>
    BY <1>5 DEF Speak, IInv, TypeOK
  <2>2. \A b \in Addresses : neigh'[<<b, Bridge>>] = neigh[<<b, Bridge>>]
    BY <2>1 DEF IInv, TypeOK, Places
  <2>3. LeasedToUser' /\ BridgeRows' /\ UsersDistinct'
    BY <2>1, <2>2 DEF IInv, LeasedToUser, BridgeRows, UsersDistinct, Free, RunOut, lookup
  <2> QED
    BY <2>1, <2>3, Outside DEF IInv, TypeOK
<1>6. ASSUME NEW p \in Places, Age(p) PROVE IInv'
  <2>1. /\ neigh' = [neigh EXCEPT ![p] = NoMAC] /\ neigh' \in [Places -> NICs \cup {NoMAC}]
        /\ UNCHANGED <<now, lease, has, lookup, cancelled, pc, timers, result>>
    BY <1>6 DEF Age, IInv, TypeOK
  <2>2. \A b \in Addresses : neigh'[<<b, Bridge>>] \in {NoMAC, neigh[<<b, Bridge>>]}
    BY <2>1 DEF IInv, TypeOK, Places
  <2>3. LeasedToUser' /\ BridgeRows' /\ UsersDistinct'
    BY <2>1, <2>2 DEF IInv, LeasedToUser, BridgeRows, UsersDistinct, Free, RunOut, lookup
  <2> QED
    BY <2>1, <2>3, Outside DEF IInv, TypeOK
<1> QED
  BY <1>1, <1>2, <1>3, <1>4, <1>5, <1>6, GuestInv DEF Next

LEMMA InvCorrect == Spec => []IInv
<1>1. IInv /\ UNCHANGED vars => IInv'
  BY DEF vars, guests, lookup, timers, result, IInv, TypeOK, LeasedToUser, BridgeRows, UsersDistinct,
     LeaseInShared, TimersKept, Free, RunOut, Budget
<1> QED
  BY <1>1, InitInv, StepInv, PTL DEF Spec

-----------------------------------------------------------------------------
(* Every variable keeps its type; the clock never passes the budget.       *)
THEOREM TypeCorrect == Spec => []TypeOK
<1>1. IInv => TypeOK
  BY DEF IInv
<1> QED
  BY <1>1, InvCorrect, PTL

(* A silent agent holds a poll up for one read timeout at a time, for any  *)
(* interval, timeout and budget.                                           *)
THEOREM SilenceCorrect == Spec => []SilenceIsBounded
<1>1. IInv => SilenceIsBounded
  BY DEF IInv, TypeOK, TimersKept, SilenceIsBounded
<1> QED
  BY <1>1, InvCorrect, PTL

(* Only these steps answer.                                                *)
LEMMA AnswerSteps ==
  ASSUME IInv, Next, answer' # answer, ~torn'
  PROVE  LeaseFound \/ NeighbourFound \/ AgentAnswers
BY DEF Next, LookupStep, Refuse, Attempt, AttemptTooLate, Unanswered, LeaseNotFound, LeaseTorn,
   NeighbourNotFound, AskAgent, AgentFails, ReadEnds, NextAttempt, GiveUp, Cancel, Tick, Leave, Lease,
   LanLease, Uses, Speak, Age, result

(* No address another guest uses is answered for this one, but from an old *)
(* entry of the uplink; none from the lease file that another may be given.*)
THEOREM NotASiblingsCorrect == Spec => NotASiblings
<1> DEFINE A == answer' # answer /\ ~torn' =>
       /\ \/ Free(mac, answer'.ip)
          \/ answer'.source = "arp" /\ \A a \in Addresses : neigh[<<a, Bridge>>] # mac
       /\ answer'.source = "dhcp-lease" =>
            \A m \in NICs \ {mac} : ~MayLease(m, answer'.ip)
<1>1. IInv /\ [Next]_vars => [A]_vars
  <2> SUFFICES ASSUME IInv, Next, answer' # answer, ~torn' PROVE A
    BY DEF vars
  <2>1. CASE LeaseFound
    <3>1. PICK a \in Addresses : /\ SameMAC(mac, lease[a].mac) /\ ~LeaseExpired(lease[a])
                                /\ pc = "lease" /\ answer'.ip = a
      BY <2>1 DEF LeaseFound, ParseLeases, Answers
    <3>2. mode = "shared" /\ lease[a].mac = mac /\ mac # NoMAC /\ ~RunOut(lease[a], now)
      BY <3>1 DEF IInv, LeaseInShared, SameMAC, LeaseExpired, RunOut
    <3>3. \A n \in NICs : has[n] = a => n = mac
      BY <3>2 DEF IInv, LeasedToUser
    <3>4. \A m \in NICs \ {mac} : ~MayLease(m, a)
      BY <3>2 DEF MayLease
    <3> QED
      BY <3>1, <3>3, <3>4 DEF Free
  <2>2. CASE NeighbourFound
    <3>1. PICK a \in ParseNeigh(Bridge) : answer' = [ip |-> a, source |-> "arp"]
      BY <2>2 DEF NeighbourFound, Answers
    <3>2. CASE \E b \in Addresses : neigh[<<b, Bridge>>] = mac
      <4>1. mac \in NICs
        BY <3>1 DEF ParseNeigh, SameMAC, IInv, TypeOK
      <4>2. a \in Addresses /\ neigh[<<a, Bridge>>] = mac
        BY <3>1, <3>2, <4>1 DEF ParseNeigh, SameMAC, UsableIPv4
      <4> QED
        BY <3>1, <4>1, <4>2 DEF IInv, BridgeRows
    <3> QED
      BY <3>1, <3>2
  <2>3. CASE AgentAnswers
    <3>1. PICK a \in ParseQGA : answer' = [ip |-> a, source |-> "qemu-guest-agent"]
      BY <2>3 DEF AgentAnswers, Answers
    <3>2. mac \in NICs /\ a = has[mac] /\ a \in Addresses
      BY <3>1 DEF ParseQGA, SameMAC, UsableIPv4
    <3> QED
      BY <3>1, <3>2 DEF IInv, UsersDistinct
  <2> QED
    BY <2>1, <2>2, <2>3, AnswerSteps
<1> QED
  BY <1>1, InvCorrect, PTL DEF Spec, NotASiblings

-----------------------------------------------------------------------------
(* A lookup is bounded: how much of it is left, in seconds, ticks and      *)
(* places, which every step of it and of the clock makes less.             *)

PlacesLeft ==
  [attempt |-> 6, lease |-> 5, neigh |-> 4, dial |-> 3, reading |-> 2, waiting |-> 1, done |-> 0][pc]

TickDue == IF now >= tick THEN 7 ELSE 0

Left == 14 * (Budget - now) + TickDue + PlacesLeft

LEMMA LeftNat == IInv => Left \in Nat
<1> SUFFICES ASSUME IInv PROVE Left \in Nat
  OBVIOUS
<1>1. Budget - now \in Nat
  BY BudgetNat DEF IInv, TypeOK
<1>2. TickDue \in Nat /\ PlacesLeft \in Nat
  BY DEF IInv, TypeOK, TickDue, PlacesLeft
<1> QED
  BY <1>1, <1>2 DEF Left

LEMMA LessLeft ==
  ASSUME NEW b \in Nat, NEW b2 \in Nat, NEW t \in 0..7, NEW t2 \in 0..7, NEW p \in Nat, NEW p2 \in Nat,
         \/ b2 = b /\ t2 = t /\ p2 < p
         \/ b2 = b - 1 /\ p2 = p
  PROVE  14 * b2 + t2 + p2 < 14 * b + t + p
OBVIOUS

LEMMA StepLeft ==
  ASSUME IInv, LookupStep
  PROVE  Left' < Left
<1>1. /\ now \in Nat /\ now' = now /\ Budget' = Budget /\ Budget \in Nat
      /\ tick \in Nat
  BY BudgetNat DEF IInv, TypeOK, LookupStep, Refuse, Attempt, AttemptTooLate, Unanswered, LeaseFound,
     LeaseNotFound, LeaseTorn, NeighbourFound, NeighbourNotFound, AskAgent, AgentAnswers, AgentFails,
     ReadEnds, NextAttempt, GiveUp, Budget, lookup
<1>2. CASE NextAttempt
  <2>1. PlacesLeft = 1 /\ PlacesLeft' = 6
    BY <1>2 DEF NextAttempt, Goto, PlacesLeft
  <2>2. TickDue = 7 /\ TickDue' = 0
    BY <1>1, <1>2, NextTick DEF NextAttempt, TickDue
  <2> QED
    BY <1>1, <2>1, <2>2 DEF Left
<1>3. CASE LookupStep /\ ~NextAttempt
  <2>1. UNCHANGED tick
    BY <1>3 DEF LookupStep, Refuse, Attempt, AttemptTooLate, Unanswered, LeaseFound, LeaseNotFound,
       LeaseTorn, NeighbourFound, NeighbourNotFound, AskAgent, AgentAnswers, AgentFails, ReadEnds,
       GiveUp, timers
  <2>2. \/ pc = "attempt" /\ pc' \in {"lease", "neigh", "waiting", "done"}
        \/ pc = "lease" /\ pc' \in {"neigh", "done"}
        \/ pc = "neigh" /\ pc' \in {"dial", "done"}
        \/ pc = "dial" /\ pc' = "reading"
        \/ pc = "reading" /\ pc' \in {"waiting", "done"}
        \/ pc = "waiting" /\ pc' = "done"
    BY <1>3 DEF LookupStep, Refuse, Attempt, AttemptTooLate, Unanswered, LeaseFound, LeaseNotFound,
       LeaseTorn, NeighbourFound, NeighbourNotFound, AskAgent, AgentAnswers, AgentFails, ReadEnds,
       GiveUp, Goto, Answers
  <2>3. PlacesLeft \in Nat /\ PlacesLeft' \in Nat /\ PlacesLeft' < PlacesLeft
    BY <2>2 DEF PlacesLeft
  <2>4. TickDue \in 0..7 /\ TickDue' = TickDue
    BY <1>1, <2>1 DEF TickDue
  <2>5. Budget - now \in Nat /\ Budget' - now' = Budget - now
    BY <1>1 DEF IInv, TypeOK
  <2> QED
    BY <2>3, <2>4, <2>5, LessLeft DEF Left
<1> QED
  BY <1>2, <1>3

LEMMA TickLeft ==
  ASSUME IInv, Tick
  PROVE  Left' < Left
<1>1. /\ now \in Nat /\ now' = now + 1 /\ Budget' = Budget /\ Budget \in Nat
      /\ tick \in Nat /\ UNCHANGED <<pc, tick>>
  BY BudgetNat DEF IInv, TypeOK, Tick, Budget, lookup, timers
<1>2. PlacesLeft \in Nat /\ PlacesLeft' = PlacesLeft
  BY <1>1 DEF IInv, TypeOK, PlacesLeft
<1>3. TickDue \in 0..7 /\ TickDue' \in 0..7
  BY DEF TickDue
<1>4. Budget - now \in Nat /\ Budget' - now' \in Nat /\ Budget' - now' = (Budget - now) - 1
  BY <1>1, StepInv DEF Next, IInv, TypeOK
<1> QED
  BY <1>2, <1>3, <1>4, LessLeft DEF Left

LEMMA GuestsLeft ==
  ASSUME UNCHANGED <<now, caller, tick, pc>>
  PROVE  Left' = Left
BY DEF Left, Budget, TickDue, PlacesLeft

(* A lookup has finitely many steps in it, at most 14 for each second of   *)
(* its budget and 6 more: whatever the guests, their tables and the agent  *)
(* do, they give it nothing more to do.                                    *)
THEOREM LookupBounded ==
  Spec => /\ Left = 14 * Budget + 6
          /\ [](Left \in Nat)
          /\ [][IF LookupStep \/ Tick THEN Left' < Left ELSE Left' = Left]_vars
<1> DEFINE A == IF LookupStep \/ Tick THEN Left' < Left ELSE Left' = Left
<1>1. IInv /\ [Next]_vars => [A]_vars
  <2> SUFFICES ASSUME IInv, Next PROVE A
    BY DEF vars
  <2>1. CASE LookupStep \/ Tick
    BY <2>1, StepLeft, TickLeft
  <2>2. CASE ~(LookupStep \/ Tick)
    <3>1. UNCHANGED <<now, caller, tick, pc>>
      BY <2>2 DEF Next, Cancel, Leave, Lease, LanLease, Uses, Speak, Age, lookup, timers
    <3> QED
      BY <2>2, <3>1, GuestsLeft
  <2> QED
    BY <2>1, <2>2
<1>2. Init => Left = 14 * Budget + 6
  BY BudgetNat DEF Init, Left, TickDue, PlacesLeft
<1> QED
  BY <1>1, <1>2, LeftNat, InvCorrect, PTL DEF Spec
=============================================================================
