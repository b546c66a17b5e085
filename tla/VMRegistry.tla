----------------------------- MODULE VMRegistry -----------------------------
(***************************************************************************)
(* What the VM records of state.json promise the `start` invocations that  *)
(* share them (the reservation in internal/app/app.go, NextFreeVMIndex in  *)
(* internal/state/state.go, VMIsLive in internal/vm/vm.go).  A live record *)
(* is a lease: of its name, and so of the disk, and of its index, and so   *)
(* of the tap, the ports, the socket and the log.  Leases change one at a  *)
(* time, each start gets at most one in its life, and it is nobody else's  *)
(* until it ends -- unless a state that was loaded earlier is written over *)
(* a newer one, which loses the registry.                                  *)
(***************************************************************************)
CONSTANTS
  Names,    \* what a record is kept under
  Holders,  \* whom a lease is for
  Indices

VARIABLES
  leases,   \* the leases there are
  spent,    \* who has had his lease or will have none
  lost      \* whether a stale write lost the registry

vars == <<leases, spent, lost>>

Lease == [name : Names, holder : Holders, index : Indices]

(* No two leases share a name, an index or a holder.                       *)
Exclusive ==
  \A k, l \in leases : k # l =>
    k.name # l.name /\ k.index # l.index /\ k.holder # l.holder

(* Earlier runs may have left leases.                                      *)
Init ==
  /\ leases \subseteq Lease /\ Exclusive
  /\ spent \subseteq Holders /\ \A l \in leases : l.holder \in spent
  /\ lost = FALSE

Free(n, i) == \A l \in leases : l.name # n /\ l.index # i

Grant(h, n, i) ==
  /\ ~lost /\ h \notin spent /\ Free(n, i)
  /\ leases' = leases \cup {[name |-> n, holder |-> h, index |-> i]}
  /\ spent' = spent \cup {h}
  /\ UNCHANGED lost

(* A holder that is refused, gives up or is killed before it has a lease,  *)
(* or that comes when the registry is lost.                                *)
Forgo(h) ==
  /\ h \notin spent
  /\ spent' = spent \cup {h}
  /\ UNCHANGED <<leases, lost>>

End(l) ==
  /\ leases' = leases \ {l}
  /\ UNCHANGED <<spent, lost>>

Lose ==
  /\ ~lost
  /\ lost' = TRUE /\ leases' = {}
  /\ UNCHANGED spent

Next ==
  \/ \E h \in Holders : Forgo(h) \/ \E n \in Names, i \in Indices : Grant(h, n, i)
  \/ \E l \in leases : End(l)
  \/ Lose

Spec == Init /\ [][Next]_vars

-----------------------------------------------------------------------------
(* Every lease has its type, and its holder has had his turn.              *)
TypeOK ==
  /\ leases \subseteq Lease
  /\ spent \subseteq Holders
  /\ \A l \in leases : l.holder \in spent
  /\ lost \in BOOLEAN

(* Who has had a lease never has another, and no lease moves to another    *)
(* index or name while it lasts.                                           *)
OneLeaseEach ==
  [][\A l \in leases' : l \in leases \/ l.holder \notin spent]_vars
=============================================================================
