-------------------------- MODULE VMRegistry_proofs --------------------------
(***************************************************************************)
(* Proofs about VMRegistry, for any names, holders and indices: what every *)
(* specification that implements it may rely on.                           *)
(***************************************************************************)
EXTENDS VMRegistry, TLAPS

(* Types and exclusion hold at first and are kept by every step.           *)
LEMMA InvInit == Init => TypeOK /\ Exclusive
  BY DEF Init, TypeOK

LEMMA InvStep == TypeOK /\ Exclusive /\ [Next]_vars => TypeOK' /\ Exclusive'
<1> SUFFICES ASSUME TypeOK, Exclusive, [Next]_vars PROVE TypeOK' /\ Exclusive'
  OBVIOUS
<1> USE DEF TypeOK, Exclusive
<1>1. ASSUME NEW h \in Holders, NEW n \in Names, NEW i \in Indices, Grant(h, n, i)
      PROVE  TypeOK' /\ Exclusive'
  BY <1>1 DEF Grant, Free, Lease
<1>2. ASSUME NEW h \in Holders, Forgo(h) PROVE TypeOK' /\ Exclusive'
  BY <1>2 DEF Forgo
<1>3. ASSUME NEW l \in leases, End(l) PROVE TypeOK' /\ Exclusive'
  BY <1>3 DEF End
<1>4. CASE Lose
  BY <1>4 DEF Lose
<1>5. CASE UNCHANGED vars
  BY <1>5 DEF vars
<1>6. QED
  BY <1>1, <1>2, <1>3, <1>4, <1>5 DEF Next

(* Every lease has its type and a holder that had his turn.                *)
THEOREM TypeCorrect == Spec => []TypeOK
<1>1. QED
  BY InvInit, InvStep, PTL DEF Spec

(* No two leases ever share a name, an index or a holder.                  *)
THEOREM ExclusiveCorrect == Spec => []Exclusive
<1>1. QED
  BY InvInit, InvStep, PTL DEF Spec

(* A start that has had a lease, or gave up before it, never has another.  *)
THEOREM OneLeaseCorrect == Spec => OneLeaseEach
<1>1. [Next]_vars => [\A l \in leases' : l \in leases \/ l.holder \notin spent]_vars
  BY DEF Next, Grant, Forgo, End, Lose, vars
<1>2. QED
  BY <1>1, PTL DEF Spec, OneLeaseEach
=============================================================================
