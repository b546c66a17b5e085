-------------------------- MODULE MCAddressLookup --------------------------
(***************************************************************************)
(* An instance of AddressLookup for TLC: what a lookup that has ended, or  *)
(* a timer that is not running, leaves behind is not part of the state,    *)
(* nor which other NIC an entry of the neighbour table is of, nor a lease  *)
(* of another NIC that has run out.                                        *)
(***************************************************************************)
EXTENDS AddressLookup

View ==
  IF pc = "done" THEN <<answer, torn, caller>>
  ELSE <<now, [a \in Addresses |-> IF lease[a].mac # MAC /\ RunOut(lease[a], now)
                                     THEN NoLine ELSE lease[a]],
         {p \in Places : neigh[p] = mac}, has, lookup, cancelled, pc, began, tick,
         IF pc \in {"reading", "waiting"} THEN asked ELSE 0,
         IF pc = "reading" THEN readUntil ELSE 0, result>>
=============================================================================
