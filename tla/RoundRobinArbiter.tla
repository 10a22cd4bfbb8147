-------------------------- MODULE RoundRobinArbiter --------------------------
(***************************************************************************)
(* The arbiter that the on-chip networks and the intertile unit choose     *)
(* their next request with (Network/Arbiters).  Its only state, kept by    *)
(* the component that owns it, is the index it accepted last; the request  *)
(* list is a set, because remove() drops every copy of an index and        *)
(* selection looks at values only.                                         *)
(***************************************************************************)
EXTENDS Naturals

(* PortIndex is an unsigned 32-bit type and lastAccepted starts at -1, so  *)
(* before the first grant it is larger than any index (here, the largest   *)
(* number TLC has).                                                        *)
NothingAccepted == 2147483647

Lowest(requests) == CHOOSE i \in requests : \A j \in requests : i <= j

AboveOrEqual(requests, last) == {i \in requests : i >= last}
Above(requests, last) == {i \in requests : i > last}

(* The request selectRequester returns, and the value it leaves in         *)
(* lastAccepted: on a wrap-around to the lowest index it assigns nothing.  *)
selectRequester(requests, last) ==
  IF Above(requests, last) # {} THEN Lowest(Above(requests, last)) ELSE Lowest(requests)

lastAfterSelect(requests, last) ==
  IF Above(requests, last) # {} THEN Lowest(Above(requests, last)) ELSE last

(* arbitrate() repeats the last grant while the arbiter is held, and       *)
(* records what it grants otherwise.                                       *)
arbitrate(requests, last, held) ==
  IF held THEN last ELSE selectRequester(requests, last)
=============================================================================
