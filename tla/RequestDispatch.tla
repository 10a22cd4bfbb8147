--------------------------- MODULE RequestDispatch ---------------------------
(***************************************************************************)
(* What an associative cache made of several banks promises: each packet   *)
(* goes as a whole, and in order, to one bank.  It is the bank that has    *)
(* the line at the moment it takes the packet, or a bank chosen before     *)
(* when none has; requests that skip the cache go to the chosen bank.      *)
(***************************************************************************)
EXTENDS Naturals

CONSTANTS Bank, None, Flit

VARIABLES flit,      \* the flit on offer, or None
          target,    \* the bank chosen for its packet
          owner,     \* the bank that takes the packet, or None
          oRequest,  \* bank -> the flit given to it, or None
          holds      \* bank -> the tag of its line

Init ==
  /\ flit = None /\ owner = None /\ target = None
  /\ oRequest = [b \in Bank |-> None]
  /\ holds = [b \in Bank |-> None]

Offer(f, t) ==
  /\ flit = None
  /\ f.head <=> owner = None
  /\ flit' = f
  /\ target' = IF f.head THEN t ELSE target
  /\ UNCHANGED <<owner, oRequest, holds>>

Holders(t) == {b \in Bank : holds[b] = t}
Entitled(f) == IF f.skip \/ Holders(f.tag) = {} THEN {target} ELSE Holders(f.tag)

Claim(b) ==
  /\ flit # None /\ owner = None
  /\ b \in Entitled(flit)
  /\ owner' = b
  /\ UNCHANGED <<flit, target, oRequest, holds>>

Pass(b) ==
  /\ flit # None /\ owner = b /\ oRequest[b] = None
  /\ oRequest' = [oRequest EXCEPT ![b] = flit]
  /\ flit' = None
  /\ owner' = IF flit.left = 0 THEN None ELSE owner
  /\ UNCHANGED <<target, holds>>

\* The banks take flits and change their lines as they see fit.
BankStep ==
  /\ \A b \in Bank : oRequest'[b] \in {oRequest[b], None}
  /\ UNCHANGED <<flit, target, owner>>

Next ==
  \/ \E f \in Flit, t \in Bank : Offer(f, t)
  \/ \E b \in Bank : Claim(b) \/ Pass(b)
  \/ BankStep

DispatchSpec == Init /\ [][Next]_<<flit, target, owner, oRequest, holds>>
=============================================================================
