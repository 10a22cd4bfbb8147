--------------------------- MODULE ChannelMapEntry ---------------------------
(***************************************************************************)
(* An entry of a core's channel map table, with the credit counter of a    *)
(* connection to a core on another tile (Tile/ChannelMapEntry).  The       *)
(* encoded word is a record of the fields the credit protocol reads; the   *)
(* counter keeps its width of six bits.                                    *)
(***************************************************************************)
EXTENDS Naturals

CONSTANT None        \* no component: a null ChannelID

INFINITE_CREDIT_COUNT == 63
CreditValues == 0..63

Entry(Destination) ==
  [network : {"MULTICAST", "GLOBAL"}, destination : Destination \cup {None},
   credits : CreditValues, acquired : BOOLEAN]

EmptyEntry == [network |-> "MULTICAST", destination |-> None, credits |-> 0, acquired |-> FALSE]

(* Credits count from the moment the entry is global: the test of the      *)
(* acquired bit is commented out in the source.                            *)
useCredits(e) == e.network = "GLOBAL"
haveNCredits(e, n) == useCredits(e) => e.credits >= n
(* Faulty variant: does not look at the counter. *)
canSendUnchecked(e) == TRUE
canSend(e) == haveNCredits(e, 1)

incrementCredits(e, count) ==
  IF e.credits = INFINITE_CREDIT_COUNT THEN e
  ELSE [e EXCEPT !.credits = (@ + count) % 64]

removeCredit(e) ==
  IF ~useCredits(e) \/ e.credits = INFINITE_CREDIT_COUNT THEN e
  ELSE [e EXCEPT !.credits = @ - 1]

(* Faulty variant: takes the count of a refusal for its credits. *)
addCreditsAsCounted(e, n) ==
  CASE ~useCredits(e) -> e
    [] useCredits(e) /\ e.acquired -> incrementCredits(e, n)
    [] OTHER -> [incrementCredits(e, n) EXCEPT !.acquired = (n = 1)]

(* A credit flit: while the connection is being set up it is the answer to *)
(* the claim, and the only positive answer is a count of one.              *)
addCredits(e, n) ==
  CASE ~useCredits(e) -> e
    [] useCredits(e) /\ e.acquired -> incrementCredits(e, n)
    [] OTHER -> [incrementCredits(e, 1) EXCEPT !.acquired = (n = 1)]

(* setchmap with a global entry: the old count stays unless the new word   *)
(* has its credit write-enable bit set.                                    *)
write(e, destination, credits, creditWriteEnable) ==
  [network |-> "GLOBAL", destination |-> destination, acquired |-> FALSE,
   credits |-> IF creditWriteEnable THEN credits ELSE e.credits]
=============================================================================
