--------------------------- MODULE MCIntertileUnit ---------------------------
(* Instances of IntertileUnit for TLC. *)
EXTENDS IntertileUnit

(* Channel 0 of two cores. *)
TwoCores == {<<0, 0>>, <<1, 0>>}
=============================================================================
