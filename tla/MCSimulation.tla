---------------------------- MODULE MCSimulation ----------------------------
(***************************************************************************)
(* A core and a bank; steps of two cycles, an idle limit of three and      *)
(* progress checked every four.                                            *)
(***************************************************************************)
EXTENDS Simulation

CONSTANTS core, bank

MCComponents == {core, bank}
MCCores      == {core}
MCReasons    == <<"memory data", "instructions", "idle">>

=============================================================================
