-------------------------------- MODULE MCH2O --------------------------------
(***************************************************************************)
(* The instance of H2O for TLC.                                            *)
(***************************************************************************)
EXTENDS H2O

Limits == [b \in Barriers |-> HydrogenTokens + CarbonTokens + 1]
=============================================================================
