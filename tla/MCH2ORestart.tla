----------------------------- MODULE MCH2ORestart -----------------------------
(***************************************************************************)
(* Instances of H2ORestart for TLC.                                        *)
(***************************************************************************)
EXTENDS H2ORestart, TLC

Limits == [b \in Barriers |-> HydrogenTokens + CarbonTokens + 1]

Symmetry ==
  Permutations(Oxygen) \cup Permutations(Hydrogen) \cup Permutations(Carbon)
=============================================================================
