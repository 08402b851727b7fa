---------------------------- MODULE MCSharedHeap ----------------------------
(***************************************************************************)
(* Instances of SharedHeap for TLC.                                        *)
(***************************************************************************)
EXTENDS SharedHeap, TLC

\* The limits main() gives to barrier_init: 3, 4 and 3 for two printers.
Limits ==
  [b \in Barriers |-> CASE b = alloc_barrier -> 3
                        [] b = fill_barrier -> Cardinality(Printers) + 2
                        [] b = done_barrier -> Cardinality(Printers) + 1]

Symmetry == Permutations(Printers)
=============================================================================
