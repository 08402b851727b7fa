---------------------------- MODULE MCCvBarrier ----------------------------
(***************************************************************************)
(* Instances of CvBarrier for TLC: every barrier has the same limit, Limit. *)
(***************************************************************************)
EXTENDS CvBarrier

CONSTANT Limit

Limits == [b \in Barriers |-> Limit]
=============================================================================
