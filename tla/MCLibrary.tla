------------------------------ MODULE MCLibrary ------------------------------
(***************************************************************************)
(* The instance of Library for TLC: formats of up to six characters, with  *)
(* a conversion of one and one of two characters and an improper word, and *)
(* every number of eleven bits: four digits.                               *)
(***************************************************************************)
EXTENDS Library

FormatCharacters == {" ", "L", "g", "d"}
=============================================================================
