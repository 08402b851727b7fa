------------------------------- MODULE Library -------------------------------
(***************************************************************************)
(* What print.c and c_string.c promise to any caller.  The client is       *)
(* linking_test, or one that makes one call: of print_many, with any short *)
(* format and the arguments that it calls for, or of to_string, with any   *)
(* number.                                                                 *)
(***************************************************************************)
EXTENDS LinkingTest, CString

CONSTANTS
  Characters,  \* of formats
  MaxFormat    \* the length of the longest one

ASSUME LibraryAssumption == MaxFormat \in Nat

VARIABLES
  request,  \* the number to be shown, "none", or "done"
  answer    \* the outcome of the call: a string, the live blocks, a status

None == Outcome("none", {}, Null)

Formats == UNION {[1 .. n -> Characters] : n \in 0 .. MaxFormat}

\* A client of print_many or of to_string.
ClientInit ==
  /\ place = "client"
  /\ JMP_BUF = 0 /\ jmp_value = 0 /\ printed = 0 /\ tested = <<>> /\ result = "OK"
  /\ exits = [registered |-> FALSE, ran |-> FALSE]
  /\ first = 1 /\ used = 0 /\ shown = <<>>
  /\ \/ /\ format \in Formats /\ args = ArgumentsFor(format)
        /\ printer = "turn" /\ request = 0
     \/ /\ format = <<>> /\ args = <<>>
        /\ printer = "idle" /\ request \in LLONG_MIN .. ULLONG_MAX
  /\ answer = None

LibraryInit == (LinkingTestInit /\ request = 0 /\ answer = None) \/ ClientInit

\* to_string chooses by the type: to_string_i for the signed ones.
to_string ==
  /\ place = "client" /\ printer = "idle" /\ answer = None
  /\ \/ /\ request <= LLONG_MAX
        /\ answer' \in to_string_i({}, request)
     \/ /\ request >= 0
        /\ answer' \in to_string_u({}, request)
  /\ UNCHANGED <<pvars, lvars, request>>

ClientOver ==
  \/ place \in {"exit", "abort"}
  \/ place = "client" /\ (printer = "done" \/ answer # None)

LibraryNext ==
  \/ LinkingTestNext /\ UNCHANGED <<request, answer>>
  \/ to_string
  \/ ClientOver /\ UNCHANGED <<pvars, lvars, request, answer>>

LibrarySpec == LibraryInit /\ [][LibraryNext]_<<pvars, lvars, request, answer>>

-----------------------------------------------------------------------------
(***************************************************************************)
(* to_string gives the decimal text of every number, the extreme ones      *)
(* included, in one live block of its own, and if malloc fails it gives    *)
(* null and leaves nothing behind.  The exception is its second malloc for *)
(* a negative number: strcpy reads the null pointer, with one block live.  *)
(***************************************************************************)
TextIsRight ==
  /\ \/ answer.status \in {"none", "ok"}
     \/ answer.status = "undefined" /\ request < 0 /\ Cardinality(answer.live) = 1
  /\ answer.status = "ok" =>
       IF answer.result.at = 0 THEN answer.live = {}
       ELSE Shows(answer.result.text, request) /\ answer.live = {answer.result.at}
=============================================================================
