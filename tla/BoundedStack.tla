---------------------------- MODULE BoundedStack ----------------------------
(***************************************************************************)
(* What the stack of ch16/ExtremeC_examples_chapter16_6.c promises to the  *)
(* threads that share it: a push and a pop happen at one instant, a push   *)
(* never exceeds max_size and a pop hands out the last item.               *)
(***************************************************************************)
EXTENDS Naturals, Sequences

CONSTANTS
  Pushers,    \* threads that push, each an item of its own
  Poppers,    \* threads that pop
  max_size,   \* the most items the stack holds
  Nothing     \* no item

VARIABLES
  contents,   \* the items on the stack, the top last
  result      \* what each popper got last

svars == <<contents, result>>

Init ==
  /\ contents = <<>>
  /\ result = [t \in Poppers |-> Nothing]

Push(t) ==
  /\ Len(contents) < max_size
  /\ contents' = Append(contents, t)
  /\ UNCHANGED result

Pop(t) ==
  /\ Len(contents) > 0
  /\ result' = [result EXCEPT ![t] = contents[Len(contents)]]
  /\ contents' = SubSeq(contents, 1, Len(contents) - 1)

\* A popper forgets what it got before it asks again.
Forget(t) ==
  /\ result' = [result EXCEPT ![t] = Nothing]
  /\ UNCHANGED contents

Next ==
  \/ \E t \in Pushers : Push(t)
  \/ \E t \in Poppers : Pop(t) \/ Forget(t)

SafetySpec == Init /\ [][Next]_svars
=============================================================================
