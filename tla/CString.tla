------------------------------- MODULE CString -------------------------------
(***************************************************************************)
(* c_string.c: strings on the heap, under a malloc that may fail, and the  *)
(* decimal text of integers.  A function is the set of its outcomes: what  *)
(* it returns, the blocks that are live afterwards, and a status, which is *)
(* "ok", or "exit" when the function ended the process by exit(1), "abort" *)
(* when an assertion failed, "undefined" when a block was misused.         *)
(*                                                                         *)
(* A string is a pointer, to nothing (0), to a literal (-1) or to a block, *)
(* and the text found there.  A long long goes up to LLONG_MAX (in         *)
(* limits.h, 2^63 - 1).                                                    *)
(***************************************************************************)
EXTENDS Integers, Sequences, FiniteSetsExt

CONSTANT LLONG_MAX

ASSUME CStringAssumption == LLONG_MAX \in Nat \ {0}

LLONG_MIN == -LLONG_MAX - 1
ULLONG_MAX == 2 * LLONG_MAX + 1

-----------------------------------------------------------------------------
\* The heap.

Null == [at |-> 0, text |-> <<>>]
Literal(text) == [at |-> -1, text |-> text]

Outcome(status, live, result) == [status |-> status, live |-> live, result |-> result]

Readable(string, live) == string.at = -1 \/ string.at \in live

\* Outcomes of malloc and calloc, for a text to be written there.
Allocate(live, text) ==
  LET block == IF live = {} THEN 1 ELSE Max(live) + 1
  IN  {Outcome("ok", live, Null),
       Outcome("ok", live \cup {block}, [at |-> block, text |-> text])}

\* free(string) in an outcome.
Free(outcome, string) ==
  IF outcome.status # "ok" \/ string.at = 0 THEN outcome
  ELSE IF string.at \in outcome.live THEN [outcome EXCEPT !.live = @ \ {string.at}]
  ELSE [outcome EXCEPT !.status = "undefined"]

-----------------------------------------------------------------------------
\* Concatenation.

concatenate(live, first, second) ==
  IF first.at = 0 \/ second.at = 0
    THEN {Outcome("exit", live, Null)}
    ELSE IF Readable(first, live) /\ Readable(second, live)
           THEN Allocate(live, first.text \o second.text)
           ELSE {Outcome("undefined", live, Null)}

\* Mutated form of Previous: the intermediate results are not freed.
PreviousKept(turn) == Null

\* The string that a turn of the loop frees: the result of the turn before.
Previous(turn) == turn.previous

\* The loop ends before the first null pointer.
Arguments(args) == {n \in DOMAIN args : \A i \in 1 .. n : args[i].string.at # 0}

\* A turn: concatenate, free the previous result, free the argument if asked.
Turn(turn, arg) ==
  IF turn.status # "ok" THEN {turn}
  ELSE LET Then(o) ==
             LET freed  == Free(o, Previous(turn))
                 next   == IF arg.free THEN Free(freed, arg.string) ELSE freed
             IN  [status |-> next.status, live |-> next.live,
                  result |-> o.result, previous |-> o.result]
       IN  {Then(o) : o \in concatenate(turn.live, turn.result, arg.string)}

Loop(live, first, args) ==
  LET turns[n \in 0 .. Len(args)] ==
        IF n = 0
          THEN {[status |-> "ok", live |-> live, result |-> first, previous |-> Null]}
          ELSE UNION {Turn(turn, args[n]) : turn \in turns[n - 1]}
  IN  turns[Cardinality(Arguments(args))]

\* With nothing to append both functions return first itself, not a copy.
concatenate_many(live, first, strings) ==
  {Outcome(turn.status, turn.live, turn.result) :
     turn \in Loop(live, first,
                  [i \in DOMAIN strings |-> [string |-> strings[i], free |-> FALSE]])}

concatenate_many_free_args(live, first, call_free_first, args) ==
  {LET end == Outcome(turn.status, turn.live, turn.result)
   IN  IF call_free_first THEN Free(end, first) ELSE end : turn \in Loop(live, first, args)}

-----------------------------------------------------------------------------
\* Decimal text.

\* Mutated form of MoreDigits: the number 10 is taken for a digit.
MoreDigitsOff(x) == x > 10

MoreDigits(x) == x > 9

digits_u[x \in 0 .. ULLONG_MAX] == IF MoreDigits(x) THEN digits_u[x \div 10] + 1 ELSE 1

\* Division in C truncates towards zero.
digits_negative[x \in LLONG_MIN .. -1] ==
  IF x < -9 THEN digits_negative[-((-x) \div 10)] + 1 ELSE 1

digits_i(x) == IF x >= 0 THEN digits_u[x] ELSE digits_negative[x]

Digit == <<"0", "1", "2", "3", "4", "5", "6", "7", "8", "9">>

\* What the loop of to_string_u writes, from the last cell downwards.
written[x \in 0 .. ULLONG_MAX] ==
  LET last == Digit[(x % 10) + 1]
  IN  IF x \div 10 > 0 THEN Append(written[x \div 10], last) ELSE <<last>>

\* The buffer: cells the loop did not reach hold garbage.
buffer_u(x) ==
  LET unreached == digits_u[x] - Len(written[x])
  IN  [i \in 1 .. digits_u[x] |-> IF i > unreached THEN written[x][i - unreached]
                                  ELSE "garbage"]

DigitOf(c) == CHOOSE d \in 0 .. 9 : Digit[d + 1] = c

ValueOf(text) ==
  LET value[n \in 0 .. Len(text)] ==
        IF n = 0 THEN 0 ELSE 10 * value[n - 1] + DigitOf(text[n])
  IN  value[Len(text)]

\* A loop longer than the buffer writes before it; then the assertion.
to_string_u(live, x) ==
  {IF o.result.at = 0 THEN o
   ELSE IF Len(written[x]) > digits_u[x] THEN [o EXCEPT !.status = "undefined"]
   ELSE IF ValueOf(buffer_u(x)) # x THEN [o EXCEPT !.status = "abort"]
   ELSE o : o \in Allocate(live, buffer_u(x))}

\* Mutated form of Magnitude: the least number is not treated apart.
MagnitudePlain(x) == IF -x <= LLONG_MAX THEN -x ELSE -1

\* -x as an unsigned number, by way of -(x + 1) for the least x; -1 would stand
\* for a negation that overflows.
Magnitude(x) ==
  IF x = LLONG_MIN THEN (-(x + 1) + 1) % (ULLONG_MAX + 1)
  ELSE IF -x <= LLONG_MAX THEN -x ELSE -1

\* The digits are copied behind the sign and freed; then the assertion.  strcpy
\* does not ask whether to_string_u failed.
CopyDigits(x, buffer, digits) ==
  IF digits.status # "ok" THEN digits
  ELSE IF digits.result.at = 0 \/ Len(digits.result.text) > digits_i(x)
    THEN [digits EXCEPT !.status = "undefined"]
    ELSE LET signed == [at |-> buffer.at, text |-> <<"-">> \o digits.result.text]
             freed  == Free([digits EXCEPT !.result = signed], digits.result)
         IN  IF -ValueOf(digits.result.text) # x THEN [freed EXCEPT !.status = "abort"]
             ELSE freed

to_string_i(live, x) ==
  IF x >= 0 THEN to_string_u(live, x)
  ELSE IF Magnitude(x) < 0 THEN {Outcome("undefined", live, Null)}
  ELSE UNION {IF b.result.at = 0 THEN {b}
              ELSE {CopyDigits(x, b.result, o) : o \in to_string_u(b.live, Magnitude(x))}
                : b \in Allocate(live, <<>>)}

\* The decimal text of x, as a caller reads it: a sign if need be, no leading zero.
Shows(text, x) ==
  LET magnitude == IF x < 0 THEN Tail(text) ELSE text
  IN  /\ x < 0 <=> Head(text) = "-"
      /\ ValueOf(magnitude) = IF x < 0 THEN -x ELSE x
      /\ Head(magnitude) = "0" => Len(magnitude) = 1
=============================================================================
