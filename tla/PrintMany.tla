------------------------------ MODULE PrintMany ------------------------------
(***************************************************************************)
(* print.c: print_many prints one argument for each word of a format such  *)
(* as "s d", through a va_list that trusts the format.  A format is a      *)
(* sequence of characters, an argument is its type after the promotions of *)
(* a variadic call: "int", "long", "long long" (signed or not), "double",  *)
(* "long double", "string" for a char *, "pointer" for any other.  The     *)
(* va_list is an array, as on x86-64: the functions it is handed to        *)
(* advance the one of the caller.                                          *)
(***************************************************************************)
EXTENDS Naturals, Sequences, FiniteSets, SequencesExt

VARIABLES
  format,    \* types, the format
  args,      \* the types of the arguments that follow it
  printer,   \* "idle", "turn" in the loop, "done", "undefined" after a bad va_arg
  first,     \* where the remainder of the format begins
  used,      \* how many arguments va_arg has taken
  shown      \* history: the words that were seen, [from, to] in the format

pvars == <<format, args, printer, first, used, shown>>

-----------------------------------------------------------------------------
\* The conversions, by the number of their characters.

case_1(word) ==
  CASE word \in {<<"c">>, <<"d">>, <<"u">>}          -> "int"
    [] word \in {<<"F">>, <<"f">>, <<"E">>, <<"G">>} -> "double"
    [] word = <<"s">>                                -> "string"
    [] word = <<"p">>                                -> "pointer"
    [] OTHER                                         -> "improper"

case_2(word) ==
  CASE word \in {<<"h", "d">>, <<"h", "u">>}         -> "int"
    [] word \in {<<"l", "u">>, <<"l", "d">>}         -> "long"
    [] word \in {"L"} \X {"g", "G", "e", "E"}        -> "long double"
    [] OTHER                                         -> "improper"

case_3(word) ==
  IF word \in {<<"l", "l", "u">>, <<"l", "l", "d">>} THEN "long long" ELSE "improper"

Conversion(word) ==
  CASE Len(word) = 1 -> case_1(word)
    [] Len(word) = 2 -> case_2(word)
    [] Len(word) = 3 -> case_3(word)
    [] OTHER         -> "improper"

\* "%p" takes any pointer, "%s" only a string.
Fits(passed, asked) == passed = asked \/ (asked = "pointer" /\ passed = "string")

DELIMITER == " "

-----------------------------------------------------------------------------
Printing(types, arguments) ==
  /\ format' = types /\ args' = arguments
  /\ printer' = "turn" /\ first' = 1 /\ used' = 0 /\ shown' = <<>>

\* strchr(first, DELIMITER): the next delimiter, 0 if there is none.
Second == SelectInSubSeq(format, first, Len(format), LAMBDA c : c = DELIMITER)

\* index: how many characters the word has, 0 where two delimiters meet.
Size == IF Second = 0 THEN Len(format) + 1 - first ELSE Second - first

Word == SubSeq(format, first, first + Size - 1)

\* Mutated form of TakesArgument: an improper word takes an argument too.
TakesArgumentAnyway(word) == word # <<>>

TakesArgument(word) == word # <<>> /\ Conversion(word) # "improper"

\* Mutated form of Ends: the loop stops at two delimiters in a row.
EndsEarly == Second \in {0, first, Len(format)}

\* Nothing after the word, or nothing but the one delimiter.
Ends == Second \in {0, Len(format)}

\* A turn of the loop of print_many.
print_many_turn ==
  /\ printer = "turn"
  /\ shown' = IF Size = 0 THEN shown
              ELSE Append(shown, [from |-> first, to |-> first + Size - 1])
  /\ used' = IF TakesArgument(Word) THEN used + 1 ELSE used
  /\ LET bad == /\ TakesArgument(Word)
                /\ used = Len(args) \/ ~ Fits(args[used + 1], Conversion(Word))
     IN  printer' = CASE bad           -> "undefined"
                      [] ~ bad /\ Ends -> "done"
                      [] OTHER         -> "turn"
  /\ first' = IF Ends THEN first ELSE Second + 1
  /\ UNCHANGED <<format, args>>

-----------------------------------------------------------------------------
(***************************************************************************)
(* What a caller may rely on, said of the format as a whole.               *)
(***************************************************************************)

\* The words of a format: its longest parts without a delimiter.
WordsOf(types) ==
  LET last == Len(types)
  IN  {w \in [from : 1 .. last, to : 1 .. last] :
         /\ w.from <= w.to
         /\ \A i \in w.from .. w.to : types[i] # DELIMITER
         /\ w.from = 1 \/ types[w.from - 1] = DELIMITER
         /\ w.to = last \/ types[w.to + 1] = DELIMITER}

InOrder(words) ==
  [n \in 1 .. Cardinality(words) |->
     CHOOSE w \in words : Cardinality({v \in words : v.from <= w.from}) = n]

\* The arguments that a format calls for, in the caller's view: one for each
\* word that is a conversion.
Asked(types, w) == Conversion(SubSeq(types, w.from, w.to))

ConversionsOf(types) == {w \in WordsOf(types) : Asked(types, w) # "improper"}

ArgumentsFor(types) ==
  [n \in 1 .. Cardinality(ConversionsOf(types)) |->
     Asked(types, InOrder(ConversionsOf(types))[n])]

(***************************************************************************)
(* print_many sees every word of the format once and in order, however     *)
(* many delimiters stand before, between and after them.                   *)
(***************************************************************************)
WordsSeen ==
  /\ printer # "idle" => IsPrefix(shown, InOrder(WordsOf(format)))
  /\ printer = "done" => shown = InOrder(WordsOf(format))

(***************************************************************************)
(* No va_arg goes past the arguments or asks for another type than was     *)
(* passed, and none is left over: improper words take no argument.         *)
(***************************************************************************)
ArgumentsMatch ==
  /\ printer # "undefined"
  /\ printer = "done" => used = Len(args)
=============================================================================
