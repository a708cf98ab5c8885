------------------------------- MODULE Format -------------------------------
(***************************************************************************)
(* Formatted text: kvfprintf of libk/src/printing/kvprintf.c, and ntos and *)
(* reverse of libk/src/utils/string.  Characters are their codes and text  *)
(* is a sequence of them without the final 0.                              *)
(***************************************************************************)
EXTENDS Integers, Sequences, SequencesExt

Zeroes(n) == [i \in 1 .. n |-> 48]

\* '0'.. '9', 'a' .. 'y', 'A' .. 'Y', '?'
Digit(d) == IF d < 10 THEN 48 + d ELSE IF d < 35 THEN 87 + d ELSE IF d < 60 THEN 30 + d ELSE 63

\* What is left of n when its last digits are gone, one after the other.
Quotients(n, base, length) ==
  LET left[p \in 0 .. length] == IF p = 0 THEN n ELSE left[p - 1] \div base
  IN  left

\* The digits of n from the last on, at most `length` of them.
Digits(n, base, length) ==
  LET left == Quotients(n, base, length)
  IN  [p \in 1 .. Cardinality({q \in 0 .. length - 1 : left[q] > 0}) |->
         Digit(left[p - 1] % base)]

\* Mutant: the digits stay in the order they were found in.
NtosUnreversed(i, base, length, unsign, pad) ==
  IF i = 0 THEN <<48>> ELSE Digits(i, base, length)

\* A signed number has a sign, + or -; of a negative one nothing else is
\* written.  An unsigned one is not negative here.  With pad, zeroes fill up
\* the length.
Ntos(i, base, length, unsign, pad) ==
  LET digits == IF i < 0 THEN <<>> ELSE Digits(i, base, length)
      sign == IF unsign THEN <<>> ELSE IF i < 0 THEN <<45>> ELSE <<43>>
      text == digits \o sign
  IN  IF i = 0 THEN IF pad THEN Zeroes(length) ELSE <<48>>
      ELSE Reverse(IF pad THEN text \o Zeroes(length - Len(text)) ELSE text)

\* What the letters l x u i o d add up to as they fall through the switch.
Conversion ==
  [c \in {108, 120, 117, 105, 111, 100} |->
     CASE c \in {108, 120} -> [base |-> 16, length |-> 16, unsign |-> TRUE, pad |-> c = 108]
       [] c = 117 -> [base |-> 10, length |-> 30, unsign |-> TRUE, pad |-> FALSE]
       [] c = 105 -> [base |-> 10, length |-> 30, unsign |-> FALSE, pad |-> FALSE]
       [] c = 111 -> [base |-> 8, length |-> 32, unsign |-> FALSE, pad |-> FALSE]
       [] c = 100 -> [base |-> 2, length |-> 128, unsign |-> TRUE, pad |-> FALSE]]

\* _string_op: sixteen more bytes until there is room for four more than that.
StringOp(room, length) ==
  IF room >= length + 4 THEN room ELSE room + 16 * ((length + 4 - room + 15) \div 16)

\* A letter after the % that is none of the conversions leaves it pending.
Step(s, c) ==
  LET Add(text) == [s EXCEPT !.out = @ \o text, !.args = Tail(@), !.format = FALSE,
                             !.room = StringOp(@, Len(s.out) + Len(text))]
  IN  IF ~s.format
        THEN IF c = 37 THEN [s EXCEPT !.format = TRUE]
             ELSE [s EXCEPT !.out = Append(@, c), !.room = StringOp(@, Len(s.out) + 2)]
      ELSE IF c \in DOMAIN Conversion
        THEN LET v == Conversion[c]
             IN  Add(Ntos(Head(s.args), v.base, v.length, v.unsign, v.pad))
      ELSE IF c = 119 THEN Add(Ntos(Head(s.args) % 65536, 16, 4, TRUE, TRUE))
      ELSE IF c = 115 THEN Add(Head(s.args))
      ELSE s

Kvfprintf(fmt, args) ==
  LET after[i \in 0 .. Len(fmt)] ==
        IF i = 0 THEN [out |-> <<>>, format |-> FALSE, args |-> args, room |-> 16]
                 ELSE Step(after[i - 1], fmt[i])
  IN  after[Len(fmt)]
=============================================================================
