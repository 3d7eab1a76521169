----------------------------- MODULE MCNumbering -----------------------------
(* A small instance of Numbering for TLC: one digit to the base of three, so*)
(* that a year has the numbers 1, 2 and then 10, which sorts before 2.      *)
EXTENDS Numbering, TLC

Symmetry == Permutations(TripIds) \cup Permutations(Workers)

(* The order of texts digit by digit, as the database compares them.        *)

Digits(n) == IF n < Limit THEN Width ELSE Width + 1

Text(n) == [i \in 1 .. Digits(n) |-> (n \div Base^(Digits(n) - i)) % Base]

\* The first difference decides, or which text ends first.
DigitsBefore(m, n) ==
  \E i \in 1 .. Digits(n) :
    /\ \A j \in 1 .. i - 1 : j <= Digits(m) /\ Text(m)[j] = Text(n)[j]
    /\ i > Digits(m) \/ Text(m)[i] < Text(n)[i]

ASSUME TextOrderIsDigitByDigit ==
  \A m, n \in 1 .. Base * Limit - 1 : TextBefore(m, n) <=> DigitsBefore(m, n)
=============================================================================
