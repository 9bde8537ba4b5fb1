----------------------------- MODULE Quantities -----------------------------
(***************************************************************************)
(* Sums and roundings of quantities.  Prices and quantities are Decimals   *)
(* in the code; here a quantity is a natural number of the smallest unit.  *)
(***************************************************************************)
EXTENDS Integers, FiniteSets

\* The units that a function of quantities stands for, each with its owner.
Units(quantity) ==
  UNION {{x} \X (1 .. quantity[x]) : x \in DOMAIN quantity}

\* The sum of a function of quantities, counted unit by unit.
Total(quantity) == Cardinality(Units(quantity))

\* n / d rounded to a whole number, ties to the even one: Decimal.quantize.
RoundHalfEven(n, d) ==
  LET floor == n \div d
      twice == 2 * (n % d)
  IN  IF twice < d \/ (twice = d /\ floor % 2 = 0) THEN floor ELSE floor + 1

Smaller(m, n) == IF m <= n THEN m ELSE n
=============================================================================
