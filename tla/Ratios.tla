------------------------------- MODULE Ratios -------------------------------
(***************************************************************************)
(* Exact ratios [num, den] in lowest terms, for the quotients of amounts   *)
(* that the code keeps as Decimals.  The 28 digits at which Decimal rounds *)
(* are far below every tolerance the results are compared with.            *)
(***************************************************************************)
EXTENDS Integers, FiniteSetsExt

Ratio(n, d) ==
  LET common == Max({i \in 1 .. d : n % i = 0 /\ d % i = 0})
  IN  [num |-> n \div common, den |-> d \div common]

Whole(n) == [num |-> n, den |-> 1]

Plus(r, s) == Ratio(r.num * s.den + s.num * r.den, r.den * s.den)

Times(r, n) == Ratio(r.num * n, r.den)

Minus(r, s) == Plus(r, Times(s, -1))

Over(r, n) == Ratio(r.num, r.den * n)

Magnitude(n) == IF n < 0 THEN -n ELSE n

\* |r - s| > tolerance
Differ(r, s, tolerance) ==
  LET d == Minus(r, s)
  IN  Magnitude(d.num) * tolerance.den > tolerance.num * d.den
=============================================================================
