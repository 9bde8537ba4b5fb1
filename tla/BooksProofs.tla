----------------------------- MODULE BooksProofs -----------------------------
(***************************************************************************)
(* The books of one symbol conserve the money that moved, and what the     *)
(* reconciler makes of two of them, for every price, size and number of    *)
(* fills.  Ratios are reasoned about at a common denominator: r is n over  *)
(* d (At), whatever factor its lowest terms have lost, and sums, products  *)
(* and comparisons are then those of the numerators.  The folds of the     *)
(* FIFO queue are unfolded once, into sums and passes over its prefixes.   *)
(***************************************************************************)
EXTENDS Books, SequenceTheorems, WellFoundedInduction, NaturalsInduction, TLAPS

Rational == [num : Int, den : Nat \ {0}]

Positive == Nat \ {0}

\* r is n over d.
At(r, n, d) == r.num * d = n * r.den

-----------------------------------------------------------------------------
(* Integers. *)

LEMMA Cancel ==
  ASSUME NEW a \in Int, NEW b \in Int, NEW c \in Int, c # 0, a * c = b * c
  PROVE  a = b
<1>1. (a - b) * c = 0
  OBVIOUS
<1> QED BY <1>1

LEMMA CancelLess ==
  ASSUME NEW a \in Int, NEW b \in Int, NEW c \in Positive
  PROVE  a * c > b * c <=> a > b
<1>1. c > 0 /\ c \in Int
  BY DEF Positive
<1>2. a > b => (a - b) * c > 0
  BY <1>1
<1>3. a <= b => (b - a) * c >= 0
  BY <1>1
<1>4. (a - b) * c = a * c - b * c /\ (b - a) * c = b * c - a * c
  BY <1>1
<1>5. a * c \in Int /\ b * c \in Int
  BY <1>1
<1> QED BY <1>2, <1>3, <1>4, <1>5

\* A set of numbers up to a bound has a greatest one.
LEMMA Greatest ==
  ASSUME NEW b \in Nat, NEW S \in SUBSET (1 .. b), S # {}
  PROVE  Max(S) \in S /\ \A x \in S : Max(S) >= x
<1> DEFINE Below == {b - x : x \in S}
<1>1. \A x \in S : x \in Int /\ x <= b
  OBVIOUS
<1>2. \A x \in S : b - x \in Nat
  BY <1>1
<1>3. Below \in SUBSET Nat /\ Below # {}
  BY <1>2, Zenon
<1>4. PICK least \in Below : \A y \in Below : ~ (<<y, least>> \in OpToRel(<, Nat))
  BY <1>3, NatLessThanWellFounded, WFMin
<1>5. \A y \in Below : ~ (y < least)
  BY <1>3, <1>4, Zenon DEF OpToRel
<1>6. PICK x \in S : least = b - x
  BY Zenon
<1>7. \A y \in S : ~ (b - y < b - x)
  BY <1>5, <1>6, Zenon
<1>8. \A y \in S : x >= y
  BY <1>7, <1>1
<1> QED BY <1>8, Zenon DEF Max

-----------------------------------------------------------------------------
(* Ratios. *)

\* Lowest terms lose no value.
LEMMA RatioAt ==
  ASSUME NEW n \in Int, NEW d \in Positive
  PROVE  /\ Ratio(n, d) \in Rational
         /\ At(Ratio(n, d), n, d)
<1> DEFINE Common == {i \in 1 .. d : n % i = 0 /\ d % i = 0}
<1> DEFINE c == Max(Common)
<1>1. d \in Nat /\ d >= 1
  BY DEF Positive
<1>2. 1 \in Common
  BY <1>1
<1>3. c \in Common
  BY <1>1, <1>2, Greatest
<1>4. c \in 1 .. d /\ n % c = 0 /\ d % c = 0
  BY <1>3
<1> HIDE DEF c
<1>5. n = c * (n \div c) /\ n \div c \in Int
  BY <1>4, <1>1
<1>6. d = c * (d \div c) /\ d \div c \in Int
  BY <1>4, <1>1
<1>7. d \div c > 0
  BY <1>6, <1>4, <1>1
<1>8. Ratio(n, d) = [num |-> n \div c, den |-> d \div c]
  BY DEF Ratio, c
<1> DEFINE p == n \div c
<1> DEFINE q == d \div c
<1>9. p \in Int /\ q \in Int /\ c \in Int /\ n = c * p /\ d = c * q
  BY <1>4, <1>5, <1>6
<1> HIDE DEF p, q
<1>10. p * d = n * q
  BY <1>9
<1> QED BY <1>5, <1>6, <1>7, <1>8, <1>10 DEF Rational, At, p, q

\* A whole number is reduced to itself.
LEMMA RatioWhole ==
  ASSUME NEW n \in Int, NEW d \in Positive
  PROVE  Ratio(n * d, d) = Whole(n)
<1> DEFINE Common == {i \in 1 .. d : (n * d) % i = 0 /\ d % i = 0}
<1>1. d \in Nat /\ d >= 1
  BY DEF Positive
<1>2. (n * d) % d = 0 /\ (n * d) \div d = n
  BY <1>1
<1>3. d % d = 0 /\ d \div d = 1
  BY <1>1
<1>4. d \in Common
  BY <1>1, <1>2, <1>3
<1>5. Max(Common) \in Common /\ Max(Common) >= d
  BY <1>1, <1>4, Greatest
<1>6. Max(Common) = d
  BY <1>5, <1>1
<1> QED BY <1>2, <1>3, <1>6 DEF Ratio, Whole

LEMMA WholeAt ==
  ASSUME NEW n \in Int, NEW d \in Positive
  PROVE  Whole(n) \in Rational /\ At(Whole(n), n * d, d)
BY DEF Whole, Rational, At, Positive

\* The same number at two places.
LEMMA AtSame ==
  ASSUME NEW r \in Rational, NEW n \in Int, NEW m \in Int, NEW d \in Positive,
         At(r, n, d), At(r, m, d)
  PROVE  n = m
<1>1. r.den \in Int /\ r.den # 0
  BY DEF Rational
<1>2. n * r.den = m * r.den
  BY DEF At
<1> QED BY <1>1, <1>2, Cancel

LEMMA AtScaled ==
  ASSUME NEW r \in Rational, NEW n \in Int, NEW d \in Positive, NEW k \in Int, At(r, n, d)
  PROVE  At(r, n * k, d * k)
<1>1. r.num \in Int /\ r.den \in Int /\ d \in Int
  BY DEF Rational, Positive
<1>2. r.num * (d * k) = (r.num * d) * k /\ (n * k) * r.den = (n * r.den) * k
  BY <1>1
<1> QED BY <1>2 DEF At


LEMMA RationalAt ==
  ASSUME NEW r \in Rational
  PROVE  /\ r.num \in Int /\ r.den \in Positive /\ At(r, r.num, r.den)
         /\ \E n \in Int, d \in Positive : At(r, n, d)
<1>1. r.num \in Int /\ r.den \in Positive /\ At(r, r.num, r.den)
  BY DEF Rational, Positive, At
<1> QED BY <1>1

LEMMA PlusAt ==
  ASSUME NEW r \in Rational, NEW s \in Rational, NEW n \in Int, NEW m \in Int, NEW d \in Positive,
         At(r, n, d), At(s, m, d)
  PROVE  Plus(r, s) \in Rational /\ At(Plus(r, s), n + m, d)
<1> DEFINE rn == r.num
<1> DEFINE rd == r.den
<1> DEFINE sn == s.num
<1> DEFINE sd == s.den
<1> DEFINE N == rn * sd + sn * rd
<1> DEFINE D == rd * sd
<1>1. rn \in Int /\ sn \in Int /\ rd \in Positive /\ sd \in Positive
  BY DEF Rational, Positive
<1>2. rn * d = n * rd /\ sn * d = m * sd
  BY DEF At
<1> HIDE DEF rn, rd, sn, sd
<1>3. rd > 0 /\ sd > 0 /\ rd \in Int /\ sd \in Int /\ d \in Int
  BY <1>1 DEF Positive
<1>4. N \in Int /\ D \in Positive
  BY <1>1, <1>3 DEF Positive
<1>5. N * d = (n + m) * D
  <2>1. N * d = (rn * d) * sd + (sn * d) * rd
    BY <1>1, <1>3
  <2>2. (n * rd) * sd + (m * sd) * rd = (n + m) * D
    BY <1>3
  <2> QED BY <2>1, <2>2, <1>2
<1> DEFINE p == Ratio(N, D)
<1>6. p \in Rational /\ At(p, N, D)
  BY <1>4, RatioAt
<1>7. Plus(r, s) = p
  BY DEF Plus, rn, rd, sn, sd
<1> HIDE DEF p, N, D
<1> DEFINE pn == p.num
<1> DEFINE pd == p.den
<1>8. pn \in Int /\ pd \in Int /\ pn * D = N * pd
  BY <1>6 DEF Rational, At
<1> HIDE DEF pn, pd
<1>9. (pn * d) * D = ((n + m) * pd) * D
  <2>1. (pn * d) * D = (pn * D) * d /\ (N * pd) * d = (N * d) * pd
    BY <1>8, <1>3, <1>4 DEF Positive
  <2>2. ((n + m) * D) * pd = ((n + m) * pd) * D
    BY <1>8, <1>4 DEF Positive
  <2> QED BY <2>1, <2>2, <1>5, <1>8
<1>10. pn * d = (n + m) * pd
  <2>1. pn * d \in Int /\ (n + m) * pd \in Int /\ D \in Int /\ D # 0
    BY <1>8, <1>3, <1>4 DEF Positive
  <2> QED BY <2>1, <1>9, Cancel
<1> QED BY <1>6, <1>7, <1>10 DEF At, pn, pd

LEMMA TimesAt ==
  ASSUME NEW r \in Rational, NEW n \in Int, NEW k \in Int, NEW d \in Positive, At(r, n, d)
  PROVE  Times(r, k) \in Rational /\ At(Times(r, k), n * k, d)
<1> DEFINE rn == r.num
<1> DEFINE rd == r.den
<1>1. rn \in Int /\ rd \in Positive /\ rn * d = n * rd
  BY DEF Rational, Positive, At
<1> HIDE DEF rn, rd
<1> DEFINE p == Ratio(rn * k, rd)
<1>2. p \in Rational /\ At(p, rn * k, rd)
  BY <1>1, RatioAt
<1>3. Times(r, k) = p
  BY DEF Times, rn, rd
<1> HIDE DEF p
<1> DEFINE pn == p.num
<1> DEFINE pd == p.den
<1>4. pn \in Int /\ pd \in Int /\ pn * rd = (rn * k) * pd
  BY <1>2 DEF Rational, At
<1> HIDE DEF pn, pd
<1>5. rd \in Int /\ rd # 0 /\ d \in Int
  BY <1>1 DEF Positive
<1>6. (pn * d) * rd = ((n * k) * pd) * rd
  <2>1. (pn * d) * rd = (pn * rd) * d
    BY <1>4, <1>5
  <2>2. ((rn * k) * pd) * d = (rn * d) * (k * pd)
    BY <1>1, <1>4, <1>5
  <2>3. (n * rd) * (k * pd) = ((n * k) * pd) * rd
    BY <1>4, <1>5
  <2> QED BY <2>1, <2>2, <2>3, <1>1, <1>4
<1>7. pn * d = (n * k) * pd
  <2>1. pn * d \in Int /\ (n * k) * pd \in Int
    BY <1>4, <1>5
  <2> QED BY <2>1, <1>5, <1>6, Cancel
<1> QED BY <1>2, <1>3, <1>7 DEF At, pn, pd

LEMMA OverAt ==
  ASSUME NEW r \in Rational, NEW n \in Int, NEW k \in Positive, NEW d \in Positive, At(r, n, d)
  PROVE  Over(r, k) \in Rational /\ At(Over(r, k), n, d * k)
<1> DEFINE rn == r.num
<1> DEFINE rd == r.den
<1>1. rn \in Int /\ rd \in Positive /\ rn * d = n * rd
  BY DEF Rational, Positive, At
<1> HIDE DEF rn, rd
<1>2. rd \in Int /\ rd # 0 /\ rd > 0 /\ d \in Int /\ k \in Int /\ k > 0
  BY <1>1 DEF Positive
<1>3. rd * k \in Positive
  BY <1>2 DEF Positive
<1> DEFINE p == Ratio(rn, rd * k)
<1>4. p \in Rational /\ At(p, rn, rd * k)
  BY <1>1, <1>3, RatioAt
<1>5. Over(r, k) = p
  BY DEF Over, rn, rd
<1> HIDE DEF p
<1> DEFINE pn == p.num
<1> DEFINE pd == p.den
<1>6. pn \in Int /\ pd \in Int /\ pn * (rd * k) = rn * pd
  BY <1>4 DEF Rational, At
<1> HIDE DEF pn, pd
<1>7. (pn * (d * k)) * rd = (n * pd) * rd
  <2>1. (pn * (d * k)) * rd = (pn * (rd * k)) * d
    BY <1>6, <1>2
  <2>2. (rn * pd) * d = (rn * d) * pd
    BY <1>1, <1>6, <1>2
  <2>3. (n * rd) * pd = (n * pd) * rd
    BY <1>6, <1>2
  <2> QED BY <2>1, <2>2, <2>3, <1>1, <1>6
<1>8. pn * (d * k) = n * pd
  <2>1. pn * (d * k) \in Int /\ n * pd \in Int
    BY <1>6, <1>2
  <2> QED BY <2>1, <1>2, <1>7, Cancel
<1> QED BY <1>4, <1>5, <1>8 DEF At, pn, pd

LEMMA MinusAt ==
  ASSUME NEW r \in Rational, NEW s \in Rational, NEW n \in Int, NEW m \in Int, NEW d \in Positive,
         At(r, n, d), At(s, m, d)
  PROVE  Minus(r, s) \in Rational /\ At(Minus(r, s), n - m, d)
<1> DEFINE k == -1
<1>0. k \in Int
  OBVIOUS
<1> HIDE DEF k
<1>1. Times(s, k) \in Rational /\ At(Times(s, k), m * k, d)
  BY <1>0, TimesAt
<1> USE DEF k
<1>2. m * (-1) \in Int /\ n + m * (-1) = n - m
  OBVIOUS
<1> QED BY <1>1, <1>2, PlusAt DEF Minus

\* A difference is a whole number exactly when the numerators say so.
LEMMA MinusWhole ==
  ASSUME NEW r \in Rational, NEW s \in Rational, NEW n \in Int, NEW m \in Int, NEW d \in Positive,
         NEW c \in Int, At(r, n, d), At(s, m, d)
  PROVE  Minus(r, s) = Whole(c) <=> n - m = c * d
<1>1. Minus(r, s) \in Rational /\ At(Minus(r, s), n - m, d)
  BY MinusAt
<1>2. At(Whole(c), c * d, d) /\ Whole(c) \in Rational
  BY WholeAt
<1>3. n - m \in Int /\ c * d \in Int
  BY DEF Positive
<1>4. Minus(r, s) = Whole(c) => n - m = c * d
  BY <1>1, <1>2, <1>3, AtSame
<1>5. ASSUME n - m = c * d
      PROVE  Minus(r, s) = Whole(c)
  <2> DEFINE t == Times(s, -1)
  <2> DEFINE N == r.num * t.den + t.num * r.den
  <2> DEFINE D == r.den * t.den
  <2>1. t \in Rational
    BY TimesAt
  <2>2. N \in Int /\ D \in Positive
    BY <2>1 DEF Rational, Positive
  <2>3. Minus(r, s) = Ratio(N, D)
    BY DEF Minus, Plus
  <2> DEFINE p == Ratio(N, D)
  <2>4. At(p, N, D) /\ p \in Rational
    BY <2>2, RatioAt
  <2>5. p.num * d = (c * d) * p.den
    BY <2>3, <1>1, <1>5 DEF At
  <2>6. p.num = c * p.den
    <3>1. p.num \in Int /\ p.den \in Int /\ d \in Int /\ d # 0
      BY <2>4 DEF Rational, Positive
    <3>2. (c * d) * p.den = (c * p.den) * d
      BY <3>1
    <3>3. p.num * d = (c * p.den) * d /\ c * p.den \in Int
      BY <2>5, <3>1, <3>2
    <3> QED BY <3>1, <3>3, Cancel
  <2>7. (c * p.den) * D = N * p.den
    BY <2>4, <2>6 DEF At
  <2>8. N = c * D
    <3>1. p.den \in Int /\ p.den # 0 /\ D \in Int
      BY <2>2, <2>4 DEF Rational, Positive
    <3> HIDE DEF p, N, D
    <3>2. (c * p.den) * D = (c * D) * p.den /\ c * D \in Int
      BY <3>1
    <3>3. N \in Int
      BY <2>2
    <3> QED BY <2>7, <3>1, <3>2, <3>3, Cancel
  <2> QED BY <2>2, <2>3, <2>8, RatioWhole
<1> QED BY <1>4, <1>5

\* Two ratios differ by more than a third exactly when their numerators do.
LEMMA DifferAt ==
  ASSUME NEW r \in Rational, NEW s \in Rational, NEW t \in Rational,
         NEW n \in Int, NEW m \in Int, NEW k \in Int, NEW d \in Positive,
         At(r, n, d), At(s, m, d), At(t, k, d)
  PROVE  Differ(r, s, t) <=> Magnitude(n - m) > k
<1> DEFINE p == Minus(r, s)
<1> DEFINE pn == p.num
<1> DEFINE pd == p.den
<1> DEFINE tn == t.num
<1> DEFINE td == t.den
<1>1. p \in Rational /\ At(p, n - m, d)
  BY MinusAt
<1>2. pn \in Int /\ pd \in Positive /\ tn \in Int /\ td \in Positive /\ d \in Int /\ d > 0
  BY <1>1 DEF Rational, Positive
<1>3. pn * d = (n - m) * pd /\ tn * d = k * td
  BY <1>1 DEF At
<1>4. Differ(r, s, t) <=> Magnitude(pn) * td > tn * pd
  BY DEF Differ
<1> HIDE DEF pn, pd, tn, td
<1>5. pd \in Int /\ pd > 0 /\ td \in Int /\ td > 0
  BY <1>2 DEF Positive
<1> DEFINE x == n - m
<1>6. x \in Int
  OBVIOUS
<1>7. pn * d = x * pd
  BY <1>3
<1> HIDE DEF x
<1>8. Magnitude(pn) * d = Magnitude(x) * pd
  <2>1. x >= 0 <=> pn >= 0
    <3>1. x >= 0 => x * pd >= 0
      BY <1>5, <1>6
    <3>2. x < 0 => x * pd < 0
      BY <1>5, <1>6
    <3>3. pn >= 0 => pn * d >= 0
      BY <1>2
    <3>4. pn < 0 => pn * d < 0
      BY <1>2
    <3>5. x * pd \in Int
      BY <1>5, <1>6
    <3> QED BY <3>1, <3>2, <3>3, <3>4, <3>5, <1>7, <1>6, <1>2
  <2>2. (-pn) * d = -(pn * d) /\ (-x) * pd = -(x * pd)
    BY <1>2, <1>5, <1>6
  <2>3. CASE x >= 0
    BY <2>1, <2>3, <1>7, <1>2, <1>6 DEF Magnitude
  <2>4. CASE x < 0
    <3>1. Magnitude(pn) = -pn /\ Magnitude(x) = -x
      BY <2>1, <2>4, <1>2, <1>6 DEF Magnitude
    <3> QED BY <3>1, <2>2, <1>7
  <2> QED BY <2>3, <2>4, <1>6
<1> DEFINE a == Magnitude(pn)
<1> DEFINE b == Magnitude(x)
<1>9. a \in Int /\ b \in Int /\ a * d = b * pd
  BY <1>8, <1>2, <1>6 DEF Magnitude
<1> HIDE DEF a, b
<1>10. (a * td) * d = b * (pd * td) /\ (tn * pd) * d = k * (pd * td)
  <2>1. (a * td) * d = (a * d) * td /\ (b * pd) * td = b * (pd * td)
    BY <1>9, <1>5, <1>2
  <2>2. (tn * pd) * d = (tn * d) * pd /\ (k * td) * pd = k * (pd * td)
    BY <1>5, <1>2
  <2> QED BY <2>1, <2>2, <1>3, <1>9
<1>11. pd * td \in Positive /\ d \in Positive /\ a * td \in Int /\ tn * pd \in Int
  BY <1>2, <1>5, <1>9 DEF Positive
<1>12. (a * td) * d > (tn * pd) * d <=> a * td > tn * pd
  BY <1>11, CancelLess
<1>13. b * (pd * td) > k * (pd * td) <=> b > k
  BY <1>9, <1>11, CancelLess
<1> QED BY <1>4, <1>10, <1>12, <1>13 DEF a, b, x

-----------------------------------------------------------------------------
(* Accounts. *)

Accounts == [qty : Int, avg : Rational, realized : Rational]

\* The account holds q shares at an average of n over d, and has earned m over d.
Holds(a, q, n, m, d) ==
  a \in Accounts /\ a.qty = q /\ At(a.avg, n, d) /\ At(a.realized, m, d)

\* What the open shares cost and the closed ones earned is the money that moved.
Balanced(a, money) == Minus(a.realized, Times(a.avg, a.qty)) = Whole(money)

LEMMA BalancedAt ==
  ASSUME NEW a, NEW q \in Int, NEW n \in Int, NEW m \in Int, NEW d \in Positive,
         NEW money \in Int, Holds(a, q, n, m, d)
  PROVE  Balanced(a, money) <=> m - n * q = money * d
<1>1. a.avg \in Rational /\ a.realized \in Rational /\ a.qty = q
  BY DEF Holds, Accounts
<1>2. Times(a.avg, q) \in Rational /\ At(Times(a.avg, q), n * q, d)
  BY <1>1, TimesAt DEF Holds
<1>3. n * q \in Int
  OBVIOUS
<1> QED BY <1>1, <1>2, <1>3, MinusWhole DEF Balanced, Holds

\* Every account has its numbers at some denominator.
LEMMA AccountHolds ==
  ASSUME NEW a \in Accounts
  PROVE  \E n \in Int, m \in Int, d \in Positive : Holds(a, a.qty, n, m, d)
<1> DEFINE an == a.avg.num
<1> DEFINE ad == a.avg.den
<1> DEFINE rn == a.realized.num
<1> DEFINE rd == a.realized.den
<1>1. an \in Int /\ ad \in Positive /\ rn \in Int /\ rd \in Positive
  BY DEF Accounts, Rational, Positive
<1> HIDE DEF an, ad, rn, rd
<1>2. ad \in Int /\ rd \in Int /\ ad > 0 /\ rd > 0
  BY <1>1 DEF Positive
<1>3. ad * rd \in Positive /\ an * rd \in Int /\ rn * ad \in Int
  BY <1>1, <1>2 DEF Positive
<1>4. an * (ad * rd) = (an * rd) * ad /\ rn * (ad * rd) = (rn * ad) * rd
  BY <1>1, <1>2
<1>5. Holds(a, a.qty, an * rd, rn * ad, ad * rd)
  BY <1>4 DEF Holds, At, an, ad, rn, rd
<1> QED BY <1>3, <1>5

\* The numbers of an account after a fill, at the denominator they are then at.
Fresh(q, fill) == Magnitude(q) + fill.qty

Closing(q, fill) == Smaller(fill.qty, Magnitude(q)) * Direction(q)

AfterQty(q, fill) == q + fill.sign * fill.qty

Crosses(q, fill) == AfterQty(q, fill) # 0 /\ (AfterQty(q, fill) > 0) # (q > 0)

AfterDen(q, d, fill) == IF Opening(q, fill) THEN d * Fresh(q, fill) ELSE d

AfterAvg(q, n, d, fill) ==
  IF Opening(q, fill) THEN n * Magnitude(q) + (fill.price * fill.qty) * d
  ELSE IF AfterQty(q, fill) = 0 THEN 0
  ELSE IF Crosses(q, fill) THEN fill.price * d ELSE n

AfterRealized(q, n, m, d, fill) ==
  IF Opening(q, fill) THEN m * Fresh(q, fill)
  ELSE m + (fill.price * d - n) * Closing(q, fill)

AnyFill == [sign : {1, -1}, qty : Positive, price : Int]

LEMMA AfterTypes ==
  ASSUME NEW fill \in AnyFill, NEW q \in Int, NEW n \in Int, NEW m \in Int, NEW d \in Positive
  PROVE  /\ Magnitude(q) \in Nat /\ Fresh(q, fill) \in Positive
         /\ Closing(q, fill) \in Int /\ AfterQty(q, fill) \in Int
         /\ AfterDen(q, d, fill) \in Positive
         /\ AfterAvg(q, n, d, fill) \in Int /\ AfterRealized(q, n, m, d, fill) \in Int
         /\ fill.price * fill.qty \in Int /\ fill.price * d \in Int
<1>1. fill.sign \in {1, -1} /\ fill.qty \in Int /\ fill.qty > 0 /\ fill.price \in Int
      /\ d \in Int /\ d > 0
  BY DEF AnyFill, Positive
<1>2. Magnitude(q) \in Nat
  BY DEF Magnitude
<1>3. Fresh(q, fill) \in Positive
  BY <1>1, <1>2 DEF Fresh, Positive
<1>4. Smaller(fill.qty, Magnitude(q)) \in Int /\ Direction(q) \in {1, -1}
  BY <1>1, <1>2 DEF Smaller, Direction
<1>5. Closing(q, fill) \in Int
  BY <1>4 DEF Closing
<1>6. AfterQty(q, fill) \in Int
  BY <1>1 DEF AfterQty
<1>7. d * Fresh(q, fill) \in Positive
  BY <1>1, <1>3 DEF Positive
<1>8. fill.price * fill.qty \in Int /\ fill.price * d \in Int
  BY <1>1
<1>9. AfterAvg(q, n, d, fill) \in Int
  BY <1>1, <1>2, <1>8 DEF AfterAvg
<1>10. AfterRealized(q, n, m, d, fill) \in Int
  BY <1>3, <1>5, <1>8 DEF AfterRealized, Positive
<1> QED BY <1>2, <1>3, <1>5, <1>6, <1>7, <1>8, <1>9, <1>10 DEF AfterDen

\* What closing shares earns.
LEMMA GainAt ==
  ASSUME NEW a, NEW q \in Int, NEW n \in Int, NEW m \in Int, NEW d \in Positive,
         NEW fill \in AnyFill, Holds(a, q, n, m, d)
  PROVE  /\ Plus(a.realized, Gain(a, fill)) \in Rational
         /\ At(Plus(a.realized, Gain(a, fill)), m + (fill.price * d - n) * Closing(q, fill), d)
<1>1. a.avg \in Rational /\ a.realized \in Rational /\ a.qty = q
  BY DEF Holds, Accounts
<1>2. fill.price \in Int /\ fill.price * d \in Int /\ Closing(q, fill) \in Int
  BY AfterTypes DEF AnyFill
<1>3. Whole(fill.price) \in Rational /\ At(Whole(fill.price), fill.price * d, d)
  BY <1>2, WholeAt
<1> DEFINE gap == Minus(Whole(fill.price), a.avg)
<1>4. gap \in Rational /\ At(gap, fill.price * d - n, d)
  BY <1>1, <1>2, <1>3, MinusAt DEF Holds
<1>5. fill.price * d - n \in Int
  BY <1>2
<1> HIDE DEF gap
<1>6. /\ Times(gap, Closing(q, fill)) \in Rational
      /\ At(Times(gap, Closing(q, fill)), (fill.price * d - n) * Closing(q, fill), d)
  BY <1>2, <1>4, <1>5, TimesAt
<1>7. Gain(a, fill) = Times(gap, Closing(q, fill))
  BY <1>1 DEF Gain, Closing, gap
<1>8. (fill.price * d - n) * Closing(q, fill) \in Int
  BY <1>2, <1>5
<1> QED BY <1>1, <1>6, <1>7, <1>8, PlusAt DEF Holds

\* PositionBook.apply on those numbers.
LEMMA PositionStep ==
  ASSUME NEW a, NEW q \in Int, NEW n \in Int, NEW m \in Int, NEW d \in Positive,
         NEW fill \in AnyFill, Holds(a, q, n, m, d)
  PROVE  Holds(PositionApply(a, fill), AfterQty(q, fill), AfterAvg(q, n, d, fill),
               AfterRealized(q, n, m, d, fill), AfterDen(q, d, fill))
<1>1. a \in Accounts /\ a.avg \in Rational /\ a.realized \in Rational /\ a.qty = q
      /\ At(a.avg, n, d) /\ At(a.realized, m, d)
  BY DEF Holds, Accounts
<1>2. /\ Magnitude(q) \in Int /\ Fresh(q, fill) \in Positive /\ AfterQty(q, fill) \in Int
      /\ fill.price * fill.qty \in Int /\ fill.price * d \in Int /\ fill.price \in Int
  <2>1. Magnitude(q) \in Nat => Magnitude(q) \in Int
    OBVIOUS
  <2>2. fill.price \in Int
    BY DEF AnyFill
  <2> QED BY <2>1, <2>2, AfterTypes, Zenon
<1> DEFINE b == PositionApply(a, fill)
<1>3. CASE Opening(q, fill)
  <2> DEFINE sum == Plus(Times(a.avg, Magnitude(q)), Whole(fill.price * fill.qty))
  <2> DEFINE N == n * Magnitude(q) + (fill.price * fill.qty) * d
  <2>1. Times(a.avg, Magnitude(q)) \in Rational /\ At(Times(a.avg, Magnitude(q)), n * Magnitude(q), d)
    BY <1>1, <1>2, TimesAt
  <2>2. /\ Whole(fill.price * fill.qty) \in Rational
        /\ At(Whole(fill.price * fill.qty), (fill.price * fill.qty) * d, d)
    BY <1>2, WholeAt
  <2>3. n * Magnitude(q) \in Int /\ (fill.price * fill.qty) * d \in Int /\ N \in Int
    BY <1>2 DEF Positive
  <2>4. sum \in Rational /\ At(sum, N, d)
    BY <2>1, <2>2, <2>3, PlusAt
  <2> HIDE DEF sum, N
  <2>5. Over(sum, Fresh(q, fill)) \in Rational /\ At(Over(sum, Fresh(q, fill)), N, d * Fresh(q, fill))
    BY <1>2, <2>3, <2>4, OverAt
  <2>6. b = [a EXCEPT !.avg = Over(sum, Fresh(q, fill)), !.qty = AfterQty(q, fill)]
    BY <1>1, <1>3, Zenon DEF PositionApply, Blend, Fresh, AfterQty, sum
  <2>7. At(a.realized, m * Fresh(q, fill), d * Fresh(q, fill))
    BY <1>1, <1>2, AtScaled DEF Positive
  <2> HIDE DEF b
  <2>8. b \in Accounts /\ b.qty = AfterQty(q, fill) /\ b.avg = Over(sum, Fresh(q, fill))
        /\ b.realized = a.realized
    BY <1>1, <1>2, <2>5, <2>6 DEF Accounts
  <2> QED BY <1>3, <2>5, <2>7, <2>8 DEF Holds, AfterAvg, AfterRealized, AfterDen, N, b
<1>4. CASE ~Opening(q, fill)
  <2> DEFINE avg == IF AfterQty(q, fill) = 0 THEN Whole(0)
                    ELSE IF Crosses(q, fill) THEN Whole(fill.price) ELSE a.avg
  <2>1. b = [a EXCEPT !.realized = Plus(a.realized, Gain(a, fill)), !.avg = avg,
                      !.qty = AfterQty(q, fill)]
    BY <1>1, <1>4, Zenon DEF PositionApply, AfterQty, Crosses
  <2>2. Whole(0) \in Rational /\ At(Whole(0), 0, d)
    BY DEF Whole, Rational, At, Positive
  <2>3. Whole(fill.price) \in Rational /\ At(Whole(fill.price), fill.price * d, d)
    BY <1>2, WholeAt
  <2>4. avg \in Rational /\ At(avg, AfterAvg(q, n, d, fill), d)
    BY <1>1, <1>4, <2>2, <2>3 DEF AfterAvg
  <2> HIDE DEF avg, b
  <2>5. b \in Accounts /\ b.qty = AfterQty(q, fill) /\ b.avg = avg
        /\ b.realized = Plus(a.realized, Gain(a, fill))
    BY <1>1, <1>2, <2>1, <2>4, GainAt DEF Accounts
  <2> QED BY <1>4, <2>4, <2>5, GainAt DEF Holds, AfterRealized, AfterDen, b
<1> QED BY <1>3, <1>4

\* AverageCostBasis repeats it.
LEMMA AverageIsPosition ==
  ASSUME NEW a \in Accounts, NEW fill \in AnyFill
  PROVE  AverageApply(a, fill) = PositionApply(a, fill)
<1> DEFINE q == a.qty + fill.sign * fill.qty
<1> DEFINE turned == q # 0 /\ (q > 0) # (a.qty > 0)
<1>1. CASE Opening(a.qty, fill)
  BY <1>1 DEF AverageApply, PositionApply, Accounts
<1>2. CASE ~Opening(a.qty, fill)
  <2> DEFINE avg == IF q = 0 THEN Whole(0) ELSE IF turned THEN Whole(fill.price) ELSE a.avg
  <2>1. PositionApply(a, fill)
          = [a EXCEPT !.realized = Plus(a.realized, Gain(a, fill)), !.avg = avg, !.qty = q]
    BY <1>2, Zenon DEF PositionApply
  <2>2. (CASE q = 0 -> Whole(0)
           [] q # 0 /\ (q > 0) # (a.qty > 0) -> Whole(fill.price)
           [] OTHER -> a.avg) = avg
    OBVIOUS
  <2>3. AverageApply(a, fill)
          = [qty |-> q, avg |-> avg, realized |-> Plus(a.realized, Gain(a, fill))]
    BY <1>2, <2>2, Zenon DEF AverageApply
  <2> HIDE DEF avg, q
  <2> QED BY <2>1, <2>3 DEF Accounts
<1> QED BY <1>1, <1>2

\* A fill never closes more than there is, from the other side.
LEMMA ClosingIs ==
  ASSUME NEW q \in Int, NEW fill \in AnyFill, ~Opening(q, fill)
  PROVE  LET t == Smaller(fill.qty, Magnitude(q))
         IN  /\ q # 0 /\ Direction(q) = -fill.sign /\ q = -(fill.sign * Magnitude(q))
             /\ Closing(q, fill) = -(fill.sign * t)
             /\ AfterQty(q, fill) = fill.sign * (fill.qty - Magnitude(q))
             /\ Crosses(q, fill) <=> fill.qty > Magnitude(q)
<1>1. fill.sign \in {1, -1} /\ fill.qty \in Int /\ fill.qty > 0
  BY DEF AnyFill, Positive
<1>2. q # 0 /\ (q > 0 <=> fill.sign < 0)
  BY <1>1 DEF Opening
<1> DEFINE t == Smaller(fill.qty, Magnitude(q))
<1>3. CASE fill.sign = 1
  BY <1>1, <1>2, <1>3 DEF Direction, Magnitude, Closing, Smaller, AfterQty, Crosses
<1>4. CASE fill.sign = -1
  <2>1. q > 0 /\ Magnitude(q) = q /\ Direction(q) = 1
    BY <1>1, <1>2, <1>4 DEF Magnitude, Direction
  <2>2. AfterQty(q, fill) = q - fill.qty
    BY <1>1, <1>4 DEF AfterQty
  <2>3. t \in Int
    BY <1>1, <2>1 DEF Smaller
  <2>4. Closing(q, fill) = t
    BY <2>1, <2>3 DEF Closing
  <2>5. Crosses(q, fill) <=> fill.qty > Magnitude(q)
    BY <2>1, <2>2, <1>1 DEF Crosses
  <2> HIDE DEF t
  <2>7. Closing(q, fill) = -(fill.sign * t)
    BY <2>3, <2>4, <1>4
  <2>8. AfterQty(q, fill) = fill.sign * (fill.qty - Magnitude(q))
    BY <2>1, <2>2, <1>1, <1>4
  <2>6. \A i \in Int : i + 1 = 0 => -i = 1
    OBVIOUS
  <2>9. q = -(fill.sign * Magnitude(q)) /\ Direction(q) = -fill.sign
    <3>1. fill.sign \in Int
      BY <1>1
    <3>2. -fill.sign = 1
      <4>1. fill.sign + 1 = 0
        BY <1>4
      <4> QED BY <3>1, <4>1, <2>6, Zenon
    <3>3. fill.sign * q = -q
      BY <1>4, <2>1
    <3> QED BY <2>1, <3>2, <3>3
  <2> QED BY <1>2, <2>5, <2>7, <2>8, <2>9 DEF t
<1> QED BY <1>1, <1>3, <1>4

\* And one that opens makes the side it is on larger.
LEMMA OpeningIs ==
  ASSUME NEW q \in Int, NEW fill \in AnyFill, Opening(q, fill)
  PROVE  /\ q = fill.sign * Magnitude(q)
         /\ AfterQty(q, fill) = fill.sign * Fresh(q, fill)
         /\ AfterQty(q, fill) # 0 /\ Direction(AfterQty(q, fill)) = fill.sign
         /\ Magnitude(AfterQty(q, fill)) = Fresh(q, fill)
<1>1. fill.sign \in {1, -1} /\ fill.qty \in Int /\ fill.qty > 0
  BY DEF AnyFill, Positive
<1>2. q = 0 \/ (q > 0 <=> fill.sign > 0)
  BY <1>1 DEF Opening
<1>3. CASE fill.sign = 1
  BY <1>1, <1>2, <1>3 DEF Direction, Magnitude, Fresh, AfterQty
<1>4. CASE fill.sign = -1
  BY <1>1, <1>2, <1>4 DEF Direction, Magnitude, Fresh, AfterQty
<1> QED BY <1>1, <1>3, <1>4

\* The sums behind an opening fill; a partial close, a full one and a flip.
LEMMA OpeningSums ==
  ASSUME NEW s \in Int, NEW k \in Int, NEW p \in Int, NEW size \in Int, NEW q \in Int,
         NEW n \in Int, NEW m \in Int, NEW d \in Int, NEW money \in Int, NEW z \in Int,
         m - n * q = money * d, q = s * size
  PROVE  m * z - (n * size + (p * k) * d) * (s * z) = (money + (-s * k * p)) * (d * z)
<1>1. m * z - (n * size + (p * k) * d) * (s * z) = (m - n * (s * size) - (s * k * p) * d) * z
  OBVIOUS
<1>2. (money + (-s * k * p)) * (d * z) = (money * d - (s * k * p) * d) * z
  OBVIOUS
<1>3. m - n * (s * size) - (s * k * p) * d = money * d - (s * k * p) * d
  OBVIOUS
<1> QED BY <1>1, <1>2, <1>3

LEMMA ClosingSums ==
  ASSUME NEW s \in Int, NEW k \in Int, NEW p \in Int, NEW size \in Int, NEW q \in Int,
         NEW n \in Int, NEW m \in Int, NEW d \in Int, NEW money \in Int,
         m - n * q = money * d, q = -(s * size)
  PROVE  /\ (m + (p * d - n) * (-(s * k))) - n * (s * (k - size)) = (money + (-s * k * p)) * d
         /\ k = size => (m + (p * d - n) * (-(s * k))) - 0 * 0 = (money + (-s * k * p)) * d
         /\ (m + (p * d - n) * (-(s * size))) - (p * d) * (s * (k - size))
              = (money + (-s * k * p)) * d
<1>1. m + n * (s * size) = money * d
  OBVIOUS
<1>2. (money + (-s * k * p)) * d = money * d - (s * k * p) * d
  OBVIOUS
<1>3. (m + (p * d - n) * (-(s * k))) - n * (s * (k - size))
        = m + n * (s * size) - (s * k * p) * d
  OBVIOUS
<1>4. (m + (p * d - n) * (-(s * k))) - 0 * 0 = m + n * (s * k) - (s * k * p) * d
  OBVIOUS
<1>5. (m + (p * d - n) * (-(s * size))) - (p * d) * (s * (k - size))
        = m + n * (s * size) - (s * k * p) * d
  OBVIOUS
<1>6. (m + (p * d - n) * (-(s * k))) - n * (s * (k - size)) = (money + (-s * k * p)) * d
  BY <1>1, <1>2, <1>3
<1>7. ASSUME k = size
      PROVE  (m + (p * d - n) * (-(s * k))) - 0 * 0 = (money + (-s * k * p)) * d
  BY <1>1, <1>2, <1>4, <1>7
<1>8. (m + (p * d - n) * (-(s * size))) - (p * d) * (s * (k - size))
        = (money + (-s * k * p)) * d
  BY <1>1, <1>2, <1>5
<1> QED BY <1>6, <1>7, <1>8

\* After a fill the numbers account for its proceeds.
LEMMA AfterBalanced ==
  ASSUME NEW q \in Int, NEW n \in Int, NEW m \in Int, NEW d \in Positive,
         NEW fill \in AnyFill, NEW money \in Int, m - n * q = money * d
  PROVE  AfterRealized(q, n, m, d, fill) - AfterAvg(q, n, d, fill) * AfterQty(q, fill)
           = (money + Proceeds(fill)) * AfterDen(q, d, fill)
<1> DEFINE s == fill.sign
<1> DEFINE k == fill.qty
<1> DEFINE p == fill.price
<1> DEFINE size == Magnitude(q)
<1>1. s \in Int /\ s # 0 /\ k \in Int /\ p \in Int /\ d \in Int /\ size \in Int
  BY AfterTypes DEF AnyFill, Positive, Magnitude
<1>2. Proceeds(fill) = -s * k * p
  BY DEF Proceeds
<1>3. CASE Opening(q, fill)
  <2> DEFINE z == Fresh(q, fill)
  <2>1. z \in Int
    BY <1>1 DEF Fresh
  <2>2. q = s * size /\ AfterQty(q, fill) = s * z
    BY <1>3, OpeningIs
  <2>3. /\ AfterRealized(q, n, m, d, fill) = m * z
        /\ AfterAvg(q, n, d, fill) = n * size + (p * k) * d
        /\ AfterDen(q, d, fill) = d * z
    BY <1>3 DEF AfterRealized, AfterAvg, AfterDen
  <2> HIDE DEF z, size, s, k, p
  <2>4. m * z - (n * size + (p * k) * d) * (s * z) = (money + (-s * k * p)) * (d * z)
    BY <1>1, <2>1, <2>2, OpeningSums
  <2> QED BY <1>2, <2>2, <2>3, <2>4, Zenon
<1>4. CASE ~Opening(q, fill)
  <2> DEFINE t == Smaller(k, size)
  <2>1. /\ q = -(s * size) /\ Closing(q, fill) = -(s * t)
        /\ AfterQty(q, fill) = s * (k - size)
        /\ Crosses(q, fill) <=> k > size
    BY <1>4, ClosingIs
  <2>2. AfterDen(q, d, fill) = d
    BY <1>4 DEF AfterDen
  <2>3. AfterRealized(q, n, m, d, fill) = m + (p * d - n) * (-(s * t))
    BY <1>4, <2>1, Zenon DEF AfterRealized
  <2>4. AfterAvg(q, n, d, fill)
          = IF AfterQty(q, fill) = 0 THEN 0 ELSE IF Crosses(q, fill) THEN p * d ELSE n
    BY <1>4 DEF AfterAvg
  <2>5. t = IF k <= size THEN k ELSE size
    BY DEF Smaller
  <2> HIDE DEF t, size, s, k, p
  <2>6. k # size => s * (k - size) # 0
    BY <1>1
  <2>7. CASE k < size
    <3>1. t = k /\ AfterAvg(q, n, d, fill) = n
      BY <1>1, <2>1, <2>4, <2>5, <2>6, <2>7
    <3>2. (m + (p * d - n) * (-(s * k))) - n * (s * (k - size)) = (money + (-s * k * p)) * d
      BY <1>1, <2>1, ClosingSums
    <3> QED BY <1>2, <2>1, <2>2, <2>3, <3>1, <3>2, Zenon
  <2>8. CASE k = size
    <3>1. t = k /\ AfterQty(q, fill) = 0 /\ AfterAvg(q, n, d, fill) = 0
      BY <1>1, <2>1, <2>4, <2>5, <2>8
    <3>2. (m + (p * d - n) * (-(s * k))) - 0 * 0 = (money + (-s * k * p)) * d
      BY <1>1, <2>1, <2>8, ClosingSums
    <3> QED BY <1>2, <2>2, <2>3, <3>1, <3>2, Zenon
  <2>9. CASE k > size
    <3>1. t = size /\ AfterAvg(q, n, d, fill) = p * d
      BY <1>1, <2>1, <2>4, <2>5, <2>6, <2>9
    <3>2. (m + (p * d - n) * (-(s * size))) - (p * d) * (s * (k - size))
            = (money + (-s * k * p)) * d
      BY <1>1, <2>1, ClosingSums
    <3> QED BY <1>2, <2>1, <2>2, <2>3, <3>1, <3>2, Zenon
  <2> QED BY <1>1, <2>7, <2>8, <2>9
<1> QED BY <1>3, <1>4

\* The mock's book does the same to the same numbers, until it changes sides.
LEMMA VenueStep ==
  ASSUME NEW a, NEW q \in Int, NEW n \in Int, NEW m \in Int, NEW d \in Positive,
         NEW fill \in AnyFill, Holds(a, q, n, m, d), q * AfterQty(q, fill) >= 0
  PROVE  Holds(VenueApply(a, fill), AfterQty(q, fill), AfterAvg(q, n, d, fill),
               AfterRealized(q, n, m, d, fill), AfterDen(q, d, fill))
<1>1. a \in Accounts /\ a.avg \in Rational /\ a.realized \in Rational /\ a.qty = q
      /\ At(a.avg, n, d) /\ At(a.realized, m, d)
  BY DEF Holds, Accounts
<1>2. /\ Magnitude(q) \in Nat /\ Fresh(q, fill) \in Positive /\ AfterQty(q, fill) \in Int
      /\ fill.price * fill.qty \in Int /\ AfterAvg(q, n, d, fill) \in Int
  BY AfterTypes, Zenon
<1>3. fill.sign \in {1, -1} /\ fill.qty \in Int /\ fill.price \in Int /\ d \in Int
  BY DEF AnyFill, Positive
<1> DEFINE b == VenueApply(a, fill)
<1>4. CASE Opening(q, fill)
  <2> DEFINE signed == fill.price * (fill.sign * fill.qty)
  <2> DEFINE sum == Plus(Times(a.avg, q), Whole(signed))
  <2> DEFINE N == n * q + signed * d
  <2>1. signed \in Int /\ n * q \in Int /\ signed * d \in Int /\ N \in Int
    BY <1>3
  <2>2. Times(a.avg, q) \in Rational /\ At(Times(a.avg, q), n * q, d)
    BY <1>1, TimesAt
  <2>3. Whole(signed) \in Rational /\ At(Whole(signed), signed * d, d)
    BY <2>1, WholeAt
  <2>4. sum \in Rational /\ At(sum, N, d)
    BY <2>1, <2>2, <2>3, PlusAt
  <2>5. N * fill.sign = AfterAvg(q, n, d, fill)
    <3>1. q = fill.sign * Magnitude(q)
      BY <1>4, OpeningIs
    <3>2. AfterAvg(q, n, d, fill) = n * Magnitude(q) + (fill.price * fill.qty) * d
      BY <1>4 DEF AfterAvg
    <3>3. fill.sign * fill.sign = 1 /\ Magnitude(q) \in Int
      BY <1>2, <1>3
    <3> DEFINE s == fill.sign
    <3> DEFINE k == fill.qty
    <3> DEFINE p == fill.price
    <3> DEFINE size == Magnitude(q)
    <3>4. s \in Int /\ k \in Int /\ p \in Int /\ size \in Int
      BY <3>3, <1>3
    <3> HIDE DEF s, k, p, size
    <3>5. (n * (s * size) + (p * (s * k)) * d) * s = (n * size + (p * k) * d) * (s * s)
      BY <3>4, <1>3
    <3>6. (n * size + (p * k) * d) * 1 = n * size + (p * k) * d
      BY <3>4, <1>3
    <3>7. s * s = 1 /\ q = s * size
      BY <3>1, <3>3 DEF s, size
    <3>8. (n * q + (p * (s * k)) * d) * s = n * size + (p * k) * d
      BY <3>5, <3>6, <3>7
    <3> QED BY <3>2, <3>8 DEF s, k, p, size
  <2> HIDE DEF sum, N
  <2>6. Times(sum, fill.sign) \in Rational /\ At(Times(sum, fill.sign), N * fill.sign, d)
    <3>1. fill.sign \in Int
      BY <1>3
    <3> QED BY <3>1, <2>1, <2>4, TimesAt
  <2> DEFINE avg == Over(Times(sum, fill.sign), Fresh(q, fill))
  <2>7. avg \in Rational /\ At(avg, AfterAvg(q, n, d, fill), d * Fresh(q, fill))
    BY <2>5, <2>6, <1>2, OverAt
  <2>8. b = [a EXCEPT !.avg = avg, !.qty = AfterQty(q, fill)]
    <3>1. /\ Direction(AfterQty(q, fill)) = fill.sign
          /\ Magnitude(AfterQty(q, fill)) = Fresh(q, fill)
      BY <1>4, OpeningIs
    <3> QED BY <3>1, <1>1, <1>4, Zenon DEF VenueApply, AfterQty, sum
  <2>9. At(a.realized, m * Fresh(q, fill), d * Fresh(q, fill))
    BY <1>1, <1>2, AtScaled DEF Positive
  <2> HIDE DEF b, avg
  <2>10. b \in Accounts /\ b.qty = AfterQty(q, fill) /\ b.avg = avg /\ b.realized = a.realized
    BY <1>1, <1>2, <2>7, <2>8 DEF Accounts
  <2> QED BY <1>4, <2>7, <2>9, <2>10 DEF Holds, AfterRealized, AfterDen, b
<1>5. CASE ~Opening(q, fill)
  <2>1. ~Crosses(q, fill)
    <3>1. q = -(fill.sign * Magnitude(q)) /\ q # 0 /\ Magnitude(q) > 0
      BY <1>5, ClosingIs DEF Magnitude
    <3>2. AfterQty(q, fill) = fill.sign * (fill.qty - Magnitude(q))
      BY <1>5, ClosingIs
    <3>3. ASSUME fill.qty > Magnitude(q)
          PROVE  FALSE
      <4> DEFINE size == Magnitude(q)
      <4> DEFINE more == fill.qty - size
      <4>1. size \in Int /\ more \in Int /\ size > 0 /\ more > 0
        BY <3>1, <3>3, <1>2, <1>3
      <4>2. q * AfterQty(q, fill) = -(size * more)
        <5> HIDE DEF size
        <5>1. CASE fill.sign = 1
          BY <5>1, <3>1, <3>2, <4>1 DEF size
        <5>2. CASE fill.sign = -1
          BY <5>2, <3>1, <3>2, <4>1 DEF size
        <5> QED BY <5>1, <5>2, <1>3
      <4> HIDE DEF size, more
      <4>3. size * more > 0
        BY <4>1
      <4> QED BY <4>2, <4>3, <4>1
    <3> QED BY <3>3, <1>5, ClosingIs
  <2> DEFINE avg == IF AfterQty(q, fill) = 0 THEN Whole(0) ELSE a.avg
  <2>2. b = [a EXCEPT !.realized = Plus(a.realized, Gain(a, fill)),
                      !.qty = AfterQty(q, fill), !.avg = avg]
    BY <1>1, <1>5, Zenon DEF VenueApply, AfterQty
  <2>3. Whole(0) \in Rational /\ At(Whole(0), 0, d)
    BY DEF Whole, Rational, At, Positive
  <2>4. avg \in Rational /\ At(avg, AfterAvg(q, n, d, fill), d)
    BY <1>1, <1>5, <2>1, <2>3 DEF AfterAvg
  <2> HIDE DEF avg, b
  <2>5. b \in Accounts /\ b.qty = AfterQty(q, fill) /\ b.avg = avg
        /\ b.realized = Plus(a.realized, Gain(a, fill))
    BY <1>1, <1>2, <2>2, <2>4, GainAt DEF Accounts
  <2> QED BY <1>5, <2>4, <2>5, GainAt DEF Holds, AfterRealized, AfterDen, b
<1> QED BY <1>4, <1>5

\* Even then it stays an account of the right size.
LEMMA VenueType ==
  ASSUME NEW a \in Accounts, NEW fill \in AnyFill
  PROVE  VenueApply(a, fill) \in Accounts /\ VenueApply(a, fill).qty = AfterQty(a.qty, fill)
<1>1. a.avg \in Rational /\ a.realized \in Rational /\ a.qty \in Int
  BY DEF Accounts
<1>2. PICK n \in Int, m \in Int, d \in Positive : Holds(a, a.qty, n, m, d)
  BY AccountHolds
<1>3. fill.sign \in {1, -1} /\ fill.qty \in Int /\ fill.qty > 0 /\ fill.price \in Int
  BY DEF AnyFill, Positive
<1> DEFINE q == AfterQty(a.qty, fill)
<1>4. q \in Int
  BY <1>1, <1>3 DEF AfterQty
<1>5. CASE Opening(a.qty, fill)
  <2> DEFINE sum == Plus(Times(a.avg, a.qty), Whole(fill.price * (fill.sign * fill.qty)))
  <2>1. fill.price * (fill.sign * fill.qty) \in Int
    BY <1>3
  <2>2. Times(a.avg, a.qty) \in Rational
    BY <1>1, <1>2, TimesAt DEF Holds
  <2>3. PICK k \in Int, e \in Positive : At(Times(a.avg, a.qty), k, e)
    BY <2>2, RationalAt
  <2>4. /\ Whole(fill.price * (fill.sign * fill.qty)) \in Rational
        /\ At(Whole(fill.price * (fill.sign * fill.qty)),
              (fill.price * (fill.sign * fill.qty)) * e, e)
    BY <2>1, WholeAt
  <2>5. (fill.price * (fill.sign * fill.qty)) * e \in Int
    BY <2>1 DEF Positive
  <2>6. sum \in Rational
    BY <2>2, <2>3, <2>4, <2>5, PlusAt
  <2> HIDE DEF sum
  <2>7. Direction(q) \in Int /\ Magnitude(q) \in Positive
    BY <1>4, <1>5, <1>1, OpeningIs DEF Direction, Magnitude, Positive
  <2>8. Times(sum, Direction(q)) \in Rational
    BY <2>6, <2>7, RationalAt, TimesAt
  <2>9. Over(Times(sum, Direction(q)), Magnitude(q)) \in Rational
    BY <2>7, <2>8, RationalAt, OverAt
  <2> DEFINE avg == Over(Times(sum, Direction(q)), Magnitude(q))
  <2>10. VenueApply(a, fill) = [a EXCEPT !.avg = avg, !.qty = q]
    BY <1>5, Zenon DEF VenueApply, AfterQty, sum
  <2>11. avg \in Rational
    BY <2>9
  <2> HIDE DEF avg, q
  <2> QED BY <1>1, <1>4, <2>10, <2>11 DEF Accounts, q
<1>6. CASE ~Opening(a.qty, fill)
  <2>1. Plus(a.realized, Gain(a, fill)) \in Rational
    BY <1>1, <1>2, GainAt
  <2>2. Whole(0) \in Rational
    BY DEF Whole, Rational
  <2> DEFINE avg == IF q = 0 THEN Whole(0) ELSE a.avg
  <2>3. VenueApply(a, fill)
          = [a EXCEPT !.realized = Plus(a.realized, Gain(a, fill)), !.qty = q, !.avg = avg]
    BY <1>6, Zenon DEF VenueApply, AfterQty
  <2>4. avg \in Rational
    BY <1>1, <2>2
  <2> HIDE DEF avg, q
  <2> QED BY <1>4, <2>1, <2>3, <2>4 DEF Accounts, q
<1> QED BY <1>5, <1>6 DEF q

-----------------------------------------------------------------------------
(* Two books of the same fills. *)

SameBook(a, b) ==
  /\ a.qty = b.qty
  /\ At(b.avg, a.avg.num, a.avg.den)
  /\ At(b.realized, a.realized.num, a.realized.den)

LEMMA AtMoves ==
  ASSUME NEW r \in Rational, NEW s \in Rational, NEW n \in Int, NEW d \in Positive,
         At(r, n, d), At(s, r.num, r.den)
  PROVE  At(s, n, d)
<1> DEFINE rn == r.num
<1> DEFINE rd == r.den
<1> DEFINE sn == s.num
<1> DEFINE sd == s.den
<1>1. rn \in Int /\ rd \in Int /\ rd # 0 /\ sn \in Int /\ sd \in Int /\ d \in Int
  BY DEF Rational, Positive
<1>2. rn * d = n * rd /\ sn * rd = rn * sd
  BY DEF At
<1> HIDE DEF rn, rd, sn, sd
<1>3. (sn * d) * rd = (n * sd) * rd
  <2>1. (sn * d) * rd = (sn * rd) * d /\ (rn * sd) * d = (rn * d) * sd
    BY <1>1
  <2>2. (n * rd) * sd = (n * sd) * rd
    BY <1>1
  <2> QED BY <2>1, <2>2, <1>2
<1>4. sn * d \in Int /\ n * sd \in Int
  BY <1>1
<1>5. sn * d = n * sd
  BY <1>1, <1>3, <1>4, Cancel
<1> QED BY <1>5 DEF At, sn, sd

LEMMA AtBoth ==
  ASSUME NEW r \in Rational, NEW s \in Rational, NEW n \in Int, NEW d \in Positive,
         At(r, n, d), At(s, n, d)
  PROVE  At(s, r.num, r.den)
<1> DEFINE rn == r.num
<1> DEFINE rd == r.den
<1> DEFINE sn == s.num
<1> DEFINE sd == s.den
<1>1. rn \in Int /\ rd \in Int /\ sn \in Int /\ sd \in Int /\ d \in Int /\ d # 0
  BY DEF Rational, Positive
<1>2. rn * d = n * rd /\ sn * d = n * sd
  BY DEF At
<1> HIDE DEF rn, rd, sn, sd
<1>3. (sn * rd) * d = (rn * sd) * d
  <2>1. (sn * rd) * d = (sn * d) * rd /\ (rn * sd) * d = (rn * d) * sd
    BY <1>1
  <2>2. (n * rd) * sd = (n * sd) * rd
    BY <1>1
  <2> QED BY <2>1, <2>2, <1>2
<1>4. sn * rd \in Int /\ rn * sd \in Int
  BY <1>1
<1>5. sn * rd = rn * sd
  BY <1>1, <1>3, <1>4, Cancel
<1> QED BY <1>5 DEF At, rn, rd, sn, sd

LEMMA SameHolds ==
  ASSUME NEW a \in Accounts, NEW b \in Accounts, SameBook(a, b),
         NEW n \in Int, NEW m \in Int, NEW d \in Positive, Holds(a, a.qty, n, m, d)
  PROVE  Holds(b, a.qty, n, m, d)
<1>1. a.avg \in Rational /\ b.avg \in Rational /\ a.realized \in Rational /\ b.realized \in Rational
  BY DEF Accounts
<1> QED BY <1>1, AtMoves DEF SameBook, Holds

LEMMA HoldsSame ==
  ASSUME NEW a \in Accounts, NEW b \in Accounts, NEW q \in Int,
         NEW n \in Int, NEW m \in Int, NEW d \in Positive, Holds(a, q, n, m, d), Holds(b, q, n, m, d)
  PROVE  SameBook(a, b)
<1>1. a.avg \in Rational /\ b.avg \in Rational /\ a.realized \in Rational /\ b.realized \in Rational
  BY DEF Accounts
<1> QED BY <1>1, AtBoth DEF SameBook, Holds

\* Two accounts at one denominator.
LEMMA BothHold ==
  ASSUME NEW a \in Accounts, NEW b \in Accounts
  PROVE  \E n \in Int, m \in Int, k \in Int, l \in Int, d \in Positive :
           Holds(a, a.qty, n, m, d) /\ Holds(b, b.qty, k, l, d)
<1>1. PICK n \in Int, m \in Int, d \in Positive : Holds(a, a.qty, n, m, d)
  BY AccountHolds
<1>2. PICK k \in Int, l \in Int, e \in Positive : Holds(b, b.qty, k, l, e)
  BY AccountHolds
<1>3. e \in Int /\ d \in Int /\ e > 0 /\ d > 0
  BY DEF Positive
<1>4. n * e \in Int /\ m * e \in Int /\ k * d \in Int /\ l * d \in Int /\ d * e \in Positive
      /\ e * d = d * e
  BY <1>3 DEF Positive
<1>5. a.avg \in Rational /\ b.avg \in Rational /\ a.realized \in Rational /\ b.realized \in Rational
  BY DEF Accounts
<1>6. At(a.avg, n * e, d * e) /\ At(a.realized, m * e, d * e)
  BY <1>1, <1>3, <1>5, AtScaled DEF Holds
<1>7. At(b.avg, k * d, e * d) /\ At(b.realized, l * d, e * d)
  BY <1>2, <1>3, <1>5, AtScaled DEF Holds
<1>8. Holds(a, a.qty, n * e, m * e, d * e) /\ Holds(b, b.qty, k * d, l * d, d * e)
  BY <1>4, <1>6, <1>7 DEF Holds
<1> QED BY <1>4, <1>8

\* A fill in the position book, and in a venue's book that stays on its side.
LEMMA PositionBooks ==
  ASSUME NEW a \in Accounts, NEW fill \in AnyFill, NEW money \in Int, Balanced(a, money)
  PROVE  /\ PositionApply(a, fill) \in Accounts
         /\ PositionApply(a, fill).qty = AfterQty(a.qty, fill)
         /\ Balanced(PositionApply(a, fill), money + Proceeds(fill))
<1>1. PICK n \in Int, m \in Int, d \in Positive : Holds(a, a.qty, n, m, d)
  BY AccountHolds
<1>2. a.qty \in Int
  BY DEF Accounts
<1>3. m - n * a.qty = money * d
  BY <1>1, <1>2, BalancedAt
<1>4. Holds(PositionApply(a, fill), AfterQty(a.qty, fill), AfterAvg(a.qty, n, d, fill),
            AfterRealized(a.qty, n, m, d, fill), AfterDen(a.qty, d, fill))
  BY <1>1, <1>2, PositionStep
<1>5. money + Proceeds(fill) \in Int
  BY DEF Proceeds, AnyFill, Positive
<1>6. /\ AfterQty(a.qty, fill) \in Int /\ AfterDen(a.qty, d, fill) \in Positive
      /\ AfterAvg(a.qty, n, d, fill) \in Int /\ AfterRealized(a.qty, n, m, d, fill) \in Int
  BY <1>2, AfterTypes, Zenon
<1>7. AfterRealized(a.qty, n, m, d, fill) - AfterAvg(a.qty, n, d, fill) * AfterQty(a.qty, fill)
        = (money + Proceeds(fill)) * AfterDen(a.qty, d, fill)
  BY <1>2, <1>3, AfterBalanced
<1>8. Balanced(PositionApply(a, fill), money + Proceeds(fill))
  BY <1>4, <1>5, <1>6, <1>7, BalancedAt
<1> QED BY <1>4, <1>8 DEF Holds

LEMMA VenueBooks ==
  ASSUME NEW a \in Accounts, NEW fill \in AnyFill, NEW money \in Int, Balanced(a, money),
         a.qty * AfterQty(a.qty, fill) >= 0
  PROVE  Balanced(VenueApply(a, fill), money + Proceeds(fill))
<1>1. PICK n \in Int, m \in Int, d \in Positive : Holds(a, a.qty, n, m, d)
  BY AccountHolds
<1>2. a.qty \in Int
  BY DEF Accounts
<1>3. m - n * a.qty = money * d
  BY <1>1, <1>2, BalancedAt
<1>4. Holds(VenueApply(a, fill), AfterQty(a.qty, fill), AfterAvg(a.qty, n, d, fill),
            AfterRealized(a.qty, n, m, d, fill), AfterDen(a.qty, d, fill))
  BY <1>1, <1>2, VenueStep
<1>5. money + Proceeds(fill) \in Int
  BY DEF Proceeds, AnyFill, Positive
<1>6. /\ AfterQty(a.qty, fill) \in Int /\ AfterDen(a.qty, d, fill) \in Positive
      /\ AfterAvg(a.qty, n, d, fill) \in Int /\ AfterRealized(a.qty, n, m, d, fill) \in Int
  BY <1>2, AfterTypes, Zenon
<1>7. AfterRealized(a.qty, n, m, d, fill) - AfterAvg(a.qty, n, d, fill) * AfterQty(a.qty, fill)
        = (money + Proceeds(fill)) * AfterDen(a.qty, d, fill)
  BY <1>2, <1>3, AfterBalanced
<1>8. Balanced(VenueApply(a, fill), money + Proceeds(fill))
  BY <1>4, <1>5, <1>6, <1>7, BalancedAt
<1> QED BY <1>8

LEMMA SameStep ==
  ASSUME NEW a \in Accounts, NEW b \in Accounts, NEW fill \in AnyFill, SameBook(a, b),
         a.qty * AfterQty(a.qty, fill) >= 0
  PROVE  SameBook(PositionApply(a, fill), VenueApply(b, fill))
<1>1. PICK n \in Int, m \in Int, d \in Positive : Holds(a, a.qty, n, m, d)
  BY AccountHolds
<1>2. a.qty \in Int
  BY DEF Accounts
<1>3. Holds(b, a.qty, n, m, d)
  BY <1>1, SameHolds
<1>4. Holds(PositionApply(a, fill), AfterQty(a.qty, fill), AfterAvg(a.qty, n, d, fill),
            AfterRealized(a.qty, n, m, d, fill), AfterDen(a.qty, d, fill))
  BY <1>1, <1>2, PositionStep
<1>5. Holds(VenueApply(b, fill), AfterQty(a.qty, fill), AfterAvg(a.qty, n, d, fill),
            AfterRealized(a.qty, n, m, d, fill), AfterDen(a.qty, d, fill))
  BY <1>3, <1>2, VenueStep
<1> QED BY <1>2, <1>4, <1>5, AfterTypes, HoldsSame DEF Holds

\* A flat position has no average.
LEMMA FlatPosition ==
  ASSUME NEW a \in Accounts, NEW fill \in AnyFill, PositionApply(a, fill).qty = 0
  PROVE  PositionApply(a, fill).avg = Whole(0)
<1> DEFINE q == AfterQty(a.qty, fill)
<1>1. PICK n \in Int, m \in Int, d \in Positive : Holds(a, a.qty, n, m, d)
  BY AccountHolds
<1>2. a.qty \in Int
  BY DEF Accounts
<1>3. q = 0
  BY <1>1, <1>2, PositionStep DEF Holds
<1>4. ~Opening(a.qty, fill)
  BY <1>2, <1>3, OpeningIs
<1>5. PositionApply(a, fill)
        = [a EXCEPT !.realized = Plus(a.realized, Gain(a, fill)), !.avg = Whole(0), !.qty = q]
  BY <1>3, <1>4, Zenon DEF PositionApply, AfterQty
<1> QED BY <1>5 DEF Accounts

-----------------------------------------------------------------------------
(***************************************************************************)
(* The inductive invariant.  Each side's book accounts for the money of    *)
(* the fills it has seen, the venue's until it changes sides; the averaged *)
(* basis is the position book; and as long as no fill is lost the two      *)
(* sides hold the same numbers, which under the guard are never short.     *)
(***************************************************************************)
BooksType ==
  /\ settings \in Settings
  /\ position \in Accounts /\ venue \in Accounts
  /\ fees \in Int /\ venueFees \in Int /\ cash \in Int /\ venueCash \in Int
  /\ mark \in Nat /\ executed \in Nat /\ lost \in Nat /\ crossed \in BOOLEAN

MoneyHeld ==
  /\ Balanced(position, cash)
  /\ ~crossed => Balanced(venue, venueCash)

FlatMeansNothing ==
  /\ position.qty = 0 => position.avg = Whole(0)
  /\ executed = 0 => venue.qty = 0

SameSoFar ==
  lost = 0 =>
    /\ position.qty = venue.qty
    /\ ~crossed => SameBook(position, venue)
    /\ 1 \notin Sizes => fees = venueFees
    /\ settings.guarded => position.qty >= 0 /\ ~crossed

BooksInv ==
  /\ BooksType
  /\ MoneyHeld
  /\ FlatMeansNothing
  /\ settings.method = "AVERAGE" => basis = position
  /\ SameSoFar

LEMMA FillTypes == ASSUME NEW fill \in Fills PROVE fill \in AnyFill /\ fill.qty \in Sizes
<1>1. fill \in [sign : {1, -1}, qty : Sizes, price : Prices]
  BY DEF Fills
<1>2. Prices \subseteq Int /\ Sizes \subseteq Positive
  BY PricesAssumption, SizesAssumption DEF Positive
<1> QED BY <1>1, <1>2 DEF AnyFill

\* From two shares on the mock's fee is never rounded to nothing.
LEMMA FeesAgree ==
  ASSUME NEW fill \in AnyFill
  PROVE  /\ CentsPerFill(fill) \in Int /\ EngineFee(fill) \in Int
         /\ fill.qty # 1 => EngineFee(fill) = CentsPerFill(fill)
<1>1. fill.qty \in Int /\ fill.qty >= 1
  BY DEF AnyFill, Positive
<1>2. RoundHalfEven(fill.qty, 2) \in Int /\ RoundHalfEven(fill.qty, 2) >= fill.qty \div 2
  BY <1>1 DEF RoundHalfEven
<1>3. fill.qty >= 2 => fill.qty \div 2 >= 1
  BY <1>1
<1>4. CentsPerFill(fill) \in Int /\ (fill.qty >= 2 => CentsPerFill(fill) > 0)
  BY <1>1, <1>2, <1>3 DEF CentsPerFill
<1> QED BY <1>1, <1>4 DEF EngineFee, Schedule, Smaller

LEMMA InitAccount ==
  /\ Account \in Accounts /\ Balanced(Account, 0)
  /\ SameBook(Account, Account) /\ Account.qty = 0 /\ Account.avg = Whole(0)
<1>1. Whole(0) \in Rational /\ At(Whole(0), 0, 1) /\ At(Whole(0), Whole(0).num, Whole(0).den)
  BY DEF Whole, Rational, At
<1>2. Account \in Accounts /\ Account.qty = 0 /\ Account.avg = Whole(0) /\ Account.realized = Whole(0)
  BY <1>1 DEF Account, Accounts
<1>3. Holds(Account, 0, 0, 0, 1)
  BY <1>1, <1>2 DEF Holds
<1>4. 1 \in Positive /\ 0 - 0 * 0 = 0 * 1
  BY DEF Positive
<1>5. Balanced(Account, 0)
  BY <1>3, <1>4, BalancedAt
<1> QED BY <1>1, <1>2, <1>5 DEF SameBook

LEMMA BooksInit == Init => BooksInv
<1> SUFFICES ASSUME Init PROVE BooksInv
  OBVIOUS
<1>1. /\ settings \in Settings /\ venue = Account /\ position = Account
      /\ venueFees = 0 /\ fees = 0 /\ mark = 0 /\ executed = 0 /\ lost = 0 /\ crossed = FALSE
      /\ venueCash = 0 /\ cash = 0
      /\ settings.method = "AVERAGE" => basis = Account
  BY DEF Init, NoMark
<1>2. BooksType
  <2>1. crossed \in BOOLEAN
    BY <1>1, Zenon
  <2>2. 0 \in Int /\ 0 \in Nat
    OBVIOUS
  <2> QED BY <1>1, <2>1, <2>2, InitAccount, Zenon DEF BooksType
<1>3. MoneyHeld /\ FlatMeansNothing
  BY <1>1, InitAccount DEF MoneyHeld, FlatMeansNothing
<1>4. SameSoFar
  BY <1>1, InitAccount DEF SameSoFar
<1> QED BY <1>1, <1>2, <1>3, <1>4 DEF BooksInv

\* What an execution does to the venue's side.
LEMMA VenueSide ==
  ASSUME BooksInv, NEW fill \in Fills, Execute(fill)
  PROVE  /\ venue' \in Accounts /\ venue'.qty = AfterQty(venue.qty, fill)
         /\ venueFees' \in Int /\ venueCash' \in Int /\ executed' \in Nat /\ executed' # 0
         /\ crossed' \in BOOLEAN
         /\ ~crossed' => ~crossed /\ venue.qty * AfterQty(venue.qty, fill) >= 0
         /\ ~crossed' => Balanced(venue', venueCash')
         /\ mark' = mark /\ settings' = settings
<1>1. venue \in Accounts /\ venueFees \in Int /\ venueCash \in Int /\ executed \in Nat
      /\ crossed \in BOOLEAN
  BY DEF BooksInv, BooksType
<1>2. fill \in AnyFill
  BY FillTypes
<1>3. /\ venue' = VenueApply(venue, fill) /\ venueFees' = venueFees + CentsPerFill(fill)
      /\ venueCash' = venueCash + Proceeds(fill) /\ executed' = executed + 1
      /\ crossed' = (crossed \/ venue.qty * venue'.qty < 0)
      /\ settings' = settings /\ mark' = mark
  BY DEF Execute
<1>4. venue' \in Accounts /\ venue'.qty = AfterQty(venue.qty, fill)
  BY <1>1, <1>2, <1>3, VenueType
<1>5. Proceeds(fill) \in Int /\ CentsPerFill(fill) \in Int
  BY <1>2, FeesAgree DEF Proceeds, AnyFill, Positive
<1>6. venue.qty \in Int /\ venue'.qty \in Int
  BY <1>1, <1>4 DEF Accounts
<1>7. ~crossed' => ~crossed /\ venue.qty * AfterQty(venue.qty, fill) >= 0
  <2> SUFFICES ASSUME ~crossed' PROVE ~crossed /\ venue.qty * AfterQty(venue.qty, fill) >= 0
    OBVIOUS
  <2>1. ~crossed /\ ~(venue.qty * venue'.qty < 0)
    BY <1>3, Zenon
  <2>2. venue.qty * venue'.qty \in Int
    BY <1>6
  <2> QED BY <2>1, <2>2, <1>4
<1>8. ~crossed' => Balanced(venue', venueCash')
  <2>1. ~crossed => Balanced(venue, venueCash)
    BY DEF BooksInv, MoneyHeld
  <2> QED BY <2>1, <1>1, <1>2, <1>3, <1>7, VenueBooks
<1> QED BY <1>1, <1>3, <1>4, <1>5, <1>7, <1>8

LEMMA BooksBook ==
  ASSUME BooksInv, NEW fill \in Fills, Book(fill)
  PROVE  BooksInv'
<1>1. fill \in AnyFill /\ fill.qty \in Sizes
  BY FillTypes
<1>2. /\ settings \in Settings /\ position \in Accounts /\ venue \in Accounts
      /\ fees \in Int /\ venueFees \in Int /\ cash \in Int /\ mark \in Nat /\ lost \in Nat
      /\ Balanced(position, cash)
      /\ settings.method = "AVERAGE" => basis = position
  BY DEF BooksInv, BooksType, MoneyHeld
<1>3. /\ Execute(fill) /\ position' = PositionApply(position, fill)
      /\ basis' = BasisApply(basis, fill) /\ fees' = fees + EngineFee(fill)
      /\ cash' = cash + Proceeds(fill) /\ lost' = lost
      /\ venue' = VenueApply(venue, fill) /\ venueFees' = venueFees + CentsPerFill(fill)
      /\ settings.guarded /\ fill.sign = -1 => fill.qty <= position.qty
  BY DEF Book, Execute
<1>4. /\ position' \in Accounts /\ position'.qty = AfterQty(position.qty, fill)
      /\ Balanced(position', cash')
  BY <1>1, <1>2, <1>3, PositionBooks
<1>5. Proceeds(fill) \in Int /\ EngineFee(fill) \in Int
  BY <1>1, FeesAgree DEF Proceeds, AnyFill, Positive
<1>6. BooksType'
  BY <1>2, <1>3, <1>4, <1>5, VenueSide DEF BooksType
<1>7. MoneyHeld'
  BY <1>3, <1>4, VenueSide DEF MoneyHeld, Balanced
<1>8. FlatMeansNothing'
  <2>1. position'.qty = 0 => position'.avg = Whole(0)
    BY <1>1, <1>2, <1>3, FlatPosition
  <2> QED BY <2>1, <1>3, VenueSide DEF FlatMeansNothing
<1>9. settings'.method = "AVERAGE" => basis' = position'
  <2>1. settings' = settings
    BY <1>3, VenueSide
  <2>2. settings.method = "AVERAGE" => BasisApply(basis, fill) = AverageApply(basis, fill)
    BY DEF BasisApply
  <2> QED BY <2>1, <2>2, <1>1, <1>2, <1>3, AverageIsPosition
<1>10. SameSoFar'
  <2> SUFFICES ASSUME lost' = 0 PROVE SameSoFar'
    BY DEF SameSoFar
  <2>1. /\ position.qty = venue.qty
        /\ ~crossed => SameBook(position, venue)
        /\ 1 \notin Sizes => fees = venueFees
        /\ settings.guarded => position.qty >= 0 /\ ~crossed
    BY <1>3 DEF BooksInv, SameSoFar
  <2>2. position'.qty = venue'.qty
    BY <2>1, <1>3, <1>4, VenueSide
  <2>3. ~crossed' => SameBook(position', venue')
    BY <2>1, <1>1, <1>2, <1>3, VenueSide, SameStep
  <2>4. 1 \notin Sizes => fees' = venueFees'
    BY <2>1, <1>1, <1>3, FeesAgree
  <2>5. settings.guarded => position'.qty >= 0 /\ ~crossed'
    <3> SUFFICES ASSUME settings.guarded PROVE position'.qty >= 0 /\ ~crossed'
      OBVIOUS
    <3>1. position.qty \in Int /\ position.qty >= 0 /\ ~crossed
      BY <2>1, <1>2 DEF Accounts
    <3>2. AfterQty(position.qty, fill) >= 0 /\ AfterQty(position.qty, fill) \in Int
      <4>1. fill.sign \in {1, -1} /\ fill.qty \in Int /\ fill.qty > 0
        BY <1>1 DEF AnyFill, Positive
      <4>2. CASE fill.sign = 1
        BY <4>1, <4>2, <3>1 DEF AfterQty
      <4>3. CASE fill.sign = -1
        BY <4>1, <4>3, <3>1, <1>3 DEF AfterQty
      <4> QED BY <4>1, <4>2, <4>3
    <3>3. venue.qty * venue'.qty >= 0
      <4>1. venue.qty = position.qty /\ venue'.qty = AfterQty(position.qty, fill)
        BY <2>1, <2>2, <1>4
      <4>2. position.qty * AfterQty(position.qty, fill) >= 0
        BY <3>1, <3>2
      <4> QED BY <4>1, <4>2
    <3>4. venue.qty * venue'.qty \in Int
      <4>1. venue.qty = position.qty /\ venue'.qty = AfterQty(position.qty, fill)
        BY <2>1, <2>2, <1>4
      <4> QED BY <4>1, <3>1, <3>2
    <3>5. ~(venue.qty * venue'.qty < 0)
      BY <3>3, <3>4
    <3>6. crossed' = (crossed \/ venue.qty * venue'.qty < 0)
      BY <1>3 DEF Execute
    <3>7. ~crossed'
      BY <3>1, <3>5, <3>6, Zenon
    <3> QED BY <3>2, <3>7, <1>4
  <2> QED BY <2>2, <2>3, <2>4, <2>5, <1>3, VenueSide DEF SameSoFar, SameBook, At
<1> QED BY <1>6, <1>7, <1>8, <1>9, <1>10 DEF BooksInv

LEMMA BooksLose ==
  ASSUME BooksInv, NEW fill \in Fills, Lose(fill)
  PROVE  BooksInv'
<1>1. /\ Execute(fill) /\ position' = position /\ basis' = basis /\ fees' = fees
      /\ cash' = cash /\ lost' = lost + 1
  BY DEF Lose
<1>2. lost \in Nat /\ lost' \in Nat /\ lost' # 0
  BY <1>1 DEF BooksInv, BooksType
<1>3. BooksType'
  BY <1>1, <1>2, VenueSide DEF BooksInv, BooksType
<1>4. MoneyHeld'
  BY <1>1, VenueSide DEF BooksInv, MoneyHeld, Balanced
<1>5. FlatMeansNothing'
  BY <1>1, VenueSide DEF BooksInv, FlatMeansNothing
<1>6. SameSoFar'
  BY <1>2 DEF SameSoFar
<1> QED BY <1>1, <1>3, <1>4, <1>5, <1>6, VenueSide DEF BooksInv

\* A mark, or a step that changes nothing, leaves the books alone.
LEMMA BooksMark ==
  ASSUME BooksInv, mark' \in Nat,
         UNCHANGED <<settings, venue, venueFees, position, basis, fees,
                     executed, lost, crossed, venueCash, cash>>
  PROVE  BooksInv'
BY DEF BooksInv, BooksType, MoneyHeld, FlatMeansNothing, SameSoFar, Balanced, SameBook, At

\* The invariant of the money side: every book accounts for the money of the
\* fills it has seen, and the two sides hold the same numbers while they have
\* seen the same fills, whatever the prices, the sizes and their number.
THEOREM BooksInductive == Spec => []BooksInv
<1>1. BooksInv /\ [Next]_vars => BooksInv'
  <2> SUFFICES ASSUME BooksInv, [Next]_vars PROVE BooksInv'
    OBVIOUS
  <2>1. CASE \E fill \in Fills : Book(fill)
    BY <2>1, BooksBook
  <2>2. CASE \E fill \in Fills : Lose(fill)
    BY <2>2, BooksLose
  <2>3. CASE \E price \in Prices \cup {VenuePrice} : Mark(price)
    <3>1. mark' \in Nat
      BY <2>3, PricesAssumption DEF Mark
    <3> QED BY <2>3, <3>1, BooksMark DEF Mark
  <2>4. CASE UNCHANGED vars
    <3>1. mark' \in Nat
      BY <2>4 DEF vars, BooksInv, BooksType
    <3> QED BY <2>4, <3>1, BooksMark DEF vars
  <2> QED BY <2>1, <2>2, <2>3, <2>4 DEF Next
<1> QED BY <1>1, BooksInit, PTL DEF Spec

-----------------------------------------------------------------------------
(* What the two sides report, at the numbers of their books. *)

Marking(n, d) == IF mark = NoMark THEN 0 ELSE mark * d - n

LEMMA EngineAt ==
  ASSUME BooksInv, settings.method = "AVERAGE",
         NEW n \in Int, NEW m \in Int, NEW d \in Positive, Holds(position, position.qty, n, m, d)
  PROVE  /\ EngineReport.realized \in Rational /\ At(EngineReport.realized, m - fees * d, d)
         /\ EngineReport.unrealized \in Rational
         /\ At(EngineReport.unrealized, Marking(n, d) * position.qty, d)
         /\ m - fees * d \in Int /\ Marking(n, d) * position.qty \in Int
<1>1. /\ basis = position /\ position \in Accounts /\ fees \in Int /\ mark \in Nat
      /\ position.qty \in Int /\ position.avg \in Rational /\ position.realized \in Rational
      /\ d \in Int
  BY DEF BooksInv, BooksType, Accounts, Positive
<1>2. fees * d \in Int /\ mark * d \in Int /\ m - fees * d \in Int
      /\ Marking(n, d) \in Int /\ Marking(n, d) * position.qty \in Int
  BY <1>1 DEF Marking
<1>3. Whole(fees) \in Rational /\ At(Whole(fees), fees * d, d)
  BY <1>1, WholeAt
<1>4. EngineReport.realized = Minus(position.realized, Whole(fees))
  BY <1>1 DEF EngineReport
<1>5. EngineReport.realized \in Rational /\ At(EngineReport.realized, m - fees * d, d)
  BY <1>1, <1>2, <1>3, <1>4, MinusAt DEF Holds
<1>6. BasisAvg = position.avg
  BY <1>1 DEF BasisAvg
<1>7. Marked \in Rational /\ At(Marked, Marking(n, d) + n, d)
  <2>1. CASE mark = NoMark
    BY <2>1, <1>1, <1>6 DEF Marked, Marking, Holds
  <2>2. CASE mark # NoMark
    <3>1. Whole(mark) \in Rational /\ At(Whole(mark), mark * d, d)
      <4>1. mark \in Int
        BY <1>1
      <4> QED BY <4>1, WholeAt
    <3>2. Marking(n, d) + n = mark * d
      BY <2>2, <1>2 DEF Marking
    <3> QED BY <2>2, <3>1, <3>2 DEF Marked
  <2> QED BY <2>1, <2>2
<1>8. /\ Minus(Marked, position.avg) \in Rational
      /\ At(Minus(Marked, position.avg), (Marking(n, d) + n) - n, d)
  <2>1. Marking(n, d) + n \in Int
    BY <1>2
  <2> QED BY <2>1, <1>1, <1>7, MinusAt DEF Holds
<1>9. (Marking(n, d) + n) - n = Marking(n, d)
  BY <1>2
<1>10. EngineReport.unrealized = Times(Minus(Marked, position.avg), position.qty)
  BY <1>1, <1>6 DEF EngineReport
<1> QED BY <1>1, <1>2, <1>5, <1>8, <1>9, <1>10, TimesAt

\* The venue's numbers as it reports them, drift and all.
ReportedQty == venue.qty + Reported.qty

ReportedGap(n, d) ==
  IF ReportedQty = 0 THEN 0 ELSE (VenuePrice * d - (n + Reported.avg * d)) * ReportedQty

LEMMA DriftTypes ==
  ASSUME BooksInv
  PROVE  /\ settings.drift \in Drift /\ Reported \in Drift
         /\ Reported.qty \in Int /\ Reported.avg \in Int
         /\ settings.drift.realized \in Int /\ settings.drift.unrealized \in Int
         /\ settings.drift.qty \in Int /\ settings.drift.avg \in Int
<1>1. settings.drift \in Drift
  BY SettingsAssumption DEF BooksInv, BooksType
<1>2. NoDrift \in Drift
  BY DEF NoDrift, Drift
<1>3. Reported \in Drift
  BY <1>1, <1>2 DEF Reported
<1> QED BY <1>1, <1>3 DEF Drift

\* But for its fees, an undrifted venue reports what it holds.
LEMMA UndriftedReport ==
  ASSUME Undrifted
  PROVE  /\ Reported.qty = 0 /\ Reported.avg = 0
         /\ settings.drift.realized = 0 /\ settings.drift.unrealized = 0
<1>1. settings.drift = [qty |-> 0, avg |-> 0, realized |-> 0, unrealized |-> 0,
                        fee |-> settings.drift.fee]
  BY DEF Undrifted, NoDrift
<1>2. /\ settings.drift.qty = 0 /\ settings.drift.avg = 0
      /\ settings.drift.realized = 0 /\ settings.drift.unrealized = 0
  BY <1>1
<1> QED BY <1>2 DEF Reported, NoDrift

LEMMA SnapshotAt ==
  ASSUME BooksInv,
         NEW n \in Int, NEW m \in Int, NEW d \in Positive, Holds(venue, venue.qty, n, m, d)
  PROVE  /\ SnapshotPosition.qty = ReportedQty /\ ReportedQty \in Int
         /\ SnapshotPosition.avg \in Rational
         /\ At(SnapshotPosition.avg, IF ReportedQty = 0 THEN 0 ELSE n + Reported.avg * d, d)
         /\ SnapshotPosition.unrealized \in Rational
         /\ At(SnapshotPosition.unrealized, ReportedGap(n, d), d)
         /\ n + Reported.avg * d \in Int /\ ReportedGap(n, d) \in Int
<1>1. /\ venue \in Accounts /\ venue.qty \in Int /\ venue.avg \in Rational /\ d \in Int
      /\ VenuePrice \in Int /\ At(venue.avg, n, d)
  BY PricesAssumption DEF BooksInv, BooksType, Accounts, Positive, Holds
<1>2. /\ ReportedQty \in Int /\ Reported.avg * d \in Int /\ n + Reported.avg * d \in Int
      /\ VenuePrice * d \in Int
  BY <1>1, DriftTypes DEF ReportedQty
<1>3. ReportedGap(n, d) \in Int
  BY <1>2 DEF ReportedGap
<1> DEFINE avg == Plus(venue.avg, Whole(Reported.avg))
<1>4. Whole(Reported.avg) \in Rational /\ At(Whole(Reported.avg), Reported.avg * d, d)
  BY DriftTypes, WholeAt
<1>5. avg \in Rational /\ At(avg, n + Reported.avg * d, d)
  BY <1>1, <1>2, <1>4, PlusAt
<1> DEFINE gap == Minus(Whole(VenuePrice), avg)
<1>6. Whole(VenuePrice) \in Rational /\ At(Whole(VenuePrice), VenuePrice * d, d)
  BY <1>1, WholeAt
<1>7. gap \in Rational /\ At(gap, VenuePrice * d - (n + Reported.avg * d), d)
  <2> HIDE DEF avg
  <2> QED BY <1>2, <1>5, <1>6, MinusAt
<1>8. /\ Times(gap, ReportedQty) \in Rational
      /\ At(Times(gap, ReportedQty), (VenuePrice * d - (n + Reported.avg * d)) * ReportedQty, d)
  <2>1. VenuePrice * d - (n + Reported.avg * d) \in Int
    BY <1>2
  <2> HIDE DEF gap
  <2> QED BY <2>1, <1>2, <1>7, TimesAt
<1>9. Whole(0) \in Rational /\ At(Whole(0), 0, d)
  BY DEF Whole, Rational, At, Positive
<1>10. SnapshotPosition
         = IF ReportedQty = 0
             THEN [qty |-> 0, avg |-> Whole(0), unrealized |-> Whole(0)]
             ELSE [qty |-> ReportedQty, avg |-> avg, unrealized |-> Times(gap, ReportedQty)]
  BY DEF SnapshotPosition, ReportedQty
<1> HIDE DEF avg, gap
<1>11. CASE ReportedQty = 0
  <2>1. SnapshotPosition = [qty |-> 0, avg |-> Whole(0), unrealized |-> Whole(0)]
    BY <1>10, <1>11
  <2> QED BY <2>1, <1>2, <1>3, <1>9, <1>11 DEF ReportedGap
<1>12. CASE ReportedQty # 0
  <2>1. SnapshotPosition
          = [qty |-> ReportedQty, avg |-> avg, unrealized |-> Times(gap, ReportedQty)]
    BY <1>10, <1>12
  <2> QED BY <2>1, <1>2, <1>3, <1>5, <1>8, <1>12 DEF ReportedGap
<1> QED BY <1>11, <1>12

LEMMA TotalsAt ==
  ASSUME BooksInv,
         NEW n \in Int, NEW m \in Int, NEW d \in Positive, Holds(venue, venue.qty, n, m, d)
  PROVE  /\ SnapshotTotals.realized \in Rational
         /\ At(SnapshotTotals.realized, (m - venueFees * d) + settings.drift.realized * d, d)
         /\ SnapshotTotals.unrealized \in Rational
         /\ At(SnapshotTotals.unrealized, ReportedGap(n, d) + settings.drift.unrealized * d, d)
         /\ (m - venueFees * d) + settings.drift.realized * d \in Int
         /\ ReportedGap(n, d) + settings.drift.unrealized * d \in Int
<1>1. /\ venue.realized \in Rational /\ venueFees \in Int /\ d \in Int /\ At(venue.realized, m, d)
  BY DEF BooksInv, BooksType, Accounts, Positive, Holds
<1>2. /\ venueFees * d \in Int /\ settings.drift.realized * d \in Int
      /\ settings.drift.unrealized * d \in Int /\ m - venueFees * d \in Int
  BY <1>1, DriftTypes
<1>3. Whole(venueFees) \in Rational /\ At(Whole(venueFees), venueFees * d, d)
  BY <1>1, WholeAt
<1> DEFINE net == Minus(venue.realized, Whole(venueFees))
<1>4. net \in Rational /\ At(net, m - venueFees * d, d)
  BY <1>1, <1>2, <1>3, MinusAt
<1>5. /\ Whole(settings.drift.realized) \in Rational
      /\ At(Whole(settings.drift.realized), settings.drift.realized * d, d)
      /\ Whole(settings.drift.unrealized) \in Rational
      /\ At(Whole(settings.drift.unrealized), settings.drift.unrealized * d, d)
  BY DriftTypes, WholeAt
<1>6. /\ SnapshotTotals.realized = Plus(net, Whole(settings.drift.realized))
      /\ SnapshotTotals.unrealized
           = Plus(SnapshotPosition.unrealized, Whole(settings.drift.unrealized))
  BY DEF SnapshotTotals
<1> HIDE DEF net
<1>7. /\ SnapshotTotals.realized \in Rational
      /\ At(SnapshotTotals.realized, (m - venueFees * d) + settings.drift.realized * d, d)
  BY <1>2, <1>4, <1>5, <1>6, PlusAt
<1>8. /\ SnapshotTotals.unrealized \in Rational
      /\ At(SnapshotTotals.unrealized, ReportedGap(n, d) + settings.drift.unrealized * d, d)
      /\ ReportedGap(n, d) + settings.drift.unrealized * d \in Int
  <2>1. /\ SnapshotPosition.unrealized \in Rational /\ ReportedGap(n, d) \in Int
        /\ At(SnapshotPosition.unrealized, ReportedGap(n, d), d)
    BY SnapshotAt
  <2> QED BY <2>1, <1>2, <1>5, <1>6, PlusAt
<1> QED BY <1>2, <1>7, <1>8

-----------------------------------------------------------------------------
(* The legs the reconciler compares, at a common denominator. *)

LEMMA TolerancesAt ==
  ASSUME NEW d \in Positive
  PROVE  /\ PnlTolerance \in Rational /\ At(PnlTolerance, 2 * d, d)
         /\ PriceTolerance \in Rational /\ At(PriceTolerance, d, d * 50)
<1>1. PriceTolerance \in Rational /\ At(PriceTolerance, 1, 50)
  <2>1. 50 \in Positive
    BY DEF Positive
  <2> QED BY <2>1, RatioAt DEF PriceTolerance
<1>2. d \in Int /\ 1 * d = d /\ 50 * d = d * 50 /\ 50 \in Positive
  BY DEF Positive
<1>3. At(PriceTolerance, 1 * d, 50 * d)
  BY <1>1, <1>2, AtScaled
<1>4. PnlTolerance \in Rational /\ At(PnlTolerance, 2 * d, d)
  <2>1. 2 \in Int
    OBVIOUS
  <2> QED BY <2>1, WholeAt DEF PnlTolerance
<1> QED BY <1>1, <1>2, <1>3, <1>4

\* Averages are compared to a fiftieth, money to two.
LEMMA PricesDiffer ==
  ASSUME NEW r \in Rational, NEW s \in Rational, NEW n \in Int, NEW k \in Int, NEW d \in Positive,
         At(r, n, d), At(s, k, d)
  PROVE  /\ Differ(r, s, PriceTolerance) <=> Magnitude(n * 50 - k * 50) > d
         /\ Differ(r, s, PnlTolerance) <=> Magnitude(n - k) > 2 * d
<1>1. d \in Int /\ d * 50 \in Positive /\ n * 50 \in Int /\ k * 50 \in Int /\ 2 * d \in Int
  BY DEF Positive
<1>2. At(r, n * 50, d * 50) /\ At(s, k * 50, d * 50)
  BY AtScaled
<1>3. Differ(r, s, PriceTolerance) <=> Magnitude(n * 50 - k * 50) > d
  BY <1>1, <1>2, TolerancesAt, DifferAt
<1>4. Differ(r, s, PnlTolerance) <=> Magnitude(n - k) > 2 * d
  BY <1>1, TolerancesAt, DifferAt
<1> QED BY <1>3, <1>4

LEMMA LegsAre ==
  /\ "qty" \in SymbolLegs <=> position.qty # SnapshotPosition.qty
  /\ "avg_cost" \in SymbolLegs <=> Differ(position.avg, SnapshotPosition.avg, PriceTolerance)
  /\ "unrealized" \in SymbolLegs
       <=> Differ(EngineReport.unrealized, SnapshotPosition.unrealized, PnlTolerance)
  /\ SymbolLegs \subseteq {"qty", "avg_cost", "unrealized"}
BY DEF SymbolLegs

LEMMA TotalsAre ==
  /\ TotalBreak("realized", "FEE_TREATMENT") \in Breaks
       <=> Differ(EngineReport.realized, SnapshotTotals.realized, PnlTolerance)
  /\ TotalBreak("unrealized", "MARK_SOURCE") \in Breaks
       <=> Differ(EngineReport.unrealized, SnapshotTotals.unrealized, PnlTolerance)
  /\ \A b \in Breaks \ SymbolBreaks :
       b \in {TotalBreak("realized", "FEE_TREATMENT"), TotalBreak("unrealized", "MARK_SOURCE")}
BY DEF Breaks, TotalBreaks, SymbolBreaks, TotalBreak

\* Two sides that have seen the same fills hold the same numbers.
LEMMA SameNumbers ==
  ASSUME BooksInv, lost = 0, ~crossed
  PROVE  /\ position.qty = venue.qty
         /\ \E n \in Int, m \in Int, d \in Positive :
              Holds(position, position.qty, n, m, d) /\ Holds(venue, venue.qty, n, m, d)
<1>1. position \in Accounts /\ venue \in Accounts /\ SameBook(position, venue)
  BY DEF BooksInv, BooksType, SameSoFar
<1>2. PICK n \in Int, m \in Int, d \in Positive : Holds(position, position.qty, n, m, d)
  BY <1>1, AccountHolds
<1>3. Holds(venue, position.qty, n, m, d)
  BY <1>1, <1>2, SameHolds
<1> QED BY <1>1, <1>2, <1>3 DEF SameBook

LEMMA MagnitudeZero == Magnitude(0) = 0
BY DEF Magnitude

\* A flat position's average is nothing over any denominator.
LEMMA FlatAt ==
  ASSUME BooksInv, position.qty = 0,
         NEW n \in Int, NEW m \in Int, NEW d \in Positive, Holds(position, position.qty, n, m, d)
  PROVE  n = 0
<1>1. position.avg = Whole(0) /\ Whole(0) \in Rational /\ At(Whole(0), 0, d)
  BY DEF BooksInv, FlatMeansNothing, Whole, Rational, At, Positive
<1> QED BY <1>1, AtSame DEF Holds

\* Behind the guard, with the same fills and no drift but in the fees, averaged
\* books break in nothing but the price of a mark: no sequence of opens, partial
\* closes and full closes, of two shares or more, tells the two sides apart, and
\* a skew of the reported fees, however large, does not either.
THEOREM GuardedBooksReconcile ==
  ASSUME 1 \notin Sizes
  PROVE  Spec => []GuardedBookReconciles
<1>1. BooksInv => GuardedBookReconciles
  <2> SUFFICES ASSUME BooksInv, lost = 0, Undrifted, settings.guarded,
                      settings.method = "AVERAGE", NEW b \in Breaks
               PROVE  b.cause = "MARK_SOURCE" /\ mark # VenuePrice
    BY DEF GuardedBookReconciles, SameFills
  <2>1. ~crossed /\ fees = venueFees /\ position.qty = venue.qty
    BY DEF BooksInv, SameSoFar
  <2>2. PICK n \in Int, m \in Int, d \in Positive :
          Holds(position, position.qty, n, m, d) /\ Holds(venue, venue.qty, n, m, d)
    BY <2>1, SameNumbers
  <2>3. /\ position.avg \in Rational /\ position.qty \in Int /\ d \in Int /\ d > 0
        /\ fees \in Int /\ mark \in Nat /\ VenuePrice \in Nat /\ VenuePrice # 0
    BY PricesAssumption DEF BooksInv, BooksType, Accounts, Positive
  <2>4. /\ Reported.qty = 0 /\ Reported.avg = 0
        /\ settings.drift.realized = 0 /\ settings.drift.unrealized = 0
    BY UndriftedReport
  <2>5. ReportedQty = position.qty /\ n + Reported.avg * d = n
    BY <2>1, <2>3, <2>4 DEF ReportedQty
  <2>6. "qty" \notin SymbolLegs
    BY <2>2, <2>5, SnapshotAt, LegsAre
  <2>7. "avg_cost" \notin SymbolLegs
    <3>1. SnapshotPosition.avg \in Rational /\ At(SnapshotPosition.avg, n, d)
      BY <2>2, <2>5, SnapshotAt, FlatAt
    <3>2. Magnitude(n * 50 - n * 50) = 0
      BY MagnitudeZero
    <3>3. ~Differ(position.avg, SnapshotPosition.avg, PriceTolerance)
      BY <2>2, <2>3, <3>1, <3>2, PricesDiffer DEF Holds
    <3> QED BY <3>3, LegsAre
  <2>8. TotalBreak("realized", "FEE_TREATMENT") \notin Breaks
    <3> DEFINE k == m - fees * d
    <3>1. EngineReport.realized \in Rational /\ At(EngineReport.realized, k, d) /\ k \in Int
      BY <2>2, EngineAt
    <3>2. SnapshotTotals.realized \in Rational /\ At(SnapshotTotals.realized, k, d)
      <4>1. (m - venueFees * d) + settings.drift.realized * d = k
        BY <2>1, <2>3, <2>4, <3>1
      <4> QED BY <4>1, <2>2, TotalsAt
    <3> HIDE DEF k
    <3>3. Magnitude(k - k) = 0 /\ ~(0 > 2 * d)
      BY <3>1, <2>3, MagnitudeZero
    <3>4. ~Differ(EngineReport.realized, SnapshotTotals.realized, PnlTolerance)
      BY <3>1, <3>2, <3>3, PricesDiffer
    <3> QED BY <3>4, TotalsAre
  <2>9. ASSUME mark = VenuePrice
        PROVE  /\ "unrealized" \notin SymbolLegs
               /\ TotalBreak("unrealized", "MARK_SOURCE") \notin Breaks
    <3> DEFINE k == Marking(n, d) * position.qty
    <3>1. EngineReport.unrealized \in Rational /\ At(EngineReport.unrealized, k, d) /\ k \in Int
      BY <2>2, EngineAt
    <3>2. ReportedGap(n, d) = k
      <4>1. Marking(n, d) = VenuePrice * d - n
        BY <2>9, <2>3 DEF Marking, NoMark
      <4>2. CASE position.qty = 0
        <5>1. (VenuePrice * d - n) * 0 = 0
          BY <2>3
        <5> QED BY <4>1, <4>2, <5>1, <2>5 DEF ReportedGap
      <4>3. CASE position.qty # 0
        BY <4>1, <4>3, <2>5 DEF ReportedGap
      <4> QED BY <4>2, <4>3
    <3>3. SnapshotPosition.unrealized \in Rational /\ At(SnapshotPosition.unrealized, k, d)
      BY <2>2, <3>2, SnapshotAt
    <3>4. SnapshotTotals.unrealized \in Rational /\ At(SnapshotTotals.unrealized, k, d)
      <4>1. ReportedGap(n, d) + settings.drift.unrealized * d = k
        BY <2>3, <2>4, <3>1, <3>2
      <4> QED BY <4>1, <2>2, TotalsAt
    <3> HIDE DEF k
    <3>5. Magnitude(k - k) = 0 /\ ~(0 > 2 * d)
      BY <3>1, <2>3, MagnitudeZero
    <3>6. /\ ~Differ(EngineReport.unrealized, SnapshotPosition.unrealized, PnlTolerance)
          /\ ~Differ(EngineReport.unrealized, SnapshotTotals.unrealized, PnlTolerance)
      BY <3>1, <3>3, <3>4, <3>5, PricesDiffer
    <3> QED BY <3>6, LegsAre, TotalsAre
  <2>10. CASE b \in SymbolBreaks
    <3>1. PICK leg \in SymbolLegs :
            b = [scope |-> "symbol", leg |-> leg, cause |-> Classify(SymbolLegs)]
      BY <2>10 DEF SymbolBreaks
    <3>2. leg = "unrealized" /\ Classify(SymbolLegs) = "MARK_SOURCE"
      BY <2>6, <2>7, LegsAre DEF Classify
    <3>3. b.cause = Classify(SymbolLegs)
      BY <3>1
    <3> QED BY <3>2, <3>3, <2>9
  <2>11. CASE b \notin SymbolBreaks
    <3>1. b = TotalBreak("unrealized", "MARK_SOURCE")
      BY <2>8, <2>11, TotalsAre
    <3>2. b.cause = "MARK_SOURCE"
      BY <3>1 DEF TotalBreak
    <3> QED BY <3>1, <3>2, <2>9
  <2> QED BY <2>10, <2>11
<1> QED BY <1>1, BooksInductive, PTL

\* A total that is off by more than two is off by more than its tolerance.
LEMMA BeyondTolerance ==
  ASSUME NEW k \in Int, NEW e \in Int, NEW d \in Positive, Magnitude(e) > 2
  PROVE  Magnitude(k - (k + e * d)) > 2 * d
<1>1. d \in Int /\ d > 0
  BY DEF Positive
<1>2. k - (k + e * d) = -(e * d) /\ e * d \in Int
  BY <1>1
<1>3. CASE e > 2
  <2>1. (e - 2) * d > 0
    BY <1>1, <1>3
  <2>2. (e - 2) * d = e * d - 2 * d
    BY <1>1
  <2>3. e * d > 2 * d
    BY <1>1, <1>2, <2>1, <2>2
  <2> QED BY <1>1, <1>2, <2>3 DEF Magnitude
<1>4. CASE e < -2
  <2>1. (-e - 2) * d > 0
    BY <1>1, <1>4
  <2>2. (-e - 2) * d = -(e * d) - 2 * d
    BY <1>1
  <2>3. -(e * d) > 2 * d
    BY <1>1, <1>2, <2>1, <2>2
  <2> QED BY <1>1, <1>2, <2>3 DEF Magnitude
<1> QED BY <1>3, <1>4 DEF Magnitude

\* A drift of the reported shares, of the average, or of a P&L total beyond its
\* tolerance is found at its own leg and under its own cause; the totals as long as
\* both sides have charged the same fees, and mark alike.
THEOREM DriftFound == Spec => []DriftIsLocated
<1>1. BooksInv => DriftIsLocated
  <2> SUFFICES ASSUME BooksInv, lost = 0
               PROVE  DriftIsLocated
    BY DEF DriftIsLocated
  <2>1. position.qty = venue.qty
    BY DEF BooksInv, SameSoFar
  <2>2. position.qty \in Int /\ venue \in Accounts /\ position.avg \in Rational /\ fees \in Int
    BY DEF BooksInv, BooksType, Accounts
  <2>3. SnapshotPosition.qty = ReportedQty
    <3>1. \E n \in Int, m \in Int, d \in Positive : Holds(venue, venue.qty, n, m, d)
      BY <2>2, AccountHolds
    <3> QED BY <3>1, SnapshotAt
  <2>4. ASSUME Reported.qty # 0
        PROVE  /\ \E b \in SymbolBreaks : b.leg = "qty"
               /\ \A b \in SymbolBreaks : b.cause = "MISSING_FILL"
    <3>1. ReportedQty # position.qty
      BY <2>1, <2>2, <2>4, DriftTypes DEF ReportedQty
    <3>2. "qty" \in SymbolLegs
      BY <3>1, <2>3, LegsAre
    <3>3. Classify(SymbolLegs) = "MISSING_FILL"
      BY <3>2 DEF Classify
    <3> DEFINE break == [scope |-> "symbol", leg |-> "qty", cause |-> Classify(SymbolLegs)]
    <3>4. break \in SymbolBreaks /\ break.leg = "qty"
      BY <3>2 DEF SymbolBreaks
    <3>5. \A b \in SymbolBreaks : b.cause = "MISSING_FILL"
      BY <3>3 DEF SymbolBreaks
    <3> QED BY <3>4, <3>5
  <2>5. ASSUME ~crossed, settings.drift.qty = 0, settings.drift.avg # 0, venue.qty # 0
        PROVE  \E b \in SymbolBreaks : b.leg = "avg_cost" /\ b.cause = "FEE_TREATMENT"
    <3>1. PICK n \in Int, m \in Int, d \in Positive :
            Holds(position, position.qty, n, m, d) /\ Holds(venue, venue.qty, n, m, d)
      BY <2>5, SameNumbers
    <3>2. d \in Int /\ d > 0
      BY DEF Positive
    <3>3. Reported = settings.drift
      BY <2>5 DEF Reported, BooksInv, FlatMeansNothing
    <3> DEFINE e == settings.drift.avg
    <3>4. e \in Int /\ e # 0
      BY <2>5, DriftTypes
    <3>5. ReportedQty = position.qty /\ ReportedQty # 0 /\ Reported.avg = e
      BY <3>3, <2>1, <2>2, <2>5 DEF ReportedQty
    <3> HIDE DEF e
    <3>6. /\ SnapshotPosition.avg \in Rational /\ n + e * d \in Int
          /\ At(SnapshotPosition.avg, n + e * d, d)
      BY <3>1, <3>5, SnapshotAt
    <3>7. Magnitude(n * 50 - (n + e * d) * 50) > d
      <4>1. n * 50 - (n + e * d) * 50 = -(50 * (e * d))
        BY <3>2, <3>4
      <4>2. e * d >= d \/ e * d <= -d
        <5>1. CASE e >= 1
          <6>1. (e - 1) * d >= 0
            BY <5>1, <3>2, <3>4
          <6>2. (e - 1) * d = e * d - d
            BY <3>2, <3>4
          <6> QED BY <6>1, <6>2, <3>2, <3>4
        <5>2. CASE e <= -1
          <6>1. (-e - 1) * d >= 0
            BY <5>2, <3>2, <3>4
          <6>2. (-e - 1) * d = -(e * d) - d
            BY <3>2, <3>4
          <6> QED BY <6>1, <6>2, <3>2, <3>4
        <5> QED BY <5>1, <5>2, <3>4
      <4>3. e * d \in Int
        BY <3>2, <3>4
      <4> DEFINE x == e * d
      <4> HIDE DEF x
      <4>4. x >= d \/ x <= -d => Magnitude(-(50 * x)) > d
        BY <3>2, <4>3 DEF Magnitude, x
      <4> QED BY <4>1, <4>2, <4>4 DEF x
    <3>8. "avg_cost" \in SymbolLegs
      <4>1. Differ(position.avg, SnapshotPosition.avg, PriceTolerance)
        BY <3>1, <3>6, <3>7, <2>2, PricesDiffer DEF Holds
      <4> QED BY <4>1, LegsAre
    <3>9. "qty" \notin SymbolLegs
      BY <2>3, <3>5, LegsAre
    <3> DEFINE break == [scope |-> "symbol", leg |-> "avg_cost", cause |-> Classify(SymbolLegs)]
    <3>10. break \in SymbolBreaks
      BY <3>8 DEF SymbolBreaks
    <3>11. Classify(SymbolLegs) = "FEE_TREATMENT"
      BY <3>8, <3>9 DEF Classify
    <3> QED BY <3>10, <3>11
  <2>6. ASSUME settings.method = "AVERAGE", ~crossed, fees = venueFees,
               Magnitude(settings.drift.realized) > 2
        PROVE  TotalBreak("realized", "FEE_TREATMENT") \in Breaks
    <3>1. PICK n \in Int, m \in Int, d \in Positive :
            Holds(position, position.qty, n, m, d) /\ Holds(venue, venue.qty, n, m, d)
      BY <2>6, SameNumbers
    <3>2. d \in Int /\ d > 0
      BY DEF Positive
    <3> DEFINE e == settings.drift.realized
    <3> DEFINE k == m - fees * d
    <3>3. e \in Int /\ Magnitude(e) > 2
      BY <2>6, DriftTypes
    <3>4. EngineReport.realized \in Rational /\ At(EngineReport.realized, k, d) /\ k \in Int
      BY <2>6, <3>1, EngineAt
    <3>5. /\ SnapshotTotals.realized \in Rational /\ At(SnapshotTotals.realized, k + e * d, d)
          /\ k + e * d \in Int
      BY <2>6, <3>1, TotalsAt
    <3> HIDE DEF e, k
    <3>6. Magnitude(k - (k + e * d)) > 2 * d
      BY <3>3, <3>4, BeyondTolerance
    <3>7. Differ(EngineReport.realized, SnapshotTotals.realized, PnlTolerance)
      BY <3>4, <3>5, <3>6, PricesDiffer
    <3> QED BY <3>7, TotalsAre
  <2>7. ASSUME settings.method = "AVERAGE", ~crossed, settings.drift.qty = 0,
               settings.drift.avg = 0, mark = VenuePrice \/ venue.qty = 0,
               Magnitude(settings.drift.unrealized) > 2
        PROVE  TotalBreak("unrealized", "MARK_SOURCE") \in Breaks
    <3>1. PICK n \in Int, m \in Int, d \in Positive :
            Holds(position, position.qty, n, m, d) /\ Holds(venue, venue.qty, n, m, d)
      BY <2>7, SameNumbers
    <3>2. /\ d \in Int /\ VenuePrice \in Nat /\ VenuePrice # 0
          /\ Reported.qty = 0 /\ Reported.avg = 0
      BY <2>7, PricesAssumption DEF Positive, Reported, NoDrift
    <3> DEFINE e == settings.drift.unrealized
    <3> DEFINE k == Marking(n, d) * position.qty
    <3>3. e \in Int /\ Magnitude(e) > 2
      BY <2>7, DriftTypes
    <3>4. EngineReport.unrealized \in Rational /\ At(EngineReport.unrealized, k, d) /\ k \in Int
      BY <2>7, <3>1, EngineAt
    <3>5. ReportedGap(n, d) = k
      <4>1. ReportedQty = position.qty /\ n + Reported.avg * d = n
        BY <2>1, <2>2, <3>2 DEF ReportedQty
      <4>2. CASE position.qty = 0
        <5>1. Marking(n, d) \in Int
          BY <3>2 DEF Marking, BooksInv, BooksType
        <5>2. Marking(n, d) * 0 = 0
          BY <5>1
        <5> QED BY <4>1, <4>2, <5>2 DEF ReportedGap
      <4>3. CASE position.qty # 0
        <5>1. Marking(n, d) = VenuePrice * d - n
          BY <2>1, <2>7, <3>2, <4>3 DEF Marking, NoMark
        <5> QED BY <4>1, <4>3, <5>1 DEF ReportedGap
      <4> QED BY <4>2, <4>3
    <3>6. /\ SnapshotTotals.unrealized \in Rational
          /\ At(SnapshotTotals.unrealized, k + e * d, d) /\ k + e * d \in Int
      BY <3>1, <3>5, TotalsAt
    <3> HIDE DEF e, k
    <3>7. Magnitude(k - (k + e * d)) > 2 * d
      BY <3>3, <3>4, BeyondTolerance
    <3>8. Differ(EngineReport.unrealized, SnapshotTotals.unrealized, PnlTolerance)
      BY <3>4, <3>6, <3>7, PricesDiffer
    <3> QED BY <3>8, TotalsAre
  <2> QED BY <2>4, <2>5, <2>6, <2>7 DEF DriftIsLocated
<1> QED BY <1>1, BooksInductive, PTL

\* The sums behind it: realized totals within two, averages within a fiftieth.
LEMMA CleanSums ==
  ASSUME NEW q \in Int, NEW n \in Int, NEW k \in Int, NEW x \in Int, NEW y \in Int,
         NEW u \in Int, NEW v \in Int, NEW d \in Int, d > 0,
         q # 0 => Magnitude(n * 50 - k * 50) <= d, Magnitude(x - y) <= 2 * d,
         u * d - v * d = (x - y) - (n - k) * q
  PROVE  Magnitude(u * (d * 50) - v * (d * 50)) <= 2 * (d * 50) + d * Magnitude(q)
<1> DEFINE g == x - y
<1> DEFINE h == 50 * n - 50 * k
<1> DEFINE size == Magnitude(q)
<1>1. g \in Int /\ h \in Int /\ size \in Int /\ size >= 0
  BY DEF Magnitude
<1>2. g <= 2 * d /\ -g <= 2 * d
  BY DEF Magnitude
<1>3. q # 0 => h <= d /\ -h <= d
  BY DEF Magnitude
<1>4. u * (d * 50) - v * (d * 50) = 50 * g - h * q
  <2>1. u * (d * 50) - v * (d * 50) = 50 * (u * d - v * d)
    OBVIOUS
  <2>2. 50 * ((x - y) - (n - k) * q) = 50 * (x - y) - (50 * n - 50 * k) * q
    OBVIOUS
  <2> QED BY <2>1, <2>2
<1>5. h * q <= d * size /\ -(h * q) <= d * size
  <2>1. CASE q = 0
    BY <2>1, <1>1 DEF Magnitude
  <2>2. CASE q # 0
    <3>1. (d - h) * size >= 0 /\ (d + h) * size >= 0
      <4>1. d - h >= 0 /\ d + h >= 0 /\ d - h \in Int /\ d + h \in Int
        BY <1>1, <1>3, <2>2
      <4> HIDE DEF h, size
      <4> QED BY <4>1, <1>1
    <3>2. (d - h) * size = d * size - h * size /\ (d + h) * size = d * size + h * size
      BY <1>1
    <3>3. h * size <= d * size /\ -(h * size) <= d * size
      <4>1. h * size \in Int /\ d * size \in Int
        BY <1>1
      <4> HIDE DEF h, size
      <4> QED BY <3>1, <3>2, <4>1, <1>1
    <3>4. h * size = h * q \/ h * size = -(h * q)
      <4>1. size = q \/ size = -q
        BY DEF Magnitude
      <4> HIDE DEF h, size
      <4> QED BY <4>1, <1>1
    <3>5. h * q \in Int
      BY <1>1
    <3> HIDE DEF h, size
    <3> QED BY <3>3, <3>4, <3>5, <1>1
  <2> QED BY <2>1, <2>2
<1> DEFINE z == h * q
<1> DEFINE w == d * size
<1>6. z \in Int /\ w \in Int /\ z <= w /\ -z <= w
  BY <1>1, <1>5
<1> HIDE DEF g, h, size, z, w
<1>7. Magnitude(50 * g - z) <= 2 * (d * 50) + w
  BY <1>1, <1>2, <1>6 DEF Magnitude
<1> QED BY <1>4, <1>7 DEF g, h, size, z, w

\* A clean report means the same shares and, to within the tolerances, the same
\* money, for any fills lost on the way, until the venue's book changes sides.
THEOREM CleanBooksAgree == Spec => []CleanMeansSameMoney
<1>1. BooksInv => CleanMeansSameMoney
  <2> SUFFICES ASSUME BooksInv, settings.method = "AVERAGE", Undrifted,
                      ~crossed, Breaks = {}
               PROVE  /\ position.qty = venue.qty
                      /\ ~Differ(Whole(cash - fees), Whole(venueCash - venueFees), CleanTolerance)
    BY DEF CleanMeansSameMoney
  <2>1. /\ position \in Accounts /\ venue \in Accounts /\ position.qty \in Int /\ venue.qty \in Int
        /\ position.avg \in Rational /\ fees \in Int /\ venueFees \in Int
        /\ cash \in Int /\ venueCash \in Int
        /\ Balanced(position, cash) /\ Balanced(venue, venueCash)
    BY DEF BooksInv, BooksType, MoneyHeld, Accounts
  <2>2. PICK n \in Int, m \in Int, k \in Int, l \in Int, d \in Positive :
          Holds(position, position.qty, n, m, d) /\ Holds(venue, venue.qty, k, l, d)
    BY <2>1, BothHold
  <2>3. d \in Int /\ d > 0
    BY DEF Positive
  <2>4. /\ Reported.qty = 0 /\ Reported.avg = 0 /\ settings.drift.realized = 0
    BY UndriftedReport
  <2>5. SymbolLegs = {}
    BY DEF Breaks, SymbolBreaks
  <2> DEFINE q == position.qty
  <2>6. venue.qty = q /\ ReportedQty = q
    <3>1. SnapshotPosition.qty = ReportedQty
      BY <2>2, SnapshotAt
    <3> QED BY <3>1, <2>1, <2>4, <2>5, LegsAre DEF ReportedQty
  <2>7. q # 0 => Magnitude(n * 50 - k * 50) <= d
    <3> SUFFICES ASSUME q # 0 PROVE Magnitude(n * 50 - k * 50) <= d
      OBVIOUS
    <3>1. k + Reported.avg * d = k
      BY <2>3, <2>4
    <3>2. SnapshotPosition.avg \in Rational /\ At(SnapshotPosition.avg, k, d)
      BY <2>2, <2>6, <3>1, SnapshotAt
    <3>3. ~Differ(position.avg, SnapshotPosition.avg, PriceTolerance)
      BY <2>5, LegsAre
    <3>4. ~(Magnitude(n * 50 - k * 50) > d)
      BY <3>2, <3>3, <2>1, <2>2, PricesDiffer DEF Holds
    <3> QED BY <3>4, <2>3 DEF Magnitude
  <2> DEFINE x == m - fees * d
  <2> DEFINE y == l - venueFees * d
  <2>8. x \in Int /\ y \in Int /\ Magnitude(x - y) <= 2 * d
    <3>1. EngineReport.realized \in Rational /\ At(EngineReport.realized, x, d) /\ x \in Int
      BY <2>2, EngineAt
    <3>2. y \in Int /\ y + settings.drift.realized * d = y
      BY <2>1, <2>3, <2>4
    <3>3. SnapshotTotals.realized \in Rational /\ At(SnapshotTotals.realized, y, d)
      BY <2>2, <3>2, TotalsAt
    <3>4. ~Differ(EngineReport.realized, SnapshotTotals.realized, PnlTolerance)
      BY TotalsAre
    <3> HIDE DEF x, y
    <3>5. ~(Magnitude(x - y) > 2 * d)
      BY <3>1, <3>2, <3>3, <3>4, PricesDiffer
    <3> QED BY <3>1, <3>2, <3>5, <2>3 DEF Magnitude
  <2>9. m - n * q = cash * d /\ l - k * q = venueCash * d
    BY <2>1, <2>2, <2>6, BalancedAt
  <2> DEFINE u == cash - fees
  <2> DEFINE v == venueCash - venueFees
  <2>10. u \in Int /\ v \in Int /\ u * d - v * d = (x - y) - (n - k) * q
    <3>1. (cash - fees) * d - (venueCash - venueFees) * d
            = (cash * d - fees * d) - (venueCash * d - venueFees * d)
      BY <2>1, <2>3
    <3>2. (x - y) - (n - k) * q = ((m - n * q) - fees * d) - ((l - k * q) - venueFees * d)
      BY <2>1, <2>3
    <3> QED BY <3>1, <3>2, <2>1, <2>9
  <2>11. CleanTolerance \in Rational /\ At(CleanTolerance, 2 * (d * 50) + d * Magnitude(q), d * 50)
    <3>1. d * 50 \in Positive /\ Magnitude(q) \in Int /\ 2 * (d * 50) \in Int
          /\ d * Magnitude(q) \in Int
      BY <2>1, <2>3 DEF Positive, Magnitude
    <3>2. PnlTolerance \in Rational /\ At(PnlTolerance, 2 * (d * 50), d * 50)
      BY <3>1, TolerancesAt
    <3>3. PriceTolerance \in Rational /\ At(PriceTolerance, d, d * 50)
      BY TolerancesAt
    <3>4. /\ Times(PriceTolerance, Magnitude(q)) \in Rational
          /\ At(Times(PriceTolerance, Magnitude(q)), d * Magnitude(q), d * 50)
      BY <3>1, <3>3, <2>3, TimesAt
    <3> QED BY <3>1, <3>2, <3>4, PlusAt DEF CleanTolerance
  <2>12. Differ(Whole(u), Whole(v), CleanTolerance)
           <=> Magnitude(u * (d * 50) - v * (d * 50)) > 2 * (d * 50) + d * Magnitude(q)
    <3>1. d * 50 \in Positive /\ u * (d * 50) \in Int /\ v * (d * 50) \in Int
          /\ 2 * (d * 50) + d * Magnitude(q) \in Int
      BY <2>1, <2>3, <2>10 DEF Positive, Magnitude
    <3> HIDE DEF u, v, q
    <3>2. /\ Whole(u) \in Rational /\ At(Whole(u), u * (d * 50), d * 50)
          /\ Whole(v) \in Rational /\ At(Whole(v), v * (d * 50), d * 50)
      BY <3>1, <2>10, WholeAt
    <3> QED BY <3>1, <3>2, <2>11, DifferAt DEF q
  <2>13. Magnitude(u * (d * 50) - v * (d * 50)) <= 2 * (d * 50) + d * Magnitude(q)
    <3> HIDE DEF u, v, x, y
    <3> QED BY <2>1, <2>3, <2>7, <2>8, <2>10, CleanSums
  <2>14. Magnitude(u * (d * 50) - v * (d * 50)) \in Int /\ 2 * (d * 50) + d * Magnitude(q) \in Int
    BY <2>1, <2>3, <2>10 DEF Magnitude
  <2> HIDE DEF u, v
  <2>15. ~Differ(Whole(u), Whole(v), CleanTolerance)
    BY <2>12, <2>13, <2>14
  <2> QED BY <2>6, <2>15 DEF u, v
<1> QED BY <1>1, BooksInductive, PTL

-----------------------------------------------------------------------------
(* Folds over lots. *)

InitialParts(k) == SUBSET (1 .. k)

\* g folds step from the least element of a set to its greatest.
Folds(g, k, base, step) ==
  \A t \in InitialParts(k) :
    g[t] = IF t = {} THEN base ELSE step[<<g[t \ {Max(t)}], Max(t)>>]

\* What holds of 0 and is passed on to the next number holds up to n.
LEMMA UpTo ==
  ASSUME NEW n \in Nat, NEW S \in SUBSET (0 .. n), 0 \in S,
         \A i \in 1 .. n : i - 1 \in S => i \in S
  PROVE  \A i \in 0 .. n : i \in S
<1> DEFINE Bad == (0 .. n) \ S
<1> SUFFICES ASSUME Bad # {} PROVE FALSE
  BY Zenon
<1>1. Bad \in SUBSET Nat
  OBVIOUS
<1>2. PICK least \in Bad : \A y \in Bad : ~ (<<y, least>> \in OpToRel(<, Nat))
  BY <1>1, NatLessThanWellFounded, WFMin
<1>3. \A y \in Bad : ~ (y < least)
  BY <1>1, <1>2, Zenon DEF OpToRel
<1>4. least \in 0 .. n /\ least \notin S
  BY Zenon
<1>5. least \in 1 .. n /\ least - 1 \in 0 .. n /\ least - 1 < least
  BY <1>4
<1>6. least - 1 \in S
  BY <1>3, <1>5
<1> QED BY <1>4, <1>5, <1>6

LEMMA MaxOf ==
  ASSUME NEW k \in Nat, NEW t \in InitialParts(k), t # {}
  PROVE  Max(t) \in t /\ Max(t) \in 1 .. k /\ t \ {Max(t)} \in InitialParts(k)
BY Greatest DEF InitialParts

LEMMA MaxIsLast ==
  ASSUME NEW k \in Nat, NEW t \in InitialParts(k + 1), k + 1 \in t
  PROVE  Max(t) = k + 1
<1>1. k + 1 \in Nat /\ t \in SUBSET (1 .. k + 1) /\ t # {}
  BY DEF InitialParts
<1>2. Max(t) \in t /\ Max(t) >= k + 1
  BY <1>1, Greatest
<1>3. Max(t) \in 1 .. k + 1
  BY <1>1, <1>2
<1> QED BY <1>2, <1>3

\* Such a function exists: the step for one element more is given by hand.
LEMMA FoldExists ==
  ASSUME NEW n \in Nat, NEW V, NEW base \in V, NEW step \in [V \X (1 .. n) -> V]
  PROVE  \E g \in [InitialParts(n) -> V] : Folds(g, n, base, step)
<1> DEFINE Has(k) == \E g \in [InitialParts(k) -> V] : Folds(g, k, base, step)
<1>1. Has(0)
  <2> DEFINE g == [t \in InitialParts(0) |-> base]
  <2>1. InitialParts(0) = {{}}
    BY DEF InitialParts
  <2>2. g \in [InitialParts(0) -> V] /\ Folds(g, 0, base, step)
    BY <2>1 DEF Folds
  <2> QED BY <2>2
<1>2. ASSUME NEW i \in 1 .. n, Has(i - 1)
      PROVE  Has(i)
  <2>1. PICK k \in Nat : k = i - 1 /\ i = k + 1 /\ k + 1 \in 1 .. n
    OBVIOUS
  <2>2. PICK g \in [InitialParts(k) -> V] : Folds(g, k, base, step)
    BY <1>2, <2>1
  <2> DEFINE h == [t \in InitialParts(k + 1) |->
                     IF k + 1 \in t THEN step[<<g[t \ {k + 1}], k + 1>>] ELSE g[t]]
  <2>3. \A t \in InitialParts(k + 1) : t \ {k + 1} \in InitialParts(k)
    BY <2>1 DEF InitialParts
  <2>4. \A t \in InitialParts(k + 1) : k + 1 \notin t => t \in InitialParts(k)
    BY <2>1 DEF InitialParts
  <2>5. h \in [InitialParts(k + 1) -> V]
    BY <2>1, <2>3, <2>4
  <2>6. \A t \in InitialParts(k) : t \in InitialParts(k + 1) /\ k + 1 \notin t
    BY <2>1 DEF InitialParts
  <2>7. \A t \in InitialParts(k) : h[t] = g[t]
    BY <2>6
  <2>8. Folds(h, k + 1, base, step)
    <3> SUFFICES ASSUME NEW t \in InitialParts(k + 1)
                 PROVE  h[t] = IF t = {} THEN base ELSE step[<<h[t \ {Max(t)}], Max(t)>>]
      BY DEF Folds
    <3>1. CASE k + 1 \in t
      <4>1. Max(t) = k + 1 /\ t # {}
        BY <3>1, <2>1, MaxIsLast
      <4>2. h[t \ {k + 1}] = g[t \ {k + 1}]
        BY <2>3, <2>7
      <4>3. h[t] = step[<<g[t \ {k + 1}], k + 1>>]
        BY <3>1
      <4> QED BY <4>1, <4>2, <4>3
    <3>2. CASE k + 1 \notin t
      <4>1. t \in InitialParts(k) /\ h[t] = g[t]
        BY <3>2, <2>4, <2>7
      <4>2. t # {} => t \ {Max(t)} \in InitialParts(k)
        BY <4>1, <2>1, MaxOf
      <4>3. t # {} => h[t \ {Max(t)}] = g[t \ {Max(t)}]
        BY <4>2, <2>7
      <4>4. g[t] = IF t = {} THEN base ELSE step[<<g[t \ {Max(t)}], Max(t)>>]
        BY <4>1, <2>2 DEF Folds
      <4> QED BY <4>1, <4>3, <4>4
    <3> QED BY <3>1, <3>2
  <2> QED BY <2>1, <2>5, <2>8
<1> HIDE DEF Has
<1> DEFINE S == {k \in 0 .. n : Has(k)}
<1>3. 0 \in S /\ \A i \in 1 .. n : i - 1 \in S => i \in S
  BY <1>1, <1>2
<1>4. \A i \in 0 .. n : i \in S
  <2>1. S \in SUBSET (0 .. n)
    OBVIOUS
  <2> HIDE DEF S
  <2> QED BY <2>1, <1>3, UpTo
<1>5. n \in 0 .. n
  OBVIOUS
<1>6. Has(n)
  BY <1>4, <1>5, Zenon
<1> QED BY <1>6 DEF Has

LEMMA WholePrefix ==
  ASSUME NEW n \in Nat, NEW i \in 1 .. n
  PROVE  /\ 1 .. i \in SUBSET (1 .. n) /\ 1 .. i # {}
         /\ Max(1 .. i) = i /\ (1 .. i) \ {i} = 1 .. (i - 1)
<1>1. 1 .. i \in SUBSET (1 .. n) /\ 1 .. i # {} /\ i \in 1 .. i
  OBVIOUS
<1>2. i - 1 \in Nat /\ (i - 1) + 1 = i /\ 1 .. i \in InitialParts((i - 1) + 1)
  BY DEF InitialParts
<1>3. Max(1 .. i) = i
  BY <1>1, <1>2, MaxIsLast
<1>4. (1 .. i) \ {i} = 1 .. (i - 1)
  OBVIOUS
<1> QED BY <1>1, <1>3, <1>4

Lot == [qty : Positive, price : Int]

\* h adds up f over the prefixes.
AddsUp(h, f, n) ==
  /\ h \in [0 .. n -> Int] /\ h[0] = 0
  /\ \A i \in 1 .. n : h[i] = h[i - 1] + f[i]

\* There is one way to add up.
LEMMA AddsUpOnce ==
  ASSUME NEW n \in Nat, NEW m \in Nat, n <= m, NEW f, NEW e, NEW g, NEW h,
         AddsUp(g, f, n), AddsUp(h, e, m), \A i \in 1 .. n : f[i] = e[i]
  PROVE  g[n] = h[n]
<1> DEFINE S == {k \in 0 .. n : g[k] = h[k]}
<1>1. 0 \in S
  BY DEF AddsUp
<1>2. ASSUME NEW i \in 1 .. n, i - 1 \in S
      PROVE  i \in S
  <2>1. i \in 1 .. m /\ i \in 0 .. n
    OBVIOUS
  <2> QED BY <2>1, <1>2 DEF AddsUp
<1>3. S \in SUBSET (0 .. n) /\ n \in 0 .. n
  OBVIOUS
<1> HIDE DEF S
<1>4. n \in S
  BY <1>1, <1>2, <1>3, UpTo
<1> QED BY <1>4 DEF S

-----------------------------------------------------------------------------
(* Sums over lots. *)

LEMMA SumExists ==
  ASSUME NEW n \in Nat, NEW f, \A i \in 1 .. n : f[i] \in Int
  PROVE  \E g : g = [t \in SUBSET (1 .. n) |->
                       IF t = {} THEN 0 ELSE g[t \ {Max(t)}] + f[Max(t)]]
<1> DEFINE step == [p \in Int \X (1 .. n) |-> p[1] + f[p[2]]]
<1>1. step \in [Int \X (1 .. n) -> Int]
  OBVIOUS
<1>2. \A v \in Int, i \in 1 .. n : step[<<v, i>>] = v + f[i]
  OBVIOUS
<1> HIDE DEF step
<1>3. PICK g \in [InitialParts(n) -> Int] : Folds(g, n, 0, step)
  <2>1. 0 \in Int
    OBVIOUS
  <2> QED BY <1>1, <2>1, FoldExists
<1>4. ASSUME NEW t \in InitialParts(n)
      PROVE  g[t] = IF t = {} THEN 0 ELSE g[t \ {Max(t)}] + f[Max(t)]
  <2>1. t # {} => Max(t) \in 1 .. n /\ t \ {Max(t)} \in InitialParts(n)
    BY MaxOf
  <2>2. t # {} => g[t \ {Max(t)}] \in Int
    BY <1>3, <2>1
  <2> QED BY <1>2, <1>3, <2>1, <2>2 DEF Folds
<1>5. g = [t \in InitialParts(n) |-> IF t = {} THEN 0 ELSE g[t \ {Max(t)}] + f[Max(t)]]
  BY <1>3, <1>4
<1> QED BY <1>5, Zenon DEF InitialParts

\* g sums f from the least element of a set to its greatest.
Sums(g, f, n) ==
  \A t \in SUBSET (1 .. n) :
    g[t] = IF t = {} THEN 0 ELSE g[t \ {Max(t)}] + f[Max(t)]

LEMMA SumByPrefix ==
  ASSUME NEW n \in Nat, NEW f, \A i \in 1 .. n : f[i] \in Int, NEW g, Sums(g, f, n)
  PROVE  \E h : AddsUp(h, f, n) /\ g[1 .. n] = h[n]
<1>0. \A t \in SUBSET (1 .. n) :
        g[t] = IF t = {} THEN 0 ELSE g[t \ {Max(t)}] + f[Max(t)]
  BY DEF Sums
<1> DEFINE h == [i \in 0 .. n |-> g[1 .. i]]
<1>1. h[0] = 0
  <2>1. 1 .. 0 = {} /\ {} \in SUBSET (1 .. n) /\ 0 \in 0 .. n
    OBVIOUS
  <2> QED BY <2>1, <1>0
<1>2. ASSUME NEW i \in 1 .. n
      PROVE  h[i] = h[i - 1] + f[i]
  <2>1. /\ 1 .. i \in SUBSET (1 .. n) /\ 1 .. i # {}
        /\ Max(1 .. i) = i /\ (1 .. i) \ {i} = 1 .. (i - 1)
    BY WholePrefix
  <2>2. i \in 0 .. n /\ i - 1 \in 0 .. n
    OBVIOUS
  <2> QED BY <2>1, <2>2, <1>0
<1>3. h \in [0 .. n -> Int]
  <2> DEFINE S == {k \in 0 .. n : h[k] \in Int}
  <2>1. S \in SUBSET (0 .. n)
    OBVIOUS
  <2>2. h = [i \in 0 .. n |-> h[i]]
    OBVIOUS
  <2> HIDE DEF h
  <2>3. 0 \in S
    BY <1>1
  <2>4. \A i \in 1 .. n : i - 1 \in S => i \in S
    BY <1>2
  <2> HIDE DEF S
  <2>5. \A i \in 0 .. n : i \in S
    BY <2>1, <2>3, <2>4, UpTo
  <2> QED BY <2>2, <2>5 DEF S
<1>4. n \in 0 .. n
  OBVIOUS
<1>5. g[1 .. n] = h[n]
  BY <1>4
<1> QED BY <1>1, <1>2, <1>3, <1>5 DEF AddsUp

Sizings(s) == [i \in 1 .. Len(s) |-> s[i].qty]

Costs(s) == [i \in 1 .. Len(s) |-> s[i].qty * s[i].price]

LEMMA LotTypes ==
  ASSUME NEW s \in Seq(Lot)
  PROVE  /\ Len(s) \in Nat /\ DOMAIN s = 1 .. Len(s)
         /\ \A i \in 1 .. Len(s) :
              /\ s[i] \in Lot /\ s[i].qty \in Positive /\ s[i].price \in Int
              /\ Sizings(s)[i] \in Int /\ Costs(s)[i] \in Int
              /\ Sizings(s)[i] = s[i].qty /\ Costs(s)[i] = s[i].qty * s[i].price
<1>1. \A i \in 1 .. Len(s) : s[i] \in Lot
  OBVIOUS
<1>2. \A i \in 1 .. Len(s) : s[i].qty \in Positive /\ s[i].price \in Int
  BY <1>1 DEF Lot
<1>3. \A i \in 1 .. Len(s) : s[i].qty * s[i].price \in Int
  BY <1>2 DEF Positive
<1> QED BY <1>1, <1>2, <1>3 DEF Sizings, Costs, Positive

LEMMA LotQtyAdds ==
  ASSUME NEW a, a.lots \in Seq(Lot)
  PROVE  \E h : AddsUp(h, Sizings(a.lots), Len(a.lots)) /\ LotQty(a) = h[Len(a.lots)]
<1> DEFINE s == a.lots
<1> DEFINE n == Len(s)
<1> DEFINE iter[t \in SUBSET DOMAIN s] ==
             IF t = {} THEN 0 ELSE LET x == Max(t) IN iter[t \ {x}] + s[x].qty
<1>1. LotQty(a) = iter[DOMAIN s]
  BY DEF LotQty, FoldLeft, MapThenFoldSet
<1>2. n \in Nat /\ DOMAIN s = 1 .. n /\ \A i \in 1 .. n : Sizings(s)[i] \in Int /\ Sizings(s)[i] = s[i].qty
  BY LotTypes
<1>3. \E g : g = [t \in SUBSET (1 .. n) |->
                       IF t = {} THEN 0 ELSE g[t \ {Max(t)}] + Sizings(s)[Max(t)]]
  BY <1>2, SumExists
<1>4. \A t \in SUBSET (1 .. n) : t # {} => Sizings(s)[Max(t)] = s[Max(t)].qty
  BY <1>2, MaxOf DEF InitialParts
<1>5. \E g : g = [t \in SUBSET DOMAIN s |->
                       IF t = {} THEN 0 ELSE g[t \ {Max(t)}] + s[Max(t)].qty]
  BY <1>2, <1>3, <1>4
<1>6. iter = [t \in SUBSET DOMAIN s |->
                       IF t = {} THEN 0 ELSE iter[t \ {Max(t)}] + s[Max(t)].qty]
  BY <1>5, Zenon
<1> HIDE DEF iter
<1>7. \A t \in SUBSET (1 .. n) :
        iter[t] = IF t = {} THEN 0 ELSE iter[t \ {Max(t)}] + Sizings(s)[Max(t)]
  BY <1>2, <1>4, <1>6
<1> DEFINE f == Sizings(s)
<1>8. \A i \in 1 .. n : f[i] \in Int
  BY <1>2
<1>9. Sums(iter, f, n)
  BY <1>7 DEF Sums
<1> HIDE DEF f, n, s
<1>10. \E h : AddsUp(h, f, n) /\ iter[1 .. n] = h[n]
  <2>1. PICK g : g = iter
    OBVIOUS
  <2>2. Sums(g, f, n) /\ n \in Nat
    BY <2>1, <1>2, <1>9
  <2>3. \E h : AddsUp(h, f, n) /\ g[1 .. n] = h[n]
    BY <2>2, <1>8, SumByPrefix
  <2> QED BY <2>1, <2>3
<1> QED BY <1>1, <1>2, <1>10 DEF f, n, s

LEMMA LotCostAdds ==
  ASSUME NEW a, a.lots \in Seq(Lot)
  PROVE  \E h : AddsUp(h, Costs(a.lots), Len(a.lots)) /\ LotCost(a) = h[Len(a.lots)]
<1> DEFINE s == a.lots
<1> DEFINE n == Len(s)
<1> DEFINE iter[t \in SUBSET DOMAIN s] ==
             IF t = {} THEN 0 ELSE LET x == Max(t) IN iter[t \ {x}] + s[x].qty * s[x].price
<1>1. LotCost(a) = iter[DOMAIN s]
  BY DEF LotCost, FoldLeft, MapThenFoldSet
<1>2. n \in Nat /\ DOMAIN s = 1 .. n
      /\ \A i \in 1 .. n : Costs(s)[i] \in Int /\ Costs(s)[i] = s[i].qty * s[i].price
  BY LotTypes
<1>3. \E g : g = [t \in SUBSET (1 .. n) |->
                       IF t = {} THEN 0 ELSE g[t \ {Max(t)}] + Costs(s)[Max(t)]]
  BY <1>2, SumExists
<1>4. \A t \in SUBSET (1 .. n) : t # {} => Costs(s)[Max(t)] = s[Max(t)].qty * s[Max(t)].price
  BY <1>2, MaxOf DEF InitialParts
<1>5. \E g : g = [t \in SUBSET DOMAIN s |->
                       IF t = {} THEN 0 ELSE g[t \ {Max(t)}] + s[Max(t)].qty * s[Max(t)].price]
  BY <1>2, <1>3, <1>4
<1>6. iter = [t \in SUBSET DOMAIN s |->
                IF t = {} THEN 0 ELSE iter[t \ {Max(t)}] + s[Max(t)].qty * s[Max(t)].price]
  BY <1>5, Zenon
<1> HIDE DEF iter
<1>7. \A t \in SUBSET (1 .. n) :
        iter[t] = IF t = {} THEN 0 ELSE iter[t \ {Max(t)}] + Costs(s)[Max(t)]
  BY <1>2, <1>4, <1>6
<1> DEFINE f == Costs(s)
<1>8. \A i \in 1 .. n : f[i] \in Int
  BY <1>2
<1>9. Sums(iter, f, n)
  BY <1>7 DEF Sums
<1> HIDE DEF f, n, s
<1>10. \E h : AddsUp(h, f, n) /\ iter[1 .. n] = h[n]
  <2>1. PICK g : g = iter
    OBVIOUS
  <2>2. Sums(g, f, n) /\ n \in Nat
    BY <2>1, <1>2, <1>9
  <2>3. \E h : AddsUp(h, f, n) /\ g[1 .. n] = h[n]
    BY <2>2, <1>8, SumByPrefix
  <2> QED BY <2>1, <2>3
<1> QED BY <1>1, <1>2, <1>10 DEF f, n, s

\* No lots are no shares.
LEMMA NoLots ==
  ASSUME NEW a, a.lots = <<>>
  PROVE  LotQty(a) = 0 /\ LotCost(a) = 0
<1>1. a.lots \in Seq(Lot) /\ Len(a.lots) = 0
  OBVIOUS
<1> QED BY <1>1, LotQtyAdds, LotCostAdds DEF AddsUp

LEMMA LotSums ==
  ASSUME NEW a, a.lots \in Seq(Lot)
  PROVE  LotQty(a) \in Int /\ LotCost(a) \in Int
<1>1. Len(a.lots) \in Nat /\ Len(a.lots) \in 0 .. Len(a.lots)
  BY LotTypes
<1> QED BY <1>1, LotQtyAdds, LotCostAdds DEF AddsUp

\* A sum of one term more.
LEMMA OneMore ==
  ASSUME NEW n \in Nat, NEW f, NEW e, NEW g, NEW h,
         AddsUp(g, f, n), AddsUp(h, e, n + 1), \A i \in 1 .. n : f[i] = e[i]
  PROVE  h[n + 1] = g[n] + e[n + 1]
<1>1. n + 1 \in Nat /\ n <= n + 1 /\ n + 1 \in 1 .. n + 1 /\ (n + 1) - 1 = n
  OBVIOUS
<1>2. g[n] = h[n]
  BY <1>1, AddsUpOnce
<1> QED BY <1>1, <1>2 DEF AddsUp

LEMMA LotMore ==
  ASSUME NEW a, NEW b, NEW lot \in Lot, a.lots \in Seq(Lot), b.lots = Append(a.lots, lot)
  PROVE  /\ b.lots \in Seq(Lot) /\ b.lots # <<>>
         /\ LotQty(b) = LotQty(a) + lot.qty
         /\ LotCost(b) = LotCost(a) + lot.qty * lot.price
<1> DEFINE n == Len(a.lots)
<1>1. /\ n \in Nat /\ b.lots \in Seq(Lot) /\ b.lots # <<>> /\ Len(b.lots) = n + 1
      /\ \A i \in 1 .. n : b.lots[i] = a.lots[i]
      /\ b.lots[n + 1] = lot
  <2>1. n \in Nat
    BY LotTypes
  <2> DEFINE s == Append(a.lots, lot)
  <2>2. /\ s \in Seq(Lot) /\ s # <<>> /\ Len(s) = n + 1
        /\ s[n + 1] = lot
        /\ \A i \in 1 .. n : s[i] = a.lots[i]
    BY AppendProperties
  <2> HIDE DEF s
  <2>3. b.lots = s
    BY DEF s
  <2> QED BY <2>1, <2>2, <2>3
<1>2. \A i \in 1 .. n : i \in 1 .. n + 1
  OBVIOUS
<1>3. n + 1 \in 1 .. n + 1
  BY <1>1
<1>4. /\ \A i \in 1 .. n : Sizings(a.lots)[i] = Sizings(b.lots)[i]
                        /\ Costs(a.lots)[i] = Costs(b.lots)[i]
      /\ Sizings(b.lots)[n + 1] = lot.qty
      /\ Costs(b.lots)[n + 1] = lot.qty * lot.price
  BY <1>1, <1>2, <1>3 DEF Sizings, Costs
<1>5. LotQty(b) = LotQty(a) + lot.qty
  <2>1. PICK g : AddsUp(g, Sizings(a.lots), n) /\ LotQty(a) = g[n]
    BY LotQtyAdds
  <2>2. PICK h : AddsUp(h, Sizings(b.lots), n + 1) /\ LotQty(b) = h[n + 1]
    BY <1>1, LotQtyAdds
  <2> HIDE DEF n
  <2>3. h[n + 1] = g[n] + Sizings(b.lots)[n + 1]
    BY <2>1, <2>2, <1>1, <1>4, OneMore
  <2> QED BY <2>1, <2>2, <2>3, <1>4
<1>6. LotCost(b) = LotCost(a) + lot.qty * lot.price
  <2>1. PICK g : AddsUp(g, Costs(a.lots), n) /\ LotCost(a) = g[n]
    BY LotCostAdds
  <2>2. PICK h : AddsUp(h, Costs(b.lots), n + 1) /\ LotCost(b) = h[n + 1]
    BY <1>1, LotCostAdds
  <2> HIDE DEF n
  <2>3. h[n + 1] = g[n] + Costs(b.lots)[n + 1]
    BY <2>1, <2>2, <1>1, <1>4, OneMore
  <2> QED BY <2>1, <2>2, <2>3, <1>4
<1> QED BY <1>1, <1>5, <1>6

\* Lots hold shares.
LEMMA SomeLots ==
  ASSUME NEW a, a.lots \in Seq(Lot), a.lots # <<>>
  PROVE  LotQty(a) > 0
<1>1. PICK n \in Nat : n = Len(a.lots) /\ n # 0
  BY LotTypes
<1>2. PICK f : f = Sizings(a.lots) /\ \A i \in 1 .. n : f[i] \in Int /\ f[i] > 0
  BY <1>1, LotTypes DEF Positive
<1>3. PICK h : AddsUp(h, f, n) /\ LotQty(a) = h[n]
  BY <1>1, <1>2, LotQtyAdds
<1> DEFINE S == {k \in 0 .. n : h[k] >= 0 /\ (k > 0 => h[k] > 0)}
<1>4. 0 \in S
  BY <1>3 DEF AddsUp
<1>5. ASSUME NEW i \in 1 .. n, i - 1 \in S
      PROVE  i \in S
  <2>1. h[i - 1] >= 0 /\ h[i - 1] \in Int /\ h[i] = h[i - 1] + f[i] /\ i \in 0 .. n
    BY <1>3, <1>5 DEF AddsUp
  <2>2. h[i] > 0 /\ h[i] >= 0
    BY <2>1, <1>2
  <2> QED BY <2>1, <2>2
<1>6. S \in SUBSET (0 .. n) /\ n \in 0 .. n /\ n > 0
  BY <1>1
<1> HIDE DEF S
<1>7. n \in S
  BY <1>4, <1>5, <1>6, UpTo
<1> QED BY <1>3, <1>6, <1>7 DEF S

-----------------------------------------------------------------------------
(* Consuming lots. *)

Pass == [remaining : Nat, gain : Int, lots : Seq(Lot)]

FirstPass(fill) == [remaining |-> fill.qty, gain |-> 0, lots |-> <<>>]

\* What the fill has closed so far, of lots that held so many shares at such a
\* cost: oldest first, so that none survives before the fill is used up.
ClosedSoFar(pass, fill, side, qty, cost) ==
  /\ pass \in Pass
  /\ LotQty(pass) + (fill.qty - pass.remaining) = qty
  /\ pass.gain = side * (fill.price * (fill.qty - pass.remaining) - (cost - LotCost(pass)))
  /\ pass.remaining > 0 => pass.lots = <<>>

LEMMA ConsumeTakes ==
  ASSUME NEW fill \in AnyFill, NEW side \in Int, NEW lot \in Lot, NEW pass \in Pass,
         NEW next, next = Consume(fill, side, pass, lot)
  PROVE  \E take \in Nat :
           /\ take <= pass.remaining /\ (take = pass.remaining \/ take = lot.qty)
           /\ next.remaining = pass.remaining - take
           /\ next.gain = pass.gain + (fill.price - lot.price) * take * side
           /\ take = lot.qty => next.lots = pass.lots
           /\ next.lots \in Seq(Lot)
           /\ LotQty(next) = LotQty(pass) + (lot.qty - take)
           /\ LotCost(next) = LotCost(pass) + (lot.qty - take) * lot.price
           /\ next = [remaining |-> next.remaining, gain |-> next.gain, lots |-> next.lots]
<1>1. /\ lot.qty \in Int /\ lot.qty > 0 /\ lot.price \in Int
      /\ pass.remaining \in Nat /\ pass.lots \in Seq(Lot)
  BY DEF Lot, Pass, Positive
<1>2. PICK take \in Nat : take = Smaller(pass.remaining, lot.qty)
  BY <1>1 DEF Smaller
<1>3. /\ take <= pass.remaining /\ take <= lot.qty
      /\ (take = pass.remaining \/ take = lot.qty)
  BY <1>1, <1>2 DEF Smaller
<1>4. PICK left : left = [lot EXCEPT !.qty = lot.qty - take]
  OBVIOUS
<1>5. next = [remaining |-> pass.remaining - take,
              gain      |-> pass.gain + (fill.price - lot.price) * take * side,
              lots      |-> IF take = lot.qty THEN pass.lots ELSE Append(pass.lots, left)]
  BY <1>2, <1>4 DEF Consume
<1>6. /\ next.remaining = pass.remaining - take
      /\ next.gain = pass.gain + (fill.price - lot.price) * take * side
      /\ take = lot.qty => next.lots = pass.lots
      /\ take # lot.qty => next.lots = Append(pass.lots, left)
  BY <1>5
<1>7. take # lot.qty => left \in Lot /\ left.qty = lot.qty - take /\ left.price = lot.price
  BY <1>1, <1>3, <1>4 DEF Lot, Positive
<1>8. /\ next.lots \in Seq(Lot)
      /\ LotQty(next) = LotQty(pass) + (lot.qty - take)
      /\ LotCost(next) = LotCost(pass) + (lot.qty - take) * lot.price
  <2>1. LotQty(pass) \in Int /\ LotCost(pass) \in Int
    BY <1>1, LotSums
  <2>2. CASE take = lot.qty
    <3>1. next.lots = pass.lots
      BY <2>2, <1>6
    <3>2. LotQty(next) = LotQty(pass) /\ LotCost(next) = LotCost(pass)
      BY <3>1 DEF LotQty, LotCost
    <3>3. lot.qty - take = 0 /\ (lot.qty - take) * lot.price = 0
      BY <2>2, <1>1
    <3> QED BY <3>1, <3>2, <3>3, <2>1, <1>1
  <2>3. CASE take # lot.qty
    <3>1. next.lots = Append(pass.lots, left) /\ left \in Lot
      BY <2>3, <1>6, <1>7
    <3>2. /\ next.lots \in Seq(Lot)
          /\ LotQty(next) = LotQty(pass) + left.qty
          /\ LotCost(next) = LotCost(pass) + left.qty * left.price
      BY <3>1, <1>1, LotMore
    <3> QED BY <3>2, <2>3, <1>7
  <2> QED BY <2>2, <2>3
<1>9. next = [remaining |-> next.remaining, gain |-> next.gain, lots |-> next.lots]
  BY <1>5
<1> QED BY <1>3, <1>6, <1>8, <1>9

LEMMA ConsumeStep ==
  ASSUME NEW fill \in AnyFill, NEW side \in Int, NEW lot \in Lot, NEW pass \in Pass,
         NEW next, next = Consume(fill, side, pass, lot)
  PROVE  /\ next \in Pass
         /\ \A qty \in Int, cost \in Int :
              ClosedSoFar(pass, fill, side, qty, cost) =>
                ClosedSoFar(next, fill, side, qty + lot.qty, cost + lot.qty * lot.price)
<1>1. /\ fill.qty \in Int /\ fill.price \in Int /\ lot.qty \in Int /\ lot.qty > 0
      /\ lot.price \in Int /\ pass.remaining \in Nat /\ pass.gain \in Int
      /\ pass.lots \in Seq(Lot)
  BY DEF AnyFill, Lot, Pass, Positive
<1>2. PICK take \in Nat :
           /\ take <= pass.remaining /\ (take = pass.remaining \/ take = lot.qty)
           /\ next.remaining = pass.remaining - take
           /\ next.gain = pass.gain + (fill.price - lot.price) * take * side
           /\ take = lot.qty => next.lots = pass.lots
           /\ next.lots \in Seq(Lot)
           /\ LotQty(next) = LotQty(pass) + (lot.qty - take)
           /\ LotCost(next) = LotCost(pass) + (lot.qty - take) * lot.price
           /\ next = [remaining |-> next.remaining, gain |-> next.gain, lots |-> next.lots]
  BY ConsumeTakes
<1>7. next \in Pass
  <2>1. pass.remaining - take \in Nat
    <3>1. take <= pass.remaining
      BY <1>2
    <3> QED BY <3>1, <1>1
  <2>2. pass.gain + (fill.price - lot.price) * take * side \in Int
    <3> DEFINE gap == fill.price - lot.price
    <3>1. gap \in Int /\ take \in Int
      BY <1>1
    <3> HIDE DEF gap
    <3>2. gap * take * side \in Int
      BY <3>1
    <3> QED BY <3>2, <1>1 DEF gap
  <2> QED BY <2>1, <2>2, <1>2 DEF Pass
<1>8. ASSUME NEW qty \in Int, NEW cost \in Int, ClosedSoFar(pass, fill, side, qty, cost)
      PROVE  ClosedSoFar(next, fill, side, qty + lot.qty, cost + lot.qty * lot.price)
  <2>1. /\ LotQty(pass) + (fill.qty - pass.remaining) = qty
        /\ pass.gain = side * (fill.price * (fill.qty - pass.remaining) - (cost - LotCost(pass)))
        /\ pass.remaining > 0 => pass.lots = <<>>
    BY <1>8 DEF ClosedSoFar
  <2>2. LotQty(pass) \in Int /\ LotCost(pass) \in Int
    BY <1>1, LotSums
  <2>3. LotQty(next) + (fill.qty - next.remaining) = qty + lot.qty
    <3> DEFINE held == LotQty(pass)
    <3> DEFINE left == pass.remaining
    <3>1. next.remaining = left - take /\ LotQty(next) = held + (lot.qty - take)
      BY <1>2
    <3>2. held + (fill.qty - left) = qty
      BY <2>1
    <3>3. /\ left \in Int /\ held \in Int /\ take \in Int
          /\ fill.qty \in Int /\ lot.qty \in Int
      BY <1>1, <2>2
    <3> HIDE DEF held, left
    <3>4. held + (lot.qty - take) + (fill.qty - (left - take)) = qty + lot.qty
      BY <3>2, <3>3
    <3> QED BY <3>1, <3>4
  <2>4. next.gain = side * (fill.price * (fill.qty - next.remaining)
                            - ((cost + lot.qty * lot.price) - LotCost(next)))
    <3> DEFINE x == LotCost(pass)
    <3> DEFINE y == fill.qty - pass.remaining
    <3> DEFINE f == fill.price
    <3> DEFINE p == lot.price
    <3> DEFINE l == lot.qty
    <3>1. x \in Int /\ y \in Int /\ f \in Int /\ p \in Int /\ l \in Int /\ take \in Int
      BY <1>1, <2>2
    <3>2. next.gain = side * (f * y - (cost - x)) + (f - p) * take * side
      BY <2>1, <1>2
    <3>3. /\ fill.qty - next.remaining = y + take
          /\ LotCost(next) = x + (l - take) * p
      <4>1. next.remaining = pass.remaining - take
        BY <1>2
      <4>2. LotCost(next) = LotCost(pass) + (lot.qty - take) * lot.price
        BY <1>2
      <4> QED BY <4>1, <4>2, <1>1, <1>2
    <3> HIDE DEF x, y, f, p, l
    <3>4. /\ (cost + l * p) - (x + (l - take) * p) = (cost - x) + take * p
          /\ f * (y + take) = f * y + f * take
          /\ (f - p) * take = f * take - take * p
      BY <3>1
    <3> DEFINE u == f * y - (cost - x)
    <3> DEFINE w == f * take - take * p
    <3>5. u \in Int /\ w \in Int /\ f * y \in Int /\ f * take \in Int /\ take * p \in Int
      BY <3>1
    <3>6. (f * y + f * take) - ((cost - x) + take * p) = u + w
      BY <3>5, <3>1
    <3>7. side * u + w * side = side * (u + w)
      <4> HIDE DEF u, w
      <4> QED BY <3>5
    <3>8. next.gain = side * u + w * side
      BY <3>2, <3>4
    <3>9. fill.price * (fill.qty - next.remaining) - ((cost + lot.qty * lot.price) - LotCost(next))
            = u + w
      BY <3>3, <3>4, <3>6 DEF f, p, l
    <3> QED BY <3>7, <3>8, <3>9
  <2>5. next.remaining > 0 => next.lots = <<>>
    BY <2>1, <1>1, <1>2
  <2> QED BY <2>3, <2>4, <2>5, <1>7 DEF ClosedSoFar
<1> QED BY <1>7, <1>8

LEMMA FirstPassIs ==
  ASSUME NEW fill \in AnyFill, NEW side \in Int
  PROVE  FirstPass(fill) \in Pass /\ ClosedSoFar(FirstPass(fill), fill, side, 0, 0)
<1>1. fill.qty \in Int /\ fill.qty \in Nat /\ fill.price \in Int
  BY DEF AnyFill, Positive
<1>2. PICK first : first = FirstPass(fill)
  OBVIOUS
<1>3. first.remaining = fill.qty /\ first.gain = 0 /\ first.lots = <<>>
  BY <1>2 DEF FirstPass
<1>4. first \in Pass
  <2>1. <<>> \in Seq(Lot) /\ 0 \in Int
    OBVIOUS
  <2> QED BY <2>1, <1>1, <1>2 DEF FirstPass, Pass
<1>5. LotQty(first) = 0 /\ LotCost(first) = 0
  BY <1>3, NoLots
<1>6. /\ fill.qty - fill.qty = 0 /\ fill.price * 0 = 0 /\ side * 0 = 0
      /\ 0 - 0 = 0 /\ 0 + 0 = 0
  BY <1>1
<1>7. ClosedSoFar(first, fill, side, 0, 0)
  BY <1>3, <1>4, <1>5, <1>6 DEF ClosedSoFar
<1> QED BY <1>2, <1>4, <1>7

LEMMA ConsumeFold ==
  ASSUME NEW fill \in AnyFill, NEW side \in Int, NEW s \in Seq(Lot)
  PROVE  \E g : g = [t \in SUBSET DOMAIN s |->
                       IF t = {} THEN FirstPass(fill)
                       ELSE Consume(fill, side, g[t \ {Max(t)}], s[Max(t)])]
<1>1. PICK n \in Nat : n = Len(s) /\ DOMAIN s = 1 .. n /\ \A i \in 1 .. n : s[i] \in Lot
  BY LotTypes
<1> DEFINE step == [p \in Pass \X (1 .. n) |-> Consume(fill, side, p[1], s[p[2]])]
<1>2. ASSUME NEW v \in Pass, NEW i \in 1 .. n
      PROVE  Consume(fill, side, v, s[i]) \in Pass
  <2>1. PICK next : next = Consume(fill, side, v, s[i])
    OBVIOUS
  <2>2. PICK lot \in Lot : lot = s[i]
    BY <1>1
  <2>3. next = Consume(fill, side, v, lot)
    BY <2>1, <2>2
  <2>4. next \in Pass
    BY <2>3, ConsumeStep
  <2> QED BY <2>1, <2>4
<1>3. step \in [Pass \X (1 .. n) -> Pass]
  <2>1. \A p \in Pass \X (1 .. n) : p[1] \in Pass /\ p[2] \in 1 .. n
    OBVIOUS
  <2> QED BY <2>1, <1>2
<1>4. \A v \in Pass, i \in 1 .. n : step[<<v, i>>] = Consume(fill, side, v, s[i])
  OBVIOUS
<1>5. PICK h : h = step
  OBVIOUS
<1>6. PICK first \in Pass : first = FirstPass(fill)
  BY FirstPassIs
<1> HIDE DEF step
<1>7. PICK g \in [InitialParts(n) -> Pass] : Folds(g, n, first, h)
  <2>1. h \in [Pass \X (1 .. n) -> Pass]
    BY <1>3, <1>5
  <2> QED BY <2>1, FoldExists
<1>8. ASSUME NEW t \in InitialParts(n)
      PROVE  g[t] = IF t = {} THEN FirstPass(fill)
                    ELSE Consume(fill, side, g[t \ {Max(t)}], s[Max(t)])
  <2>1. t # {} => Max(t) \in 1 .. n /\ t \ {Max(t)} \in InitialParts(n)
    BY MaxOf
  <2>2. t # {} => g[t \ {Max(t)}] \in Pass
    BY <1>7, <2>1
  <2>3. g[t] = IF t = {} THEN first ELSE h[<<g[t \ {Max(t)}], Max(t)>>]
    BY <1>7 DEF Folds
  <2>4. t # {} => h[<<g[t \ {Max(t)}], Max(t)>>] = Consume(fill, side, g[t \ {Max(t)}], s[Max(t)])
    BY <1>4, <1>5, <2>1, <2>2
  <2> QED BY <2>3, <2>4, <1>6
<1>9. g = [t \in InitialParts(n) |-> IF t = {} THEN FirstPass(fill)
                                 ELSE Consume(fill, side, g[t \ {Max(t)}], s[Max(t)])]
  BY <1>7, <1>8
<1> QED BY <1>1, <1>9, Zenon DEF InitialParts

LEMMA ConsumedIs ==
  ASSUME NEW fill \in AnyFill, NEW a, a.lots \in Seq(Lot), a.side \in Int
  PROVE  ClosedSoFar(Consumed(fill, a), fill, a.side, LotQty(a), LotCost(a))
<1> DEFINE iter[t \in SUBSET DOMAIN a.lots] ==
             IF t = {} THEN [remaining |-> fill.qty, gain |-> 0, lots |-> <<>>]
             ELSE LET x == Max(t) IN Consume(fill, a.side, iter[t \ {x}], a.lots[x])
<1>1. Consumed(fill, a) = iter[DOMAIN a.lots]
  BY DEF Consumed, FoldLeft, MapThenFoldSet
<1>2. \E g : g = [t \in SUBSET DOMAIN a.lots |->
                    IF t = {} THEN [remaining |-> fill.qty, gain |-> 0, lots |-> <<>>]
                    ELSE Consume(fill, a.side, g[t \ {Max(t)}], a.lots[Max(t)])]
  BY ConsumeFold, Zenon DEF FirstPass
<1>3. iter = [t \in SUBSET DOMAIN a.lots |->
                IF t = {} THEN [remaining |-> fill.qty, gain |-> 0, lots |-> <<>>]
                ELSE Consume(fill, a.side, iter[t \ {Max(t)}], a.lots[Max(t)])]
  BY <1>2, Zenon
<1> HIDE DEF iter
<1>4. PICK g : g = iter
  OBVIOUS
<1>5. PICK s \in Seq(Lot) : s = a.lots
  OBVIOUS
<1>6. PICK n \in Nat : n = Len(s) /\ DOMAIN s = 1 .. n /\ \A i \in 1 .. n : s[i] \in Lot
  BY LotTypes
<1>7. PICK side \in Int : side = a.side
  OBVIOUS
<1>8. \A t \in SUBSET (1 .. n) :
        g[t] = IF t = {} THEN FirstPass(fill)
               ELSE Consume(fill, side, g[t \ {Max(t)}], s[Max(t)])
  BY <1>3, <1>4, <1>5, <1>6, <1>7 DEF FirstPass
<1>9. g[{}] = FirstPass(fill) /\ 1 .. 0 = {}
  <2>1. {} \in SUBSET (1 .. n) /\ 1 .. 0 = {}
    OBVIOUS
  <2> QED BY <2>1, <1>8
<1>10. ASSUME NEW i \in 1 .. n
       PROVE  g[1 .. i] = Consume(fill, side, g[1 .. (i - 1)], s[i])
  <2>1. /\ 1 .. i \in SUBSET (1 .. n) /\ 1 .. i # {}
        /\ Max(1 .. i) = i /\ (1 .. i) \ {i} = 1 .. (i - 1)
    BY WholePrefix
  <2> QED BY <2>1, <1>8
<1>11. PICK hq : AddsUp(hq, Sizings(s), n) /\ LotQty(a) = hq[n]
  BY <1>5, <1>6, LotQtyAdds
<1>12. PICK hc : AddsUp(hc, Costs(s), n) /\ LotCost(a) = hc[n]
  BY <1>5, <1>6, LotCostAdds
<1> DEFINE Closed(i) == ClosedSoFar(g[1 .. i], fill, side, hq[i], hc[i])
<1>13. Closed(0)
  BY <1>9, <1>11, <1>12, FirstPassIs DEF AddsUp
<1>14. ASSUME NEW i \in 1 .. n, Closed(i - 1)
       PROVE  Closed(i)
  <2>1. PICK pass : pass = g[1 .. (i - 1)]
    OBVIOUS
  <2>2. PICK next : next = g[1 .. i]
    OBVIOUS
  <2>3. PICK lot \in Lot : lot = s[i]
    BY <1>6
  <2>4. next = Consume(fill, side, pass, lot)
    BY <1>10, <2>1, <2>2, <2>3
  <2>5. i - 1 \in 0 .. n
    OBVIOUS
  <2>6. PICK qty \in Int, cost \in Int : qty = hq[i - 1] /\ cost = hc[i - 1]
    BY <2>5, <1>11, <1>12 DEF AddsUp
  <2>7. ClosedSoFar(pass, fill, side, qty, cost)
    BY <1>14, <2>1, <2>6
  <2>8. pass \in Pass
    BY <2>7 DEF ClosedSoFar
  <2>9. ClosedSoFar(next, fill, side, qty + lot.qty, cost + lot.qty * lot.price)
    BY <2>4, <2>7, <2>8, ConsumeStep
  <2>10. hq[i] = qty + lot.qty /\ hc[i] = cost + lot.qty * lot.price
    <3>1. Sizings(s)[i] = s[i].qty /\ Costs(s)[i] = s[i].qty * s[i].price
      BY <1>6, LotTypes
    <3>2. hq[i] = hq[i - 1] + Sizings(s)[i] /\ hc[i] = hc[i - 1] + Costs(s)[i]
      BY <1>11, <1>12 DEF AddsUp
    <3> QED BY <3>1, <3>2, <2>3, <2>6
  <2> QED BY <2>2, <2>9, <2>10
<1> HIDE DEF Closed
<1> DEFINE S == {k \in 0 .. n : Closed(k)}
<1>15. 0 \in S /\ \A i \in 1 .. n : i - 1 \in S => i \in S
  BY <1>13, <1>14
<1>16. Closed(n)
  <2>1. S \in SUBSET (0 .. n) /\ n \in 0 .. n
    OBVIOUS
  <2> HIDE DEF S
  <2>2. n \in S
    BY <2>1, <1>15, UpTo
  <2> QED BY <2>2 DEF S
<1> QED BY <1>1, <1>4, <1>5, <1>6, <1>7, <1>11, <1>12, <1>16 DEF Closed

-----------------------------------------------------------------------------
(* The FIFO basis. *)

FifoAccount == [qty : Int, side : {-1, 0, 1}, lots : Seq(Lot), realized : Rational]

\* The lots are the shares held, and with what the closed ones earned they
\* account for the money that moved.
FifoBook(a, money) ==
  /\ a \in FifoAccount
  /\ a.side = 0 <=> a.lots = <<>>
  /\ a.qty = a.side * LotQty(a)
  /\ \E earned \in Int : a.realized = Whole(earned) /\ earned - a.side * LotCost(a) = money

LEMMA WholeSum ==
  ASSUME NEW m \in Int, NEW n \in Int
  PROVE  Plus(Whole(m), Whole(n)) = Whole(m + n) /\ Whole(m + n) \in Rational
<1>1. Plus(Whole(m), Whole(n)) = Ratio(m * 1 + n * 1, 1 * 1)
  BY DEF Plus, Whole
<1>2. m * 1 + n * 1 = (m + n) * 1 /\ 1 * 1 = 1 /\ 1 \in Positive /\ m + n \in Int
  BY DEF Positive
<1> QED BY <1>1, <1>2, RatioWhole, WholeAt

LEMMA FifoParts ==
  ASSUME NEW a \in FifoAccount
  PROVE  /\ a.qty \in Int /\ a.side \in {-1, 0, 1} /\ a.side \in Int
         /\ a.lots \in Seq(Lot) /\ a.realized \in Rational
         /\ LotQty(a) \in Int /\ LotCost(a) \in Int
<1>1. a.qty \in Int /\ a.side \in {-1, 0, 1} /\ a.lots \in Seq(Lot) /\ a.realized \in Rational
  BY DEF FifoAccount
<1> QED BY <1>1, LotSums

\* A fill on the account's side, or on an empty one, adds a lot.
LEMMA FifoOpens ==
  ASSUME NEW fill \in AnyFill, NEW money \in Int, NEW a, FifoBook(a, money),
         a.side \in {0, fill.sign}, NEW b, b = FifoApply(a, fill)
  PROVE  FifoBook(b, money + Proceeds(fill)) /\ b.qty = a.qty + fill.sign * fill.qty
<1>1. a \in FifoAccount /\ fill.sign \in {-1, 1} /\ fill.qty \in Int /\ fill.price \in Int
  BY DEF FifoBook, AnyFill, Positive
<1>2. PICK lot \in Lot : lot = [qty |-> fill.qty, price |-> fill.price]
  BY DEF Lot, AnyFill
<1>3. b = [a EXCEPT !.side = fill.sign, !.qty = a.qty + fill.sign * fill.qty,
                    !.lots = Append(a.lots, lot)]
  BY <1>2 DEF FifoApply
<1>4. /\ b.qty = a.qty + fill.sign * fill.qty /\ b.side = fill.sign
      /\ b.lots = Append(a.lots, lot) /\ b.realized = a.realized
  BY <1>1, <1>3 DEF FifoAccount
<1>5. /\ b.lots \in Seq(Lot) /\ b.lots # <<>> /\ LotQty(b) = LotQty(a) + fill.qty
      /\ LotCost(b) = LotCost(a) + fill.qty * fill.price
  <2>1. a.lots \in Seq(Lot)
    BY <1>1, FifoParts
  <2>2. /\ b.lots \in Seq(Lot) /\ b.lots # <<>> /\ LotQty(b) = LotQty(a) + lot.qty
        /\ LotCost(b) = LotCost(a) + lot.qty * lot.price
    BY <2>1, <1>4, LotMore
  <2>3. lot.qty = fill.qty /\ lot.price = fill.price
    BY <1>2
  <2> QED BY <2>2, <2>3
<1>6. b \in FifoAccount
  <2>1. a.qty + fill.sign * fill.qty \in Int
    BY <1>1, FifoParts
  <2>2. Append(a.lots, lot) \in Seq(Lot)
    BY <1>4, <1>5
  <2> QED BY <2>1, <2>2, <1>1, <1>3 DEF FifoAccount
<1>7. fill.sign # 0
  BY <1>1
<1>8. /\ LotQty(a) \in Int /\ LotCost(a) \in Int /\ a.qty = a.side * LotQty(a)
      /\ a.side * LotQty(a) = fill.sign * LotQty(a)
      /\ a.side * LotCost(a) = fill.sign * LotCost(a)
  <2>1. LotQty(a) \in Int /\ LotCost(a) \in Int /\ a.qty = a.side * LotQty(a)
    BY <1>1, FifoParts DEF FifoBook
  <2>2. CASE a.side = 0
    <3>1. LotQty(a) = 0 /\ LotCost(a) = 0
      BY <2>2, NoLots DEF FifoBook
    <3>2. 0 * 0 = 0 /\ fill.sign * 0 = 0
      BY <1>1
    <3> QED BY <3>1, <3>2, <2>1, <2>2
  <2>3. CASE a.side = fill.sign
    BY <2>1, <2>3
  <2> QED BY <2>2, <2>3
<1> DEFINE z == fill.sign
<1> DEFINE q == fill.qty
<1> DEFINE p == fill.price
<1> DEFINE hq == LotQty(a)
<1> DEFINE hc == LotCost(a)
<1>9. z \in Int /\ q \in Int /\ p \in Int /\ hq \in Int /\ hc \in Int
  BY <1>1, <1>8
<1>10. b.qty = b.side * LotQty(b)
  <2>1. b.qty = z * hq + z * q /\ b.side * LotQty(b) = z * (hq + q)
    BY <1>4, <1>5, <1>8
  <2> HIDE DEF z, q, hq
  <2> QED BY <2>1, <1>9
<1>11. PICK earned \in Int : a.realized = Whole(earned) /\ earned - a.side * hc = money
  BY DEF FifoBook
<1>12. earned - b.side * LotCost(b) = money + Proceeds(fill)
  <2>1. b.side * LotCost(b) = z * (hc + q * p) /\ earned - z * hc = money
    BY <1>4, <1>5, <1>8, <1>11
  <2>2. Proceeds(fill) = -z * q * p
    BY DEF Proceeds
  <2> HIDE DEF z, q, p, hc
  <2>3. z * (hc + q * p) = z * hc + z * q * p /\ -z * q * p = -(z * q * p)
    BY <1>9
  <2>4. z * hc \in Int /\ z * q * p \in Int
    BY <1>9
  <2>5. earned - (z * hc + z * q * p) = (earned - z * hc) + (-(z * q * p))
    BY <2>4
  <2> QED BY <2>1, <2>2, <2>3, <2>5
<1> QED BY <1>4, <1>5, <1>6, <1>7, <1>10, <1>11, <1>12 DEF FifoBook

LEMMA Rearranged ==
  ASSUME NEW e \in Int, NEW z \in Int, NEW f \in Int, NEW done \in Int, NEW more \in Int,
         NEW cost \in Int, NEW left \in Int
  PROVE  /\ (e + (-z) * (f * done - (cost - left))) - (-z) * left
              = (e - (-z) * cost) + (-(z * done * f))
         /\ -z * (done + more) * f = -(z * done * f) + -(z * more * f)
<1>1. (-z) * (f * done - (cost - left)) = -(z * done * f) + z * cost - z * left
  <2>1. z * (f * done - (cost - left)) = z * (f * done) - z * cost + z * left
    <3> DEFINE u == f * done
    <3>1. u \in Int
      OBVIOUS
    <3> HIDE DEF u
    <3>2. z * (u - (cost - left)) = z * u - z * cost + z * left
      BY <3>1
    <3> QED BY <3>2 DEF u
  <2>2. z * (f * done) = z * done * f
    OBVIOUS
  <2> DEFINE v == f * done - (cost - left)
  <2>3. v \in Int
    OBVIOUS
  <2> HIDE DEF v
  <2>4. (-z) * v = -(z * v)
    BY <2>3
  <2>5. z * done * f \in Int /\ z * cost \in Int /\ z * left \in Int
    OBVIOUS
  <2> QED BY <2>1, <2>2, <2>4, <2>5 DEF v
<1>2. (-z) * left = -(z * left) /\ (-z) * cost = -(z * cost)
  OBVIOUS
<1>3. z * done * f \in Int /\ z * cost \in Int /\ z * left \in Int /\ z * more * f \in Int
  OBVIOUS
<1>4. -z * (done + more) * f = -(z * done * f) + -(z * more * f)
  OBVIOUS
<1> QED BY <1>1, <1>2, <1>3, <1>4

\* A fill against the account's side consumes its lots; what it has left over
\* opens the other side.
LEMMA FifoCloses ==
  ASSUME NEW fill \in AnyFill, NEW money \in Int, NEW a, FifoBook(a, money),
         a.side \notin {0, fill.sign}, NEW b, b = FifoApply(a, fill)
  PROVE  FifoBook(b, money + Proceeds(fill)) /\ b.qty = a.qty + fill.sign * fill.qty
<1>1. /\ a \in FifoAccount /\ fill.sign \in {-1, 1} /\ fill.sign \in Int /\ fill.qty \in Int
      /\ fill.price \in Int
  BY DEF FifoBook, AnyFill, Positive
<1>2. a.side = -fill.sign /\ a.side # 0
  BY <1>1, FifoParts
<1>3. PICK pass : pass = Consumed(fill, a)
  OBVIOUS
<1>4. ClosedSoFar(pass, fill, a.side, LotQty(a), LotCost(a))
  BY <1>1, <1>3, FifoParts, ConsumedIs
<1>5. /\ pass.remaining \in Nat /\ pass.gain \in Int /\ pass.lots \in Seq(Lot)
      /\ LotQty(pass) \in Int /\ LotCost(pass) \in Int
  <2>1. pass.remaining \in Nat /\ pass.gain \in Int /\ pass.lots \in Seq(Lot)
    BY <1>4 DEF ClosedSoFar, Pass
  <2> QED BY <2>1, LotSums
<1>6. PICK earned \in Int : a.realized = Whole(earned) /\ earned - a.side * LotCost(a) = money
  BY DEF FifoBook
<1>7. Plus(a.realized, Whole(pass.gain)) = Whole(earned + pass.gain)
      /\ Whole(earned + pass.gain) \in Rational
  BY <1>5, <1>6, WholeSum
<1>8. PICK z \in Int, q \in Int, f \in Int, rem \in Int :
         z = fill.sign /\ q = fill.qty /\ f = fill.price /\ rem = pass.remaining
  BY <1>1, <1>5
<1>9. PICK held \in Int, cost \in Int, lasting \in Int, left \in Int :
         held = LotQty(a) /\ cost = LotCost(a) /\ lasting = LotQty(pass) /\ left = LotCost(pass)
  BY <1>1, <1>5, FifoParts
<1>10. /\ lasting + (q - rem) = held
       /\ pass.gain = (-z) * (f * (q - rem) - (cost - left))
       /\ rem > 0 => pass.lots = <<>>
  BY <1>2, <1>4, <1>8, <1>9 DEF ClosedSoFar
<1>11. a.qty = (-z) * held /\ a.qty + z * q \in Int /\ earned - (-z) * cost = money
  <2>1. a.side = -z
    BY <1>2, <1>8
  <2>2. a.qty = a.side * held
    BY <1>9 DEF FifoBook
  <2>3. z * q \in Int /\ a.qty \in Int
    BY <1>1, <1>8, FifoParts
  <2>4. earned - a.side * cost = money
    BY <1>6, <1>9
  <2>5. a.qty + z * q \in Int
    BY <2>3
  <2> QED BY <2>1, <2>2, <2>4, <2>5
<1>12. Proceeds(fill) = -z * q * f
  BY <1>8 DEF Proceeds
<1>13. PICK done \in Int : done = q - rem
  OBVIOUS
<1>14. q = done + rem
  BY <1>13
<1>15. /\ (earned + pass.gain) - (-z) * left = money + (-(z * done * f))
       /\ Proceeds(fill) = -(z * done * f) + -(z * rem * f)
  BY <1>10, <1>11, <1>12, <1>13, <1>14, Rearranged
<1>16. CASE rem > 0
  <2>1. PICK lot \in Lot : lot = [qty |-> rem, price |-> fill.price]
    <3>1. rem \in Positive /\ fill.price \in Int
      BY <1>1, <1>16 DEF Positive
    <3>2. [qty |-> rem, price |-> fill.price] \in Lot
      BY <3>1 DEF Lot
    <3> QED BY <3>2
  <2>2. b = [qty |-> a.qty + z * q, realized |-> Whole(earned + pass.gain), side |-> z,
             lots |-> Append(pass.lots, lot)]
    BY <1>2, <1>3, <1>7, <1>8, <1>16, <2>1 DEF FifoApply
  <2>3. /\ b.qty = a.qty + z * q /\ b.realized = Whole(earned + pass.gain) /\ b.side = z
        /\ b.lots = Append(pass.lots, lot)
    BY <2>2
  <2>4. lasting = 0 /\ left = 0
    BY <1>9, <1>10, <1>16, NoLots
  <2>5. b.lots \in Seq(Lot) /\ b.lots # <<>> /\ LotQty(b) = rem /\ LotCost(b) = rem * f
    <3>1. /\ b.lots \in Seq(Lot) /\ b.lots # <<>> /\ LotQty(b) = LotQty(pass) + lot.qty
          /\ LotCost(b) = LotCost(pass) + lot.qty * lot.price
      <4>1. pass.lots \in Seq(Lot)
        BY <1>5
      <4>2. b.lots = Append(pass.lots, lot)
        BY <2>3
      <4> QED BY <4>1, <4>2, LotMore
    <3>2. lot.qty = rem /\ lot.price = f
      BY <1>8, <2>1
    <3>3. 0 + rem = rem /\ 0 + rem * f = rem * f
      OBVIOUS
    <3> QED BY <3>1, <3>2, <3>3, <2>4, <1>9
  <2>6. b \in FifoAccount
    BY <1>1, <1>7, <1>8, <1>11, <2>2, <2>3, <2>5 DEF FifoAccount
  <2>7. b.qty = b.side * LotQty(b)
    <3>1. (-z) * done + z * (done + rem) = z * rem
      OBVIOUS
    <3>2. held = done
      BY <1>10, <1>13, <2>4
    <3> QED BY <3>1, <3>2, <1>11, <1>14, <2>3, <2>5
  <2>8. (earned + pass.gain) - b.side * LotCost(b) = money + Proceeds(fill)
    <3>1. (-z) * left = 0 /\ z * (rem * f) = z * rem * f
      BY <2>4
    <3>2. z * rem * f \in Int /\ z * done * f \in Int /\ earned + pass.gain \in Int
      BY <1>5
    <3>3. earned + pass.gain = money + (-(z * done * f))
      BY <3>1, <3>2, <1>15
    <3>4. b.side * LotCost(b) = z * rem * f
      BY <3>1, <2>3, <2>5
    <3> QED BY <3>2, <3>3, <3>4, <1>15
  <2>9. b.side # 0 /\ earned + pass.gain \in Int
    <3>1. z \in {-1, 1} => z # 0
      OBVIOUS
    <3>2. b.side # 0
      BY <1>1, <1>8, <2>3, <3>1
    <3>3. earned + pass.gain \in Int
      BY <1>5
    <3> QED BY <3>2, <3>3
  <2> QED BY <1>8, <2>3, <2>5, <2>6, <2>7, <2>8, <2>9 DEF FifoBook
<1>17. CASE rem = 0
  <2>1. b = [qty |-> a.qty + z * q, realized |-> Whole(earned + pass.gain), lots |-> pass.lots,
             side |-> IF pass.lots = <<>> THEN 0 ELSE a.side]
    BY <1>2, <1>3, <1>7, <1>8, <1>17 DEF FifoApply
  <2>2. /\ b.qty = a.qty + z * q /\ b.realized = Whole(earned + pass.gain) /\ b.lots = pass.lots
        /\ b.side = IF pass.lots = <<>> THEN 0 ELSE -z
    BY <1>2, <1>8, <2>1
  <2>3. LotQty(b) = lasting /\ LotCost(b) = left
    BY <1>9, <2>2 DEF LotQty, LotCost
  <2>4. b.side = 0 <=> b.lots = <<>>
    BY <1>1, <1>8, <2>2
  <2>5. b.side * LotQty(b) = (-z) * lasting /\ b.side * LotCost(b) = (-z) * left
    <3>1. CASE pass.lots = <<>>
      <4>1. lasting = 0 /\ left = 0 /\ b.side = 0
        BY <3>1, <1>9, <2>2, NoLots
      <4>2. 0 * 0 = 0 /\ (-z) * 0 = 0
        OBVIOUS
      <4> QED BY <4>1, <4>2, <2>3
    <3>2. CASE pass.lots # <<>>
      BY <3>2, <2>2, <2>3
    <3> QED BY <3>1, <3>2
  <2>6. b \in FifoAccount
    <3>1. b.side \in {-1, 0, 1}
      BY <1>1, <1>8, <2>2
    <3> QED BY <3>1, <1>5, <1>7, <1>11, <2>1, <2>2 DEF FifoAccount
  <2>7. b.qty = b.side * LotQty(b)
    <3>1. held = lasting + q
      BY <1>10, <1>17
    <3>2. (-z) * (lasting + q) + z * q = (-z) * lasting
      OBVIOUS
    <3> QED BY <3>1, <3>2, <1>11, <2>2, <2>5
  <2>8. (earned + pass.gain) - b.side * LotCost(b) = money + Proceeds(fill)
    <3>1. z * rem * f = 0 /\ z * done * f \in Int
      BY <1>17
    <3>2. Proceeds(fill) = -(z * done * f)
      BY <3>1, <1>15
    <3> QED BY <3>2, <1>15, <2>5
  <2>9. earned + pass.gain \in Int
    BY <1>5
  <2> QED BY <1>8, <2>2, <2>4, <2>6, <2>7, <2>8, <2>9 DEF FifoBook
<1>18. rem \in Nat
  BY <1>5, <1>8
<1> QED BY <1>16, <1>17, <1>18

\* FifoCostBasis.apply.
LEMMA FifoStep ==
  ASSUME NEW fill \in AnyFill, NEW money \in Int, NEW a, FifoBook(a, money)
  PROVE  /\ FifoBook(FifoApply(a, fill), money + Proceeds(fill))
         /\ FifoApply(a, fill).qty = a.qty + fill.sign * fill.qty
<1>1. PICK b : b = FifoApply(a, fill)
  OBVIOUS
<1>2. FifoBook(b, money + Proceeds(fill)) /\ b.qty = a.qty + fill.sign * fill.qty
  BY <1>1, FifoOpens, FifoCloses
<1> QED BY <1>1, <1>2

LEMMA FifoStarts == FifoBook(LotAccount, 0) /\ LotAccount.qty = 0
<1>1. PICK a : a = LotAccount
  OBVIOUS
<1>2. a.qty = 0 /\ a.side = 0 /\ a.lots = <<>> /\ a.realized = Whole(0)
  BY <1>1 DEF LotAccount
<1>3. a \in FifoAccount
  <2>1. <<>> \in Seq(Lot) /\ 0 \in Int
    OBVIOUS
  <2>2. Whole(0) \in Rational
    BY <2>1, WholeSum DEF Whole, Rational
  <2> QED BY <2>1, <2>2, <1>1 DEF LotAccount, FifoAccount
<1>4. LotQty(a) = 0 /\ LotCost(a) = 0
  BY <1>2, NoLots
<1>5. 0 = 0 * 0 /\ 0 - 0 * 0 = 0 /\ 0 \in Int
  OBVIOUS
<1> QED BY <1>1, <1>2, <1>3, <1>4, <1>5 DEF FifoBook

FifoInv ==
  /\ BooksInv
  /\ settings.method = "FIFO" => FifoBook(basis, cash) /\ basis.qty = position.qty

\* The queue of lots accounts for the money of the fills and holds the shares of
\* the position book, after any fills of any sizes: consuming the oldest lots,
\* splitting the last one and opening the other side with what is left.
THEOREM FifoInductive == Spec => []FifoInv
<1>1. Init => FifoInv
  <2> SUFFICES ASSUME Init PROVE FifoInv
    OBVIOUS
  <2>1. settings.method = "FIFO" => basis = LotAccount /\ cash = 0 /\ position.qty = 0
    BY InitAccount DEF Init
  <2> QED BY <2>1, BooksInit, FifoStarts DEF FifoInv
<1>2. FifoInv /\ [Next]_vars /\ settings'.method = "FIFO"
        => FifoBook(basis', cash') /\ basis'.qty = position'.qty
  <2> SUFFICES ASSUME FifoInv, [Next]_vars, settings'.method = "FIFO"
               PROVE  FifoBook(basis', cash') /\ basis'.qty = position'.qty
    OBVIOUS
  <2>1. settings' = settings
    BY DEF Next, Book, Lose, Execute, Mark, vars
  <2>2. FifoBook(basis, cash) /\ basis.qty = position.qty
    BY <2>1 DEF FifoInv
  <2>3. CASE UNCHANGED <<position, basis, cash>>
    BY <2>2, <2>3
  <2>4. ASSUME NEW fill \in Fills, Book(fill)
        PROVE  FifoBook(basis', cash') /\ basis'.qty = position'.qty
    <3>1. fill \in AnyFill
      BY FillTypes
    <3>2. /\ position \in Accounts /\ cash \in Int /\ Balanced(position, cash)
      BY DEF FifoInv, BooksInv, BooksType, MoneyHeld
    <3>3. /\ position' = PositionApply(position, fill) /\ cash' = cash + Proceeds(fill)
          /\ basis' = FifoApply(basis, fill)
      BY <2>1, <2>4 DEF Book, BasisApply
    <3>4. position'.qty = position.qty + fill.sign * fill.qty
      BY <3>1, <3>2, <3>3, PositionBooks DEF AfterQty
    <3> QED BY <3>1, <3>2, <3>3, <3>4, <2>2, FifoStep
  <2>5. CASE \E fill \in Fills : Lose(fill)
    BY <2>3, <2>5 DEF Lose
  <2>6. CASE \E price \in Prices \cup {VenuePrice} : Mark(price)
    BY <2>3, <2>6 DEF Mark
  <2>7. CASE UNCHANGED vars
    BY <2>3, <2>7 DEF vars
  <2> QED BY <2>4, <2>5, <2>6, <2>7 DEF Next
<1>3. FifoInv /\ BooksInv' /\ [Next]_vars => FifoInv'
  <2> SUFFICES ASSUME FifoInv, BooksInv', [Next]_vars PROVE FifoInv'
    OBVIOUS
  <2>1. settings'.method = "FIFO" => FifoBook(basis', cash') /\ basis'.qty = position'.qty
    BY <1>2
  <2>2. LotQty(basis') = LotQty(basis)' /\ LotCost(basis') = LotCost(basis)'
    BY DEF LotQty, LotCost, FoldLeft, MapThenFoldSet, Max
  <2>3. FifoBook(basis', cash') = FifoBook(basis, cash)'
    BY <2>2 DEF FifoBook, Whole
  <2> QED BY <2>1, <2>3 DEF FifoInv
<1> QED BY <1>1, <1>3, BooksInductive, PTL DEF Spec

\* LotsAreThePosition: the lots are on one side, none is empty, and they are the
\* shares that the position book, which keeps no lots, says it has.
THEOREM FifoLotsAreThePosition == Spec => []LotsAreThePosition
<1>1. FifoInv => LotsAreThePosition
  <2> SUFFICES ASSUME FifoInv, settings.method = "FIFO"
               PROVE  /\ basis.qty = position.qty
                      /\ basis.qty = basis.side * LotQty(basis)
                      /\ basis.side = 0 <=> basis.lots = <<>>
                      /\ \A lot \in Range(basis.lots) : lot.qty > 0
    BY DEF LotsAreThePosition
  <2>1. FifoBook(basis, cash) /\ basis.qty = position.qty
    BY DEF FifoInv
  <2>2. basis.lots \in Seq(Lot)
    BY <2>1, FifoParts DEF FifoBook
  <2>3. \A lot \in Range(basis.lots) : lot.qty > 0
    <3>1. PICK s \in Seq(Lot) : s = basis.lots
      BY <2>2
    <3>2. \A i \in DOMAIN s : s[i].qty \in Positive
      BY LotTypes
    <3> QED BY <3>1, <3>2 DEF Range, Positive
  <2> QED BY <2>1, <2>3 DEF FifoBook
<1> QED BY <1>1, FifoInductive, PTL

\* MoneyIsConserved: no fill creates or loses money, in the position book and in
\* either cost basis, whatever the prices, the sizes and the order of the fills.
THEOREM BooksConserveMoney == Spec => []MoneyIsConserved
<1>1. FifoInv => MoneyIsConserved
  <2> SUFFICES ASSUME FifoInv PROVE MoneyIsConserved
    OBVIOUS
  <2>1. /\ Balanced(position, cash) /\ (settings.method = "AVERAGE" => basis = position)
        /\ cash \in Int /\ settings.method \in {"AVERAGE", "FIFO"}
    BY SettingsAssumption DEF FifoInv, BooksInv, BooksType, MoneyHeld
  <2>2. CASE settings.method = "AVERAGE"
    BY <2>1, <2>2 DEF MoneyIsConserved, Balanced, BasisAvg
  <2>3. CASE settings.method = "FIFO"
    <3>1. PICK money \in Int : money = cash
      BY <2>1
    <3>2. PICK a : a = basis
      OBVIOUS
    <3>3. FifoBook(a, money)
      BY <2>3, <3>1, <3>2 DEF FifoInv
    <3>4. PICK earned \in Int : a.realized = Whole(earned) /\ earned - a.side * LotCost(a) = money
      BY <3>3 DEF FifoBook
    <3>5. PICK z \in Int, held \in Int, cost \in Int :
             z = a.side /\ held = LotQty(a) /\ cost = LotCost(a)
      BY <3>3, FifoParts DEF FifoBook
    <3>6. a.qty = z * held /\ earned - z * cost = money
      BY <3>3, <3>4, <3>5 DEF FifoBook
    <3>7. Whole(earned) \in Rational /\ Whole(0) \in Rational
          /\ 0 \in Int /\ 1 \in Positive
      BY DEF Whole, Rational, Positive
    <3>8. PICK avg \in Rational, n \in Int, d \in Positive :
             /\ avg = FifoAvg(a) /\ At(avg, n, d) /\ n * (z * held) = z * cost * d
      <4>1. CASE held = 0
        <5>1. a.lots = <<>>
          BY <4>1, <3>3, <3>5, SomeLots, FifoParts DEF FifoBook
        <5>2. cost = 0
          BY <5>1, <3>5, NoLots
        <5>3. FifoAvg(a) = Whole(0)
          BY <4>1, <3>5 DEF FifoAvg
        <5>4. At(Whole(0), 0, 1) /\ 0 * (z * held) = z * cost * 1
          BY <4>1, <5>2 DEF At, Whole
        <5> QED BY <5>3, <5>4, <3>7
      <4>2. CASE held # 0
        <5>1. held \in Positive
          <6>1. a.lots # <<>>
            BY <4>2, <3>5, NoLots
          <6>2. held > 0
            BY <6>1, <3>3, <3>5, SomeLots, FifoParts DEF FifoBook
          <6> QED BY <6>2 DEF Positive
        <5>2. FifoAvg(a) = Ratio(cost, held)
          BY <4>2, <3>5 DEF FifoAvg
        <5>3. Ratio(cost, held) \in Rational /\ At(Ratio(cost, held), cost, held)
          BY <5>1, RatioAt
        <5>4. cost * (z * held) = z * cost * held
          OBVIOUS
        <5> QED BY <5>1, <5>2, <5>3, <5>4
      <4> QED BY <4>1, <4>2
    <3>9. PICK k \in Int : k = z * held
      OBVIOUS
    <3>10. Times(avg, k) \in Rational /\ At(Times(avg, k), n * k, d)
      BY <3>8, TimesAt
    <3>11. At(Whole(earned), earned * d, d)
      BY WholeAt
    <3>12. n * k \in Int /\ earned * d \in Int /\ d \in Int
      BY DEF Positive
    <3>13. earned * d - n * k = money * d
      <4>1. n * k = z * cost * d
        BY <3>8, <3>9
      <4>2. earned * d - z * cost * d = (earned - z * cost) * d
        BY <3>12
      <4> QED BY <4>1, <4>2, <3>6
    <3>14. Minus(Whole(earned), Times(avg, k)) = Whole(money)
      BY <3>7, <3>10, <3>11, <3>12, <3>13, MinusWhole
    <3>15. BasisAvg = avg
      BY <2>3, <3>2, <3>8 DEF BasisAvg
    <3>16. Minus(basis.realized, Times(BasisAvg, basis.qty)) = Whole(cash)
      BY <3>1, <3>2, <3>4, <3>6, <3>9, <3>14, <3>15
    <3> QED BY <3>16, <2>1 DEF MoneyIsConserved, Balanced
  <2> QED BY <2>1, <2>2, <2>3
<1> QED BY <1>1, FifoInductive, PTL

=============================================================================
