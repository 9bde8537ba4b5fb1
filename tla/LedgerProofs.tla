---------------------------- MODULE LedgerProofs ----------------------------
(***************************************************************************)
(* Sums of quantities, and over ledgers of every size: sets of rows that   *)
(* have a quantity.  What one term contributes, what a new row adds, that  *)
(* more rows are not less, and that what is owed by each is owed by all:   *)
(* the facts that the invariants of the engine and of its tables use.      *)
(***************************************************************************)
EXTENDS Quantities, FiniteSetTheorems, TLAPS

\* The units of one owner.
UnitsOf(quantity, x) == {x} \X (1 .. quantity[x])

\* An owner of n units has n units, and they are finitely many.
LEMMA UnitsOfOne ==
  ASSUME NEW q, NEW x, q[x] \in Nat
  PROVE  IsFiniteSet(UnitsOf(q, x)) /\ Cardinality(UnitsOf(q, x)) = q[x]
  <1>1. IsFiniteSet({x}) /\ Cardinality({x}) = 1
    BY FS_Singleton
  <1>2. IsFiniteSet(1 .. q[x]) /\ Cardinality(1 .. q[x]) = q[x]
    BY FS_Interval
  <1>3. /\ IsFiniteSet({x} \X (1 .. q[x]))
        /\ Cardinality({x} \X (1 .. q[x])) = 1 * q[x]
    BY <1>1, <1>2, FS_Product
  <1> QED
    BY <1>3 DEF UnitsOf

\* Finitely many quantities stand for finitely many units.
LEMMA UnitsFinite ==
  ASSUME NEW S, IsFiniteSet(S), NEW q \in [S -> Nat]
  PROVE  IsFiniteSet(Units(q))
  <1> DEFINE columns == {UnitsOf(q, x) : x \in S}
             column  == [x \in S |-> UnitsOf(q, x)]
  <1>1. column \in Surjection(S, columns)
    BY DEF Surjection
  <1>2. IsFiniteSet(columns)
    BY <1>1, FS_Surjection
  <1>3. \A c \in columns : IsFiniteSet(c)
    BY UnitsOfOne
  <1>4. Units(q) = UNION columns
    BY DEF Units, UnitsOf
  <1> HIDE DEF columns
  <1> QED
    BY <1>2, <1>3, <1>4, FS_UNION

LEMMA TotalType ==
  ASSUME NEW S, IsFiniteSet(S), NEW q \in [S -> Nat]
  PROVE  Total(q) \in Nat
BY UnitsFinite, FS_CardinalityType DEF Total

\* A sum is one of its terms and the sum of the others.
LEMMA TotalSplit ==
  ASSUME NEW S, IsFiniteSet(S), NEW q \in [S -> Nat], NEW x \in S
  PROVE  Total(q) = Total([y \in S \ {x} |-> q[y]]) + q[x]
  <1> DEFINE others == [y \in S \ {x} |-> q[y]]
  <1>1. IsFiniteSet(S \ {x}) /\ others \in [S \ {x} -> Nat] /\ q[x] \in Nat
    BY FS_RemoveElement
  <1>2. /\ IsFiniteSet(Units(others)) /\ Cardinality(Units(others)) \in Nat
        /\ IsFiniteSet(UnitsOf(q, x)) /\ Cardinality(UnitsOf(q, x)) = q[x]
    BY <1>1, UnitsFinite, UnitsOfOne, FS_CardinalityType
  <1>3. /\ Units(q) = Units(others) \cup UnitsOf(q, x)
        /\ Units(others) \cap UnitsOf(q, x) = {}
    BY DEF Units, UnitsOf
  <1>4. Cardinality(Units(others) \cap UnitsOf(q, x)) = 0
    BY <1>3, FS_EmptySet
  <1>5. Cardinality(Units(q))
          = Cardinality(Units(others)) + Cardinality(UnitsOf(q, x))
              - Cardinality(Units(others) \cap UnitsOf(q, x))
    BY <1>2, <1>3, FS_Union
  <1> HIDE DEF others
  <1>6. Total(q) = Total(others) + q[x]
    BY <1>1, <1>2, <1>4, <1>5 DEF Total
  <1> QED
    BY <1>6 DEF others

-----------------------------------------------------------------------------
\* What the rows of a ledger come to.
Summed(rows) == Total([f \in rows |-> f.qty])

Ledger(rows) == IsFiniteSet(rows) /\ \A f \in rows : f.qty \in Nat

LEMMA LedgerQuantity ==
  ASSUME NEW rows, Ledger(rows)
  PROVE  IsFiniteSet(rows) /\ [f \in rows |-> f.qty] \in [rows -> Nat]
BY DEF Ledger

LEMMA SummedType ==
  ASSUME NEW rows, Ledger(rows)
  PROVE  Summed(rows) \in Nat
BY LedgerQuantity, TotalType DEF Summed

LEMMA SummedEmpty == Summed({}) = 0
  <1>1. Units([f \in {} |-> f.qty]) = {}
    BY DEF Units
  <1> QED
    BY <1>1, FS_EmptySet DEF Summed, Total

\* A new row adds its quantity.
LEMMA SummedAdd ==
  ASSUME NEW rows, Ledger(rows), NEW f, f.qty \in Nat, f \notin rows
  PROVE  Summed(rows \cup {f}) = Summed(rows) + f.qty
  <1> DEFINE q == [g \in rows \cup {f} |-> g.qty]
  <1>1. IsFiniteSet(rows \cup {f}) /\ q \in [rows \cup {f} -> Nat] /\ q[f] = f.qty
    BY FS_AddElement DEF Ledger
  <1>2. [g \in (rows \cup {f}) \ {f} |-> q[g]] = [g \in rows |-> g.qty]
    OBVIOUS
  <1>3. Summed(rows \cup {f}) = Total(q)
    BY DEF Summed
  <1> HIDE DEF q
  <1>4. Total(q) = Total([g \in (rows \cup {f}) \ {f} |-> q[g]]) + q[f]
    BY <1>1, TotalSplit
  <1> QED
    BY <1>1, <1>2, <1>3, <1>4 DEF Summed

\* More rows are not less.
LEMMA SummedMonotone ==
  ASSUME NEW rows, Ledger(rows), NEW part, part \subseteq rows
  PROVE  Ledger(part) /\ Summed(part) <= Summed(rows)
  <1> DEFINE all  == Units([g \in rows |-> g.qty])
             some == Units([g \in part |-> g.qty])
  <1>1. Ledger(part)
    BY FS_Subset DEF Ledger
  <1>2. some \subseteq all
    BY DEF Units
  <1>3. IsFiniteSet(all)
    BY LedgerQuantity, UnitsFinite
  <1>4. Cardinality(some) <= Cardinality(all)
    <2> HIDE DEF all, some
    <2> QED
      BY <1>2, <1>3, FS_Subset
  <1> QED
    BY <1>1, <1>4 DEF Summed, Total

\* The rows of one owner.
RowsOf(rows, x) == {f \in rows : f.order = x}

\* Owners whose rows come to no more than they have: together they do not either.
LEMMA SummedWithin ==
  ASSUME NEW S, IsFiniteSet(S), NEW q \in [S -> Nat],
         NEW rows, Ledger(rows), \A f \in rows : f.order \in S,
         \A x \in S : Summed(RowsOf(rows, x)) <= q[x]
  PROVE  Summed(rows) <= Total(q)
  <1> DEFINE units(x) == Units([f \in RowsOf(rows, x) |-> f.qty])
             all      == Units([f \in rows |-> f.qty])
  <1>1. ASSUME NEW x \in S
        PROVE  \E h : h \in Injection(units(x), 1 .. q[x])
    <2>1. Ledger(RowsOf(rows, x))
      BY FS_Subset DEF RowsOf, Ledger
    <2>2. IsFiniteSet(units(x))
      BY <2>1, LedgerQuantity, UnitsFinite
    <2>3. Cardinality(units(x)) \in Nat /\ Cardinality(units(x)) <= q[x] /\ q[x] \in Nat
      BY <2>2, FS_CardinalityType DEF Summed, Total
    <2> HIDE DEF units
    <2>4. PICK g : g \in Bijection(1 .. Cardinality(units(x)), units(x))
      BY <2>2, FS_CardinalityType DEF ExistsBijection
    <2> DEFINE h == [u \in units(x) |-> CHOOSE i \in 1 .. Cardinality(units(x)) : g[i] = u]
    <2>5. \A u \in units(x) : h[u] \in 1 .. Cardinality(units(x)) /\ g[h[u]] = u
      BY <2>4 DEF Bijection, Surjection
    <2>6. 1 .. Cardinality(units(x)) \subseteq 1 .. q[x]
      BY <2>3
    <2>7. h \in Injection(units(x), 1 .. q[x])
      <3>1. h \in [units(x) -> 1 .. q[x]]
        BY <2>5, <2>6
      <3> HIDE DEF h
      <3> QED
        BY <2>5, <3>1 DEF Injection, IsInjective
    <2> QED
      BY <2>7
  <1> DEFINE number == [x \in S |-> CHOOSE h : h \in Injection(units(x), 1 .. q[x])]
             place  == [u \in all |-> <<u[1].order, number[u[1].order][u]>>]
  <1>2. \A x \in S : number[x] \in Injection(units(x), 1 .. q[x])
    BY <1>1
  <1> HIDE DEF number
  <1>3. \A u \in all : u[1].order \in S /\ u \in units(u[1].order)
    BY DEF Units, RowsOf
  <1>4. place \in Injection(all, Units(q))
    <2>1. \A u \in all : number[u[1].order][u] \in 1 .. q[u[1].order]
      BY <1>2, <1>3 DEF Injection
    <2>2. place \in [all -> Units(q)]
      BY <1>3, <2>1 DEF Units
    <2>3. ASSUME NEW u \in all, NEW v \in all, place[u] = place[v]
          PROVE  u = v
      <3>1. u[1].order = v[1].order /\ number[u[1].order][u] = number[u[1].order][v]
        BY <2>3
      <3>2. u[1].order \in S /\ u \in units(u[1].order) /\ v \in units(u[1].order)
        BY <1>3, <3>1
      <3> HIDE DEF units, place, all
      <3> QED
        BY <1>2, <3>1, <3>2 DEF Injection, IsInjective
    <2> HIDE DEF place
    <2> QED
      BY <2>2, <2>3 DEF Injection, IsInjective
  <1> HIDE DEF place, all
  <1>5. Cardinality(all) <= Cardinality(Units(q))
    BY <1>4, UnitsFinite, FS_Injection
  <1> QED
    BY <1>5 DEF Summed, Total, all
=============================================================================
