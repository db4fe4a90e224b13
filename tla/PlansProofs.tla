----------------------------- MODULE PlansProofs -----------------------------
(***************************************************************************)
(* Proofs about Plans, for conditions of any width and depth: over any tables *)
(* the optimizers keep what a condition means, and over tables with plain      *)
(* indexes (of one leaf, on the first columns, with distinct keys and no NULL  *)
(* in them) the plan that is made of it misses no row and, with indexes of one *)
(* column, reads no other row.                                                 *)
(***************************************************************************)
EXTENDS Plans, NaturalsInduction, WellFoundedInduction, TLAPS

-----------------------------------------------------------------------------
(* Terms and conditions, level by level. *)

\* A set of numbers that is not empty has a least one.
LEMMA Least ==
  ASSUME NEW S \in SUBSET Nat, S # {}
  PROVE  \E m \in S : \A n \in S : m <= n
<1>1. IsWellFoundedOn(OpToRel(<, Nat), Nat)
  BY NatLessThanWellFounded
<1>2. PICK m \in S : \A n \in S : ~(<<n, m>> \in OpToRel(<, Nat))
  BY <1>1, WFMin
<1>3. \A n \in S : ~(n < m)
  BY <1>2 DEF OpToRel
<1> QED
  BY <1>3

\* What holds of 0 and of the number after each one it holds of holds of all.
LEMMA Upwards ==
  ASSUME NEW N \in Nat, NEW S, 0 \in S, \A n \in 0..N : n < N /\ n \in S => n + 1 \in S
  PROVE  \A n \in 0..N : n \in S
<1> SUFFICES ASSUME NEW k \in 0..N, k \notin S PROVE FALSE
  OBVIOUS
<1> DEFINE Out == {n \in 0..N : n \notin S}
<1>1. Out \in SUBSET Nat /\ Out # {}
  OBVIOUS
<1>2. PICK m \in Out : \A n \in Out : m <= n
  <2> HIDE DEF Out
  <2> QED BY <1>1, Least
<1>3. m \in 1..N /\ m - 1 \in 0..N /\ m - 1 \in S
  BY <1>2, SMT
<1> QED
  BY <1>2, <1>3, SMT

TermLevel(f, n) ==
  [k : {"const"}, v : Int] \cup [k : {"column"}, id : Nat]
    \cup (IF n = 0 THEN {} ELSE [k : {"func"}, args : f[n - 1] \X f[n - 1]])

\* The levels of the terms satisfy their equation.
LEMMA TermsOfExists == TermsOf = [n \in 0..Nesting |-> TermLevel(TermsOf, n)]
<1> DEFINE Up == {m \in Nat : \E f : f = [n \in 0..m |-> TermLevel(f, n)]}
<1>1. 0 \in Up
  <2> DEFINE g == [n \in 0..0 |-> TermLevel(<<>>, n)]
  <2>1. g = [n \in 0..0 |-> TermLevel(g, n)]
    BY DEF TermLevel
  <2> QED BY <2>1
<1>2. ASSUME NEW m \in Nat, m \in Up PROVE m + 1 \in Up
  <2>1. PICK f : f = [n \in 0..m |-> TermLevel(f, n)]
    BY <1>2
  <2> DEFINE g == [n \in 0..(m + 1) |-> TermLevel(f, n)]
  <2>2. \A n \in 0..m : g[n] = f[n]
    BY <2>1
  <2>3. \A n \in 0..(m + 1) : TermLevel(f, n) = TermLevel(g, n)
    <3> TAKE n \in 0..(m + 1)
    <3> HIDE DEF g
    <3>1. n # 0 => n - 1 \in 0..m
      BY <1>2
    <3>2. n # 0 => f[n - 1] = g[n - 1]
      BY <2>2, <3>1, Zenon
    <3> QED BY <3>2, Zenon DEF TermLevel
  <2>4. g = [n \in 0..(m + 1) |-> TermLevel(g, n)]
    BY <2>3, Zenon
  <2>5. \E h : h = [n \in 0..(m + 1) |-> TermLevel(h, n)]
    BY <2>4, Zenon
  <2> QED BY <1>2, <2>5
<1>3. Nesting \in Up
  <2> HIDE DEF Up
  <2>1. \A n \in 0..Nesting : n \in Up
    BY <1>1, <1>2, Upwards, NestingAssumption
  <2> QED BY <2>1, NestingAssumption
<1> QED
  BY <1>3 DEF TermsOf, TermLevel

\* A level has the terms of the one before.
LEMMA TermLevels ==
  ASSUME NEW n \in 0..Nesting
  PROVE  /\ TermsOf[n] = TermLevel(TermsOf, n)
         /\ n > 0 => TermsOf[n - 1] \subseteq TermsOf[n]
<1>1. \A m \in 0..Nesting : TermsOf[m] = TermLevel(TermsOf, m)
  BY TermsOfExists, Zenon
<1> DEFINE S == {m \in Nat : m > 0 /\ m <= Nesting => TermsOf[m - 1] \subseteq TermsOf[m]}
<1>2. 0 \in S
  OBVIOUS
<1>3. ASSUME NEW m \in 0..Nesting, m < Nesting, m \in S PROVE m + 1 \in S
  <2>1. m + 1 \in 0..Nesting
    BY <1>3, NestingAssumption
  <2>2. CASE m = 0
    <3>1. TermsOf[0] \subseteq TermsOf[1]
      BY <1>1, <2>1, <2>2, SMT DEF TermLevel
    <3> QED BY <3>1, <2>2
  <2>3. CASE m # 0
    <3>1. TermsOf[m - 1] \subseteq TermsOf[m]
      BY <1>3, <2>3
    <3>2. TermsOf[m] = TermLevel(TermsOf, m) /\ TermsOf[m + 1] = TermLevel(TermsOf, m + 1)
      BY <1>1, <2>1
    <3>3. TermLevel(TermsOf, m) \subseteq TermLevel(TermsOf, m + 1)
      BY <3>1, <2>3, SMT DEF TermLevel
    <3> QED BY <3>2, <3>3
  <2> QED BY <2>2, <2>3
<1>4. \A m \in 0..Nesting : m \in S
  <2> HIDE DEF S
  <2> QED BY <1>2, <1>3, NestingAssumption, Upwards
<1> QED
  BY <1>1, <1>4

\* A constant, a column, or a sum of two that are a level deeper.
LEMMA TermCases ==
  ASSUME NEW n \in 0..Nesting, NEW x \in TermsOf[n]
  PROVE  \/ x.k = "const" /\ x.v \in Int /\ x = Const(x.v)
         \/ x.k = "column" /\ x.id \in Nat /\ x = Column(x.id)
         \/ /\ n > 0 /\ n - 1 \in 0..Nesting /\ x.k = "func"
            /\ x.args[1] \in TermsOf[n - 1] /\ x.args[2] \in TermsOf[n - 1]
            /\ x = Sum(x.args[1], x.args[2])
<1>1. x \in TermLevel(TermsOf, n)
  BY TermLevels
<1>2. CASE x \in [k : {"const"}, v : Int]
  BY <1>2 DEF Const
<1>3. CASE x \in [k : {"column"}, id : Nat]
  BY <1>3 DEF Column
<1>4. CASE n # 0 /\ x \in [k : {"func"}, args : TermsOf[n - 1] \X TermsOf[n - 1]]
  <2> DEFINE T == TermsOf[n - 1]
  <2>1. x.k = "func" /\ x.args \in T \X T /\ x = [k |-> "func", args |-> x.args]
    BY <1>4
  <2>2. x.args = <<x.args[1], x.args[2]>> /\ x.args[1] \in T /\ x.args[2] \in T
    BY <2>1
  <2>3. n > 0 /\ n - 1 \in 0..Nesting
    BY <1>4, NestingAssumption
  <2> QED BY <2>1, <2>2, <2>3 DEF Sum
<1> QED
  BY <1>1, <1>2, <1>3, <1>4 DEF TermLevel

\* A level has the terms of all before, and the last one all terms.
LEMMA TermsRise ==
  /\ \A n \in 0..Nesting : TermsOf[n] \subseteq Terms
  /\ \A m, n \in 0..Nesting : m <= n => TermsOf[m] \subseteq TermsOf[n]
<1>1. ASSUME NEW m \in 0..Nesting PROVE \A n \in 0..Nesting : m <= n => TermsOf[m] \subseteq TermsOf[n]
  <2> DEFINE Up == {n \in Nat : n <= Nesting /\ m <= n => TermsOf[m] \subseteq TermsOf[n]}
  <2>1. 0 \in Up
    OBVIOUS
  <2>2. ASSUME NEW n \in 0..Nesting, n < Nesting, n \in Up PROVE n + 1 \in Up
    <3>1. n + 1 \in 0..Nesting /\ (n + 1) - 1 = n /\ n + 1 > 0
      BY <2>2, NestingAssumption
    <3>2. TermsOf[n] \subseteq TermsOf[n + 1]
      BY <3>1, TermLevels
    <3> QED BY <2>2, <3>1, <3>2
  <2>3. \A n \in 0..Nesting : n \in Up
    <3> HIDE DEF Up
    <3> QED BY <2>1, <2>2, Upwards, NestingAssumption
  <2> QED BY <2>3
<1> QED
  BY <1>1, NestingAssumption DEF Terms

\* What holds of constants and columns, and of a sum if it holds of what is
\* added, holds of all terms.
LEMMA TermsInduction ==
  ASSUME NEW S,
         \A v \in Int : Const(v) \in S,
         \A id \in Nat : Column(id) \in S,
         \A x, y \in Terms : x \in S /\ y \in S /\ Sum(x, y) \in Terms => Sum(x, y) \in S
  PROVE  Terms \subseteq S
<1>0. \A n \in 0..Nesting : TermsOf[n] \subseteq Terms
  BY TermsRise
<1> DEFINE Up == {n \in Nat : n <= Nesting => TermsOf[n] \subseteq S}
<1>1. 0 \in Up
  <2>1. 0 \in 0..Nesting
    BY NestingAssumption
  <2>2. ASSUME NEW x \in TermsOf[0] PROVE x \in S
    <3>1. (x.v \in Int /\ x = Const(x.v)) \/ (x.id \in Nat /\ x = Column(x.id))
      BY <2>1, TermCases
    <3> QED BY <3>1
  <2> QED BY <2>2
<1>2. ASSUME NEW m \in 0..Nesting, m < Nesting, m \in Up PROVE m + 1 \in Up
  <2>1. m + 1 \in 0..Nesting /\ (m + 1) - 1 = m
    BY <1>2, NestingAssumption
  <2>2. ASSUME NEW x \in TermsOf[m + 1] PROVE x \in S
    <3>1. CASE x.k # "func"
      <4>1. (x.v \in Int /\ x = Const(x.v)) \/ (x.id \in Nat /\ x = Column(x.id))
        BY <2>1, <3>1, TermCases
      <4> QED BY <4>1
    <3>2. CASE x.k = "func"
      <4>1. x.args[1] \in TermsOf[m] /\ x.args[2] \in TermsOf[m] /\ x = Sum(x.args[1], x.args[2])
        BY <2>1, <3>2, TermCases
      <4>2. x.args[1] \in Terms \cap S /\ x.args[2] \in Terms \cap S /\ x \in Terms
        BY <1>0, <1>2, <2>1, <4>1
      <4> QED BY <4>1, <4>2
    <3> QED BY <3>1, <3>2
  <2> QED BY <1>2, <2>2
<1>3. Nesting \in Up
  <2> HIDE DEF Up
  <2> QED BY <1>1, <1>2, Upwards, NestingAssumption
<1> QED
  BY <1>3, NestingAssumption DEF Terms

ValueBody(f, x, row) ==
  IF x.k = "func" THEN Plus(f[x.args[1]], f[x.args[2]]) ELSE Leaf(x, row)
IsConstBody(f, x) ==
  x.k = "const" \/ (x.k = "func" /\ f[x.args[1]] /\ f[x.args[2]])
FoldedBody(f, x) ==
  IF Computable(x) THEN Const(ValueOf(x, <<>>))
  ELSE IF x.k = "func" THEN Sum(f[x.args[1]], f[x.args[2]]) ELSE x

\* The recursive functions exist, as each level of terms or conditions only needs
\* the one before, and so satisfy their equations.
LEMMA ValueExists ==
  ASSUME NEW row
  PROVE  \E f : f = [x \in Terms |-> ValueBody(f, x, row)]
<1> DEFINE Up == {m \in Nat : m <= Nesting => \E f : f = [x \in TermsOf[m] |-> ValueBody(f, x, row)]}
<1>1. 0 \in Up
  <2> DEFINE g == [x \in TermsOf[0] |-> ValueBody(<<>>, x, row)]
  <2>1. \A x \in TermsOf[0] : ValueBody(<<>>, x, row) = ValueBody(g, x, row)
    BY TermCases, NestingAssumption DEF ValueBody
  <2>2. g = [x \in TermsOf[0] |-> ValueBody(g, x, row)]
    BY <2>1, Zenon
  <2> QED BY <2>2
<1>2. ASSUME NEW m \in 0..Nesting, m < Nesting, m \in Up PROVE m + 1 \in Up
  <2>1. PICK f : f = [x \in TermsOf[m] |-> ValueBody(f, x, row)]
    BY <1>2
  <2>0. m + 1 \in 0..Nesting /\ (m + 1) - 1 = m /\ m + 1 > 0
    BY <1>2, NestingAssumption
  <2> DEFINE g == [x \in TermsOf[m + 1] |-> ValueBody(f, x, row)]
  <2>2. \A x \in TermsOf[m] : g[x] = f[x]
    <3>1. TermsOf[m] \subseteq TermsOf[m + 1]
      BY <2>0, TermLevels
    <3> QED BY <2>1, <3>1, Zenon
  <2>3. \A x \in TermsOf[m + 1] : ValueBody(f, x, row) = ValueBody(g, x, row)
    <3> TAKE x \in TermsOf[m + 1]
    <3> HIDE DEF g
    <3>1. x.k = "func" => x.args[1] \in TermsOf[m] /\ x.args[2] \in TermsOf[m]
      BY <2>0, TermCases
    <3>2. x.k = "func" => Plus(f[x.args[1]], f[x.args[2]]) = Plus(g[x.args[1]], g[x.args[2]])
      BY <2>2, <3>1
    <3> QED BY <3>2 DEF ValueBody
  <2>4. g = [x \in TermsOf[m + 1] |-> ValueBody(g, x, row)]
    BY <2>3, Zenon
  <2>5. \E h : h = [x \in TermsOf[m + 1] |-> ValueBody(h, x, row)]
    BY <2>4, Zenon
  <2> QED BY <1>2, <2>5
<1>3. Nesting \in Up
  <2> HIDE DEF Up
  <2> QED BY <1>1, <1>2, Upwards, NestingAssumption
<1> QED
  BY <1>3, NestingAssumption DEF Terms

\* The value of a term by those of the terms in it.
LEMMA ValueOfIs ==
  ASSUME NEW row, NEW x \in Terms
  PROVE  ValueOf(x, row) = IF x.k = "func" THEN Plus(ValueOf(x.args[1], row), ValueOf(x.args[2], row))
         ELSE Leaf(x, row)
<1> DEFINE value == CHOOSE f : f = [y \in Terms |-> ValueBody(f, y, row)]
<1>1. value = [y \in Terms |-> ValueBody(value, y, row)]
  BY ValueExists, Zenon
<1>2. \A y : ValueOf(y, row) = value[y]
  BY Zenon DEF ValueOf, ValueBody
<1>3. value[x] = ValueBody(value, x, row)
  <2> HIDE DEF value
  <2> QED BY <1>1, Zenon
<1> HIDE DEF value
<1> QED BY <1>2, <1>3 DEF ValueBody

\* The same of IsConst().
LEMMA IsConstExists ==
  \E f : f = [x \in Terms |-> IsConstBody(f, x)]
<1> DEFINE Up == {m \in Nat : m <= Nesting => \E f : f = [x \in TermsOf[m] |-> IsConstBody(f, x)]}
<1>1. 0 \in Up
  <2> DEFINE g == [x \in TermsOf[0] |-> IsConstBody(<<>>, x)]
  <2>1. \A x \in TermsOf[0] : IsConstBody(<<>>, x) = IsConstBody(g, x)
    BY TermCases, NestingAssumption DEF IsConstBody
  <2>2. g = [x \in TermsOf[0] |-> IsConstBody(g, x)]
    BY <2>1, Zenon
  <2> QED BY <2>2
<1>2. ASSUME NEW m \in 0..Nesting, m < Nesting, m \in Up PROVE m + 1 \in Up
  <2>1. PICK f : f = [x \in TermsOf[m] |-> IsConstBody(f, x)]
    BY <1>2
  <2>0. m + 1 \in 0..Nesting /\ (m + 1) - 1 = m /\ m + 1 > 0
    BY <1>2, NestingAssumption
  <2> DEFINE g == [x \in TermsOf[m + 1] |-> IsConstBody(f, x)]
  <2>2. \A x \in TermsOf[m] : g[x] = f[x]
    <3>1. TermsOf[m] \subseteq TermsOf[m + 1]
      BY <2>0, TermLevels
    <3> QED BY <2>1, <3>1, Zenon
  <2>3. \A x \in TermsOf[m + 1] : IsConstBody(f, x) = IsConstBody(g, x)
    <3> TAKE x \in TermsOf[m + 1]
    <3> HIDE DEF g
    <3>1. x.k = "func" => x.args[1] \in TermsOf[m] /\ x.args[2] \in TermsOf[m]
      BY <2>0, TermCases
    <3>2. x.k = "func" => <<f[x.args[1]], f[x.args[2]]>> = <<g[x.args[1]], g[x.args[2]]>>
      BY <2>2, <3>1
    <3> QED BY <3>2 DEF IsConstBody
  <2>4. g = [x \in TermsOf[m + 1] |-> IsConstBody(g, x)]
    BY <2>3, Zenon
  <2>5. \E h : h = [x \in TermsOf[m + 1] |-> IsConstBody(h, x)]
    BY <2>4, Zenon
  <2> QED BY <1>2, <2>5
<1>3. Nesting \in Up
  <2> HIDE DEF Up
  <2> QED BY <1>1, <1>2, Upwards, NestingAssumption
<1> QED
  BY <1>3, NestingAssumption DEF Terms

\* A term is constant if the terms in it are.
LEMMA IsConstIs ==
  ASSUME NEW x \in Terms
  PROVE  IsConst(x) = (x.k = "const" \/ (x.k = "func" /\ IsConst(x.args[1]) /\ IsConst(x.args[2])))
<1> DEFINE isConst == CHOOSE f : f = [y \in Terms |-> IsConstBody(f, y)]
<1>1. isConst = [y \in Terms |-> IsConstBody(isConst, y)]
  BY IsConstExists, Zenon
<1>2. \A y : IsConst(y) = isConst[y]
  BY Zenon DEF IsConst, IsConstBody
<1>3. isConst[x] = IsConstBody(isConst, x)
  <2> HIDE DEF isConst
  <2> QED BY <1>1, Zenon
<1> HIDE DEF isConst
<1> QED BY <1>2, <1>3 DEF IsConstBody

\* The same of optimizeConstants() on terms.
LEMMA FoldedExists ==
  \E f : f = [x \in Terms |-> FoldedBody(f, x)]
<1> DEFINE Up == {m \in Nat : m <= Nesting => \E f : f = [x \in TermsOf[m] |-> FoldedBody(f, x)]}
<1>1. 0 \in Up
  <2> DEFINE g == [x \in TermsOf[0] |-> FoldedBody(<<>>, x)]
  <2>1. \A x \in TermsOf[0] : FoldedBody(<<>>, x) = FoldedBody(g, x)
    BY TermCases, NestingAssumption DEF FoldedBody
  <2>2. g = [x \in TermsOf[0] |-> FoldedBody(g, x)]
    BY <2>1, Zenon
  <2> QED BY <2>2
<1>2. ASSUME NEW m \in 0..Nesting, m < Nesting, m \in Up PROVE m + 1 \in Up
  <2>1. PICK f : f = [x \in TermsOf[m] |-> FoldedBody(f, x)]
    BY <1>2
  <2>0. m + 1 \in 0..Nesting /\ (m + 1) - 1 = m /\ m + 1 > 0
    BY <1>2, NestingAssumption
  <2> DEFINE g == [x \in TermsOf[m + 1] |-> FoldedBody(f, x)]
  <2>2. \A x \in TermsOf[m] : g[x] = f[x]
    <3>1. TermsOf[m] \subseteq TermsOf[m + 1]
      BY <2>0, TermLevels
    <3> QED BY <2>1, <3>1, Zenon
  <2>3. \A x \in TermsOf[m + 1] : FoldedBody(f, x) = FoldedBody(g, x)
    <3> TAKE x \in TermsOf[m + 1]
    <3> HIDE DEF g
    <3>1. x.k = "func" => x.args[1] \in TermsOf[m] /\ x.args[2] \in TermsOf[m]
      BY <2>0, TermCases
    <3>2. x.k = "func" => Sum(f[x.args[1]], f[x.args[2]]) = Sum(g[x.args[1]], g[x.args[2]])
      BY <2>2, <3>1
    <3> QED BY <3>2 DEF FoldedBody
  <2>4. g = [x \in TermsOf[m + 1] |-> FoldedBody(g, x)]
    BY <2>3, Zenon
  <2>5. \E h : h = [x \in TermsOf[m + 1] |-> FoldedBody(h, x)]
    BY <2>4, Zenon
  <2> QED BY <1>2, <2>5
<1>3. Nesting \in Up
  <2> HIDE DEF Up
  <2> QED BY <1>1, <1>2, Upwards, NestingAssumption
<1> QED
  BY <1>3, NestingAssumption DEF Terms

\* What a folded term is by the folded terms in it.
LEMMA FoldedIs ==
  ASSUME NEW x \in Terms
  PROVE  Folded(x) = IF Computable(x) THEN Const(ValueOf(x, <<>>))
         ELSE IF x.k = "func" THEN Sum(Folded(x.args[1]), Folded(x.args[2])) ELSE x
<1> DEFINE folded == CHOOSE f : f = [y \in Terms |-> FoldedBody(f, y)]
<1>1. folded = [y \in Terms |-> FoldedBody(folded, y)]
  BY FoldedExists, Zenon
<1>2. \A y : Folded(y) = folded[y]
  BY Zenon DEF Folded, FoldedBody
<1>3. folded[x] = FoldedBody(folded, x)
  <2> HIDE DEF folded
  <2> QED BY <1>1, Zenon
<1> HIDE DEF folded
<1> QED BY <1>2, <1>3 DEF FoldedBody

CondLevel(f, n) ==
  [k : {"cmp"}, left : Terms, cmp : Orders, right : Terms]
    \cup (IF n = 0 THEN {} ELSE [k : {"and", "or"}, children : Seq(f[n - 1])])

\* The levels of the conditions satisfy their equation.
LEMMA ConditionsOfExists == ConditionsOf = [n \in 0..Nesting |-> CondLevel(ConditionsOf, n)]
<1> DEFINE Up == {m \in Nat : \E f : f = [n \in 0..m |-> CondLevel(f, n)]}
<1>1. 0 \in Up
  <2> DEFINE g == [n \in 0..0 |-> CondLevel(<<>>, n)]
  <2>1. g = [n \in 0..0 |-> CondLevel(g, n)]
    BY DEF CondLevel
  <2> QED BY <2>1
<1>2. ASSUME NEW m \in Nat, m \in Up PROVE m + 1 \in Up
  <2>1. PICK f : f = [n \in 0..m |-> CondLevel(f, n)]
    BY <1>2
  <2> DEFINE g == [n \in 0..(m + 1) |-> CondLevel(f, n)]
  <2>2. \A n \in 0..m : g[n] = f[n]
    BY <2>1
  <2>3. \A n \in 0..(m + 1) : CondLevel(f, n) = CondLevel(g, n)
    <3> TAKE n \in 0..(m + 1)
    <3> HIDE DEF g
    <3>1. n # 0 => n - 1 \in 0..m
      BY <1>2
    <3>2. n # 0 => f[n - 1] = g[n - 1]
      BY <2>2, <3>1, Zenon
    <3> QED BY <3>2, Zenon DEF CondLevel
  <2>4. g = [n \in 0..(m + 1) |-> CondLevel(g, n)]
    BY <2>3, Zenon
  <2>5. \E h : h = [n \in 0..(m + 1) |-> CondLevel(h, n)]
    BY <2>4, Zenon
  <2> QED BY <1>2, <2>5
<1>3. Nesting \in Up
  <2> HIDE DEF Up
  <2>1. \A n \in 0..Nesting : n \in Up
    BY <1>1, <1>2, Upwards, NestingAssumption
  <2> QED BY <2>1, NestingAssumption
<1> QED
  BY <1>3 DEF ConditionsOf, CondLevel

\* A level has the conditions of the one before.
LEMMA ConditionLevels ==
  ASSUME NEW n \in 0..Nesting
  PROVE  /\ ConditionsOf[n] = CondLevel(ConditionsOf, n)
         /\ n > 0 => ConditionsOf[n - 1] \subseteq ConditionsOf[n]
<1>1. \A m \in 0..Nesting : ConditionsOf[m] = CondLevel(ConditionsOf, m)
  BY ConditionsOfExists, Zenon
<1> DEFINE S == {m \in Nat : m > 0 /\ m <= Nesting => ConditionsOf[m - 1] \subseteq ConditionsOf[m]}
<1>2. 0 \in S
  OBVIOUS
<1>3. ASSUME NEW m \in 0..Nesting, m < Nesting, m \in S PROVE m + 1 \in S
  <2>1. m + 1 \in 0..Nesting /\ (m + 1) - 1 = m /\ m + 1 # 0
    BY <1>3, NestingAssumption
  <2>2. CASE m = 0
    <3>1. CondLevel(ConditionsOf, 0) \subseteq CondLevel(ConditionsOf, 1)
      BY DEF CondLevel
    <3> QED BY <3>1, <1>1, <2>1, <2>2
  <2>3. CASE m # 0
    <3>1. ConditionsOf[m - 1] \subseteq ConditionsOf[m]
      BY <1>3, <2>3
    <3>2. Seq(ConditionsOf[m - 1]) \subseteq Seq(ConditionsOf[m])
      BY <3>1
    <3>3. CondLevel(ConditionsOf, m) \subseteq CondLevel(ConditionsOf, m + 1)
      <4>1. [k : {"and", "or"}, children : Seq(ConditionsOf[m - 1])]
              \subseteq [k : {"and", "or"}, children : Seq(ConditionsOf[m])]
        BY <3>2, Zenon
      <4> QED BY <4>1, <2>1, <2>3 DEF CondLevel
    <3> QED BY <3>3, <1>1, <2>1
  <2> QED BY <2>2, <2>3
<1>4. \A m \in 0..Nesting : m \in S
  <2> HIDE DEF S
  <2> QED BY <1>2, <1>3, NestingAssumption, Upwards
<1> QED
  BY <1>1, <1>4

\* A comparison, or an AND or an OR of conditions a level deeper.
LEMMA ConditionCases ==
  ASSUME NEW n \in 0..Nesting, NEW x \in ConditionsOf[n]
  PROVE  \/ /\ x.k = "cmp" /\ x.left \in Terms /\ x.cmp \in Orders /\ x.right \in Terms
            /\ x = Compare(x.left, x.cmp, x.right)
         \/ /\ x.k \in {"and", "or"} /\ n > 0 /\ n - 1 \in 0..Nesting
            /\ x.children \in Seq(ConditionsOf[n - 1])
            /\ x = Node(x.k, x.children)
<1>1. x \in CondLevel(ConditionsOf, n)
  BY ConditionLevels
<1>2. CASE x \in [k : {"cmp"}, left : Terms, cmp : Orders, right : Terms]
  BY <1>2 DEF Compare
<1>3. CASE n # 0 /\ x \in [k : {"and", "or"}, children : Seq(ConditionsOf[n - 1])]
  <2>1. n > 0 /\ n - 1 \in 0..Nesting
    BY <1>3, NestingAssumption
  <2> QED BY <1>3, <2>1 DEF Node
<1> QED
  BY <1>1, <1>2, <1>3 DEF CondLevel

\* Built from conditions a level deeper, or from terms.
LEMMA ConditionBuilt ==
  ASSUME NEW n \in 0..Nesting
  PROVE  /\ \A l, r \in Terms : \A o \in Orders : Compare(l, o, r) \in ConditionsOf[n]
         /\ \A kind \in {"and", "or"} : \A cs : n > 0 /\ cs \in Seq(ConditionsOf[n - 1]) =>
              Node(kind, cs) \in ConditionsOf[n]
<1>1. ConditionsOf[n] = CondLevel(ConditionsOf, n)
  BY ConditionLevels
<1>2. ASSUME NEW l \in Terms, NEW r \in Terms, NEW o \in Orders
      PROVE  Compare(l, o, r) \in CondLevel(ConditionsOf, n)
  BY DEF Compare, CondLevel
<1>3. ASSUME NEW kind \in {"and", "or"}, NEW cs, n > 0, cs \in Seq(ConditionsOf[n - 1])
      PROVE  Node(kind, cs) \in CondLevel(ConditionsOf, n)
  <2>1. Node(kind, cs) \in [k : {"and", "or"}, children : Seq(ConditionsOf[n - 1])]
    BY <1>3 DEF Node
  <2>2. n # 0
    BY <1>3
  <2> QED BY <2>1, <2>2, Zenon DEF CondLevel
<1> QED BY <1>1, <1>2, <1>3

\* A level has the conditions of all before, and the last one all conditions.
LEMMA ConditionsRise ==
  /\ \A n \in 0..Nesting : ConditionsOf[n] \subseteq Conditions
  /\ \A m, n \in 0..Nesting : m <= n => ConditionsOf[m] \subseteq ConditionsOf[n]
<1>1. ASSUME NEW m \in 0..Nesting
      PROVE \A n \in 0..Nesting : m <= n => ConditionsOf[m] \subseteq ConditionsOf[n]
  <2> DEFINE Up == {n \in Nat : n <= Nesting /\ m <= n => ConditionsOf[m] \subseteq ConditionsOf[n]}
  <2>1. 0 \in Up
    OBVIOUS
  <2>2. ASSUME NEW n \in 0..Nesting, n < Nesting, n \in Up PROVE n + 1 \in Up
    <3>1. n + 1 \in 0..Nesting /\ (n + 1) - 1 = n /\ n + 1 > 0
      BY <2>2, NestingAssumption
    <3>2. ConditionsOf[n] \subseteq ConditionsOf[n + 1]
      BY <3>1, ConditionLevels
    <3> QED BY <2>2, <3>1, <3>2
  <2>3. \A n \in 0..Nesting : n \in Up
    <3> HIDE DEF Up
    <3> QED BY <2>1, <2>2, Upwards, NestingAssumption
  <2> QED BY <2>3
<1> QED
  BY <1>1, NestingAssumption DEF Conditions

\* A condition compares terms or joins conditions.
LEMMA ConditionKinds ==
  ASSUME NEW x \in Conditions
  PROVE  \/ /\ x.k = "cmp" /\ x.left \in Terms /\ x.cmp \in Orders /\ x.right \in Terms
            /\ x = Compare(x.left, x.cmp, x.right)
         \/ x.k \in {"and", "or"} /\ x.children \in Seq(Conditions) /\ x = Node(x.k, x.children)
<1>1. Nesting \in 0..Nesting /\ x \in ConditionsOf[Nesting]
  BY NestingAssumption DEF Conditions
<1>2. CASE x.k = "cmp"
  BY <1>1, <1>2, ConditionCases, Zenon
<1>3. CASE x.k # "cmp"
  <2>1. x.k \in {"and", "or"} /\ Nesting - 1 \in 0..Nesting
        /\ x.children \in Seq(ConditionsOf[Nesting - 1]) /\ x = Node(x.k, x.children)
    BY <1>1, <1>3, ConditionCases, Zenon
  <2>2. ConditionsOf[Nesting - 1] \subseteq Conditions
    BY <2>1, ConditionsRise
  <2> QED BY <2>1, <2>2
<1> QED BY <1>2, <1>3

\* What holds of comparisons, and of nodes of which it holds of the children, at
\* every level they are at, holds of all conditions.
LEMMA ConditionsInduction ==
  ASSUME NEW S,
         \A l, r \in Terms : \A o \in Orders : Compare(l, o, r) \in S,
         \A kind \in {"and", "or"} : \A cs \in Seq(Conditions) :
           Node(kind, cs) \in Conditions /\ (\A i \in DOMAIN cs : cs[i] \in S) => Node(kind, cs) \in S
  PROVE  Conditions \subseteq S
<1> DEFINE Up == {n \in Nat : n <= Nesting => ConditionsOf[n] \subseteq S}
<1>1. 0 \in Up
  <2>1. 0 \in 0..Nesting
    BY NestingAssumption
  <2>2. ASSUME NEW x \in ConditionsOf[0] PROVE x \in S
    <3>1. x.left \in Terms /\ x.cmp \in Orders /\ x.right \in Terms
          /\ x = Compare(x.left, x.cmp, x.right)
      BY <2>1, ConditionCases
    <3> QED BY <3>1
  <2> QED BY <2>2
<1>2. ASSUME NEW m \in 0..Nesting, m < Nesting, m \in Up PROVE m + 1 \in Up
  <2>1. m + 1 \in 0..Nesting /\ (m + 1) - 1 = m
    BY <1>2, NestingAssumption
  <2>2. ASSUME NEW x \in ConditionsOf[m + 1] PROVE x \in S
    <3>1. CASE x.k = "cmp"
      <4>1. x.left \in Terms /\ x.cmp \in Orders /\ x.right \in Terms
            /\ x = Compare(x.left, x.cmp, x.right)
        BY <2>1, <3>1, ConditionCases
      <4> QED BY <4>1
    <3>2. CASE x.k # "cmp"
      <4>1. x.k \in {"and", "or"} /\ x.children \in Seq(ConditionsOf[m]) /\ x = Node(x.k, x.children)
        BY <2>1, <3>2, ConditionCases
      <4>2. ConditionsOf[m] \subseteq Conditions /\ ConditionsOf[m] \subseteq S /\ x \in Conditions
        BY <1>2, <2>1, ConditionsRise
      <4>3. x.children \in Seq(Conditions) /\ \A i \in DOMAIN x.children : x.children[i] \in S
        BY <4>1, <4>2
      <4>4. Node(x.k, x.children) \in S
        BY <4>1, <4>2, <4>3
      <4> QED BY <4>1, <4>4
    <3> QED BY <3>1, <3>2
  <2> QED BY <1>2, <2>2
<1>3. Nesting \in Up
  <2> HIDE DEF Up
  <2>1. \A n \in 0..Nesting : n \in Up
    BY <1>1, <1>2, Upwards, NestingAssumption
  <2> QED BY <2>1, NestingAssumption
<1> QED
  BY <1>3, NestingAssumption DEF Conditions

HoldsBody(f, x, row) ==
  \/ x.k = "cmp" /\ Compares(x, row)
  \/ x.k = "and" /\ \A i \in DOMAIN x.children : f[x.children[i]]
  \/ x.k = "or" /\ \E i \in DOMAIN x.children : f[x.children[i]]
WithBody(f, x) ==
  IF x.k = "cmp" THEN Compare(Folded(x.left), x.cmp, Folded(x.right))
  ELSE Node(x.k, [i \in DOMAIN x.children |-> f[x.children[i]]])
FlatBody(f, x) ==
  IF x.k = "cmp" THEN x
  ELSE TakenApart(Node(x.k, [i \in DOMAIN x.children |-> f[x.children[i]]]))
OrBody(f, x) ==
  x.k # "cmp" /\ \E i \in DOMAIN x.children :
                   f[x.children[i]] \/ (x.k = "or" /\ x.children[i].k = "or")
PlanBody(f, x, t) ==
  LET plans == [i \in DOMAIN x.children |-> f[x.children[i]]] IN
  IF x.k = "cmp" THEN visitCompareConditionQNode(t, x)
  ELSE IF x.k = "and" THEN visitAndConditionQNode(t, x.children, plans)
  ELSE visitOrConditionQNode(plans)

\* The recursive functions over conditions exist as well.
LEMMA HoldsExists ==
  ASSUME NEW row
  PROVE  \E f : f = [x \in Conditions |-> HoldsBody(f, x, row)]
<1> DEFINE Up == {m \in Nat : m <= Nesting => \E f : f = [x \in ConditionsOf[m] |-> HoldsBody(f, x, row)]}
<1>1. 0 \in Up
  <2> DEFINE g == [x \in ConditionsOf[0] |-> HoldsBody(<<>>, x, row)]
  <2>1. \A x \in ConditionsOf[0] : HoldsBody(<<>>, x, row) = HoldsBody(g, x, row)
    BY ConditionCases, NestingAssumption DEF HoldsBody
  <2>2. g = [x \in ConditionsOf[0] |-> HoldsBody(g, x, row)]
    BY <2>1, Zenon
  <2> QED BY <2>2
<1>2. ASSUME NEW m \in 0..Nesting, m < Nesting, m \in Up PROVE m + 1 \in Up
  <2>1. PICK f : f = [x \in ConditionsOf[m] |-> HoldsBody(f, x, row)]
    BY <1>2
  <2>0. m + 1 \in 0..Nesting /\ (m + 1) - 1 = m /\ m + 1 > 0
    BY <1>2, NestingAssumption
  <2> DEFINE g == [x \in ConditionsOf[m + 1] |-> HoldsBody(f, x, row)]
  <2>2. \A x \in ConditionsOf[m] : g[x] = f[x]
    <3>1. ConditionsOf[m] \subseteq ConditionsOf[m + 1]
      BY <2>0, ConditionLevels
    <3> QED BY <2>1, <3>1, Zenon
  <2>3. \A x \in ConditionsOf[m + 1] : HoldsBody(f, x, row) = HoldsBody(g, x, row)
    <3> TAKE x \in ConditionsOf[m + 1]
    <3> HIDE DEF g
    <3>1. x.k # "cmp" => x.children \in Seq(ConditionsOf[m])
      BY <2>0, ConditionCases
    <3>2. x.k # "cmp" => \A i \in DOMAIN x.children : f[x.children[i]] = g[x.children[i]]
      BY <2>2, <3>1
    <3>3. CASE x.k = "cmp"
      BY <3>3 DEF HoldsBody
    <3>4. CASE x.k # "cmp"
      BY <3>2, <3>4 DEF HoldsBody
    <3> QED BY <3>3, <3>4
  <2>4. g = [x \in ConditionsOf[m + 1] |-> HoldsBody(g, x, row)]
    BY <2>3, Zenon
  <2>5. \E h : h = [x \in ConditionsOf[m + 1] |-> HoldsBody(h, x, row)]
    BY <2>4, Zenon
  <2> QED BY <1>2, <2>5
<1>3. Nesting \in Up
  <2> HIDE DEF Up
  <2> QED BY <1>1, <1>2, Upwards, NestingAssumption
<1> QED
  BY <1>3, NestingAssumption DEF Conditions

\* Whether a condition holds by whether those in it do.
LEMMA HoldsIs ==
  ASSUME NEW row, NEW x \in Conditions
  PROVE  Holds(x, row) = (
         \/ x.k = "cmp" /\ Compares(x, row)
         \/ x.k = "and" /\ \A i \in DOMAIN x.children : Holds(x.children[i], row)
         \/ x.k = "or" /\ \E i \in DOMAIN x.children : Holds(x.children[i], row))
<1> DEFINE holds == CHOOSE f : f = [y \in Conditions |-> HoldsBody(f, y, row)]
<1>1. holds = [y \in Conditions |-> HoldsBody(holds, y, row)]
  BY HoldsExists, Zenon
<1>2. \A y : Holds(y, row) = holds[y]
  BY Zenon DEF Holds, HoldsBody
<1>3. holds[x] = HoldsBody(holds, x, row)
  <2> HIDE DEF holds
  <2> QED BY <1>1, Zenon
<1> HIDE DEF holds
<1>4. \A i \in DOMAIN x.children : Holds(x.children[i], row) = holds[x.children[i]]
  BY <1>2, Zenon
<1>5. HoldsBody(holds, x, row) =
        ( \/ x.k = "cmp" /\ Compares(x, row)
          \/ x.k = "and" /\ \A i \in DOMAIN x.children : Holds(x.children[i], row)
          \/ x.k = "or" /\ \E i \in DOMAIN x.children : Holds(x.children[i], row))
  BY <1>4 DEF HoldsBody
<1> QED BY <1>2, <1>3, <1>5, Zenon

\* The same of optimizeConstants() on conditions.
LEMMA WithExists ==
  \E f : f = [x \in Conditions |-> WithBody(f, x)]
<1> DEFINE Up == {m \in Nat : m <= Nesting => \E f : f = [x \in ConditionsOf[m] |-> WithBody(f, x)]}
<1>1. 0 \in Up
  <2> DEFINE g == [x \in ConditionsOf[0] |-> WithBody(<<>>, x)]
  <2>1. \A x \in ConditionsOf[0] : WithBody(<<>>, x) = WithBody(g, x)
    BY ConditionCases, NestingAssumption DEF WithBody
  <2>2. g = [x \in ConditionsOf[0] |-> WithBody(g, x)]
    BY <2>1, Zenon
  <2> QED BY <2>2
<1>2. ASSUME NEW m \in 0..Nesting, m < Nesting, m \in Up PROVE m + 1 \in Up
  <2>1. PICK f : f = [x \in ConditionsOf[m] |-> WithBody(f, x)]
    BY <1>2
  <2>0. m + 1 \in 0..Nesting /\ (m + 1) - 1 = m /\ m + 1 > 0
    BY <1>2, NestingAssumption
  <2> DEFINE g == [x \in ConditionsOf[m + 1] |-> WithBody(f, x)]
  <2>2. \A x \in ConditionsOf[m] : g[x] = f[x]
    <3>1. ConditionsOf[m] \subseteq ConditionsOf[m + 1]
      BY <2>0, ConditionLevels
    <3> QED BY <2>1, <3>1, Zenon
  <2>3. \A x \in ConditionsOf[m + 1] : WithBody(f, x) = WithBody(g, x)
    <3> TAKE x \in ConditionsOf[m + 1]
    <3> HIDE DEF g
    <3>1. x.k # "cmp" => x.children \in Seq(ConditionsOf[m])
      BY <2>0, ConditionCases
    <3>2. x.k # "cmp" => \A i \in DOMAIN x.children : f[x.children[i]] = g[x.children[i]]
      BY <2>2, <3>1
    <3>3. x.k # "cmp" => [i \in DOMAIN x.children |-> f[x.children[i]]]
                         = [i \in DOMAIN x.children |-> g[x.children[i]]]
      BY <3>2, Zenon
    <3> QED BY <3>3, Zenon DEF WithBody
  <2>4. g = [x \in ConditionsOf[m + 1] |-> WithBody(g, x)]
    BY <2>3, Zenon
  <2>5. \E h : h = [x \in ConditionsOf[m + 1] |-> WithBody(h, x)]
    BY <2>4, Zenon
  <2> QED BY <1>2, <2>5
<1>3. Nesting \in Up
  <2> HIDE DEF Up
  <2> QED BY <1>1, <1>2, Upwards, NestingAssumption
<1> QED
  BY <1>3, NestingAssumption DEF Conditions

\* A condition with its constants folded.
LEMMA WithConstantsIs ==
  ASSUME NEW x \in Conditions
  PROVE  WithConstants(x) = IF x.k = "cmp" THEN Compare(Folded(x.left), x.cmp, Folded(x.right))
         ELSE Node(x.k, [i \in DOMAIN x.children |-> WithConstants(x.children[i])])
<1> DEFINE with == CHOOSE f : f = [y \in Conditions |-> WithBody(f, y)]
<1>1. with = [y \in Conditions |-> WithBody(with, y)]
  BY WithExists, Zenon
<1>2. \A y : WithConstants(y) = with[y]
  BY Zenon DEF WithConstants, WithBody
<1>3. with[x] = WithBody(with, x)
  <2> HIDE DEF with
  <2> QED BY <1>1, Zenon
<1> HIDE DEF with
<1> QED BY <1>2, <1>3 DEF WithBody

\* The same of optimizeConditions().
LEMMA FlatExists ==
  \E f : f = [x \in Conditions |-> FlatBody(f, x)]
<1> DEFINE Up == {m \in Nat : m <= Nesting => \E f : f = [x \in ConditionsOf[m] |-> FlatBody(f, x)]}
<1>1. 0 \in Up
  <2> DEFINE g == [x \in ConditionsOf[0] |-> FlatBody(<<>>, x)]
  <2>1. \A x \in ConditionsOf[0] : FlatBody(<<>>, x) = FlatBody(g, x)
    BY ConditionCases, NestingAssumption DEF FlatBody
  <2>2. g = [x \in ConditionsOf[0] |-> FlatBody(g, x)]
    BY <2>1, Zenon
  <2> QED BY <2>2
<1>2. ASSUME NEW m \in 0..Nesting, m < Nesting, m \in Up PROVE m + 1 \in Up
  <2>1. PICK f : f = [x \in ConditionsOf[m] |-> FlatBody(f, x)]
    BY <1>2
  <2>0. m + 1 \in 0..Nesting /\ (m + 1) - 1 = m /\ m + 1 > 0
    BY <1>2, NestingAssumption
  <2> DEFINE g == [x \in ConditionsOf[m + 1] |-> FlatBody(f, x)]
  <2>2. \A x \in ConditionsOf[m] : g[x] = f[x]
    <3>1. ConditionsOf[m] \subseteq ConditionsOf[m + 1]
      BY <2>0, ConditionLevels
    <3> QED BY <2>1, <3>1, Zenon
  <2>3. \A x \in ConditionsOf[m + 1] : FlatBody(f, x) = FlatBody(g, x)
    <3> TAKE x \in ConditionsOf[m + 1]
    <3> HIDE DEF g
    <3>1. x.k # "cmp" => x.children \in Seq(ConditionsOf[m])
      BY <2>0, ConditionCases
    <3>2. x.k # "cmp" => \A i \in DOMAIN x.children : f[x.children[i]] = g[x.children[i]]
      BY <2>2, <3>1
    <3>3. x.k # "cmp" => [i \in DOMAIN x.children |-> f[x.children[i]]]
                         = [i \in DOMAIN x.children |-> g[x.children[i]]]
      BY <3>2, Zenon
    <3> QED BY <3>3, Zenon DEF FlatBody
  <2>4. g = [x \in ConditionsOf[m + 1] |-> FlatBody(g, x)]
    BY <2>3, Zenon
  <2>5. \E h : h = [x \in ConditionsOf[m + 1] |-> FlatBody(h, x)]
    BY <2>4, Zenon
  <2> QED BY <1>2, <2>5
<1>3. Nesting \in Up
  <2> HIDE DEF Up
  <2> QED BY <1>1, <1>2, Upwards, NestingAssumption
<1> QED
  BY <1>3, NestingAssumption DEF Conditions

\* A flattened condition by the flattened ones in it.
LEMMA FlattenedIs ==
  ASSUME NEW x \in Conditions
  PROVE  Flattened(x) = IF x.k = "cmp" THEN x
         ELSE TakenApart(Node(x.k, [i \in DOMAIN x.children |-> Flattened(x.children[i])]))
<1> DEFINE flat == CHOOSE f : f = [y \in Conditions |-> FlatBody(f, y)]
<1>1. flat = [y \in Conditions |-> FlatBody(flat, y)]
  BY FlatExists, Zenon
<1>2. \A y : Flattened(y) = flat[y]
  BY Zenon DEF Flattened, FlatBody
<1>3. flat[x] = FlatBody(flat, x)
  <2> HIDE DEF flat
  <2> QED BY <1>1, Zenon
<1> HIDE DEF flat
<1> QED BY <1>2, <1>3 DEF FlatBody

\* The same of OrInOr.
LEMMA OrExists ==
  \E f : f = [x \in Conditions |-> OrBody(f, x)]
<1> DEFINE Up == {m \in Nat : m <= Nesting => \E f : f = [x \in ConditionsOf[m] |-> OrBody(f, x)]}
<1>1. 0 \in Up
  <2> DEFINE g == [x \in ConditionsOf[0] |-> OrBody(<<>>, x)]
  <2>1. \A x \in ConditionsOf[0] : OrBody(<<>>, x) = OrBody(g, x)
    BY ConditionCases, NestingAssumption DEF OrBody
  <2>2. g = [x \in ConditionsOf[0] |-> OrBody(g, x)]
    BY <2>1, Zenon
  <2> QED BY <2>2
<1>2. ASSUME NEW m \in 0..Nesting, m < Nesting, m \in Up PROVE m + 1 \in Up
  <2>1. PICK f : f = [x \in ConditionsOf[m] |-> OrBody(f, x)]
    BY <1>2
  <2>0. m + 1 \in 0..Nesting /\ (m + 1) - 1 = m /\ m + 1 > 0
    BY <1>2, NestingAssumption
  <2> DEFINE g == [x \in ConditionsOf[m + 1] |-> OrBody(f, x)]
  <2>2. \A x \in ConditionsOf[m] : g[x] = f[x]
    <3>1. ConditionsOf[m] \subseteq ConditionsOf[m + 1]
      BY <2>0, ConditionLevels
    <3> QED BY <2>1, <3>1, Zenon
  <2>3. \A x \in ConditionsOf[m + 1] : OrBody(f, x) = OrBody(g, x)
    <3> TAKE x \in ConditionsOf[m + 1]
    <3> HIDE DEF g
    <3>1. x.k # "cmp" => x.children \in Seq(ConditionsOf[m])
      BY <2>0, ConditionCases
    <3>2. x.k # "cmp" => \A i \in DOMAIN x.children : f[x.children[i]] = g[x.children[i]]
      BY <2>2, <3>1
    <3> QED BY <3>2, Zenon DEF OrBody
  <2>4. g = [x \in ConditionsOf[m + 1] |-> OrBody(g, x)]
    BY <2>3, Zenon
  <2>5. \E h : h = [x \in ConditionsOf[m + 1] |-> OrBody(h, x)]
    BY <2>4, Zenon
  <2> QED BY <1>2, <2>5
<1>3. Nesting \in Up
  <2> HIDE DEF Up
  <2> QED BY <1>1, <1>2, Upwards, NestingAssumption
<1> QED
  BY <1>3, NestingAssumption DEF Conditions

\* An OR in an OR is at the top or in a child.
LEMMA OrInOrIs ==
  ASSUME NEW x \in Conditions
  PROVE  OrInOr(x) = (x.k # "cmp" /\ \E i \in DOMAIN x.children :
             OrInOr(x.children[i]) \/ (x.k = "or" /\ x.children[i].k = "or"))
<1> DEFINE has == CHOOSE f : f = [y \in Conditions |-> OrBody(f, y)]
<1>1. has = [y \in Conditions |-> OrBody(has, y)]
  BY OrExists, Zenon
<1>2. \A y : OrInOr(y) = has[y]
  BY Zenon DEF OrInOr, OrBody
<1>3. has[x] = OrBody(has, x)
  <2> HIDE DEF has
  <2> QED BY <1>1, Zenon
<1> HIDE DEF has
<1> QED BY <1>2, <1>3 DEF OrBody

\* The same of PlanFor.
LEMMA PlanExists ==
  ASSUME NEW t
  PROVE  \E f : f = [x \in Conditions |-> PlanBody(f, x, t)]
<1> DEFINE Up == {m \in Nat : m <= Nesting => \E f : f = [x \in ConditionsOf[m] |-> PlanBody(f, x, t)]}
<1>1. 0 \in Up
  <2> DEFINE g == [x \in ConditionsOf[0] |-> PlanBody(<<>>, x, t)]
  <2>1. \A x \in ConditionsOf[0] : PlanBody(<<>>, x, t) = PlanBody(g, x, t)
    BY ConditionCases, NestingAssumption DEF PlanBody
  <2>2. g = [x \in ConditionsOf[0] |-> PlanBody(g, x, t)]
    BY <2>1, Zenon
  <2> QED BY <2>2
<1>2. ASSUME NEW m \in 0..Nesting, m < Nesting, m \in Up PROVE m + 1 \in Up
  <2>1. PICK f : f = [x \in ConditionsOf[m] |-> PlanBody(f, x, t)]
    BY <1>2
  <2>0. m + 1 \in 0..Nesting /\ (m + 1) - 1 = m /\ m + 1 > 0
    BY <1>2, NestingAssumption
  <2> DEFINE g == [x \in ConditionsOf[m + 1] |-> PlanBody(f, x, t)]
  <2>2. \A x \in ConditionsOf[m] : g[x] = f[x]
    <3>1. ConditionsOf[m] \subseteq ConditionsOf[m + 1]
      BY <2>0, ConditionLevels
    <3> QED BY <2>1, <3>1, Zenon
  <2>3. \A x \in ConditionsOf[m + 1] : PlanBody(f, x, t) = PlanBody(g, x, t)
    <3> TAKE x \in ConditionsOf[m + 1]
    <3> HIDE DEF g
    <3>1. x.k # "cmp" => x.children \in Seq(ConditionsOf[m])
      BY <2>0, ConditionCases
    <3>2. x.k # "cmp" => \A i \in DOMAIN x.children : f[x.children[i]] = g[x.children[i]]
      BY <2>2, <3>1
    <3>3. x.k # "cmp" => [i \in DOMAIN x.children |-> f[x.children[i]]]
                         = [i \in DOMAIN x.children |-> g[x.children[i]]]
      BY <3>2, Zenon
    <3> QED BY <3>3, Zenon DEF PlanBody
  <2>4. g = [x \in ConditionsOf[m + 1] |-> PlanBody(g, x, t)]
    BY <2>3, Zenon
  <2>5. \E h : h = [x \in ConditionsOf[m + 1] |-> PlanBody(h, x, t)]
    BY <2>4, Zenon
  <2> QED BY <1>2, <2>5
<1>3. Nesting \in Up
  <2> HIDE DEF Up
  <2> QED BY <1>1, <1>2, Upwards, NestingAssumption
<1> QED
  BY <1>3, NestingAssumption DEF Conditions

\* The plan for a condition by those for the conditions in it.
LEMMA PlanForIs ==
  ASSUME NEW t, NEW x \in Conditions
  PROVE  PlanFor(t, x) = LET plans == [i \in DOMAIN x.children |-> PlanFor(t, x.children[i])] IN
         IF x.k = "cmp" THEN visitCompareConditionQNode(t, x)
         ELSE IF x.k = "and" THEN visitAndConditionQNode(t, x.children, plans)
         ELSE visitOrConditionQNode(plans)
<1> DEFINE planned == CHOOSE f : f = [y \in Conditions |-> PlanBody(f, y, t)]
<1>1. planned = [y \in Conditions |-> PlanBody(planned, y, t)]
  BY PlanExists, Zenon
<1>2. \A y : PlanFor(t, y) = planned[y]
  BY Zenon DEF PlanFor, PlanBody
<1>3. planned[x] = PlanBody(planned, x, t)
  <2> HIDE DEF planned
  <2> QED BY <1>1, Zenon
<1> HIDE DEF planned
<1> QED BY <1>2, <1>3 DEF PlanBody

-----------------------------------------------------------------------------
(* Sequences. *)

KeptBody(f, s, S, n) ==
  IF n = 0 THEN <<>> ELSE IF s[n] \in S THEN Append(f[n - 1], s[n]) ELSE f[n - 1]

\* The recursive function of Kept exists.
LEMMA KeptExists ==
  ASSUME NEW T, NEW s \in Seq(T), NEW S
  PROVE  \E f : f = [n \in 0..Len(s) |-> KeptBody(f, s, S, n)]
<1> DEFINE Up == {m \in Nat : \E f : f = [n \in 0..m |-> KeptBody(f, s, S, n)]}
<1>1. 0 \in Up
  <2> DEFINE g == [n \in 0..0 |-> KeptBody(<<>>, s, S, n)]
  <2>1. g = [n \in 0..0 |-> KeptBody(g, s, S, n)]
    BY DEF KeptBody
  <2> QED BY <2>1
<1>2. ASSUME NEW m \in Nat, m \in Up PROVE m + 1 \in Up
  <2>1. PICK f : f = [n \in 0..m |-> KeptBody(f, s, S, n)]
    BY <1>2
  <2> DEFINE g == [n \in 0..(m + 1) |-> KeptBody(f, s, S, n)]
  <2>2. \A n \in 0..m : g[n] = f[n]
    BY <2>1
  <2>3. \A n \in 0..(m + 1) : KeptBody(f, s, S, n) = KeptBody(g, s, S, n)
    <3> TAKE n \in 0..(m + 1)
    <3> HIDE DEF g
    <3>1. n # 0 => n - 1 \in 0..m
      BY <1>2
    <3>2. n # 0 => f[n - 1] = g[n - 1]
      BY <2>2, <3>1, Zenon
    <3> QED BY <3>2, Zenon DEF KeptBody
  <2>4. g = [n \in 0..(m + 1) |-> KeptBody(g, s, S, n)]
    BY <2>3, Zenon
  <2>5. \E h : h = [n \in 0..(m + 1) |-> KeptBody(h, s, S, n)]
    BY <2>4, Zenon
  <2> QED BY <1>2, <2>5
<1>3. Len(s) \in Up
  <2> HIDE DEF Up
  <2>1. \A n \in 0..Len(s) : n \in Up
    BY <1>1, <1>2, Upwards
  <2> QED BY <2>1
<1> QED
  BY <1>3

\* Keeping the members of a set leaves those of the sequence that are in it.
LEMMA KeptIs ==
  ASSUME NEW T, NEW s \in Seq(T), NEW S
  PROVE  /\ Kept(s, S) \in Seq(T)
         /\ ToSet(Kept(s, S)) = ToSet(s) \cap S
<1> DEFINE kept == CHOOSE f : f = [n \in 0..Len(s) |-> KeptBody(f, s, S, n)]
<1>0. \E f : f = [n \in 0..Len(s) |-> KeptBody(f, s, S, n)]
  BY KeptExists
<1>1. kept = [n \in 0..Len(s) |-> KeptBody(kept, s, S, n)]
  BY <1>0, Zenon
<1>2. Kept(s, S) = kept[Len(s)]
  BY Zenon DEF Kept, KeptBody
<1> HIDE DEF kept
<1>3. \A n \in 0..Len(s) : kept[n] = KeptBody(kept, s, S, n)
  BY <1>1, Zenon
<1> DEFINE Part(n) == {s[i] : i \in 1..n} \cap S
<1> DEFINE Up == {n \in Nat : n <= Len(s) => kept[n] \in Seq(T) /\ ToSet(kept[n]) = Part(n)}
<1>4. 0 \in Up
  <2>1. kept[0] = <<>>
    BY <1>3 DEF KeptBody
  <2>2. ToSet(<<>>) = {} /\ Part(0) = {}
    BY DEF ToSet
  <2>3. kept[0] \in Seq(T)
    BY <2>1
  <2> HIDE DEF Part
  <2>4. ToSet(kept[0]) = Part(0)
    BY <2>1, <2>2
  <2> QED BY <2>3, <2>4
<1>5. ASSUME NEW m \in 0..Len(s), m < Len(s), m \in Up PROVE m + 1 \in Up
  <2>1. m + 1 \in 0..Len(s) /\ m + 1 # 0 /\ (m + 1) - 1 = m /\ s[m + 1] \in T
    BY <1>5
  <2>2. kept[m + 1] = IF s[m + 1] \in S THEN Append(kept[m], s[m + 1]) ELSE kept[m]
    BY <1>3, <2>1 DEF KeptBody
  <2>3. kept[m] \in Seq(T) /\ ToSet(kept[m]) = Part(m)
    BY <1>5
  <2>4. Part(m + 1) = Part(m) \cup ({s[m + 1]} \cap S)
    OBVIOUS
  <2>5. CASE s[m + 1] \in S
    <3> DEFINE k == kept[m]
    <3> DEFINE a == Append(k, s[m + 1])
    <3>1. a \in Seq(T) /\ Len(a) = Len(k) + 1 /\ a[Len(k) + 1] = s[m + 1]
          /\ \A i \in 1..Len(k) : a[i] = k[i]
      BY <2>1, <2>3
    <3>2. ToSet(a) = ToSet(k) \cup {s[m + 1]}
      <4> HIDE DEF a, k
      <4>1. k \in Seq(T)
        BY <2>3 DEF k
      <4>2. DOMAIN a = 1..(Len(k) + 1) /\ DOMAIN k = 1..Len(k) /\ Len(k) \in Nat
        BY <3>1, <4>1
      <4>3. \A i \in 1..(Len(k) + 1) : i \in 1..Len(k) \/ i = Len(k) + 1
        BY <4>2
      <4>4. 1..Len(k) \subseteq 1..(Len(k) + 1) /\ Len(k) + 1 \in 1..(Len(k) + 1)
        BY <4>2
      <4> QED BY <3>1, <4>2, <4>3, <4>4, Zenon DEF ToSet
    <3>3. kept[m + 1] = a
      BY <2>2, <2>5
    <3> HIDE DEF a
    <3> QED BY <2>3, <2>4, <2>5, <3>1, <3>2, <3>3, <1>5
  <2>6. CASE s[m + 1] \notin S
    BY <2>2, <2>3, <2>4, <2>6, <1>5
  <2> QED BY <2>5, <2>6
<1>6. Len(s) \in Up
  <2> HIDE DEF Up
  <2>1. \A n \in 0..Len(s) : n \in Up
    BY <1>4, <1>5, Upwards
  <2> QED BY <2>1
<1>7. Part(Len(s)) = ToSet(s) \cap S
  BY DEF ToSet
<1> QED
  BY <1>2, <1>6, <1>7

FlattenBody(f, seqs, i) == IF i = 1 THEN seqs[i] ELSE f[i - 1] \o seqs[i]

\* So does the one of FlattenSeq.
LEMMA FlattenExists ==
  ASSUME NEW T, NEW seqs \in Seq(T), Len(seqs) # 0
  PROVE  \E f : f = [i \in 1..Len(seqs) |-> FlattenBody(f, seqs, i)]
<1> DEFINE Up == {m \in Nat : \E f : f = [i \in 1..(m + 1) |-> FlattenBody(f, seqs, i)]}
<1>1. 0 \in Up
  <2> DEFINE g == [i \in 1..(0 + 1) |-> FlattenBody(<<>>, seqs, i)]
  <2>1. g = [i \in 1..(0 + 1) |-> FlattenBody(g, seqs, i)]
    BY DEF FlattenBody
  <2> QED BY <2>1
<1>2. ASSUME NEW m \in Nat, m \in Up PROVE m + 1 \in Up
  <2>1. PICK f : f = [i \in 1..(m + 1) |-> FlattenBody(f, seqs, i)]
    BY <1>2
  <2> DEFINE g == [i \in 1..(m + 1 + 1) |-> FlattenBody(f, seqs, i)]
  <2>2. \A i \in 1..(m + 1) : g[i] = f[i]
    BY <2>1
  <2>3. \A i \in 1..(m + 1 + 1) : FlattenBody(f, seqs, i) = FlattenBody(g, seqs, i)
    <3> TAKE i \in 1..(m + 1 + 1)
    <3> HIDE DEF g
    <3>1. i # 1 => i - 1 \in 1..(m + 1)
      BY <1>2
    <3>2. i # 1 => f[i - 1] = g[i - 1]
      BY <2>2, <3>1, Zenon
    <3> QED BY <3>2, Zenon DEF FlattenBody
  <2>4. g = [i \in 1..(m + 1 + 1) |-> FlattenBody(g, seqs, i)]
    BY <2>3, Zenon
  <2>5. \E h : h = [i \in 1..(m + 1 + 1) |-> FlattenBody(h, seqs, i)]
    BY <2>4, Zenon
  <2> QED BY <1>2, <2>5
<1>3. Len(seqs) - 1 \in Up
  <2> HIDE DEF Up
  <2>0. Len(seqs) - 1 \in Nat
    OBVIOUS
  <2>1. \A n \in 0..(Len(seqs) - 1) : n \in Up
    BY <2>0, <1>1, <1>2, Upwards
  <2> QED BY <2>1
<1>4. (Len(seqs) - 1) + 1 = Len(seqs)
  OBVIOUS
<1> QED
  BY <1>3, <1>4

\* A concatenation has the members of both sequences.
LEMMA ConcatenationHas ==
  ASSUME NEW T, NEW a \in Seq(T), NEW b \in Seq(T)
  PROVE  a \o b \in Seq(T) /\ ToSet(a \o b) = ToSet(a) \cup ToSet(b)
<1>1. /\ a \o b \in Seq(T) /\ Len(a \o b) = Len(a) + Len(b)
      /\ \A i \in 1..Len(a) : (a \o b)[i] = a[i]
      /\ \A i \in 1..Len(b) : (a \o b)[Len(a) + i] = b[i]
  OBVIOUS
<1>2. \A i \in 1..Len(a \o b) : i \in 1..Len(a) \/ (i - Len(a) \in 1..Len(b) /\ i = Len(a) + (i - Len(a)))
  BY <1>1
<1>3. ASSUME NEW i \in 1..Len(a \o b) PROVE (a \o b)[i] \in ToSet(a) \cup ToSet(b)
  <2>1. CASE i \in 1..Len(a)
    BY <1>1, <2>1 DEF ToSet
  <2>2. CASE i - Len(a) \in 1..Len(b)
    <3> DEFINE j == i - Len(a)
    <3>1. j \in 1..Len(b) /\ i = Len(a) + j
      BY <2>2
    <3>2. (a \o b)[i] = b[j]
      <4> HIDE DEF j
      <4> QED BY <1>1, <3>1
    <3> QED BY <3>1, <3>2 DEF ToSet
  <2> QED BY <1>2, <2>1, <2>2
<1>4. ASSUME NEW i \in 1..Len(a) PROVE a[i] \in ToSet(a \o b)
  <2>1. i \in 1..Len(a \o b) /\ (a \o b)[i] = a[i]
    BY <1>1
  <2> QED BY <2>1 DEF ToSet
<1>5. ASSUME NEW i \in 1..Len(b) PROVE b[i] \in ToSet(a \o b)
  <2>1. Len(a) + i \in 1..Len(a \o b) /\ (a \o b)[Len(a) + i] = b[i]
    BY <1>1
  <2> QED BY <2>1 DEF ToSet
<1>6. DOMAIN a = 1..Len(a) /\ DOMAIN b = 1..Len(b) /\ DOMAIN (a \o b) = 1..Len(a \o b)
  BY <1>1
<1> QED
  BY <1>1, <1>3, <1>4, <1>5, <1>6, ZenonT(40) DEF ToSet

\* A flattened sequence has the members of all its parts.
LEMMA FlattenSeqHas ==
  ASSUME NEW T, NEW seqs \in Seq(Seq(T))
  PROVE  /\ FlattenSeq(seqs) \in Seq(T)
         /\ ToSet(FlattenSeq(seqs)) = UNION {ToSet(seqs[i]) : i \in DOMAIN seqs}
<1>1. CASE Len(seqs) = 0
  <2>1. seqs = <<>>
    BY <1>1
  <2> QED BY <2>1 DEF FlattenSeq, ToSet
<1>2. CASE Len(seqs) # 0
  <2> DEFINE flat == CHOOSE f : f = [i \in 1..Len(seqs) |-> FlattenBody(f, seqs, i)]
  <2>1. flat = [i \in 1..Len(seqs) |-> FlattenBody(flat, seqs, i)]
    BY <1>2, FlattenExists, Zenon
  <2>2. FlattenSeq(seqs) = flat[Len(seqs)]
    BY <1>2, Zenon DEF FlattenSeq, FlattenBody
  <2> HIDE DEF flat
  <2>3. \A i \in 1..Len(seqs) : flat[i] = FlattenBody(flat, seqs, i)
    BY <2>1, Zenon
  <2> DEFINE Up == {n \in Nat : n + 1 <= Len(seqs) =>
                      flat[n + 1] \in Seq(T)
                      /\ ToSet(flat[n + 1]) = UNION {ToSet(seqs[i]) : i \in 1..(n + 1)}}
  <2>4. 0 \in Up
    <3>1. 1 \in 1..Len(seqs) /\ flat[1] = seqs[1] /\ seqs[1] \in Seq(T)
      BY <1>2, <2>3 DEF FlattenBody
    <3>2. UNION {ToSet(seqs[i]) : i \in 1..1} = ToSet(seqs[1])
      OBVIOUS
    <3> QED BY <3>1, <3>2
  <2>5. ASSUME NEW m \in 0..(Len(seqs) - 1), m < Len(seqs) - 1, m \in Up PROVE m + 1 \in Up
    <3>1. m + 1 + 1 \in 1..Len(seqs) /\ m + 1 + 1 # 1 /\ (m + 1 + 1) - 1 = m + 1
          /\ seqs[m + 1 + 1] \in Seq(T)
      BY <2>5
    <3>2. flat[m + 1 + 1] = flat[m + 1] \o seqs[m + 1 + 1]
      BY <2>3, <3>1 DEF FlattenBody
    <3>3. flat[m + 1] \in Seq(T) /\ ToSet(flat[m + 1]) = UNION {ToSet(seqs[i]) : i \in 1..(m + 1)}
      BY <2>5, <3>1
    <3>4. flat[m + 1 + 1] \in Seq(T)
          /\ ToSet(flat[m + 1 + 1]) = ToSet(flat[m + 1]) \cup ToSet(seqs[m + 1 + 1])
      BY <3>1, <3>2, <3>3, ConcatenationHas, SMTT(40)
    <3>5. 1..(m + 1 + 1) = 1..(m + 1) \cup {m + 1 + 1}
      BY <2>5
    <3>6. UNION {ToSet(seqs[i]) : i \in 1..(m + 1 + 1)}
            = (UNION {ToSet(seqs[i]) : i \in 1..(m + 1)}) \cup ToSet(seqs[m + 1 + 1])
      BY <3>5, Zenon
    <3>7. m + 1 \in Nat
      BY <2>5
    <3>8. ToSet(flat[m + 1 + 1]) = UNION {ToSet(seqs[i]) : i \in 1..(m + 1 + 1)}
      BY <3>3, <3>4, <3>6, Zenon
    <3> QED BY <3>4, <3>7, <3>8, Zenon
  <2>6. Len(seqs) - 1 \in Up
    <3> HIDE DEF Up
    <3>0. Len(seqs) - 1 \in Nat
      BY <1>2
    <3>1. \A n \in 0..(Len(seqs) - 1) : n \in Up
      BY <3>0, <2>4, <2>5, Upwards
    <3> QED BY <1>2, <3>1
  <2>7. (Len(seqs) - 1) + 1 = Len(seqs) /\ DOMAIN seqs = 1..Len(seqs)
    OBVIOUS
  <2> QED BY <2>2, <2>6, <2>7
<1> QED BY <1>1, <1>2

-----------------------------------------------------------------------------
(* The optimizers keep a condition's meaning. *)

\* Terms can be added a level deeper.
LEMMA TermBuilt ==
  ASSUME NEW n \in 0..Nesting
  PROVE  /\ \A v \in Int : Const(v) \in TermsOf[n]
         /\ \A id \in Nat : Column(id) \in TermsOf[n]
         /\ n > 0 => \A x, y \in TermsOf[n - 1] : Sum(x, y) \in TermsOf[n]
<1>1. TermsOf[n] = TermLevel(TermsOf, n)
  BY TermLevels
<1>2. ASSUME NEW v \in Int PROVE Const(v) \in TermLevel(TermsOf, n)
  BY DEF Const, TermLevel
<1>3. ASSUME NEW id \in Nat PROVE Column(id) \in TermLevel(TermsOf, n)
  BY DEF Column, TermLevel
<1>4. ASSUME n > 0, NEW x \in TermsOf[n - 1], NEW y \in TermsOf[n - 1]
      PROVE  Sum(x, y) \in TermLevel(TermsOf, n)
  <2>1. Sum(x, y) \in [k : {"func"}, args : TermsOf[n - 1] \X TermsOf[n - 1]]
    BY DEF Sum
  <2>2. n # 0
    BY <1>4
  <2> QED BY <2>1, <2>2, Zenon DEF TermLevel
<1> QED BY <1>1, <1>2, <1>3, <1>4

\* Constants and columns are terms.
LEMMA ConstColumnAreTerms ==
  /\ \A v \in Int : Const(v) \in Terms
  /\ \A id \in Nat : Column(id) \in Terms
<1> Nesting \in 0..Nesting
  BY NestingAssumption
<1> QED BY TermBuilt DEF Terms

\* Every expression has a number as its value.
LEMMA ValueOfInt ==
  ASSUME NEW row \in Seq(Int)
  PROVE  \A x \in Terms : ValueOf(x, row) \in Int
<1> DEFINE S == {x \in Terms : ValueOf(x, row) \in Int}
<1>1. ASSUME NEW v \in Int PROVE Const(v) \in S
  <2>1. Const(v) \in Terms /\ Const(v).k = "const" /\ Const(v).v = v
    BY ConstColumnAreTerms DEF Const
  <2> QED BY <2>1, ValueOfIs DEF Leaf
<1>2. ASSUME NEW id \in Nat PROVE Column(id) \in S
  <2>1. Column(id) \in Terms /\ Column(id).k = "column" /\ Column(id).id = id
    BY ConstColumnAreTerms DEF Column
  <2>2. Field(row, id) \in Int
    BY DEF Field, Undefined
  <2> QED BY <2>1, <2>2, ValueOfIs DEF Leaf
<1>3. ASSUME NEW x \in Terms, NEW y \in Terms, x \in S, y \in S, Sum(x, y) \in Terms
      PROVE  Sum(x, y) \in S
  <2>1. Sum(x, y).k = "func" /\ Sum(x, y).args[1] = x /\ Sum(x, y).args[2] = y
    BY DEF Sum
  <2>2. ValueOf(Sum(x, y), row) = Plus(ValueOf(x, row), ValueOf(y, row))
    BY <1>3, <2>1, ValueOfIs
  <2> QED BY <1>3, <2>2 DEF Plus, Null
<1>4. Terms \subseteq S
  <2> HIDE DEF S
  <2> QED BY <1>1, <1>2, <1>3, TermsInduction
<1> QED BY <1>4

\* An expression without a column has one value, with a row or without.
LEMMA IsConstValue ==
  ASSUME NEW row
  PROVE  \A x \in Terms : IsConst(x) => ValueOf(x, row) = ValueOf(x, <<>>)
<1> DEFINE S == {x \in Terms : IsConst(x) => ValueOf(x, row) = ValueOf(x, <<>>)}
<1>1. ASSUME NEW v \in Int PROVE Const(v) \in S
  <2>1. Const(v) \in Terms /\ Const(v).k = "const" /\ Const(v).v = v
    BY ConstColumnAreTerms DEF Const
  <2> QED BY <2>1, ValueOfIs DEF Leaf
<1>2. ASSUME NEW id \in Nat PROVE Column(id) \in S
  <2>1. Column(id) \in Terms /\ Column(id).k = "column"
    BY ConstColumnAreTerms DEF Column
  <2> QED BY <2>1, IsConstIs
<1>3. ASSUME NEW x \in Terms, NEW y \in Terms, x \in S, y \in S, Sum(x, y) \in Terms
      PROVE  Sum(x, y) \in S
  <2>1. Sum(x, y).k = "func" /\ Sum(x, y).args[1] = x /\ Sum(x, y).args[2] = y
    BY DEF Sum
  <2>2. ValueOf(Sum(x, y), row) = Plus(ValueOf(x, row), ValueOf(y, row))
        /\ ValueOf(Sum(x, y), <<>>) = Plus(ValueOf(x, <<>>), ValueOf(y, <<>>))
    BY <1>3, <2>1, ValueOfIs
  <2>3. IsConst(Sum(x, y)) => IsConst(x) /\ IsConst(y)
    BY <1>3, <2>1, IsConstIs
  <2> QED BY <1>3, <2>2, <2>3
<1>4. Terms \subseteq S
  <2> HIDE DEF S
  <2> QED BY <1>1, <1>2, <1>3, TermsInduction
<1> QED BY <1>4

\* Folding leaves a term of no more levels, with the value it had.
LEMMA FoldedKeeps ==
  \A x \in Terms :
    /\ \A n \in 0..Nesting : x \in TermsOf[n] => Folded(x) \in TermsOf[n]
    /\ \A row \in Seq(Int) : ValueOf(Folded(x), row) = ValueOf(x, row)
<1> DEFINE S == {x \in Terms :
      /\ \A n \in 0..Nesting : x \in TermsOf[n] => Folded(x) \in TermsOf[n]
      /\ \A row \in Seq(Int) : ValueOf(Folded(x), row) = ValueOf(x, row)}
<1>1. ASSUME NEW v \in Int PROVE Const(v) \in S
  <2>1. Const(v) \in Terms /\ Const(v).k = "const"
    BY ConstColumnAreTerms DEF Const
  <2>2. Folded(Const(v)) = Const(v)
    BY <2>1, FoldedIs DEF Computable
  <2> QED BY <2>1, <2>2
<1>2. ASSUME NEW id \in Nat PROVE Column(id) \in S
  <2>1. Column(id) \in Terms /\ Column(id).k = "column"
    BY ConstColumnAreTerms DEF Column
  <2>2. Folded(Column(id)) = Column(id)
    BY <2>1, FoldedIs DEF Computable
  <2> QED BY <2>1, <2>2
<1>3. ASSUME NEW x \in Terms, NEW y \in Terms, x \in S, y \in S, Sum(x, y) \in Terms
      PROVE  Sum(x, y) \in S
  <2> DEFINE z == Sum(x, y)
  <2>1. z.k = "func" /\ z.args[1] = x /\ z.args[2] = y
    BY DEF Sum
  <2>2. CASE Computable(z)
    <3> DEFINE v == ValueOf(z, <<>>)
    <3>0. <<>> \in Seq(Int) /\ z \in Terms
      BY <1>3
    <3>1. v \in Int /\ Folded(z) = Const(v)
      <4> HIDE DEF z
      <4>1. v \in Int
        BY <3>0, ValueOfInt
      <4>2. Folded(z) = Const(v)
        BY <3>0, <2>2, FoldedIs
      <4> QED BY <4>1, <4>2
    <3>2. \A row \in Seq(Int) : ValueOf(z, row) = v
      BY <1>3, <2>2, IsConstValue DEF Computable
    <3> HIDE DEF v
    <3>3. Const(v) \in Terms /\ Const(v).k = "const" /\ Const(v).v = v
      BY <3>1, ConstColumnAreTerms DEF Const
    <3>4. \A row \in Seq(Int) : ValueOf(Const(v), row) = v
      BY <3>3, ValueOfIs DEF Leaf
    <3>5. \A n \in 0..Nesting : Const(v) \in TermsOf[n]
      BY <3>1, TermBuilt
    <3> HIDE DEF z
    <3> QED BY <3>1, <3>2, <3>4, <3>5, <1>3 DEF z
  <2>3. CASE ~Computable(z)
    <3> DEFINE w == Sum(Folded(x), Folded(y))
    <3>1. Folded(z) = w
      BY <1>3, <2>1, <2>3, FoldedIs
    <3>2. w.k = "func" /\ w.args[1] = Folded(x) /\ w.args[2] = Folded(y)
      BY DEF Sum
    <3>3. ASSUME NEW n \in 0..Nesting, z \in TermsOf[n] PROVE w \in TermsOf[n]
      <4>1. n > 0 /\ n - 1 \in 0..Nesting /\ x \in TermsOf[n - 1] /\ y \in TermsOf[n - 1]
        <5> HIDE DEF z
        <5> QED BY <2>1, <3>3, TermCases
      <4>2. Folded(x) \in TermsOf[n - 1] /\ Folded(y) \in TermsOf[n - 1]
        BY <1>3, <4>1
      <4> QED BY <4>1, <4>2, TermBuilt
    <3>4. w \in Terms
      <4>1. Nesting \in 0..Nesting
        BY NestingAssumption
      <4> QED BY <3>3, <4>1, <1>3 DEF Terms
    <3>5. ASSUME NEW row \in Seq(Int) PROVE ValueOf(w, row) = ValueOf(z, row)
      <4>1. ValueOf(w, row) = Plus(ValueOf(Folded(x), row), ValueOf(Folded(y), row))
        <5> HIDE DEF w
        <5> QED BY <3>2, <3>4, ValueOfIs
      <4>2. ValueOf(z, row) = Plus(ValueOf(x, row), ValueOf(y, row))
        <5> HIDE DEF z
        <5> QED BY <2>1, <1>3, ValueOfIs DEF z
      <4> QED BY <4>1, <4>2, <1>3
    <3> HIDE DEF w, z
    <3> QED BY <3>1, <3>3, <3>5, <1>3 DEF z
  <2> QED BY <2>2, <2>3
<1>4. Terms \subseteq S
  <2> HIDE DEF S
  <2> QED BY <1>1, <1>2, <1>3, TermsInduction
<1> QED BY <1>4

\* A folded term is a term of the same level.
LEMMA FoldedTerm ==
  ASSUME NEW x \in Terms
  PROVE  Folded(x) \in Terms
<1>1. Nesting \in 0..Nesting /\ x \in TermsOf[Nesting]
  BY NestingAssumption DEF Terms
<1> QED BY <1>1, FoldedKeeps DEF Terms

\* The fields of a comparison,
LEMMA CompareFields ==
  ASSUME NEW l, NEW o, NEW r
  PROVE  Compare(l, o, r).k = "cmp" /\ Compare(l, o, r).left = l
         /\ Compare(l, o, r).cmp = o /\ Compare(l, o, r).right = r
BY DEF Compare

\* and those of an AND or an OR.
LEMMA NodeFields ==
  ASSUME NEW kind, NEW cs
  PROVE  Node(kind, cs).k = kind /\ Node(kind, cs).children = cs
BY DEF Node

\* Comparisons are conditions.
LEMMA CompareIsCondition ==
  \A l, r \in Terms : \A o \in Orders : Compare(l, o, r) \in Conditions
<1> Nesting \in 0..Nesting
  BY NestingAssumption
<1> QED BY ConditionBuilt DEF Conditions

\* A condition holds or does not.
LEMMA HoldsBoolean ==
  ASSUME NEW x \in Conditions, NEW row
  PROVE  Holds(x, row) \in BOOLEAN
BY HoldsIs

\* An AND and an OR by the sets of their children.
LEMMA HoldsNode ==
  ASSUME NEW cs \in Seq(Conditions), NEW row
  PROVE  /\ Node("and", cs) \in Conditions =>
              Holds(Node("and", cs), row) = \A x \in ToSet(cs) : Holds(x, row)
         /\ Node("or", cs) \in Conditions =>
              Holds(Node("or", cs), row) = \E x \in ToSet(cs) : Holds(x, row)
<1>1. ASSUME Node("and", cs) \in Conditions
      PROVE  Holds(Node("and", cs), row) = \A x \in ToSet(cs) : Holds(x, row)
  <2> DEFINE z == Node("and", cs)
  <2>1. z.k = "and" /\ z.children = cs
    BY NodeFields
  <2>2. Holds(z, row) = \A i \in DOMAIN cs : Holds(cs[i], row)
    <3> HIDE DEF z
    <3> QED BY <1>1, <2>1, HoldsIs DEF z
  <2>3. (\A i \in DOMAIN cs : Holds(cs[i], row)) = \A x \in ToSet(cs) : Holds(x, row)
    BY Zenon DEF ToSet
  <2> QED BY <2>2, <2>3
<1>2. ASSUME Node("or", cs) \in Conditions
      PROVE  Holds(Node("or", cs), row) = \E x \in ToSet(cs) : Holds(x, row)
  <2> DEFINE z == Node("or", cs)
  <2>1. z.k = "or" /\ z.children = cs
    BY NodeFields
  <2>2. Holds(z, row) = \E i \in DOMAIN cs : Holds(cs[i], row)
    <3> HIDE DEF z
    <3> QED BY <1>2, <2>1, HoldsIs DEF z
  <2>3. (\E i \in DOMAIN cs : Holds(cs[i], row)) = \E x \in ToSet(cs) : Holds(x, row)
    BY Zenon DEF ToSet
  <2> QED BY <2>2, <2>3
<1> QED BY <1>1, <1>2

\* The children of a node are a level deeper.
LEMMA NodeLevels ==
  ASSUME NEW n \in 0..Nesting, NEW kind, NEW cs, Node(kind, cs) \in ConditionsOf[n]
  PROVE  /\ kind \in {"and", "or"} /\ n > 0 /\ n - 1 \in 0..Nesting /\ cs \in Seq(ConditionsOf[n - 1])
         /\ ConditionsOf[n - 1] \subseteq Conditions
<1> DEFINE z == Node(kind, cs)
<1>1. z.k = kind /\ z.children = cs
  BY NodeFields
<1>2. z.k # "cmp"
  <2>1. "left" \notin DOMAIN z
    BY DEF Node
  <2>2. ASSUME NEW l, NEW o, NEW r PROVE z # Compare(l, o, r)
    BY DEF Node, Compare
  <2> HIDE DEF z
  <2> QED BY <2>2, ConditionCases DEF z
<1>3. z \in ConditionsOf[n]
  OBVIOUS
<1> HIDE DEF z
<1>4. z.k \in {"and", "or"} /\ n > 0 /\ n - 1 \in 0..Nesting /\ z.children \in Seq(ConditionsOf[n - 1])
  BY <1>2, <1>3, ConditionCases
<1> QED BY <1>1, <1>4, ConditionsRise

\* The constants are folded at every level, and nothing else changes.
WithConstantsOk(x) ==
  /\ \A n \in 0..Nesting : x \in ConditionsOf[n] => WithConstants(x) \in ConditionsOf[n]
  /\ WithConstants(x).k = x.k
  /\ \A row \in Seq(Int) : Holds(WithConstants(x), row) = Holds(x, row)
  /\ OrInOr(WithConstants(x)) = OrInOr(x)

\* optimizeConstants() keeps the meaning of every condition.
LEMMA WithConstantsKeeps == \A x \in Conditions : WithConstantsOk(x)
<1> DEFINE S == {x \in Conditions : WithConstantsOk(x)}
<1>0. Nesting \in 0..Nesting
  BY NestingAssumption
<1>1. ASSUME NEW l \in Terms, NEW r \in Terms, NEW o \in Orders PROVE Compare(l, o, r) \in S
  <2> DEFINE z == Compare(l, o, r)
  <2> DEFINE w == Compare(Folded(l), o, Folded(r))
  <2>1. z.k = "cmp" /\ z.left = l /\ z.cmp = o /\ z.right = r
    BY CompareFields
  <2>2. w.k = "cmp" /\ w.left = Folded(l) /\ w.cmp = o /\ w.right = Folded(r)
    BY CompareFields
  <2>3. Folded(l) \in Terms /\ Folded(r) \in Terms
    BY FoldedTerm
  <2>4. z \in Conditions /\ w \in Conditions
    BY <2>3, CompareIsCondition
  <2>5. \A n \in 0..Nesting : w \in ConditionsOf[n]
    BY <2>3, ConditionBuilt
  <2> HIDE DEF w, z
  <2>6. WithConstants(z) = w
    BY <2>1, <2>4, WithConstantsIs DEF w
  <2>7. ASSUME NEW row \in Seq(Int) PROVE Holds(w, row) = Holds(z, row)
    <3>1. ValueOf(w.left, row) = ValueOf(z.left, row) /\ ValueOf(w.right, row) = ValueOf(z.right, row)
      BY <2>1, <2>2, FoldedKeeps
    <3>2. Compares(w, row) = Compares(z, row)
      BY <3>1, <2>1, <2>2, Zenon DEF Compares
    <3>0. Compares(w, row) \in BOOLEAN /\ Compares(z, row) \in BOOLEAN
      BY DEF Compares
    <3>3. Holds(w, row) = Compares(w, row) /\ Holds(z, row) = Compares(z, row)
      BY <3>0, <2>1, <2>2, <2>4, HoldsIs
    <3> QED BY <3>2, <3>3
  <2>8. OrInOr(w) = FALSE /\ OrInOr(z) = FALSE
    BY <2>1, <2>2, <2>4, OrInOrIs
  <2> QED BY <2>1, <2>2, <2>4, <2>5, <2>6, <2>7, <2>8, Zenon DEF WithConstantsOk, z
<1>2. ASSUME NEW kind \in {"and", "or"}, NEW cs \in Seq(Conditions),
             Node(kind, cs) \in Conditions, \A i \in DOMAIN cs : cs[i] \in S
      PROVE  Node(kind, cs) \in S
  <2> DEFINE z == Node(kind, cs)
  <2> DEFINE ws == [i \in DOMAIN cs |-> WithConstants(cs[i])]
  <2> DEFINE w == Node(kind, ws)
  <2>1. z.k = kind /\ z.children = cs /\ w.k = kind /\ w.children = ws /\ z \in Conditions
    BY <1>2, NodeFields
  <2>2. \A i \in DOMAIN cs : WithConstantsOk(cs[i])
    BY <1>2
  <2>3. DOMAIN ws = DOMAIN cs /\ \A i \in DOMAIN cs : ws[i] = WithConstants(cs[i])
    OBVIOUS
  <2>4. ASSUME NEW n \in 0..Nesting, z \in ConditionsOf[n] PROVE w \in ConditionsOf[n]
    <3>1. n > 0 /\ n - 1 \in 0..Nesting /\ cs \in Seq(ConditionsOf[n - 1])
      BY <2>4, NodeLevels
    <3>2. \A i \in DOMAIN cs : cs[i] \in ConditionsOf[n - 1]
      BY <3>1
    <3>3. \A i \in DOMAIN cs : ws[i] \in ConditionsOf[n - 1]
      BY <2>2, <2>3, <3>1, <3>2 DEF WithConstantsOk
    <3>4. ws \in Seq(ConditionsOf[n - 1])
      <4>1. DOMAIN cs = 1..Len(cs) /\ Len(cs) \in Nat
        BY <3>1
      <4>2. ws = [i \in 1..Len(cs) |-> WithConstants(cs[i])]
        BY <4>1
      <4>3. \A i \in 1..Len(cs) : WithConstants(cs[i]) \in ConditionsOf[n - 1]
        BY <3>3, <4>1, <2>3
      <4> QED BY <4>1, <4>2, <4>3
    <3> QED BY <3>1, <3>4, ConditionBuilt
  <2>5. w \in Conditions
    BY <1>0, <2>1, <2>4 DEF Conditions
  <2>6. WithConstants(z) = w
    <3>1. z.k # "cmp"
      BY <2>1
    <3> HIDE DEF z
    <3> QED BY <2>1, <3>1, WithConstantsIs
  <2> HIDE DEF w, z, ws
  <2>7. ASSUME NEW row \in Seq(Int) PROVE Holds(w, row) = Holds(z, row)
    <3>1. \A i \in DOMAIN cs : Holds(ws[i], row) = Holds(cs[i], row)
      BY <2>2, <2>3 DEF WithConstantsOk
    <3>2. CASE kind = "and"
      <4>1. Holds(w, row) = \A i \in DOMAIN ws : Holds(ws[i], row)
        BY <2>1, <2>5, <3>2, HoldsIs
      <4>2. Holds(z, row) = \A i \in DOMAIN cs : Holds(cs[i], row)
        BY <2>1, <3>2, HoldsIs
      <4> QED BY <3>1, <4>1, <4>2, <2>3
    <3>3. CASE kind = "or"
      <4>1. Holds(w, row) = \E i \in DOMAIN ws : Holds(ws[i], row)
        BY <2>1, <2>5, <3>3, HoldsIs
      <4>2. Holds(z, row) = \E i \in DOMAIN cs : Holds(cs[i], row)
        BY <2>1, <3>3, HoldsIs
      <4> QED BY <3>1, <4>1, <4>2, <2>3
    <3> QED BY <3>2, <3>3
  <2>8. OrInOr(w) = OrInOr(z)
    <3>1. \A i \in DOMAIN cs : OrInOr(ws[i]) = OrInOr(cs[i]) /\ ws[i].k = cs[i].k
      BY <2>2, <2>3 DEF WithConstantsOk
    <3>2. OrInOr(w) = \E i \in DOMAIN ws : OrInOr(ws[i]) \/ (kind = "or" /\ ws[i].k = "or")
      BY <2>1, <2>5, OrInOrIs
    <3>3. OrInOr(z) = \E i \in DOMAIN cs : OrInOr(cs[i]) \/ (kind = "or" /\ cs[i].k = "or")
      BY <2>1, OrInOrIs
    <3> QED BY <3>1, <3>2, <3>3, <2>3
  <2>9. WithConstantsOk(z)
    BY <2>1, <2>4, <2>6, <2>7, <2>8, Zenon DEF WithConstantsOk
  <2> QED BY <2>1, <2>9 DEF z
<1>3. Conditions \subseteq S
  <2> HIDE DEF S
  <2> QED BY <1>1, <1>2, ConditionsInduction
<1> QED BY <1>3

\* A node whose nested nodes have been taken apart says what it said before.
LEMMA TakenApartKeeps ==
  ASSUME NEW n \in 0..Nesting, NEW kind \in {"and", "or"}, n > 0, n - 1 \in 0..Nesting,
         NEW cs \in Seq(ConditionsOf[n - 1])
  PROVE  /\ TakenApart(Node(kind, cs)) \in ConditionsOf[n]
         /\ TakenApart(Node(kind, cs)).k = kind
         /\ (kind = "or" => \A x \in ToSet(cs) : x.k # "or") =>
              \A row : Holds(TakenApart(Node(kind, cs)), row) = Holds(Node(kind, cs), row)
<1> DEFINE T == ConditionsOf[n - 1]
<1> DEFINE z == Node(kind, cs)
<1> DEFINE w == TakenApart(Node(kind, cs))
<1> DEFINE nested == {x \in ToSet(cs) : x.k = kind}
<1> DEFINE others == Kept(cs, ToSet(cs) \ nested)
<1> DEFINE same == Kept(cs, nested)
<1> DEFINE inner == [i \in DOMAIN same |-> same[i].children]
<1>1. z.k = kind /\ z.children = cs
  BY NodeFields
<1>2. T \subseteq Conditions /\ ConditionsOf[n] \subseteq Conditions
  BY ConditionsRise
<1>3. z \in ConditionsOf[n] /\ z \in Conditions
  BY <1>2, ConditionBuilt
<1>4. others \in Seq(T) /\ ToSet(others) = ToSet(cs) \ nested /\ same \in Seq(T) /\ ToSet(same) = nested
  <2>1. ToSet(cs) \cap (ToSet(cs) \ nested) = ToSet(cs) \ nested /\ ToSet(cs) \cap nested = nested
    OBVIOUS
  <2> QED BY <2>1, KeptIs, Zenon
<1>5. CASE kind = "or"
  <2>1. w = Node("or", others)
    BY <1>1, <1>5 DEF TakenApart, Or, Node
  <2>2. w \in ConditionsOf[n] /\ w.k = kind
    BY <1>4, <1>5, <2>1, ConditionBuilt, NodeFields
  <2>4. ASSUME \A x \in ToSet(cs) : x.k # "or", NEW row PROVE Holds(w, row) = Holds(z, row)
    <3>0. ToSet(others) = ToSet(cs)
      BY <1>4, <1>5, <2>4
    <3>1. others \in Seq(Conditions) /\ cs \in Seq(Conditions)
      BY <1>2, <1>4
    <3>2. Holds(Node("or", others), row) = \E x \in ToSet(others) : Holds(x, row)
      BY <3>1, <1>2, <2>1, <2>2, HoldsNode
    <3>3. Holds(Node("or", cs), row) = \E x \in ToSet(cs) : Holds(x, row)
      BY <3>1, <1>3, <1>5, HoldsNode
    <3> QED BY <3>2, <3>3, <2>1, <3>0, <1>5
  <2> QED BY <1>5, <2>2, <2>4
<1>6. CASE kind = "and"
  <2> DEFINE all == others \o FlattenSeq(inner)
  <2>1. w = Node("and", all)
    BY <1>1, <1>6, Zenon DEF TakenApart, And, Node
  <2>2. \A x \in nested : x \in T /\ x.children \in Seq(T) /\ x = Node("and", x.children)
    <3> TAKE x \in nested
    <3>1. x \in T /\ x.k = "and"
      BY <1>6 DEF ToSet
    <3>2. n - 1 > 0 /\ (n - 1) - 1 \in 0..Nesting /\ x.children \in Seq(ConditionsOf[(n - 1) - 1])
          /\ x = Node("and", x.children)
      BY <3>1, ConditionCases
    <3>3. ConditionsOf[(n - 1) - 1] \subseteq T
      BY <3>2, ConditionLevels
    <3> QED BY <3>1, <3>2, <3>3
  <2>3. inner \in Seq(Seq(T)) /\ DOMAIN inner = DOMAIN same
        /\ \A i \in DOMAIN same : inner[i] = same[i].children
    <3>1. \A i \in DOMAIN same : same[i].children \in Seq(T)
      <4>1. \A i \in DOMAIN same : same[i] \in nested
        BY <1>4, Zenon DEF ToSet
      <4> QED BY <4>1, <2>2, Zenon
    <3>2. DOMAIN same = 1..Len(same) /\ Len(same) \in Nat
      BY <1>4
    <3> HIDE DEF same
    <3> QED BY <3>1, <3>2, SMTT(30)
  <2>4. ToSet(FlattenSeq(inner)) = UNION {ToSet(x.children) : x \in nested}
        /\ FlattenSeq(inner) \in Seq(T)
    <3>1. FlattenSeq(inner) \in Seq(T)
          /\ ToSet(FlattenSeq(inner)) = UNION {ToSet(inner[i]) : i \in DOMAIN inner}
      <4> HIDE DEF inner
      <4> QED BY <2>3, FlattenSeqHas
    <3>2. {ToSet(inner[i]) : i \in DOMAIN inner} = {ToSet(x.children) : x \in nested}
      <4>1. nested = {same[i] : i \in DOMAIN same}
        BY <1>4, Zenon DEF ToSet
      <4>2. \A i \in DOMAIN same : ToSet(inner[i]) = ToSet(same[i].children)
        BY <2>3
      <4> HIDE DEF inner, same, nested
      <4> QED BY <4>1, <4>2, <2>3
    <3> QED BY <3>1, <3>2, Zenon
  <2>5. all \in Seq(T) /\ ToSet(all) = (ToSet(cs) \ nested) \cup UNION {ToSet(x.children) : x \in nested}
    <3> HIDE DEF others, inner
    <3> QED BY <1>4, <2>4, ConcatenationHas
  <2> HIDE DEF all
  <2>6. w \in ConditionsOf[n] /\ w.k = kind
    BY <1>6, <2>1, <2>5, ConditionBuilt, NodeFields
  <2>7. ASSUME NEW row PROVE Holds(w, row) = Holds(z, row)
    <3>1. all \in Seq(Conditions) /\ cs \in Seq(Conditions)
      BY <1>2, <2>5
    <3>2. Holds(Node("and", all), row) = \A x \in ToSet(all) : Holds(x, row)
      BY <3>1, <1>2, <2>1, <2>6, HoldsNode
    <3>3. Holds(Node("and", cs), row) = \A x \in ToSet(cs) : Holds(x, row)
      BY <3>1, <1>3, <1>6, HoldsNode
    <3>4. \A x \in nested : Holds(x, row) = \A y \in ToSet(x.children) : Holds(y, row)
      <4> TAKE x \in nested
      <4> HIDE DEF nested
      <4>1. x \in Conditions /\ x.children \in Seq(Conditions) /\ x = Node("and", x.children)
        BY <1>2, <2>2
      <4> QED BY <4>1, HoldsNode
    <3>5. nested \subseteq ToSet(cs)
      OBVIOUS
    <3> HIDE DEF nested
    <3>6. (\A x \in ToSet(all) : Holds(x, row)) = \A x \in ToSet(cs) : Holds(x, row)
      <4>1. ASSUME \A x \in ToSet(all) : Holds(x, row), NEW x \in ToSet(cs) PROVE Holds(x, row)
        <5>1. CASE x \in nested
          <6>1. \A y \in ToSet(x.children) : y \in ToSet(all)
            BY <2>5, <5>1
          <6> QED BY <3>4, <4>1, <5>1, <6>1
        <5>2. CASE x \notin nested
          BY <2>5, <4>1, <5>2
        <5> QED BY <5>1, <5>2
      <4>2. ASSUME \A x \in ToSet(cs) : Holds(x, row), NEW x \in ToSet(all) PROVE Holds(x, row)
        <5>1. CASE x \in ToSet(cs)
          BY <4>2, <5>1
        <5>2. CASE x \notin ToSet(cs)
          <6>1. PICK y \in nested : x \in ToSet(y.children)
            BY <2>5, <5>2
          <6> QED BY <3>4, <3>5, <4>2, <6>1
        <5> QED BY <5>1, <5>2
      <4> QED BY <4>1, <4>2
    <3> QED BY <3>2, <3>3, <3>6, <2>1, <1>6
  <2> QED BY <2>6, <2>7
<1> QED BY <1>5, <1>6

\* Taking nested nodes apart keeps the meaning of what has no OR in an OR.
FlattenedOk(x) ==
  /\ \A n \in 0..Nesting : x \in ConditionsOf[n] => Flattened(x) \in ConditionsOf[n]
  /\ Flattened(x).k = x.k
  /\ ~OrInOr(x) => \A row : Holds(Flattened(x), row) = Holds(x, row)

\* optimizeConditions() keeps it but for an OR in an OR.
LEMMA FlattenedKeeps == \A x \in Conditions : FlattenedOk(x)
<1> DEFINE S == {x \in Conditions : FlattenedOk(x)}
<1>0. Nesting \in 0..Nesting
  BY NestingAssumption
<1>1. ASSUME NEW l \in Terms, NEW r \in Terms, NEW o \in Orders PROVE Compare(l, o, r) \in S
  <2> DEFINE z == Compare(l, o, r)
  <2>1. z.k = "cmp" /\ z \in Conditions
    BY CompareFields, CompareIsCondition
  <2> HIDE DEF z
  <2>2. Flattened(z) = z
    BY <2>1, FlattenedIs
  <2> QED BY <2>1, <2>2 DEF FlattenedOk, z
<1>2. ASSUME NEW kind \in {"and", "or"}, NEW cs \in Seq(Conditions),
             Node(kind, cs) \in Conditions, \A i \in DOMAIN cs : cs[i] \in S
      PROVE  Node(kind, cs) \in S
  <2> DEFINE z == Node(kind, cs)
  <2> DEFINE fs == [i \in DOMAIN cs |-> Flattened(cs[i])]
  <2> DEFINE w == Node(kind, fs)
  <2>1. z.k = kind /\ z.children = cs /\ w.k = kind /\ w.children = fs /\ z \in Conditions
    BY <1>2, NodeFields
  <2>4. \A i \in DOMAIN cs : FlattenedOk(cs[i])
    BY <1>2
  <2>5. DOMAIN fs = DOMAIN cs /\ \A i \in DOMAIN cs : fs[i] = Flattened(cs[i])
    OBVIOUS
  <2>6. Flattened(z) = TakenApart(w)
    <3>1. z.k # "cmp"
      BY <2>1
    <3> HIDE DEF z
    <3> QED BY <2>1, <3>1, FlattenedIs
  <2>7. ASSUME NEW n \in 0..Nesting, z \in ConditionsOf[n]
        PROVE  /\ Flattened(z) \in ConditionsOf[n] /\ Flattened(z).k = kind
               /\ ~OrInOr(z) => \A row : Holds(Flattened(z), row) = Holds(z, row)
    <3>1. n > 0 /\ n - 1 \in 0..Nesting /\ cs \in Seq(ConditionsOf[n - 1])
          /\ ConditionsOf[n - 1] \subseteq Conditions
      BY <2>7, NodeLevels
    <3>2. \A i \in DOMAIN cs : fs[i] \in ConditionsOf[n - 1]
      <4>1. \A i \in DOMAIN cs : cs[i] \in ConditionsOf[n - 1]
        BY <3>1
      <4> QED BY <2>4, <2>5, <3>1, <4>1 DEF FlattenedOk
    <3>3. fs \in Seq(ConditionsOf[n - 1])
      <4>1. DOMAIN cs = 1..Len(cs) /\ Len(cs) \in Nat
        BY <3>1
      <4>2. fs = [i \in 1..Len(cs) |-> Flattened(cs[i])]
        BY <4>1
      <4>3. \A i \in 1..Len(cs) : Flattened(cs[i]) \in ConditionsOf[n - 1]
        BY <3>2, <4>1, <2>5
      <4> QED BY <4>1, <4>2, <4>3
    <3> HIDE DEF fs
    <3>5. /\ TakenApart(w) \in ConditionsOf[n] /\ TakenApart(w).k = kind
          /\ (kind = "or" => \A x \in ToSet(fs) : x.k # "or") =>
               \A row : Holds(TakenApart(w), row) = Holds(w, row)
      BY <3>1, <3>3, TakenApartKeeps
    <3>6. w \in Conditions
      BY <3>1, <3>3, ConditionBuilt, ConditionsRise
    <3> HIDE DEF w, z
    <3>7. ASSUME ~OrInOr(z), NEW row PROVE Holds(Flattened(z), row) = Holds(z, row)
      <4>0. \A i \in DOMAIN cs : ~OrInOr(cs[i]) /\ (kind = "or" => cs[i].k # "or")
        <5>1. z.k # "cmp"
          BY <2>1
        <5> QED BY <2>1, <3>7, <5>1, OrInOrIs
      <4>1. \A i \in DOMAIN cs : Holds(fs[i], row) = Holds(cs[i], row) /\ fs[i].k = cs[i].k
        BY <2>4, <2>5, <4>0, Zenon DEF FlattenedOk
      <4>2. kind = "or" => \A x \in ToSet(fs) : x.k # "or"
        BY <4>0, <4>1, <2>5, Zenon DEF ToSet
      <4>3. CASE kind = "and"
        <5>1. Holds(w, row) = \A i \in DOMAIN fs : Holds(fs[i], row)
          BY <2>1, <3>6, <4>3, HoldsIs
        <5>2. Holds(z, row) = \A i \in DOMAIN cs : Holds(cs[i], row)
          BY <2>1, <4>3, HoldsIs
        <5>3. Holds(w, row) = Holds(z, row)
          BY <4>1, <5>1, <5>2, <2>5
        <5> QED BY <5>3, <2>6, <3>5, <4>2
      <4>4. CASE kind = "or"
        <5>1. Holds(w, row) = \E i \in DOMAIN fs : Holds(fs[i], row)
          BY <2>1, <3>6, <4>4, HoldsIs
        <5>2. Holds(z, row) = \E i \in DOMAIN cs : Holds(cs[i], row)
          BY <2>1, <4>4, HoldsIs
        <5>3. Holds(w, row) = Holds(z, row)
          BY <4>1, <5>1, <5>2, <2>5
        <5> QED BY <5>3, <2>6, <3>5, <4>2
      <4> QED BY <4>3, <4>4
    <3> QED BY <2>6, <3>5, <3>7
  <2>8. z \in ConditionsOf[Nesting]
    BY <2>1 DEF Conditions
  <2> HIDE DEF z
  <2>9. FlattenedOk(z)
    BY <1>0, <2>1, <2>7, <2>8, Zenon DEF FlattenedOk
  <2> QED BY <2>1, <2>9 DEF z
<1>3. Conditions \subseteq S
  <2> HIDE DEF S
  <2> QED BY <1>1, <1>2, ConditionsInduction
<1> QED BY <1>3

-----------------------------------------------------------------------------
(* What the stages of a query have made of its condition. *)

ConditionInv ==
  /\ table \in Tables
  /\ written \in Conditions /\ tree \in Conditions
  /\ stage \in {"idle", "parsed", "folded"} => OrInOr(tree) = OrInOr(written)
  /\ OrInOr(written) \/ \A row \in Seq(Int) : Holds(tree, row) = Holds(written, row)

\* The condition of a query without one.
LEMMA TrivialCondition == And(<<>>) \in Conditions
<1>1. Nesting \in 0..Nesting /\ Nesting > 0
  BY NestingAssumption
<1>2. Node("and", <<>>) \in ConditionsOf[Nesting]
  <2>1. <<>> \in Seq(ConditionsOf[Nesting - 1])
    OBVIOUS
  <2> QED BY <1>1, <2>1, ConditionBuilt
<1> QED BY <1>2 DEF Conditions, And, Node

\* Sequences over a set are sequences over a larger one.
LEMMA SeqRises ==
  ASSUME NEW A, NEW B, A \subseteq B
  PROVE  Seq(A) \subseteq Seq(B)
OBVIOUS

\* The rows of a table hold integers.
LEMMA RowsAreIntegers ==
  ASSUME table \in Tables
  PROVE  \A r \in DOMAIN table.rows : table.rows[r] \in Seq(Int)
<1>1. table.rows \in Seq(Seq((MinVal + 1)..(MaxVal - 1)))
  BY TablesAssumption
<1> DEFINE Values == (MinVal + 1)..(MaxVal - 1)
<1>2. Values \subseteq Int
  OBVIOUS
<1> HIDE DEF Values
<1>3. ASSUME NEW r \in DOMAIN table.rows PROVE table.rows[r] \in Seq(Int)
  <2>1. table.rows[r] \in Seq(Values)
    BY <1>1 DEF Values
  <2>2. Seq(Values) \subseteq Seq(Int)
    BY <1>2, SeqRises
  <2> QED BY <2>1, <2>2
<1> QED BY <1>3

\* Every step keeps what the stages have made of the condition.
LEMMA ConditionInvHolds == Spec => []ConditionInv
<1>0. Nesting \in 0..Nesting
  BY NestingAssumption
<1>1. Init => ConditionInv
  BY TrivialCondition DEF Init, ConditionInv
<1>2. ConditionInv /\ [Next]_vars => ConditionInv'
  <2> SUFFICES ASSUME ConditionInv, [Next]_vars PROVE ConditionInv'
    OBVIOUS
  <2>0. table' = table
    BY DEF Next, vars
  <2>1. CASE Query
    <3>1. PICK c \in table.conditions : written' = c /\ tree' = c
      BY <2>1 DEF Query
    <3>2. c \in Conditions
      BY TablesAssumption DEF ConditionInv
    <3> QED BY <2>0, <3>1, <3>2 DEF ConditionInv
  <2>2. CASE optimizeConstants
    <3>1. tree' = WithConstants(tree) /\ written' = written /\ stage = "parsed"
      BY <2>2 DEF optimizeConstants
    <3>2. WithConstantsOk(tree)
      BY WithConstantsKeeps DEF ConditionInv
    <3>3. WithConstants(tree) \in Conditions
      BY <1>0, <3>2 DEF WithConstantsOk, ConditionInv, Conditions
    <3> QED BY <2>0, <3>1, <3>2, <3>3 DEF ConditionInv, WithConstantsOk
  <2>3. CASE optimizeConditions
    <3>1. tree' = Flattened(tree) /\ written' = written /\ stage = "folded" /\ stage' = "flat"
      BY <2>3 DEF optimizeConditions
    <3>2. FlattenedOk(tree)
      BY FlattenedKeeps DEF ConditionInv
    <3>3. Flattened(tree) \in Conditions
      BY <1>0, <3>2 DEF FlattenedOk, ConditionInv, Conditions
    <3> QED BY <2>0, <3>1, <3>2, <3>3 DEF ConditionInv, FlattenedOk
  <2>4. CASE CrashInErased
    BY <2>0, <2>4 DEF CrashInErased, ConditionInv
  <2>5. CASE optimizeTableReads
    BY <2>0, <2>5 DEF optimizeTableReads, ConditionInv
  <2>6. CASE Execute
    BY <2>0, <2>6 DEF Execute, ConditionInv
  <2>7. CASE Done
    BY <2>0, <2>7, TrivialCondition DEF Done, ConditionInv
  <2>8. CASE UNCHANGED vars
    BY <2>8 DEF vars, ConditionInv
  <2> QED BY <2>1, <2>2, <2>3, <2>4, <2>5, <2>6, <2>7, <2>8 DEF Next
<1> QED BY <1>1, <1>2, PTL DEF Spec

(* A condition means the same after every optimizer as it did when it was    *)
(* written, for trees of any depth and width and rows of any values, but for  *)
(* an OR in an OR.                                                            *)
THEOREM MeaningKept == Spec => []SameMeaning
<1>1. ConditionInv => SameMeaning
  <2> SUFFICES ASSUME ConditionInv PROVE SameMeaning
    OBVIOUS
  <2>1. \A r \in DOMAIN table.rows : table.rows[r] \in Seq(Int)
    BY RowsAreIntegers DEF ConditionInv
  <2> QED BY <2>1 DEF ConditionInv, SameMeaning
<1> QED BY <1>1, ConditionInvHolds, PTL

-----------------------------------------------------------------------------
(* The plans, and what they read. *)

ScanBounds == [from : Seq(Int), to : Seq(Int), incFrom : BOOLEAN, incTo : BOOLEAN]
PlanLevel(f, n) ==
  {ReadTable}
    \cup [k : {"scan"}, index : Nat, bounds : ScanBounds]
    \cup (IF n = 0 THEN {}
          ELSE [k : {"filter"}, cond : Conditions, source : f[n - 1]]
                 \cup [k : {"union"}, sources : Seq(f[n - 1])])

\* The levels of the plans satisfy their equation.
LEMMA PlansOfExists == PlansOf = [n \in 0..Nesting |-> PlanLevel(PlansOf, n)]
<1> DEFINE Up == {m \in Nat : \E f : f = [n \in 0..m |-> PlanLevel(f, n)]}
<1>1. 0 \in Up
  <2> DEFINE g == [n \in 0..0 |-> PlanLevel(<<>>, n)]
  <2>1. g = [n \in 0..0 |-> PlanLevel(g, n)]
    BY DEF PlanLevel
  <2> QED BY <2>1
<1>2. ASSUME NEW m \in Nat, m \in Up PROVE m + 1 \in Up
  <2>1. PICK f : f = [n \in 0..m |-> PlanLevel(f, n)]
    BY <1>2
  <2> DEFINE g == [n \in 0..(m + 1) |-> PlanLevel(f, n)]
  <2>2. \A n \in 0..m : g[n] = f[n]
    BY <2>1
  <2>3. \A n \in 0..(m + 1) : PlanLevel(f, n) = PlanLevel(g, n)
    <3> TAKE n \in 0..(m + 1)
    <3> HIDE DEF g
    <3>1. n # 0 => n - 1 \in 0..m
      BY <1>2
    <3>2. n # 0 => f[n - 1] = g[n - 1]
      BY <2>2, <3>1, Zenon
    <3> QED BY <3>2, Zenon DEF PlanLevel
  <2>4. g = [n \in 0..(m + 1) |-> PlanLevel(g, n)]
    BY <2>3, Zenon
  <2>5. \E h : h = [n \in 0..(m + 1) |-> PlanLevel(h, n)]
    BY <2>4, Zenon
  <2> QED BY <1>2, <2>5
<1>3. Nesting \in Up
  <2> HIDE DEF Up
  <2>1. \A n \in 0..Nesting : n \in Up
    BY <1>1, <1>2, Upwards, NestingAssumption
  <2> QED BY <2>1, NestingAssumption
<1> QED
  BY <1>3 DEF PlansOf, PlanLevel, ScanBounds

\* A level has the plans of the one before.
LEMMA PlanLevels ==
  ASSUME NEW n \in 0..Nesting
  PROVE  /\ PlansOf[n] = PlanLevel(PlansOf, n)
         /\ n > 0 => PlansOf[n - 1] \subseteq PlansOf[n]
<1>1. \A m \in 0..Nesting : PlansOf[m] = PlanLevel(PlansOf, m)
  BY PlansOfExists, Zenon
<1> DEFINE S == {m \in Nat : m > 0 /\ m <= Nesting => PlansOf[m - 1] \subseteq PlansOf[m]}
<1>2. 0 \in S
  OBVIOUS
<1>3. ASSUME NEW m \in 0..Nesting, m < Nesting, m \in S PROVE m + 1 \in S
  <2>1. m + 1 \in 0..Nesting /\ (m + 1) - 1 = m /\ m + 1 # 0
    BY <1>3, NestingAssumption
  <2>2. CASE m = 0
    <3>1. PlanLevel(PlansOf, 0) \subseteq PlanLevel(PlansOf, 1)
      BY DEF PlanLevel
    <3> QED BY <3>1, <1>1, <2>1, <2>2
  <2>3. CASE m # 0
    <3>1. PlansOf[m - 1] \subseteq PlansOf[m]
      BY <1>3, <2>3
    <3>2. Seq(PlansOf[m - 1]) \subseteq Seq(PlansOf[m])
      BY <3>1
    <3>3. PlanLevel(PlansOf, m) \subseteq PlanLevel(PlansOf, m + 1)
      <4>1. [k : {"union"}, sources : Seq(PlansOf[m - 1])] \subseteq [k : {"union"}, sources : Seq(PlansOf[m])]
        BY <3>2, Zenon
      <4>2. [k : {"filter"}, cond : Conditions, source : PlansOf[m - 1]]
              \subseteq [k : {"filter"}, cond : Conditions, source : PlansOf[m]]
        BY <3>1, Zenon
      <4> QED BY <4>1, <4>2, <2>1, <2>3 DEF PlanLevel
    <3> QED BY <3>3, <1>1, <2>1
  <2> QED BY <2>2, <2>3
<1>4. \A m \in 0..Nesting : m \in S
  <2> HIDE DEF S
  <2> QED BY <1>2, <1>3, NestingAssumption, Upwards
<1> QED
  BY <1>1, <1>4

\* A plan reads the table, or scans an index, or reads plans a level deeper.
LEMMA PlanCases ==
  ASSUME NEW n \in 0..Nesting, NEW x \in PlansOf[n]
  PROVE  \/ x = ReadTable /\ x.k = "read"
         \/ x.k = "scan" /\ x.index \in Nat /\ x.bounds \in ScanBounds
         \/ /\ x.k = "filter" /\ n > 0 /\ n - 1 \in 0..Nesting
            /\ x.cond \in Conditions /\ x.source \in PlansOf[n - 1]
         \/ /\ x.k = "union" /\ n > 0 /\ n - 1 \in 0..Nesting
            /\ x.sources \in Seq(PlansOf[n - 1])
<1>1. x \in PlanLevel(PlansOf, n)
  BY PlanLevels
<1>2. CASE x \in [k : {"scan"}, index : Nat, bounds : ScanBounds]
  BY <1>2
<1>3. CASE n # 0 /\ x \in [k : {"filter"}, cond : Conditions, source : PlansOf[n - 1]]
  <2>1. n > 0 /\ n - 1 \in 0..Nesting
    BY <1>3, NestingAssumption
  <2> QED BY <1>3, <2>1
<1>4. CASE n # 0 /\ x \in [k : {"union"}, sources : Seq(PlansOf[n - 1])]
  <2>1. n > 0 /\ n - 1 \in 0..Nesting
    BY <1>4, NestingAssumption
  <2> QED BY <1>4, <2>1
<1>5. CASE x = ReadTable
  BY <1>5 DEF ReadTable
<1> QED
  BY <1>1, <1>2, <1>3, <1>4, <1>5 DEF PlanLevel

\* Plans can be built from those a level deeper.
LEMMA PlanBuilt ==
  ASSUME NEW n \in 0..Nesting
  PROVE  /\ ReadTable \in PlansOf[n]
         /\ \A i \in Nat : \A b \in ScanBounds : [k |-> "scan", index |-> i, bounds |-> b] \in PlansOf[n]
         /\ n > 0 => \A c \in Conditions : \A p \in PlansOf[n - 1] : Filter(c, p) \in PlansOf[n]
         /\ n > 0 => \A ps \in Seq(PlansOf[n - 1]) : Union(ps) \in PlansOf[n]
<1>1. PlansOf[n] = PlanLevel(PlansOf, n)
  BY PlanLevels
<1>2. ReadTable \in PlanLevel(PlansOf, n)
  BY DEF PlanLevel
<1>3. ASSUME NEW i \in Nat, NEW b \in ScanBounds
      PROVE  [k |-> "scan", index |-> i, bounds |-> b] \in PlanLevel(PlansOf, n)
  BY DEF PlanLevel
<1>4. ASSUME n > 0, NEW c \in Conditions, NEW p \in PlansOf[n - 1]
      PROVE  Filter(c, p) \in PlanLevel(PlansOf, n)
  <2>1. Filter(c, p) \in [k : {"filter"}, cond : Conditions, source : PlansOf[n - 1]]
    BY DEF Filter
  <2>2. n # 0
    BY <1>4
  <2> QED BY <2>1, <2>2, Zenon DEF PlanLevel
<1>5. ASSUME n > 0, NEW ps \in Seq(PlansOf[n - 1])
      PROVE  Union(ps) \in PlanLevel(PlansOf, n)
  <2>1. Union(ps) \in [k : {"union"}, sources : Seq(PlansOf[n - 1])]
    BY DEF Union
  <2>2. n # 0
    BY <1>5
  <2> QED BY <2>1, <2>2, Zenon DEF PlanLevel
<1> QED BY <1>1, <1>2, <1>3, <1>4, <1>5

\* A level has the plans of all before.
LEMMA PlansRise ==
  /\ \A n \in 0..Nesting : PlansOf[n] \subseteq AllPlans
  /\ \A m, n \in 0..Nesting : m <= n => PlansOf[m] \subseteq PlansOf[n]
<1>1. ASSUME NEW m \in 0..Nesting
      PROVE \A n \in 0..Nesting : m <= n => PlansOf[m] \subseteq PlansOf[n]
  <2> DEFINE Up == {n \in Nat : n <= Nesting /\ m <= n => PlansOf[m] \subseteq PlansOf[n]}
  <2>1. 0 \in Up
    OBVIOUS
  <2>2. ASSUME NEW n \in 0..Nesting, n < Nesting, n \in Up PROVE n + 1 \in Up
    <3>1. n + 1 \in 0..Nesting /\ (n + 1) - 1 = n /\ n + 1 > 0
      BY <2>2, NestingAssumption
    <3>2. PlansOf[n] \subseteq PlansOf[n + 1]
      BY <3>1, PlanLevels
    <3> QED BY <2>2, <3>1, <3>2
  <2>3. \A n \in 0..Nesting : n \in Up
    <3> HIDE DEF Up
    <3> QED BY <2>1, <2>2, Upwards, NestingAssumption
  <2> QED BY <2>3
<1> QED
  BY <1>1, NestingAssumption DEF AllPlans

ReadBody(f, q, t) ==
  IF q.k = "filter" THEN [rows |-> Kept(f[q.source].rows, Meeting(t, q.cond)),
                          wild |-> f[q.source].wild]
  ELSE IF q.k = "union" THEN United([i \in DOMAIN q.sources |-> f[q.sources[i]]])
  ELSE Source(t, q)

\* The recursive function that reads a plan exists.
LEMMA ReadExists ==
  ASSUME NEW t
  PROVE  \E f : f = [x \in AllPlans |-> ReadBody(f, x, t)]
<1> DEFINE Up == {m \in Nat : m <= Nesting => \E f : f = [x \in PlansOf[m] |-> ReadBody(f, x, t)]}
<1>1. 0 \in Up
  <2> DEFINE g == [x \in PlansOf[0] |-> ReadBody(<<>>, x, t)]
  <2>1. \A x \in PlansOf[0] : ReadBody(<<>>, x, t) = ReadBody(g, x, t)
    <3> TAKE x \in PlansOf[0]
    <3>1. 0 \in 0..Nesting
      BY NestingAssumption
    <3>2. x.k \in {"read", "scan"}
      BY <3>1, PlanCases
    <3>3. x.k # "filter" /\ x.k # "union"
      BY <3>2
    <3> QED BY <3>3, Zenon DEF ReadBody
  <2>2. g = [x \in PlansOf[0] |-> ReadBody(g, x, t)]
    BY <2>1, Zenon
  <2> QED BY <2>2
<1>2. ASSUME NEW m \in 0..Nesting, m < Nesting, m \in Up PROVE m + 1 \in Up
  <2>1. PICK f : f = [x \in PlansOf[m] |-> ReadBody(f, x, t)]
    BY <1>2
  <2>0. m + 1 \in 0..Nesting /\ (m + 1) - 1 = m /\ m + 1 > 0
    BY <1>2, NestingAssumption
  <2> DEFINE g == [x \in PlansOf[m + 1] |-> ReadBody(f, x, t)]
  <2>2. \A x \in PlansOf[m] : g[x] = f[x]
    <3>1. PlansOf[m] \subseteq PlansOf[m + 1]
      BY <2>0, PlanLevels
    <3> QED BY <2>1, <3>1, Zenon
  <2>3. \A x \in PlansOf[m + 1] : ReadBody(f, x, t) = ReadBody(g, x, t)
    <3> TAKE x \in PlansOf[m + 1]
    <3> HIDE DEF g
    <3>1. x.k = "filter" => f[x.source] = g[x.source]
      <4>1. x.k = "filter" => x.source \in PlansOf[m]
        BY <2>0, PlanCases
      <4> QED BY <2>2, <4>1
    <3>2. x.k = "union" => [i \in DOMAIN x.sources |-> f[x.sources[i]]]
                             = [i \in DOMAIN x.sources |-> g[x.sources[i]]]
      <4>1. x.k = "union" => \A i \in DOMAIN x.sources : x.sources[i] \in PlansOf[m]
        <5>1. x.k = "union" => x.sources \in Seq(PlansOf[m])
          BY <2>0, PlanCases
        <5> QED BY <5>1
      <4>2. x.k = "union" => \A i \in DOMAIN x.sources : f[x.sources[i]] = g[x.sources[i]]
        BY <2>2, <4>1
      <4> QED BY <4>2, Zenon
    <3> QED BY <3>1, <3>2, Zenon DEF ReadBody
  <2>4. g = [x \in PlansOf[m + 1] |-> ReadBody(g, x, t)]
    BY <2>3, Zenon
  <2>5. \E h : h = [x \in PlansOf[m + 1] |-> ReadBody(h, x, t)]
    BY <2>4, Zenon
  <2> QED BY <1>2, <2>5
<1>3. Nesting \in Up
  <2> HIDE DEF Up
  <2> QED BY <1>1, <1>2, Upwards, NestingAssumption
<1> QED
  BY <1>3, NestingAssumption DEF AllPlans

\* What a plan reads by what the plans in it read.
LEMMA ReadIs ==
  ASSUME NEW t, NEW x \in AllPlans
  PROVE  Read(t, x) = IF x.k = "filter"
         THEN [rows |-> Kept(Read(t, x.source).rows, Meeting(t, x.cond)), wild |-> Read(t, x.source).wild]
         ELSE IF x.k = "union" THEN United([i \in DOMAIN x.sources |-> Read(t, x.sources[i])])
         ELSE Source(t, x)
<1> DEFINE read == CHOOSE f : f = [y \in AllPlans |-> ReadBody(f, y, t)]
<1>1. read = [y \in AllPlans |-> ReadBody(read, y, t)]
  BY ReadExists, Zenon
<1>2. \A y : Read(t, y) = read[y]
  BY Zenon DEF Read, ReadBody
<1>3. read[x] = ReadBody(read, x, t)
  <2> HIDE DEF read
  <2> QED BY <1>1, Zenon
<1> HIDE DEF read
<1> QED BY <1>2, <1>3 DEF ReadBody

-----------------------------------------------------------------------------
(* Keys and their order. *)

\* Min() and Max() are in the set.
LEMMA MinIs ==
  ASSUME NEW S \in SUBSET Nat, S # {}
  PROVE  Min(S) \in S /\ \A y \in S : Min(S) <= y
<1>1. \E m \in S : \A n \in S : m <= n
  BY Least
<1> QED BY <1>1, Zenon DEF Min

\* The greatest of a set of bounded numbers.
LEMMA MaxIs ==
  ASSUME NEW N \in Nat, NEW S \in SUBSET (0..N), S # {}
  PROVE  Max(S) \in S
<1> DEFINE D == {d \in 0..N : N - d \in S}
<1>1. D \in SUBSET Nat /\ D # {}
  <2>1. PICK n \in S : TRUE
    OBVIOUS
  <2>2. n \in 0..N /\ N - n \in 0..N /\ N - (N - n) = n
    OBVIOUS
  <2> QED BY <2>1, <2>2
<1>2. PICK d \in D : \A e \in D : d <= e
  <2> HIDE DEF D
  <2> QED BY <1>1, Least
<1>3. ASSUME NEW y \in S PROVE N - d >= y
  <2>1. y \in 0..N /\ N - y \in 0..N /\ N - (N - y) = y
    OBVIOUS
  <2>2. N - y \in D
    BY <2>1
  <2>3. d <= N - y /\ d \in 0..N
    BY <1>2, <2>2
  <2> QED BY <2>1, <2>3
<1>4. \E x \in S : \A y \in S : x >= y
  <2>1. N - d \in S
    BY <1>2
  <2> QED BY <1>3, <2>1
<1> QED BY <1>4, Zenon DEF Max

\* One key of m fields comes before another.
KeyLess(a, b, m) ==
  \E d \in 1..m : a[d] < b[d] /\ \A e \in 1..(d - 1) : a[e] = b[e]

\* compareKeys() gives the sign of the keys' lexicographic order.
LEMMA CompareKeysIs ==
  ASSUME NEW m \in Nat, NEW a, NEW b, DOMAIN a = 1..m,
         \A f \in 1..m : a[f] \in Int /\ b[f] \in Int
  PROVE  /\ compareKeys(a, b) \in {-1, 0, 1}
         /\ compareKeys(a, b) < 0 <=> KeyLess(a, b, m)
         /\ compareKeys(a, b) > 0 <=> KeyLess(b, a, m)
         /\ compareKeys(a, b) = 0 <=> \A f \in 1..m : a[f] = b[f]
<1> DEFINE differ == {f \in DOMAIN a : a[f] # b[f]}
<1>1. compareKeys(a, b) = IF differ = {} THEN 0 ELSE compareValue(a[Min(differ)], b[Min(differ)])
  BY DEF compareKeys
<1>2. CASE differ = {}
  <2>1. compareKeys(a, b) = 0
    BY <1>1, <1>2
  <2>2. \A f \in 1..m : a[f] = b[f]
    BY <1>2
  <2>3. ~KeyLess(a, b, m) /\ ~KeyLess(b, a, m)
    BY <2>2 DEF KeyLess
  <2> QED BY <2>1, <2>2, <2>3
<1>3. CASE differ # {}
  <2>1. differ \in SUBSET Nat
    OBVIOUS
  <2>2. PICK d : d = Min(differ)
    OBVIOUS
  <2>3. d \in differ /\ \A y \in differ : d <= y
    <3> HIDE DEF differ
    <3> QED BY <1>3, <2>1, <2>2, MinIs
  <2>4. d \in 1..m /\ a[d] # b[d] /\ a[d] \in Int /\ b[d] \in Int
    BY <2>3
  <2>5. \A e \in 1..m : e < d => a[e] = b[e]
    <3> SUFFICES ASSUME NEW e \in 1..m, e < d, a[e] # b[e] PROVE FALSE
      OBVIOUS
    <3>1. e \in differ
      OBVIOUS
    <3>2. d <= e
      BY <2>3, <3>1
    <3> QED BY <2>4, <3>2
  <2>6. compareKeys(a, b) = compareValue(a[d], b[d])
    BY <1>1, <1>3, <2>2, Zenon
  <2> HIDE DEF differ
  <2>7. CASE a[d] < b[d]
    <3>1. compareKeys(a, b) = -1
      BY <2>6, <2>7 DEF compareValue
    <3>2. KeyLess(a, b, m)
      BY <2>4, <2>5, <2>7 DEF KeyLess
    <3>3. ~KeyLess(b, a, m)
      <4> SUFFICES ASSUME NEW e \in 1..m, b[e] < a[e], \A x \in 1..(e - 1) : b[x] = a[x] PROVE FALSE
        BY DEF KeyLess
      <4>1. d <= e
        BY <2>4, <2>5
      <4> QED BY <2>4, <2>7, <4>1
    <3> QED BY <3>1, <3>2, <3>3, <2>4
  <2>8. CASE b[d] < a[d]
    <3>1. compareKeys(a, b) = 1
      BY <2>4, <2>6, <2>8 DEF compareValue
    <3>2. KeyLess(b, a, m)
      BY <2>4, <2>5, <2>8 DEF KeyLess
    <3>3. ~KeyLess(a, b, m)
      <4> SUFFICES ASSUME NEW e \in 1..m, a[e] < b[e], \A x \in 1..(e - 1) : a[x] = b[x] PROVE FALSE
        BY DEF KeyLess
      <4>1. d <= e
        BY <2>4, <2>5
      <4> QED BY <2>4, <2>8, <4>1
    <3> QED BY <3>1, <3>2, <3>3, <2>4
  <2> QED BY <2>4, <2>7, <2>8
<1> QED BY <1>2, <1>3

\* The order of keys is transitive.
LEMMA KeyLessTransitive ==
  ASSUME NEW m \in Nat, NEW a, NEW b, NEW c,
         \A f \in 1..m : a[f] \in Int /\ b[f] \in Int /\ c[f] \in Int,
         KeyLess(a, b, m), KeyLess(b, c, m)
  PROVE  KeyLess(a, c, m)
<1>1. PICK d \in 1..m : a[d] < b[d] /\ \A x \in 1..(d - 1) : a[x] = b[x]
  BY DEF KeyLess
<1>2. PICK e \in 1..m : b[e] < c[e] /\ \A x \in 1..(e - 1) : b[x] = c[x]
  BY DEF KeyLess
<1>3. CASE d <= e
  <2>1. a[d] < c[d]
    BY <1>1, <1>2, <1>3
  <2>2. \A x \in 1..(d - 1) : a[x] = c[x]
    BY <1>1, <1>2, <1>3
  <2> QED BY <2>1, <2>2 DEF KeyLess
<1>4. CASE e < d
  <2>1. a[e] < c[e]
    BY <1>1, <1>2, <1>4
  <2>2. \A x \in 1..(e - 1) : a[x] = c[x]
    BY <1>1, <1>2, <1>4
  <2> QED BY <2>1, <2>2 DEF KeyLess
<1> QED BY <1>3, <1>4

\* What a comparison that an index can use says of a row.
LEMMA TermKinds ==
  ASSUME NEW x \in Terms
  PROVE  /\ x.k = "const" => x.v \in Int
         /\ x.k = "column" => x.id \in Nat
<1>1. Nesting \in 0..Nesting /\ x \in TermsOf[Nesting]
  BY NestingAssumption DEF Terms
<1> QED BY <1>1, TermCases

OneSided == {{1}, {0, 1}, {-1}, {-1, 0}, {0}}

\* The comparison, turned around if need be, holds of the column.
LEMMA FacingHolds ==
  ASSUME NEW c \in Conditions, NEW col, fitsWith(c, col)
  PROVE  /\ Bound(c) \in Int /\ Facing(c) \in OneSided
         /\ 0 \in Facing(c) <=> 0 \in c.cmp
         /\ \A row \in Seq(Int) : col \in DOMAIN row =>
              (Holds(c, row) <=> compareValue(row[col], Bound(c)) \in Facing(c))
<1>1. c.k = "cmp" /\ c.cmp # NotEqual /\ {c.left.k, c.right.k} = {"const", "column"}
      /\ col = IF c.left.k = "column" THEN c.left.id ELSE c.right.id
  BY DEF fitsWith
<1>2. c.left \in Terms /\ c.right \in Terms /\ c.cmp \in Orders
  BY <1>1, ConditionKinds
<1>3. ASSUME NEW row
      PROVE  Holds(c, row) <=> compareValue(ValueOf(c.left, row), ValueOf(c.right, row)) \in c.cmp
  BY <1>1, HoldsIs DEF Compares
<1>4. c.cmp \in {{-1}, {0}, {1}, {-1, 0}, {0, 1}}
  BY <1>1, <1>2 DEF Orders, Less, Equal, Greater, LessOrEqual, GreaterOrEqual, NotEqual
<1>6. CASE c.left.k = "const" /\ c.right.k = "column"
  <2>1. c.left.v \in Int /\ Bound(c) = c.left.v /\ col = c.right.id /\ Facing(c) = {-x : x \in c.cmp}
    BY <1>1, <1>2, <1>6, TermKinds DEF Bound, Facing
  <2>3. PICK v : v = c.left.v /\ v \in Int
    BY <2>1
  <2>6. ASSUME NEW row \in Seq(Int), col \in DOMAIN row
        PROVE  Holds(c, row) <=> compareValue(row[col], v) \in {-x : x \in c.cmp}
    <3>2. ValueOf(c.left, row) = c.left.v /\ ValueOf(c.right, row) = row[col]
      BY <1>2, <1>6, <2>1, <2>6, ValueOfIs DEF Leaf, Field
    <3>3. row[col] \in Int
      BY <2>6
    <3>4. compareValue(row[col], v) = -compareValue(v, row[col]) /\ compareValue(v, row[col]) \in {-1, 0, 1}
      BY <2>3, <3>3 DEF compareValue
    <3>5. Holds(c, row) <=> compareValue(v, row[col]) \in c.cmp
      BY <1>3, <2>3, <3>2
    <3>6. PICK y, z : y = compareValue(v, row[col]) /\ z = compareValue(row[col], v)
      OBVIOUS
    <3>7. y \in c.cmp <=> z \in {-x : x \in c.cmp}
      <4>1. z = -y /\ y \in {-1, 0, 1} /\ \A x \in c.cmp : x \in {-1, 0, 1}
        BY <1>4, <3>4, <3>6
      <4> QED BY <4>1
    <3> QED BY <3>5, <3>6, <3>7
  <2>7. {-x : x \in c.cmp} \in OneSided
    <3>1. CASE c.cmp = {-1}
      <4>1. {-x : x \in {-1}} = {1}
        OBVIOUS
      <4> QED BY <3>1, <4>1 DEF OneSided
    <3>2. CASE c.cmp = {0}
      <4>1. {-x : x \in {0}} = {0}
        OBVIOUS
      <4> QED BY <3>2, <4>1 DEF OneSided
    <3>3. CASE c.cmp = {1}
      <4>1. {-x : x \in {1}} = {-1}
        OBVIOUS
      <4> QED BY <3>3, <4>1 DEF OneSided
    <3>4. CASE c.cmp = {-1, 0}
      <4>1. {-x : x \in {-1, 0}} = {0, 1}
        OBVIOUS
      <4> QED BY <3>4, <4>1 DEF OneSided
    <3>5. CASE c.cmp = {0, 1}
      <4>1. {-x : x \in {0, 1}} = {-1, 0}
        OBVIOUS
      <4> QED BY <3>5, <4>1 DEF OneSided
    <3> QED BY <1>4, <3>1, <3>2, <3>3, <3>4, <3>5
  <2>8. 0 \in {-x : x \in c.cmp} <=> 0 \in c.cmp
    <3>1. \A x \in c.cmp : x \in {-1, 0, 1}
      BY <1>4
    <3> QED BY <3>1
  <2> QED BY <2>1, <2>3, <2>6, <2>7, <2>8
<1>7. CASE c.left.k = "column" /\ c.right.k = "const"
  <2>1. c.right.v \in Int /\ Bound(c) = c.right.v /\ col = c.left.id /\ Facing(c) = c.cmp
    BY <1>1, <1>2, <1>7, TermKinds DEF Bound, Facing
  <2>2. ASSUME NEW row \in Seq(Int), col \in DOMAIN row
        PROVE  Holds(c, row) <=> compareValue(row[col], c.right.v) \in c.cmp
    <3>1. ValueOf(c.right, row) = c.right.v /\ ValueOf(c.left, row) = row[col]
      BY <1>2, <1>7, <2>1, <2>2, ValueOfIs DEF Leaf, Field
    <3> QED BY <1>3, <3>1
  <2> QED BY <1>4, <2>1, <2>2 DEF OneSided
<1>8. (c.left.k = "const" /\ c.right.k = "column") \/ (c.left.k = "column" /\ c.right.k = "const")
  <2>1. c.left.k \in {"const", "column"} /\ c.right.k \in {"const", "column"}
        /\ "const" \in {c.left.k, c.right.k} /\ "column" \in {c.left.k, c.right.k}
    BY <1>1
  <2> QED BY <2>1
<1> QED BY <1>6, <1>7, <1>8

-----------------------------------------------------------------------------
(* The bounds of a scan. *)

Leading(columns) ==
  columns \in Seq(Nat) /\ columns # <<>> /\ \A f \in DOMAIN columns : columns[f] = f
BoundsOk(b, m) ==
  /\ b \in ScanBounds
  /\ DOMAIN b.from = 1..m /\ DOMAIN b.to = 1..m

\* A row that a scan must not miss: within the bounds in every field, and strictly
\* in one where the bounds themselves are left out.
Inside(b, row, m) ==
  /\ \A f \in 1..m : b.from[f] <= row[f] /\ row[f] <= b.to[f]
  /\ b.incFrom \/ \E f \in 1..m : b.from[f] < row[f]
  /\ b.incTo \/ \E f \in 1..m : row[f] < b.to[f]

RowOk(row, m) == row \in Seq((MinVal + 1)..(MaxVal - 1)) /\ 1..m \subseteq DOMAIN row

\* The values of a row are integers between the two bounds.
LEMMA RowOkIs ==
  ASSUME NEW m \in Nat, NEW row, RowOk(row, m)
  PROVE  /\ row \in Seq(Int)
         /\ \A f \in 1..m : row[f] \in Int /\ MinVal < row[f] /\ row[f] < MaxVal
<1> DEFINE Values == (MinVal + 1)..(MaxVal - 1)
<1>1. Values \subseteq Int /\ \A v \in Values : MinVal < v /\ v < MaxVal
  BY DEF MinVal, MaxVal
<1>2. row \in Seq(Values) /\ 1..m \subseteq DOMAIN row
  BY DEF RowOk
<1> HIDE DEF Values
<1>3. row \in Seq(Int)
  BY <1>1, <1>2, SeqRises
<1>4. \A f \in 1..m : row[f] \in Values
  BY <1>2
<1> QED BY <1>1, <1>3, <1>4

\* The bounds of a scan begin with all rows inside.
LEMMA NoBoundsInside ==
  ASSUME NEW columns, Leading(columns), NEW m, m = Len(columns)
  PROVE  /\ m \in Nat /\ BoundsOk(NoBounds(columns), m)
         /\ \A row : RowOk(row, m) => Inside(NoBounds(columns), row, m)
<1>1. m \in Nat /\ m >= 1 /\ DOMAIN columns = 1..m
  BY DEF Leading
<1>2. NoBounds(columns) = [from |-> [f \in 1..m |-> MinVal], to |-> [f \in 1..m |-> MaxVal],
                           incFrom |-> FALSE, incTo |-> FALSE]
  BY <1>1 DEF NoBounds
<1>3. PICK b : b = NoBounds(columns)
  OBVIOUS
<1>4. b.from = [f \in 1..m |-> MinVal] /\ b.to = [f \in 1..m |-> MaxVal]
      /\ b.incFrom = FALSE /\ b.incTo = FALSE
      /\ b = [from |-> b.from, to |-> b.to, incFrom |-> b.incFrom, incTo |-> b.incTo]
  BY <1>2, <1>3
<1>5. [f \in 1..m |-> MinVal] \in Seq(Int) /\ [f \in 1..m |-> MaxVal] \in Seq(Int)
  BY <1>1 DEF MinVal, MaxVal
<1>6. b \in ScanBounds
  BY <1>4, <1>5 DEF ScanBounds
<1>7. BoundsOk(b, m)
  BY <1>4, <1>6 DEF BoundsOk
<1>8. ASSUME NEW row, RowOk(row, m) PROVE Inside(b, row, m)
  <2>1. \A f \in 1..m : row[f] \in Int /\ MinVal < row[f] /\ row[f] < MaxVal
    BY <1>1, <1>8, RowOkIs
  <2>2. \A f \in 1..m : b.from[f] = MinVal /\ b.to[f] = MaxVal
    BY <1>4
  <2>3. 1 \in 1..m
    BY <1>1
  <2> QED BY <2>1, <2>2, <2>3 DEF Inside, MinVal, MaxVal
<1> QED BY <1>1, <1>3, <1>7, <1>8

\* Narrowing the bounds by a comparison keeps the rows that meet it inside.
LEMMA NarrowedInside ==
  ASSUME NEW m \in Nat, NEW b, BoundsOk(b, m), NEW f \in 1..m,
         NEW c \in Conditions, fitsWith(c, f)
  PROVE  /\ BoundsOk(Narrowed(b, c, f), m)
         /\ \A row : RowOk(row, m) /\ Inside(b, row, m) /\ Holds(c, row) =>
              Inside(Narrowed(b, c, f), row, m)
<1>1. PICK v : v = Bound(c)
  OBVIOUS
<1>2. PICK signs : signs = Facing(c)
  OBVIOUS
<1>3. v \in Int /\ signs \in OneSided
  BY <1>1, <1>2, FacingHolds
<1>4. b.from \in Seq(Int) /\ b.to \in Seq(Int) /\ b.incFrom \in BOOLEAN /\ b.incTo \in BOOLEAN
      /\ DOMAIN b.from = 1..m /\ DOMAIN b.to = 1..m
  BY DEF BoundsOk, ScanBounds
<1> DEFINE raise == (1 \in signs \/ signs = Equal) /\ compareValue(b.from[f], v) < 0
<1> DEFINE lower == (-1 \in signs \/ signs = Equal) /\ compareValue(b.to[f], v) > 0
<1>5. PICK n : n = Narrowed(b, c, f)
  OBVIOUS
<1>6. /\ n = [from |-> n.from, incFrom |-> n.incFrom, to |-> n.to, incTo |-> n.incTo]
      /\ n.from = IF raise THEN [b.from EXCEPT ![f] = v] ELSE b.from
      /\ n.incFrom = IF raise THEN 0 \in signs ELSE b.incFrom
      /\ n.to = IF lower THEN [b.to EXCEPT ![f] = v] ELSE b.to
      /\ n.incTo = IF lower THEN 0 \in signs ELSE b.incTo
  BY <1>1, <1>2, <1>5 DEF Narrowed
<1>7. /\ [b.from EXCEPT ![f] = v] \in Seq(Int) /\ DOMAIN [b.from EXCEPT ![f] = v] = 1..m
      /\ [b.to EXCEPT ![f] = v] \in Seq(Int) /\ DOMAIN [b.to EXCEPT ![f] = v] = 1..m
  <2>1. ASSUME NEW s \in Seq(Int), DOMAIN s = 1..m
        PROVE  [s EXCEPT ![f] = v] \in Seq(Int) /\ DOMAIN [s EXCEPT ![f] = v] = 1..m
    BY <1>3, <2>1
  <2> QED BY <1>4, <2>1
<1>8. BoundsOk(n, m)
  <2>1. n.from \in Seq(Int) /\ DOMAIN n.from = 1..m /\ n.to \in Seq(Int) /\ DOMAIN n.to = 1..m
        /\ n.incFrom \in BOOLEAN /\ n.incTo \in BOOLEAN
    <3> HIDE DEF raise, lower
    <3>1. n.from \in Seq(Int) /\ DOMAIN n.from = 1..m
      BY <1>4, <1>6, <1>7, Zenon
    <3>2. n.to \in Seq(Int) /\ DOMAIN n.to = 1..m
      BY <1>4, <1>6, <1>7, Zenon
    <3>3. (0 \in signs) \in BOOLEAN
      OBVIOUS
    <3>4. n.incFrom \in BOOLEAN /\ n.incTo \in BOOLEAN
      BY <1>4, <1>6, <3>3, Zenon
    <3> QED BY <3>1, <3>2, <3>4
  <2>2. n \in ScanBounds
    BY <1>6, <2>1 DEF ScanBounds
  <2> QED BY <2>1, <2>2 DEF BoundsOk
<1>9. ASSUME NEW row, RowOk(row, m), Inside(b, row, m), Holds(c, row) PROVE Inside(n, row, m)
  <2>1. row \in Seq(Int) /\ f \in DOMAIN row /\ \A g \in 1..m : row[g] \in Int
    BY <1>9, RowOkIs DEF RowOk
  <2>2. compareValue(row[f], v) \in signs
    BY <1>1, <1>2, <1>9, <2>1, FacingHolds
  <2>3. \A g \in 1..m : b.from[g] \in Int /\ b.to[g] \in Int
    BY <1>4
  <2>4. /\ \A g \in 1..m : b.from[g] <= row[g] /\ row[g] <= b.to[g]
        /\ b.incFrom \/ \E g \in 1..m : b.from[g] < row[g]
        /\ b.incTo \/ \E g \in 1..m : row[g] < b.to[g]
    BY <1>9 DEF Inside
  <2>7. (\A g \in 1..m : n.from[g] <= row[g]) /\ (n.incFrom \/ \E g \in 1..m : n.from[g] < row[g])
    <3>1. CASE raise
      <4>1. signs \in {{1}, {0, 1}, {0}}
        BY <1>3, <3>1 DEF OneSided, Equal
      <4>2. v <= row[f] /\ (0 \in signs \/ v < row[f])
        BY <1>3, <2>1, <2>2, <4>1 DEF compareValue
      <4>3. \A g \in 1..m : n.from[g] = IF g = f THEN v ELSE b.from[g]
        BY <1>4, <1>6, <3>1
      <4>4. n.incFrom = (0 \in signs)
        BY <1>6, <3>1
      <4> QED BY <4>2, <4>3, <4>4, <2>4
    <3>2. CASE ~raise
      <4>1. n.from = b.from /\ n.incFrom = b.incFrom
        BY <1>6, <3>2
      <4> QED BY <4>1, <2>4
    <3> QED BY <3>1, <3>2
  <2>8. (\A g \in 1..m : row[g] <= n.to[g]) /\ (n.incTo \/ \E g \in 1..m : row[g] < n.to[g])
    <3>1. CASE lower
      <4>1. signs \in {{-1}, {-1, 0}, {0}}
        BY <1>3, <3>1 DEF OneSided, Equal
      <4>2. row[f] <= v /\ (0 \in signs \/ row[f] < v)
        BY <1>3, <2>1, <2>2, <4>1 DEF compareValue
      <4>3. \A g \in 1..m : n.to[g] = IF g = f THEN v ELSE b.to[g]
        BY <1>4, <1>6, <3>1
      <4>4. n.incTo = (0 \in signs)
        BY <1>6, <3>1
      <4> QED BY <4>2, <4>3, <4>4, <2>4
    <3>2. CASE ~lower
      <4>1. n.to = b.to /\ n.incTo = b.incTo
        BY <1>6, <3>2
      <4> QED BY <4>1, <2>4
    <3> QED BY <3>1, <3>2
  <2> QED BY <2>7, <2>8 DEF Inside
<1> QED BY <1>5, <1>8, <1>9

FieldChosen(c, cs, columns) == CHOOSE f \in FieldsOf(c, cs, columns) : TRUE
BoundsBody(f, cs, columns, n) ==
  IF n = 0 THEN NoBounds(columns)
  ELSE IF FieldsOf(cs[n], ToSet(cs), columns) = {} THEN f[n - 1]
       ELSE Narrowed(f[n - 1], cs[n], FieldChosen(cs[n], ToSet(cs), columns))
AllBounds(f, cs, columns) == [n \in 0..Len(cs) |-> BoundsBody(f, cs, columns, n)]

\* The recursive function of BoundsFor exists.
LEMMA BoundsExists ==
  ASSUME NEW cs \in Seq(Conditions), NEW columns
  PROVE  \E f : f = AllBounds(f, cs, columns)
<1> DEFINE Up == {m \in Nat : \E f : f = [n \in 0..m |-> BoundsBody(f, cs, columns, n)]}
<1>1. 0 \in Up
  <2> DEFINE g == [n \in 0..0 |-> BoundsBody(<<>>, cs, columns, n)]
  <2>1. g = [n \in 0..0 |-> BoundsBody(g, cs, columns, n)]
    BY DEF BoundsBody
  <2> QED BY <2>1
<1>2. ASSUME NEW m \in Nat, m \in Up PROVE m + 1 \in Up
  <2>1. PICK f : f = [n \in 0..m |-> BoundsBody(f, cs, columns, n)]
    BY <1>2
  <2> DEFINE g == [n \in 0..(m + 1) |-> BoundsBody(f, cs, columns, n)]
  <2>2. \A n \in 0..m : g[n] = f[n]
    BY <2>1
  <2>3. \A n \in 0..(m + 1) : BoundsBody(f, cs, columns, n) = BoundsBody(g, cs, columns, n)
    <3> TAKE n \in 0..(m + 1)
    <3> HIDE DEF g
    <3>1. n # 0 => n - 1 \in 0..m
      BY <1>2
    <3>2. n # 0 => f[n - 1] = g[n - 1]
      BY <2>2, <3>1, Zenon
    <3> QED BY <3>2, Zenon DEF BoundsBody
  <2>4. g = [n \in 0..(m + 1) |-> BoundsBody(g, cs, columns, n)]
    BY <2>3, Zenon
  <2>5. \E h : h = [n \in 0..(m + 1) |-> BoundsBody(h, cs, columns, n)]
    BY <2>4, Zenon
  <2> QED BY <1>2, <2>5
<1>3. Len(cs) \in Up
  <2> HIDE DEF Up
  <2>1. \A n \in 0..Len(cs) : n \in Up
    BY <1>1, <1>2, Upwards
  <2> QED BY <2>1
<1>4. \E f : f = [n \in 0..Len(cs) |-> BoundsBody(f, cs, columns, n)]
  BY <1>3
<1> QED
  BY <1>4, Zenon DEF AllBounds

\* The fields of an index that a comparison bounds are among those it has.
LEMMA FieldsOfIs ==
  ASSUME NEW columns, Leading(columns), NEW c, NEW cs, NEW f \in FieldsOf(c, cs, columns)
  PROVE  f \in 1..Len(columns) /\ fitsWith(c, f)
<1> DEFINE m == Len(columns)
<1>1. m \in Nat /\ m >= 1 /\ DOMAIN columns = 1..m
  BY DEF Leading
<1> DEFINE S == {h \in 1..m : \A g \in 1..(h - 1) : \E x \in cs : fitsWith(x, columns[g]) /\ x.cmp = Equal}
<1>2. BoundFields(cs, columns) = Max(S)
  BY DEF BoundFields
<1>3. 1 \in S /\ S \subseteq 1..m /\ S \in SUBSET (0..m)
  BY <1>1
<1>4. Max(S) \in 1..m
  <2> HIDE DEF S
  <2> QED BY <1>1, <1>3, MaxIs
<1>5. f \in 1..BoundFields(cs, columns) /\ fitsWith(c, columns[f])
  BY DEF FieldsOf
<1>6. f \in 1..m
  <2> HIDE DEF S
  <2> QED BY <1>1, <1>2, <1>4, <1>5
<1> QED BY <1>1, <1>5, <1>6 DEF Leading

\* The rows that meet all the conditions of a list are within its bounds.
LEMMA BoundsForInside ==
  ASSUME NEW columns, Leading(columns), NEW m, m = Len(columns), NEW cs \in Seq(Conditions)
  PROVE  /\ BoundsOk(BoundsFor(cs, columns), m)
         /\ \A row : RowOk(row, m) /\ (\A x \in ToSet(cs) : Holds(x, row)) =>
              Inside(BoundsFor(cs, columns), row, m)
<1> DEFINE bounds == CHOOSE f : f = [n \in 0..Len(cs) |-> BoundsBody(f, cs, columns, n)]
<1>0. \E f : f = [n \in 0..Len(cs) |-> BoundsBody(f, cs, columns, n)]
  BY BoundsExists, Zenon DEF AllBounds
<1>1. bounds = [n \in 0..Len(cs) |-> BoundsBody(bounds, cs, columns, n)]
  BY <1>0, Zenon
<1>2. BoundsFor(cs, columns) = bounds[Len(cs)]
  BY Zenon DEF BoundsFor, BoundsBody, FieldChosen
<1> HIDE DEF bounds
<1>3. \A n \in 0..Len(cs) : bounds[n] = BoundsBody(bounds, cs, columns, n)
  BY <1>1, Zenon
<1> DEFINE Fine(b) == BoundsOk(b, m) /\ \A row : RowOk(row, m) /\ (\A x \in ToSet(cs) : Holds(x, row)) =>
                                          Inside(b, row, m)
<1> DEFINE Up == {n \in Nat : n <= Len(cs) => Fine(bounds[n])}
<1>m. m \in Nat
  BY NoBoundsInside
<1>4. 0 \in Up
  <2>1. bounds[0] = NoBounds(columns)
    BY <1>3 DEF BoundsBody
  <2>2. Fine(NoBounds(columns))
    BY NoBoundsInside
  <2> HIDE DEF Fine
  <2> QED BY <2>1, <2>2
<1>5. ASSUME NEW n \in 0..Len(cs), n < Len(cs), n \in Up PROVE n + 1 \in Up
  <2>1. n + 1 \in 0..Len(cs) /\ n + 1 # 0 /\ (n + 1) - 1 = n /\ n + 1 \in DOMAIN cs
    BY <1>5
  <2>2. PICK c : c = cs[n + 1]
    OBVIOUS
  <2>3. c \in Conditions /\ c \in ToSet(cs)
    BY <2>1, <2>2 DEF ToSet
  <2>4. bounds[n + 1] = IF FieldsOf(c, ToSet(cs), columns) = {} THEN bounds[n]
                        ELSE Narrowed(bounds[n], c, FieldChosen(c, ToSet(cs), columns))
    BY <1>3, <2>1, <2>2 DEF BoundsBody
  <2>5. Fine(bounds[n])
    BY <1>5
  <2>6. CASE FieldsOf(c, ToSet(cs), columns) = {}
    <3> HIDE DEF Fine
    <3> QED BY <2>1, <2>4, <2>5, <2>6
  <2>7. CASE FieldsOf(c, ToSet(cs), columns) # {}
    <3>1. PICK f : f = FieldChosen(c, ToSet(cs), columns)
      OBVIOUS
    <3>2. f \in FieldsOf(c, ToSet(cs), columns)
      BY <2>7, <3>1 DEF FieldChosen
    <3>3. f \in 1..m /\ fitsWith(c, f)
      BY <3>2, FieldsOfIs
    <3>4. PICK b : b = bounds[n]
      OBVIOUS
    <3>5. Fine(b)
      BY <2>5, <3>4
    <3>6. Fine(Narrowed(b, c, f))
      BY <1>m, <2>3, <3>3, <3>5, NarrowedInside
    <3>7. bounds[n + 1] = Narrowed(b, c, f)
      BY <2>4, <2>7, <3>1, <3>4
    <3> HIDE DEF Fine
    <3> QED BY <2>1, <3>6, <3>7
  <2> QED BY <2>6, <2>7
<1>6. Len(cs) \in Up
  <2> HIDE DEF Up
  <2>0. Len(cs) \in Nat
    OBVIOUS
  <2>1. \A n \in 0..Len(cs) : n \in Up
    BY <2>0, <1>4, <1>5, Upwards
  <2> QED BY <2>1
<1> QED
  BY <1>2, <1>6

-----------------------------------------------------------------------------
(* The scan of an index. *)

\* What a scan comes to in an index of one leaf.
FirstSlot(t, i, key) == SlotOf(t, i, 0, key) + 1
LeafFirst(t, cells, start, b) ==
  Min({j \in start..(Len(cells) + 1) :
         j > Len(cells) \/ b.incFrom \/ compareKeys(b.from, t.rows[cells[j]]) # 0})
LeafEnd(t, cells, first, b) ==
  Min({j \in (first + 1)..(Len(cells) + 1) : j > Len(cells) \/ Past(b, t.rows[cells[j]])})
LeafScan(t, i, b) ==
  LET cells == t.indexes[i].cells
      start == FirstSlot(t, i, b.from)
      first == LeafFirst(t, cells, start, b)
  IN IF start > Len(cells) THEN [rows |-> <<>>, wild |-> TRUE]
     ELSE [rows |-> IF first > Len(cells) THEN <<>>
                    ELSE SubSeq(cells, first, LeafEnd(t, cells, first, b) - 1),
           wild |-> FALSE]

\* An index on the first m columns whose cells list the rows in strict order.
IndexOk(t, i, m) ==
  /\ Leading(t.indexes[i].columns) /\ m = Len(t.indexes[i].columns) /\ m \in Nat
  /\ t.indexes[i].cells \in Seq(Nat) /\ t.indexes[i].kids = <<>> /\ Len(t.indexes[i].nodes) \in Nat
  /\ \A r \in DOMAIN t.rows : RowOk(t.rows[r], m)
  /\ \A j \in 1..Len(t.indexes[i].cells) : t.indexes[i].cells[j] \in DOMAIN t.rows
  /\ \A r \in DOMAIN t.rows : \E j \in 1..Len(t.indexes[i].cells) : t.indexes[i].cells[j] = r
  /\ \A j \in 1..Len(t.indexes[i].cells) :
       /\ DOMAIN KeyAt(t, i, 0, j) = 1..m
       /\ \A f \in 1..m : KeyAt(t, i, 0, j)[f] = t.rows[t.indexes[i].cells[j]][f]
  /\ \A j, k \in 1..Len(t.indexes[i].cells) : j < k => KeyLess(KeyAt(t, i, 0, j), KeyAt(t, i, 0, k), m)

IntegerKeys(a, b, m) ==
  m \in Nat /\ DOMAIN a = 1..m /\ \A f \in 1..m : a[f] \in Int /\ b[f] \in Int
Agree(a, b, m) == \A f \in 1..m : a[f] = b[f]

\* Keys that compare as equal are equal.
LEMMA SameKey ==
  ASSUME NEW m, NEW a, NEW b, IntegerKeys(a, b, m), compareKeys(a, b) = 0
  PROVE  Agree(a, b, m)
BY CompareKeysIs DEF IntegerKeys, Agree

\* The premises make every index of a table such an index.
LEMMA IndexIsOk ==
  ASSUME PlainIndexes, NEW t \in Tables, NEW i \in DOMAIN t.indexes
  PROVE  IndexOk(t, i, Len(t.indexes[i].columns))
<1> DEFINE cells == t.indexes[i].cells
<1> DEFINE columns == t.indexes[i].columns
<1> DEFINE m == Len(columns)
<1> DEFINE N == Len(cells)
<1>1. /\ t.rows \in Seq(Seq((MinVal + 1)..(MaxVal - 1)))
      /\ t.indexes \in Seq(Trees)
      /\ columns # <<>>
      /\ \A r \in DOMAIN t.rows : ToSet(columns) \subseteq DOMAIN t.rows[r]
      /\ Listing(InOrder(t.indexes[i]), DOMAIN t.rows)
      /\ Sorted(t.rows, columns, InOrder(t.indexes[i]))
  BY TablesAssumption
<1>2. t.indexes[i] \in Trees
  BY <1>1
<1>3. columns \in Seq(Nat) /\ cells \in Seq(Nat) /\ Len(t.indexes[i].nodes) \in Nat
  BY <1>2 DEF Trees
<1>p. /\ LeadingColumns(t.indexes[i]) /\ DistinctKeys(t.rows, t.indexes[i])
      /\ NoNullKeys(t.rows, t.indexes[i]) /\ t.indexes[i].kids = <<>>
  BY DEF PlainIndexes, Plain
<1>l. Listing(cells, DOMAIN t.rows) /\ Sorted(t.rows, columns, cells)
  <2>1. InOrder(t.indexes[i]) = cells
    BY <1>p DEF InOrder
  <2> QED BY <1>1, <2>1
<1>4. Leading(columns)
  BY <1>1, <1>3, <1>p DEF Leading, LeadingColumns
<1>5. m \in Nat /\ N \in Nat /\ DOMAIN columns = 1..m /\ DOMAIN cells = 1..N
      /\ \A f \in 1..m : columns[f] = f
  BY <1>3, <1>4 DEF Leading
<1>6. ASSUME NEW r \in DOMAIN t.rows PROVE RowOk(t.rows[r], m)
  <2> DEFINE Values == (MinVal + 1)..(MaxVal - 1)
  <2>1. t.rows \in Seq(Seq(Values))
    BY <1>1
  <2>2. 1..m = ToSet(columns)
    BY <1>5 DEF ToSet
  <2>3. 1..m \subseteq DOMAIN t.rows[r]
    BY <1>1, <2>2
  <2>4. t.rows[r] \in Seq(Values)
    <3> HIDE DEF Values
    <3> QED BY <2>1
  <2> QED BY <2>3, <2>4 DEF RowOk
<1>7. /\ \A j \in 1..N : cells[j] \in DOMAIN t.rows
      /\ \A r \in DOMAIN t.rows : \E j \in 1..N : cells[j] = r
  <2>1. {cells[j] : j \in 1..N} = DOMAIN t.rows
    BY <1>l, <1>5 DEF Listing, ToSet
  <2> QED BY <2>1, Zenon
<1>8. ASSUME NEW j \in 1..N
      PROVE  DOMAIN KeyAt(t, i, 0, j) = 1..m /\ \A f \in 1..m : KeyAt(t, i, 0, j)[f] = t.rows[cells[j]][f]
  <2>1. KeyAt(t, i, 0, j) = [f \in 1..m |-> Stored(t.rows[cells[j]][columns[f]])]
    BY <1>5 DEF KeyAt, KeyOf, NodeOf
  <2>2. \A f \in 1..m : Stored(t.rows[cells[j]][columns[f]]) = t.rows[cells[j]][f]
    BY <1>5, <1>7, <1>p DEF NoNullKeys, Stored
  <2> QED BY <2>1, <2>2
<1>9. ASSUME NEW j \in 1..N, NEW k \in 1..N, j < k
      PROVE  KeyLess(KeyAt(t, i, 0, j), KeyAt(t, i, 0, k), m)
  <2>1. compareKeys(KeyAt(t, i, 0, j), KeyAt(t, i, 0, k)) <= 0
    BY <1>l, <1>5, <1>9 DEF Sorted, KeyAt, NodeOf
  <2>2. KeyAt(t, i, 0, j) # KeyAt(t, i, 0, k)
    <3>1. cells[j] # cells[k] /\ cells[j] \in DOMAIN t.rows /\ cells[k] \in DOMAIN t.rows
      BY <1>l, <1>5, <1>7, <1>9 DEF Listing
    <3> QED BY <1>p, <3>1 DEF DistinctKeys, KeyAt, NodeOf
  <2>3. PICK a, b : a = KeyAt(t, i, 0, j) /\ b = KeyAt(t, i, 0, k)
    OBVIOUS
  <2>4. DOMAIN a = 1..m /\ DOMAIN b = 1..m /\ \A f \in 1..m : a[f] \in Int /\ b[f] \in Int
    <3>1. \A f \in 1..m : t.rows[cells[j]][f] \in Int /\ t.rows[cells[k]][f] \in Int
      BY <1>5, <1>6, <1>7, RowOkIs, ZenonT(40)
    <3> QED BY <1>8, <2>3, <3>1
  <2>5. a = [f \in 1..m |-> a[f]] /\ b = [f \in 1..m |-> b[f]]
    <3>1. KeyAt(t, i, 0, j) = [f \in 1..m |-> Stored(t.rows[cells[j]][columns[f]])]
          /\ KeyAt(t, i, 0, k) = [f \in 1..m |-> Stored(t.rows[cells[k]][columns[f]])]
      BY <1>5 DEF KeyAt, KeyOf, NodeOf
    <3> QED BY <2>3, <3>1
  <2>6. ~\A f \in 1..m : a[f] = b[f]
    <3> SUFFICES ASSUME \A f \in 1..m : a[f] = b[f] PROVE a = b
      BY <2>2, <2>3
    <3> QED BY <2>5, Zenon
  <2>7. compareKeys(a, b) < 0
    <3> HIDE DEF m
    <3>0. /\ compareKeys(a, b) \in {-1, 0, 1}
          /\ compareKeys(a, b) = 0 <=> \A f \in 1..m : a[f] = b[f]
      BY <1>5, <2>4, CompareKeysIs, SMTT(40)
    <3>1. compareKeys(a, b) \in {-1, 0, 1} /\ compareKeys(a, b) # 0
      BY <2>6, <3>0
    <3> QED BY <2>1, <2>3, <3>1
  <2>8. KeyLess(a, b, m)
    <3> HIDE DEF m
    <3> QED BY <1>5, <2>4, <2>7, CompareKeysIs
  <2> QED BY <2>3, <2>8
<1> QED
  BY <1>3, <1>p, <1>4, <1>5, <1>6, <1>7, <1>8, <1>9, Zenon DEF IndexOk

\* The order of keys has no cycle.
LEMMA KeyLessAsymmetric ==
  ASSUME NEW m \in Nat, NEW a, NEW b, \A f \in 1..m : a[f] \in Int /\ b[f] \in Int,
         KeyLess(a, b, m)
  PROVE  ~KeyLess(b, a, m)
<1> SUFFICES ASSUME KeyLess(b, a, m) PROVE FALSE
  OBVIOUS
<1>1. KeyLess(a, a, m)
  BY KeyLessTransitive
<1> QED BY <1>1 DEF KeyLess

\* How far a binary search has come: the cells before are below the key, those
\* behind are not.
SearchOk(t, i, m, key, p) ==
  /\ p.left \in 0..Len(t.indexes[i].cells) /\ p.right \in 0..Len(t.indexes[i].cells)
  /\ p.left <= p.right
  /\ \A j \in 1..p.left : KeyLess(KeyAt(t, i, 0, j), key, m)
  /\ \A j \in (p.right + 1)..Len(t.indexes[i].cells) : ~KeyLess(KeyAt(t, i, 0, j), key, m)

\* Halving keeps it so, and comes closer to the end.
LEMMA HalvedOk ==
  ASSUME NEW t, NEW i, NEW m, IndexOk(t, i, m),
         NEW key, DOMAIN key = 1..m, \A f \in 1..m : key[f] \in Int,
         NEW p, SearchOk(t, i, m, key, p), p.left # p.right
  PROVE  /\ SearchOk(t, i, m, key, Halved(t, i, 0, key, p))
         /\ Halved(t, i, 0, key, p).right - Halved(t, i, 0, key, p).left < p.right - p.left
<1> DEFINE N == Len(t.indexes[i].cells)
<1>1. N \in Nat /\ m \in Nat
  BY DEF IndexOk
<1>2. PICK l, r : l = p.left /\ r = p.right
  OBVIOUS
<1>3. l \in 0..N /\ r \in 0..N /\ l < r
  BY <1>1, <1>2 DEF SearchOk
<1>4. PICK mid : mid = l + (r - l) \div 2
  OBVIOUS
<1>5. mid \in 0..N /\ l <= mid /\ mid < r /\ mid + 1 \in 1..N
  BY <1>1, <1>3, <1>4
<1>6. PICK k : k = KeyAt(t, i, 0, mid + 1)
  OBVIOUS
<1>7. \A j \in 1..N : \A f \in 1..m : KeyAt(t, i, 0, j)[f] \in Int
  <2>1. \A j \in 1..N : \A f \in 1..m : t.rows[t.indexes[i].cells[j]][f] \in Int
    BY <1>1, RowOkIs DEF IndexOk
  <2> QED BY <2>1 DEF IndexOk
<1>8. \A f \in 1..m : k[f] \in Int
  BY <1>5, <1>6, <1>7
<1>9. PICK result : result = compareKeys(key, k)
  OBVIOUS
<1>10. /\ result \in {-1, 0, 1}
       /\ result < 0 <=> KeyLess(key, k, m)
       /\ result > 0 <=> KeyLess(k, key, m)
       /\ result = 0 <=> \A f \in 1..m : key[f] = k[f]
  BY <1>1, <1>8, <1>9, CompareKeysIs
<1>11. PICK h : h = Halved(t, i, 0, key, p)
  OBVIOUS
<1>12. h = CASE result = 0 -> [left |-> mid, right |-> mid]
             [] result < 0 -> [left |-> l, right |-> mid]
             [] result > 0 -> [left |-> mid + 1, right |-> r]
  BY <1>2, <1>4, <1>6, <1>9, <1>11, Zenon DEF Halved
<1>13. /\ \A j \in 1..l : KeyLess(KeyAt(t, i, 0, j), key, m)
       /\ \A j \in (r + 1)..N : ~KeyLess(KeyAt(t, i, 0, j), key, m)
  BY <1>2 DEF SearchOk
<1>14. \A j \in 1..mid : KeyLess(KeyAt(t, i, 0, j), k, m)
  <2> TAKE j \in 1..mid
  <2>1. j \in 1..N /\ j < mid + 1
    BY <1>1, <1>5
  <2> QED BY <1>5, <1>6, <2>1 DEF IndexOk
<1>18. \A j \in (mid + 2)..N : KeyLess(k, KeyAt(t, i, 0, j), m)
  <2> TAKE j \in (mid + 2)..N
  <2>1. j \in 1..N /\ mid + 1 < j
    BY <1>1, <1>5
  <2> QED BY <1>5, <1>6, <2>1 DEF IndexOk
<1>19. ASSUME result <= 0, NEW j \in (mid + 1)..N PROVE ~KeyLess(KeyAt(t, i, 0, j), key, m)
  <2>1. PICK a : a = KeyAt(t, i, 0, j)
    OBVIOUS
  <2>2. j \in 1..N
    BY <1>1, <1>5
  <2>3. \A f \in 1..m : a[f] \in Int
    BY <1>7, <2>1, <2>2
  <2>4. KeyLess(key, k, m) \/ \A f \in 1..m : key[f] = k[f]
    BY <1>10, <1>19
  <2>5. a = k \/ KeyLess(k, a, m)
    <3>1. j = mid + 1 \/ j \in (mid + 2)..N
      BY <1>1, <1>5
    <3> QED BY <1>6, <1>18, <2>1, <3>1
  <2>6. KeyLess(key, a, m) \/ \A f \in 1..m : key[f] = a[f]
    <3>1. CASE a = k
      BY <2>4, <3>1
    <3>2. CASE KeyLess(k, a, m) /\ KeyLess(key, k, m)
      BY <1>1, <1>8, <2>3, <3>2, KeyLessTransitive
    <3>3. CASE KeyLess(k, a, m) /\ \A f \in 1..m : key[f] = k[f]
      BY <1>1, <3>3 DEF KeyLess
    <3> QED BY <2>4, <2>5, <3>1, <3>2, <3>3
  <2>7. ~KeyLess(a, key, m)
    <3>1. CASE KeyLess(key, a, m)
      BY <1>1, <2>3, <3>1, KeyLessAsymmetric
    <3>2. CASE \A f \in 1..m : key[f] = a[f]
      BY <1>1, <2>3, <3>2 DEF KeyLess
    <3> QED BY <2>6, <3>1, <3>2
  <2> QED BY <2>1, <2>7
<1>20. ASSUME NEW x \in 0..N, NEW y \in 0..N, x <= y, h.left = x, h.right = y,
             \A j \in 1..x : KeyLess(KeyAt(t, i, 0, j), key, m),
             \A j \in (y + 1)..N : ~KeyLess(KeyAt(t, i, 0, j), key, m)
       PROVE  SearchOk(t, i, m, key, h)
  BY <1>20, Zenon DEF SearchOk
<1>15. CASE result = 0
  <2>1. h.left = mid /\ h.right = mid
    BY <1>12, <1>15
  <2>2. ASSUME NEW j \in 1..mid PROVE KeyLess(KeyAt(t, i, 0, j), key, m)
    <3>1. KeyLess(KeyAt(t, i, 0, j), k, m) /\ \A f \in 1..m : key[f] = k[f]
      BY <1>10, <1>14, <1>15
    <3> QED BY <1>1, <3>1 DEF KeyLess
  <2>3. \A j \in (mid + 1)..N : ~KeyLess(KeyAt(t, i, 0, j), key, m)
    BY <1>15, <1>19
  <2>4. mid <= mid /\ h.right - h.left < r - l
    BY <1>1, <1>3, <1>5, <2>1
  <2>5. SearchOk(t, i, m, key, h)
    BY <1>5, <1>20, <2>1, <2>2, <2>3, <2>4, Zenon
  <2> QED BY <1>2, <1>11, <2>4, <2>5
<1>16. CASE result < 0
  <2>1. h.left = l /\ h.right = mid
    BY <1>10, <1>12, <1>16
  <2>2. \A j \in (mid + 1)..N : ~KeyLess(KeyAt(t, i, 0, j), key, m)
    BY <1>10, <1>16, <1>19
  <2>3. h.right - h.left < r - l
    BY <1>1, <1>3, <1>5, <2>1
  <2>4. SearchOk(t, i, m, key, h)
    BY <1>3, <1>5, <1>13, <1>20, <2>1, <2>2, Zenon
  <2> QED BY <1>2, <1>11, <2>3, <2>4
<1>17. CASE result > 0
  <2>1. h.left = mid + 1 /\ h.right = r
    BY <1>10, <1>12, <1>17
  <2>2. ASSUME NEW j \in 1..(mid + 1) PROVE KeyLess(KeyAt(t, i, 0, j), key, m)
    <3>1. CASE j = mid + 1
      BY <1>6, <1>10, <1>17, <3>1
    <3>2. CASE j # mid + 1
      <4>1. j \in 1..mid /\ j \in 1..N
        BY <1>5, <3>2
      <4>2. PICK a : a = KeyAt(t, i, 0, j)
        OBVIOUS
      <4>3. KeyLess(a, k, m) /\ KeyLess(k, key, m) /\ \A f \in 1..m : a[f] \in Int
        BY <1>7, <1>10, <1>14, <1>17, <4>1, <4>2
      <4>4. KeyLess(a, key, m)
        BY <1>1, <1>8, <4>3, KeyLessTransitive
      <4> QED BY <4>2, <4>4
    <3> QED BY <3>1, <3>2
  <2>3. mid + 1 \in 0..N /\ mid + 1 <= r /\ h.right - h.left < r - l
    BY <1>1, <1>3, <1>5, <2>1
  <2>4. SearchOk(t, i, m, key, h)
    BY <1>3, <1>13, <1>20, <2>1, <2>2, <2>3, Zenon
  <2> QED BY <1>2, <1>11, <2>3, <2>4
<1> QED BY <1>10, <1>15, <1>16, <1>17

SearchBody(f, t, i, key, n) ==
  IF n = 0 THEN [left |-> 0, right |-> Len(NodeOf(t.indexes[i], 0).cells)]
  ELSE IF f[n - 1].left = f[n - 1].right THEN f[n - 1] ELSE Halved(t, i, 0, key, f[n - 1])
Search(f, N, t, i, key) == [n \in 0..N |-> SearchBody(f, t, i, key, n)]

\* The recursive function of SlotOf exists.
LEMMA SearchExists ==
  ASSUME NEW N \in Nat, NEW t, NEW i, NEW key
  PROVE  \E f : f = Search(f, N, t, i, key)
<1> DEFINE Up == {m \in Nat : \E f : f = [n \in 0..m |-> SearchBody(f, t, i, key, n)]}
<1>1. 0 \in Up
  <2> DEFINE g == [n \in 0..0 |-> SearchBody(<<>>, t, i, key, n)]
  <2>1. g = [n \in 0..0 |-> SearchBody(g, t, i, key, n)]
    BY DEF SearchBody
  <2> QED BY <2>1
<1>2. ASSUME NEW m \in Nat, m \in Up PROVE m + 1 \in Up
  <2>1. PICK f : f = [n \in 0..m |-> SearchBody(f, t, i, key, n)]
    BY <1>2
  <2> DEFINE g == [n \in 0..(m + 1) |-> SearchBody(f, t, i, key, n)]
  <2>2. \A n \in 0..m : g[n] = f[n]
    BY <2>1
  <2>3. \A n \in 0..(m + 1) : SearchBody(f, t, i, key, n) = SearchBody(g, t, i, key, n)
    <3> TAKE n \in 0..(m + 1)
    <3> HIDE DEF g
    <3>1. n # 0 => n - 1 \in 0..m
      BY <1>2
    <3>2. n # 0 => f[n - 1] = g[n - 1]
      BY <2>2, <3>1, Zenon
    <3> QED BY <3>2, Zenon DEF SearchBody
  <2>4. g = [n \in 0..(m + 1) |-> SearchBody(g, t, i, key, n)]
    BY <2>3, Zenon
  <2>5. \E h : h = [n \in 0..(m + 1) |-> SearchBody(h, t, i, key, n)]
    BY <2>4, Zenon
  <2> QED BY <1>2, <2>5
<1>3. N \in Up
  <2> HIDE DEF Up
  <2>1. \A n \in 0..N : n \in Up
    BY <1>1, <1>2, Upwards
  <2> QED BY <2>1
<1>4. \E f : f = [n \in 0..N |-> SearchBody(f, t, i, key, n)]
  BY <1>3
<1> QED
  BY <1>4, Zenon DEF Search

\* A search starts a scan behind just the cells that are below its key.
LEMMA SlotOfOk ==
  ASSUME NEW t, NEW i, NEW m, IndexOk(t, i, m),
         NEW key, DOMAIN key = 1..m, \A f \in 1..m : key[f] \in Int
  PROVE  /\ SlotOf(t, i, 0, key) \in 0..Len(t.indexes[i].cells)
         /\ FirstSlot(t, i, key) \in 1..(Len(t.indexes[i].cells) + 1)
         /\ \A j \in 1..(FirstSlot(t, i, key) - 1) : KeyLess(KeyAt(t, i, 0, j), key, m)
         /\ \A j \in FirstSlot(t, i, key)..Len(t.indexes[i].cells) : ~KeyLess(KeyAt(t, i, 0, j), key, m)
<1> DEFINE N == Len(t.indexes[i].cells)
<1> DEFINE R == Len(NodeOf(t.indexes[i], 0).cells)
<1>1. N \in Nat /\ R = N
  BY DEF IndexOk, NodeOf
<1> DEFINE at == CHOOSE f : f = [n \in 0..R |-> SearchBody(f, t, i, key, n)]
<1>2. \E f : f = [n \in 0..R |-> SearchBody(f, t, i, key, n)]
  <2>1. PICK size : size = R
    OBVIOUS
  <2>2. size \in Nat
    BY <1>1, <2>1
  <2>3. \E f : f = Search(f, size, t, i, key)
    BY <2>2, SearchExists
  <2>4. \E f : f = Search(f, R, t, i, key)
    BY <2>1, <2>3
  <2> QED BY <2>4, Zenon DEF Search
<1>3. at = [n \in 0..R |-> SearchBody(at, t, i, key, n)]
  BY <1>2, Zenon
<1>20. SlotOf(t, i, 0, key) = at[R].right
  BY Zenon DEF SlotOf, SearchBody
<1> HIDE DEF at
<1>4. SlotOf(t, i, 0, key) = at[N].right /\ FirstSlot(t, i, key) = at[N].right + 1
  BY <1>1, <1>20 DEF FirstSlot
<1>5. \A n \in 0..N : at[n] = SearchBody(at, t, i, key, n)
  <2>1. \A n \in 0..R : at[n] = SearchBody(at, t, i, key, n)
    BY <1>3, Zenon
  <2> HIDE DEF R
  <2> QED BY <1>1, <2>1
<1>14. PICK size : size = N
  OBVIOUS
<1>15. size \in Nat /\ \A n \in 0..size : at[n] = SearchBody(at, t, i, key, n)
  BY <1>1, <1>5, <1>14
<1> DEFINE Come(n) == SearchOk(t, i, m, key, at[n]) /\ at[n].right - at[n].left <= size - n
<1> DEFINE Up == {n \in Nat : n <= size => Come(n)}
<1>6. 0 \in Up
  <2>1. at[0] = [left |-> 0, right |-> N]
    BY <1>1, <1>5, <1>14, <1>15 DEF SearchBody
  <2>2. at[0].left = 0 /\ at[0].right = N
    BY <2>1
  <2>3. SearchOk(t, i, m, key, at[0])
    BY <1>1, <2>2 DEF SearchOk
  <2> QED BY <1>14, <1>15, <2>2, <2>3
<1>7. ASSUME NEW n \in 0..size, n < size, n \in Up PROVE n + 1 \in Up
  <2>1. n + 1 \in 0..size /\ n + 1 # 0 /\ (n + 1) - 1 = n /\ n \in Nat /\ n <= size
    BY <1>15, <1>7
  <2>2. PICK p : p = at[n]
    OBVIOUS
  <2>3. at[n + 1] = IF p.left = p.right THEN p ELSE Halved(t, i, 0, key, p)
    BY <1>15, <2>1, <2>2, Zenon DEF SearchBody
  <2>4. SearchOk(t, i, m, key, p) /\ p.right - p.left <= size - n
    BY <1>7, <2>1, <2>2, Zenon
  <2>5. p.left \in Int /\ p.right \in Int /\ p.left <= p.right
    <3>1. p.left \in 0..N /\ p.right \in 0..N /\ p.left <= p.right
      BY <2>4, Zenon DEF SearchOk
    <3> QED BY <1>14, <1>15, <3>1
  <2>6. Come(n + 1)
    <3>1. CASE p.left = p.right
      <4>1. at[n + 1] = p
        BY <2>3, <3>1
      <4>2. p.right - p.left <= size - (n + 1)
        BY <1>7, <1>15, <2>5, <3>1
      <4> QED BY <2>4, <4>1, <4>2
    <3>2. CASE p.left # p.right
      <4>1. PICK h : h = Halved(t, i, 0, key, p)
        OBVIOUS
      <4>2. SearchOk(t, i, m, key, h) /\ h.right - h.left < p.right - p.left
        BY <2>4, <3>2, <4>1, HalvedOk
      <4>3. h.right \in Int /\ h.left \in Int
        <5>1. h.left \in 0..N /\ h.right \in 0..N
          BY <4>2, Zenon DEF SearchOk
        <5> QED BY <1>14, <1>15, <5>1
      <4>4. at[n + 1] = h
        BY <2>3, <3>2, <4>1
      <4>5. h.right - h.left <= size - (n + 1)
        <5> PICK x, y, u, w : x = h.right /\ y = h.left /\ u = p.right /\ w = p.left
          OBVIOUS
        <5>1. x \in Int /\ y \in Int /\ u \in Int /\ w \in Int /\ x - y < u - w /\ u - w <= size - n
          BY <2>4, <2>5, <4>2, <4>3
        <5> QED BY <1>7, <1>15, <5>1
      <4> QED BY <4>2, <4>4, <4>5
    <3> QED BY <3>1, <3>2
  <2> HIDE DEF Come
  <2> QED BY <2>1, <2>6
<1>8. \A n \in 0..size : n \in Up
  <2> HIDE DEF Up
  <2> QED BY <1>6, <1>7, <1>15, Upwards
<1>9. PICK p : p = at[size]
  OBVIOUS
<1>10. SearchOk(t, i, m, key, p) /\ p.right - p.left <= 0
  <2>1. size \in 0..size /\ size <= size /\ size - size = 0
    BY <1>15
  <2>2. Come(size)
    BY <1>8, <2>1, Zenon
  <2> QED BY <1>9, <2>1, <2>2
<1>11. /\ p.left \in 0..N /\ p.right = p.left
       /\ \A j \in 1..p.left : KeyLess(KeyAt(t, i, 0, j), key, m)
       /\ \A j \in (p.left + 1)..N : ~KeyLess(KeyAt(t, i, 0, j), key, m)
  <2>1. /\ p.left \in 0..N /\ p.right \in 0..N /\ p.left <= p.right
        /\ \A j \in 1..p.left : KeyLess(KeyAt(t, i, 0, j), key, m)
        /\ \A j \in (p.right + 1)..N : ~KeyLess(KeyAt(t, i, 0, j), key, m)
    BY <1>10, Zenon DEF SearchOk
  <2>2. p.right = p.left
    <3>1. p.left \in 0..size /\ p.right \in 0..size
      BY <1>14, <2>1
    <3> QED BY <1>10, <1>15, <2>1, <3>1
  <2>3. \A j \in (p.left + 1)..N : ~KeyLess(KeyAt(t, i, 0, j), key, m)
    BY <2>1, <2>2, Zenon
  <2> QED BY <2>1, <2>2, <2>3, Zenon
<1>12. PICK q : q = FirstSlot(t, i, key)
  OBVIOUS
<1>13. q = p.left + 1 /\ q - 1 = p.left /\ q \in 1..(N + 1)
  <2>1. q = p.left + 1
    BY <1>4, <1>9, <1>11, <1>12, <1>14
  <2>2. p.left \in 0..size
    BY <1>11, <1>14
  <2>3. q - 1 = p.left /\ q \in 1..(size + 1)
    BY <1>15, <2>1, <2>2
  <2> QED BY <1>14, <2>1, <2>3
<1>16. /\ \A j \in 1..(q - 1) : KeyLess(KeyAt(t, i, 0, j), key, m)
       /\ \A j \in q..N : ~KeyLess(KeyAt(t, i, 0, j), key, m)
  BY <1>11, <1>13, Zenon
<1>17. SlotOf(t, i, 0, key) \in 0..N
  BY <1>4, <1>9, <1>11, <1>14
<1> QED BY <1>12, <1>13, <1>16, <1>17, Zenon

\* The members of a part of a sequence.
LEMMA SubSeqIs ==
  ASSUME NEW s \in Seq(Nat), NEW a \in 1..Len(s), NEW b \in a..Len(s)
  PROVE  /\ SubSeq(s, a, b) \in Seq(Nat) /\ Len(SubSeq(s, a, b)) = b - a + 1
         /\ \A j \in 1..Len(SubSeq(s, a, b)) : SubSeq(s, a, b)[j] = s[a + j - 1]
OBVIOUS

\* A part of a part of a sequence.
LEMMA SubSeqShifted ==
  ASSUME NEW s \in Seq(Nat), NEW w \in Seq(Nat), NEW d \in Nat,
         \A j \in 1..Len(w) : w[j] = s[j + d],
         NEW a \in 1..Len(w), NEW e \in a..Len(w), a + d \in 1..Len(s), e + d \in 1..Len(s)
  PROVE  SubSeq(w, a, e) = SubSeq(s, a + d, e + d)
<1>1. PICK x, y : x = SubSeq(w, a, e) /\ y = SubSeq(s, a + d, e + d)
  OBVIOUS
<1>2. x \in Seq(Nat) /\ Len(x) = e - a + 1 /\ \A j \in 1..Len(x) : x[j] = w[a + j - 1]
  BY <1>1, SubSeqIs
<1>3. y \in Seq(Nat) /\ Len(y) = e - a + 1 /\ \A j \in 1..Len(y) : y[j] = s[(a + d) + j - 1]
  <2>1. (e + d) - (a + d) + 1 = e - a + 1 /\ e + d \in (a + d)..Len(s)
    OBVIOUS
  <2>2. /\ y \in Seq(Nat) /\ Len(y) = (e + d) - (a + d) + 1
        /\ \A j \in 1..Len(y) : y[j] = s[(a + d) + j - 1]
    BY <1>1, <2>1, SubSeqIs
  <2> QED BY <2>1, <2>2
<1>4. ASSUME NEW j \in 1..Len(x) PROVE x[j] = y[j]
  <2>1. a + j - 1 \in 1..Len(w) /\ (a + j - 1) + d = (a + d) + j - 1
    BY <1>2
  <2>2. j \in 1..Len(y)
    BY <1>2, <1>3
  <2> QED BY <1>2, <1>3, <2>1, <2>2
<1>5. x = [j \in 1..Len(x) |-> x[j]] /\ y = [j \in 1..Len(y) |-> y[j]]
  BY <1>2, <1>3
<1>6. x = y
  BY <1>2, <1>3, <1>4, <1>5
<1> QED BY <1>1, <1>6

DescentBody(f, t, i, key, n) ==
  IF n = 0 THEN <<At(0, SlotOf(t, i, 0, key))>> ELSE Descended(t, i, key, f[n - 1])
Descent(f, N, t, i, key) == [n \in 0..N |-> DescentBody(f, t, i, key, n)]

\* The recursive function of getIterator exists.
LEMMA DescentExists ==
  ASSUME NEW N \in Nat, NEW t, NEW i, NEW key
  PROVE  \E f : f = Descent(f, N, t, i, key)
<1> DEFINE Up == {m \in Nat : \E f : f = [n \in 0..m |-> DescentBody(f, t, i, key, n)]}
<1>1. 0 \in Up
  <2> DEFINE g == [n \in 0..0 |-> DescentBody(<<>>, t, i, key, n)]
  <2>1. g = [n \in 0..0 |-> DescentBody(g, t, i, key, n)]
    BY DEF DescentBody
  <2> QED BY <2>1
<1>2. ASSUME NEW m \in Nat, m \in Up PROVE m + 1 \in Up
  <2>1. PICK f : f = [n \in 0..m |-> DescentBody(f, t, i, key, n)]
    BY <1>2
  <2> DEFINE g == [n \in 0..(m + 1) |-> DescentBody(f, t, i, key, n)]
  <2>2. \A n \in 0..m : g[n] = f[n]
    BY <2>1
  <2>3. \A n \in 0..(m + 1) : DescentBody(f, t, i, key, n) = DescentBody(g, t, i, key, n)
    <3> TAKE n \in 0..(m + 1)
    <3> HIDE DEF g
    <3>1. n # 0 => n - 1 \in 0..m
      BY <1>2
    <3>2. n # 0 => f[n - 1] = g[n - 1]
      BY <2>2, <3>1, Zenon
    <3> QED BY <3>2, Zenon DEF DescentBody
  <2>4. g = [n \in 0..(m + 1) |-> DescentBody(g, t, i, key, n)]
    BY <2>3, Zenon
  <2>5. \E h : h = [n \in 0..(m + 1) |-> DescentBody(h, t, i, key, n)]
    BY <2>4, Zenon
  <2> QED BY <1>2, <2>5
<1>3. N \in Up
  <2> HIDE DEF Up
  <2>1. \A n \in 0..N : n \in Up
    BY <1>1, <1>2, Upwards
  <2> QED BY <2>1
<1>4. \E f : f = [n \in 0..N |-> DescentBody(f, t, i, key, n)]
  BY <1>3
<1> QED
  BY <1>4, Zenon DEF Descent

\* Where the root is a leaf, the iterator starts in it.
LEMMA IteratorInLeaf ==
  ASSUME NEW t, NEW i, NEW m, IndexOk(t, i, m), NEW key
  PROVE  getIterator(t, i, key) = <<At(0, SlotOf(t, i, 0, key))>>
<1> DEFINE N == Len(t.indexes[i].nodes)
<1> DEFINE P == <<At(0, SlotOf(t, i, 0, key))>>
<1>1. N \in Nat /\ t.indexes[i].kids = <<>>
  BY DEF IndexOk
<1> DEFINE at == CHOOSE f : f = [n \in 0..N |-> DescentBody(f, t, i, key, n)]
<1>2. \E f : f = [n \in 0..N |-> DescentBody(f, t, i, key, n)]
  <2>1. PICK size : size = N
    OBVIOUS
  <2>3. size \in Nat
    BY <1>1, <2>1
  <2>2. \E f : f = Descent(f, size, t, i, key)
    BY <2>3, DescentExists
  <2>4. \E f : f = Descent(f, N, t, i, key)
    BY <2>1, <2>2
  <2> QED BY <2>4, Zenon DEF Descent
<1>3. at = [n \in 0..N |-> DescentBody(at, t, i, key, n)]
  BY <1>2, Zenon
<1>4. getIterator(t, i, key) = at[N]
  BY Zenon DEF getIterator, DescentBody
<1> HIDE DEF at
<1>5. \A n \in 0..N : at[n] = DescentBody(at, t, i, key, n)
  BY <1>3, Zenon
<1>6. Descended(t, i, key, P) = P
  <2>1. Last(P).id = 0
    BY DEF Last, At
  <2>2. IsLeaf(t.indexes[i], P)
    BY <1>1, <2>1 DEF IsLeaf, NodeAt, NodeOf
  <2> HIDE DEF P
  <2> QED BY <2>2, Zenon DEF Descended
<1> DEFINE Up == {n \in Nat : n <= N => at[n] = P}
<1>7. 0 \in Up
  BY <1>1, <1>5 DEF DescentBody
<1>8. ASSUME NEW n \in Nat, n \in Up PROVE n + 1 \in Up
  <2> SUFFICES ASSUME n + 1 <= N PROVE at[n + 1] = P
    BY <1>8
  <2>1. n + 1 \in 0..N /\ n + 1 # 0 /\ (n + 1) - 1 = n
    BY <1>1
  <2>2. at[n] = P
    BY <1>1, <1>8
  <2> HIDE DEF P
  <2>3. at[n + 1] = Descended(t, i, key, at[n])
    BY <1>5, <2>1, Zenon DEF DescentBody
  <2> QED BY <1>6, <2>2, <2>3
<1>9. N \in Up
  <2> HIDE DEF Up
  <2> HIDE DEF N
  <2>2. N \in Nat /\ \A n \in 0..N : n < N /\ n \in Up => n + 1 \in Up
    BY <1>1, <1>8
  <2>1. \A n \in 0..N : n \in Up
    BY <1>7, <2>2, Upwards
  <2> QED BY <1>1, <2>1
<1> QED BY <1>1, <1>4, <1>9

WalkBody(f, index, path, n) ==
  IF n = 0 THEN [path |-> path, rows |-> <<updateValue(index, path)>>]
  ELSE IF f[n - 1].path = <<>> THEN f[n - 1] ELSE Walked(index, f[n - 1])
Walking(f, N, index, path) == [n \in 0..N |-> WalkBody(f, index, path, n)]

\* The recursive function of Walk exists.
LEMMA WalkExists ==
  ASSUME NEW N \in Nat, NEW index, NEW path
  PROVE  \E f : f = Walking(f, N, index, path)
<1> DEFINE Up == {m \in Nat : \E f : f = [n \in 0..m |-> WalkBody(f, index, path, n)]}
<1>1. 0 \in Up
  <2> DEFINE g == [n \in 0..0 |-> WalkBody(<<>>, index, path, n)]
  <2>1. g = [n \in 0..0 |-> WalkBody(g, index, path, n)]
    BY DEF WalkBody
  <2> QED BY <2>1
<1>2. ASSUME NEW m \in Nat, m \in Up PROVE m + 1 \in Up
  <2>1. PICK f : f = [n \in 0..m |-> WalkBody(f, index, path, n)]
    BY <1>2
  <2> DEFINE g == [n \in 0..(m + 1) |-> WalkBody(f, index, path, n)]
  <2>2. \A n \in 0..m : g[n] = f[n]
    BY <2>1
  <2>3. \A n \in 0..(m + 1) : WalkBody(f, index, path, n) = WalkBody(g, index, path, n)
    <3> TAKE n \in 0..(m + 1)
    <3> HIDE DEF g
    <3>1. n # 0 => n - 1 \in 0..m
      BY <1>2
    <3>2. n # 0 => f[n - 1] = g[n - 1]
      BY <2>2, <3>1, Zenon
    <3> QED BY <3>2, Zenon DEF WalkBody
  <2>4. g = [n \in 0..(m + 1) |-> WalkBody(g, index, path, n)]
    BY <2>3, Zenon
  <2>5. \E h : h = [n \in 0..(m + 1) |-> WalkBody(h, index, path, n)]
    BY <2>4, Zenon
  <2> QED BY <1>2, <2>5
<1>3. N \in Up
  <2> HIDE DEF Up
  <2>1. \A n \in 0..N : n \in Up
    BY <1>1, <1>2, Upwards
  <2> QED BY <2>1
<1>4. \E f : f = [n \in 0..N |-> WalkBody(f, index, path, n)]
  BY <1>3
<1> QED
  BY <1>4, Zenon DEF Walking

\* A turn in a leaf that is the root: to the next cell, or off the tree.
LEMMA LeafTurn ==
  ASSUME NEW index, index.kids = <<>>, index.cells \in Seq(Nat), NEW slot \in 0..(Len(index.cells) - 1),
         NEW rows
  PROVE  Walked(index, [path |-> <<At(0, slot)>>, rows |-> rows]) =
           IF slot + 1 = Len(index.cells) THEN [path |-> <<>>, rows |-> rows]
           ELSE [path |-> <<At(0, slot + 1)>>, rows |-> Append(rows, index.cells[slot + 2])]
<1> DEFINE P == <<At(0, slot)>>
<1> DEFINE Q == <<At(0, slot + 1)>>
<1>1. Last(P) = At(0, slot) /\ Last(Q) = At(0, slot + 1) /\ Len(P) = 1 /\ Len(Q) = 1
  BY DEF Last
<1>2. NodeAt(index, P) = index /\ NodeAt(index, Q) = index /\ IsLeaf(index, P)
  BY <1>1 DEF NodeAt, NodeOf, IsLeaf, At
<1>3. Front(P) = <<>> /\ Len(<<>>) = 0
  BY DEF Front
<1>4. [P EXCEPT ![Len(P)].slot = slot + 1] = Q
  BY <1>1 DEF At
<1>5. Last(P).slot = slot /\ Last(Q).slot = slot + 1
  BY <1>1 DEF At
<1> HIDE DEF P, Q
<1>6. Turned(index, P) = IF slot + 1 = Len(index.cells) THEN <<>> ELSE Q
  BY <1>2, <1>3, <1>4, <1>5 DEF Turned
<1>7. updateValue(index, Q) = index.cells[slot + 2]
  <2>1. (slot + 1) + 1 = slot + 2
    OBVIOUS
  <2> QED BY <1>2, <1>5, <2>1 DEF updateValue
<1>8. CASE slot + 1 = Len(index.cells)
  <2>1. Turned(index, P) = <<>> /\ Len(<<>>) # Len(P)
    BY <1>1, <1>3, <1>6, <1>8
  <2> QED BY <1>8, <2>1 DEF Walked, P
<1>9. CASE slot + 1 # Len(index.cells)
  <2>1. Turned(index, P) = Q /\ Len(Q) = Len(P)
    BY <1>1, <1>6, <1>9
  <2>2. Walked(index, [path |-> P, rows |-> rows]) = [path |-> Q, rows |-> Append(rows, updateValue(index, Q))]
    BY <1>2, <2>1 DEF Walked
  <2> QED BY <1>7, <1>9, <2>2 DEF P, Q
<1> QED BY <1>8, <1>9

\* The cells from one on, as far as another.
LEMMA SubSeqLonger ==
  ASSUME NEW s \in Seq(Nat), NEW a \in 1..Len(s), NEW b \in a..(Len(s) - 1)
  PROVE  Append(SubSeq(s, a, b), s[b + 1]) = SubSeq(s, a, b + 1)
OBVIOUS

LEMMA FirstCell ==
  ASSUME NEW s \in Seq(Nat), NEW k \in 0..(Len(s) - 1)
  PROVE  SubSeq(s, k + 1, k + 1) = <<s[k + 1]>>
<1>1. PICK x : x = SubSeq(s, k + 1, k + 1)
  OBVIOUS
<1>2. x \in Seq(Nat) /\ Len(x) = 1 /\ x[1] = s[k + 1]
  <2>1. k + 1 \in 1..Len(s) /\ k + 1 \in (k + 1)..Len(s) /\ (k + 1) - (k + 1) + 1 = 1
        /\ (k + 1) + 1 - 1 = k + 1
    OBVIOUS
  <2>2. x \in Seq(Nat) /\ Len(x) = (k + 1) - (k + 1) + 1
        /\ \A j \in 1..Len(x) : x[j] = s[(k + 1) + j - 1]
    BY <1>1, <2>1, SubSeqIs
  <2>3. 1 \in 1..Len(x)
    BY <2>1, <2>2
  <2>4. x[1] = s[(k + 1) + 1 - 1]
    BY <2>2, <2>3
  <2> QED BY <2>1, <2>2, <2>4
<1>3. x = <<s[k + 1]>>
  BY <1>2
<1> QED BY <1>1, <1>3

\* A walk in such a leaf reads its cells from the slot on.
LEMMA WalkInLeaf ==
  ASSUME NEW index, index.kids = <<>>, index.cells \in Seq(Nat), Len(index.nodes) \in Nat,
         NEW slot \in 0..(Len(index.cells) - 1)
  PROVE  Walk(index, <<At(0, slot)>>) = SubSeq(index.cells, slot + 1, Len(index.cells))
<1> DEFINE cells == index.cells
<1> DEFINE N == Len(cells)
<1> DEFINE P == <<At(0, slot)>>
<1> DEFINE T == Len(InOrder(index)) + Len(index.nodes) + 1
<1>1. T \in Nat /\ N \in Nat /\ N <= T /\ slot \in 0..(N - 1) /\ cells \in Seq(Nat)
  <2>1. InOrder(index) = cells
    BY DEF InOrder
  <2>2. PICK n, k : n = N /\ k = Len(index.nodes)
    OBVIOUS
  <2>3. n \in Nat /\ k \in Nat /\ T = n + k + 1
    BY <2>1, <2>2
  <2> HIDE DEF T
  <2>4. T \in Nat /\ n <= T
    BY <2>3
  <2> QED BY <2>2, <2>3, <2>4
<1> DEFINE at == CHOOSE f : f = [n \in 0..T |-> WalkBody(f, index, P, n)]
<1>2. \E f : f = [n \in 0..T |-> WalkBody(f, index, P, n)]
  <2>1. PICK size : size = T
    OBVIOUS
  <2>3. size \in Nat
    BY <1>1, <2>1
  <2> HIDE DEF P, T
  <2>2. \E f : f = Walking(f, size, index, P)
    BY <2>3, WalkExists
  <2>4. \E f : f = Walking(f, T, index, P)
    BY <2>1, <2>2
  <2> QED BY <2>4, Zenon DEF Walking
<1>3. at = [n \in 0..T |-> WalkBody(at, index, P, n)]
  BY <1>2, Zenon
<1>4. Walk(index, P) = at[T].rows
  BY Zenon DEF Walk, WalkBody
<1> HIDE DEF at, T
<1>5. \A n \in 0..T : at[n] = WalkBody(at, index, P, n)
  BY <1>3, Zenon
<1> DEFINE Come(n) ==
      at[n] = IF slot + n < N THEN [path |-> <<At(0, slot + n)>>, rows |-> SubSeq(cells, slot + 1, slot + n + 1)]
              ELSE [path |-> <<>>, rows |-> SubSeq(cells, slot + 1, N)]
<1> DEFINE Up == {n \in Nat : n <= T => Come(n)}
<1>6. 0 \in Up
  <2>1. at[0] = [path |-> P, rows |-> <<updateValue(index, P)>>]
    BY <1>1, <1>5 DEF WalkBody
  <2>2. updateValue(index, P) = cells[slot + 1]
    BY DEF updateValue, NodeAt, NodeOf, Last, At
  <2>3. SubSeq(cells, slot + 1, slot + 1) = <<cells[slot + 1]>>
    BY <1>1, FirstCell
  <2>4. slot + 0 = slot /\ slot < N /\ slot + 0 + 1 = slot + 1
    BY <1>1
  <2> QED BY <2>1, <2>2, <2>3, <2>4
<1>7. ASSUME NEW n \in Nat, n \in Up PROVE n + 1 \in Up
  <2> SUFFICES ASSUME n + 1 <= T PROVE Come(n + 1)
    BY <1>7
  <2>1. n + 1 \in 0..T /\ n + 1 # 0 /\ (n + 1) - 1 = n
    BY <1>1
  <2>2. Come(n)
    BY <1>1, <1>7
  <2>3. at[n + 1] = IF at[n].path = <<>> THEN at[n] ELSE Walked(index, at[n])
    BY <1>5, <2>1, Zenon DEF WalkBody
  <2>4. CASE slot + n < N
    <3> DEFINE s == slot + n
    <3>1. s \in 0..(N - 1) /\ s + 1 = slot + (n + 1) /\ slot + n + 1 = s + 1
          /\ slot + (n + 1) + 1 = s + 2
      BY <1>1, <2>4
    <3> DEFINE rows == SubSeq(cells, slot + 1, s + 1)
    <3>2. at[n] = [path |-> <<At(0, s)>>, rows |-> rows]
      BY <2>2, <2>4, <3>1
    <3>3. <<At(0, s)>> # <<>>
      OBVIOUS
    <3>4. Walked(index, at[n]) = IF s + 1 = N THEN [path |-> <<>>, rows |-> rows]
                                 ELSE [path |-> <<At(0, s + 1)>>, rows |-> Append(rows, cells[s + 2])]
      BY <3>1, <3>2, LeafTurn
    <3>5. at[n + 1] = Walked(index, at[n])
      BY <2>3, <3>2, <3>3
    <3>6. CASE s + 1 = N
      <4>1. at[n + 1] = [path |-> <<>>, rows |-> SubSeq(cells, slot + 1, N)]
        BY <3>4, <3>5, <3>6
      <4>2. ~(slot + (n + 1) < N)
        BY <1>1, <3>1, <3>6
      <4> QED BY <4>1, <4>2
    <3>7. CASE s + 1 # N
      <4>1. slot + 1 \in 1..N /\ s + 1 \in (slot + 1)..(N - 1) /\ (s + 1) + 1 = s + 2
        BY <1>1, <3>1, <3>7
      <4>2. Append(rows, cells[s + 2]) = SubSeq(cells, slot + 1, s + 2)
        BY <1>1, <4>1, SubSeqLonger
      <4>3. at[n + 1] = [path |-> <<At(0, s + 1)>>, rows |-> SubSeq(cells, slot + 1, s + 2)]
        BY <3>4, <3>5, <3>7, <4>2
      <4>4. slot + (n + 1) < N
        <5> HIDE DEF N, s
        <5>1. s + 1 < N /\ s + 1 = slot + (n + 1)
          BY <1>1, <3>1, <3>7
        <5> QED BY <5>1
      <4> QED BY <3>1, <4>3, <4>4
    <3> QED BY <3>6, <3>7
  <2>5. CASE ~(slot + n < N)
    <3>1. at[n] = [path |-> <<>>, rows |-> SubSeq(cells, slot + 1, N)]
      BY <2>2, <2>5
    <3>2. at[n + 1] = at[n] /\ ~(slot + (n + 1) < N)
      BY <1>1, <2>3, <2>5, <3>1
    <3> QED BY <3>1, <3>2
  <2> QED BY <2>4, <2>5
<1>8. T \in Up
  <2> HIDE DEF Up
  <2>2. T \in Nat /\ \A n \in 0..T : n < T /\ n \in Up => n + 1 \in Up
    BY <1>1, <1>7
  <2>1. \A n \in 0..T : n \in Up
    BY <1>6, <2>2, Upwards
  <2> QED BY <1>1, <2>1
<1>9. at[T].rows = SubSeq(cells, slot + 1, N)
  <2>1. Come(T) /\ ~(slot + T < N)
    BY <1>1, <1>8
  <2> PICK rest : rest = SubSeq(cells, slot + 1, N)
    OBVIOUS
  <2> HIDE DEF N
  <2>2. at[T] = [path |-> <<>>, rows |-> rest]
    BY <2>1, Zenon
  <2>3. at[T].rows = rest
    BY ONLY <2>2
  <2> QED BY ONLY <2>3, rest = SubSeq(cells, slot + 1, N)
<1> QED BY <1>4, <1>9

\* The least member of a set, counted from elsewhere.
LEMMA MinShifted ==
  ASSUME NEW S \in SUBSET Nat, NEW d \in Nat, NEW T \in SUBSET Nat, S # {},
         \A j \in Nat : j \in S <=> j + d \in T, \A k \in T : k >= d
  PROVE  Min(T) = Min(S) + d
<1>1. PICK x, y : x = Min(S) /\ y = Min(T)
  OBVIOUS
<1>2. x \in S /\ \A j \in S : x <= j
  BY <1>1, MinIs
<1>3. x + d \in T
  BY <1>2
<1>4. y \in T /\ \A k \in T : y <= k
  BY <1>1, <1>3, MinIs
<1>5. x \in Nat /\ y \in Nat /\ y >= d
  BY <1>2, <1>4
<1>6. y - d \in Nat /\ (y - d) + d = y
  BY <1>5
<1>7. y - d \in S
  BY <1>4, <1>6
<1>8. x <= y - d /\ y <= x + d
  BY <1>2, <1>3, <1>4, <1>7
<1>9. y = x + d
  BY <1>5, <1>8
<1> QED BY <1>1, <1>9

\* So the scan of an index of one leaf goes over the cells of the leaf.
LEMMA ScanInLeaf ==
  ASSUME NEW t, NEW i, NEW m, IndexOk(t, i, m), NEW b, BoundsOk(b, m)
  PROVE  Scan(t, i, b) = LeafScan(t, i, b)
<1> DEFINE index == t.indexes[i]
<1>0. PICK cells, N : cells = index.cells /\ N = Len(cells)
  OBVIOUS
<1>1. N \in Nat /\ cells \in Seq(Nat) /\ index.kids = <<>> /\ Len(index.nodes) \in Nat
      /\ DOMAIN cells = 1..N
  BY <1>0 DEF IndexOk
<1>2. PICK start : start = FirstSlot(t, i, b.from)
  OBVIOUS
<1>3. PICK slot : slot = SlotOf(t, i, 0, b.from)
  OBVIOUS
<1>4. start = slot + 1 /\ start \in 1..(N + 1) /\ slot \in 0..N
  <2>1. DOMAIN b.from = 1..m /\ \A f \in 1..m : b.from[f] \in Int
    <3>0. PICK from : from = b.from
      OBVIOUS
    <3>1. from \in Seq(Int) /\ DOMAIN from = 1..m
      BY <3>0 DEF BoundsOk, ScanBounds
    <3>2. from \in [1..Len(from) -> Int]
      BY <3>1
    <3>3. from \in [1..m -> Int]
      BY <3>1, <3>2
    <3> QED BY <3>0, <3>1, <3>3
  <2>2. start \in 1..(N + 1) /\ slot \in 0..N
    BY <1>0, <1>2, <1>3, <2>1, SlotOfOk
  <2>3. start = slot + 1
    BY <1>2, <1>3 DEF FirstSlot
  <2> QED BY <2>2, <2>3
<1>5. PICK path : path = <<At(0, slot)>>
  OBVIOUS
<1>6. getIterator(t, i, b.from) = path
  BY <1>3, <1>5, IteratorInLeaf
<1>7. PastEnd(index, path) <=> slot = N
  BY <1>0, <1>1, <1>5 DEF PastEnd, IsLeaf, NodeAt, NodeOf, Last, At
<1>8. CASE slot = N
  <2>1. start > N
    BY <1>1, <1>4, <1>8
  <2>2. Scan(t, i, b) = [rows |-> <<>>, wild |-> TRUE]
    BY <1>6, <1>7, <1>8 DEF Scan
  <2>3. LeafScan(t, i, b) = [rows |-> <<>>, wild |-> TRUE]
    BY <1>0, <1>2, <2>1 DEF LeafScan
  <2> QED BY <2>2, <2>3
<1>9. CASE slot # N
  <2>1. slot \in 0..(N - 1) /\ start \in 1..N /\ ~(start > N)
    BY <1>1, <1>4, <1>9
  <2>2. PICK walk : walk = Walk(index, path)
    OBVIOUS
  <2>3. walk = SubSeq(cells, slot + 1, N)
    BY <1>0, <1>1, <1>5, <2>1, <2>2, WalkInLeaf
  <2>4. PICK L : L = Len(walk)
    OBVIOUS
  <2>5. L = N - slot /\ L \in Nat /\ \A j \in 1..L : walk[j] = cells[j + slot]
    BY <1>1, <1>4, <2>1, <2>3, <2>4
  <2>6. PICK first, leaf : first = FirstOf(t, walk, b) /\ leaf = LeafFirst(t, cells, start, b)
    OBVIOUS
  <2>7. first \in 1..(L + 1) /\ leaf = first + slot
    <3> DEFINE S == {j \in 1..(L + 1) : j > L \/ b.incFrom \/ compareKeys(b.from, t.rows[walk[j]]) # 0}
    <3> DEFINE T == {j \in start..(N + 1) : j > N \/ b.incFrom \/ compareKeys(b.from, t.rows[cells[j]]) # 0}
    <3>1. first = Min(S) /\ leaf = Min(T)
      BY <1>0, <2>4, <2>6 DEF FirstOf, LeafFirst
    <3>2. S \in SUBSET Nat /\ T \in SUBSET Nat /\ L + 1 \in S /\ \A k \in T : k >= slot
      BY <1>1, <1>4, <2>1, <2>5
    <3>3. ASSUME NEW j \in Nat PROVE j \in S <=> j + slot \in T
      <4>1. j \in 1..(L + 1) <=> j + slot \in start..(N + 1)
        BY <1>1, <1>4, <2>1, <2>5
      <4>2. j > L <=> j + slot > N
        BY <1>1, <2>1, <2>5
      <4>3. j \in 1..(L + 1) => j > L \/ walk[j] = cells[j + slot]
        BY <2>5
      <4> QED BY <4>1, <4>2, <4>3
    <3>4. Min(S) \in S
      <4> HIDE DEF S, T
      <4> QED BY <3>2, MinIs
    <3>5. Min(T) = Min(S) + slot
      <4> HIDE DEF S, T
      <4>1. slot \in Nat
        BY <2>1
      <4> QED BY <3>2, <3>3, <4>1, MinShifted
    <3> QED BY <3>1, <3>4, <3>5
  <2>8. Scan(t, i, b) = [rows |-> IF first > L THEN <<>>
                                  ELSE SubSeq(walk, first, EndOf(t, walk, first, b) - 1), wild |-> FALSE]
    BY <1>6, <1>7, <1>9, <2>2, <2>4, <2>6 DEF Scan, InBounds
  <2>9. LeafScan(t, i, b) = [rows |-> IF leaf > N THEN <<>>
                                      ELSE SubSeq(cells, leaf, LeafEnd(t, cells, leaf, b) - 1), wild |-> FALSE]
    BY <1>0, <1>2, <2>1, <2>6 DEF LeafScan
  <2>10. first > L <=> leaf > N
    BY <1>1, <2>1, <2>5, <2>7
  <2>11. CASE first > L
    BY <2>8, <2>9, <2>10, <2>11
  <2>12. CASE ~(first > L)
    <3> DEFINE S == {j \in (first + 1)..(L + 1) : j > L \/ Past(b, t.rows[walk[j]])}
    <3> DEFINE T == {j \in (leaf + 1)..(N + 1) : j > N \/ Past(b, t.rows[cells[j]])}
    <3>0. PICK e, g : e = EndOf(t, walk, first, b) /\ g = LeafEnd(t, cells, leaf, b)
      OBVIOUS
    <3>1. e = Min(S) /\ g = Min(T)
      BY <1>0, <2>4, <3>0 DEF EndOf, LeafEnd
    <3>2. S \in SUBSET Nat /\ T \in SUBSET Nat /\ L + 1 \in S /\ \A k \in T : k >= slot
      BY <1>1, <2>1, <2>5, <2>7, <2>12
    <3>3. ASSUME NEW j \in Nat PROVE j \in S <=> j + slot \in T
      <4>1. j \in (first + 1)..(L + 1) <=> j + slot \in (leaf + 1)..(N + 1)
        BY <1>1, <2>1, <2>5, <2>7
      <4>2. j > L <=> j + slot > N
        BY <1>1, <2>1, <2>5
      <4>3. j \in (first + 1)..(L + 1) => j > L \/ walk[j] = cells[j + slot]
        BY <2>5, <2>7
      <4> QED BY <4>1, <4>2, <4>3
    <3>4. Min(S) \in S
      <4> HIDE DEF S, T
      <4> QED BY <3>2, MinIs
    <3>5. Min(T) = Min(S) + slot
      <4> HIDE DEF S, T
      <4>1. slot \in Nat
        BY <2>1
      <4> QED BY <3>2, <3>3, <4>1, MinShifted
    <3>6. e \in (first + 1)..(L + 1) /\ g = e + slot
      BY <3>1, <3>4, <3>5
    <3>7. SubSeq(walk, first, e - 1) = SubSeq(cells, leaf, g - 1)
      <4>1. first \in 1..L /\ e - 1 \in first..L /\ leaf \in 1..N /\ g - 1 \in leaf..N
            /\ leaf = first + slot /\ g - 1 = (e - 1) + slot
        BY <1>1, <2>1, <2>5, <2>7, <2>12, <3>6
      <4>2. walk \in Seq(Nat) /\ L = Len(walk) /\ cells \in Seq(Nat) /\ N = Len(cells)
        <5>1. SubSeq(cells, slot + 1, N) \in Seq(Nat)
          BY <1>1, <2>1
        <5> QED BY <1>0, <1>1, <2>3, <2>4, <5>1
      <4>3. slot \in Nat /\ \A j \in 1..Len(walk) : walk[j] = cells[j + slot]
        BY <2>1, <2>5, <4>2
      <4>4. PICK z : z = e - 1
        OBVIOUS
      <4>5. first \in 1..Len(walk) /\ z \in first..Len(walk)
            /\ first + slot \in 1..Len(cells) /\ z + slot \in 1..Len(cells)
        BY <4>1, <4>2, <4>3, <4>4
      <4>6. SubSeq(walk, first, z) = SubSeq(cells, first + slot, z + slot)
        BY <4>2, <4>3, <4>5, SubSeqShifted
      <4> QED BY <4>1, <4>4, <4>6
    <3> QED BY <2>8, <2>9, <2>10, <2>12, <3>0, <3>7
  <2> QED BY <2>11, <2>12
<1> QED BY <1>8, <1>9

\* A scan misses no row inside its bounds, unless the search that starts it has
\* gone past the last cell.
LEMMA ScanOk ==
  ASSUME NEW t, NEW i, NEW m, IndexOk(t, i, m), NEW b, BoundsOk(b, m)
  PROVE  /\ LeafScan(t, i, b).rows \in Seq(Nat)
         /\ ~LeafScan(t, i, b).wild =>
              {r \in DOMAIN t.rows : Inside(b, t.rows[r], m)} \subseteq ToSet(LeafScan(t, i, b).rows)
<1>0. PICK cells, N : cells = t.indexes[i].cells /\ N = Len(cells)
  OBVIOUS
<1>1. N \in Nat /\ m \in Nat /\ cells \in Seq(Nat) /\ DOMAIN cells = 1..N
  BY <1>0 DEF IndexOk
<1>2. DOMAIN b.from = 1..m /\ DOMAIN b.to = 1..m
      /\ \A f \in 1..m : b.from[f] \in Int /\ b.to[f] \in Int
  <2>0. PICK from, to : from = b.from /\ to = b.to
    OBVIOUS
  <2>1. from \in Seq(Int) /\ to \in Seq(Int)
    BY <2>0 DEF BoundsOk, ScanBounds
  <2>2. DOMAIN from = 1..m /\ DOMAIN to = 1..m
    BY <2>0 DEF BoundsOk
  <2>3. from \in [1..Len(from) -> Int] /\ to \in [1..Len(to) -> Int]
    BY <2>1
  <2>4. from \in [1..m -> Int] /\ to \in [1..m -> Int]
    BY <2>2, <2>3
  <2> QED BY <2>0, <2>2, <2>4
<1>20. /\ \A j \in 1..N : RowOk(t.rows[cells[j]], m)
       /\ \A r \in DOMAIN t.rows : \E j \in 1..N : cells[j] = r
       /\ \A j \in 1..N : \A f \in 1..m : KeyAt(t, i, 0, j)[f] = t.rows[cells[j]][f]
       /\ \A j, k \in 1..N : j < k => KeyLess(KeyAt(t, i, 0, j), KeyAt(t, i, 0, k), m)
  <2>1. \A j \in 1..N : cells[j] \in DOMAIN t.rows
    BY <1>0 DEF IndexOk
  <2> QED BY <1>0, <2>1, ZenonT(40) DEF IndexOk
<1>3. PICK start : start = FirstSlot(t, i, b.from)
  OBVIOUS
<1>4. start \in 1..(N + 1) /\ \A j \in 1..(start - 1) : KeyLess(KeyAt(t, i, 0, j), b.from, m)
  BY <1>0, <1>2, <1>3, SlotOfOk
<1>5. PICK first : first = LeafFirst(t, cells, start, b)
  OBVIOUS
<1> DEFINE Firsts == {j \in start..(N + 1) :
                        j > N \/ b.incFrom \/ compareKeys(b.from, t.rows[cells[j]]) # 0}
<1>6. first \in Firsts /\ \A j \in Firsts : first <= j
  <2>1. N + 1 \in Firsts /\ Firsts \in SUBSET Nat
    BY <1>1, <1>4
  <2>2. first = Min(Firsts)
    BY <1>0, <1>5 DEF LeafFirst
  <2> HIDE DEF Firsts
  <2> QED BY <2>1, <2>2, MinIs
<1>7. first \in start..(N + 1)
  BY <1>6
<1>8. ASSUME NEW j \in start..(first - 1)
      PROVE  j \in 1..N /\ ~b.incFrom /\ compareKeys(b.from, t.rows[cells[j]]) = 0
  <2>1. j \in start..(N + 1) /\ j \notin Firsts
    BY <1>1, <1>4, <1>6, <1>7, <1>8
  <2> QED BY <1>1, <1>4, <2>1
<1>9. PICK s : s = LeafScan(t, i, b)
  OBVIOUS
<1>10. CASE start > N
  <2>1. s = [rows |-> <<>>, wild |-> TRUE]
    BY <1>0, <1>3, <1>9, <1>10 DEF LeafScan
  <2> QED BY <1>9, <2>1
<1>11. CASE ~(start > N)
  <2> DEFINE end == LeafEnd(t, cells, first, b)
  <2>1. s.rows = (IF first > N THEN <<>> ELSE SubSeq(cells, first, end - 1)) /\ s.wild = FALSE
    BY <1>0, <1>3, <1>5, <1>9, <1>11 DEF LeafScan
  <2>2. ASSUME NEW j \in 1..N, Inside(b, t.rows[cells[j]], m) PROVE j >= first
    <3>1. PICK row : row = t.rows[cells[j]]
      OBVIOUS
    <3>2. \A f \in 1..m : row[f] \in Int /\ b.from[f] <= row[f]
      <4>1. RowOk(row, m)
        BY <1>20, <2>2, <3>1
      <4> QED BY <1>1, <2>2, <3>1, <4>1, RowOkIs DEF Inside
    <3>3. ~KeyLess(row, b.from, m)
      BY <1>1, <1>2, <3>2 DEF KeyLess
    <3>4. j >= start
      <4> SUFFICES ASSUME j < start PROVE FALSE
        BY <1>4
      <4>1. KeyLess(KeyAt(t, i, 0, j), b.from, m)
        BY <1>4
      <4>2. \A f \in 1..m : KeyAt(t, i, 0, j)[f] = row[f]
        BY <1>20, <3>1
      <4> QED BY <1>1, <3>3, <4>1, <4>2 DEF KeyLess
    <3>5. SUFFICES ASSUME j < first PROVE FALSE
      BY <1>7
    <3>6. j \in start..(first - 1)
      BY <1>4, <1>7, <3>4, <3>5
    <3>7. ~b.incFrom /\ compareKeys(b.from, row) = 0
      BY <1>8, <3>1, <3>6
    <3>8. \A f \in 1..m : b.from[f] = row[f]
      <4>1. compareKeys(b.from, row) = 0 <=> \A f \in 1..m : b.from[f] = row[f]
        BY <1>1, <1>2, <3>2, CompareKeysIs
      <4> QED BY <3>7, <4>1
    <3>9. \E f \in 1..m : b.from[f] < row[f]
      BY <2>2, <3>1, <3>7 DEF Inside
    <3> QED BY <1>2, <3>2, <3>8, <3>9
  <2>3. CASE first > N
    <3>1. s.rows = <<>>
      BY <2>1, <2>3
    <3>2. ASSUME NEW r \in DOMAIN t.rows, Inside(b, t.rows[r], m) PROVE FALSE
      <4>1. PICK j \in 1..N : cells[j] = r
        BY <1>20
      <4> QED BY <1>1, <1>7, <2>2, <2>3, <3>2, <4>1
    <3> QED BY <1>9, <3>1, <3>2
  <2>4. CASE ~(first > N)
    <3> DEFINE Ends == {j \in (first + 1)..(N + 1) : j > N \/ Past(b, t.rows[cells[j]])}
    <3>1. end \in Ends /\ \A j \in Ends : end <= j
      <4>1. N + 1 \in Ends /\ Ends \in SUBSET Nat
        BY <1>1, <1>4, <1>7, <2>4
      <4>2. end = Min(Ends)
        BY <1>0 DEF LeafEnd
      <4> HIDE DEF Ends, end
      <4> QED BY <4>1, <4>2, MinIs
    <3>2. PICK e : e = end
      OBVIOUS
    <3>3. e \in (first + 1)..(N + 1) /\ (e > N \/ Past(b, t.rows[cells[e]]))
      BY <3>1, <3>2
    <3>4. s.rows = SubSeq(cells, first, e - 1)
      BY <2>1, <2>4, <3>2
    <3>5. first \in 1..N /\ e - 1 \in first..N
      BY <1>1, <1>4, <1>7, <2>4, <3>3
    <3>6. s.rows \in Seq(Nat) /\ Len(s.rows) = (e - 1) - first + 1
          /\ \A x \in 1..Len(s.rows) : s.rows[x] = cells[first + x - 1]
      <4> QED BY <1>1, <3>4, <3>5
    <3>7. ASSUME NEW j \in first..(e - 1) PROVE cells[j] \in ToSet(s.rows)
      <4>1. j - first + 1 \in 1..Len(s.rows) /\ first + (j - first + 1) - 1 = j
        BY <3>5, <3>6
      <4>2. s.rows[j - first + 1] = cells[j]
        BY <3>6, <4>1
      <4>3. DOMAIN s.rows = 1..Len(s.rows)
        BY <3>6
      <4> QED BY <4>1, <4>2, <4>3 DEF ToSet
    <3>8. ASSUME NEW j \in 1..N, Inside(b, t.rows[cells[j]], m) PROVE j < e
      <4> SUFFICES ASSUME j >= e PROVE FALSE
        BY <3>3
      <4>1. e \in 1..N /\ Past(b, t.rows[cells[e]])
        BY <1>1, <3>3, <3>5
      <4>2. PICK row, last : row = t.rows[cells[j]] /\ last = t.rows[cells[e]]
        OBVIOUS
      <4>3. /\ \A f \in 1..m : row[f] \in Int /\ last[f] \in Int /\ row[f] <= b.to[f]
            /\ b.incTo \/ \E f \in 1..m : row[f] < b.to[f]
        <5>1. RowOk(row, m) /\ RowOk(last, m)
          BY <1>20, <4>1, <4>2
        <5> QED BY <1>1, <3>8, <4>2, <5>1, RowOkIs DEF Inside
      <4>4. ~KeyLess(b.to, row, m)
        BY <1>1, <1>2, <4>3 DEF KeyLess
      <4>5. j = e \/ KeyLess(last, row, m)
        <5> SUFFICES ASSUME j # e PROVE KeyLess(last, row, m)
          OBVIOUS
        <5>1. e < j
          BY <3>3, <4>1
        <5>2. KeyLess(KeyAt(t, i, 0, e), KeyAt(t, i, 0, j), m)
          BY <1>20, <4>1, <5>1
        <5>3. \A f \in 1..m : KeyAt(t, i, 0, e)[f] = last[f] /\ KeyAt(t, i, 0, j)[f] = row[f]
          BY <1>20, <4>1, <4>2
        <5> QED BY <1>1, <5>2, <5>3 DEF KeyLess
      <4>6. compareKeys(b.to, last) < 0 \/ (~b.incTo /\ compareKeys(b.to, last) = 0)
        BY <4>1, <4>2 DEF Past
      <4>7. CASE compareKeys(b.to, last) < 0
        <5>1. KeyLess(b.to, last, m)
          BY <1>1, <1>2, <4>3, <4>7, CompareKeysIs
        <5>2. KeyLess(b.to, row, m)
          <6>1. CASE j = e
            BY <4>2, <5>1, <6>1
          <6>2. CASE KeyLess(last, row, m)
            BY <1>1, <1>2, <4>3, <5>1, <6>2, KeyLessTransitive
          <6> QED BY <4>5, <6>1, <6>2
        <5> QED BY <4>4, <5>2
      <4>8. CASE ~b.incTo /\ compareKeys(b.to, last) = 0
        <5>1. \A f \in 1..m : b.to[f] = last[f]
          <6>1. PICK to : to = b.to
            OBVIOUS
          <6>2. DOMAIN to = 1..m /\ \A f \in 1..m : to[f] \in Int /\ last[f] \in Int
            BY <1>2, <4>3, <6>1
          <6>3. compareKeys(to, last) = 0
            BY <4>8, <6>1
          <6>4. IntegerKeys(to, last, m)
            BY <1>1, <6>2 DEF IntegerKeys
          <6>5. Agree(to, last, m)
            BY <6>3, <6>4, SameKey
          <6> QED BY <6>1, <6>5 DEF Agree
        <5>2. CASE j = e
          <6>1. \A f \in 1..m : b.to[f] = row[f]
            BY <4>2, <5>1, <5>2
          <6> QED BY <1>2, <4>3, <4>8, <6>1
        <5>3. CASE KeyLess(last, row, m)
          <6>1. KeyLess(b.to, row, m)
            BY <1>1, <5>1, <5>3 DEF KeyLess
          <6> QED BY <4>4, <6>1
        <5> QED BY <4>5, <5>2, <5>3
      <4> QED BY <4>6, <4>7, <4>8
    <3>9. ASSUME NEW r \in DOMAIN t.rows, Inside(b, t.rows[r], m) PROVE r \in ToSet(s.rows)
      <4>1. PICK j \in 1..N : cells[j] = r
        BY <1>20
      <4>2. j >= first /\ j < e
        BY <2>2, <3>8, <3>9, <4>1
      <4>3. j \in first..(e - 1)
        BY <3>3, <3>5, <4>2
      <4> QED BY <3>7, <4>1, <4>3
    <3> QED BY <1>9, <3>6, <3>9
  <2> QED BY <2>3, <2>4
<1> QED BY <1>10, <1>11

-----------------------------------------------------------------------------
(* What the plans read. *)

\* A plan that reads record ids, and misses no row that meets the condition as
\* long as no scan leaves its index.
ReadsAll(t, c, p) ==
  /\ Read(t, p).rows \in Seq(Nat)
  /\ ~Read(t, p).wild => Meeting(t, c) \subseteq ToSet(Read(t, p).rows)

\* It is nested no deeper than the condition.
PlanOk(t, c, p) ==
  /\ \A n \in 0..Nesting : c \in ConditionsOf[n] => p \in PlansOf[n]
  /\ ReadsAll(t, c, p)

\* A filter reads the rows of its source that meet its condition.
LEMMA FilterReads ==
  ASSUME NEW t, NEW c, NEW p, Filter(c, p) \in AllPlans, Read(t, p).rows \in Seq(Nat)
  PROVE  /\ Read(t, Filter(c, p)).rows \in Seq(Nat)
         /\ ToSet(Read(t, Filter(c, p)).rows) = ToSet(Read(t, p).rows) \cap Meeting(t, c)
         /\ Read(t, Filter(c, p)).wild = Read(t, p).wild
<1>1. PICK q : q = Filter(c, p)
  OBVIOUS
<1>2. q.k = "filter" /\ q.cond = c /\ q.source = p
  BY <1>1 DEF Filter
<1>3. Read(t, q) = [rows |-> Kept(Read(t, p).rows, Meeting(t, c)), wild |-> Read(t, p).wild]
  BY <1>1, <1>2, ReadIs
<1>4. PICK rows : rows = Read(t, p).rows
  OBVIOUS
<1>5. Kept(rows, Meeting(t, c)) \in Seq(Nat)
      /\ ToSet(Kept(rows, Meeting(t, c))) = ToSet(rows) \cap Meeting(t, c)
  BY <1>4, KeptIs
<1> QED BY <1>1, <1>3, <1>4, <1>5

\* A union reads the rows of all its sources.
LEMMA UnionReads ==
  ASSUME NEW t, NEW ps, Union(ps) \in AllPlans, NEW T, ps \in Seq(T),
         \A i \in DOMAIN ps : Read(t, ps[i]).rows \in Seq(Nat)
  PROVE  /\ Read(t, Union(ps)).rows \in Seq(Nat)
         /\ \A i \in DOMAIN ps : ToSet(Read(t, ps[i]).rows) \subseteq ToSet(Read(t, Union(ps)).rows)
         /\ Read(t, Union(ps)).wild = \E i \in DOMAIN ps : Read(t, ps[i]).wild
<1>1. PICK q : q = Union(ps)
  OBVIOUS
<1>2. q.k = "union" /\ q.sources = ps
  BY <1>1 DEF Union
<1>3. Read(t, q) = United([i \in DOMAIN ps |-> Read(t, ps[i])])
  BY <1>1, <1>2, ReadIs
<1>4. PICK all : all = [i \in DOMAIN ps |-> Read(t, ps[i])]
  OBVIOUS
<1>5. PICK seqs : seqs = [i \in DOMAIN all |-> all[i].rows]
  OBVIOUS
<1>6. DOMAIN all = DOMAIN ps /\ DOMAIN seqs = DOMAIN ps /\ Len(ps) \in Nat /\ DOMAIN ps = 1..Len(ps)
  BY <1>4, <1>5
<1>7. \A i \in DOMAIN ps : seqs[i] = Read(t, ps[i]).rows /\ all[i].wild = Read(t, ps[i]).wild
  BY <1>4, <1>5, <1>6
<1>8. seqs \in Seq(Seq(Nat))
  <2>1. seqs = [i \in 1..Len(ps) |-> seqs[i]]
    BY <1>5, <1>6
  <2>2. \A i \in 1..Len(ps) : seqs[i] \in Seq(Nat)
    BY <1>6, <1>7
  <2>3. seqs \in [1..Len(ps) -> Seq(Nat)]
    BY <2>1, <2>2, Zenon
  <2> QED BY <1>6, <2>3
<1>9. Read(t, q) = [rows |-> FlattenSeq(seqs), wild |-> \E i \in DOMAIN ps : all[i].wild]
  BY <1>3, <1>4, <1>5, <1>6, Zenon DEF United
<1>10. FlattenSeq(seqs) \in Seq(Nat)
       /\ ToSet(FlattenSeq(seqs)) = UNION {ToSet(seqs[i]) : i \in DOMAIN seqs}
  BY <1>8, FlattenSeqHas
<1>11. Read(t, q).rows = FlattenSeq(seqs) /\ Read(t, q).wild = \E i \in DOMAIN ps : all[i].wild
  BY <1>9
<1>12. \A i \in DOMAIN ps : ToSet(Read(t, ps[i]).rows) \subseteq ToSet(FlattenSeq(seqs))
  BY <1>6, <1>7, <1>10
<1>13. (\E i \in DOMAIN ps : all[i].wild) = \E i \in DOMAIN ps : Read(t, ps[i]).wild
  BY <1>7
<1> QED BY <1>1, <1>10, <1>11, <1>12, <1>13

\* The scan of an index for a list of conditions.
LEMMA IndexScanReads ==
  ASSUME PlainIndexes, NEW t \in Tables, NEW i \in DOMAIN t.indexes,
         NEW cs \in Seq(Conditions)
  PROVE  /\ \A n \in 0..Nesting : IndexScan(t, i, cs) \in PlansOf[n]
         /\ Read(t, IndexScan(t, i, cs)).rows \in Seq(Nat)
         /\ ~Read(t, IndexScan(t, i, cs)).wild =>
              {r \in DOMAIN t.rows : \A x \in ToSet(cs) : Holds(x, t.rows[r])}
                \subseteq ToSet(Read(t, IndexScan(t, i, cs)).rows)
<1>1. PICK columns, m : columns = t.indexes[i].columns /\ m = Len(columns)
  OBVIOUS
<1>2. IndexOk(t, i, m)
  BY <1>1, IndexIsOk
<1>3. Leading(columns) /\ \A r \in DOMAIN t.rows : RowOk(t.rows[r], m)
  BY <1>1, <1>2 DEF IndexOk
<1>4. PICK b : b = BoundsFor(cs, columns)
  OBVIOUS
<1>5. BoundsOk(b, m)
  BY <1>1, <1>3, <1>4, BoundsForInside
<1>6. \A row : RowOk(row, m) /\ (\A x \in ToSet(cs) : Holds(x, row)) => Inside(b, row, m)
  BY <1>1, <1>3, <1>4, BoundsForInside
<1>7. PICK p : p = IndexScan(t, i, cs)
  OBVIOUS
<1>8. p = [k |-> "scan", index |-> i, bounds |-> b] /\ p.k = "scan" /\ p.index = i /\ p.bounds = b
  BY <1>1, <1>4, <1>7 DEF IndexScan
<1>9. i \in Nat
  <2>1. t.indexes \in Seq(Trees)
    BY TablesAssumption
  <2> QED BY <2>1
<1>10. \A n \in 0..Nesting : p \in PlansOf[n]
  BY <1>5, <1>8, <1>9, PlanBuilt DEF BoundsOk
<1>11. p \in AllPlans
  BY <1>10, NestingAssumption DEF AllPlans
<1>12. Read(t, p) = LeafScan(t, i, b)
  BY <1>2, <1>5, <1>8, <1>11, ReadIs, ScanInLeaf DEF Source
<1>13. PICK s : s = LeafScan(t, i, b)
  OBVIOUS
<1>14. s.rows \in Seq(Nat)
       /\ (~s.wild => {r \in DOMAIN t.rows : Inside(b, t.rows[r], m)} \subseteq ToSet(s.rows))
  BY <1>2, <1>5, <1>13, ScanOk
<1>15. \A r \in DOMAIN t.rows : (\A x \in ToSet(cs) : Holds(x, t.rows[r])) => Inside(b, t.rows[r], m)
  BY <1>3, <1>6
<1>16. ~s.wild => {r \in DOMAIN t.rows : \A x \in ToSet(cs) : Holds(x, t.rows[r])} \subseteq ToSet(s.rows)
  BY <1>14, <1>15
<1> QED BY <1>7, <1>10, <1>12, <1>13, <1>14, <1>16

\* Leaving conditions out of an AND leaves a condition.
LEMMA ShorterAnd ==
  ASSUME NEW cs, NEW n \in 0..Nesting, Node("and", cs) \in ConditionsOf[n]
  PROVE  \E T : /\ cs \in Seq(T) /\ T \subseteq Conditions
                /\ \A rest \in Seq(T) : And(rest) \in Conditions
<1> DEFINE T == ConditionsOf[n - 1]
<1>1. n > 0 /\ n - 1 \in 0..Nesting /\ cs \in Seq(T)
  BY NodeLevels
<1>2. T \subseteq Conditions /\ ConditionsOf[n] \subseteq Conditions
  BY <1>1, ConditionsRise
<1>3. ASSUME NEW rest \in Seq(T) PROVE And(rest) \in Conditions
  <2>1. Node("and", rest) \in ConditionsOf[n]
    BY <1>1, ConditionBuilt
  <2>2. And(rest) = Node("and", rest)
    BY DEF And, Node
  <2> QED BY <1>2, <2>1, <2>2
<1> QED BY <1>1, <1>2, <1>3

\* The filters over a scan take no row out that meets their conditions.
LEMMA FilteredReads ==
  ASSUME NEW t, NEW cs, NEW T, T \subseteq Conditions, NEW rest \in Seq(T),
         \A q \in Seq(T) : And(q) \in Conditions, ToSet(rest) \subseteq ToSet(cs),
         NEW p, \A n \in 0..Nesting : p \in PlansOf[n],
         Read(t, p).rows \in Seq(Nat),
         ~Read(t, p).wild => {r \in DOMAIN t.rows : \A x \in ToSet(cs) : Holds(x, t.rows[r])}
                               \subseteq ToSet(Read(t, p).rows)
  PROVE  /\ \A n \in 0..Nesting : n > 0 => Filtered(rest, p) \in PlansOf[n]
         /\ Read(t, Filtered(rest, p)).rows \in Seq(Nat)
         /\ ~Read(t, Filtered(rest, p)).wild =>
              {r \in DOMAIN t.rows : \A x \in ToSet(cs) : Holds(x, t.rows[r])}
                \subseteq ToSet(Read(t, Filtered(rest, p)).rows)
<1> DEFINE All == {r \in DOMAIN t.rows : \A x \in ToSet(cs) : Holds(x, t.rows[r])}
<1>1. ASSUME NEW c \in Conditions, All \subseteq Meeting(t, c), Filtered(rest, p) = Filter(c, p)
      PROVE  /\ \A n \in 0..Nesting : n > 0 => Filtered(rest, p) \in PlansOf[n]
             /\ Read(t, Filtered(rest, p)).rows \in Seq(Nat)
             /\ ~Read(t, Filtered(rest, p)).wild => All \subseteq ToSet(Read(t, Filtered(rest, p)).rows)
  <2> HIDE DEF All
  <2>1. PICK f : f = Filtered(rest, p) /\ f = Filter(c, p)
    BY <1>1
  <2>2. ASSUME NEW n \in 0..Nesting, n > 0 PROVE f \in PlansOf[n]
    <3>1. n - 1 \in 0..Nesting
      BY <2>2, NestingAssumption
    <3> QED BY <2>1, <2>2, <3>1, PlanBuilt
  <2>3. Filter(c, p) \in AllPlans
    BY <2>1, <2>2, NestingAssumption DEF AllPlans
  <2>4. /\ Read(t, f).rows \in Seq(Nat)
        /\ ToSet(Read(t, f).rows) = ToSet(Read(t, p).rows) \cap Meeting(t, c)
        /\ Read(t, f).wild = Read(t, p).wild
    BY <2>1, <2>3, FilterReads
  <2>5. ~Read(t, f).wild => All \subseteq ToSet(Read(t, f).rows)
    <3>1. ~Read(t, p).wild => All \subseteq ToSet(Read(t, p).rows)
      BY DEF All
    <3> QED BY <1>1, <2>4, <3>1
  <2> QED BY <2>1, <2>2, <2>4, <2>5
<1>2. Len(rest) \in Nat /\ DOMAIN rest = 1..Len(rest)
  OBVIOUS
<1>3. CASE Len(rest) = 0
  <2>1. Filtered(rest, p) = p
    BY <1>3 DEF Filtered
  <2> QED BY <2>1
<1>4. CASE Len(rest) = 1
  <2>1. Filtered(rest, p) = Filter(rest[1], p)
    BY <1>4 DEF Filtered
  <2>2. rest[1] \in Conditions /\ rest[1] \in ToSet(cs)
    <3>1. 1 \in DOMAIN rest
      BY <1>2, <1>4
    <3>2. rest[1] \in T
      BY <3>1
    <3>3. rest[1] \in ToSet(rest)
      BY <3>1 DEF ToSet
    <3> QED BY <3>2, <3>3
  <2>3. All \subseteq Meeting(t, rest[1])
    BY <2>2 DEF Meeting
  <2> QED BY <1>1, <2>1, <2>2, <2>3
<1>5. CASE Len(rest) > 1
  <2>1. Filtered(rest, p) = Filter(And(rest), p)
    BY <1>2, <1>5 DEF Filtered
  <2>2. And(rest) \in Conditions /\ Node("and", rest) = And(rest) /\ rest \in Seq(Conditions)
    <3>1. rest \in Seq(Conditions)
      BY SeqRises
    <3> QED BY <3>1 DEF And, Node
  <2>3. ASSUME NEW r \in All PROVE r \in Meeting(t, And(rest))
    <3>1. \A x \in ToSet(rest) : Holds(x, t.rows[r])
      BY <2>3
    <3>2. PICK row : row = t.rows[r]
      OBVIOUS
    <3>3. Holds(Node("and", rest), row) = \A x \in ToSet(rest) : Holds(x, row)
      <4>1. rest \in Seq(Conditions) /\ Node("and", rest) \in Conditions
        BY <2>2
      <4> QED BY <4>1, HoldsNode
    <3>4. \A x \in ToSet(rest) : Holds(x, row)
      BY <3>1, <3>2
    <3>5. Holds(And(rest), t.rows[r])
      BY <2>2, <3>2, <3>3, <3>4
    <3> QED BY <2>3, <3>5 DEF Meeting
  <2>4. All \subseteq Meeting(t, And(rest))
    BY <2>3
  <2> QED BY <1>1, <2>1, <2>2, <2>4
<1> QED BY <1>2, <1>3, <1>4, <1>5

\* Removing a member leaves the others.
LEMMA RemoveAtHas ==
  ASSUME NEW T, NEW s \in Seq(T), NEW i \in 1..Len(s)
  PROVE  /\ RemoveAt(s, i) \in Seq(T)
         /\ ToSet(RemoveAt(s, i)) \subseteq ToSet(s)
         /\ ToSet(s) \subseteq ToSet(RemoveAt(s, i)) \cup {s[i]}
<1>1. PICK a, b : a = SubSeq(s, 1, i - 1) /\ b = SubSeq(s, i + 1, Len(s))
  OBVIOUS
<1>2. a \in Seq(T) /\ ToSet(a) \subseteq ToSet(s)
  <2>1. a \in Seq(T) /\ Len(a) = i - 1 /\ \A j \in 1..(i - 1) : a[j] = s[j]
    BY <1>1
  <2>2. \A j \in DOMAIN a : j \in DOMAIN s /\ a[j] = s[j]
    BY <2>1
  <2> QED BY <2>1, <2>2 DEF ToSet
<1>3. b \in Seq(T) /\ ToSet(b) \subseteq ToSet(s)
  <2>1. b \in Seq(T) /\ Len(b) = Len(s) - i /\ \A j \in 1..(Len(s) - i) : b[j] = s[i + j]
    BY <1>1
  <2>2. \A j \in DOMAIN b : i + j \in DOMAIN s /\ b[j] = s[i + j]
    BY <2>1
  <2> QED BY <2>1, <2>2 DEF ToSet
<1>4. RemoveAt(s, i) = a \o b
  BY <1>1 DEF RemoveAt
<1>5. ASSUME NEW j \in DOMAIN s PROVE s[j] \in ToSet(a) \cup ToSet(b) \cup {s[i]}
  <2>1. j \in 1..(i - 1) \/ j = i \/ j - i \in 1..(Len(s) - i)
    OBVIOUS
  <2>2. CASE j \in 1..(i - 1)
    <3>1. DOMAIN a = 1..(i - 1) /\ a[j] = s[j]
      BY <1>1, <2>2
    <3> QED BY <2>2, <3>1 DEF ToSet
  <2>3. CASE j - i \in 1..(Len(s) - i)
    <3>1. DOMAIN b = 1..(Len(s) - i) /\ \A x \in 1..(Len(s) - i) : b[x] = s[i + x]
      BY <1>1
    <3>2. b[j - i] = s[i + (j - i)] /\ i + (j - i) = j
      BY <2>3, <3>1
    <3> QED BY <2>3, <3>1, <3>2 DEF ToSet
  <2> QED BY <2>1, <2>2, <2>3
<1>6. ToSet(s) \subseteq ToSet(a) \cup ToSet(b) \cup {s[i]}
  BY <1>5 DEF ToSet
<1> QED BY <1>2, <1>3, <1>4, <1>6, ConcatenationHas

-----------------------------------------------------------------------------
(* The plan of a condition. *)

\* The index that is chosen is one of the table.
LEMMA UsableIs ==
  ASSUME NEW t \in Tables, NEW cs, Usable(t, cs) # {}
  PROVE  Min(Usable(t, cs)) \in DOMAIN t.indexes
<1>1. t.indexes \in Seq(Trees)
  BY TablesAssumption
<1>2. DOMAIN t.indexes \subseteq Nat
  BY <1>1
<1>3. Usable(t, cs) \in SUBSET Nat /\ Usable(t, cs) \subseteq DOMAIN t.indexes
  BY <1>2 DEF Usable
<1> QED BY <1>3, MinIs

\* A comparison is read from an index on its column.
LEMMA ComparisonPlan ==
  ASSUME PlainIndexes, NEW t \in Tables, NEW c \in Conditions, c.k = "cmp",
         PlanFor(t, c) # NoPlan
  PROVE  PlanOk(t, c, PlanFor(t, c))
<1>1. PlanFor(t, c) = visitCompareConditionQNode(t, c)
  BY PlanForIs
<1>2. Usable(t, {c}) # {} /\ PlanFor(t, c) = IndexScan(t, Min(Usable(t, {c})), <<c>>)
  BY <1>1 DEF visitCompareConditionQNode
<1>3. PICK i : i = Min(Usable(t, {c}))
  OBVIOUS
<1>4. i \in DOMAIN t.indexes
  BY <1>2, <1>3, UsableIs
<1>5. PICK cs : cs = <<c>>
  OBVIOUS
<1>6. cs \in Seq(Conditions) /\ ToSet(cs) = {c}
  BY <1>5 DEF ToSet
<1>7. PICK p : p = IndexScan(t, i, cs)
  OBVIOUS
<1>8. /\ \A n \in 0..Nesting : p \in PlansOf[n]
      /\ Read(t, p).rows \in Seq(Nat)
      /\ ~Read(t, p).wild =>
           {r \in DOMAIN t.rows : \A x \in ToSet(cs) : Holds(x, t.rows[r])} \subseteq ToSet(Read(t, p).rows)
  BY <1>4, <1>6, <1>7, IndexScanReads
<1>9. Meeting(t, c) = {r \in DOMAIN t.rows : \A x \in ToSet(cs) : Holds(x, t.rows[r])}
  BY <1>6 DEF Meeting
<1>10. PlanOk(t, c, p)
  BY <1>8, <1>9 DEF PlanOk, ReadsAll
<1> QED BY <1>2, <1>3, <1>5, <1>7, <1>10

\* An AND is read from an index, or from the indexes of one of its ORs.
LEMMA AndPlan ==
  ASSUME PlainIndexes, NEW t \in Tables,
         NEW cs \in Seq(Conditions), Node("and", cs) \in Conditions,
         PlanFor(t, Node("and", cs)) # NoPlan,
         \A i \in DOMAIN cs : PlanFor(t, cs[i]) # NoPlan => PlanOk(t, cs[i], PlanFor(t, cs[i]))
  PROVE  PlanOk(t, Node("and", cs), PlanFor(t, Node("and", cs)))
<1> DEFINE All == {r \in DOMAIN t.rows : \A x \in ToSet(cs) : Holds(x, t.rows[r])}
<1>1. PICK c : c = Node("and", cs) /\ c \in Conditions /\ c.k = "and" /\ c.children = cs
  BY NodeFields
<1>2. PICK plans : plans = [i \in DOMAIN cs |-> PlanFor(t, cs[i])]
  OBVIOUS
<1>3. PICK p : p = PlanFor(t, c)
  OBVIOUS
<1>4. p = visitAndConditionQNode(t, cs, plans) /\ p # NoPlan
  BY <1>1, <1>2, <1>3, PlanForIs
<1>5. PICK T : cs \in Seq(T) /\ T \subseteq Conditions /\ \A rest \in Seq(T) : And(rest) \in Conditions
  <2>1. Nesting \in 0..Nesting /\ Node("and", cs) \in ConditionsOf[Nesting]
    BY NestingAssumption DEF Conditions
  <2> QED BY <2>1, ShorterAnd
<1>6. ASSUME NEW n \in 0..Nesting, c \in ConditionsOf[n]
      PROVE  n > 0 /\ n - 1 \in 0..Nesting /\ cs \in Seq(ConditionsOf[n - 1])
  BY <1>1, <1>6, NodeLevels
<1>7. Meeting(t, c) = All
  <2>1. ASSUME NEW r \in DOMAIN t.rows
        PROVE  Holds(c, t.rows[r]) = \A x \in ToSet(cs) : Holds(x, t.rows[r])
    <3>1. PICK row : row = t.rows[r]
      OBVIOUS
    <3>2. Holds(c, row) = \A x \in ToSet(cs) : Holds(x, row)
      BY <1>1, HoldsNode
    <3> QED BY <3>1, <3>2
  <2> QED BY <2>1 DEF Meeting
<1>8. CASE Usable(t, ToSet(cs)) # {}
  <2>1. PICK i : i = Min(Usable(t, ToSet(cs)))
    OBVIOUS
  <2>2. i \in DOMAIN t.indexes
    BY <1>8, <2>1, UsableIs
  <2>3. PICK rest : rest = Kept(cs, Unbound(t, cs, i))
    OBVIOUS
  <2>4. PICK scan : scan = IndexScan(t, i, cs)
    OBVIOUS
  <2>5. p = Filtered(rest, scan)
    BY <1>4, <1>8, <2>1, <2>3, <2>4 DEF visitAndConditionQNode, indexifyAnd
  <2>6. rest \in Seq(T) /\ ToSet(rest) \subseteq ToSet(cs)
    BY <1>5, <2>3, KeptIs
  <2>7. /\ \A n \in 0..Nesting : scan \in PlansOf[n]
        /\ Read(t, scan).rows \in Seq(Nat)
        /\ ~Read(t, scan).wild => All \subseteq ToSet(Read(t, scan).rows)
    BY <2>2, <2>4, IndexScanReads
  <2>8. /\ \A n \in 0..Nesting : n > 0 => p \in PlansOf[n]
        /\ Read(t, p).rows \in Seq(Nat)
        /\ ~Read(t, p).wild => All \subseteq ToSet(Read(t, p).rows)
    BY <1>5, <2>5, <2>6, <2>7, FilteredReads
  <2>9. PlanOk(t, c, p)
    BY <1>6, <1>7, <2>8 DEF PlanOk, ReadsAll
  <2> QED BY <1>1, <1>3, <2>9
<1>9. CASE Usable(t, ToSet(cs)) = {}
  <2>1. Readable(cs, plans) # {} /\ p = filterifyAnd(cs, plans)
    BY <1>4, <1>9 DEF visitAndConditionQNode
  <2>2. PICK i : i = Min(Readable(cs, plans))
    OBVIOUS
  <2>3. i \in 1..Len(cs) /\ i \in DOMAIN cs /\ plans[i] # NoPlan
    <3>1. Readable(cs, plans) \in SUBSET Nat
      BY DEF Readable
    <3>2. i \in Readable(cs, plans)
      BY <2>1, <2>2, <3>1, MinIs
    <3> QED BY <3>2 DEF Readable
  <2>4. PICK rest, source : rest = RemoveAt(cs, i) /\ source = plans[i]
    OBVIOUS
  <2>5. p = Filter(And(rest), source)
    BY <2>1, <2>2, <2>4 DEF filterifyAnd
  <2>6. PlanOk(t, cs[i], source)
    BY <1>2, <2>3, <2>4
  <2>7. rest \in Seq(T) /\ ToSet(rest) \subseteq ToSet(cs)
    BY <1>5, <2>3, <2>4, RemoveAtHas
  <2>8. And(rest) \in Conditions /\ rest \in Seq(Conditions) /\ And(rest) = Node("and", rest)
    <3>1. rest \in Seq(Conditions)
      BY <1>5, <2>7, SeqRises
    <3> QED BY <1>5, <2>7, <3>1 DEF And, Node
  <2>9. ASSUME NEW n \in 0..Nesting, c \in ConditionsOf[n] PROVE p \in PlansOf[n]
    <3>1. n > 0 /\ n - 1 \in 0..Nesting /\ cs \in Seq(ConditionsOf[n - 1])
      BY <1>6, <2>9
    <3>2. cs[i] \in ConditionsOf[n - 1]
      BY <2>3, <3>1
    <3>3. source \in PlansOf[n - 1]
      BY <2>6, <3>1, <3>2 DEF PlanOk
    <3> QED BY <2>5, <2>8, <3>1, <3>3, PlanBuilt
  <2>10. p \in AllPlans
    BY <1>1, <2>9, NestingAssumption DEF AllPlans, Conditions
  <2>11. Read(t, source).rows \in Seq(Nat)
         /\ (~Read(t, source).wild => Meeting(t, cs[i]) \subseteq ToSet(Read(t, source).rows))
    BY <2>6 DEF PlanOk, ReadsAll
  <2>12. /\ Read(t, p).rows \in Seq(Nat)
         /\ ToSet(Read(t, p).rows) = ToSet(Read(t, source).rows) \cap Meeting(t, And(rest))
         /\ Read(t, p).wild = Read(t, source).wild
    BY <2>5, <2>10, <2>11, FilterReads
  <2>13. All \subseteq Meeting(t, cs[i])
    <3>1. cs[i] \in ToSet(cs)
      BY <2>3 DEF ToSet
    <3> QED BY <3>1 DEF Meeting
  <2>14. ASSUME NEW r \in All PROVE r \in Meeting(t, And(rest))
    <3>1. PICK row : row = t.rows[r]
      OBVIOUS
    <3>2. Holds(Node("and", rest), row) = \A x \in ToSet(rest) : Holds(x, row)
      BY <2>8, HoldsNode
    <3>3. \A x \in ToSet(rest) : Holds(x, row)
      BY <2>7, <3>1
    <3>4. Holds(And(rest), t.rows[r])
      BY <2>8, <3>1, <3>2, <3>3
    <3> QED BY <3>4 DEF Meeting
  <2>15. ~Read(t, p).wild => All \subseteq ToSet(Read(t, p).rows)
    <3> HIDE DEF All
    <3>1. All \subseteq Meeting(t, And(rest))
      BY <2>14
    <3> QED BY <2>11, <2>12, <2>13, <3>1
  <2>16. PlanOk(t, c, p)
    BY <1>7, <2>9, <2>12, <2>15 DEF PlanOk, ReadsAll
  <2> QED BY <1>1, <1>3, <2>16
<1> QED BY <1>8, <1>9

\* An OR is read from indexes if all its alternatives are.
LEMMA OrPlan ==
  ASSUME NEW t \in Tables, NEW cs \in Seq(Conditions), Node("or", cs) \in Conditions,
         PlanFor(t, Node("or", cs)) # NoPlan,
         \A i \in DOMAIN cs : PlanFor(t, cs[i]) # NoPlan => PlanOk(t, cs[i], PlanFor(t, cs[i]))
  PROVE  PlanOk(t, Node("or", cs), PlanFor(t, Node("or", cs)))
<1>1. PICK c : c = Node("or", cs) /\ c \in Conditions /\ c.k = "or" /\ c.children = cs
  BY NodeFields
<1>2. PICK plans : plans = [i \in DOMAIN cs |-> PlanFor(t, cs[i])]
  OBVIOUS
<1>3. PICK p : p = PlanFor(t, c)
  OBVIOUS
<1>4. p = visitOrConditionQNode(plans) /\ p # NoPlan
  BY <1>1, <1>2, <1>3, PlanForIs
<1>5. NoPlan \notin ToSet(plans) /\ p = Union(plans)
  BY <1>4 DEF visitOrConditionQNode
<1>6. \A i \in DOMAIN cs : plans[i] # NoPlan /\ PlanOk(t, cs[i], plans[i])
  <2>1. ASSUME NEW i \in DOMAIN cs PROVE plans[i] # NoPlan
    BY <1>2, <1>5 DEF ToSet
  <2> QED BY <1>2, <2>1
<1>7. DOMAIN plans = DOMAIN cs /\ DOMAIN cs = 1..Len(cs) /\ Len(cs) \in Nat
      /\ plans = [i \in 1..Len(cs) |-> plans[i]]
  BY <1>2
<1>8. ASSUME NEW n \in 0..Nesting, c \in ConditionsOf[n] PROVE p \in PlansOf[n] /\ plans \in Seq(PlansOf[n - 1])
  <2>1. n > 0 /\ n - 1 \in 0..Nesting /\ cs \in Seq(ConditionsOf[n - 1])
    BY <1>1, <1>8, NodeLevels
  <2>2. \A i \in 1..Len(cs) : plans[i] \in PlansOf[n - 1]
    <3>1. \A i \in 1..Len(cs) : cs[i] \in ConditionsOf[n - 1]
      BY <2>1
    <3> QED BY <1>6, <1>7, <2>1, <3>1 DEF PlanOk
  <2>3. plans \in Seq(PlansOf[n - 1])
    <3>1. plans \in [1..Len(cs) -> PlansOf[n - 1]]
      BY <1>7, <2>2, Zenon
    <3> QED BY <1>7, <3>1
  <2> QED BY <1>5, <2>1, <2>3, PlanBuilt
<1>9. p \in AllPlans /\ plans \in Seq(PlansOf[Nesting - 1])
  BY <1>1, <1>8, NestingAssumption DEF AllPlans, Conditions
<1>10. \A i \in DOMAIN plans : Read(t, plans[i]).rows \in Seq(Nat)
  BY <1>6, <1>7 DEF PlanOk, ReadsAll
<1>11. /\ Read(t, p).rows \in Seq(Nat)
       /\ \A i \in DOMAIN plans : ToSet(Read(t, plans[i]).rows) \subseteq ToSet(Read(t, p).rows)
       /\ Read(t, p).wild = \E i \in DOMAIN plans : Read(t, plans[i]).wild
  BY <1>5, <1>9, <1>10, UnionReads
<1>12. ASSUME ~Read(t, p).wild, NEW r \in Meeting(t, c) PROVE r \in ToSet(Read(t, p).rows)
  <2>1. PICK row : row = t.rows[r]
    OBVIOUS
  <2>2. Holds(c, row)
    BY <2>1, <1>12 DEF Meeting
  <2>3. Holds(c, row) = \E x \in ToSet(cs) : Holds(x, row)
    BY <1>1, HoldsNode
  <2>4. PICK x \in ToSet(cs) : Holds(x, row)
    BY <2>2, <2>3
  <2>5. PICK i \in DOMAIN cs : x = cs[i]
    BY <2>4 DEF ToSet
  <2>6. r \in Meeting(t, cs[i])
    BY <2>1, <2>4, <2>5, <1>12 DEF Meeting
  <2>7. ~Read(t, plans[i]).wild
    BY <1>7, <1>11, <1>12, <2>5
  <2>8. Meeting(t, cs[i]) \subseteq ToSet(Read(t, plans[i]).rows)
    BY <1>6, <2>5, <2>7 DEF PlanOk, ReadsAll
  <2> QED BY <1>7, <1>11, <2>5, <2>6, <2>8
<1>13. ~Read(t, p).wild => Meeting(t, c) \subseteq ToSet(Read(t, p).rows)
  BY <1>12
<1>14. PlanOk(t, c, p)
  BY <1>8, <1>11, <1>13 DEF PlanOk, ReadsAll
<1> QED BY <1>1, <1>3, <1>14

\* The plans for all conditions read every row that meets them.
LEMMA PlansReadAll ==
  ASSUME PlainIndexes, NEW t \in Tables, NEW c \in Conditions, PlanFor(t, c) # NoPlan
  PROVE  PlanOk(t, c, PlanFor(t, c))
<1> DEFINE S == {x \in Conditions : PlanFor(t, x) # NoPlan => PlanOk(t, x, PlanFor(t, x))}
<1>1. ASSUME NEW l \in Terms, NEW r \in Terms, NEW o \in Orders PROVE Compare(l, o, r) \in S
  <2>1. Compare(l, o, r) \in Conditions /\ Compare(l, o, r).k = "cmp"
    BY CompareIsCondition, CompareFields
  <2> QED BY <2>1, ComparisonPlan
<1>2. ASSUME NEW kind \in {"and", "or"}, NEW cs \in Seq(Conditions),
             Node(kind, cs) \in Conditions, \A i \in DOMAIN cs : cs[i] \in S
      PROVE  Node(kind, cs) \in S
  <2>1. \A i \in DOMAIN cs : PlanFor(t, cs[i]) # NoPlan => PlanOk(t, cs[i], PlanFor(t, cs[i]))
    BY <1>2
  <2>2. CASE kind = "and"
    BY <1>2, <2>1, <2>2, AndPlan
  <2>3. CASE kind = "or"
    BY <1>2, <2>1, <2>3, OrPlan
  <2> QED BY <2>2, <2>3
<1>3. Conditions \subseteq S
  <2> HIDE DEF S
  <2> QED BY <1>1, <1>2, ConditionsInduction
<1> QED BY <1>3

\* A table that is read without its indexes is filtered by the whole condition.
LEMMA TablePlanOk ==
  ASSUME PlainIndexes, NEW t \in Tables, NEW c \in Conditions
  PROVE  ReadsAll(t, c, TablePlan(t, c))
<1>1. CASE PlanFor(t, c) # NoPlan
  BY <1>1, PlansReadAll DEF TablePlan, PlanOk
<1>2. CASE PlanFor(t, c) = NoPlan
  <2>1. TablePlan(t, c) = Filter(c, ReadTable)
    BY <1>2 DEF TablePlan
  <2>2. Filter(c, ReadTable) \in AllPlans /\ ReadTable \in AllPlans
    <3>1. Nesting \in 0..Nesting /\ Nesting > 0 /\ Nesting - 1 \in 0..Nesting
      BY NestingAssumption
    <3> QED BY <3>1, PlanBuilt DEF AllPlans
  <2>3. Read(t, ReadTable) = [rows |-> AllRows(t), wild |-> FALSE]
    <3>1. ReadTable.k = "read"
      BY DEF ReadTable
    <3> QED BY <2>2, <3>1, ReadIs DEF Source
  <2>4. PICK all : all = AllRows(t)
    OBVIOUS
  <2>5. all \in Seq(Nat) /\ ToSet(all) = DOMAIN t.rows
    <3>1. t.rows \in Seq(Seq((MinVal + 1)..(MaxVal - 1)))
      BY TablesAssumption
    <3>2. PICK N : N = Len(t.rows)
      OBVIOUS
    <3>3. N \in Nat /\ DOMAIN t.rows = 1..N
      BY <3>1, <3>2
    <3>4. all = [r \in 1..N |-> r]
      BY <2>4, <3>3 DEF AllRows
    <3>5. all \in Seq(Nat)
      BY <3>3, <3>4
    <3> QED BY <3>3, <3>4, <3>5 DEF ToSet
  <2>6. /\ Read(t, Filter(c, ReadTable)).rows \in Seq(Nat)
        /\ ToSet(Read(t, Filter(c, ReadTable)).rows) = ToSet(all) \cap Meeting(t, c)
    <3>1. PICK p : p = ReadTable
      OBVIOUS
    <3>2. Read(t, p).rows = all
      BY <2>3, <2>4, <3>1
    <3>3. Filter(c, p) \in AllPlans /\ Read(t, p).rows \in Seq(Nat)
      BY <2>2, <2>5, <3>1, <3>2
    <3>4. /\ Read(t, Filter(c, p)).rows \in Seq(Nat)
          /\ ToSet(Read(t, Filter(c, p)).rows) = ToSet(Read(t, p).rows) \cap Meeting(t, c)
      BY <3>3, FilterReads
    <3> QED BY <3>1, <3>2, <3>4
  <2>7. Meeting(t, c) \subseteq DOMAIN t.rows
    BY DEF Meeting
  <2> QED BY <2>1, <2>5, <2>6, <2>7 DEF ReadsAll
<1> QED BY <1>1, <1>2

-----------------------------------------------------------------------------
(* No query loses a row. *)

PlanInv ==
  /\ ConditionInv
  /\ stage = "planned" /\ ~OrInOr(written) => ReadsAll(table, written, plan)
  /\ NoRowLost

\* Every step keeps the plan able to read every row.
LEMMA PlanInvHolds ==
  ASSUME PlainIndexes
  PROVE  Spec => []PlanInv
<1>1. Init /\ ConditionInv => PlanInv
  BY DEF Init, PlanInv, NoRowLost, Answered
<1>2. PlanInv /\ ConditionInv' /\ [Next]_vars => PlanInv'
  <2> SUFFICES ASSUME PlanInv, ConditionInv', [Next]_vars PROVE PlanInv'
    OBVIOUS
  <2>0. PICK t \in Tables : table = t /\ table' = t
    BY DEF Next, vars, PlanInv, ConditionInv
  <2>1. CASE optimizeTableReads
    <3>1. stage' = "planned" /\ plan' = TablePlan(t, tree) /\ written' = written
      BY <2>0, <2>1 DEF optimizeTableReads
    <3>2. ASSUME ~OrInOr(written) PROVE ReadsAll(t, written, plan')
      <4>1. tree \in Conditions /\ \A row \in Seq(Int) : Holds(tree, row) = Holds(written, row)
        BY <3>2 DEF PlanInv, ConditionInv
      <4>2. \A r \in DOMAIN t.rows : t.rows[r] \in Seq(Int)
        BY <2>0, RowsAreIntegers
      <4>3. Meeting(t, tree) = Meeting(t, written)
        BY <4>1, <4>2 DEF Meeting
      <4>4. ReadsAll(t, tree, TablePlan(t, tree))
        BY <4>1, TablePlanOk
      <4> QED BY <3>1, <4>3, <4>4 DEF ReadsAll
    <3> QED BY <2>0, <3>1, <3>2 DEF PlanInv, NoRowLost, Answered
  <2>2. CASE Execute
    <3>1. stage = "planned" /\ stage' = "answered" /\ answer' = Read(t, plan) /\ written' = written
      BY <2>0, <2>2 DEF Execute
    <3>2. ~OrInOr(written) => ReadsAll(t, written, plan)
      BY <2>0, <3>1 DEF PlanInv
    <3>3. NoRowLost'
      BY <2>0, <3>1, <3>2 DEF NoRowLost, Answered, Matching, ReadsAll
    <3> QED BY <3>1, <3>3 DEF PlanInv
  <2>3. CASE Query \/ optimizeConstants \/ optimizeConditions \/ CrashInErased \/ Done
    <3>1. stage' \in {"parsed", "folded", "flat", "crashed", "idle"}
      BY <2>3 DEF Query, optimizeConstants, optimizeConditions, CrashInErased, Done
    <3> QED BY <3>1 DEF PlanInv, NoRowLost, Answered
  <2>4. CASE UNCHANGED vars
    BY <2>4 DEF vars, PlanInv, NoRowLost, Answered, Matching
  <2> QED BY <2>1, <2>2, <2>3, <2>4 DEF Next
<1> QED BY <1>1, <1>2, ConditionInvHolds, PTL DEF Spec

(* A query that reads plain indexes answers with every row that meets its      *)
(* condition, however many indexes, comparisons and branches there are, if no   *)
(* search goes past the last cell.  Plain indexes are of one leaf: a scan that  *)
(* goes from leaf to leaf passes keys over, whatever the table.                 *)
THEOREM RowsKept == PlainIndexes /\ Spec => []NoRowLost
<1> SUFFICES ASSUME PlainIndexes PROVE Spec => []NoRowLost
  OBVIOUS
<1>1. PlanInv => NoRowLost
  BY DEF PlanInv
<1> QED BY <1>1, PlanInvHolds, PTL

-----------------------------------------------------------------------------
(* Sequences without repetitions. *)

\* Appending something new repeats nothing.
LEMMA AppendOnce ==
  ASSUME NEW T, NEW s \in Seq(T), NEW x \in T, IsInjective(s), x \notin ToSet(s)
  PROVE  IsInjective(Append(s, x))
<1>1. PICK a, n : a = Append(s, x) /\ n = Len(s)
  OBVIOUS
<1>2. /\ n \in Nat /\ DOMAIN s = 1..n /\ DOMAIN a = 1..(n + 1) /\ a[n + 1] = x
      /\ \A i \in 1..n : a[i] = s[i]
  BY <1>1
<1>3. \A i \in 1..n : a[i] # x
  BY <1>2 DEF ToSet
<1>4. \A i \in 1..(n + 1) : i \in 1..n \/ i = n + 1
  BY <1>2
<1>5. \A i, j \in 1..n : a[i] = a[j] => i = j
  BY <1>2 DEF IsInjective
<1>6. ASSUME NEW i \in 1..(n + 1), NEW j \in 1..(n + 1), a[i] = a[j] PROVE i = j
  <2>1. CASE i \in 1..n /\ j \in 1..n
    BY <1>5, <1>6, <2>1
  <2>2. CASE i = n + 1 \/ j = n + 1
    BY <1>2, <1>3, <1>4, <1>6, <2>2
  <2> QED BY <1>4, <2>1, <2>2
<1> QED BY <1>1, <1>2, <1>6, Zenon DEF IsInjective

\* Nor does keeping some of the members.
LEMMA KeptOnce ==
  ASSUME NEW T, NEW s \in Seq(T), NEW S, IsInjective(s)
  PROVE  IsInjective(Kept(s, S))
<1> DEFINE kept == CHOOSE f : f = [n \in 0..Len(s) |-> KeptBody(f, s, S, n)]
<1>0. \E f : f = [n \in 0..Len(s) |-> KeptBody(f, s, S, n)]
  BY KeptExists, SMTT(30)
<1>1. kept = [n \in 0..Len(s) |-> KeptBody(kept, s, S, n)]
  BY <1>0, Zenon
<1>2. Kept(s, S) = kept[Len(s)]
  BY Zenon DEF Kept, KeptBody
<1> HIDE DEF kept
<1>3. \A n \in 0..Len(s) : kept[n] = KeptBody(kept, s, S, n)
  BY <1>1, Zenon
<1> DEFINE Fine(n) == /\ kept[n] \in Seq(T) /\ IsInjective(kept[n])
                      /\ ToSet(kept[n]) \subseteq {s[i] : i \in 1..n}
<1> DEFINE Up == {n \in Nat : n <= Len(s) => Fine(n)}
<1>4. 0 \in Up
  <2>1. kept[0] = <<>>
    BY <1>3 DEF KeptBody
  <2>2. PICK e : e = kept[0]
    OBVIOUS
  <2>3. e \in Seq(T) /\ DOMAIN e = {}
    BY <2>1, <2>2
  <2>4. IsInjective(e) /\ ToSet(e) = {}
    BY <2>3 DEF ToSet, IsInjective
  <2>5. Fine(0)
    BY <2>2, <2>3, <2>4
  <2> HIDE DEF Fine
  <2> QED BY <2>5
<1>5. ASSUME NEW n \in 0..Len(s), n < Len(s), n \in Up PROVE n + 1 \in Up
  <2>1. n + 1 \in 0..Len(s) /\ n + 1 # 0 /\ (n + 1) - 1 = n /\ s[n + 1] \in T /\ n + 1 \in DOMAIN s
    BY <1>5
  <2>2. kept[n + 1] = IF s[n + 1] \in S THEN Append(kept[n], s[n + 1]) ELSE kept[n]
    BY <1>3, <2>1 DEF KeptBody
  <2>3. Fine(n)
    BY <1>5
  <2>4. s[n + 1] \notin {s[i] : i \in 1..n}
    <3>1. \A i \in 1..n : i \in DOMAIN s /\ i # n + 1
      BY <1>5
    <3> QED BY <2>1, <3>1, Zenon DEF IsInjective
  <2>5. {s[i] : i \in 1..n} \subseteq {s[i] : i \in 1..(n + 1)} /\ s[n + 1] \in {s[i] : i \in 1..(n + 1)}
    <3>1. 1..n \subseteq 1..(n + 1) /\ n + 1 \in 1..(n + 1)
      BY <1>5
    <3> QED BY <3>1
  <2>6. CASE s[n + 1] \in S
    <3>1. PICK k, x : k = kept[n] /\ x = s[n + 1]
      OBVIOUS
    <3>2. k \in Seq(T) /\ IsInjective(k) /\ x \in T /\ x \notin ToSet(k)
      BY <2>1, <2>3, <2>4, <3>1
    <3>3. IsInjective(Append(k, x)) /\ Append(k, x) \in Seq(T)
      BY <3>2, AppendOnce
    <3>4. ToSet(Append(k, x)) = ToSet(k) \cup {x}
      <4>1. PICK y : y = <<x>>
        OBVIOUS
      <4>2. Append(k, x) = k \o y /\ y \in Seq(T) /\ DOMAIN y = {1} /\ y[1] = x
        BY <3>2, <4>1
      <4>3. ToSet(y) = {x}
        BY <4>2 DEF ToSet
      <4> QED BY <3>2, <4>2, <4>3, ConcatenationHas
    <3>5. kept[n + 1] = Append(k, x)
      BY <2>2, <2>6, <3>1
    <3>6. Fine(n + 1)
      BY <2>3, <2>5, <3>1, <3>3, <3>4, <3>5
    <3> HIDE DEF Fine
    <3> QED BY <1>5, <3>6
  <2>7. CASE s[n + 1] \notin S
    <3>1. Fine(n + 1)
      BY <2>2, <2>3, <2>5, <2>7
    <3> HIDE DEF Fine
    <3> QED BY <1>5, <3>1
  <2> QED BY <2>6, <2>7
<1>6. Len(s) \in Up
  <2> HIDE DEF Up
  <2>0. Len(s) \in Nat
    OBVIOUS
  <2>1. \A n \in 0..Len(s) : n \in Up
    BY <2>0, <1>4, <1>5, Upwards
  <2> QED BY <2>1
<1> QED
  BY <1>2, <1>6

\* Nor does a concatenation of sequences that have nothing in common.
LEMMA ConcatenationOnce ==
  ASSUME NEW T, NEW a \in Seq(T), NEW b \in Seq(T), IsInjective(a), IsInjective(b),
         ToSet(a) \cap ToSet(b) = {}
  PROVE  IsInjective(a \o b)
<1>1. PICK c, m, n : c = a \o b /\ m = Len(a) /\ n = Len(b)
  OBVIOUS
<1>2. /\ m \in Nat /\ n \in Nat /\ DOMAIN a = 1..m /\ DOMAIN b = 1..n /\ DOMAIN c = 1..(m + n)
      /\ \A i \in 1..m : c[i] = a[i]
      /\ \A i \in 1..n : c[m + i] = b[i]
  BY <1>1
<1>3. \A i \in 1..(m + n) : i \in 1..m \/ (i - m \in 1..n /\ c[i] = b[i - m])
  <2> TAKE i \in 1..(m + n)
  <2>1. i \in 1..m \/ (i - m \in 1..n /\ m + (i - m) = i)
    BY <1>2
  <2> QED BY <1>2, <2>1
<1>4. ASSUME NEW i \in 1..(m + n), NEW j \in 1..(m + n), c[i] = c[j] PROVE i = j
  <2>1. CASE i \in 1..m /\ j \in 1..m
    BY <1>2, <1>4, <2>1 DEF IsInjective
  <2>2. CASE i \notin 1..m /\ j \notin 1..m
    <3>1. i - m \in 1..n /\ j - m \in 1..n /\ b[i - m] = b[j - m]
      BY <1>3, <1>4, <2>2
    <3>2. i - m = j - m
      BY <1>2, <3>1 DEF IsInjective
    <3> QED BY <1>2, <3>2
  <2>3. ASSUME NEW x \in 1..m, NEW y \in 1..(m + n), y \notin 1..m PROVE c[x] # c[y]
    <3>1. c[x] = a[x] /\ y - m \in 1..n /\ c[y] = b[y - m]
      BY <1>2, <1>3, <2>3
    <3>2. a[x] \in ToSet(a) /\ b[y - m] \in ToSet(b)
      BY <1>2, <3>1 DEF ToSet
    <3> QED BY <3>1, <3>2
  <2> QED BY <1>4, <2>1, <2>2, <2>3
<1> QED BY <1>1, <1>2, <1>4 DEF IsInjective

\* Nor does a concatenation of many.
LEMMA FlattenSeqOnce ==
  ASSUME NEW T, NEW seqs \in Seq(Seq(T)), \A i \in DOMAIN seqs : IsInjective(seqs[i]),
         \A i, j \in DOMAIN seqs : i # j => ToSet(seqs[i]) \cap ToSet(seqs[j]) = {}
  PROVE  IsInjective(FlattenSeq(seqs))
<1>1. CASE Len(seqs) = 0
  <2>1. seqs = <<>>
    BY <1>1
  <2> QED BY <2>1 DEF FlattenSeq, IsInjective
<1>2. CASE Len(seqs) # 0
  <2> DEFINE flat == CHOOSE f : f = [i \in 1..Len(seqs) |-> FlattenBody(f, seqs, i)]
  <2>1. flat = [i \in 1..Len(seqs) |-> FlattenBody(flat, seqs, i)]
    BY <1>2, FlattenExists, Zenon
  <2>2. FlattenSeq(seqs) = flat[Len(seqs)]
    BY <1>2, Zenon DEF FlattenSeq, FlattenBody
  <2> HIDE DEF flat
  <2>3. PICK N : N = Len(seqs)
    OBVIOUS
  <2>4. N \in Nat /\ N >= 1 /\ DOMAIN seqs = 1..N /\ \A i \in 1..N : seqs[i] \in Seq(T)
    BY <1>2, <2>3
  <2>5. \A i \in 1..N : flat[i] = FlattenBody(flat, seqs, i)
    BY <2>1, <2>3, Zenon
  <2> DEFINE Fine(n) == /\ flat[n] \in Seq(T) /\ IsInjective(flat[n])
                        /\ ToSet(flat[n]) = UNION {ToSet(seqs[i]) : i \in 1..n}
  <2> DEFINE Up == {m \in Nat : m + 1 <= N => Fine(m + 1)}
  <2>6. 0 \in Up
    <3>1. 1 \in 1..N /\ 0 + 1 = 1 /\ 1..1 = {1}
      BY <2>4
    <3>2. flat[1] = seqs[1]
      BY <2>5, <3>1 DEF FlattenBody
    <3>3. ToSet(seqs[1]) = UNION {ToSet(seqs[i]) : i \in 1..1}
      BY <3>1
    <3>4. Fine(1)
      BY <2>4, <3>1, <3>2, <3>3
    <3> HIDE DEF Fine
    <3> QED BY <3>1, <3>4
  <2>7. ASSUME NEW m \in 0..(N - 1), m < N - 1, m \in Up PROVE m + 1 \in Up
    <3>1. PICK n : n = m + 1
      OBVIOUS
    <3>2. n \in 1..N /\ n + 1 \in 1..N /\ n + 1 # 1 /\ (n + 1) - 1 = n /\ n \in Nat /\ m \in Nat /\ m + 1 <= N
      BY <2>4, <2>7, <3>1
    <3>3. Fine(n)
      <4> HIDE DEF Fine
      <4> QED BY <2>7, <3>1, <3>2
    <3>4. flat[n + 1] = flat[n] \o seqs[n + 1]
      BY <2>5, <3>2 DEF FlattenBody
    <3>5. seqs[n + 1] \in Seq(T) /\ IsInjective(seqs[n + 1])
      BY <2>4, <3>2
    <3>6. ToSet(flat[n]) \cap ToSet(seqs[n + 1]) = {}
      <4>1. \A i \in 1..n : i \in DOMAIN seqs /\ i # n + 1
        BY <2>4, <3>2
      <4>2. n + 1 \in DOMAIN seqs
        BY <2>4, <3>2
      <4>3. \A i \in 1..n : ToSet(seqs[i]) \cap ToSet(seqs[n + 1]) = {}
        BY <4>1, <4>2
      <4> QED BY <3>3, <4>3
    <3>7. PICK a, b : a = flat[n] /\ b = seqs[n + 1]
      OBVIOUS
    <3>8. /\ a \o b \in Seq(T) /\ IsInjective(a \o b)
          /\ ToSet(a \o b) = ToSet(a) \cup ToSet(b)
      <4>1. a \in Seq(T) /\ b \in Seq(T) /\ IsInjective(a) /\ IsInjective(b) /\ ToSet(a) \cap ToSet(b) = {}
        BY <3>3, <3>5, <3>6, <3>7
      <4> QED BY <4>1, ConcatenationHas, ConcatenationOnce
    <3>9. UNION {ToSet(seqs[i]) : i \in 1..(n + 1)}
            = (UNION {ToSet(seqs[i]) : i \in 1..n}) \cup ToSet(seqs[n + 1])
      <4>1. 1..(n + 1) = 1..n \cup {n + 1}
        BY <3>2
      <4> QED BY <4>1
    <3>10. Fine(n + 1)
      BY <3>3, <3>4, <3>7, <3>8, <3>9
    <3> HIDE DEF Fine
    <3> QED BY <3>1, <3>2, <3>10
  <2>8. N - 1 \in Up
    <3> HIDE DEF Up
    <3>1. N - 1 \in Nat /\ N - 1 \in 0..(N - 1)
      BY <2>4
    <3>2. \A n \in 0..(N - 1) : n \in Up
      BY <2>6, <2>7, <3>1, Upwards
    <3> QED BY <3>1, <3>2
  <2>9. Fine(N)
    <3>1. (N - 1) + 1 = N /\ N <= N
      BY <2>4
    <3> HIDE DEF Fine
    <3> QED BY <2>8, <3>1
  <2> QED BY <2>2, <2>3, <2>9
<1> QED BY <1>1, <1>2

-----------------------------------------------------------------------------
(* The bounds of a scan of an index of one column. *)

\* What a comparison asks of its column on either side.
AsksLow(c) == 1 \in Facing(c) \/ Facing(c) = Equal
AsksHigh(c) == -1 \in Facing(c) \/ Facing(c) = Equal
MeetsLow(c, x) == AsksLow(c) => Bound(c) < x \/ (0 \in c.cmp /\ Bound(c) = x)
MeetsHigh(c, x) == AsksHigh(c) => x < Bound(c) \/ (0 \in c.cmp /\ x = Bound(c))

\* The two sides are all there is to it.
LEMMA MeetsIs ==
  ASSUME NEW c \in Conditions, NEW col, fitsWith(c, col), NEW x \in Int
  PROVE  compareValue(x, Bound(c)) \in Facing(c) <=> MeetsLow(c, x) /\ MeetsHigh(c, x)
<1>1. PICK v, s : v = Bound(c) /\ s = Facing(c)
  OBVIOUS
<1>2. v \in Int /\ s \in OneSided /\ (0 \in s <=> 0 \in c.cmp)
  BY <1>1, FacingHolds
<1>3. compareValue(x, v) = (IF x < v THEN -1 ELSE IF x > v THEN 1 ELSE 0)
  BY DEF compareValue
<1>4. /\ MeetsLow(c, x) <=> (1 \in s \/ s = {0} => v < x \/ (0 \in s /\ v = x))
      /\ MeetsHigh(c, x) <=> (-1 \in s \/ s = {0} => x < v \/ (0 \in s /\ x = v))
  BY <1>1, <1>2 DEF MeetsLow, MeetsHigh, AsksLow, AsksHigh, Equal
<1>5. compareValue(x, v) \in s <=> /\ 1 \in s \/ s = {0} => v < x \/ (0 \in s /\ v = x)
                                   /\ -1 \in s \/ s = {0} => x < v \/ (0 \in s /\ x = v)
  <2>1. CASE s = {1}
    BY <1>2, <1>3, <2>1
  <2>2. CASE s = {0, 1}
    BY <1>2, <1>3, <2>2
  <2>3. CASE s = {-1}
    BY <1>2, <1>3, <2>3
  <2>4. CASE s = {-1, 0}
    BY <1>2, <1>3, <2>4
  <2>5. CASE s = {0}
    BY <1>2, <1>3, <2>5
  <2> QED BY <1>2, <2>1, <2>2, <2>3, <2>4, <2>5 DEF OneSided
<1> QED BY <1>1, <1>4, <1>5

\* The bounds after some comparisons say just what these ask for, and a bound that
\* is included comes from a comparison that includes it.
ExactAfter(b, cs, n) ==
  /\ \A x \in Int : MinVal < x /\ x < MaxVal =>
       /\ Above(b, x) <=> \A j \in 1..n : fitsWith(cs[j], 1) => MeetsLow(cs[j], x)
       /\ Below(b, x) <=> \A j \in 1..n : fitsWith(cs[j], 1) => MeetsHigh(cs[j], x)
  /\ b.incFrom => \E j \in 1..n : fitsWith(cs[j], 1) /\ Bound(cs[j]) = b.from[1] /\ 0 \in cs[j].cmp
  /\ b.incTo => \E j \in 1..n : fitsWith(cs[j], 1) /\ Bound(cs[j]) = b.to[1] /\ 0 \in cs[j].cmp

\* The two bounds of one field.
LEMMA BoundsOkIs ==
  ASSUME NEW b, BoundsOk(b, 1)
  PROVE  b.from[1] \in Int /\ b.to[1] \in Int /\ b.incFrom \in BOOLEAN /\ b.incTo \in BOOLEAN
<1>1. b.from \in Seq(Int) /\ b.to \in Seq(Int) /\ b.incFrom \in BOOLEAN /\ b.incTo \in BOOLEAN
      /\ DOMAIN b.from = 1..1 /\ DOMAIN b.to = 1..1
  BY DEF BoundsOk, ScanBounds
<1>2. 1 \in 1..1
  OBVIOUS
<1> QED BY <1>1, <1>2

\* Narrowing them by the next comparison keeps it so.
LEMMA NarrowedExact ==
  ASSUME NEW cs \in Seq(Conditions), NEW n \in Nat, n + 1 \in DOMAIN cs, fitsWith(cs[n + 1], 1),
         ~BoundTwice(cs, 1), NEW b, BoundsOk(b, 1), ExactAfter(b, cs, n)
  PROVE  ExactAfter(Narrowed(b, cs[n + 1], 1), cs, n + 1)
<1>1. PICK c, v, s : c = cs[n + 1] /\ v = Bound(c) /\ s = Facing(c)
  OBVIOUS
<1>2. c \in Conditions /\ fitsWith(c, 1)
  BY <1>1
<1>3. v \in Int /\ (0 \in s <=> 0 \in c.cmp)
  BY <1>1, <1>2, FacingHolds
<1>4. PICK u, w, low, high, zero, lowInc, highInc :
        /\ u = b.from[1] /\ w = b.to[1] /\ lowInc = b.incFrom /\ highInc = b.incTo
        /\ low = AsksLow(c) /\ high = AsksHigh(c) /\ zero = (0 \in c.cmp)
  OBVIOUS
<1>5. u \in Int /\ w \in Int /\ lowInc \in BOOLEAN /\ highInc \in BOOLEAN
  BY <1>4, BoundsOkIs
<1>6. low \in BOOLEAN /\ high \in BOOLEAN /\ zero \in BOOLEAN
  BY <1>4 DEF AsksLow, AsksHigh
<1>7. PICK d : d = Narrowed(b, c, 1)
  OBVIOUS
<1>8. /\ d.from[1] = IF low /\ u < v THEN v ELSE u
      /\ d.incFrom = IF low /\ u < v THEN zero ELSE lowInc
      /\ d.to[1] = IF high /\ w > v THEN v ELSE w
      /\ d.incTo = IF high /\ w > v THEN zero ELSE highInc
  <2>1. DOMAIN b.from = 1..1 /\ DOMAIN b.to = 1..1
    BY DEF BoundsOk
  <2>2. (compareValue(u, v) < 0 <=> u < v) /\ (compareValue(w, v) > 0 <=> w > v)
    BY <1>3, <1>5 DEF compareValue
  <2>3. /\ d.from = IF low /\ u < v THEN [b.from EXCEPT ![1] = v] ELSE b.from
        /\ d.incFrom = IF low /\ u < v THEN 0 \in s ELSE b.incFrom
        /\ d.to = IF high /\ w > v THEN [b.to EXCEPT ![1] = v] ELSE b.to
        /\ d.incTo = IF high /\ w > v THEN 0 \in s ELSE b.incTo
    BY <1>1, <1>4, <1>7, <2>2 DEF Narrowed, AsksLow, AsksHigh
  <2>4. [b.from EXCEPT ![1] = v][1] = v /\ [b.to EXCEPT ![1] = v][1] = v
    BY <2>1
  <2>5. (0 \in s) = zero
    BY <1>3, <1>4
  <2> QED BY <1>4, <2>3, <2>4, <2>5
<1>9. \A j \in 1..(n + 1) : j \in 1..n \/ j = n + 1
  OBVIOUS
<1>10. 1..n \subseteq 1..(n + 1) /\ n + 1 \in 1..(n + 1)
  OBVIOUS
<1>11. ASSUME NEW j \in 1..n, fitsWith(cs[j], 1), Bound(cs[j]) = v, 0 \in cs[j].cmp PROVE zero
  <2>1. j \in DOMAIN cs /\ j < n + 1
    BY <1>11
  <2> QED BY <1>1, <1>2, <1>4, <1>11, <2>1 DEF BoundTwice
<1>12. (low /\ lowInc /\ u = v => zero) /\ (high /\ highInc /\ w = v => zero)
  BY <1>4, <1>11 DEF ExactAfter
<1>13. ASSUME NEW x \in Int, MinVal < x, x < MaxVal
       PROVE  /\ Above(d, x) <=> \A j \in 1..(n + 1) : fitsWith(cs[j], 1) => MeetsLow(cs[j], x)
              /\ Below(d, x) <=> \A j \in 1..(n + 1) : fitsWith(cs[j], 1) => MeetsHigh(cs[j], x)
  <2>1. /\ Above(b, x) <=> \A j \in 1..n : fitsWith(cs[j], 1) => MeetsLow(cs[j], x)
        /\ Below(b, x) <=> \A j \in 1..n : fitsWith(cs[j], 1) => MeetsHigh(cs[j], x)
    BY <1>13 DEF ExactAfter
  <2>2. Above(d, x) <=> Above(b, x) /\ MeetsLow(c, x)
    <3>1. Above(b, x) <=> u < x \/ (lowInc /\ u = x)
      BY <1>4 DEF Above
    <3>2. MeetsLow(c, x) <=> (low => v < x \/ (zero /\ v = x))
      BY <1>1, <1>4 DEF MeetsLow
    <3>3. CASE low /\ u < v
      <4>1. Above(d, x) <=> v < x \/ (zero /\ v = x)
        BY <1>8, <3>3 DEF Above
      <4> QED BY <1>3, <1>5, <1>6, <3>1, <3>2, <3>3, <4>1
    <3>4. CASE ~(low /\ u < v)
      <4>1. Above(d, x) <=> u < x \/ (lowInc /\ u = x)
        BY <1>8, <3>4 DEF Above
      <4> QED BY <1>3, <1>5, <1>6, <1>12, <3>1, <3>2, <3>4, <4>1
    <3> QED BY <3>3, <3>4
  <2>3. Below(d, x) <=> Below(b, x) /\ MeetsHigh(c, x)
    <3>1. Below(b, x) <=> x < w \/ (highInc /\ x = w)
      BY <1>4 DEF Below
    <3>2. MeetsHigh(c, x) <=> (high => x < v \/ (zero /\ x = v))
      BY <1>1, <1>4 DEF MeetsHigh
    <3>3. CASE high /\ w > v
      <4>1. Below(d, x) <=> x < v \/ (zero /\ x = v)
        BY <1>8, <3>3 DEF Below
      <4> QED BY <1>3, <1>5, <1>6, <3>1, <3>2, <3>3, <4>1
    <3>4. CASE ~(high /\ w > v)
      <4>1. Below(d, x) <=> x < w \/ (highInc /\ x = w)
        BY <1>8, <3>4 DEF Below
      <4> QED BY <1>3, <1>5, <1>6, <1>12, <3>1, <3>2, <3>4, <4>1
    <3> QED BY <3>3, <3>4
  <2> QED BY <1>1, <1>2, <1>9, <1>10, <2>1, <2>2, <2>3, Zenon
<1>14. d.incFrom => \E j \in 1..(n + 1) : fitsWith(cs[j], 1) /\ Bound(cs[j]) = d.from[1] /\ 0 \in cs[j].cmp
  <2>1. CASE low /\ u < v
    BY <1>1, <1>2, <1>4, <1>8, <1>10, <2>1
  <2>2. CASE ~(low /\ u < v)
    BY <1>4, <1>8, <1>10, <2>2 DEF ExactAfter
  <2> QED BY <2>1, <2>2
<1>15. d.incTo => \E j \in 1..(n + 1) : fitsWith(cs[j], 1) /\ Bound(cs[j]) = d.to[1] /\ 0 \in cs[j].cmp
  <2>1. CASE high /\ w > v
    BY <1>1, <1>2, <1>4, <1>8, <1>10, <2>1
  <2>2. CASE ~(high /\ w > v)
    BY <1>4, <1>8, <1>10, <2>2 DEF ExactAfter
  <2> QED BY <2>1, <2>2
<1>16. ExactAfter(d, cs, n + 1)
  BY <1>13, <1>14, <1>15, Zenon DEF ExactAfter
<1> QED BY <1>1, <1>7, <1>16

\* The fields of an index of one column that a comparison bounds.
LEMMA FieldsOfOne ==
  ASSUME NEW columns, Leading(columns), Len(columns) = 1, NEW c, NEW cs
  PROVE  FieldsOf(c, cs, columns) = IF fitsWith(c, 1) THEN {1} ELSE {}
<1>1. DOMAIN columns = 1..1 /\ columns[1] = 1
  BY DEF Leading
<1> DEFINE S == {h \in 1..1 : \A g \in 1..(h - 1) : \E x \in cs : fitsWith(x, columns[g]) /\ x.cmp = Equal}
<1>2. BoundFields(cs, columns) = Max(S)
  BY DEF BoundFields
<1>3. S = {1}
  OBVIOUS
<1>4. Max(S) = 1
  <2>1. S \in SUBSET (0..1) /\ S # {} /\ 1 \in Nat
    BY <1>3
  <2>2. Max(S) \in S
    <3> HIDE DEF S
    <3> QED BY <2>1, MaxIs
  <2> QED BY <1>3, <2>2
<1>5. FieldsOf(c, cs, columns) = {f \in 1..1 : fitsWith(c, columns[f])}
  <2> HIDE DEF S
  <2> QED BY <1>2, <1>4 DEF FieldsOf
<1> QED BY <1>1, <1>5

\* The bounds for a list of conditions are exact.
LEMMA BoundsForExact ==
  ASSUME NEW columns, Leading(columns), Len(columns) = 1, NEW cs \in Seq(Conditions), ~BoundTwice(cs, 1)
  PROVE  BoundsOk(BoundsFor(cs, columns), 1) /\ ExactAfter(BoundsFor(cs, columns), cs, Len(cs))
<1> DEFINE bounds == CHOOSE f : f = [n \in 0..Len(cs) |-> BoundsBody(f, cs, columns, n)]
<1>0. \E f : f = [n \in 0..Len(cs) |-> BoundsBody(f, cs, columns, n)]
  BY BoundsExists, Zenon DEF AllBounds
<1>1. bounds = [n \in 0..Len(cs) |-> BoundsBody(bounds, cs, columns, n)]
  BY <1>0, Zenon
<1>2. BoundsFor(cs, columns) = bounds[Len(cs)]
  BY Zenon DEF BoundsFor, BoundsBody, FieldChosen
<1> HIDE DEF bounds
<1>3. \A n \in 0..Len(cs) : bounds[n] = BoundsBody(bounds, cs, columns, n)
  BY <1>1, Zenon
<1>4. PICK N : N = Len(cs)
  OBVIOUS
<1>5. N \in Nat /\ DOMAIN cs = 1..N /\ \A j \in 1..N : cs[j] \in Conditions
  BY <1>4
<1> DEFINE Fine(n) == BoundsOk(bounds[n], 1) /\ ExactAfter(bounds[n], cs, n)
<1> DEFINE Up == {n \in Nat : n <= N => Fine(n)}
<1>6. 0 \in Up
  <2>1. bounds[0] = NoBounds(columns)
    BY <1>3 DEF BoundsBody
  <2>2. PICK b : b = NoBounds(columns)
    OBVIOUS
  <2>3. BoundsOk(b, 1)
    BY <2>2, NoBoundsInside
  <2>4. b.from[1] = MinVal /\ b.to[1] = MaxVal /\ b.incFrom = FALSE /\ b.incTo = FALSE
    <3>1. DOMAIN columns = 1..1
      BY DEF Leading
    <3> QED BY <2>2, <3>1 DEF NoBounds
  <2>5. ExactAfter(b, cs, 0)
    BY <2>4 DEF ExactAfter, Above, Below
  <2>6. Fine(0)
    BY <2>1, <2>2, <2>3, <2>5
  <2> HIDE DEF Fine
  <2> QED BY <2>6
<1>7. ASSUME NEW n \in 0..N, n < N, n \in Up PROVE n + 1 \in Up
  <2>1. n + 1 \in 0..N /\ n + 1 # 0 /\ (n + 1) - 1 = n /\ n + 1 \in DOMAIN cs /\ n \in Nat /\ n <= N
    BY <1>5, <1>7
  <2>2. Fine(n)
    <3> HIDE DEF Fine
    <3> QED BY <1>7, <2>1
  <2>3. PICK b, c : b = bounds[n] /\ c = cs[n + 1]
    OBVIOUS
  <2>4. BoundsOk(b, 1) /\ ExactAfter(b, cs, n) /\ c \in Conditions
    BY <1>5, <2>1, <2>2, <2>3
  <2>5. bounds[n + 1] = IF FieldsOf(c, ToSet(cs), columns) = {} THEN b
                        ELSE Narrowed(b, c, FieldChosen(c, ToSet(cs), columns))
    BY <1>3, <1>4, <2>1, <2>3 DEF BoundsBody
  <2>6. CASE fitsWith(c, 1)
    <3>1. FieldsOf(c, ToSet(cs), columns) = {1} /\ FieldChosen(c, ToSet(cs), columns) = 1
      BY <2>6, FieldsOfOne DEF FieldChosen
    <3>2. bounds[n + 1] = Narrowed(b, c, 1)
      BY <2>5, <3>1
    <3>3. BoundsOk(Narrowed(b, c, 1), 1)
      BY <2>4, <2>6, NarrowedInside
    <3>4. ExactAfter(Narrowed(b, c, 1), cs, n + 1)
      BY <2>1, <2>3, <2>4, <2>6, NarrowedExact
    <3>5. Fine(n + 1)
      BY <3>2, <3>3, <3>4
    <3> HIDE DEF Fine
    <3> QED BY <2>1, <3>5
  <2>7. CASE ~fitsWith(c, 1)
    <3>1. FieldsOf(c, ToSet(cs), columns) = {}
      BY <2>7, FieldsOfOne
    <3>2. bounds[n + 1] = b
      BY <2>5, <3>1
    <3>3. \A j \in 1..(n + 1) : j \in 1..n \/ j = n + 1
      BY <2>1
    <3>4. 1..n \subseteq 1..(n + 1)
      BY <2>1
    <3>5. ExactAfter(b, cs, n + 1)
      BY <2>3, <2>4, <2>7, <3>3, <3>4, Zenon DEF ExactAfter
    <3>6. Fine(n + 1)
      BY <2>4, <3>2, <3>5
    <3> HIDE DEF Fine
    <3> QED BY <2>1, <3>6
  <2> QED BY <2>6, <2>7
<1>8. Fine(N)
  <2>1. \A n \in 0..N : n \in Up
    <3> HIDE DEF Up
    <3> QED BY <1>5, <1>6, <1>7, Upwards
  <2>2. N \in 0..N /\ N <= N
    BY <1>5
  <2> HIDE DEF Fine
  <2> QED BY <2>1, <2>2
<1> QED BY <1>2, <1>4, <1>8

-----------------------------------------------------------------------------
(* The scan of an index of one column. *)

\* The keys of one field.
LEMMA OneField ==
  ASSUME NEW a, NEW b, DOMAIN a = 1..1, a[1] \in Int, b[1] \in Int
  PROVE  /\ compareKeys(a, b) < 0 <=> a[1] < b[1]
         /\ compareKeys(a, b) = 0 <=> a[1] = b[1]
<1>1. 1 \in Nat /\ \A f \in 1..1 : f = 1
  OBVIOUS
<1>5. \A f \in 1..1 : a[f] \in Int /\ b[f] \in Int
  BY <1>1
<1>6. PICK m : m = 1
  OBVIOUS
<1>7. m \in Nat /\ DOMAIN a = 1..m /\ \A f \in 1..m : a[f] \in Int /\ b[f] \in Int
  BY <1>5, <1>6
<1>8. /\ compareKeys(a, b) < 0 <=> KeyLess(a, b, m)
      /\ compareKeys(a, b) = 0 <=> \A f \in 1..m : a[f] = b[f]
  BY <1>7, CompareKeysIs, SMTT(30)
<1>2. /\ compareKeys(a, b) < 0 <=> KeyLess(a, b, 1)
      /\ compareKeys(a, b) = 0 <=> \A f \in 1..1 : a[f] = b[f]
  BY <1>6, <1>8
<1>3. KeyLess(a, b, 1) <=> a[1] < b[1]
  BY DEF KeyLess
<1>4. (\A f \in 1..1 : a[f] = b[f]) <=> a[1] = b[1]
  BY <1>1
<1> QED BY <1>2, <1>3, <1>4, Zenon

Within(t, b) == {r \in DOMAIN t.rows : Above(b, t.rows[r][1]) /\ Below(b, t.rows[r][1])}
Exactly(s, S) == IsInjective(s) /\ ToSet(s) = S

\* A scan reads no row twice, and reads just the rows within its bounds unless there
\* are none.
LEMMA ScanExact ==
  ASSUME NEW t, NEW i, IndexOk(t, i, 1), NEW b, BoundsOk(b, 1),
         ~LeafScan(t, i, b).wild, Within(t, b) # {}
  PROVE  Exactly(LeafScan(t, i, b).rows, Within(t, b))
<1>0. PICK cells, N : cells = t.indexes[i].cells /\ N = Len(cells)
  OBVIOUS
<1>1. N \in Nat /\ cells \in Seq(Nat) /\ DOMAIN cells = 1..N
  BY <1>0 DEF IndexOk
<1>2. PICK u, w, low, high : u = b.from[1] /\ w = b.to[1] /\ low = b.incFrom /\ high = b.incTo
  OBVIOUS
<1>3. u \in Int /\ w \in Int /\ low \in BOOLEAN /\ high \in BOOLEAN
      /\ DOMAIN b.from = 1..1 /\ DOMAIN b.to = 1..1
  BY <1>2, BoundsOkIs DEF BoundsOk
<1>4. PICK val : val = [j \in 1..N |-> t.rows[cells[j]][1]]
  OBVIOUS
<1>5. \A j \in 1..N : val[j] = t.rows[cells[j]][1] /\ val[j] \in Int
  <2>1. \A j \in 1..N : RowOk(t.rows[cells[j]], 1)
    BY <1>0, Zenon DEF IndexOk
  <2>2. 1 \in Nat /\ 1 \in 1..1
    OBVIOUS
  <2>3. \A j \in 1..N : t.rows[cells[j]][1] \in Int
    BY <2>1, <2>2, RowOkIs, Zenon
  <2> QED BY <1>4, <2>3
<1>6. /\ \A j \in 1..N : cells[j] \in DOMAIN t.rows /\ KeyAt(t, i, 0, j)[1] = val[j]
      /\ \A r \in DOMAIN t.rows : \E j \in 1..N : cells[j] = r
  <2>1. 1 \in 1..1
    OBVIOUS
  <2>2. \A j \in 1..N : KeyAt(t, i, 0, j)[1] = t.rows[cells[j]][1]
    BY <1>0, <2>1, Zenon DEF IndexOk
  <2>3. /\ \A j \in 1..N : cells[j] \in DOMAIN t.rows
        /\ \A r \in DOMAIN t.rows : \E j \in 1..N : cells[j] = r
    BY <1>0, Zenon DEF IndexOk
  <2> QED BY <1>5, <2>2, <2>3
<1>7. \A j, k \in 1..N : j < k => val[j] < val[k]
  <2>1. \A j, k \in 1..N : j < k => KeyLess(KeyAt(t, i, 0, j), KeyAt(t, i, 0, k), 1)
    BY <1>0, Zenon DEF IndexOk
  <2>2. \A j, k \in 1..N : KeyLess(KeyAt(t, i, 0, j), KeyAt(t, i, 0, k), 1) => val[j] < val[k]
    BY <1>6 DEF KeyLess
  <2> QED BY <2>1, <2>2, Zenon
<1>8. PICK start : start = FirstSlot(t, i, b.from)
  OBVIOUS
<1>9. /\ start \in 1..(N + 1)
      /\ \A j \in 1..(start - 1) : val[j] < u
      /\ \A j \in start..N : val[j] >= u
  <2>1. /\ start \in 1..(N + 1)
        /\ \A j \in 1..(start - 1) : KeyLess(KeyAt(t, i, 0, j), b.from, 1)
        /\ \A j \in start..N : ~KeyLess(KeyAt(t, i, 0, j), b.from, 1)
    <3>1. \A f \in 1..1 : b.from[f] \in Int
      BY <1>2, <1>3
    <3> QED BY <1>0, <1>3, <1>8, <3>1, SlotOfOk
  <2>2. \A j \in 1..N : KeyLess(KeyAt(t, i, 0, j), b.from, 1) <=> val[j] < u
    BY <1>2, <1>6 DEF KeyLess
  <2>3. /\ \A j \in 1..(start - 1) : j \in 1..N
        /\ \A j \in start..N : j \in 1..N
    BY <1>1, <2>1
  <2> QED BY <1>3, <1>5, <2>1, <2>2, <2>3
<1>10. PICK first : first = LeafFirst(t, cells, start, b)
  OBVIOUS
<1> DEFINE Firsts == {j \in start..(N + 1) : j > N \/ low \/ compareKeys(b.from, t.rows[cells[j]]) # 0}
<1>11. first \in Firsts /\ \A j \in Firsts : first <= j
  <2>1. N + 1 \in Firsts /\ Firsts \in SUBSET Nat
    BY <1>1, <1>9
  <2>2. first = Min(Firsts)
    BY <1>0, <1>2, <1>10 DEF LeafFirst
  <2> HIDE DEF Firsts
  <2> QED BY <2>1, <2>2, MinIs
<1>12. ASSUME NEW j \in 1..N PROVE compareKeys(b.from, t.rows[cells[j]]) = 0 <=> val[j] = u
  <2>1. PICK from, row : from = b.from /\ row = t.rows[cells[j]]
    OBVIOUS
  <2>2. DOMAIN from = 1..1 /\ from[1] = u /\ row[1] = val[j] /\ from[1] \in Int /\ row[1] \in Int
    BY <1>2, <1>3, <1>5, <2>1
  <2>3. compareKeys(from, row) = 0 <=> from[1] = row[1]
    BY <2>2, OneField
  <2> QED BY <2>1, <2>2, <2>3
<1>13. /\ first \in start..(N + 1)
       /\ first <= N => low \/ val[first] # u
       /\ \A j \in start..(first - 1) : j \in 1..N /\ ~low /\ val[j] = u
  <2>1. first \in start..(N + 1) /\ (first <= N => low \/ val[first] # u)
    BY <1>1, <1>9, <1>11, <1>12
  <2>2. ASSUME NEW j \in start..(first - 1) PROVE j \in 1..N /\ ~low /\ val[j] = u
    <3>1. j \in start..(N + 1) /\ j \notin Firsts /\ j \in 1..N
      BY <1>1, <1>9, <1>11, <2>1
    <3> QED BY <1>12, <3>1
  <2> QED BY <2>1, <2>2
<1>14. ASSUME NEW j \in 1..N PROVE Above(b, val[j]) <=> j >= first
  <2>1. Above(b, val[j]) <=> u < val[j] \/ (low /\ u = val[j])
    BY <1>2 DEF Above
  <2>2. CASE j < start
    <3>1. val[j] < u /\ j < first
      BY <1>9, <1>13, <2>2
    <3> QED BY <1>1, <1>3, <1>5, <1>9, <1>13, <2>1, <3>1
  <2>3. CASE j >= start /\ j < first
    <3>1. ~low /\ val[j] = u
      BY <1>9, <1>13, <2>3
    <3> QED BY <1>3, <1>9, <1>13, <2>1, <2>3, <3>1
  <2>4. CASE j >= first
    <3>1. first \in 1..N /\ first \in start..N
      BY <1>1, <1>9, <1>13, <2>4
    <3>2. val[first] >= u /\ val[j] >= val[first] /\ (low \/ val[first] # u)
      BY <1>5, <1>7, <1>9, <1>13, <2>4, <3>1
    <3> QED BY <1>3, <1>5, <2>1, <2>4, <3>1, <3>2
  <2> QED BY <1>9, <1>13, <2>2, <2>3, <2>4
<1>15. ASSUME NEW j \in 1..N PROVE Below(b, val[j]) <=> ~Past(b, t.rows[cells[j]])
  <2>1. Below(b, val[j]) <=> val[j] < w \/ (high /\ val[j] = w)
    BY <1>2 DEF Below
  <2>2. PICK row, to : row = t.rows[cells[j]] /\ to = b.to
    OBVIOUS
  <2>3. row[1] = val[j] /\ row[1] \in Int /\ to[1] = w /\ DOMAIN to = 1..1
    BY <1>2, <1>3, <1>5, <2>2
  <2>4. (compareKeys(to, row) < 0 <=> w < val[j]) /\ (compareKeys(to, row) = 0 <=> w = val[j])
    <3>1. (compareKeys(to, row) < 0 <=> to[1] < row[1]) /\ (compareKeys(to, row) = 0 <=> to[1] = row[1])
      BY <1>3, <2>3, OneField
    <3> QED BY <2>3, <3>1
  <2>5. Past(b, row) <=> w < val[j] \/ (~high /\ w = val[j])
    BY <1>2, <2>2, <2>4 DEF Past
  <2> QED BY <1>3, <1>5, <2>1, <2>2, <2>5
<1>16. ASSUME NEW j \in 1..N, NEW k \in 1..N, j <= k, Below(b, val[k]) PROVE Below(b, val[j])
  <2>1. val[j] <= val[k] /\ val[j] \in Int /\ val[k] \in Int
    BY <1>5, <1>7, <1>16
  <2>2. /\ Below(b, val[j]) <=> val[j] < w \/ (high /\ val[j] = w)
        /\ Below(b, val[k]) <=> val[k] < w \/ (high /\ val[k] = w)
    BY <1>2 DEF Below
  <2> QED BY <1>3, <1>16, <2>1, <2>2
<1>17. \A r : r \in Within(t, b) <=> \E j \in 1..N : cells[j] = r /\ j >= first /\ Below(b, val[j])
  <2>1. \A j \in 1..N : cells[j] \in Within(t, b) <=> Above(b, val[j]) /\ Below(b, val[j])
    BY <1>5, <1>6 DEF Within
  <2>2. \A r \in Within(t, b) : \E j \in 1..N : cells[j] = r
    BY <1>6 DEF Within
  <2>3. \A j \in 1..N : cells[j] \in Within(t, b) <=> j >= first /\ Below(b, val[j])
    BY <1>14, <2>1
  <2> QED BY <2>2, <2>3
<1>18. PICK s : s = LeafScan(t, i, b)
  OBVIOUS
<1>19. ~(start > N)
  <2> SUFFICES ASSUME start > N PROVE FALSE
    OBVIOUS
  <2>1. s = [rows |-> <<>>, wild |-> TRUE]
    BY <1>0, <1>8, <1>18 DEF LeafScan
  <2> QED BY <1>18, <2>1
<1>20. PICK k \in 1..N : k >= first /\ Below(b, val[k])
  BY <1>17
<1>21. first \in 1..N
  BY <1>1, <1>9, <1>13, <1>20
<1>22. Below(b, val[first])
  BY <1>16, <1>20, <1>21
<1> DEFINE end == LeafEnd(t, cells, first, b)
<1> DEFINE Ends == {j \in (first + 1)..(N + 1) : j > N \/ Past(b, t.rows[cells[j]])}
<1>23. end \in Ends /\ \A j \in Ends : end <= j
  <2>1. N + 1 \in Ends /\ Ends \in SUBSET Nat
    BY <1>1, <1>21
  <2>2. end = Min(Ends)
    BY <1>0 DEF LeafEnd
  <2> HIDE DEF Ends, end
  <2> QED BY <2>1, <2>2, MinIs
<1>24. PICK e : e = end
  OBVIOUS
<1>34. e \in Ends /\ \A j \in Ends : e <= j
  <2> HIDE DEF Ends, end
  <2> QED BY <1>23, <1>24
<1>35. e = LeafEnd(t, cells, first, b)
  BY <1>24
<1> HIDE DEF end
<1>25. e \in (first + 1)..(N + 1) /\ e - 1 \in first..N /\ e \in Int /\ (e <= N => Past(b, t.rows[cells[e]]))
  BY <1>1, <1>21, <1>34
<1>26. ASSUME NEW j \in first..N PROVE Below(b, val[j]) <=> j < e
  <2>1. j \in 1..N
    BY <1>21
  <2>2. CASE j < e
    <3>1. CASE j = first
      BY <1>22, <2>2, <3>1
    <3>2. CASE j # first
      <4>1. j \in (first + 1)..(N + 1) /\ j \notin Ends
        BY <1>1, <1>21, <1>34, <1>25, <2>2, <3>2
      <4> QED BY <1>15, <2>1, <2>2, <4>1
    <3> QED BY <3>1, <3>2
  <2>3. CASE ~(j < e)
    <3>1. e \in 1..N /\ e <= j
      BY <1>1, <1>21, <1>25, <2>1, <2>3
    <3>2. Past(b, t.rows[cells[e]])
      BY <1>1, <1>25, <3>1
    <3>3. ~Below(b, val[e])
      BY <1>15, <3>1, <3>2
    <3> QED BY <1>16, <2>1, <2>3, <3>1, <3>3
  <2> QED BY <2>2, <2>3
<1>27. s.rows = SubSeq(cells, first, e - 1)
  <2>1. ~(first > N)
    BY <1>1, <1>21
  <2> QED BY <1>0, <1>8, <1>10, <1>18, <1>19, <1>35, <2>1 DEF LeafScan
<1>28. PICK rows, n : rows = s.rows /\ n = e - first
  OBVIOUS
<1>36. n \in Nat /\ n = (e - 1) - first + 1 /\ n = e - first
  BY <1>21, <1>25, <1>28
<1>29. n \in Nat /\ DOMAIN rows = 1..n /\ \A x \in 1..n : rows[x] = cells[first + x - 1]
  <2>1. rows = SubSeq(cells, first, e - 1)
    BY <1>27, <1>28
  <2>2. rows \in Seq(Nat) /\ Len(rows) = (e - 1) - first + 1
        /\ \A x \in 1..Len(rows) : rows[x] = cells[first + x - 1]
    BY <1>1, <1>21, <1>25, <2>1
  <2> QED BY <1>36, <2>2
<1>30. \A x \in 1..n : first + x - 1 \in first..N /\ first + x - 1 \in 1..N /\ first + x - 1 < e
  BY <1>1, <1>21, <1>25, <1>36
<1>31. \A j \in first..N : j < e => j - first + 1 \in 1..n /\ first + (j - first + 1) - 1 = j
  BY <1>21, <1>25, <1>28, <1>29
<1>32. ToSet(rows) = Within(t, b)
  <2>1. ASSUME NEW x \in 1..n PROVE rows[x] \in Within(t, b)
    <3>1. PICK j : j = first + x - 1
      OBVIOUS
    <3>2. j \in first..N /\ j \in 1..N /\ j < e /\ j >= first /\ rows[x] = cells[j]
      BY <1>29, <1>30, <3>1
    <3>3. Below(b, val[j])
      BY <1>26, <3>2
    <3> QED BY <1>17, <3>2, <3>3, Zenon
  <2>2. ASSUME NEW r \in Within(t, b) PROVE \E x \in 1..n : rows[x] = r
    <3>1. PICK j \in 1..N : cells[j] = r /\ j >= first /\ Below(b, val[j])
      BY <1>17
    <3>2. j \in first..N
      BY <1>21, <3>1
    <3>3. j < e
      BY <1>26, <3>1, <3>2
    <3>4. j - first + 1 \in 1..n /\ first + (j - first + 1) - 1 = j
      BY <1>31, <3>2, <3>3
    <3> QED BY <1>29, <3>1, <3>4
  <2>3. ToSet(rows) = {rows[x] : x \in 1..n}
    BY <1>29 DEF ToSet
  <2> QED BY <2>1, <2>2, <2>3
<1>33. IsInjective(rows)
  <2>1. \A x, y \in 1..N : cells[x] = cells[y] => x = y
    <3> SUFFICES ASSUME NEW x \in 1..N, NEW y \in 1..N, cells[x] = cells[y], x # y PROVE FALSE
      OBVIOUS
    <3>1. val[x] = val[y] /\ (x < y \/ y < x)
      BY <1>5
    <3> QED BY <1>5, <1>7, <3>1
  <2>2. ASSUME NEW x \in 1..n, NEW y \in 1..n, rows[x] = rows[y] PROVE x = y
    <3>1. first + x - 1 = first + y - 1
      BY <1>29, <1>30, <2>1, <2>2
    <3> QED BY <1>21, <3>1
  <2> QED BY <1>29, <2>2 DEF IsInjective
<1> QED BY <1>18, <1>28, <1>32, <1>33 DEF Exactly

-----------------------------------------------------------------------------
(* The scans of a plan, and what a condition says of itself. *)

ScansBody(f, q) ==
  IF q.k = "scan" THEN {q}
  ELSE IF q.k = "filter" THEN f[q.source]
  ELSE IF q.k = "union" THEN UNION {f[q.sources[i]] : i \in DOMAIN q.sources}
  ELSE {}
SlackBody(f, x, t) ==
  x.k # "cmp" /\
    \/ \E i \in DOMAIN x.children : f[x.children[i]]
    \/ x.k = "and" /\ \E i \in DOMAIN t.indexes :
                        BoundTwice(x.children, t.indexes[i].columns[1])
DisjointBody(f, x, t) ==
  x.k = "cmp" \/
    /\ \A i \in DOMAIN x.children : f[x.children[i]]
    /\ x.k = "or" => Apart(t, x.children)

\* The recursive function of Scans exists.
LEMMA ScansExists ==
  \E f : f = [x \in AllPlans |-> ScansBody(f, x)]
<1> DEFINE Up == {m \in Nat : m <= Nesting => \E f : f = [x \in PlansOf[m] |-> ScansBody(f, x)]}
<1>1. 0 \in Up
  <2> DEFINE g == [x \in PlansOf[0] |-> ScansBody(<<>>, x)]
  <2>1. \A x \in PlansOf[0] : ScansBody(<<>>, x) = ScansBody(g, x)
    <3> TAKE x \in PlansOf[0]
    <3>1. 0 \in 0..Nesting
      BY NestingAssumption
    <3>2. x.k \in {"read", "scan"}
      BY <3>1, PlanCases
    <3>3. x.k # "filter" /\ x.k # "union"
      BY <3>2
    <3> QED BY <3>3, Zenon DEF ScansBody
  <2>2. g = [x \in PlansOf[0] |-> ScansBody(g, x)]
    BY <2>1, Zenon
  <2> QED BY <2>2
<1>2. ASSUME NEW m \in 0..Nesting, m < Nesting, m \in Up PROVE m + 1 \in Up
  <2>1. PICK f : f = [x \in PlansOf[m] |-> ScansBody(f, x)]
    BY <1>2
  <2>0. m + 1 \in 0..Nesting /\ (m + 1) - 1 = m /\ m + 1 > 0
    BY <1>2, NestingAssumption
  <2> DEFINE g == [x \in PlansOf[m + 1] |-> ScansBody(f, x)]
  <2>2. \A x \in PlansOf[m] : g[x] = f[x]
    <3>1. PlansOf[m] \subseteq PlansOf[m + 1]
      BY <2>0, PlanLevels
    <3> QED BY <2>1, <3>1, Zenon
  <2>3. \A x \in PlansOf[m + 1] : ScansBody(f, x) = ScansBody(g, x)
    <3> TAKE x \in PlansOf[m + 1]
    <3> HIDE DEF g
    <3>1. x.k = "filter" => f[x.source] = g[x.source]
      <4>1. x.k = "filter" => x.source \in PlansOf[m]
        BY <2>0, PlanCases
      <4> QED BY <2>2, <4>1
    <3>2. x.k = "union" => \A i \in DOMAIN x.sources : f[x.sources[i]] = g[x.sources[i]]
      <4>1. x.k = "union" => \A i \in DOMAIN x.sources : x.sources[i] \in PlansOf[m]
        <5>1. x.k = "union" => x.sources \in Seq(PlansOf[m])
          BY <2>0, PlanCases
        <5> QED BY <5>1
      <4> QED BY <2>2, <4>1
    <3>3. x.k = "union" => UNION {f[x.sources[i]] : i \in DOMAIN x.sources}
                             = UNION {g[x.sources[i]] : i \in DOMAIN x.sources}
      BY <3>2
    <3> QED BY <3>1, <3>3, Zenon DEF ScansBody
  <2>4. g = [x \in PlansOf[m + 1] |-> ScansBody(g, x)]
    BY <2>3, Zenon
  <2>5. \E h : h = [x \in PlansOf[m + 1] |-> ScansBody(h, x)]
    BY <2>4, Zenon
  <2> QED BY <1>2, <2>5
<1>3. Nesting \in Up
  <2> HIDE DEF Up
  <2> QED BY <1>1, <1>2, Upwards, NestingAssumption
<1> QED
  BY <1>3, NestingAssumption DEF AllPlans

\* The scans of a plan by those of the plans in it.
LEMMA ScansIs ==
  ASSUME NEW x \in AllPlans
  PROVE  Scans(x) = IF x.k = "scan" THEN {x}
                    ELSE IF x.k = "filter" THEN Scans(x.source)
                    ELSE IF x.k = "union" THEN UNION {Scans(x.sources[i]) : i \in DOMAIN x.sources}
                    ELSE {}
<1> DEFINE scans == CHOOSE f : f = [y \in AllPlans |-> ScansBody(f, y)]
<1>1. scans = [y \in AllPlans |-> ScansBody(scans, y)]
  BY ScansExists, Zenon
<1>2. \A y : Scans(y) = scans[y]
  BY Zenon DEF Scans, ScansBody
<1>3. scans[x] = ScansBody(scans, x)
  <2> HIDE DEF scans
  <2> QED BY <1>1, Zenon
<1> HIDE DEF scans
<1> QED BY <1>2, <1>3 DEF ScansBody

\* The recursive function of Slack exists.
LEMMA SlackExists ==
  ASSUME NEW t
  PROVE  \E f : f = [x \in Conditions |-> SlackBody(f, x, t)]
<1> DEFINE Up == {m \in Nat : m <= Nesting => \E f : f = [x \in ConditionsOf[m] |-> SlackBody(f, x, t)]}
<1>1. 0 \in Up
  <2> DEFINE g == [x \in ConditionsOf[0] |-> SlackBody(<<>>, x, t)]
  <2>1. \A x \in ConditionsOf[0] : SlackBody(<<>>, x, t) = SlackBody(g, x, t)
    BY ConditionCases, NestingAssumption DEF SlackBody
  <2>2. g = [x \in ConditionsOf[0] |-> SlackBody(g, x, t)]
    BY <2>1, Zenon
  <2> QED BY <2>2
<1>2. ASSUME NEW m \in 0..Nesting, m < Nesting, m \in Up PROVE m + 1 \in Up
  <2>1. PICK f : f = [x \in ConditionsOf[m] |-> SlackBody(f, x, t)]
    BY <1>2
  <2>0. m + 1 \in 0..Nesting /\ (m + 1) - 1 = m /\ m + 1 > 0
    BY <1>2, NestingAssumption
  <2> DEFINE g == [x \in ConditionsOf[m + 1] |-> SlackBody(f, x, t)]
  <2>2. \A x \in ConditionsOf[m] : g[x] = f[x]
    <3>1. ConditionsOf[m] \subseteq ConditionsOf[m + 1]
      BY <2>0, ConditionLevels
    <3> QED BY <2>1, <3>1, Zenon
  <2>3. \A x \in ConditionsOf[m + 1] : SlackBody(f, x, t) = SlackBody(g, x, t)
    <3> TAKE x \in ConditionsOf[m + 1]
    <3> HIDE DEF g
    <3>1. x.k # "cmp" => x.children \in Seq(ConditionsOf[m])
      BY <2>0, ConditionCases
    <3>2. x.k # "cmp" => \A i \in DOMAIN x.children : f[x.children[i]] = g[x.children[i]]
      BY <2>2, <3>1
    <3> QED BY <3>2, Zenon DEF SlackBody
  <2>4. g = [x \in ConditionsOf[m + 1] |-> SlackBody(g, x, t)]
    BY <2>3, Zenon
  <2>5. \E h : h = [x \in ConditionsOf[m + 1] |-> SlackBody(h, x, t)]
    BY <2>4, Zenon
  <2> QED BY <1>2, <2>5
<1>3. Nesting \in Up
  <2> HIDE DEF Up
  <2> QED BY <1>1, <1>2, Upwards, NestingAssumption
<1> QED
  BY <1>3, NestingAssumption DEF Conditions

\* The recursive function of OrsDisjoint exists.
LEMMA DisjointExists ==
  ASSUME NEW t
  PROVE  \E f : f = [x \in Conditions |-> DisjointBody(f, x, t)]
<1> DEFINE Up == {m \in Nat : m <= Nesting => \E f : f = [x \in ConditionsOf[m] |-> DisjointBody(f, x, t)]}
<1>1. 0 \in Up
  <2> DEFINE g == [x \in ConditionsOf[0] |-> DisjointBody(<<>>, x, t)]
  <2>1. \A x \in ConditionsOf[0] : DisjointBody(<<>>, x, t) = DisjointBody(g, x, t)
    BY ConditionCases, NestingAssumption DEF DisjointBody
  <2>2. g = [x \in ConditionsOf[0] |-> DisjointBody(g, x, t)]
    BY <2>1, Zenon
  <2> QED BY <2>2
<1>2. ASSUME NEW m \in 0..Nesting, m < Nesting, m \in Up PROVE m + 1 \in Up
  <2>1. PICK f : f = [x \in ConditionsOf[m] |-> DisjointBody(f, x, t)]
    BY <1>2
  <2>0. m + 1 \in 0..Nesting /\ (m + 1) - 1 = m /\ m + 1 > 0
    BY <1>2, NestingAssumption
  <2> DEFINE g == [x \in ConditionsOf[m + 1] |-> DisjointBody(f, x, t)]
  <2>2. \A x \in ConditionsOf[m] : g[x] = f[x]
    <3>1. ConditionsOf[m] \subseteq ConditionsOf[m + 1]
      BY <2>0, ConditionLevels
    <3> QED BY <2>1, <3>1, Zenon
  <2>3. \A x \in ConditionsOf[m + 1] : DisjointBody(f, x, t) = DisjointBody(g, x, t)
    <3> TAKE x \in ConditionsOf[m + 1]
    <3> HIDE DEF g
    <3>1. x.k # "cmp" => x.children \in Seq(ConditionsOf[m])
      BY <2>0, ConditionCases
    <3>2. x.k # "cmp" => \A i \in DOMAIN x.children : f[x.children[i]] = g[x.children[i]]
      BY <2>2, <3>1
    <3> QED BY <3>2, Zenon DEF DisjointBody
  <2>4. g = [x \in ConditionsOf[m + 1] |-> DisjointBody(g, x, t)]
    BY <2>3, Zenon
  <2>5. \E h : h = [x \in ConditionsOf[m + 1] |-> DisjointBody(h, x, t)]
    BY <2>4, Zenon
  <2> QED BY <1>2, <2>5
<1>3. Nesting \in Up
  <2> HIDE DEF Up
  <2> QED BY <1>1, <1>2, Upwards, NestingAssumption
<1> QED
  BY <1>3, NestingAssumption DEF Conditions

\* A condition has slack by itself or by a condition in it.
LEMMA SlackIs ==
  ASSUME NEW t, NEW x \in Conditions
  PROVE  Slack(t, x) = (x.k # "cmp" /\
           \/ \E i \in DOMAIN x.children : Slack(t, x.children[i])
           \/ x.k = "and" /\ \E i \in DOMAIN t.indexes :
                               BoundTwice(x.children, t.indexes[i].columns[1]))
<1> DEFINE slack == CHOOSE f : f = [y \in Conditions |-> SlackBody(f, y, t)]
<1>1. slack = [y \in Conditions |-> SlackBody(slack, y, t)]
  BY SlackExists, Zenon
<1>2. \A y : Slack(t, y) = slack[y]
  BY Zenon DEF Slack, SlackBody
<1>3. slack[x] = SlackBody(slack, x, t)
  <2> HIDE DEF slack
  <2> QED BY <1>1, Zenon
<1> HIDE DEF slack
<1> QED BY <1>2, <1>3 DEF SlackBody

\* The alternatives of all its ORs are apart if its own are and those in it.
LEMMA OrsDisjointIs ==
  ASSUME NEW t, NEW x \in Conditions
  PROVE  OrsDisjoint(t, x) = (x.k = "cmp" \/
           /\ \A i \in DOMAIN x.children : OrsDisjoint(t, x.children[i])
           /\ x.k = "or" => Apart(t, x.children))
<1> DEFINE disjoint == CHOOSE f : f = [y \in Conditions |-> DisjointBody(f, y, t)]
<1>1. disjoint = [y \in Conditions |-> DisjointBody(disjoint, y, t)]
  BY DisjointExists, Zenon
<1>2. \A y : OrsDisjoint(t, y) = disjoint[y]
  BY Zenon DEF OrsDisjoint, DisjointBody
<1>3. disjoint[x] = DisjointBody(disjoint, x, t)
  <2> HIDE DEF disjoint
  <2> QED BY <1>1, Zenon
<1> HIDE DEF disjoint
<1> QED BY <1>2, <1>3 DEF DisjointBody

-----------------------------------------------------------------------------
(* What the plans read when every index has one column. *)

OneColumn(t) == \A i \in DOMAIN t.indexes : Len(t.indexes[i].columns) = 1
Met(t, S) == {r \in DOMAIN t.rows : \A x \in S : Holds(x, t.rows[r])}

\* A row that the bounds for a list of conditions let through meets those that the
\* index can use.
LEMMA BoundsMeet ==
  ASSUME NEW cs \in Seq(Conditions), NEW b, ExactAfter(b, cs, Len(cs)),
         NEW row, RowOk(row, 1)
  PROVE  Above(b, row[1]) /\ Below(b, row[1]) <=> \A x \in ToSet(cs) : fitsWith(x, 1) => Holds(x, row)
<1>1. 1 \in Nat /\ 1 \in 1..1
  OBVIOUS
<1>2. row \in Seq(Int) /\ row[1] \in Int /\ MinVal < row[1] /\ row[1] < MaxVal /\ 1 \in DOMAIN row
  <2>1. /\ row \in Seq(Int)
        /\ \A f \in 1..1 : row[f] \in Int /\ MinVal < row[f] /\ row[f] < MaxVal
    BY <1>1, RowOkIs
  <2> QED BY <1>1, <2>1 DEF RowOk
<1>3. PICK N : N = Len(cs)
  OBVIOUS
<1>4. DOMAIN cs = 1..N /\ \A j \in 1..N : cs[j] \in Conditions
  BY <1>3
<1>5. /\ Above(b, row[1]) <=> \A j \in 1..N : fitsWith(cs[j], 1) => MeetsLow(cs[j], row[1])
      /\ Below(b, row[1]) <=> \A j \in 1..N : fitsWith(cs[j], 1) => MeetsHigh(cs[j], row[1])
  BY <1>2, <1>3, Zenon DEF ExactAfter
<1>6. ASSUME NEW j \in 1..N, fitsWith(cs[j], 1)
      PROVE  Holds(cs[j], row) <=> MeetsLow(cs[j], row[1]) /\ MeetsHigh(cs[j], row[1])
  <2>1. PICK c : c = cs[j]
    OBVIOUS
  <2>2. c \in Conditions /\ fitsWith(c, 1)
    BY <1>4, <1>6, <2>1
  <2>3. Holds(c, row) <=> compareValue(row[1], Bound(c)) \in Facing(c)
    BY <1>2, <2>2, FacingHolds
  <2>4. compareValue(row[1], Bound(c)) \in Facing(c) <=> MeetsLow(c, row[1]) /\ MeetsHigh(c, row[1])
    BY <1>2, <2>2, MeetsIs
  <2> QED BY <2>1, <2>3, <2>4
<1>7. (\A x \in ToSet(cs) : fitsWith(x, 1) => Holds(x, row))
        <=> \A j \in 1..N : fitsWith(cs[j], 1) => Holds(cs[j], row)
  BY <1>4 DEF ToSet
<1> QED BY <1>5, <1>6, <1>7, Zenon

\* The scan of an index reads the rows that meet the conditions it can use.
LEMMA IndexScanExact ==
  ASSUME PlainIndexes, NEW t \in Tables, OneColumn(t), NEW i \in DOMAIN t.indexes,
         NEW cs \in Seq(Conditions), ~BoundTwice(cs, 1),
         ~Read(t, IndexScan(t, i, cs)).wild, RowsWithin(t, IndexScan(t, i, cs)) # {}
  PROVE  Exactly(Read(t, IndexScan(t, i, cs)).rows, Met(t, {x \in ToSet(cs) : fitsWith(x, 1)}))
<1>1. PICK columns : columns = t.indexes[i].columns
  OBVIOUS
<1>2. Len(columns) = 1 /\ IndexOk(t, i, 1)
  <2>1. Len(columns) = 1
    BY <1>1 DEF OneColumn
  <2>2. IndexOk(t, i, Len(columns))
    BY <1>1, IndexIsOk
  <2> QED BY <2>1, <2>2
<1>3. Leading(columns) /\ \A r \in DOMAIN t.rows : RowOk(t.rows[r], 1)
  BY <1>1, <1>2 DEF IndexOk
<1>4. columns[1] = 1
  <2>1. 1 \in DOMAIN columns
    BY <1>2, <1>3 DEF Leading
  <2> QED BY <1>3, <2>1 DEF Leading
<1>5. PICK b : b = BoundsFor(cs, columns)
  OBVIOUS
<1>6. BoundsOk(b, 1) /\ ExactAfter(b, cs, Len(cs))
  BY <1>2, <1>3, <1>5, BoundsForExact
<1>7. PICK p : p = IndexScan(t, i, cs)
  OBVIOUS
<1>8. p.k = "scan" /\ p.index = i /\ p.bounds = b
  BY <1>1, <1>5, <1>7 DEF IndexScan
<1>9. p \in AllPlans
  <2>1. \A n \in 0..Nesting : p \in PlansOf[n]
    BY <1>7, IndexScanReads
  <2> QED BY <2>1, NestingAssumption DEF AllPlans
<1>10. Read(t, p) = LeafScan(t, i, b)
  BY <1>2, <1>6, <1>8, <1>9, ReadIs, ScanInLeaf DEF Source
<1>11. RowsWithin(t, p) = Within(t, b)
  BY <1>1, <1>4, <1>8 DEF RowsWithin, Within
<1>12. Exactly(Read(t, p).rows, Within(t, b))
  BY <1>2, <1>6, <1>7, <1>10, <1>11, ScanExact
<1>13. Within(t, b) = Met(t, {x \in ToSet(cs) : fitsWith(x, 1)})
  <2>1. ASSUME NEW r \in DOMAIN t.rows
        PROVE  Above(b, t.rows[r][1]) /\ Below(b, t.rows[r][1])
                 <=> \A x \in ToSet(cs) : fitsWith(x, 1) => Holds(x, t.rows[r])
    <3>1. PICK row : row = t.rows[r]
      OBVIOUS
    <3>2. RowOk(row, 1)
      BY <1>3, <3>1
    <3>3. Above(b, row[1]) /\ Below(b, row[1]) <=> \A x \in ToSet(cs) : fitsWith(x, 1) => Holds(x, row)
      BY <1>6, <3>2, BoundsMeet
    <3> QED BY <3>1, <3>3
  <2>2. \A r : r \in Within(t, b) <=> r \in Met(t, {x \in ToSet(cs) : fitsWith(x, 1)})
    BY <2>1 DEF Within, Met
  <2> QED BY <2>2
<1> QED BY <1>7, <1>12, <1>13

\* A filter repeats no row that its source does not repeat, and has its scans.
LEMMA FilterExact ==
  ASSUME NEW t, NEW c, NEW p, Filter(c, p) \in AllPlans, Read(t, p).rows \in Seq(Nat)
  PROVE  /\ IsInjective(Read(t, p).rows) => IsInjective(Read(t, Filter(c, p)).rows)
         /\ Scans(Filter(c, p)) = Scans(p)
<1>1. PICK q : q = Filter(c, p)
  OBVIOUS
<1>2. q.k = "filter" /\ q.cond = c /\ q.source = p
  BY <1>1 DEF Filter
<1>3. Read(t, q) = [rows |-> Kept(Read(t, p).rows, Meeting(t, c)), wild |-> Read(t, p).wild]
  BY <1>1, <1>2, ReadIs
<1>4. PICK rows : rows = Read(t, p).rows
  OBVIOUS
<1>5. IsInjective(rows) => IsInjective(Kept(rows, Meeting(t, c)))
  BY <1>4, KeptOnce
<1>6. Scans(q) = Scans(p)
  BY <1>1, <1>2, ScansIs
<1> QED BY <1>1, <1>3, <1>4, <1>5, <1>6

\* The rows that meet an AND meet its children.
LEMMA MeetingAnd ==
  ASSUME NEW t, NEW cs \in Seq(Conditions), And(cs) \in Conditions
  PROVE  Meeting(t, And(cs)) = Met(t, ToSet(cs))
<1>1. Node("and", cs) = And(cs)
  BY DEF And, Node
<1>2. ASSUME NEW r \in DOMAIN t.rows
      PROVE  Holds(And(cs), t.rows[r]) <=> \A x \in ToSet(cs) : Holds(x, t.rows[r])
  <2>1. PICK row : row = t.rows[r]
    OBVIOUS
  <2>2. Holds(Node("and", cs), row) = \A x \in ToSet(cs) : Holds(x, row)
    BY <1>1, HoldsNode
  <2> QED BY <1>1, <2>1, <2>2
<1>3. \A r : r \in Meeting(t, And(cs)) <=> r \in Met(t, ToSet(cs))
  BY <1>2 DEF Meeting, Met
<1> QED BY <1>3

\* The filters over a scan leave the rows that meet their conditions.
LEMMA FilteredExact ==
  ASSUME NEW t, NEW T, T \subseteq Conditions, NEW rest \in Seq(T),
         \A q \in Seq(T) : And(q) \in Conditions,
         NEW p, Filtered(rest, p) \in AllPlans, Read(t, p).rows \in Seq(Nat)
  PROVE  /\ Read(t, Filtered(rest, p)).wild = Read(t, p).wild
         /\ Scans(Filtered(rest, p)) = Scans(p)
         /\ ToSet(Read(t, p).rows) \subseteq DOMAIN t.rows =>
              ToSet(Read(t, Filtered(rest, p)).rows) = ToSet(Read(t, p).rows) \cap Met(t, ToSet(rest))
         /\ IsInjective(Read(t, p).rows) => IsInjective(Read(t, Filtered(rest, p)).rows)
<1>1. ASSUME NEW c, Filtered(rest, p) = Filter(c, p), Meeting(t, c) = Met(t, ToSet(rest))
      PROVE  /\ Read(t, Filtered(rest, p)).wild = Read(t, p).wild
             /\ Scans(Filtered(rest, p)) = Scans(p)
             /\ ToSet(Read(t, Filtered(rest, p)).rows) = ToSet(Read(t, p).rows) \cap Met(t, ToSet(rest))
             /\ IsInjective(Read(t, p).rows) => IsInjective(Read(t, Filtered(rest, p)).rows)
  <2>1. Filter(c, p) \in AllPlans
    BY <1>1
  <2>2. /\ ToSet(Read(t, Filter(c, p)).rows) = ToSet(Read(t, p).rows) \cap Meeting(t, c)
        /\ Read(t, Filter(c, p)).wild = Read(t, p).wild
    BY <2>1, FilterReads
  <2>3. /\ IsInjective(Read(t, p).rows) => IsInjective(Read(t, Filter(c, p)).rows)
        /\ Scans(Filter(c, p)) = Scans(p)
    BY <2>1, FilterExact
  <2> QED BY <1>1, <2>2, <2>3
<1>2. Len(rest) \in Nat /\ DOMAIN rest = 1..Len(rest)
  OBVIOUS
<1>3. CASE Len(rest) = 0
  <2>1. Filtered(rest, p) = p
    BY <1>3 DEF Filtered
  <2>2. ToSet(rest) = {}
    BY <1>2, <1>3 DEF ToSet
  <2>3. Met(t, ToSet(rest)) = DOMAIN t.rows
    BY <2>2 DEF Met
  <2>4. PICK S : S = ToSet(Read(t, p).rows)
    OBVIOUS
  <2>5. S \subseteq DOMAIN t.rows => S = S \cap Met(t, ToSet(rest))
    BY <2>3, <2>4
  <2> QED BY <2>1, <2>4, <2>5
<1>4. CASE Len(rest) = 1
  <2>1. Filtered(rest, p) = Filter(rest[1], p)
    BY <1>4 DEF Filtered
  <2>2. ToSet(rest) = {rest[1]}
    BY <1>2, <1>4 DEF ToSet
  <2>3. Meeting(t, rest[1]) = Met(t, ToSet(rest))
    BY <2>2 DEF Meeting, Met
  <2> QED BY <1>1, <2>1, <2>3
<1>5. CASE Len(rest) > 1
  <2>1. Filtered(rest, p) = Filter(And(rest), p)
    BY <1>2, <1>5 DEF Filtered
  <2>2. And(rest) \in Conditions /\ rest \in Seq(Conditions)
    <3>1. rest \in Seq(Conditions)
      BY SeqRises
    <3> QED BY <3>1
  <2>3. Meeting(t, And(rest)) = Met(t, ToSet(rest))
    BY <2>2, MeetingAnd
  <2> QED BY <1>1, <2>1, <2>3
<1> QED BY <1>2, <1>3, <1>4, <1>5

\* A plan answers with the rows that meet the condition, each of them once unless
\* alternatives of an OR have rows in common.
Right(t, c, p) ==
  ~Read(t, p).wild /\ ~Slack(t, c) /\ (\A s \in Scans(p) : RowsWithin(t, s) # {}) =>
    /\ ToSet(Read(t, p).rows) = Meeting(t, c)
    /\ OrsDisjoint(t, c) => IsInjective(Read(t, p).rows)

\* The first column of an index is the first of the table.
LEMMA FirstColumn ==
  ASSUME PlainIndexes, NEW t \in Tables, NEW i \in DOMAIN t.indexes
  PROVE  t.indexes[i].columns[1] = 1
<1>1. PICK columns : columns = t.indexes[i].columns
  OBVIOUS
<1>2. columns \in Seq(Nat) /\ columns # <<>>
  <2>1. t.indexes \in Seq(Trees) /\ columns # <<>>
    BY <1>1, TablesAssumption
  <2>2. t.indexes[i] \in Trees
    BY <2>1
  <2> QED BY <1>1, <2>1, <2>2 DEF Trees
<1>3. 1 \in DOMAIN columns
  BY <1>2
<1> QED BY <1>1, <1>3 DEF LeadingColumns, PlainIndexes, Plain

\* A scan is its own scan.
LEMMA ScanOfScan ==
  ASSUME PlainIndexes, NEW t \in Tables, NEW i \in DOMAIN t.indexes,
         NEW cs \in Seq(Conditions)
  PROVE  Scans(IndexScan(t, i, cs)) = {IndexScan(t, i, cs)}
<1>1. PICK p : p = IndexScan(t, i, cs)
  OBVIOUS
<1>2. p.k = "scan"
  BY <1>1 DEF IndexScan
<1>3. p \in AllPlans
  <2>1. \A n \in 0..Nesting : p \in PlansOf[n]
    BY <1>1, IndexScanReads
  <2> QED BY <2>1, NestingAssumption DEF AllPlans
<1> QED BY <1>1, <1>2, <1>3, ScansIs

\* The plan of a condition is one of the plans.
LEMMA PlanIsPlan ==
  ASSUME PlainIndexes, NEW t \in Tables, NEW c \in Conditions, PlanFor(t, c) # NoPlan
  PROVE  PlanFor(t, c) \in AllPlans /\ Read(t, PlanFor(t, c)).rows \in Seq(Nat)
<1>1. PlanOk(t, c, PlanFor(t, c))
  BY PlansReadAll
<1> QED BY <1>1, NestingAssumption DEF PlanOk, ReadsAll, AllPlans, Conditions

\* The plan of a comparison is right.
LEMMA ComparisonExact ==
  ASSUME PlainIndexes, NEW t \in Tables, OneColumn(t),
         NEW c \in Conditions, c.k = "cmp", PlanFor(t, c) # NoPlan
  PROVE  Right(t, c, PlanFor(t, c))
<1>1. PlanFor(t, c) = visitCompareConditionQNode(t, c)
  BY PlanForIs
<1>2. Usable(t, {c}) # {} /\ PlanFor(t, c) = IndexScan(t, Min(Usable(t, {c})), <<c>>)
  BY <1>1 DEF visitCompareConditionQNode
<1>3. PICK i : i = Min(Usable(t, {c}))
  OBVIOUS
<1>4. i \in DOMAIN t.indexes
  BY <1>2, <1>3, UsableIs
<1>5. PICK cs : cs = <<c>>
  OBVIOUS
<1>6. cs \in Seq(Conditions) /\ ToSet(cs) = {c} /\ DOMAIN cs = {1}
  BY <1>5 DEF ToSet
<1>7. ~BoundTwice(cs, 1)
  BY <1>6 DEF BoundTwice
<1>8. fitsWith(c, 1)
  <2>1. \E j \in DOMAIN t.indexes : fitsWith(c, t.indexes[j].columns[1])
    BY <1>2 DEF Usable
  <2> QED BY <2>1, FirstColumn
<1>9. PICK p : p = IndexScan(t, i, cs)
  OBVIOUS
<1>10. Scans(p) = {p}
  BY <1>4, <1>6, <1>9, ScanOfScan
<1>11. ASSUME ~Read(t, p).wild, RowsWithin(t, p) # {}
       PROVE  Exactly(Read(t, p).rows, Meeting(t, c))
  <2>1. Exactly(Read(t, p).rows, Met(t, {x \in ToSet(cs) : fitsWith(x, 1)}))
    BY <1>4, <1>6, <1>7, <1>9, <1>11, IndexScanExact
  <2>2. {x \in ToSet(cs) : fitsWith(x, 1)} = {c}
    BY <1>6, <1>8
  <2>3. Met(t, {c}) = Meeting(t, c)
    BY DEF Met, Meeting
  <2> QED BY <2>1, <2>2, <2>3
<1>12. Right(t, c, p)
  BY <1>10, <1>11 DEF Right, Exactly
<1> QED BY <1>2, <1>3, <1>5, <1>9, <1>12

\* The plan of an AND is right if those of its children are.
LEMMA AndExact ==
  ASSUME PlainIndexes, NEW t \in Tables, OneColumn(t),
         NEW cs \in Seq(Conditions), Node("and", cs) \in Conditions,
         PlanFor(t, Node("and", cs)) # NoPlan,
         \A i \in DOMAIN cs : PlanFor(t, cs[i]) # NoPlan => Right(t, cs[i], PlanFor(t, cs[i]))
  PROVE  Right(t, Node("and", cs), PlanFor(t, Node("and", cs)))
<1>1. PICK c : c = Node("and", cs) /\ c \in Conditions /\ c.k = "and" /\ c.children = cs
  BY NodeFields
<1>2. PICK plans : plans = [i \in DOMAIN cs |-> PlanFor(t, cs[i])]
  OBVIOUS
<1>3. PICK p : p = PlanFor(t, c)
  OBVIOUS
<1>4. p = visitAndConditionQNode(t, cs, plans) /\ p # NoPlan
  BY <1>1, <1>2, <1>3, PlanForIs
<1>5. p \in AllPlans
  BY <1>1, <1>3, <1>4, PlanIsPlan
<1>6. PICK T : cs \in Seq(T) /\ T \subseteq Conditions /\ \A rest \in Seq(T) : And(rest) \in Conditions
  <2>1. Nesting \in 0..Nesting /\ Node("and", cs) \in ConditionsOf[Nesting]
    BY NestingAssumption DEF Conditions
  <2> QED BY <2>1, ShorterAnd
<1>7. Meeting(t, c) = Met(t, ToSet(cs))
  <2>1. And(cs) = c
    BY <1>1 DEF And, Node
  <2> QED BY <1>1, <2>1, MeetingAnd
<1>8. /\ \A i \in DOMAIN cs : Slack(t, cs[i]) => Slack(t, c)
      /\ (\E i \in DOMAIN t.indexes : BoundTwice(cs, t.indexes[i].columns[1])) => Slack(t, c)
  <2>1. c.k # "cmp"
    BY <1>1
  <2> QED BY <1>1, <2>1, SlackIs
<1>9. OrsDisjoint(t, c) => \A i \in DOMAIN cs : OrsDisjoint(t, cs[i])
  <2>1. c.k # "cmp"
    BY <1>1
  <2> QED BY <1>1, <2>1, OrsDisjointIs
<1>10. CASE Usable(t, ToSet(cs)) # {}
  <2>1. PICK i : i = Min(Usable(t, ToSet(cs)))
    OBVIOUS
  <2>2. i \in DOMAIN t.indexes
    BY <1>10, <2>1, UsableIs
  <2>3. PICK rest : rest = Kept(cs, Unbound(t, cs, i))
    OBVIOUS
  <2>4. PICK scan : scan = IndexScan(t, i, cs)
    OBVIOUS
  <2>5. p = Filtered(rest, scan)
    BY <1>4, <1>10, <2>1, <2>3, <2>4 DEF visitAndConditionQNode, indexifyAnd
  <2>6. rest \in Seq(T) /\ ToSet(rest) = ToSet(cs) \cap Unbound(t, cs, i)
    BY <1>6, <2>3, KeptIs
  <2>7. Unbound(t, cs, i) = {x \in ToSet(cs) : ~fitsWith(x, 1)}
    <3>1. PICK columns : columns = t.indexes[i].columns
      OBVIOUS
    <3>2. Len(columns) = 1 /\ Leading(columns)
      <4>1. IndexOk(t, i, Len(t.indexes[i].columns))
        BY <2>2, IndexIsOk
      <4> QED BY <2>2, <3>1, <4>1 DEF IndexOk, OneColumn
    <3>3. ASSUME NEW x PROVE FieldsOf(x, ToSet(cs), columns) = {} <=> ~fitsWith(x, 1)
      BY <3>2, FieldsOfOne
    <3> QED BY <3>1, <3>3 DEF Unbound
  <2>8. Read(t, scan).rows \in Seq(Nat)
    BY <2>2, <2>4, IndexScanReads
  <2>9. ASSUME ~Read(t, p).wild, ~Slack(t, c), \A s \in Scans(p) : RowsWithin(t, s) # {}
        PROVE  Exactly(Read(t, p).rows, Meeting(t, c))
    <3>1. ~BoundTwice(cs, 1)
      BY <1>8, <2>2, <2>9, FirstColumn
    <3>2. Scans(scan) = {scan}
      BY <2>2, <2>4, ScanOfScan
    <3>7. Filtered(rest, scan) \in AllPlans /\ rest \in Seq(T)
      BY <1>5, <2>5, <2>6
    <3>8. /\ Read(t, Filtered(rest, scan)).wild = Read(t, scan).wild
          /\ Scans(Filtered(rest, scan)) = Scans(scan)
          /\ ToSet(Read(t, scan).rows) \subseteq DOMAIN t.rows =>
               ToSet(Read(t, Filtered(rest, scan)).rows) = ToSet(Read(t, scan).rows) \cap Met(t, ToSet(rest))
          /\ IsInjective(Read(t, scan).rows) => IsInjective(Read(t, Filtered(rest, scan)).rows)
      BY <1>6, <2>8, <3>7, FilteredExact, Zenon
    <3>3. /\ Read(t, p).wild = Read(t, scan).wild
          /\ Scans(p) = Scans(scan)
          /\ ToSet(Read(t, scan).rows) \subseteq DOMAIN t.rows =>
               ToSet(Read(t, p).rows) = ToSet(Read(t, scan).rows) \cap Met(t, ToSet(rest))
          /\ IsInjective(Read(t, scan).rows) => IsInjective(Read(t, p).rows)
      BY <2>5, <3>8
    <3>4. Exactly(Read(t, scan).rows, Met(t, {x \in ToSet(cs) : fitsWith(x, 1)}))
      <4>1. ~Read(t, scan).wild /\ RowsWithin(t, scan) # {}
        BY <2>9, <3>2, <3>3
      <4> QED BY <2>2, <2>4, <3>1, <4>1, IndexScanExact
    <3>5. Met(t, {x \in ToSet(cs) : fitsWith(x, 1)}) \cap Met(t, ToSet(rest)) = Met(t, ToSet(cs))
      BY <2>6, <2>7 DEF Met
    <3>6. Met(t, {x \in ToSet(cs) : fitsWith(x, 1)}) \subseteq DOMAIN t.rows
      BY DEF Met
    <3> QED BY <1>7, <3>3, <3>4, <3>5, <3>6 DEF Exactly
  <2> QED BY <1>1, <1>3, <2>9 DEF Right, Exactly
<1>11. CASE Usable(t, ToSet(cs)) = {}
  <2>1. Readable(cs, plans) # {} /\ p = filterifyAnd(cs, plans)
    BY <1>4, <1>11 DEF visitAndConditionQNode
  <2>2. PICK i : i = Min(Readable(cs, plans))
    OBVIOUS
  <2>3. i \in 1..Len(cs) /\ i \in DOMAIN cs /\ plans[i] # NoPlan
    <3>1. Readable(cs, plans) \in SUBSET Nat
      BY DEF Readable
    <3>2. i \in Readable(cs, plans)
      BY <2>1, <2>2, <3>1, MinIs
    <3> QED BY <3>2 DEF Readable
  <2>4. PICK rest, source : rest = RemoveAt(cs, i) /\ source = plans[i]
    OBVIOUS
  <2>5. p = Filter(And(rest), source)
    BY <2>1, <2>2, <2>4 DEF filterifyAnd
  <2>6. source = PlanFor(t, cs[i]) /\ source # NoPlan /\ cs[i] \in Conditions
    BY <1>2, <2>3, <2>4
  <2>7. Right(t, cs[i], source) /\ Read(t, source).rows \in Seq(Nat)
    BY <2>3, <2>6, PlanIsPlan
  <2>8. /\ rest \in Seq(T) /\ ToSet(rest) \subseteq ToSet(cs)
        /\ ToSet(cs) \subseteq ToSet(rest) \cup {cs[i]}
    BY <1>6, <2>3, <2>4, RemoveAtHas
  <2>9. And(rest) \in Conditions /\ rest \in Seq(Conditions)
    <3>1. rest \in Seq(Conditions)
      BY <1>6, <2>8, SeqRises
    <3> QED BY <1>6, <2>8, <3>1
  <2>10. /\ ToSet(Read(t, p).rows) = ToSet(Read(t, source).rows) \cap Meeting(t, And(rest))
         /\ Read(t, p).wild = Read(t, source).wild
    BY <1>5, <2>5, <2>7, FilterReads
  <2>11. /\ IsInjective(Read(t, source).rows) => IsInjective(Read(t, p).rows)
         /\ Scans(p) = Scans(source)
    BY <1>5, <2>5, <2>7, FilterExact
  <2>12. Meeting(t, c) = Meeting(t, cs[i]) \cap Meeting(t, And(rest))
    <3>1. Meeting(t, And(rest)) = Met(t, ToSet(rest))
      BY <2>9, MeetingAnd
    <3>2. ToSet(cs) = ToSet(rest) \cup {cs[i]}
      <4>1. cs[i] \in ToSet(cs)
        BY <2>3 DEF ToSet
      <4> QED BY <2>8, <4>1
    <3> QED BY <1>7, <3>1, <3>2 DEF Met, Meeting
  <2>13. Right(t, c, p)
    <3>1. Slack(t, cs[i]) => Slack(t, c)
      BY <1>8, <2>3
    <3>2. OrsDisjoint(t, c) => OrsDisjoint(t, cs[i])
      BY <1>9, <2>3
    <3> QED BY <2>7, <2>10, <2>11, <2>12, <3>1, <3>2 DEF Right
  <2> QED BY <1>1, <1>3, <2>13
<1> QED BY <1>10, <1>11

\* A union reads the rows of its sources, and repeats none if they are apart.
LEMMA UnionExact ==
  ASSUME NEW t, NEW ps, Union(ps) \in AllPlans, NEW T, ps \in Seq(T),
         \A i \in DOMAIN ps : Read(t, ps[i]).rows \in Seq(Nat)
  PROVE  /\ ToSet(Read(t, Union(ps)).rows) = UNION {ToSet(Read(t, ps[i]).rows) : i \in DOMAIN ps}
         /\ Scans(Union(ps)) = UNION {Scans(ps[i]) : i \in DOMAIN ps}
         /\ (\A i \in DOMAIN ps : IsInjective(Read(t, ps[i]).rows))
              /\ (\A i, j \in DOMAIN ps : i # j =>
                    ToSet(Read(t, ps[i]).rows) \cap ToSet(Read(t, ps[j]).rows) = {})
            => IsInjective(Read(t, Union(ps)).rows)
<1>1. PICK q : q = Union(ps)
  OBVIOUS
<1>2. q.k = "union" /\ q.sources = ps
  BY <1>1 DEF Union
<1>3. Read(t, q) = United([i \in DOMAIN ps |-> Read(t, ps[i])])
  BY <1>1, <1>2, ReadIs
<1>4. PICK all : all = [i \in DOMAIN ps |-> Read(t, ps[i])]
  OBVIOUS
<1>5. PICK seqs : seqs = [i \in DOMAIN all |-> all[i].rows]
  OBVIOUS
<1>6. DOMAIN all = DOMAIN ps /\ DOMAIN seqs = DOMAIN ps /\ Len(ps) \in Nat /\ DOMAIN ps = 1..Len(ps)
  BY <1>4, <1>5
<1>7. \A i \in DOMAIN ps : seqs[i] = Read(t, ps[i]).rows
  BY <1>4, <1>5, <1>6
<1>8. seqs \in Seq(Seq(Nat))
  <2>1. seqs = [i \in 1..Len(ps) |-> seqs[i]]
    BY <1>5, <1>6
  <2>2. \A i \in 1..Len(ps) : seqs[i] \in Seq(Nat)
    BY <1>6, <1>7
  <2>3. seqs \in [1..Len(ps) -> Seq(Nat)]
    BY <2>1, <2>2, Zenon
  <2> QED BY <1>6, <2>3
<1>9. Read(t, q).rows = FlattenSeq(seqs)
  <2>1. Read(t, q) = [rows |-> FlattenSeq(seqs), wild |-> \E i \in DOMAIN ps : all[i].wild]
    BY <1>3, <1>4, <1>5, <1>6, Zenon DEF United
  <2> QED BY <2>1
<1>10. ToSet(FlattenSeq(seqs)) = UNION {ToSet(seqs[i]) : i \in DOMAIN seqs}
  BY <1>8, FlattenSeqHas
<1>11. UNION {ToSet(seqs[i]) : i \in DOMAIN seqs} = UNION {ToSet(Read(t, ps[i]).rows) : i \in DOMAIN ps}
  BY <1>6, <1>7
<1>12. ASSUME \A i \in DOMAIN ps : IsInjective(Read(t, ps[i]).rows),
              \A i, j \in DOMAIN ps : i # j =>
                ToSet(Read(t, ps[i]).rows) \cap ToSet(Read(t, ps[j]).rows) = {}
       PROVE  IsInjective(FlattenSeq(seqs))
  <2>1. \A i \in DOMAIN seqs : IsInjective(seqs[i])
    BY <1>6, <1>7, <1>12
  <2>2. \A i, j \in DOMAIN seqs : i # j => ToSet(seqs[i]) \cap ToSet(seqs[j]) = {}
    BY <1>6, <1>7, <1>12
  <2> QED BY <1>8, <2>1, <2>2, FlattenSeqOnce
<1>13. Scans(q) = UNION {Scans(ps[i]) : i \in DOMAIN ps}
  <2>1. q.k # "scan" /\ q.k # "filter"
    BY <1>2
  <2>2. Scans(q) = UNION {Scans(q.sources[i]) : i \in DOMAIN q.sources}
    BY <1>1, <1>2, <2>1, ScansIs
  <2> QED BY <1>2, <2>2
<1> QED BY <1>1, <1>9, <1>10, <1>11, <1>12, <1>13

\* The plan of an OR is right if those of its alternatives are.
LEMMA OrExact ==
  ASSUME PlainIndexes, NEW t \in Tables,
         NEW cs \in Seq(Conditions), Node("or", cs) \in Conditions,
         PlanFor(t, Node("or", cs)) # NoPlan,
         \A i \in DOMAIN cs : PlanFor(t, cs[i]) # NoPlan => Right(t, cs[i], PlanFor(t, cs[i]))
  PROVE  Right(t, Node("or", cs), PlanFor(t, Node("or", cs)))
<1>1. PICK c : c = Node("or", cs) /\ c \in Conditions /\ c.k = "or" /\ c.children = cs
  BY NodeFields
<1>2. PICK plans : plans = [i \in DOMAIN cs |-> PlanFor(t, cs[i])]
  OBVIOUS
<1>3. PICK p : p = PlanFor(t, c)
  OBVIOUS
<1>4. p = visitOrConditionQNode(plans) /\ p # NoPlan
  BY <1>1, <1>2, <1>3, PlanForIs
<1>5. NoPlan \notin ToSet(plans) /\ p = Union(plans) /\ p \in AllPlans
  <2>1. NoPlan \notin ToSet(plans) /\ p = Union(plans)
    BY <1>4 DEF visitOrConditionQNode
  <2> QED BY <1>1, <1>3, <1>4, <2>1, PlanIsPlan
<1>6. DOMAIN plans = DOMAIN cs /\ DOMAIN cs = 1..Len(cs) /\ Len(cs) \in Nat
      /\ plans = [i \in 1..Len(cs) |-> plans[i]]
  BY <1>2
<1>7. ASSUME NEW i \in DOMAIN cs
      PROVE  plans[i] \in AllPlans /\ Right(t, cs[i], plans[i]) /\ Read(t, plans[i]).rows \in Seq(Nat)
  <2>1. plans[i] # NoPlan /\ plans[i] = PlanFor(t, cs[i]) /\ cs[i] \in Conditions
    BY <1>2, <1>5 DEF ToSet
  <2> QED BY <2>1, PlanIsPlan
<1>8. plans \in Seq(AllPlans)
  <2>1. plans \in [1..Len(cs) -> AllPlans]
    BY <1>6, <1>7, Zenon
  <2> QED BY <1>6, <2>1
<1>9. /\ ToSet(Read(t, p).rows) = UNION {ToSet(Read(t, plans[i]).rows) : i \in DOMAIN plans}
      /\ Scans(p) = UNION {Scans(plans[i]) : i \in DOMAIN plans}
      /\ (\A i \in DOMAIN plans : IsInjective(Read(t, plans[i]).rows))
           /\ (\A i, j \in DOMAIN plans : i # j =>
                 ToSet(Read(t, plans[i]).rows) \cap ToSet(Read(t, plans[j]).rows) = {})
         => IsInjective(Read(t, p).rows)
  <2>1. Union(plans) \in AllPlans /\ \A i \in DOMAIN plans : Read(t, plans[i]).rows \in Seq(Nat)
    BY <1>5, <1>6, <1>7
  <2>2. /\ ToSet(Read(t, Union(plans)).rows) = UNION {ToSet(Read(t, plans[i]).rows) : i \in DOMAIN plans}
        /\ Scans(Union(plans)) = UNION {Scans(plans[i]) : i \in DOMAIN plans}
        /\ (\A i \in DOMAIN plans : IsInjective(Read(t, plans[i]).rows))
             /\ (\A i, j \in DOMAIN plans : i # j =>
                   ToSet(Read(t, plans[i]).rows) \cap ToSet(Read(t, plans[j]).rows) = {})
           => IsInjective(Read(t, Union(plans)).rows)
    BY <1>8, <2>1, UnionExact, Zenon
  <2> QED BY <1>5, <2>2, Zenon
<1>10. Read(t, p).wild = \E i \in DOMAIN plans : Read(t, plans[i]).wild
  BY <1>5, <1>6, <1>7, <1>8, UnionReads
<1>11. Meeting(t, c) = UNION {Meeting(t, cs[i]) : i \in DOMAIN cs}
  <2>1. ASSUME NEW r \in DOMAIN t.rows
        PROVE  Holds(c, t.rows[r]) <=> \E i \in DOMAIN cs : Holds(cs[i], t.rows[r])
    <3>1. PICK row : row = t.rows[r]
      OBVIOUS
    <3>2. Holds(c, row) = \E x \in ToSet(cs) : Holds(x, row)
      BY <1>1, HoldsNode
    <3>3. (\E x \in ToSet(cs) : Holds(x, row)) <=> \E i \in DOMAIN cs : Holds(cs[i], row)
      BY Zenon DEF ToSet
    <3> QED BY <3>1, <3>2, <3>3
  <2>2. \A r : r \in Meeting(t, c) <=> \E i \in DOMAIN cs : r \in Meeting(t, cs[i])
    BY <2>1 DEF Meeting
  <2> QED BY <2>2
<1>12. /\ \A i \in DOMAIN cs : Slack(t, cs[i]) => Slack(t, c)
       /\ OrsDisjoint(t, c) => Apart(t, cs) /\ \A i \in DOMAIN cs : OrsDisjoint(t, cs[i])
  <2>1. c.k # "cmp"
    BY <1>1
  <2>2. \A i \in DOMAIN cs : Slack(t, cs[i]) => Slack(t, c)
    BY <1>1, <2>1, SlackIs
  <2>4. OrsDisjoint(t, c) = (c.k = "cmp" \/
           /\ \A i \in DOMAIN c.children : OrsDisjoint(t, c.children[i])
           /\ c.k = "or" => Apart(t, c.children))
    BY <1>1, OrsDisjointIs, Zenon
  <2>3. OrsDisjoint(t, c) => Apart(t, cs) /\ \A i \in DOMAIN cs : OrsDisjoint(t, cs[i])
    BY <1>1, <2>1, <2>4
  <2> QED BY <2>2, <2>3
<1>13. ASSUME ~Read(t, p).wild, ~Slack(t, c), \A s \in Scans(p) : RowsWithin(t, s) # {}
       PROVE  /\ ToSet(Read(t, p).rows) = Meeting(t, c)
              /\ OrsDisjoint(t, c) => IsInjective(Read(t, p).rows)
  <2>1. ASSUME NEW i \in DOMAIN cs
        PROVE  /\ ToSet(Read(t, plans[i]).rows) = Meeting(t, cs[i])
               /\ OrsDisjoint(t, cs[i]) => IsInjective(Read(t, plans[i]).rows)
    <3>1. ~Read(t, plans[i]).wild /\ ~Slack(t, cs[i])
      BY <1>6, <1>10, <1>12, <1>13
    <3>2. \A s \in Scans(plans[i]) : RowsWithin(t, s) # {}
      BY <1>6, <1>9, <1>13
    <3> QED BY <1>7, <3>1, <3>2 DEF Right
  <2>2. ToSet(Read(t, p).rows) = Meeting(t, c)
    BY <1>6, <1>9, <1>11, <2>1
  <2>3. ASSUME OrsDisjoint(t, c) PROVE IsInjective(Read(t, p).rows)
    <3>1. \A i \in DOMAIN plans : IsInjective(Read(t, plans[i]).rows)
      BY <1>6, <1>12, <2>1, <2>3
    <3>2. \A i, j \in DOMAIN plans : i # j =>
            ToSet(Read(t, plans[i]).rows) \cap ToSet(Read(t, plans[j]).rows) = {}
      BY <1>6, <1>12, <2>1, <2>3 DEF Apart
    <3> QED BY <1>9, <3>1, <3>2
  <2> QED BY <2>2, <2>3
<1>14. Right(t, c, p)
  BY <1>13 DEF Right
<1> QED BY <1>1, <1>3, <1>14

\* The plans for all conditions are right.
LEMMA PlansExact ==
  ASSUME PlainIndexes, NEW t \in Tables, OneColumn(t),
         NEW c \in Conditions, PlanFor(t, c) # NoPlan
  PROVE  Right(t, c, PlanFor(t, c))
<1> DEFINE S == {x \in Conditions : PlanFor(t, x) # NoPlan => Right(t, x, PlanFor(t, x))}
<1>1. ASSUME NEW l \in Terms, NEW r \in Terms, NEW o \in Orders PROVE Compare(l, o, r) \in S
  <2>1. Compare(l, o, r) \in Conditions /\ Compare(l, o, r).k = "cmp"
    BY CompareIsCondition, CompareFields
  <2> QED BY <2>1, ComparisonExact
<1>2. ASSUME NEW kind \in {"and", "or"}, NEW cs \in Seq(Conditions),
             Node(kind, cs) \in Conditions, \A i \in DOMAIN cs : cs[i] \in S
      PROVE  Node(kind, cs) \in S
  <2>1. \A i \in DOMAIN cs : PlanFor(t, cs[i]) # NoPlan => Right(t, cs[i], PlanFor(t, cs[i]))
    BY <1>2
  <2>2. CASE kind = "and"
    BY <1>2, <2>1, <2>2, AndExact
  <2>3. CASE kind = "or"
    BY <1>2, <2>1, <2>3, OrExact
  <2> QED BY <2>2, <2>3
<1>3. Conditions \subseteq S
  <2> HIDE DEF S
  <2> QED BY <1>1, <1>2, ConditionsInduction
<1> QED BY <1>3

\* And so is the scan of the table under the whole condition.
LEMMA TablePlanExact ==
  ASSUME PlainIndexes, NEW t \in Tables, OneColumn(t), NEW c \in Conditions
  PROVE  Right(t, c, TablePlan(t, c))
<1>1. CASE PlanFor(t, c) # NoPlan
  BY <1>1, PlansExact DEF TablePlan
<1>2. CASE PlanFor(t, c) = NoPlan
  <2>1. TablePlan(t, c) = Filter(c, ReadTable)
    BY <1>2 DEF TablePlan
  <2>2. PICK p : p = ReadTable
    OBVIOUS
  <2>3. Filter(c, p) \in AllPlans /\ p \in AllPlans
    <3>1. Nesting \in 0..Nesting /\ Nesting > 0 /\ Nesting - 1 \in 0..Nesting
      BY NestingAssumption
    <3> QED BY <2>2, <3>1, PlanBuilt DEF AllPlans
  <2>4. PICK all : all = AllRows(t)
    OBVIOUS
  <2>5. Read(t, p).rows = all
    <3>1. p.k = "read"
      BY <2>2 DEF ReadTable
    <3>2. Read(t, p) = [rows |-> AllRows(t), wild |-> FALSE]
      BY <2>3, <3>1, ReadIs DEF Source
    <3> QED BY <2>4, <3>2
  <2>6. all \in Seq(Nat) /\ ToSet(all) = DOMAIN t.rows /\ IsInjective(all)
    <3>1. t.rows \in Seq(Seq((MinVal + 1)..(MaxVal - 1)))
      BY TablesAssumption
    <3>2. PICK N : N = Len(t.rows)
      OBVIOUS
    <3>3. N \in Nat /\ DOMAIN t.rows = 1..N
      BY <3>1, <3>2
    <3>4. all = [r \in 1..N |-> r]
      BY <2>4, <3>3 DEF AllRows
    <3>5. all \in Seq(Nat)
      BY <3>3, <3>4
    <3> QED BY <3>3, <3>4, <3>5 DEF ToSet, IsInjective
  <2>7. ToSet(Read(t, Filter(c, p)).rows) = ToSet(Read(t, p).rows) \cap Meeting(t, c)
    BY <2>3, <2>5, <2>6, FilterReads
  <2>8. IsInjective(Read(t, Filter(c, p)).rows)
    BY <2>3, <2>5, <2>6, FilterExact
  <2>9. Meeting(t, c) \subseteq DOMAIN t.rows
    BY DEF Meeting
  <2> QED BY <2>1, <2>2, <2>5, <2>6, <2>7, <2>8, <2>9 DEF Right
<1> QED BY <1>1, <1>2

-----------------------------------------------------------------------------
(* Queries answer exactly, but for the known defects. *)

ExactInv ==
  /\ PlanInv
  /\ stage = "planned" /\ OneColumnEach => Right(table, tree, plan)
  /\ ExactButForDefects

\* Every step keeps the plan right.
LEMMA ExactInvHolds ==
  ASSUME PlainIndexes
  PROVE  Spec => []ExactInv
<1>1. Init /\ PlanInv => ExactInv
  BY DEF Init, ExactInv, ExactButForDefects, Answered
<1>2. ExactInv /\ PlanInv' /\ [Next]_vars => ExactInv'
  <2> SUFFICES ASSUME ExactInv, PlanInv', [Next]_vars PROVE ExactInv'
    OBVIOUS
  <2>0. PICK t \in Tables : table = t /\ table' = t
    BY DEF Next, vars, ExactInv, PlanInv, ConditionInv
  <2>1. CASE optimizeTableReads
    <3>1. stage' = "planned" /\ plan' = TablePlan(t, tree) /\ tree' = tree /\ tree \in Conditions
      BY <2>0, <2>1 DEF optimizeTableReads, ExactInv, PlanInv, ConditionInv
    <3>2. OneColumnEach' => Right(t, tree, TablePlan(t, tree))
      <4>1. OneColumnEach' => OneColumn(t)
        BY <2>0 DEF OneColumnEach, OneColumn
      <4> QED BY <3>1, <4>1, TablePlanExact
    <3> QED BY <2>0, <3>1, <3>2 DEF ExactInv, ExactButForDefects, Answered
  <2>2. CASE Execute
    <3>1. /\ stage = "planned" /\ stage' = "answered" /\ answer' = Read(t, plan)
          /\ written' = written /\ tree' = tree /\ plan' = plan
      BY <2>0, <2>2 DEF Execute
    <3>2. SUFFICES ASSUME ~Read(t, plan).wild, ~OrInOr(written), OneColumnEach',
                          ~\E s \in Scans(plan) : RowsWithin(t, s) = {}, ~Slack(t, tree)
                   PROVE  Exact' \/ (ToSet(answer'.rows) = Matching' /\ ~OrsDisjoint(t, tree))
      BY <2>0, <3>1 DEF ExactInv, ExactButForDefects, Answered
    <3>3. Right(t, tree, plan)
      <4>1. OneColumnEach
        BY <2>0, <3>2 DEF OneColumnEach
      <4> QED BY <2>0, <3>1, <4>1 DEF ExactInv
    <3>4. /\ ToSet(Read(t, plan).rows) = Meeting(t, tree)
          /\ OrsDisjoint(t, tree) => IsInjective(Read(t, plan).rows)
      BY <3>2, <3>3 DEF Right
    <3>5. Meeting(t, tree) = Meeting(t, written)
      <4>1. \A row \in Seq(Int) : Holds(tree, row) = Holds(written, row)
        BY <3>2 DEF ExactInv, PlanInv, ConditionInv
      <4>2. \A r \in DOMAIN t.rows : t.rows[r] \in Seq(Int)
        BY <2>0, RowsAreIntegers
      <4> QED BY <4>1, <4>2 DEF Meeting
    <3> QED BY <2>0, <3>1, <3>4, <3>5 DEF Exact, Matching
  <2>3. CASE Query \/ optimizeConstants \/ optimizeConditions \/ CrashInErased \/ Done
    <3>1. stage' \in {"parsed", "folded", "flat", "crashed", "idle"}
      BY <2>3 DEF Query, optimizeConstants, optimizeConditions, CrashInErased, Done
    <3> QED BY <3>1 DEF ExactInv, ExactButForDefects, Answered
  <2>4. CASE UNCHANGED vars
    BY <2>4 DEF vars, ExactInv, ExactButForDefects, Answered, OneColumnEach, Exact, Matching
  <2> QED BY <2>1, <2>2, <2>3, <2>4 DEF Next
<1> QED BY <1>1, <1>2, PlanInvHolds, PTL DEF Spec

(* With plain indexes of one column, a query answers with the rows that meet    *)
(* its condition, each of them once, whatever the rows and the conditions:       *)
(* it answers wrongly only where the range of a scan is empty, where an AND      *)
(* bounds a column by one value with and then without the value, or, by          *)
(* repeating a row, where alternatives of an OR overlap.                         *)
THEOREM AnswersExact == PlainIndexes /\ Spec => []ExactButForDefects
<1> SUFFICES ASSUME PlainIndexes PROVE Spec => []ExactButForDefects
  OBVIOUS
<1>1. ExactInv => ExactButForDefects
  BY DEF ExactInv
<1> QED BY <1>1, ExactInvHolds, PTL
=============================================================================
