------------------------------- MODULE Scalars -------------------------------
(***************************************************************************)
(* The values, expressions and conditions of QueryTree.h and what            *)
(* ComputerVisitor and CondCheckerVisitor make of them for a row.            *)
(*                                                                          *)
(* Values are the numbers compareValue() orders them as: MinVal below Null  *)
(* below all others below MaxVal.  One function stands for the arithmetic    *)
(* ones.                                                                     *)
(***************************************************************************)
EXTENDS Integers, Sequences, SequencesExt, FiniteSetsExt

CONSTANT Nesting      \* how deep expressions and conditions are nested

ASSUME NestingAssumption == Nesting \in Nat \ {0}

MinVal == -102
Null == -101
MaxVal == 100
Undefined == -999     \* what is read where a row has no such column

Column(id) == [k |-> "column", id |-> id]
Const(v) == [k |-> "const", v |-> v]
Sum(x, y) == [k |-> "func", args |-> <<x, y>>]
Compare(left, cmp, right) == [k |-> "cmp", left |-> left, cmp |-> cmp, right |-> right]
And(cs) == [k |-> "and", children |-> cs]
Or(cs) == [k |-> "or", children |-> cs]

\* CompareConditionQNode's three flags as a set of signs.
Less == {-1}
Equal == {0}
Greater == {1}
LessOrEqual == {-1, 0}
GreaterOrEqual == {0, 1}
NotEqual == {-1, 1}
Orders == {Less, Equal, Greater, LessOrEqual, GreaterOrEqual, NotEqual}

compareValue(a, b) == IF a < b THEN -1 ELSE IF a > b THEN 1 ELSE 0

Field(row, i) == IF i \in DOMAIN row THEN row[i] ELSE Undefined

Plus(a, b) == IF Null \in {a, b} THEN Null ELSE a + b

\* The expressions and the conditions that are nested so deep.
TermsOf[n \in 0..Nesting] ==
  [k : {"const"}, v : Int] \cup [k : {"column"}, id : Nat]
    \cup (IF n = 0 THEN {} ELSE [k : {"func"}, args : TermsOf[n - 1] \X TermsOf[n - 1]])
Terms == TermsOf[Nesting]

ConditionsOf[n \in 0..Nesting] ==
  [k : {"cmp"}, left : Terms, cmp : Orders, right : Terms]
    \cup (IF n = 0 THEN {} ELSE [k : {"and", "or"}, children : Seq(ConditionsOf[n - 1])])
Conditions == ConditionsOf[Nesting]

Leaf(x, row) == IF x.k = "const" THEN x.v ELSE Field(row, x.id)
ValueOf(s, row) ==
  LET value[x \in Terms] ==
        IF x.k = "func" THEN Plus(value[x.args[1]], value[x.args[2]]) ELSE Leaf(x, row)
  IN value[s]

Compares(c, row) == compareValue(ValueOf(c.left, row), ValueOf(c.right, row)) \in c.cmp
Holds(c, row) ==
  LET holds[x \in Conditions] ==
        \/ x.k = "cmp" /\ Compares(x, row)
        \/ x.k = "and" /\ \A i \in DOMAIN x.children : holds[x.children[i]]
        \/ x.k = "or" /\ \E i \in DOMAIN x.children : holds[x.children[i]]
  IN holds[c]

IsConst(s) ==
  LET isConst[x \in Terms] ==
        x.k = "const" \/ (x.k = "func" /\ isConst[x.args[1]] /\ isConst[x.args[2]])
  IN isConst[s]
=============================================================================
