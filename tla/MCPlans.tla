------------------------------- MODULE MCPlans -------------------------------
(* Small tables, indexes and conditions for Plans. *)
EXTENDS Plans

TwoColumns == <<<<2, 3>>, <<1, 4>>, <<3, -1>>, <<2, 1>>, <<3, 2>>, <<1, 2>>>>
Composite == << <<1, 2>> >>
ById == <<<<2, 3>>, <<1, 4>>, <<4, Null>>, <<5, 1>>, <<3, 2>>>>
Primary == << <<1>> >>
OfSecond == << <<2>> >>

Comparisons(col, cmps, values) ==
  {Compare(Column(col), o, Const(v)) : o \in cmps, v \in values}
Backwards(col, cmps, values) ==
  {Compare(Const(v), o, Column(col)) : o \in cmps, v \in values}

\* Sums of constants, of a column and a constant, and of no value.
Sums == {Compare(Column(1), Less, Sum(Const(1), Const(2))),
         Compare(Sum(Column(1), Const(1)), Equal, Const(3)),
         Compare(Sum(Sum(Const(1), Const(1)), Column(2)), GreaterOrEqual, Const(5)),
         Compare(Column(2), Equal, Sum(Const(1), Const(Null)))}
A == Comparisons(1, Orders, {1, 2, 3})
B == Comparisons(2, {LessOrEqual, Equal, Greater}, {2, Null}) \cup Backwards(2, {Less}, {2})
Some == {Compare(Column(1), Equal, Const(2)), Compare(Const(2), GreaterOrEqual, Column(1))}
Atoms == A \cup B \cup Sums \cup Backwards(1, {Less, GreaterOrEqual}, {2})

\* Nested in every way the parser nests them.
Nested ==
  Atoms \cup {And(<<x, y>>) : x \in Atoms, y \in Atoms}
        \cup {Or(<<x, y>>) : x \in Atoms, y \in Atoms}
        \cup {And(<<x, y, z>>) : x \in B, y \in Some, z \in Atoms}
        \cup {And(<<x, And(<<y, z>>), Or(<<y, w>>)>>) : x \in B, y \in Some, z \in B, w \in B}
        \cup {And(<<x, Or(<<y, And(<<w, z>>)>>)>>) : x \in B, y \in Some, z \in A, w \in Some}
        \cup {Or(<<x, Or(<<y, z>>)>>) : x \in Some, y \in Some, z \in B}

\* Over a table with the unique ids 1 to 5: bounds with rows between them, and
\* alternatives that have no row in common.
Ids(cmps, values) == Comparisons(1, cmps, values)
Ranges == {And(<<x, y>>) : x \in Ids({Greater}, {1, 2}) \cup Ids({GreaterOrEqual}, {1, 2, 3}),
                           y \in Ids({Less}, {4, 5}) \cup Ids({LessOrEqual}, {3, 4})}
Single == Ids({Equal}, 1..5) \cup Ids({Less, LessOrEqual}, 2..5) \cup Ids({Greater}, 1..4)
            \cup Ids({GreaterOrEqual}, 1..5) \cup Backwards(1, {Less}, 1..4)
Disjoint == {Or(<<x, y>>) : x \in Ids({Equal}, {1, 2}),
                            y \in Ids({Equal}, {3, 5}) \cup Ids({Greater}, {3, 4})}
  \cup {Or(<<Compare(Column(1), Equal, Const(1)), And(<<x, y>>)>>) :
            x \in Ids({Greater}, {1, 2}), y \in Ids({Less}, {4, 5})}
Conditions5 == Single \cup Ranges \cup Disjoint
           \cup {And(<<b, x>>) : b \in B, x \in Single}
           \cup {And(<<b, b2, Or(<<x, y>>)>>) : b \in B, b2 \in B, x \in Ids({Equal}, {1}),
                                                y \in Ids({Equal}, {3}) \cup Ids({Greater}, {3})}
           \cup {Or(<<x, And(<<y, b>>)>>) : x \in Ids({Equal}, {1, 2}), y \in Ids({Greater}, {2, 3}), b \in B}
           \cup {Or(<<b, x>>) : b \in B, x \in Single}
           \cup {Or(<<b, Or(<<x, x>>)>>) : b \in B, x \in Single}

\* Bounded twice by one value; with the value and without it, or the other way round.
Twice == {And(<<x, y>>) : x \in Ids({GreaterOrEqual, Equal}, {2, 3}), y \in Ids({Greater}, {2, 3})}
  \cup {And(<<x, y>>) : x \in Ids({Less}, {3}), y \in Ids({LessOrEqual, Less}, {2, 3})}
  \cup {And(<<x, y>>) : x \in Ids({LessOrEqual}, {3}), y \in Ids({Less}, {3})}
Overlapping == {Or(<<x, y>>) : x \in Ids({Less}, {3}), y \in Ids({Equal}, {1, 2})}
Gaps == Ids({Equal}, {0}) \cup Ids({Less}, {1})
Strict == {And(<<x, y>>) : x \in Comparisons(2, {Less, Greater}, {2, 3}), y \in Ids({Equal}, {2})}
BySecond == Comparisons(2, {Less, LessOrEqual, Equal}, 1..4)
TooHigh == Ids({Equal}, {6})

\* The cells of an index: those of equal keys in the order of the rows.
Before(rows, columns, r, s) ==
  LET c == compareKeys(KeyOf(columns, rows[r]), KeyOf(columns, rows[s])) IN c < 0 \/ (c = 0 /\ r < s)
IndexOn(rows, columns) ==
  [columns |-> columns, kids |-> <<>>, nodes |-> <<>>,
   cells |-> SetToSortSeq(DOMAIN rows, LAMBDA r, s : Before(rows, columns, r, s))]
Table(rows, indexes, conditions) ==
  [rows |-> rows, indexes |-> [i \in DOMAIN indexes |-> IndexOn(rows, indexes[i])],
   conditions |-> conditions]
\* A root with the key 3 between two leaves.
TwoLeaves(conditions) ==
  [Table(ById, Primary, conditions) EXCEPT
     !.indexes[1] = [columns |-> <<1>>, cells |-> <<5>>, kids |-> <<1, 2>>,
                     nodes |-> <<[cells |-> <<2, 1>>, kids |-> <<>>],
                                 [cells |-> <<3, 4>>, kids |-> <<>>]>>]]
OneLeaf == {Table(TwoColumns, Composite, Nested),
            Table(ById, Primary, Conditions5 \cup Overlapping \cup Twice \cup Gaps \cup TooHigh)}
\* Scans that do not go from one leaf to the other are answered right.
Usual == OneLeaf \cup {TwoLeaves(Ids({Equal}, 1..5))}
Twices == {Table(ById, Primary, Twice)}
Overlaps == {Table(ById, Primary, Overlapping)}
Empty == {Table(ById, Primary, Gaps)}
High == {Table(ById, Primary, TooHigh)}
Repeated == {Table(TwoColumns, Primary, Single)}
Stricts == {Table(TwoColumns, Composite, Strict)}
Seconds == {Table(ById, OfSecond, BySecond)}
Leaves == {TwoLeaves(Single)}
NullKeys == {Table(<<<<Null, 1>>, <<-1, 2>>, <<2, 3>>, <<-2, 4>>>>, Primary,
                   Comparisons(1, {Less, Equal}, {-1, 0, Null}))}
NestedOrs == {Table(ById, Primary, Nested)}

\* The tables with an index of one leaf are what the theorems about NoRowLost and
\* ExactButForDefects are for.
ASSUME Premises == OneLeaf \subseteq Tables => \A t \in OneLeaf : Plain(t)
=============================================================================
