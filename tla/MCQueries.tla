------------------------------ MODULE MCQueries ------------------------------
(* Small tables and queries over them for Queries. *)
EXTENDS Queries

\* Two columns each; with rows that have a partner, several or none.
Lefts == {<<<<1, 2>>>>, <<<<3, 1>>, <<1, 2>>>>, <<<<1, 2>>, <<3, Null>>, <<2, 2>>>>,
          <<<<2, 1>>, <<2, 3>>, <<1, Null>>>>}
Rights == {<<<<3>>>>, <<<<1>>, <<2>>>>, <<<<4>>, <<1>>, <<2>>>>, <<<<2>>, <<1>>, <<2>>>>,
           <<<<2>>, <<5>>, <<1>>, <<4>>>>}

Left(rows) == Table(2, rows)
Right(rows) == Table(1, rows)
Everything == <<Asterisk>>

OnFirst == Compare(Column(1), Equal, Column(3))
OnSecond == Compare(Column(3), LessOrEqual, Column(2))
Ons == {OnFirst, OnSecond}

Joins(types, lefts, rights) ==
  {JoinOf(t, l, r, on) : t \in types, l \in lefts, r \in rights, on \in Ons}
LeftTables == {Left(l) : l \in Lefts}
RightTables == {Right(r) : r \in Rights}

\* A right side that is a query, read from its start again and again: sorted,
\* filtered, grouped or joined.
SubQueries ==
  {Select(<<Column(1)>>, r, <<Compare(Column(1), Less, Const(4))>>, <<>>, <<[column |-> 1, desc |-> TRUE]>>) :
     r \in {Right(<<<<4>>, <<1>>, <<2>>>>), Right(<<<<2>>, <<1>>, <<2>>>>)}}
  \cup {Select(<<Aggr("COUNT", Column(1))>>, l, <<>>, <<2>>, <<>>) : l \in LeftTables}
  \cup {Select(<<Column(3)>>, JoinOf("left", l, Right(<<<<1>>, <<2>>>>), OnFirst), <<>>, <<>>, <<>>) :
          l \in LeftTables}

All(from) == Select(Everything, from, <<>>, <<>>, <<>>)
Chained == {JoinOf(t, JoinOf(u, l, Right(<<<<1>>, <<2>>>>), OnFirst), Right(<<<<2>>, <<3>>>>),
                   Compare(Column(4), Greater, Column(3))) :
              t \in {"inner", "left"}, u \in {"inner", "left"}, l \in LeftTables}
JoinQueries ==
  {All(j) : j \in Joins({"inner", "left", "right", "full"}, LeftTables, RightTables)
                    \cup Joins({"inner", "left"}, LeftTables, SubQueries)
                    \cup {c \in Chained : c.left.joinType = "left" \/ Len(c.left.left.rows) > 1}}

\* One table of two columns, grouped, computed and sorted in every combination.
Wheres == {<<>>, <<Compare(Column(2), Greater, Const(1))>>, <<Compare(Column(1), Equal, Const(7))>>}
Sortings == {<<>>, <<[column |-> 1, desc |-> TRUE]>>,
           <<[column |-> 2, desc |-> FALSE], [column |-> 1, desc |-> TRUE]>>}
Plus1(c) == Sum(Column(c), Const(1))
FourRows == <<<<2, 1>>, <<1, 3>>, <<2, Null>>, <<1, 3>>>>
PlainSelects ==
  {Select(cs, Left(FourRows), w, <<>>, o) :
     cs \in {<<Column(2), Column(1)>>, <<Plus1(1), Plus1(2)>>, <<Column(1), Plus1(2), Column(2)>>},
     w \in Wheres, o \in Sortings}
GroupSelects ==
  {Select(<<Column(g), Plus1(g), Aggr(a, Column(3 - g)), Aggr("COUNT", Column(1))>>,
          Left(FourRows), w, <<g>>, o) :
     g \in {1, 2}, a \in {"SUM", "MIN", "MAX", "COUNT"}, w \in {<<>>, <<Compare(Column(2), Greater, Const(1))>>},
     o \in Sortings}
  \cup {Select(<<Column(2), Column(1), Aggr("AVG", Sum(Const(2), Const(2)))>>, Left(FourRows), <<>>, <<2, 1>>, o) :
          o \in Sortings}
WholeSelects ==
  {Select(<<Aggr(a, Column(2)), Aggr("COUNT", Column(1))>>, Left(FourRows), w, <<>>, <<>>) :
     a \in {"SUM", "MIN", "MAX"}, w \in Wheres}
OneTable == PlainSelects \cup GroupSelects \cup WholeSelects
Usual == JoinQueries \cup OneTable

RightJoins == {All(j) : j \in Joins({"right", "full"}, LeftTables, RightTables)}
CrossJoins == {All(JoinOf("cross", l, r, And(<<>>))) : l \in LeftTables, r \in RightTables}
EmptyRight == {All(j) : j \in Joins({"inner"}, {Left(<<<<1, 2>>>>)}, {Right(<<>>)})}
EmptyLeft == {All(j) : j \in Joins({"left"}, {Left(<<>>)}, RightTables)}
EmptyGroup == {Select(<<Column(1), Aggr("COUNT", Column(2))>>, Left(<<>>), <<>>, <<1>>, <<>>)}
AverageOfNone == {Select(<<Aggr("AVG", Column(2))>>, Left(<<<<1, Null>>>>), <<>>, <<>>, <<>>)}
TwiceGrouped == {Select(<<Column(1), Aggr("COUNT", Column(2))>>, Left(FourRows), <<>>, <<1, 1>>, <<>>)}
Constants == {Select(<<Column(1), Const(5)>>, Left(FourRows), <<>>, <<>>, <<>>)}
WholeAndFunction == {Select(<<Aggr("COUNT", Column(1)), Sum(Const(1), Const(1))>>, Left(FourRows), <<>>, <<>>, <<>>)}
=============================================================================
