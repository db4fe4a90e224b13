------------------------------ MODULE Iterators ------------------------------
(***************************************************************************)
(* The data sequences of DataSequence.cpp and GroupDataSequence.cpp: each    *)
(* has a place in its sources, reset() and advance() move it, and get() is   *)
(* the row, or the group of rows, at it.  Executor::prepare() makes one for   *)
(* each node of a query.                                                     *)
(*                                                                          *)
(* A sequence is a record: the node it was made for and its members.  Tables *)
(* are their rows; columns count from 1.  CrossJoinDS is not here: no query  *)
(* with a cross join gets this far (see Queries).                            *)
(***************************************************************************)
EXTENDS Scalars

-----------------------------------------------------------------------------
(* The member of a set that has one, and an operator of a value that TLC works *)
(* out once, not wherever the operator's definition names it.                  *)
The(S) == CHOOSE x \in S : TRUE
With(Op(_), value) == The({Op(x) : x \in {value}})

(* The nodes, with their sources prepared. *)

ReadTable(width, rows) ==
  [k |-> "table", width |-> width, rows |-> rows, pos |-> 1, row |-> <<>>]
Filter(cond, source) == [k |-> "filter", cond |-> cond, source |-> source]
Projection(columns, source) == [k |-> "project", columns |-> columns, source |-> source]
FuncProjection(funcs, source) == [k |-> "compute", funcs |-> funcs, source |-> source]
Sorter(cmpPlan, source) ==
  [k |-> "sort", cmpPlan |-> cmpPlan, source |-> source,
   values |-> <<>>, index |-> 1, hasBeenReset |-> FALSE]
Groupifier(grouped, source) ==
  [k |-> "group", isGrouped |-> grouped, source |-> source, data |-> <<>>, ended |-> FALSE]
AggrFuncProjection(funcs, source) == [k |-> "aggregate", funcs |-> funcs, source |-> source]
Degroupifier(width, source) == [k |-> "degroup", width |-> width, source |-> source]

isLeftJoin(j) == j.joinType \in {"left", "full"}
isRightJoin(j) == j.joinType \in {"right", "full"}

Join(joinType, on, left, right, offset) ==
  [k |-> "join", joinType |-> joinType, on |-> on, left |-> left, right |-> right,
   offset |-> offset, leftData |-> <<>>, rightData |-> <<>>,
   noPair |-> TRUE, hasJustAddedNull |-> FALSE, rightNulls |-> <<>>, rightIndex |-> 0,
   isFillingRight |-> joinType \in {"right", "full"}, rightNullWalk |-> FALSE,
   wild |-> FALSE]                     \* it has read a row that is not there

RECURSIVE Width(_)
Width(s) ==
  CASE s.k \in {"table", "degroup"} -> s.width
    [] s.k \in {"filter", "sort", "group"} -> Width(s.source)
    [] s.k = "project" -> Len(s.columns)
    [] s.k \in {"compute", "aggregate"} -> Width(s.source) + Len(s.funcs)
    [] s.k = "join" -> s.offset + Width(s.right)

-----------------------------------------------------------------------------
(* Aggregate functions over a group. *)

Aggr(name, child) == [k |-> "aggr", name |-> name, child |-> child]

Total(values) == FoldLeft(LAMBDA a, v : a + v, 0, values)

ResultOf(name, values) ==
  CASE name = "COUNT" -> Len(values)
    [] name = "SUM" -> Total(values)
    [] name = "AVG" -> IF values = <<>> THEN Undefined ELSE Total(values) \div Len(values)
    [] name = "MIN" -> IF values = <<>> THEN Null ELSE Min(ToSet(values))
    [] name = "MAX" -> IF values = <<>> THEN Null ELSE Max(ToSet(values))
AggregateOf(f, group) ==
  ResultOf(f.name, SelectSeq([i \in DOMAIN group |-> ValueOf(f.child, group[i])], LAMBDA v : v # Null))

-----------------------------------------------------------------------------
(* get() and hasEnded() *)

RECURSIVE hasEnded(_)
hasEnded(s) ==
  CASE s.k = "table" -> s.pos > Len(s.rows)
    [] s.k = "sort" -> s.index > Len(s.values)
    [] s.k = "group" -> s.ended
    [] s.k = "join" -> hasEnded(s.left) /\ ~s.rightNullWalk
    [] OTHER -> hasEnded(s.source)

Nulls(n) == [i \in 1..n |-> Null]

WithResults(group, width, results) ==
  IF group = <<>> THEN <<Nulls(width) \o results>> ELSE [group EXCEPT ![1] = @ \o results]
Group(s) ==
  IF s.k = "group" THEN s.data
  ELSE WithResults(s.source.data, Width(s.source),
                   [i \in DOMAIN s.funcs |-> AggregateOf(s.funcs[i], s.source.data)])

isGrouped(s) ==
  IF s.k = "group" THEN s.isGrouped ELSE s.source.isGrouped \o [i \in DOMAIN s.funcs |-> TRUE]

\* What each sequence makes of a row of its source, or of a group of them.
Projected(s, row) == [i \in DOMAIN s.columns |-> Field(row, s.columns[i])]
Computed(s, source) == FoldLeft(LAMBDA row, f : Append(row, ValueOf(f, row)), source, s.funcs)

GroupedColumns(flags) == SelectSeq([i \in DOMAIN flags |-> i], LAMBDA i : flags[i])
FirstOf(group) == IF group = <<>> THEN <<>> ELSE group[1]
TakenFrom(row, columns, width) ==
  [i \in 1..width |-> IF i \in DOMAIN columns THEN Field(row, columns[i]) ELSE Null]
Degrouped(s) ==
  With(LAMBDA first : TakenFrom(first, GroupedColumns(isGrouped(s.source)), s.width),
       With(FirstOf, Group(s.source)))

RECURSIVE Row(_)
Row(s) ==
  CASE s.k = "table" -> s.row
    [] s.k = "filter" -> Row(s.source)
    [] s.k = "project" -> Projected(s, Row(s.source))
    [] s.k = "compute" -> Computed(s, Row(s.source))
    [] s.k = "sort" -> Field(s.values, s.index)
    [] s.k = "join" -> s.leftData \o s.rightData
    [] s.k = "degroup" -> Degrouped(s)

-----------------------------------------------------------------------------
(* The steps of CondJoinDS that only change its own members. *)

\* update(false) and update(true)
update(j) ==
  With(LAMBDA row : [j EXCEPT !.rightData = IF row = <<>> THEN @ ELSE row], Row(j.right))
LeftKept(j, row) ==                                                         \* mutant
  [j EXCEPT !.leftData = [i \in 1..j.offset |-> Field(row, i)], !.wild = @ \/ row = <<>>]
WithLeft(j, row) ==
  [j EXCEPT !.leftData = [i \in 1..j.offset |-> Field(row, i)], !.wild = @ \/ row = <<>>,
            !.noPair = TRUE]
updateLeft(j) == update(With(LAMBDA row : WithLeft(j, row), Row(j.left)))

Filling(j) == [j EXCEPT !.rightNulls = IF j.isFillingRight THEN Append(@, TRUE) ELSE @]

updateLeftNull(j) ==
  [j EXCEPT !.rightData = Nulls(Len(@)), !.noPair = FALSE, !.hasJustAddedNull = TRUE]

\* sort(): rows that compare equal may come in any order, here in their own.
SortedAs(values, cmpPlan) ==
  LET signs(i, j) == SelectSeq(
        [n \in DOMAIN cmpPlan |->
           LET c == compareValue(Field(values[i], cmpPlan[n].column), Field(values[j], cmpPlan[n].column))
           IN IF cmpPlan[n].desc THEN -c ELSE c], LAMBDA c : c # 0)
      before(i, j) == IF signs(i, j) = <<>> THEN i < j ELSE Head(signs(i, j)) < 0
      order == SetToSortSeq(DOMAIN values, before)
  IN [i \in DOMAIN order |-> values[order[i]]]

-----------------------------------------------------------------------------
(* reset() and advance() *)

RECURSIVE reset(_), advance(_), FilterUpdate(_), GroupUpdate(_), AllRows(_),
          rightNullStep(_), skipToNext(_)

FilterUpdate(s) ==
  IF hasEnded(s.source) \/ Holds(s.cond, Row(s.source)) THEN s
  ELSE With(FilterUpdate, [s EXCEPT !.source = advance(@)])

SameGroup(s) ==
  \A i \in DOMAIN s.isGrouped :
    s.isGrouped[i] => Field(Row(s.source), i) = Field(Last(s.data), i)
GroupUpdate(s) ==
  IF hasEnded(s.source) THEN s
  ELSE IF s.data # <<>> /\ ~SameGroup(s) THEN s
  ELSE With(GroupUpdate, [s EXCEPT !.data = Append(@, Row(s.source)), !.source = advance(@)])

\* What is left of a sequence, as a sorter collects it.
AllRows(s) == IF hasEnded(s) THEN <<>> ELSE <<Row(s)>> \o With(AllRows, advance(s))

NeverStops(j) ==                                                            \* mutant
  IF hasEnded(j.right) THEN j
  ELSE IF j.rightNulls[j.rightIndex + 1] THEN update(j)
  ELSE With(rightNullStep, [j EXCEPT !.right = advance(@), !.rightIndex = @ + 1])
rightNullStep(j) ==
  IF hasEnded(j.right) THEN [j EXCEPT !.rightNullWalk = FALSE]
  ELSE IF j.rightNulls[j.rightIndex + 1] THEN update(j)
  ELSE With(rightNullStep, [j EXCEPT !.right = advance(@), !.rightIndex = @ + 1])

\* The left sequence has ended: the walk over the rows of the right one that
\* had no pair, if the join is one that has them.
StartNullWalk(j) ==
  IF isRightJoin(j)
  THEN With(rightNullStep, [j EXCEPT !.rightNullWalk = TRUE, !.hasJustAddedNull = FALSE,
                                      !.leftData = Nulls(j.offset), !.rightIndex = 0])
  ELSE [j EXCEPT !.hasJustAddedNull = FALSE]

NextLeft(j) ==
  IF hasEnded(j.left) THEN StartNullWalk(j)
  ELSE updateLeft(IF j.hasJustAddedNull THEN [j EXCEPT !.hasJustAddedNull = FALSE]
                  ELSE [j EXCEPT !.isFillingRight = FALSE, !.rightIndex = 0])

\* After the step of the right sequence; rightAgain is what reset() makes of it.
RightAdvanced(j, rightAgain) ==
  IF ~j.hasJustAddedNull /\ ~hasEnded(j.right)
  THEN Filling(update([j EXCEPT !.rightIndex = @ + 1]))
  ELSE IF ~j.hasJustAddedNull /\ j.noPair /\ isLeftJoin(j)
  THEN updateLeftNull([j EXCEPT !.right = rightAgain, !.rightIndex = 0])
  ELSE With(NextLeft, [j EXCEPT !.left = advance(@),
                                !.right = IF j.hasJustAddedNull THEN @ ELSE rightAgain])

crossStep(j) ==
  With(LAMBDA next : RightAdvanced(next, reset(next.right)),
       IF j.hasJustAddedNull THEN j ELSE [j EXCEPT !.right = advance(@)])

PastLeft(j) == hasEnded(j.left) /\ (~isLeftJoin(j) \/ ~j.noPair)

skipToNext(j) ==
  IF PastLeft(j) \/ hasEnded(j.right) THEN j
  ELSE IF Holds(j.on, Row(j))
  THEN [j EXCEPT !.noPair = FALSE,
                 !.rightNulls = IF isRightJoin(j) THEN [@ EXCEPT ![j.rightIndex + 1] = FALSE] ELSE @]
  ELSE With(LAMBDA next : IF next.hasJustAddedNull THEN next ELSE skipToNext(next), crossStep(j))

tableReset(s) == [s EXCEPT !.pos = 1, !.row = IF s.rows = <<>> THEN @ ELSE s.rows[1]]
tableAdvance(s) ==
  IF s.pos > Len(s.rows) THEN s
  ELSE [s EXCEPT !.pos = @ + 1, !.row = IF s.pos < Len(s.rows) THEN s.rows[s.pos + 1] ELSE <<>>]

sorterReset(s) ==
  IF s.hasBeenReset THEN [s EXCEPT !.index = 1]
  ELSE [s EXCEPT !.hasBeenReset = TRUE, !.index = 1,
                 !.values = With(LAMBDA rows : SortedAs(rows, s.cmpPlan), With(AllRows, reset(s.source)))]
sorterAdvance(s) == [s EXCEPT !.index = Min({@ + 1, Len(s.values) + 1})]

groupReset(s) == With(GroupUpdate, [s EXCEPT !.source = reset(@), !.data = <<>>, !.ended = FALSE])
groupAdvance(s) ==
  IF hasEnded(s.source) THEN [s EXCEPT !.data = <<>>, !.ended = TRUE]
  ELSE With(GroupUpdate, [s EXCEPT !.data = <<>>])

joinReset(s) ==
  With(LAMBDA j : IF hasEnded(j) THEN j ELSE With(skipToNext, Filling(j)),
       updateLeft([s EXCEPT !.left = reset(@), !.right = reset(@),
                            !.rightData = IF @ = <<>> THEN Nulls(Width(s.right)) ELSE @]))
joinAdvance(s) ==
  IF PastLeft(s)
  THEN IF isRightJoin(s) /\ hasEnded(s.left)
       THEN With(rightNullStep, [s EXCEPT !.right = advance(@)]) ELSE s
  ELSE IF hasEnded(s.right) THEN s ELSE With(skipToNext, crossStep(s))

\* The other sequences hand both on to their source.
reset(s) ==
  CASE s.k = "table" -> tableReset(s)
    [] s.k = "filter" -> With(FilterUpdate, [s EXCEPT !.source = reset(@)])
    [] s.k = "sort" -> sorterReset(s)
    [] s.k = "group" -> groupReset(s)
    [] s.k = "join" -> joinReset(s)
    [] OTHER -> [s EXCEPT !.source = reset(@)]

advance(s) ==
  CASE s.k = "table" -> tableAdvance(s)
    [] s.k = "filter" -> With(FilterUpdate, [s EXCEPT !.source = advance(@)])
    [] s.k = "sort" -> sorterAdvance(s)
    [] s.k = "group" -> groupAdvance(s)
    [] s.k = "join" -> joinAdvance(s)
    [] OTHER -> [s EXCEPT !.source = advance(@)]

\* A join has read a row that is not there, or a column of an empty group is
\* asked for.
RECURSIVE Wild(_)
Wild(s) ==
  CASE s.k = "table" -> FALSE
    [] s.k = "join" -> s.wild \/ Wild(s.left) \/ Wild(s.right)
    [] s.k = "degroup" -> Wild(s.source) \/ (~hasEnded(s) /\ Group(s.source) = <<>>)
    [] OTHER -> Wild(s.source)
=============================================================================
