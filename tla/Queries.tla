------------------------------- MODULE Queries -------------------------------
(***************************************************************************)
(* SELECT: SelectNode::algebrize() makes the nodes of a query, with the      *)
(* numbers of the columns each of them reads from the one below, and         *)
(* Executor::execute() reads the rows out of the sequences of Iterators.     *)
(* What a query should answer is defined at the end, from the query alone.   *)
(*                                                                          *)
(* A query is a record: from (a table, a join or a query in parentheses),    *)
(* where (at most one condition), columns, groupBy (columns) and orderBy     *)
(* (places in columns, ascending or descending).                             *)
(***************************************************************************)
EXTENDS Iterators

CONSTANTS
  Selects,    \* the queries
  MaxRows     \* rows of an answer that are kept: more than any query should give

ASSUME MaxRowsAssumption == MaxRows \in Nat

VARIABLES
  stage,      \* how far the query has come
  query,
  sequence,   \* the sequence it is read from
  result      \* the rows read

vars == <<stage, query, sequence, result>>

Table(width, rows) == [k |-> "table", width |-> width, rows |-> rows]
JoinOf(joinType, left, right, on) ==
  [k |-> "join", joinType |-> joinType, left |-> left, right |-> right, on |-> on]
Asterisk == [k |-> "asterisk"]

Select(columns, from, where, groupBy, orderBy) ==
  [k |-> "select", columns |-> columns, from |-> from, where |-> where,
   groupBy |-> groupBy, orderBy |-> orderBy]

Aggrs(q) == SelectSeq(q.columns, LAMBDA c : c.k = "aggr")
Funcs(q) == SelectSeq(q.columns, LAMBDA c : c.k = "func")
IsGrouping(q) == q.groupBy # <<>> \/ Aggrs(q) # <<>>

-----------------------------------------------------------------------------
(* SelectNode::algebrize() *)

\* The place of a column of the source among those that grouping leaves.
PlaceIn(q, id) ==
  IF q.groupBy = <<>> THEN id ELSE Cardinality({g \in ToSet(q.groupBy) : g <= id})

RECURSIVE Placed(_, _)
Placed(q, e) ==
  CASE e.k = "column" -> Column(PlaceIn(q, e.id))
    [] e.k = "func" -> [e EXCEPT !.args = [i \in DOMAIN @ |-> Placed(q, @[i])]]
    [] OTHER -> e

\* algebrizeSelectCalcCounts(): where the results of the aggregate functions
\* start in the row that is projected, and those of the others.
SourceWidth(q, source) == Width(source)                                     \* mutant
columnCount(q, source) == IF IsGrouping(q) THEN Len(q.groupBy) ELSE Width(source)
funcIndex(q, source) == columnCount(q, source) + Len(Aggrs(q))
endIndex(q, source) == funcIndex(q, source) + Len(Funcs(q))

CountUpTo(q, i, kinds) == Cardinality({j \in 1..i : q.columns[j].k \in kinds})

\* algebrizeSelectProjection()
ProjectedColumns(q, source) ==
  FlattenSeq([i \in DOMAIN q.columns |->
    LET c == q.columns[i] IN
    CASE c.k = "asterisk" -> [id \in 1..Width(source) |-> id]
      [] c.k = "column" -> <<PlaceIn(q, c.id)>>
      [] c.k = "aggr" -> <<columnCount(q, source) + CountUpTo(q, i, {"aggr"})>>
      [] OTHER -> <<funcIndex(q, source) + CountUpTo(q, i, {"func", "const"})>>])

\* algebrizeSelectGroupBy(): a groupifier only sees that a group has ended when
\* the source is sorted by its columns.
Ungrouped(q, source) == source                                              \* mutant
SortedForGroups(q, source) ==
  IF q.groupBy = <<>> THEN source
  ELSE Sorter([i \in DOMAIN SetToSortSeq(ToSet(q.groupBy), <) |->
                 [column |-> SetToSortSeq(ToSet(q.groupBy), <)[i], desc |-> FALSE]], source)

GroupedSource(q, source) ==
  LET groups == Groupifier([i \in 1..Width(source) |-> i \in ToSet(q.groupBy)],
                           SortedForGroups(q, source))
  IN IF ~IsGrouping(q) THEN source
     ELSE Degroupifier((IF q.groupBy = <<>> THEN Width(source) ELSE Cardinality(ToSet(q.groupBy)))
                         + Len(Aggrs(q)),
                       IF Aggrs(q) = <<>> THEN groups ELSE AggrFuncProjection(Aggrs(q), groups))

\* algebrizeSelectOrderBy(): the expressions to sort by come after all others.
Ordering(q) == [n \in DOMAIN q.orderBy |-> q.columns[q.orderBy[n].column]]
OrderFuncs(q) == SelectSeq(Ordering(q), LAMBDA e : e.k = "func")

Ascending(desc) == FALSE                                                    \* mutant
Direction(desc) == desc
cmpPlan(q, source) ==
  [n \in DOMAIN q.orderBy |->
     [column |-> IF Ordering(q)[n].k = "column" THEN PlaceIn(q, Ordering(q)[n].id)
                 ELSE endIndex(q, source)
                        + Cardinality({m \in 1..n : Ordering(q)[m].k = "func"}),
      desc |-> Direction(q.orderBy[n].desc)]]

RECURSIVE Algebrized(_)
Algebrized(q) ==
  CASE q.k = "table" -> ReadTable(q.width, q.rows)
    [] q.k = "join" ->
         LET left == Algebrized(q.left) IN
         Join(q.joinType, q.on, left, Algebrized(q.right), Width(left))
    [] q.k = "select" ->
         LET from == Algebrized(q.from)
             source == IF q.where = <<>> THEN from ELSE Filter(Head(q.where), from)
             funcs == [i \in DOMAIN (Funcs(q) \o OrderFuncs(q)) |->
                         Placed(q, (Funcs(q) \o OrderFuncs(q))[i])]
             grouped == GroupedSource(q, source)
             computed == IF funcs = <<>> THEN grouped ELSE FuncProjection(funcs, grouped)
             ordered == IF q.orderBy = <<>> THEN computed ELSE Sorter(cmpPlan(q, source), computed)
         IN Projection(ProjectedColumns(q, source), ordered)

\* optimizeConstants() calls the condition of every join; a cross join has none.
RECURSIVE HasCrossJoin(_)
HasCrossJoin(q) ==
  CASE q.k = "table" -> FALSE
    [] q.k = "join" -> q.joinType = "cross" \/ HasCrossJoin(q.left) \/ HasCrossJoin(q.right)
    [] q.k = "select" -> HasCrossJoin(q.from)

-----------------------------------------------------------------------------
NoQuery == Table(0, <<>>)

Init ==
  /\ stage = "idle"
  /\ query = NoQuery
  /\ sequence = ReadTable(0, <<>>)
  /\ result = <<>>

Parse ==
  /\ stage = "idle"
  /\ stage' = "parsed"
  /\ query' \in Selects
  /\ UNCHANGED <<sequence, result>>

Prepare ==
  /\ stage = "parsed"
  /\ stage' = IF HasCrossJoin(query) THEN "crashed" ELSE "prepared"
  /\ sequence' = IF HasCrossJoin(query) THEN sequence ELSE Algebrized(query)
  /\ UNCHANGED <<query, result>>

Start ==
  /\ stage = "prepared"
  /\ stage' = "reading"
  /\ sequence' = reset(sequence)
  /\ UNCHANGED <<query, result>>

ReadRow ==
  /\ stage = "reading" /\ ~hasEnded(sequence)
  /\ result' = IF Len(result) < MaxRows THEN Append(result, Row(sequence)) ELSE result
  /\ sequence' = advance(sequence)
  /\ UNCHANGED <<stage, query>>

Finish ==
  /\ stage = "reading" /\ hasEnded(sequence)
  /\ stage' = "answered"
  /\ UNCHANGED <<query, sequence, result>>

Answer ==
  /\ stage = "answered"
  /\ stage' = "idle"
  /\ query' = NoQuery /\ sequence' = ReadTable(0, <<>>) /\ result' = <<>>

selectData == Start \/ ReadRow \/ Finish

Next == Parse \/ Prepare \/ selectData \/ Answer

Spec == Init /\ [][Next]_vars /\ WF_vars(selectData)

-----------------------------------------------------------------------------
(* What a query should answer, in any order. *)

Pairs(j, l, r) == j.joinType = "cross" \/ Holds(j.on, l \o r)

JoinedRows(j, left, right) ==
  LET ofLeft(l) == SelectSeq(right, LAMBDA r : Pairs(j, l, r))
      alone == SelectSeq(right, LAMBDA r : \A l \in ToSet(left) : ~Pairs(j, l, r))
  IN FlattenSeq([i \in DOMAIN left |->
                   IF ofLeft(left[i]) = <<>> /\ isLeftJoin(j)
                   THEN <<left[i] \o Nulls(Len(right[1]))>>
                   ELSE [n \in DOMAIN ofLeft(left[i]) |-> left[i] \o ofLeft(left[i])[n]]])
     \o (IF isRightJoin(j) THEN [n \in DOMAIN alone |-> Nulls(Len(left[1])) \o alone[n]] ELSE <<>>)

\* The values of a query's columns for a group of rows (of one row, if the query
\* does not group them).
Values(q, group) ==
  FlattenSeq([i \in DOMAIN q.columns |->
    LET c == q.columns[i] IN
    CASE c.k = "asterisk" -> group[1]
      [] c.k = "aggr" -> <<AggregateOf(c, group)>>
      [] OTHER -> <<ValueOf(c, group[1])>>])

SelectedRows(q, rows) ==
  LET key(r) == [i \in DOMAIN q.groupBy |-> r[q.groupBy[i]]]
      keys == SetToSeq({key(r) : r \in ToSet(rows)})
  IN IF q.groupBy # <<>>
     THEN [i \in DOMAIN keys |-> Values(q, SelectSeq(rows, LAMBDA r : key(r) = keys[i]))]
     ELSE IF IsGrouping(q) THEN <<Values(q, rows)>>
     ELSE [i \in DOMAIN rows |-> Values(q, <<rows[i]>>)]

RECURSIVE Expected(_)
Expected(q) ==
  CASE q.k = "table" -> q.rows
    [] q.k = "join" ->
         The({JoinedRows(q, l, r) : l \in {Expected(q.left)}, r \in {Expected(q.right)}})
    [] q.k = "select" ->
         The({SelectedRows(q, SelectSeq(rows, LAMBDA r : \A c \in ToSet(q.where) : Holds(c, r))) :
                rows \in {Expected(q.from)}})

Copies(s, r) == Cardinality({i \in DOMAIN s : s[i] = r})
HasAll(s, t) == \A r \in ToSet(t) : Copies(s, r) >= Copies(t, r)

RECURSIVE HasRightJoin(_)
HasRightJoin(q) ==
  CASE q.k = "table" -> FALSE
    [] q.k = "join" ->
         q.joinType \in {"right", "full"} \/ HasRightJoin(q.left) \/ HasRightJoin(q.right)
    [] q.k = "select" -> HasRightJoin(q.from)

(* No join, filter, group or projection on the way loses a row of the answer,  *)
(* whatever the sequences below have been reset and advanced to before.        *)
NothingLost ==
  stage = "answered" => \A expected \in {Expected(query)} : HasAll(result, expected)

(* The answer is what the query asks for, row for row, if there is no right or *)
(* full join in it.                                                            *)
AnswerExact ==
  stage = "answered" /\ ~HasRightJoin(query) =>
    \A expected \in {Expected(query)} : HasAll(result, expected) /\ HasAll(expected, result)

(* src/README.md:4, "all kinds of JOINs": the same with them.                  *)
AnyJoinExact ==
  stage = "answered" =>
    \A expected \in {Expected(query)} : HasAll(result, expected) /\ HasAll(expected, result)

(* The rows come in the order that was asked for, although grouping, functions *)
(* and projection renumber the columns the sorter compares.                    *)
InOrder ==
  stage = "answered" =>
    \A i \in 1..(Len(result) - 1) :
      LET signs == SelectSeq([n \in DOMAIN query.orderBy |->
                     LET o == query.orderBy[n]
                         c == compareValue(result[i][o.column], result[i + 1][o.column])
                     IN IF o.desc THEN -c ELSE c], LAMBDA c : c # 0)
      IN signs = <<>> \/ Head(signs) < 0

(* No step reads a row or a column that is not there, or divides by nothing.   *)
NothingUndefined ==
  /\ ~Wild(sequence)
  /\ \A r \in ToSet(result) : Undefined \notin ToSet(r)

(* src/README.md:4, "all kinds of JOINs": no query ends the program.           *)
NoCrash == stage # "crashed"

(* Every query is answered at last: the calls to advance() come to an end.     *)
Ends == stage = "prepared" ~> stage = "answered"
=============================================================================
