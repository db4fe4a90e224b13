-------------------------------- MODULE Plans --------------------------------
(***************************************************************************)
(* How a WHERE condition over one table becomes a way to read the table:    *)
(* ConstantOptimizer.cpp computes the constant expressions,                 *)
(* ConditionOptimizer.cpp takes nested ANDs and ORs apart,                  *)
(* TableReadOptimizer.cpp replaces the scan of the table by scans of its    *)
(* indexes, and the sequences of DataSequence.cpp read the rows.            *)
(*                                                                          *)
(* An index is a tree as IndexFile leaves it: a leaf, or inner nodes whose   *)
(* cells are keys too and lie between those of their children.              *)
(***************************************************************************)
EXTENDS Scalars

CONSTANT Tables   \* each a record: rows, a row for each record id; indexes in the
                  \* order of their ids, each its columns, the record ids in the
                  \* cells of its root, the children of the root, and the nodes
                  \* below; and conditions, those of the queries, as the parser
                  \* builds them

VARIABLES
  table,     \* one of Tables
  stage,     \* how far the query has come
  written,   \* its condition as it was written
  tree,      \* and as the optimizers have left it
  plan,      \* how the rows are read
  answer     \* [rows, wild]: their record ids; whether a scan left the index

vars == <<table, stage, written, tree, plan, answer>>

-----------------------------------------------------------------------------
(* optimizeConstants() *)

Computable(s) == s.k = "func" /\ IsConst(s)

Folded(s) ==
  LET folded[x \in Terms] ==
        IF Computable(x) THEN Const(ValueOf(x, <<>>))
        ELSE IF x.k = "func" THEN Sum(folded[x.args[1]], folded[x.args[2]]) ELSE x
  IN folded[s]

Node(kind, children) == [k |-> kind, children |-> children]

WithConstants(c) ==
  LET with[x \in Conditions] ==
        IF x.k = "cmp" THEN Compare(Folded(x.left), x.cmp, Folded(x.right))
        ELSE Node(x.k, [i \in DOMAIN x.children |-> with[x.children[i]]])
  IN with[c]

-----------------------------------------------------------------------------
(* optimizeConditions(): the children of a nested node go to the end of the   *)
(* list of its parent.  Those of an OR in an OR are read after the node has   *)
(* been erased: its vector is empty by then, or the program crashes.          *)

\* The members of a sequence that are in S.
Kept(s, S) ==
  LET kept[n \in 0..Len(s)] ==
        IF n = 0 THEN <<>>
        ELSE IF s[n] \in S THEN Append(kept[n - 1], s[n]) ELSE kept[n - 1]
  IN kept[Len(s)]

FirstOfNested(c) == [c EXCEPT !.children =                                  \* mutant
  [i \in DOMAIN @ |-> IF @[i].k = c.k THEN Head(@[i].children) ELSE @[i]]]
TakenApart(c) ==
  LET nested == {x \in ToSet(c.children) : x.k = c.k}
      same == Kept(c.children, nested)
      others == Kept(c.children, ToSet(c.children) \ nested)
  IN IF c.k = "or" THEN Or(others)
     ELSE And(others \o FlattenSeq([i \in DOMAIN same |-> same[i].children]))

Flattened(c) ==
  LET flat[x \in Conditions] ==
        IF x.k = "cmp" THEN x
        ELSE TakenApart(Node(x.k, [i \in DOMAIN x.children |-> flat[x.children[i]]]))
  IN flat[c]

OrInOr(c) ==
  LET has[x \in Conditions] ==
        x.k # "cmp" /\ \E i \in DOMAIN x.children :
                         has[x.children[i]] \/ (x.k = "or" /\ x.children[i].k = "or")
  IN has[c]

-----------------------------------------------------------------------------
(* optimizeTableReads() *)

ReadTable == [k |-> "read"]
Filter(c, source) == [k |-> "filter", cond |-> c, source |-> source]
Union(sources) == [k |-> "union", sources |-> sources]
NoPlan == [k |-> "none"]

fitsWith(c, col) ==
  /\ c.k = "cmp"
  /\ c.cmp # NotEqual
  /\ {c.left.k, c.right.k} = {"const", "column"}
  /\ col = IF c.left.k = "column" THEN c.left.id ELSE c.right.id

\* The comparison as one of the column with the constant.
Unreversed(c) == c.cmp                                                      \* mutant
Facing(c) == IF c.left.k = "const" THEN {-x : x \in c.cmp} ELSE c.cmp
Bound(c) == IF c.left.k = "const" THEN c.left.v ELSE c.right.v

Usable(t, cs) ==
  {i \in DOMAIN t.indexes : \E c \in cs : fitsWith(c, t.indexes[i].columns[1])}

\* How many leading fields of an index the children bound: a further one as
\* long as the one before it is bound by an equality.
BoundFields(cs, columns) ==
  Max({f \in 1..Len(columns) :
         \A g \in 1..(f - 1) : \E c \in cs : fitsWith(c, columns[g]) /\ c.cmp = Equal})

FieldsOf(c, cs, columns) == {f \in 1..BoundFields(cs, columns) : fitsWith(c, columns[f])}

NoBounds(columns) ==
  [from |-> [f \in DOMAIN columns |-> MinVal], to |-> [f \in DOMAIN columns |-> MaxVal],
   incFrom |-> FALSE, incTo |-> FALSE]

Narrowed(b, c, f) ==
  LET v == Bound(c)
      signs == Facing(c)
      raise == (1 \in signs \/ signs = Equal) /\ compareValue(b.from[f], v) < 0
      lower == (-1 \in signs \/ signs = Equal) /\ compareValue(b.to[f], v) > 0
  IN [from |-> IF raise THEN [b.from EXCEPT ![f] = v] ELSE b.from,
      incFrom |-> IF raise THEN 0 \in signs ELSE b.incFrom,
      to |-> IF lower THEN [b.to EXCEPT ![f] = v] ELSE b.to,
      incTo |-> IF lower THEN 0 \in signs ELSE b.incTo]

\* The bounds of the scan of an index for a list of conditions, of which those
\* that bound none of its fields have no part in it.
BoundsFor(cs, columns) ==
  LET bounds[n \in 0..Len(cs)] ==
        IF n = 0 THEN NoBounds(columns)
        ELSE LET fields == FieldsOf(cs[n], ToSet(cs), columns)
             IN IF fields = {} THEN bounds[n - 1]
                ELSE Narrowed(bounds[n - 1], cs[n], CHOOSE f \in fields : TRUE)
  IN bounds[Len(cs)]
IndexScan(t, i, cs) ==
  [k |-> "scan", index |-> i, bounds |-> BoundsFor(cs, t.indexes[i].columns)]

Filtered(rest, source) ==
  CASE Len(rest) = 0 -> source
    [] Len(rest) = 1 -> Filter(rest[1], source)
    [] OTHER -> Filter(And(rest), source)

Unbound(t, cs, i) ==
  {x \in ToSet(cs) : FieldsOf(x, ToSet(cs), t.indexes[i].columns) = {}}
indexifyAnd(t, cs, i) == Filtered(Kept(cs, Unbound(t, cs, i)), IndexScan(t, i, cs))

\* The first OR that can be read from indexes, given what becomes of the children.
Readable(cs, plans) == {i \in DOMAIN cs : cs[i].k = "or" /\ plans[i] # NoPlan}
filterifyAnd(cs, plans) ==
  LET i == Min(Readable(cs, plans)) IN Filter(And(RemoveAt(cs, i)), plans[i])

visitCompareConditionQNode(t, c) ==
  IF Usable(t, {c}) = {} THEN NoPlan ELSE IndexScan(t, Min(Usable(t, {c})), <<c>>)
visitAndConditionQNode(t, cs, plans) ==
  IF Usable(t, ToSet(cs)) # {} THEN indexifyAnd(t, cs, Min(Usable(t, ToSet(cs))))
  ELSE IF Readable(cs, plans) # {} THEN filterifyAnd(cs, plans) ELSE NoPlan
visitOrConditionQNode(plans) == IF NoPlan \in ToSet(plans) THEN NoPlan ELSE Union(plans)

PlanFor(t, c) ==
  LET planned[x \in Conditions] ==
        LET plans == [i \in DOMAIN x.children |-> planned[x.children[i]]] IN
        IF x.k = "cmp" THEN visitCompareConditionQNode(t, x)
        ELSE IF x.k = "and" THEN visitAndConditionQNode(t, x.children, plans)
        ELSE visitOrConditionQNode(plans)
  IN planned[c]

TablePlan(t, c) ==
  LET p == PlanFor(t, c) IN IF p = NoPlan THEN Filter(c, ReadTable) ELSE p

-----------------------------------------------------------------------------
(* Reading the rows. *)

\* encode() leaves the bytes of a NULL zero, and keys are compared by their bytes
\* alone, without the null bits.
Stored(v) == IF v = Null THEN 0 ELSE v
KeyOf(columns, row) == [f \in DOMAIN columns |-> Stored(row[columns[f]])]

\* Schema::compare(): the first difference in places that both have.
compareKeys(a, b) ==
  LET differ == {f \in DOMAIN a : a[f] # b[f]} IN
  IF differ = {} THEN 0 ELSE compareValue(a[Min(differ)], b[Min(differ)])

\* Node 0 is the root; a leaf has no kids, an inner node one more than cells.
NodeOf(index, id) == IF id = 0 THEN index ELSE index.nodes[id]
CellsBelow(index) ==
  LET cells[id \in 0..Len(index.nodes)] ==
        LET node == NodeOf(index, id)
        IN IF node.kids = <<>> THEN node.cells
           ELSE FlattenSeq([k \in DOMAIN node.kids |->
                  (IF k = 1 THEN <<>> ELSE <<node.cells[k - 1]>>) \o cells[node.kids[k]]])
  IN cells[0]
InOrder(index) == IF index.kids = <<>> THEN index.cells ELSE CellsBelow(index)

\* An index has a cell for every row, in the order of their keys.
Listing(s, S) == ToSet(s) = S /\ \A m, n \in DOMAIN s : s[m] = s[n] => m = n
Sorted(rows, columns, s) ==
  \A m, n \in DOMAIN s : m < n =>
    compareKeys(KeyOf(columns, rows[s[m]]), KeyOf(columns, rows[s[n]])) <= 0
Trees == [columns : Seq(Nat), cells : Seq(Nat), kids : Seq(Nat),
          nodes : Seq([cells : Seq(Nat), kids : Seq(Nat)])]
Treelike(index) ==
  /\ \A id \in 0..Len(index.nodes) :
       LET node == NodeOf(index, id)
       IN \/ node.kids = <<>>
          \/ Len(node.kids) = Len(node.cells) + 1 /\ ToSet(node.kids) \subseteq (id + 1)..Len(index.nodes)
  /\ \A id \in 1..Len(index.nodes) : index.nodes[id].cells # <<>>

ASSUME TablesAssumption == \A t \in Tables :
  /\ t.rows \in Seq(Seq((MinVal + 1)..(MaxVal - 1)))
  /\ t.conditions \subseteq Conditions
  /\ t.indexes \in Seq(Trees)
  /\ \A i \in DOMAIN t.indexes :
       /\ t.indexes[i].columns # <<>>
       /\ \A r \in DOMAIN t.rows : ToSet(t.indexes[i].columns) \subseteq DOMAIN t.rows[r]
       /\ Treelike(t.indexes[i])
       /\ Listing(InOrder(t.indexes[i]), DOMAIN t.rows)
       /\ Sorted(t.rows, t.indexes[i].columns, InOrder(t.indexes[i]))

\* binarySearch() over the cells of a node finds some cell that has the key, or
\* the place where it would be; its loop ends where the two meet.
KeyAt(t, i, id, n) == KeyOf(t.indexes[i].columns, t.rows[NodeOf(t.indexes[i], id).cells[n]])
Halved(t, i, id, key, p) ==
  LET mid == p.left + (p.right - p.left) \div 2
      result == compareKeys(key, KeyAt(t, i, id, mid + 1))
  IN CASE result = 0 -> [left |-> mid, right |-> mid]
       [] result < 0 -> [left |-> p.left, right |-> mid]
       [] result > 0 -> [left |-> mid + 1, right |-> p.right]
SlotOf(t, i, id, key) ==
  LET size == Len(NodeOf(t.indexes[i], id).cells)
      at[n \in 0..size] ==
        IF n = 0 THEN [left |-> 0, right |-> size]
        ELSE IF at[n - 1].left = at[n - 1].right THEN at[n - 1]
        ELSE Halved(t, i, id, key, at[n - 1])
  IN at[size].right

\* getIterator(): the nodes from the root down to a cell with the key or to a
\* leaf, in each the slot that was found.
At(id, slot) == [id |-> id, slot |-> slot]
NodeAt(index, path) == NodeOf(index, Last(path).id)
IsLeaf(index, path) == NodeAt(index, path).kids = <<>>
Descended(t, i, key, path) ==
  LET index == t.indexes[i]
      slot == Last(path).slot
      found == /\ slot < Len(NodeAt(index, path).cells)
               /\ compareKeys(key, KeyAt(t, i, Last(path).id, slot + 1)) = 0
      kid == NodeAt(index, path).kids[slot + 1]
  IN IF IsLeaf(index, path) \/ found THEN path ELSE Append(path, At(kid, SlotOf(t, i, kid, key)))
getIterator(t, i, key) ==
  LET path[n \in 0..Len(t.indexes[i].nodes)] ==
        IF n = 0 THEN <<At(0, SlotOf(t, i, 0, key))>> ELSE Descended(t, i, key, path[n - 1])
  IN path[Len(t.indexes[i].nodes)]
PastEnd(index, path) == IsLeaf(index, path) /\ Last(path).slot = Len(NodeAt(index, path).cells)

\* One turn of the loop of the iterator's advance(), which goes up from the end
\* of a node, and down into the next child of an inner one; and the record ids
\* that updateValue() has found where a turn ended the loop.
updateValue(index, path) == NodeAt(index, path).cells[Last(path).slot + 1]
Turned(index, path) ==
  LET slot == Last(path).slot
      next == [path EXCEPT ![Len(path)].slot = slot + 1]
      size == Len(NodeAt(index, path).cells)
  IN IF IsLeaf(index, path) THEN IF slot + 1 = size THEN Front(path) ELSE next
     ELSE IF slot = size THEN Front(path) ELSE Append(next, At(NodeAt(index, path).kids[slot + 2], 0))
Walked(index, w) ==
  LET path == Turned(index, w.path)
      stops == IsLeaf(index, w.path) /\ Len(path) = Len(w.path)
  IN [path |-> path, rows |-> IF stops THEN Append(w.rows, updateValue(index, path)) ELSE w.rows]
Walk(index, path) ==
  LET turns == Len(InOrder(index)) + Len(index.nodes) + 1
      at[n \in 0..turns] ==
        IF n = 0 THEN [path |-> path, rows |-> <<updateValue(index, path)>>]
        ELSE IF at[n - 1].path = <<>> THEN at[n - 1] ELSE Walked(index, at[n - 1])
  IN at[turns].rows

\* A row's first columns, whichever the index has, against a bound.
EndsLate(b, row) == compareKeys(b.to, row) < 0                              \* mutant
Past(b, row) == LET c == compareKeys(b.to, row) IN c < 0 \/ (~b.incTo /\ c = 0)

\* TableIndexScanDS: the first row is not compared with the upper bound.
FirstOf(t, walk, b) ==
  Min({j \in 1..(Len(walk) + 1) :
         j > Len(walk) \/ b.incFrom \/ compareKeys(b.from, t.rows[walk[j]]) # 0})
EndOf(t, walk, first, b) ==
  Min({j \in (first + 1)..(Len(walk) + 1) : j > Len(walk) \/ Past(b, t.rows[walk[j]])})
InBounds(t, walk, b) ==
  LET first == FirstOf(t, walk, b)
  IN IF first > Len(walk) THEN <<>> ELSE SubSeq(walk, first, EndOf(t, walk, first, b) - 1)
Scan(t, i, b) ==
  LET path == getIterator(t, i, b.from)
  IN IF PastEnd(t.indexes[i], path) THEN [rows |-> <<>>, wild |-> TRUE]
     ELSE [rows |-> InBounds(t, Walk(t.indexes[i], path), b), wild |-> FALSE]

AllRows(t) == [r \in DOMAIN t.rows |-> r]
Meeting(t, c) == {r \in DOMAIN t.rows : Holds(c, t.rows[r])}
United(all) ==
  [rows |-> FlattenSeq([i \in DOMAIN all |-> all[i].rows]), wild |-> \E i \in DOMAIN all : all[i].wild]

\* The plans, each a level deeper than what it reads.
PlansOf[n \in 0..Nesting] ==
  {ReadTable}
    \cup [k : {"scan"}, index : Nat,
          bounds : [from : Seq(Int), to : Seq(Int), incFrom : BOOLEAN, incTo : BOOLEAN]]
    \cup (IF n = 0 THEN {}
          ELSE [k : {"filter"}, cond : Conditions, source : PlansOf[n - 1]]
                 \cup [k : {"union"}, sources : Seq(PlansOf[n - 1])])
AllPlans == PlansOf[Nesting]

Source(t, q) ==
  IF q.k = "scan" THEN Scan(t, q.index, q.bounds) ELSE [rows |-> AllRows(t), wild |-> FALSE]
Read(t, p) ==
  LET read[q \in AllPlans] ==
        IF q.k = "filter" THEN [rows |-> Kept(read[q.source].rows, Meeting(t, q.cond)),
                                wild |-> read[q.source].wild]
        ELSE IF q.k = "union" THEN United([i \in DOMAIN q.sources |-> read[q.sources[i]]])
        ELSE Source(t, q)
  IN read[p]

-----------------------------------------------------------------------------
Nothing == [rows |-> <<>>, wild |-> FALSE]

Init ==
  /\ table \in Tables
  /\ stage = "idle"
  /\ written = And(<<>>) /\ tree = And(<<>>)
  /\ plan = ReadTable
  /\ answer = Nothing

Query ==
  /\ stage = "idle"
  /\ stage' = "parsed"
  /\ \E c \in table.conditions : written' = c /\ tree' = c
  /\ UNCHANGED <<plan, answer>>

optimizeConstants ==
  /\ stage = "parsed"
  /\ stage' = "folded"
  /\ tree' = WithConstants(tree)
  /\ UNCHANGED <<written, plan, answer>>

optimizeConditions ==
  /\ stage = "folded"
  /\ stage' = "flat"
  /\ tree' = Flattened(tree)
  /\ UNCHANGED <<written, plan, answer>>

CrashInErased ==
  /\ stage = "folded" /\ OrInOr(tree)
  /\ stage' = "crashed"
  /\ UNCHANGED <<written, tree, plan, answer>>

optimizeTableReads ==
  /\ stage = "flat"
  /\ stage' = "planned"
  /\ plan' = TablePlan(table, tree)
  /\ UNCHANGED <<written, tree, answer>>

Execute ==
  /\ stage = "planned"
  /\ stage' = "answered"
  /\ answer' = Read(table, plan)
  /\ UNCHANGED <<written, tree, plan>>

\* The rows are printed; or the program is started again.
Done ==
  /\ stage \in {"answered", "crashed"}
  /\ stage' = "idle"
  /\ written' = And(<<>>) /\ tree' = And(<<>>)
  /\ plan' = ReadTable /\ answer' = Nothing

Next ==
  /\ Query \/ optimizeConstants \/ optimizeConditions \/ CrashInErased
       \/ optimizeTableReads \/ Execute \/ Done
  /\ UNCHANGED table

Spec == Init /\ [][Next]_vars

-----------------------------------------------------------------------------
Matching == Meeting(table, written)
Answered == stage = "answered" /\ ~answer.wild

(* The optimizers leave a condition's meaning alone at every stage, however  *)
(* constants, columns, ANDs and ORs are nested in it, but for an OR that is   *)
(* itself a branch of an OR.                                                  *)
SameMeaning ==
  OrInOr(written) \/
    \A r \in DOMAIN table.rows : Holds(tree, table.rows[r]) = Holds(written, table.rows[r])

(* A plan never misses a row: whichever comparisons bound the scan of an      *)
(* index, on either side and of several columns, every row that meets the     *)
(* condition lies within the bounds and goes through the filters.  This needs *)
(* plain indexes: their columns are the first ones of the table, no two rows   *)
(* have one key, no key has a NULL in it, and the keys fit in one leaf.        *)
LeadingColumns(index) == \A f \in DOMAIN index.columns : index.columns[f] = f
DistinctKeys(rows, index) == \A r, s \in DOMAIN rows :
  r # s => KeyOf(index.columns, rows[r]) # KeyOf(index.columns, rows[s])
NoNullKeys(rows, index) ==
  \A r \in DOMAIN rows : \A f \in DOMAIN index.columns : rows[r][index.columns[f]] # Null
Plain(t) == \A i \in DOMAIN t.indexes :
  LET index == t.indexes[i]
  IN /\ LeadingColumns(index) /\ DistinctKeys(t.rows, index) /\ NoNullKeys(t.rows, index)
     /\ index.kids = <<>>
PlainIndexes == \A t \in Tables : Plain(t)
NoRowLost == Answered /\ ~OrInOr(written) => Matching \subseteq ToSet(answer.rows)

(* With indexes of one column, under the same premises, the plan answers with *)
(* the rows that meet the condition, each of them once, unless the range of a  *)
(* scan has no row at all (the scan answers with the first row after it), or   *)
(* an AND bounds a column by one value twice, first with the value itself and  *)
(* then without (the second bound is not taken), or two alternatives of an OR  *)
(* have a row in common (it comes twice).                                      *)
Scans(p) ==
  LET scans[q \in AllPlans] ==
        IF q.k = "scan" THEN {q}
        ELSE IF q.k = "filter" THEN scans[q.source]
        ELSE IF q.k = "union" THEN UNION {scans[q.sources[i]] : i \in DOMAIN q.sources}
        ELSE {}
  IN scans[p]
Above(b, v) == b.from[1] < v \/ (b.incFrom /\ b.from[1] = v)
Below(b, v) == v < b.to[1] \/ (b.incTo /\ v = b.to[1])
RowsWithin(t, scan) ==
  LET b == scan.bounds
      Value(r) == t.rows[r][t.indexes[scan.index].columns[1]]
  IN {r \in DOMAIN t.rows : Above(b, Value(r)) /\ Below(b, Value(r))}
BoundTwice(cs, col) ==
  \E m, n \in DOMAIN cs :
    /\ m < n /\ fitsWith(cs[m], col) /\ fitsWith(cs[n], col) /\ Bound(cs[m]) = Bound(cs[n])
    /\ 0 \in cs[m].cmp /\ 0 \notin cs[n].cmp
Slack(t, c) ==
  LET slack[x \in Conditions] ==
        x.k # "cmp" /\
          \/ \E i \in DOMAIN x.children : slack[x.children[i]]
          \/ x.k = "and" /\ \E i \in DOMAIN t.indexes :
                              BoundTwice(x.children, t.indexes[i].columns[1])
  IN slack[c]
Apart(t, cs) ==
  \A i, j \in DOMAIN cs : i # j => Meeting(t, cs[i]) \cap Meeting(t, cs[j]) = {}
OrsDisjoint(t, c) ==
  LET disjoint[x \in Conditions] ==
        x.k = "cmp" \/
          /\ \A i \in DOMAIN x.children : disjoint[x.children[i]]
          /\ x.k = "or" => Apart(t, x.children)
  IN disjoint[c]
OneColumnEach == \A i \in DOMAIN table.indexes : Len(table.indexes[i].columns) = 1
Exact == IsInjective(answer.rows) /\ ToSet(answer.rows) = Matching
ExactButForDefects ==
  Answered /\ ~OrInOr(written) /\ OneColumnEach =>
    \/ Exact
    \/ \E s \in Scans(plan) : RowsWithin(table, s) = {}
    \/ Slack(table, tree)
    \/ ToSet(answer.rows) = Matching /\ ~OrsDisjoint(table, tree)

(* src/README.md:4, "supports B-Tree indexes": a query that reads an index     *)
(* answers with the rows that meet the condition, each of them once.           *)
AnswerRight == Answered /\ ~OrInOr(written) => Exact

(* src/README.md:3, "a big part of SQL language have been implemented": an OR *)
(* has all the alternatives it was written with, nested ones too.             *)
AlternativesKept ==
  \A r \in DOMAIN table.rows : Holds(tree, table.rows[r]) = Holds(written, table.rows[r])

(* src/README.md:4, "supports B-Tree indexes": a scan of an index only reads   *)
(* cells that the index has.                                                   *)
ScansStayInside == ~answer.wild
=============================================================================
