-------------------------------- MODULE Rows --------------------------------
(***************************************************************************)
(* Inserter, Deleter and Updater of DataSequence.{h,cpp}, with what          *)
(* Executor and main() make of their results: the rows of a table, the keys  *)
(* of its indexes and the blobs of its texts, kept together by statements    *)
(* that may stop half-way.                                                   *)
(*                                                                          *)
(* The files are what RecordTable, KeySet and BlobStore say.  A statement    *)
(* that has deleted a row fails, so no free slot is ever met by another      *)
(* one: rows are appended.  An INSERT is a step for each of its rows, another *)
(* statement is one step, and what main() does after it is another.          *)
(***************************************************************************)
EXTENDS Integers, Sequences, FiniteSetsExt, Functions

CONSTANTS
  Tuples,         \* the values of a row: sequences of naturals and Null
  Texts,          \* what the text column may hold; {} if there is no such column
  IndexDefs,      \* index -> [columns |-> numbers of columns, unique |-> BOOLEAN]
  FirstIndexes,   \* those the table begins with
  Conditions,     \* of WHERE: sets of tuples
  Updates,        \* of SET: sequences of [column, expr], expr a function of the tuple
  MaxRecords      \* bound: rows of the file

ASSUME IndexAssumption == FirstIndexes \subseteq DOMAIN IndexDefs
ASSUME RecordsAssumption == MaxRecords \in Nat
\* A table has a column, and an index is of its columns.
ASSUME TuplesAssumption ==
  \A t \in Tuples : /\ t # <<>>
                    /\ \A i \in DOMAIN IndexDefs : Range(IndexDefs[i].columns) \subseteq DOMAIN t
\* An expression is of the type of its column.
ASSUME UpdatesAssumption ==
  \A sets \in Updates :
    /\ Len(sets) \in Nat /\ DOMAIN sets = 1..Len(sets)
    /\ \A a \in Range(sets), t \in Tuples : [t EXCEPT ![a.column] = a.expr[t]] \in Tuples

VARIABLES
  rows,             \* record id, from 1, -> its values, and the id of its blob
  indexes,          \* index -> its keys with their records
  blobs,            \* blob id + 1 -> text
  committed,        \* the three, as committed
  autoCommitMode,
  statement,        \* what has been executed, "none" when the user is asked for more
  success           \* what execute() has returned of it

vars == <<rows, indexes, blobs, committed, autoCommitMode, statement, success>>

Null == -1
NULL32 == -1
NoRow == [values |-> <<>>, blob |-> NULL32]

State == [rows |-> rows, indexes |-> indexes, blobs |-> blobs, success |-> TRUE]
Live(s) == {id \in DOMAIN s.rows : s.rows[id] # NoRow}

-----------------------------------------------------------------------------
(* Keys. *)

\* The comparison of keys reads the bytes of a value and not its null bit: a Null
\* is compared as the zero bytes it is encoded by.
Compared(v) == IF v = Null THEN 0 ELSE v
narrow(i, values) ==
  [n \in DOMAIN IndexDefs[i].columns |-> Compared(values[IndexDefs[i].columns[n]])]
Key(i, values, id) == [key |-> narrow(i, values), record |-> id]

ByRecord(i, entries, e) == e \in entries                                   \* mutant
Clashes(i, entries, e) ==
  \E f \in entries : f.key = e.key /\ (IndexDefs[i].unique \/ f.record = e.record)

KeysOf(i, s, ids) == {Key(i, s.rows[id].values, id) : id \in ids}

\* addKey() of some rows in their order, until one is refused.
Before(ids, id) == {j \in ids : j < id}
Refused(i, entries, s, ids) ==
  {id \in ids : Clashes(i, entries \cup KeysOf(i, s, Before(ids, id)), Key(i, s.rows[id].values, id))}
AddKeys(i, entries, s, ids) ==
  LET refused == Refused(i, entries, s, ids)
  IN [entries |-> entries \cup KeysOf(i, s, {id \in ids : \A r \in refused : id < r}),
      success |-> refused = {}]

-----------------------------------------------------------------------------
(* INSERT. *)

NewBlob(s, text) == IF text = Null THEN NULL32 ELSE Len(s.blobs)
addBlob(s, text) == IF text = Null THEN s.blobs ELSE Append(s.blobs, text)

KeysRemain(s, reached, values, id) == reached                              \* mutant
\* The key of the refused row is deleted from every index, also those that it has
\* not come to.
UndoKeys(s, reached, values, id) ==
  [i \in DOMAIN reached |-> reached[i] \ {Key(i, values, id)}]

InsertRow(s, values, text) ==
  LET id == Len(s.rows) + 1
      e(i) == Key(i, values, id)
      refusing == {i \in DOMAIN s.indexes : Clashes(i, s.indexes[i], e(i))}
      reached == [i \in DOMAIN s.indexes |->
                    IF \E r \in refusing : r <= i THEN s.indexes[i] ELSE s.indexes[i] \cup {e(i)}]
  IN IF refusing = {}
     THEN [rows |-> Append(s.rows, [values |-> values, blob |-> NewBlob(s, text)]),
           indexes |-> reached, blobs |-> addBlob(s, text), success |-> TRUE]
     ELSE [rows |-> Append(s.rows, NoRow),
           indexes |-> UndoKeys(s, reached, values, id), blobs |-> addBlob(s, text), success |-> FALSE]

Leave(kind, s) ==
  /\ statement' = kind
  /\ rows' = s.rows /\ indexes' = s.indexes /\ blobs' = s.blobs /\ success' = s.success
  /\ UNCHANGED <<committed, autoCommitMode>>

\* The next row.  The blob of its text is there before it; no row follows a refused one.
Insert(row) ==
  /\ statement \in {"none", "insert"} /\ success
  /\ Len(rows) < MaxRecords
  /\ Leave("insert", InsertRow(State, row.values, row.text))

-----------------------------------------------------------------------------
(* DELETE and UPDATE: the rows are found first, then changed. *)

Execute(kind, s) == statement = "none" /\ Leave(kind, s)

Found(cond) == {id \in Live(State) : rows[id].values \in cond}

\* deleteAll() takes the success of its first deleteRecord() for a failure.  (What
\* becomes of the blob of a deletion that is rolled back is in Blobs.)
Delete(cond) ==
  /\ Texts = {}
  /\ Execute("delete",
       IF Found(cond) = {} THEN State
       ELSE [State EXCEPT !.rows[Min(Found(cond))] = NoRow, !.success = FALSE])

\* The assignments of SET, one after the other on the same tuple.
Assign(values, a) == [values EXCEPT ![a.column] = a.expr[values]]
Assigned(sets, values) ==
  LET tuple[n \in 0..Len(sets)] == IF n = 0 THEN values ELSE Assign(tuple[n - 1], sets[n])
  IN tuple[Len(sets)]

FirstColumn(sets) ==                                                       \* mutant
  {i \in DOMAIN indexes : \E a \in Range(sets) : a.column = IndexDefs[i].columns[1]}
affectedIndexes(sets) ==
  {i \in DOMAIN indexes : \E a \in Range(sets) : a.column \in Range(IndexDefs[i].columns)}

\* writeRecord() of an encoded row, whose blob id nobody has set: it is 0.
Rewritten(sets, row) ==
  [values |-> Assigned(sets, row.values), blob |-> IF Texts = {} THEN NULL32 ELSE 0]

RowsUpdated(sets, found) ==
  [id \in DOMAIN rows |-> IF id \in found THEN Rewritten(sets, rows[id]) ELSE rows[id]]

RowByRow(i, found, after) ==                                               \* mutant
  [entries |-> (indexes[i] \ KeysOf(i, State, found)) \cup KeysOf(i, after, found),
   success |-> \A id \in found :
     ~Clashes(i, (indexes[i] \ KeysOf(i, State, Before(found, id) \cup {id}))
                   \cup KeysOf(i, after, Before(found, id)), Key(i, after.rows[id].values, id))]
\* All old keys of an index go before the new ones come.
NewKeys(i, found, after) ==
  AddKeys(i, indexes[i] \ KeysOf(i, State, found), after, found)

\* The affected indexes are changed in the order of their ids, and the rows when
\* all of them have taken their keys.
Updated(sets, found) ==
  LET after == [State EXCEPT !.rows = RowsUpdated(sets, found)]
      changed == [i \in affectedIndexes(sets) |-> NewKeys(i, found, after)]
      refusing == {i \in affectedIndexes(sets) : ~changed[i].success}
      entries == [i \in DOMAIN indexes |->
                    IF i \in affectedIndexes(sets) /\ \A r \in refusing : i <= r
                    THEN changed[i].entries ELSE indexes[i]]
  IN IF refusing = {} THEN [after EXCEPT !.indexes = entries]
     ELSE [State EXCEPT !.indexes = entries, !.success = FALSE]

Update(sets, cond) == Execute("update", Updated(sets, Found(cond)))

-----------------------------------------------------------------------------
(* The rest. *)

\* The pages are as committed; what BlobManager has counted in memory stays.
Back ==
  /\ rows' = committed.rows
  /\ indexes' = committed.indexes
  /\ blobs' = [n \in DOMAIN blobs |-> IF n \in DOMAIN committed.blobs THEN committed.blobs[n] ELSE Null]

\* CREATE INDEX, outside of a transaction: if a key is repeated it rolls back by
\* itself and is a success.  (What SystemInfoManager remembers of an index that a
\* ROLLBACK has taken is in Catalog.)
CreateIndex(i) ==
  /\ statement = "none" /\ autoCommitMode
  /\ i \in DOMAIN IndexDefs \ DOMAIN indexes
  /\ LET filled == AddKeys(i, {}, State, Live(State))
     IN IF filled.success
        THEN /\ indexes' = [j \in DOMAIN indexes \cup {i} |-> IF j = i THEN filled.entries ELSE indexes[j]]
             /\ UNCHANGED <<rows, blobs>>
        ELSE Back
  /\ statement' = "index"
  /\ success' = TRUE
  /\ UNCHANGED <<committed, autoCommitMode>>

\* What main() does after a statement.
Finish ==
  /\ statement # "none"
  /\ statement' = "none"
  /\ success' = TRUE
  /\ IF success
     THEN /\ UNCHANGED <<rows, indexes, blobs, autoCommitMode>>
          /\ committed' = IF autoCommitMode THEN [rows |-> rows, indexes |-> indexes, blobs |-> blobs]
                          ELSE committed
     ELSE Back /\ autoCommitMode' = TRUE /\ UNCHANGED committed

\* BEGIN TRANSACTION (mode FALSE) and COMMIT (mode TRUE).
TransactionOp(mode) ==
  /\ statement = "none"
  /\ committed' = [rows |-> rows, indexes |-> indexes, blobs |-> blobs]
  /\ autoCommitMode' = mode
  /\ UNCHANGED <<rows, indexes, blobs, statement, success>>

Rollback ==
  /\ statement = "none"
  /\ Back
  /\ autoCommitMode' = TRUE
  /\ UNCHANGED <<committed, statement, success>>

Init ==
  /\ rows = <<>>
  /\ indexes = [i \in FirstIndexes |-> {}]
  /\ blobs = <<>>
  /\ committed = [rows |-> rows, indexes |-> indexes, blobs |-> blobs]
  /\ autoCommitMode = TRUE
  /\ statement = "none"
  /\ success = TRUE

\* The text column, where there is one, is not NULL.
NewRows == [values : Tuples, text : IF Texts = {} THEN {Null} ELSE Texts]

Next ==
  \/ \E row \in NewRows : Insert(row)
  \/ \E cond \in Conditions : Delete(cond) \/ \E sets \in Updates : Update(sets, cond)
  \/ \E i \in DOMAIN IndexDefs : CreateIndex(i)
  \/ Finish
  \/ \E mode \in BOOLEAN : TransactionOp(mode)
  \/ Rollback

Spec == Init /\ [][Next]_vars

-----------------------------------------------------------------------------
(* Properties. *)

Agree(s) ==
  \A i \in DOMAIN s.indexes : s.indexes[i] = KeysOf(i, s, Live(s))

\* Whatever statements have succeeded and failed, every index has exactly the keys
\* of the rows there are: in what is committed, and in what the next statement
\* will see.
IndexesAgree == Agree(committed) /\ (success => Agree(State))

\* The undo of an INSERT that an index refuses leaves no key of the row in the
\* indexes before it, and takes none of another row from those after it.
RefusedRowUndone == statement = "insert" => Agree(State)

Repeated(s, i) ==
  \E a, b \in Live(s) : a # b /\ narrow(i, s.rows[a].values) = narrow(i, s.rows[b].values)

\* No two rows have the same key of a unique index once a statement has succeeded.
UniqueHeld ==
  success => \A i \in DOMAIN indexes : IndexDefs[i].unique => ~Repeated(State, i)

\* An UPDATE is refused only if the table would have repeated keys after it: rows
\* that take each other's keys do not get in each other's way.
UpdateRefusedOnlyForRepeats ==
  [][statement' = "update" /\ ~success' => \A sets \in Updates, cond \in Conditions :
       Update(sets, cond) =>
       \E i \in DOMAIN indexes : /\ IndexDefs[i].unique
                                 /\ Repeated([rows |-> RowsUpdated(sets, Found(cond))], i)]_vars

\* src/SmallQL/Executor.cpp:218, "Successfully deleted": main() does not roll a
\* DELETE back because it has found rows.
RowsDeleted == [][statement = "delete" /\ Finish => success]_vars

\* src/README.md:4, "variable length text": an UPDATE of other columns leaves the
\* texts of the rows.
TextOf(r, b) == IF r.blob \in 0..(Len(b) - 1) THEN b[r.blob + 1] ELSE Null
TextKept ==
  [][statement' = "update" /\ success' =>
       \A id \in DOMAIN rows : TextOf(rows'[id], blobs') = TextOf(rows[id], blobs)]_vars

\* src/SmallQL/DDLExecutor.cpp:48, "couldn't be created since there are repeating
\* keys": CREATE INDEX fails only if two rows have the same values in its columns.
OnlyRepeatsRefused ==
  [][statement' = "index" => \A i \in DOMAIN IndexDefs : CreateIndex(i) /\ i \notin DOMAIN indexes' =>
       \E a, b \in Live(State) : a # b /\ \A c \in Range(IndexDefs[i].columns) :
         rows[a].values[c] = rows[b].values[c]]_vars
=============================================================================
