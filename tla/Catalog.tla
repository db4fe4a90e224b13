------------------------------- MODULE Catalog -------------------------------
(***************************************************************************)
(* SystemInfoManager.{h,cpp} and the statements of DDLExecutor.cpp that use  *)
(* it: the catalog of tables and indexes, in memory and in the rows of four  *)
(* record files, through commits, rollbacks and restarts.                    *)
(*                                                                          *)
(* The record files are those of DataFile, with fewer than 256 slots, so that *)
(* every link of the free list but the first reads back as 0.  Names are in   *)
(* capitals, as the lexer has them.  The files of tables and indexes are in   *)
(* Session.                                                                   *)
(***************************************************************************)
EXTENDS Integers, Sequences, FiniteSetsExt, Functions

CONSTANTS
  Scripts,       \* what the statements of an execution may say: records of
                 \* [names: of tables, indexNames, definitions: the columns of a
                 \*  table, sequences of [name, isPrimary, text], keys: the columns
                 \*  of an index, sequences of names]
  MaxRows,       \* bound: slots of a record file
  Rollbacks,     \* whether a transaction that has changed the catalog may be rolled back,
                 \* or one that has dropped something be lost with its process
  NamesReused,   \* whether a statement may name an index that was dropped with its table
  DualDropped,   \* whether the table DUAL may be dropped
  ListsWorn      \* whether statements may go on with a free list that misleads them

ASSUME BoundAssumption == MaxRows \in 0..256
ASSUME ChoicesAssumption == {Rollbacks, NamesReused, DualDropped, ListsWorn} \subseteq BOOLEAN
\* A statement lists columns, and an index has at least one.
ASSUME ScriptsAssumption ==
  \A s \in Scripts : /\ \A d \in s.definitions : d \in Seq(Range(d))
                     /\ \A k \in s.keys : k \in Seq(Range(k)) /\ k # <<>>

VARIABLES
  committed,       \* the record files as committed
  rows,            \* as the running transaction sees them
  memory,          \* SystemInfoManager's maps
  files,           \* the files there are: <<t>> of table t, <<t, i>> of its index i
  autoCommitMode,
  script,          \* the one of this execution
  running          \* FALSE: an exception that main() does not catch has ended the program

vars == <<committed, rows, memory, files, autoCommitMode, script, running>>

-----------------------------------------------------------------------------
(* Record files.  The first slot has id 0. *)

NULL64 == -1
FarAway == -2    \* NULL64 as a link has it: an id beyond any page
NoTable == -1
EmptyFile == [slots |-> <<>>, frlStart |-> NULL64]

FreeSlot(frlStart) ==
  [table |-> NoTable, link |-> IF frlStart < 0 THEN FarAway ELSE 0]

IsRow(slot) == slot.table # NoTable
Places(f) == {n \in DOMAIN f.slots : IsRow(f.slots[n])}
Rows(f) == {f.slots[n] : n \in Places(f)}

\* What stops addRecord(): the memory for the page map is exhausted, which ends
\* the program, or there is a row in the slot, and it returns NULL64.
Trouble(f) ==
  IF f.frlStart = FarAway THEN {"exhausted"}
  ELSE IF f.frlStart # NULL64 /\ IsRow(f.slots[f.frlStart + 1]) THEN {"refused"} ELSE {}

addRecord(f, row) ==
  IF f.frlStart = NULL64 THEN [slots |-> Append(f.slots, row), frlStart |-> NULL64]
  ELSE IF Trouble(f) # {} THEN f
  ELSE [slots |-> [f.slots EXCEPT ![f.frlStart + 1] = row],
        frlStart |-> f.slots[f.frlStart + 1].link]

\* A file with none, one, two, ... of some rows added to it.
Fillings(f, added) ==
  LET filled[n \in 0..Len(added)] ==
        IF n = 0 THEN f ELSE addRecord(filled[n - 1], added[n])
  IN filled

\* deleteRecord() of some slots, in the order of a scan.
deleteRecords(f, places) ==
  IF places = {} THEN f
  ELSE [slots |-> [n \in DOMAIN f.slots |->
                     IF n \notin places THEN f.slots[n]
                     ELSE FreeSlot(IF n = Min(places) THEN f.frlStart ELSE 0)],
        frlStart |-> Max(places) - 1]

NoRows == [tables |-> EmptyFile, columns |-> EmptyFile, indexes |-> EmptyFile,
           indexColumns |-> EmptyFile]

\* Maps of memory: an entry added or replaced, and entries erased.
Put(map, key, value) ==
  [k \in DOMAIN map \cup {key} |-> IF k = key THEN value ELSE map[k]]
Erase(map, key) == Restrict(map, DOMAIN map \ {key})

Counted(ids) == Cardinality(ids)                                           \* mutant
LowestNotIn(ids) == CHOOSE n \in 0..Cardinality(ids) : n \notin ids /\ 0..(n - 1) \subseteq ids

-----------------------------------------------------------------------------
(* load() *)

Dual == 65535
DualTable == [name |-> "DUAL", columns |-> <<>>, indexes |-> {}]

ColumnsOf(r, t) == {c \in Rows(r.columns) : c.table = t}
ColumnIds(r, t) == {c.id : c \in ColumnsOf(r, t)}
IndexesOf(r, t) == {x \in Rows(r.indexes) : x.table = t}

\* The columns of an index, in the order of their rows.
Listed(slot, t, i, columns) ==
  IF IsRow(slot) THEN IF slot.table = t /\ slot.index = i THEN Append(columns, slot.column) ELSE columns
  ELSE columns
KeyOf(r, t, i) ==
  LET slots == r.indexColumns.slots
      read[n \in 0..Len(slots)] == IF n = 0 THEN <<>> ELSE Listed(slots[n], t, i, read[n - 1])
  IN read[Len(slots)]

\* A table's columns by their numbers.
SchemaOf(r, t) ==
  [n \in 1..Cardinality(ColumnIds(r, t)) |->
     (CHOOSE c \in ColumnsOf(r, t) : c.id = n - 1).column]

\* A schema refuses a primary key of variable size.
AnyText(column) == column.text                                             \* mutant
NotAKey(column) == column.isPrimary /\ column.text

\* No number of a column is missing, no schema throws, and the columns of every
\* index exist: load() is not in main()'s try block.
Loadable(r) ==
  LET ids == {x.table : x \in Rows(r.tables)}
  IN /\ \A t \in ids : /\ ColumnIds(r, t) = 0..(Cardinality(ColumnIds(r, t)) - 1)
                      /\ \A c \in ColumnsOf(r, t) : ~NotAKey(c.column)
     /\ \A k \in Rows(r.indexColumns) : k.table \in ids /\ k.column \in ColumnIds(r, k.table)

LoadedTable(r, x) ==
  [name |-> x.name, columns |-> SchemaOf(r, x.table),
   indexes |-> {y.index : y \in IndexesOf(r, x.table)}]
LoadedTables(r) ==
  Put([t \in {x.table : x \in Rows(r.tables)} |->
         LoadedTable(r, CHOOSE x \in Rows(r.tables) : x.table = t)], Dual, DualTable)
LoadedNames(r) ==
  Put([n \in {x.name : x \in Rows(r.tables)} |->
         (CHOOSE x \in Rows(r.tables) : x.name = n).table], "DUAL", Dual)
LoadedIndexes(r) ==
  [k \in {<<x.table, x.index>> : x \in Rows(r.indexes)} |->
     LET found == CHOOSE x \in Rows(r.indexes) : <<x.table, x.index>> = k
     IN [name |-> found.name, unique |-> found.unique, columns |-> KeyOf(r, k[1], k[2])]]
LoadedIndexNames(r) ==
  [k \in {<<x.table, x.name>> : x \in Rows(r.indexes)} |->
     (CHOOSE x \in Rows(r.indexes) : <<x.table, x.name>> = k).index]
Loaded(r) ==
  [tables |-> LoadedTables(r), tableNames |-> LoadedNames(r),
   indexes |-> LoadedIndexes(r), indexNames |-> LoadedIndexNames(r)]

-----------------------------------------------------------------------------
(* The operations of SystemInfoManager: each maps a state of the catalog, its  *)
(* rows and its maps in memory, to the next.  No caller of addRecord() looks   *)
(* at what it returns.                                                         *)

Add(s, file, added) ==
  LET filled == Fillings(s.rows[file], added)
  IN [rows |-> [s.rows EXCEPT ![file] = filled[Len(added)]],
      memory |-> s.memory, files |-> s.files,
      trouble |-> s.trouble \cup UNION {Trouble(filled[n - 1]) : n \in DOMAIN added}]

TableRow(t, name) == [table |-> t, name |-> name]
AddTable(s, t, name) ==
  [Add(s, "tables", <<TableRow(t, name)>>) EXCEPT !.memory =
     [tables |-> Put(s.memory.tables, t, [name |-> name, columns |-> <<>>, indexes |-> {}]),
      tableNames |-> Put(s.memory.tableNames, name, t),
      indexes |-> s.memory.indexes, indexNames |-> s.memory.indexNames]]

ColumnRows(t, definition) ==
  [n \in DOMAIN definition |-> [table |-> t, id |-> n - 1, column |-> definition[n]]]

\* addColumn() of the columns of a new table: each gets the number of those before it.
AddColumns(s, t, definition) ==
  [Add(s, "columns", ColumnRows(t, definition)) EXCEPT !.memory =
     [tables |-> [s.memory.tables EXCEPT ![t].columns = definition],
      tableNames |-> s.memory.tableNames,
      indexes |-> s.memory.indexes, indexNames |-> s.memory.indexNames]]

\* The row of an index, then those of its columns, a sequence of numbers, the maps,
\* and the files.
IndexRow(t, i, name, unique) == [table |-> t, index |-> i, unique |-> unique, name |-> name]
KeyRows(t, i, key) == [n \in DOMAIN key |-> [table |-> t, index |-> i, column |-> key[n]]]
AddIndexRow(s, t, i, name, unique) == Add(s, "indexes", <<IndexRow(t, i, name, unique)>>)
AddIndex(s, t, i, name, unique, key) ==
  LET added == Add(AddIndexRow(s, t, i, name, unique), "indexColumns", KeyRows(t, i, key))
  IN [rows |-> added.rows,
      memory |-> [tables |-> [s.memory.tables EXCEPT ![t].indexes = @ \cup {i}],
                  tableNames |-> s.memory.tableNames,
                  indexes |-> Put(s.memory.indexes, <<t, i>>,
                                  [name |-> name, unique |-> unique, columns |-> key]),
                  indexNames |-> Put(s.memory.indexNames, <<t, name>>, i)],
      files |-> s.files \cup {<<t>>, <<t, i>>},
      trouble |-> added.trouble]

\* primaryKeySubschema() makes a schema of the columns of the primary key, and
\* with that numbers them anew.
PrimaryColumns(definition) == {n \in DOMAIN definition : definition[n].isPrimary}
PrimaryKey(definition) == [n \in 1..Cardinality(PrimaryColumns(definition)) |-> n - 1]

\* createIndex() has the numbers of the named columns.
NamesOf(columns) == {columns[n].name : n \in DOMAIN columns}
PlaceOf(columns, name) == CHOOSE n \in DOMAIN columns : columns[n].name = name
NumbersOf(columns, names) == [n \in DOMAIN names |-> PlaceOf(columns, names[n]) - 1]

\* The files of a table and of the indexes that have rows.
TableFiles(r, t) == {<<t>>} \cup {<<t, x.index>> : x \in IndexesOf(r, t)}

TableRemains(tables, t) == tables                                          \* mutant
EraseTable(tables, t) == Erase(tables, t)

OfTable(f, t) == {n \in Places(f) : f.slots[n].table = t}
\* The scan of the tables ends with the first of them.
FirstOf(places) == IF places = {} THEN {} ELSE {Min(places)}
DeleteRowsOfTable(r, t) ==
  [tables |-> deleteRecords(r.tables, FirstOf(OfTable(r.tables, t))),
   columns |-> deleteRecords(r.columns, OfTable(r.columns, t)),
   indexes |-> deleteRecords(r.indexes, OfTable(r.indexes, t)),
   indexColumns |-> deleteRecords(r.indexColumns, OfTable(r.indexColumns, t))]
dropTable(s, t, name) ==
  [rows |-> DeleteRowsOfTable(s.rows, t),
   memory |-> [tables |-> EraseTable(s.memory.tables, t),
               tableNames |-> Erase(s.memory.tableNames, name),
               indexes |-> s.memory.indexes, indexNames |-> s.memory.indexNames],
   files |-> s.files \ TableFiles(s.rows, t),
   trouble |-> s.trouble]

OfIndex(f, t, i) == {n \in OfTable(f, t) : f.slots[n].index = i}
DropIndex(s, t, i, name) ==
  [rows |-> [tables |-> s.rows.tables, columns |-> s.rows.columns,
             indexes |-> deleteRecords(s.rows.indexes, OfIndex(s.rows.indexes, t, i)),
             indexColumns |-> deleteRecords(s.rows.indexColumns, OfIndex(s.rows.indexColumns, t, i))],
   memory |-> [tables |-> [s.memory.tables EXCEPT ![t].indexes = @ \ {i}],
               tableNames |-> s.memory.tableNames,
               indexes |-> Erase(s.memory.indexes, <<t, i>>),
               indexNames |-> Erase(s.memory.indexNames, <<t, name>>)],
   files |-> s.files \ {<<t, i>>},
   trouble |-> s.trouble]

-----------------------------------------------------------------------------
Init ==
  /\ committed = NoRows
  /\ rows = NoRows
  /\ memory = Loaded(NoRows)
  /\ files = {}
  /\ autoCommitMode = TRUE
  /\ script \in Scripts
  /\ running = TRUE

State == [rows |-> rows, memory |-> memory, files |-> files, trouble |-> {}]

\* An exception that is not an SQLException.
End == running' = FALSE /\ UNCHANGED <<committed, rows, memory, files, autoCommitMode, script>>

Finish(s, commits) ==
  /\ s.trouble = {} \/ ListsWorn
  /\ IF "exhausted" \in s.trouble THEN End
     ELSE /\ rows' = s.rows
          /\ memory' = s.memory
          /\ files' = s.files
          /\ committed' = IF commits THEN s.rows ELSE committed
          /\ UNCHANGED <<autoCommitMode, script, running>>

\* A statement succeeds, and main() commits unless a transaction has begun; or
\* throws an SQLException, which main() prints.
Succeed(s) == Finish(s, autoCommitMode)
Throw(s) == Finish(s, FALSE)

RoomFor(r) ==
  \A f \in {r.tables, r.columns, r.indexes, r.indexColumns} : Len(f.slots) <= MaxRows

CreateTable(name, definition) ==
  /\ running
  /\ IF name \in DOMAIN memory.tableNames THEN Succeed(State)
     ELSE LET t == LowestNotIn(DOMAIN memory.tables)
              columns == AddColumns(AddTable(State, t, name), t, definition)
          IN IF \E c \in Range(definition) : NotAKey(c)
             THEN Throw(AddIndexRow(columns, t, 0, "PRIMARY", TRUE))
             ELSE Succeed(AddIndex(columns, t, 0, "PRIMARY", TRUE, PrimaryKey(definition)))
  /\ RoomFor(rows')

\* The deletion of a file that is not there ends the program.  The file of DUAL is
\* the file of the rows of all tables, and deleted at once.
DropTable(name) ==
  /\ running
  /\ IF name \notin DOMAIN memory.tableNames THEN Succeed(State)
     ELSE LET t == memory.tableNames[name]
              s == dropTable(State, t, name)
          IN IF t = Dual
             THEN DualDropped /\ autoCommitMode /\ rows = committed
                  /\ Succeed([s EXCEPT !.rows.tables = EmptyFile])
             ELSE IF TableFiles(rows, t) \subseteq files THEN Succeed(s) ELSE End

\* The name of an index that is no longer there.
Stale(t, name) ==
  IF <<t, name>> \notin DOMAIN memory.indexNames THEN FALSE
  ELSE LET i == memory.indexNames[<<t, name>>]
       IN i \notin memory.tables[t].indexes \/ memory.indexes[<<t, i>>].name # name

\* IndexFile::fillFrom() meets two rows with the same key, if it is repeated.
CreateIndex(table, name, key, unique, repeated) ==
  /\ running
  /\ table \in DOMAIN memory.tableNames
  /\ LET t == memory.tableNames[table]
         columns == memory.tables[t].columns
         i == LowestNotIn(memory.tables[t].indexes)
         s == AddIndex(State, t, i, name, unique, NumbersOf(columns, key))
     IN /\ Stale(t, name) => NamesReused
        /\ IF <<t, name>> \in DOMAIN memory.indexNames THEN Succeed(State)
           ELSE IF \/ ~(Range(key) \subseteq NamesOf(columns))
                   \/ \E n \in DOMAIN key : NotAKey(columns[PlaceOf(columns, key[n])])
           THEN Throw(State)
           ELSE IF unique /\ repeated
           THEN /\ Rollbacks \/ rows = committed
                /\ Succeed([DropIndex(s, t, i, name) EXCEPT !.rows = committed])
           ELSE Succeed(s)
  /\ RoomFor(rows')

\* What is dropped is the index that has the number of the name.
DropIndexOf(table, name) ==
  /\ running
  /\ table \in DOMAIN memory.tableNames
  /\ LET t == memory.tableNames[table]
     IN /\ Stale(t, name) => NamesReused
        /\ IF <<t, name>> \notin DOMAIN memory.indexNames THEN Succeed(State)
           ELSE LET i == memory.indexNames[<<t, name>>]
                IN IF <<t, i>> \in files THEN Succeed(DropIndex(State, t, i, name))
                   ELSE End

\* BEGIN TRANSACTION (mode FALSE) and COMMIT (mode TRUE).
TransactionOp(mode) ==
  /\ running
  /\ committed' = rows
  /\ autoCommitMode' = mode
  /\ UNCHANGED <<rows, memory, files, script, running>>

\* ROLLBACK, or a statement that fails.
Rollback ==
  /\ running
  /\ Rollbacks \/ rows = committed
  /\ rows' = committed
  /\ autoCommitMode' = TRUE
  /\ UNCHANGED <<committed, memory, files, script, running>>

\* The files of tables and indexes are deleted at once: a transaction that has
\* dropped one is half committed.
NoneDropped ==
  /\ Rows(committed.tables) \subseteq Rows(rows.tables)
  /\ Rows(committed.indexes) \subseteq Rows(rows.indexes)

\* The process ends, with the committed pages written, and another one starts.
Restart ==
  /\ Rollbacks \/ NoneDropped
  /\ running' = Loadable(committed)
  /\ memory' = IF running' THEN Loaded(committed) ELSE memory
  /\ rows' = committed
  /\ autoCommitMode' = TRUE
  /\ UNCHANGED <<committed, files, script>>

Next ==
  \/ \E n \in script.names \cup {"DUAL"} :
       \/ \E d \in script.definitions : CreateTable(n, d)
       \/ DropTable(n)
       \/ \E i \in script.indexNames, k \in script.keys, u \in BOOLEAN, r \in BOOLEAN : CreateIndex(n, i, k, u, r)
       \/ \E i \in script.indexNames : DropIndexOf(n, i)
  \/ \E mode \in BOOLEAN : TransactionOp(mode)
  \/ Rollback \/ Restart

Spec == Init /\ [][Next]_vars

-----------------------------------------------------------------------------
(* Properties. *)

NoneTwice(f) == \A m, n \in Places(f) : f.slots[m] = f.slots[n] => m = n

Consistent(r) ==
  LET tables == Rows(r.tables)
      columns == Rows(r.columns)
      indexed == Rows(r.indexes)
      keys == Rows(r.indexColumns)
  IN /\ \A x, y \in tables : x.table = y.table <=> x.name = y.name
     /\ NoneTwice(r.columns)
     /\ \A c \in columns : \E x \in tables : x.table = c.table
     /\ \A x, y \in indexed : x.table = y.table => (x.index = y.index <=> x.name = y.name)
     /\ \A x \in indexed : \E y \in tables : y.table = x.table
     /\ NoneTwice(r.indexColumns)
     /\ \A k \in keys : /\ \E x \in indexed : x.table = k.table /\ x.index = k.index
                        /\ \E c \in columns : c.table = k.table /\ c.id = k.column

\* Tables, columns and indexes refer to what is there, in the committed rows and
\* in those a transaction sees, whatever sequence of statements led to them.
RowsConsistent == Consistent(committed) /\ Consistent(rows)

\* load() can always make something of the committed rows, and no statement ends
\* the program.
KeepsRunning == running

\* What the statements go by is what is in the rows: a restart would change none
\* of the tables that SystemInfoManager has in memory.
TablesKnown ==
  running => /\ memory.tables = LoadedTables(rows)
             /\ memory.tableNames = LoadedNames(rows)

\* The indexes that SystemInfoManager has in memory are those of the rows, with
\* the same columns, in whatever order.
IndexesKnown ==
  running => \A t \in DOMAIN memory.tables : \A i \in memory.tables[t].indexes :
    LET known == memory.indexes[<<t, i>>]
    IN /\ \E x \in IndexesOf(rows, t) :
            x.index = i /\ known.name = x.name /\ known.unique = x.unique
       /\ Range(known.columns) = Range(KeyOf(rows, t, i))
       /\ memory.indexNames[<<t, known.name>>] = i

\* SystemInfoManager answers from memory as it would from the rows.
MemoryKnown == TablesKnown /\ IndexesKnown

\* src/README.md:4, "B-Tree indexes": a restart leaves the columns of an index
\* in their order, which is the order of the keys in its file.
KeyOrderKept ==
  running => \A t \in DOMAIN memory.tables : \A i \in memory.tables[t].indexes :
    memory.indexes[<<t, i>>].columns = KeyOf(rows, t, i)

\* src/SmallQL/DDLExecutor.cpp:38, "already exists!": CREATE INDEX says so of an
\* index that does.
ExistingNamed ==
  running => \A k \in DOMAIN memory.indexNames :
    k[1] \in DOMAIN memory.tables => memory.indexNames[k] \in memory.tables[k[1]].indexes

\* src/README.md:3, "a big part of SQL language have been implemented": the index
\* that enforces a primary key is one of the columns of the primary key.
PrimaryKeyIndexed ==
  running => \A t \in DOMAIN memory.tables : 0 \in memory.tables[t].indexes =>
    {n - 1 : n \in PrimaryColumns(memory.tables[t].columns)} = Range(memory.indexes[<<t, 0>>].columns)
=============================================================================
