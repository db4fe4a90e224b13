# SmallQL in TLA+

SmallQL is a single-user SQL database in C++ (`src/SmallQL/`): a program that
reads statements from its console and keeps its tables, indexes and blobs as
pages of one file, `Big.dbf`, described by a second one, `meta.dbm`. This
directory holds TLA+ models of it, TLC configurations that check them on small
instances, and TLAPS proofs about them for instances of every size.

Contents: [the system](#the-system), [the modules](#modules),
[the runs](#runs), [known defects](#known-defects), [proofs](#proofs),
[what is not modelled](#not-modelled), [the plan](#the-plan).

## The system

| Part | State | Operations | Talks to |
|---|---|---|---|
| `PageManager` | per virtual file a vector of physical pages; free pages; page count; cache with dirty bits; write-back queue; the two files | `retrieve`, `update`, `deleteFile`, `flushOne`, `flushMetadata` | `TransactionManager`, the loop of `main()` |
| `TransactionManager` | copies of pages, each with a dirty bit | `retrieveRead`, `retrieveWrite`, `update`, `commit`, `rollback`, `deleteFile` | `PageManager` below, all files above through `Pager` |
| `main()` | the statement being run; `autoCommitMode` (kept in `SystemInfoManager`) | run a statement, commit or roll back; flush while the user is typing | all |
| `DDLExecutor` | none | CREATE, DROP, SHOW, BEGIN, COMMIT, ROLLBACK | catalog, transactions, files |
| `DataFile` | header (counts, free list), slots of rows | `addRecord`, `writeRecord`, `readRecord`, `deleteRecord`, iterators | `Pager` |
| `IndexFile` | header, B-tree of nodes, parents of nodes, free nodes | `addKey`, `findKey`, `deleteKey`, `fillFrom`, iterators | `Pager`, `Schema` |
| `BlobManager` | header, handles, free blobs (the list of them in memory) | `addBlob`, `readBlob`, `writeBlob`, `deleteBlob` | `Pager` |
| `SystemInfoManager` | the catalog in memory, and its rows in four `DataFile`s | `load`, `addTable`, `addColumn`, `createIndex`, `dropTable`, ... | `DataFile`, `IndexFile` |
| `Inserter`, `Deleter`, `Updater` | rows to change | change a table's rows, index keys and blobs together | `DataFile`, `IndexFile`, `BlobManager` |
| `DataSequence`s | positions in their sources | `reset`, `advance`, `hasEnded` | files, each other |
| Optimizers, query tree, executor | the plan of one query | rewrite the plan, build the sequences | catalog |
| Parser, AST, algebrizer, types, printer | none between statements | text to plan, values to bytes, rows to text | |

Statements run one at a time on one thread; the second thread only reads the
console and hands over a string. What is hard here is therefore not the
interleaving of threads but

* pages that live in four places (a transaction's copy, the cache, the big file,
  nowhere yet), each with a flag that says whether it is behind the others;
* physical pages that pass from a deleted file to another, with an order that the
  metadata file does not record;
* the end of the process at any moment, between the writes of one flush;
* statements that end in one of four ways (success, failure, exception, `exit`)
  after having changed any number of pages;
* structures threaded through bytes that have a second use (the free list of
  `DataFile`, the tags of `BlobManager`), through memory that a rollback does not
  revert (the catalog, the free blobs), or through several pages that one operation
  must change together (the B-tree and its parents' table);
* several steps of one change, of which a later one may be refused;
* sequences that are reset and advanced by one another, with flags that must agree
  between two walks of the same source;
* rewritings of a condition into bounds, unions and filters that must mean the same.

`PROJECT.json` lists each hazard at its line, with the properties that cover it.

What makes each part correct:

* page store: no page belongs to two owners, is lost, or is reused while in use;
  the order of a file's pages survives a restart; a dirty page is queued exactly
  once and a clean one is on disk; a read finds what was last written; an idle
  program writes everything;
* transactions: a commit keeps all changes, a rollback none; nothing is committed
  that was not asked for; a read inside a transaction is never stale;
* record files: an insertion never takes a row's slot, the row count is exact, a
  scan meets every row;
* indexes: the keys of the tree are those added and not deleted, in order, each
  reachable from the root, nodes within their bounds, parents right;
* blobs: the pieces of a page, used or free, partition it; a handle leads to its
  own blob;
* catalog: memory and rows agree after every statement, whatever its end;
* row changes: the keys of every index are those of the rows of the table;
* plans: a condition keeps its meaning, and the scans that replace it its rows;
* queries: the rows that are read are those the query defines, in its order.

## Modules

| Module | Models | Abstract specification |
|---|---|---|
| `PageManager` | `PageManager.{h,cpp}` and the flushing loop of `main()` | `PageStore`: an array of pages per file that survives restarts |
| `Session` | `TransactionManager.{h,cpp}`, the transaction statements, the statement loop of `main()`, over `PageStore` | `Transactions`: what the user is promised of statements and transactions |
| `DataFile` | `DataFile.{h,cpp}` | `RecordTable`: rows under ids |
| `BTree` | `IndexFile.{h,cpp}`, `IndexFilePrivate.h` | `KeySet`: a set of keys with records |
| `Blobs` | `BlobManager.{h,cpp}` | `BlobStore`: data under handles |
| `Catalog` | `SystemInfoManager.{h,cpp}`, what `DDLExecutor.cpp` does with it | |
| `Rows` | `Inserter`, `Deleter`, `Updater` of `DataSequence.{h,cpp}`, with `Executor` and `main()`, over what `RecordTable`, `KeySet` and `BlobStore` promise | |
| `Scalars` | values, expressions and conditions (`QueryTree.h`, `ComputerVisitor.{h,cpp}`) | |
| `Plans` | `ConstantOptimizer.cpp`, `ConditionOptimizer.cpp`, `TableReadOptimizer.cpp`, the index scans of `DataSequence.cpp`, the search and the iterator of `IndexFile.cpp` | the rows that meet the condition as it was written |
| `Iterators` | the sequences of `DataSequence.cpp` and `GroupDataSequence.cpp` | |
| `Queries` | `SelectNode::algebrize()`, `Executor::execute()`, over `Iterators` | the answer as the query defines it |

`PageManagerRefinement` is the mapping under which `PageManager` implements
`PageStore`. `PageManagerProofs`, `SessionProofs`, `DataFileProofs`, `BlobsProofs`,
`BTreeProofs`, `RowsProofs`, `CatalogProofs` and `PlansProofs` hold the proofs. `MCBTree`, `MCBlobs`, `MCCatalog`, `MCPlans`,
`MCQueries` and `MCRows` define the small keys, blobs, tables, conditions and
queries that TLC is given; the other modules are small enough to be given
model values by their `.cfg` alone.

The modules are layered as the program is. `Session` takes `PageStore` for its
storage; `Rows` takes rows, indexes and blobs to be what the abstract specifications
of `DataFile`, `BTree` and `Blobs` say, and their defects are thereby kept apart
from its own; `Plans` and `Queries` read tables and indexes that do not change.

### PageManager

Variables carry the names of the members they stand for (`metadata`,
`deletedPages`, `pageCount`, `metadataUpdated`, `cache`, `dirtyQueue`); `disk` and
`metaFile` are the two files, `pc` and `call` say where the process is. A C++ loop
is one action per iteration, since the process may be killed (`Crash`) between two
of them: the constructor's (`LoadPage`), the one that lengthens a file in
`retrieve()` (`ExtendFile`), that of `deleteFile()` (`DeletePage`), and the flushing
loops of `main()` and `flushAll()` (`FlushOne`); `flushMetadata()` is two writes
(`FlushHeader`, `FlushOwners`), since the seek between them sends the first to the
file. What is in memory is left as it is when the process ends and forgotten by
`Start`, so that a property about memory says `pc # "down"`.

The only writer of cached pages is `TransactionManager::commit()`, which copies a
page over a retrieved one and calls `update()`: the request "write". Reads are the
request "read".

Three places of undefined behaviour are modelled by what a build can do there:

* `flushOne()` has no `return` after it wrote a page: `FlushOneResults` is the set
  of values it may return, `BOOLEAN` where nothing is assumed and `{TRUE}` where the
  run asks what holds of the code as it was meant;
* `getFreePage()` dereferences `end()` when no deleted page is above the file's
  last one (`ExtendFileAborts`): the process dies;
* the constructor reads past its buffer when the metadata is torn: any owner.

### Session

`pages` is `PageStore`'s array. A statement is any sequence of `RetrieveWrite`
(a page copied and left alone, as the constructors of the files do with their
headers) and `Write` (a page copied, changed and updated). It ends by `Succeed`,
`Fail`, `FailCreateIndex` (which rolls back itself and then counts as a success),
or `Throw`; DROP is `DropQuery`, some of these operations, and `DropFile`. `Throws`
and `Drops` say whether statements throw and when files are deleted. `commit()` is
one action per page. `exit` is a `Rollback`: what is uncommitted is dropped and the
next process starts in `autoCommitMode`.

`Transactions` has the database as committed and as the statements see it. The
mapping takes a commit to happen when `commit()` is entered; no statement runs
before its loop is done.

### DataFile

A number is three digits in base `BYTE` instead of eight in base 256: only the
lowest digit, which is also the status of a slot, and the highest, which
`FRL_MASK` clears, matter. `char` is signed in the builds `SmallQL.vcxproj` describes,
so the comparisons of a status with `0xFF` never hold. After one deletion the list
never ends in `NULL64` again: `NULL64` comes back as `2^56 - 256`, a record of a page
around number 2 * 10^9 for the catalog's record sizes. `retrieve()` maps every page
before the one it is asked for, and runs out of memory (`Exhaust`); `LastPage` is
the last page for which it does not.

### BTree

`file` is the file of one index: its nodes by their pages, the header's counter, list
of free pages and root, and the table of parents, which lies on page 0 and on every
`PARENTING_NORMAL_SIZE`-th page after it. Leaves and internal nodes, two class
templates with the same methods in the code, are one kind of record; a node is its
cells and children, and the layout of its bytes is left out. A call (`addKey`,
`findKey`, `deleteKey`, one turn of `fillFrom`) is one action, computed by operators
that take the file and return it, each for a method of the code and in its order of
calls: `insertIntoNode` with `Rebalance` and `splitNode`, `deleteFromNode` with the
predecessor from `findRightmostNode`. A walk down the tree is a recursive function on the
pages, an insertion a sequence of turns: `InsertTurn` is what `insertIntoNode()` does to one
node and the call it makes of itself, for the parent after a split or for a neighbour after
a rebalancing, `MaxPage` of them at most. `updated` collects the pages `update()` is called
for, so that `unmarked` is what a commit would lose. The keys are numbers; `isUnique`
says whether they are told apart without their records.

Two steps read what is not there: the sibling of a node whose parent has no cell, and
the last cell of an empty leaf. `wild` is set there and the behaviour ends. A tree on
the way there is `Brittle`, and `Brittles` says whether deletions may make it so.

### Blobs

A page is the set of the pieces written on it, with their places and lengths; a read of
bytes that were written otherwise gives `Junk`. Sizes are those of the code (pages of
8192 bytes, tags of 2, links of 4); the numbers of entries per index page and of index
pages per master page are small. `mem` is what `BlobManager` keeps in memory: the free
blobs, and the counters, for the pointers of the constructor lead into a page that
belongs to no transaction after the first commit. `orphan` is the entry that `update()`
makes for a page without a copy, which `commit()` copies from a null pointer. `Usages`
says which calls and which ends of a transaction an execution has. A step by junk, or one
past the end of a page, leaves `status` at "wild" and the behaviour ends: `readBlob()` and
`deleteBlob()` come there by a pointer that is none, `addBlob()` by a blob whose start
has no room in any page (a remainder of more than `PAGE_SIZE - 8` bytes, whose rest is
negative in 32 bits), and a start by a chain of master pages that does not end.

`loadLists` follows that chain to its end, whatever the counters say, and takes as many
entries of every page of it as of the first. The header that is stored never counts a blob,
so it takes none; but the master pages are those of earlier processes, and the link of
page 1 leads to one that this process may have used for something else.

A loop that follows a chain (the overflow pages of a blob, the master pages, the free
handles) is a recursive function of the number of turns, as far as a chain without a
circle can go; a chain that does not end by then is junk.

### Catalog

`rows` and `committed` are the record files of tables, columns, indexes and columns of
indexes, with their free lists as `DataFile` has them; `memory` is the four maps of
`SystemInfoManager`; `files` are the files of tables and indexes, by their numbers, of
which only `DataFile::deleteFile()` and `IndexFile::deleteFile()` ask whether they are
there. A statement is one action: the operations of `SystemInfoManager` it calls, one
after the other, each from a record of rows, maps and files (`State`) to the next, then
the commit of `main()` in `autoCommitMode`. `trouble` collects what `addRecord()` met
that its callers ignore. `Loaded` is `load()`, and `Loadable` whether it throws, which
ends the program before it has started. A script is what the statements of one
execution may name. Four constants keep known defects out of a run (see below): with
`Rollbacks = FALSE` a transaction that has changed the catalog is not rolled back, and
one that has dropped something does not end with its process, since files go at once
(`NoneDropped`).

The loops of the code are in closed form where the order of their turns says nothing:
the deletion of the rows of a scan (`deleteRecords`) leaves the first of them at the end
of the free list and the last at its start, and the columns of a new table are added as
one sequence. Where it does, as in `addRecord()` of several rows (`Fillings`) and in the
columns that `load()` reads of an index (`KeyOf`), the loop is a recursive function of the
number of turns.

### Rows

`rows`, `indexes` and `blobs` are a table's files, `committed` the three as they were
last committed. INSERT is a step for each of its rows, which adds the row to the file and
its keys index by index, with the undo of the row that one of them refuses; the keys that
were taken before are those of the indexes before the first that refuses. The other
statements are one action that works their rows off in the order of the code; UPDATE first takes the old keys out of an index and then adds
the new ones, index by index, and writes the rows last. `Finish` is what `main()` does
next, so that the state between the two, which a failed statement leaves to the
rollback, can be looked at.

### Scalars and Plans

A row is a sequence of numbers with `Null` below all others, as `compareValue()` has
it. The key of a row in an index has zeros where the row has NULLs, since the bytes of a key
are compared without their null bits (`Stored`). `Plans` takes one query through the stages of `Executor`: `optimizeConstants`,
`optimizeConditions`, `optimizeTableReads`, `Execute`. `IndexScan` is the loop that
narrows the bounds of a scan by each comparison, with the one flag per side that all
columns share. An index is a tree of nodes with its cells in order (`Treelike`, `Sorted`); the
cells of an inner node are keys too. `SlotOf` is the binary search of a node, turn by turn;
`getIterator` goes down from the root with it, and `Walk` is the iterator's `advance()` until
the end of the index, a turn of its loop at a time (`Turned`). `Scan` adds the skipping of
the lower bound and the end at the upper one, as `TableIndexScanDS` does them. The operators take the table `t` of a query as a
parameter. What walks a tree (a term, a condition, a plan) is a recursive function on the
trees of at most `Nesting` levels, a constant.

### Iterators and Queries

A sequence is a record of its members and its sources; `reset` and `advance` are the
methods of that name, and `CondJoinDS`, with its five flags, is taken over step by
step. `Algebrized` gives every node of a SELECT the column numbers that
`SelectNode::algebrize()` gives it: those of the source, those that grouping leaves,
the aggregate functions, the other functions, the expressions to sort by. The
expected answer is defined from the query alone, without sequences or numbers.

## Runs

| Run | Asks | Bounds |
|---|---|---|
| `pages` | Are pages partitioned among files and free ones, vectors ascending, the queue exact, clean pages on disk, free pages zero? Is it a `PageStore`? Does an idle program write everything? | 2 files over 2 physical pages, 2 contents, kills anywhere, `flushOne()` TRUE |
| `session_transactions` | Are copies never stale, are changes left pending only by exceptions, is it `Transactions`? | 2 files of 2 pages, 2 contents; exceptions; DROP outside transactions |
| `session_drop_rollback` (violation) | Are committed pages untouched inside a transaction? | DROP anywhere |
| `table` | Is the row count exact, does a scan meet every row, is it a `RecordTable`? | base 4, 2 rows per page, 5 appended records |
| `table_format` (violation) | Does the file never find itself misformatted? | as above |
| `index_deep` | Are the tree, its parents, its pages right; is every change marked; is it a `KeySet`? | 3 cells per node; 3 tables of 14 rows to fill it from (trees of three levels), 5 keys that come and go; unique or not |
| `index_brittle` | Does no call go wrong unless the tree was brittle before it? | as above, with deletions that make it so |
| `blobs_store` | Are the pages tiled, handles chained, free space and rollbacks sound, is it a `BlobStore`? | blobs of 5000 bytes in a page and of 19876 bytes over three; 3 handles, 11 pages, 1 handle per index page, 2 index pages per master page |
| `catalog_tables` | Does memory agree with the rows, do the rows refer to what is there, does the program run on? | one table with two indexes and three definitions, or two tables; 4 slots per record file |
| `rows_changes` | Do all indexes have the keys of the rows after any ends of statements; is an UPDATE refused only for repeated keys? | 3 rows of two columns, 3 indexes, INSERTs of any number of them, 3 conditions, 3 assignments; CREATE INDEX outside of transactions |
| `plans_bounds` | Does a condition keep its meaning; do the scans lose no row; where may they be wrong? | conditions of up to five comparisons on four levels, tables of 6 and 5 rows with an index of two columns or of one, NULLs in a column without an index; point queries over an index of two leaves |
| `queries_answers` | Is the answer exact, in order, and does it come? | joins nested to two levels over tables of 1 to 4 rows, subqueries on the right, every kind of grouping and order of one table |

The two violations show what the code does against its own words:

* `session_drop_rollback`: BEGIN, DROP, ROLLBACK leaves the catalog with a table
  whose file is zero (`TransactionManager.h:17`).
* `table_format`: two deletions and two insertions, for instance CREATE TABLE A with
  a column, CREATE TABLE B with two, DROP TABLE B, CREATE TABLE C with two, lead the
  free list of the catalog's columns to a live row; the insertion is refused and
  the refusal ignored (`DataFile.cpp:135`).

Why the bounds are enough.

* `pages`: two files are what sharing, stealing and reuse take, and the code treats
  files alike. Two physical pages and two contents let a page be stale, overwritten,
  freed and given to the other file. The invariants that more pages could break
  (`PagePartition`, `AscendingMaps`, `DirtyExactlyQueued`, `CleanOnDisk`,
  `MetadataFlagSound`) are proved for any number of files, pages and contents and any
  result of `flushOne()`.
* `session_transactions`: two pages per file let a commit be caught between two pages.
* `table`: base 4 gives ids that have one digit and ids that have two, page 0 and the
  others, an id of a page beyond the memory, and free lists long enough to lose their
  order and to lead to a live row. All three properties are proved for any sizes.
* `index_deep`: three cells are the fewest with which a split leaves a cell on both
  sides; 14 rows in ascending order, in mixed order and with shared keys need a third
  level, both directions of rebalancing and a split of the root above an internal node;
  the first parenting page after page 0 comes among the first nodes. What a leaf or an
  internal node holds otherwise fixes no more than the two constants. `ChangesMarked`
  is proved for any sizes.
* `blobs_store`: one blob leaves a rest of its page and one needs a chain of two overflow
  pages; with three handles the master chain gets its second page, and a process may start with
  a chain of two. All but `RollbackComplete` are proved for any numbers and sizes under the
  premises named below.
* `catalog_tables`: with four slots the rows of a dropped table are found, freed and
  taken again, in another order; ids of tables and indexes are reused. All three
  properties are proved for any scripts without the known defects.
* `rows_changes`: with three rows two of them can exchange keys, and the third has the
  key that one of them would need; index 1 of 3 refuses between one that has the key
  and one that has not. All four properties are proved for any tables and indexes.
* `plans_bounds`: rows below, on, between and above the bounds of every comparison, and
  with equal first columns; conditions of four levels, with an OR below an AND and the
  other way round. All three properties are proved for any tables and conditions under
  the premises named below. Three keys that are a root between two leaves are enough to come
  from an inner node and from a leaf to a key, and to see a scan lose some.
* `queries_answers`: rows with no, one and several partners first, last and in between;
  right sides that are sorted, filtered, grouped or joined and reset for each left row.
  `MaxRows` is more than any expected answer has.

Every passing run fires every action of its module, except those of a defect that it
leaves out (below).

Fairness. `FairSpec` of `PageManager` asks that a process that has something to execute
executes it (loading, serving a request, flushing): there is one thread and no lock.
`Spec` of `Queries` asks that `selectData()` goes on with its loop. Nothing is assumed
of the user or of whoever starts the process.

Deadlock is checked in every run but `index_brittle`, whose behaviours end when a call
reads what is not there, and `blobs_store`, whose behaviours end when a start follows a
stale chain of master pages: what the program does after that is not defined. The program
itself can always be given a statement or started again.

## Known defects

The models are of the code as it is, so they also show what is wrong with it. Two such
runs are listed above. The properties below state what the code means to do and do not
hold; each can be seen with `tlc -config X.cfg M`, with the module `M` of the heading.
The passing runs leave the circumstances out by their constants, so that what else
could go wrong is not hidden behind them:
`FlushOneResults = {TRUE}`, `Drops = "alone"`, `Brittles = FALSE`, the `Usages` of
blobs (one transaction at a time keeps what it wrote), `Rollbacks`, `NamesReused`,
`DualDropped` and `ListsWorn` all FALSE, `Texts = {}`, indexes only of columns that are
never NULL, scans of ranges only over indexes of one leaf, no cross joins, no empty table on either side of a join, and, for
`AnswerExact`, no right or full join. `ExactButForDefects` names the
conditions under which a plan may answer wrongly and says that it does in no other case.

| Configuration | Property | Where | What happens |
|---|---|---|---|
| **`PageManagerRefinement`** | | | |
| `PageManager_flushAll` | `FlushAllWritesEverything` | `PageManager.cpp:133` | `flushOne()` falls off its end: if the build returns false there, the destructor leaves dirty pages unwritten that the metadata counts |
| **`Session`** | | | |
| `Session_exception` | `NothingPending` | `SmallQL.cpp:97` | the changes of a statement that ended with an exception are committed by the next one that succeeds |
| **`MCBTree`** | | | |
| `BTree_subtree` | `OnlyTheDeletedGoes` | `IndexFilePrivate.h:919` | an internal node that has lost its last cell still has a child: taken for empty, it is freed with the subtree below it |
| **`MCBlobs`** | | | |
| `Blobs_commit` | `CommitsSucceed` | `BlobManager.cpp:349` | `update(0)` without a copy of page 0: `commit()` copies from a null pointer |
| `Blobs_rollback` | `RollbackComplete` | `BlobManager.cpp:399` | the free blobs in memory are not rolled back: a blob that is in use again is given away |
| `Blobs_lists` | `ListsLoaded` | `BlobManager.cpp:54` | the index pages left to be read are never counted down: with a second master page `loadLists()` takes as many entries from it as from the first |
| `Blobs_start` | `StartsReturn` | `BlobManager.cpp:61` | a start follows the link of page 1 into a page that has been given out anew since, and may never find an end |
| `Blobs_restart` | `CommittedSurvives` | `BlobManager.cpp:232` | the counters are kept in a page that no transaction commits: after a restart there are no blobs |
| **`MCCatalog`** | | | |
| `Catalog_rollback` | `RowsConsistent` | `SystemInfoManager.cpp:142` | the maps are not rolled back: an index is committed for a table that is not |
| `Catalog_order` | `KeyOrderKept` | `SystemInfoManager.cpp:116` | after a restart the columns of an index come in the order of their slots |
| `Catalog_primary` | `PrimaryKeyIndexed` | `SystemInfoManager.cpp:181` | the index of a primary key is one of the first columns of the table |
| **`MCRows`** | | | |
| `Rows_delete` | `RowsDeleted` | `DataSequence.cpp:595` | every DELETE that finds a row answers as if it had failed |
| `Rows_text` | `TextKept` | `DataSequence.cpp:678` | an UPDATE leaves the blob id of the row 0 |
| `Rows_null` | `OnlyRepeatsRefused` | `DataType.cpp:364` | NULL and 0 are one key |

More of them show with a change to a configuration of the module, of these or of the runs:

| Change | Property | Where | What happens |
|---|---|---|---|
| `MCBlobs` with `Data <- TightSizes`, `Usages <- OneTransaction` | `BlobsReadable` | `BlobManager.cpp:267` | the last bytes of a block are given to the blob and counted as its data |
| `MCCatalog` with `Scripts <- SimpleScript` | `ExistingNamed` | `SystemInfoManager.cpp:230` | `dropTable()` leaves the names of its indexes |
| ... and `NamesReused = TRUE` | `KeepsRunning` | `SystemInfoManager.cpp:283` | DROP INDEX of such a name deletes a file that is gone |
| ... and `DualDropped = TRUE` | `KeepsRunning` | `SystemInfoManager.cpp:233` | DROP TABLE DUAL deletes the file of tables |
| `MCCatalog` with `Scripts <- TextKeysScript` | `KeepsRunning` | `SystemInfoManager.cpp:180` | the exception for a key of variable size comes after the rows were added |
| `MCCatalog` with `Scripts <- SimpleKeyedScript`, `ListsWorn = TRUE` | `IndexesKnown` | `SystemInfoManager.cpp:274` | a refusal of `addRecord()` is ignored: the index loses a column with a restart |
| `MCCatalog` with `Scripts <- SimpleScript`, `Rollbacks = TRUE` | `KeepsRunning` | `SystemInfoManager.cpp:233` | `dropTable()` deletes the files at once: after a rollback, or the end of the process before the commit, the table is there without a file, and dropping it again ends the program |
| `MCPlans` with `Tables <- Empty` | `AnswerRight` | `DataSequence.cpp:63` | the first row of an index scan is not compared with the upper bound |
| `MCPlans` with `Tables <- Overlaps` | `AnswerRight` | `DataSequence.cpp:245` | a row that meets two alternatives of an OR comes twice |
| `MCPlans` with `Tables <- Seconds` | `NoRowLost` | `DataType.cpp:708` | bounds of an index are compared with the first columns of the row |
| `MCPlans` with `Tables <- Stricts` | `AnswerRight` | `TableReadOptimizer.cpp:165` | one flag says of all the columns of a bound whether it is inclusive |
| `MCPlans` with `Tables <- Twices` | `AnswerRight` | `TableReadOptimizer.cpp:165` | a bound is replaced by a tighter value only, not by a strict comparison with the same one: `a >= 2 AND a > 2` finds the row 2 |
| `MCPlans` with `Tables <- Repeated` | `NoRowLost` | `IndexFile.cpp:300` | of several rows with one key, a scan may start at any |
| `MCPlans` with `Tables <- Leaves` | `NoRowLost` | `IndexFile.cpp:230` | from the last cell of a leaf `advance()` goes to the second cell of the next one: the key between them and the first cell are passed over, and a bound between a leaf's last key and its parent's starts behind the leaf |
| `MCPlans` with `Tables <- NullKeys` | `NoRowLost` | `DataType.cpp:350` | the key of a NULL is that of 0: the rows with NULL stand among the others, not below them, and a scan stops at them |
| `MCPlans` with `Tables <- NestedOrs` | `AlternativesKept` | `ConditionOptimizer.cpp:22` | a nested OR is erased before its children are moved |
| `MCPlans` with `Tables <- High` | `ScansStayInside` | `IndexFile.cpp:314` | a scan from above all keys reads behind the last cell |
| `MCQueries` with `Selects <- RightJoins` | `AnyJoinExact` | `DataSequence.cpp:388` | the walk over right rows without a pair reads the flags of other rows |
| `MCQueries` with `Selects <- CrossJoins` | `NoCrash` | `ConstantOptimizer.cpp:59` | a cross join has no condition to visit |
| `MCQueries` with `Selects <- EmptyRight` | `Ends` | `DataSequence.cpp:394` | a join with an empty table on the right never ends |
| `MCQueries` with `Selects <- EmptyLeft` | `NothingUndefined` | `DataSequence.cpp:403` | a join copies a row of an empty left table |
| `MCQueries` with `Selects <- EmptyGroup` | `AnswerExact` | `GroupDataSequence.cpp:15` | no rows make a group |
| `MCQueries` with `Selects <- AverageOfNone` | `NothingUndefined` | `ComputerVisitor.cpp:228` | the average of NULLs divides by zero |
| `MCQueries` with `Selects <- TwiceGrouped` | `NothingUndefined` | `Algebrizer.cpp:74` | GROUP BY a, a reads behind the row |
| `MCQueries` with `Selects <- Constants` | `NothingUndefined` | `Algebrizer.cpp:115` | a constant beside a column is read behind the row |
| `MCQueries` with `Selects <- WholeAndFunction` | `AnswerExact` | `GroupDataSequence.cpp:50` | without GROUP BY functions are read beside their place |

## Proofs

All proofs are checked by TLAPS, for every value of the constants that the modules'
assumptions admit.

**`PageManagerProofs`**: for any number of files, pages and contents, any result of
`flushOne()`, with or without kills.
`TypeCorrect`, `PagesPartition` and `MapsAscend` come from one inductive invariant,
`MapsInv`: the type of what `flushMetadata()` writes depends on every page having an
owner (`OwnerOfType`), and that a page read by the constructor is above those of its
file depends on the pages read so far being those below `loaded` (`Known`). Within
`deleteFile()` the pages freed are still in the vector of the file, which is why the
partition allows for `BeingFreed`. `QueueExact` and `CleanPagesOnDisk` come from
`WriteBack`: a change of a frame keeps it (`PutFrameWriteBack`), and writing one page
leaves the others (`DiskAfterWritePages`).

Of the same module are the theorems about what the two files say. `FlagSound` needs `FlagInv`, which
extends the property to the pages that the constructor has read so far, to the moment
between the two writes of `flushMetadata()`, and speaks of who is recorded for a page
(`Recorded`) where the property has a CHOOSE. `FreshPages` assumes that
`flushOne()` does not return FALSE after a write, and is about processes that were not
killed; its invariant `ZeroInv` carries the zeros of free pages from memory through the
files to the next process, for which the queue must be empty when the destructor gets
to the metadata.

`StoreKept` says that `PageManager` implements `PageStore`, for
any files, pages and contents and with kills anywhere, if `flushOne()` does not return FALSE
after a write. While the process is up the mapping reads the memory, so that the steps that
count are the ends and starts of processes: that what the constructor reads back is what the
destructor left. `MapReadBack` says so of the pages of a file: the metadata file has their
owners only, and there is one ascending listing of a set of pages (`OneListing`), so that
`MapsAscend` and `FlagSound` above give back the vector. `NoneDirty` and `CleanPagesOnDisk`
say it of what the pages hold, `FreshPages` of those a file has been given since.

**`DataFileProofs`**: `HeaderAlwaysSound` and `FileIsTable` assume that no two records
share a slot (`DistinctSlots`), which holds of a file of fewer than 2^32 pages as long as
the page of record 2^56 - 256, taken modulo 2^32, is none of them. Nothing is assumed of
the free list but what the code makes of it, `FreeListInv`: it leads to records that
were appended once, live or not, or to the end that it has lost. `ScansMeetRows` assumes
that the memory is too small for that last record. The arithmetic of the link's digits
is in `EndReadBack` and `LinkReadBack`. `FileIsTable` maps every step to one of
`RecordTable` or to a stutter.

**`SessionProofs`**: `TypeCorrect` and `OnlyThrowsLeaveChanges` hold whatever is
dropped. `CopiesStayFresh` and `SessionKeepsPromise` assume what the run
`session_transactions` does, that files are deleted outside transactions only
(`Drops # "anywhere"`), and rest on `Fresh`: a copy that is not dirty is the stored page,
and one that has been committed is too, while the loop of `commit()` is at the others.
`DropsAlone` says that no copy of a file is held while the file is being dropped.
`SessionKeepsPromise` is the refinement of `Transactions`, one lemma for the steps that
change what the user sees.

**`BlobsProofs`**: for any blobs, any numbers of handles per index page and of index pages
per master page, any number of pages and handles, and any calls, commits and restarts.
`SpaceIsAccounted`, `BlobsAreReadable` and `BlobsAreKept` (a file of blobs implements
`BlobStore`) have two premises, and without either they are false, as the
tables of known defects show. Nothing is rolled back (`"rollback" \notin Ends`): that as
long as blobs are only added a rollback does no harm (`RollbackComplete`) is model-checked. And the sizes of the
blobs are such that wherever the start of one is put it fills its block or leaves enough
to be a block (`WellCut(C)`, where the set `C` has the places at which blocks begin and
end): otherwise the code counts the rest as the blob's own. TLC evaluates
`RoundSizesAreWellCut` of `MCBlobs` to see that the blobs of the runs meet it.

The invariant, `Sound`, says that there are blobs `B`, master pages `M` and free handles `F`
of which the pages and the memory are the picture, and that `B` is what is read. `Mid` is
that picture with a call under way: with handles that are open, blocks taken and in no blob
yet, and blocks freed and not yet in the list. Its parts are `Tiles` (the blocks lie side by
side, fill every page that has one, and no two free ones touch), `Roles` (every page has one
use), `Masters` (the master pages name the index pages, in their order), `Handled` (entries and the chain of
free handles), `Placed` (tags, data and pointers of a blob) and `Owned` (blobs share no
block). A call is a path from one such picture to another: `HandleTaken`, `FirstTaken` and
`BlobSpread` lead to `BlobAdded`; `MidOpen`, `OverflowFreed`, `JoinedLeft` and
`BlockFreed` to `BlobDeleted`; and the two to `BlobWritten`. Each of the turns of a loop
keeps `Mid`. `BlobRead` then says that such a picture reads as its blobs, and `TiledHolds`,
`PagesAccountedHolds` and `HandlesChainedHolds` that it has what the properties ask, which
speak of what can be read off the pages. A restart begins with no blobs, whatever the pages
hold, because the header that is stored is always the first (the defect that
`Blobs_restart` shows), or does not come to its end (the one that `Blobs_start` shows):
`RestartSound` is that the old pages do not disturb the new blobs.

**`RowsProofs`**: for any table, texts, indexes, conditions, assignments and number of rows,
from the assumptions that a table has a column, that an index is of its columns and that
an expression is of the type of its column. `IndexesAlwaysAgree`, `RefusedRowsUndone` and
`UniqueAlwaysHeld` come from one invariant, `RowsInv`: the rows and indexes are sound as
committed and whenever a statement has succeeded, and an INSERT that has failed has at
least left them agreeing, which is what the undo of a refused row is for
(`InsertedRow`). A failed UPDATE leaves them to the rollback. `UpdatesRefusedOnlyForRepeats`
takes an UPDATE that an index refuses and shows two rows that would have had the same key
(`RefusedKey`, `RefusedUpdate`): the old keys have all gone before the first new one comes.

**`CatalogProofs`**: for any names, definitions and keys, any number of tables and indexes
and of slots, in transactions and with restarts. `CatalogConsistent`, `CatalogKnown` and
`CatalogRuns` come from `CatalogInv`. To what the properties say of the rows it adds the
shape of the record files (`FileOK`: an unused slot leads to the first slot or beyond every
page), that the columns of a table are numbered without gaps (`Numbered`), without which
`load()` throws, and that tables and indexes have their files (`Filed`), without which
`deleteFile()` ends the program. `Known` says of the maps what they must have for every row;
names of dropped indexes may be left in them. `LoadedIsKnown` is about `load()`;
`RowsAdded` and `RowsDeleted` are about the record files, `KeyColumnsRead` about the loop
that reads the columns of an index, and there is a lemma for each operation (`TableAdded`,
`IndexAdded`, `IndexUndone`, `TableDropped`, `IndexDropped`). The premise `NoDefects` is what
`catalog_tables` has: the known defects of the catalog are left out by the constants, and
the scripts have no key of variable size, nor one that names a column twice.

**`PlansProofs`**: for any tables, indexes, rows and conditions, of any number of levels.
`MeaningKept` is that the optimizers keep the meaning of a condition, on every row and at
every stage, unless an OR is right below an OR (`ConditionInv`). `RowsKept` is that the plan
answers with every row that meets the condition (`PlanInv`), and `AnswersExact` that it
answers with no other row and with none twice, but for the defects that
`ExactButForDefects` names (`ExactInv`): a scan of an empty range, a column that one value
bounds twice, alternatives of an OR that overlap. The two assume that all indexes
are plain (`PlainIndexes`): the columns of an index are the first of its table
(`LeadingColumns`), no two rows have the same key (`DistinctKeys`), no key has a NULL
(`NoNullKeys`), and the keys fit in one leaf. Without any of these premises they are false,
as the table of known defects shows (`Seconds`, `Repeated`, `NullKeys`, `Leaves`). TLC evaluates `Premises` of `MCPlans` to see that the tables of the run with an index
of one leaf meet them. `ExactButForDefects` speaks of
indexes of one column (`OneColumnEach`): with several, the one flag per side is wrong more
often. The argument is by levels: a claim about the conditions or plans of level `n` is
proved from that of level `n - 1` (`ConditionsInduction`). Below it are `SlotOfOk`, that the
binary search comes to the first key that is not below its bound, `BoundsForInside` and
`BoundsForExact`, that the bounds collected from a conjunction admit what it admits and,
without the defects, only that, and `ScanOk` and `ScanExact`, that a scan gives the rows
within its bounds.

**`BTreeProofs`**: for any keys, tables, capacities of nodes and numbers of pages, in brittle
trees too. `ChangesAlwaysMarked` is that `update()` has been called for every page that a
call changes, without which a commit would lose it. Its argument is `Follows(f, g, Z)`: what
differs between the files `f` and `g` is marked, but perhaps for the pages `Z`. It holds of
every method with `Z` empty (`SetNode`, `SetParent`, `AdoptedFollows`, `RedealFollows`,
`updateChildFollows`, `DeleteFromInnerFollows`) but for `allocateFreePage()`, which counts a
new page on page 0 and does not call `update(0)`. A split makes up for it, since it frees
the node it splits, and freeing marks page 0 (`splitNodeFollows`); so does a new root.
`TurnsDefined` and `insertFollows` take this from one turn of an insertion to all of them.
Nothing is assumed of the tree: what the pages hold does not matter to the argument.

A loop is a recursive function of the number of its turns, and what it computes is proved
by the least counterexample (`Least`, from the well-foundedness of the naturals), since the
induction theorems of the library take an operator, which no prover here can instantiate:
the first turn after which a claim fails is after one at which it holds
(`MapInLists`, `AssignedTuple`, `FillingsDefined`, `KeyReadDefined`).

Only model-checked are

* liveness (`IdleFlushes`, `Ends`), which TLAPS does not prove;
* of `BTree`, what is about the tree as a whole (`WellFormed`, `PagesAccounted`,
  `OnlyBrittleTreesFail`, and that it is a `KeySet`): the inductive invariant has to say
  which pages are below which, to what depth and between which keys, and to be kept through
  the turns of an insertion, at which the tree is not one;
* `Iterators` and `Queries` (`NothingLost`, `AnswerExact`, `NothingUndefined`, `InOrder`):
  their sequences of sequences are walked by RECURSIVE operators, of which TLAPS makes
  nothing;
* of `Blobs`, that rollbacks do no harm as long as blobs are only added (`RollbackComplete`): `mem` and the
  pages then speak of different sets of blobs, and the invariant would need both.

## Not modelled

* The lexer, the parser, the AST and the checks of types: text to tree, with no state
  between two statements. The models start from the tree.
* The encoding of values: bytes, null bits, casts, dates and times, and the functions of
  text. Values are numbers in the order of `compareValue()`. That the null bits are left out
  of a key is modelled: `Rows_null` and the tables `NullKeys` of `MCPlans` show what follows.
* CREATE INDEX inside a transaction, in `Rows`: after a ROLLBACK the catalog would keep the
  name of an index that is not there, which is `Catalog`'s matter.
* The printing of tables and SHOW, which only read.
* Opening and creating the files, errors of the file system, the buffers of `stdio`
  (a write is taken to reach the file when it is called, in order), and files of more
  than 2^32 bytes, for which `PageManager.cpp:88` computes the offset in 32 bits.
* The bytes of a node, and the overflow of very long keys in `IndexFilePrivate.h`.
* `CrossJoinDS`, which no plan contains, and `ConstTableDS`, which only feeds INSERT.
* The thread that reads the console: it shares nothing but the string it hands over.

`PROJECT.json` lists eleven hazards without a property of a passing run. Ten of them the code
does not avoid: they are in the tables of the known defects, and the runs leave their
circumstances out. The eleventh, a CREATE INDEX that rolls its transaction back, is what
`Transactions` says of it as well.

## The plan

What is next, in this order.

1. The invariant of the tree in `BTree`: `PagesAccounted` and `ParentsRight` first, then the
   order of the keys and the refinement of `KeySet`.
2. The proofs about `Blobs` with rollbacks of transactions that only add blobs.
3. The composition of `Rows` with `Session`, so that a statement that fails within a
   transaction meets the pages of its files and not their abstract specifications.
4. The order of NULLs in the keys of `Rows`, with unique indexes of columns that may be NULL.
5. The overflow of long keys in `BTree`.
