------------------------------ MODULE DataFile ------------------------------
(***************************************************************************)
(* DataFile.{h,cpp}: the rows of a table in slots of fixed size, with a    *)
(* free list threaded through the slots of deleted rows.                   *)
(*                                                                         *)
(* The first eight bytes of a free slot are the id of the next free one,   *)
(* and the first of them, the least significant of the id, is also the     *)
(* slot's status.  A number is here three digits in base BYTE instead of   *)
(* eight in base 256; Low(n) is the digit that the status byte shares.     *)
(* A status is read as a char, which is signed in the builds the project   *)
(* describes: it equals 0x00 and 0x01 but never 0xFF.                      *)
(***************************************************************************)
EXTENDS Integers, FiniteSets

CONSTANTS
  BYTE,                \* values of a byte
  Rows,                \* what a record may hold
  ZeroRow,             \* a record of zero bytes
  recordsPerZeroPage,  \* slots of page 0, after the header
  recordsPerPage,      \* slots of the other pages
  PageIdRange,         \* values of a PageId, 2^32 in the code
  LastPage,            \* the last page of a file whose map fits in memory
  MaxRecords           \* bound: records appended to the file

ASSUME ByteAssumption == BYTE \in Nat /\ BYTE > 3
ASSUME SlotsAssumption ==
  recordsPerZeroPage \in Nat \ {0} /\ recordsPerPage \in Nat \ {0} /\ PageIdRange \in Nat \ {0}
ASSUME LastPageAssumption == LastPage \in Nat
ASSUME RowsAssumption == ZeroRow \in Rows
ASSUME RecordsBound == MaxRecords \in Nat /\ MaxRecords <= BYTE * BYTE - BYTE

VARIABLES
  activeRecordCount, totalRecordCount, frlStart,   \* the header page
  slots,               \* (page, index in the page) -> record
  misformatted,        \* history: "File is in incorrect format!" was printed
  exhausted            \* history: the process ran out of memory

header == <<activeRecordCount, totalRecordCount, frlStart>>
history == <<misformatted, exhausted>>
vars == <<header, slots, history>>

NULL64 == BYTE * BYTE * BYTE - 1
Low(n) == n % BYTE

\* FRL_MASK clears the most significant byte.
FrlMask(n) == n % (BYTE * BYTE)

FREE == 0
LIVE == 1

PageZeroTwice(id) ==                                                   \* mutant
  IF id < recordsPerZeroPage THEN <<0, id>>
  ELSE <<(id - recordsPerZeroPage) \div recordsPerPage, (id - recordsPerZeroPage) % recordsPerPage>>
\* Where readRecordInternal() finds record id.
Slot(id) ==
  IF id < recordsPerZeroPage THEN <<0, id>>
  ELSE <<((id - recordsPerZeroPage) \div recordsPerPage + 1) % PageIdRange,
         (id - recordsPerZeroPage) % recordsPerPage>>

\* What addRecord() reads back from a slot whose link was n: the status has
\* replaced the lowest digit, and FRL_MASK clears the highest.
ReadBack(n) == FrlMask(n - Low(n))

\* The ids that can come up: those of appended records, and the one that the
\* end of the free list becomes.
Ids == 0 .. MaxRecords - 1 \cup {ReadBack(NULL64)}
SlotIds == {Slot(id) : id \in Ids}

\* A slot: its status byte, and the rest of its bytes as the record and, in a
\* slot of the free list, as the other digits of the link.
Records == [status : 0 .. BYTE - 1, link : 0 .. NULL64, row : Rows]
ZeroRecord == [status |-> FREE, link |-> 0, row |-> ZeroRow]

Live(id) == slots[Slot(id)].status = LIVE

-----------------------------------------------------------------------------
Init ==
  /\ activeRecordCount = 0
  /\ totalRecordCount = 0
  /\ frlStart = NULL64
  /\ slots = [s \in SlotIds |-> ZeroRecord]
  /\ misformatted = FALSE
  /\ exhausted = FALSE

OverwriteSlot(id, r) == slots' = [slots EXCEPT ![Slot(id)] = r]

AnyStatus(id) == TRUE                                                  \* mutant
\* addRecord() takes a slot from the free list only if it looks free.
LooksFree(id) == slots[Slot(id)].status = FREE

\* PageManager maps every page of a file up to the one it is asked for.
Fits(id) == Slot(id)[1] <= LastPage

\* addRecord() at the head of the free list.
Reuse(row) ==
  /\ frlStart # NULL64
  /\ Fits(frlStart)
  /\ LooksFree(frlStart)
  /\ OverwriteSlot(frlStart, [status |-> LIVE, link |-> 0, row |-> row])
  /\ frlStart' = FrlMask(slots[Slot(frlStart)].link)
  /\ activeRecordCount' = activeRecordCount + 1
  /\ UNCHANGED <<totalRecordCount, history>>

\* addRecord() at the head of the free list finds a row there and gives up.
Refuse ==
  /\ frlStart # NULL64
  /\ Fits(frlStart)
  /\ ~LooksFree(frlStart)
  /\ misformatted' = TRUE
  /\ UNCHANGED <<header, slots, exhausted>>

\* addRecord() asks for a page so far away that the memory for the page map is
\* exhausted: std::bad_alloc ends the process before anything is changed.  The
\* file goes on as the next process finds it.
Exhaust ==
  /\ frlStart # NULL64
  /\ ~Fits(frlStart)
  /\ exhausted' = TRUE
  /\ UNCHANGED <<header, slots, misformatted>>

TotalKept == UNCHANGED totalRecordCount                                \* mutant
TotalGrows == totalRecordCount' = totalRecordCount + 1

\* addRecord() with an empty free list.
AppendRecord(row) ==
  /\ frlStart = NULL64
  /\ totalRecordCount < MaxRecords
  /\ OverwriteSlot(totalRecordCount, [status |-> LIVE, link |-> 0, row |-> row])
  /\ TotalGrows
  /\ activeRecordCount' = activeRecordCount + 1
  /\ UNCHANGED <<frlStart, history>>

writeRecord(id, row) ==
  /\ id < totalRecordCount
  /\ Live(id)
  /\ slots' = [slots EXCEPT ![Slot(id)].row = row]
  /\ UNCHANGED <<header, history>>

CountKept == UNCHANGED activeRecordCount                               \* mutant
CountDeleted == activeRecordCount' = activeRecordCount - 1

\* The row of a free slot is no longer read: it is overwritten on reuse.
deleteRecord(id) ==
  /\ Live(id)
  /\ OverwriteSlot(id, [status |-> FREE, link |-> frlStart - Low(frlStart), row |-> ZeroRow])
  /\ frlStart' = id
  /\ CountDeleted
  /\ UNCHANGED <<totalRecordCount, history>>

Next ==
  \/ \E row \in Rows : Reuse(row) \/ AppendRecord(row)
  \/ Refuse \/ Exhaust
  \/ \E id \in Ids, row \in Rows : writeRecord(id, row)
  \/ \E id \in Ids : deleteRecord(id)

Spec == Init /\ [][Next]_vars

-----------------------------------------------------------------------------
(* Properties. *)

TypeOK ==
  /\ activeRecordCount \in Nat
  /\ totalRecordCount \in 0 .. MaxRecords
  /\ frlStart \in Ids \cup {NULL64}
  /\ slots \in [SlotIds -> Records]
  /\ misformatted \in BOOLEAN
  /\ exhausted \in BOOLEAN

\* The count of rows in the header is the number of live records, through
\* appends, deletions, reuses and refusals.
CountExact == activeRecordCount = Cardinality({id \in Ids : Live(id)})

\* What the header says of the slots is right, whatever they have been through.
HeaderSound == TypeOK /\ CountExact

\* Whatever state the free list is in, an insertion takes no slot of a row and
\* the other operations leave the rows they do not name alone.
Table == INSTANCE RecordTable
           WITH table <- [id \in {i \in Ids : Live(i)} |-> slots[Slot(id)].row],
                count <- activeRecordCount
TableSpec == Table!Spec

\* A table scan ends at totalRecordCount: it meets every row, also those that
\* took the place of deleted ones.  (Were the memory large enough to map the
\* page that the end of a damaged free list leads to, a row there would not be
\* met: LastPage decides.)
ScanMeetsEveryRow == \A id \in Ids : Live(id) => id < totalRecordCount

\* addRecord() finds the file it has written itself in the correct format.
FormatCorrect == ~misformatted
=============================================================================
