--------------------------- MODULE DataFileProofs ---------------------------
(***************************************************************************)
(* Proofs about DataFile: that its header counts its rows, and that it is  *)
(* a table (RecordTable) whatever its free list leads to, for pages,       *)
(* records and numbers of any size.                                        *)
(*                                                                         *)
(* What they assume is that no two records share a slot.  Slot() takes the *)
(* page number modulo the range of a PageId, so that a file of more pages  *)
(* than that would break it.                                               *)
(***************************************************************************)
EXTENDS DataFile, FiniteSetTheorems, TLAPS

DistinctSlots == \A i, j \in Ids : Slot(i) = Slot(j) => i = j

LiveIds == {id \in Ids : Live(id)}

\* Where a damaged free list may lead: to a record that was appended once, or
\* to the id that the end of the list has become.
Appended(id) == id < totalRecordCount
LeadsTo(n) == n \in Ids /\ (Appended(n) \/ n = ReadBack(NULL64))

FreeListInv ==
  /\ frlStart # NULL64 => LeadsTo(frlStart) /\ totalRecordCount > 0
  /\ \A s \in SlotIds :
       \/ FrlMask(slots[s].link) = 0
       \/ LeadsTo(FrlMask(slots[s].link))
  /\ \A id \in LiveIds : LeadsTo(id) /\ totalRecordCount > 0 /\ (Appended(id) \/ Fits(id))

HeaderInv == TypeOK /\ CountExact /\ FreeListInv

-----------------------------------------------------------------------------
(* Arithmetic of digits: the remainder of a number by a base b. *)

LEMMA Division ==
  ASSUME NEW n \in Nat, NEW b \in Nat, b > 0
  PROVE  /\ n % b \in 0 .. b - 1
         /\ n \div b \in Nat
         /\ n = b * (n \div b) + (n % b)
         /\ n % b <= n
<1>1. n \div b \in Int
  OBVIOUS
<1>2. n % b \in 0 .. b - 1
  OBVIOUS
<1>3. n = b * (n \div b) + (n % b)
  OBVIOUS
<1>4. n \div b >= 0
  BY <1>1, <1>2, <1>3
<1> QED
  BY <1>1, <1>2, <1>3, <1>4

LEMMA RemainderUnique ==
  ASSUME NEW q \in Nat, NEW b \in Nat, NEW r \in Nat, r < b
  PROVE  (b * q + r) % b = r
<1> DEFINE m == (b * q + r) % b
           d == (b * q + r) \div b
<1>1. b * q + r = b * d + m /\ d \in Nat /\ m \in 0 .. b - 1
  BY Division
<1>2. b * (q - d) = m - r
  BY <1>1
<1>3. q - d = 0
  BY <1>1, <1>2
<1> QED
  BY <1>1, <1>3

\* The end of the free list, read back, is a number that reads back as itself.
LEMMA EndReadBack ==
  /\ NULL64 \in Nat
  /\ ReadBack(NULL64) = BYTE * BYTE - BYTE
  /\ ReadBack(ReadBack(NULL64)) = ReadBack(NULL64)
  /\ ReadBack(NULL64) \in 0 .. NULL64
<1> DEFINE B == BYTE
           e == B * B - B
<1>1. B \in Nat /\ B > 3 /\ e \in Nat /\ B - 1 \in Nat
  BY ByteAssumption
<1>2. NULL64 = B * (B * B - 1) + (B - 1) /\ B * B - 1 \in Nat
  BY <1>1 DEF NULL64
<1>3. Low(NULL64) = B - 1
  BY <1>1, <1>2, RemainderUnique DEF Low
<1>4. NULL64 - Low(NULL64) = (B * B) * (B - 1) + e
  BY <1>1, <1>2, <1>3
<1>5. ReadBack(NULL64) = e
  BY <1>1, <1>4, RemainderUnique DEF ReadBack, FrlMask
<1>6. Low(e) = 0
  <2>1. e = B * (B - 1) + 0
    BY <1>1
  <2> QED
    BY <1>1, <2>1, RemainderUnique DEF Low
<1>7. FrlMask(e) = e
  BY <1>1 DEF FrlMask
<1>8. e <= B * B /\ B * B <= NULL64
  BY <1>1 DEF NULL64
<1>9. ReadBack(e) = e
  BY <1>1, <1>6, <1>7 DEF ReadBack
<1> QED
  BY <1>1, <1>2, <1>5, <1>8, <1>9

LEMMA LowDigit == \A n \in Nat : Low(n) \in 0 .. n
<1> SUFFICES ASSUME NEW n \in Nat PROVE Low(n) \in 0 .. n
  OBVIOUS
<1>1. BYTE \in Nat /\ BYTE > 0
  BY ByteAssumption
<1>2. n % BYTE \in 0 .. BYTE - 1 /\ n % BYTE <= n
  BY <1>1, Division
<1> QED
  BY <1>1, <1>2 DEF Low

\* A link read back is not above the record it was written for.
LEMMA LinkReadBack ==
  ASSUME NEW n \in 0 .. MaxRecords - 1
  PROVE  /\ n - Low(n) \in 0 .. NULL64
         /\ ReadBack(n) \in 0 .. n
<1>1. Low(n) \in 0 .. n
  BY RecordsBound, LowDigit
<1>2. n - Low(n) \in 0 .. n /\ n < BYTE * BYTE
  BY <1>1, ByteAssumption, RecordsBound
<1>3. FrlMask(n - Low(n)) = n - Low(n)
  BY <1>2, ByteAssumption DEF FrlMask
<1>4. BYTE * BYTE <= NULL64
  BY ByteAssumption DEF NULL64
<1> QED
  BY <1>2, <1>3, <1>4, EndReadBack, ByteAssumption DEF ReadBack

-----------------------------------------------------------------------------
(* One slot of the file changes at a time. *)

LEMMA IdsFinite == IsFiniteSet(Ids) /\ Ids \in SUBSET Nat /\ IsFiniteSet(LiveIds)
<1>1. MaxRecords - 1 \in Int
  BY RecordsBound
<1>2. IsFiniteSet(0 .. MaxRecords - 1)
  BY <1>1, FS_Interval
<1>3. IsFiniteSet(Ids)
  BY <1>2, FS_AddElement DEF Ids
<1>4. Ids \in SUBSET Nat
  BY EndReadBack, ByteAssumption DEF Ids
<1>5. LiveIds \in SUBSET Ids
  BY DEF LiveIds
<1> QED
  BY <1>3, <1>4, <1>5, FS_Subset

\* Overwriting the slot of one record leaves those of the others.
LEMMA OneSlotChanges ==
  ASSUME TypeOK, DistinctSlots, NEW id \in Ids, NEW r \in Records, OverwriteSlot(id, r)
  PROVE  /\ slots' \in [SlotIds -> Records]
         /\ slots'[Slot(id)] = r
         /\ \A i \in Ids : i # id => slots'[Slot(i)] = slots[Slot(i)]
         /\ \A s \in SlotIds : slots'[s] = r \/ slots'[s] = slots[s]
BY DEF TypeOK, DistinctSlots, OverwriteSlot, SlotIds

\* A new record is one live record more, a deleted one is one less.
LEMMA LiveAfterAdd ==
  ASSUME TypeOK, DistinctSlots, NEW id \in Ids, ~Live(id), NEW r \in Records,
         r.status = LIVE, OverwriteSlot(id, r)
  PROVE  LiveIds' = LiveIds \cup {id} /\ Cardinality(LiveIds') = Cardinality(LiveIds) + 1
<1>1. LiveIds' = LiveIds \cup {id} /\ id \notin LiveIds
  BY OneSlotChanges DEF LiveIds, Live
<1> QED
  BY <1>1, IdsFinite, FS_AddElement

LEMMA LiveAfterDelete ==
  ASSUME TypeOK, DistinctSlots, NEW id \in Ids, Live(id), NEW r \in Records,
         r.status = FREE, OverwriteSlot(id, r)
  PROVE  LiveIds' = LiveIds \ {id} /\ Cardinality(LiveIds') = Cardinality(LiveIds) - 1
<1>1. LiveIds' = LiveIds \ {id} /\ id \in LiveIds
  BY OneSlotChanges DEF LiveIds, Live, LIVE, FREE
<1> QED
  BY <1>1, IdsFinite, FS_RemoveElement

\* The three kinds of records that are written.
LEMMA WrittenRecords ==
  /\ \A row \in Rows : [status |-> LIVE, link |-> 0, row |-> row] \in Records
  /\ \A link \in 0 .. NULL64 : [status |-> FREE, link |-> link, row |-> ZeroRow] \in Records
  /\ ZeroRecord \in Records
  /\ FrlMask(0) = 0
BY ByteAssumption, RowsAssumption, EndReadBack
   DEF Records, ZeroRecord, LIVE, FREE, FrlMask

\* What deleteRecord() writes as a link leads on when it is read back.
LEMMA LinkLeadsOn ==
  ASSUME TypeOK, FreeListInv, totalRecordCount > 0
  PROVE  /\ frlStart - Low(frlStart) \in 0 .. NULL64
         /\ LeadsTo(ReadBack(frlStart))
<1>1. CASE frlStart = NULL64
  <2>1. Low(NULL64) \in 0 .. NULL64
    BY EndReadBack, LowDigit
  <2>2. ReadBack(NULL64) \in Ids
    BY DEF Ids
  <2> QED
    BY <1>1, <2>1, <2>2, EndReadBack DEF LeadsTo
<1>2. CASE frlStart = ReadBack(NULL64)
  <2>1. frlStart \in 0 .. NULL64 /\ NULL64 \in Nat
    BY <1>2, EndReadBack
  <2>2. Low(frlStart) \in 0 .. frlStart
    BY <2>1, LowDigit
  <2>3. frlStart - Low(frlStart) \in 0 .. NULL64
    BY <2>1, <2>2
  <2>4. ReadBack(NULL64) \in Ids /\ ReadBack(frlStart) = ReadBack(NULL64)
    BY <1>2, EndReadBack DEF Ids
  <2> QED
    BY <2>3, <2>4 DEF LeadsTo
<1>3. CASE frlStart # NULL64 /\ Appended(frlStart)
  <2>1. frlStart \in 0 .. MaxRecords - 1 /\ frlStart < totalRecordCount
    <3>1. frlStart \in Nat
      BY <1>3, IdsFinite DEF FreeListInv, LeadsTo
    <3> QED
      BY <1>3, <3>1, RecordsBound DEF Appended, TypeOK
  <2>2. ReadBack(frlStart) \in 0 .. frlStart
    BY <2>1, LinkReadBack
  <2>3. ReadBack(frlStart) \in Ids
    BY <2>1, <2>2, RecordsBound DEF Ids
  <2>4. ReadBack(frlStart) < totalRecordCount
    BY <2>1, <2>2 DEF TypeOK
  <2> QED
    BY <2>1, <2>3, <2>4, LinkReadBack DEF LeadsTo, Appended
<1> QED
  BY <1>1, <1>2, <1>3 DEF FreeListInv, LeadsTo

-----------------------------------------------------------------------------
(* The header's invariant. *)

LEMMA InitHeader == Init => HeaderInv
<1> SUFFICES ASSUME Init PROVE HeaderInv
  OBVIOUS
<1>1. slots \in [SlotIds -> Records] /\ \A s \in SlotIds : slots[s] = ZeroRecord
  BY WrittenRecords DEF Init
<1>2. TypeOK
  <2>1. /\ activeRecordCount = 0 /\ totalRecordCount = 0 /\ frlStart = NULL64
        /\ misformatted = FALSE /\ exhausted = FALSE
    BY DEF Init
  <2>2. activeRecordCount \in Nat /\ totalRecordCount \in 0 .. MaxRecords
    BY <2>1, RecordsBound
  <2> QED
    BY <1>1, <2>1, <2>2, Zenon DEF TypeOK
<1>3. LiveIds = {}
  BY <1>1 DEF LiveIds, Live, SlotIds, ZeroRecord, FREE, LIVE
<1>4. CountExact
  BY <1>3, FS_EmptySet DEF Init, CountExact, LiveIds
<1>5. FreeListInv
  BY <1>1, <1>3, WrittenRecords DEF Init, FreeListInv, ZeroRecord
<1> QED
  BY <1>2, <1>4, <1>5 DEF HeaderInv

LEMMA HeaderStep ==
  ASSUME DistinctSlots, HeaderInv, [Next]_vars
  PROVE  HeaderInv'
<1> USE DEF HeaderInv
<1> DEFINE NewRow(row) == [status |-> LIVE, link |-> 0, row |-> row]
<1>1. Cardinality(LiveIds) \in Nat /\ activeRecordCount = Cardinality(LiveIds)
  BY IdsFinite, FS_CardinalityType DEF CountExact, LiveIds
<1>2. ASSUME UNCHANGED <<header, slots>>, misformatted' \in BOOLEAN, exhausted' \in BOOLEAN
      PROVE  HeaderInv'
  <2>1. LiveIds' = LiveIds
    BY <1>2 DEF LiveIds, Live
  <2> QED
    BY <1>2, <2>1 DEF header, TypeOK, CountExact, FreeListInv, Live, LeadsTo, Appended
<1>3. ASSUME NEW row \in Rows, Reuse(row)
      PROVE  HeaderInv'
  <2>1. PICK id \in Ids : id = frlStart
    BY <1>3 DEF Reuse, TypeOK
  <2>2. /\ OverwriteSlot(id, NewRow(row)) /\ ~Live(id) /\ Fits(id) /\ LeadsTo(id)
        /\ frlStart' = FrlMask(slots[Slot(id)].link)
        /\ activeRecordCount' = activeRecordCount + 1
        /\ UNCHANGED <<totalRecordCount, misformatted, exhausted>> /\ totalRecordCount > 0
    BY <1>3, <2>1 DEF Reuse, LooksFree, Live, FREE, LIVE, history, FreeListInv
  <2>3. NewRow(row) \in Records /\ NewRow(row).status = LIVE /\ FrlMask(NewRow(row).link) = 0
    BY WrittenRecords
  <2>4. LiveIds' = LiveIds \cup {id} /\ Cardinality(LiveIds') = Cardinality(LiveIds) + 1
    BY <2>2, <2>3, LiveAfterAdd
  <2>5. LeadsTo(frlStart')
    <3>1. Slot(id) \in SlotIds
      BY DEF SlotIds
    <3>2. LeadsTo(0)
      BY <2>2, RecordsBound DEF LeadsTo, Appended, Ids, TypeOK
    <3> QED
      BY <2>2, <3>1, <3>2 DEF FreeListInv
  <2>6. /\ slots' \in [SlotIds -> Records]
        /\ \A s \in SlotIds : slots'[s] = NewRow(row) \/ slots'[s] = slots[s]
    BY <2>2, <2>3, OneSlotChanges
  <2>7. \A n : LeadsTo(n)' <=> LeadsTo(n)
    BY <2>2 DEF LeadsTo, Appended
  <2>8. FreeListInv'
    BY <2>2, <2>3, <2>4, <2>5, <2>6, <2>7 DEF FreeListInv, Appended
  <2>9. TypeOK'
    BY <1>1, <2>2, <2>5, <2>6, <2>7 DEF TypeOK, LeadsTo
  <2> QED
    BY <1>1, <2>2, <2>4, <2>8, <2>9 DEF CountExact, LiveIds
<1>4. ASSUME NEW row \in Rows, AppendRecord(row)
      PROVE  HeaderInv'
  <2>1. PICK id \in Ids : id = totalRecordCount
    BY <1>4, RecordsBound DEF AppendRecord, TypeOK, Ids
  <2>2. /\ OverwriteSlot(id, NewRow(row))
        /\ totalRecordCount' = id + 1 /\ id \in 0 .. MaxRecords - 1
        /\ activeRecordCount' = activeRecordCount + 1
        /\ frlStart' = NULL64 /\ UNCHANGED <<misformatted, exhausted>>
    BY <1>4, <2>1, RecordsBound DEF AppendRecord, TotalGrows, history, TypeOK
  <2>3. NewRow(row) \in Records /\ NewRow(row).status = LIVE /\ FrlMask(NewRow(row).link) = 0
    BY WrittenRecords
  <2>4. ~Live(id)
    <3>1. id # ReadBack(NULL64)
      BY <2>2, RecordsBound, ByteAssumption, EndReadBack
    <3>2. ~LeadsTo(id)
      BY <2>1, <2>2, <3>1 DEF LeadsTo, Appended
    <3> QED
      BY <3>2 DEF FreeListInv, LiveIds
  <2>5. LiveIds' = LiveIds \cup {id} /\ Cardinality(LiveIds') = Cardinality(LiveIds) + 1
    BY <2>2, <2>3, <2>4, LiveAfterAdd
  <2>6. /\ slots' \in [SlotIds -> Records]
        /\ \A s \in SlotIds : slots'[s] = NewRow(row) \/ slots'[s] = slots[s]
    BY <2>2, <2>3, OneSlotChanges
  <2>7. \A n \in Ids : (LeadsTo(n) => LeadsTo(n)') /\ (Appended(n) => Appended(n)')
    BY <2>1, <2>2, IdsFinite DEF LeadsTo, Appended
  <2>8. LeadsTo(id)' /\ Appended(id)' /\ totalRecordCount' > 0
    BY <2>2 DEF LeadsTo, Appended
  <2>9. FreeListInv'
    <3>1. ASSUME NEW s \in SlotIds
          PROVE  (FrlMask(slots[s].link) = 0 \/ LeadsTo(FrlMask(slots[s].link)))'
      <4>1. CASE slots'[s] = slots[s]
        BY <2>7, <4>1 DEF FreeListInv, LeadsTo
      <4>2. CASE slots'[s] = NewRow(row)
        BY <2>3, <4>2
      <4> QED
        BY <2>6, <4>1, <4>2
    <3>2. \A i \in LiveIds' :
            LeadsTo(i)' /\ totalRecordCount' > 0 /\ (Appended(i)' \/ Fits(i))
      BY <2>5, <2>7, <2>8 DEF FreeListInv, LiveIds
    <3> QED
      BY <2>2, <3>1, <3>2 DEF FreeListInv
  <2>10. TypeOK'
    BY <1>1, <2>2, <2>6, RecordsBound DEF TypeOK
  <2> QED
    BY <1>1, <2>2, <2>5, <2>9, <2>10 DEF CountExact, LiveIds
<1>5. ASSUME NEW id \in Ids, NEW row \in Rows, writeRecord(id, row)
      PROVE  HeaderInv'
  <2>1. Slot(id) \in SlotIds
    BY DEF SlotIds
  <2>2. /\ slots' = [slots EXCEPT ![Slot(id)].row = row]
        /\ UNCHANGED <<header, misformatted, exhausted>>
    BY <1>5 DEF writeRecord, history
  <2>3. /\ slots' \in [SlotIds -> Records]
        /\ \A s \in SlotIds : slots'[s].status = slots[s].status /\ slots'[s].link = slots[s].link
    BY <2>1, <2>2 DEF TypeOK, Records
  <2>4. LiveIds' = LiveIds
    BY <2>3 DEF LiveIds, Live, SlotIds
  <2> QED
    BY <1>1, <2>2, <2>3, <2>4
       DEF header, TypeOK, CountExact, LiveIds, FreeListInv, LeadsTo, Appended
<1>6. ASSUME NEW id \in Ids, deleteRecord(id)
      PROVE  HeaderInv'
  <2> DEFINE r == [status |-> FREE, link |-> frlStart - Low(frlStart), row |-> ZeroRow]
  <2>1. /\ Live(id) /\ OverwriteSlot(id, r) /\ frlStart' = id
        /\ activeRecordCount' = activeRecordCount - 1
        /\ UNCHANGED <<totalRecordCount, misformatted, exhausted>>
    BY <1>6 DEF deleteRecord, CountDeleted, history
  <2>2. id \in LiveIds /\ LeadsTo(id) /\ totalRecordCount > 0
    BY <2>1 DEF LiveIds, FreeListInv
  <2>3. r \in Records /\ LeadsTo(FrlMask(r.link))
    BY <2>2, LinkLeadsOn, WrittenRecords DEF ReadBack
  <2>4. LiveIds' = LiveIds \ {id} /\ Cardinality(LiveIds') = Cardinality(LiveIds) - 1
    BY <2>1, <2>3, LiveAfterDelete
  <2>5. /\ slots' \in [SlotIds -> Records]
        /\ \A s \in SlotIds : slots'[s] = r \/ slots'[s] = slots[s]
    BY <2>1, <2>3, OneSlotChanges
  <2>6. \A n : LeadsTo(n)' <=> LeadsTo(n)
    BY <2>1 DEF LeadsTo, Appended
  <2>7. Cardinality(LiveIds') \in Nat
    BY <2>4, IdsFinite, FS_RemoveElement, FS_CardinalityType
  <2>8. FreeListInv'
    BY <2>1, <2>2, <2>3, <2>4, <2>5, <2>6 DEF FreeListInv, Appended
  <2>9. TypeOK'
    BY <1>1, <2>1, <2>4, <2>5, <2>7 DEF TypeOK
  <2> QED
    BY <1>1, <2>1, <2>4, <2>8, <2>9 DEF CountExact, LiveIds
<1>7. CASE Refuse \/ Exhaust
  BY <1>2, <1>7 DEF Refuse, Exhaust, TypeOK
<1>8. CASE UNCHANGED vars
  BY <1>2, <1>8 DEF vars, history, TypeOK
<1> QED
  BY <1>3, <1>4, <1>5, <1>6, <1>7, <1>8 DEF Next

LEMMA HeaderInvariant == ASSUME DistinctSlots PROVE Spec => []HeaderInv
<1>1. HeaderInv /\ [Next]_vars => HeaderInv'
  BY HeaderStep
<1> QED
  BY <1>1, InitHeader, PTL DEF Spec

\* The header of a record file counts its rows, however often records were
\* deleted, reused and refused, and wherever the free list leads.
THEOREM HeaderAlwaysSound == DistinctSlots /\ Spec => []HeaderSound
<1> SUFFICES ASSUME DistinctSlots PROVE Spec => []HeaderSound
  OBVIOUS
<1>1. HeaderInv => HeaderSound
  BY DEF HeaderInv, HeaderSound
<1> QED
  BY <1>1, HeaderInvariant, PTL

\* A scan meets every row, where the memory is too small for the page that the
\* end of a damaged free list leads to.
THEOREM ScansMeetRows ==
  DistinctSlots /\ ~Fits(ReadBack(NULL64)) /\ Spec => []ScanMeetsEveryRow
<1> SUFFICES ASSUME DistinctSlots, ~Fits(ReadBack(NULL64)) PROVE Spec => []ScanMeetsEveryRow
  OBVIOUS
<1>1. HeaderInv => ScanMeetsEveryRow
  BY DEF HeaderInv, FreeListInv, ScanMeetsEveryRow, LiveIds, LeadsTo, Appended
<1> QED
  BY <1>1, HeaderInvariant, PTL

-----------------------------------------------------------------------------
(* The file is a table. *)

LEMMA TableStep ==
  ASSUME DistinctSlots, HeaderInv, [Next]_vars
  PROVE  [Table!Next]_Table!vars
<1> USE DEF HeaderInv
<1> DEFINE table == [id \in {i \in Ids : Live(i)} |-> slots[Slot(id)].row]
           NewRow(row) == [status |-> LIVE, link |-> 0, row |-> row]
<1>1. DOMAIN table = LiveIds
  BY DEF LiveIds
<1>2. ASSUME UNCHANGED <<header, slots>>
      PROVE  UNCHANGED Table!vars
  BY <1>2 DEF header, Table!vars, Live
<1>3. ASSUME NEW id \in Ids, ~Live(id), NEW row \in Rows, OverwriteSlot(id, NewRow(row)),
             activeRecordCount' = activeRecordCount + 1
      PROVE  Table!Add
  <2>1. NewRow(row) \in Records
    BY WrittenRecords
  <2>2. LiveIds' = LiveIds \cup {id} /\ id \notin LiveIds
    BY <1>3, <2>1, LiveAfterAdd DEF LiveIds
  <2>3. /\ slots'[Slot(id)].row = row
        /\ \A i \in LiveIds : slots'[Slot(i)].row = slots[Slot(i)].row
    BY <1>3, <2>1, <2>2, OneSlotChanges DEF LiveIds
  <2>4. table' = [i \in LiveIds \cup {id} |-> IF i = id THEN row ELSE table[i]]
    BY <2>2, <2>3 DEF LiveIds
  <2> QED
    BY <1>1, <1>3, <2>2, <2>4 DEF Table!Add, Table!Set
<1>4. ASSUME NEW row \in Rows, Reuse(row)
      PROVE  Table!Add
  <2>1. frlStart \in Ids /\ ~Live(frlStart)
    BY <1>4 DEF Reuse, LooksFree, Live, FREE, LIVE, TypeOK
  <2> QED
    BY <1>3, <1>4, <2>1 DEF Reuse
<1>5. ASSUME NEW row \in Rows, AppendRecord(row)
      PROVE  Table!Add
  <2>1. totalRecordCount \in 0 .. MaxRecords - 1 /\ totalRecordCount \in Ids
    BY <1>5, RecordsBound DEF AppendRecord, TypeOK, Ids
  <2>2. totalRecordCount # ReadBack(NULL64)
    BY <2>1, RecordsBound, ByteAssumption, EndReadBack
  <2>3. ~Live(totalRecordCount)
    BY <2>1, <2>2 DEF FreeListInv, LiveIds, LeadsTo, Appended
  <2> QED
    BY <1>3, <1>5, <2>1, <2>3 DEF AppendRecord
<1>6. ASSUME NEW id \in Ids, NEW row \in Rows, writeRecord(id, row)
      PROVE  Table!Write
  <2>1. Slot(id) \in SlotIds /\ \A i \in Ids : Slot(i) \in SlotIds
    BY DEF SlotIds
  <2>2. id \in LiveIds /\ slots' = [slots EXCEPT ![Slot(id)].row = row]
        /\ UNCHANGED activeRecordCount
    BY <1>6 DEF writeRecord, LiveIds, header
  <2>3. /\ slots'[Slot(id)].row = row
        /\ \A i \in Ids : slots'[Slot(i)].status = slots[Slot(i)].status
        /\ \A i \in Ids : i # id => slots'[Slot(i)] = slots[Slot(i)]
    BY <2>1, <2>2 DEF TypeOK, Records, DistinctSlots
  <2>4. LiveIds' = LiveIds \cup {id}
    BY <2>2, <2>3 DEF LiveIds, Live
  <2>5. \A i \in LiveIds : slots'[Slot(i)].row = IF i = id THEN row ELSE slots[Slot(i)].row
    BY <2>3 DEF LiveIds
  <2>6. table' = [i \in LiveIds \cup {id} |-> IF i = id THEN row ELSE table[i]]
    BY <2>2, <2>4, <2>5 DEF LiveIds
  <2> QED
    BY <1>1, <2>2, <2>6 DEF Table!Write, Table!Set
<1>7. ASSUME NEW id \in Ids, deleteRecord(id)
      PROVE  Table!Delete
  <2> DEFINE r == [status |-> FREE, link |-> frlStart - Low(frlStart), row |-> ZeroRow]
  <2>1. Live(id) /\ OverwriteSlot(id, r) /\ activeRecordCount' = activeRecordCount - 1
    BY <1>7 DEF deleteRecord, CountDeleted
  <2>2. id \in LiveIds /\ totalRecordCount > 0
    BY <2>1 DEF LiveIds, FreeListInv
  <2>3. r \in Records
    BY <2>2, LinkLeadsOn, WrittenRecords
  <2>4. LiveIds' = LiveIds \ {id}
    BY <2>1, <2>3, LiveAfterDelete
  <2>5. \A i \in LiveIds \ {id} : slots'[Slot(i)].row = slots[Slot(i)].row
    BY <2>1, <2>3, OneSlotChanges DEF LiveIds
  <2>6. table' = [i \in LiveIds \ {id} |-> table[i]]
    BY <2>4, <2>5 DEF LiveIds
  <2> QED
    BY <1>1, <2>1, <2>2, <2>6 DEF Table!Delete
<1>8. CASE Refuse \/ Exhaust \/ UNCHANGED vars
  BY <1>2, <1>8 DEF Refuse, Exhaust, vars
<1> QED
  BY <1>4, <1>5, <1>6, <1>7, <1>8 DEF Next, Table!Next

\* Whatever its free list leads to, a record file is a table: an insertion takes
\* no slot of a row, and no operation changes a row that it does not name.
THEOREM FileIsTable == DistinctSlots /\ Spec => TableSpec
<1> SUFFICES ASSUME DistinctSlots PROVE Spec => TableSpec
  OBVIOUS
<1>1. Init => Table!Init
  <2> SUFFICES ASSUME Init PROVE Table!Init
    OBVIOUS
  <2>1. \A i \in Ids : ~Live(i)
    BY DEF Init, Live, SlotIds, ZeroRecord, FREE, LIVE
  <2> QED
    BY <2>1 DEF Init, Table!Init
<1>2. HeaderInv /\ [Next]_vars => [Table!Next]_Table!vars
  BY TableStep
<1> QED
  BY <1>1, <1>2, HeaderInvariant, PTL DEF TableSpec, Table!Spec, Spec
=============================================================================
