---------------------------- MODULE CatalogProofs ----------------------------
(***************************************************************************)
(* Proofs about Catalog: whatever tables and indexes the statements create    *)
(* and drop, in whatever order and with whatever restarts, the rows of the    *)
(* catalog refer to what is there, the maps of memory say what the rows say,  *)
(* and nothing ends the program.                                              *)
(*                                                                          *)
(* The known defects stay out, as in the run catalog_tables (NoDefects).      *)
(***************************************************************************)
EXTENDS Catalog, FiniteSetTheorems, WellFoundedInduction, TLAPS

-----------------------------------------------------------------------------
(* What holds of one file: the free list begins nowhere, beyond any page or at *)
(* a slot, and goes on at the first slot, which is then there.                *)

FileOK(f) ==
  /\ f = [slots |-> f.slots, frlStart |-> f.frlStart]
  /\ f.slots \in Seq(Range(f.slots))
  /\ f.frlStart \in {NULL64, FarAway} \cup 0..(Len(f.slots) - 1)
  /\ \A n \in DOMAIN f.slots : ~IsRow(f.slots[n]) => f.slots[n].link \in {FarAway, 0}
  /\ NoneTwice(f)

(* What holds of the rows: T of the tables, C of the columns, X of the indexes *)
(* and K of the columns of the indexes.                                       *)

TablesOK(T) ==
  /\ \A x \in T : x.table \in Nat \ {Dual} /\ x.name # "DUAL"
  /\ \A x, y \in T : x.table = y.table \/ x.name = y.name => x = y

ColumnsOK(T, C) ==
  /\ \A c \in C : c.id \in Nat /\ ~NotAKey(c.column) /\ \E x \in T : x.table = c.table
  /\ \A c, d \in C : c.table = d.table /\ c.id = d.id => c = d

\* The columns of a table are numbered from 0.
Numbered(r, t) == ColumnIds(r, t) = 0..(Cardinality(ColumnIds(r, t)) - 1)

IndexesOK(T, X) ==
  /\ \A x \in X : x.index \in Nat /\ \E y \in T : y.table = x.table
  /\ \A x, y \in X : x.table = y.table /\ (x.index = y.index \/ x.name = y.name) => x = y

KeysOK(C, X, K) ==
  \A k \in K : /\ \E x \in X : x.table = k.table /\ x.index = k.index
               /\ \E c \in C : c.table = k.table /\ c.id = k.column

Sound(r) ==
  /\ r = [tables |-> r.tables, columns |-> r.columns, indexes |-> r.indexes,
          indexColumns |-> r.indexColumns]
  /\ FileOK(r.tables) /\ FileOK(r.columns) /\ FileOK(r.indexes) /\ FileOK(r.indexColumns)
  /\ TablesOK(Rows(r.tables))
  /\ ColumnsOK(Rows(r.tables), Rows(r.columns))
  /\ \A x \in Rows(r.tables) : Numbered(r, x.table)
  /\ IndexesOK(Rows(r.tables), Rows(r.indexes))
  /\ KeysOK(Rows(r.columns), Rows(r.indexes), Rows(r.indexColumns))

(* What the maps of memory say of them.  Names of dropped indexes may be left. *)

TablesMapped(r, tables) ==
  /\ tables = [t \in {x.table : x \in Rows(r.tables)} \cup {Dual} |-> tables[t]]
  /\ tables[Dual] = DualTable
  /\ \A x \in Rows(r.tables) : tables[x.table] = LoadedTable(r, x)

NamesMapped(T, tableNames) ==
  /\ tableNames = [n \in {x.name : x \in T} \cup {"DUAL"} |-> tableNames[n]]
  /\ tableNames["DUAL"] = Dual
  /\ \A x \in T : tableNames[x.name] = x.table

KeyColumns(K, t, i) == {k.column : k \in {k \in K : k.table = t /\ k.index = i}}

IndexMapped(x, K, indexes) ==
  /\ <<x.table, x.index>> \in DOMAIN indexes
  /\ indexes[<<x.table, x.index>>].name = x.name
  /\ indexes[<<x.table, x.index>>].unique = x.unique
  /\ Range(indexes[<<x.table, x.index>>].columns) = KeyColumns(K, x.table, x.index)

IndexNameMapped(x, indexNames) ==
  /\ <<x.table, x.name>> \in DOMAIN indexNames
  /\ indexNames[<<x.table, x.name>>] = x.index

Known(r, m) ==
  /\ m = [tables |-> m.tables, tableNames |-> m.tableNames,
          indexes |-> m.indexes, indexNames |-> m.indexNames]
  /\ TablesMapped(r, m.tables)
  /\ NamesMapped(Rows(r.tables), m.tableNames)
  /\ \A x \in Rows(r.indexes) : /\ IndexMapped(x, Rows(r.indexColumns), m.indexes)
                               /\ IndexNameMapped(x, m.indexNames)

\* Tables and indexes have their files.
Filed(r, there) ==
  /\ \A x \in Rows(r.tables) : <<x.table>> \in there
  /\ \A x \in Rows(r.indexes) : <<x.table, x.index>> \in there

CatalogInv ==
  /\ running
  /\ script \in Scripts
  /\ Sound(committed)
  /\ Sound(rows)
  /\ Known(rows, memory)
  /\ Filed(rows, files)

-----------------------------------------------------------------------------
(* Numbers and record files. *)

\* A nonempty set of numbers has a least one: every induction here is an
\* argument about the least counterexample.
LEMMA Least ==
  ASSUME NEW S \in SUBSET Nat, S # {}
  PROVE  \E n \in S : \A m \in S : n <= m
PROOF
  <1>1. IsWellFoundedOn(OpToRel(<, Nat), Nat)
    BY NatLessThanWellFounded
  <1>2. PICK n \in S : \A m \in S : ~(<<m, n>> \in OpToRel(<, Nat))
    BY <1>1, WFMin
  <1>3. \A m \in S : ~(m < n)
    BY <1>2 DEF OpToRel
  <1> QED BY <1>3

LEMMA Greatest ==
  ASSUME NEW N \in Nat, NEW S \in SUBSET (0..N), S # {}
  PROVE  \E n \in S : \A m \in S : n >= m
PROOF
  <1> DEFINE D == {d \in 0..N : N - d \in S}
  <1>1. D \in SUBSET Nat
    OBVIOUS
  <1>2. D # {}
    <2>1. PICK n \in S : TRUE
      OBVIOUS
    <2>2. N - n \in D
      BY <2>1
    <2> QED BY <2>2
  <1>3. PICK d \in D : \A e \in D : d <= e
    <2> HIDE DEF D
    <2> QED BY <1>1, <1>2, Least
  <1>4. ASSUME NEW m \in S PROVE N - d >= m
    <2>1. N - m \in D
      OBVIOUS
    <2>2. d \in Nat /\ d <= N - m /\ m \in Nat
      BY <1>3, <2>1
    <2> HIDE DEF D
    <2> QED BY <2>2
  <1> QED BY <1>3, <1>4

\* The lowest number that is not taken is a number, and not taken.
LEMMA LowestIsFree ==
  ASSUME NEW ids, IsFiniteSet(ids)
  PROVE  LowestNotIn(ids) \in Nat /\ LowestNotIn(ids) \notin ids
PROOF
  <1> DEFINE N == Cardinality(ids)
             Unused == {n \in 0..N : n \notin ids}
  <1>1. N \in Nat
    BY FS_CardinalityType
  <1>2. Unused # {}
    <2> SUFFICES ASSUME Unused = {} PROVE FALSE
      OBVIOUS
    <2>1. 0..N \subseteq ids
      OBVIOUS
    <2>2. Cardinality(0..N) <= N
      BY <2>1, FS_Subset
    <2>3. Cardinality(0..N) = N + 1
      BY <1>1, FS_Interval
    <2> QED BY <1>1, <2>2, <2>3
  <1>3. PICK n \in Unused : \A m \in Unused : n <= m
    <2>1. Unused \in SUBSET Nat
      BY <1>1
    <2> HIDE DEF Unused
    <2> QED BY <1>2, <2>1, Least
  <1>4. n \notin ids /\ 0..(n - 1) \subseteq ids
    BY <1>1, <1>3
  <1> QED BY <1>1, <1>3, <1>4 DEF LowestNotIn

\* A row that addRecord() takes is in the file with all that were, once.
LEMMA RowAdded ==
  ASSUME NEW f, FileOK(f), NEW row, row.table # NoTable, row \notin Rows(f), Trouble(f) = {}
  PROVE  FileOK(addRecord(f, row)) /\ Rows(addRecord(f, row)) = Rows(f) \cup {row}
PROOF
  <1> DEFINE g == addRecord(f, row)
             L == Len(f.slots)
  <1> PICK S : S = Range(f.slots) \cup {row}
    OBVIOUS
  <1>0. f.slots \in Seq(S) /\ L \in Nat /\ DOMAIN f.slots = 1..L
    BY DEF FileOK, Range
  <1>1. CASE f.frlStart = NULL64
    <2>1. g = [slots |-> Append(f.slots, row), frlStart |-> NULL64]
      BY <1>1 DEF addRecord
    <2>2. g.slots = Append(f.slots, row) /\ g.frlStart = NULL64
      BY <2>1
    <2>3. g.slots \in Seq(S) /\ DOMAIN g.slots = 1..(L + 1) /\ g.slots[L + 1] = row
          /\ \A n \in 1..L : g.slots[n] = f.slots[n]
      BY <1>0, <2>2
    <2> HIDE DEF g
    <2>4. Places(g) = Places(f) \cup {L + 1}
      BY <1>0, <2>3 DEF Places, IsRow
    <2>5. Rows(g) = Rows(f) \cup {row}
      <3>1. \A n \in Places(f) : g.slots[n] = f.slots[n]
        BY <1>0, <2>3 DEF Places
      <3> QED BY <2>3, <2>4, <3>1 DEF Rows
    <2>6. NoneTwice(g)
      BY <1>0, <2>3, <2>4 DEF NoneTwice, FileOK, Rows, Places
    <2>7. g.slots \in Seq(Range(g.slots))
      BY <2>3 DEF Range
    <2>8. \A n \in DOMAIN g.slots : ~IsRow(g.slots[n]) => g.slots[n].link \in {FarAway, 0}
      BY <1>0, <2>3 DEF FileOK, IsRow
    <2> QED BY <2>1, <2>2, <2>5, <2>6, <2>7, <2>8 DEF FileOK, g
  <1>2. CASE f.frlStart # NULL64
    <2> DEFINE m == f.frlStart + 1
    <2>1. f.frlStart \in 0..(L - 1) /\ ~IsRow(f.slots[m])
      BY <1>2 DEF Trouble, FileOK
    <2>2. g = [slots |-> [f.slots EXCEPT ![m] = row], frlStart |-> f.slots[m].link]
      BY <1>2 DEF addRecord
    <2>3. g.slots = [f.slots EXCEPT ![m] = row] /\ g.frlStart = f.slots[m].link
      BY <2>2
    <2>4. m \in 1..L /\ f.slots[m].link \in {FarAway, 0}
      BY <1>0, <2>1 DEF FileOK
    <2>5. g.slots \in Seq(S) /\ DOMAIN g.slots = 1..L /\ Len(g.slots) = L /\ g.slots[m] = row
          /\ \A n \in 1..L \ {m} : g.slots[n] = f.slots[n]
      BY <1>0, <2>3, <2>4
    <2>6. g.frlStart \in {NULL64, FarAway} \cup 0..(Len(g.slots) - 1)
      BY <1>0, <2>3, <2>4, <2>5
    <2>7. g = [slots |-> g.slots, frlStart |-> g.frlStart]
      BY <2>2
    <2> HIDE DEF g, m
    <2>8. Places(g) = Places(f) \cup {m} /\ m \notin Places(f)
      BY <1>0, <2>1, <2>4, <2>5 DEF Places, IsRow, m
    <2>9. Rows(g) = Rows(f) \cup {row}
      BY <1>0, <2>5, <2>8 DEF Rows, Places
    <2>10. NoneTwice(g)
      BY <1>0, <2>5, <2>8 DEF NoneTwice, FileOK, Rows, Places
    <2>11. g.slots \in Seq(Range(g.slots))
      BY <2>5 DEF Range
    <2>12. \A n \in DOMAIN g.slots : ~IsRow(g.slots[n]) => g.slots[n].link \in {FarAway, 0}
      BY <1>0, <2>4, <2>5 DEF FileOK, IsRow
    <2> QED BY <2>6, <2>7, <2>9, <2>10, <2>11, <2>12 DEF FileOK, g
  <1> QED BY <1>1, <1>2

\* The deletion of some rows leaves the others.
LEMMA RowsDeleted ==
  ASSUME NEW f, FileOK(f), NEW places \in SUBSET Places(f)
  PROVE  /\ FileOK(deleteRecords(f, places))
         /\ Rows(deleteRecords(f, places)) = {f.slots[n] : n \in Places(f) \ places}
PROOF
  <1> DEFINE g == deleteRecords(f, places)
             L == Len(f.slots)
  <1>0. L \in Nat /\ DOMAIN f.slots = 1..L /\ f.slots \in Seq(Range(f.slots)) /\ places \subseteq 1..L
    BY DEF FileOK, Range, Places
  <1>1. CASE places = {}
    BY <1>1 DEF deleteRecords, Rows
  <1>2. CASE places # {}
    <2> DEFINE low == Min(places)
               high == Max(places)
               Slot(n) == IF n \notin places THEN f.slots[n]
                          ELSE FreeSlot(IF n = low THEN f.frlStart ELSE 0)
    <2>1. high \in places
      <3>0. places \in SUBSET (0..L)
        BY <1>0
      <3>1. \E n \in places : \A m \in places : n >= m
        BY <1>0, <1>2, <3>0, Greatest
      <3> QED BY <3>1 DEF Max
    <2>2. g = [slots |-> [n \in 1..L |-> Slot(n)], frlStart |-> high - 1]
      BY <1>0, <1>2 DEF deleteRecords
    <2>3. g.slots = [n \in 1..L |-> Slot(n)] /\ g.frlStart = high - 1
          /\ g = [slots |-> g.slots, frlStart |-> g.frlStart]
      BY <2>2
    <2>4. \A n \in places : ~IsRow(Slot(n)) /\ Slot(n).link \in {FarAway, 0}
      BY DEF FreeSlot, IsRow
    <2>5. \A n \in (1..L) \ places : Slot(n) = f.slots[n]
      OBVIOUS
    <2> HIDE DEF Slot, high, low, g
    <2>6. DOMAIN g.slots = 1..L /\ (\A n \in 1..L : g.slots[n] = Slot(n))
      BY <2>3
    <2>7. g.slots \in Seq(Range(g.slots)) /\ Len(g.slots) = L
      <3>1. \A n \in 1..L : Slot(n) \in Range(g.slots)
        BY <2>6 DEF Range
      <3>2. g.slots \in [1..L -> Range(g.slots)]
        BY <2>3, <3>1
      <3> QED BY <1>0, <3>2
    <2>8. g.frlStart \in 0..(Len(g.slots) - 1)
      BY <1>0, <2>1, <2>3, <2>7
    <2>9. \A n \in DOMAIN g.slots : ~IsRow(g.slots[n]) => g.slots[n].link \in {FarAway, 0}
      BY <1>0, <2>4, <2>5, <2>6 DEF FileOK
    <2>10. Places(g) = Places(f) \ places
      BY <1>0, <2>4, <2>5, <2>6 DEF Places
    <2>11. \A n \in Places(g) : g.slots[n] = f.slots[n]
      BY <1>0, <2>5, <2>6, <2>10 DEF Places
    <2>12. Rows(g) = {f.slots[n] : n \in Places(f) \ places}
      BY <2>10, <2>11 DEF Rows
    <2>13. NoneTwice(g)
      BY <2>10, <2>11 DEF NoneTwice, FileOK
    <2> QED BY <2>3, <2>7, <2>8, <2>9, <2>12, <2>13 DEF FileOK, g
  <1> QED BY <1>1, <1>2

\* What a sequence of additions computes, as a function of the number of rows.
FillsUpTo(f, added, m, filled) ==
  filled = [n \in 0..m |-> IF n = 0 THEN f ELSE addRecord(filled[n - 1], added[n])]

LEMMA FillingsDefined ==
  ASSUME NEW f, NEW added, Len(added) \in Nat
  PROVE  FillsUpTo(f, added, Len(added), Fillings(f, added))
PROOF
  <1> DEFINE N == Len(added)
             Wrong == {m \in 0..N : ~ \E filled : FillsUpTo(f, added, m, filled)}
  <1>1. Wrong = {}
    <2> SUFFICES ASSUME Wrong # {} PROVE FALSE
      OBVIOUS
    <2>1. Wrong \in SUBSET Nat
      OBVIOUS
    <2>2. PICK m \in Wrong : \A k \in Wrong : m <= k
      <3> HIDE DEF Wrong
      <3> QED BY <2>1, Least
    <2>3. m # 0
      <3>1. FillsUpTo(f, added, 0, [n \in 0..0 |-> f])
        BY DEF FillsUpTo
      <3> QED BY <3>1
    <2>4. m \in 1..N /\ m - 1 \in 0..N /\ m - 1 \notin Wrong
      BY <2>2, <2>3
    <2>5. PICK filled : FillsUpTo(f, added, m - 1, filled)
      BY <2>4
    <2> DEFINE more == [n \in 0..m |-> IF n = m THEN addRecord(filled[m - 1], added[m]) ELSE filled[n]]
    <2>6. ASSUME NEW n \in 0..m
          PROVE  more[n] = IF n = 0 THEN f ELSE addRecord(more[n - 1], added[n])
      <3>1. CASE n = m
        BY <2>4, <3>1
      <3>2. CASE n # m /\ n # 0
        <4>1. n \in 0..(m - 1) /\ n - 1 \in 0..(m - 1) /\ n - 1 # m /\ n - 1 \in 0..m
          BY <2>4, <3>2
        <4>2. filled[n] = addRecord(filled[n - 1], added[n])
          BY <2>5, <3>2, <4>1 DEF FillsUpTo
        <4> QED BY <3>2, <4>1, <4>2
      <3>3. CASE n # m /\ n = 0
        <4>1. filled[0] = f
          BY <2>4, <2>5 DEF FillsUpTo
        <4> QED BY <3>3, <4>1
      <3> QED BY <3>1, <3>2, <3>3
    <2>7. FillsUpTo(f, added, m, more)
      <3>1. more = [n \in 0..m |-> more[n]]
        OBVIOUS
      <3> HIDE DEF more
      <3> QED BY <2>6, <3>1 DEF FillsUpTo
    <2> QED BY <2>2, <2>7
  <1>2. \E filled : FillsUpTo(f, added, N, filled)
    BY <1>1
  <1> DEFINE filled == CHOOSE filled : FillsUpTo(f, added, N, filled)
  <1>3. Fillings(f, added) = filled
    BY DEF Fillings, FillsUpTo
  <1> QED BY <1>2, <1>3

\* Rows that are new and that no addRecord() refuses are all in the file.
LEMMA RowsAdded ==
  ASSUME NEW f, FileOK(f), NEW S, NEW added \in Seq(S),
         \A n \in DOMAIN added : added[n].table # NoTable /\ added[n] \notin Rows(f),
         \A m, n \in DOMAIN added : added[m] = added[n] => m = n,
         \A n \in DOMAIN added : Trouble(Fillings(f, added)[n - 1]) = {}
  PROVE  /\ FileOK(Fillings(f, added)[Len(added)])
         /\ Rows(Fillings(f, added)[Len(added)]) = Rows(f) \cup Range(added)
PROOF
  <1> PICK filled : filled = Fillings(f, added)
    OBVIOUS
  <1> PICK N : N = Len(added)
    OBVIOUS
  <1>0. N \in Nat /\ DOMAIN added = 1..N
    OBVIOUS
  <1>1. FillsUpTo(f, added, N, filled)
    BY <1>0, FillingsDefined
  <1> DEFINE Fits(m) == /\ FileOK(filled[m])
                        /\ Rows(filled[m]) = Rows(f) \cup {added[n] : n \in 1..m}
             Wrong == {m \in 0..N : ~Fits(m)}
  <1>2. Fits(0)
    <2>1. filled[0] = f /\ 1..0 = {}
      BY <1>0, <1>1 DEF FillsUpTo
    <2> QED BY <2>1
  <1>3. ASSUME NEW m \in 1..N, Fits(m - 1) PROVE Fits(m)
    <2>1. filled[m] = addRecord(filled[m - 1], added[m])
      BY <1>0, <1>1 DEF FillsUpTo
    <2>2. m \in DOMAIN added /\ Trouble(filled[m - 1]) = {}
      BY <1>0
    <2>3. added[m] \notin Rows(filled[m - 1])
      BY <1>0, <1>3, <2>2
    <2>4. FileOK(filled[m]) /\ Rows(filled[m]) = Rows(filled[m - 1]) \cup {added[m]}
      BY <1>3, <2>1, <2>2, <2>3, RowAdded
    <2>5. {added[n] : n \in 1..m} = {added[n] : n \in 1..(m - 1)} \cup {added[m]}
      BY <1>0
    <2> QED BY <1>3, <2>4, <2>5
  <1>4. Wrong = {}
    <2> SUFFICES ASSUME Wrong # {} PROVE FALSE
      OBVIOUS
    <2>1. Wrong \in SUBSET Nat
      BY <1>0
    <2>2. PICK m \in Wrong : \A k \in Wrong : m <= k
      <3> HIDE DEF Wrong
      <3> QED BY <2>1, Least
    <2> HIDE DEF Fits
    <2>3. m \in 1..N /\ m - 1 \in 0..N /\ m - 1 \notin Wrong
      BY <1>0, <1>2, <2>2
    <2> QED BY <1>3, <2>2, <2>3
  <1>5. Fits(N)
    <2> HIDE DEF Fits
    <2> QED BY <1>0, <1>4
  <1>6. Range(added) = {added[n] : n \in 1..N}
    BY <1>0 DEF Range
  <1> QED BY <1>5, <1>6

LEMMA ImageFinite ==
  ASSUME NEW S, IsFiniteSet(S), NEW f
  PROVE  IsFiniteSet({f[x] : x \in S})
PROOF
  <1> DEFINE T == {f[x] : x \in S}
             g == [x \in S |-> f[x]]
  <1>1. g \in Surjection(S, T)
    BY DEF Surjection
  <1> HIDE DEF g
  <1> QED BY <1>1, FS_Surjection

\* The numbers of some rows: of tables, of indexes of a table.
LEMMA NumbersFinite ==
  ASSUME NEW S, IsFiniteSet(S)
  PROVE  IsFiniteSet({x.table : x \in S}) /\ IsFiniteSet({x.index : x \in S})
PROOF
  <1> DEFINE tables == [x \in S |-> x.table]
             indexes == [x \in S |-> x.index]
  <1>1. {x.table : x \in S} = {tables[x] : x \in S} /\ {x.index : x \in S} = {indexes[x] : x \in S}
    OBVIOUS
  <1> HIDE DEF tables, indexes
  <1>2. IsFiniteSet({tables[x] : x \in S})
    BY ImageFinite
  <1>3. IsFiniteSet({indexes[x] : x \in S})
    BY ImageFinite
  <1> QED BY <1>1, <1>2, <1>3

\* The slots of a file are a set of rows without end only of itself.
LEMMA RowsFinite ==
  ASSUME NEW f, FileOK(f)
  PROVE  IsFiniteSet(Rows(f))
PROOF
  <1>1. Len(f.slots) \in Nat /\ DOMAIN f.slots = 1..Len(f.slots)
    BY DEF FileOK, Range
  <1>2. IsFiniteSet(Places(f))
    <2>1. IsFiniteSet(1..Len(f.slots))
      BY <1>1, FS_Interval
    <2> QED BY <1>1, <2>1, FS_Subset DEF Places
  <1> QED BY <1>2, ImageFinite DEF Rows

\* What load() reads of an index, as a function of the number of slots.
ReadsUpTo(slots, t, i, m, read) ==
  read = [n \in 0..m |-> IF n = 0 THEN <<>> ELSE Listed(slots[n], t, i, read[n - 1])]

LEMMA KeyReadDefined ==
  ASSUME NEW r, NEW t, NEW i, NEW slots, slots = r.indexColumns.slots, Len(slots) \in Nat
  PROVE  \E read : ReadsUpTo(slots, t, i, Len(slots), read) /\ KeyOf(r, t, i) = read[Len(slots)]
PROOF
  <1> DEFINE N == Len(slots)
             Wrong == {m \in 0..N : ~ \E read : ReadsUpTo(slots, t, i, m, read)}
  <1>1. Wrong = {}
    <2> SUFFICES ASSUME Wrong # {} PROVE FALSE
      OBVIOUS
    <2>1. Wrong \in SUBSET Nat
      OBVIOUS
    <2>2. PICK m \in Wrong : \A k \in Wrong : m <= k
      <3> HIDE DEF Wrong
      <3> QED BY <2>1, Least
    <2>3. m # 0
      <3>1. ReadsUpTo(slots, t, i, 0, [n \in 0..0 |-> <<>>])
        BY DEF ReadsUpTo
      <3> QED BY <3>1
    <2>4. m \in 1..N /\ m - 1 \in 0..N /\ m - 1 \notin Wrong
      BY <2>2, <2>3
    <2>5. PICK read : ReadsUpTo(slots, t, i, m - 1, read)
      BY <2>4
    <2> DEFINE more == [n \in 0..m |-> IF n = m THEN Listed(slots[m], t, i, read[m - 1]) ELSE read[n]]
    <2>6. ASSUME NEW n \in 0..m
          PROVE  more[n] = IF n = 0 THEN <<>> ELSE Listed(slots[n], t, i, more[n - 1])
      <3>1. CASE n = m
        BY <2>4, <3>1
      <3>2. CASE n # m /\ n # 0
        <4>1. n \in 0..(m - 1) /\ n - 1 \in 0..(m - 1) /\ n - 1 # m /\ n - 1 \in 0..m
          BY <2>4, <3>2
        <4>2. read[n] = Listed(slots[n], t, i, read[n - 1])
          BY <2>5, <3>2, <4>1 DEF ReadsUpTo
        <4> QED BY <3>2, <4>1, <4>2
      <3>3. CASE n # m /\ n = 0
        <4>1. read[0] = <<>>
          BY <2>4, <2>5 DEF ReadsUpTo
        <4> QED BY <3>3, <4>1
      <3> QED BY <3>1, <3>2, <3>3
    <2>7. ReadsUpTo(slots, t, i, m, more)
      <3>1. more = [n \in 0..m |-> more[n]]
        OBVIOUS
      <3> HIDE DEF more
      <3> QED BY <2>6, <3>1 DEF ReadsUpTo
    <2> QED BY <2>2, <2>7
  <1>2. \E read : ReadsUpTo(slots, t, i, N, read)
    BY <1>1
  <1> DEFINE read == CHOOSE read : ReadsUpTo(slots, t, i, N, read)
  <1>3. KeyOf(r, t, i) = read[N]
    BY DEF KeyOf, ReadsUpTo
  <1>4. ReadsUpTo(slots, t, i, N, read)
    BY <1>2
  <1> HIDE DEF read
  <1> QED BY <1>3, <1>4

\* load() gives an index the columns that its rows name, in some order.
LEMMA KeyColumnsRead ==
  ASSUME NEW r, FileOK(r.indexColumns), NEW t, NEW i
  PROVE  Range(KeyOf(r, t, i)) = KeyColumns(Rows(r.indexColumns), t, i)
PROOF
  <1> PICK slots : slots = r.indexColumns.slots
    OBVIOUS
  <1> PICK N : N = Len(slots)
    OBVIOUS
  <1>0. N \in Nat /\ DOMAIN slots = 1..N
    BY DEF FileOK, Range
  <1>1. PICK read : ReadsUpTo(slots, t, i, N, read) /\ KeyOf(r, t, i) = read[N]
    BY <1>0, KeyReadDefined
  <1> DEFINE Of(n) == IsRow(slots[n]) /\ slots[n].table = t /\ slots[n].index = i
             All == {slots[n].column : n \in 1..N}
             Fits(m) == /\ read[m] \in Seq(All)
                        /\ Range(read[m]) = {slots[n].column : n \in {n \in 1..m : Of(n)}}
             Wrong == {m \in 0..N : ~Fits(m)}
  <1>2. Fits(0)
    <2>1. read[0] = <<>> /\ 1..0 = {}
      BY <1>0, <1>1 DEF ReadsUpTo
    <2> QED BY <2>1 DEF Range
  <1>3. ASSUME NEW m \in 1..N, Fits(m - 1) PROVE Fits(m)
    <2>1. read[m] = Listed(slots[m], t, i, read[m - 1])
      BY <1>0, <1>1 DEF ReadsUpTo
    <2>2. CASE Of(m)
      <3>1. read[m] = Append(read[m - 1], slots[m].column)
        BY <2>1, <2>2 DEF Listed
      <3>2. {n \in 1..m : Of(n)} = {n \in 1..(m - 1) : Of(n)} \cup {m}
        BY <1>0, <2>2
      <3>3. slots[m].column \in All
        OBVIOUS
      <3> HIDE DEF Of, All
      <3>4. Range(read[m]) = Range(read[m - 1]) \cup {slots[m].column}
        <4>1. PICK shorter \in Seq(All) : shorter = read[m - 1]
          BY <1>3
        <4>2. PICK last \in All : last = slots[m].column
          BY <3>3
        <4>3. /\ DOMAIN Append(shorter, last) = DOMAIN shorter \cup {Len(shorter) + 1}
              /\ Append(shorter, last)[Len(shorter) + 1] = last
              /\ \A n \in DOMAIN shorter : Append(shorter, last)[n] = shorter[n]
          OBVIOUS
        <4> QED BY <3>1, <4>1, <4>2, <4>3 DEF Range
      <3> QED BY <1>3, <3>1, <3>2, <3>3, <3>4
    <2>3. CASE ~Of(m)
      <3>1. read[m] = read[m - 1]
        BY <2>1, <2>3 DEF Listed
      <3>2. {n \in 1..m : Of(n)} = {n \in 1..(m - 1) : Of(n)}
        BY <1>0, <2>3
      <3> HIDE DEF Of, All
      <3> QED BY <1>3, <3>1, <3>2
    <2> QED BY <2>2, <2>3
  <1>4. Wrong = {}
    <2> SUFFICES ASSUME Wrong # {} PROVE FALSE
      OBVIOUS
    <2>1. Wrong \in SUBSET Nat
      BY <1>0
    <2>2. PICK m \in Wrong : \A k \in Wrong : m <= k
      <3> HIDE DEF Wrong
      <3> QED BY <2>1, Least
    <2> HIDE DEF Fits
    <2>3. m \in 1..N /\ m - 1 \in 0..N /\ m - 1 \notin Wrong
      BY <1>0, <1>2, <2>2
    <2> QED BY <1>3, <2>2, <2>3
  <1>5. Fits(N)
    <2> HIDE DEF Fits
    <2> QED BY <1>0, <1>4
  <1>6. {slots[n].column : n \in {n \in 1..N : Of(n)}} = KeyColumns(Rows(r.indexColumns), t, i)
    BY <1>0 DEF KeyColumns, Rows, Places
  <1> QED BY <1>1, <1>5, <1>6

-----------------------------------------------------------------------------
(* What sound rows are good for. *)

LEMMA SoundConsistent ==
  ASSUME NEW r, Sound(r)
  PROVE  Consistent(r)
PROOF
  <1> QED BY DEF Sound, Consistent, TablesOK, ColumnsOK, IndexesOK, KeysOK, FileOK

LEMMA SoundLoadable ==
  ASSUME NEW r, Sound(r)
  PROVE  Loadable(r)
PROOF
  <1> DEFINE ids == {x.table : x \in Rows(r.tables)}
  <1>1. \A t \in ids : ColumnIds(r, t) = 0..(Cardinality(ColumnIds(r, t)) - 1)
    BY DEF Sound, Numbered
  <1>2. \A c \in Rows(r.columns) : ~NotAKey(c.column)
    BY DEF Sound, ColumnsOK
  <1>3. \A t \in ids : \A c \in ColumnsOf(r, t) : ~NotAKey(c.column)
    BY <1>2 DEF ColumnsOf
  <1>4. ASSUME NEW k \in Rows(r.indexColumns)
        PROVE  k.table \in ids /\ k.column \in ColumnIds(r, k.table)
    <2>1. PICK x \in Rows(r.indexes) : x.table = k.table
      BY DEF Sound, KeysOK
    <2>2. PICK y \in Rows(r.tables) : y.table = x.table
      BY DEF Sound, IndexesOK
    <2>3. PICK c \in Rows(r.columns) : c.table = k.table /\ c.id = k.column
      BY DEF Sound, KeysOK
    <2> QED BY <2>1, <2>2, <2>3 DEF ColumnIds, ColumnsOf
  <1> QED BY <1>1, <1>3, <1>4 DEF Loadable

\* load() makes maps of the rows that say what they say.
LEMMA LoadedIsKnown ==
  ASSUME NEW r, Sound(r)
  PROVE  Known(r, Loaded(r))
PROOF
  <1> DEFINE T == Rows(r.tables)
             X == Rows(r.indexes)
             m == Loaded(r)
  <1>1. m = [tables |-> m.tables, tableNames |-> m.tableNames,
             indexes |-> m.indexes, indexNames |-> m.indexNames]
        /\ m.tables = LoadedTables(r) /\ m.tableNames = LoadedNames(r)
        /\ m.indexes = LoadedIndexes(r) /\ m.indexNames = LoadedIndexNames(r)
    BY DEF Loaded
  <1>2. TablesMapped(r, LoadedTables(r))
    <2> DEFINE found(t) == CHOOSE x \in T : x.table = t
               read == [t \in {x.table : x \in T} |-> LoadedTable(r, found(t))]
    <2>1. \A x \in T : x.table # Dual /\ found(x.table) = x
      BY DEF Sound, TablesOK
    <2>2. LoadedTables(r) = [t \in {x.table : x \in T} \cup {Dual} |->
                               IF t = Dual THEN DualTable ELSE read[t]]
      BY DEF LoadedTables, Put
    <2>3. \A x \in T : read[x.table] = LoadedTable(r, x)
      BY <2>1
    <2> HIDE DEF read
    <2> QED BY <2>1, <2>2, <2>3 DEF TablesMapped
  <1>3. NamesMapped(T, LoadedNames(r))
    <2> DEFINE found(n) == CHOOSE x \in T : x.name = n
               read == [n \in {x.name : x \in T} |-> found(n).table]
    <2>1. \A x \in T : x.name # "DUAL" /\ found(x.name) = x
      BY DEF Sound, TablesOK
    <2>2. LoadedNames(r) = [n \in {x.name : x \in T} \cup {"DUAL"} |->
                              IF n = "DUAL" THEN Dual ELSE read[n]]
      BY DEF LoadedNames, Put
    <2>3. \A x \in T : read[x.name] = x.table
      BY <2>1
    <2> HIDE DEF read
    <2> QED BY <2>1, <2>2, <2>3 DEF NamesMapped
  <1>4. ASSUME NEW x \in X
        PROVE  IndexMapped(x, Rows(r.indexColumns), LoadedIndexes(r))
    <2> DEFINE k == <<x.table, x.index>>
               found == CHOOSE y \in X : <<y.table, y.index>> = k
    <2>1. found = x
      BY DEF Sound, IndexesOK
    <2>2. k \in DOMAIN LoadedIndexes(r)
          /\ LoadedIndexes(r)[k] = [name |-> found.name, unique |-> found.unique,
                                    columns |-> KeyOf(r, x.table, x.index)]
      BY DEF LoadedIndexes
    <2>3. Range(KeyOf(r, x.table, x.index)) = KeyColumns(Rows(r.indexColumns), x.table, x.index)
      BY KeyColumnsRead DEF Sound
    <2> HIDE DEF found
    <2> QED BY <2>1, <2>2, <2>3 DEF IndexMapped
  <1>5. ASSUME NEW x \in X
        PROVE  IndexNameMapped(x, LoadedIndexNames(r))
    <2> DEFINE k == <<x.table, x.name>>
               found == CHOOSE y \in X : <<y.table, y.name>> = k
    <2>1. found = x
      BY DEF Sound, IndexesOK
    <2>2. k \in DOMAIN LoadedIndexNames(r) /\ LoadedIndexNames(r)[k] = found.index
      BY DEF LoadedIndexNames
    <2> HIDE DEF found
    <2> QED BY <2>1, <2>2 DEF IndexNameMapped
  <1> QED BY <1>1, <1>2, <1>3, <1>4, <1>5 DEF Known, m

\* And no other maps of tables do.
LEMMA KnownIsLoaded ==
  ASSUME NEW r, Sound(r), NEW m, Known(r, m)
  PROVE  m.tables = LoadedTables(r) /\ m.tableNames = LoadedNames(r)
PROOF
  <1>0. Known(r, Loaded(r))
    BY LoadedIsKnown
  <1>1. TablesMapped(r, m.tables) /\ TablesMapped(r, LoadedTables(r))
    BY <1>0 DEF Known, Loaded
  <1>2. NamesMapped(Rows(r.tables), m.tableNames) /\ NamesMapped(Rows(r.tables), LoadedNames(r))
    BY <1>0 DEF Known, Loaded
  <1>3. m.tables = LoadedTables(r)
    <2> PICK one, other : one = m.tables /\ other = LoadedTables(r)
      OBVIOUS
    <2> QED BY <1>1 DEF TablesMapped
  <1>4. m.tableNames = LoadedNames(r)
    <2> PICK one, other : one = m.tableNames /\ other = LoadedNames(r)
      OBVIOUS
    <2> QED BY <1>2 DEF NamesMapped
  <1> QED BY <1>3, <1>4

-----------------------------------------------------------------------------
(* What the operations do to the rows. *)

Parts == {"tables", "columns", "indexes", "indexColumns"}

RowsLike(r) == r = [part \in Parts |-> r[part]]

LEMMA AddDoes ==
  ASSUME NEW s, RowsLike(s.rows), NEW file \in Parts, NEW added
  PROVE  LET a == Add(s, file, added)
         IN /\ RowsLike(a.rows)
            /\ \A part \in Parts \ {file} : a.rows[part] = s.rows[part]
            /\ a.rows[file] = Fillings(s.rows[file], added)[Len(added)]
            /\ a.memory = s.memory /\ a.files = s.files
            /\ s.trouble \subseteq a.trouble
            /\ \A n \in DOMAIN added : Trouble(Fillings(s.rows[file], added)[n - 1]) \subseteq a.trouble
PROOF
  <1> PICK filled : filled = Fillings(s.rows[file], added)
    OBVIOUS
  <1> PICK a : a = Add(s, file, added)
    OBVIOUS
  <1>1. /\ a.rows = [s.rows EXCEPT ![file] = filled[Len(added)]]
        /\ a.memory = s.memory /\ a.files = s.files
        /\ a.trouble = s.trouble \cup UNION {Trouble(filled[n - 1]) : n \in DOMAIN added}
    BY DEF Add
  <1> QED BY <1>1 DEF RowsLike

\* The files that are not added to, named.
LEMMA AddLeaves ==
  ASSUME NEW s, RowsLike(s.rows), NEW file \in Parts, NEW added
  PROVE  LET a == Add(s, file, added)
         IN /\ RowsLike(a.rows) /\ s.trouble \subseteq a.trouble
            /\ a.memory = s.memory /\ a.files = s.files
            /\ file # "tables" => a.rows.tables = s.rows.tables
            /\ file # "columns" => a.rows.columns = s.rows.columns
            /\ file # "indexes" => a.rows.indexes = s.rows.indexes
            /\ file # "indexColumns" => a.rows.indexColumns = s.rows.indexColumns
PROOF
  <1>1. "tables" \in Parts /\ "columns" \in Parts /\ "indexes" \in Parts /\ "indexColumns" \in Parts
    BY DEF Parts
  <1> PICK a : a = Add(s, file, added)
    OBVIOUS
  <1>2. /\ RowsLike(a.rows) /\ s.trouble \subseteq a.trouble
        /\ a.memory = s.memory /\ a.files = s.files
    BY AddDoes
  <1>3. \A part \in Parts \ {file} : a.rows[part] = s.rows[part]
    <2>1. \A more : \A part \in Parts \ {file} : Add(s, file, more).rows[part] = s.rows[part]
      BY AddDoes
    <2> QED BY <2>1
  <1> QED BY <1>1, <1>2, <1>3

\* Rows that are not there yet, none twice.
NewRows(f, added) ==
  /\ \A n \in DOMAIN added : added[n].table # NoTable /\ added[n] \notin Rows(f)
  /\ \A m, n \in DOMAIN added : added[m] = added[n] => m = n

\* What is added without trouble is there, with all that was.
LEMMA AddKeeps ==
  ASSUME NEW s, RowsLike(s.rows),
         NEW file \in Parts, NEW S, NEW added \in Seq(S),
         Add(s, file, added).trouble = {}, FileOK(s.rows[file]), NewRows(s.rows[file], added)
  PROVE  LET a == Add(s, file, added)
         IN FileOK(a.rows[file]) /\ Rows(a.rows[file]) = Rows(s.rows[file]) \cup Range(added)
PROOF
  <1> PICK f : f = s.rows[file]
    OBVIOUS
  <1> PICK a : a = Add(s, file, added)
    OBVIOUS
  <1>1. \A more : /\ Add(s, file, more).rows[file] = Fillings(f, more)[Len(more)]
                  /\ \A n \in DOMAIN more : Trouble(Fillings(f, more)[n - 1]) \subseteq Add(s, file, more).trouble
    BY AddDoes
  <1>2. \A n \in DOMAIN added : Trouble(Fillings(f, added)[n - 1]) = {}
    BY <1>1
  <1>3. FileOK(f) /\ NewRows(f, added)
    OBVIOUS
  <1>4. FileOK(Fillings(f, added)[Len(added)])
        /\ Rows(Fillings(f, added)[Len(added)]) = Rows(f) \cup Range(added)
    BY <1>2, <1>3, RowsAdded DEF NewRows
  <1> QED BY <1>1, <1>4

\* A single row.
LEMMA AddOneKeeps ==
  ASSUME NEW s, RowsLike(s.rows), NEW file \in Parts, NEW row,
         Add(s, file, <<row>>).trouble = {}, FileOK(s.rows[file]),
         row.table # NoTable, row \notin Rows(s.rows[file])
  PROVE  LET a == Add(s, file, <<row>>)
         IN FileOK(a.rows[file]) /\ Rows(a.rows[file]) = Rows(s.rows[file]) \cup {row}
PROOF
  <1> PICK added : added = <<row>>
    OBVIOUS
  <1> PICK S : S = {row}
    OBVIOUS
  <1>1. added \in Seq(S) /\ DOMAIN added = {1} /\ added[1] = row
    OBVIOUS
  <1>2. Range(added) = {row}
    BY <1>1 DEF Range
  <1>3. NewRows(s.rows[file], added)
    BY <1>1 DEF NewRows
  <1>4. added \in Seq(S) /\ Add(s, file, added).trouble = {}
    BY <1>1
  <1>5. FileOK(Add(s, file, added).rows[file])
        /\ Rows(Add(s, file, added).rows[file]) = Rows(s.rows[file]) \cup Range(added)
    BY <1>3, <1>4, AddKeeps, ZenonT(60)
  <1> QED BY <1>2, <1>5

LEMMA SoundRowsLike ==
  ASSUME NEW r
  PROVE  RowsLike(r) <=> r = [tables |-> r.tables, columns |-> r.columns, indexes |-> r.indexes,
                              indexColumns |-> r.indexColumns]
PROOF
  <1>1. ASSUME RowsLike(r)
        PROVE  r = [tables |-> r.tables, columns |-> r.columns, indexes |-> r.indexes,
                    indexColumns |-> r.indexColumns]
    BY <1>1 DEF RowsLike, Parts
  <1>2. ASSUME r = [tables |-> r.tables, columns |-> r.columns, indexes |-> r.indexes,
                    indexColumns |-> r.indexColumns]
        PROVE  RowsLike(r)
    BY <1>2 DEF RowsLike, Parts
  <1> QED BY <1>1, <1>2

\* The schema of a table is a matter of its columns.
SchemaIn(columns, ids) ==
  [n \in 1..Cardinality(ids) |-> (CHOOSE c \in columns : c.id = n - 1).column]

LEMMA SchemaOfColumns ==
  ASSUME NEW r, NEW q, NEW t, ColumnsOf(q, t) = ColumnsOf(r, t)
  PROVE  SchemaOf(q, t) = SchemaOf(r, t)
PROOF
  <1>1. SchemaOf(r, t) = SchemaIn(ColumnsOf(r, t), ColumnIds(r, t))
    BY DEF SchemaOf, SchemaIn
  <1>2. SchemaOf(q, t) = SchemaIn(ColumnsOf(q, t), ColumnIds(q, t))
    BY DEF SchemaOf, SchemaIn
  <1>3. ColumnIds(q, t) = ColumnIds(r, t)
    BY DEF ColumnIds
  <1> QED BY <1>1, <1>2, <1>3

\* The columns of a key are columns of the table, none twice.
KeyFor(r, t, key) ==
  /\ \A n \in DOMAIN key : key[n] \in ColumnIds(r, t)
  /\ \A m, n \in DOMAIN key : key[m] = key[n] => m = n

IndexIn(s, a, t, i, name, unique) ==
  /\ Sound(a.rows) /\ Known(a.rows, a.memory) /\ s.trouble = {}
  /\ a.rows.tables = s.rows.tables
  /\ Rows(a.rows.indexes) = Rows(s.rows.indexes) \cup {IndexRow(t, i, name, unique)}
  /\ a.files = s.files \cup {<<t>>, <<t, i>>}

\* An index with a new number, a new name and columns of its table leaves the rows
\* sound, and the maps know it.
LEMMA IndexAdded ==
  ASSUME NEW s, Sound(s.rows), Known(s.rows, s.memory),
         NEW y \in Rows(s.rows.tables), NEW t, t = y.table,
         NEW i \in Nat, i \notin s.memory.tables[t].indexes,
         NEW name, name \notin {x.name : x \in IndexesOf(s.rows, t)},
         NEW unique, NEW S, NEW key \in Seq(S), KeyFor(s.rows, t, key),
         AddIndex(s, t, i, name, unique, key).trouble = {}
  PROVE  IndexIn(s, AddIndex(s, t, i, name, unique, key), t, i, name, unique)
PROOF
  <1> PICK a : a = AddIndex(s, t, i, name, unique, key)
    OBVIOUS
  <1> PICK row : row = IndexRow(t, i, name, unique)
    OBVIOUS
  <1> PICK added : added = KeyRows(t, i, key)
    OBVIOUS
  <1> PICK b : b = Add(s, "indexes", <<row>>)
    OBVIOUS
  <1> PICK c : c = Add(b, "indexColumns", added)
    OBVIOUS
  <1> PICK r : r = s.rows
    OBVIOUS
  <1> PICK m : m = s.memory
    OBVIOUS
  <1> DEFINE T == Rows(r.tables)
             C == Rows(r.columns)
             X == Rows(r.indexes)
             K == Rows(r.indexColumns)
  <1>1. /\ a.rows = c.rows /\ c.trouble = {} /\ a.files = s.files \cup {<<t>>, <<t, i>>}
        /\ a.memory = [tables |-> [m.tables EXCEPT ![t].indexes = @ \cup {i}],
                       tableNames |-> m.tableNames,
                       indexes |-> Put(m.indexes, <<t, i>>, [name |-> name, unique |-> unique, columns |-> key]),
                       indexNames |-> Put(m.indexNames, <<t, name>>, i)]
    BY DEF AddIndex, AddIndexRow
  <1>2. RowsLike(r)
    BY SoundRowsLike DEF Sound
  <1>3. "indexes" \in Parts /\ "indexColumns" \in Parts
    BY DEF Parts
  <1>4. /\ RowsLike(b.rows) /\ b.rows.tables = r.tables /\ b.rows.columns = r.columns
        /\ b.rows.indexColumns = r.indexColumns /\ s.trouble \subseteq b.trouble
    BY <1>2, <1>3, AddLeaves
  <1>5. /\ RowsLike(c.rows) /\ c.rows.tables = r.tables /\ c.rows.columns = r.columns
        /\ c.rows.indexes = b.rows.indexes /\ b.trouble \subseteq c.trouble
    BY <1>3, <1>4, AddLeaves
  <1>6. t \in Nat \ {Dual} /\ y \in T
        /\ m.tables[t] = LoadedTable(r, y)
        /\ \A x \in X : x.table = t => x.index # i /\ x.name # name
    BY DEF Sound, TablesOK, Known, TablesMapped, LoadedTable, IndexesOf
  <1>7. row.table = t /\ row.index = i /\ row.name = name /\ row.unique = unique
    BY DEF IndexRow
  <1>8. FileOK(b.rows.indexes) /\ Rows(b.rows.indexes) = X \cup {row}
    <2>1. row.table # NoTable /\ row \notin X /\ FileOK(r.indexes)
      BY <1>6, <1>7 DEF NoTable, Sound
    <2>2. Add(s, "indexes", <<row>>).trouble = {}
      BY <1>1, <1>5
    <2> QED BY <1>2, <1>3, <2>1, <2>2, AddOneKeeps
  <1>9. FileOK(c.rows.indexColumns) /\ Rows(c.rows.indexColumns) = K \cup Range(added)
    <2>1. DOMAIN added = DOMAIN key
          /\ \A n \in DOMAIN key : added[n] = [table |-> t, index |-> i, column |-> key[n]]
      BY DEF KeyRows
    <2>2. PICK R : R = Range(added)
      OBVIOUS
    <2>3. added \in Seq(R)
      <3>1. Len(key) \in Nat /\ DOMAIN key = 1..Len(key)
        OBVIOUS
      <3>2. added = [n \in 1..Len(key) |-> added[n]] /\ \A n \in 1..Len(key) : added[n] \in R
        BY <2>1, <2>2, <3>1 DEF KeyRows, Range
      <3> QED BY <3>1, <3>2
    <2>4. \A k \in K : ~(k.table = t /\ k.index = i)
      BY <1>6 DEF Sound, KeysOK
    <2>5. NewRows(b.rows.indexColumns, added)
      <3>1. \A n \in DOMAIN added : added[n].table # NoTable /\ added[n] \notin K
        <4> SUFFICES ASSUME NEW n \in DOMAIN key PROVE added[n].table # NoTable /\ added[n] \notin K
          BY <2>1
        <4>1. PICK k : k = [table |-> t, index |-> i, column |-> key[n]]
          OBVIOUS
        <4>2. k.table = t /\ k.index = i
          BY <4>1
        <4> QED BY <1>6, <2>1, <2>4, <4>1, <4>2 DEF NoTable
      <3>2. \A j, n \in DOMAIN added : added[j] = added[n] => j = n
        <4> SUFFICES ASSUME NEW j \in DOMAIN key, NEW n \in DOMAIN key, added[j] = added[n] PROVE j = n
          BY <2>1
        <4>1. PICK k : k = added[j]
          OBVIOUS
        <4>2. k = [table |-> t, index |-> i, column |-> key[j]]
              /\ k = [table |-> t, index |-> i, column |-> key[n]]
          BY <2>1, <4>1
        <4>3. k.column = key[j] /\ k.column = key[n]
          BY <4>2
        <4> QED BY <4>3 DEF KeyFor
      <3> QED BY <1>4, <3>1, <3>2 DEF NewRows
    <2>6. FileOK(b.rows.indexColumns) /\ Add(b, "indexColumns", added).trouble = {}
      BY <1>1, <1>4 DEF Sound
    <2>7. FileOK(Add(b, "indexColumns", added).rows["indexColumns"])
          /\ Rows(Add(b, "indexColumns", added).rows["indexColumns"])
             = Rows(b.rows["indexColumns"]) \cup Range(added)
      <3>1. FileOK(b.rows["indexColumns"]) /\ NewRows(b.rows["indexColumns"], added)
        BY <2>5, <2>6
      <3> QED BY <1>3, <1>4, <2>3, <2>6, <3>1, AddKeeps
    <2> QED BY <1>4, <2>7
  <1> PICK q : q = c.rows
    OBVIOUS
  <1>10. /\ q.tables = r.tables /\ q.columns = r.columns
         /\ Rows(q.indexes) = X \cup {row} /\ Rows(q.indexColumns) = K \cup Range(added)
         /\ RowsLike(q)
    BY <1>5, <1>8, <1>9
  <1>11. \A k \in Range(added) : k.table = t /\ k.index = i
    BY DEF Range, KeyRows
  <1>12. {k.column : k \in Range(added)} = Range(key)
    BY DEF Range, KeyRows
  <1>13. \A u : ColumnsOf(q, u) = ColumnsOf(r, u) /\ ColumnIds(q, u) = ColumnIds(r, u)
    BY <1>10 DEF ColumnsOf, ColumnIds
  <1>14. Sound(q)
    <2>1. q = [tables |-> q.tables, columns |-> q.columns, indexes |-> q.indexes,
               indexColumns |-> q.indexColumns]
      BY <1>10, SoundRowsLike
    <2>2. FileOK(q.tables) /\ FileOK(q.columns) /\ FileOK(q.indexes) /\ FileOK(q.indexColumns)
      BY <1>5, <1>8, <1>9 DEF Sound
    <2>3. TablesOK(T) /\ ColumnsOK(T, C) /\ \A x \in T : Numbered(q, x.table)
      BY <1>13 DEF Sound, Numbered
    <2>4. IndexesOK(T, X \cup {row})
      BY <1>6, <1>7 DEF Sound, IndexesOK
    <2>5. KeysOK(C, X \cup {row}, K \cup Range(added))
      <3>1. ASSUME NEW k \in Range(added)
            PROVE  \E x \in C : x.table = k.table /\ x.id = k.column
        <4>1. k.column \in ColumnIds(r, t)
          BY <1>12 DEF KeyFor, Range
        <4> QED BY <1>11, <4>1 DEF ColumnIds, ColumnsOf
      <3> QED BY <1>7, <1>11, <3>1 DEF Sound, KeysOK
    <2> QED BY <1>10, <2>1, <2>2, <2>3, <2>4, <2>5 DEF Sound
  <1> PICK m2 : m2 = a.memory
    OBVIOUS
  <1>15. TablesMapped(q, m2.tables)
    <2> PICK tables : tables = m.tables
      OBVIOUS
    <2>1. m2.tables = [tables EXCEPT ![t].indexes = @ \cup {i}]
      BY <1>1
    <2>2. tables = [u \in {x.table : x \in T} \cup {Dual} |-> tables[u]] /\ tables[Dual] = DualTable
          /\ \A x \in T : tables[x.table] = LoadedTable(r, x)
      BY DEF Known, TablesMapped
    <2>3. \A x, z \in T : x.table = z.table => x = z
      BY DEF Sound, TablesOK
    <2>4. \A u : u # t => IndexesOf(q, u) = IndexesOf(r, u)
      BY <1>7, <1>10 DEF IndexesOf
    <2>5. IndexesOf(q, t) = IndexesOf(r, t) \cup {row}
      BY <1>7, <1>10 DEF IndexesOf
    <2>6. \A u : SchemaOf(q, u) = SchemaOf(r, u)
      BY <1>13, SchemaOfColumns
    <2>7. m2.tables = [u \in {x.table : x \in T} \cup {Dual} |->
                         IF u = t THEN [tables[t] EXCEPT !.indexes = @ \cup {i}] ELSE tables[u]]
      BY <2>1, <2>2
    <2>8. [tables[t] EXCEPT !.indexes = @ \cup {i}] = LoadedTable(q, y)
      <3>1. tables[t] = [name |-> y.name, columns |-> SchemaOf(r, t),
                         indexes |-> {x.index : x \in IndexesOf(r, t)}]
        BY <2>2 DEF LoadedTable
      <3>2. LoadedTable(q, y) = [name |-> y.name, columns |-> SchemaOf(r, t),
                                 indexes |-> {x.index : x \in IndexesOf(q, t)}]
        BY <2>6 DEF LoadedTable
      <3>3. {x.index : x \in IndexesOf(q, t)} = {x.index : x \in IndexesOf(r, t)} \cup {i}
        BY <1>7, <2>5
      <3>4. PICK ids : ids = {x.index : x \in IndexesOf(r, t)}
        OBVIOUS
      <3>5. PICK old : old = tables[t]
        OBVIOUS
      <3>6. old = [name |-> y.name, columns |-> SchemaOf(r, t), indexes |-> ids]
        BY <3>1, <3>4, <3>5
      <3>7. PICK entry : entry = [old EXCEPT !.indexes = old.indexes \cup {i}]
        OBVIOUS
      <3>8. entry = [name |-> y.name, columns |-> SchemaOf(r, t), indexes |-> ids \cup {i}]
        BY <3>6, <3>7
      <3>9. entry = [tables[t] EXCEPT !.indexes = @ \cup {i}]
        BY <3>5, <3>7
      <3> QED BY <3>2, <3>3, <3>4, <3>8, <3>9
    <2>9. \A x \in T : x.table # t => LoadedTable(q, x) = LoadedTable(r, x)
      BY <2>4, <2>6 DEF LoadedTable
    <2>10. t # Dual
      BY <1>6
    <2>11. \A x \in T : m2.tables[x.table] = LoadedTable(q, x)
      <3> SUFFICES ASSUME NEW x \in T PROVE m2.tables[x.table] = LoadedTable(q, x)
        OBVIOUS
      <3>1. CASE x = y
        <4>1. t \in {z.table : z \in T} \cup {Dual}
          OBVIOUS
        <4>2. m2.tables[t] = LoadedTable(q, y)
          BY <2>7, <2>8, <4>1
        <4> QED BY <3>1, <4>2
      <3>2. CASE x # y
        <4>1. x.table # t
          BY <1>6, <2>3, <3>2
        <4>2. m2.tables[x.table] = tables[x.table]
          BY <2>7, <4>1
        <4> QED BY <2>2, <2>9, <4>1, <4>2
      <3> QED BY <3>1, <3>2
    <2> QED BY <1>10, <2>2, <2>7, <2>10, <2>11, ZenonT(60) DEF TablesMapped
  <1>16. ASSUME NEW x \in X \cup {row}
         PROVE  IndexMapped(x, K \cup Range(added), m2.indexes) /\ IndexNameMapped(x, m2.indexNames)
    <2> PICK indexes : indexes = m.indexes
      OBVIOUS
    <2> PICK names : names = m.indexNames
      OBVIOUS
    <2> PICK info : info = [name |-> name, unique |-> unique, columns |-> key]
      OBVIOUS
    <2>1. m2.indexes = [k \in DOMAIN indexes \cup {<<t, i>>} |-> IF k = <<t, i>> THEN info ELSE indexes[k]]
          /\ m2.indexNames = [k \in DOMAIN names \cup {<<t, name>>} |-> IF k = <<t, name>> THEN i ELSE names[k]]
      BY <1>1 DEF Put
    <2>2. CASE x = row
      <3>1. KeyColumns(K \cup Range(added), t, i) = Range(key)
        <4>1. {k \in K \cup Range(added) : k.table = t /\ k.index = i} = Range(added)
          BY <1>6, <1>11 DEF Sound, KeysOK
        <4> QED BY <1>12, <4>1 DEF KeyColumns
      <3>2. info.name = name /\ info.unique = unique /\ info.columns = key
        OBVIOUS
      <3> QED BY <1>7, <2>1, <2>2, <3>1, <3>2 DEF IndexMapped, IndexNameMapped
    <2>3. CASE x \in X
      <3>1. IndexMapped(x, K, indexes) /\ IndexNameMapped(x, names)
        BY <2>3 DEF Known
      <3>2. <<x.table, x.index>> # <<t, i>> /\ <<x.table, x.name>> # <<t, name>>
            /\ ~(x.table = t /\ x.index = i)
        BY <1>6, <2>3
      <3>3. KeyColumns(K \cup Range(added), x.table, x.index) = KeyColumns(K, x.table, x.index)
        <4>1. {k \in K \cup Range(added) : k.table = x.table /\ k.index = x.index}
              = {k \in K : k.table = x.table /\ k.index = x.index}
          BY <1>11, <3>2
        <4> QED BY <4>1 DEF KeyColumns
      <3> QED BY <2>1, <3>1, <3>2, <3>3 DEF IndexMapped, IndexNameMapped
    <2> QED BY <2>2, <2>3
  <1>17. Known(q, m2)
    <2>1. m2 = [tables |-> m2.tables, tableNames |-> m2.tableNames,
                indexes |-> m2.indexes, indexNames |-> m2.indexNames] /\ m2.tableNames = m.tableNames
      BY <1>1
    <2>2. NamesMapped(T, m2.tableNames)
      BY <2>1 DEF Known
    <2> QED BY <1>10, <1>15, <1>16, <2>1, <2>2, ZenonT(60) DEF Known
  <1>18. s.trouble = {}
    BY <1>1, <1>4, <1>5
  <1>19. q = a.rows
    BY <1>1
  <1> QED BY <1>1, <1>10, <1>14, <1>17, <1>18, <1>19 DEF IndexIn

\* Columns that a schema takes.
Allowed(definition) == \A n \in DOMAIN definition : ~NotAKey(definition[n])

TableIn(s, a, t, name, definition) ==
  /\ Sound(a.rows) /\ Known(a.rows, a.memory) /\ s.trouble = {} /\ a.files = s.files
  /\ Rows(a.rows.tables) = Rows(s.rows.tables) \cup {TableRow(t, name)}
  /\ a.rows.indexes = s.rows.indexes /\ IndexesOf(a.rows, t) = {}
  /\ a.memory.tables[t].indexes = {}
  /\ ColumnIds(a.rows, t) = 0..(Len(definition) - 1)

\* A table with a new number and a new name leaves the rows sound.
LEMMA TableAdded ==
  ASSUME NEW s, Sound(s.rows), Known(s.rows, s.memory),
         NEW name, name \notin DOMAIN s.memory.tableNames,
         NEW t \in Nat, t \notin DOMAIN s.memory.tables,
         NEW S, NEW definition \in Seq(S), Allowed(definition),
         AddColumns(AddTable(s, t, name), t, definition).trouble = {}
  PROVE  TableIn(s, AddColumns(AddTable(s, t, name), t, definition), t, name, definition)
PROOF
  <1> PICK row : row = TableRow(t, name)
    OBVIOUS
  <1> PICK added : added = ColumnRows(t, definition)
    OBVIOUS
  <1> PICK L : L = Len(definition)
    OBVIOUS
  <1> PICK b : b = AddTable(s, t, name)
    OBVIOUS
  <1> PICK a : a = AddColumns(b, t, definition)
    OBVIOUS
  <1> PICK b1 : b1 = Add(s, "tables", <<row>>)
    OBVIOUS
  <1> PICK c1 : c1 = Add(b, "columns", added)
    OBVIOUS
  <1> PICK r : r = s.rows
    OBVIOUS
  <1> PICK m : m = s.memory
    OBVIOUS
  <1> PICK entry : entry = [name |-> name, columns |-> <<>>, indexes |-> {}]
    OBVIOUS
  <1> DEFINE T == Rows(r.tables)
             C == Rows(r.columns)
             X == Rows(r.indexes)
             K == Rows(r.indexColumns)
  <1>0. L \in Nat /\ DOMAIN definition = 1..L /\ definition = [n \in 1..L |-> definition[n]]
    OBVIOUS
  <1>1. /\ b.rows = b1.rows /\ b.trouble = b1.trouble /\ b.files = b1.files
        /\ b.memory = [tables |-> Put(m.tables, t, entry), tableNames |-> Put(m.tableNames, name, t),
                       indexes |-> m.indexes, indexNames |-> m.indexNames]
    <2>1. b = [b1 EXCEPT !.memory =
                 [tables |-> Put(m.tables, t, entry), tableNames |-> Put(m.tableNames, name, t),
                  indexes |-> m.indexes, indexNames |-> m.indexNames]]
      BY DEF AddTable
    <2>2. b1 = [rows |-> b1.rows, memory |-> b1.memory, files |-> b1.files, trouble |-> b1.trouble]
      BY DEF Add
    <2> QED BY <2>1, <2>2
  <1>2. /\ a.rows = c1.rows /\ a.trouble = c1.trouble /\ a.files = c1.files
        /\ a.memory = [tables |-> [b.memory.tables EXCEPT ![t].columns = definition],
                       tableNames |-> b.memory.tableNames,
                       indexes |-> b.memory.indexes, indexNames |-> b.memory.indexNames]
    <2>1. a = [c1 EXCEPT !.memory =
                 [tables |-> [b.memory.tables EXCEPT ![t].columns = definition],
                  tableNames |-> b.memory.tableNames,
                  indexes |-> b.memory.indexes, indexNames |-> b.memory.indexNames]]
      BY DEF AddColumns
    <2>2. c1 = [rows |-> c1.rows, memory |-> c1.memory, files |-> c1.files, trouble |-> c1.trouble]
      BY DEF Add
    <2> QED BY <2>1, <2>2
  <1>3. RowsLike(r) /\ "tables" \in Parts /\ "columns" \in Parts
    BY SoundRowsLike DEF Sound, Parts
  <1>4. /\ RowsLike(b.rows) /\ b.rows.columns = r.columns /\ b.rows.indexes = r.indexes
        /\ b.rows.indexColumns = r.indexColumns /\ b.files = s.files /\ s.trouble \subseteq b.trouble
    <2>1. /\ RowsLike(b1.rows) /\ b1.rows.columns = r.columns /\ b1.rows.indexes = r.indexes
          /\ b1.rows.indexColumns = r.indexColumns /\ b1.files = s.files /\ s.trouble \subseteq b1.trouble
      BY <1>3, AddLeaves
    <2> QED BY <1>1, <2>1
  <1>5. /\ RowsLike(c1.rows) /\ c1.rows.tables = b.rows.tables /\ c1.rows.indexes = r.indexes
        /\ c1.rows.indexColumns = r.indexColumns /\ c1.files = s.files /\ b.trouble \subseteq c1.trouble
    BY <1>3, <1>4, AddLeaves
  <1>6. c1.trouble = {} /\ b.trouble = {} /\ s.trouble = {}
    BY <1>2, <1>4, <1>5
  <1>7. /\ t # Dual /\ name # "DUAL" /\ row.table = t /\ row.name = name
        /\ \A x \in T : x.table # t /\ x.name # name
    BY DEF Known, TablesMapped, NamesMapped, TableRow
  <1>8. /\ \A c \in C : c.table # t
        /\ \A x \in X : x.table # t
        /\ \A k \in K : k.table # t
    BY <1>7 DEF Sound, ColumnsOK, IndexesOK, KeysOK
  <1>9. FileOK(b.rows.tables) /\ Rows(b.rows.tables) = T \cup {row}
    <2>1. row.table # NoTable /\ row \notin T /\ FileOK(r.tables)
      BY <1>7 DEF NoTable, Sound
    <2>2. Add(s, "tables", <<row>>).trouble = {}
      BY <1>1, <1>6
    <2>3. FileOK(b1.rows.tables) /\ Rows(b1.rows.tables) = T \cup {row}
      BY <1>3, <2>1, <2>2, AddOneKeeps
    <2> QED BY <1>1, <2>3
  <1>10. /\ DOMAIN added = 1..L
         /\ \A n \in 1..L : added[n] = [table |-> t, id |-> n - 1, column |-> definition[n]]
    BY <1>0 DEF ColumnRows
  <1>11. \A n \in 1..L : added[n].table = t /\ added[n].id = n - 1 /\ added[n].column = definition[n]
    <2> SUFFICES ASSUME NEW n \in 1..L
                 PROVE  added[n].table = t /\ added[n].id = n - 1 /\ added[n].column = definition[n]
      OBVIOUS
    <2>1. PICK c : c = added[n]
      OBVIOUS
    <2>2. c = [table |-> t, id |-> n - 1, column |-> definition[n]]
      BY <1>10, <2>1
    <2>3. c.table = t /\ c.id = n - 1 /\ c.column = definition[n]
      BY <2>2
    <2> QED BY <2>1, <2>3
  <1>12. FileOK(c1.rows.columns) /\ Rows(c1.rows.columns) = C \cup Range(added)
    <2>1. PICK R : R = Range(added)
      OBVIOUS
    <2>2. added \in Seq(R)
      <3>1. added = [n \in 1..L |-> added[n]] /\ \A n \in 1..L : added[n] \in R
        BY <1>0, <1>10, <2>1 DEF ColumnRows, Range
      <3> QED BY <1>0, <3>1
    <2>3. NewRows(r.columns, added)
      <3>1. \A n \in 1..L : added[n].table # NoTable /\ added[n] \notin C
        BY <1>8, <1>11 DEF NoTable
      <3>2. \A j, n \in 1..L : added[j] = added[n] => j = n
        BY <1>11
      <3> QED BY <1>10, <3>1, <3>2 DEF NewRows
    <2>4. PICK file \in Parts : file = "columns"
      BY <1>3
    <2>5. FileOK(b.rows[file]) /\ NewRows(b.rows[file], added) /\ Add(b, file, added).trouble = {}
      BY <1>4, <1>6, <2>3, <2>4 DEF Sound
    <2>6. FileOK(Add(b, file, added).rows[file])
          /\ Rows(Add(b, file, added).rows[file]) = Rows(b.rows[file]) \cup Range(added)
      BY <1>4, <2>2, <2>5, AddKeeps, SMTT(60)
    <2> QED BY <1>4, <2>4, <2>6
  <1> PICK q : q = c1.rows
    OBVIOUS
  <1>13. /\ Rows(q.tables) = T \cup {row} /\ Rows(q.columns) = C \cup Range(added)
         /\ q.indexes = r.indexes /\ q.indexColumns = r.indexColumns /\ RowsLike(q)
    BY <1>5, <1>9, <1>12
  <1>14. Range(added) = {added[n] : n \in 1..L}
    BY <1>10 DEF Range
  <1>15. \A u : u # t => ColumnsOf(q, u) = ColumnsOf(r, u)
    BY <1>11, <1>13, <1>14 DEF ColumnsOf
  <1>16. ColumnsOf(q, t) = Range(added)
    BY <1>8, <1>11, <1>13, <1>14 DEF ColumnsOf
  <1>17. ColumnIds(q, t) = 0..(L - 1)
    <2>1. ColumnIds(q, t) = {n - 1 : n \in 1..L}
      BY <1>11, <1>14, <1>16, SMTT(60) DEF ColumnIds
    <2>2. {n - 1 : n \in 1..L} = 0..(L - 1)
      <3>1. \A k \in 0..(L - 1) : k + 1 \in 1..L /\ k = (k + 1) - 1
        BY <1>0
      <3>2. \A n \in 1..L : n - 1 \in 0..(L - 1)
        BY <1>0
      <3> QED BY <3>1, <3>2
    <2> QED BY <2>1, <2>2
  <1>18. Cardinality(ColumnIds(q, t)) = L
    <2>1. Cardinality(0..(L - 1)) = L
      <3>1. PICK h \in Int : h = L - 1
        BY <1>0
      <3>2. Cardinality(0..h) = IF 0 > h THEN 0 ELSE h - 0 + 1
        BY FS_Interval
      <3> QED BY <1>0, <3>1, <3>2
    <2> QED BY <1>17, <2>1
  <1>19. SchemaOf(q, t) = definition
    <2>1. \A n \in 1..L : (CHOOSE c \in ColumnsOf(q, t) : c.id = n - 1) = added[n]
      <3> SUFFICES ASSUME NEW n \in 1..L PROVE (CHOOSE c \in ColumnsOf(q, t) : c.id = n - 1) = added[n]
        OBVIOUS
      <3>1. added[n] \in ColumnsOf(q, t) /\ added[n].id = n - 1
        BY <1>11, <1>14, <1>16
      <3>2. \A c \in ColumnsOf(q, t) : c.id = n - 1 => c = added[n]
        BY <1>0, <1>11, <1>14, <1>16
      <3> QED BY <3>1, <3>2
    <2>2. SchemaOf(q, t) = [n \in 1..L |-> definition[n]]
      BY <1>11, <1>18, <2>1 DEF SchemaOf
    <2> QED BY <1>0, <2>2
  <1>20. Sound(q)
    <2>1. q = [tables |-> q.tables, columns |-> q.columns, indexes |-> q.indexes,
               indexColumns |-> q.indexColumns]
      BY <1>13, SoundRowsLike
    <2>2. FileOK(q.tables) /\ FileOK(q.columns) /\ FileOK(q.indexes) /\ FileOK(q.indexColumns)
      BY <1>5, <1>9, <1>12 DEF Sound
    <2>3. TablesOK(T \cup {row})
      BY <1>7 DEF Sound, TablesOK
    <2>4. ColumnsOK(T \cup {row}, C \cup Range(added))
      <3>1. \A c \in Range(added) : /\ c.id \in Nat /\ ~NotAKey(c.column) /\ c.table = t
                                    /\ \A d \in Range(added) : c.id = d.id => c = d
        <4> SUFFICES ASSUME NEW n \in 1..L
                     PROVE  LET c == added[n]
                            IN /\ c.id \in Nat /\ ~NotAKey(c.column) /\ c.table = t
                               /\ \A d \in Range(added) : c.id = d.id => c = d
          BY <1>14
        <4>1. ~NotAKey(added[n].column)
          BY <1>0, <1>11 DEF Allowed
        <4>2. \A j \in 1..L : added[j].id = added[n].id => j = n
          BY <1>0, <1>11
        <4> QED BY <1>0, <1>11, <1>14, <4>1, <4>2, SMTT(60)
      <3> QED BY <1>7, <1>8, <3>1 DEF Sound, ColumnsOK
    <2>5. \A x \in T \cup {row} : Numbered(q, x.table)
      <3>1. Numbered(q, t)
        BY <1>17, <1>18 DEF Numbered
      <3>2. \A x \in T : Numbered(q, x.table)
        BY <1>7, <1>15 DEF Sound, Numbered, ColumnIds
      <3> QED BY <1>7, <3>1, <3>2
    <2>6. IndexesOK(T \cup {row}, X)
      BY DEF Sound, IndexesOK
    <2>7. KeysOK(C \cup Range(added), X, K)
      BY DEF Sound, KeysOK
    <2> QED BY <1>13, <2>1, <2>2, <2>3, <2>4, <2>5, <2>6, <2>7 DEF Sound
  <1> PICK m2 : m2 = a.memory
    OBVIOUS
  <1>21. IndexesOf(q, t) = {} /\ \A u : IndexesOf(q, u) = IndexesOf(r, u)
    BY <1>8, <1>13 DEF IndexesOf
  <1>22. /\ m2.tables = [u \in {x.table : x \in T \cup {row}} \cup {Dual} |->
                           IF u = t THEN [name |-> name, columns |-> definition, indexes |-> {}]
                           ELSE m.tables[u]]
         /\ m.tables = [u \in {x.table : x \in T} \cup {Dual} |-> m.tables[u]]
    <2> PICK tables : tables = m.tables
      OBVIOUS
    <2>1. tables = [u \in {x.table : x \in T} \cup {Dual} |-> tables[u]]
      BY DEF Known, TablesMapped
    <2>2. b.memory.tables = [u \in DOMAIN tables \cup {t} |-> IF u = t THEN entry ELSE tables[u]]
      BY <1>1 DEF Put
    <2>3. PICK old : old = b.memory.tables
      OBVIOUS
    <2>4. PICK filled : filled = [entry EXCEPT !.columns = definition]
      OBVIOUS
    <2>5. filled = [name |-> name, columns |-> definition, indexes |-> {}]
      BY <2>4
    <2>6. m2.tables = [old EXCEPT ![t].columns = definition]
      BY <1>2, <2>3
    <2>7. old[t] = entry
      BY <2>2, <2>3
    <2>8. m2.tables = [old EXCEPT ![t] = filled]
      BY <2>4, <2>6, <2>7
    <2>9. m2.tables = [u \in DOMAIN tables \cup {t} |-> IF u = t THEN filled ELSE tables[u]]
      BY <2>2, <2>3, <2>8, ZenonT(60)
    <2>10. DOMAIN tables \cup {t} = {x.table : x \in T \cup {row}} \cup {Dual}
      BY <1>7, <2>1
    <2> QED BY <2>1, <2>5, <2>9, <2>10
  <1>23. TablesMapped(q, m2.tables)
    <2>1. m.tables[Dual] = DualTable /\ \A x \in T : m.tables[x.table] = LoadedTable(r, x)
      BY DEF Known, TablesMapped
    <2>2. LoadedTable(q, row) = [name |-> name, columns |-> definition, indexes |-> {}]
      BY <1>7, <1>19, <1>21 DEF LoadedTable
    <2>3. ASSUME NEW x \in T PROVE LoadedTable(q, x) = LoadedTable(r, x)
      <3>1. ColumnsOf(q, x.table) = ColumnsOf(r, x.table)
        BY <1>7, <1>15
      <3>2. SchemaOf(q, x.table) = SchemaOf(r, x.table)
        BY <3>1, SchemaOfColumns
      <3>3. IndexesOf(q, x.table) = IndexesOf(r, x.table)
        BY <1>21
      <3> QED BY <3>2, <3>3 DEF LoadedTable
    <2>4. \A x \in T \cup {row} : m2.tables[x.table] = LoadedTable(q, x)
      BY <1>7, <1>22, <2>1, <2>2, <2>3
    <2>5. m2.tables[Dual] = DualTable
      BY <1>7, <1>22, <2>1
    <2> QED BY <1>13, <1>22, <2>4, <2>5 DEF TablesMapped
  <1>24. NamesMapped(T \cup {row}, m2.tableNames)
    <2> PICK names : names = m.tableNames
      OBVIOUS
    <2>1. m2.tableNames = [n \in DOMAIN names \cup {name} |-> IF n = name THEN t ELSE names[n]]
      BY <1>1, <1>2 DEF Put
    <2>2. names = [n \in {x.name : x \in T} \cup {"DUAL"} |-> names[n]] /\ names["DUAL"] = Dual
          /\ \A x \in T : names[x.name] = x.table
      BY DEF Known, NamesMapped
    <2>3. DOMAIN names \cup {name} = {x.name : x \in T \cup {row}} \cup {"DUAL"}
      BY <1>7, <2>2
    <2> QED BY <1>7, <2>1, <2>2, <2>3 DEF NamesMapped
  <1>25. Known(q, m2)
    <2>1. m2 = [tables |-> m2.tables, tableNames |-> m2.tableNames,
                indexes |-> m2.indexes, indexNames |-> m2.indexNames]
          /\ m2.indexes = m.indexes /\ m2.indexNames = m.indexNames
      BY <1>1, <1>2
    <2> QED BY <1>13, <1>23, <1>24, <2>1 DEF Known
  <1>26. m2.tables[t].indexes = {}
    BY <1>7, <1>22
  <1> QED BY <1>2, <1>5, <1>6, <1>13, <1>17, <1>20, <1>21, <1>25, <1>26 DEF TableIn

-----------------------------------------------------------------------------
(* What the deletions do. *)

LEMMA TableRowsDeleted ==
  ASSUME NEW f, FileOK(f), NEW t
  PROVE  /\ FileOK(deleteRecords(f, OfTable(f, t)))
         /\ Rows(deleteRecords(f, OfTable(f, t))) = {x \in Rows(f) : x.table # t}
PROOF
  <1>1. OfTable(f, t) \in SUBSET Places(f)
    BY DEF OfTable
  <1>2. {f.slots[n] : n \in Places(f) \ OfTable(f, t)} = {x \in Rows(f) : x.table # t}
    BY DEF OfTable, Rows
  <1> QED BY <1>1, <1>2, RowsDeleted

LEMMA IndexRowsDeleted ==
  ASSUME NEW f, FileOK(f), NEW t, NEW i
  PROVE  /\ FileOK(deleteRecords(f, OfIndex(f, t, i)))
         /\ Rows(deleteRecords(f, OfIndex(f, t, i)))
            = {x \in Rows(f) : ~(x.table = t /\ x.index = i)}
PROOF
  <1>1. OfIndex(f, t, i) \in SUBSET Places(f)
    BY DEF OfTable, OfIndex
  <1>2. {f.slots[n] : n \in Places(f) \ OfIndex(f, t, i)}
        = {x \in Rows(f) : ~(x.table = t /\ x.index = i)}
    BY DEF OfTable, OfIndex, Rows
  <1> QED BY <1>1, <1>2, RowsDeleted

\* There is one row of a table, and the scan that ends with the first finds it.
LEMMA FirstIsAll ==
  ASSUME NEW f, FileOK(f), TablesOK(Rows(f)), NEW y \in Rows(f)
  PROVE  FirstOf(OfTable(f, y.table)) = OfTable(f, y.table)
PROOF
  <1>1. DOMAIN f.slots \subseteq Nat
    BY DEF FileOK, Range
  <1>2. PICK n \in Places(f) : f.slots[n] = y
    BY DEF Rows
  <1>3. n \in Nat
    BY <1>1, <1>2 DEF Places
  <1>4. OfTable(f, y.table) = {n}
    BY <1>2 DEF OfTable, Rows, TablesOK, FileOK, NoneTwice
  <1>5. Min({n}) = n
    BY <1>3 DEF Min
  <1> QED BY <1>4, <1>5 DEF FirstOf

\* What is left when a table is dropped is sound, and the maps and the files go
\* with it.
LEMMA TableDropped ==
  ASSUME NEW s, Sound(s.rows), Known(s.rows, s.memory), Filed(s.rows, s.files),
         NEW y \in Rows(s.rows.tables)
  PROVE  LET a == dropTable(s, y.table, y.name)
         IN /\ Sound(a.rows) /\ Known(a.rows, a.memory) /\ Filed(a.rows, a.files)
            /\ a.trouble = s.trouble
PROOF
  <1> PICK t : t = y.table
    OBVIOUS
  <1> PICK a : a = dropTable(s, t, y.name)
    OBVIOUS
  <1> PICK r : r = s.rows
    OBVIOUS
  <1> PICK m : m = s.memory
    OBVIOUS
  <1> PICK q : q = a.rows
    OBVIOUS
  <1> PICK m2 : m2 = a.memory
    OBVIOUS
  <1> DEFINE T == Rows(r.tables)
             C == Rows(r.columns)
             X == Rows(r.indexes)
             K == Rows(r.indexColumns)
             T2 == T \ {y}
             C2 == {x \in C : x.table # t}
             X2 == {x \in X : x.table # t}
             K2 == {x \in K : x.table # t}
  <1>1. /\ q = DeleteRowsOfTable(r, t) /\ a.trouble = s.trouble /\ a.files = s.files \ TableFiles(r, t)
        /\ m2 = [tables |-> Erase(m.tables, t), tableNames |-> Erase(m.tableNames, y.name),
                 indexes |-> m.indexes, indexNames |-> m.indexNames]
    BY DEF dropTable, EraseTable
  <1>2. /\ q = [tables |-> q.tables, columns |-> q.columns, indexes |-> q.indexes,
                indexColumns |-> q.indexColumns]
        /\ q.tables = deleteRecords(r.tables, FirstOf(OfTable(r.tables, t)))
        /\ q.columns = deleteRecords(r.columns, OfTable(r.columns, t))
        /\ q.indexes = deleteRecords(r.indexes, OfTable(r.indexes, t))
        /\ q.indexColumns = deleteRecords(r.indexColumns, OfTable(r.indexColumns, t))
    BY <1>1 DEF DeleteRowsOfTable
  <1>3. FileOK(r.tables) /\ FileOK(r.columns) /\ FileOK(r.indexes) /\ FileOK(r.indexColumns)
        /\ TablesOK(T) /\ y \in T
    BY DEF Sound
  <1>4. \A x, z \in T : x.table = z.table \/ x.name = z.name => x = z
    BY <1>3 DEF TablesOK
  <1>5. FileOK(q.tables) /\ Rows(q.tables) = T2
    <2>1. q.tables = deleteRecords(r.tables, OfTable(r.tables, t))
      BY <1>2, <1>3, FirstIsAll
    <2>2. {x \in T : x.table # t} = T2
      BY <1>4
    <2> QED BY <1>3, <2>1, <2>2, TableRowsDeleted
  <1>6. FileOK(q.columns) /\ Rows(q.columns) = C2
    BY <1>2, <1>3, TableRowsDeleted
  <1>7. FileOK(q.indexes) /\ Rows(q.indexes) = X2
    BY <1>2, <1>3, TableRowsDeleted
  <1>8. FileOK(q.indexColumns) /\ Rows(q.indexColumns) = K2
    BY <1>2, <1>3, TableRowsDeleted
  <1>9. \A x \in T2 : x \in T /\ x.table # t /\ x.name # y.name
    BY <1>4
  <1>10. \A u : u # t => ColumnsOf(q, u) = ColumnsOf(r, u) /\ ColumnIds(q, u) = ColumnIds(r, u)
    <2> SUFFICES ASSUME NEW u, u # t
                 PROVE  ColumnsOf(q, u) = ColumnsOf(r, u) /\ ColumnIds(q, u) = ColumnIds(r, u)
      OBVIOUS
    <2>1. ColumnsOf(q, u) = ColumnsOf(r, u)
      BY <1>6 DEF ColumnsOf
    <2> QED BY <2>1 DEF ColumnIds
  <1>11. \A u : u # t => IndexesOf(q, u) = IndexesOf(r, u)
    BY <1>7 DEF IndexesOf
  <1>12. Sound(q)
    <2>1. TablesOK(T2)
      BY <1>3 DEF TablesOK
    <2>2. ColumnsOK(T2, C2)
      BY DEF Sound, ColumnsOK
    <2>3. \A x \in T2 : Numbered(q, x.table)
      BY <1>9, <1>10 DEF Sound, Numbered
    <2>4. IndexesOK(T2, X2)
      BY DEF Sound, IndexesOK
    <2>5. KeysOK(C2, X2, K2)
      BY DEF Sound, KeysOK
    <2> QED BY <1>2, <1>5, <1>6, <1>7, <1>8, <2>1, <2>2, <2>3, <2>4, <2>5 DEF Sound
  <1>13. TablesMapped(q, m2.tables)
    <2> PICK tables : tables = m.tables
      OBVIOUS
    <2>1. tables = [u \in {x.table : x \in T} \cup {Dual} |-> tables[u]] /\ tables[Dual] = DualTable
          /\ \A x \in T : tables[x.table] = LoadedTable(r, x)
      BY DEF Known, TablesMapped
    <2>2. m2.tables = [u \in DOMAIN tables \ {t} |-> tables[u]]
      BY <1>1 DEF Erase, Restrict
    <2>3. t # Dual
      BY <1>3 DEF TablesOK
    <2>4. DOMAIN tables \ {t} = {x.table : x \in T2} \cup {Dual}
      BY <1>9, <2>1, <2>3
    <2>5. ASSUME NEW x \in T2 PROVE m2.tables[x.table] = LoadedTable(q, x)
      <3>1. SchemaOf(q, x.table) = SchemaOf(r, x.table)
        BY <1>9, <1>10, SchemaOfColumns
      <3>2. LoadedTable(q, x) = LoadedTable(r, x)
        BY <1>9, <1>11, <3>1 DEF LoadedTable
      <3> QED BY <1>9, <2>1, <2>2, <2>4, <3>2
    <2>6. m2.tables[Dual] = DualTable
      BY <2>1, <2>2, <2>4, SMTT(60)
    <2> QED BY <1>5, <2>2, <2>4, <2>5, <2>6 DEF TablesMapped
  <1>14. NamesMapped(T2, m2.tableNames)
    <2> PICK names : names = m.tableNames
      OBVIOUS
    <2>1. names = [n \in {x.name : x \in T} \cup {"DUAL"} |-> names[n]] /\ names["DUAL"] = Dual
          /\ \A x \in T : names[x.name] = x.table
      BY DEF Known, NamesMapped
    <2>2. m2.tableNames = [n \in DOMAIN names \ {y.name} |-> names[n]]
      BY <1>1 DEF Erase, Restrict
    <2>3. y.name # "DUAL"
      BY <1>3 DEF TablesOK
    <2>4. DOMAIN names \ {y.name} = {x.name : x \in T2} \cup {"DUAL"}
      BY <1>9, <2>1, <2>3
    <2> QED BY <1>9, <2>1, <2>2, <2>3, <2>4 DEF NamesMapped
  <1>15. ASSUME NEW x \in X2
         PROVE  IndexMapped(x, K2, m2.indexes) /\ IndexNameMapped(x, m2.indexNames)
    <2>1. IndexMapped(x, K, m.indexes) /\ IndexNameMapped(x, m.indexNames)
      BY DEF Known
    <2>2. KeyColumns(K2, x.table, x.index) = KeyColumns(K, x.table, x.index)
      <3>1. {k \in K2 : k.table = x.table /\ k.index = x.index}
            = {k \in K : k.table = x.table /\ k.index = x.index}
        OBVIOUS
      <3> QED BY <3>1 DEF KeyColumns
    <2> QED BY <1>1, <2>1, <2>2 DEF IndexMapped, IndexNameMapped
  <1>16. Known(q, m2)
    <2>1. m2 = [tables |-> m2.tables, tableNames |-> m2.tableNames,
                indexes |-> m2.indexes, indexNames |-> m2.indexNames]
      BY <1>1
    <2> QED BY <1>5, <1>7, <1>8, <1>13, <1>14, <1>15, <2>1 DEF Known
  <1>17. Filed(q, a.files)
    <2>1. TableFiles(r, t) = {<<t>>} \cup {<<t, x.index>> : x \in IndexesOf(r, t)}
      BY DEF TableFiles
    <2>2. \A u : u # t => <<u>> \notin TableFiles(r, t)
      BY <2>1
    <2>3. \A u, i : u # t => <<u, i>> \notin TableFiles(r, t)
      BY <2>1
    <2> QED BY <1>1, <1>5, <1>7, <1>9, <2>2, <2>3 DEF Filed
  <1> QED BY <1>1, <1>12, <1>16, <1>17

\* What is left when an index is dropped.
LEMMA IndexDropped ==
  ASSUME NEW s, Sound(s.rows), Known(s.rows, s.memory), Filed(s.rows, s.files),
         NEW y \in Rows(s.rows.indexes)
  PROVE  LET a == DropIndex(s, y.table, y.index, y.name)
         IN /\ Sound(a.rows) /\ Known(a.rows, a.memory) /\ Filed(a.rows, a.files)
            /\ a.trouble = s.trouble
PROOF
  <1> PICK t : t = y.table
    OBVIOUS
  <1> PICK i : i = y.index
    OBVIOUS
  <1> PICK a : a = DropIndex(s, t, i, y.name)
    OBVIOUS
  <1> PICK r : r = s.rows
    OBVIOUS
  <1> PICK m : m = s.memory
    OBVIOUS
  <1> PICK q : q = a.rows
    OBVIOUS
  <1> PICK m2 : m2 = a.memory
    OBVIOUS
  <1> DEFINE T == Rows(r.tables)
             C == Rows(r.columns)
             X == Rows(r.indexes)
             K == Rows(r.indexColumns)
             X2 == X \ {y}
             K2 == {k \in K : ~(k.table = t /\ k.index = i)}
  <1>1. /\ q = [tables |-> r.tables, columns |-> r.columns,
                indexes |-> deleteRecords(r.indexes, OfIndex(r.indexes, t, i)),
                indexColumns |-> deleteRecords(r.indexColumns, OfIndex(r.indexColumns, t, i))]
        /\ a.trouble = s.trouble /\ a.files = s.files \ {<<t, i>>}
        /\ m2 = [tables |-> [m.tables EXCEPT ![t].indexes = @ \ {i}], tableNames |-> m.tableNames,
                 indexes |-> Erase(m.indexes, <<t, i>>),
                 indexNames |-> Erase(m.indexNames, <<t, y.name>>)]
    BY DEF DropIndex
  <1>2. /\ q = [tables |-> q.tables, columns |-> q.columns, indexes |-> q.indexes,
                indexColumns |-> q.indexColumns]
        /\ q.tables = r.tables /\ q.columns = r.columns
        /\ q.indexes = deleteRecords(r.indexes, OfIndex(r.indexes, t, i))
        /\ q.indexColumns = deleteRecords(r.indexColumns, OfIndex(r.indexColumns, t, i))
    BY <1>1
  <1>3. FileOK(r.tables) /\ FileOK(r.columns) /\ FileOK(r.indexes) /\ FileOK(r.indexColumns)
        /\ y \in X
    BY DEF Sound
  <1>4. \A x \in X2 : x \in X /\ ~(x.table = t /\ x.index = i) /\ ~(x.table = t /\ x.name = y.name)
    BY DEF Sound, IndexesOK
  <1>5. FileOK(q.indexes) /\ Rows(q.indexes) = X2
    <2>1. {x \in X : ~(x.table = t /\ x.index = i)} = X2
      BY <1>4
    <2> QED BY <1>2, <1>3, <2>1, IndexRowsDeleted
  <1>6. FileOK(q.indexColumns) /\ Rows(q.indexColumns) = K2
    BY <1>2, <1>3, IndexRowsDeleted
  <1>7. \A u : ColumnsOf(q, u) = ColumnsOf(r, u) /\ ColumnIds(q, u) = ColumnIds(r, u)
    BY <1>2 DEF ColumnsOf, ColumnIds
  <1>8. Sound(q)
    <2>1. \A x \in T : Numbered(q, x.table)
      BY <1>7 DEF Sound, Numbered
    <2>2. IndexesOK(T, X2)
      BY DEF Sound, IndexesOK
    <2>3. KeysOK(C, X2, K2)
      <3> SUFFICES ASSUME NEW k \in K2
                   PROVE  /\ \E x \in X2 : x.table = k.table /\ x.index = k.index
                          /\ \E c \in C : c.table = k.table /\ c.id = k.column
        BY DEF KeysOK
      <3> QED BY DEF Sound, KeysOK
    <2> QED BY <1>2, <1>3, <1>5, <1>6, <2>1, <2>2, <2>3 DEF Sound
  <1>9. TablesMapped(q, m2.tables)
    <2> PICK tables : tables = m.tables
      OBVIOUS
    <2>1. tables = [u \in {x.table : x \in T} \cup {Dual} |-> tables[u]] /\ tables[Dual] = DualTable
          /\ \A x \in T : tables[x.table] = LoadedTable(r, x)
      BY DEF Known, TablesMapped
    <2>2. PICK z \in T : z.table = t
      BY DEF Sound, IndexesOK
    <2>3. PICK old : old = tables[t]
      OBVIOUS
    <2>4. PICK ids : ids = {x.index : x \in IndexesOf(r, t)}
      OBVIOUS
    <2>5. old = [name |-> z.name, columns |-> SchemaOf(r, t), indexes |-> ids]
      BY <2>1, <2>2, <2>3, <2>4 DEF LoadedTable
    <2>6. PICK entry : entry = [old EXCEPT !.indexes = old.indexes \ {i}]
      OBVIOUS
    <2>7. entry = [name |-> z.name, columns |-> SchemaOf(r, t), indexes |-> ids \ {i}]
      BY <2>5, <2>6
    <2>8. m2.tables = [u \in {x.table : x \in T} \cup {Dual} |-> IF u = t THEN entry ELSE tables[u]]
      <3>1. m2.tables = [tables EXCEPT ![t].indexes = @ \ {i}]
        BY <1>1
      <3>2. m2.tables = [tables EXCEPT ![t] = entry]
        BY <2>3, <2>6, <3>1
      <3> QED BY <2>1, <3>2
    <2>9. ids \ {i} = {x.index : x \in IndexesOf(q, t)}
      BY <1>4, <1>5, <2>4 DEF IndexesOf
    <2>10. \A u : u # t => IndexesOf(q, u) = IndexesOf(r, u)
      BY <1>5 DEF IndexesOf
    <2>11. \A u : SchemaOf(q, u) = SchemaOf(r, u)
      BY <1>7, SchemaOfColumns
    <2>12. entry = LoadedTable(q, z)
      BY <2>2, <2>7, <2>9, <2>11 DEF LoadedTable
    <2>13. t # Dual /\ \A x \in T : x.table = t => x = z
      BY <2>2 DEF Sound, TablesOK
    <2>14. ASSUME NEW x \in T PROVE m2.tables[x.table] = LoadedTable(q, x)
      <3>1. CASE x = z
        BY <2>2, <2>8, <2>12, <3>1
      <3>2. CASE x # z
        <4>1. x.table # t
          BY <2>13, <3>2
        <4>2. m2.tables[x.table] = LoadedTable(r, x)
          BY <2>1, <2>8, <4>1
        <4> QED BY <2>10, <2>11, <4>1, <4>2 DEF LoadedTable
      <3> QED BY <3>1, <3>2
    <2>15. m2.tables[Dual] = DualTable
      BY <2>1, <2>8, <2>13
    <2> QED BY <1>2, <2>8, <2>14, <2>15 DEF TablesMapped
  <1>10. ASSUME NEW x \in X2
         PROVE  IndexMapped(x, K2, m2.indexes) /\ IndexNameMapped(x, m2.indexNames)
    <2> PICK indexes : indexes = m.indexes
      OBVIOUS
    <2> PICK names : names = m.indexNames
      OBVIOUS
    <2>1. IndexMapped(x, K, indexes) /\ IndexNameMapped(x, names)
      BY DEF Known
    <2>2. m2.indexes = [k \in DOMAIN indexes \ {<<t, i>>} |-> indexes[k]]
          /\ m2.indexNames = [k \in DOMAIN names \ {<<t, y.name>>} |-> names[k]]
      BY <1>1 DEF Erase, Restrict
    <2>3. <<x.table, x.index>> # <<t, i>> /\ <<x.table, x.name>> # <<t, y.name>>
      BY <1>4
    <2>4. KeyColumns(K2, x.table, x.index) = KeyColumns(K, x.table, x.index)
      <3>1. {k \in K2 : k.table = x.table /\ k.index = x.index}
            = {k \in K : k.table = x.table /\ k.index = x.index}
        BY <1>4
      <3> QED BY <3>1 DEF KeyColumns
    <2> QED BY <2>1, <2>2, <2>3, <2>4 DEF IndexMapped, IndexNameMapped
  <1>11. Known(q, m2)
    <2>1. m2 = [tables |-> m2.tables, tableNames |-> m2.tableNames,
                indexes |-> m2.indexes, indexNames |-> m2.indexNames] /\ m2.tableNames = m.tableNames
      BY <1>1
    <2>2. NamesMapped(T, m2.tableNames)
      BY <2>1 DEF Known
    <2> QED BY <1>2, <1>5, <1>6, <1>9, <1>10, <2>1, <2>2 DEF Known
  <1>12. Filed(q, a.files)
    <2>1. \A u : <<u>> # <<t, i>>
      OBVIOUS
    <2> QED BY <1>1, <1>2, <1>4, <1>5, <2>1 DEF Filed
  <1> QED BY <1>1, <1>8, <1>11, <1>12

LEMMA EntryChanged ==
  ASSUME NEW name, NEW columns, NEW ids, NEW more
  PROVE  [[name |-> name, columns |-> columns, indexes |-> ids] EXCEPT !.indexes = more]
         = [name |-> name, columns |-> columns, indexes |-> more]
PROOF
  <1> QED OBVIOUS

IndexOut(s, a, d) ==
  Known(s.rows, d.memory) /\ Filed(s.rows, d.files) /\ d.trouble = a.trouble

\* An index that is dropped as soon as it is made leaves the maps as they were.
LEMMA IndexUndone ==
  ASSUME NEW s, Sound(s.rows), Known(s.rows, s.memory), Filed(s.rows, s.files),
         NEW y \in Rows(s.rows.tables), NEW t, t = y.table,
         NEW i \in Nat, i \notin s.memory.tables[t].indexes,
         NEW name, name \notin {x.name : x \in IndexesOf(s.rows, t)},
         NEW unique, NEW key
  PROVE  LET a == AddIndex(s, t, i, name, unique, key)
         IN IndexOut(s, a, DropIndex(a, t, i, name))
PROOF
  <1> PICK a : a = AddIndex(s, t, i, name, unique, key)
    OBVIOUS
  <1> PICK d : d = DropIndex(a, t, i, name)
    OBVIOUS
  <1> PICK r : r = s.rows
    OBVIOUS
  <1> PICK m : m = s.memory
    OBVIOUS
  <1> PICK m1 : m1 = a.memory
    OBVIOUS
  <1> PICK m2 : m2 = d.memory
    OBVIOUS
  <1> PICK entry : entry = [name |-> name, unique |-> unique, columns |-> key]
    OBVIOUS
  <1> DEFINE T == Rows(r.tables)
             X == Rows(r.indexes)
             K == Rows(r.indexColumns)
  <1>1. /\ a.files = s.files \cup {<<t>>, <<t, i>>}
        /\ m1 = [tables |-> [m.tables EXCEPT ![t].indexes = @ \cup {i}], tableNames |-> m.tableNames,
                 indexes |-> Put(m.indexes, <<t, i>>, entry), indexNames |-> Put(m.indexNames, <<t, name>>, i)]
    BY DEF AddIndex
  <1>2. /\ d.files = a.files \ {<<t, i>>} /\ d.trouble = a.trouble
        /\ m2 = [tables |-> [m1.tables EXCEPT ![t].indexes = @ \ {i}], tableNames |-> m1.tableNames,
                 indexes |-> Erase(m1.indexes, <<t, i>>), indexNames |-> Erase(m1.indexNames, <<t, name>>)]
    BY DEF DropIndex
  <1>3. /\ TablesMapped(r, m.tables) /\ NamesMapped(T, m.tableNames)
        /\ \A x \in X : IndexMapped(x, K, m.indexes) /\ IndexNameMapped(x, m.indexNames)
    BY DEF Known
  <1>0. \A x \in X : <<x.table, x.index>> # <<t, i>> /\ <<x.table, x.name>> # <<t, name>>
    <2> PICK tables : tables = m.tables
      OBVIOUS
    <2>1. tables[t] = LoadedTable(r, y)
      BY <1>3 DEF TablesMapped
    <2>2. tables[t].indexes = {z.index : z \in IndexesOf(r, t)}
      BY <2>1 DEF LoadedTable
    <2> QED BY <2>2 DEF IndexesOf
  <1>4. m2.tables = m.tables
    <2> PICK tables : tables = m.tables
      OBVIOUS
    <2>1. tables = [u \in {x.table : x \in T} \cup {Dual} |-> tables[u]]
          /\ tables[t] = LoadedTable(r, y)
      BY <1>3 DEF TablesMapped
    <2> PICK old : old = tables[t]
      OBVIOUS
    <2> PICK columns : columns = SchemaOf(r, t)
      OBVIOUS
    <2> PICK ids : ids = {z.index : z \in IndexesOf(r, t)}
      OBVIOUS
    <2>2. old = [name |-> y.name, columns |-> columns, indexes |-> ids]
      BY <2>1 DEF LoadedTable
    <2>10. i \notin ids
      <3>1. old.indexes = ids
        BY <2>2
      <3> QED BY <3>1
    <2>3. PICK more : more = [old EXCEPT !.indexes = old.indexes \cup {i}]
      OBVIOUS
    <2>4. more = [name |-> y.name, columns |-> columns, indexes |-> ids \cup {i}]
      <3>1. old.indexes = ids
        BY <2>2
      <3>2. more = [old EXCEPT !.indexes = ids \cup {i}]
        BY <2>3, <3>1, Zenon
      <3>3. \A n, c, o, w : [[name |-> n, columns |-> c, indexes |-> o] EXCEPT !.indexes = w]
                            = [name |-> n, columns |-> c, indexes |-> w]
        BY EntryChanged
      <3> PICK wide : wide = ids \cup {i}
        OBVIOUS
      <3>4. more = [[name |-> y.name, columns |-> columns, indexes |-> ids] EXCEPT !.indexes = wide]
        BY <2>2, <3>2, Zenon
      <3>5. more = [name |-> y.name, columns |-> columns, indexes |-> wide]
        BY <3>3, <3>4, Zenon
      <3> QED BY <3>5
    <2>5. PICK back : back = [more EXCEPT !.indexes = more.indexes \ {i}]
      OBVIOUS
    <2>6. back = old
      <3>1. back = [name |-> y.name, columns |-> columns, indexes |-> (ids \cup {i}) \ {i}]
        BY <2>4, <2>5
      <3>2. (ids \cup {i}) \ {i} = ids
        BY <2>10
      <3> QED BY <2>2, <3>1, <3>2
    <2>7. m1.tables = [tables EXCEPT ![t] = more]
      <3>1. m1.tables = [tables EXCEPT ![t].indexes = @ \cup {i}]
        BY <1>1
      <3> QED BY <2>3, <3>1
    <2>8. t \in DOMAIN tables
      BY <2>1
    <2>9. m2.tables = [m1.tables EXCEPT ![t] = back]
      <3> PICK tables1 : tables1 = m1.tables
        OBVIOUS
      <3>1. m2.tables = [tables1 EXCEPT ![t].indexes = @ \ {i}]
        BY <1>2
      <3>2. tables1[t] = more
        BY <2>7, <2>8
      <3> QED BY <2>5, <3>1, <3>2
    <2> QED BY <2>1, <2>6, <2>7, <2>8, <2>9
  <1>5. ASSUME NEW x \in X
        PROVE  IndexMapped(x, K, m2.indexes) /\ IndexNameMapped(x, m2.indexNames)
    <2> PICK indexes : indexes = m.indexes
      OBVIOUS
    <2> PICK names : names = m.indexNames
      OBVIOUS
    <2>1. IndexMapped(x, K, indexes) /\ IndexNameMapped(x, names)
      BY <1>3
    <2>2. <<x.table, x.index>> # <<t, i>> /\ <<x.table, x.name>> # <<t, name>>
      BY <1>0
    <2>3. <<x.table, x.index>> \in DOMAIN m2.indexes
          /\ m2.indexes[<<x.table, x.index>>] = indexes[<<x.table, x.index>>]
      <3>1. m2.indexes = Erase(Put(indexes, <<t, i>>, entry), <<t, i>>)
        BY <1>1, <1>2
      <3> QED BY <2>1, <2>2, <3>1 DEF Erase, Put, Restrict, IndexMapped
    <2>4. <<x.table, x.name>> \in DOMAIN m2.indexNames
          /\ m2.indexNames[<<x.table, x.name>>] = names[<<x.table, x.name>>]
      <3>1. m2.indexNames = Erase(Put(names, <<t, name>>, i), <<t, name>>)
        BY <1>1, <1>2
      <3> QED BY <2>1, <2>2, <3>1 DEF Erase, Put, Restrict, IndexNameMapped
    <2> QED BY <2>1, <2>3, <2>4 DEF IndexMapped, IndexNameMapped
  <1>6. Known(r, m2)
    <2>1. m2 = [tables |-> m2.tables, tableNames |-> m2.tableNames,
                indexes |-> m2.indexes, indexNames |-> m2.indexNames] /\ m2.tableNames = m.tableNames
      BY <1>1, <1>2
    <2> QED BY <1>3, <1>4, <1>5, <2>1 DEF Known
  <1>7. Filed(r, d.files)
    <2>1. \A u : <<u>> # <<t, i>>
      OBVIOUS
    <2> QED BY <1>0, <1>1, <1>2, <2>1 DEF Filed
  <1> QED BY <1>2, <1>6, <1>7 DEF IndexOut

-----------------------------------------------------------------------------
(* What the statements do. *)

Good(s) == Sound(s.rows) /\ Known(s.rows, s.memory) /\ Filed(s.rows, s.files)

\* Statements do not go on with a free list that misleads them.
Fine(s) == s.trouble = {} => Good(s)

\* CREATE TABLE, with the index of its primary key.
LEMMA TableCreated ==
  ASSUME NEW s, Good(s), NEW name, name \notin DOMAIN s.memory.tableNames,
         NEW definition, definition \in Seq(Range(definition)), Allowed(definition)
  PROVE  LET t == LowestNotIn(DOMAIN s.memory.tables)
             columns == AddColumns(AddTable(s, t, name), t, definition)
         IN Fine(AddIndex(columns, t, 0, "PRIMARY", TRUE, PrimaryKey(definition)))
PROOF
  <1> PICK t : t = LowestNotIn(DOMAIN s.memory.tables)
    OBVIOUS
  <1> PICK c : c = AddColumns(AddTable(s, t, name), t, definition)
    OBVIOUS
  <1> PICK key : key = PrimaryKey(definition)
    OBVIOUS
  <1> PICK a : a = AddIndex(c, t, 0, "PRIMARY", TRUE, key)
    OBVIOUS
  <1> PICK row : row = TableRow(t, name)
    OBVIOUS
  <1> SUFFICES ASSUME a.trouble = {} PROVE Good(a)
    BY DEF Fine
  <1>0. Sound(s.rows) /\ Known(s.rows, s.memory) /\ Filed(s.rows, s.files)
    BY DEF Good
  <1>1. t \in Nat /\ t \notin DOMAIN s.memory.tables
    <2> PICK numbers : numbers = {x.table : x \in Rows(s.rows.tables)}
      OBVIOUS
    <2>1. DOMAIN s.memory.tables = numbers \cup {Dual}
      <3> PICK tables : tables = s.memory.tables
        OBVIOUS
      <3>1. tables = [u \in numbers \cup {Dual} |-> tables[u]]
        BY <1>0 DEF Known, TablesMapped
      <3> QED BY <3>1
    <2>2. IsFiniteSet(numbers)
      BY <1>0, RowsFinite, NumbersFinite DEF Sound
    <2>3. IsFiniteSet(numbers \cup {Dual})
      BY <2>2, FS_AddElement
    <2>4. IsFiniteSet(DOMAIN s.memory.tables)
      BY <2>1, <2>3
    <2> QED BY <2>4, LowestIsFree
  <1>2. c.trouble = {}
    BY DEF AddIndex, AddIndexRow, Add
  <1>3. /\ Sound(c.rows) /\ Known(c.rows, c.memory) /\ c.files = s.files
        /\ Rows(c.rows.tables) = Rows(s.rows.tables) \cup {row}
        /\ c.rows.indexes = s.rows.indexes /\ IndexesOf(c.rows, t) = {}
        /\ c.memory.tables[t].indexes = {}
        /\ ColumnIds(c.rows, t) = 0..(Len(definition) - 1)
    <2> PICK S : S = Range(definition)
      OBVIOUS
    <2>1. definition \in Seq(S)
      OBVIOUS
    <2>2. AddColumns(AddTable(s, t, name), t, definition).trouble = {}
      BY <1>2
    <2>3. Sound(s.rows) /\ Known(s.rows, s.memory) /\ t \in Nat
      BY <1>0, <1>1
    <2>4. TableIn(s, AddColumns(AddTable(s, t, name), t, definition), t, name, definition)
      BY <1>1, <2>1, <2>2, <2>3, TableAdded
    <2>5. TableIn(s, c, t, name, definition)
      BY <2>4
    <2> QED BY <2>5 DEF TableIn
  <1>4. row \in Rows(c.rows.tables) /\ row.table = t /\ 0 \in Nat
    BY <1>3 DEF TableRow
  <1>5. key \in Seq(Nat) /\ KeyFor(c.rows, t, key)
    <2> PICK L : L = Len(definition)
      OBVIOUS
    <2> PICK n : n = Cardinality(PrimaryColumns(definition))
      OBVIOUS
    <2>1. L \in Nat /\ DOMAIN definition = 1..L
      OBVIOUS
    <2>2. IsFiniteSet(1..L) /\ Cardinality(1..L) = L
      <3>1. 1 \in Int /\ L \in Int /\ 1 <= L + 1
        BY <2>1
      <3>2. IsFiniteSet(1..L) /\ Cardinality(1..L) = IF 1 > L THEN 0 ELSE L - 1 + 1
        BY <3>1, FS_Interval
      <3> QED BY <2>1, <3>2
    <2>3. PrimaryColumns(definition) \in SUBSET (1..L)
      BY <2>1 DEF PrimaryColumns
    <2>4. n \in Nat /\ n <= L
      BY <2>2, <2>3, FS_Subset, FS_CardinalityType
    <2>5. key = [k \in 1..n |-> k - 1]
      BY DEF PrimaryKey
    <2>6. key \in Seq(Nat) /\ DOMAIN key = 1..n /\ \A k \in 1..n : key[k] = k - 1
      BY <2>4, <2>5
    <2>7. \A k \in 1..n : key[k] \in ColumnIds(c.rows, t)
      BY <1>3, <2>1, <2>4, <2>6
    <2> QED BY <2>4, <2>6, <2>7 DEF KeyFor
  <1>6. "PRIMARY" \notin {x.name : x \in IndexesOf(c.rows, t)} /\ 0 \notin c.memory.tables[t].indexes
    BY <1>3
  <1>7. /\ Sound(a.rows) /\ Known(a.rows, a.memory) /\ a.rows.tables = c.rows.tables
        /\ Rows(a.rows.indexes) = Rows(c.rows.indexes) \cup {IndexRow(t, 0, "PRIMARY", TRUE)}
        /\ a.files = c.files \cup {<<t>>, <<t, 0>>}
    <2>1. AddIndex(c, t, 0, "PRIMARY", TRUE, key).trouble = {}
      OBVIOUS
    <2>2. IndexIn(c, AddIndex(c, t, 0, "PRIMARY", TRUE, key), t, 0, "PRIMARY", TRUE)
      BY <1>3, <1>4, <1>5, <1>6, <2>1, IndexAdded
    <2>3. IndexIn(c, a, t, 0, "PRIMARY", TRUE)
      BY <2>2
    <2> QED BY <2>3 DEF IndexIn
  <1>8. Filed(a.rows, a.files)
    <2>1. row.table = t /\ IndexRow(t, 0, "PRIMARY", TRUE).table = t /\ IndexRow(t, 0, "PRIMARY", TRUE).index = 0
      BY DEF TableRow, IndexRow
    <2> QED BY <1>0, <1>3, <1>7, <2>1 DEF Filed
  <1> QED BY <1>7, <1>8 DEF Good

\* CREATE INDEX of columns that a table has, with or without repeated keys.
LEMMA IndexCreated ==
  ASSUME NEW s, Good(s), NEW y \in Rows(s.rows.tables), NEW t, t = y.table,
         NEW name, <<t, name>> \notin DOMAIN s.memory.indexNames, NEW unique,
         NEW key, key \in Seq(Range(key)), \A m, n \in DOMAIN key : key[m] = key[n] => m = n,
         Range(key) \subseteq NamesOf(s.memory.tables[t].columns)
  PROVE  LET i == LowestNotIn(s.memory.tables[t].indexes)
             a == AddIndex(s, t, i, name, unique, NumbersOf(s.memory.tables[t].columns, key))
         IN Fine(a) /\ IndexOut(s, a, DropIndex(a, t, i, name))
PROOF
  <1> PICK r : r = s.rows
    OBVIOUS
  <1> PICK i : i = LowestNotIn(s.memory.tables[t].indexes)
    OBVIOUS
  <1> PICK columns : columns = s.memory.tables[t].columns
    OBVIOUS
  <1> PICK numbers : numbers = NumbersOf(columns, key)
    OBVIOUS
  <1> PICK a : a = AddIndex(s, t, i, name, unique, numbers)
    OBVIOUS
  <1>0. Sound(s.rows) /\ Known(s.rows, s.memory) /\ Filed(s.rows, s.files)
    BY DEF Good
  <1>1. /\ s.memory.tables[t].indexes = {x.index : x \in IndexesOf(r, t)}
        /\ columns = SchemaOf(r, t)
    <2>1. s.memory.tables[t] = LoadedTable(r, y)
      BY <1>0 DEF Known, TablesMapped
    <2> QED BY <2>1 DEF LoadedTable
  <1>2. i \in Nat /\ i \notin s.memory.tables[t].indexes
    <2>1. IsFiniteSet(Rows(r.indexes))
      BY <1>0, RowsFinite DEF Sound
    <2>2. IndexesOf(r, t) \in SUBSET Rows(r.indexes)
      BY DEF IndexesOf
    <2>3. IsFiniteSet(IndexesOf(r, t))
      BY <2>1, <2>2, FS_Subset
    <2>4. IsFiniteSet(s.memory.tables[t].indexes)
      BY <1>1, <2>3, NumbersFinite
    <2> QED BY <2>4, LowestIsFree
  <1>3. name \notin {x.name : x \in IndexesOf(r, t)}
    BY <1>0 DEF Known, IndexNameMapped, IndexesOf
  <1>4. numbers \in Seq(Int) /\ KeyFor(r, t, numbers)
    <2> PICK ids : ids = ColumnIds(r, t)
      OBVIOUS
    <2> PICK N : N = Cardinality(ids)
      OBVIOUS
    <2>1. IsFiniteSet(ids)
      <3> DEFINE number == [c \in ColumnsOf(r, t) |-> c.id]
      <3>1. IsFiniteSet(Rows(r.columns))
        BY <1>0, RowsFinite DEF Sound
      <3>2. ColumnsOf(r, t) \in SUBSET Rows(r.columns)
        BY DEF ColumnsOf
      <3>3. IsFiniteSet(ColumnsOf(r, t))
        BY <3>1, <3>2, FS_Subset
      <3>4. ids = {number[c] : c \in ColumnsOf(r, t)}
        BY DEF ColumnIds
      <3> HIDE DEF number
      <3> QED BY <3>3, <3>4, ImageFinite
    <2>2. N \in Nat
      BY <2>1, FS_CardinalityType
    <2>3. ids = 0..(N - 1)
      BY <1>0 DEF Sound, Numbered
    <2>4. DOMAIN columns = 1..N
      BY <1>1 DEF SchemaOf
    <2>5. \A n \in DOMAIN key : PlaceOf(columns, key[n]) \in DOMAIN columns
                               /\ columns[PlaceOf(columns, key[n])].name = key[n]
      <3> SUFFICES ASSUME NEW n \in DOMAIN key
                   PROVE  PlaceOf(columns, key[n]) \in DOMAIN columns
                          /\ columns[PlaceOf(columns, key[n])].name = key[n]
        OBVIOUS
      <3>1. key[n] \in NamesOf(columns)
        BY DEF Range
      <3>2. \E k \in DOMAIN columns : columns[k].name = key[n]
        BY <3>1 DEF NamesOf
      <3> QED BY <3>2 DEF PlaceOf
    <2>6. numbers = [n \in DOMAIN key |-> PlaceOf(columns, key[n]) - 1]
      BY DEF NumbersOf
    <2>7. \A n \in DOMAIN key : numbers[n] \in ids /\ numbers[n] \in Int
      <3> SUFFICES ASSUME NEW n \in DOMAIN key PROVE numbers[n] \in ids /\ numbers[n] \in Int
        OBVIOUS
      <3> PICK p : p = PlaceOf(columns, key[n])
        OBVIOUS
      <3> PICK k : k = numbers[n]
        OBVIOUS
      <3>1. p \in 1..N /\ k = p - 1
        BY <2>4, <2>5, <2>6
      <3>2. k \in 0..(N - 1) /\ k \in Int
        BY <2>2, <3>1
      <3> QED BY <2>3, <3>2
    <2>8. \A m, n \in DOMAIN key : numbers[m] = numbers[n] => m = n
      <3> SUFFICES ASSUME NEW m \in DOMAIN key, NEW n \in DOMAIN key, numbers[m] = numbers[n]
                   PROVE  m = n
        OBVIOUS
      <3>1. PlaceOf(columns, key[m]) = PlaceOf(columns, key[n])
        <4> PICK p : p = PlaceOf(columns, key[m])
          OBVIOUS
        <4> PICK q : q = PlaceOf(columns, key[n])
          OBVIOUS
        <4>1. p \in 1..N /\ q \in 1..N
          BY <2>4, <2>5
        <4>2. p - 1 = q - 1
          BY <2>6
        <4>3. p = q
          BY <2>2, <4>1, <4>2
        <4> QED BY <4>3
      <3>2. key[m] = key[n]
        BY <2>5, <3>1
      <3> QED BY <3>2
    <2>9. numbers \in Seq(Int)
      <3>1. Len(key) \in Nat /\ DOMAIN key = 1..Len(key)
        OBVIOUS
      <3> QED BY <2>6, <2>7, <3>1
    <2> QED BY <2>6, <2>7, <2>8, <2>9 DEF KeyFor
  <1>5. Fine(a)
    <2> SUFFICES ASSUME a.trouble = {} PROVE Good(a)
      BY DEF Fine
    <2>1. AddIndex(s, t, i, name, unique, numbers).trouble = {}
      OBVIOUS
    <2>2. KeyFor(s.rows, t, numbers) /\ name \notin {x.name : x \in IndexesOf(s.rows, t)}
      BY <1>3, <1>4
    <2>3. IndexIn(s, AddIndex(s, t, i, name, unique, numbers), t, i, name, unique)
      BY <1>0, <1>2, <1>4, <2>1, <2>2, IndexAdded
    <2>4. IndexIn(s, a, t, i, name, unique)
      BY <2>3
    <2>5. Sound(a.rows) /\ Known(a.rows, a.memory)
      BY <2>4 DEF IndexIn
    <2>6. Filed(a.rows, a.files)
      <3>1. IndexRow(t, i, name, unique).table = t /\ IndexRow(t, i, name, unique).index = i
        BY DEF IndexRow
      <3> QED BY <1>0, <2>4, <3>1 DEF IndexIn, Filed
    <2> QED BY <2>5, <2>6 DEF Good
  <1>6. LET b == AddIndex(s, t, i, name, unique, numbers)
        IN IndexOut(s, b, DropIndex(b, t, i, name))
    <2>1. name \notin {x.name : x \in IndexesOf(s.rows, t)}
      BY <1>3
    <2> QED BY <1>0, <1>2, <2>1, IndexUndone
  <1> QED BY <1>5, <1>6

-----------------------------------------------------------------------------
(* The system. *)

\* What the known defects need: a transaction that is undone after it has changed the
\* catalog, the name of an index that went with its table, DUAL dropped, a free list
\* that misleads, a primary key of variable size, a column that a key names twice.
NoDefects ==
  /\ ~Rollbacks /\ ~NamesReused /\ ~DualDropped /\ ~ListsWorn
  /\ \A s \in Scripts : \A d \in s.definitions : Allowed(d)
  /\ \A s \in Scripts : \A key \in s.keys : \A m, n \in DOMAIN key : key[m] = key[n] => m = n

LEMMA NothingSound ==
  Sound(NoRows) /\ Filed(NoRows, {})
PROOF
  <1> PICK r : r = NoRows
    OBVIOUS
  <1>1. r = [tables |-> EmptyFile, columns |-> EmptyFile, indexes |-> EmptyFile,
             indexColumns |-> EmptyFile]
    BY DEF NoRows
  <1>2. EmptyFile.slots = <<>> /\ EmptyFile.frlStart = NULL64
        /\ EmptyFile = [slots |-> EmptyFile.slots, frlStart |-> EmptyFile.frlStart]
    BY DEF EmptyFile
  <1>3. Places(EmptyFile) = {}
    BY <1>2 DEF Places
  <1>4. Rows(EmptyFile) = {}
    BY <1>3 DEF Rows
  <1>5. FileOK(EmptyFile)
    <2>1. EmptyFile.slots \in Seq(Range(EmptyFile.slots)) /\ DOMAIN EmptyFile.slots = {}
      BY <1>2
    <2> QED BY <1>2, <1>3, <2>1 DEF FileOK, NoneTwice
  <1>6. Sound(r)
    BY <1>1, <1>4, <1>5 DEF Sound, TablesOK, ColumnsOK, IndexesOK, KeysOK
  <1>7. Filed(r, {})
    BY <1>1, <1>4 DEF Filed
  <1> QED BY <1>6, <1>7

LEMMA CatalogInit ==
  ASSUME Init
  PROVE  CatalogInv
PROOF
  <1>1. Sound(NoRows) /\ Filed(NoRows, {})
    BY NothingSound
  <1>2. Known(NoRows, Loaded(NoRows))
    BY <1>1, LoadedIsKnown
  <1> QED BY <1>1, <1>2 DEF Init, CatalogInv

\* The catalog is as good after a statement as what the statement makes of it.
LEMMA Finished ==
  ASSUME NoDefects, CatalogInv, NEW s, Fine(s), NEW commits, Finish(s, commits)
  PROVE  CatalogInv'
PROOF
  <1>1. s.trouble = {}
    BY DEF NoDefects, Finish
  <1>2. /\ rows' = s.rows /\ memory' = s.memory /\ files' = s.files
        /\ committed' = IF commits THEN s.rows ELSE committed
        /\ script' = script /\ running' = running
    BY <1>1 DEF Finish
  <1>3. Sound(s.rows) /\ Known(s.rows, s.memory) /\ Filed(s.rows, s.files)
    BY <1>1 DEF Fine, Good
  <1> PICK c2 : c2 = committed'
    OBVIOUS
  <1>4. Sound(c2)
    BY <1>2, <1>3 DEF CatalogInv
  <1>5. running' /\ script' \in Scripts /\ Sound(committed)'
    BY <1>2, <1>4 DEF CatalogInv
  <1>6. Sound(rows)' /\ Known(rows, memory)' /\ Filed(rows, files)'
    BY <1>2, <1>3
  <1> QED BY <1>5, <1>6 DEF CatalogInv

LEMMA StateIsGood ==
  ASSUME CatalogInv
  PROVE  Good(State) /\ Fine(State)
PROOF
  <1>1. State.rows = rows /\ State.memory = memory /\ State.files = files
    BY DEF State
  <1>2. Good(State)
    BY <1>1 DEF CatalogInv, Good
  <1> QED BY <1>2 DEF Fine

\* Every name of a table but DUAL is of one that has a row.
LEMMA TableOfName ==
  ASSUME CatalogInv, NEW name \in DOMAIN memory.tableNames, memory.tableNames[name] # Dual
  PROVE  \E y \in Rows(rows.tables) :
           /\ y.name = name /\ y.table = memory.tableNames[name]
           /\ memory.tables[y.table] = LoadedTable(rows, y)
PROOF
  <1> PICK names : names = memory.tableNames
    OBVIOUS
  <1>1. names = [n \in {x.name : x \in Rows(rows.tables)} \cup {"DUAL"} |-> names[n]]
        /\ names["DUAL"] = Dual /\ \A x \in Rows(rows.tables) : names[x.name] = x.table
    BY DEF CatalogInv, Known, NamesMapped
  <1>2. PICK y \in Rows(rows.tables) : y.name = name
    BY <1>1
  <1>3. memory.tables[y.table] = LoadedTable(rows, y)
    BY DEF CatalogInv, Known, TablesMapped
  <1> QED BY <1>1, <1>2, <1>3

LEMMA CreateTableKeeps ==
  ASSUME NoDefects, CatalogInv, NEW name, NEW d \in script.definitions, CreateTable(name, d)
  PROVE  CatalogInv'
PROOF
  <1> PICK s : s = State
    OBVIOUS
  <1>0. Good(s) /\ Fine(s)
    BY StateIsGood
  <1>1. CASE name \in DOMAIN memory.tableNames
    <2>1. PICK commits : Finish(s, commits)
      BY <1>1 DEF CreateTable, Succeed
    <2> QED BY <1>0, <2>1, Finished
  <1>2. CASE name \notin DOMAIN memory.tableNames
    <2> PICK t : t = LowestNotIn(DOMAIN s.memory.tables)
      OBVIOUS
    <2> PICK a : a = AddIndex(AddColumns(AddTable(s, t, name), t, d), t, 0, "PRIMARY", TRUE, PrimaryKey(d))
      OBVIOUS
    <2>1. d \in Seq(Range(d)) /\ Allowed(d)
      BY ScriptsAssumption DEF NoDefects, CatalogInv
    <2>2. \A c \in Range(d) : ~NotAKey(c)
      BY <2>1 DEF Allowed, Range
    <2>3. s.memory = memory
      BY DEF State
    <2>4. PICK commits : Finish(a, commits)
      BY <1>2, <2>2, <2>3 DEF CreateTable, Succeed
    <2>5. Fine(a)
      BY <1>0, <1>2, <2>1, <2>3, TableCreated
    <2> QED BY <2>4, <2>5, Finished
  <1> QED BY <1>1, <1>2

LEMMA DropTableKeeps ==
  ASSUME NoDefects, CatalogInv, NEW name, DropTable(name)
  PROVE  CatalogInv'
PROOF
  <1> PICK s : s = State
    OBVIOUS
  <1>0. Good(s) /\ Fine(s)
    BY StateIsGood
  <1>1. CASE name \notin DOMAIN memory.tableNames
    <2>1. PICK commits : Finish(s, commits)
      BY <1>1 DEF DropTable, Succeed
    <2> QED BY <1>0, <2>1, Finished
  <1>2. CASE name \in DOMAIN memory.tableNames
    <2>1. memory.tableNames[name] # Dual
      BY <1>2 DEF DropTable, NoDefects
    <2>2. PICK y \in Rows(rows.tables) : y.name = name /\ y.table = memory.tableNames[name]
      BY <1>2, <2>1, TableOfName
    <2> PICK a : a = dropTable(s, y.table, y.name)
      OBVIOUS
    <2>3. TableFiles(rows, y.table) \subseteq files
      BY DEF CatalogInv, Filed, TableFiles, IndexesOf
    <2>4. PICK commits : Finish(a, commits)
      BY <1>2, <2>1, <2>2, <2>3 DEF DropTable, Succeed
    <2>5. s.rows = rows
      BY DEF State
    <2>6. Sound(s.rows) /\ Known(s.rows, s.memory) /\ Filed(s.rows, s.files) /\ y \in Rows(s.rows.tables)
      BY <1>0, <2>5 DEF Good
    <2>7. Sound(a.rows) /\ Known(a.rows, a.memory) /\ Filed(a.rows, a.files)
      BY <2>6, TableDropped
    <2>8. Fine(a)
      BY <2>7 DEF Fine, Good
    <2> QED BY <2>4, <2>8, Finished
  <1> QED BY <1>1, <1>2

LEMMA CreateIndexKeeps ==
  ASSUME NoDefects, CatalogInv, NEW table, NEW name, NEW key \in script.keys,
         NEW unique, NEW repeated, CreateIndex(table, name, key, unique, repeated)
  PROVE  CatalogInv'
PROOF
  <1> PICK s : s = State
    OBVIOUS
  <1>0. Good(s) /\ Fine(s) /\ s.rows = rows /\ s.memory = memory
    BY StateIsGood DEF State
  <1> PICK t : t = memory.tableNames[table]
    OBVIOUS
  <1> PICK columns : columns = memory.tables[t].columns
    OBVIOUS
  <1> PICK i : i = LowestNotIn(memory.tables[t].indexes)
    OBVIOUS
  <1> PICK a : a = AddIndex(s, t, i, name, unique, NumbersOf(columns, key))
    OBVIOUS
  <1> PICK d : d = DropIndex(a, t, i, name)
    OBVIOUS
  <1>1. /\ key \in Seq(Range(key)) /\ key # <<>>
        /\ \A m, n \in DOMAIN key : key[m] = key[n] => m = n
    BY ScriptsAssumption DEF NoDefects, CatalogInv
  <1>2. CASE \E commits : Finish(s, commits)
    BY <1>0, <1>2, Finished
  <1>3. CASE ~\E commits : Finish(s, commits)
    <2>1. <<t, name>> \notin DOMAIN memory.indexNames
      BY <1>3 DEF CreateIndex, Succeed
    <2>2. Range(key) \subseteq NamesOf(columns)
      BY <1>3, <2>1 DEF CreateIndex, Throw
    <2>3. t # Dual
      <3> SUFFICES ASSUME t = Dual PROVE FALSE
        OBVIOUS
      <3>1. memory.tables[t] = DualTable
        BY DEF CatalogInv, Known, TablesMapped
      <3>2. columns = <<>>
        BY <3>1 DEF DualTable
      <3>3. NamesOf(columns) = {}
        BY <3>2 DEF NamesOf
      <3>4. 1 \in DOMAIN key
        BY <1>1
      <3> QED BY <2>2, <3>3, <3>4 DEF Range
    <2>4. table \in DOMAIN memory.tableNames
      BY DEF CreateIndex
    <2>5. PICK y \in Rows(rows.tables) : t = y.table
      BY <2>3, <2>4, TableOfName
    <2>6. Fine(a) /\ IndexOut(s, a, d)
      BY <1>0, <1>1, <2>1, <2>2, <2>5, IndexCreated
    <2>7. CASE \E commits : Finish(a, commits)
      BY <2>6, <2>7, Finished
    <2>8. CASE ~\E commits : Finish(a, commits)
      <3> PICK u : u = [d EXCEPT !.rows = committed]
        OBVIOUS
      <3>1. rows = committed /\ \E commits : Finish(u, commits)
        BY <1>3, <2>1, <2>2, <2>8 DEF CreateIndex, Succeed, Throw, NoDefects
      <3>2. /\ d = [rows |-> d.rows, memory |-> d.memory, files |-> d.files, trouble |-> d.trouble]
        BY DEF DropIndex
      <3>3. u.rows = committed /\ u.memory = d.memory /\ u.files = d.files
        BY <3>2
      <3>4. Sound(rows) /\ Known(rows, d.memory) /\ Filed(rows, d.files)
        BY <1>0, <2>6 DEF IndexOut, Good
      <3>5. Fine(u)
        BY <3>1, <3>3, <3>4 DEF Fine, Good
      <3> QED BY <3>1, <3>5, Finished
    <2> QED BY <2>7, <2>8
  <1> QED BY <1>2, <1>3

LEMMA DropIndexOfKeeps ==
  ASSUME NoDefects, CatalogInv, NEW table, NEW name, DropIndexOf(table, name)
  PROVE  CatalogInv'
PROOF
  <1> PICK s : s = State
    OBVIOUS
  <1>0. Good(s) /\ Fine(s) /\ s.rows = rows /\ s.memory = memory
    BY StateIsGood DEF State
  <1> PICK t : t = memory.tableNames[table]
    OBVIOUS
  <1>1. CASE <<t, name>> \notin DOMAIN memory.indexNames
    <2>1. \E commits : Finish(s, commits)
      BY <1>1 DEF DropIndexOf, Succeed
    <2> QED BY <1>0, <2>1, Finished
  <1>2. CASE <<t, name>> \in DOMAIN memory.indexNames
    <2> PICK i : i = memory.indexNames[<<t, name>>]
      OBVIOUS
    <2> PICK a : a = DropIndex(s, t, i, name)
      OBVIOUS
    <2>1. i \in memory.tables[t].indexes /\ memory.indexes[<<t, i>>].name = name
      BY <1>2 DEF DropIndexOf, NoDefects, Stale
    <2>2. t # Dual
      <3> SUFFICES ASSUME t = Dual PROVE FALSE
        OBVIOUS
      <3>1. memory.tables[t] = DualTable
        BY DEF CatalogInv, Known, TablesMapped
      <3> QED BY <2>1, <3>1 DEF DualTable
    <2>3. table \in DOMAIN memory.tableNames
      BY DEF DropIndexOf
    <2>4. PICK y \in Rows(rows.tables) : t = y.table /\ memory.tables[t] = LoadedTable(rows, y)
      BY <2>2, <2>3, TableOfName
    <2>5. PICK x \in Rows(rows.indexes) : x.table = t /\ x.index = i
      BY <2>1, <2>4 DEF LoadedTable, IndexesOf
    <2>6. x.name = name /\ <<t, i>> \in files
      BY <2>1, <2>5 DEF CatalogInv, Known, IndexMapped, Filed
    <2>7. \E commits : Finish(a, commits)
      BY <1>2, <2>6 DEF DropIndexOf, Succeed
    <2>8. Sound(a.rows) /\ Known(a.rows, a.memory) /\ Filed(a.rows, a.files)
      <3>1. Sound(s.rows) /\ Known(s.rows, s.memory) /\ Filed(s.rows, s.files) /\ x \in Rows(s.rows.indexes)
        BY <1>0 DEF Good
      <3>2. a = DropIndex(s, x.table, x.index, x.name)
        BY <2>5, <2>6
      <3> QED BY <3>1, <3>2, IndexDropped
    <2>9. Fine(a)
      BY <2>8 DEF Fine, Good
    <2> QED BY <2>7, <2>9, Finished
  <1> QED BY <1>1, <1>2

LEMMA RestartKeeps ==
  ASSUME NoDefects, CatalogInv, Restart
  PROVE  CatalogInv'
PROOF
  <1> PICK c, r, f : c = committed /\ r = rows /\ f = files
    OBVIOUS
  <1>1. Sound(c) /\ Filed(r, f)
    BY DEF CatalogInv
  <1>2. Loadable(c) /\ Known(c, Loaded(c))
    BY <1>1, SoundLoadable, LoadedIsKnown
  <1>3. Filed(c, f)
    <2>1. Rows(c.tables) \subseteq Rows(r.tables) /\ Rows(c.indexes) \subseteq Rows(r.indexes)
      BY DEF Restart, NoDefects, NoneDropped
    <2> QED BY <1>1, <2>1 DEF Filed
  <1>4. /\ running' /\ memory' = Loaded(c) /\ rows' = c /\ committed' = c /\ files' = f
        /\ script' = script
    BY <1>2 DEF Restart
  <1>5. running' /\ script' \in Scripts
    BY <1>4 DEF CatalogInv
  <1>6. Sound(committed)' /\ Sound(rows)' /\ Known(rows, memory)' /\ Filed(rows, files)'
    BY <1>1, <1>2, <1>3, <1>4
  <1> QED BY <1>5, <1>6 DEF CatalogInv

LEMMA CatalogStep ==
  ASSUME NoDefects, CatalogInv, [Next]_vars
  PROVE  CatalogInv'
PROOF
  <1>1. ASSUME NEW n, NEW d \in script.definitions, CreateTable(n, d) PROVE CatalogInv'
    BY <1>1, CreateTableKeeps
  <1>2. ASSUME NEW n, DropTable(n) PROVE CatalogInv'
    BY <1>2, DropTableKeeps
  <1>3. ASSUME NEW n, NEW i, NEW k \in script.keys, NEW u, NEW r, CreateIndex(n, i, k, u, r)
        PROVE  CatalogInv'
    BY <1>3, CreateIndexKeeps
  <1>4. ASSUME NEW n, NEW i, DropIndexOf(n, i) PROVE CatalogInv'
    BY <1>4, DropIndexOfKeeps
  <1>5. ASSUME NEW mode, TransactionOp(mode) PROVE CatalogInv'
    BY <1>5 DEF TransactionOp, CatalogInv
  <1>6. CASE Rollback
    BY <1>6 DEF Rollback, NoDefects, CatalogInv
  <1>7. CASE Restart
    BY <1>7, RestartKeeps
  <1>8. CASE UNCHANGED vars
    BY <1>8 DEF vars, CatalogInv
  <1> QED BY <1>1, <1>2, <1>3, <1>4, <1>5, <1>6, <1>7, <1>8 DEF Next

LEMMA CatalogIsInvariant ==
  ASSUME NoDefects
  PROVE  Spec => []CatalogInv
PROOF
  <1>1. Init => CatalogInv
    BY CatalogInit
  <1>2. CatalogInv /\ [Next]_vars => CatalogInv'
    BY CatalogStep
  <1> QED BY <1>1, <1>2, PTL DEF Spec

\* The rows of tables, columns and indexes refer to what is there, whatever statements
\* SystemInfoManager's operations have served, also in a transaction that is under way.
THEOREM CatalogConsistent == NoDefects /\ Spec => []RowsConsistent
PROOF
  <1> SUFFICES ASSUME NoDefects PROVE Spec => []RowsConsistent
    OBVIOUS
  <1>1. CatalogInv => RowsConsistent
    BY SoundConsistent DEF CatalogInv, RowsConsistent
  <1> QED BY <1>1, CatalogIsInvariant, PTL

\* The maps of SystemInfoManager say what its rows say: tables, their columns and their
\* indexes, by number and by name.
THEOREM CatalogKnown == NoDefects /\ Spec => []MemoryKnown
PROOF
  <1> SUFFICES ASSUME NoDefects PROVE Spec => []MemoryKnown
    OBVIOUS
  <1>1. ASSUME CatalogInv PROVE TablesKnown
    <2>1. Sound(rows) /\ Known(rows, memory)
      BY <1>1 DEF CatalogInv
    <2> QED BY <2>1, KnownIsLoaded DEF TablesKnown
  <1>2. ASSUME CatalogInv PROVE IndexesKnown
    <2> SUFFICES ASSUME NEW t \in DOMAIN memory.tables, NEW i \in memory.tables[t].indexes
                 PROVE  LET known == memory.indexes[<<t, i>>]
                        IN /\ \E x \in IndexesOf(rows, t) :
                                x.index = i /\ known.name = x.name /\ known.unique = x.unique
                           /\ Range(known.columns) = Range(KeyOf(rows, t, i))
                           /\ memory.indexNames[<<t, known.name>>] = i
      BY DEF IndexesKnown
    <2> PICK tables : tables = memory.tables
      OBVIOUS
    <2>1. tables = [u \in {x.table : x \in Rows(rows.tables)} \cup {Dual} |-> tables[u]]
          /\ tables[Dual] = DualTable /\ \A x \in Rows(rows.tables) : tables[x.table] = LoadedTable(rows, x)
      BY <1>2 DEF CatalogInv, Known, TablesMapped
    <2>2. t # Dual
      BY <2>1 DEF DualTable
    <2>3. PICK y \in Rows(rows.tables) : y.table = t
      BY <2>1, <2>2
    <2>4. tables[t].indexes = {x.index : x \in IndexesOf(rows, t)}
      <3>1. tables[t] = LoadedTable(rows, y)
        BY <2>1, <2>3
      <3> QED BY <2>3, <3>1 DEF LoadedTable
    <2>5. PICK x \in IndexesOf(rows, t) : x.index = i
      BY <2>4
    <2>6. x \in Rows(rows.indexes) /\ x.table = t
      BY DEF IndexesOf
    <2>7. IndexMapped(x, Rows(rows.indexColumns), memory.indexes) /\ IndexNameMapped(x, memory.indexNames)
      BY <1>2, <2>6 DEF CatalogInv, Known
    <2>8. Range(KeyOf(rows, t, i)) = KeyColumns(Rows(rows.indexColumns), t, i)
      BY <1>2, KeyColumnsRead DEF CatalogInv, Sound
    <2> QED BY <2>5, <2>6, <2>7, <2>8 DEF IndexMapped, IndexNameMapped
  <1>3. CatalogInv => MemoryKnown
    BY <1>1, <1>2 DEF MemoryKnown
  <1> QED BY <1>3, CatalogIsInvariant, PTL

\* No statement ends the program, and load() makes something of whatever was committed.
THEOREM CatalogRuns == NoDefects /\ Spec => []KeepsRunning
PROOF
  <1> SUFFICES ASSUME NoDefects PROVE Spec => []KeepsRunning
    OBVIOUS
  <1>1. CatalogInv => KeepsRunning
    BY DEF CatalogInv, KeepsRunning
  <1> QED BY <1>1, CatalogIsInvariant, PTL
=============================================================================
