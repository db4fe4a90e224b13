------------------------------ MODULE RowsProofs ------------------------------
(***************************************************************************)
(* Proofs about Rows, for any table, indexes, conditions, assignments and    *)
(* number of rows: the indexes agree with the rows after every statement,    *)
(* whatever its end, and unique indexes stay unique.                         *)
(***************************************************************************)
EXTENDS Rows, WellFoundedInduction, TLAPS

-----------------------------------------------------------------------------
(* The invariant. *)

Row == [values : Tuples, blob : Nat \cup {NULL32}] \cup {NoRow}

WellTyped(s) ==
  /\ s.rows \in Seq(Row)
  /\ s.indexes = [i \in DOMAIN s.indexes |-> s.indexes[i]]
  /\ DOMAIN s.indexes \subseteq DOMAIN IndexDefs
  /\ s.blobs \in Seq(Texts \cup {Null})

Unique(s) == \A i \in DOMAIN s.indexes : IndexDefs[i].unique => ~Repeated(s, i)

TypeCorrect ==
  /\ WellTyped(State) /\ WellTyped(committed)
  /\ autoCommitMode \in BOOLEAN
  /\ success \in BOOLEAN

\* What is committed is sound, and so is what a statement begins with: a failed one
\* leaves the rows and indexes to what main() does next, except an INSERT.
RowsInv ==
  /\ TypeCorrect
  /\ Agree(committed) /\ Unique(committed)
  /\ success => Agree(State) /\ Unique(State)
  /\ statement = "insert" => Agree(State)
  /\ statement = "none" => success

-----------------------------------------------------------------------------
(* INSERT. *)

\* A row that an index refuses leaves the table and the indexes as they agreed; one
\* that no index refuses has a key in each of them.
LEMMA InsertedRow ==
  ASSUME NEW s, WellTyped(s), Agree(s), Unique(s),
         NEW values \in Tuples, NEW text \in Texts \cup {Null}
  PROVE  /\ WellTyped(InsertRow(s, values, text))
         /\ Agree(InsertRow(s, values, text))
         /\ InsertRow(s, values, text).success \in BOOLEAN
         /\ InsertRow(s, values, text).success => Unique(InsertRow(s, values, text))
<1> DEFINE id == Len(s.rows) + 1
           e(i) == Key(i, values, id)
           refusing == {i \in DOMAIN s.indexes : Clashes(i, s.indexes[i], e(i))}
           row == [values |-> values, blob |-> NewBlob(s, text)]
           t == InsertRow(s, values, text)
<1>1. /\ s.rows \in Seq(Row) /\ id \in Nat \ {0} /\ id \notin DOMAIN s.rows
      /\ s.blobs \in Seq(Texts \cup {Null}) /\ Len(s.blobs) \in Nat
  BY DEF WellTyped
<1>2. \A i \in DOMAIN s.indexes : \A k \in s.indexes[i] : k.record # id
  BY <1>1 DEF Agree, KeysOf, Key, Live
<1>3. row \in Row /\ row # NoRow /\ NoRow \in Row
  BY <1>1, TuplesAssumption DEF Row, NoRow, NewBlob
<1>4. addBlob(s, text) \in Seq(Texts \cup {Null})
  BY <1>1 DEF addBlob
<1>5. CASE refusing = {}
  <2>1. /\ t.rows = Append(s.rows, row) /\ t.success = TRUE
        /\ t.blobs = addBlob(s, text)
        /\ t.indexes = [i \in DOMAIN s.indexes |-> s.indexes[i] \cup {e(i)}]
    BY <1>5 DEF InsertRow
  <2>2. WellTyped(t)
    BY <1>1, <1>3, <1>4, <2>1 DEF WellTyped
  <2>3. Live(t) = Live(s) \cup {id}
    BY <1>1, <1>3, <2>1 DEF Live
  <2>4. /\ t.rows[id].values = values
        /\ \A j \in Live(s) : t.rows[j] = s.rows[j]
    BY <1>1, <2>1 DEF Live
  <2>5. Agree(t)
    <3> SUFFICES ASSUME NEW i \in DOMAIN s.indexes
                 PROVE  s.indexes[i] \cup {e(i)} = KeysOf(i, t, Live(t))
      BY <2>1 DEF Agree
    <3>1. s.indexes[i] = KeysOf(i, s, Live(s))
      BY DEF Agree
    <3> QED BY <2>3, <2>4, <3>1 DEF KeysOf
  <2>6. Unique(t)
    <3> SUFFICES ASSUME NEW i \in DOMAIN s.indexes, IndexDefs[i].unique,
                        NEW a \in Live(t), NEW b \in Live(t), a # b,
                        narrow(i, t.rows[a].values) = narrow(i, t.rows[b].values)
                 PROVE  FALSE
      BY <2>1 DEF Unique, Repeated
    <3>1. \A j \in Live(s) : narrow(i, s.rows[j].values) # narrow(i, values)
      <4> SUFFICES ASSUME NEW j \in Live(s) PROVE narrow(i, s.rows[j].values) # narrow(i, values)
        OBVIOUS
      <4>1. Key(i, s.rows[j].values, j) \in s.indexes[i]
        BY DEF Agree, KeysOf
      <4>2. ~Clashes(i, s.indexes[i], e(i))
        BY <1>5
      <4> QED BY <4>1, <4>2 DEF Clashes, Key
    <3>2. CASE a \in Live(s) /\ b \in Live(s)
      BY <2>4, <3>2 DEF Unique, Repeated
    <3> QED BY <2>3, <2>4, <3>1, <3>2
  <2> QED BY <2>1, <2>2, <2>5, <2>6
<1>6. CASE refusing # {}
  <2> DEFINE reached == [i \in DOMAIN s.indexes |->
                           IF \E r \in refusing : r <= i THEN s.indexes[i] ELSE s.indexes[i] \cup {e(i)}]
  <2>1. /\ t.rows = Append(s.rows, NoRow) /\ t.success = FALSE
        /\ t.blobs = addBlob(s, text)
        /\ t.indexes = UndoKeys(s, reached, values, id)
    BY <1>6 DEF InsertRow
  <2>2. t.indexes = s.indexes
    <3>1. \A i \in DOMAIN s.indexes : reached[i] \ {e(i)} = s.indexes[i]
      BY <1>2 DEF Key
    <3>2. UndoKeys(s, reached, values, id) = [i \in DOMAIN s.indexes |-> s.indexes[i]]
      BY <3>1 DEF UndoKeys
    <3> QED BY <2>1, <3>2 DEF WellTyped
  <2>3. WellTyped(t)
    <3>1. t.rows \in Seq(Row)
      BY <1>1, <1>3, <2>1
    <3>2. t.indexes = [i \in DOMAIN t.indexes |-> t.indexes[i]] /\ DOMAIN t.indexes \subseteq DOMAIN IndexDefs
      BY <2>2, Zenon DEF WellTyped
    <3> QED BY <1>4, <2>1, <3>1, <3>2 DEF WellTyped
  <2>4. Live(t) = Live(s)
    BY <1>1, <2>1 DEF Live
  <2>5. \A j \in Live(s) : t.rows[j] = s.rows[j]
    BY <1>1, <2>1 DEF Live
  <2>6. Agree(t)
    BY <2>2, <2>4, <2>5 DEF Agree, KeysOf
  <2>7. t.success \in BOOLEAN
    BY <2>1
  <2>8. ~t.success
    BY <2>1, Zenon
  <2> QED BY <2>3, <2>6, <2>7, <2>8, Zenon
<1> QED BY <1>5, <1>6

-----------------------------------------------------------------------------
(* SET. *)

\* Induction over the naturals, as the smallest counterexample.
LEMMA Least ==
  ASSUME NEW T \in SUBSET Nat, T # {}
  PROVE  \E n \in T : \A m \in T : n <= m
<1>1. IsWellFoundedOn(OpToRel(<, Nat), Nat)
  BY NatLessThanWellFounded
<1>2. PICK n \in T : \A y \in T : ~(<<y, n>> \in OpToRel(<, Nat))
  BY <1>1, WFMin
<1>3. \A m \in T : ~(m < n)
  BY <1>2 DEF OpToRel
<1> QED BY <1>3

\* tuple is what the assignments make of the values, up to the k-th.
AssignedUpTo(sets, values, k, tuple) ==
  tuple = [n \in 0..k |-> IF n = 0 THEN values ELSE Assign(tuple[n - 1], sets[n])]

LEMMA AssignmentsDefined ==
  ASSUME NEW sets, NEW values, NEW m \in Nat
  PROVE  \E tuple : AssignedUpTo(sets, values, m, tuple)
<1> DEFINE Undefined == {k \in Nat : ~ \E tuple : AssignedUpTo(sets, values, k, tuple)}
<1> SUFFICES ASSUME Undefined # {} PROVE FALSE
  OBVIOUS
<1>1. PICK k \in Undefined : \A j \in Undefined : k <= j
  BY Least
<1>2. k # 0
  <2>1. AssignedUpTo(sets, values, 0, [n \in 0..0 |-> values])
    BY DEF AssignedUpTo
  <2> QED BY <2>1
<1>3. PICK t : AssignedUpTo(sets, values, k - 1, t)
  BY <1>1, <1>2
<1> DEFINE u == [n \in 0..k |-> IF n < k THEN t[n] ELSE Assign(t[n - 1], sets[n])]
           v == [n \in 0..k |-> IF n = 0 THEN values ELSE Assign(u[n - 1], sets[n])]
<1>4. ASSUME NEW n \in 0..k PROVE u[n] = v[n]
  <2>1. CASE n = 0
    BY <2>1, <1>2, <1>3 DEF AssignedUpTo
  <2>2. CASE n # 0 /\ n < k
    <3>1. n \in 0..(k - 1) /\ n - 1 \in 0..k /\ n - 1 < k
      BY <2>2
    <3>2. t[n] = Assign(t[n - 1], sets[n])
      BY <3>1, <2>2, <1>3 DEF AssignedUpTo
    <3> QED BY <3>1, <3>2, <2>2
  <2>3. CASE n = k
    BY <2>3, <1>2
  <2> QED BY <2>1, <2>2, <2>3
<1>5. AssignedUpTo(sets, values, k, u)
  BY <1>4 DEF AssignedUpTo
<1> QED BY <1>5

\* The assignments of a SET make a tuple of the table of one, and leave the columns
\* that none of them names.
LEMMA AssignedTuple ==
  ASSUME NEW sets \in Updates, NEW values \in Tuples
  PROVE  /\ Assigned(sets, values) \in Tuples
         /\ \A c \in DOMAIN values : (\A a \in Range(sets) : a.column # c)
              => Assigned(sets, values)[c] = values[c]
<1> DEFINE N == Len(sets)
<1>1. /\ N \in Nat /\ DOMAIN sets = 1..N
      /\ \A a \in Range(sets), t \in Tuples : Assign(t, a) \in Tuples
  BY UpdatesAssumption DEF Assign
<1> DEFINE tuple == CHOOSE tuple : AssignedUpTo(sets, values, N, tuple)
<1>2. AssignedUpTo(sets, values, N, tuple)
  BY <1>1, AssignmentsDefined
<1>3. Assigned(sets, values) = tuple[N]
  BY DEF Assigned, AssignedUpTo
<1> DEFINE Kept(t) == /\ t \in Tuples
                      /\ DOMAIN t = DOMAIN values
                      /\ \A c \in DOMAIN values : (\A a \in Range(sets) : a.column # c) => t[c] = values[c]
           Wrong == {n \in 0..N : ~Kept(tuple[n])}
<1> HIDE DEF tuple
<1>4. Wrong = {}
  <2> SUFFICES ASSUME Wrong # {} PROVE FALSE
    OBVIOUS
  <2>. Wrong \in SUBSET Nat
    BY <1>1
  <2>1. PICK n \in Wrong : \A m \in Wrong : n <= m
    <3> HIDE DEF Wrong
    <3> QED BY Least
  <2>2. n # 0
    BY <1>1, <1>2 DEF AssignedUpTo
  <2>3. /\ n - 1 \in 0..N /\ n - 1 \notin Wrong
        /\ sets[n] \in Range(sets)
    BY <1>1, <2>1, <2>2 DEF Range
  <2>4. tuple[n] = Assign(tuple[n - 1], sets[n])
    BY <1>1, <1>2, <2>2 DEF AssignedUpTo
  <2>5. Kept(tuple[n - 1])
    BY <2>3
  <2>6. tuple[n] \in Tuples
    BY <1>1, <2>3, <2>4, <2>5
  <2>7. /\ DOMAIN tuple[n] = DOMAIN tuple[n - 1]
        /\ \A c \in DOMAIN tuple[n - 1] : c # sets[n].column => tuple[n][c] = tuple[n - 1][c]
    BY <2>4 DEF Assign
  <2>8. Kept(tuple[n])
    BY <2>3, <2>5, <2>6, <2>7
  <2> QED BY <2>8
<1>5. Kept(tuple[N])
  BY <1>1, <1>4
<1> QED BY <1>3, <1>5

-----------------------------------------------------------------------------
(* Keys of several rows. *)

\* If none of the rows is refused, all their keys are in, and in a unique index
\* they are different from each other and from those that were there.
LEMMA AddedKeys ==
  ASSUME NEW i, NEW entries, NEW s, NEW ids \in SUBSET Nat,
         AddKeys(i, entries, s, ids).success
  PROVE  /\ AddKeys(i, entries, s, ids).entries = entries \cup KeysOf(i, s, ids)
         /\ IndexDefs[i].unique =>
              \A b \in ids :
                /\ \A k \in entries : k.key # narrow(i, s.rows[b].values)
                /\ \A a \in ids : a # b => narrow(i, s.rows[a].values) # narrow(i, s.rows[b].values)
<1>1. Refused(i, entries, s, ids) = {}
  BY DEF AddKeys
<1>2. {id \in ids : \A r \in Refused(i, entries, s, ids) : id < r} = ids
  BY <1>1
<1>3. AddKeys(i, entries, s, ids).entries = entries \cup KeysOf(i, s, ids)
  BY <1>2 DEF AddKeys
<1>4. ASSUME IndexDefs[i].unique, NEW b \in ids
      PROVE  /\ \A k \in entries : k.key # narrow(i, s.rows[b].values)
             /\ \A a \in ids : a < b => narrow(i, s.rows[a].values) # narrow(i, s.rows[b].values)
  <2>1. \A k \in entries \cup KeysOf(i, s, Before(ids, b)) : k.key # narrow(i, s.rows[b].values)
    BY <1>1, <1>4 DEF Refused, Clashes, Key
  <2>2. \A a \in ids : a < b => Key(i, s.rows[a].values, a) \in KeysOf(i, s, Before(ids, b))
    BY DEF KeysOf, Before
  <2>3. \A a \in ids : Key(i, s.rows[a].values, a).key = narrow(i, s.rows[a].values)
    BY DEF Key
  <2>4. ASSUME NEW a \in ids, a < b PROVE narrow(i, s.rows[a].values) # narrow(i, s.rows[b].values)
    <3>1. Key(i, s.rows[a].values, a) \in KeysOf(i, s, Before(ids, b))
      BY <2>2, <2>4
    <3> QED BY <2>1, <2>3, <3>1
  <2> QED BY <2>1, <2>4
<1>5. ASSUME IndexDefs[i].unique, NEW a \in ids, NEW b \in ids, a # b
      PROVE  narrow(i, s.rows[a].values) # narrow(i, s.rows[b].values)
  <2>1. a < b \/ b < a
    BY <1>5
  <2> QED BY <1>4, <1>5, <2>1
<1> QED BY <1>3, <1>4, <1>5

\* If one of them is, and there was no key of the rows before, the index is unique
\* and the key of the refused row is one of another row's, or one that was there.
LEMMA RefusedKey ==
  ASSUME NEW i, NEW entries, NEW s, NEW ids \in SUBSET Nat,
         \A k \in entries : k.record \notin ids,
         ~AddKeys(i, entries, s, ids).success
  PROVE  /\ IndexDefs[i].unique
         /\ \E b \in ids :
              \/ \E k \in entries : k.key = narrow(i, s.rows[b].values)
              \/ \E a \in ids : a # b /\ narrow(i, s.rows[a].values) = narrow(i, s.rows[b].values)
<1>1. PICK b \in ids :
        Clashes(i, entries \cup KeysOf(i, s, Before(ids, b)), Key(i, s.rows[b].values, b))
  BY DEF AddKeys, Refused
<1>2. PICK k \in entries \cup KeysOf(i, s, Before(ids, b)) :
        /\ k.key = narrow(i, s.rows[b].values)
        /\ IndexDefs[i].unique \/ k.record = b
  BY <1>1 DEF Clashes, Key
<1>3. CASE k \in entries
  BY <1>2, <1>3
<1>4. CASE k \in KeysOf(i, s, Before(ids, b))
  <2>1. PICK a \in ids : a < b /\ k = Key(i, s.rows[a].values, a)
    BY <1>4 DEF KeysOf, Before
  <2>2. a # b /\ k.record = a /\ k.key = narrow(i, s.rows[a].values)
    BY <2>1 DEF Key
  <2> QED BY <1>2, <2>2
<1> QED BY <1>2, <1>3, <1>4

-----------------------------------------------------------------------------
(* UPDATE. *)

\* An UPDATE makes rows of rows, and leaves those that its condition does not find.
LEMMA RowsAfterUpdate ==
  ASSUME WellTyped(State), NEW sets \in Updates, NEW cond
  PROVE  LET new == RowsUpdated(sets, Found(cond)) IN
         /\ new \in Seq(Row) /\ DOMAIN new = DOMAIN rows
         /\ Live([rows |-> new]) = Live(State)
         /\ \A id \in Live(State) \ Found(cond) : new[id] = rows[id]
         /\ \A id \in Found(cond) : new[id].values = Assigned(sets, rows[id].values)
<1> DEFINE new == RowsUpdated(sets, Found(cond))
<1>1. /\ rows \in Seq(Row) /\ DOMAIN rows = 1..Len(rows) /\ Len(rows) \in Nat
      /\ Found(cond) \subseteq Live(State) /\ Live(State) = {id \in DOMAIN rows : rows[id] # NoRow}
  BY DEF WellTyped, State, Found, Live
<1>2. DOMAIN new = DOMAIN rows
  BY DEF RowsUpdated
<1>3. \A id \in DOMAIN rows \ Found(cond) : new[id] = rows[id]
  BY DEF RowsUpdated
<1>4. ASSUME NEW id \in Found(cond)
      PROVE  /\ new[id] \in Row /\ new[id] # NoRow
             /\ new[id].values = Assigned(sets, rows[id].values)
  <2>1. rows[id] \in Row /\ rows[id] # NoRow
    BY <1>1
  <2>2. rows[id].values \in Tuples
    BY <2>1 DEF Row
  <2>3. Assigned(sets, rows[id].values) \in Tuples
    BY <2>2, AssignedTuple
  <2>4. new[id] = Rewritten(sets, rows[id])
    BY <1>1 DEF RowsUpdated
  <2>5. new[id] = [values |-> Assigned(sets, rows[id].values), blob |-> IF Texts = {} THEN NULL32 ELSE 0]
    BY <2>4 DEF Rewritten
  <2>6. <<>> \notin Tuples
    BY TuplesAssumption
  <2> QED BY <2>3, <2>5, <2>6 DEF Row, NoRow
<1>5. \A id \in DOMAIN rows : new[id] \in Row
  BY <1>1, <1>3, <1>4
<1>6. new \in Seq(Row)
  <2>1. new = [id \in 1..Len(rows) |-> new[id]]
    BY <1>1 DEF RowsUpdated
  <2> QED BY <1>1, <1>5, <2>1
<1>7. Live([rows |-> new]) = Live(State)
  BY <1>1, <1>2, <1>3, <1>4 DEF Live
<1> QED BY <1>1, <1>2, <1>3, <1>4, <1>6, <1>7

\* An index that no assignment affects reads the same of a row before and after.
LEMMA UnaffectedKeys ==
  ASSUME WellTyped(State), NEW sets \in Updates, NEW cond,
         NEW i \in DOMAIN indexes, i \notin affectedIndexes(sets), NEW id \in Live(State)
  PROVE  narrow(i, RowsUpdated(sets, Found(cond))[id].values) = narrow(i, rows[id].values)
<1>1. i \in DOMAIN IndexDefs
  BY DEF WellTyped, State
<1>2. rows[id].values \in Tuples
  BY DEF Live, State, WellTyped, Row
<1>3. CASE id \in Found(cond)
  <2>1. RowsUpdated(sets, Found(cond))[id].values = Assigned(sets, rows[id].values)
    BY <1>3, RowsAfterUpdate
  <2>2. ASSUME NEW n \in DOMAIN IndexDefs[i].columns
        PROVE  Assigned(sets, rows[id].values)[IndexDefs[i].columns[n]] = rows[id].values[IndexDefs[i].columns[n]]
    <3> DEFINE c == IndexDefs[i].columns[n]
    <3>1. c \in DOMAIN rows[id].values
      BY <1>1, <1>2, TuplesAssumption DEF Range
    <3>2. \A a \in Range(sets) : a.column # c
      BY DEF affectedIndexes, Range
    <3> QED BY <1>2, <3>1, <3>2, AssignedTuple
  <2> QED BY <2>1, <2>2 DEF narrow
<1>4. CASE id \notin Found(cond)
  BY <1>4, RowsAfterUpdate
<1> QED BY <1>3, <1>4

\* In the order in which an UPDATE changes an index: the old keys of the rows it has
\* found go, and what remains is the keys of the others.
LEMMA KeysThatRemain ==
  ASSUME WellTyped(State), Agree(State), NEW cond, NEW i \in DOMAIN indexes
  PROVE  indexes[i] \ KeysOf(i, State, Found(cond)) = KeysOf(i, State, Live(State) \ Found(cond))
<1>1. indexes[i] = KeysOf(i, State, Live(State))
  BY DEF Agree, State
<1>2. Found(cond) \subseteq Live(State)
  BY DEF Found
<1>3. \A a, b : Key(i, State.rows[a].values, a) = Key(i, State.rows[b].values, b) => a = b
  BY DEF Key
<1> QED BY <1>1, <1>2, <1>3 DEF KeysOf

\* An UPDATE that no index refuses has given every index the keys of the new rows.
LEMMA UpdatedTable ==
  ASSUME WellTyped(State), Agree(State), Unique(State), NEW sets \in Updates, NEW cond,
         Updated(sets, Found(cond)).success
  PROVE  /\ WellTyped(Updated(sets, Found(cond)))
         /\ Agree(Updated(sets, Found(cond)))
         /\ Unique(Updated(sets, Found(cond)))
         /\ Updated(sets, Found(cond)).success = TRUE
<1> DEFINE found == Found(cond)
           after == [State EXCEPT !.rows = RowsUpdated(sets, found)]
           affected == affectedIndexes(sets)
           changed == [i \in affected |-> NewKeys(i, found, after)]
           refusing == {i \in affected : ~changed[i].success}
           entries == [i \in DOMAIN indexes |->
                         IF i \in affected /\ \A r \in refusing : i <= r
                         THEN changed[i].entries ELSE indexes[i]]
           t == Updated(sets, found)
<1>1. t = IF refusing = {} THEN [after EXCEPT !.indexes = entries]
          ELSE [State EXCEPT !.indexes = entries, !.success = FALSE]
  BY DEF Updated
<1>2. refusing = {}
  <2> SUFFICES ASSUME refusing # {} PROVE FALSE
    OBVIOUS
  <2>1. t = [State EXCEPT !.indexes = entries, !.success = FALSE]
    BY <1>1
  <2>2. ~t.success
    <3> HIDE DEF entries, refusing, found
    <3> QED BY <2>1 DEF State
  <2> QED BY <2>2
<1>3. /\ t.rows = RowsUpdated(sets, found) /\ t.blobs = blobs /\ t.indexes = entries
      /\ after.rows = t.rows /\ t.success = TRUE
  <2> HIDE DEF entries, refusing, found
  <2> QED BY <1>1, <1>2 DEF State
<1>4. /\ \A i \in DOMAIN indexes : i \notin affected => t.indexes[i] = indexes[i]
      /\ \A i \in DOMAIN indexes : i \in affected => /\ NewKeys(i, found, after).success
                                                   /\ t.indexes[i] = NewKeys(i, found, after).entries
      /\ DOMAIN t.indexes = DOMAIN indexes
      /\ t.indexes = [i \in DOMAIN t.indexes |-> t.indexes[i]]
  <2>1. \A i \in affected : NewKeys(i, found, after).success
    <3> HIDE DEF affected, after, found
    <3> QED BY <1>2
  <2>2. t.indexes = [i \in DOMAIN indexes |-> IF i \in affected THEN NewKeys(i, found, after).entries ELSE indexes[i]]
    <3> HIDE DEF affected, after, found, t
    <3> QED BY <1>2, <1>3
  <2> HIDE DEF affected, after, found, t, changed, refusing, entries
  <2> QED BY <2>1, <2>2
<1>5. /\ t.rows \in Seq(Row)
      /\ Live(t) = Live(State)
      /\ \A id \in Live(State) \ found : t.rows[id] = rows[id]
  BY <1>3, RowsAfterUpdate DEF Live
<1>6. found \subseteq Live(State) /\ found \in SUBSET Nat
  BY DEF Found, Live, WellTyped, State
<1>7. State.rows = rows /\ State.indexes = indexes
  BY DEF State
<1>8. WellTyped(t)
  <2>1. DOMAIN indexes \subseteq DOMAIN IndexDefs /\ blobs \in Seq(Texts \cup {Null})
    BY DEF WellTyped, State
  <2> HIDE DEF t
  <2> QED BY <1>3, <1>4, <1>5, <2>1 DEF WellTyped
<1> HIDE DEF t, after, changed, refusing, entries
<1>9. ASSUME NEW i \in DOMAIN indexes, i \in affected
      PROVE  /\ t.indexes[i] = KeysOf(i, t, Live(t))
             /\ IndexDefs[i].unique => ~Repeated(t, i)
  <2> DEFINE rest == KeysOf(i, State, Live(State) \ found)
  <2>1. NewKeys(i, found, after) = AddKeys(i, rest, after, found)
    BY KeysThatRemain DEF NewKeys
  <2>2. AddKeys(i, rest, after, found).success
    BY <1>4, <1>9, <2>1
  <2>3. AddKeys(i, rest, after, found).entries = rest \cup KeysOf(i, after, found)
    BY <1>6, <2>2, AddedKeys
  <2>4. KeysOf(i, after, found) = KeysOf(i, t, found)
    BY <1>3 DEF KeysOf
  <2>5. rest = KeysOf(i, t, Live(State) \ found)
    BY <1>5, <1>7 DEF KeysOf
  <2>6. t.indexes[i] = KeysOf(i, t, Live(t))
    <3>1. t.indexes[i] = KeysOf(i, t, Live(State) \ found) \cup KeysOf(i, t, found)
      BY <1>4, <1>9, <2>1, <2>3, <2>4, <2>5
    <3> QED BY <1>5, <1>6, <3>1 DEF KeysOf
  <2>7. ASSUME IndexDefs[i].unique, NEW a \in Live(State), NEW b \in Live(State), a # b,
               narrow(i, t.rows[a].values) = narrow(i, t.rows[b].values)
        PROVE  FALSE
    <3>1. \A x \in found :
            /\ \A k \in rest : k.key # narrow(i, after.rows[x].values)
            /\ \A y \in found : y # x => narrow(i, after.rows[y].values) # narrow(i, after.rows[x].values)
      <4> HIDE DEF rest, found
      <4> QED BY <1>6, <2>2, <2>7, AddedKeys
    <3>2. \A y \in Live(State) \ found : \E k \in rest : k.key = narrow(i, t.rows[y].values)
      <4> SUFFICES ASSUME NEW y \in Live(State) \ found PROVE \E k \in rest : k.key = narrow(i, t.rows[y].values)
        OBVIOUS
      <4>1. Key(i, t.rows[y].values, y) \in rest
        BY <2>5 DEF KeysOf
      <4> QED BY <4>1 DEF Key
    <3>3. CASE a \notin found /\ b \notin found
      <4>1. narrow(i, State.rows[a].values) = narrow(i, State.rows[b].values)
        BY <1>5, <1>7, <2>7, <3>3
      <4> QED BY <1>7, <2>7, <4>1 DEF Unique, Repeated
    <3>4. CASE a \in found /\ b \in found
      BY <1>3, <2>7, <3>1, <3>4
    <3>5. CASE a \in found /\ b \notin found
      BY <1>3, <2>7, <3>1, <3>2, <3>5
    <3>6. CASE a \notin found /\ b \in found
      BY <1>3, <2>7, <3>1, <3>2, <3>6
    <3> QED BY <3>3, <3>4, <3>5, <3>6
  <2> QED BY <1>5, <2>6, <2>7 DEF Repeated
<1>10. ASSUME NEW i \in DOMAIN indexes, i \notin affected
      PROVE  /\ t.indexes[i] = KeysOf(i, t, Live(t))
             /\ IndexDefs[i].unique => ~Repeated(t, i)
  <2>1. \A id \in Live(State) : narrow(i, t.rows[id].values) = narrow(i, State.rows[id].values)
    BY <1>3, <1>7, <1>10, UnaffectedKeys
  <2>2. t.indexes[i] = KeysOf(i, State, Live(State))
    BY <1>4, <1>7, <1>10 DEF Agree
  <2>3. KeysOf(i, State, Live(State)) = KeysOf(i, t, Live(State))
    BY <2>1 DEF KeysOf, Key
  <2>4. IndexDefs[i].unique => ~Repeated(State, i)
    BY <1>7 DEF Unique
  <2>5. IndexDefs[i].unique => ~Repeated(t, i)
    BY <1>5, <2>1, <2>4 DEF Repeated
  <2> QED BY <1>5, <2>2, <2>3, <2>5
<1>11. Agree(t) /\ Unique(t)
  BY <1>4, <1>9, <1>10 DEF Agree, Unique
<1> QED BY <1>3, <1>8, <1>11 DEF t

\* One that an index has refused leaves the rows, and well-formed indexes; a unique
\* index would have repeated a key.
LEMMA RefusedUpdate ==
  ASSUME WellTyped(State), Agree(State), NEW sets \in Updates, NEW cond,
         ~Updated(sets, Found(cond)).success
  PROVE  /\ WellTyped(Updated(sets, Found(cond)))
         /\ Updated(sets, Found(cond)).success = FALSE
         /\ \E i \in DOMAIN indexes :
              IndexDefs[i].unique /\ Repeated([rows |-> RowsUpdated(sets, Found(cond))], i)
<1> DEFINE found == Found(cond)
           after == [State EXCEPT !.rows = RowsUpdated(sets, found)]
           affected == affectedIndexes(sets)
           changed == [i \in affected |-> NewKeys(i, found, after)]
           refusing == {i \in affected : ~changed[i].success}
           entries == [i \in DOMAIN indexes |->
                         IF i \in affected /\ \A r \in refusing : i <= r
                         THEN changed[i].entries ELSE indexes[i]]
           t == Updated(sets, found)
           new == [rows |-> RowsUpdated(sets, found)]
<1>1. t = IF refusing = {} THEN [after EXCEPT !.indexes = entries]
          ELSE [State EXCEPT !.indexes = entries, !.success = FALSE]
  BY DEF Updated
<1>2. refusing # {}
  <2> SUFFICES ASSUME refusing = {} PROVE FALSE
    OBVIOUS
  <2>1. t = [after EXCEPT !.indexes = entries]
    BY <1>1
  <2>2. t.success
    <3> HIDE DEF entries, refusing, found
    <3> QED BY <2>1 DEF State
  <2> QED BY <2>2
<1>3. t.rows = rows /\ t.blobs = blobs /\ t.indexes = entries /\ t.success = FALSE
  <2> HIDE DEF entries, refusing, found
  <2> QED BY <1>1, <1>2 DEF State
<1>4. WellTyped(t)
  <2>1. /\ DOMAIN indexes \subseteq DOMAIN IndexDefs /\ blobs \in Seq(Texts \cup {Null})
        /\ rows \in Seq(Row)
    BY DEF WellTyped, State
  <2>2. DOMAIN entries = DOMAIN indexes /\ entries = [i \in DOMAIN entries |-> entries[i]]
    <3> HIDE DEF refusing, changed, affected
    <3> QED OBVIOUS
  <2> HIDE DEF t, entries
  <2> QED BY <1>3, <2>1, <2>2 DEF WellTyped
<1>5. PICK i \in affected : ~NewKeys(i, found, after).success
  <2> HIDE DEF affected, found, after
  <2> QED BY <1>2
<1>6. i \in DOMAIN indexes
  BY DEF affectedIndexes
<1> DEFINE rest == KeysOf(i, State, Live(State) \ found)
<1>7. NewKeys(i, found, after) = AddKeys(i, rest, after, found)
  BY <1>6, KeysThatRemain DEF NewKeys
<1>8. found \subseteq Live(State) /\ found \in SUBSET Nat
  BY DEF Found, Live, WellTyped, State
<1>9. \A k \in rest : /\ k.record \in Live(State) \ found
                       /\ k.key = narrow(i, rows[k.record].values)
  <2> SUFFICES ASSUME NEW k \in rest
               PROVE  /\ k.record \in Live(State) \ found
                      /\ k.key = narrow(i, rows[k.record].values)
    OBVIOUS
  <2>1. PICK id \in Live(State) \ found : k = Key(i, State.rows[id].values, id)
    BY DEF KeysOf
  <2>2. k.record = id /\ k.key = narrow(i, State.rows[id].values)
    BY <2>1 DEF Key
  <2> QED BY <2>1, <2>2 DEF State
<1>10. /\ Live(new) = Live(State) /\ after.rows = new.rows
       /\ \A id \in Live(State) \ found : new.rows[id] = rows[id]
  BY RowsAfterUpdate DEF State
<1>11. ~AddKeys(i, rest, after, found).success
  BY <1>5, <1>7
<1>12. /\ IndexDefs[i].unique
       /\ \E b \in found :
            \/ \E k \in rest : k.key = narrow(i, after.rows[b].values)
            \/ \E a \in found : a # b /\ narrow(i, after.rows[a].values) = narrow(i, after.rows[b].values)
  <2> HIDE DEF rest, found, after
  <2> QED BY <1>8, <1>9, <1>11, RefusedKey
<1> HIDE DEF after, rest, found, new, t
<1>13. Repeated(new, i)
  <2>1. PICK b \in found :
            \/ \E k \in rest : k.key = narrow(i, after.rows[b].values)
            \/ \E a \in found : a # b /\ narrow(i, after.rows[a].values) = narrow(i, after.rows[b].values)
    BY <1>12
  <2>2. CASE \E k \in rest : k.key = narrow(i, after.rows[b].values)
    <3>1. PICK k \in rest : k.key = narrow(i, after.rows[b].values)
      BY <2>2
    <3>2. narrow(i, new.rows[k.record].values) = narrow(i, new.rows[b].values) /\ k.record # b
      BY <1>9, <1>10, <3>1
    <3> QED BY <1>8, <1>9, <1>10, <3>2 DEF Repeated
  <2>3. CASE \E a \in found : a # b /\ narrow(i, after.rows[a].values) = narrow(i, after.rows[b].values)
    BY <1>8, <1>10, <2>3 DEF Repeated
  <2> QED BY <2>1, <2>2, <2>3
<1> QED BY <1>3, <1>4, <1>6, <1>12, <1>13 DEF new, t, found

-----------------------------------------------------------------------------
(* The other statements. *)

\* A DELETE fails when it has found a row; otherwise it leaves everything.
LEMMA DeletedRow ==
  ASSUME TypeCorrect, NEW cond, Delete(cond)
  PROVE  /\ WellTyped(State)' /\ UNCHANGED committed
         /\ success' => UNCHANGED <<rows, indexes>>
         /\ success' \in BOOLEAN
<1>1. CASE Found(cond) = {}
  <2>1. UNCHANGED <<rows, indexes, blobs>> /\ success' = TRUE /\ UNCHANGED committed
    BY <1>1 DEF Delete, Execute, Leave, State
  <2> QED BY <2>1 DEF WellTyped, State, TypeCorrect
<1>2. CASE Found(cond) # {}
  <2>1. /\ rows' = [rows EXCEPT ![Min(Found(cond))] = NoRow]
        /\ UNCHANGED <<indexes, blobs, committed>>
        /\ success' = FALSE
    BY <1>2 DEF Delete, Execute, Leave, State
  <2>2. NoRow \in Row /\ rows \in Seq(Row)
    BY DEF Row, TypeCorrect, WellTyped, State
  <2>3. rows' \in Seq(Row)
    <3>1. Found(cond) \in SUBSET Nat /\ Found(cond) \subseteq 1..Len(rows)
      BY <2>2 DEF Found, Live, State
    <3>2. Min(Found(cond)) \in 1..Len(rows)
      BY <1>2, <3>1, Least DEF Min
    <3>3. PICK m \in 1..Len(rows) : rows' = [rows EXCEPT ![m] = NoRow]
      BY <2>1, <3>2
    <3> QED BY <2>2, <3>3
  <2>4. WellTyped(State)'
    BY <2>1, <2>3 DEF WellTyped, State, TypeCorrect
  <2> QED BY <2>1, <2>4
<1> QED BY <1>1, <1>2

\* Agreement is of the rows and indexes alone.
LEMMA SameRowsAndIndexes ==
  ASSUME NEW s, NEW t, s.rows = t.rows, s.indexes = t.indexes
  PROVE  /\ Agree(s) <=> Agree(t)
         /\ Unique(s) <=> Unique(t)
<1>1. Live(s) = Live(t)
  BY DEF Live
<1>2. \A i : KeysOf(i, s, Live(s)) = KeysOf(i, t, Live(t))
  BY <1>1 DEF KeysOf
<1>3. \A i : Repeated(s, i) <=> Repeated(t, i)
  BY <1>1 DEF Repeated
<1>4. Agree(s) <=> Agree(t)
  BY <1>2 DEF Agree
<1>5. Unique(s) <=> Unique(t)
  BY <1>3, Zenon DEF Unique
<1> QED BY <1>4, <1>5

\* What Back leaves is what is committed, but for the blobs.
LEMMA BackToCommitted ==
  ASSUME TypeCorrect, Back
  PROVE  /\ WellTyped(State)'
         /\ rows' = committed.rows /\ indexes' = committed.indexes
<1>1. blobs \in Seq(Texts \cup {Null}) /\ committed.blobs \in Seq(Texts \cup {Null})
  BY DEF TypeCorrect, WellTyped, State
<1>2. blobs' = [n \in 1..Len(blobs) |-> IF n \in DOMAIN committed.blobs THEN committed.blobs[n] ELSE Null]
  BY <1>1 DEF Back
<1>3. blobs' \in Seq(Texts \cup {Null})
  <2>1. \A n \in 1..Len(blobs) :
          (IF n \in DOMAIN committed.blobs THEN committed.blobs[n] ELSE Null) \in Texts \cup {Null}
    BY <1>1
  <2> QED BY <1>1, <1>2, <2>1
<1>4. rows' = committed.rows /\ indexes' = committed.indexes
  BY DEF Back
<1>5. /\ committed.rows \in Seq(Row)
      /\ committed.indexes = [i \in DOMAIN committed.indexes |-> committed.indexes[i]]
      /\ DOMAIN committed.indexes \subseteq DOMAIN IndexDefs
  BY DEF TypeCorrect, WellTyped
<1> QED BY <1>3, <1>4, <1>5 DEF WellTyped, State

LEMMA BackIsSound ==
  ASSUME RowsInv, Back
  PROVE  WellTyped(State)' /\ Agree(State)' /\ Unique(State)'
<1>1. WellTyped(State)' /\ rows' = committed.rows /\ indexes' = committed.indexes
  BY BackToCommitted DEF RowsInv
<1>2. PICK new : new = [rows |-> rows', indexes |-> indexes', blobs |-> blobs', success |-> TRUE]
  OBVIOUS
<1>3. Agree(new) /\ Unique(new)
  BY <1>1, <1>2, SameRowsAndIndexes DEF RowsInv
<1> QED BY <1>1, <1>2, <1>3 DEF State

\* CREATE INDEX fills the new index with the keys of all rows, or goes back.
LEMMA CreatedIndex ==
  ASSUME RowsInv, NEW i \in DOMAIN IndexDefs, CreateIndex(i)
  PROVE  /\ WellTyped(State)' /\ UNCHANGED committed
         /\ Agree(State)' /\ Unique(State)'
<1> DEFINE filled == AddKeys(i, {}, State, Live(State))
<1>0. /\ i \notin DOMAIN indexes /\ UNCHANGED committed /\ success
      /\ WellTyped(State) /\ Agree(State) /\ Unique(State)
      /\ State.rows = rows /\ State.indexes = indexes
  BY DEF CreateIndex, RowsInv, TypeCorrect, State
<1>1. CASE filled.success
  <2>1. /\ indexes' = [j \in DOMAIN indexes \cup {i} |-> IF j = i THEN filled.entries ELSE indexes[j]]
        /\ UNCHANGED <<rows, blobs>>
    BY <1>1 DEF CreateIndex
  <2>2. Live(State) \in SUBSET Nat
    BY <1>0 DEF Live, WellTyped
  <2>3. /\ filled.entries = KeysOf(i, State, Live(State))
        /\ IndexDefs[i].unique => ~Repeated(State, i)
    <3>1. filled.entries = KeysOf(i, State, Live(State))
      <4>1. PICK none : none = {}
        OBVIOUS
      <4>2. AddKeys(i, none, State, Live(State)).entries = none \cup KeysOf(i, State, Live(State))
        <5>1. AddKeys(i, none, State, Live(State)).success
          BY <1>1, <4>1
        <5> QED BY <2>2, <5>1, AddedKeys
      <4> QED BY <4>1, <4>2
    <3>2. ASSUME IndexDefs[i].unique, NEW a \in Live(State), NEW b \in Live(State), a # b
          PROVE  narrow(i, State.rows[a].values) # narrow(i, State.rows[b].values)
      BY <1>1, <2>2, <3>2, AddedKeys
    <3> QED BY <3>1, <3>2 DEF Repeated
  <2>4. WellTyped(State)'
    <3>1. /\ rows' \in Seq(Row) /\ blobs' \in Seq(Texts \cup {Null})
          /\ indexes' = [j \in DOMAIN indexes' |-> indexes'[j]]
          /\ DOMAIN indexes' \subseteq DOMAIN IndexDefs
      <4> HIDE DEF filled
      <4> QED BY <1>0, <2>1 DEF WellTyped, State
    <3> QED BY <3>1 DEF WellTyped, State
  <2>5. PICK new : new = [rows |-> rows', indexes |-> indexes', blobs |-> blobs', success |-> TRUE]
    OBVIOUS
  <2>6. new.rows = State.rows /\ Live(new) = Live(State) /\ new.indexes = indexes'
    BY <1>0, <2>1, <2>5 DEF Live
  <2>7. /\ \A j : KeysOf(j, new, Live(new)) = KeysOf(j, State, Live(State))
        /\ \A j : Repeated(new, j) <=> Repeated(State, j)
    <3>1. \A j : KeysOf(j, new, Live(new)) = KeysOf(j, State, Live(State))
      BY <2>6 DEF KeysOf
    <3>2. \A j : Repeated(new, j) <=> Repeated(State, j)
      BY <2>6 DEF Repeated
    <3> QED BY <3>1, <3>2
  <2>8. ASSUME NEW j \in DOMAIN indexes'
        PROVE  /\ indexes'[j] = KeysOf(j, State, Live(State))
               /\ IndexDefs[j].unique => ~Repeated(State, j)
    <3> HIDE DEF filled
    <3>1. CASE j = i
      <4>1. indexes'[j] = filled.entries
        BY <2>1, <3>1
      <4> QED BY <2>3, <3>1, <4>1
    <3>2. CASE j # i
      <4>1. j \in DOMAIN indexes /\ indexes'[j] = indexes[j]
        BY <2>1, <3>2
      <4> QED BY <1>0, <4>1 DEF Agree, Unique
    <3> QED BY <3>1, <3>2
  <2>9. Agree(new)
    BY <2>6, <2>7, <2>8 DEF Agree
  <2>10. Unique(new)
    BY <2>6, <2>7, <2>8, Zenon DEF Unique
  <2> QED BY <1>0, <2>4, <2>5, <2>9, <2>10 DEF State
<1>2. CASE ~filled.success
  <2>1. Back
    BY <1>2 DEF CreateIndex
  <2> QED BY <1>0, <2>1, BackIsSound
<1> QED BY <1>1, <1>2

-----------------------------------------------------------------------------
(* Every step. *)

\* What a statement has left, and how it was, is what State is after it.
LEMMA LeftState ==
  ASSUME NEW kind, NEW s, Leave(kind, s)
  PROVE  /\ WellTyped(s) => WellTyped(State)'
         /\ Agree(s) => Agree(State)'
         /\ Unique(s) => Unique(State)'
         /\ success' = s.success /\ statement' = kind
         /\ UNCHANGED <<committed, autoCommitMode>>
<1>1. PICK new : new = [rows |-> rows', indexes |-> indexes', blobs |-> blobs', success |-> TRUE]
  OBVIOUS
<1>2. new.rows = s.rows /\ new.indexes = s.indexes /\ new.blobs = s.blobs
  BY <1>1 DEF Leave
<1>3. WellTyped(s) => WellTyped(new)
  BY <1>2 DEF WellTyped
<1>4. (Agree(s) => Agree(new)) /\ (Unique(s) => Unique(new))
  BY <1>2, SameRowsAndIndexes
<1>5. State' = new
  BY <1>1 DEF State
<1>6. success' = s.success /\ statement' = kind /\ UNCHANGED <<committed, autoCommitMode>>
  BY DEF Leave
<1> QED BY <1>3, <1>4, <1>5, <1>6

LEMMA RowsInitial == Init => RowsInv
<1> SUFFICES ASSUME Init PROVE RowsInv
  OBVIOUS
<1>1. /\ WellTyped(State) /\ WellTyped(committed)
      /\ Live(State) = {} /\ Live(committed) = {}
      /\ State.rows = <<>> /\ committed.rows = <<>>
      /\ \A i \in DOMAIN State.indexes : State.indexes[i] = {}
      /\ \A i \in DOMAIN committed.indexes : committed.indexes[i] = {}
  BY IndexAssumption DEF Init, State, WellTyped, Live
<1>2. Agree(State) /\ Agree(committed)
  BY <1>1 DEF Agree, KeysOf
<1>3. Unique(State) /\ Unique(committed)
  BY <1>1 DEF Unique, Repeated
<1>4. autoCommitMode \in BOOLEAN /\ success \in BOOLEAN /\ success /\ statement = "none"
  BY DEF Init
<1> QED BY <1>1, <1>2, <1>3, <1>4 DEF RowsInv, TypeCorrect

LEMMA InsertKeeps ==
  ASSUME RowsInv, NEW row \in NewRows, Insert(row)
  PROVE  RowsInv'
<1> DEFINE t == InsertRow(State, row.values, row.text)
<1>1. success /\ Leave("insert", t)
  BY DEF Insert
<1>2. row.values \in Tuples /\ row.text \in Texts \cup {Null}
  BY DEF NewRows
<1>3. WellTyped(State) /\ Agree(State) /\ Unique(State)
  BY <1>1 DEF RowsInv, TypeCorrect
<1>4. /\ WellTyped(t) /\ Agree(t) /\ t.success \in BOOLEAN
      /\ t.success => Unique(t)
  BY <1>2, <1>3, InsertedRow
<1> HIDE DEF t
<1>5. /\ WellTyped(State)' /\ Agree(State)' /\ success' = t.success
      /\ Unique(t) => Unique(State)'
      /\ UNCHANGED <<committed, autoCommitMode>> /\ statement' = "insert"
  BY <1>1, <1>4, LeftState
<1>6. success' => Unique(State)'
  BY <1>4, <1>5
<1>7. success' \in BOOLEAN /\ statement' # "none"
  BY <1>4, <1>5
<1> QED BY <1>5, <1>6, <1>7 DEF RowsInv, TypeCorrect

LEMMA DeleteKeeps ==
  ASSUME RowsInv, NEW cond, Delete(cond)
  PROVE  RowsInv'
<1>1. /\ success /\ statement' = "delete" /\ UNCHANGED autoCommitMode
      /\ Agree(State) /\ Unique(State) /\ TypeCorrect
  BY DEF Delete, Execute, Leave, RowsInv
<1>2. /\ WellTyped(State)' /\ UNCHANGED committed
      /\ success' => UNCHANGED <<rows, indexes>>
      /\ success' \in BOOLEAN
  BY <1>1, DeletedRow
<1>3. success' => Agree(State)' /\ Unique(State)'
  <2> SUFFICES ASSUME success' PROVE Agree(State)' /\ Unique(State)'
    OBVIOUS
  <2>1. State'.rows = State.rows /\ State'.indexes = State.indexes
    BY <1>2 DEF State
  <2> QED BY <1>1, <2>1, SameRowsAndIndexes
<1>4. statement' # "none" /\ statement' # "insert"
  BY <1>1
<1> QED BY <1>1, <1>2, <1>3, <1>4 DEF RowsInv, TypeCorrect

LEMMA UpdateKeeps ==
  ASSUME RowsInv, NEW sets \in Updates, NEW cond, Update(sets, cond)
  PROVE  RowsInv'
<1> DEFINE t == Updated(sets, Found(cond))
<1>1. success /\ Leave("update", t)
  BY DEF Update, Execute, RowsInv
<1>2. WellTyped(State) /\ Agree(State) /\ Unique(State)
  BY <1>1 DEF RowsInv, TypeCorrect
<1>3. /\ WellTyped(t) /\ t.success \in BOOLEAN
      /\ t.success => Agree(t) /\ Unique(t)
  <2>1. CASE t.success
    BY <1>2, <2>1, UpdatedTable
  <2>2. CASE ~t.success
    BY <1>2, <2>2, RefusedUpdate
  <2> QED BY <2>1, <2>2
<1> HIDE DEF t
<1>4. /\ WellTyped(State)' /\ success' = t.success
      /\ Agree(t) => Agree(State)'
      /\ Unique(t) => Unique(State)'
      /\ UNCHANGED <<committed, autoCommitMode>> /\ statement' = "update"
  BY <1>1, <1>3, LeftState
<1>5. success' => Agree(State)' /\ Unique(State)'
  BY <1>3, <1>4
<1>6. success' \in BOOLEAN /\ statement' # "none" /\ statement' # "insert"
  BY <1>3, <1>4
<1> QED BY <1>4, <1>5, <1>6 DEF RowsInv, TypeCorrect

LEMMA CreateIndexKeeps ==
  ASSUME RowsInv, NEW i \in DOMAIN IndexDefs, CreateIndex(i)
  PROVE  RowsInv'
<1>1. /\ WellTyped(State)' /\ UNCHANGED committed
      /\ Agree(State)' /\ Unique(State)'
  BY CreatedIndex
<1>2. success' = TRUE /\ statement' = "index" /\ UNCHANGED autoCommitMode
  BY DEF CreateIndex
<1> QED BY <1>1, <1>2 DEF RowsInv, TypeCorrect

LEMMA CommittedAsIs ==
  ASSUME RowsInv, success, UNCHANGED <<rows, indexes, blobs>>,
         \/ committed' = [rows |-> rows, indexes |-> indexes, blobs |-> blobs]
         \/ UNCHANGED committed
  PROVE  /\ WellTyped(State)' /\ Agree(State)' /\ Unique(State)'
         /\ WellTyped(committed)' /\ Agree(committed)' /\ Unique(committed)'
<1>1. WellTyped(State) /\ Agree(State) /\ Unique(State)
  BY DEF RowsInv, TypeCorrect
<1>2. State' = State
  BY DEF State
<1>3. CASE committed' = [rows |-> rows, indexes |-> indexes, blobs |-> blobs]
  <2>1. committed'.rows = State.rows /\ committed'.indexes = State.indexes /\ committed'.blobs = State.blobs
    BY <1>3 DEF State
  <2>2. Agree(committed') /\ Unique(committed')
    BY <1>1, <2>1, SameRowsAndIndexes
  <2>3. WellTyped(committed')
    BY <1>1, <2>1 DEF WellTyped
  <2> QED BY <1>1, <1>2, <2>2, <2>3
<1>4. CASE UNCHANGED committed
  BY <1>1, <1>2, <1>4 DEF RowsInv, TypeCorrect
<1> QED BY <1>3, <1>4

LEMMA FinishKeeps ==
  ASSUME RowsInv, Finish
  PROVE  RowsInv'
<1>1. statement' = "none" /\ success' = TRUE
  BY DEF Finish
<1>2. CASE success
  <2>1. /\ UNCHANGED <<rows, indexes, blobs, autoCommitMode>>
        /\ \/ committed' = [rows |-> rows, indexes |-> indexes, blobs |-> blobs]
           \/ UNCHANGED committed
    BY <1>2 DEF Finish
  <2>2. /\ WellTyped(State)' /\ Agree(State)' /\ Unique(State)'
        /\ WellTyped(committed)' /\ Agree(committed)' /\ Unique(committed)'
    BY <1>2, <2>1, CommittedAsIs
  <2> QED BY <1>1, <2>1, <2>2 DEF RowsInv, TypeCorrect
<1>3. CASE ~success
  <2>1. Back /\ autoCommitMode' = TRUE /\ UNCHANGED committed
    BY <1>3 DEF Finish
  <2>2. WellTyped(State)' /\ Agree(State)' /\ Unique(State)'
    BY <2>1, BackIsSound
  <2> QED BY <1>1, <2>1, <2>2 DEF RowsInv, TypeCorrect
<1> QED BY <1>2, <1>3

LEMMA TransactionOpKeeps ==
  ASSUME RowsInv, NEW mode \in BOOLEAN, TransactionOp(mode)
  PROVE  RowsInv'
<1>1. /\ statement = "none" /\ success /\ autoCommitMode' \in BOOLEAN
      /\ committed' = [rows |-> rows, indexes |-> indexes, blobs |-> blobs]
      /\ UNCHANGED <<rows, indexes, blobs, statement, success>>
  BY DEF TransactionOp, RowsInv
<1>2. /\ WellTyped(State)' /\ Agree(State)' /\ Unique(State)'
      /\ WellTyped(committed)' /\ Agree(committed)' /\ Unique(committed)'
  BY <1>1, CommittedAsIs
<1> QED BY <1>1, <1>2 DEF RowsInv, TypeCorrect

LEMMA RollbackKeeps ==
  ASSUME RowsInv, Rollback
  PROVE  RowsInv'
<1>1. Back /\ autoCommitMode' = TRUE /\ UNCHANGED <<committed, statement, success>>
  BY DEF Rollback
<1>2. WellTyped(State)' /\ Agree(State)' /\ Unique(State)'
  BY <1>1, BackIsSound
<1> QED BY <1>1, <1>2 DEF RowsInv, TypeCorrect

LEMMA RowsStep == RowsInv /\ [Next]_vars => RowsInv'
<1> SUFFICES ASSUME RowsInv, [Next]_vars PROVE RowsInv'
  OBVIOUS
<1>1. ASSUME NEW row \in NewRows, Insert(row) PROVE RowsInv'
  BY <1>1, InsertKeeps
<1>2. ASSUME NEW cond \in Conditions, Delete(cond) PROVE RowsInv'
  BY <1>2, DeleteKeeps
<1>3. ASSUME NEW cond \in Conditions, NEW sets \in Updates, Update(sets, cond) PROVE RowsInv'
  BY <1>3, UpdateKeeps
<1>4. ASSUME NEW i \in DOMAIN IndexDefs, CreateIndex(i) PROVE RowsInv'
  BY <1>4, CreateIndexKeeps
<1>5. CASE Finish
  BY <1>5, FinishKeeps
<1>6. ASSUME NEW mode \in BOOLEAN, TransactionOp(mode) PROVE RowsInv'
  BY <1>6, TransactionOpKeeps
<1>7. CASE Rollback
  BY <1>7, RollbackKeeps
<1>8. CASE UNCHANGED vars
  <2>1. State' = State /\ UNCHANGED <<committed, autoCommitMode, statement, success>>
    BY <1>8 DEF vars, State
  <2> QED BY <2>1 DEF RowsInv, TypeCorrect
<1> QED BY <1>1, <1>2, <1>3, <1>4, <1>5, <1>6, <1>7, <1>8 DEF Next

LEMMA RowsAlwaysSound == Spec => []RowsInv
<1> QED BY RowsInitial, RowsStep, PTL DEF Spec

-----------------------------------------------------------------------------
(* The theorems. *)

\* Whatever statements have succeeded and failed, every index has exactly the keys of
\* the rows there are.
THEOREM IndexesAlwaysAgree == Spec => []IndexesAgree
<1>1. RowsInv => IndexesAgree
  BY DEF RowsInv, IndexesAgree
<1> QED BY <1>1, RowsAlwaysSound, PTL

\* The undo of a refused row restores what the indexes had, and no more, before the
\* rollback that follows it.
THEOREM RefusedRowsUndone == Spec => []RefusedRowUndone
<1>1. RowsInv => RefusedRowUndone
  BY DEF RowsInv, RefusedRowUndone
<1> QED BY <1>1, RowsAlwaysSound, PTL

\* After a statement that has succeeded no two rows have one key of a unique index,
\* whichever rows an UPDATE has changed together.
THEOREM UniqueAlwaysHeld == Spec => []UniqueHeld
<1>1. RowsInv => UniqueHeld
  BY DEF RowsInv, UniqueHeld, Unique, State
<1> QED BY <1>1, RowsAlwaysSound, PTL

\* An UPDATE is refused only if the table would have repeated keys after it.
THEOREM UpdatesRefusedOnlyForRepeats == Spec => UpdateRefusedOnlyForRepeats
<1>1. ASSUME RowsInv, ~success', NEW sets \in Updates, NEW cond, Update(sets, cond)
      PROVE  \E i \in DOMAIN indexes : /\ IndexDefs[i].unique
                                       /\ Repeated([rows |-> RowsUpdated(sets, Found(cond))], i)
  <2>1. WellTyped(State) /\ Agree(State) /\ success' = Updated(sets, Found(cond)).success
    BY <1>1 DEF Update, Execute, Leave, RowsInv, TypeCorrect
  <2>2. ~Updated(sets, Found(cond)).success
    BY <1>1, <2>1
  <2> QED BY <2>1, <2>2, RefusedUpdate
<1>2. RowsInv /\ [Next]_vars =>
        [statement' = "update" /\ ~success' => \A sets \in Updates, cond \in Conditions :
           Update(sets, cond) =>
           \E i \in DOMAIN indexes : /\ IndexDefs[i].unique
                                     /\ Repeated([rows |-> RowsUpdated(sets, Found(cond))], i)]_vars
  BY <1>1
<1> QED BY <1>2, RowsAlwaysSound, PTL DEF Spec, UpdateRefusedOnlyForRepeats
=============================================================================
