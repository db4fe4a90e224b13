---------------------------- MODULE SessionProofs ----------------------------
(***************************************************************************)
(* Proofs about Session: types; that only an exception leaves changes      *)
(* behind; and, when files are deleted outside transactions only, that the *)
(* copies of a transaction are never stale and that the session implements *)
(* the transactions the user is promised.                                  *)
(***************************************************************************)
EXTENDS Session, TLAPS

\* What PutCopy leaves, for a page of the store.
LEMMA PutCopyHeld ==
  ASSUME TypeOK, NEW p \in PagePairs, NEW copy \in Copies, PutCopy(p, copy)
  PROVE  /\ Held' = Held \cup {p}
         /\ transactionPages'[p] = copy
         /\ \A q \in Held : q # p => transactionPages'[q] = transactionPages[q]
         /\ transactionPages' \in [Held' -> Copies]
BY DEF PutCopy, Held, TypeOK

LEMMA TypeStep == TypeOK /\ [Next]_vars => TypeOK'
<1> SUFFICES ASSUME TypeOK, [Next]_vars PROVE TypeOK'
  OBVIOUS
<1>1. CASE Query \/ Succeed \/ Throw
  BY <1>1 DEF TypeOK, Query, Succeed, AfterSuccess, StartCommit, Throw, Held
<1>2. CASE Fail \/ FailCreateIndex \/ Rollback
  BY <1>2 DEF TypeOK, Fail, FailCreateIndex, Rollback, Discard, NoCopies, Held
<1>3. ASSUME NEW f \in Files, DropQuery(f)
      PROVE  TypeOK'
  BY <1>3 DEF TypeOK, DropQuery, Held
<1>4. CASE DropFile
  <2>1. pages' \in Store!Views
    <3>1. statement \in Files /\ pages' = [pages EXCEPT ![statement] = Store!Empty[statement]]
      BY <1>4 DEF DropFile, Store!Delete
    <3>2. Store!Empty[statement] \in [FileIds -> Contents]
      BY <3>1, ZeroAssumption DEF Store!Empty
    <3> QED
      BY <3>1, <3>2 DEF TypeOK, Store!Views
  <2> QED
    BY <1>4, <2>1, StatementsAssumption
       DEF TypeOK, DropFile, AfterSuccess, StartCommit, Held
<1>5. ASSUME NEW p \in PagePairs, RetrieveWrite(p)
      PROVE  TypeOK'
  <2>1. FreshCopy(p) \in Copies
    BY DEF TypeOK, FreshCopy, Copies, Stored, PagePairs, Store!Views
  <2> QED
    BY <1>5, <2>1, PutCopyHeld DEF TypeOK, RetrieveWrite
<1>6. ASSUME NEW p \in PagePairs, NEW v \in Contents, Write(p, v)
      PROVE  TypeOK'
  <2>1. ChangedCopy(v) \in Copies
    BY DEF ChangedCopy, Copies
  <2> QED
    BY <1>6, <2>1, PutCopyHeld DEF TypeOK, Write
<1>7. ASSUME NEW mode \in BOOLEAN, TransactionOp(mode)
      PROVE  TypeOK'
  BY <1>7 DEF TypeOK, TransactionOp, StartCommit, Held
<1>8. ASSUME NEW p \in PagePairs, CommitPage(p)
      PROVE  TypeOK'
  <2>1. transactionPages[p].page \in Contents
    BY <1>8 DEF TypeOK, CommitPage, Copies
  <2>2. pages' \in Store!Views
    <3>1. p[1] \in Files /\ p[2] \in FileIds
      BY DEF PagePairs
    <3>2. CASE UNCHANGED pages
      BY <3>2 DEF TypeOK
    <3>3. CASE Store!Write(p[1], p[2], transactionPages[p].page)
      BY <2>1, <3>1, <3>3 DEF TypeOK, Store!Write, Store!Views
    <3> QED
      BY <1>8, <3>2, <3>3 DEF CommitPage
  <2> QED
    BY <1>8, <2>2 DEF TypeOK, CommitPage, Held
<1>9. CASE CommitDone
  BY <1>9 DEF TypeOK, CommitDone, NoCopies, Held
<1>10. CASE UNCHANGED vars
  BY <1>10 DEF TypeOK, vars, Held
<1> QED
  BY <1>1, <1>2, <1>3, <1>4, <1>5, <1>6, <1>7, <1>8, <1>9, <1>10 DEF Next

\* Every variable keeps its type, however statements end.
THEOREM TypeCorrect == Spec => []TypeOK
<1>1. Init => TypeOK
  BY ZeroAssumption
     DEF Init, TypeOK, Store!Init, Store!Empty, Store!Views, NoCopies, Held
<1> QED
  BY <1>1, TypeStep, PTL DEF Spec

\* Outside a transaction, a statement that does not throw leaves no dirty copy:
\* it ends with the loop of commit() or with a rollback.
THEOREM OnlyThrowsLeaveChanges == Spec => OnlyThrowsPend
<1> DEFINE Pends ==
      statement # "none" /\ statement' = "none" /\ autoCommitMode' =>
        Throw \/ \A p \in DOMAIN transactionPages' : ~transactionPages'[p].dirty
<1>1. TypeOK /\ [Next]_vars => [Pends]_vars
  <2> SUFFICES ASSUME TypeOK, Next, statement # "none", statement' = "none", autoCommitMode'
               PROVE  Throw \/ transactionPages' = NoCopies
    BY DEF NoCopies, vars
  <2>1. ~Query /\ (\A f \in Files : ~DropQuery(f)) /\ ~Rollback
        /\ \A mode \in BOOLEAN : ~TransactionOp(mode)
    BY DEF Query, DropQuery, Rollback, TransactionOp, StartCommit
  <2>2. ~Succeed /\ ~DropFile
    BY DEF TypeOK, Succeed, DropFile, AfterSuccess, StartCommit
  <2>3. \A p \in PagePairs : ~RetrieveWrite(p) /\ ~CommitPage(p) /\ \A v \in Contents : ~Write(p, v)
    BY DEF RetrieveWrite, CommitPage, Write
  <2>4. CASE Fail \/ FailCreateIndex \/ CommitDone
    BY <2>4 DEF Fail, FailCreateIndex, CommitDone, Discard
  <2> QED
    BY <2>1, <2>2, <2>3, <2>4 DEF Next
<1> QED
  BY <1>1, TypeCorrect, PTL DEF Spec, OnlyThrowsPend

-----------------------------------------------------------------------------
(* Outside transactions a file is deleted while no copy of its pages is held, *)
(* and committed with the statement that deletes it.                          *)

DropsAlone ==
  Drops # "anywhere" /\ statement \in Files =>
    autoCommitMode /\ \A p \in Held : p[1] # statement

Fresh == TypeOK /\ DropsAlone /\ (Drops # "anywhere" => CopiesFresh)

LEMMA FreshStep ==
  ASSUME Fresh, [Next]_vars, Drops # "anywhere"
  PROVE  DropsAlone' /\ CopiesFresh'
<1> USE DEF Fresh
<1>1. ASSUME NEW f \in Files, DropQuery(f)
      PROVE  DropsAlone' /\ CopiesFresh'
  BY <1>1, StatementsAssumption DEF DropQuery, DropsAlone, CopiesFresh, Held, Stored
<1>2. ASSUME UNCHANGED <<pages, transactionPages>>,
             statement' \notin Files,
             statement' = "commit" => statement = "commit" \/ toCommit' = Held,
             statement = "commit" => UNCHANGED <<statement, toCommit>>
      PROVE  DropsAlone' /\ CopiesFresh'
  BY <1>2 DEF DropsAlone, CopiesFresh, Held, Stored
<1>3. CASE Query \/ Succeed \/ Throw
  BY <1>2, <1>3, StatementsAssumption DEF Query, Succeed, AfterSuccess, StartCommit, Throw
<1>4. ASSUME NEW mode \in BOOLEAN, TransactionOp(mode)
      PROVE  DropsAlone' /\ CopiesFresh'
  BY <1>2, <1>4, StatementsAssumption DEF TransactionOp, StartCommit
<1>5. CASE UNCHANGED vars
  BY <1>5 DEF vars, DropsAlone, CopiesFresh, Held, Stored
<1>6. CASE Fail \/ FailCreateIndex \/ Rollback \/ CommitDone
  <2>1. Held' = {} /\ statement' \notin Files
    BY <1>6, StatementsAssumption
       DEF Fail, FailCreateIndex, Rollback, CommitDone, Discard, NoCopies, Held
  <2> QED
    BY <2>1 DEF DropsAlone, CopiesFresh
<1>7. CASE DropFile
  <2>1. statement \in Files /\ autoCommitMode /\ \A p \in Held : p[1] # statement
    BY <1>7 DEF DropFile, DropsAlone
  <2>2. statement' = "commit" /\ toCommit' = Held /\ transactionPages' = transactionPages
    BY <1>7, <2>1 DEF DropFile, AfterSuccess, StartCommit
  <2>3. \A p \in Held : Stored(p)' = Stored(p)
    BY <1>7, <2>1 DEF DropFile, Store!Delete, Stored, TypeOK, Store!Views
  <2>4. statement # "commit"
    BY <2>1, StatementsAssumption
  <2> QED
    BY <2>1, <2>2, <2>3, <2>4, StatementsAssumption DEF DropsAlone, CopiesFresh, Held
<1>8. ASSUME NEW p \in PagePairs, RetrieveWrite(p)
      PROVE  DropsAlone' /\ CopiesFresh'
  <2>1. FreshCopy(p) \in Copies
    BY DEF TypeOK, FreshCopy, Copies, Stored, PagePairs, Store!Views
  <2>2. /\ Held' = Held \cup {p} /\ transactionPages'[p] = FreshCopy(p)
        /\ \A q \in Held : q # p => transactionPages'[q] = transactionPages[q]
    BY <1>8, <2>1, PutCopyHeld DEF RetrieveWrite
  <2>3. \A q \in PagePairs : Stored(q)' = Stored(q)
    BY <1>8 DEF RetrieveWrite, Stored
  <2>4. statement' = statement /\ statement # "commit" /\ Held \subseteq PagePairs
    BY <1>8, StatementsAssumption DEF RetrieveWrite, Usable, TypeOK
  <2> QED
    BY <1>8, <2>2, <2>3, <2>4 DEF DropsAlone, CopiesFresh, FreshCopy, RetrieveWrite, Usable
<1>9. ASSUME NEW p \in PagePairs, NEW v \in Contents, Write(p, v)
      PROVE  DropsAlone' /\ CopiesFresh'
  <2>1. ChangedCopy(v) \in Copies
    BY DEF ChangedCopy, Copies
  <2>2. /\ Held' = Held \cup {p} /\ transactionPages'[p] = ChangedCopy(v)
        /\ \A q \in Held : q # p => transactionPages'[q] = transactionPages[q]
    BY <1>9, <2>1, PutCopyHeld DEF Write
  <2>3. \A q \in PagePairs : Stored(q)' = Stored(q)
    BY <1>9 DEF Write, Stored
  <2>4. statement' = statement /\ statement # "commit" /\ Held \subseteq PagePairs
    BY <1>9, StatementsAssumption DEF Write, Usable, TypeOK
  <2> QED
    BY <1>9, <2>2, <2>3, <2>4 DEF DropsAlone, CopiesFresh, ChangedCopy, Write, Usable
<1>10. ASSUME NEW p \in PagePairs, CommitPage(p)
       PROVE  DropsAlone' /\ CopiesFresh'
  <2>1. /\ statement = "commit" /\ statement' = "commit" /\ p \in Held
        /\ transactionPages' = transactionPages /\ Held' = Held /\ Held \subseteq PagePairs
        /\ toCommit' = toCommit \ {p}
    BY <1>10 DEF CommitPage, TypeOK, Held
  <2>2. Stored(p)' = transactionPages[p].page
        /\ \A q \in PagePairs : q # p => Stored(q)' = Stored(q)
    <3>1. CASE transactionPages[p].dirty
      <4>1. pages' = [pages EXCEPT ![p[1]][p[2]] = transactionPages[p].page]
        BY <1>10, <3>1 DEF CommitPage, Store!Write
      <4>2. \A q \in PagePairs : q[1] \in Files /\ q[2] \in FileIds /\ (q # p => q[1] # p[1] \/ q[2] # p[2])
        BY DEF PagePairs
      <4> QED
        BY <4>1, <4>2 DEF Stored, TypeOK, Store!Views
    <3>2. CASE ~transactionPages[p].dirty
      BY <1>10, <2>1, <3>2 DEF CommitPage, CopiesFresh, Stored
    <3> QED
      BY <3>1, <3>2
  <2> QED
    BY <2>1, <2>2, StatementsAssumption DEF DropsAlone, CopiesFresh
<1> QED
  BY <1>1, <1>3, <1>4, <1>5, <1>6, <1>7, <1>8, <1>9, <1>10 DEF Next

LEMMA FreshInvariant == Spec => []Fresh
<1>1. Init => Fresh
  <2> SUFFICES ASSUME Init PROVE Fresh
    OBVIOUS
  <2>1. TypeOK
    BY ZeroAssumption
       DEF Init, TypeOK, Store!Init, Store!Empty, Store!Views, NoCopies, Held
  <2>2. Held = {} /\ statement \notin Files
    BY StatementsAssumption DEF Init, NoCopies, Held
  <2> QED
    BY <2>1, <2>2 DEF Fresh, DropsAlone, CopiesFresh
<1>2. Fresh /\ [Next]_vars => Fresh'
  BY TypeStep, FreshStep DEF Fresh, DropsAlone
<1> QED
  BY <1>1, <1>2, PTL DEF Spec

\* A page read from a transaction's copies is never stale: a copy that is not
\* dirty, or that commit() has copied already, is what PageManager serves.
THEOREM CopiesStayFresh == Drops # "anywhere" /\ Spec => []CopiesFresh
<1>1. Drops # "anywhere" /\ Fresh => CopiesFresh
  BY DEF Fresh
<1>2. CASE Drops # "anywhere"
  <2>1. Fresh => CopiesFresh
    BY <1>1, <1>2
  <2> QED
    BY <2>1, FreshInvariant, PTL
<1>3. CASE Drops = "anywhere"
  BY <1>3
<1> QED
  BY <1>2, <1>3

-----------------------------------------------------------------------------
(* The session implements Transactions. *)

LEMMA SameView ==
  ASSUME \A p \in PagePairs : Seen(p)' = Seen(p)
  PROVE  View' = View
BY DEF View, PagePairs

LEMMA NoCopiesView ==
  ASSUME TypeOK', Held' = {}
  PROVE  View' = pages'
<1>1. \A p \in PagePairs : Seen(p)' = Stored(p)'
  BY DEF Seen
<1>2. \A f \in Files, i \in FileIds : Seen(<<f, i>>)' = pages'[f][i]
  BY <1>1 DEF PagePairs, Stored
<1> QED
  BY <1>2 DEF View, TypeOK, Store!Views

LEMMA FreshView ==
  ASSUME TypeOK, \A p \in Held : transactionPages[p].page = Stored(p)
  PROVE  View = pages
<1>1. \A f \in Files, i \in FileIds : Seen(<<f, i>>) = pages[f][i]
  BY DEF Seen, Stored
<1> QED
  BY <1>1 DEF View, TypeOK, Store!Views

\* Every step of the session is a step of the promise, or changes nothing in it.
LEMMA PromiseStep ==
  ASSUME Fresh, TypeOK', [Next]_vars, Drops # "anywhere"
  PROVE  [Promise!Next]_Promise!vars
<1> DEFINE Committed == IF statement = "commit" THEN View ELSE pages
<1> USE DEF Fresh
<1>a. ASSUME View' = View, Committed' = Committed, UNCHANGED autoCommitMode
      PROVE  UNCHANGED Promise!vars
  BY <1>a DEF Promise!vars
<1>1. CASE Query \/ Throw
  <2>1. Committed' = Committed /\ UNCHANGED autoCommitMode
    BY <1>1 DEF Query, Throw
  <2>2. View' = View
    BY <1>1, SameView DEF Query, Throw, Seen, Stored, Held
  <2> QED
    BY <1>a, <2>1, <2>2
<1>2. ASSUME StartCommit, UNCHANGED <<pages, transactionPages>>, autoCommitMode' \in BOOLEAN
      PROVE  Promise!Next
  <2>1. View' = View
    BY <1>2, SameView DEF Seen, Stored, Held
  <2>2. Committed' = View
    BY <1>2, <2>1 DEF StartCommit
  <2> QED
    BY <1>2, <2>1, <2>2 DEF Promise!Next, Promise!Commit
<1>3. CASE Succeed
  <2>1. CASE autoCommitMode
    BY <1>2, <1>3, <2>1 DEF Succeed, AfterSuccess, TypeOK
  <2>2. CASE ~autoCommitMode
    <3>1. Committed' = Committed /\ UNCHANGED autoCommitMode
      BY <1>3, <2>2 DEF Succeed, AfterSuccess
    <3>2. View' = View
      BY <1>3, SameView DEF Succeed, Seen, Stored, Held
    <3> QED
      BY <1>a, <3>1, <3>2
  <2> QED
    BY <2>1, <2>2
<1>4. ASSUME NEW mode \in BOOLEAN, TransactionOp(mode)
      PROVE  Promise!Next
  BY <1>2, <1>4 DEF TransactionOp
<1>5. CASE Fail \/ FailCreateIndex \/ Rollback
  <2>1. /\ statement # "commit" /\ statement' # "commit" /\ pages' = pages
        /\ transactionPages' = NoCopies /\ autoCommitMode' \in {TRUE, autoCommitMode}
    BY <1>5 DEF Fail, FailCreateIndex, Rollback, Discard
  <2>2. View' = pages
    BY <2>1, NoCopiesView DEF Held, NoCopies
  <2> QED
    BY <2>1, <2>2 DEF Promise!Next, Promise!Rollback
<1>6. ASSUME NEW f \in Files, DropQuery(f)
      PROVE  UNCHANGED Promise!vars
  <2>1. statement # "commit" /\ statement' # "commit" /\ UNCHANGED <<pages, autoCommitMode>>
    BY <1>6, StatementsAssumption DEF DropQuery
  <2>2. View' = View
    BY <1>6, SameView DEF DropQuery, Seen, Stored, Held
  <2> QED
    BY <1>a, <2>1, <2>2
<1>12. CASE DropFile
  <2>1. PICK f \in Files : f = statement
    BY <1>12 DEF DropFile
  <2>2. /\ pages' = [pages EXCEPT ![f] = Store!Empty[f]]
        /\ UNCHANGED <<transactionPages, autoCommitMode>>
    BY <1>12, <2>1 DEF DropFile, Store!Delete
  <2>3. autoCommitMode /\ \A p \in Held : p[1] # f
    BY <2>1 DEF DropsAlone
  <2>4. statement' = "commit"
    BY <1>12, <2>3 DEF DropFile, AfterSuccess, StartCommit
  <2>5. \A g \in Files, j \in FileIds :
          Seen(<<g, j>>)' = IF g = f THEN Zero ELSE Seen(<<g, j>>)
    <3>1. \A g \in Files, j \in FileIds : <<g, j>> \in Held => g # f
      BY <2>3
    <3>2. \A g \in Files, j \in FileIds : pages'[g][j] = IF g = f THEN Zero ELSE pages[g][j]
      BY <2>2 DEF TypeOK, Store!Views, Store!Empty
    <3> QED
      BY <2>2, <3>1, <3>2 DEF Seen, Stored, Held
  <2>6. View' = [View EXCEPT ![f] = Promise!Empty[f]]
    BY <2>5 DEF View, Promise!Empty
  <2> QED
    BY <2>2, <2>3, <2>4, <2>6 DEF Promise!Next, Promise!Drop
<1>7. ASSUME NEW p \in PagePairs, RetrieveWrite(p)
      PROVE  UNCHANGED Promise!vars
  <2>1. FreshCopy(p) \in Copies
    BY DEF TypeOK, FreshCopy, Copies, Stored, PagePairs, Store!Views
  <2>2. /\ Held' = Held \cup {p} /\ transactionPages'[p] = FreshCopy(p)
        /\ \A q \in Held : q # p => transactionPages'[q] = transactionPages[q]
    BY <1>7, <2>1, PutCopyHeld DEF RetrieveWrite
  <2>3. p \notin Held /\ UNCHANGED <<pages, autoCommitMode, statement>>
        /\ statement # "commit"
    BY <1>7, StatementsAssumption DEF RetrieveWrite, Usable
  <2>4. View' = View
    BY <2>2, <2>3, SameView DEF Seen, Stored, FreshCopy
  <2> QED
    BY <1>a, <2>3, <2>4
<1>8. ASSUME NEW p \in PagePairs, NEW v \in Contents, Write(p, v)
      PROVE  Promise!Next
  <2>1. ChangedCopy(v) \in Copies
    BY DEF ChangedCopy, Copies
  <2>2. /\ Held' = Held \cup {p} /\ transactionPages'[p] = ChangedCopy(v)
        /\ \A q \in Held : q # p => transactionPages'[q] = transactionPages[q]
    BY <1>8, <2>1, PutCopyHeld DEF Write
  <2>3. UNCHANGED <<pages, autoCommitMode, statement>> /\ statement # "commit"
    BY <1>8, StatementsAssumption DEF Write, Usable
  <2>4. \A q \in PagePairs : Seen(q)' = IF q = p THEN v ELSE Seen(q)
    BY <2>2, <2>3 DEF Seen, Stored, ChangedCopy
  <2>5. PICK f \in Files, i \in FileIds : p = <<f, i>>
    BY DEF PagePairs
  <2>6. \A g \in Files, j \in FileIds :
          Seen(<<g, j>>)' = IF g = f /\ j = i THEN v ELSE Seen(<<g, j>>)
    BY <2>4, <2>5 DEF PagePairs
  <2>7. View' = [View EXCEPT ![f][i] = v]
    BY <2>6 DEF View
  <2> QED
    BY <2>3, <2>7 DEF Promise!Next, Promise!Change
<1>9. ASSUME NEW p \in PagePairs, CommitPage(p)
      PROVE  UNCHANGED Promise!vars
  <2>1. /\ statement = "commit" /\ statement' = "commit" /\ p \in Held
        /\ transactionPages' = transactionPages /\ Held' = Held
        /\ UNCHANGED autoCommitMode
    BY <1>9 DEF CommitPage, TypeOK, Held
  <2>2. \A q \in PagePairs : q # p => Stored(q)' = Stored(q)
    <3>1. CASE UNCHANGED pages
      BY <3>1 DEF Stored
    <3>2. CASE Store!Write(p[1], p[2], transactionPages[p].page)
      <4>1. \A q \in PagePairs :
              q[1] \in Files /\ q[2] \in FileIds /\ (q # p => q[1] # p[1] \/ q[2] # p[2])
        BY DEF PagePairs
      <4> QED
        BY <3>2, <4>1 DEF Store!Write, Stored, TypeOK, Store!Views
    <3> QED
      BY <1>9, <3>1, <3>2 DEF CommitPage
  <2>3. View' = View
    BY <2>1, <2>2, SameView DEF Seen
  <2> QED
    BY <1>a, <2>1, <2>3
<1>10. CASE CommitDone
  <2>1. /\ statement = "commit" /\ statement' # "commit" /\ pages' = pages
        /\ transactionPages' = NoCopies /\ toCommit = {} /\ UNCHANGED autoCommitMode
    BY <1>10 DEF CommitDone
  <2>2. View = pages
    BY <2>1, FreshView DEF CopiesFresh
  <2>3. View' = pages
    BY <2>1, NoCopiesView DEF Held, NoCopies
  <2> QED
    BY <1>a, <2>1, <2>2, <2>3
<1>11. CASE UNCHANGED vars
  BY <1>a, <1>11, SameView DEF vars, Seen, Stored, Held
<1> QED
  BY <1>1, <1>3, <1>4, <1>5, <1>6, <1>7, <1>8, <1>9, <1>10, <1>11, <1>12 DEF Next

\* If files are deleted outside transactions only, what the user sees of the
\* session is what Transactions promises: a commit keeps everything at once, a
\* rollback nothing, and nothing is committed before, however statements end.
\* (With deletions inside transactions it is not so.)
THEOREM SessionKeepsPromise == Drops # "anywhere" /\ Spec => PromiseSpec
<1>1. ASSUME Drops # "anywhere", Init
      PROVE  Promise!Init
  <2>1. View = pages /\ pages = Store!Empty
    BY <1>1 DEF Init, Store!Init, Store!Empty, View, Seen, Stored, Held, NoCopies
  <2> QED
    BY <1>1, <2>1 DEF Init, Promise!Init, Promise!Empty, Store!Empty
<1>2. Drops # "anywhere" /\ Fresh /\ TypeOK' /\ [Next]_vars => [Promise!Next]_Promise!vars
  BY PromiseStep
<1>3. CASE Drops # "anywhere"
  <2>1. Init => Promise!Init
    BY <1>1, <1>3
  <2>2. Fresh /\ TypeOK' /\ [Next]_vars => [Promise!Next]_Promise!vars
    BY <1>2, <1>3
  <2> QED
    BY <2>1, <2>2, FreshInvariant, TypeCorrect, PTL DEF PromiseSpec, Promise!Spec, Spec
<1>4. CASE Drops = "anywhere"
  BY <1>4
<1> QED
  BY <1>3, <1>4
=============================================================================
