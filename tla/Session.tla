------------------------------- MODULE Session -------------------------------
(***************************************************************************)
(* TransactionManager.{h,cpp}, the transaction statements of DDLExecutor   *)
(* and the loop of main() that runs statements: which copies of pages a    *)
(* transaction holds, and when they are copied over the pages PageManager  *)
(* serves.  PageManager is here what PageStore says it is, for a process   *)
(* that is not killed.                                                     *)
(*                                                                         *)
(* A statement is any sequence of the operations that the record and index *)
(* files perform on pages.  It ends by success, by failure, or by an       *)
(* exception that main() reports and otherwise ignores.                    *)
(***************************************************************************)
EXTENDS Integers

CONSTANTS
  Files, FileIds, Contents, Zero,
  Throws,             \* whether a statement may throw after changing pages
  Drops               \* when files are deleted: "never", "alone" (outside transactions
                      \* and not after a statement that threw), "anywhere"

ASSUME ZeroAssumption == Zero \in Contents
ASSUME ThrowsAssumption == Throws \in BOOLEAN
ASSUME StatementsAssumption == Files \cap {"none", "query", "commit"} = {}

VARIABLES
  pages,              \* file -> page number -> content, as PageManager has it
  transactionPages,   \* (file, page number) -> the transaction's copy, if it has one
  autoCommitMode,
  statement,          \* "none", "query", "commit", or the file being dropped
  toCommit            \* copies that the loop of commit() has not visited

vars == <<pages, transactionPages, autoCommitMode, statement, toCommit>>

Store == INSTANCE PageStore WITH reliable <- TRUE

PagePairs == Files \X FileIds

\* A copy: its content, and whether update() was called for it.
Copies == [page : Contents, dirty : BOOLEAN]
NoCopies == [p \in {} |-> {}]
Held == DOMAIN transactionPages

Stored(p) == pages[p[1]][p[2]]

\* What retrieveRead() and retrieveWrite() return for page p.
Seen(p) == IF p \in Held THEN transactionPages[p].page ELSE Stored(p)

PutCopy(p, copy) ==
  transactionPages' =
    [q \in Held \cup {p} |-> IF q = p THEN copy ELSE transactionPages[q]]

-----------------------------------------------------------------------------
Init ==
  /\ Store!Init
  /\ transactionPages = NoCopies
  /\ autoCommitMode = TRUE
  /\ statement = "none"
  /\ toCommit = {}

\* The user enters a statement that queries or changes tables.
Query ==
  /\ statement = "none"
  /\ statement' = "query"
  /\ UNCHANGED <<pages, transactionPages, autoCommitMode, toCommit>>

\* The user enters DROP TABLE, or DROP INDEX, which deletes file f.
DropQuery(f) ==
  /\ statement = "none"
  /\ Drops = "anywhere" \/ (Drops = "alone" /\ autoCommitMode /\ Held = {})
  /\ statement' = f
  /\ UNCHANGED <<pages, transactionPages, autoCommitMode, toCommit>>

\* A page that the running statement may use; it does not open what it drops.
Usable(p) == statement \in Files \cup {"query"} /\ p[1] # statement

UnfilledCopy(p) == [page |-> "unfilled", dirty |-> FALSE]              \* mutant
FreshCopy(p) == [page |-> Stored(p), dirty |-> FALSE]

\* retrieveWrite() for a page that is then left alone: the files' constructors
\* take their header page this way whether they will change it or not.
RetrieveWrite(p) ==
  /\ Usable(p)
  /\ p \notin Held
  /\ PutCopy(p, FreshCopy(p))
  /\ UNCHANGED <<pages, autoCommitMode, statement, toCommit>>

NotUpdated(v) == [page |-> v, dirty |-> FALSE]                         \* mutant
ChangedCopy(v) == [page |-> v, dirty |-> TRUE]

\* retrieveWrite(), a change of the page it returns, and update().
Write(p, v) ==
  /\ Usable(p)
  /\ PutCopy(p, ChangedCopy(v))
  /\ UNCHANGED <<pages, autoCommitMode, statement, toCommit>>

\* Entering commit(): the loop will visit every copy.
StartCommit ==
  /\ statement' = "commit"
  /\ toCommit' = Held

CommitNothing ==                                                       \* mutant
  /\ statement' = "none"
  /\ UNCHANGED toCommit
\* What main() does after a statement that succeeded.
AfterSuccess ==
  IF autoCommitMode THEN StartCommit
  ELSE statement' = "none" /\ UNCHANGED toCommit

Succeed ==
  /\ statement = "query"
  /\ AfterSuccess
  /\ UNCHANGED <<pages, transactionPages, autoCommitMode>>

\* deleteFile() goes to PageManager at once; it ends a DROP, which succeeds.
DropFile ==
  /\ statement \in Files
  /\ Store!Delete(statement)
  /\ AfterSuccess
  /\ UNCHANGED <<transactionPages, autoCommitMode>>

DiscardClean ==                                                        \* mutant
  transactionPages' = [p \in {q \in Held : transactionPages[q].dirty} |-> transactionPages[p]]
Discard == transactionPages' = NoCopies

\* The statement returns failure: main() rolls back.
Fail ==
  /\ statement = "query"
  /\ Discard
  /\ autoCommitMode' = TRUE
  /\ statement' = "none"
  /\ UNCHANGED <<pages, toCommit>>

\* CREATE INDEX meets a repeated key: it rolls back by itself, the statement
\* counts as a success and the mode stays.  The index file it deletes is the
\* one it has just made, which PageManager has as zeros.
FailCreateIndex ==
  /\ statement = "query"
  /\ Discard
  /\ statement' = "none"
  /\ UNCHANGED <<pages, autoCommitMode, toCommit>>

\* The statement throws an SQLException: main() prints it.
Throw ==
  /\ Throws
  /\ statement = "query"
  /\ statement' = "none"
  /\ UNCHANGED <<pages, transactionPages, autoCommitMode, toCommit>>

\* BEGIN TRANSACTION (mode FALSE) and COMMIT (mode TRUE).
TransactionOp(mode) ==
  /\ statement = "none"
  /\ StartCommit
  /\ autoCommitMode' = mode
  /\ UNCHANGED <<pages, transactionPages>>

\* One iteration of the loop of commit().
CommitPage(p) ==
  /\ statement = "commit"
  /\ p \in toCommit
  /\ IF transactionPages[p].dirty
     THEN Store!Write(p[1], p[2], transactionPages[p].page)
     ELSE UNCHANGED pages
  /\ toCommit' = toCommit \ {p}
  /\ UNCHANGED <<transactionPages, autoCommitMode, statement>>

CommitDone ==
  /\ statement = "commit"
  /\ toCommit = {}
  /\ transactionPages' = NoCopies
  /\ statement' = "none"
  /\ UNCHANGED <<pages, autoCommitMode, toCommit>>

\* ROLLBACK; and "exit", after which a new process starts with no transaction.
Rollback ==
  /\ statement = "none"
  /\ Discard
  /\ autoCommitMode' = TRUE
  /\ UNCHANGED <<pages, statement, toCommit>>

-----------------------------------------------------------------------------
Next ==
  \/ Query \/ Succeed \/ Fail \/ FailCreateIndex \/ Throw
  \/ \E f \in Files : DropQuery(f)
  \/ DropFile
  \/ \E p \in PagePairs : RetrieveWrite(p) \/ CommitPage(p)
  \/ \E p \in PagePairs, v \in Contents : Write(p, v)
  \/ \E mode \in BOOLEAN : TransactionOp(mode)
  \/ CommitDone \/ Rollback

Spec == Init /\ [][Next]_vars

-----------------------------------------------------------------------------
(* Properties. *)

TypeOK ==
  /\ pages \in Store!Views
  /\ Held \subseteq PagePairs
  /\ transactionPages \in [Held -> Copies]
  /\ autoCommitMode \in BOOLEAN
  /\ statement \in {"none", "query", "commit"} \cup Files
  /\ toCommit \subseteq Held
  /\ statement # "commit" => toCommit = {}

\* A copy that commit() will skip is what PageManager serves for the page, and
\* so is one that its loop has passed: a read that is answered from the
\* transaction's copies never returns a stale page.
CopiesFresh ==
  \A p \in Held :
    ~transactionPages[p].dirty \/ (statement = "commit" /\ p \notin toCommit) =>
      transactionPages[p].page = Stored(p)

\* Outside a transaction only an exception leaves something to commit when the
\* user is asked for the next statement: no other statement's changes are
\* committed, or rolled back, with those of another one.
OnlyThrowsPend ==
  [][statement # "none" /\ statement' = "none" /\ autoCommitMode' =>
       Throw \/ \A p \in DOMAIN transactionPages' : ~transactionPages'[p].dirty]_vars

\* src/SmallQL/SmallQL.cpp:89-93, a statement that fails is rolled back, those
\* that throw too: outside a transaction nothing is left to commit.
NothingPending ==
  statement = "none" /\ autoCommitMode => \A p \in Held : ~transactionPages[p].dirty

\* Between BEGIN TRANSACTION and COMMIT the committed pages stay as they are,
\* so that ROLLBACK finds them.
CommittedUntouched ==
  [][pages' # pages => statement = "commit" \/ autoCommitMode]_vars

\* The session implements the transactions the user is promised.  The commit
\* happens when commit() is entered: the loop cannot be observed half-way.
View == [f \in Files |-> [i \in FileIds |-> Seen(<<f, i>>)]]
Promise == INSTANCE Transactions
             WITH working <- View,
                  committed <- IF statement = "commit" THEN View ELSE pages
PromiseSpec == Promise!Spec
=============================================================================
