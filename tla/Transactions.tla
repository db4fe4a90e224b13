----------------------------- MODULE Transactions -----------------------------
(***************************************************************************)
(* What SmallQL promises a user who runs statements alone, or several      *)
(* between BEGIN TRANSACTION and COMMIT or ROLLBACK: nobody but the        *)
(* transaction sees its changes until it commits, all of them are kept     *)
(* then, and none if it is rolled back or the program is left.             *)
(***************************************************************************)
CONSTANTS Files, FileIds, Contents, Zero

VARIABLES
  committed,       \* the database as the last commit left it
  working,         \* the database as the statements of the transaction see it
  autoCommitMode   \* no transaction was begun: every statement is one

vars == <<committed, working, autoCommitMode>>

Database == [Files -> [FileIds -> Contents]]
Empty == [f \in Files |-> [i \in FileIds |-> Zero]]

Init == committed = Empty /\ working = Empty /\ autoCommitMode = TRUE

\* A statement changes a page.
Change ==
  /\ \E f \in Files, i \in FileIds, v \in Contents : working' = [working EXCEPT ![f][i] = v]
  /\ UNCHANGED <<committed, autoCommitMode>>

\* DROP TABLE or DROP INDEX, which commits if it is alone.
Drop ==
  /\ \E f \in Files : working' = [working EXCEPT ![f] = Empty[f]]
  /\ committed' = IF autoCommitMode THEN working' ELSE committed
  /\ UNCHANGED autoCommitMode

\* COMMIT, BEGIN TRANSACTION, and the end of a statement that is alone.
Commit ==
  /\ committed' = working
  /\ autoCommitMode' \in BOOLEAN
  /\ UNCHANGED working

\* ROLLBACK, a statement that fails, and leaving the program.  (A CREATE INDEX
\* that fails undoes the whole transaction too, but does not end it.)
Rollback ==
  /\ working' = committed
  /\ autoCommitMode' \in {TRUE, autoCommitMode}
  /\ UNCHANGED committed

Next == Change \/ Drop \/ Commit \/ Rollback

Spec == Init /\ [][Next]_vars
=============================================================================
