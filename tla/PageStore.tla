------------------------------ MODULE PageStore ------------------------------
(***************************************************************************)
(* What PageManager promises its only client, TransactionManager: an array *)
(* of pages per file, zero until written, that survives the end of the     *)
(* process; deleting a file zeroes it.  Reading, flushing, leaving and     *)
(* starting again change nothing.  The promise ends when the process dies  *)
(* without its destructor.                                                 *)
(***************************************************************************)
EXTENDS Integers

CONSTANTS Files, FileIds, Contents, Zero

VARIABLES
  pages,      \* file -> page number -> content
  reliable    \* the process has never died without its destructor

vars == <<pages, reliable>>

Views == [Files -> [FileIds -> Contents]]
Empty == [f \in Files |-> [i \in FileIds |-> Zero]]

Init == pages = Empty /\ reliable = TRUE

Write(f, i, v) ==
  /\ pages' = [pages EXCEPT ![f][i] = v]
  /\ reliable' = reliable

Delete(f) ==
  /\ pages' = [pages EXCEPT ![f] = Empty[f]]
  /\ reliable' = reliable

Unreliable ==
  /\ reliable' = FALSE
  /\ pages' \in Views

Next ==
  \/ \E f \in Files, i \in FileIds, v \in Contents : Write(f, i, v)
  \/ \E f \in Files : Delete(f)
  \/ Unreliable

Spec == Init /\ [][Next]_vars
=============================================================================
