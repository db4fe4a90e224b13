------------------------------- MODULE MCBlobs -------------------------------
(* Small sets of blobs, and ways to use them. *)
EXTENDS Blobs

Blob(v, n) == [value |-> v, size |-> n]

\* The one takes a page of its own; the other, whose start shares a page with
\* another of its kind, has two overflow pages.  No block is ever cut so that
\* fewer than 12 bytes are left of it.
RoundSizes == {Blob("a", 5000), Blob("c", 19876)}

\* The places where their blocks begin and end: with the tags and the pointer to
\* the overflow pages they take 5004 and 3508 bytes of a page.
RoundCuts == {n \in 0..PAGE_SIZE :
                n = PAGE_SIZE \/ \E i, j \in 0..2 : n = 5004 * i + 3508 * j}

\* The premise of the theorems about Blobs holds for these sizes.
ASSUME RoundSizesAreWellCut == Data = RoundSizes => WellCut(RoundCuts)

\* One of these leaves 8 bytes of a page of its own.
TightSizes == {Blob("a", 2000), Blob("b", 8180)}

\* One transaction of any calls, and transactions that only add blobs, with
\* rollbacks or with restarts.
Anything == [calls |-> {"add", "write", "delete"}, ends |-> {}]
Reopened == {[calls |-> {"add"}, ends |-> {"commit", "exit"}]}
Usual == {Anything, [calls |-> {"add"}, ends |-> {"commit", "rollback"}]} \cup Reopened
OneTransaction == {Anything}
Committed == {[Anything EXCEPT !.ends = {"commit"}]}
RolledBack == {[Anything EXCEPT !.ends = {"commit", "rollback"}]}
Restarted == {[Anything EXCEPT !.ends = {"commit", "exit"}]}
=============================================================================
