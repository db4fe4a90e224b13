------------------------------- MODULE MCBTree -------------------------------
(* Small sets of keys for BTree. *)
EXTENDS BTree

Row(k) == [key |-> k, record |-> k]

\* Tables that CREATE INDEX fills an index from, in the order of their rows: as
\* many as give the tree three levels.  One of them has two keys only, each in
\* seven rows: a unique index refuses the second row, and starts with one key.
RowsUp == [i \in 1..14 |-> Row(2 * i)]
RowsMixed == [i \in 1..14 |-> Row(2 * ((4 * i) % 15))]
RowsShared == [i \in 1..14 |-> [key |-> IF i <= 7 THEN 4 ELSE 12, record |-> i]]
Tables == {RowsUp, RowsMixed, RowsShared}

\* The keys that come and go then.
SomeKeys == {Row(k) : k \in {2, 4, 6, 12, 17}}
=============================================================================
