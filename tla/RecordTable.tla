----------------------------- MODULE RecordTable -----------------------------
(***************************************************************************)
(* What a DataFile promises: a table of rows under ids of its own choice.  *)
(* A new row gets an id no row has; other rows keep their ids and data.    *)
(* An insertion may be refused, and then changes nothing.                  *)
(***************************************************************************)
EXTENDS Integers

CONSTANTS Ids, Rows

VARIABLES
  table,    \* the ids in use -> their rows
  count     \* rows inserted and not deleted

vars == <<table, count>>

Init == table = [id \in {} |-> {}] /\ count = 0

Set(id, row) ==
  table' = [i \in DOMAIN table \cup {id} |-> IF i = id THEN row ELSE table[i]]

Add ==
  /\ \E id \in Ids \ DOMAIN table, row \in Rows : Set(id, row)
  /\ count' = count + 1

Write ==
  /\ \E id \in DOMAIN table, row \in Rows : Set(id, row)
  /\ UNCHANGED count

Delete ==
  /\ \E id \in DOMAIN table : table' = [i \in DOMAIN table \ {id} |-> table[i]]
  /\ count' = count - 1

Next == Add \/ Write \/ Delete

Spec == Init /\ [][Next]_vars
=============================================================================
