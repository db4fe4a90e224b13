------------------------------- MODULE KeySet -------------------------------
(***************************************************************************)
(* What an IndexFile promises: a set of keys, each with the record it       *)
(* stands for.  A key that clashes with one of the set is refused, and so   *)
(* is the deletion of a key that is not there; a search answers with a      *)
(* record of the key, if it has one.                                        *)
(***************************************************************************)
CONSTANT Entries

VARIABLES
  entries,   \* the keys in the index, with their records
  reply,     \* the record the last call was about; {} if it was refused
  isUnique   \* whether its keys are told apart without their records; never changed

vars == <<entries, reply, isUnique>>

Clash(e, f) == e.key = f.key /\ (isUnique \/ e.record = f.record)

Init == entries = {} /\ reply = {} /\ isUnique \in BOOLEAN

Add(e) ==
  IF \E f \in entries : Clash(e, f)
  THEN reply' = {} /\ UNCHANGED entries
  ELSE reply' = {e.record} /\ entries' = entries \cup {e}

Delete(e) ==
  IF e \in entries
  THEN reply' = {e.record} /\ entries' = entries \ {e}
  ELSE reply' = {} /\ UNCHANGED entries

Find(key) ==
  /\ LET records == {e.record : e \in {f \in entries : f.key = key}}
     IN IF records = {} THEN reply' = {} ELSE \E r \in records : reply' = {r}
  /\ UNCHANGED entries

Next ==
  /\ \E e \in Entries : Add(e) \/ Delete(e) \/ Find(e.key)
  /\ UNCHANGED isUnique

Spec == Init /\ [][Next]_vars
=============================================================================
