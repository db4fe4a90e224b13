------------------------------ MODULE BlobStore ------------------------------
(***************************************************************************)
(* What BlobManager promises: data kept under handles.  The handle that a   *)
(* blob is given is one that is not in use, and no call changes the blob of *)
(* another handle.                                                          *)
(***************************************************************************)
CONSTANTS Data, Ids

VARIABLE store   \* the data of every handle in use

Init == store = <<>>

addBlob(d) == \E id \in Ids \ DOMAIN store :
  store' = [i \in DOMAIN store \cup {id} |-> IF i = id THEN d ELSE store[i]]
writeBlob(id, d) == store' = [store EXCEPT ![id] = d]
deleteBlob(id) == store' = [i \in DOMAIN store \ {id} |-> store[i]]

\* The end of a process, and a rollback, may take blobs away; which of them is
\* not promised.
Forget == \E ids \in SUBSET DOMAIN store : store' = [i \in ids |-> store[i]]

Next ==
  \/ \E d \in Data : addBlob(d)
  \/ \E id \in DOMAIN store : deleteBlob(id) \/ \E d \in Data : writeBlob(id, d)

Spec == Init /\ [][Next]_store
=============================================================================
