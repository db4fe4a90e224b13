------------------------ MODULE PageManagerRefinement ------------------------
(***************************************************************************)
(* PageManager implements PageStore: the refinement mapping reads the      *)
(* pages from memory while the process runs, and from the two files alone  *)
(* while it is down or loading.                                            *)
(***************************************************************************)
EXTENDS PageManager

\* The pages of file f according to a metadata file, in the order in which the
\* constructor reads their owners.
Listed(file, f, pages, p) == IF file.owners[p + 1] = f THEN Append(pages, p) ELSE pages
MapIn(file, f) ==
  LET read[n \in 0 .. file.count] ==
        IF n = 0 THEN <<>> ELSE Listed(file, f, read[n - 1], n - 1)
  IN read[file.count]

\* The pages of file f according to the files on disk, as a start finds them.
StoredMap(f) == MapIn(metaFile, f)

MemoryView(f, i) ==
  IF (pc = "deleting" /\ call.file = f) \/ i >= Len(metadata[f]) THEN Zero
  ELSE PageOf(metadata[f][i + 1])

StoredView(f, i) ==
  IF i >= Len(StoredMap(f)) THEN Zero ELSE DiskPage(StoredMap(f)[i + 1])

Shown(f, i) == IF Up THEN MemoryView(f, i) ELSE StoredView(f, i)

View == [f \in Files |-> [i \in FileIds |-> IF crashed THEN Zero ELSE Shown(f, i)]]

Store == INSTANCE PageStore WITH pages <- View, reliable <- ~crashed

\* What a client reads from a page is what was last written there since its
\* file was created, across evictionless caching, background flushing, exits
\* and restarts, and reuse of the pages of deleted files.
StoreSpec == Store!Spec
=============================================================================
