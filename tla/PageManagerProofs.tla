-------------------------- MODULE PageManagerProofs --------------------------
(***************************************************************************)
(* Proofs about PageManager, for any set of files, any bounds, any build   *)
(* of flushOne() and with or without crashes; and that it implements       *)
(* PageStore, for any files, pages and contents, and any kills, if         *)
(* flushOne() says that it wrote a page.                                   *)
(***************************************************************************)
EXTENDS PageManagerRefinement, SequenceTheorems, WellFoundedInduction, TLAPS

-----------------------------------------------------------------------------
(* Facts about the operators the model is built from. *)

\* The elements of a sequence after an append.
LEMMA AppendElements ==
  ASSUME NEW S, NEW s \in Seq(S), NEW e \in S
  PROVE  /\ Append(s, e) \in Seq(S)
         /\ {Append(s, e)[k] : k \in DOMAIN Append(s, e)} = {s[k] : k \in DOMAIN s} \cup {e}
<1>1. Append(s, e) \in Seq(S) /\ Len(Append(s, e)) = Len(s) + 1
  OBVIOUS
<1>2. \A k \in 1 .. Len(s) : Append(s, e)[k] = s[k]
  OBVIOUS
<1>3. Append(s, e)[Len(s) + 1] = e
  OBVIOUS
<1>4. DOMAIN s = 1 .. Len(s) /\ DOMAIN Append(s, e) = 1 .. Len(s) + 1 /\ Len(s) \in Nat
  BY <1>1
<1>5. DOMAIN Append(s, e) = DOMAIN s \cup {Len(s) + 1}
  BY <1>4
<1> QED
  BY <1>1, <1>2, <1>3, <1>4, <1>5

\* Writing a page leaves a big file of pages.
LEMMA DiskAfterWriteType ==
  ASSUME disk \in Seq(Contents), NEW p \in PageIds, NEW page \in Contents
  PROVE  DiskAfterWrite(p, page) \in Seq(Contents)
<1> DEFINE n == IF OnDisk(p) THEN Len(disk) ELSE p + 1
<1>1. n \in Nat
  BY DEF OnDisk, PageIds
<1>2. \A k \in 1 .. n : DiskPage(k - 1) \in Contents
  BY ContentsAssumption DEF DiskPage, OnDisk
<1>3. DiskAfterWrite(p, page) \in [1 .. n -> Contents]
  BY <1>2 DEF DiskAfterWrite
<1> QED
  BY <1>1, <1>3

\* retrieve() leaves a frame that is not absent.
LEMMA FetchedType ==
  ASSUME TypeOK, NEW p \in PageIds
  PROVE  Fetched(p) \in Frames /\ Fetched(p).state # "absent"
<1>1. DiskPage(p) \in Contents
  BY ContentsAssumption DEF TypeOK, DiskPage, OnDisk, PageIds
<1> QED
  BY <1>1 DEF TypeOK, Fetched, Frames

\* A served or a freed frame is put in the cache, and the queue stays typed.
LEMMA PutFrameType ==
  ASSUME TypeOK, NEW p \in PageIds, NEW frame \in Frames, PutFrame(p, frame)
  PROVE  cache' \in [PageIds -> Frames] /\ dirtyQueue' \in Seq(PageIds)
BY DEF TypeOK, PutFrame, QueueAfter

-----------------------------------------------------------------------------
(* Type correctness needs PagePartition: what flushMetadata() records for a *)
(* page is an owner only because every known page has one.                  *)

LEMMA OwnerOfType ==
  ASSUME TypeOK, PagePartition, pc = "owners", NEW p \in 0 .. pageCount - 1
  PROVE  OwnerOf(p) \in Owners
<1>1. p \in Known
  BY DEF Known
<1>2. p \in deletedPages \/ \E f \in Files : p \in Owned(f)
  BY <1>1 DEF PagePartition
<1> QED
  BY <1>2 DEF OwnerOf, Owners

LEMMA TypeStep ==
  ASSUME TypeOK, PagePartition, [Next]_vars
  PROVE  TypeOK'
<1>1. CASE Start
  <2>1. metadata' \in [Files -> Seq(PageIds)] /\ dirtyQueue' \in Seq(PageIds)
    BY <1>1 DEF Start
  <2>2. cache' \in [PageIds -> Frames]
    BY <1>1, ContentsAssumption DEF Start, Frames, Absent
  <2>3. pageCount' \in 0 .. MaxPages /\ loaded' \in 0 .. MaxPages /\ loaded' <= pageCount'
    BY <1>1, BoundsAssumption DEF TypeOK, Start
  <2> QED
    BY <1>1, <2>1, <2>2, <2>3 DEF TypeOK, Start, diskVars
<1>2. CASE LoadPage
  <2>1. loaded \in PageIds /\ loaded + 1 \in 0 .. MaxPages /\ loaded + 1 <= pageCount
    BY <1>2, BoundsAssumption DEF TypeOK, LoadPage, PagesLeft, PageIds
  <2>2. metadata' \in [Files -> Seq(PageIds)]
    BY <1>2, <2>1 DEF TypeOK, LoadPage, PagesLeft
  <2>3. deletedPages' \in SUBSET PageIds
    BY <1>2, <2>1 DEF TypeOK, LoadPage, PagesLeft
  <2> QED
    BY <1>2, <2>1, <2>2, <2>3 DEF TypeOK, LoadPage, PagesLeft, cacheVars, diskVars
<1>3. CASE LoadDone
  BY <1>3 DEF TypeOK, LoadDone, fileVars, cacheVars, diskVars, runVars
<1>4. ASSUME NEW op \in {"read", "write"}, NEW f \in Files, NEW i \in FileIds,
             NEW v \in Contents, Request(op, f, i, v)
      PROVE  TypeOK'
  <2>1. call' \in Calls
    BY <1>4 DEF Request, Calls, FileIds
  <2> QED
    BY <1>4, <2>1 DEF TypeOK, Request, fileVars, cacheVars, diskVars, runVars
<1>5. ASSUME NEW f \in Files, DeleteFile(f)
      PROVE  TypeOK'
  <2>1. call' \in Calls /\ call'.id = 0 /\ call'.file = f
    BY <1>5, ContentsAssumption DEF DeleteFile, Calls
  <2>2. 0 <= Len(metadata[f])
    BY DEF TypeOK
  <2> QED
    BY <1>5, <2>1, <2>2 DEF TypeOK, DeleteFile, fileVars, cacheVars, diskVars, runVars
<1>6. CASE EndStatement \/ InputArrives
  BY <1>6 DEF TypeOK, EndStatement, InputArrives, fileVars, cacheVars, diskVars, runVars
<1>7. CASE ExtendFile
  <2>1. PICK p \in PageIds : /\ getFreePage(call.file, p)
                             /\ metadata' = [metadata EXCEPT ![call.file] = Append(@, p)]
    BY <1>7 DEF ExtendFile
  <2>2. call \in Calls
    BY <1>7 DEF TypeOK, ExtendFile
  <2>3. metadata' \in [Files -> Seq(PageIds)]
    BY <2>1, <2>2 DEF TypeOK, Calls
  <2>4. deletedPages' \in SUBSET PageIds
    BY <2>1 DEF TypeOK, getFreePage
  <2>5. pageCount' \in 0 .. MaxPages
    <3>1. CASE p = pageCount /\ pageCount' = pageCount + 1
      BY <3>1, BoundsAssumption DEF TypeOK, PageIds
    <3>2. CASE UNCHANGED pageCount
      BY <3>2 DEF TypeOK
    <3> QED
      BY <2>1, <3>1, <3>2 DEF getFreePage
  <2> QED
    BY <1>7, <2>3, <2>4, <2>5 DEF TypeOK, ExtendFile, MarkUpdated, cacheVars, diskVars, runVars
<1>8. CASE ExtendFileAborts \/ Crash
  BY <1>8 DEF TypeOK, ExtendFileAborts, Crash, Dies, fileVars, cacheVars, diskVars, NoCall
<1>9. CASE ServePage
  <2>1. call \in Calls /\ TruePage \in PageIds
    BY <1>9 DEF TypeOK, ServePage, TruePage, Calls
  <2>2. ServedFrame \in Frames
    BY <2>1, FetchedType DEF ServedFrame, Frames, Calls
  <2>3. cache' \in [PageIds -> Frames] /\ dirtyQueue' \in Seq(PageIds)
    BY <1>9, <2>1, <2>2, PutFrameType DEF ServePage
  <2> QED
    BY <1>9, <2>3 DEF TypeOK, ServePage, fileVars, diskVars, runVars
<1>10. CASE DeletePage
  <2>1. /\ call \in Calls
        /\ TruePage \in PageIds
        /\ call.id + 1 <= Len(metadata[call.file])
    BY <1>10 DEF TypeOK, DeletePage, TruePage, Calls
  <2>2. ZeroedFrame \in Frames
    BY ContentsAssumption DEF ZeroedFrame, Frames
  <2>3. cache' \in [PageIds -> Frames] /\ dirtyQueue' \in Seq(PageIds)
    BY <1>10, <2>1, <2>2, PutFrameType DEF DeletePage
  <2>4. call' \in Calls /\ call'.id = call.id + 1 /\ call'.file = call.file
    BY <1>10, <2>1 DEF DeletePage, Calls
  <2>5. deletedPages' \in SUBSET PageIds
    BY <1>10, <2>1 DEF TypeOK, DeletePage
  <2> QED
    BY <1>10, <2>1, <2>3, <2>4, <2>5 DEF TypeOK, DeletePage, diskVars, runVars
<1>11. CASE DeleteDone
  <2>1. <<>> \in Seq(PageIds)
    OBVIOUS
  <2>2. metadata' \in [Files -> Seq(PageIds)]
    BY <1>11, <2>1 DEF TypeOK, DeleteDone
  <2> QED
    BY <1>11, <2>2 DEF TypeOK, DeleteDone, MarkUpdated, cacheVars, diskVars, runVars
<1>12. CASE FlushOne
  <2> DEFINE p == Head(dirtyQueue)
  <2>1. p \in PageIds /\ Tail(dirtyQueue) \in Seq(PageIds)
    BY <1>12 DEF TypeOK, FlushOne, QueueEmpty
  <2>2. cache[p].page \in Contents /\ cache' \in [PageIds -> Frames]
    BY <1>12, <2>1 DEF TypeOK, FlushOne, Frames
  <2>3. disk' \in Seq(Contents)
    BY <1>12, <2>1, <2>2, DiskAfterWriteType DEF TypeOK, FlushOne
  <2>4. pc' \in {"flushing", "header"}
    BY <1>12 DEF FlushOne
  <2> QED
    BY <1>12, <2>1, <2>2, <2>3, <2>4 DEF TypeOK, FlushOne, fileVars, runVars
<1>13. CASE NothingToFlush \/ MetadataUpToDate
  BY <1>13
     DEF TypeOK, NothingToFlush, MetadataUpToDate, Flushed, fileVars, cacheVars, diskVars, runVars
<1>14. CASE FlushHeader
  BY <1>14 DEF TypeOK, FlushHeader, fileVars, cacheVars, runVars
<1>15. CASE FlushOwners
  <2>1. [k \in 1 .. pageCount |-> OwnerOf(k - 1)] \in Seq(Owners)
    <3>1. \A k \in 1 .. pageCount : OwnerOf(k - 1) \in Owners
      BY <1>15, OwnerOfType DEF FlushOwners, TypeOK
    <3> QED
      BY <3>1 DEF TypeOK
  <2>2. metaFile' \in [count : 0 .. MaxPages, owners : Seq(Owners)]
    BY <1>15, <2>1 DEF TypeOK, FlushOwners
  <2> QED
    BY <1>15, <2>2 DEF TypeOK, FlushOwners, Flushed, cacheVars, runVars
<1>16. CASE UNCHANGED vars
  BY <1>16 DEF TypeOK, vars, fileVars, cacheVars, diskVars, runVars
<1> QED
  BY <1>1, <1>2, <1>3, <1>4, <1>5, <1>6, <1>7, <1>8, <1>9, <1>10, <1>11, <1>12,
     <1>13, <1>14, <1>15, <1>16, ContentsAssumption
     DEF Next, Load, Client, Serve, Flush

-----------------------------------------------------------------------------
(* The pages partition. *)

LEMMA InitMaps == Init => TypeOK /\ PagePartition /\ AscendingMaps
<1> SUFFICES ASSUME Init PROVE TypeOK /\ PagePartition /\ AscendingMaps
  OBVIOUS
<1>1. cache \in [PageIds -> Frames]
  BY ContentsAssumption DEF Init, Frames, Absent
<1>2. metaFile \in [count : 0 .. MaxPages, owners : Seq(Owners)]
  BY BoundsAssumption DEF Init
<1>3. metadata \in [Files -> Seq(PageIds)] /\ dirtyQueue \in Seq(PageIds) /\ disk \in Seq(Contents)
  BY DEF Init
<1>4. TypeOK
  BY <1>1, <1>2, <1>3, BoundsAssumption DEF Init, TypeOK
<1> QED
  BY <1>4 DEF Init, PagePartition, AscendingMaps

\* A page appended to the map of file g joins its pages and no others.
LEMMA OwnedAfterAppend ==
  ASSUME TypeOK, NEW g \in Files, NEW p \in PageIds,
         \A f \in Files : metadata'[f] = IF f = g THEN Append(metadata[f], p) ELSE metadata[f]
  PROVE  /\ Owned(g)' = Owned(g) \cup {p}
         /\ \A f \in Files : f # g => Owned(f)' = Owned(f)
<1>1. metadata[g] \in Seq(PageIds) /\ metadata'[g] = Append(metadata[g], p)
  BY DEF TypeOK
<1>2. Owned(g)' = Owned(g) \cup {p}
  BY <1>1, AppendElements DEF Owned
<1> QED
  BY <1>2 DEF Owned

\* A page above every page of a map keeps the map ascending.
LEMMA AscendingAfterAppend ==
  ASSUME NEW s \in Seq(PageIds), NEW p \in PageIds,
         \A j, k \in DOMAIN s : j < k => s[j] < s[k],
         \A k \in DOMAIN s : s[k] < p
  PROVE  \A j, k \in DOMAIN Append(s, p) : j < k => Append(s, p)[j] < Append(s, p)[k]
<1> SUFFICES ASSUME NEW j \in 1 .. Len(s) + 1, NEW k \in 1 .. Len(s) + 1, j < k
             PROVE  Append(s, p)[j] < Append(s, p)[k]
  BY DEF PageIds
<1>1. Len(s) \in Nat /\ DOMAIN s = 1 .. Len(s)
  OBVIOUS
<1>2. j \in DOMAIN s /\ Append(s, p)[j] = s[j]
  BY <1>1
<1>3. CASE k \in DOMAIN s
  BY <1>1, <1>2, <1>3
<1>4. CASE k = Len(s) + 1
  BY <1>2, <1>4
<1> QED
  BY <1>1, <1>3, <1>4

LEMMA PartitionStep ==
  ASSUME TypeOK, PagePartition, AscendingMaps, [Next]_vars
  PROVE  PagePartition' /\ AscendingMaps'
<1> DEFINE Used == UNION {Owned(f) : f \in Files}
<1>1. CASE Start
  BY <1>1 DEF Start, PagePartition, AscendingMaps, Owned, BeingFreed, Known
<1>2. CASE LoadPage
  <2>1. PICK owner \in Owners :
          /\ deletedPages' = deletedPages \cup (IF owner = DELETED THEN {loaded} ELSE {})
          /\ metadata' = [f \in Files |->
                            IF f = owner THEN Append(metadata[f], loaded) ELSE metadata[f]]
    BY <1>2 DEF LoadPage, PagesLeft
  <2>2. /\ pc = "loading" /\ pc' = "loading" /\ loaded' = loaded + 1
        /\ loaded \in PageIds
        /\ Known = 0 .. loaded - 1 /\ Known' = Known \cup {loaded} /\ loaded \notin Known
        /\ BeingFreed = {} /\ BeingFreed' = {}
    BY <1>2, BoundsAssumption DEF LoadPage, PagesLeft, TypeOK, Known, BeingFreed, PageIds
  <2>3. CASE owner = DELETED
    <3>1. metadata' = metadata
      BY <2>1, <2>3, FilesAssumption DEF TypeOK
    <3>2. \A f \in Files : Owned(f)' = Owned(f)
      BY <3>1 DEF Owned
    <3> QED
      BY <2>1, <2>2, <2>3, <3>1, <3>2 DEF PagePartition, AscendingMaps
  <2>4. CASE owner \in Files
    <3>1. deletedPages' = deletedPages
      BY <2>1, <2>4, FilesAssumption
    <3>2. /\ Owned(owner)' = Owned(owner) \cup {loaded}
          /\ \A f \in Files : f # owner => Owned(f)' = Owned(f)
      BY <2>1, <2>2, <2>4, OwnedAfterAppend
    <3>3. \A f \in Files : Owned(f) \subseteq Known
      BY <2>2 DEF PagePartition
    <3>4. PagePartition'
      BY <2>2, <2>4, <3>1, <3>2, <3>3 DEF PagePartition
    <3>5. \A k \in DOMAIN metadata[owner] : metadata[owner][k] < loaded
      <4>1. \A q \in Known : q < loaded
        BY <2>2 DEF TypeOK
      <4>2. \A k \in DOMAIN metadata[owner] : metadata[owner][k] \in Known
        BY <2>4, <3>3 DEF Owned
      <4> QED
        BY <4>1, <4>2
    <3>6. AscendingMaps'
      BY <2>1, <2>2, <2>4, <3>5, AscendingAfterAppend DEF AscendingMaps, TypeOK
    <3> QED
      BY <3>4, <3>6
  <2> QED
    BY <2>3, <2>4 DEF Owners
<1>3. CASE ExtendFile
  <2>0. PICK g \in Files : g = call.file
    BY <1>3 DEF ExtendFile, TypeOK, Calls
  <2>1. PICK p \in PageIds : /\ getFreePage(g, p)
                             /\ metadata' = [metadata EXCEPT ![g] = Append(@, p)]
    BY <1>3, <2>0 DEF ExtendFile
  <2>2. /\ pc = "retrieving" /\ pc' = "retrieving"
        /\ Known = 0 .. pageCount - 1 /\ Known' = 0 .. pageCount' - 1
        /\ BeingFreed = {} /\ BeingFreed' = {}
    BY <1>3 DEF ExtendFile, TypeOK, Calls, Known, BeingFreed
  <2>3. \A f \in Files :
          metadata'[f] = IF f = g THEN Append(metadata[f], p) ELSE metadata[f]
    BY <2>1, <2>2 DEF TypeOK
  <2>4. /\ Owned(g)' = Owned(g) \cup {p}
        /\ \A f \in Files : f # g => Owned(f)' = Owned(f)
    BY <2>3, OwnedAfterAppend
  <2>5. /\ \A f \in Files : p \notin Owned(f)
        /\ \A q \in Owned(g) : q < p
        /\ p \notin deletedPages'
        /\ deletedPages' \subseteq deletedPages
        /\ deletedPages' \cup Used \cup {p} = Known'
    <3>1. CASE deletedPages = {} /\ p = pageCount /\ pageCount' = pageCount + 1 /\ UNCHANGED deletedPages
      <4>1. Known' = Known \cup {p} /\ p \notin Known
        BY <2>2, <3>1 DEF TypeOK
      <4>2. \A q \in Known : q < p
        BY <2>2, <3>1 DEF TypeOK
      <4>3. \A f \in Files : Owned(f) \subseteq Known
        BY <2>2 DEF PagePartition
      <4> QED
        BY <2>2, <3>1, <4>1, <4>2, <4>3 DEF PagePartition
    <3>2. CASE p \in Reusable(g) /\ deletedPages' = deletedPages \ {p} /\ UNCHANGED pageCount
      BY <2>2, <3>2 DEF PagePartition, Reusable
    <3> QED
      BY <2>1, <3>1, <3>2 DEF getFreePage
  <2>6. PagePartition'
    <3>1. \A f, h \in Files : f # h => Owned(f)' \cap Owned(h)' = {}
      BY <2>2, <2>4, <2>5 DEF PagePartition
    <3>2. \A f \in Files : Owned(f)' \cap deletedPages' \subseteq BeingFreed'
      BY <2>2, <2>4, <2>5 DEF PagePartition
    <3>3. UNION {Owned(f)' : f \in Files} = Used \cup {p}
      BY <2>2, <2>4
    <3> QED
      BY <2>2, <2>5, <3>1, <3>2, <3>3 DEF PagePartition
  <2>7. \A k \in DOMAIN metadata[g] : metadata[g][k] < p
    BY <2>5 DEF Owned
  <2>8. AscendingMaps'
    BY <2>2, <2>3, <2>7, AscendingAfterAppend DEF AscendingMaps, TypeOK
  <2> QED
    BY <2>6, <2>8
<1>4. CASE DeletePage
  <2>0. PICK g \in Files : g = call.file
    BY <1>4 DEF DeletePage, TypeOK, Calls
  <2>1. /\ pc = "deleting" /\ pc' = "deleting"
        /\ metadata' = metadata /\ pageCount' = pageCount
        /\ call'.file = g /\ call'.id = call.id + 1 /\ call.id \in Nat
        /\ call.id + 1 \in DOMAIN metadata[g]
        /\ deletedPages' = deletedPages \cup {TruePage}
    BY <1>4, <2>0 DEF DeletePage, TypeOK, Calls
  <2>2. \A f \in Files : Owned(f)' = Owned(f)
    BY <2>1 DEF Owned
  <2>3. BeingFreed' = BeingFreed \cup {TruePage}
    <3>1. 1 .. call.id + 1 = (1 .. call.id) \cup {call.id + 1}
      BY <2>1
    <3>2. BeingFreed' = {metadata[g][k] : k \in 1 .. call.id + 1}
      BY <2>1 DEF BeingFreed
    <3>3. BeingFreed = {metadata[g][k] : k \in 1 .. call.id}
      BY <2>0, <2>1 DEF BeingFreed
    <3> QED
      BY <2>0, <3>1, <3>2, <3>3 DEF TruePage
  <2>4. TruePage \in Owned(g)
    BY <2>0, <2>1 DEF Owned, TruePage
  <2>5. Known' = Known
    BY <2>1 DEF Known
  <2> QED
    BY <2>1, <2>2, <2>3, <2>4, <2>5 DEF PagePartition, AscendingMaps
<1>5. CASE DeleteDone
  <2>0. PICK g \in Files : g = call.file
    BY <1>5 DEF DeleteDone, TypeOK, Calls
  <2>1. /\ pc = "deleting" /\ pc' = "serving"
        /\ metadata' = [metadata EXCEPT ![g] = <<>>]
        /\ deletedPages' = deletedPages /\ pageCount' = pageCount
        /\ call.id = Len(metadata[g])
    BY <1>5, <2>0 DEF DeleteDone, TypeOK, Calls
  <2>2. BeingFreed = Owned(g)
    BY <2>0, <2>1 DEF BeingFreed, Owned, TypeOK
  <2>3. BeingFreed' = {} /\ Known' = Known
    BY <2>1 DEF BeingFreed, Known
  <2>4. Owned(g)' = {} /\ \A f \in Files : f # g => Owned(f)' = Owned(f)
    BY <2>1 DEF Owned, TypeOK
  <2>5. PagePartition'
    <3>1. \A f, h \in Files : f # h => Owned(f)' \cap Owned(h)' = {}
      BY <2>1, <2>4 DEF PagePartition
    <3>2. \A f \in Files : Owned(f)' \cap deletedPages' = {}
      BY <2>1, <2>2, <2>4 DEF PagePartition
    <3>3. Used = Owned(g) \cup UNION {Owned(f)' : f \in Files}
      BY <2>1, <2>4
    <3>4. Owned(g) \subseteq deletedPages
      BY <2>1, <2>2 DEF PagePartition
    <3> QED
      BY <2>1, <2>3, <3>1, <3>2, <3>3, <3>4 DEF PagePartition
  <2>6. AscendingMaps'
    <3>1. \A f \in Files : metadata'[f] = IF f = g THEN <<>> ELSE metadata[f]
      BY <2>1 DEF TypeOK
    <3> QED
      BY <2>1, <3>1 DEF AscendingMaps
  <2> QED
    BY <2>5, <2>6
<1>6. ASSUME UNCHANGED <<metadata, deletedPages, pageCount>>,
             BeingFreed' = BeingFreed,
             pc # "down",
             pc' # "down" => Known' = Known
      PROVE  PagePartition' /\ AscendingMaps'
  <2>1. \A f \in Files : Owned(f)' = Owned(f)
    BY <1>6 DEF Owned
  <2> QED
    BY <1>6, <2>1 DEF PagePartition, AscendingMaps
<1>7. CASE LoadDone
  <2>1. pc = "loading" /\ pc' = "serving" /\ Known' = Known /\ BeingFreed' = BeingFreed
    BY <1>7 DEF LoadDone, Known, BeingFreed, fileVars
  <2> QED
    BY <1>6, <1>7, <2>1 DEF LoadDone, fileVars
<1>8. ASSUME NEW op, NEW f \in Files, NEW i \in FileIds, NEW v, Request(op, f, i, v)
      PROVE  PagePartition' /\ AscendingMaps'
  BY <1>6, <1>8 DEF Request, Known, BeingFreed, fileVars
<1>9. ASSUME NEW f \in Files, DeleteFile(f)
      PROVE  PagePartition' /\ AscendingMaps'
  BY <1>6, <1>9 DEF DeleteFile, Known, BeingFreed, fileVars
<1>10. CASE EndStatement \/ InputArrives
  BY <1>6, <1>10 DEF EndStatement, InputArrives, Known, BeingFreed, fileVars
<1>11. CASE ServePage
  BY <1>6, <1>11 DEF ServePage, Known, BeingFreed, fileVars
<1>12. CASE ExtendFileAborts \/ Crash
  BY <1>12 DEF ExtendFileAborts, Crash, Dies, fileVars, PagePartition, AscendingMaps
<1>13. CASE FlushOne
  BY <1>6, <1>13 DEF FlushOne, Known, BeingFreed, fileVars
<1>14. CASE NothingToFlush \/ MetadataUpToDate
  BY <1>6, <1>14 DEF NothingToFlush, MetadataUpToDate, Flushed, Known, BeingFreed, fileVars
<1>15. CASE FlushHeader \/ FlushOwners
  BY <1>6, <1>15 DEF FlushHeader, FlushOwners, Flushed, Known, BeingFreed, fileVars
<1>16. CASE UNCHANGED vars
  <2>1. CASE pc = "down"
    BY <1>16, <2>1 DEF vars, PagePartition, AscendingMaps
  <2>2. CASE pc # "down"
    BY <1>6, <1>16, <2>2 DEF vars, fileVars, runVars, BeingFreed, Known
  <2> QED
    BY <2>1, <2>2
<1> QED
  BY <1>1, <1>2, <1>3, <1>4, <1>5, <1>7, <1>8, <1>9, <1>10, <1>11, <1>12,
     <1>13, <1>14, <1>15, <1>16
     DEF Next, Load, Client, Serve, Flush

\* The inductive invariant of the file maps.
MapsInv == TypeOK /\ PagePartition /\ AscendingMaps

THEOREM MapsInvariant == Spec => []MapsInv
<1>1. Init => MapsInv
  BY InitMaps DEF MapsInv
<1>2. MapsInv /\ [Next]_vars => MapsInv'
  BY TypeStep, PartitionStep DEF MapsInv
<1> QED
  BY <1>1, <1>2, PTL DEF Spec

\* Every variable keeps its type, for files and bounds of any size.
THEOREM TypeCorrect == Spec => []TypeOK
<1>1. MapsInv => TypeOK
  BY DEF MapsInv
<1> QED
  BY <1>1, MapsInvariant, PTL

\* No page of the big file ever belongs to two files, is in use while free, or
\* leaks, whatever crashes happen between the two writes of flushMetadata().
THEOREM PagesPartition == Spec => []PagePartition
<1>1. MapsInv => PagePartition
  BY DEF MapsInv
<1> QED
  BY <1>1, MapsInvariant, PTL

\* The order of every file's pages is the order of page numbers, so a metadata
\* file that keeps only owners loses nothing.
THEOREM MapsAscend == Spec => []AscendingMaps
<1>1. MapsInv => AscendingMaps
  BY DEF MapsInv
<1> QED
  BY <1>1, MapsInvariant, PTL

-----------------------------------------------------------------------------
(* The write-back cache. *)

WriteBack == DirtyExactlyQueued /\ CleanOnDisk

\* Replacing a frame keeps the queue exact if a dirty frame stays dirty, and
\* the clean frames on disk if a frame that ends clean is what the disk holds.
LEMMA PutFrameWriteBack ==
  ASSUME TypeOK, WriteBack, pc # "down", pc' # "down",
         NEW p \in PageIds, NEW frame \in Frames, PutFrame(p, frame),
         cache[p].state = "dirty" => frame.state = "dirty",
         frame.state = "clean" => OnDisk(p) /\ disk[p + 1] = frame.page,
         UNCHANGED disk
  PROVE  WriteBack'
<1>1. /\ cache' = [cache EXCEPT ![p] = frame]
      /\ cache \in [PageIds -> Frames]
      /\ dirtyQueue \in Seq(PageIds)
  BY DEF PutFrame, TypeOK
<1>2. CleanOnDisk'
  BY <1>1 DEF WriteBack, CleanOnDisk, OnDisk
<1>3. CASE frame.state = "dirty" /\ cache[p].state # "dirty"
  <2>1. dirtyQueue' = Append(dirtyQueue, p)
    BY <1>3 DEF PutFrame, QueueAfter
  <2>2. \A k \in 1 .. Len(dirtyQueue) : dirtyQueue[k] # p
    BY <1>1, <1>3 DEF WriteBack, DirtyExactlyQueued
  <2>3. /\ DOMAIN dirtyQueue' = 1 .. Len(dirtyQueue) + 1
        /\ \A k \in 1 .. Len(dirtyQueue) : dirtyQueue'[k] = dirtyQueue[k]
        /\ dirtyQueue'[Len(dirtyQueue) + 1] = p
        /\ DOMAIN dirtyQueue = 1 .. Len(dirtyQueue) /\ Len(dirtyQueue) \in Nat
    BY <1>1, <2>1
  <2>4. \A j, k \in DOMAIN dirtyQueue' : dirtyQueue'[j] = dirtyQueue'[k] => j = k
    BY <2>2, <2>3 DEF WriteBack, DirtyExactlyQueued
  <2>5. ASSUME NEW q \in PageIds
        PROVE  cache'[q].state = "dirty" <=> \E k \in DOMAIN dirtyQueue' : dirtyQueue'[k] = q
    <3>1. CASE q = p
      BY <1>1, <1>3, <2>3, <3>1
    <3>2. CASE q # p
      BY <1>1, <2>3, <3>2 DEF WriteBack, DirtyExactlyQueued
    <3> QED
      BY <3>1, <3>2
  <2> QED
    BY <1>2, <2>4, <2>5 DEF WriteBack, DirtyExactlyQueued
<1>4. CASE ~(frame.state = "dirty" /\ cache[p].state # "dirty")
  <2>1. dirtyQueue' = dirtyQueue
    BY <1>4 DEF PutFrame, QueueAfter
  <2>2. \A q \in PageIds : cache'[q].state = "dirty" <=> cache[q].state = "dirty"
    BY <1>1, <1>4
  <2> QED
    BY <1>2, <2>1, <2>2 DEF WriteBack, DirtyExactlyQueued
<1> QED
  BY <1>3, <1>4

\* Writing page p leaves the other pages of the big file as they were, and p
\* within it.
LEMMA DiskAfterWritePages ==
  ASSUME disk \in Seq(Contents), NEW p \in PageIds, NEW page \in Contents
  PROVE  /\ p < Len(DiskAfterWrite(p, page))
         /\ DiskAfterWrite(p, page)[p + 1] = page
         /\ Len(disk) <= Len(DiskAfterWrite(p, page))
         /\ \A q \in PageIds : q # p /\ q < Len(disk) =>
              DiskAfterWrite(p, page)[q + 1] = disk[q + 1]
<1> DEFINE n == IF OnDisk(p) THEN Len(disk) ELSE p + 1
<1>1. n \in Nat /\ p < n /\ Len(disk) <= n /\ Len(disk) \in Nat
  BY DEF OnDisk, PageIds
<1>2. DiskAfterWrite(p, page) = [k \in 1 .. n |-> IF k = p + 1 THEN page ELSE DiskPage(k - 1)]
  BY DEF DiskAfterWrite
<1>3. Len(DiskAfterWrite(p, page)) = n
  BY <1>1, <1>2
<1>4. p + 1 \in 1 .. n /\ \A q \in PageIds : q < Len(disk) => q + 1 \in 1 .. n
  BY <1>1 DEF PageIds
<1>5. \A q \in PageIds : q # p /\ q < Len(disk) => DiskAfterWrite(p, page)[q + 1] = disk[q + 1]
  <2> SUFFICES ASSUME NEW q \in PageIds, q # p, q < Len(disk)
               PROVE  DiskAfterWrite(p, page)[q + 1] = disk[q + 1]
    OBVIOUS
  <2>1. q + 1 # p + 1 /\ (q + 1) - 1 = q
    BY DEF PageIds
  <2> QED
    BY <1>2, <1>4, <2>1 DEF DiskPage, OnDisk
<1> QED
  BY <1>1, <1>2, <1>3, <1>4, <1>5

LEMMA WriteBackStep ==
  ASSUME TypeOK, WriteBack, [Next]_vars
  PROVE  WriteBack'
<1>1. CASE Start
  BY <1>1 DEF Start, WriteBack, DirtyExactlyQueued, CleanOnDisk, Absent
<1>2. CASE ServePage
  <2>1. PICK p \in PageIds : p = TruePage
    BY <1>2 DEF TypeOK, ServePage, TruePage, Calls
  <2>2. call \in Calls /\ pc # "down" /\ pc' # "down"
    BY <1>2 DEF TypeOK, ServePage
  <2>3. PICK frame \in Frames : frame = ServedFrame
    BY <2>1, <2>2, FetchedType DEF ServedFrame, Frames, Calls
  <2>4. cache[p].state = "dirty" => frame.state = "dirty"
    BY <2>1, <2>3 DEF ServedFrame, Fetched
  <2>5. frame.state = "clean" => OnDisk(p) /\ disk[p + 1] = frame.page
    BY <2>1, <2>2, <2>3 DEF ServedFrame, Fetched, DiskPage, TypeOK, Frames, WriteBack, CleanOnDisk
  <2> QED
    BY <1>2, <2>1, <2>2, <2>3, <2>4, <2>5, PutFrameWriteBack DEF ServePage, diskVars
<1>3. CASE DeletePage
  <2>1. PICK p \in PageIds : p = TruePage
    BY <1>3 DEF TypeOK, DeletePage, TruePage, Calls
  <2>2. PICK frame \in Frames : frame = ZeroedFrame
    BY ContentsAssumption DEF ZeroedFrame, Frames
  <2>3. frame.state = "dirty" /\ pc # "down" /\ pc' # "down"
    BY <1>3, <2>2 DEF DeletePage, ZeroedFrame
  <2> QED
    BY <1>3, <2>1, <2>2, <2>3, PutFrameWriteBack DEF DeletePage, diskVars
<1>4. CASE FlushOne
  <2>1. PICK p \in PageIds : p = Head(dirtyQueue)
    BY <1>4 DEF TypeOK, FlushOne, QueueEmpty
  <2>2. /\ pc = "flushing"
        /\ dirtyQueue \in Seq(PageIds) /\ dirtyQueue # <<>>
        /\ dirtyQueue' = Tail(dirtyQueue)
        /\ cache' = [cache EXCEPT ![p].state = "clean"]
        /\ cache \in [PageIds -> Frames]
        /\ disk' = DiskAfterWrite(p, cache[p].page)
        /\ cache[p].page \in Contents
    BY <1>4, <2>1 DEF TypeOK, FlushOne, QueueEmpty, Frames
  <2>3. /\ Len(dirtyQueue) \in Nat \ {0} /\ dirtyQueue[1] = p
        /\ DOMAIN dirtyQueue = 1 .. Len(dirtyQueue)
        /\ DOMAIN dirtyQueue' = 1 .. Len(dirtyQueue) - 1
        /\ \A k \in 1 .. Len(dirtyQueue) - 1 : dirtyQueue'[k] = dirtyQueue[k + 1]
    BY <2>1, <2>2
  <2>4. \A j, k \in DOMAIN dirtyQueue : dirtyQueue[j] = dirtyQueue[k] => j = k
    BY <2>2 DEF WriteBack, DirtyExactlyQueued
  <2>5. \A j, k \in DOMAIN dirtyQueue' : dirtyQueue'[j] = dirtyQueue'[k] => j = k
    <3> SUFFICES ASSUME NEW j \in 1 .. Len(dirtyQueue) - 1, NEW k \in 1 .. Len(dirtyQueue) - 1,
                        dirtyQueue'[j] = dirtyQueue'[k]
                 PROVE  j = k
      BY <2>3
    <3>1. j + 1 \in DOMAIN dirtyQueue /\ k + 1 \in DOMAIN dirtyQueue
      BY <2>3
    <3>2. dirtyQueue[j + 1] = dirtyQueue[k + 1]
      BY <2>3
    <3>3. j + 1 = k + 1
      BY <2>4, <3>1, <3>2
    <3> QED
      BY <3>3
  <2>6. ASSUME NEW q \in PageIds
        PROVE  cache'[q].state = "dirty" <=> \E k \in DOMAIN dirtyQueue' : dirtyQueue'[k] = q
    <3>1. CASE q = p
      <4>1. cache'[q].state # "dirty"
        BY <2>2, <3>1 DEF Frames
      <4>2. \A k \in DOMAIN dirtyQueue' : dirtyQueue'[k] # q
        BY <2>3, <2>4, <3>1
      <4> QED
        BY <4>1, <4>2
    <3>2. CASE q # p
      <4>1. cache'[q] = cache[q]
        BY <2>2, <3>2
      <4>2. (\E k \in DOMAIN dirtyQueue : dirtyQueue[k] = q)
              <=> (\E k \in DOMAIN dirtyQueue' : dirtyQueue'[k] = q)
        <5>1. ASSUME NEW k \in DOMAIN dirtyQueue, dirtyQueue[k] = q
              PROVE  \E j \in DOMAIN dirtyQueue' : dirtyQueue'[j] = q
          <6>1. k # 1 /\ k - 1 \in DOMAIN dirtyQueue' /\ dirtyQueue'[k - 1] = q
            BY <2>3, <3>2, <5>1
          <6> QED
            BY <6>1
        <5>2. ASSUME NEW k \in DOMAIN dirtyQueue', dirtyQueue'[k] = q
              PROVE  \E j \in DOMAIN dirtyQueue : dirtyQueue[j] = q
          BY <2>3, <5>2
        <5> QED
          BY <5>1, <5>2
      <4>3. cache[q].state = "dirty" <=> \E k \in DOMAIN dirtyQueue : dirtyQueue[k] = q
        BY <2>2 DEF WriteBack, DirtyExactlyQueued
      <4> QED
        BY <4>1, <4>2, <4>3
    <3> QED
      BY <3>1, <3>2
  <2>7. DirtyExactlyQueued'
    BY <2>5, <2>6 DEF DirtyExactlyQueued
  <2>8. ASSUME NEW q \in PageIds, cache'[q].state = "clean"
        PROVE  q < Len(disk') /\ disk'[q + 1] = cache'[q].page
    <3>1. disk \in Seq(Contents)
      BY DEF TypeOK
    <3>2. CASE q = p
      BY <2>2, <3>1, <3>2, DiskAfterWritePages DEF Frames
    <3>3. CASE q # p
      <4>1. cache[q].state = "clean" /\ cache'[q] = cache[q]
        BY <2>2, <2>8, <3>3
      <4>2. q < Len(disk) /\ disk[q + 1] = cache[q].page
        BY <2>2, <4>1 DEF WriteBack, CleanOnDisk, OnDisk
      <4>3. Len(disk) \in Nat /\ disk' \in Seq(Contents)
        BY <2>2, <3>1, DiskAfterWriteType
      <4>4. Len(disk) <= Len(disk') /\ disk'[q + 1] = disk[q + 1]
        BY <2>2, <3>1, <3>3, <4>2, DiskAfterWritePages
      <4> QED
        BY <4>1, <4>2, <4>3, <4>4 DEF PageIds
    <3> QED
      BY <3>2, <3>3
  <2> QED
    BY <2>7, <2>8 DEF WriteBack, CleanOnDisk, OnDisk
<1>5. ASSUME UNCHANGED <<cacheVars, disk>>, pc # "down" \/ pc' = "down"
      PROVE  WriteBack'
  BY <1>5 DEF cacheVars, WriteBack, DirtyExactlyQueued, CleanOnDisk, OnDisk
<1>6. CASE LoadPage \/ LoadDone \/ ExtendFile \/ ExtendFileAborts \/ DeleteDone
  BY <1>5, <1>6
     DEF LoadPage, PagesLeft, LoadDone, ExtendFile, ExtendFileAborts, Dies, DeleteDone, diskVars
<1>7. CASE EndStatement \/ InputArrives \/ Crash
  BY <1>5, <1>7 DEF EndStatement, InputArrives, Crash, Dies, diskVars
<1>8. ASSUME NEW op, NEW f, NEW i, NEW v, Request(op, f, i, v) \/ DeleteFile(f)
      PROVE  WriteBack'
  BY <1>5, <1>8 DEF Request, DeleteFile, diskVars
<1>9. CASE NothingToFlush \/ MetadataUpToDate \/ FlushHeader \/ FlushOwners
  BY <1>5, <1>9 DEF NothingToFlush, MetadataUpToDate, FlushHeader, FlushOwners, diskVars
<1>10. CASE UNCHANGED vars
  BY <1>5, <1>10 DEF vars, diskVars
<1> QED
  BY <1>1, <1>2, <1>3, <1>4, <1>6, <1>7, <1>8, <1>9, <1>10
     DEF Next, Load, Client, Serve, Flush

THEOREM WriteBackInvariant == Spec => []WriteBack
<1>1. Init => WriteBack
  BY DEF Init, WriteBack, DirtyExactlyQueued, CleanOnDisk
<1>2. TypeOK /\ WriteBack /\ [Next]_vars => WriteBack'
  BY WriteBackStep
<1> QED
  BY <1>1, <1>2, TypeCorrect, PTL DEF Spec

\* A page is queued for write-back exactly while it is dirty, and once.
THEOREM QueueExact == Spec => []DirtyExactlyQueued
<1>1. WriteBack => DirtyExactlyQueued
  BY DEF WriteBack
<1> QED
  BY <1>1, WriteBackInvariant, PTL

\* A page that will not be written back is on disk already.
THEOREM CleanPagesOnDisk == Spec => []CleanOnDisk
<1>1. WriteBack => CleanOnDisk
  BY DEF WriteBack
<1> QED
  BY <1>1, WriteBackInvariant, PTL

-----------------------------------------------------------------------------
(* What PageManager's two files say: the flag metadataUpdated tells whether the *)
(* metadata file describes the memory, and the pages given to a file hold zeros. *)

\* The metadata file is not torn, and names the owner of every page that is
\* known: none of them is named for another one.
WholeMetadata == Len(metaFile.owners) = metaFile.count
Recorded(p) ==
  /\ metaFile.owners[p + 1] = DELETED <=> p \in deletedPages
  /\ \A f \in Files : metaFile.owners[p + 1] = f <=> p \in Owned(f)

\* The flag also covers the pages that the constructor has read so far.
FlagInv ==
  /\ pc = "loading" => ~metadataUpdated
  /\ pc \in {"loading", "owners"} => metaFile.count = pageCount
  /\ pc = "owners" => metadataUpdated
  /\ pc \notin {"down", "deleting"} /\ ~metadataUpdated /\ WholeMetadata =>
       metaFile.count = pageCount /\ \A p \in Known : Recorded(p)

-----------------------------------------------------------------------------
\* Whoever has a page is the one flushMetadata() records for it.
LEMMA OwnerOfIsRecorded ==
  ASSUME PagePartition, pc \notin {"down", "deleting"}, NEW p \in Known
  PROVE  /\ OwnerOf(p) = DELETED <=> p \in deletedPages
         /\ \A f \in Files : OwnerOf(p) = f <=> p \in Owned(f)
<1>1. BeingFreed = {}
  BY DEF BeingFreed
<1>2. CASE p \in deletedPages
  <2>1. \A f \in Files : p \notin Owned(f)
    BY <1>1, <1>2 DEF PagePartition
  <2> QED
    BY <1>2, <2>1, FilesAssumption DEF OwnerOf
<1>3. CASE p \notin deletedPages
  <2>1. \E f \in Files : p \in Owned(f)
    BY <1>3 DEF PagePartition
  <2>2. OwnerOf(p) \in Files /\ p \in Owned(OwnerOf(p))
    BY <1>3, <2>1 DEF OwnerOf
  <2>3. \A f \in Files : p \in Owned(f) => f = OwnerOf(p)
    BY <2>2 DEF PagePartition
  <2> QED
    BY <1>3, <2>2, <2>3, FilesAssumption
<1> QED
  BY <1>2, <1>3

\* A page that has an owner and one that has just been read are told apart.
LEMMA FlagLoadPage ==
  ASSUME MapsInv, FlagInv, LoadPage
  PROVE  FlagInv'
<1> USE DEF MapsInv
<1>1. PICK owner \in Owners :
        /\ loaded < Len(metaFile.owners) => owner = metaFile.owners[loaded + 1]
        /\ deletedPages' = deletedPages \cup (IF owner = DELETED THEN {loaded} ELSE {})
        /\ metadata' = [f \in Files |->
                          IF f = owner THEN Append(metadata[f], loaded) ELSE metadata[f]]
  BY DEF LoadPage
<1> PICK n \in Nat : n = loaded
  BY DEF TypeOK
<1>2. /\ pc = "loading" /\ pc' = "loading" /\ loaded = n /\ loaded' = n + 1 /\ n < pageCount
      /\ n \in PageIds
      /\ UNCHANGED <<pageCount, metadataUpdated, metaFile>>
  BY BoundsAssumption DEF LoadPage, PagesLeft, TypeOK, PageIds, diskVars
<1>3. Known = 0 .. n - 1 /\ Known' = Known \cup {n} /\ n \notin Known
  BY <1>2 DEF Known
<1>4. \A f \in Files : Owned(f) \subseteq Known
  BY <1>2 DEF PagePartition
<1>5. \A f \in Files : Owned(f)' = Owned(f) \cup (IF f = owner THEN {n} ELSE {})
  <2>1. CASE owner \in Files
    BY <1>1, <1>2, <2>1, OwnedAfterAppend
  <2>2. CASE owner \notin Files
    BY <1>1, <2>2 DEF Owned, TypeOK
  <2> QED
    BY <2>1, <2>2
<1>6. ASSUME WholeMetadata
      PROVE  \A p \in Known' : Recorded(p)'
  <2>1. owner = metaFile.owners[n + 1]
    BY <1>1, <1>2, <1>6 DEF FlagInv, WholeMetadata
  <2>2. \A p \in Known : Recorded(p)
    BY <1>2, <1>6 DEF FlagInv
  <2>3. ASSUME NEW p \in Known
        PROVE  Recorded(p)'
    BY <1>1, <1>2, <1>3, <1>5, <2>2, <2>3 DEF Recorded
  <2>4. Recorded(n)'
    <3>1. n \notin deletedPages
      BY <1>2, <1>3 DEF PagePartition
    <3> QED
      BY <1>1, <1>2, <1>3, <1>4, <1>5, <2>1, <3>1 DEF Recorded
  <2> QED
    BY <1>3, <2>3, <2>4
<1> QED
  BY <1>2, <1>6 DEF FlagInv, WholeMetadata

LEMMA FlagStep ==
  ASSUME MapsInv, FlagInv, [Next]_vars
  PROVE  FlagInv'
<1> USE DEF MapsInv
<1>1. CASE Start
  BY <1>1 DEF Start, FlagInv, Known, diskVars
<1>2. CASE LoadPage
  BY <1>2, FlagLoadPage
<1>3. CASE LoadDone
  BY <1>3 DEF LoadDone, FlagInv, WholeMetadata, Recorded, Owned, Known, fileVars, diskVars, runVars
<1>4. CASE ExtendFile \/ DeleteDone
  <2>1. metadataUpdated' /\ pc' \notin {"loading", "owners"}
    BY <1>4 DEF ExtendFile, DeleteDone, MarkUpdated
  <2> QED
    BY <2>1 DEF FlagInv
<1>5. CASE ExtendFileAborts \/ Crash
  BY <1>5 DEF ExtendFileAborts, Crash, Dies, FlagInv
<1>6. CASE DeletePage \/ \E f \in Files : DeleteFile(f)
  <2>1. pc' = "deleting"
    BY <1>6 DEF DeletePage, DeleteFile
  <2> QED
    BY <2>1 DEF FlagInv
<1>7. ASSUME UNCHANGED <<fileVars, metaFile>>,
             pc \notin {"down", "loading", "deleting", "owners"},
             pc' \notin {"loading", "deleting", "owners"}
      PROVE  FlagInv'
  BY <1>7 DEF FlagInv, WholeMetadata, Recorded, Owned, Known, fileVars
<1>8. ASSUME NEW op, NEW f, NEW i, NEW v, Request(op, f, i, v)
      PROVE  FlagInv'
  BY <1>7, <1>8 DEF Request, diskVars
<1>9. CASE EndStatement \/ InputArrives \/ ServePage
  BY <1>7, <1>9 DEF EndStatement, InputArrives, ServePage, diskVars
<1>10. CASE FlushOne \/ NothingToFlush \/ MetadataUpToDate
  BY <1>7, <1>10 DEF FlushOne, NothingToFlush, MetadataUpToDate, Flushed, diskVars
<1>11. CASE FlushHeader
  BY <1>11 DEF FlushHeader, FlagInv, fileVars, TypeOK
<1>12. CASE FlushOwners
  <2>1. /\ pc = "owners" /\ pc' \notin {"loading", "owners", "deleting"}
        /\ metaFile.count = pageCount
        /\ UNCHANGED <<metadata, deletedPages, pageCount, loaded>>
    BY <1>12 DEF FlushOwners, Flushed, FlagInv, runVars
  <2>2. metaFile'.count = pageCount
        /\ metaFile'.owners = [k \in 1 .. pageCount |-> OwnerOf(k - 1)]
    BY <1>12, <2>1 DEF FlushOwners, TypeOK
  <2>3. Known = 0 .. pageCount - 1 /\ Known' = Known
    BY <2>1 DEF Known
  <2>4. ASSUME NEW p \in Known
        PROVE  Recorded(p)'
    <3>1. metaFile'.owners[p + 1] = OwnerOf(p)
      BY <2>2, <2>3 DEF TypeOK
    <3>2. /\ OwnerOf(p) = DELETED <=> p \in deletedPages
          /\ \A f \in Files : OwnerOf(p) = f <=> p \in Owned(f)
      BY <2>1, OwnerOfIsRecorded
    <3> QED
      BY <2>1, <3>1, <3>2 DEF Recorded, Owned
  <2> QED
    BY <2>1, <2>2, <2>3, <2>4 DEF FlagInv
<1>13. CASE UNCHANGED vars
  BY <1>13 DEF vars, fileVars, diskVars, runVars, FlagInv, WholeMetadata, Recorded, Owned, Known
<1> QED
  BY <1>1, <1>2, <1>3, <1>4, <1>5, <1>6, <1>8, <1>9, <1>10, <1>11, <1>12, <1>13
     DEF Next, Load, Client, Serve, Flush

THEOREM FlagInvariant == Spec => [](MapsInv /\ FlagInv)
<1>1. Init => FlagInv
  BY DEF Init, FlagInv
<1>2. MapsInv /\ FlagInv /\ [Next]_vars => FlagInv'
  BY FlagStep
<1> QED
  BY <1>1, <1>2, MapsInvariant, PTL DEF Spec

LEMMA FlagInvSound == MapsInv /\ FlagInv => MetadataFlagSound
<1> SUFFICES ASSUME MapsInv, FlagInv, Up, pc # "deleting", ~metadataUpdated, WholeMetadata
             PROVE  /\ metaFile.count = pageCount
                    /\ \A p \in 0 .. pageCount - 1 : metaFile.owners[p + 1] = OwnerOf(p)
  BY DEF MetadataFlagSound, WholeMetadata
<1>1. pc \notin {"down", "loading", "deleting"} /\ Known = 0 .. pageCount - 1
  BY DEF Up, Known
<1>2. metaFile.count = pageCount /\ \A p \in Known : Recorded(p)
  BY <1>1 DEF FlagInv
<1>3. ASSUME NEW p \in Known
      PROVE  metaFile.owners[p + 1] = OwnerOf(p)
  <2>1. /\ OwnerOf(p) = DELETED <=> p \in deletedPages
        /\ \A f \in Files : OwnerOf(p) = f <=> p \in Owned(f)
    BY <1>1, OwnerOfIsRecorded DEF MapsInv
  <2>2. p \in deletedPages \/ \E f \in Files : p \in Owned(f)
    BY <1>1 DEF MapsInv, PagePartition
  <2> QED
    BY <1>2, <2>1, <2>2 DEF Recorded
<1> QED
  BY <1>1, <1>2, <1>3

\* While metadataUpdated is down, a metadata file that is not torn says of every
\* page what the memory says, whatever was killed and started again before.
THEOREM FlagSound == Spec => []MetadataFlagSound
BY FlagInvariant, FlagInvSound, PTL

-----------------------------------------------------------------------------
(* The pages given to a file hold zeros, as long as the destructor ran.    *)

\* What the big file must hold of a page when the metadata file is read: a
\* page that is not recorded, or recorded as free, is all zeros.
RecordedFree(p) == metaFile.count <= p \/ metaFile.owners[p + 1] = DELETED

ZeroInv ==
  ~crashed =>
    /\ pc # "owners" => WholeMetadata
    /\ closing /\ pc \in {"header", "owners"} => dirtyQueue = <<>>
    /\ ~Up => \A p \in PageIds : RecordedFree(p) => DiskPage(p) = Zero
    /\ pc = "loading" =>
         /\ pageCount = metaFile.count
         /\ \A p \in PageIds : cache[p].state = "absent"
         /\ \A p \in deletedPages : RecordedFree(p)
    /\ FreshPagesZero

\* Writing a page of the big file leaves what is read of the others.
LEMMA OtherPagesKept ==
  ASSUME disk \in Seq(Contents), NEW p \in PageIds, NEW page \in Contents,
         disk' = DiskAfterWrite(p, page), NEW q \in PageIds, q # p
  PROVE  DiskPage(q)' = DiskPage(q)
<1> DEFINE n == IF OnDisk(p) THEN Len(disk) ELSE p + 1
<1>1. n \in Nat /\ Len(disk) \in Nat /\ Len(disk) <= n /\ q \in Nat
  BY DEF OnDisk, PageIds
<1>2. disk' = [k \in 1 .. n |-> IF k = p + 1 THEN page ELSE DiskPage(k - 1)]
  BY DEF DiskAfterWrite
<1>3. Len(disk') = n
  BY <1>1, <1>2
<1>4. CASE q < n
  <2>1. q + 1 \in 1 .. n /\ q + 1 # p + 1 /\ (q + 1) - 1 = q
    BY <1>1, <1>4 DEF PageIds
  <2>2. disk'[q + 1] = DiskPage(q)
    BY <1>2, <2>1
  <2> QED
    BY <1>3, <1>4, <2>2 DEF DiskPage, OnDisk
<1>5. CASE ~(q < n)
  BY <1>1, <1>3, <1>5 DEF DiskPage, OnDisk
<1> QED
  BY <1>4, <1>5

\* A free page is never the one that is served.
LEMMA ServedIsOwned ==
  ASSUME MapsInv, ServePage
  PROVE  TruePage \in PageIds /\ TruePage \notin deletedPages /\ TruePage < pageCount
<1> USE DEF MapsInv
<1>1. /\ pc = "retrieving" /\ call.file \in Files
      /\ call.id + 1 \in DOMAIN metadata[call.file]
  BY DEF ServePage, TypeOK, Calls
<1>2. TruePage \in Owned(call.file)
  BY <1>1 DEF Owned, TruePage
<1>3. BeingFreed = {} /\ Known = 0 .. pageCount - 1
  BY <1>1 DEF BeingFreed, Known
<1>4. TruePage \notin deletedPages /\ TruePage \in Known
  BY <1>1, <1>2, <1>3 DEF PagePartition
<1> QED
  BY <1>3, <1>4, BoundsAssumption DEF TypeOK, PageIds

\* Writing a page back changes no page.
LEMMA FlushedPageKept ==
  ASSUME TypeOK, WriteBack, pc # "down", FlushOne
  PROVE  \A p \in PageIds : PageOf(p)' = PageOf(p)
<1>1. PICK p \in PageIds : p = Head(dirtyQueue)
  BY DEF FlushOne, QueueEmpty, TypeOK
<1>2. cache[p].state = "dirty"
  <2>1. 1 \in DOMAIN dirtyQueue /\ dirtyQueue[1] = p
    BY <1>1 DEF FlushOne, QueueEmpty, TypeOK
  <2> QED
    BY <2>1 DEF WriteBack, DirtyExactlyQueued
<1>3. /\ disk' = DiskAfterWrite(p, cache[p].page) /\ cache[p].page \in Contents
      /\ cache'[p] = [cache[p] EXCEPT !.state = "clean"]
      /\ \A q \in PageIds : q # p => cache'[q] = cache[q]
  BY <1>1 DEF FlushOne, TypeOK, Frames
<1>4. PageOf(p)' = PageOf(p)
  BY <1>2, <1>3 DEF PageOf, TypeOK, Frames
<1>5. \A q \in PageIds : q # p => PageOf(q)' = PageOf(q)
  BY <1>3, OtherPagesKept DEF PageOf, TypeOK
<1> QED
  BY <1>4, <1>5

\* The steps of a client and of the flush keep free pages zero.
LEMMA FreshStep ==
  ASSUME MapsInv, WriteBack, FreshPagesZero, Up, ~crashed, [Next]_vars
  PROVE  FreshPagesZero'
<1> USE DEF MapsInv
<1>1. ASSUME crashed' \/ ~Up'
      PROVE  FreshPagesZero'
  BY <1>1 DEF FreshPagesZero
<1>2. ASSUME UNCHANGED <<cache, disk>>,
             deletedPages' \subseteq deletedPages,
             pageCount <= pageCount' /\ pageCount' \in Nat
      PROVE  FreshPagesZero'
  <2>1. \A p \in PageIds : PageOf(p)' = PageOf(p) /\ (pageCount' <= p => pageCount <= p)
    BY <1>2 DEF PageOf, DiskPage, OnDisk, TypeOK, PageIds
  <2> QED
    BY <1>2, <2>1 DEF FreshPagesZero
<1>3. CASE ExtendFile
  <2>1. PICK p \in PageIds : getFreePage(call.file, p)
    BY <1>3 DEF ExtendFile
  <2>2. deletedPages' \subseteq deletedPages
    BY <2>1 DEF getFreePage
  <2>3. pageCount' = pageCount + 1 \/ pageCount' = pageCount
    BY <2>1 DEF getFreePage
  <2>4. pageCount <= pageCount' /\ pageCount' \in Nat
    BY <2>3 DEF TypeOK
  <2>5. UNCHANGED <<cache, disk>>
    BY <1>3 DEF ExtendFile, cacheVars, diskVars
  <2> QED
    BY <1>2, <2>2, <2>4, <2>5
<1>4. CASE ExtendFileAborts \/ Crash
  BY <1>1, <1>4 DEF ExtendFileAborts, Crash, Dies
<1>5. CASE ServePage
  <2>1. PICK p \in PageIds : p = TruePage
    BY <1>5, ServedIsOwned
  <2>2. p \notin deletedPages /\ p < pageCount
    BY <1>5, <2>1, ServedIsOwned
  <2>3. /\ \A q \in PageIds : q # p => cache'[q] = cache[q]
        /\ UNCHANGED <<disk, deletedPages, pageCount, crashed>>
    BY <1>5, <2>1 DEF ServePage, PutFrame, TypeOK, fileVars, diskVars, runVars
  <2>4. \A q \in PageIds : q \in deletedPages \/ pageCount <= q => PageOf(q)' = PageOf(q)
    BY <2>2, <2>3 DEF PageOf, DiskPage, OnDisk, TypeOK, PageIds
  <2> QED
    BY <2>3, <2>4 DEF FreshPagesZero
<1>6. CASE DeletePage
  <2>1. PICK p \in PageIds : p = TruePage
    BY <1>6 DEF DeletePage, TruePage, TypeOK, Calls
  <2>2. /\ cache'[p] = ZeroedFrame
        /\ \A q \in PageIds : q # p => cache'[q] = cache[q]
        /\ deletedPages' = deletedPages \cup {p}
        /\ UNCHANGED <<disk, pageCount, crashed>>
    BY <1>6, <2>1 DEF DeletePage, PutFrame, TypeOK, diskVars, runVars
  <2>3. PageOf(p)' = Zero
    BY <2>2 DEF PageOf, ZeroedFrame
  <2>4. \A q \in PageIds : q # p => PageOf(q)' = PageOf(q)
    BY <2>2 DEF PageOf, DiskPage, OnDisk
  <2> QED
    BY <2>2, <2>3, <2>4 DEF FreshPagesZero
<1>7. CASE FlushOne
  <2>1. \A p \in PageIds : PageOf(p)' = PageOf(p)
    BY <1>7, FlushedPageKept DEF Up
  <2>2. UNCHANGED <<deletedPages, pageCount>>
    BY <1>7 DEF FlushOne, fileVars
  <2> QED
    BY <2>1, <2>2 DEF FreshPagesZero
<1>8. ASSUME UNCHANGED <<cache, disk, deletedPages, pageCount>>
      PROVE  FreshPagesZero'
  BY <1>2, <1>8 DEF TypeOK
<1>9. ASSUME NEW op, NEW f, NEW i, NEW v, Request(op, f, i, v) \/ DeleteFile(f)
      PROVE  FreshPagesZero'
  BY <1>8, <1>9 DEF Request, DeleteFile, fileVars, cacheVars, diskVars
<1>10. CASE EndStatement \/ InputArrives \/ DeleteDone
  BY <1>8, <1>10 DEF EndStatement, InputArrives, DeleteDone, fileVars, cacheVars, diskVars
<1>11. CASE NothingToFlush \/ MetadataUpToDate \/ FlushHeader \/ FlushOwners
  BY <1>8, <1>11
     DEF NothingToFlush, MetadataUpToDate, FlushHeader, FlushOwners, fileVars, cacheVars, diskVars
<1>12. CASE UNCHANGED vars
  BY <1>8, <1>12 DEF vars, fileVars, cacheVars, diskVars
<1>13. ~Start /\ ~Load
  BY DEF Up, Start, Load, LoadPage, LoadDone
<1> QED
  BY <1>3, <1>4, <1>5, <1>6, <1>7, <1>9, <1>10, <1>11, <1>12, <1>13
     DEF Next, Client, Serve, Flush

LEMMA ZeroStep ==
  ASSUME FALSE \notin FlushOneResults, MapsInv, FlagInv, WriteBack, ZeroInv, [Next]_vars
  PROVE  ZeroInv'
<1> USE DEF MapsInv
<1> SUFFICES ASSUME ~crashed'
             PROVE  ZeroInv'
  BY DEF ZeroInv
<1>1. ~crashed /\ ~ExtendFileAborts /\ ~Crash
  BY DEF ExtendFileAborts, Crash, Dies, Next, Start, Load, LoadPage, LoadDone, Client, Request,
         DeleteFile, EndStatement, InputArrives, Serve, ExtendFile, ServePage, DeletePage,
         DeleteDone, Flush, FlushOne, NothingToFlush, MetadataUpToDate, FlushHeader,
         FlushOwners, runVars, vars
<1>2. CASE Start
  <2>1. pc = "down" /\ pc' = "loading" /\ UNCHANGED diskVars /\ deletedPages' = {}
        /\ pageCount' = metaFile.count /\ cache' = [p \in PageIds |-> Absent]
    BY <1>2 DEF Start
  <2> QED
    BY <1>1, <2>1 DEF ZeroInv, FreshPagesZero, Up, WholeMetadata, RecordedFree, DiskPage,
                      OnDisk, diskVars, Absent
<1>3. CASE LoadPage
  <2>1. PICK n \in Nat : n = loaded
    BY DEF TypeOK
  <2>2. pc = "loading" /\ pc' = "loading" /\ n < pageCount
        /\ UNCHANGED <<pageCount, cache, disk, metaFile>>
    BY <1>3, <2>1 DEF LoadPage, PagesLeft, cacheVars, diskVars
  <2>3. n < Len(metaFile.owners)
    BY <1>1, <2>2 DEF ZeroInv, WholeMetadata
  <2>4. \A p \in deletedPages' : p \in deletedPages \/ metaFile.owners[p + 1] = DELETED
    BY <1>3, <2>1, <2>3 DEF LoadPage
  <2> QED
    BY <1>1, <2>2, <2>4 DEF ZeroInv, FreshPagesZero, Up, WholeMetadata, RecordedFree, DiskPage,
                            OnDisk
<1>4. CASE LoadDone
  <2>1. pc = "loading" /\ pc' = "serving"
        /\ UNCHANGED <<pageCount, deletedPages, cache, disk, metaFile>>
    BY <1>4 DEF LoadDone, fileVars, cacheVars, diskVars
  <2>2. ASSUME NEW p \in PageIds, p \in deletedPages \/ pageCount <= p
        PROVE  PageOf(p) = Zero
    <3>1. RecordedFree(p) /\ cache[p].state = "absent"
      BY <1>1, <2>1, <2>2 DEF ZeroInv, RecordedFree
    <3> QED
      BY <1>1, <2>1, <3>1 DEF ZeroInv, PageOf, Up
  <2>3. FreshPagesZero'
    BY <2>1, <2>2 DEF FreshPagesZero, PageOf, DiskPage, OnDisk
  <2> QED
    BY <1>1, <2>1, <2>3 DEF ZeroInv, WholeMetadata, Up
<1>5. ASSUME Up
      PROVE  FreshPagesZero'
  BY <1>1, <1>5, FreshStep DEF ZeroInv
<1>6. ASSUME Up, Up', pc' \notin {"header", "owners"}, UNCHANGED metaFile, pc # "owners"
      PROVE  ZeroInv'
  BY <1>1, <1>5, <1>6 DEF ZeroInv, Up, WholeMetadata
<1>7. CASE ExtendFile \/ ServePage \/ DeletePage \/ DeleteDone
  BY <1>6, <1>7 DEF ExtendFile, ServePage, DeletePage, DeleteDone, Up, diskVars
<1>8. ASSUME NEW op, NEW f, NEW i, NEW v, Request(op, f, i, v) \/ DeleteFile(f)
      PROVE  ZeroInv'
  BY <1>6, <1>8 DEF Request, DeleteFile, Up, diskVars
<1>9. CASE EndStatement \/ InputArrives
  BY <1>6, <1>9 DEF EndStatement, InputArrives, Up, diskVars
<1>10. CASE FlushOne
  <2>1. pc' = "flushing"
    BY <1>10, FlushOneAssumption DEF FlushOne
  <2> QED
    BY <1>6, <1>10, <2>1 DEF FlushOne, Up
<1>11. CASE NothingToFlush
  BY <1>1, <1>5, <1>11
     DEF NothingToFlush, QueueEmpty, ZeroInv, Up, WholeMetadata, cacheVars, diskVars
<1>12. CASE FlushHeader
  BY <1>1, <1>5, <1>12 DEF FlushHeader, ZeroInv, Up, cacheVars, runVars
\* When the destructor is through, no page is dirty.
<1>13. ASSUME Up, closing, pc \in {"header", "owners"}, UNCHANGED disk,
              NEW p \in PageIds, p \in deletedPages \/ pageCount <= p
       PROVE  DiskPage(p)' = Zero
  <2>1. PageOf(p) = Zero
    BY <1>1, <1>13 DEF ZeroInv, FreshPagesZero
  <2>2. dirtyQueue = <<>>
    BY <1>1, <1>13 DEF ZeroInv
  <2>3. cache[p].state # "dirty"
    BY <1>13, <2>2 DEF WriteBack, DirtyExactlyQueued, Up
  <2>4. DiskPage(p) = Zero
    <3>1. CASE cache[p].state = "absent"
      BY <2>1, <3>1 DEF PageOf
    <3>2. CASE cache[p].state = "clean"
      BY <1>13, <2>1, <3>2 DEF PageOf, DiskPage, WriteBack, CleanOnDisk, Up
    <3> QED
      BY <2>3, <3>1, <3>2 DEF TypeOK, Frames
  <2> QED
    BY <1>13, <2>4 DEF DiskPage, OnDisk
<1>14. CASE MetadataUpToDate
  <2>1. /\ pc = "header" /\ ~metadataUpdated /\ UNCHANGED <<disk, metaFile, crashed>>
        /\ pc' = IF closing THEN "down" ELSE "prompt"
    BY <1>14 DEF MetadataUpToDate, Flushed, diskVars, runVars
  <2>2. WholeMetadata /\ WholeMetadata'
    BY <1>1, <2>1 DEF ZeroInv, WholeMetadata
  <2>3. metaFile.count = pageCount /\ \A p \in Known : Recorded(p)
    BY <2>1, <2>2 DEF FlagInv
  <2>4. ASSUME NEW p \in PageIds, RecordedFree(p)', closing
        PROVE  DiskPage(p)' = Zero
    <3>1. p \in deletedPages \/ pageCount <= p
      BY <2>1, <2>3, <2>4 DEF RecordedFree, Recorded, Known, PageIds, TypeOK
    <3> QED
      BY <1>13, <2>1, <2>4, <3>1 DEF Up
  <2> QED
    BY <1>5, <2>1, <2>2, <2>4 DEF ZeroInv, Up
<1>15. CASE FlushOwners
  <2>1. /\ pc = "owners" /\ UNCHANGED <<disk, crashed>>
        /\ metaFile' = [metaFile EXCEPT !.owners = [k \in 1 .. pageCount |-> OwnerOf(k - 1)]]
        /\ pc' = IF closing THEN "down" ELSE "prompt"
    BY <1>15 DEF FlushOwners, Flushed, runVars
  <2>2. metaFile'.count = pageCount
        /\ metaFile'.owners = [k \in 1 .. pageCount |-> OwnerOf(k - 1)]
    BY <2>1 DEF FlagInv, TypeOK
  <2>3. WholeMetadata'
    BY <2>2 DEF WholeMetadata, TypeOK
  <2>4. ASSUME NEW p \in PageIds, RecordedFree(p)', closing
        PROVE  DiskPage(p)' = Zero
    <3>1. ASSUME ~(pageCount <= p)
          PROVE  p \in deletedPages
      <4>1. p + 1 \in 1 .. pageCount /\ (p + 1) - 1 = p /\ p \in Known
        BY <2>1, <3>1 DEF Known, PageIds, TypeOK
      <4>2. OwnerOf(p) = DELETED
        BY <2>2, <2>4, <3>1, <4>1 DEF RecordedFree
      <4> QED
        BY <2>1, <4>1, <4>2, OwnerOfIsRecorded
    <3> QED
      BY <1>13, <2>1, <2>4, <3>1 DEF Up
  <2> QED
    BY <1>5, <2>1, <2>3, <2>4 DEF ZeroInv, Up
<1>16. CASE UNCHANGED vars
  BY <1>1, <1>16 DEF vars, fileVars, cacheVars, diskVars, runVars, ZeroInv, WholeMetadata, Up,
                     RecordedFree, DiskPage, OnDisk, FreshPagesZero, PageOf
<1> QED
  BY <1>1, <1>2, <1>3, <1>4, <1>7, <1>8, <1>9, <1>10, <1>11, <1>12, <1>14, <1>15, <1>16
     DEF Next, Load, Client, Serve, Flush

\* Until a process is killed, every page that a file may be given holds zeros,
\* if flushOne() says that it wrote a page: the loops of flushAll() and of
\* main() then go on to the next one.
THEOREM FreshPages == FALSE \notin FlushOneResults /\ Spec => []FreshPagesZero
<1> SUFFICES ASSUME FALSE \notin FlushOneResults
             PROVE  Spec => []FreshPagesZero
  OBVIOUS
<1>1. Init => ZeroInv
  BY DEF Init, ZeroInv, WholeMetadata, RecordedFree, DiskPage, OnDisk, Up, FreshPagesZero
<1>2. MapsInv /\ FlagInv /\ WriteBack /\ ZeroInv /\ [Next]_vars => ZeroInv'
  BY ZeroStep
<1>3. ZeroInv => FreshPagesZero
  BY DEF ZeroInv, FreshPagesZero
<1> QED
  BY <1>1, <1>2, <1>3, FlagInvariant, WriteBackInvariant, PTL DEF Spec
-----------------------------------------------------------------------------
(* A file's pages, read back from their owners. *)

\* A set of numbers has a least one: the principle of every induction below.
LEMMA Least ==
  ASSUME NEW T \in SUBSET Nat, T # {}
  PROVE  \E n \in T : \A m \in T : n <= m
<1>1. IsWellFoundedOn(OpToRel(<, Nat), Nat)
  BY NatLessThanWellFounded
<1>2. PICK n \in T : \A y \in T : ~(<<y, n>> \in OpToRel(<, Nat))
  BY <1>1, WFMin
<1>3. \A m \in T : ~(m < n)
  BY <1>2 DEF OpToRel
<1> QED BY <1>3

\* s lists the pages of the set P in ascending order.
Lists(s, P) ==
  /\ s \in Seq(Nat)
  /\ \A j, k \in DOMAIN s : j < k => s[j] < s[k]
  /\ \A p : p \in P <=> \E k \in DOMAIN s : s[k] = p

\* What two sequences have in common up to a place is theirs to the end of either.
LEMMA NoFirstDifference ==
  ASSUME NEW P, NEW s, NEW t, Lists(s, P), Lists(t, P), NEW k \in DOMAIN s,
         \A j \in 1 .. k - 1 : j \in DOMAIN s /\ j \in DOMAIN t /\ s[j] = t[j]
  PROVE  k \in DOMAIN t /\ t[k] <= s[k]
<1>1. /\ Len(s) \in Nat /\ DOMAIN s = 1 .. Len(s) /\ \A j \in DOMAIN s : s[j] \in Nat
      /\ Len(t) \in Nat /\ DOMAIN t = 1 .. Len(t) /\ \A j \in DOMAIN t : t[j] \in Nat
  BY DEF Lists
<1>2. s[k] \in P
  BY DEF Lists
<1>3. PICK j \in DOMAIN t : t[j] = s[k]
  BY <1>2 DEF Lists
<1>4. ~(j < k)
  <2> SUFFICES ASSUME j < k PROVE FALSE
    OBVIOUS
  <2>1. j \in DOMAIN s /\ s[j] = t[j]
    BY <1>1
  <2>2. s[j] < s[k]
    BY <2>1 DEF Lists
  <2> QED BY <1>1, <1>3, <2>1, <2>2
<1>5. k \in DOMAIN t
  BY <1>1, <1>4
<1>6. k < j => t[k] < t[j]
  BY <1>5 DEF Lists
<1> QED BY <1>1, <1>3, <1>4, <1>5, <1>6

LEMMA EqualLengths ==
  ASSUME NEW m \in Nat, NEW n \in Nat, 1 .. m = 1 .. n
  PROVE  m = n
<1>1. m > 0 => m \in 1 .. n
  OBVIOUS
<1>2. n > 0 => n \in 1 .. m
  OBVIOUS
<1> QED BY <1>1, <1>2

\* There is only one such sequence.
LEMMA OneListing ==
  ASSUME NEW P, NEW s, NEW t, Lists(s, P), Lists(t, P)
  PROVE  s = t
<1> DEFINE Same(k) == k \in DOMAIN s /\ k \in DOMAIN t /\ s[k] = t[k]
           Differ == {k \in DOMAIN s \cup DOMAIN t : ~Same(k)}
<1>1. /\ Len(s) \in Nat /\ DOMAIN s = 1 .. Len(s) /\ \A j \in DOMAIN s : s[j] \in Nat
      /\ Len(t) \in Nat /\ DOMAIN t = 1 .. Len(t) /\ \A j \in DOMAIN t : t[j] \in Nat
  BY DEF Lists
<1>2. Differ = {}
  <2> SUFFICES ASSUME Differ # {} PROVE FALSE
    OBVIOUS
  <2>1. Differ \in SUBSET Nat
    BY <1>1
  <2>2. PICK k \in Differ : \A j \in Differ : k <= j
    <3> HIDE DEF Differ
    <3> QED BY <2>1, Least
  <2>3. \A j \in 1 .. k - 1 : Same(j)
    <3> SUFFICES ASSUME NEW j \in 1 .. k - 1 PROVE Same(j)
      OBVIOUS
    <3>1. k \in Nat /\ j \in Nat /\ j < k
      BY <2>1, <2>2
    <3>2. j \notin Differ
      BY <2>2, <3>1
    <3>3. j \in DOMAIN s \cup DOMAIN t
      BY <1>1, <2>2, <3>1
    <3> QED BY <3>2, <3>3
  <2>4. k \in DOMAIN s => k \in DOMAIN t /\ t[k] <= s[k]
    BY <2>3, NoFirstDifference
  <2>5. k \in DOMAIN t => k \in DOMAIN s /\ s[k] <= t[k]
    BY <2>3, NoFirstDifference
  <2>6. Same(k)
    BY <1>1, <2>2, <2>4, <2>5
  <2> QED BY <2>2, <2>6
<1>3. DOMAIN s = DOMAIN t
  BY <1>2
<1>4. Len(s) = Len(t)
  BY <1>1, <1>3, EqualLengths
<1>5. \A k \in 1 .. Len(s) : s[k] = t[k]
  BY <1>1, <1>2
<1> QED BY <1>1, <1>4, <1>5 DEF Lists

ReadUpTo(file, f, m, read) ==
  read = [n \in 0 .. m |->
            IF n = 0 THEN <<>> ELSE Listed(file, f, read[n - 1], n - 1)]

\* The constructor's loop is defined for any number of pages.
LEMMA ReadDefined ==
  ASSUME NEW file, NEW f, NEW m \in Nat
  PROVE  \E read : ReadUpTo(file, f, m, read)
<1> DEFINE Undefined == {k \in Nat : ~ \E read : ReadUpTo(file, f, k, read)}
<1> SUFFICES ASSUME Undefined # {} PROVE FALSE
  OBVIOUS
<1>1. PICK k \in Undefined : \A j \in Undefined : k <= j
  BY Least
<1>2. k # 0
  <2>1. ReadUpTo(file, f, 0, [n \in 0 .. 0 |-> <<>>])
    BY DEF ReadUpTo
  <2> QED BY <2>1
<1>3. PICK t : ReadUpTo(file, f, k - 1, t)
  BY <1>1, <1>2
<1> DEFINE u == [n \in 0 .. k |-> IF n < k THEN t[n] ELSE Listed(file, f, t[n - 1], n - 1)]
           v == [n \in 0 .. k |-> IF n = 0 THEN <<>> ELSE Listed(file, f, u[n - 1], n - 1)]
<1>4. ASSUME NEW n \in 0 .. k PROVE u[n] = v[n]
  <2>1. CASE n = 0
    BY <2>1, <1>2, <1>3 DEF ReadUpTo
  <2>2. CASE n # 0 /\ n < k
    <3>1. n \in 0 .. (k - 1) /\ n - 1 \in 0 .. k /\ n - 1 < k
      BY <2>2
    <3>2. t[n] = Listed(file, f, t[n - 1], n - 1)
      BY <3>1, <2>2, <1>3 DEF ReadUpTo
    <3> QED BY <3>1, <3>2, <2>2
  <2>3. CASE n = k
    BY <2>3, <1>2
  <2> QED BY <2>1, <2>2, <2>3
<1>5. ReadUpTo(file, f, k, u)
  BY <1>4 DEF ReadUpTo
<1> QED BY <1>5

StoredPages(file, f, n) == {p \in 0 .. n - 1 : file.owners[p + 1] = f}

\* A page that is above all listed ones is listed last.
LEMMA ListOneMore ==
  ASSUME NEW s, NEW n \in Nat, NEW P \in SUBSET (0 .. n - 1), Lists(s, P)
  PROVE  Lists(Append(s, n), P \cup {n})
<1>1. /\ s \in Seq(Nat) /\ Append(s, n) \in Seq(Nat)
      /\ Len(s) \in Nat /\ DOMAIN s = 1 .. Len(s) /\ \A j \in DOMAIN s : s[j] \in Nat
      /\ DOMAIN Append(s, n) = 1 .. Len(s) + 1
      /\ \A j \in DOMAIN s : Append(s, n)[j] = s[j]
      /\ Append(s, n)[Len(s) + 1] = n
  BY DEF Lists
<1>2. \A j \in DOMAIN s : s[j] \in P /\ s[j] < n
  BY DEF Lists
<1>3. ASSUME NEW j \in 1 .. Len(s) + 1, NEW k \in 1 .. Len(s) + 1, j < k
      PROVE  Append(s, n)[j] < Append(s, n)[k]
  <2>1. j \in DOMAIN s
    BY <1>1, <1>3
  <2>2. CASE k \in DOMAIN s
    BY <1>1, <1>3, <2>1, <2>2 DEF Lists
  <2>3. CASE k = Len(s) + 1
    BY <1>1, <1>2, <2>1, <2>3
  <2> QED BY <1>1, <1>3, <2>2, <2>3
<1>4. ASSUME NEW p
      PROVE  p \in P \cup {n} <=> \E k \in 1 .. Len(s) + 1 : Append(s, n)[k] = p
  <2>1. p \in P <=> \E k \in DOMAIN s : s[k] = p
    BY DEF Lists
  <2>2. \A k \in 1 .. Len(s) + 1 : k \in DOMAIN s \/ k = Len(s) + 1
    BY <1>1
  <2> QED BY <1>1, <2>1, <2>2
<1> HIDE DEF Lists
<1> QED BY <1>1, <1>3, <1>4 DEF Lists

\* The loop lists the pages that the file has for f, in ascending order.
LEMMA MapInLists ==
  ASSUME NEW file, file.count \in Nat, NEW f
  PROVE  Lists(MapIn(file, f), StoredPages(file, f, file.count))
<1> DEFINE N == file.count
           read == CHOOSE read : ReadUpTo(file, f, N, read)
<1>1. ReadUpTo(file, f, N, read)
  BY ReadDefined
<1>2. MapIn(file, f) = read[N]
  BY DEF MapIn, ReadUpTo
<1> HIDE DEF read
<1> DEFINE Wrong == {n \in 0 .. N : ~Lists(read[n], StoredPages(file, f, n))}
<1>3. Wrong = {}
  <2> SUFFICES ASSUME Wrong # {} PROVE FALSE
    OBVIOUS
  <2>1. Wrong \in SUBSET Nat
    OBVIOUS
  <2>2. PICK n \in Wrong : \A m \in Wrong : n <= m
    <3> HIDE DEF Wrong
    <3> QED BY <2>1, Least
  <2>3. n # 0
    <3>1. read[0] = <<>> /\ StoredPages(file, f, 0) = {}
      BY <1>1 DEF ReadUpTo, StoredPages
    <3>2. Lists(read[0], StoredPages(file, f, 0))
      BY <3>1 DEF Lists
    <3> QED BY <2>2, <3>2
  <2>4. n - 1 \in Nat /\ n - 1 \in 0 .. N /\ n - 1 \notin Wrong
    BY <2>1, <2>2, <2>3
  <2>5. Lists(read[n - 1], StoredPages(file, f, n - 1))
    BY <2>4
  <2>6. read[n] = Listed(file, f, read[n - 1], n - 1)
    BY <1>1, <2>2, <2>3 DEF ReadUpTo
  <2>7. StoredPages(file, f, n)
          = StoredPages(file, f, n - 1) \cup (IF file.owners[(n - 1) + 1] = f THEN {n - 1} ELSE {})
    BY <2>4 DEF StoredPages
  <2>8. StoredPages(file, f, n - 1) \in SUBSET (0 .. (n - 1) - 1)
    BY DEF StoredPages
  <2>9. Lists(read[n], StoredPages(file, f, n))
    <3>1. file.owners[(n - 1) + 1] = f =>
            Lists(Append(read[n - 1], n - 1), StoredPages(file, f, n - 1) \cup {n - 1})
      BY <2>4, <2>5, <2>8, ListOneMore
    <3> QED BY <2>5, <2>6, <2>7, <3>1 DEF Listed
  <2> QED BY <2>2, <2>9
<1> QED BY <1>2, <1>3

\* A metadata file that records the owners of the pages in memory gives their map
\* back: nothing but the order of page numbers is lost in it.
LEMMA MapReadBack ==
  ASSUME MapsInv, pc # "down", NEW file, file.count = pageCount, NEW f \in Files,
         \A p \in 0 .. pageCount - 1 : file.owners[p + 1] = f <=> p \in Owned(f),
         Known = 0 .. pageCount - 1
  PROVE  MapIn(file, f) = metadata[f]
<1>1. pageCount \in Nat /\ metadata[f] \in Seq(Nat)
  <2>1. metadata[f] \in Seq(PageIds) /\ PageIds \subseteq Nat
    BY DEF MapsInv, TypeOK, PageIds
  <2>2. \A t \in Seq(PageIds) : t \in Seq(Nat)
    BY <2>1, SeqMonotonic
  <2>3. pageCount \in Nat
    BY BoundsAssumption DEF MapsInv, TypeOK
  <2> QED BY <2>1, <2>2, <2>3
<1>2. Owned(f) \subseteq 0 .. pageCount - 1
  BY DEF MapsInv, PagePartition
<1>3. \A j, k \in DOMAIN metadata[f] : j < k => metadata[f][j] < metadata[f][k]
  BY DEF MapsInv, AscendingMaps
<1>4. \A p : p \in StoredPages(file, f, pageCount) <=> p \in Owned(f)
  BY <1>2 DEF StoredPages
<1>5. Lists(metadata[f], StoredPages(file, f, pageCount))
  BY <1>1, <1>3, <1>4 DEF Lists, Owned
<1>6. Lists(MapIn(file, f), StoredPages(file, f, pageCount))
  BY <1>1, MapInLists
<1> QED BY <1>5, <1>6, OneListing

-----------------------------------------------------------------------------
(* What is shown of the pages. *)

\* While the flag is down the metadata file gives the maps in memory back.
LEMMA StoredIsMapped ==
  ASSUME MapsInv, FlagInv, WholeMetadata, ~metadataUpdated, pc \notin {"down", "deleting"},
         Known = 0 .. pageCount - 1, NEW f \in Files
  PROVE  StoredMap(f) = metadata[f]
<1>1. metaFile.count = pageCount /\ \A p \in Known : Recorded(p)
  BY DEF FlagInv
<1> QED
  BY <1>1, MapReadBack DEF Recorded, StoredMap

\* With an empty queue every page is on disk.
LEMMA NoneDirty ==
  ASSUME TypeOK, WriteBack, pc # "down", dirtyQueue = <<>>, NEW p \in PageIds
  PROVE  DiskPage(p) = PageOf(p)
<1>1. cache[p].state # "dirty"
  BY DEF WriteBack, DirtyExactlyQueued
<1>2. CASE cache[p].state = "absent"
  BY <1>2 DEF PageOf
<1>3. CASE cache[p].state = "clean"
  BY <1>3 DEF PageOf, DiskPage, WriteBack, CleanOnDisk
<1> QED
  BY <1>1, <1>2, <1>3 DEF TypeOK, Frames

\* A physical page has one place in one file.
LEMMA OnePlace ==
  ASSUME MapsInv, pc # "down", NEW f \in Files, NEW g \in Files,
         NEW j \in DOMAIN metadata[f], NEW k \in DOMAIN metadata[g],
         metadata[f][j] = metadata[g][k]
  PROVE  f = g /\ j = k
<1>1. metadata[f][j] \in Owned(f) /\ metadata[g][k] \in Owned(g)
  BY DEF Owned
<1>2. f = g
  BY <1>1 DEF MapsInv, PagePartition
<1>3. PICK s \in Seq(PageIds) : s = metadata[f]
  BY DEF MapsInv, TypeOK
<1>4. j \in DOMAIN s /\ k \in DOMAIN s /\ s[j] = s[k] /\ s[j] \in Nat
  <2>1. j \in DOMAIN s /\ k \in DOMAIN s /\ s[j] = s[k]
    BY <1>2, <1>3
  <2>2. s[j] \in PageIds
    BY <1>3, <2>1
  <2> QED
    BY <2>1, <2>2 DEF PageIds
<1>5. ~(j < k) /\ ~(k < j)
  BY <1>2, <1>3, <1>4 DEF MapsInv, AscendingMaps
<1> QED
  BY <1>2, <1>4, <1>5

\* As long as no page of a file changes, nothing that is shown of it does.
LEMMA MemoryKept ==
  ASSUME MapsInv, Up, Up', UNCHANGED metadata, NEW f \in Files, NEW i \in FileIds,
         pc' = "deleting" /\ call'.file = f <=> pc = "deleting" /\ call.file = f,
         \A k \in DOMAIN metadata[f] : PageOf(metadata[f][k])' = PageOf(metadata[f][k])
  PROVE  Shown(f, i)' = Shown(f, i)
<1>1. i < Len(metadata[f]) => i + 1 \in DOMAIN metadata[f]
  BY DEF MapsInv, TypeOK, FileIds
<1> QED
  BY <1>1 DEF Shown, MemoryView, MapsInv, TypeOK, FileIds

LEMMA AllKept ==
  ASSUME MapsInv, Up, Up', UNCHANGED metadata,
         ~(pc = "deleting" /\ pc' # "deleting"), ~(pc # "deleting" /\ pc' = "deleting"),
         pc = "deleting" => call'.file = call.file,
         \A p \in PageIds : PageOf(p)' = PageOf(p),
         NEW f \in Files, NEW i \in FileIds
  PROVE  Shown(f, i)' = Shown(f, i)
<1>1. \A k \in DOMAIN metadata[f] : metadata[f][k] \in PageIds
  BY DEF MapsInv, TypeOK
<1>2. \A k \in DOMAIN metadata[f] : PageOf(metadata[f][k])' = PageOf(metadata[f][k])
  BY <1>1 DEF PageOf, DiskPage, OnDisk
<1> QED
  BY <1>2, MemoryKept

\* The view changes only as what is shown.
LEMMA SameView ==
  ASSUME ~crashed, ~crashed', \A f \in Files, i \in FileIds : Shown(f, i)' = Shown(f, i)
  PROVE  UNCHANGED Store!vars
BY DEF View, Store!vars

-----------------------------------------------------------------------------
(* Requests. *)

\* A client asks for a page within the bound.
CallInv == pc = "retrieving" => call.id \in FileIds

LEMMA CallStep ==
  ASSUME CallInv, [Next]_vars
  PROVE  CallInv'
<1>1. ASSUME NEW op, NEW f, NEW i \in FileIds, NEW v, Request(op, f, i, v)
      PROVE  CallInv'
  BY <1>1 DEF Request, CallInv
<1>2. CASE ExtendFile
  BY <1>2 DEF ExtendFile, CallInv
<1>3. CASE UNCHANGED vars
  BY <1>3 DEF CallInv, vars
<1>4. ASSUME pc' # "retrieving" PROVE CallInv'
  BY <1>4 DEF CallInv
<1>5. CASE Start \/ LoadDone \/ (\E f \in Files : DeleteFile(f)) \/ EndStatement \/ InputArrives
  BY <1>4, <1>5 DEF Start, LoadDone, DeleteFile, EndStatement, InputArrives
<1>6. CASE LoadPage \/ DeletePage
  BY <1>4, <1>6 DEF LoadPage, DeletePage
<1>7. CASE ExtendFileAborts \/ Crash \/ ServePage \/ DeleteDone
  BY <1>4, <1>7 DEF ExtendFileAborts, Crash, Dies, ServePage, DeleteDone
<1>8. CASE FlushOne \/ NothingToFlush \/ MetadataUpToDate \/ FlushHeader \/ FlushOwners
  BY <1>4, <1>8 DEF FlushOne, NothingToFlush, MetadataUpToDate, FlushHeader, FlushOwners, Flushed
<1> QED
  BY <1>1, <1>2, <1>3, <1>5, <1>6, <1>7, <1>8 DEF Next, Load, Client, Serve, Flush

\* A page that a file is given is shown as it was not there: as zeros.
LEMMA ExtendFileKeeps ==
  ASSUME MapsInv, FreshPagesZero, ~crashed, ExtendFile, NEW f \in Files, NEW i \in FileIds
  PROVE  Shown(f, i)' = Shown(f, i)
<1>1. PICK g \in Files : g = call.file
  BY DEF ExtendFile, MapsInv, TypeOK, Calls
<1>2. PICK p \in PageIds : /\ getFreePage(g, p)
                           /\ metadata' = [metadata EXCEPT ![g] = Append(@, p)]
  BY <1>1 DEF ExtendFile
<1>3. Up /\ Up' /\ pc # "deleting" /\ pc' # "deleting" /\ UNCHANGED <<cache, disk>>
  BY DEF ExtendFile, Up, cacheVars, diskVars
<1>4. PageOf(p) = Zero
  <2>1. p \in deletedPages \/ pageCount <= p
    BY <1>2 DEF getFreePage, Reusable, PageIds
  <2> QED
    BY <1>3, <2>1 DEF FreshPagesZero
<1>5. \A q : PageOf(q)' = PageOf(q)
  BY <1>3 DEF PageOf, DiskPage, OnDisk
<1>6. PICK s \in Seq(PageIds) : s = metadata[f]
  BY DEF MapsInv, TypeOK
<1>7. CASE f # g
  <2>1. metadata'[f] = s
    BY <1>2, <1>6, <1>7 DEF MapsInv, TypeOK
  <2> QED
    BY <1>3, <1>5, <1>6, <2>1 DEF Shown, MemoryView, PageOf, DiskPage, OnDisk
<1>8. CASE f = g
  <2>1. metadata'[f] = Append(s, p)
    BY <1>2, <1>6, <1>8 DEF MapsInv, TypeOK
  <2>2. /\ Len(s) \in Nat /\ Len(Append(s, p)) = Len(s) + 1
        /\ \A k \in 1 .. Len(s) : Append(s, p)[k] = s[k]
        /\ Append(s, p)[Len(s) + 1] = p
    OBVIOUS
  <2>3. i \in Nat
    BY DEF FileIds
  <2>4. Shown(f, i) = IF i >= Len(s) THEN Zero ELSE PageOf(s[i + 1])
    BY <1>3, <1>6 DEF Shown, MemoryView
  <2>5. Shown(f, i)' = IF i >= Len(s) + 1 THEN Zero ELSE PageOf(Append(s, p)[i + 1])
    BY <1>3, <2>1, <2>2 DEF Shown, MemoryView, PageOf, DiskPage, OnDisk
  <2>6. CASE i < Len(s)
    BY <2>2, <2>3, <2>4, <2>5, <2>6
  <2>7. CASE i = Len(s)
    BY <1>4, <2>2, <2>3, <2>4, <2>5, <2>7
  <2>8. CASE i > Len(s)
    BY <2>2, <2>3, <2>4, <2>5, <2>8
  <2> QED
    BY <2>2, <2>3, <2>6, <2>7, <2>8
<1> QED
  BY <1>7, <1>8

\* The pages of a file that is being deleted are no others'.
LEMMA DeletePageKeeps ==
  ASSUME MapsInv, DeletePage, NEW f \in Files, NEW i \in FileIds
  PROVE  Shown(f, i)' = Shown(f, i)
<1>1. PICK g \in Files : g = call.file
  BY DEF DeletePage, MapsInv, TypeOK, Calls
<1>2. /\ Up /\ Up' /\ pc = "deleting" /\ pc' = "deleting" /\ call'.file = g
      /\ UNCHANGED <<metadata, disk>>
  BY <1>1 DEF DeletePage, Up, diskVars, MapsInv, TypeOK, Calls
<1>3. PICK n \in DOMAIN metadata[g] : TruePage = metadata[g][n]
  BY <1>1 DEF DeletePage, TruePage, MapsInv, TypeOK, Calls
<1>4. CASE f = g
  BY <1>1, <1>2, <1>4 DEF Shown, MemoryView
<1>5. CASE f # g
  <2>1. \A k \in DOMAIN metadata[f] : metadata[f][k] # TruePage /\ metadata[f][k] \in PageIds
    BY <1>2, <1>3, <1>5, OnePlace DEF MapsInv, TypeOK
  <2>2. \A q \in PageIds : q # TruePage => cache'[q] = cache[q]
    BY DEF DeletePage, PutFrame, MapsInv, TypeOK
  <2>3. \A k \in DOMAIN metadata[f] : PageOf(metadata[f][k])' = PageOf(metadata[f][k])
    BY <1>2, <2>1, <2>2 DEF PageOf, DiskPage, OnDisk
  <2> QED
    BY <1>1, <1>2, <1>5, <2>3, MemoryKept
<1> QED
  BY <1>4, <1>5

\* A page that is read is the one that is shown, a page that is written is shown
\* from then on, and no other page is concerned.
LEMMA ServePageServes ==
  ASSUME MapsInv, CallInv, ServePage, ~crashed
  PROVE  \/ \A f \in Files, i \in FileIds : Shown(f, i)' = Shown(f, i)
         \/ Store!Write(call.file, call.id, call.data)
<1>1. PICK g \in Files : g = call.file
  BY DEF ServePage, MapsInv, TypeOK, Calls
<1>2. PICK n \in Nat : n = call.id
  BY DEF ServePage, MapsInv, TypeOK, Calls
<1>3. /\ Up /\ Up' /\ pc # "deleting" /\ pc' # "deleting" /\ pc = "retrieving"
      /\ UNCHANGED <<metadata, disk>> /\ ~crashed' /\ n \in FileIds
  BY <1>2 DEF ServePage, Up, fileVars, diskVars, runVars, CallInv
<1>4. PICK t \in PageIds : t = TruePage /\ t = metadata[g][n + 1] /\ n + 1 \in DOMAIN metadata[g]
  BY <1>1, <1>2 DEF ServePage, TruePage, MapsInv, TypeOK
<1>5. /\ cache'[t] = ServedFrame
      /\ \A q \in PageIds : q # t => cache'[q] = cache[q]
  BY <1>4 DEF ServePage, PutFrame, MapsInv, TypeOK
<1>6. \A q \in PageIds : q # t => PageOf(q)' = PageOf(q)
  BY <1>3, <1>5 DEF PageOf, DiskPage, OnDisk
<1>7. CASE call.op # "write"
  <2>1. PageOf(t)' = PageOf(t)
    <3>1. cache'[t] = Fetched(t)
      BY <1>4, <1>5, <1>7 DEF ServedFrame
    <3>2. Fetched(t).state # "absent"
      BY FetchedType DEF MapsInv
    <3>3. Fetched(t).page = PageOf(t)
      BY DEF Fetched, PageOf
    <3> QED
      BY <3>1, <3>2, <3>3 DEF PageOf
  <2>2. \A q \in PageIds : PageOf(q)' = PageOf(q)
    BY <1>6, <2>1
  <2> QED
    BY <1>3, <2>2, AllKept
<1>8. CASE call.op = "write"
  <2>1. PageOf(t)' = call.data
    BY <1>5, <1>8 DEF ServedFrame, PageOf
  <2>2. Shown(g, n)' = call.data
    <3>1. ~(n >= Len(metadata[g]))
      BY <1>1, <1>2, <1>4 DEF ServePage, MapsInv, TypeOK
    <3>2. PageOf(metadata[g][n + 1])' = PageOf(t)'
      BY <1>3, <1>4 DEF PageOf, DiskPage, OnDisk
    <3> QED
      BY <1>3, <2>1, <3>1, <3>2 DEF Shown, MemoryView
  <2>3. ASSUME NEW f \in Files, NEW i \in FileIds, f # g \/ i # n
        PROVE  Shown(f, i)' = Shown(f, i)
    <3>1. i \in Nat /\ (i < Len(metadata[f]) => i + 1 \in DOMAIN metadata[f])
      BY DEF MapsInv, TypeOK, FileIds
    <3>2. CASE i >= Len(metadata[f])
      BY <1>3, <3>2 DEF Shown, MemoryView
    <3>3. CASE i < Len(metadata[f])
      <4>1. metadata[f][i + 1] \in PageIds /\ metadata[f][i + 1] # t
        <5>1. i + 1 # n + 1 \/ f # g
          BY <2>3, <3>1
        <5> QED
          BY <1>3, <1>4, <3>1, <3>3, <5>1, OnePlace DEF MapsInv, TypeOK
      <4>2. PageOf(metadata[f][i + 1])' = PageOf(metadata[f][i + 1])
        BY <1>3, <1>6, <4>1 DEF PageOf, DiskPage, OnDisk
      <4> QED
        BY <1>3, <3>1, <3>3, <4>2 DEF Shown, MemoryView, MapsInv, TypeOK
    <3> QED
      BY <3>1, <3>2, <3>3 DEF MapsInv, TypeOK
  <2>4. View' = [View EXCEPT ![g][n] = call.data]
    <3>1. View = [f \in Files |-> [i \in FileIds |-> Shown(f, i)]]
      BY DEF View
    <3>2. View' = [f \in Files |-> [i \in FileIds |-> Shown(f, i)']]
      BY <1>3 DEF View
    <3> QED
      BY <1>3, <2>2, <2>3, <3>1, <3>2
  <2> QED
    BY <1>1, <1>2, <1>3, <2>4 DEF Store!Write
<1> QED
  BY <1>7, <1>8

-----------------------------------------------------------------------------
(* Starting and ending. *)

\* A process that ends has written what is shown: all pages, and a metadata file
\* that is neither torn nor behind.
LEMMA EndKeeps ==
  ASSUME MapsInv, FlagInv, WriteBack, Up, pc' = "down", dirtyQueue = <<>>, UNCHANGED disk,
         pc # "deleting", NEW f \in Files, NEW i \in FileIds, StoredMap(f)' = metadata[f]
  PROVE  Shown(f, i)' = Shown(f, i)
<1>1. PICK s \in Seq(PageIds) : s = metadata[f]
  BY DEF MapsInv, TypeOK
<1>2. i < Len(s) => s[i + 1] \in PageIds
  BY DEF FileIds
<1>3. i < Len(s) => DiskPage(s[i + 1]) = PageOf(s[i + 1])
  BY <1>2, NoneDirty DEF Up, MapsInv
<1>4. Shown(f, i) = IF i >= Len(s) THEN Zero ELSE PageOf(s[i + 1])
  BY <1>1 DEF Shown, MemoryView
<1>5. Shown(f, i)' = IF i >= Len(s) THEN Zero ELSE DiskPage(s[i + 1])
  BY <1>1 DEF Shown, StoredView, Up, DiskPage, OnDisk
<1> QED
  BY <1>3, <1>4, <1>5 DEF FileIds

LEMMA MetadataUpToDateKeeps ==
  ASSUME MapsInv, FlagInv, WriteBack, ZeroInv, ~crashed, MetadataUpToDate,
         NEW f \in Files, NEW i \in FileIds
  PROVE  Shown(f, i)' = Shown(f, i)
<1>1. /\ Up /\ pc = "header" /\ ~metadataUpdated /\ UNCHANGED <<metadata, cache, disk, metaFile>>
      /\ pc' = IF closing THEN "down" ELSE "prompt"
  BY DEF MetadataUpToDate, Up, Flushed, fileVars, cacheVars, diskVars
<1>2. CASE closing
  <2>1. dirtyQueue = <<>> /\ WholeMetadata
    BY <1>1, <1>2 DEF ZeroInv
  <2>2. StoredMap(f) = metadata[f]
    BY <1>1, <2>1, StoredIsMapped DEF Known
  <2>3. StoredMap(f)' = metadata[f]
    BY <1>1, <2>2 DEF StoredMap
  <2> QED
    BY <1>1, <1>2, <2>1, <2>3, EndKeeps
<1>3. CASE ~closing
  <2>1. \A q \in PageIds : PageOf(q)' = PageOf(q)
    BY <1>1 DEF PageOf, DiskPage, OnDisk
  <2> QED
    BY <1>1, <1>3, <2>1, AllKept DEF Up
<1> QED
  BY <1>2, <1>3

LEMMA FlushOwnersKeeps ==
  ASSUME MapsInv, FlagInv, WriteBack, ZeroInv, ~crashed, FlushOwners,
         NEW f \in Files, NEW i \in FileIds
  PROVE  Shown(f, i)' = Shown(f, i)
<1>1. /\ Up /\ pc = "owners" /\ UNCHANGED <<metadata, cache, disk>>
      /\ metaFile' = [metaFile EXCEPT !.owners = [k \in 1 .. pageCount |-> OwnerOf(k - 1)]]
      /\ pc' = IF closing THEN "down" ELSE "prompt"
  BY DEF FlushOwners, Up, Flushed, cacheVars
<1>2. CASE closing
  <2>1. dirtyQueue = <<>>
    BY <1>1, <1>2 DEF ZeroInv
  <2>2. PICK file : file = metaFile'
    OBVIOUS
  <2>3. file.count = pageCount /\ file.owners = [k \in 1 .. pageCount |-> OwnerOf(k - 1)]
    BY <1>1, <2>2 DEF FlagInv, MapsInv, TypeOK
  <2>4. Known = 0 .. pageCount - 1
    BY <1>1 DEF Known
  <2>5. ASSUME NEW p \in 0 .. pageCount - 1
        PROVE  file.owners[p + 1] = f <=> p \in Owned(f)
    <3>1. p + 1 \in 1 .. pageCount /\ (p + 1) - 1 = p
      BY <2>5 DEF MapsInv, TypeOK
    <3>2. file.owners[p + 1] = OwnerOf(p)
      BY <2>3, <3>1
    <3> QED
      BY <1>1, <2>4, <3>2, OwnerOfIsRecorded DEF MapsInv
  <2>6. MapIn(file, f) = metadata[f]
    BY <1>1, <2>3, <2>4, <2>5, MapReadBack
  <2>7. StoredMap(f)' = metadata[f]
    BY <2>2, <2>6 DEF StoredMap
  <2> QED
    BY <1>1, <1>2, <2>1, <2>7, EndKeeps
<1>3. CASE ~closing
  <2>1. \A q \in PageIds : PageOf(q)' = PageOf(q)
    BY <1>1 DEF PageOf, DiskPage, OnDisk
  <2> QED
    BY <1>1, <1>3, <2>1, AllKept DEF Up
<1> QED
  BY <1>2, <1>3

\* The constructor finds what the destructor left.
LEMMA LoadDoneKeeps ==
  ASSUME MapsInv, FlagInv, ZeroInv, ~crashed, LoadDone, NEW f \in Files, NEW i \in FileIds
  PROVE  Shown(f, i)' = Shown(f, i)
<1>1. /\ pc = "loading" /\ pc' = "serving" /\ loaded = pageCount /\ ~metadataUpdated
      /\ UNCHANGED <<metadata, cache, disk, metaFile>>
  BY DEF LoadDone, FlagInv, fileVars, cacheVars, diskVars
<1>2. WholeMetadata /\ \A p \in PageIds : cache[p].state = "absent"
  BY <1>1 DEF ZeroInv
<1>3. StoredMap(f) = metadata[f]
  BY <1>1, <1>2, StoredIsMapped DEF Known
<1>4. PICK s \in Seq(PageIds) : s = metadata[f]
  BY DEF MapsInv, TypeOK
<1>5. i < Len(s) => s[i + 1] \in PageIds
  BY DEF FileIds
<1>6. i < Len(s) => PageOf(s[i + 1]) = DiskPage(s[i + 1])
  BY <1>2, <1>5 DEF PageOf
<1>7. Shown(f, i) = IF i >= Len(s) THEN Zero ELSE DiskPage(s[i + 1])
  BY <1>1, <1>3, <1>4 DEF Shown, StoredView, Up
<1>8. Shown(f, i)' = IF i >= Len(s) THEN Zero ELSE PageOf(s[i + 1])
  BY <1>1, <1>4 DEF Shown, MemoryView, Up, PageOf, DiskPage, OnDisk
<1> QED
  BY <1>6, <1>7, <1>8 DEF FileIds

-----------------------------------------------------------------------------
(* The refinement. *)

\* Nothing makes the store reliable again.
LEMMA CrashesStay ==
  ASSUME [Next]_vars
  PROVE  crashed => crashed'
BY DEF Next, vars, Start, Load, LoadPage, LoadDone, Client, Request, DeleteFile, EndStatement,
       InputArrives, Serve, ExtendFile, ExtendFileAborts, ServePage, DeletePage, DeleteDone, Flush,
       FlushOne, NothingToFlush, MetadataUpToDate, FlushHeader, FlushOwners, Crash, Dies, runVars

LEMMA DeleteFileDeletes ==
  ASSUME MapsInv, ~crashed, NEW g \in Files, DeleteFile(g)
  PROVE  Store!Delete(g)
<1>1. /\ Up /\ Up' /\ pc # "deleting" /\ pc' = "deleting" /\ call'.file = g /\ ~crashed'
      /\ UNCHANGED <<metadata, cache, disk>>
  BY DEF DeleteFile, Up, fileVars, cacheVars, diskVars, runVars
<1>2. \A i \in FileIds : Shown(g, i)' = Zero
  BY <1>1 DEF Shown, MemoryView
<1>3. ASSUME NEW f \in Files, f # g, NEW i \in FileIds
      PROVE  Shown(f, i)' = Shown(f, i)
  <2>1. \A k \in DOMAIN metadata[f] : PageOf(metadata[f][k])' = PageOf(metadata[f][k])
    BY <1>1 DEF PageOf, DiskPage, OnDisk
  <2> QED
    BY <1>1, <1>3, <2>1, MemoryKept
<1>4. View = [f \in Files |-> [i \in FileIds |-> Shown(f, i)]]
  BY DEF View
<1>5. View' = [f \in Files |-> [i \in FileIds |-> Shown(f, i)']]
  BY <1>1 DEF View
<1>6. View' = [View EXCEPT ![g] = Store!Empty[g]]
  BY <1>2, <1>3, <1>4, <1>5 DEF Store!Empty
<1> QED
  BY <1>1, <1>6 DEF Store!Delete

LEMMA StoreStep ==
  ASSUME FALSE \notin FlushOneResults, MapsInv, FlagInv, WriteBack, ZeroInv, CallInv, [Next]_vars
  PROVE  [Store!Next]_Store!vars
<1>1. CASE crashed
  <2>1. crashed'
    BY <1>1, CrashesStay
  <2> QED
    BY <1>1, <2>1 DEF View, Store!vars
<1>2. CASE ~crashed /\ crashed'
  <2>1. View' = [f \in Files |-> [i \in FileIds |-> Zero]]
    BY <1>2 DEF View
  <2>2. Store!Unreliable
    BY <1>2, <2>1, ContentsAssumption DEF Store!Unreliable, Store!Views
  <2> QED
    BY <2>2 DEF Store!Next
<1>3. CASE ~crashed /\ ~crashed'
  <2> DEFINE Kept == \A f \in Files, i \in FileIds : Shown(f, i)' = Shown(f, i)
  <2>1. Kept => [Store!Next]_Store!vars
    BY <1>3, SameView
  <2>2. ASSUME ~Up, ~Up', UNCHANGED diskVars
        PROVE  Kept
    BY <2>2 DEF Shown, StoredView, StoredMap, DiskPage, OnDisk, diskVars
  <2>3. CASE Start \/ LoadPage
    BY <2>1, <2>2, <2>3 DEF Start, LoadPage, Up
  <2>4. CASE LoadDone
    BY <1>3, <2>1, <2>4, LoadDoneKeeps
  <2>5. ASSUME Up, Up', pc # "deleting", pc' # "deleting", UNCHANGED <<metadata, cache, disk>>
        PROVE  Kept
    <3>1. \A p \in PageIds : PageOf(p)' = PageOf(p)
      BY <2>5 DEF PageOf, DiskPage, OnDisk
    <3> QED
      BY <2>5, <3>1, AllKept
  <2>6. ASSUME NEW op, NEW f \in Files, NEW i, NEW v, Request(op, f, i, v)
        PROVE  [Store!Next]_Store!vars
    BY <2>1, <2>5, <2>6 DEF Request, Up, fileVars, cacheVars, diskVars
  <2>7. ASSUME NEW f \in Files, DeleteFile(f)
        PROVE  [Store!Next]_Store!vars
    <3>1. Store!Delete(f)
      BY <1>3, <2>7, DeleteFileDeletes
    <3> QED
      BY <3>1 DEF Store!Next
  <2>8. CASE EndStatement \/ InputArrives
    BY <2>1, <2>5, <2>8 DEF EndStatement, InputArrives, Up, fileVars, cacheVars, diskVars
  <2>9. CASE ExtendFile
    BY <1>3, <2>1, <2>9, ExtendFileKeeps DEF ZeroInv
  <2>10. CASE ExtendFileAborts \/ Crash
    BY <1>3, <2>10 DEF ExtendFileAborts, Crash, Dies
  <2>11. CASE ServePage
    <3>1. Kept \/ Store!Write(call.file, call.id, call.data)
      BY <1>3, <2>11, ServePageServes
    <3>2. call.file \in Files /\ call.id \in FileIds /\ call.data \in Contents
      BY <2>11 DEF ServePage, CallInv, MapsInv, TypeOK, Calls
    <3> QED
      BY <2>1, <3>1, <3>2 DEF Store!Next
  <2>12. CASE DeletePage
    BY <2>1, <2>12, DeletePageKeeps
  <2>13. CASE DeleteDone
    <3>1. PICK g \in Files : g = call.file
      BY <2>13 DEF DeleteDone, MapsInv, TypeOK, Calls
    <3>2. /\ Up /\ Up' /\ pc = "deleting" /\ pc' # "deleting" /\ UNCHANGED <<cache, disk>>
          /\ metadata' = [metadata EXCEPT ![g] = <<>>]
      BY <2>13, <3>1 DEF DeleteDone, Up, cacheVars, diskVars
    <3>3. ASSUME NEW i \in FileIds
          PROVE  Shown(g, i) = Zero /\ Shown(g, i)' = Zero
      BY <3>1, <3>2 DEF Shown, MemoryView, MapsInv, TypeOK, FileIds
    <3>4. ASSUME NEW f \in Files, f # g, NEW i \in FileIds
          PROVE  Shown(f, i)' = Shown(f, i)
      BY <3>1, <3>2, <3>4 DEF Shown, MemoryView, MapsInv, TypeOK, PageOf, DiskPage, OnDisk
    <3>5. Kept
      BY <3>3, <3>4
    <3> QED
      BY <2>1, <3>5
  <2>14. CASE FlushOne
    <3>1. Up /\ Up' /\ pc # "deleting" /\ pc' # "deleting" /\ UNCHANGED metadata
      BY <2>14 DEF FlushOne, Up, fileVars
    <3>2. \A p \in PageIds : PageOf(p)' = PageOf(p)
      BY <2>14, <3>1, FlushedPageKept DEF MapsInv, Up
    <3> QED
      BY <2>1, <3>1, <3>2, AllKept
  <2>15. CASE NothingToFlush \/ FlushHeader
    BY <2>1, <2>5, <2>15 DEF NothingToFlush, FlushHeader, Up, fileVars, cacheVars, diskVars
  <2>16. CASE MetadataUpToDate
    BY <1>3, <2>1, <2>16, MetadataUpToDateKeeps
  <2>17. CASE FlushOwners
    BY <1>3, <2>1, <2>17, FlushOwnersKeeps
  <2>18. CASE UNCHANGED vars
    <3>1. Kept
      BY <2>18 DEF vars, fileVars, cacheVars, diskVars, Shown, MemoryView, StoredView, StoredMap,
                   Up, PageOf, DiskPage, OnDisk
    <3> QED
      BY <2>1, <3>1
  <2> QED
    BY <2>3, <2>4, <2>6, <2>7, <2>8, <2>9, <2>10, <2>11, <2>12, <2>13, <2>14, <2>15, <2>16, <2>17,
       <2>18 DEF Next, Load, Client, Serve, Flush
<1> QED
  BY <1>1, <1>2, <1>3

LEMMA StoreInit == Init => Store!Init
<1> SUFFICES ASSUME Init PROVE Store!Init
  OBVIOUS
<1>1. metaFile.count = 0 /\ ~Up /\ ~crashed
  BY DEF Init, Up
<1>2. ASSUME NEW f \in Files, NEW i \in FileIds
      PROVE  Shown(f, i) = Zero
  <2>1. Lists(StoredMap(f), StoredPages(metaFile, f, 0))
    BY <1>1, MapInLists DEF StoredMap
  <2>2. DOMAIN StoredMap(f) = {} /\ StoredMap(f) \in Seq(Nat)
    BY <2>1 DEF Lists, StoredPages
  <2>3. Len(StoredMap(f)) = 0
    BY <2>2
  <2> QED
    BY <1>1, <2>3 DEF Shown, StoredView, FileIds
<1> QED
  BY <1>1, <1>2 DEF Store!Init, Store!Empty, View

\* PageManager implements PageStore if flushOne() says that it wrote a page: what
\* is read of any page of any file is what was last written there, until a process
\* is killed.
THEOREM StoreKept == FALSE \notin FlushOneResults /\ Spec => StoreSpec
<1> SUFFICES ASSUME FALSE \notin FlushOneResults
             PROVE  Spec => StoreSpec
  OBVIOUS
<1>1. Init => ZeroInv /\ CallInv
  BY DEF Init, ZeroInv, CallInv, WholeMetadata, RecordedFree, DiskPage, OnDisk, Up, FreshPagesZero
<1>2. MapsInv /\ FlagInv /\ WriteBack /\ ZeroInv /\ [Next]_vars => ZeroInv'
  BY ZeroStep
<1>3. CallInv /\ [Next]_vars => CallInv'
  BY CallStep
<1>4. MapsInv /\ FlagInv /\ WriteBack /\ ZeroInv /\ CallInv /\ [Next]_vars => [Store!Next]_Store!vars
  BY StoreStep
<1> QED
  BY <1>1, <1>2, <1>3, <1>4, StoreInit, FlagInvariant, WriteBackInvariant, PTL
     DEF Spec, StoreSpec, Store!Spec
=============================================================================
