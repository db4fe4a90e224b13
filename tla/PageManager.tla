----------------------------- MODULE PageManager -----------------------------
(***************************************************************************)
(* The paged store of SmallQL: PageManager.{h,cpp} together with the loop  *)
(* of main() that drives it.                                               *)
(*                                                                         *)
(* Every virtual file (a table, an index, the blob store) is a vector of   *)
(* physical pages of one big file.  The vectors, the set of deleted pages  *)
(* and the page count live in memory; a metadata file records, for each    *)
(* physical page, only the file that owns it.  A page stays cached once    *)
(* read; changed, it is queued and written back, one page at a time, while *)
(* the program waits for the next statement, and by the destructor.        *)
(*                                                                         *)
(* A C++ loop is one step per iteration, so that the process may die       *)
(* between any two of them.  What is in memory is left as it is when the   *)
(* process ends; Start forgets it.  The thread that reads the user's input *)
(* shares no state with the one modelled here.                             *)
(***************************************************************************)
EXTENDS Integers, Sequences, FiniteSets

CONSTANTS
  Files,            \* virtual file ids
  DELETED,          \* DELETED_FILE_ID, the owner of a page that is free
  Contents,         \* what a page may hold
  Zero,             \* the page of zero bytes
  MaxPages,         \* bound: pages the big file may grow to
  MaxFilePages,     \* bound: pages a client asks of one file
  FlushOneResults,  \* what flushOne() may return when it falls off its end
  Crashes           \* whether the process may be killed

ASSUME FilesAssumption == DELETED \notin Files
ASSUME ContentsAssumption == Zero \in Contents
ASSUME BoundsAssumption == MaxPages \in Nat /\ MaxFilePages \in Nat
ASSUME FlushOneAssumption == FlushOneResults \in SUBSET BOOLEAN
ASSUME CrashesAssumption == Crashes \in BOOLEAN

VARIABLES
  metadata,         \* file -> its physical pages, in order (<<>>: no entry)
  deletedPages,     \* physical pages that getFreePage may hand out again
  pageCount,        \* physical pages allotted so far
  metadataUpdated,  \* the metadata file is out of date
  cache,            \* physical page -> cached frame
  dirtyQueue,       \* physical pages to write back, oldest first
  disk,             \* the big file: a sequence of page contents
  metaFile,         \* the metadata file: the page count and the pages' owners
  pc,               \* where the process is
  call,             \* the page request being served
  loaded,           \* pages the constructor has read from the metadata file
  closing,          \* the destructor is running
  crashed           \* history: the process once died without its destructor

fileVars == <<metadata, deletedPages, pageCount, metadataUpdated>>
cacheVars == <<cache, dirtyQueue>>
diskVars == <<disk, metaFile>>
runVars == <<loaded, closing, crashed>>
vars == <<fileVars, cacheVars, diskVars, pc, call, runVars>>

PageIds == 0 .. MaxPages - 1
FileIds == 0 .. MaxFilePages - 1        \* page numbers inside a file
Owners == Files \cup {DELETED}

Frames == [page : Contents, state : {"absent", "clean", "dirty"}]
Absent == [page |-> Zero, state |-> "absent"]
Calls == [op : {"read", "write", "delete"}, file : Files, id : Nat, data : Contents]
NoCall == [op |-> "none"]

Up == pc \notin {"down", "loading"}
Dies == pc' = "down" /\ call' = NoCall /\ crashed' = TRUE

-----------------------------------------------------------------------------
(* Pages, their owners, and what the big file holds. *)

Owned(f) == {metadata[f][k] : k \in DOMAIN metadata[f]}

\* What flushMetadata() records for page p: deletedPages is written last.
OwnerOf(p) ==
  IF p \in deletedPages THEN DELETED ELSE CHOOSE f \in Files : p \in Owned(f)

\* fread() past the end of the big file finds nothing, fwrite() there leaves
\* a hole of zero bytes.
OnDisk(p) == p < Len(disk)
DiskPage(p) == IF OnDisk(p) THEN disk[p + 1] ELSE Zero
WriteWithoutSeek(p, page) == Append(disk, page)                       \* mutant
DiskAfterWrite(p, page) ==
  [k \in 1 .. (IF OnDisk(p) THEN Len(disk) ELSE p + 1) |->
     IF k = p + 1 THEN page ELSE DiskPage(k - 1)]

FetchedClean(p) ==                                                     \* mutant
  IF cache[p].state # "absent" THEN cache[p] ELSE [page |-> DiskPage(p), state |-> "clean"]
\* retrieve() leaves this frame for p: a page past the end is born dirty.
Fetched(p) ==
  IF cache[p].state # "absent" THEN cache[p]
  ELSE [page |-> DiskPage(p), state |-> IF OnDisk(p) THEN "clean" ELSE "dirty"]

QueueAlways(p, frame) ==                                               \* mutant
  IF frame.state = "dirty" THEN Append(dirtyQueue, p) ELSE dirtyQueue
\* A page is queued when it becomes dirty, not when it is changed again.
QueueAfter(p, frame) ==
  IF frame.state = "dirty" /\ cache[p].state # "dirty"
  THEN Append(dirtyQueue, p) ELSE dirtyQueue

PutFrame(p, frame) ==
  /\ cache' = [cache EXCEPT ![p] = frame]
  /\ dirtyQueue' = QueueAfter(p, frame)

-----------------------------------------------------------------------------
(* The constructor reads the metadata file. *)

Init ==
  /\ metadata = [f \in Files |-> <<>>]
  /\ deletedPages = {}
  /\ pageCount = 0
  /\ metadataUpdated = FALSE
  /\ cache = [p \in PageIds |-> Absent]
  /\ dirtyQueue = <<>>
  /\ disk = <<>>
  /\ metaFile = [count |-> 0, owners |-> <<>>]
  /\ pc = "down"
  /\ call = NoCall
  /\ loaded = 0
  /\ closing = FALSE
  /\ crashed = FALSE

Start ==
  /\ pc = "down"
  /\ metadata' = [f \in Files |-> <<>>]
  /\ deletedPages' = {}
  /\ pageCount' = metaFile.count
  /\ metadataUpdated' = FALSE
  /\ cache' = [p \in PageIds |-> Absent]
  /\ dirtyQueue' = <<>>
  /\ pc' = "loading"
  /\ loaded' = 0
  /\ closing' = FALSE
  /\ UNCHANGED <<diskVars, call, crashed>>

OnePageMore == loaded <= pageCount                                     \* mutant
PagesLeft == loaded < pageCount

\* One iteration of its loop.  The file may hold fewer owners than it counts
\* (the process died between the two writes of flushMetadata): the buffer is
\* then read past its end and the owner is whatever is there.
LoadPage ==
  /\ pc = "loading"
  /\ PagesLeft
  /\ \E owner \in Owners :
       /\ loaded < Len(metaFile.owners) => owner = metaFile.owners[loaded + 1]
       /\ deletedPages' = deletedPages \cup (IF owner = DELETED THEN {loaded} ELSE {})
       /\ metadata' = [f \in Files |->
                         IF f = owner THEN Append(metadata[f], loaded) ELSE metadata[f]]
  /\ loaded' = loaded + 1
  /\ UNCHANGED <<pageCount, metadataUpdated, cacheVars, diskVars, pc, call, closing, crashed>>

LoadDone ==
  /\ pc = "loading"
  /\ loaded = pageCount
  /\ pc' = "serving"
  /\ UNCHANGED <<fileVars, cacheVars, diskVars, call, runVars>>

-----------------------------------------------------------------------------
(* Page requests.  retrieve() returns a pointer into the cache.  The only  *)
(* writer through it is TransactionManager::commit(), which copies a page  *)
(* over it and then calls update(): that is the request "write".           *)

TruePage == metadata[call.file][call.id + 1]

\* The big file can grow to hold page i of file f within the bound MaxPages.
WithinBound(f, i) ==
  pageCount + i + 1 - Len(metadata[f]) - Cardinality(deletedPages) <= MaxPages

Request(op, f, i, v) ==
  /\ pc = "serving"
  /\ WithinBound(f, i)
  /\ pc' = "retrieving"
  /\ call' = [op |-> op, file |-> f, id |-> i, data |-> v]
  /\ UNCHANGED <<fileVars, cacheVars, diskVars, runVars>>

ReuseAny(f) == deletedPages                                            \* mutant
\* The pages getFreePage may reuse for file f: a file's pages must ascend.
Reusable(f) == {p \in deletedPages : \A q \in Owned(f) : q < p}

ReuseTwice(f, p) ==                                                    \* mutant
  \/ deletedPages = {} /\ p = pageCount /\ pageCount' = pageCount + 1 /\ UNCHANGED deletedPages
  \/ p \in Reusable(f) /\ UNCHANGED <<deletedPages, pageCount>>
\* getFreePage() returns p to lengthen file f.
getFreePage(f, p) ==
  \/ /\ deletedPages = {}
     /\ p = pageCount
     /\ pageCount' = pageCount + 1
     /\ UNCHANGED deletedPages
  \/ /\ p \in Reusable(f)
     /\ \A q \in Reusable(f) : p <= q
     /\ deletedPages' = deletedPages \ {p}
     /\ UNCHANGED pageCount

NotMarked == UNCHANGED metadataUpdated                                 \* mutant
MarkUpdated == metadataUpdated' = TRUE

\* One iteration of the loop of retrieve() that lengthens the file.
ExtendFile ==
  /\ pc = "retrieving"
  /\ Len(metadata[call.file]) <= call.id
  /\ \E p \in PageIds :
       /\ getFreePage(call.file, p)
       /\ metadata' = [metadata EXCEPT ![call.file] = Append(@, p)]
  /\ MarkUpdated
  /\ UNCHANGED <<cacheVars, diskVars, pc, call, runVars>>

\* There are deleted pages but none above the file's last one: upper_bound()
\* is end(), which getFreePage dereferences.  The process aborts.
ExtendFileAborts ==
  /\ pc = "retrieving"
  /\ Len(metadata[call.file]) <= call.id
  /\ deletedPages # {}
  /\ Reusable(call.file) = {}
  /\ Dies
  /\ UNCHANGED <<fileVars, cacheVars, diskVars, loaded, closing>>

\* The frame that a request leaves in the cache.
ServedFrame ==
  IF call.op = "write" THEN [page |-> call.data, state |-> "dirty"] ELSE Fetched(TruePage)

ServePage ==
  /\ pc = "retrieving"
  /\ call.id < Len(metadata[call.file])
  /\ PutFrame(TruePage, ServedFrame)
  /\ pc' = "serving" /\ call' = NoCall
  /\ UNCHANGED <<fileVars, diskVars, runVars>>

\* deleteFile(): metadata.at() throws for a file without an entry, but every
\* caller has built the file's object, which retrieves its page 0.
DeleteFile(f) ==
  /\ pc = "serving"
  /\ metadata[f] # <<>>
  /\ pc' = "deleting"
  /\ call' = [op |-> "delete", file |-> f, id |-> 0, data |-> Zero]
  /\ UNCHANGED <<fileVars, cacheVars, diskVars, runVars>>

FreedFrame == [page |-> Fetched(TruePage).page, state |-> "dirty"]      \* mutant
\* The frame deleteFile leaves for the page it frees.
ZeroedFrame == [page |-> Zero, state |-> "dirty"]

\* One iteration of its loop: zero a page of the file and free it.
DeletePage ==
  /\ pc = "deleting"
  /\ call.id < Len(metadata[call.file])
  /\ PutFrame(TruePage, ZeroedFrame)
  /\ deletedPages' = deletedPages \cup {TruePage}
  /\ call' = [call EXCEPT !.id = @ + 1]
  /\ UNCHANGED <<metadata, pageCount, metadataUpdated, diskVars, pc, runVars>>

DeleteDone ==
  /\ pc = "deleting"
  /\ call.id = Len(metadata[call.file])
  /\ metadata' = [metadata EXCEPT ![call.file] = <<>>]
  /\ MarkUpdated
  /\ pc' = "serving" /\ call' = NoCall
  /\ UNCHANGED <<deletedPages, pageCount, cacheVars, diskVars, runVars>>

-----------------------------------------------------------------------------
(* The loop of main(): when a statement is done the next one is awaited,   *)
(* and dirty pages are flushed meanwhile; "exit" runs the destructors.     *)

EndStatement ==
  /\ pc = "serving"
  /\ pc' = "flushing"
  /\ closing' \in BOOLEAN           \* TRUE: the statement was "exit"
  /\ UNCHANGED <<fileVars, cacheVars, diskVars, call, loaded, crashed>>

InputArrives ==
  /\ pc \in {"flushing", "prompt"}
  /\ ~closing
  /\ pc' = "serving"
  /\ UNCHANGED <<fileVars, cacheVars, diskVars, call, runVars>>

LastOneLeft == Len(dirtyQueue) <= 1                                    \* mutant
QueueEmpty == dirtyQueue = <<>>

\* flushOne() with a page to write has no return statement, so its caller's
\* loop goes on or ends as the build happens to have it.
FlushOne ==
  LET p == Head(dirtyQueue) IN
  /\ pc = "flushing"
  /\ ~QueueEmpty
  /\ dirtyQueue' = Tail(dirtyQueue)
  /\ disk' = DiskAfterWrite(p, cache[p].page)
  /\ cache' = [cache EXCEPT ![p].state = "clean"]
  /\ \E flushed \in FlushOneResults : pc' = IF flushed THEN "flushing" ELSE "header"
  /\ UNCHANGED <<fileVars, metaFile, call, runVars>>

NothingToFlush ==
  /\ pc = "flushing"
  /\ QueueEmpty
  /\ pc' = "header"
  /\ UNCHANGED <<fileVars, cacheVars, diskVars, call, runVars>>

\* After flushMetadata() the loop waits for its input, or the process ends.
Flushed == pc' = IF closing THEN "down" ELSE "prompt"

MetadataUpToDate ==
  /\ pc = "header"
  /\ ~metadataUpdated
  /\ Flushed
  /\ UNCHANGED <<fileVars, cacheVars, diskVars, call, runVars>>

\* flushMetadata() writes the page count, seeks, and writes the owners: the
\* seek sends the first write to the file before the second.
FlushHeader ==
  /\ pc = "header"
  /\ metadataUpdated
  /\ metaFile' = [metaFile EXCEPT !.count = pageCount]
  /\ pc' = "owners"
  /\ UNCHANGED <<fileVars, cacheVars, disk, call, runVars>>

FlushOwners ==
  /\ pc = "owners"
  /\ metaFile' = [metaFile EXCEPT !.owners = [k \in 1 .. pageCount |-> OwnerOf(k - 1)]]
  /\ metadataUpdated' = FALSE
  /\ Flushed
  /\ UNCHANGED <<metadata, deletedPages, pageCount, cacheVars, disk, call, runVars>>

\* The process is killed: the files stay as they are.
Crash ==
  /\ Crashes
  /\ pc # "down"
  /\ Dies
  /\ UNCHANGED <<fileVars, cacheVars, diskVars, loaded, closing>>

-----------------------------------------------------------------------------
Load == LoadPage \/ LoadDone

Serve == ExtendFile \/ ExtendFileAborts \/ ServePage \/ DeletePage \/ DeleteDone

Flush == FlushOne \/ NothingToFlush \/ MetadataUpToDate \/ FlushHeader \/ FlushOwners

Client ==
  \/ \E f \in Files, i \in FileIds : Request("read", f, i, Zero)
  \/ \E f \in Files, i \in FileIds, v \in Contents : Request("write", f, i, v)
  \/ \E f \in Files : DeleteFile(f)
  \/ EndStatement \/ InputArrives

Next == Start \/ Load \/ Client \/ Serve \/ Flush \/ Crash

Spec == Init /\ [][Next]_vars

\* A process that has something to execute executes it; nobody promises that
\* the user types, or that a process that is down is started again.
FairSpec == Spec /\ WF_vars(Load) /\ WF_vars(Serve) /\ WF_vars(Flush)
-----------------------------------------------------------------------------
(* Properties. *)

TypeOK ==
  /\ metadata \in [Files -> Seq(PageIds)]
  /\ deletedPages \in SUBSET PageIds
  /\ pageCount \in 0 .. MaxPages
  /\ metadataUpdated \in BOOLEAN
  /\ cache \in [PageIds -> Frames]
  /\ dirtyQueue \in Seq(PageIds)
  /\ disk \in Seq(Contents)
  /\ metaFile \in [count : 0 .. MaxPages, owners : Seq(Owners)]
  /\ pc \in {"down", "loading", "serving", "retrieving", "deleting",
             "flushing", "header", "owners", "prompt"}
  /\ IF pc \in {"retrieving", "deleting"} THEN call \in Calls ELSE call = NoCall
  /\ loaded \in 0 .. MaxPages
  /\ pc = "loading" => loaded <= pageCount
  /\ pc = "deleting" => call.id <= Len(metadata[call.file])
  /\ closing \in BOOLEAN
  /\ crashed \in BOOLEAN

\* Pages the memory accounts for: while the constructor runs, those it read.
Known == 0 .. (IF pc = "loading" THEN loaded ELSE pageCount) - 1

\* Pages deleteFile has freed but not yet taken out of the file's vector.
BeingFreed ==
  IF pc = "deleting" THEN {metadata[call.file][k] : k \in 1 .. call.id} ELSE {}

\* No two files share a physical page, no page in use is handed out again, and
\* no page leaks, whatever sequence of growths, deletions, restarts and crashes
\* (even inside flushMetadata) led here.
PagePartition ==
  pc # "down" =>
    /\ \A f, g \in Files : f # g => Owned(f) \cap Owned(g) = {}
    /\ \A f \in Files : Owned(f) \cap deletedPages \subseteq BeingFreed
    /\ BeingFreed \subseteq deletedPages
    /\ deletedPages \cup UNION {Owned(f) : f \in Files} = Known

\* The metadata file keeps only the owner of each page, so the order of a
\* file's pages survives a restart only if it is the order of page numbers:
\* getFreePage must never reuse a page below the file's last one.
AscendingMaps ==
  pc # "down" =>
    \A f \in Files : \A j, k \in DOMAIN metadata[f] :
      j < k => metadata[f][j] < metadata[f][k]

\* The dirty bit and the write-back queue agree: a dirty page is queued once,
\* so flushOne neither forgets a page nor writes one twice.
DirtyExactlyQueued ==
  pc # "down" =>
    /\ \A j, k \in DOMAIN dirtyQueue : dirtyQueue[j] = dirtyQueue[k] => j = k
    /\ \A p \in PageIds :
         cache[p].state = "dirty" <=> \E k \in DOMAIN dirtyQueue : dirtyQueue[k] = p

\* A cached page that will not be written back is what the big file holds.
CleanOnDisk ==
  pc # "down" =>
    \A p \in PageIds : cache[p].state = "clean" => OnDisk(p) /\ disk[p + 1] = cache[p].page

\* metadataUpdated is raised by every change: while it is down the metadata
\* file, unless a crash left it torn, describes the memory.  (deleteFile
\* raises it only at its end.)
MetadataFlagSound ==
  Up /\ pc # "deleting" /\ ~metadataUpdated /\ Len(metaFile.owners) = metaFile.count =>
    /\ metaFile.count = pageCount
    /\ \A p \in 0 .. pageCount - 1 : metaFile.owners[p + 1] = OwnerOf(p)

\* A page about to be given to a file holds zeros, which is how the files'
\* constructors tell a file that is new; after a crash nothing is promised.
PageOf(p) == IF cache[p].state = "absent" THEN DiskPage(p) ELSE cache[p].page
FreshPagesZero ==
  Up /\ ~crashed =>
    \A p \in PageIds : p \in deletedPages \/ pageCount <= p => PageOf(p) = Zero

\* flushAll() writes every dirty page before the metadata: when the destructor
\* gets to the metadata file, no page is left in the queue.
FlushAllWritesEverything ==
  closing /\ pc \in {"header", "owners"} => dirtyQueue = <<>>

\* If the user lets the program idle, every dirty page and the metadata reach
\* the disk before the loop of main() blocks on its input.
IdleFlushes ==
  pc = "flushing" ~>
    \/ pc \in {"serving", "down"}
    \/ pc = "prompt" /\ dirtyQueue = <<>> /\ ~metadataUpdated
=============================================================================
