-------------------------------- MODULE Blobs --------------------------------
(***************************************************************************)
(* BlobManager.{h,cpp}: blobs of any length in the pages of one file.  A    *)
(* blob has a handle, an entry in an index page that says where it lies.    *)
(* It lies in a block of a data page, between two tags; what exceeds a page *)
(* is in a chain of overflow pages.  Free blocks have their size in their   *)
(* tags, by which a deletion finds them and joins them.                     *)
(*                                                                          *)
(* A page is the set of the pieces that were written on it; a read of bytes *)
(* that were written otherwise finds junk.  The counters of the header are  *)
(* kept apart (mem): the constructor keeps pointers into the copy of page 0 *)
(* of its own transaction, which main() ends before the first statement.    *)
(***************************************************************************)
EXTENDS Integers, Sequences, SequencesExt, FiniteSets, FiniteSetsExt

CONSTANTS
  Data,                  \* blobs, as records [value, size]
  handlesPerIndex,       \* 744
  indexesPerMasterIndex, \* 2047
  MaxHandles, MaxPages,  \* bounds
  Usages                 \* how the blobs are used, each a record [calls, ends]:
                         \* what is called, of "add", "write" and "delete", and how
                         \* transactions end, of "commit", "rollback" and "exit"

ASSUME DataAssumption == \A d \in Data : d.size \in Nat \ {0}
ASSUME SizesAssumption ==
  /\ handlesPerIndex \in Nat \ {0} /\ indexesPerMasterIndex \in 1..2047
  /\ MaxHandles \in Nat /\ MaxPages \in Nat \ {0, 1}

PAGE_SIZE == 8192
overflowSize == 8188
minFreeBytes == 8
NULL32 == -1             \* 2^32 - 1, here as a signed number
Used == 65535            \* the tag 0xFFFF of a block in use
Junk == -2
JunkBlob == [value |-> "junk", size |-> 0]

VARIABLES
  usage,    \* one of Usages
  mem,      \* what the BlobManager knows: counters, free blocks, index pages
  pages,    \* the pages as the open transaction sees them
  stored,   \* the committed pages
  orphan,   \* whether the transaction has an entry for page 0 without a copy
  status,   \* "up", "wild" after a step by junk or past a page, "dead" after
            \* an access to NULL
  reads     \* what readBlob() answers for every handle in use

vars == <<usage, mem, pages, stored, orphan, status, reads>>

PageIds == 0..(MaxPages + 4)  \* no call takes more than five
Statuses == {"up", "wild", "dead"}
Calls == usage.calls
Ends == usage.ends

-----------------------------------------------------------------------------
(* Bytes. *)

Overlap(p, at, len) == p.at < at + len /\ at < p.at + p.len
Wipe(pg, page, at, len) == [pg EXCEPT ![page] = {p \in @ : ~Overlap(p, at, len)}]
Put(pg, page, at, len, what) ==
  IF len = 0 THEN pg
  ELSE [Wipe(pg, page, at, len) EXCEPT ![page] = @ \cup {[at |-> at, len |-> len, what |-> what]}]

\* What is found at a place: a piece, what a page is filled with, or junk.
Get(pg, page, at, len, blank) ==
  LET here == {p \in pg[page] : Overlap(p, at, len)} IN
  IF here = {} THEN blank
  ELSE LET p == CHOOSE q \in here : TRUE
       IN IF p.at = at /\ p.len = len THEN p.what ELSE Junk

TagsInside(pg, page, at, size, tag) ==                                  \* mutant
  Put(Put(pg, page, at, 2, tag), page, at + size, 2, tag)
PutTags(pg, page, at, size, tag) ==
  Put(Put(pg, page, at, 2, tag), page, at + size + 2, 2, tag)
Tag(pg, page, at) == Get(pg, page, at, 2, 0)

-----------------------------------------------------------------------------
(* A state s of the two: [mem, pages, orphan, status]. *)

NewPage(s) == [s EXCEPT !.mem.pageCount = @ + 1]
Wild(s) == [s EXCEPT !.status = "wild"]

\* update(0), which enters a page that the transaction has no copy of.
UpdateHeader(s) == [s EXCEPT !.orphan = TRUE]

NoEntry == [status |-> 0, size |-> 0, page |-> 0, offset |-> 0]
EntryPage(s, id) == s.mem.index[(id \div handlesPerIndex) + 1]
EntryAt(id) == (id % handlesPerIndex) * 11
Entry(s, id) == Get(s.pages, EntryPage(s, id), EntryAt(id), 11, NoEntry)
PutEntry(s, id, e) == [s EXCEPT !.pages = Put(@, EntryPage(s, id), EntryAt(id), 11, e)]

\* The chain of master pages, from page 1, each linked at its end to the next:
\* the n-th of them.
MasterLink == 2047 * 4
Master(pg, n) ==
  LET page[i \in 0..n] ==
        IF i = 0 THEN 1 ELSE Get(pg, page[i - 1], MasterLink, 4, NULL32)
  IN page[n]

\* A page filled with 0xFF, of which only the link is told from other numbers.
Cleared(pg, page) == [pg EXCEPT ![page] = {[at |-> MasterLink, len |-> 4, what |-> NULL32]}]

pushBackIndex(s, indexPageId) ==
  LET n == Len(s.mem.index) \div indexesPerMasterIndex
      k == Len(s.mem.index) % indexesPerMasterIndex
      new == s.mem.pageCount
      last == Master(s.pages, IF k = 0 /\ n # 0 THEN n - 1 ELSE n)
      grown == IF k = 0 /\ n # 0
               THEN [NewPage(s) EXCEPT
                       !.pages = Cleared(Put(@, Master(@, n - 1), MasterLink, 4, new), new)]
               ELSE s
  IN IF last \notin PageIds THEN Wild(s)  \* a rollback took its link back
     ELSE [grown EXCEPT !.pages = Put(@, Master(@, n), k * 4, 4, indexPageId),
                        !.mem.index = Append(@, indexPageId)]

FreedEntry(e, next) == [e EXCEPT !.status = 0, !.size = next]

\* A handle for a new blob: the one freed last, or the next.
AllocateHandle(s) ==
  IF s.mem.fhlStart # NULL32
  THEN LET e == Entry(s, s.mem.fhlStart) IN
       IF e.status # 0 THEN Wild(s)
       ELSE UpdateHeader([s EXCEPT !.mem.fhlStart = e.size])
  ELSE LET g == [s EXCEPT !.mem.handleCount = @ + 1] IN
       IF s.mem.handleCount % handlesPerIndex = 0
       THEN pushBackIndex(NewPage(g), s.mem.pageCount)
       ELSE g
NextHandle(s) == IF s.mem.fhlStart # NULL32 THEN s.mem.fhlStart ELSE s.mem.handleCount

-----------------------------------------------------------------------------
(* Free blocks, in the order of the set: by size, page and offset. *)

Before(b, c) ==
  \/ b.size < c.size
  \/ b.size = c.size /\ (b.page < c.page \/ (b.page = c.page /\ b.offset < c.offset))

FreeOfSize(s, size) == {b \in s.mem.free : b.size >= size}
LowerBound(s, size) ==
  CHOOSE b \in FreeOfSize(s, size) :
    \A c \in FreeOfSize(s, size) : b = c \/ Before(b, c)

\* The block a blob is put in, and the state without it.
KeptInList(s, size) == IF FreeOfSize(s, size) = {} THEN NewPage(s) ELSE s  \* mutant
TakeBlock(s, size) ==
  IF FreeOfSize(s, size) = {} THEN NewPage(s)
  ELSE [s EXCEPT !.mem.free = @ \ {LowerBound(s, size)}]
Block(s, size) ==
  IF FreeOfSize(s, size) = {}
  THEN [size |-> PAGE_SIZE - 4, page |-> s.mem.pageCount, offset |-> 0]
  ELSE LowerBound(s, size)
OverflowPage(s) == Block(s, overflowSize).page

\* A block that is free: what it had keeps lying there, and is junk now.
AddFree(s, block) ==
  [s EXCEPT !.mem.free = @ \cup {block},
            !.pages = Put(PutTags(@, block.page, block.offset, block.size, block.size),
                          block.page, block.offset + 2, block.size, Junk)]

-----------------------------------------------------------------------------
remainder(size) == size % overflowSize
overflowPageCount(size) == size \div overflowSize
firstBlobSize(size) ==
  remainder(size) + (IF overflowPageCount(size) > 0 THEN 4 ELSE 0)

SamePart(pg, id, d, i) ==                                               \* mutant
  Put(Put(pg, id, 0, overflowSize, <<d, 1>>), id, overflowSize, 4, NULL32)
PutOverflowPage(pg, id, d, i) ==
  Put(Put(pg, id, 0, overflowSize, <<d, i>>), id, overflowSize, 4, NULL32)

\* The overflow pages of d, each linked from the one before it, the first
\* from the block.
PutOverflow(s, d, page, at) ==
  LET link(a, i) ==
        LET id == OverflowPage(a.s)
            g == TakeBlock(a.s, overflowSize)
            filled == PutOverflowPage(g.pages, id, d, i)
        IN [s |-> [g EXCEPT !.pages = Put(filled, a.page, a.at, 4, id)],
            page |-> id, at |-> overflowSize]
      linked[i \in 0..overflowPageCount(d.size)] ==
        IF i = 0 THEN [s |-> s, page |-> page, at |-> at] ELSE link(linked[i - 1], i)
  IN linked[overflowPageCount(d.size)].s

addBlob(s, d) ==
  LET id == NextHandle(s)
      h == AllocateHandle(s)
      first == firstBlobSize(d.size)
      block == Block(h, first)
      left == IF block.size - first < 4 + minFreeBytes THEN 0 ELSE block.size - first
      active == block.size - left
      extra == overflowPageCount(d.size)
      e == [status |-> 1, size |-> active + extra * overflowSize - (IF extra > 0 THEN 4 ELSE 0),
            page |-> block.page, offset |-> block.offset]
      t == PutEntry(TakeBlock(h, first), id, e)
      u == [t EXCEPT !.pages = Put(PutTags(@, block.page, block.offset, active, Used),
                                   block.page, block.offset + 2, remainder(d.size), <<d, 0>>)]
      v == PutOverflow(u, d, block.page, block.offset + 2 + remainder(d.size))
  IN IF h.status # "up" THEN h
     ELSE IF block.size < first THEN Wild(h)  \* no page has room: 2^32 and more is left
     ELSE IF left = 0 THEN v
     ELSE AddFree(v, [size |-> left - 4, page |-> block.page,
                      offset |-> block.offset + active + 4])

\* A chain of pages, each linked at its end to the next, from the first to the
\* last; <<Junk>> if it leads elsewhere, or has no end.
PageChain(pg, first) ==
  LET next[i \in 0..Cardinality(PageIds)] ==
        IF i = 0 THEN first
        ELSE LET p == next[i - 1]
             IN IF p \in PageIds THEN Get(pg, p, overflowSize, 4, 0) ELSE Junk
      ends == {i \in DOMAIN next : next[i] = NULL32}
  IN IF ends = {} THEN <<Junk>> ELSE [i \in 1..(CHOOSE n \in ends : TRUE) |-> next[i - 1]]

\* The overflow pages of an entry.
Chain(pg, e) ==
  IF overflowPageCount(e.size) = 0 THEN <<>>
  ELSE PageChain(pg, Get(pg, e.page, e.offset + 2 + remainder(e.size), 4, 0))

\* What a reader gets: the blob that lies there, or junk.
Parts(d) == {<<d, i>> : i \in {j \in 0..overflowPageCount(d.size) : j > 0 \/ remainder(d.size) > 0}}
OverflowParts(pg, chain) == {Get(pg, chain[i], 0, overflowSize, Junk) : i \in DOMAIN chain}
BlobOf(size, parts) ==
  LET read == {d \in Data : d.size = size /\ Parts(d) = parts}
  IN IF read = {} THEN JunkBlob ELSE CHOOSE d \in read : TRUE
readBlob(s, id) ==
  LET e == Entry(s, id)
      chain == Chain(s.pages, e)
      first == Get(s.pages, e.page, e.offset + 2, remainder(e.size), Junk)
      parts == OverflowParts(s.pages, chain) \cup (IF remainder(e.size) = 0 THEN {} ELSE {first})
  IN IF chain = <<Junk>> THEN JunkBlob ELSE BlobOf(e.size, parts)

IsLive(s, id) == id < s.mem.handleCount /\ Entry(s, id).status = 1
Handles(s) == {id \in 0..(s.mem.handleCount - 1) : IsLive(s, id)}
Reads(s) == [id \in Handles(s) |-> readBlob(s, id)]

\* The block that is freed joins its free neighbours.
NotJoined(s, freed) == AddFree(s, freed)                                \* mutant
JoinLeft(s, block) ==
  LET tag == Tag(s.pages, block.page, block.offset - 2)
      neighbour == [size |-> tag, page |-> block.page, offset |-> block.offset - tag - 4]
  IN IF block.offset # 0 /\ tag # Used
     THEN [s |-> [s EXCEPT !.mem.free = @ \ {neighbour}],
           block |-> [neighbour EXCEPT !.size = @ + block.size + 4]]
     ELSE [s |-> s, block |-> block]
FreeBlock(s, freed) ==
  LET j == JoinLeft(s, freed)
      after == j.block.offset + j.block.size + 4
      tag == Tag(s.pages, freed.page, after)
      neighbour == [size |-> tag, page |-> freed.page, offset |-> after]
  IN IF after < PAGE_SIZE /\ tag # Used
     THEN AddFree([j.s EXCEPT !.mem.free = @ \ {neighbour}],
                  [j.block EXCEPT !.size = @ + tag + 4])
     ELSE AddFree(j.s, j.block)

\* The overflow pages of a blob, each a free block again.
FreeOverflow(s, chain) ==
  LET freed[i \in 0..Len(chain)] ==
        IF i = 0 THEN s
        ELSE AddFree(freed[i - 1], [size |-> overflowSize, page |-> chain[i], offset |-> 0])
  IN freed[Len(chain)]

deleteBlob(s, id) ==
  LET e == Entry(s, id)
      h == UpdateHeader(PutEntry([s EXCEPT !.mem.fhlStart = id], id,
                                 FreedEntry(e, s.mem.fhlStart)))
      chain == Chain(s.pages, e)
  IN CASE ~IsLive(s, id) -> s
       [] IsLive(s, id) /\ chain = <<Junk>> -> Wild(s)
       [] OTHER -> FreeBlock(FreeOverflow(h, chain),
                             [size |-> firstBlobSize(e.size), page |-> e.page, offset |-> e.offset])

writeBlob(s, id, d) == IF IsLive(s, id) THEN addBlob(deleteBlob(s, id), d) ELSE s

-----------------------------------------------------------------------------
NewMem(header, index) ==
  [handleCount |-> header.handleCount, pageCount |-> header.pageCount,
   fhlStart |-> header.fhlStart, free |-> header.free, index |-> index]

\* initFile(), committed by main(), with an empty list of free blocks.
NewHeader == [handleCount |-> 0, pageCount |-> 2, fhlStart |-> NULL32, free |-> {}]
NewPages == Cleared(Cleared([p \in PageIds |-> {}], 0), 1)

\* loadLists() follows the master pages to the end of their chain, however many
\* index pages there are.  What is left to be read is never counted down, so
\* every master page gives as many entries as the first of them.
IndexPages(header) == (header.handleCount + handlesPerIndex - 1) \div handlesPerIndex
MasterChain(pg) == PageChain(pg, 1)
loadLists(header, pg) ==
  LET count == Min({IndexPages(header), indexesPerMasterIndex})
      entry(i) == Get(pg, MasterChain(pg)[(i \div count) + 1], (i % count) * 4, 4, NULL32)
  IN [i \in 1..(count * Len(MasterChain(pg))) |-> entry(i - 1)]

Init ==
  /\ usage \in Usages
  /\ mem = NewMem(NewHeader, <<>>)
  /\ pages = NewPages
  /\ stored = [header |-> NewHeader, pages |-> NewPages]
  /\ orphan = FALSE
  /\ status = "up"
  /\ reads = <<>>

Now == [mem |-> mem, pages |-> pages, orphan |-> orphan, status |-> status]

\* One call, within the bounds.
Change(s) ==
  /\ s.mem.pageCount <= MaxPages /\ s.mem.handleCount <= MaxHandles
  /\ mem' = s.mem /\ pages' = s.pages /\ orphan' = s.orphan /\ status' = s.status
  /\ reads' = IF s.status = "up" THEN Reads(s) ELSE <<>>
  /\ UNCHANGED stored

Add == "add" \in Calls /\ \E d \in Data :
  \E s \in {addBlob(Now, d)} : Change(s)
Write == "write" \in Calls /\ \E id \in 0..(MaxHandles - 1), d \in Data :
  \E s \in {writeBlob(Now, id, d)} : Change(s)
Delete == "delete" \in Calls /\ \E id \in 0..MaxHandles : \E s \in {deleteBlob(Now, id)} : Change(s)

\* commit() copies every page that was changed.  The header's bytes are those
\* the pointers of BlobManager point to, in no page of the transaction; an
\* entry for page 0 has no copy at all, and memcpy() reads from NULL.
Commit ==
  /\ "commit" \in Ends
  /\ IF orphan
     THEN status' = "dead" /\ UNCHANGED <<stored, orphan>>
     ELSE stored' = [stored EXCEPT !.pages = pages] /\ UNCHANGED <<orphan, status>>
  /\ UNCHANGED <<mem, pages, reads>>

\* rollback() forgets the copies of the pages, and nothing that mem has.
Rollback ==
  /\ "rollback" \in Ends
  /\ \E s \in {[Now EXCEPT !.pages = stored.pages, !.orphan = FALSE]} : Change(s)

\* The end of the program and its next start.  flushLists() writes the free
\* blocks on pages of the transaction, which nobody commits after it.  The chain
\* of master pages is that of the last commit, although the pages are given out
\* anew: in time it leads to whatever is put on them.
Start(index) == [Now EXCEPT !.mem = NewMem(stored.header, index),
                            !.pages = stored.pages, !.orphan = FALSE]
Restart ==
  /\ "exit" \in Ends
  /\ \E s \in {IF MasterChain(stored.pages) = <<Junk>> THEN Wild(Start(<<>>))
                ELSE Start(loadLists(stored.header, stored.pages))} : Change(s)

Next ==
  /\ status = "up"
  /\ Add \/ Write \/ Delete \/ Commit \/ Rollback \/ Restart
  /\ UNCHANGED usage

Spec == Init /\ [][Next]_vars

-----------------------------------------------------------------------------
(* A premise on the sizes of the blobs, for the proofs.  C has the places     *)
(* where the blocks of a page begin and end.  The start of a blob has room in *)
(* a page; and wherever it is put, it fills the block or leaves enough of it  *)
(* to be a block.  (Otherwise addBlob() counts the few bytes that are left as *)
(* the blob's own, or takes more than the page has.)                          *)
Bounds(C) == C \in SUBSET (0..PAGE_SIZE) /\ 0 \in C /\ PAGE_SIZE \in C
WellCut(C) ==
  /\ Bounds(C)
  /\ \A d \in Data : firstBlobSize(d.size) + 4 <= PAGE_SIZE
  /\ \A d \in Data, from, to \in C :
       LET next == from + firstBlobSize(d.size) + 4 IN
       next <= to => next \in C /\ (next = to \/ next + 4 + minFreeBytes <= to)

-----------------------------------------------------------------------------
TypeOK ==
  /\ mem.handleCount \in 0..MaxHandles /\ mem.pageCount \in 2..MaxPages
  /\ mem.fhlStart \in 0..(MaxHandles - 1) \cup {NULL32}
  /\ \A b \in mem.free : b.page \in PageIds /\ b.offset \in 0..(PAGE_SIZE - 1)
  /\ orphan \in BOOLEAN /\ status \in Statuses

(* The blocks of a page, used and free, lie one after another and fill it; no *)
(* two free ones are neighbours, and every tag says what its block is.  A     *)
(* deletion that misread a tag, or a list that kept a block in use, would     *)
(* hand the same bytes to two blobs much later.  (A rollback takes the blocks *)
(* on the pages back, and leaves the list of the free ones as it is.)         *)
UsedBlocks ==
  UNION {LET e == Entry(Now, id) IN
         {[size |-> firstBlobSize(e.size), page |-> e.page, offset |-> e.offset, tag |-> Used]}
           \cup {[size |-> overflowSize, page |-> p, offset |-> 0, tag |-> Junk] :
                 p \in ToSet(Chain(pages, e))} : id \in Handles(Now)}
FreeBlocks == {[size |-> b.size, page |-> b.page, offset |-> b.offset, tag |-> b.size] :
                b \in mem.free}
Blocks == UsedBlocks \cup FreeBlocks

Tiled == "rollback" \notin Ends =>
  /\ \A b \in Blocks :
       /\ b.offset + b.size + 4 <= PAGE_SIZE
       /\ b.tag # Junk => Tag(pages, b.page, b.offset) = b.tag
                          /\ Tag(pages, b.page, b.offset + b.size + 2) = b.tag
       /\ b.offset + b.size + 4 < PAGE_SIZE =>
            Cardinality({c \in Blocks : c.page = b.page /\ c.offset = b.offset + b.size + 4}) = 1
  /\ \A b, c \in FreeBlocks : b.page = c.page => c.offset # b.offset + b.size + 4
  /\ \A b, c \in Blocks :
       b.page = c.page /\ b # c => \/ c.offset >= b.offset + b.size + 4
                                  \/ b.offset >= c.offset + c.size + 4

(* Every page below the counter is the header, a master page, an index page   *)
(* or a page of blocks, and only one of them; and the master pages name the   *)
(* index pages in their order.                                                *)
MasterPages == {Master(pages, n) : n \in 0..((Len(mem.index) - 1) \div indexesPerMasterIndex)}
EntryOnMaster(i) ==
  Get(pages, Master(pages, i \div indexesPerMasterIndex), (i % indexesPerMasterIndex) * 4, 4, NULL32)
PagesAccounted ==
  LET index == ToSet(mem.index)
      blocks == {b.page : b \in Blocks}
      masters == IF mem.index = <<>> THEN {1} ELSE MasterPages
  IN "rollback" \notin Ends =>
     /\ {0} \cup masters \cup index \cup blocks = 0..(mem.pageCount - 1)
     /\ masters \cap (index \cup blocks) = {} /\ index \cap blocks = {}
     /\ \A i \in 1..Len(mem.index) : EntryOnMaster(i - 1) = mem.index[i]

(* The handles that are not in use are chained, each once.                    *)
FreeHandles(s) ==
  LET handle[i \in 0..s.mem.handleCount] ==
        IF i = 0 THEN s.mem.fhlStart
        ELSE LET id == handle[i - 1] IN IF id = NULL32 THEN NULL32 ELSE Entry(s, id).size
  IN handle
HandlesChained == "rollback" \notin Ends =>
  /\ FreeHandles(Now)[mem.handleCount] = NULL32
  /\ ToSet(FreeHandles(Now)) \ {NULL32} = (0..(mem.handleCount - 1)) \ Handles(Now)

(* No byte, page or handle is lost, and none is given out twice.              *)
SpaceAccounted == TypeOK /\ Tiled /\ PagesAccounted /\ HandlesChained

(* Every blob reads as it was given, and keeps its handle when it is written, *)
(* whatever becomes of the others; unless it goes with its transaction or its *)
(* process.                                                                   *)
Store == INSTANCE BlobStore WITH
  Ids <- 0..MaxHandles, store <- reads
StoreSpec ==
  Store!Init /\ [][Store!Next \/ ((Rollback \/ Restart) /\ Store!Forget)]_reads

(* README.md:4, "supports ... BLOBs": a blob in use can be read.              *)
BlobsReadable == \A id \in DOMAIN reads : reads[id] # JunkBlob

(* README.md:4, "supports ... BLOBs, ... transactions": a commit ends.        *)
CommitsSucceed == status # "dead"

(* DDLExecutor.cpp:135, "Rolled back!": no block in use before a transaction  *)
(* is free after it, and the next handle is not in use.                       *)
RollbackComplete ==
  /\ mem.fhlStart # NULL32 => ~IsLive(Now, mem.fhlStart)
  /\ \A b \in FreeBlocks, c \in UsedBlocks :
       b.page = c.page => b.offset + b.size + 4 <= c.offset \/ c.offset + c.size + 4 <= b.offset

(* README.md:4, "supports ... BLOBs": a start with the header that mem has     *)
(* would find the index pages, in their order, and no more.                   *)
ListsLoaded == loadLists(mem, pages) = mem.index

(* README.md:4, "supports ... BLOBs": the program starts with its own file.    *)
StartsReturn == [][Restart => status' = "up"]_vars

(* README.md:4, "supports ... BLOBs": a blob in use that was committed is      *)
(* there after the next start.                                                *)
CommittedSurvives ==
  [][Restart => Handles([Now EXCEPT !.pages = stored.pages]) \subseteq Handles(Now)']_vars
=============================================================================
