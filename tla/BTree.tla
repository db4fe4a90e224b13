-------------------------------- MODULE BTree --------------------------------
(***************************************************************************)
(* IndexFile.{h,cpp} and IndexFilePrivate.h: a B-tree of keys in the pages  *)
(* of a file, with the list of free pages, the table of the nodes' parents  *)
(* and the pages that table is kept in.                                     *)
(*                                                                          *)
(* A leaf and an internal node differ in their capacity and in the          *)
(* children of the latter; the code has the two as separate classes with    *)
(* the same methods.  Cell i of an internal node has child i on its left    *)
(* (getCellLeftPtr) and the last child is rightPtr.  Slots count from 0, as *)
(* in the code.  How the cells of a node lie on its page is left out.       *)
(***************************************************************************)
EXTENDS Integers, Sequences, SequencesExt, FiniteSets

CONSTANTS
  Entries,                \* the keys, each with a record, that callers may add
  RowOrders,              \* the rows that fillFrom() may find, as entries
  cellsPerLeafPage, cellsPerInternalPage,
  PARENTING_ZERO_SIZE,    \* parents kept on page 0, and one: 2040
  PARENTING_NORMAL_SIZE,  \* pages from one parenting page to the next: 2048
  MaxPage,                \* more pages than the entries fill
  Brittles                \* whether deletions may leave the tree brittle (below)

ASSUME CapacityAssumption == cellsPerLeafPage >= 3 /\ cellsPerInternalPage >= 3
ASSUME PagesAssumption == MaxPage \in Nat
ASSUME BrittlesAssumption == Brittles \in BOOLEAN

VARIABLES
  file,      \* the pages of the index, see Files
  isUnique,  \* whether a key may be there once only
  rows,      \* what fillFrom() has still to add
  reply,     \* the record of the last call; {} if it was refused
  unmarked   \* pages the last call changed without calling update()

vars == <<file, isUnique, rows, reply, unmarked>>

NULL32 == MaxPage
NodeIds == 1..(MaxPage - 1)

\* Where the parent of a node is kept: page and index in the page.
ParentSlot(id) ==
  IF id < PARENTING_ZERO_SIZE
  THEN <<0, id - 1>>
  ELSE LET n == id - PARENTING_ZERO_SIZE IN
       <<id - (n % PARENTING_NORMAL_SIZE), (n % PARENTING_NORMAL_SIZE) - 1>>

IsParentingPage(id) == id % PARENTING_NORMAL_SIZE = PARENTING_ZERO_SIZE
ParentSlots == {ParentSlot(id) : id \in {i \in NodeIds : ~IsParentingPage(i)}}

\* A page as the file first sees it is one of the free kind.
FreshPage == [kind |-> "free", cells |-> <<>>, kids |-> <<>>, next |-> 0]
Leaf(cells) == [kind |-> "leaf", cells |-> cells, kids |-> <<>>, next |-> 0]
Inner(cells, kids) == [kind |-> "inner", cells |-> cells, kids |-> kids, next |-> 0]
NodeLike(n, cells, kids) == [n EXCEPT !.cells = cells, !.kids = kids]

maxCellCount(n) == IF n.kind = "leaf" THEN cellsPerLeafPage ELSE cellsPerInternalPage

-----------------------------------------------------------------------------
(* The calls that nodes are changed with: each takes the file and returns it. *)

Marked(f, pages) == [f EXCEPT !.updated = @ \cup pages]
PutNode(f, id, n) == Marked([f EXCEPT !.nodes[id] = n], {id})

UnmarkedParent(f, id, parent) == [f EXCEPT !.parents[ParentSlot(id)] = parent]   \* mutant
updateParent(f, id, parent) ==
  Marked([f EXCEPT !.parents[ParentSlot(id)] = parent], {ParentSlot(id)[1]})

Orphaned(f, id) == f                                                    \* mutant
Adopted(f, id) ==
  LET kids == ToSet(f.nodes[id].kids)
  IN Marked([f EXCEPT !.parents = [s \in ParentSlots |->
               IF \E k \in kids : ParentSlot(k) = s THEN id ELSE f.parents[s]]],
            {ParentSlot(k)[1] : k \in kids})

nodeParent(f, id) == f.parents[ParentSlot(id)]

SkipParenting(n) == IF IsParentingPage(n) THEN n + 1 ELSE n

\* allocateFreePage(): the page, and the file without it.
AllocatedPage(f) ==
  IF f.fplStart # NULL32 THEN f.fplStart ELSE SkipParenting(f.totalPageCount)
allocateFreePage(f) ==
  IF f.fplStart # NULL32
  THEN Marked([f EXCEPT !.fplStart = f.nodes[f.fplStart].next], {0})
  ELSE [f EXCEPT !.totalPageCount = SkipParenting(@) + 1]

LeakPage(f, id) == f                                                    \* mutant
deallocatePage(f, id) ==
  Marked([f EXCEPT !.nodes[id] = [FreshPage EXCEPT !.next = f.fplStart], !.fplStart = id],
         {0, id})

\* create() with the cells and children that are filled in next, each child
\* being told its parent.
CreateNode(f, n, parent) ==
  LET id == AllocatedPage(f)
      g == updateParent(allocateFreePage(f), id, parent)
  IN Adopted(PutNode(g, id, n), id)

NewFile ==
  LET blank == [totalPageCount |-> 1, fplStart |-> NULL32, rootPageId |-> NULL32,
                nodes |-> [id \in NodeIds |-> FreshPage],
                parents |-> [s \in ParentSlots |-> 0],
                updated |-> {}, wild |-> FALSE]
      f == CreateNode(blank, Leaf(<<>>), NULL32)
  IN [f EXCEPT !.rootPageId = AllocatedPage(blank), !.totalPageCount = @ + 1,
               !.updated = {}]

-----------------------------------------------------------------------------
(* Searching. *)

KeysOnly(e, c, keyOnly) == e.key - c.key                                \* mutant
sgn(a, b) == IF a < b THEN -1 ELSE IF a > b THEN 1 ELSE 0
compareKey(e, c, keyOnly) ==
  IF e.key # c.key \/ keyOnly THEN sgn(e.key, c.key) ELSE sgn(e.record, c.record)

binarySearch(cells, e, keyOnly) ==
  LET search[l \in 0..Len(cells), r \in 0..Len(cells)] ==
        IF l >= r
        THEN [found |-> FALSE, slot |-> r]
        ELSE LET mid == l + (r - l) \div 2
                 result == compareKey(e, cells[mid + 1], keyOnly)
             IN CASE result = 0 -> [found |-> TRUE, slot |-> mid]
                  [] result < 0 -> search[l, mid]
                  [] result > 0 -> search[mid + 1, r]
  IN search[0, Len(cells)]

\* The child of n that a search which did not find e goes to.
ChildFor(n, e, keyOnly) == n.kids[binarySearch(n.cells, e, keyOnly).slot + 1]

\* The node that has e, or the leaf that should have it.
Descend(f, e, keyOnly) ==
  LET from[id \in NodeIds] ==
        LET n == f.nodes[id]
            p == binarySearch(n.cells, e, keyOnly)
        IN IF p.found \/ n.kind # "inner"
           THEN [node |-> id, found |-> p.found, slot |-> p.slot]
           ELSE from[n.kids[p.slot + 1]]
  IN from[f.rootPageId]

-----------------------------------------------------------------------------
(* Insertion. *)

InsertCell(f, id, slot, e, child) ==
  LET n == f.nodes[id]
      g == PutNode(f, id, NodeLike(n, InsertAt(n.cells, slot + 1, e),
                     IF n.kind = "leaf" THEN <<>> ELSE InsertAt(n.kids, slot + 1, child)))
  IN IF n.kind = "leaf" THEN g ELSE updateParent(g, child, id)

\* Which child of its parent a node is, from the place of its last key.
SlotInParent(f, id) ==
  binarySearch(f.nodes[nodeParent(f, id)].cells, Last(f.nodes[id].cells), FALSE).slot

\* getSiblings() reads the second slot of a parent that has no cell at all.
SiblingIsWild(f, id) ==
  nodeParent(f, id) # NULL32 /\ f.nodes[nodeParent(f, id)].cells = <<>>

\* The sibling tryRebalance() looks at: the left one if there is one.
Sibling(f, id) ==
  LET slot == SlotInParent(f, id) IN
  f.nodes[nodeParent(f, id)].kids[IF slot > 0 THEN slot ELSE 2]

CanRebalance(f, id) ==
  /\ nodeParent(f, id) # NULL32
  /\ Len(f.nodes[Sibling(f, id)].cells) < maxCellCount(f.nodes[id]) - 1

\* The cells of two neighbours and the one between them in the parent, dealt
\* out again: half of them, or of all but one, go to the left one.
Redeal(f, left, right, medianSlot, butOne) ==
  LET parent == nodeParent(f, left)
      l == f.nodes[left]
      r == f.nodes[right]
      p == f.nodes[parent]
      cells == l.cells \o <<p.cells[medianSlot + 1]>> \o r.cells
      kids == l.kids \o r.kids
      m == (Len(cells) - butOne) \div 2
      newLeft == NodeLike(l, SubSeq(cells, 1, m),
                          IF l.kind = "leaf" THEN <<>> ELSE SubSeq(kids, 1, m + 1))
      newRight == NodeLike(r, SubSeq(cells, m + 2, Len(cells)),
                           IF l.kind = "leaf" THEN <<>> ELSE SubSeq(kids, m + 2, Len(kids)))
      newParent == NodeLike(p, ReplaceAt(p.cells, medianSlot + 1, cells[m + 1]), p.kids)
      g == PutNode(PutNode(PutNode(f, left, newLeft), right, newRight), parent, newParent)
  IN Adopted(Adopted(g, left), right)

rebalanceLeft(f, id) ==
  Redeal(f, Sibling(f, id), id, SlotInParent(f, id) - 1, 0)
rebalanceRight(f, id) ==
  Redeal(f, id, Sibling(f, id), SlotInParent(f, id), 1)

Rebalance(f, id) ==
  IF SlotInParent(f, id) > 0 THEN rebalanceLeft(f, id) ELSE rebalanceRight(f, id)

\* splitNode(): e and its child go to the half where their slot is; the cell
\* at the median of the old node is left out, for the parent.
LeftCount(n, slot) == LET median == Len(n.cells) \div 2 IN
  IF slot <= median THEN median + 1 ELSE median
Halves(n, slot, e, child) ==
  LET cells == InsertAt(n.cells, slot + 1, e)
      kids == IF n.kind = "leaf" THEN <<>> ELSE InsertAt(n.kids, slot + 1, child)
      m == LeftCount(n, slot)
  IN [median |-> cells[m + 1],
      left |-> NodeLike(n, SubSeq(cells, 1, m), SubSeq(kids, 1, IF kids = <<>> THEN 0 ELSE m + 1)),
      right |-> NodeLike(n, SubSeq(cells, m + 2, Len(cells)), SubSeq(kids, m + 2, Len(kids)))]

splitNode(f, id, halves) ==
  LET g == CreateNode(f, halves.left, nodeParent(f, id))
  IN deallocatePage(CreateNode(g, halves.right, nodeParent(f, id)), id)

updateChild(f, id, e, newChild) ==
  LET n == f.nodes[id] IN
  updateParent(PutNode(f, id, NodeLike(n, n.cells,
                 ReplaceAt(n.kids, binarySearch(n.cells, e, FALSE).slot + 1, newChild))),
               newChild, id)

GrowRoot(f, median, left, right) ==
  Marked([CreateNode(f, Inner(<<median>>, <<left, right>>), NULL32)
            EXCEPT !.rootPageId = AllocatedPage(f)], {0})

\* An insertion under way: e, with the child on its left, is to go into the node
\* id of file; at None it has ended.
None == 0
Inserting(f, id, e, child) == [file |-> f, id |-> id, e |-> e, child |-> child]
Inserted(f) == Inserting(f, None, <<>>, NULL32)

\* What insertIntoNode() does to one node, and the call it makes of itself: for
\* a node beside it after a rebalancing, for its parent after a split.
InsertTurn(f, id, e, child) ==
  LET n == f.nodes[id]
      p == binarySearch(n.cells, e, FALSE)
      parent == nodeParent(f, id)
      halves == Halves(n, p.slot, e, child)
      left == AllocatedPage(f)
      right == AllocatedPage(CreateNode(f, halves.left, parent))
      split == splitNode(f, id, halves)
      dealt == Rebalance(f, id)
  IN CASE p.found -> Inserted(f)
       [] ~p.found /\ Len(n.cells) < maxCellCount(n) -> Inserted(InsertCell(f, id, p.slot, e, child))
       [] ~p.found /\ Len(n.cells) = maxCellCount(n) /\ SiblingIsWild(f, id) ->
            Inserted([f EXCEPT !.wild = TRUE])
       [] OTHER ->
            IF CanRebalance(f, id)
            THEN Inserting(dealt, ChildFor(dealt.nodes[parent], e, FALSE), e, child)
            ELSE IF parent = NULL32
            THEN Inserted(GrowRoot(split, halves.median, left, right))
            ELSE Inserting(updateChild(split, parent, halves.median, right),
                           parent, halves.median, left)

\* There is one turn for each level, and one more after a rebalancing.
insertIntoNode(f, id, e) ==
  LET after[i \in 0..MaxPage] ==
        IF i = 0 THEN Inserting(f, id, e, NULL32)
        ELSE LET w == after[i - 1] IN
             IF w.id = None THEN w ELSE InsertTurn(w.file, w.id, w.e, w.child)
  IN after[MaxPage].file

-----------------------------------------------------------------------------
(* Deletion. *)

findRightmostNode(f, id) ==
  LET rightmost[n \in NodeIds] ==
        IF f.nodes[n].kind = "inner" THEN rightmost[Last(f.nodes[n].kids)] ELSE n
  IN rightmost[id]

DropLastCell(n) == NodeLike(n, Front(n.cells), n.kids)
FirstCell(cells) == Head(cells)                                         \* mutant
Predecessor(cells) == Last(cells)

DropCell(n, slot) ==
  NodeLike(n, RemoveAt(n.cells, slot + 1),
           IF n.kind = "leaf" THEN <<>> ELSE RemoveAt(n.kids, slot + 1))

\* A key of an internal node is replaced by the last one before it, or goes
\* with the child on its left when that child has no cell of its own.
DeleteFromInner(f, id, slot) ==
  LET n == f.nodes[id]
      child == n.kids[slot + 1]
      rightmost == findRightmostNode(f, child)
      cells == f.nodes[rightmost].cells
  IN CASE f.nodes[child].cells = <<>> ->
            PutNode(deallocatePage(f, child), id, DropCell(n, slot))
       [] f.nodes[child].cells # <<>> /\ cells = <<>> -> [f EXCEPT !.wild = TRUE]
       [] OTHER ->
            PutNode(PutNode(f, rightmost, DropLastCell(f.nodes[rightmost])),
                    id, NodeLike(n, ReplaceAt(n.cells, slot + 1, Predecessor(cells)), n.kids))

\* deleteFromNode(), where e was found.
deleteFromNode(f, id, slot) ==
  IF f.nodes[id].kind = "inner"
  THEN DeleteFromInner(f, id, slot)
  ELSE PutNode(f, id, DropCell(f.nodes[id], slot))

-----------------------------------------------------------------------------
(* What the file holds. *)

InOrder(f) ==
  LET under[id \in NodeIds] ==
        LET n == f.nodes[id]
            upTo[i \in 0..Len(n.kids)] ==
              IF i = 0 THEN <<>>
              ELSE upTo[i - 1] \o under[n.kids[i]]
                     \o (IF i <= Len(n.cells) THEN <<n.cells[i]>> ELSE <<>>)
        IN IF n.kind # "inner" THEN n.cells ELSE upTo[Len(n.kids)]
  IN under[f.rootPageId]

TreeNodes(f) ==
  LET under[id \in NodeIds] == {id} \cup UNION {under[k] : k \in ToSet(f.nodes[id].kids)}
  IN under[f.rootPageId]

FreePages(f) ==
  LET page[i \in 0..MaxPage] ==
        IF i = 0 THEN f.fplStart
        ELSE IF page[i - 1] \in NodeIds THEN f.nodes[page[i - 1]].next ELSE NULL32
  IN ToSet(page) \cap NodeIds

TreeEntries(f) == IF f.wild THEN {} ELSE ToSet(InOrder(f))

\* A tree whose next changes may go wrong: an internal node has lost all of
\* its cells, or the last leaf below one that is not the root is empty.
Brittle(f) ==
  \E id \in TreeNodes(f) :
    /\ f.nodes[id].kind = "inner"
    /\ \/ f.nodes[id].cells = <<>>
       \/ id # f.rootPageId /\ f.nodes[findRightmostNode(f, id)].cells = <<>>

\* Page 0 and the parenting pages as the file holds them, and the nodes.
Header(f) == <<f.totalPageCount, f.fplStart, f.rootPageId>>
ChangedPages(f, g) ==
  {id \in NodeIds : f.nodes[id] # g.nodes[id]}
    \cup {s[1] : s \in {t \in ParentSlots : f.parents[t] # g.parents[t]}}
    \cup {p \in {0} : Header(f) # Header(g)}

-----------------------------------------------------------------------------
Init ==
  /\ file = NewFile
  /\ isUnique \in BOOLEAN
  /\ rows \in RowOrders
  /\ reply = {}
  /\ unmarked = {}

\* The file after a call that made g of it.
Finish(g) ==
  /\ file' = [g EXCEPT !.updated = {}]
  /\ unmarked' = ChangedPages(file, g) \ g.updated

addKey(e) ==
  LET p == Descend(file, e, isUnique) IN
  IF p.found
  THEN reply' = {} /\ Finish(file)
  ELSE reply' = {e.record} /\ Finish(insertIntoNode(file, p.node, e))

findKey(key) ==
  LET p == Descend(file, [key |-> key, record |-> 0], TRUE) IN
  /\ reply' = IF p.found THEN {file.nodes[p.node].cells[p.slot + 1].record} ELSE {}
  /\ Finish(file)

deleteKey(e) ==
  LET p == Descend(file, e, FALSE)
      g == deleteFromNode(file, p.node, p.slot)
  IN /\ IF p.found
        THEN reply' = {e.record} /\ Finish(g) /\ (Brittle(g) => Brittles)
        ELSE reply' = {} /\ Finish(file)

\* One turn of the loop of fillFrom(), which ends at a row that is refused.
FillFrom ==
  /\ rows # <<>>
  /\ addKey(Head(rows))
  /\ rows' = IF reply' = {} THEN <<>> ELSE Tail(rows)

Call ==
  /\ rows = <<>> /\ ~file.wild
  /\ \E e \in Entries : addKey(e) \/ deleteKey(e) \/ findKey(e.key)
  /\ UNCHANGED rows

Next == (FillFrom \/ Call) /\ UNCHANGED isUnique

Spec == Init /\ [][Next]_vars

-----------------------------------------------------------------------------
(* Types: pages below the counter, nodes no fuller than a page. *)
TypeOK ==
  /\ file.totalPageCount \in 1..MaxPage
  /\ file.fplStart \in NodeIds \cup {NULL32}
  /\ file.rootPageId \in NodeIds
  /\ \A id \in TreeNodes(file) :
       LET n == file.nodes[id] IN
       /\ n.kind \in {"leaf", "inner"}
       /\ Len(n.cells) <= maxCellCount(n)
       /\ n.kind = "inner" => Len(n.kids) = Len(n.cells) + 1
  /\ reply = {} \/ \E r \in {e.record : e \in Entries \cup UNION {ToSet(o) : o \in RowOrders}} :
                     reply = {r}

(* The keys ascend through the whole tree: a binary search in each node then *)
(* goes to the only child that may have the key.                             *)
Ascending ==
  LET s == InOrder(file) IN
  ~file.wild => \A i \in 1..(Len(s) - 1) : compareKey(s[i], s[i + 1], isUnique) < 0

(* The parents' table names the parent of every node of the tree, although    *)
(* nodes move between parents in splits and rebalancing, and pages are used   *)
(* again: internalConsistencyCheck() at every node.                           *)
ParentsRight ==
  ~file.wild =>
    /\ nodeParent(file, file.rootPageId) = NULL32
    /\ \A id \in TreeNodes(file) : \A k \in ToSet(file.nodes[id].kids) : nodeParent(file, k) = id

(* What a search relies on in the nodes it passes, and a split or a rebalancing *)
(* in the nodes above and beside it.                                          *)
WellFormed == TypeOK /\ Ascending /\ ParentsRight

(* Every page below the counter is a node, free, a page of parents, or the    *)
(* header, and only one of them; but for one page that initPointers() counts  *)
(* and nobody gets.                                                           *)
Wasted == {2}
PagesAccounted ==
  LET free == FreePages(file)
      parenting == {id \in NodeIds : IsParentingPage(id)}
      counted == 1..(file.totalPageCount - 1)
  IN ~file.wild =>
       /\ TreeNodes(file) \cap free = {}
       /\ (TreeNodes(file) \cup free) \cap parenting = {}
       /\ (TreeNodes(file) \cup free) \cup Wasted = counted \ parenting

(* Every page that a call changes is one it calls update() for: commit()      *)
(* copies only those, the others are lost with the transaction.               *)
ChangesMarked == unmarked = {}

(* The file is the set of keys that was asked for, and every answer right.    *)
AllEntries == Entries \cup UNION {ToSet(o) : o \in RowOrders}
Keys == INSTANCE KeySet WITH entries <- TreeEntries(file), Entries <- AllEntries
KeySetSpec == Keys!Spec

(* Every call does what it promises as long as the tree was not brittle before *)
(* it, whatever other calls have done: nothing but an internal node without    *)
(* cells, or an empty last leaf, leads a deletion or an insertion astray.      *)
OnlyBrittleTreesFail ==
  [][Brittle(file) \/ Keys!Next \/ UNCHANGED Keys!vars]_vars

(* README.md:4, "This implementation supports B-Tree indexes": no call takes   *)
(* another key out of the index than the one it was asked to delete.           *)
OnlyTheDeletedGoes ==
  [][file'.wild \/ \A e \in TreeEntries(file) \ TreeEntries(file') : reply' = {e.record}]_vars
=============================================================================
