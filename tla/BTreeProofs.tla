----------------------------- MODULE BTreeProofs -----------------------------
(***************************************************************************)
(* Proofs about BTree, for any keys, tables, capacities and pages: every    *)
(* page that a call changes is one it calls update() for.                   *)
(***************************************************************************)
EXTENDS BTree, WellFoundedInduction, TLAPS

-----------------------------------------------------------------------------
(* Numbers. *)

\* A set of numbers that is not empty has a least one.
LEMMA Least ==
  ASSUME NEW S \in SUBSET Nat, S # {}
  PROVE  \E m \in S : \A n \in S : m <= n
<1>1. IsWellFoundedOn(OpToRel(<, Nat), Nat)
  BY NatLessThanWellFounded
<1>2. PICK m \in S : \A n \in S : ~(<<n, m>> \in OpToRel(<, Nat))
  BY <1>1, WFMin
<1>3. \A n \in S : ~(n < m)
  BY <1>2 DEF OpToRel
<1> QED
  BY <1>3

-----------------------------------------------------------------------------
(* What a step may change.                                                   *)

\* A file, whatever its pages hold.
Fields == {"totalPageCount", "fplStart", "rootPageId", "nodes", "parents", "updated", "wild"}
Shaped(f) ==
  /\ f = [x \in Fields |-> f[x]]
  /\ f.nodes = [id \in NodeIds |-> f.nodes[id]]
  /\ f.parents = [s \in ParentSlots |-> f.parents[s]]

\* g comes of f, and update() has been called for what differs, but perhaps for
\* the pages Z.
Follows(f, g, Z) ==
  /\ Shaped(g) /\ f.updated \subseteq g.updated
  /\ ChangedPages(f, g) \subseteq g.updated \cup Z

LEMMA FollowsTwice ==
  ASSUME NEW Z, NEW f, NEW g, NEW h, Follows(f, g, Z), Follows(g, h, Z)
  PROVE  Follows(f, h, Z)
<1>1. ChangedPages(f, h) \subseteq ChangedPages(f, g) \cup ChangedPages(g, h)
  BY DEF ChangedPages
<1> QED
  BY <1>1 DEF Follows

LEMMA FollowsMore ==
  ASSUME NEW f, NEW g, Follows(f, g, {})
  PROVE  Follows(f, g, {0})
  BY DEF Follows

\* An insertion that has called update(0) in the end may have counted pages before.
LEMMA FollowsHeader ==
  ASSUME NEW f, NEW g, Follows(f, g, {0}), 0 \in g.updated
  PROVE  Follows(f, g, {})
  BY DEF Follows

LEMMA FollowsSelf ==
  ASSUME NEW f, Shaped(f)
  PROVE  Follows(f, f, {})
  BY DEF Follows, ChangedPages

-----------------------------------------------------------------------------
(* What each call follows.                                                   *)

LEMMA MarkedFollows ==
  ASSUME NEW f, Shaped(f), NEW S
  PROVE  Follows(f, Marked(f, S), {}) /\ Marked(f, S).updated = f.updated \cup S
<1> PICK g : g = Marked(f, S)
  OBVIOUS
<1>1. g = [f EXCEPT !["updated"] = f.updated \cup S]
  BY DEF Marked
<1>2. /\ g = [x \in Fields |-> g[x]]
      /\ g.updated = f.updated \cup S /\ \A x \in Fields \ {"updated"} : g[x] = f[x]
  <2>1. "updated" \in Fields
    BY DEF Fields
  <2>2. f = [x \in Fields |-> f[x]]
    BY DEF Shaped
  <2> QED BY ONLY <1>1, <2>1, <2>2
<1>3. /\ g.nodes = f.nodes /\ g.parents = f.parents /\ g.totalPageCount = f.totalPageCount
      /\ g.fplStart = f.fplStart /\ g.rootPageId = f.rootPageId
  BY <1>2 DEF Fields
<1>4. Shaped(g)
  BY <1>2, <1>3 DEF Shaped
<1>5. ChangedPages(f, g) = {}
  BY <1>3 DEF ChangedPages, Header
<1> QED
  BY <1>2, <1>4, <1>5 DEF Follows

\* Fields are set, and the pages that have them are marked.
LEMMA SetNode ==
  ASSUME NEW f, Shaped(f), NEW id, NEW n
  PROVE  /\ Follows(f, [f EXCEPT !.nodes[id] = n], {id})
         /\ [f EXCEPT !.nodes[id] = n].updated = f.updated
<1> PICK g : g = [f EXCEPT !.nodes[id] = n]
  OBVIOUS
<1> PICK ns : ns = [f.nodes EXCEPT ![id] = n]
  OBVIOUS
<1>1. g = [f EXCEPT !["nodes"] = ns]
  BY ONLY g = [f EXCEPT !.nodes[id] = n], ns = [f.nodes EXCEPT ![id] = n]
<1>2. /\ g = [x \in Fields |-> g[x]]
      /\ g.nodes = ns /\ \A x \in Fields \ {"nodes"} : g[x] = f[x]
  <2>1. "nodes" \in Fields
    BY DEF Fields
  <2>2. f = [x \in Fields |-> f[x]]
    BY DEF Shaped
  <2> QED BY ONLY <1>1, <2>1, <2>2
<1>3. /\ g.updated = f.updated /\ g.parents = f.parents /\ g.totalPageCount = f.totalPageCount
      /\ g.fplStart = f.fplStart /\ g.rootPageId = f.rootPageId
  BY <1>2 DEF Fields
<1>4. f.nodes = [i \in NodeIds |-> f.nodes[i]]
  BY DEF Shaped
<1>5. ns = [i \in NodeIds |-> ns[i]] /\ \A i \in NodeIds : i # id => ns[i] = f.nodes[i]
  BY ONLY <1>4, ns = [f.nodes EXCEPT ![id] = n]
<1>6. Shaped(g)
  BY <1>2, <1>3, <1>5 DEF Shaped
<1>7. ChangedPages(f, g) \subseteq {id}
  BY <1>2, <1>3, <1>5 DEF ChangedPages, Header
<1> QED
  BY <1>3, <1>6, <1>7 DEF Follows

LEMMA SetParent ==
  ASSUME NEW f, Shaped(f), NEW s, NEW p
  PROVE  /\ Follows(f, [f EXCEPT !.parents[s] = p], {s[1]})
         /\ [f EXCEPT !.parents[s] = p].updated = f.updated
<1> PICK g : g = [f EXCEPT !.parents[s] = p]
  OBVIOUS
<1> PICK ps : ps = [f.parents EXCEPT ![s] = p]
  OBVIOUS
<1>1. g = [f EXCEPT !["parents"] = ps]
  BY ONLY g = [f EXCEPT !.parents[s] = p], ps = [f.parents EXCEPT ![s] = p]
<1>2. /\ g = [x \in Fields |-> g[x]]
      /\ g.parents = ps /\ \A x \in Fields \ {"parents"} : g[x] = f[x]
  <2>1. "parents" \in Fields
    BY DEF Fields
  <2>2. f = [x \in Fields |-> f[x]]
    BY DEF Shaped
  <2> QED BY ONLY <1>1, <2>1, <2>2
<1>3. /\ g.updated = f.updated /\ g.nodes = f.nodes /\ g.totalPageCount = f.totalPageCount
      /\ g.fplStart = f.fplStart /\ g.rootPageId = f.rootPageId
  BY <1>2 DEF Fields
<1>4. f.parents = [i \in ParentSlots |-> f.parents[i]]
  BY DEF Shaped
<1>5. ps = [i \in ParentSlots |-> ps[i]] /\ \A i \in ParentSlots : i # s => ps[i] = f.parents[i]
  BY ONLY <1>4, ps = [f.parents EXCEPT ![s] = p]
<1>6. Shaped(g)
  BY <1>2, <1>3, <1>5 DEF Shaped
<1>7. ChangedPages(f, g) \subseteq {s[1]}
  BY <1>2, <1>3, <1>5 DEF ChangedPages, Header
<1> QED
  BY <1>3, <1>6, <1>7 DEF Follows

LEMMA SetHeader ==
  ASSUME NEW f, Shaped(f), NEW v, NEW k \in {"totalPageCount", "fplStart", "rootPageId", "wild"}
  PROVE  /\ Follows(f, [f EXCEPT ![k] = v], IF k = "wild" THEN {} ELSE {0})
         /\ [f EXCEPT ![k] = v].updated = f.updated
<1> PICK g : g = [f EXCEPT ![k] = v]
  OBVIOUS
<1>1. g = [x \in Fields |-> g[x]] /\ g[k] = v /\ \A x \in Fields \ {k} : g[x] = f[x]
  <2>1. k \in Fields
    BY DEF Fields
  <2>2. f = [x \in Fields |-> f[x]]
    BY DEF Shaped
  <2> QED BY ONLY <2>1, <2>2, g = [f EXCEPT ![k] = v]
<1>2. g.updated = f.updated /\ g.nodes = f.nodes /\ g.parents = f.parents
  BY <1>1 DEF Fields
<1>3. Shaped(g)
  BY <1>1, <1>2 DEF Shaped
<1>4. k = "wild" => Header(g) = Header(f)
  BY <1>1 DEF Header, Fields
<1>5. ChangedPages(f, g) \subseteq IF k = "wild" THEN {} ELSE {0}
  BY <1>2, <1>4 DEF ChangedPages
<1> QED
  BY <1>2, <1>3, <1>5 DEF Follows

\* What was not marked yet is marked.
LEMMA ThenMarked ==
  ASSUME NEW Z, NEW f, NEW g, Follows(f, g, Z), NEW S, Z \subseteq S
  PROVE  Follows(f, Marked(g, S), {}) /\ Marked(g, S).updated = g.updated \cup S
<1>1. Follows(g, Marked(g, S), {}) /\ Marked(g, S).updated = g.updated \cup S
  BY MarkedFollows DEF Follows
<1>2. Follows(g, Marked(g, S), Z)
  BY <1>1 DEF Follows
<1>3. Follows(f, Marked(g, S), Z)
  BY <1>2, FollowsTwice
<1> QED
  BY <1>1, <1>3 DEF Follows

LEMMA PutNodeFollows ==
  ASSUME NEW f, Shaped(f), NEW id, NEW n
  PROVE  Follows(f, PutNode(f, id, n), {})
  BY SetNode, ThenMarked DEF PutNode

LEMMA updateParentFollows ==
  ASSUME NEW f, Shaped(f), NEW id, NEW parent
  PROVE  Follows(f, updateParent(f, id, parent), {})
  BY SetParent, ThenMarked DEF updateParent
\* All children of a node are told who their parent is.
LEMMA AdoptedFollows ==
  ASSUME NEW f, Shaped(f), NEW id
  PROVE  Follows(f, Adopted(f, id), {})
<1> PICK kids : kids = ToSet(f.nodes[id].kids)
  OBVIOUS
<1> PICK ps : ps = [s \in ParentSlots |->
                      IF \E k \in kids : ParentSlot(k) = s THEN id ELSE f.parents[s]]
  OBVIOUS
<1> PICK told : told = {ParentSlot(k)[1] : k \in kids}
  OBVIOUS
<1> PICK g : g = [f EXCEPT !.parents = ps]
  OBVIOUS
<1>1. "parents" \in Fields /\ f = [x \in Fields |-> f[x]]
  BY DEF Fields, Shaped
<1>2. /\ g = [x \in Fields |-> g[x]]
      /\ g.parents = ps /\ \A x \in Fields \ {"parents"} : g[x] = f[x]
  BY ONLY <1>1, g = [f EXCEPT !.parents = ps]
<1>3. /\ g.updated = f.updated /\ g.nodes = f.nodes /\ g.totalPageCount = f.totalPageCount
      /\ g.fplStart = f.fplStart /\ g.rootPageId = f.rootPageId
  BY <1>2 DEF Fields
<1>4. Shaped(g)
  <2>1. ps = [s \in ParentSlots |-> ps[s]]
    OBVIOUS
  <2>2. f.nodes = [i \in NodeIds |-> f.nodes[i]]
    BY DEF Shaped
  <2> QED BY ONLY <1>2, <1>3, <2>1, <2>2 DEF Shaped
<1>5. \A s \in ParentSlots : f.parents[s] # g.parents[s] => s[1] \in told
  BY <1>2
<1>6. ChangedPages(f, g) \subseteq told
  BY <1>3, <1>5 DEF ChangedPages, Header
<1>7. Follows(f, g, told)
  BY <1>3, <1>4, <1>6 DEF Follows
<1>8. Follows(f, Marked(g, told), {})
  BY <1>7, ThenMarked
<1>9. Adopted(f, id) = Marked(g, told)
  BY DEF Adopted
<1> QED
  BY <1>8, <1>9

LEMMA allocateFollows ==
  ASSUME NEW f, Shaped(f)
  PROVE  Follows(f, allocateFreePage(f), {0})
<1> PICK next : next = f.nodes[f.fplStart].next
  OBVIOUS
<1> PICK count : count = SkipParenting(f.totalPageCount) + 1
  OBVIOUS
<1>1. Follows(f, [f EXCEPT !.fplStart = next], {0})
  BY SetHeader
<1>2. Follows(f, Marked([f EXCEPT !.fplStart = next], {0}), {0})
  BY <1>1, ThenMarked, FollowsMore
<1>3. Follows(f, [f EXCEPT !.totalPageCount = count], {0})
  BY SetHeader
<1>4. \/ allocateFreePage(f) = Marked([f EXCEPT !.fplStart = next], {0})
      \/ allocateFreePage(f) = [f EXCEPT !.totalPageCount = count]
  BY DEF allocateFreePage
<1> QED
  BY <1>2, <1>3, <1>4

LEMMA deallocateFollows ==
  ASSUME NEW f, Shaped(f), NEW id
  PROVE  Follows(f, deallocatePage(f, id), {}) /\ 0 \in deallocatePage(f, id).updated
<1> PICK n : n = [FreshPage EXCEPT !.next = f.fplStart]
  OBVIOUS
<1> PICK g : g = [f EXCEPT !.nodes[id] = n]
  OBVIOUS
<1> PICK h : h = [g EXCEPT !.fplStart = id]
  OBVIOUS
<1>1. Follows(f, g, {id}) /\ Shaped(g)
  BY SetNode DEF Follows
<1>2. Follows(g, h, {0})
  BY <1>1, SetHeader
<1>3. Follows(f, g, {0, id}) /\ Follows(g, h, {0, id})
  BY <1>1, <1>2 DEF Follows
<1>4. Follows(f, h, {0, id})
  BY <1>3, FollowsTwice
<1>5. Follows(f, Marked(h, {0, id}), {}) /\ 0 \in Marked(h, {0, id}).updated
  BY <1>4, ThenMarked
<1>6. deallocatePage(f, id) = Marked(h, {0, id})
  BY DEF deallocatePage
<1> QED
  BY <1>5, <1>6

LEMMA CreateNodeFollows ==
  ASSUME NEW f, Shaped(f), NEW n, NEW parent
  PROVE  Follows(f, CreateNode(f, n, parent), {0})
<1> PICK id : id = AllocatedPage(f)
  OBVIOUS
<1> PICK g : g = allocateFreePage(f)
  OBVIOUS
<1> PICK h : h = updateParent(g, id, parent)
  OBVIOUS
<1> PICK k : k = PutNode(h, id, n)
  OBVIOUS
<1>1. Follows(f, g, {0}) /\ Shaped(g)
  BY allocateFollows DEF Follows
<1>2. Follows(g, h, {0}) /\ Shaped(h)
  BY <1>1, updateParentFollows, FollowsMore DEF Follows
<1>3. Follows(h, k, {0}) /\ Shaped(k)
  BY <1>2, PutNodeFollows, FollowsMore DEF Follows
<1>4. Follows(k, Adopted(k, id), {0})
  BY <1>3, AdoptedFollows, FollowsMore
<1>5. CreateNode(f, n, parent) = Adopted(k, id)
  BY DEF CreateNode
<1> QED
  BY <1>1, <1>2, <1>3, <1>4, <1>5, FollowsTwice

-----------------------------------------------------------------------------
(* Insertion and deletion.                                                   *)

LEMMA InsertCellFollows ==
  ASSUME NEW f, Shaped(f), NEW id, NEW slot, NEW e, NEW child
  PROVE  Follows(f, InsertCell(f, id, slot, e, child), {})
<1> PICK n : n = NodeLike(f.nodes[id], InsertAt(f.nodes[id].cells, slot + 1, e),
                   IF f.nodes[id].kind = "leaf" THEN <<>> ELSE InsertAt(f.nodes[id].kids, slot + 1, child))
  OBVIOUS
<1> PICK g : g = PutNode(f, id, n)
  OBVIOUS
<1>1. Follows(f, g, {}) /\ Shaped(g)
  BY PutNodeFollows DEF Follows
<1>2. Follows(g, updateParent(g, child, id), {})
  BY <1>1, updateParentFollows
<1>3. Follows(f, updateParent(g, child, id), {})
  BY <1>1, <1>2, FollowsTwice
<1>4. InsertCell(f, id, slot, e, child) \in {g, updateParent(g, child, id)}
  BY DEF InsertCell
<1> QED
  BY <1>1, <1>3, <1>4

LEMMA RedealFollows ==
  ASSUME NEW f, Shaped(f), NEW left, NEW right, NEW slot, NEW butOne
  PROVE  Follows(f, Redeal(f, left, right, slot, butOne), {})
<1>1. ASSUME NEW a, NEW b, NEW c, NEW parent
      PROVE  Follows(f, Adopted(Adopted(PutNode(PutNode(PutNode(f, left, a), right, b), parent, c), left), right), {})
  <2> PICK g : g = PutNode(f, left, a)
    OBVIOUS
  <2> PICK h : h = PutNode(g, right, b)
    OBVIOUS
  <2> PICK k : k = PutNode(h, parent, c)
    OBVIOUS
  <2> PICK l : l = Adopted(k, left)
    OBVIOUS
  <2>1. Follows(f, g, {}) /\ Shaped(g)
    BY PutNodeFollows DEF Follows
  <2>2. Follows(g, h, {}) /\ Shaped(h)
    BY <2>1, PutNodeFollows DEF Follows
  <2>3. Follows(h, k, {}) /\ Shaped(k)
    BY <2>2, PutNodeFollows DEF Follows
  <2>4. Follows(k, l, {}) /\ Shaped(l)
    BY <2>3, AdoptedFollows DEF Follows
  <2>5. Follows(l, Adopted(l, right), {})
    BY <2>4, AdoptedFollows
  <2>6. Follows(f, k, {})
    BY <2>1, <2>2, <2>3, FollowsTwice
  <2>7. Follows(f, Adopted(l, right), {})
    BY <2>6, <2>4, <2>5, FollowsTwice
  <2> QED BY <2>7
<1> QED
  BY <1>1 DEF Redeal

LEMMA RebalanceFollows ==
  ASSUME NEW f, Shaped(f), NEW id
  PROVE  Follows(f, Rebalance(f, id), {})
  BY RedealFollows DEF Rebalance, rebalanceLeft, rebalanceRight

LEMMA splitNodeFollows ==
  ASSUME NEW f, Shaped(f), NEW id, NEW halves
  PROVE  Follows(f, splitNode(f, id, halves), {})
<1> PICK parent : parent = nodeParent(f, id)
  OBVIOUS
<1> PICK g : g = CreateNode(f, halves.left, parent)
  OBVIOUS
<1> PICK h : h = CreateNode(g, halves.right, parent)
  OBVIOUS
<1> PICK k : k = deallocatePage(h, id)
  OBVIOUS
<1>1. Follows(f, g, {0}) /\ Shaped(g)
  BY CreateNodeFollows DEF Follows
<1>2. Follows(g, h, {0}) /\ Shaped(h)
  BY <1>1, CreateNodeFollows DEF Follows
<1>3. Follows(h, k, {0}) /\ 0 \in k.updated
  BY <1>2, deallocateFollows, FollowsMore
<1>4. Follows(f, k, {0})
  BY <1>1, <1>2, <1>3, FollowsTwice
<1>5. Follows(f, k, {})
  BY <1>3, <1>4, FollowsHeader
<1>6. splitNode(f, id, halves) = k
  BY DEF splitNode
<1> QED
  BY <1>5, <1>6

LEMMA updateChildFollows ==
  ASSUME NEW f, Shaped(f), NEW id, NEW e, NEW newChild
  PROVE  Follows(f, updateChild(f, id, e, newChild), {})
<1> PICK n : n = NodeLike(f.nodes[id], f.nodes[id].cells,
                   ReplaceAt(f.nodes[id].kids, binarySearch(f.nodes[id].cells, e, FALSE).slot + 1, newChild))
  OBVIOUS
<1> PICK g : g = PutNode(f, id, n)
  OBVIOUS
<1>1. Follows(f, g, {}) /\ Shaped(g)
  BY PutNodeFollows DEF Follows
<1>2. Follows(g, updateParent(g, newChild, id), {})
  BY <1>1, updateParentFollows
<1>3. updateChild(f, id, e, newChild) = updateParent(g, newChild, id)
  BY DEF updateChild
<1> QED
  BY <1>1, <1>2, <1>3, FollowsTwice

LEMMA GrowRootFollows ==
  ASSUME NEW f, Shaped(f), NEW median, NEW left, NEW right
  PROVE  Follows(f, GrowRoot(f, median, left, right), {})
<1> PICK n : n = Inner(<<median>>, <<left, right>>)
  OBVIOUS
<1> PICK g : g = CreateNode(f, n, NULL32)
  OBVIOUS
<1> PICK h : h = [g EXCEPT !.rootPageId = AllocatedPage(f)]
  OBVIOUS
<1>1. Follows(f, g, {0}) /\ Shaped(g)
  BY CreateNodeFollows DEF Follows
<1>2. Follows(g, h, {0})
  BY <1>1, SetHeader
<1>3. Follows(f, h, {0})
  BY <1>1, <1>2, FollowsTwice
<1>4. Follows(f, Marked(h, {0}), {})
  BY <1>3, ThenMarked
<1>5. GrowRoot(f, median, left, right) = Marked(h, {0})
  BY DEF GrowRoot
<1> QED
  BY <1>4, <1>5

LEMMA WildFollows ==
  ASSUME NEW f, Shaped(f)
  PROVE  Follows(f, [f EXCEPT !.wild = TRUE], {})
  BY SetHeader

LEMMA InsertTurnFollows ==
  ASSUME NEW f, Shaped(f), NEW id, NEW e, NEW child
  PROVE  Follows(f, InsertTurn(f, id, e, child).file, {})
<1> PICK n : n = f.nodes[id]
  OBVIOUS
<1> PICK p : p = binarySearch(n.cells, e, FALSE)
  OBVIOUS
<1> PICK parent : parent = nodeParent(f, id)
  OBVIOUS
<1> PICK halves : halves = Halves(n, p.slot, e, child)
  OBVIOUS
<1> PICK left : left = AllocatedPage(f)
  OBVIOUS
<1> PICK right : right = AllocatedPage(CreateNode(f, halves.left, parent))
  OBVIOUS
<1> PICK split : split = splitNode(f, id, halves)
  OBVIOUS
<1> PICK dealt : dealt = Rebalance(f, id)
  OBVIOUS
<1>1. Follows(f, split, {}) /\ Shaped(split)
  BY splitNodeFollows DEF Follows
<1>2. Follows(f, dealt, {})
  BY RebalanceFollows
<1>3. Follows(f, GrowRoot(split, halves.median, left, right), {})
  <2> PICK g : g = GrowRoot(split, halves.median, left, right)
    OBVIOUS
  <2>1. Follows(split, g, {})
    BY <1>1, GrowRootFollows
  <2>2. Follows(f, g, {})
    BY ONLY <1>1, <2>1, FollowsTwice
  <2> QED BY <2>2
<1>4. Follows(f, updateChild(split, parent, halves.median, right), {})
  <2> PICK g : g = updateChild(split, parent, halves.median, right)
    OBVIOUS
  <2>1. Follows(split, g, {})
    BY <1>1, updateChildFollows
  <2>2. Follows(f, g, {})
    BY ONLY <1>1, <2>1, FollowsTwice
  <2> QED BY <2>2
<1>5. Follows(f, InsertCell(f, id, p.slot, e, child), {})
  BY InsertCellFollows
<1>6. Follows(f, f, {}) /\ Follows(f, [f EXCEPT !.wild = TRUE], {})
  BY FollowsSelf, WildFollows
<1>7. InsertTurn(f, id, e, child).file
        \in {f, InsertCell(f, id, p.slot, e, child), [f EXCEPT !.wild = TRUE], dealt,
             GrowRoot(split, halves.median, left, right),
             updateChild(split, parent, halves.median, right)}
  BY DEF InsertTurn, Inserted, Inserting
<1> QED
  BY <1>1, <1>2, <1>3, <1>4, <1>5, <1>6, <1>7

\* The turns of an insertion, of which there are at most MaxPage.
TurnsUpTo(m, from, after) ==
  after = [i \in 0..m |->
             IF i = 0 THEN from
             ELSE LET w == after[i - 1] IN
                  IF w.id = None THEN w ELSE InsertTurn(w.file, w.id, w.e, w.child)]

LEMMA TurnsDefined ==
  ASSUME NEW from
  PROVE  \E after : TurnsUpTo(MaxPage, from, after)
<1> DEFINE Wrong == {m \in 0..MaxPage : ~ \E after : TurnsUpTo(m, from, after)}
           Turn(w) == IF w.id = None THEN w ELSE InsertTurn(w.file, w.id, w.e, w.child)
<1>0. MaxPage \in Nat
  BY PagesAssumption
<1>1. Wrong = {}
  <2> SUFFICES ASSUME Wrong # {} PROVE FALSE
    OBVIOUS
  <2>1. Wrong \in SUBSET Nat
    BY <1>0
  <2>2. PICK m \in Wrong : \A k \in Wrong : m <= k
    <3> HIDE DEF Wrong
    <3> QED BY <2>1, Least
  <2>3. m # 0
    <3>1. TurnsUpTo(0, from, [i \in 0..0 |-> from])
      BY DEF TurnsUpTo
    <3> QED BY <3>1
  <2>4. m \in 1..MaxPage /\ m - 1 \in 0..MaxPage /\ m - 1 \notin Wrong
    BY <1>0, <2>2, <2>3
  <2>5. PICK after : TurnsUpTo(m - 1, from, after)
    BY <2>4
  <2> HIDE DEF Turn
  <2>6. /\ DOMAIN after = 0..(m - 1)
        /\ \A i \in 0..(m - 1) : after[i] = IF i = 0 THEN from ELSE Turn(after[i - 1])
    BY <2>5 DEF TurnsUpTo, Turn
  <2> DEFINE more == [i \in 0..m |-> IF i = m THEN Turn(after[m - 1]) ELSE after[i]]
  <2>7. ASSUME NEW i \in 0..m
        PROVE  more[i] = IF i = 0 THEN from ELSE Turn(more[i - 1])
    <3>1. CASE i = m
      BY <1>0, <2>4, <3>1
    <3>2. CASE i # m /\ i # 0
      <4>1. i \in 0..(m - 1) /\ i - 1 \in 0..(m - 1) /\ i - 1 # m /\ i - 1 \in 0..m
        BY <1>0, <2>4, <3>2
      <4> QED BY <2>6, <3>2, <4>1
    <3>3. CASE i # m /\ i = 0
      <4>1. after[0] = from
        BY <1>0, <2>4, <2>6
      <4> QED BY <3>3, <4>1
    <3> QED BY <3>1, <3>2, <3>3
  <2>8. more = [i \in 0..m |-> IF i = 0 THEN from ELSE Turn(more[i - 1])]
    <3>1. more = [i \in 0..m |-> more[i]]
      OBVIOUS
    <3> HIDE DEF more
    <3> QED BY <2>7, <3>1
  <2>9. TurnsUpTo(m, from, more)
    <3> HIDE DEF more
    <3> QED BY ONLY <2>8 DEF TurnsUpTo, Turn
  <2> QED BY <2>2, <2>9
<1>2. MaxPage \in 0..MaxPage
  BY <1>0
<1> QED
  BY <1>1, <1>2

LEMMA insertFollows ==
  ASSUME NEW f, Shaped(f), NEW id, NEW e
  PROVE  Follows(f, insertIntoNode(f, id, e), {})
<1> PICK from : from = Inserting(f, id, e, NULL32)
  OBVIOUS
<1> DEFINE turns == CHOOSE after : TurnsUpTo(MaxPage, from, after)
<1>1. insertIntoNode(f, id, e) = turns[MaxPage].file
  BY DEF insertIntoNode, TurnsUpTo
<1>2. TurnsUpTo(MaxPage, from, turns)
  BY TurnsDefined
<1> HIDE DEF turns
<1>3. MaxPage \in Nat
  BY PagesAssumption
<1> DEFINE After(w) == IF w.id = None THEN w ELSE InsertTurn(w.file, w.id, w.e, w.child)
<1>6. \A i \in 0..MaxPage : turns[i] = IF i = 0 THEN from ELSE After(turns[i - 1])
  BY ONLY <1>2 DEF TurnsUpTo
<1> DEFINE Wrong == {i \in 0..MaxPage : ~Follows(f, turns[i].file, {})}
<1>4. Wrong = {}
  <2> SUFFICES ASSUME Wrong # {} PROVE FALSE
    OBVIOUS
  <2>1. Wrong \in SUBSET Nat
    BY <1>3
  <2>2. PICK m \in Wrong : \A k \in Wrong : m <= k
    <3> HIDE DEF Wrong
    <3> QED BY <2>1, Least
  <2>3. m # 0
    <3>1. turns[0] = from
      BY ONLY <1>3, <1>6
    <3>2. from.file = f
      BY DEF Inserting
    <3> QED BY <3>1, <3>2, FollowsSelf
  <2>4. m \in 1..MaxPage /\ m - 1 \in 0..MaxPage /\ m - 1 \notin Wrong
    BY <1>3, <2>2, <2>3
  <2> PICK w : w = turns[m - 1]
    OBVIOUS
  <2>5. Follows(f, w.file, {}) /\ Shaped(w.file)
    BY <2>4 DEF Follows
  <2>6. turns[m] \in {w, InsertTurn(w.file, w.id, w.e, w.child)}
    <3>1. turns[m] = After(w)
      <4> HIDE DEF After, Wrong
      <4> QED BY <1>6, <2>4
    <3> QED BY ONLY <3>1
  <2> PICK g : g = InsertTurn(w.file, w.id, w.e, w.child).file
    OBVIOUS
  <2>7. Follows(w.file, g, {})
    BY <2>5, InsertTurnFollows
  <2>8. Follows(f, g, {})
    BY ONLY <2>5, <2>7, FollowsTwice
  <2> QED BY <2>2, <2>5, <2>6, <2>8
<1>5. MaxPage \in 0..MaxPage
  BY <1>3
<1> QED
  BY <1>1, <1>4, <1>5

LEMMA DeleteFromInnerFollows ==
  ASSUME NEW f, Shaped(f), NEW id, NEW slot
  PROVE  Follows(f, DeleteFromInner(f, id, slot), {})
<1> PICK n : n = f.nodes[id]
  OBVIOUS
<1> PICK child : child = n.kids[slot + 1]
  OBVIOUS
<1> PICK rightmost : rightmost = findRightmostNode(f, child)
  OBVIOUS
<1> PICK cells : cells = f.nodes[rightmost].cells
  OBVIOUS
<1> PICK a : a = DropCell(n, slot)
  OBVIOUS
<1> PICK b : b = DropLastCell(f.nodes[rightmost])
  OBVIOUS
<1> PICK c : c = NodeLike(n, ReplaceAt(n.cells, slot + 1, Predecessor(cells)), n.kids)
  OBVIOUS
<1> PICK g : g = deallocatePage(f, child)
  OBVIOUS
<1> PICK h : h = PutNode(f, rightmost, b)
  OBVIOUS
<1>1. Follows(f, g, {}) /\ Shaped(g) /\ Follows(f, h, {}) /\ Shaped(h)
  BY deallocateFollows, PutNodeFollows DEF Follows
<1>2. Follows(f, PutNode(g, id, a), {})
  <2> PICK k : k = PutNode(g, id, a)
    OBVIOUS
  <2>1. Follows(g, k, {})
    BY <1>1, PutNodeFollows
  <2>2. Follows(f, k, {})
    BY ONLY <1>1, <2>1, FollowsTwice
  <2> QED BY <2>2
<1>3. Follows(f, PutNode(h, id, c), {})
  <2> PICK k : k = PutNode(h, id, c)
    OBVIOUS
  <2>1. Follows(h, k, {})
    BY <1>1, PutNodeFollows
  <2>2. Follows(f, k, {})
    BY ONLY <1>1, <2>1, FollowsTwice
  <2> QED BY <2>2
<1>4. Follows(f, [f EXCEPT !.wild = TRUE], {})
  BY WildFollows
<1>5. DeleteFromInner(f, id, slot) \in {PutNode(g, id, a), [f EXCEPT !.wild = TRUE], PutNode(h, id, c)}
  BY DEF DeleteFromInner
<1> QED
  BY <1>2, <1>3, <1>4, <1>5

LEMMA deleteFollows ==
  ASSUME NEW f, Shaped(f), NEW id, NEW slot
  PROVE  Follows(f, deleteFromNode(f, id, slot), {})
  BY DeleteFromInnerFollows, PutNodeFollows DEF deleteFromNode

-----------------------------------------------------------------------------
(* Calls.                                                                    *)

\* The invariant: between two calls nothing is to be committed any more.
MarkedInv == Shaped(file) /\ file.updated = {} /\ unmarked = {}

\* What is left of a file when its call has ended.
LEMMA FinishedShape ==
  ASSUME NEW g, Shaped(g)
  PROVE  Shaped([g EXCEPT !.updated = {}]) /\ [g EXCEPT !.updated = {}].updated = {}
<1> PICK h : h = [g EXCEPT !.updated = {}]
  OBVIOUS
<1>1. "updated" \in Fields /\ g = [x \in Fields |-> g[x]]
  BY DEF Fields, Shaped
<1>2. /\ h = [x \in Fields |-> h[x]]
      /\ h.updated = {} /\ \A x \in Fields \ {"updated"} : h[x] = g[x]
  BY ONLY <1>1, h = [g EXCEPT !.updated = {}]
<1>3. h.nodes = g.nodes /\ h.parents = g.parents
  BY <1>2 DEF Fields
<1>4. Shaped(h)
  BY <1>2, <1>3 DEF Shaped
<1> QED
  BY <1>2, <1>4

LEMMA FinishMarked ==
  ASSUME MarkedInv, NEW g, Follows(file, g, {}), Finish(g)
  PROVE  MarkedInv'
<1>1. Shaped(file') /\ file'.updated = {}
  BY FinishedShape DEF Finish, Follows
<1>2. unmarked' = {}
  BY DEF Finish, Follows
<1> QED
  BY <1>1, <1>2 DEF MarkedInv, Shaped

LEMMA NewFileShape == Shaped(NewFile) /\ NewFile.updated = {}
<1> DEFINE blank == [totalPageCount |-> 1, fplStart |-> NULL32, rootPageId |-> NULL32,
                     nodes |-> [id \in NodeIds |-> FreshPage],
                     parents |-> [s \in ParentSlots |-> 0],
                     updated |-> {}, wild |-> FALSE]
           f == CreateNode(blank, Leaf(<<>>), NULL32)
<1>1. Shaped(blank)
  BY DEF Shaped, Fields
<1>2. Shaped(f)
  BY <1>1, CreateNodeFollows DEF Follows
<1> PICK root : root = AllocatedPage(blank)
  OBVIOUS
<1>3. NewFile = [f EXCEPT !.rootPageId = root, !.totalPageCount = @ + 1, !.updated = {}]
  BY DEF NewFile
<1> HIDE DEF f, blank
<1> PICK g : g = [f EXCEPT !.rootPageId = root]
  OBVIOUS
<1> PICK h : h = [g EXCEPT !.totalPageCount = f.totalPageCount + 1]
  OBVIOUS
<1>4. Shaped(g)
  BY <1>2, SetHeader DEF Follows
<1>5. Shaped(h)
  BY <1>4, SetHeader DEF Follows
<1>6. NewFile = [h EXCEPT !.updated = {}]
  <2>1. f = [x \in Fields |-> f[x]]
    BY <1>2 DEF Shaped
  <2> QED BY ONLY <1>3, <2>1, g = [f EXCEPT !.rootPageId = root], h = [g EXCEPT !.totalPageCount = f.totalPageCount + 1]
               DEF Fields
<1> QED
  BY <1>5, <1>6, FinishedShape

LEMMA MarkedInit == Init => MarkedInv
  BY NewFileShape DEF Init, MarkedInv

LEMMA addKeyMarked ==
  ASSUME MarkedInv, NEW e, addKey(e)
  PROVE  MarkedInv'
<1>1. Follows(file, file, {})
  BY FollowsSelf DEF MarkedInv
<1>2. PICK id : Finish(file) \/ Finish(insertIntoNode(file, id, e))
  BY DEF addKey
<1>3. Follows(file, insertIntoNode(file, id, e), {})
  BY insertFollows DEF MarkedInv
<1> QED
  BY <1>1, <1>2, <1>3, FinishMarked

LEMMA deleteKeyMarked ==
  ASSUME MarkedInv, NEW e, deleteKey(e)
  PROVE  MarkedInv'
<1>1. Follows(file, file, {})
  BY FollowsSelf DEF MarkedInv
<1>2. PICK id, slot : Finish(file) \/ Finish(deleteFromNode(file, id, slot))
  BY DEF deleteKey
<1>3. Follows(file, deleteFromNode(file, id, slot), {})
  BY deleteFollows DEF MarkedInv
<1> QED
  BY <1>1, <1>2, <1>3, FinishMarked

LEMMA findKeyMarked ==
  ASSUME MarkedInv, NEW key, findKey(key)
  PROVE  MarkedInv'
<1>1. Follows(file, file, {})
  BY FollowsSelf DEF MarkedInv
<1>2. Finish(file)
  BY DEF findKey
<1> QED
  BY <1>1, <1>2, FinishMarked

LEMMA MarkedStep == MarkedInv /\ [Next]_vars => MarkedInv'
<1> SUFFICES ASSUME MarkedInv, [Next]_vars PROVE MarkedInv'
  OBVIOUS
<1>1. CASE UNCHANGED vars
  BY <1>1 DEF vars, MarkedInv, Shaped
<1>2. CASE FillFrom
  BY <1>2, addKeyMarked DEF FillFrom
<1>3. CASE Call
  BY <1>3, addKeyMarked, deleteKeyMarked, findKeyMarked DEF Call
<1> QED
  BY <1>1, <1>2, <1>3 DEF Next

(* Every page that a call changes is one it calls update() for, whatever the  *)
(* tree is like, and also in a tree that deletions have made brittle: a split *)
(* that counts new pages frees one, and thereby marks the header.             *)
THEOREM ChangesAlwaysMarked == Spec => []ChangesMarked
<1>1. MarkedInv => ChangesMarked
  BY DEF MarkedInv, ChangesMarked
<1> QED
  BY <1>1, MarkedInit, MarkedStep, PTL DEF Spec
=============================================================================
