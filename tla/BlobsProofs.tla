----------------------------- MODULE BlobsProofs -----------------------------
(***************************************************************************)
(* Proofs about Blobs, for any blobs, any sizes of the index pages and any  *)
(* number of pages and handles: as long as nothing is rolled back, no space *)
(* is lost or given out twice, and every blob reads as it was given.         *)
(***************************************************************************)
EXTENDS Blobs, FiniteSetTheorems, WellFoundedInduction, TLAPS

-----------------------------------------------------------------------------
(* Numbers. *)

\* A set of numbers that is not empty has a least one.
LEMMA Least ==
  ASSUME NEW S \in SUBSET Nat, S # {}
  PROVE  \E m \in S : \A n \in S : m <= n
<1>1. IsWellFoundedOn(OpToRel(<, Nat), Nat)
  BY NatLessThanWellFounded
<1>2. PICK m \in S : \A n \in S : ~(<<n, m>> \in OpToRel(<, Nat))
  BY <1>1, WFMin
<1>3. \A n \in S : ~(n < m)
  BY <1>2 DEF OpToRel
<1> QED
  BY <1>3

\* What holds of 0 and of the number after each one it holds of holds of all.
LEMMA Upwards ==
  ASSUME NEW N \in Nat, NEW S, 0 \in S, \A n \in 0..N : n < N /\ n \in S => n + 1 \in S
  PROVE  \A n \in 0..N : n \in S
<1> SUFFICES ASSUME NEW k \in 0..N, k \notin S PROVE FALSE
  OBVIOUS
<1> DEFINE Out == {n \in 0..N : n \notin S}
<1>1. Out \in SUBSET Nat /\ Out # {}
  OBVIOUS
<1>2. PICK m \in Out : \A n \in Out : m <= n
  <2> HIDE DEF Out
  <2> QED BY <1>1, Least
<1>3. m \in 1..N /\ m - 1 \in 0..N /\ m - 1 \in S
  BY <1>2, SMT
<1> QED
  BY <1>2, <1>3

\* Division by what is not 0.
LEMMA DivMod ==
  ASSUME NEW n \in Nat, NEW k \in Nat \ {0}
  PROVE  n \div k \in Nat /\ n % k \in 0..(k - 1) /\ n = k * (n \div k) + (n % k)
  OBVIOUS

LEMMA DivUnique ==
  ASSUME NEW n \in Nat, NEW k \in Nat \ {0}, NEW q \in Nat, NEW r \in 0..(k - 1), n = k * q + r
  PROVE  n \div k = q /\ n % k = r
<1> PICK p \in Nat, m \in 0..(k - 1) : p = n \div k /\ m = n % k /\ n = k * p + m
  BY DivMod
<1> PICK kp \in Nat, kq \in Nat : kp = k * p /\ kq = k * q
  OBVIOUS
<1>1. ASSUME p > q PROVE kp >= kq + k
  BY <1>1
<1>2. ASSUME p < q PROVE kq >= kp + k
  BY <1>2
<1>3. kp + m = kq + r
  OBVIOUS
<1>4. ~(p > q) /\ ~(p < q)
  BY <1>1, <1>2, <1>3
<1> QED
  BY <1>3, <1>4

\* The number after n is in the same row of k, or the first of the next one.
LEMMA DivNext ==
  ASSUME NEW n \in Nat, NEW k \in Nat \ {0}
  PROVE  /\ (n + 1) % k # 0 => (n + 1) \div k = n \div k /\ (n + 1) % k = (n % k) + 1
         /\ (n + 1) % k = 0 => (n + 1) \div k = n \div k + 1
<1> PICK q \in Nat, r \in 0..(k - 1) : q = n \div k /\ r = n % k /\ n = k * q + r
  BY DivMod
<1>1. CASE r = k - 1
  <2>1. n + 1 = k * (q + 1) + 0 /\ q + 1 \in Nat /\ 0 \in 0..(k - 1) /\ n + 1 \in Nat
    BY <1>1
  <2>2. (n + 1) \div k = q + 1 /\ (n + 1) % k = 0
    BY ONLY <2>1, DivUnique, k \in Nat \ {0}
  <2> QED BY <2>2
<1>2. CASE r # k - 1
  <2>1. n + 1 = k * q + (r + 1) /\ r + 1 \in 0..(k - 1) /\ n + 1 \in Nat /\ r + 1 # 0
    BY <1>2
  <2>2. (n + 1) \div k = q /\ (n + 1) % k = r + 1
    BY ONLY <2>1, DivUnique, k \in Nat \ {0}, q \in Nat
  <2> QED BY <2>1, <2>2
<1> QED
  BY <1>1, <1>2

-----------------------------------------------------------------------------
(* Bytes: what lies at a place, and what a step keeps. *)

\* A piece lies there, and nothing else.
Has(pg, page, at, len, what) ==
  {p \in pg[page] : Overlap(p, at, len)} = {[at |-> at, len |-> len, what |-> what]}

\* What lies on a page between two places stays there.
Kept(pg, new, page, from, to) ==
  \A at, len \in Nat : \A what :
    from <= at /\ at + len <= to /\ Has(pg, page, at, len, what) => Has(new, page, at, len, what)

IsPages(pg) == pg = [p \in PageIds |-> pg[p]]

LEMMA HasGet ==
  ASSUME NEW pg, NEW page, NEW at, NEW len, NEW what, NEW blank, Has(pg, page, at, len, what)
  PROVE  Get(pg, page, at, len, blank) = what
<1> DEFINE piece == [at |-> at, len |-> len, what |-> what]
           here == {p \in pg[page] : Overlap(p, at, len)}
<1>1. here = {piece}
  BY DEF Has
<1>2. (CHOOSE q \in here : TRUE) = piece
  BY <1>1
<1> QED
  BY <1>1, <1>2 DEF Get

LEMMA PutPages ==
  ASSUME NEW pg, IsPages(pg), NEW page, NEW at, NEW len, NEW what
  PROVE  IsPages(Put(pg, page, at, len, what))
  BY DEF IsPages, Put, Wipe

\* A page after a piece is put on it, and the other pages.
LEMMA PutThere ==
  ASSUME NEW pg, IsPages(pg), NEW page \in PageIds, NEW at, NEW len, len # 0, NEW what
  PROVE  Put(pg, page, at, len, what)[page] =
           {p \in pg[page] : ~Overlap(p, at, len)} \cup {[at |-> at, len |-> len, what |-> what]}
  BY DEF IsPages, Put, Wipe

LEMMA PutElsewhere ==
  ASSUME NEW pg, IsPages(pg), NEW page, NEW at, NEW len, NEW what, NEW q \in PageIds, q # page
  PROVE  Put(pg, page, at, len, what)[q] = pg[q]
  BY DEF IsPages, Put, Wipe

LEMMA PutHas ==
  ASSUME NEW pg, IsPages(pg), NEW page \in PageIds, NEW at \in Nat, NEW len \in Nat \ {0}, NEW what
  PROVE  Has(Put(pg, page, at, len, what), page, at, len, what)
<1> DEFINE piece == [at |-> at, len |-> len, what |-> what]
           new == Put(pg, page, at, len, what)
<1>1. new[page] = {p \in pg[page] : ~Overlap(p, at, len)} \cup {piece}
  BY PutThere
<1>2. Overlap(piece, at, len)
  BY DEF Overlap
<1> HIDE DEF piece, new
<1>3. {p \in new[page] : Overlap(p, at, len)} = {piece}
  BY <1>1, <1>2
<1> QED
  BY <1>3 DEF Has, piece, new

LEMMA PutKeeps ==
  ASSUME NEW pg, IsPages(pg), NEW page \in PageIds, NEW at \in Nat, NEW len \in Nat, NEW what,
         NEW q \in PageIds, NEW from \in Nat, NEW to \in Nat,
         q # page \/ to <= at \/ at + len <= from
  PROVE  Kept(pg, Put(pg, page, at, len, what), q, from, to)
<1> DEFINE new == Put(pg, page, at, len, what)
           piece == [at |-> at, len |-> len, what |-> what]
<1>1. CASE len = 0
  BY <1>1 DEF Put, Kept
<1>2. CASE len # 0 /\ q # page
  <2>1. new[q] = pg[q]
    BY <1>2, PutElsewhere
  <2> QED BY <2>1 DEF Kept, Has
<1>3. CASE len # 0 /\ q = page
  <2> SUFFICES ASSUME NEW a \in Nat, NEW l \in Nat, NEW w,
                      from <= a /\ a + l <= to /\ Has(pg, q, a, l, w)
               PROVE  Has(new, q, a, l, w)
    BY DEF Kept
  <2> DEFINE old == [at |-> a, len |-> l, what |-> w]
  <2>1. new[page] = {p \in pg[page] : ~Overlap(p, at, len)} \cup {piece}
    BY <1>3, PutThere
  <2>2. ~Overlap(old, at, len) /\ ~Overlap(piece, a, l)
    BY <1>3 DEF Overlap
  <2>3. {p \in pg[page] : Overlap(p, a, l)} = {old}
    BY <1>3 DEF Has
  <2> HIDE DEF old, piece, new
  <2>4. {p \in new[page] : Overlap(p, a, l)} = {old}
    BY <2>1, <2>2, <2>3
  <2> QED BY <1>3, <2>4 DEF Has, old
<1> QED
  BY <1>1, <1>2, <1>3

LEMMA KeptSame ==
  ASSUME NEW pg, NEW q, NEW from, NEW to
  PROVE  Kept(pg, pg, q, from, to)
  BY DEF Kept

LEMMA KeptTwice ==
  ASSUME NEW pg, NEW mid, NEW new, NEW q, NEW from, NEW to,
         Kept(pg, mid, q, from, to), Kept(mid, new, q, from, to)
  PROVE  Kept(pg, new, q, from, to)
  BY DEF Kept

LEMMA KeptWithin ==
  ASSUME NEW pg, NEW new, NEW q, NEW from \in Nat, NEW to \in Nat, Kept(pg, new, q, from, to),
         NEW f \in Nat, NEW t \in Nat, from <= f, t <= to
  PROVE  Kept(pg, new, q, f, t)
<1> SUFFICES ASSUME NEW at \in Nat, NEW len \in Nat, NEW what,
                    f <= at, at + len <= t, Has(pg, q, at, len, what)
             PROVE  Has(new, q, at, len, what)
  BY DEF Kept
<1>1. from <= at /\ at + len <= to
  OBVIOUS
<1> QED
  BY <1>1 DEF Kept

\* What was within such a place is there.
LEMMA KeptHas ==
  ASSUME NEW pg, NEW new, NEW q, NEW from \in Nat, NEW to \in Nat, Kept(pg, new, q, from, to),
         NEW at \in Nat, NEW len \in Nat, NEW what, from <= at, at + len <= to,
         Has(pg, q, at, len, what)
  PROVE  Has(new, q, at, len, what)
  BY DEF Kept
-----------------------------------------------------------------------------
(* The loops, as functions of the number of their turns.                    *)

\* The pages of the master chain, as a function of the number of links followed.
MasterUpTo(pg, count, m, page) ==
  page = [n \in 0..m |-> IF n = 0 THEN 1 ELSE Get(pg, page[n - 1], MasterLink, 4, NULL32)]

LEMMA MasterDefined ==
  ASSUME NEW pg, NEW count, count \in Nat
  PROVE  \E page : MasterUpTo(pg, count, count, page) /\ Master(pg, count) = page[count]
<1> DEFINE N == count
           Wrong == {m \in 0..N : ~ \E page : MasterUpTo(pg, count, m, page)}
<1>0. N \in Nat
  OBVIOUS
<1>1. Wrong = {}
  <2> SUFFICES ASSUME Wrong # {} PROVE FALSE
    OBVIOUS
  <2>1. Wrong \in SUBSET Nat
    BY <1>0
  <2>2. PICK m \in Wrong : \A k \in Wrong : m <= k
    <3> HIDE DEF Wrong
    <3> QED BY <2>1, Least
  <2>3. m # 0
    <3>1. MasterUpTo(pg, count, 0, [n \in 0..0 |-> 1])
      BY DEF MasterUpTo
    <3> QED BY <3>1
  <2> HIDE DEF N
  <2>4. m \in 1..N /\ m - 1 \in 0..N /\ m - 1 \notin Wrong
    BY <1>0, <2>2, <2>3
  <2>5. PICK page : MasterUpTo(pg, count, m - 1, page)
    BY <2>4
  <2> DEFINE more == [n \in 0..m |->
                        IF n = m THEN Get(pg, page[m - 1], MasterLink, 4, NULL32) ELSE page[n]]
  <2>6. ASSUME NEW n \in 0..m
        PROVE  more[n] = IF n = 0 THEN 1 ELSE Get(pg, more[n - 1], MasterLink, 4, NULL32)
    <3>1. CASE n = m
      BY <1>0, <2>4, <3>1
    <3>2. CASE n # m /\ n # 0
      <4>1. n \in 0..(m - 1) /\ n - 1 \in 0..(m - 1) /\ n - 1 # m /\ n - 1 \in 0..m
        BY <1>0, <2>4, <3>2
      <4>2. page[n] = Get(pg, page[n - 1], MasterLink, 4, NULL32)
        BY <2>5, <3>2, <4>1 DEF MasterUpTo
      <4> QED BY <3>2, <4>1, <4>2
    <3>3. CASE n # m /\ n = 0
      <4>1. page[0] = 1
        BY <1>0, <2>4, <2>5 DEF MasterUpTo
      <4> QED BY <3>3, <4>1
    <3> QED BY <3>1, <3>2, <3>3
  <2>7. MasterUpTo(pg, count, m, more)
    <3>1. more = [n \in 0..m |-> more[n]]
      OBVIOUS
    <3> HIDE DEF more
    <3> QED BY <2>6, <3>1 DEF MasterUpTo
  <2> QED BY <2>2, <2>7
<1>2. \E page : MasterUpTo(pg, count, N, page)
  BY <1>0, <1>1
<1> DEFINE page == CHOOSE page : MasterUpTo(pg, count, N, page)
<1>3. Master(pg, count) = page[count]
  BY DEF Master, MasterUpTo
<1>4. MasterUpTo(pg, count, N, page)
  BY <1>2
<1> HIDE DEF page
<1> QED BY <1>3, <1>4

LEMMA PagesCounted == IsFiniteSet(PageIds) /\ Cardinality(PageIds) = MaxPages + 5
  BY SizesAssumption, FS_Interval DEF PageIds

\* A cleared page has nothing but its link, and the others what they had.
LEMMA ClearedPages ==
  ASSUME NEW pg, IsPages(pg), NEW page
  PROVE  IsPages(Cleared(pg, page))
  BY DEF IsPages, Cleared

LEMMA ClearedKeeps ==
  ASSUME NEW pg, IsPages(pg), NEW page, NEW q \in PageIds, q # page, NEW from, NEW to
  PROVE  Kept(pg, Cleared(pg, page), q, from, to)
<1>1. Cleared(pg, page)[q] = pg[q]
  BY DEF IsPages, Cleared
<1> QED
  BY <1>1 DEF Kept, Has

\* The chain that the links lead along.
PageChainAlong(next) ==
  LET ends == {i \in DOMAIN next : next[i] = NULL32} IN
  IF ends = {} THEN <<Junk>> ELSE [i \in 1..(CHOOSE n \in ends : TRUE) |-> next[i - 1]]

\* The pages of a chain, as a function of the number of links followed.
PageChainUpTo(pg, first, m, next) ==
  next = [n \in 0..m |->
            IF n = 0 THEN first
            ELSE LET p == next[n - 1]
                 IN IF p \in PageIds THEN Get(pg, p, overflowSize, 4, 0) ELSE Junk]

LEMMA PageChainDefined ==
  ASSUME NEW pg, NEW first
  PROVE  \E next : PageChainUpTo(pg, first, Cardinality(PageIds), next) /\ PageChain(pg, first) = PageChainAlong(next)
<1> DEFINE N == Cardinality(PageIds)
           Wrong == {m \in 0..N : ~ \E next : PageChainUpTo(pg, first, m, next)}
<1>0. N \in Nat
  BY PagesCounted, SizesAssumption
<1>1. Wrong = {}
  <2> SUFFICES ASSUME Wrong # {} PROVE FALSE
    OBVIOUS
  <2>1. Wrong \in SUBSET Nat
    BY <1>0
  <2>2. PICK m \in Wrong : \A k \in Wrong : m <= k
    <3> HIDE DEF Wrong
    <3> QED BY <2>1, Least
  <2>3. m # 0
    <3>1. PageChainUpTo(pg, first, 0, [n \in 0..0 |-> first])
      BY DEF PageChainUpTo
    <3> QED BY <3>1
  <2> HIDE DEF N
  <2>4. m \in 1..N /\ m - 1 \in 0..N /\ m - 1 \notin Wrong
    BY <1>0, <2>2, <2>3
  <2>5. PICK next : PageChainUpTo(pg, first, m - 1, next)
    BY <2>4
  <2> DEFINE more == [n \in 0..m |->
                        IF n = m THEN LET p == next[m - 1]
                                      IN IF p \in PageIds THEN Get(pg, p, overflowSize, 4, 0) ELSE Junk
                        ELSE next[n]]
  <2>6. ASSUME NEW n \in 0..m
        PROVE  more[n] =
                 IF n = 0 THEN first
                 ELSE LET p == more[n - 1]
                      IN IF p \in PageIds THEN Get(pg, p, overflowSize, 4, 0) ELSE Junk
    <3>1. CASE n = m
      BY <1>0, <2>4, <3>1
    <3>2. CASE n # m /\ n # 0
      <4>1. n \in 0..(m - 1) /\ n - 1 \in 0..(m - 1) /\ n - 1 # m /\ n - 1 \in 0..m
        BY <1>0, <2>4, <3>2
      <4>2. next[n] = LET p == next[n - 1]
                      IN IF p \in PageIds THEN Get(pg, p, overflowSize, 4, 0) ELSE Junk
        BY <2>5, <3>2, <4>1 DEF PageChainUpTo
      <4> QED BY <3>2, <4>1, <4>2
    <3>3. CASE n # m /\ n = 0
      <4>1. next[0] = first
        BY <1>0, <2>4, <2>5 DEF PageChainUpTo
      <4> QED BY <3>3, <4>1
    <3> QED BY <3>1, <3>2, <3>3
  <2>7. PageChainUpTo(pg, first, m, more)
    <3>1. more = [n \in 0..m |-> more[n]]
      OBVIOUS
    <3> HIDE DEF more
    <3> QED BY <2>6, <3>1 DEF PageChainUpTo
  <2> QED BY <2>2, <2>7
<1>2. \E next : PageChainUpTo(pg, first, N, next)
  BY <1>0, <1>1
<1> DEFINE next == CHOOSE next : PageChainUpTo(pg, first, N, next)
<1>3. PageChain(pg, first) = PageChainAlong(next)
  BY DEF PageChain, PageChainAlong, PageChainUpTo
<1>4. PageChainUpTo(pg, first, N, next)
  BY <1>2
<1> HIDE DEF next
<1> QED BY <1>3, <1>4

LEMMA PageChainIsSeq ==
  ASSUME NEW pg, NEW first
  PROVE  Len(PageChain(pg, first)) \in Nat
<1> PICK N \in Nat : N = Cardinality(PageIds)
  BY PagesCounted, SizesAssumption
<1> PICK next : PageChainUpTo(pg, first, N, next) /\ PageChain(pg, first) = PageChainAlong(next)
  BY PageChainDefined
<1>1. DOMAIN next = 0..N
  BY DEF PageChainUpTo
<1> DEFINE ends == {i \in DOMAIN next : next[i] = NULL32}
<1>2. CASE ends = {}
  BY <1>2 DEF PageChainAlong
<1>3. CASE ends # {}
  <2> PICK n : n = CHOOSE k \in ends : TRUE
    OBVIOUS
  <2>1. n \in Nat
    BY <1>1, <1>3
  <2>2. PageChain(pg, first) = [i \in 1..n |-> next[i - 1]]
    BY <1>3 DEF PageChainAlong
  <2> QED BY ONLY <2>1, <2>2
<1> QED
  BY <1>2, <1>3

\* The same of the overflow pages of an entry.
ChainAlong(next, e) ==
  LET ends == {i \in DOMAIN next : next[i] = NULL32} IN
  IF overflowPageCount(e.size) = 0 THEN <<>>
  ELSE IF ends = {} THEN <<Junk>>
  ELSE [i \in 1..(CHOOSE n \in ends : TRUE) |-> next[i - 1]]
ChainUpTo(pg, e, m, next) ==
  next = [n \in 0..m |->
            IF n = 0 THEN Get(pg, e.page, e.offset + 2 + remainder(e.size), 4, 0)
            ELSE LET p == next[n - 1]
                 IN IF p \in PageIds THEN Get(pg, p, overflowSize, 4, 0) ELSE Junk]

LEMMA ChainDefined ==
  ASSUME NEW pg, NEW e
  PROVE  \E next : ChainUpTo(pg, e, Cardinality(PageIds), next) /\ Chain(pg, e) = ChainAlong(next, e)
<1> PICK first : first = Get(pg, e.page, e.offset + 2 + remainder(e.size), 4, 0)
  OBVIOUS
<1> PICK next : PageChainUpTo(pg, first, Cardinality(PageIds), next) /\ PageChain(pg, first) = PageChainAlong(next)
  BY PageChainDefined
<1>1. ChainUpTo(pg, e, Cardinality(PageIds), next)
  BY DEF ChainUpTo, PageChainUpTo
<1>2. Chain(pg, e) = ChainAlong(next, e)
  BY DEF Chain, ChainAlong, PageChainAlong
<1> QED
  BY <1>1, <1>2

\* One turn of PutOverflow: the i-th overflow page.
Linked(a, d, i) ==
  LET id == OverflowPage(a.s)
      g == TakeBlock(a.s, overflowSize)
      filled == PutOverflowPage(g.pages, id, d, i)
  IN [s |-> [g EXCEPT !.pages = Put(filled, a.page, a.at, 4, id)],
      page |-> id, at |-> overflowSize]

\* What PutOverflow has done after some of its turns.
LinkedUpTo(s, d, page, at, m, linked) ==
  linked = [n \in 0..m |->
              IF n = 0 THEN [s |-> s, page |-> page, at |-> at] ELSE Linked(linked[n - 1], d, n)]

LEMMA LinkedDefined ==
  ASSUME NEW s, NEW d, NEW page, NEW at, overflowPageCount(d.size) \in Nat
  PROVE  \E linked : /\ LinkedUpTo(s, d, page, at, overflowPageCount(d.size), linked)
                     /\ PutOverflow(s, d, page, at) = linked[overflowPageCount(d.size)].s
<1> DEFINE N == overflowPageCount(d.size)
           Wrong == {m \in 0..N : ~ \E linked : LinkedUpTo(s, d, page, at, m, linked)}
<1>0. N \in Nat
  OBVIOUS
<1>1. Wrong = {}
  <2> SUFFICES ASSUME Wrong # {} PROVE FALSE
    OBVIOUS
  <2>1. Wrong \in SUBSET Nat
    BY <1>0
  <2>2. PICK m \in Wrong : \A k \in Wrong : m <= k
    <3> HIDE DEF Wrong
    <3> QED BY <2>1, Least
  <2>3. m # 0
    <3>1. LinkedUpTo(s, d, page, at, 0, [n \in 0..0 |-> [s |-> s, page |-> page, at |-> at]])
      BY DEF LinkedUpTo
    <3> QED BY <3>1
  <2> HIDE DEF N
  <2>4. m \in 1..N /\ m - 1 \in 0..N /\ m - 1 \notin Wrong
    BY <1>0, <2>2, <2>3
  <2>5. PICK linked : LinkedUpTo(s, d, page, at, m - 1, linked)
    BY <2>4
  <2> DEFINE more == [n \in 0..m |-> IF n = m THEN Linked(linked[m - 1], d, m) ELSE linked[n]]
  <2>6. ASSUME NEW n \in 0..m
        PROVE  more[n] = IF n = 0 THEN [s |-> s, page |-> page, at |-> at] ELSE Linked(more[n - 1], d, n)
    <3>1. CASE n = m
      BY <1>0, <2>4, <3>1
    <3>2. CASE n # m /\ n # 0
      <4>1. n \in 0..(m - 1) /\ n - 1 \in 0..(m - 1) /\ n - 1 # m /\ n - 1 \in 0..m
        BY <1>0, <2>4, <3>2
      <4>2. linked[n] = Linked(linked[n - 1], d, n)
        BY <2>5, <3>2, <4>1 DEF LinkedUpTo
      <4> QED BY <3>2, <4>1, <4>2
    <3>3. CASE n # m /\ n = 0
      <4>1. linked[0] = [s |-> s, page |-> page, at |-> at]
        BY <1>0, <2>4, <2>5 DEF LinkedUpTo
      <4> QED BY <3>3, <4>1
    <3> QED BY <3>1, <3>2, <3>3
  <2>7. LinkedUpTo(s, d, page, at, m, more)
    <3>1. more = [n \in 0..m |-> more[n]]
      OBVIOUS
    <3> HIDE DEF more
    <3> QED BY <2>6, <3>1 DEF LinkedUpTo
  <2> QED BY <2>2, <2>7
<1>2. \E linked : LinkedUpTo(s, d, page, at, N, linked)
  BY <1>0, <1>1
<1> DEFINE linked == CHOOSE linked : LinkedUpTo(s, d, page, at, N, linked)
<1>3. PutOverflow(s, d, page, at) = linked[overflowPageCount(d.size)].s
  BY DEF PutOverflow, Linked, LinkedUpTo
<1>4. LinkedUpTo(s, d, page, at, N, linked)
  BY <1>2
<1> HIDE DEF linked
<1> QED BY <1>3, <1>4

\* A page that is one block.
Whole(p) == [size |-> overflowSize, page |-> p, offset |-> 0]

\* What FreeOverflow has done after some of its turns.
FreedUpTo(s, chain, m, freed) ==
  freed = [n \in 0..m |-> IF n = 0 THEN s ELSE AddFree(freed[n - 1], Whole(chain[n]))]

LEMMA FreedDefined ==
  ASSUME NEW s, NEW chain, Len(chain) \in Nat
  PROVE  \E freed : FreedUpTo(s, chain, Len(chain), freed) /\ FreeOverflow(s, chain) = freed[Len(chain)]
<1> DEFINE N == Len(chain)
           Wrong == {m \in 0..N : ~ \E freed : FreedUpTo(s, chain, m, freed)}
<1>0. N \in Nat
  OBVIOUS
<1>1. Wrong = {}
  <2> SUFFICES ASSUME Wrong # {} PROVE FALSE
    OBVIOUS
  <2>1. Wrong \in SUBSET Nat
    BY <1>0
  <2>2. PICK m \in Wrong : \A k \in Wrong : m <= k
    <3> HIDE DEF Wrong
    <3> QED BY <2>1, Least
  <2>3. m # 0
    <3>1. FreedUpTo(s, chain, 0, [n \in 0..0 |-> s])
      BY DEF FreedUpTo
    <3> QED BY <3>1
  <2> HIDE DEF N
  <2>4. m \in 1..N /\ m - 1 \in 0..N /\ m - 1 \notin Wrong
    BY <1>0, <2>2, <2>3
  <2>5. PICK freed : FreedUpTo(s, chain, m - 1, freed)
    BY <2>4
  <2> DEFINE more == [n \in 0..m |-> IF n = m THEN AddFree(freed[m - 1], Whole(chain[m])) ELSE freed[n]]
  <2>6. ASSUME NEW n \in 0..m
        PROVE  more[n] = IF n = 0 THEN s ELSE AddFree(more[n - 1], Whole(chain[n]))
    <3>1. CASE n = m
      BY <1>0, <2>4, <3>1
    <3>2. CASE n # m /\ n # 0
      <4>1. n \in 0..(m - 1) /\ n - 1 \in 0..(m - 1) /\ n - 1 # m /\ n - 1 \in 0..m
        BY <1>0, <2>4, <3>2
      <4>2. freed[n] = AddFree(freed[n - 1], Whole(chain[n]))
        BY <2>5, <3>2, <4>1 DEF FreedUpTo
      <4> QED BY <3>2, <4>1, <4>2
    <3>3. CASE n # m /\ n = 0
      <4>1. freed[0] = s
        BY <1>0, <2>4, <2>5 DEF FreedUpTo
      <4> QED BY <3>3, <4>1
    <3> QED BY <3>1, <3>2, <3>3
  <2>7. FreedUpTo(s, chain, m, more)
    <3>1. more = [n \in 0..m |-> more[n]]
      OBVIOUS
    <3> HIDE DEF more
    <3> QED BY <2>6, <3>1 DEF FreedUpTo
  <2> QED BY <2>2, <2>7
<1>2. \E freed : FreedUpTo(s, chain, N, freed)
  BY <1>0, <1>1
<1> DEFINE freed == CHOOSE freed : FreedUpTo(s, chain, N, freed)
<1>3. FreeOverflow(s, chain) = freed[Len(chain)]
  BY DEF FreeOverflow, Whole, FreedUpTo
<1>4. FreedUpTo(s, chain, N, freed)
  BY <1>2
<1> HIDE DEF freed
<1> QED BY <1>3, <1>4

\* The chain of free handles.
HandleUpTo(s, m, handle) ==
  handle = [n \in 0..m |->
              IF n = 0 THEN s.mem.fhlStart
              ELSE LET id == handle[n - 1] IN IF id = NULL32 THEN NULL32 ELSE Entry(s, id).size]

LEMMA HandleDefined ==
  ASSUME NEW s, s.mem.handleCount \in Nat
  PROVE  \E handle : HandleUpTo(s, s.mem.handleCount, handle) /\ FreeHandles(s) = handle
<1> DEFINE N == s.mem.handleCount
           Wrong == {m \in 0..N : ~ \E handle : HandleUpTo(s, m, handle)}
<1>0. N \in Nat
  OBVIOUS
<1>1. Wrong = {}
  <2> SUFFICES ASSUME Wrong # {} PROVE FALSE
    OBVIOUS
  <2>1. Wrong \in SUBSET Nat
    BY <1>0
  <2>2. PICK m \in Wrong : \A k \in Wrong : m <= k
    <3> HIDE DEF Wrong
    <3> QED BY <2>1, Least
  <2>3. m # 0
    <3>1. HandleUpTo(s, 0, [n \in 0..0 |-> s.mem.fhlStart])
      BY DEF HandleUpTo
    <3> QED BY <3>1
  <2> HIDE DEF N
  <2>4. m \in 1..N /\ m - 1 \in 0..N /\ m - 1 \notin Wrong
    BY <1>0, <2>2, <2>3
  <2>5. PICK handle : HandleUpTo(s, m - 1, handle)
    BY <2>4
  <2> DEFINE more == [n \in 0..m |->
                        IF n = m THEN LET id == handle[m - 1]
                                      IN IF id = NULL32 THEN NULL32 ELSE Entry(s, id).size
                        ELSE handle[n]]
  <2>6. ASSUME NEW n \in 0..m
        PROVE  more[n] =
                 IF n = 0 THEN s.mem.fhlStart
                 ELSE LET id == more[n - 1] IN IF id = NULL32 THEN NULL32 ELSE Entry(s, id).size
    <3>1. CASE n = m
      BY <1>0, <2>4, <3>1
    <3>2. CASE n # m /\ n # 0
      <4>1. n \in 0..(m - 1) /\ n - 1 \in 0..(m - 1) /\ n - 1 # m /\ n - 1 \in 0..m
        BY <1>0, <2>4, <3>2
      <4>2. handle[n] = LET id == handle[n - 1] IN IF id = NULL32 THEN NULL32 ELSE Entry(s, id).size
        BY <2>5, <3>2, <4>1 DEF HandleUpTo
      <4> QED BY <3>2, <4>1, <4>2
    <3>3. CASE n # m /\ n = 0
      <4>1. handle[0] = s.mem.fhlStart
        BY <1>0, <2>4, <2>5 DEF HandleUpTo
      <4> QED BY <3>3, <4>1
    <3> QED BY <3>1, <3>2, <3>3
  <2>7. HandleUpTo(s, m, more)
    <3>1. more = [n \in 0..m |-> more[n]]
      OBVIOUS
    <3> HIDE DEF more
    <3> QED BY <2>6, <3>1 DEF HandleUpTo
  <2> QED BY <2>2, <2>7
<1>2. \E handle : HandleUpTo(s, N, handle)
  BY <1>0, <1>1
<1> DEFINE handle == CHOOSE handle : HandleUpTo(s, N, handle)
<1>3. FreeHandles(s) = handle
  BY DEF FreeHandles, HandleUpTo
<1>4. HandleUpTo(s, N, handle)
  BY <1>2
<1> HIDE DEF handle
<1> QED BY <1>3, <1>4

-----------------------------------------------------------------------------
(* Pages tiled by blocks.                                                    *)

Extents == [size : Nat, page : Nat, offset : Nat]
End(b) == b.offset + b.size + 4

LEMMA BoundsSay ==
  ASSUME NEW C, Bounds(C)
  PROVE  \A n \in C : n \in Int /\ n <= 8192 /\ n <= PAGE_SIZE
<1> PICK top \in Nat : top = PAGE_SIZE /\ top = 8192
  BY DEF PAGE_SIZE
<1>1. C \in SUBSET (0..top)
  BY DEF Bounds
<1>2. \A n \in C : n \in Int /\ n <= top
  BY ONLY <1>1, top \in Nat
<1> QED
  BY <1>2

Shaped(C, all, count) ==
  \A b \in all : b \in Extents /\ b.size > 0 /\ b.page < count /\ b.offset \in C /\ End(b) \in C
FilledRight(all) ==
  \A b \in all : End(b) = PAGE_SIZE \/ \E c \in all : c.page = b.page /\ c.offset = End(b)
FilledLeft(all) ==
  \A b \in all : b.offset = 0 \/ \E c \in all : c.page = b.page /\ End(c) = b.offset
Clear(b, c) == b.page # c.page \/ End(b) <= c.offset \/ End(c) <= b.offset
Disjoint(all) == \A b, c \in all : b = c \/ Clear(b, c)
Covers(C, all, count) ==
  Shaped(C, all, count) /\ FilledRight(all) /\ FilledLeft(all) /\ Disjoint(all)

\* No two free blocks are neighbours.
Touch(b, c) == b.page = c.page /\ c.offset = End(b)
Separate(free) == \A b, c \in free : ~Touch(b, c)
Tiles(C, free, used, count) ==
  free \cap used = {} /\ Covers(C, free \cup used, count) /\ Separate(free)

LEMMA GrowCovers ==
  ASSUME NEW C, NEW all, NEW count \in Nat, NEW more \in Nat, count <= more, Covers(C, all, count)
  PROVE  Covers(C, all, more)
  BY DEF Covers, Shaped, Extents

LEMMA NewCovers ==
  ASSUME NEW C, Bounds(C), NEW all, NEW count \in Nat, Covers(C, all, count)
  PROVE  /\ Covers(C, all \cup {Whole(count)}, count + 1)
         /\ \A b \in all : b.page # count
<1> DEFINE w == Whole(count)
<1>1. w \in Extents /\ w.size = 8188 /\ w.page = count /\ w.offset = 0 /\ End(w) = PAGE_SIZE
  BY DEF Whole, Extents, End, overflowSize, PAGE_SIZE
<1>2. \A b \in all : b \in Extents /\ b.page < count
  BY DEF Covers, Shaped
<1>3. \A b \in all : b.page # count
  BY <1>2 DEF Extents
<1> HIDE DEF w
<1>4. Shaped(C, all \cup {w}, count + 1)
  BY <1>1, <1>2 DEF Covers, Shaped, Extents, Bounds
<1>5. FilledRight(all \cup {w})
  BY <1>1 DEF Covers, FilledRight
<1>6. FilledLeft(all \cup {w})
  BY <1>1 DEF Covers, FilledLeft
<1>7. Disjoint(all \cup {w})
  BY <1>1, <1>3 DEF Covers, Disjoint, Clear
<1> QED
  BY <1>3, <1>4, <1>5, <1>6, <1>7 DEF Covers, w

\* A block in two, with a tag at the end of the one and at the start of the other.
LEMMA CutCovers ==
  ASSUME NEW C, Bounds(C), NEW all, NEW count \in Nat, Covers(C, all, count), NEW b \in all,
         NEW a \in Extents, NEW r \in Extents, a.page = b.page, r.page = b.page,
         a.offset = b.offset, r.offset = End(a), End(r) = End(b), a.size > 0, r.size > 0,
         End(a) \in C
  PROVE  Covers(C, (all \ {b}) \cup {a, r}, count)
<1> DEFINE new == (all \ {b}) \cup {a, r}
<1>1. b \in Extents /\ b.page < count /\ b.offset \in C /\ End(b) \in C
  BY DEF Covers, Shaped
<1>2. End(a) \in Nat /\ End(b) \in Nat /\ a.offset < End(a) /\ End(a) < End(b)
  BY <1>1 DEF End, Extents
<1>3. Shaped(C, new, count)
  BY <1>1, <1>2 DEF Covers, Shaped
<1>4. FilledRight(new)
  <2> SUFFICES ASSUME NEW x \in new, End(x) # PAGE_SIZE
               PROVE  \E y \in new : y.page = x.page /\ y.offset = End(x)
    BY DEF FilledRight
  <2>1. CASE x = a
    BY <2>1
  <2>2. CASE x # a
    <3> PICK z \in all : z.page = x.page /\ End(z) = End(x)
      BY <2>2
    <3> PICK y \in all : y.page = x.page /\ y.offset = End(x)
      BY DEF Covers, FilledRight
    <3> QED BY <2>2
  <2> QED BY <2>1, <2>2
<1>5. FilledLeft(new)
  <2> SUFFICES ASSUME NEW x \in new, x.offset # 0
               PROVE  \E y \in new : y.page = x.page /\ End(y) = x.offset
    BY DEF FilledLeft
  <2>1. CASE x = r
    BY <2>1
  <2>2. CASE x # r
    <3> PICK z \in all : z.page = x.page /\ z.offset = x.offset
      BY <2>2
    <3> PICK y \in all : y.page = z.page /\ End(y) = z.offset
      BY DEF Covers, FilledLeft
    <3>1. CASE y = b
      <4>1. r \in new /\ r.page = x.page /\ End(r) = x.offset
        BY <3>1
      <4> QED BY <4>1
    <3>2. CASE y # b
      <4>1. y \in new /\ y.page = x.page /\ End(y) = x.offset
        BY <3>2
      <4> QED BY <4>1
    <3> QED BY <3>1, <3>2
  <2> QED BY <2>1, <2>2
<1>6. Disjoint(new)
  <2>1. \A x \in all : x # b => Clear(x, b)
    BY DEF Covers, Disjoint
  <2>2. \A x \in all : x \in Extents /\ End(x) \in Nat
    BY DEF Covers, Shaped, Extents, End
  <2>3. \A x \in all : x # b => Clear(x, a) /\ Clear(a, x) /\ Clear(x, r) /\ Clear(r, x)
    BY <1>1, <1>2, <2>1, <2>2 DEF Clear, Extents
  <2>4. Clear(a, r) /\ Clear(r, a)
    BY <1>2 DEF Clear, Extents
  <2> QED BY <2>3, <2>4 DEF Covers, Disjoint
<1> QED
  BY <1>3, <1>4, <1>5, <1>6 DEF Covers

\* Two neighbours in one.
LEMMA MergeCovers ==
  ASSUME NEW C, NEW all, NEW count \in Nat, Covers(C, all, count), NEW b \in all, NEW c \in all,
         Touch(b, c), NEW m \in Extents, m.page = b.page, m.offset = b.offset, End(m) = End(c),
         m.size > 0
  PROVE  Covers(C, (all \ {b, c}) \cup {m}, count)
<1> DEFINE new == (all \ {b, c}) \cup {m}
<1>1. /\ b \in Extents /\ b.page < count /\ b.offset \in C /\ End(b) \in C /\ b.size > 0
      /\ c \in Extents /\ c.page < count /\ c.offset \in C /\ End(c) \in C /\ c.size > 0
  BY DEF Covers, Shaped
<1>2. End(b) \in Nat /\ End(c) \in Nat /\ b.offset < End(b) /\ c.offset < End(c) /\ c.offset = End(b)
      /\ c.page = b.page
  BY <1>1 DEF End, Extents, Touch
<1>3. Shaped(C, new, count)
  BY <1>1, <1>2 DEF Covers, Shaped
<1>4. FilledRight(new)
  <2> SUFFICES ASSUME NEW x \in new, End(x) # PAGE_SIZE
               PROVE  \E y \in new : y.page = x.page /\ y.offset = End(x)
    BY DEF FilledRight
  <2> PICK z \in all : z.page = x.page /\ End(z) = End(x) /\ z # b
    BY <1>2
  <2> PICK y \in all : y.page = z.page /\ y.offset = End(z)
    BY DEF Covers, FilledRight
  <2>1. CASE y = b
    BY <2>1
  <2>2. CASE y = c
    <3>1. ~Clear(z, b)
      BY <1>1, <1>2, <2>2 DEF Clear, Covers, Shaped, Extents, End
    <3> QED BY <3>1 DEF Covers, Disjoint
  <2> QED BY <2>1, <2>2
<1>5. FilledLeft(new)
  <2> SUFFICES ASSUME NEW x \in new, x.offset # 0
               PROVE  \E y \in new : y.page = x.page /\ End(y) = x.offset
    BY DEF FilledLeft
  <2> PICK z \in all : z.page = x.page /\ z.offset = x.offset /\ z # c
    BY <1>2
  <2> PICK y \in all : y.page = z.page /\ End(y) = z.offset
    BY DEF Covers, FilledLeft
  <2>1. CASE y = c
    <3>1. m \in new /\ m.page = x.page /\ End(m) = x.offset
      BY <1>2, <2>1
    <3> QED BY <3>1
  <2>2. CASE y = b
    <3>1. ~Clear(z, c)
      BY <1>1, <1>2, <2>2 DEF Clear, Covers, Shaped, Extents, End
    <3> QED BY <3>1 DEF Covers, Disjoint
  <2> QED BY <2>1, <2>2
<1>6. Disjoint(new)
  <2>1. \A x \in all : x # b => Clear(x, b)
    BY DEF Covers, Disjoint
  <2>2. \A x \in all : x # c => Clear(x, c)
    BY DEF Covers, Disjoint
  <2>3. \A x \in all : x \in Extents /\ End(x) \in Nat /\ x.size > 0 /\ x.offset < End(x)
    BY DEF Covers, Shaped, Extents, End
  <2>4. \A x \in all : x # b /\ x # c => Clear(x, m) /\ Clear(m, x)
    BY <1>1, <1>2, <2>1, <2>2, <2>3 DEF Clear, Extents
  <2> QED BY <2>4 DEF Covers, Disjoint
<1> QED
  BY <1>3, <1>4, <1>5, <1>6 DEF Covers

\* A free block comes into use, and one in use that has no free neighbour is freed.
LEMMA TakeTiles ==
  ASSUME NEW C, NEW free, NEW used, NEW count, Tiles(C, free, used, count), NEW b \in free
  PROVE  /\ Tiles(C, free \ {b}, used \cup {b}, count)
         /\ \A c \in free : ~Touch(b, c) /\ ~Touch(c, b)
<1>1. (free \ {b}) \cup (used \cup {b}) = free \cup used
  OBVIOUS
<1> QED
  BY <1>1 DEF Tiles, Separate

LEMMA GiveTiles ==
  ASSUME NEW C, NEW free, NEW used, NEW count, Tiles(C, free, used, count), NEW b \in used,
         \A c \in free : ~Touch(b, c) /\ ~Touch(c, b)
  PROVE  Tiles(C, free \cup {b}, used \ {b}, count)
<1>1. (free \cup {b}) \cup (used \ {b}) = free \cup used
  OBVIOUS
<1>2. b \in Extents
  BY DEF Tiles, Covers, Shaped
<1>3. ~Touch(b, b)
  BY <1>2 DEF Touch, End, Extents
<1>4. Separate(free \cup {b})
  BY <1>3 DEF Separate, Tiles
<1> QED
  BY <1>1, <1>4 DEF Tiles

LEMMA NewTiles ==
  ASSUME NEW C, Bounds(C), NEW free, NEW used, NEW count \in Nat, Tiles(C, free, used, count)
  PROVE  /\ Tiles(C, free, used \cup {Whole(count)}, count + 1)
         /\ \A b \in free \cup used : b.page # count
<1>1. free \cup (used \cup {Whole(count)}) = (free \cup used) \cup {Whole(count)}
  OBVIOUS
<1>2. /\ Covers(C, (free \cup used) \cup {Whole(count)}, count + 1)
      /\ \A b \in free \cup used : b.page # count
  BY NewCovers DEF Tiles
<1>3. Whole(count) \notin free
  BY <1>2 DEF Whole
<1> QED
  BY <1>1, <1>2, <1>3 DEF Tiles

LEMMA GrowTiles ==
  ASSUME NEW C, NEW free, NEW used, NEW count \in Nat, NEW more \in Nat, count <= more,
         Tiles(C, free, used, count)
  PROVE  Tiles(C, free, used, more)
  BY GrowCovers DEF Tiles

\* The blocks that a cut or a merger makes were there before under no other name.
LEMMA SameStart ==
  ASSUME NEW C, NEW all, NEW count, Covers(C, all, count), NEW b \in all, NEW a \in all,
         a.page = b.page, a.offset = b.offset
  PROVE  a = b
<1>1. a \in Extents /\ b \in Extents /\ a.size > 0 /\ b.size > 0
  BY DEF Covers, Shaped
<1>2. ~Clear(a, b)
  BY <1>1 DEF Clear, Extents, End
<1> QED
  BY <1>2 DEF Covers, Disjoint

LEMMA SameEnd ==
  ASSUME NEW C, NEW all, NEW count, Covers(C, all, count), NEW b \in all, NEW a \in all,
         a.page = b.page, End(a) = End(b)
  PROVE  a = b
<1>1. a \in Extents /\ b \in Extents /\ a.size > 0 /\ b.size > 0
  BY DEF Covers, Shaped
<1>2. ~Clear(a, b)
  BY <1>1 DEF Clear, Extents, End
<1> QED
  BY <1>2 DEF Covers, Disjoint

LEMMA CutTiles ==
  ASSUME NEW C, Bounds(C), NEW free, NEW used, NEW count \in Nat, Tiles(C, free, used, count),
         NEW b \in used,
         NEW a \in Extents, NEW r \in Extents, a.page = b.page, r.page = b.page,
         a.offset = b.offset, r.offset = End(a), End(r) = End(b), a.size > 0, r.size > 0,
         End(a) \in C
  PROVE  Tiles(C, free, (used \ {b}) \cup {a, r}, count)
<1>1. Covers(C, ((free \cup used) \ {b}) \cup {a, r}, count)
  BY CutCovers DEF Tiles
<1>2. b \notin free
  BY DEF Tiles
<1>3. ((free \cup used) \ {b}) \cup {a, r} = free \cup ((used \ {b}) \cup {a, r})
  BY <1>2
<1>4. a \notin free
  BY <1>2, SameStart DEF Tiles
<1>5. r \notin free
  BY <1>2, SameEnd DEF Tiles
<1> QED
  BY <1>1, <1>3, <1>4, <1>5 DEF Tiles

\* A block in use swallows a free neighbour.
LEMMA LeftTiles ==
  ASSUME NEW C, NEW free, NEW used, NEW count \in Nat, Tiles(C, free, used, count),
         NEW b \in used, NEW c \in free, Touch(c, b),
         NEW m \in Extents, m.page = b.page, m.offset = c.offset, End(m) = End(b), m.size > 0
  PROVE  /\ Tiles(C, free \ {c}, (used \ {b}) \cup {m}, count)
         /\ \A f \in free \ {c} : ~Touch(f, m)
<1>1. b \notin free /\ c \notin used
  BY DEF Tiles
<1>2. Covers(C, ((free \cup used) \ {c, b}) \cup {m}, count)
  BY MergeCovers DEF Tiles, Touch
<1>3. ((free \cup used) \ {c, b}) \cup {m} = (free \ {c}) \cup ((used \ {b}) \cup {m})
  BY <1>1
<1>4. m \notin free \ {c}
  BY <1>1, SameStart DEF Tiles, Touch
<1>5. \A f \in free \ {c} : ~Touch(f, m)
  BY DEF Tiles, Separate, Touch
<1>6. Separate(free \ {c})
  BY DEF Tiles, Separate
<1> QED
  BY <1>1, <1>2, <1>3, <1>4, <1>5, <1>6 DEF Tiles

LEMMA RightTiles ==
  ASSUME NEW C, NEW free, NEW used, NEW count \in Nat, Tiles(C, free, used, count),
         NEW b \in used, NEW c \in free, Touch(b, c),
         NEW m \in Extents, m.page = b.page, m.offset = b.offset, End(m) = End(c), m.size > 0
  PROVE  /\ Tiles(C, free \ {c}, (used \ {b}) \cup {m}, count)
         /\ \A f \in free \ {c} : ~Touch(m, f)
         /\ (\A f \in free : ~Touch(f, b)) => \A f \in free \ {c} : ~Touch(f, m)
<1>1. b \notin free /\ c \notin used
  BY DEF Tiles
<1>2. Covers(C, ((free \cup used) \ {b, c}) \cup {m}, count)
  BY MergeCovers DEF Tiles
<1>3. ((free \cup used) \ {b, c}) \cup {m} = (free \ {c}) \cup ((used \ {b}) \cup {m})
  BY <1>1
<1>4. m \notin free \ {c}
  BY <1>1, SameEnd DEF Tiles, Touch
<1>5. \A f \in free \ {c} : ~Touch(m, f)
  BY DEF Tiles, Separate, Touch
<1>6. Separate(free \ {c})
  BY DEF Tiles, Separate
<1>7. (\A f \in free : ~Touch(f, b)) => \A f \in free \ {c} : ~Touch(f, m)
  BY DEF Touch
<1> QED
  BY <1>1, <1>2, <1>3, <1>4, <1>5, <1>6, <1>7 DEF Tiles

-----------------------------------------------------------------------------
(* What the pages and the memory of BlobManager say.  M are the master       *)
(* pages, F the handles that are free, the next one last, and B the blobs    *)
(* under the handles in use.                                                 *)

Mems == [handleCount : Nat, pageCount : Nat, fhlStart : Int, free : SUBSET Extents, index : Seq(Nat)]
PageSet(S) == {b.page : b \in S}
Injected(f) == \A i, j \in DOMAIN f : f[i] = f[j] => i = j

\* One blob: its data, the block that has its start, its overflow pages.
First(b) == [size |-> firstBlobSize(b.blob.size), page |-> b.page, offset |-> b.offset]
ExtentsOf(b) == {First(b)} \cup {Whole(b.chain[i]) : i \in DOMAIN b.chain}
UsedBy(B) == UNION {ExtentsOf(B[id]) : id \in DOMAIN B}
EntryOf(b) == [status |-> 1, size |-> b.blob.size, page |-> b.page, offset |-> b.offset]
IsBlob(b) ==
  /\ b.blob \in Data /\ b.page \in Nat /\ b.offset \in Nat
  /\ b.chain \in Seq(Nat) /\ Len(b.chain) = overflowPageCount(b.blob.size)
  /\ Injected(b.chain) /\ \A i \in DOMAIN b.chain : Whole(b.chain[i]) # First(b)
Owned(B) ==
  \A id, other \in DOMAIN B : id # other => ExtentsOf(B[id]) \cap ExtentsOf(B[other]) = {}

Tagged(pg, b, tag) ==
  Has(pg, b.page, b.offset, 2, tag) /\ Has(pg, b.page, b.offset + b.size + 2, 2, tag)
Linking(pg, b) ==
  b.chain # <<>> => Has(pg, b.page, b.offset + 2 + remainder(b.blob.size), 4, b.chain[1])
Started(pg, b) ==
  /\ Tagged(pg, First(b), Used)
  /\ remainder(b.blob.size) # 0 =>
       Has(pg, b.page, b.offset + 2, remainder(b.blob.size), <<b.blob, 0>>)
Continued(pg, b) ==
  \A i \in DOMAIN b.chain :
    /\ Has(pg, b.chain[i], 0, overflowSize, <<b.blob, i>>)
    /\ Has(pg, b.chain[i], overflowSize, 4, IF i = Len(b.chain) THEN NULL32 ELSE b.chain[i + 1])
Placed(pg, b) == Started(pg, b) /\ Linking(pg, b) /\ Continued(pg, b)

\* The index pages, as mem has them and as the master pages do.
MastersFor(n) == IF n = 0 THEN 1 ELSE ((n - 1) \div indexesPerMasterIndex) + 1
Row(i) == ((i - 1) \div indexesPerMasterIndex) + 1
Place(i) == ((i - 1) % indexesPerMasterIndex) * 4
Listed(index, pg, M) ==
  /\ index \in Seq(Nat) /\ Injected(index)
  /\ M \in Seq(Nat) /\ Injected(M) /\ M[1] = 1 /\ MastersFor(Len(index)) <= Len(M)
  /\ \A k \in 1..(Len(M) - 1) : Has(pg, M[k], MasterLink, 4, M[k + 1])
  /\ \A i \in 1..Len(index) : Has(pg, M[Row(i)], Place(i), 4, index[i])
Masters(index, pg, M) == Listed(index, pg, M) /\ Len(M) = MastersFor(Len(index))

\* The entries of handles.  Those in the domain of O are open: a call gives them
\* out or takes them back, and O says what entries they have got.
HasEntry(m, pg, id, e) ==
  Has(pg, m.index[(id \div handlesPerIndex) + 1], EntryAt(id), 11, e)
Top(F) == IF F = <<>> THEN NULL32 ELSE F[Len(F)]
Under(F, i) == IF i = 1 THEN NULL32 ELSE F[i - 1]
Handled(m, pg, O, B, F) ==
  /\ F \in Seq(Nat) /\ Injected(F) /\ m.fhlStart = Top(F)
  /\ DOMAIN B \cup ToSet(F) \cup DOMAIN O = 0..(m.handleCount - 1)
  /\ DOMAIN B \cap ToSet(F) = {} /\ DOMAIN O \cap DOMAIN B = {} /\ DOMAIN O \cap ToSet(F) = {}
  /\ Len(m.index) = IndexPages(m)
  /\ \A id \in DOMAIN B : HasEntry(m, pg, id, EntryOf(B[id]))
  /\ \A id \in DOMAIN O : \A e \in O[id] : HasEntry(m, pg, id, e)
  /\ \A i \in 1..Len(F) :
       \E e : e.status = 0 /\ e.size = Under(F, i) /\ HasEntry(m, pg, F[i], e)

\* Every page below the counter has one use.
Roles(m, M, all) ==
  /\ {0} \cup ToSet(M) \cup ToSet(m.index) \cup PageSet(all) = 0..(m.pageCount - 1)
  /\ 0 \notin ToSet(M) \cup ToSet(m.index) \cup PageSet(all)
  /\ ToSet(M) \cap ToSet(m.index) = {} /\ ToSet(M) \cap PageSet(all) = {}
  /\ ToSet(m.index) \cap PageSet(all) = {}

\* Within a call there are open handles O, the blocks E in no blob yet, or no
\* longer, and the blocks V not yet in the list of free ones.
Mid(C, m, pg, O, E, V, B, M, F) ==
  /\ m \in Mems /\ m.pageCount \in 2..MaxPages /\ IsPages(pg)
  /\ V \cap m.free = {} /\ E \cap UsedBy(B) = {}
  /\ Tiles(C, m.free \cup V, UsedBy(B) \cup E, m.pageCount)
  /\ Roles(m, M, m.free \cup V \cup UsedBy(B) \cup E)
  /\ Masters(m.index, pg, M)
  /\ Handled(m, pg, O, B, F)
  /\ \A b \in m.free : Tagged(pg, b, b.size)
  /\ \A id \in DOMAIN B : IsBlob(B[id]) /\ Placed(pg, B[id])
  /\ Owned(B)

-----------------------------------------------------------------------------
(* What a step that writes within one block keeps.                           *)

\* Rows of k places: the row of a place below n is one of the first.
LEMMA DivBelow ==
  ASSUME NEW n \in Nat, NEW i \in 0..(n - 1), NEW k \in Nat \ {0}
  PROVE  i \div k \in 0..(((n + k - 1) \div k) - 1)
<1>0. n + k - 1 \in Nat /\ i \in Nat
  OBVIOUS
<1> PICK q \in Nat, r \in 0..(k - 1) : q = i \div k /\ r = i % k /\ i = k * q + r
  BY <1>0, DivMod
<1> PICK p \in Nat, t \in 0..(k - 1) : p = (n + k - 1) \div k /\ n + k - 1 = k * p + t
  BY ZenonT(30), <1>0, DivMod
<1> PICK kp \in Nat, kq \in Nat : kp = k * p /\ kq = k * q
  OBVIOUS
<1>1. ASSUME p <= q PROVE kp <= kq
  BY <1>1
<1> QED
  BY <1>1

LEMMA DivLast ==
  ASSUME NEW n \in Nat \ {0}, NEW i \in 1..n, NEW k \in Nat \ {0}
  PROVE  (i - 1) \div k \in 0..((n - 1) \div k)
<1>0. n - 1 \in Nat /\ i - 1 \in Nat
  OBVIOUS
<1> PICK q \in Nat, r \in 0..(k - 1) : q = (i - 1) \div k /\ i - 1 = k * q + r
  BY <1>0, DivMod
<1> PICK p \in Nat, t \in 0..(k - 1) : p = (n - 1) \div k /\ n - 1 = k * p + t
  BY ZenonT(30), <1>0, DivMod
<1> PICK kp \in Nat, kq \in Nat : kp = k * p /\ kq = k * q
  OBVIOUS
<1>1. ASSUME p < q PROVE kp + k <= kq
  BY <1>1
<1> QED
  BY <1>1

LEMMA SizesOfBlob ==
  ASSUME NEW d \in Data
  PROVE  /\ remainder(d.size) \in 0..(overflowSize - 1) /\ overflowPageCount(d.size) \in Nat
         /\ d.size = overflowSize * overflowPageCount(d.size) + remainder(d.size)
         /\ firstBlobSize(d.size) \in Nat \ {0}
         /\ firstBlobSize(d.size) = remainder(d.size) + IF overflowPageCount(d.size) = 0 THEN 0 ELSE 4
         /\ d.size \in Nat \ {0}
<1> PICK n \in Nat \ {0} : n = d.size
  BY DataAssumption
<1> PICK k \in Nat \ {0} : k = overflowSize
  BY DEF overflowSize
<1>0. n \div k \in Nat /\ n % k \in 0..(k - 1) /\ n = k * (n \div k) + (n % k)
  BY ONLY n \in Nat, k \in Nat \ {0}, DivMod
<1> PICK q \in Nat, r \in 0..(k - 1) : q = n \div k /\ r = n % k /\ n = k * q + r
  BY <1>0, Zenon
<1>1. remainder(d.size) = r
  BY DEF remainder
<1>2. overflowPageCount(d.size) = q
  BY DEF overflowPageCount
<1>3. firstBlobSize(d.size) = r + IF q > 0 THEN 4 ELSE 0
  BY <1>1, <1>2 DEF firstBlobSize
<1>4. ASSUME r = 0, q = 0 PROVE FALSE
  BY <1>4
<1>5. firstBlobSize(d.size) = r + IF q = 0 THEN 0 ELSE 4
  <2>1. CASE q = 0
    BY <1>3, <2>1
  <2>2. CASE q # 0
    <3>1. q > 0
      BY ONLY q \in Nat, <2>2
    <3> QED BY ONLY <1>3, <2>2, <3>1
  <2> QED BY <2>1, <2>2
<1>6. firstBlobSize(d.size) \in Nat \ {0}
  <2>1. CASE q = 0
    BY <1>4, <1>3, <2>1
  <2>2. CASE q # 0
    <3>1. r \in Nat
      BY ONLY r \in 0..(k - 1), k \in Nat \ {0}
    <3> QED BY ONLY <1>5, <2>2, <3>1
  <2> QED BY <2>1, <2>2
<1> QED
  BY <1>1, <1>2, <1>5, <1>6

LEMMA TaggedKept ==
  ASSUME NEW pg, NEW new, NEW b \in Extents, NEW tag, Tagged(pg, b, tag),
         Kept(pg, new, b.page, b.offset, End(b))
  PROVE  Tagged(new, b, tag)
<1>1. b.offset \in Nat /\ b.size \in Nat /\ End(b) \in Nat /\ End(b) = b.offset + b.size + 2 + 2
      /\ b.offset + b.size + 2 \in Nat
  BY DEF Extents, End
<1>2. Has(new, b.page, b.offset, 2, tag)
  BY <1>1, KeptHas DEF Tagged
<1>3. Has(new, b.page, b.offset + b.size + 2, 2, tag)
  BY <1>1, KeptHas DEF Tagged
<1> QED
  BY <1>2, <1>3 DEF Tagged

LEMMA PlacedKept ==
  ASSUME NEW pg, NEW new, NEW b, IsBlob(b), Placed(pg, b),
         \A x \in ExtentsOf(b) : Kept(pg, new, x.page, x.offset, End(x))
  PROVE  Placed(new, b)
<1> PICK rem \in Nat, n \in Nat :
      /\ rem = remainder(b.blob.size) /\ n = overflowPageCount(b.blob.size)
      /\ firstBlobSize(b.blob.size) = rem + IF n = 0 THEN 0 ELSE 4
  BY SizesOfBlob DEF IsBlob
<1>1. First(b) \in Extents /\ Kept(pg, new, b.page, b.offset, End(First(b)))
      /\ End(First(b)) = b.offset + rem + 4 + (IF n = 0 THEN 0 ELSE 4) /\ b.offset \in Nat
      /\ End(First(b)) \in Nat /\ First(b).page = b.page
  BY SMTT(30) DEF First, ExtentsOf, Extents, End, IsBlob
<1>2. Tagged(new, First(b), Used)
  <2>1. Kept(pg, new, First(b).page, First(b).offset, End(First(b)))
    BY DEF ExtentsOf
  <2> QED BY <1>1, <2>1, TaggedKept DEF Placed, Started
<1>3. ASSUME rem # 0 PROVE Has(new, b.page, b.offset + 2, rem, <<b.blob, 0>>)
  <2>1. Has(pg, b.page, b.offset + 2, rem, <<b.blob, 0>>)
    BY <1>3 DEF Placed, Started
  <2>2. b.offset + 2 \in Nat /\ b.offset <= b.offset + 2 /\ b.offset + 2 + rem <= End(First(b))
    BY <1>1
  <2> QED BY <1>1, <2>1, <2>2, KeptHas
<1>4. ASSUME b.chain # <<>> PROVE Has(new, b.page, b.offset + 2 + rem, 4, b.chain[1])
  <2>1. Has(pg, b.page, b.offset + 2 + rem, 4, b.chain[1])
    BY <1>4 DEF Placed, Linking
  <2>2. n # 0
    BY <1>4 DEF IsBlob
  <2>3. b.offset + 2 + rem \in Nat /\ b.offset <= b.offset + 2 + rem
        /\ b.offset + 2 + rem + 4 <= End(First(b))
    BY <1>1, <2>2
  <2> QED BY <1>1, <2>1, <2>3, KeptHas
<1>5. ASSUME NEW i \in DOMAIN b.chain
      PROVE  /\ Has(new, b.chain[i], 0, overflowSize, <<b.blob, i>>)
             /\ Has(new, b.chain[i], overflowSize, 4, IF i = Len(b.chain) THEN NULL32 ELSE b.chain[i + 1])
  <2>1. Kept(pg, new, b.chain[i], 0, 8192)
    <3>1. Whole(b.chain[i]) \in ExtentsOf(b)
      BY DEF ExtentsOf
    <3> QED BY <3>1 DEF Whole, End, overflowSize
  <2>2. Has(new, b.chain[i], 0, overflowSize, <<b.blob, i>>)
    <3>1. Has(pg, b.chain[i], 0, overflowSize, <<b.blob, i>>)
      BY DEF Placed, Continued
    <3> QED BY <2>1, <3>1, KeptHas DEF overflowSize
  <2>3. Has(new, b.chain[i], overflowSize, 4, IF i = Len(b.chain) THEN NULL32 ELSE b.chain[i + 1])
    <3>1. Has(pg, b.chain[i], overflowSize, 4, IF i = Len(b.chain) THEN NULL32 ELSE b.chain[i + 1])
      BY DEF Placed, Continued
    <3> QED BY <2>1, <3>1, KeptHas DEF overflowSize
  <2> QED BY <2>2, <2>3
<1> QED
  BY <1>2, <1>3, <1>4, <1>5 DEF Placed, Started, Linking, Continued

\* Where the entry of a handle lies, and that of an index page.
LEMMA EntrySpot ==
  ASSUME NEW n \in Nat, NEW id \in 0..(n - 1)
  PROVE  /\ (id \div handlesPerIndex) + 1 \in 1..((n + handlesPerIndex - 1) \div handlesPerIndex)
         /\ EntryAt(id) \in Nat
<1> PICK k \in Nat \ {0} : k = handlesPerIndex
  BY SizesAssumption
<1>1. id \in Nat
  OBVIOUS
<1>2. id \div k \in 0..(((n + k - 1) \div k) - 1)
  BY DivBelow
<1>3. id % k \in 0..(k - 1)
  BY <1>1, DivMod
<1>4. EntryAt(id) = (id % k) * 11
  BY DEF EntryAt
<1>5. n + k - 1 \in Nat
  OBVIOUS
<1>6. (n + k - 1) \div k \in Nat
  BY <1>5, DivMod
<1> QED
  BY <1>2, <1>3, <1>4, <1>6

LEMMA RowSpot ==
  ASSUME NEW n \in Nat, NEW i \in 1..n
  PROVE  Row(i) \in 1..MastersFor(n) /\ Place(i) \in Nat /\ Place(i) + 4 <= MasterLink
<1> PICK k \in Nat \ {0} : k = indexesPerMasterIndex /\ k <= 2047
  BY SizesAssumption
<1>1. i - 1 \in Nat /\ n \in Nat \ {0} /\ n - 1 \in Nat
  OBVIOUS
<1>2. (i - 1) \div k \in 0..((n - 1) \div k)
  BY <1>1, DivLast
<1>3. (i - 1) % k \in 0..(k - 1)
  BY <1>1, DivMod
<1>4. (n - 1) \div k \in Nat
  BY <1>1, DivMod
<1>5. MastersFor(n) = ((n - 1) \div k) + 1 /\ Row(i) = ((i - 1) \div k) + 1
      /\ Place(i) = ((i - 1) % k) * 4 /\ MasterLink = 2047 * 4
  BY <1>1 DEF MastersFor, Row, Place, MasterLink
<1> QED
  BY <1>2, <1>3, <1>4, <1>5

LEMMA MastersNat ==
  ASSUME NEW n \in Nat
  PROVE  MastersFor(n) \in Nat \ {0}
<1>1. CASE n = 0
  BY <1>1 DEF MastersFor
<1>2. CASE n # 0
  <2> PICK k \in Nat \ {0} : k = indexesPerMasterIndex
    BY SizesAssumption
  <2>1. n - 1 \in Nat
    BY <1>2
  <2>2. (n - 1) \div k \in Nat
    BY ONLY <2>1, k \in Nat \ {0}, DivMod
  <2> QED BY <1>2, <2>2 DEF MastersFor
<1> QED
  BY <1>1, <1>2

LEMMA ListedKept ==
  ASSUME NEW index, NEW pg, NEW new, NEW M, Listed(index, pg, M),
         \A p \in ToSet(M), to \in Nat : Kept(pg, new, p, 0, to)
  PROVE  Listed(index, new, M)
<1>0. MasterLink \in Nat
  BY SizesAssumption DEF MasterLink
<1>1. ASSUME NEW k \in 1..(Len(M) - 1)
      PROVE  Has(new, M[k], MasterLink, 4, M[k + 1])
  <2>1. Has(pg, M[k], MasterLink, 4, M[k + 1])
    BY DEF Listed
  <2>2. M[k] \in ToSet(M)
    <3>1. M \in Seq(Nat) /\ k \in 1..Len(M)
      BY DEF Listed
    <3> QED BY <3>1 DEF ToSet
  <2>3. MasterLink + 4 \in Nat /\ 0 <= MasterLink
    BY <1>0
  <2>4. Kept(pg, new, M[k], 0, MasterLink + 4)
    BY <2>2, <2>3
  <2> QED BY <1>0, <2>1, <2>3, <2>4, KeptHas
<1>2. ASSUME NEW i \in 1..Len(index)
      PROVE  Has(new, M[Row(i)], Place(i), 4, index[i])
  <2>1. Has(pg, M[Row(i)], Place(i), 4, index[i])
    BY DEF Listed
  <2>2. Row(i) \in 1..Len(M) /\ Place(i) \in Nat
    <3>1. index \in Seq(Nat) /\ M \in Seq(Nat) /\ MastersFor(Len(index)) <= Len(M) /\ Len(index) \in Nat
      BY DEF Listed
    <3>2. Row(i) \in 1..MastersFor(Len(index)) /\ Place(i) \in Nat
      BY <3>1, RowSpot
    <3>3. MastersFor(Len(index)) \in Nat
      BY <3>1, MastersNat
    <3> QED BY <3>1, <3>2, <3>3
  <2>3. M[Row(i)] \in ToSet(M)
    BY <2>2 DEF Listed, ToSet
  <2>4. Place(i) + 4 \in Nat /\ 0 <= Place(i)
    BY <2>2
  <2>5. Kept(pg, new, M[Row(i)], 0, Place(i) + 4)
    BY <2>3, <2>4
  <2> QED BY <2>1, <2>2, <2>4, <2>5, KeptHas
<1> QED
  BY <1>1, <1>2 DEF Listed

LEMMA MastersKept ==
  ASSUME NEW index, NEW pg, NEW new, NEW M, Masters(index, pg, M),
         \A p \in ToSet(M), to \in Nat : Kept(pg, new, p, 0, to)
  PROVE  Masters(index, new, M)
  BY ListedKept DEF Masters

LEMMA EntryKept ==
  ASSUME NEW m, NEW pg, NEW new, m.index \in Seq(Nat), Len(m.index) = IndexPages(m),
         m.handleCount \in Nat, NEW id \in 0..(m.handleCount - 1), NEW e, HasEntry(m, pg, id, e),
         \A p \in ToSet(m.index), to \in Nat : Kept(pg, new, p, 0, to)
  PROVE  HasEntry(m, new, id, e)
<1> DEFINE at == EntryAt(id)
           page == m.index[(id \div handlesPerIndex) + 1]
<1>1. (id \div handlesPerIndex) + 1 \in 1..Len(m.index) /\ at \in Nat
  BY EntrySpot DEF IndexPages
<1>2. page \in ToSet(m.index)
  BY <1>1 DEF ToSet
<1> HIDE DEF at
<1>3. at + 11 \in Nat /\ 0 <= at
  BY <1>1
<1> HIDE DEF page
<1>4. Kept(pg, new, page, 0, at + 11)
  BY <1>2, <1>3
<1>5. Has(pg, page, at, 11, e)
  BY DEF HasEntry, page, at
<1>6. Has(new, page, at, 11, e)
  BY <1>1, <1>3, <1>4, <1>5, KeptHas
<1> QED
  BY <1>6 DEF HasEntry, page, at

LEMMA HandledKept ==
  ASSUME NEW m, NEW pg, NEW new, NEW O, NEW B, NEW F, m \in Mems, Handled(m, pg, O, B, F),
         \A p \in ToSet(m.index), to \in Nat : Kept(pg, new, p, 0, to)
  PROVE  Handled(m, new, O, B, F)
<1>1. m.index \in Seq(Nat) /\ Len(m.index) = IndexPages(m) /\ m.handleCount \in Nat
  BY DEF Mems, Handled
<1>2. ASSUME NEW id \in DOMAIN B
      PROVE  HasEntry(m, new, id, EntryOf(B[id]))
  <2>1. HasEntry(m, pg, id, EntryOf(B[id])) /\ id \in 0..(m.handleCount - 1)
    BY DEF Handled
  <2> QED BY <1>1, <2>1, EntryKept
<1>3. ASSUME NEW i \in 1..Len(F)
      PROVE  \E e : e.status = 0 /\ e.size = Under(F, i) /\ HasEntry(m, new, F[i], e)
  <2>1. PICK e : e.status = 0 /\ e.size = Under(F, i) /\ HasEntry(m, pg, F[i], e)
    BY DEF Handled
  <2>2. F[i] \in 0..(m.handleCount - 1)
    BY DEF Handled, ToSet
  <2>3. HasEntry(m, new, F[i], e)
    BY <1>1, <2>1, <2>2, EntryKept
  <2> QED BY <2>1, <2>3
<1>4. ASSUME NEW id \in DOMAIN O, NEW e \in O[id]
      PROVE  HasEntry(m, new, id, e)
  <2>1. HasEntry(m, pg, id, e) /\ id \in 0..(m.handleCount - 1)
    BY DEF Handled
  <2> QED BY <1>1, <2>1, EntryKept
<1> QED
  BY <1>2, <1>3, <1>4 DEF Handled

\* Nothing outside the block x changes.
Only(pg, new, x) ==
  \A q \in PageIds : \A from, to \in Nat :
    q # x.page \/ to <= x.offset \/ End(x) <= from => Kept(pg, new, q, from, to)

LEMMA PutOnly ==
  ASSUME NEW pg, IsPages(pg), NEW x \in Extents, x.page \in PageIds, NEW at \in Nat, NEW len \in Nat,
         NEW what, x.offset <= at, at + len <= End(x)
  PROVE  Only(pg, Put(pg, x.page, at, len, what), x) /\ IsPages(Put(pg, x.page, at, len, what))
<1>1. SUFFICES ASSUME NEW q \in PageIds, NEW from \in Nat, NEW to \in Nat,
                      q # x.page \/ to <= x.offset \/ End(x) <= from
               PROVE  Kept(pg, Put(pg, x.page, at, len, what), q, from, to)
  BY PutPages DEF Only
<1>2. x.offset \in Nat /\ End(x) \in Nat
  BY DEF Extents, End
<1>3. q # x.page \/ to <= at \/ at + len <= from
  BY <1>1, <1>2
<1> QED
  BY <1>3, PutKeeps

\* The same of a piece that is put within x.
LEMMA PutInside ==
  ASSUME NEW pg, IsPages(pg), NEW x \in Extents, NEW p \in PageIds, p = x.page, NEW at \in Nat,
         NEW len \in Nat, NEW what, NEW new, new = Put(pg, p, at, len, what),
         x.offset <= at, at + len <= End(x)
  PROVE  Only(pg, new, x) /\ IsPages(new)
  BY PutOnly

LEMMA OnlyTwice ==
  ASSUME NEW pg, NEW mid, NEW new, NEW x, Only(pg, mid, x), Only(mid, new, x)
  PROVE  Only(pg, new, x)
  BY KeptTwice DEF Only

\* The pages that are in use are there.
LEMMA MidPages ==
  ASSUME NEW C, NEW m, NEW pg, NEW O, NEW E, NEW V, NEW B, NEW M, NEW F,
         Mid(C, m, pg, O, E, V, B, M, F)
  PROVE  /\ \A b \in m.free \cup V \cup UsedBy(B) \cup E : b \in Extents /\ b.page \in PageIds /\ b.page # 0
         /\ ToSet(M) \subseteq PageIds /\ ToSet(m.index) \subseteq PageIds
         /\ \A b \in m.free \cup V \cup UsedBy(B) \cup E :
              b.page \notin ToSet(M) /\ b.page \notin ToSet(m.index)
<1>1. 0..(m.pageCount - 1) \subseteq PageIds
  BY SizesAssumption DEF Mid, PageIds
<1>2. \A b \in m.free \cup V \cup UsedBy(B) \cup E : b \in Extents
  BY DEF Mid, Tiles, Covers, Shaped
<1>3. \A b \in m.free \cup V \cup UsedBy(B) \cup E : b.page \in PageSet(m.free \cup V \cup UsedBy(B) \cup E)
  BY DEF PageSet
<1>4. Roles(m, M, m.free \cup V \cup UsedBy(B) \cup E)
  BY DEF Mid
<1> HIDE DEF Mid
<1> QED
  BY <1>1, <1>2, <1>3, <1>4 DEF Roles

LEMMA MidWrite ==
  ASSUME NEW C, NEW m, NEW pg, NEW O, NEW E, NEW V, NEW B, NEW M, NEW F,
         Mid(C, m, pg, O, E, V, B, M, F), NEW x \in E \cup V, NEW new, IsPages(new), Only(pg, new, x)
  PROVE  Mid(C, m, new, O, E, V, B, M, F)
<1>1. x \in Extents /\ x.page \notin ToSet(M) /\ x.page \notin ToSet(m.index)
      /\ ToSet(M) \subseteq PageIds /\ ToSet(m.index) \subseteq PageIds
  BY MidPages
<1>2. \A p \in ToSet(M) \cup ToSet(m.index), to \in Nat : Kept(pg, new, p, 0, to)
  BY <1>1 DEF Only
<1>3. Masters(m.index, new, M)
  <2>1. \A p \in ToSet(M), to \in Nat : Kept(pg, new, p, 0, to)
    BY <1>2
  <2>2. Masters(m.index, pg, M)
    BY DEF Mid
  <2> QED BY <2>1, <2>2, MastersKept
<1>4. Handled(m, new, O, B, F)
  <2>1. \A p \in ToSet(m.index), to \in Nat : Kept(pg, new, p, 0, to)
    BY <1>2
  <2>2. Handled(m, pg, O, B, F) /\ m \in Mems
    BY DEF Mid
  <2> QED BY <2>1, <2>2, HandledKept
<1>5. ASSUME NEW y \in m.free \cup UsedBy(B)
      PROVE  y \in Extents /\ Kept(pg, new, y.page, y.offset, End(y))
  <2>1. y \in Extents /\ y.page \in PageIds
    BY MidPages
  <2>2. y # x
    BY DEF Mid, Tiles
  <2>3. Clear(y, x)
    BY <2>2 DEF Mid, Tiles, Covers, Disjoint
  <2>4. y.offset \in Nat /\ End(y) \in Nat
    BY <2>1 DEF Extents, End
  <2> QED BY <2>1, <2>3, <2>4 DEF Only, Clear
<1>6. ASSUME NEW b \in m.free
      PROVE  Tagged(new, b, b.size)
  <2>1. Tagged(pg, b, b.size)
    BY DEF Mid
  <2> QED BY <1>5, <2>1, TaggedKept
<1>7. ASSUME NEW id \in DOMAIN B
      PROVE  IsBlob(B[id]) /\ Placed(new, B[id])
  <2>1. IsBlob(B[id]) /\ Placed(pg, B[id])
    BY DEF Mid
  <2>2. \A y \in ExtentsOf(B[id]) : y \in UsedBy(B)
    BY DEF UsedBy
  <2>3. \A y \in ExtentsOf(B[id]) : Kept(pg, new, y.page, y.offset, End(y))
    BY <1>5, <2>2
  <2> QED BY <2>1, <2>3, PlacedKept
<1> QED
  BY <1>3, <1>4, <1>6, <1>7 DEF Mid

\* The memory of BlobManager with another list of free blocks, or more pages.
LEMMA HandledSame ==
  ASSUME NEW m, NEW n, NEW pg, NEW O, NEW B, NEW F, Handled(m, pg, O, B, F),
         n.fhlStart = m.fhlStart, n.handleCount = m.handleCount, n.index = m.index
  PROVE  Handled(n, pg, O, B, F)
  BY DEF Handled, HasEntry, IndexPages

LEMMA MidTake ==
  ASSUME NEW C, NEW m, NEW pg, NEW O, NEW E, NEW V, NEW B, NEW M, NEW F,
         Mid(C, m, pg, O, E, V, B, M, F), NEW b \in m.free
  PROVE  /\ Mid(C, [m EXCEPT !.free = @ \ {b}], pg, O, E \cup {b}, V, B, M, F)
         /\ \A c \in (m.free \ {b}) \cup V : ~Touch(b, c) /\ ~Touch(c, b)
<1> DEFINE n == [m EXCEPT !.free = @ \ {b}]
<1>1. n \in Mems /\ n.free = m.free \ {b} /\ n.pageCount = m.pageCount
      /\ n.fhlStart = m.fhlStart /\ n.handleCount = m.handleCount /\ n.index = m.index
  BY DEF Mid, Mems
<1> HIDE DEF n
<1>2. Tiles(C, m.free \cup V, UsedBy(B) \cup E, m.pageCount) /\ V \cap m.free = {} /\ E \cap UsedBy(B) = {}
  BY DEF Mid
<1>3. Tiles(C, (m.free \cup V) \ {b}, (UsedBy(B) \cup E) \cup {b}, m.pageCount)
      /\ \A c \in m.free \cup V : ~Touch(b, c) /\ ~Touch(c, b)
  BY <1>2, TakeTiles
<1>4. (m.free \cup V) \ {b} = n.free \cup V /\ (UsedBy(B) \cup E) \cup {b} = UsedBy(B) \cup (E \cup {b})
  BY <1>1, <1>2
<1>5. b \notin UsedBy(B)
  BY <1>2 DEF Tiles
<1>6. n.free \cup V \cup UsedBy(B) \cup (E \cup {b}) = m.free \cup V \cup UsedBy(B) \cup E
  BY <1>1
<1>7. Roles(n, M, n.free \cup V \cup UsedBy(B) \cup (E \cup {b}))
  BY <1>1, <1>6 DEF Roles, Mid
<1>8. Handled(n, pg, O, B, F)
  BY <1>1, HandledSame DEF Mid
<1>9. Mid(C, n, pg, O, E \cup {b}, V, B, M, F)
  BY <1>1, <1>2, <1>3, <1>4, <1>5, <1>7, <1>8 DEF Mid
<1> QED
  BY <1>1, <1>3, <1>9 DEF n

LEMMA MidNewBlock ==
  ASSUME NEW C, Bounds(C), NEW m, NEW pg, NEW O, NEW E, NEW V, NEW B, NEW M, NEW F,
         Mid(C, m, pg, O, E, V, B, M, F), m.pageCount + 1 <= MaxPages
  PROVE  /\ Mid(C, [m EXCEPT !.pageCount = @ + 1], pg, O, E \cup {Whole(m.pageCount)}, V, B, M, F)
         /\ \A c \in m.free \cup V : c.page # m.pageCount
         /\ Whole(m.pageCount) \notin E
<1> DEFINE n == [m EXCEPT !.pageCount = @ + 1]
           w == Whole(m.pageCount)
<1>0. m \in Mems /\ m.pageCount \in Nat /\ m.pageCount >= 2 /\ m.pageCount + 1 \in 2..MaxPages
  BY SizesAssumption DEF Mid
<1>1. n \in Mems /\ n.free = m.free /\ n.pageCount = m.pageCount + 1
      /\ n.fhlStart = m.fhlStart /\ n.handleCount = m.handleCount /\ n.index = m.index
  BY <1>0 DEF Mems
<1> HIDE DEF n
<1>2. Tiles(C, m.free \cup V, UsedBy(B) \cup E, m.pageCount) /\ V \cap m.free = {} /\ E \cap UsedBy(B) = {}
  BY DEF Mid
<1>3. Tiles(C, m.free \cup V, (UsedBy(B) \cup E) \cup {w}, m.pageCount + 1)
      /\ \A b \in (m.free \cup V) \cup (UsedBy(B) \cup E) : b.page # m.pageCount
  BY <1>0, <1>2, NewTiles
<1>4. w.page = m.pageCount
  BY DEF Whole
<1> HIDE DEF w
<1>5. w \notin UsedBy(B) /\ w \notin E
  BY <1>3, <1>4
<1>6. PageSet(m.free \cup V \cup UsedBy(B) \cup (E \cup {w})) =
        PageSet(m.free \cup V \cup UsedBy(B) \cup E) \cup {m.pageCount}
  BY <1>4 DEF PageSet
<1>7. Roles(n, M, n.free \cup V \cup UsedBy(B) \cup (E \cup {w}))
  <2>1. Roles(m, M, m.free \cup V \cup UsedBy(B) \cup E)
    BY DEF Mid
  <2>2. 0..(n.pageCount - 1) = (0..(m.pageCount - 1)) \cup {m.pageCount}
        /\ m.pageCount \notin 0..(m.pageCount - 1) /\ m.pageCount # 0
    BY <1>0, <1>1
  <2> HIDE DEF Mid
  <2> QED BY ZenonT(30), <1>1, <1>6, <2>1, <2>2 DEF Roles
<1>8. Handled(n, pg, O, B, F)
  BY <1>1, HandledSame DEF Mid
<1>9. (UsedBy(B) \cup E) \cup {w} = UsedBy(B) \cup (E \cup {w})
  OBVIOUS
<1>10. Mid(C, n, pg, O, E \cup {w}, V, B, M, F)
  BY <1>0, <1>1, <1>2, <1>3, <1>5, <1>7, <1>8, <1>9 DEF Mid
<1> QED
  BY <1>3, <1>5, <1>10 DEF n, w

\* A block of E without free neighbours is to become free.
LEMMA MidGive ==
  ASSUME NEW C, NEW m, NEW pg, NEW O, NEW E, NEW V, NEW B, NEW M, NEW F,
         Mid(C, m, pg, O, E, V, B, M, F), NEW x \in E,
         \A c \in m.free \cup V : ~Touch(x, c) /\ ~Touch(c, x)
  PROVE  Mid(C, m, pg, O, E \ {x}, V \cup {x}, B, M, F)
<1>1. Tiles(C, m.free \cup V, UsedBy(B) \cup E, m.pageCount) /\ V \cap m.free = {} /\ E \cap UsedBy(B) = {}
  BY DEF Mid
<1>2. Tiles(C, (m.free \cup V) \cup {x}, (UsedBy(B) \cup E) \ {x}, m.pageCount)
  BY <1>1, GiveTiles
<1>3. (m.free \cup V) \cup {x} = m.free \cup (V \cup {x}) /\ (UsedBy(B) \cup E) \ {x} = UsedBy(B) \cup (E \ {x})
  BY <1>1
<1>4. x \notin m.free
  BY <1>1 DEF Tiles
<1>5. m.free \cup (V \cup {x}) \cup UsedBy(B) \cup (E \ {x}) = m.free \cup V \cup UsedBy(B) \cup E
  OBVIOUS
<1> QED
  BY <1>1, <1>2, <1>3, <1>4, <1>5 DEF Mid

\* The free blocks of the list have their sizes in their tags.
LEMMA MidList ==
  ASSUME NEW C, NEW m, NEW pg, NEW O, NEW E, NEW V, NEW B, NEW M, NEW F,
         Mid(C, m, pg, O, E, V, B, M, F), NEW x \in V, Tagged(pg, x, x.size)
  PROVE  Mid(C, [m EXCEPT !.free = @ \cup {x}], pg, O, E, V \ {x}, B, M, F)
<1> DEFINE n == [m EXCEPT !.free = @ \cup {x}]
<1>0. x \in Extents
  BY MidPages
<1>1. n \in Mems /\ n.free = m.free \cup {x} /\ n.pageCount = m.pageCount
      /\ n.fhlStart = m.fhlStart /\ n.handleCount = m.handleCount /\ n.index = m.index
  BY <1>0 DEF Mid, Mems
<1> HIDE DEF n
<1>2. Tiles(C, m.free \cup V, UsedBy(B) \cup E, m.pageCount) /\ V \cap m.free = {} /\ E \cap UsedBy(B) = {}
  BY DEF Mid
<1>3. m.free \cup V = n.free \cup (V \ {x})
  BY <1>1
<1>4. (V \ {x}) \cap n.free = {}
  BY <1>1, <1>2
<1>5. Handled(n, pg, O, B, F)
  BY <1>1, HandledSame DEF Mid
<1>6. Roles(n, M, n.free \cup (V \ {x}) \cup UsedBy(B) \cup E)
  BY <1>1, <1>3 DEF Roles, Mid
<1>7. Mid(C, n, pg, O, E, V \ {x}, B, M, F)
  BY <1>1, <1>2, <1>3, <1>4, <1>5, <1>6 DEF Mid
<1> QED
  BY <1>7 DEF n

\* A block is cut in two, the second of which is to become free.
LEMMA MidCut ==
  ASSUME NEW C, Bounds(C), NEW m, NEW pg, NEW O, NEW E, NEW V, NEW B, NEW M, NEW F,
         Mid(C, m, pg, O, E, V, B, M, F), NEW b \in E,
         \A c \in m.free \cup V : ~Touch(b, c) /\ ~Touch(c, b),
         NEW a \in Extents, NEW r \in Extents, a.page = b.page, r.page = b.page,
         a.offset = b.offset, r.offset = End(a), End(r) = End(b), a.size > 0, r.size > 0,
         End(a) \in C
  PROVE  Mid(C, m, pg, O, (E \ {b}) \cup {a}, V \cup {r}, B, M, F)
<1>1. Tiles(C, m.free \cup V, UsedBy(B) \cup E, m.pageCount) /\ V \cap m.free = {} /\ E \cap UsedBy(B) = {}
      /\ m.pageCount \in Nat
  BY DEF Mid, Mems
<1>2. Tiles(C, m.free \cup V, ((UsedBy(B) \cup E) \ {b}) \cup {a, r}, m.pageCount)
  BY <1>1, CutTiles
<1>3. a # b /\ r # b /\ a # r /\ a \notin UsedBy(B) /\ r \notin UsedBy(B)
  <2>1. b \in Extents
    BY MidPages
  <2>2. End(a) \in Nat /\ End(b) \in Nat /\ a.offset \in Nat /\ End(r) \in Nat
    BY <2>1 DEF Extents, End
  <2>3. End(a) # End(b) /\ a.offset # r.offset
    BY <2>1, <2>2 DEF Extents, End
  <2>4. Covers(C, (m.free \cup V) \cup (UsedBy(B) \cup E), m.pageCount)
    BY <1>1 DEF Tiles
  <2>5. a \in UsedBy(B) => a = b
    BY <2>4, SameStart
  <2>6. r \in UsedBy(B) => r = b
    BY <2>4, SameEnd
  <2> QED BY <2>3, <2>5, <2>6
<1>4. b \notin UsedBy(B)
  BY <1>1
<1> DEFINE used == ((UsedBy(B) \cup E) \ {b}) \cup {a, r}
           E1 == (E \ {b}) \cup {a}
<1>5. used \ {r} = UsedBy(B) \cup (E1 \ {r})
  BY <1>3, <1>4
<1>6. r \notin E
  <2>1. Covers(C, (m.free \cup V) \cup (UsedBy(B) \cup E), m.pageCount)
    BY <1>1 DEF Tiles
  <2>2. r \in E => r = b
    BY <2>1, SameEnd
  <2> QED BY <1>3, <2>2
<1>7. E1 \ {r} = E1
  BY <1>3, <1>6
<1>8. \A c \in m.free \cup V : ~Touch(r, c) /\ ~Touch(c, r)
  <2> SUFFICES ASSUME NEW c \in m.free \cup V, Touch(r, c) \/ Touch(c, r) PROVE FALSE
    OBVIOUS
  <2>1. CASE Touch(r, c)
    BY <2>1 DEF Touch
  <2>2. CASE Touch(c, r)
    <3>1. End(c) = End(a) /\ c.page = b.page
      BY <2>2 DEF Touch
    <3>2. b \in Extents /\ c \in Extents /\ c # b
      BY <1>1, MidPages DEF Tiles
    <3>3. Clear(c, b)
      BY <1>1, <3>2 DEF Tiles, Covers, Disjoint
    <3>4. c.size > 0
      BY <1>1 DEF Tiles, Covers, Shaped
    <3>5. End(c) > b.offset /\ c.offset < End(b)
      BY <3>1, <3>2, <3>4 DEF Extents, End
    <3>6. End(c) \in Nat /\ End(b) \in Nat /\ b.offset \in Nat /\ c.offset \in Nat
      BY <3>2 DEF Extents, End
    <3> QED BY <3>1, <3>3, <3>5, <3>6 DEF Clear
  <2> QED BY <2>1, <2>2
<1>9. Tiles(C, (m.free \cup V) \cup {r}, used \ {r}, m.pageCount)
  BY <1>2, <1>8, GiveTiles
<1>10. (m.free \cup V) \cup {r} = m.free \cup (V \cup {r})
  OBVIOUS
<1>11. r \notin m.free
  BY <1>2 DEF Tiles
<1>12. PageSet(m.free \cup (V \cup {r}) \cup UsedBy(B) \cup E1) = PageSet(m.free \cup V \cup UsedBy(B) \cup E)
  <2>1. r.page = b.page /\ a.page = b.page
    OBVIOUS
  <2> QED BY <2>1 DEF PageSet
<1>13. Roles(m, M, m.free \cup (V \cup {r}) \cup UsedBy(B) \cup E1)
  BY <1>12 DEF Roles, Mid
<1>14. Tiles(C, m.free \cup (V \cup {r}), UsedBy(B) \cup E1, m.pageCount)
  BY <1>5, <1>7, <1>9, <1>10
<1>15. (V \cup {r}) \cap m.free = {} /\ E1 \cap UsedBy(B) = {}
  BY <1>1, <1>3, <1>11
<1> HIDE DEF used, E1
<1>16. Mid(C, m, pg, O, E1, V \cup {r}, B, M, F)
  BY <1>13, <1>14, <1>15 DEF Mid
<1> QED
  BY <1>16 DEF E1

\* A block swallows a free neighbour c, on its left or on its right.
LEMMA MidSwallow ==
  ASSUME NEW C, NEW m, NEW pg, NEW O, NEW E, NEW V, NEW B, NEW M, NEW F,
         Mid(C, m, pg, O, E, V, B, M, F), NEW b \in E, NEW c \in m.free,
         NEW x \in Extents, x.page = b.page, x.size > 0,
         \/ Touch(c, b) /\ x.offset = c.offset /\ End(x) = End(b)
         \/ Touch(b, c) /\ x.offset = b.offset /\ End(x) = End(c)
  PROVE  Mid(C, [m EXCEPT !.free = @ \ {c}], pg, O, (E \ {b}) \cup {x}, V, B, M, F)
<1> DEFINE n == [m EXCEPT !.free = @ \ {c}]
           E1 == (E \ {b}) \cup {x}
<1>1. n \in Mems /\ n.free = m.free \ {c} /\ n.pageCount = m.pageCount
      /\ n.fhlStart = m.fhlStart /\ n.handleCount = m.handleCount /\ n.index = m.index
      /\ m.pageCount \in Nat
  BY DEF Mid, Mems
<1> HIDE DEF n
<1>2. Tiles(C, m.free \cup V, UsedBy(B) \cup E, m.pageCount) /\ V \cap m.free = {} /\ E \cap UsedBy(B) = {}
  BY DEF Mid
<1>3. Tiles(C, (m.free \cup V) \ {c}, ((UsedBy(B) \cup E) \ {b}) \cup {x}, m.pageCount)
  <2>1. CASE Touch(c, b) /\ x.offset = c.offset /\ End(x) = End(b)
    <3> DEFINE free == m.free \cup V
               used == UsedBy(B) \cup E
    <3>1. Tiles(C, free, used, m.pageCount) /\ b \in used /\ c \in free /\ m.pageCount \in Nat
      BY <1>1, <1>2
    <3> HIDE DEF free, used
    <3>2. Tiles(C, free \ {c}, (used \ {b}) \cup {x}, m.pageCount)
      BY <2>1, <3>1, LeftTiles
    <3> QED BY <3>2 DEF free, used
  <2>2. CASE Touch(b, c) /\ x.offset = b.offset /\ End(x) = End(c)
    <3> DEFINE free == m.free \cup V
               used == UsedBy(B) \cup E
    <3>1. Tiles(C, free, used, m.pageCount) /\ b \in used /\ c \in free /\ m.pageCount \in Nat
      BY <1>1, <1>2
    <3> HIDE DEF free, used
    <3>2. Tiles(C, free \ {c}, (used \ {b}) \cup {x}, m.pageCount)
      BY <2>2, <3>1, RightTiles
    <3> QED BY <3>2 DEF free, used
  <2> QED BY <2>1, <2>2
<1>4. Covers(C, (m.free \cup V) \cup (UsedBy(B) \cup E), m.pageCount)
  BY <1>2 DEF Tiles
<1>5. b \in Extents /\ c \in Extents /\ c.page = b.page
  BY MidPages DEF Touch
<1>6. x \notin UsedBy(B)
  <2>0. c \notin UsedBy(B) /\ b \notin UsedBy(B)
    BY <1>2 DEF Tiles
  <2>1. CASE Touch(c, b) /\ x.offset = c.offset /\ End(x) = End(b)
    <3>1. x \in UsedBy(B) => x = c
      BY <1>4, <1>5, <2>1, SameStart
    <3> QED BY <2>0, <3>1
  <2>2. CASE Touch(b, c) /\ x.offset = b.offset /\ End(x) = End(c)
    <3>1. x \in UsedBy(B) => x = b
      BY <1>4, <1>5, <2>2, SameStart
    <3> QED BY <2>0, <3>1
  <2> QED BY <2>1, <2>2
<1>7. (m.free \cup V) \ {c} = n.free \cup V /\ ((UsedBy(B) \cup E) \ {b}) \cup {x} = UsedBy(B) \cup E1
  BY <1>1, <1>2
<1>8. PageSet(n.free \cup V \cup UsedBy(B) \cup E1) = PageSet(m.free \cup V \cup UsedBy(B) \cup E)
  BY <1>1, <1>5 DEF PageSet
<1>9. Roles(n, M, n.free \cup V \cup UsedBy(B) \cup E1)
  BY <1>1, <1>8 DEF Roles, Mid
<1>10. Handled(n, pg, O, B, F)
  BY <1>1, HandledSame DEF Mid
<1>11. E1 \cap UsedBy(B) = {} /\ V \cap n.free = {}
  BY <1>1, <1>2, <1>6
<1> HIDE DEF E1
<1>12. Mid(C, n, pg, O, E1, V, B, M, F)
  BY <1>1, <1>2, <1>3, <1>7, <1>9, <1>10, <1>11 DEF Mid
<1> QED
  BY <1>12 DEF n, E1

-----------------------------------------------------------------------------
(* The steps of the calls, on a state.                                       *)

IsTyped(s) == s \in [mem : Mems, pages : {s.pages}, orphan : BOOLEAN, status : Statuses]
IsState(s) == IsTyped(s) /\ s.status = "up" /\ IsPages(s.pages)

\* The blocks and the pages of a state are sound, within a call.
Within(C, s, O, E, V, B, M, F) == IsState(s) /\ Mid(C, s.mem, s.pages, O, E, V, B, M, F)

\* A block with its tags and what is put between them.
LEMMA FillBlock ==
  ASSUME NEW pg, IsPages(pg), NEW x \in Extents, x.page \in PageIds, NEW len \in Nat, len <= x.size,
         NEW tag, NEW what, NEW new,
         new = Put(PutTags(pg, x.page, x.offset, x.size, tag), x.page, x.offset + 2, len, what)
  PROVE  /\ Only(pg, new, x) /\ IsPages(new) /\ Tagged(new, x, tag)
         /\ len # 0 => Has(new, x.page, x.offset + 2, len, what)
<1> PICK p \in PageIds, o \in Nat, n \in Nat : p = x.page /\ o = x.offset /\ n = x.size
  BY DEF Extents
<1> DEFINE p1 == Put(pg, p, o, 2, tag)
           p2 == Put(p1, p, o + n + 2, 2, tag)
           p3 == Put(p2, p, o + 2, len, what)
<1>1. new = p3 /\ End(x) = o + n + 4
  BY DEF PutTags, End
<1>2. Only(pg, p1, x) /\ IsPages(p1)
  <2>1. x.offset <= o /\ o + 2 <= End(x) /\ 2 \in Nat
    BY <1>1
  <2> QED BY <2>1, PutOnly
<1>3. Has(p1, p, o, 2, tag)
  BY PutHas
<1> HIDE DEF p1
<1>4. o + n + 2 \in Nat /\ o <= o + n + 2 /\ o + n + 2 + 2 <= End(x) /\ 2 \in Nat \ {0} /\ o + 2 \in Nat
      /\ o <= o + 2 /\ o + 2 + len <= End(x)
  BY <1>1
<1>5. Only(p1, p2, x) /\ IsPages(p2)
  BY <1>2, <1>4, PutOnly
<1>6. Has(p2, p, o + n + 2, 2, tag)
  BY <1>2, <1>4, PutHas
<1>7. Has(p2, p, o, 2, tag)
  <2>1. Kept(p1, p2, p, o, o + 2)
    BY <1>2, <1>4, PutKeeps
  <2> QED BY <1>3, <1>4, <2>1, KeptHas
<1> HIDE DEF p2
<1>8. Only(p2, p3, x) /\ IsPages(p3)
  BY <1>4, <1>5, PutOnly
<1>9. Has(p3, p, o, 2, tag)
  <2>1. Kept(p2, p3, p, o, o + 2)
    BY <1>4, <1>5, PutKeeps
  <2> QED BY <1>4, <1>7, <2>1, KeptHas
<1>10. Has(p3, p, o + n + 2, 2, tag)
  <2>1. Kept(p2, p3, p, o + n + 2, o + n + 4)
    <3>1. o + n + 4 \in Nat /\ o + 2 + len <= o + n + 2
      OBVIOUS
    <3> QED BY <1>4, <1>5, <3>1, PutKeeps
  <2> QED BY <1>4, <1>6, <2>1, KeptHas
<1>11. len # 0 => Has(p3, p, o + 2, len, what)
  BY <1>4, <1>5, PutHas
<1>12. Only(pg, p3, x)
  BY <1>2, <1>5, <1>8, OnlyTwice
<1> HIDE DEF p3
<1> QED
  BY <1>1, <1>8, <1>9, <1>10, <1>11, <1>12 DEF Tagged

LEMMA AddFreeFields ==
  ASSUME NEW s, IsState(s), NEW x \in Extents
  PROVE  LET t == AddFree(s, x) IN
         /\ IsTyped(t) /\ t.status = "up"
         /\ t.mem = [s.mem EXCEPT !.free = @ \cup {x}]
         /\ t.pages = Put(PutTags(s.pages, x.page, x.offset, x.size, x.size), x.page, x.offset + 2, x.size, Junk)
<1> DEFINE n == [s.mem EXCEPT !.free = @ \cup {x}]
           new == Put(PutTags(s.pages, x.page, x.offset, x.size, x.size), x.page, x.offset + 2, x.size, Junk)
<1>1. n \in Mems
  BY DEF IsState, IsTyped, Mems
<1>2. AddFree(s, x) = [mem |-> n, pages |-> new, orphan |-> s.orphan, status |-> s.status]
  <2>1. s = [mem |-> s.mem, pages |-> s.pages, orphan |-> s.orphan, status |-> s.status]
    BY DEF IsState, IsTyped
  <2>2. AddFree(s, x) = [s EXCEPT !.mem = n, !.pages = new]
    BY Zenon DEF AddFree
  <2> HIDE DEF n, new
  <2> QED BY <2>1, <2>2
<1> HIDE DEF n, new
<1>3. AddFree(s, x).mem = n /\ AddFree(s, x).pages = new /\ AddFree(s, x).status = "up"
      /\ AddFree(s, x) \in [mem : Mems, pages : {new}, orphan : BOOLEAN, status : Statuses]
  BY <1>1, <1>2 DEF IsState, IsTyped
<1> QED
  BY <1>3 DEF n, new, IsTyped

LEMMA AddFreeWithin ==
  ASSUME NEW C, NEW s, NEW O, NEW E, NEW V, NEW B, NEW M, NEW F,
         Within(C, s, O, E, V, B, M, F), NEW x \in V
  PROVE  Within(C, AddFree(s, x), O, E, V \ {x}, B, M, F)
<1> PICK t : t = AddFree(s, x)
  OBVIOUS
<1>1. x \in Extents /\ x.page \in PageIds /\ x.size \in Nat
  BY MidPages DEF Within, Extents
<1>2. /\ IsTyped(t) /\ t.status = "up"
      /\ t.mem = [s.mem EXCEPT !.free = @ \cup {x}]
      /\ t.pages = Put(PutTags(s.pages, x.page, x.offset, x.size, x.size), x.page, x.offset + 2, x.size, Junk)
  BY <1>1, AddFreeFields DEF Within
<1>3. Only(s.pages, t.pages, x) /\ IsPages(t.pages) /\ Tagged(t.pages, x, x.size)
  BY <1>1, <1>2, FillBlock DEF Within, IsState
<1>4. Mid(C, s.mem, t.pages, O, E, V, B, M, F)
  BY <1>3, MidWrite DEF Within
<1>5. Mid(C, [s.mem EXCEPT !.free = @ \cup {x}], t.pages, O, E, V \ {x}, B, M, F)
  BY <1>3, <1>4, MidList
<1> QED
  BY <1>2, <1>3, <1>5 DEF Within, IsState

\* A block that is in no blob and has no free neighbour is freed.
LEMMA FreeWithin ==
  ASSUME NEW C, NEW s, NEW O, NEW E, NEW V, NEW B, NEW M, NEW F,
         Within(C, s, O, E, V, B, M, F), NEW x \in E,
         \A c \in s.mem.free \cup V : ~Touch(x, c) /\ ~Touch(c, x)
  PROVE  Within(C, AddFree(s, x), O, E \ {x}, V, B, M, F)
<1>1. Within(C, s, O, E \ {x}, V \cup {x}, B, M, F)
  BY MidGive DEF Within
<1>2. Within(C, AddFree(s, x), O, E \ {x}, (V \cup {x}) \ {x}, B, M, F)
  BY <1>1, AddFreeWithin
<1>3. x \notin V
  BY DEF Within, Mid, Tiles
<1>4. (V \cup {x}) \ {x} = V
  BY <1>3
<1> QED
  BY <1>2, <1>4

\* The block that a blob is put in.
LEMMA LowerBoundFree ==
  ASSUME NEW s, s.mem.free \subseteq Extents, NEW size, FreeOfSize(s, size) # {}
  PROVE  LowerBound(s, size) \in FreeOfSize(s, size)
<1> DEFINE S == FreeOfSize(s, size)
<1>1. S \subseteq Extents
  BY DEF FreeOfSize
<1> HIDE DEF S
<1>2. S # {}
  BY DEF S
<1>3. PICK b1 \in S : \A c \in S : b1.size <= c.size
  <2> DEFINE T == {c.size : c \in S}
  <2>1. T \in SUBSET Nat /\ T # {}
    BY <1>1, <1>2 DEF Extents
  <2>2. PICK m \in T : \A n \in T : m <= n
    <3> HIDE DEF T
    <3> QED BY <2>1, Least
  <2> QED BY <2>2
<1> DEFINE S2 == {c \in S : c.size = b1.size}
<1>4. PICK b2 \in S2 : \A c \in S2 : b2.page <= c.page
  <2> DEFINE T == {c.page : c \in S2}
  <2>1. T \in SUBSET Nat /\ T # {}
    BY <1>1 DEF Extents
  <2>2. PICK m \in T : \A n \in T : m <= n
    <3> HIDE DEF T
    <3> QED BY <2>1, Least
  <2> QED BY <2>2
<1> DEFINE S3 == {c \in S2 : c.page = b2.page}
<1>5. PICK b3 \in S3 : \A c \in S3 : b3.offset <= c.offset
  <2> DEFINE T == {c.offset : c \in S3}
  <2>1. T \in SUBSET Nat /\ T # {}
    BY <1>1 DEF Extents
  <2>2. PICK m \in T : \A n \in T : m <= n
    <3> HIDE DEF T
    <3> QED BY <2>1, Least
  <2> QED BY <2>2
<1>6. ASSUME NEW c \in S PROVE b3 = c \/ Before(b3, c)
  <2>1. c \in Extents /\ b3 \in Extents /\ b3 \in S
    BY <1>1
  <2>2. b3.size <= c.size
    BY <1>3
  <2>3. c.size = b3.size => b3.page <= c.page
    BY <1>4
  <2>4. c.size = b3.size /\ b3.page = c.page => b3.offset <= c.offset
    BY <1>5
  <2>5. c.size = b3.size /\ b3.page = c.page /\ b3.offset = c.offset => b3 = c
    BY <2>1 DEF Extents
  <2> QED BY <2>1, <2>2, <2>3, <2>4, <2>5 DEF Before, Extents
<1>7. \E b \in S : \A c \in S : b = c \/ Before(b, c)
  BY <1>6
<1> QED
  BY <1>7 DEF LowerBound, S

LEMMA TakeBlockFields ==
  ASSUME NEW s, IsTyped(s), NEW size
  PROVE  /\ IsTyped(TakeBlock(s, size))
         /\ TakeBlock(s, size).pages = s.pages /\ TakeBlock(s, size).status = s.status
         /\ FreeOfSize(s, size) = {} => TakeBlock(s, size).mem = [s.mem EXCEPT !.pageCount = @ + 1]
         /\ FreeOfSize(s, size) # {} =>
              TakeBlock(s, size).mem = [s.mem EXCEPT !.free = @ \ {LowerBound(s, size)}]
<1> DEFINE n1 == [s.mem EXCEPT !.pageCount = @ + 1]
           n2 == [s.mem EXCEPT !.free = @ \ {LowerBound(s, size)}]
<1>1. n1 \in Mems /\ n2 \in Mems
  BY DEF IsTyped, Mems
<1>2. s = [mem |-> s.mem, pages |-> s.pages, orphan |-> s.orphan, status |-> s.status]
  BY DEF IsTyped
<1>3. CASE FreeOfSize(s, size) = {}
  <2>1. TakeBlock(s, size) = [s EXCEPT !.mem = n1]
    BY <1>3, Zenon DEF TakeBlock, NewPage
  <2> HIDE DEF n1
  <2>2. TakeBlock(s, size) = [mem |-> n1, pages |-> s.pages, orphan |-> s.orphan, status |-> s.status]
    BY <1>2, <2>1
  <2>3. TakeBlock(s, size).mem = n1 /\ TakeBlock(s, size).pages = s.pages
        /\ TakeBlock(s, size).status = s.status /\ IsTyped(TakeBlock(s, size))
    BY <1>1, <2>2 DEF IsTyped
  <2> QED BY <1>3, <2>3 DEF n1
<1>4. CASE FreeOfSize(s, size) # {}
  <2>1. TakeBlock(s, size) = [s EXCEPT !.mem = n2]
    BY <1>4, Zenon DEF TakeBlock
  <2> HIDE DEF n2
  <2>2. TakeBlock(s, size) = [mem |-> n2, pages |-> s.pages, orphan |-> s.orphan, status |-> s.status]
    BY <1>2, <2>1
  <2>3. TakeBlock(s, size).mem = n2 /\ TakeBlock(s, size).pages = s.pages
        /\ TakeBlock(s, size).status = s.status /\ IsTyped(TakeBlock(s, size))
    BY <1>1, <2>2 DEF IsTyped
  <2> QED BY <1>4, <2>3 DEF n2
<1> QED
  BY <1>3, <1>4

\* Only the blocks and the number of pages of the memory change, and that upwards.
SameHandles(m, n) ==
  /\ n.handleCount = m.handleCount /\ n.fhlStart = m.fhlStart /\ n.index = m.index
  /\ m.pageCount <= n.pageCount

LEMMA BlockTaken ==
  ASSUME NEW C, Bounds(C), NEW s, NEW O, NEW E, NEW V, NEW B, NEW M, NEW F,
         Within(C, s, O, E, V, B, M, F), NEW size \in Nat, size <= PAGE_SIZE - 4,
         TakeBlock(s, size).mem.pageCount <= MaxPages
  PROVE  /\ Within(C, TakeBlock(s, size), O, E \cup {Block(s, size)}, V, B, M, F)
         /\ Block(s, size) \in Extents /\ Block(s, size).size >= size /\ Block(s, size) \notin E
         /\ Block(s, size).offset \in C /\ End(Block(s, size)) \in C
         /\ \A c \in TakeBlock(s, size).mem.free \cup V :
              ~Touch(Block(s, size), c) /\ ~Touch(c, Block(s, size))
<1> PICK t, b : t = TakeBlock(s, size) /\ b = Block(s, size)
  OBVIOUS
<1>0. IsTyped(s) /\ Mid(C, s.mem, s.pages, O, E, V, B, M, F) /\ s.status = "up" /\ IsPages(s.pages)
  BY DEF Within, IsState
<1>1. /\ IsTyped(t) /\ t.pages = s.pages /\ t.status = "up"
      /\ FreeOfSize(s, size) = {} => t.mem = [s.mem EXCEPT !.pageCount = @ + 1]
      /\ FreeOfSize(s, size) # {} => t.mem = [s.mem EXCEPT !.free = @ \ {LowerBound(s, size)}]
  BY <1>0, TakeBlockFields
<1>2. s.mem \in Mems
  BY <1>0 DEF IsTyped
<1>3. CASE FreeOfSize(s, size) = {}
  <2>1. b = Whole(s.mem.pageCount)
    BY <1>3 DEF Block, Whole, PAGE_SIZE, overflowSize
  <2>2. t.mem.pageCount = s.mem.pageCount + 1 /\ t.mem.free = s.mem.free
    BY <1>1, <1>2, <1>3 DEF Mems
  <2>3. /\ Mid(C, t.mem, s.pages, O, E \cup {b}, V, B, M, F)
        /\ \A c \in s.mem.free \cup V : c.page # s.mem.pageCount
        /\ b \notin E
    <3>1. s.mem.pageCount + 1 <= MaxPages
      BY <2>2
    <3>2. /\ Mid(C, [s.mem EXCEPT !.pageCount = @ + 1], s.pages, O, E \cup {Whole(s.mem.pageCount)}, V, B, M, F)
          /\ \A c \in s.mem.free \cup V : c.page # s.mem.pageCount
          /\ Whole(s.mem.pageCount) \notin E
      BY ONLY Bounds(C), <1>0, <3>1, MidNewBlock
    <3> QED BY <1>1, <1>3, <2>1, <3>2
  <2>4. b \in Extents /\ b.size >= size /\ b.offset \in C /\ End(b) \in C /\ b.page = s.mem.pageCount
    <3> PICK pc \in Nat : pc = s.mem.pageCount
      BY <1>2 DEF Mems
    <3>1. b = [size |-> 8188, page |-> pc, offset |-> 0]
      BY <2>1 DEF Whole, overflowSize
    <3>2. b.size = 8188 /\ b.page = pc /\ b.offset = 0 /\ b \in Extents
      BY ONLY <3>1, pc \in Nat DEF Extents
    <3>3. End(b) = PAGE_SIZE /\ size <= 8188
      BY <3>2 DEF End, PAGE_SIZE
    <3>4. 0 \in C /\ PAGE_SIZE \in C
      BY DEF Bounds
    <3> QED BY <3>2, <3>3, <3>4
  <2> QED BY <1>0, <1>1, <2>2, <2>3, <2>4 DEF Within, IsState, Touch
<1>4. CASE FreeOfSize(s, size) # {}
  <2>1. b = LowerBound(s, size)
    BY <1>4 DEF Block
  <2>2. b \in s.mem.free /\ b.size >= size
    <3>1. b \in FreeOfSize(s, size)
      BY <1>2, <1>4, <2>1, LowerBoundFree DEF Mems
    <3> QED BY <3>1 DEF FreeOfSize
  <2>3. t.mem.free = s.mem.free \ {b} /\ t.mem = [s.mem EXCEPT !.free = @ \ {b}]
    BY <1>1, <1>2, <1>4, <2>1 DEF Mems
  <2>4. /\ Mid(C, t.mem, s.pages, O, E \cup {b}, V, B, M, F)
        /\ \A c \in (s.mem.free \ {b}) \cup V : ~Touch(b, c) /\ ~Touch(c, b)
    <3>1. /\ Mid(C, [s.mem EXCEPT !.free = @ \ {b}], s.pages, O, E \cup {b}, V, B, M, F)
          /\ \A c \in (s.mem.free \ {b}) \cup V : ~Touch(b, c) /\ ~Touch(c, b)
      BY ONLY <1>0, <2>2, MidTake
    <3> QED BY <2>3, <3>1
  <2>5. b \in Extents /\ b.offset \in C /\ End(b) \in C /\ b \notin E
    BY <1>0, <2>2 DEF Mid, Tiles, Covers, Shaped
  <2> QED BY <1>0, <1>1, <2>2, <2>3, <2>4, <2>5 DEF Within, IsState
<1> QED
  BY <1>3, <1>4

LEMMA LinkedFields ==
  ASSUME NEW a, IsTyped(a.s), NEW d, NEW i
  PROVE  /\ IsTyped(Linked(a, d, i).s) /\ Linked(a, d, i).s.mem = TakeBlock(a.s, overflowSize).mem
         /\ Linked(a, d, i).s.status = a.s.status
         /\ Linked(a, d, i).page = OverflowPage(a.s) /\ Linked(a, d, i).at = overflowSize
         /\ Linked(a, d, i).s.pages = Put(PutOverflowPage(a.s.pages, OverflowPage(a.s), d, i), a.page, a.at, 4,
                                          OverflowPage(a.s))
<1> PICK g : g = TakeBlock(a.s, overflowSize)
  OBVIOUS
<1> PICK new : new = Put(PutOverflowPage(a.s.pages, OverflowPage(a.s), d, i), a.page, a.at, 4, OverflowPage(a.s))
  OBVIOUS
<1>1. IsTyped(g) /\ g.pages = a.s.pages /\ g.status = a.s.status
  BY TakeBlockFields
<1> PICK h : h = [g EXCEPT !.pages = new]
  OBVIOUS
<1>2. Linked(a, d, i) = [s |-> h, page |-> OverflowPage(a.s), at |-> overflowSize]
  BY <1>1, Zenon DEF Linked
<1>3. IsTyped(h) /\ h.mem = g.mem /\ h.pages = new /\ h.status = g.status
  BY <1>1 DEF IsTyped
<1>4. Linked(a, d, i).s = h /\ Linked(a, d, i).page = OverflowPage(a.s) /\ Linked(a, d, i).at = overflowSize
  BY <1>2
<1> QED
  BY <1>1, <1>3, <1>4, Zenon

\* One turn: an overflow page is taken and filled, and linked from x.
Turned(C, a, d, i, O, E, V, B, M, F, x, t) ==
  /\ Within(C, t.s, O, E \cup {Whole(t.page)}, V, B, M, F) /\ Whole(t.page) \notin E
  /\ t.at = overflowSize /\ t.page \in Nat
  /\ Has(t.s.pages, t.page, 0, overflowSize, <<d, i>>)
  /\ Has(t.s.pages, t.page, overflowSize, 4, NULL32)
  /\ Has(t.s.pages, x.page, a.at, 4, t.page)
  /\ \A y \in E : y # x => Kept(a.s.pages, t.s.pages, y.page, y.offset, End(y))
  /\ Kept(a.s.pages, t.s.pages, x.page, x.offset, a.at)
  /\ Kept(a.s.pages, t.s.pages, x.page, a.at + 4, End(x))

LEMMA OverflowTurn ==
  ASSUME NEW C, Bounds(C), NEW a, NEW d, NEW i, NEW O, NEW E, NEW V, NEW B, NEW M, NEW F,
         Within(C, a.s, O, E, V, B, M, F), NEW x \in E, a.page = x.page, a.at \in Nat,
         x.offset <= a.at, a.at + 4 <= End(x), NEW t, t = Linked(a, d, i),
         t.s.mem.pageCount <= MaxPages
  PROVE  Turned(C, a, d, i, O, E, V, B, M, F, x, t)
<1> PICK s, at : s = a.s /\ at = a.at
  OBVIOUS
<1> PICK w, p : w = Block(s, overflowSize) /\ p = w.page
  OBVIOUS
<1> PICK g : g = TakeBlock(s, overflowSize)
  OBVIOUS
<1>1. IsTyped(s) /\ s.status = "up" /\ IsPages(s.pages)
  BY DEF Within, IsState
<1>2. /\ IsTyped(t.s) /\ t.s.mem = g.mem /\ t.s.status = "up" /\ t.page = p /\ t.at = overflowSize
      /\ t.s.pages = Put(PutOverflowPage(s.pages, p, d, i), x.page, at, 4, p)
  BY <1>1, LinkedFields DEF OverflowPage
<1>3. /\ Within(C, g, O, E \cup {w}, V, B, M, F) /\ w \in Extents /\ w.size >= overflowSize
      /\ w \notin E /\ w.offset \in C /\ End(w) \in C
  <2>1. overflowSize \in Nat /\ overflowSize <= PAGE_SIZE - 4
    BY DEF overflowSize, PAGE_SIZE
  <2>2. Within(C, s, O, E, V, B, M, F) /\ TakeBlock(s, overflowSize).mem.pageCount <= MaxPages
    BY <1>2
  <2>3. /\ Within(C, TakeBlock(s, overflowSize), O, E \cup {Block(s, overflowSize)}, V, B, M, F)
        /\ Block(s, overflowSize) \in Extents /\ Block(s, overflowSize).size >= overflowSize
        /\ Block(s, overflowSize) \notin E
        /\ Block(s, overflowSize).offset \in C /\ End(Block(s, overflowSize)) \in C
    BY ONLY Bounds(C), <2>1, <2>2, BlockTaken
  <2> QED BY <2>3
<1>4. w = Whole(p) /\ w.offset = 0 /\ End(w) = 8192
  <2>0. w.offset \in Nat /\ w.size \in Nat /\ w.size >= 8188 /\ End(w) = w.offset + w.size + 4
    BY <1>3 DEF End, Extents, overflowSize
  <2>1. w.offset = 0 /\ w.size = 8188
    <3>1. End(w) <= 8192
      <4>1. \A n \in C : n \in Int /\ n <= 8192
        BY BoundsSay
      <4>2. End(w) \in C
        BY <1>3
      <4> QED BY ONLY <4>1, <4>2
    <3> QED BY <2>0, <3>1
  <2>2. w = [size |-> w.size, page |-> w.page, offset |-> w.offset]
    BY <1>3 DEF Extents
  <2> QED BY <2>1, <2>2 DEF Whole, overflowSize, End
<1>5. Mid(C, g.mem, s.pages, O, E \cup {w}, V, B, M, F)
  BY <1>1, <1>3, TakeBlockFields DEF Within
<1>6. p \in PageIds /\ x \in Extents /\ x.page \in PageIds /\ p \in Nat
  <2>1. w.page \in PageIds /\ x.page \in PageIds /\ x \in Extents
    BY <1>5, MidPages
  <2> QED BY <2>1, <1>3 DEF Extents
<1> PICK q1 : q1 = Put(s.pages, p, 0, overflowSize, <<d, i>>)
  OBVIOUS
<1> PICK q2 : q2 = Put(q1, p, overflowSize, 4, NULL32)
  OBVIOUS
<1> PICK q3 : q3 = Put(q2, x.page, at, 4, p)
  OBVIOUS
<1>7. t.s.pages = q3
  BY <1>2 DEF PutOverflowPage
<1>8. overflowSize \in Nat \ {0} /\ 0 + overflowSize <= 8192 /\ overflowSize + 4 <= 8192 /\ 4 \in Nat \ {0}
      /\ 0 \in Nat /\ 8192 \in Nat /\ at \in Nat /\ x.offset \in Nat /\ End(x) \in Nat /\ at + 4 \in Nat
      /\ overflowSize + 4 = 8192 /\ overflowSize = 8188
  BY <1>6 DEF overflowSize, Extents, End
<1>9. Only(s.pages, q1, w) /\ IsPages(q1)
  <2>1. w \in Extents /\ p = w.page /\ w.offset <= 0 /\ 0 + overflowSize <= End(w) /\ overflowSize \in Nat
    BY <1>3, <1>4, <1>8
  <2>2. IsPages(s.pages) /\ p \in PageIds /\ 0 \in Nat
    BY <1>1, <1>6
  <2>3. q1 = Put(s.pages, p, 0, overflowSize, <<d, i>>)
    OBVIOUS
  <2> QED BY ONLY <2>1, <2>2, <2>3, PutInside
<1>10. Has(q1, p, 0, overflowSize, <<d, i>>)
  BY <1>1, <1>6, <1>8, PutHas
<1>11. Only(q1, q2, w) /\ IsPages(q2)
  <2>1. w.offset <= overflowSize /\ overflowSize + 4 <= End(w) /\ w.page = p /\ 4 \in Nat /\ overflowSize \in Nat
    BY <1>4, <1>8
  <2>2. w \in Extents /\ p \in PageIds /\ IsPages(q1)
    BY <1>3, <1>6, <1>9
  <2>3. q2 = Put(q1, p, overflowSize, 4, NULL32)
    OBVIOUS
  <2> QED BY ONLY <2>1, <2>2, <2>3, PutInside
<1>12. Has(q2, p, overflowSize, 4, NULL32)
  BY <1>6, <1>8, <1>9, PutHas
<1>13. Has(q2, p, 0, overflowSize, <<d, i>>)
  <2>1. Kept(q1, q2, p, 0, overflowSize)
    BY <1>6, <1>8, <1>9, PutKeeps
  <2> QED BY <1>8, <1>10, <2>1, KeptHas
<1>14. Only(s.pages, q2, w)
  BY <1>9, <1>11, OnlyTwice
<1>15. Mid(C, g.mem, q2, O, E \cup {w}, V, B, M, F)
  BY <1>5, <1>11, <1>14, MidWrite
<1>16. Only(q2, q3, x) /\ IsPages(q3)
  <2>1. x.offset <= at /\ at + 4 <= End(x) /\ 4 \in Nat /\ at \in Nat
    BY <1>8
  <2> QED BY <1>6, <1>11, <2>1, PutInside
<1>17. Mid(C, g.mem, q3, O, E \cup {w}, V, B, M, F)
  BY <1>15, <1>16, MidWrite
<1>18. Has(q3, x.page, at, 4, p)
  BY <1>6, <1>8, <1>11, PutHas
<1>19. Kept(q2, q3, x.page, x.offset, at) /\ Kept(q2, q3, x.page, at + 4, End(x))
  BY <1>6, <1>8, <1>11, PutKeeps
<1>20. ASSUME NEW y \in E \cup {w}, NEW z \in E \cup {w}, y # z
       PROVE  /\ y \in Extents /\ y.page \in PageIds /\ y.offset \in Nat /\ End(y) \in Nat
              /\ y.page # z.page \/ End(y) <= z.offset \/ End(z) <= y.offset
  <2>1. y \in Extents /\ y.page \in PageIds
    BY <1>5, MidPages
  <2>2. Clear(y, z)
    BY <1>5, <1>20 DEF Mid, Tiles, Covers, Disjoint
  <2> QED BY <2>1, <2>2 DEF Clear, Extents, End
<1>21. Kept(q2, q3, p, 0, 8192)
  <2>1. p # x.page \/ 8192 <= x.offset \/ End(x) <= 0
    BY <1>3, <1>4, <1>20
  <2> QED BY <1>6, <1>8, <1>16, <2>1 DEF Only
<1>22. Has(q3, p, 0, overflowSize, <<d, i>>)
  BY <1>8, <1>13, <1>21, KeptHas
<1>23. Has(q3, p, overflowSize, 4, NULL32)
  BY <1>8, <1>12, <1>21, KeptHas
<1>24. ASSUME NEW y \in E
       PROVE  Kept(s.pages, q2, y.page, y.offset, End(y))
  <2>1. y # w
    BY <1>3
  <2>2. y.page \in PageIds /\ y.offset \in Nat /\ End(y) \in Nat
        /\ (y.page # w.page \/ End(y) <= w.offset \/ End(w) <= y.offset)
    BY <1>20, <2>1
  <2> QED BY <1>14, <2>2 DEF Only
<1>25. ASSUME NEW y \in E, y # x
       PROVE  Kept(s.pages, q3, y.page, y.offset, End(y))
  <2>1. y.page \in PageIds /\ y.offset \in Nat /\ End(y) \in Nat
        /\ (y.page # x.page \/ End(y) <= x.offset \/ End(x) <= y.offset)
    BY <1>20, <1>25
  <2>2. Kept(q2, q3, y.page, y.offset, End(y))
    BY <1>16, <2>1 DEF Only
  <2> QED BY <1>24, <2>2, KeptTwice
<1>26. Kept(s.pages, q3, x.page, x.offset, at) /\ Kept(s.pages, q3, x.page, at + 4, End(x))
  <2>1. Kept(s.pages, q2, x.page, x.offset, End(x))
    BY <1>24
  <2>2. Kept(s.pages, q2, x.page, x.offset, at) /\ Kept(s.pages, q2, x.page, at + 4, End(x))
    BY <1>8, <2>1 DEF Kept
  <2> QED BY <1>19, <2>2, KeptTwice
<1>27. Within(C, t.s, O, E \cup {w}, V, B, M, F)
  BY <1>2, <1>7, <1>16, <1>17 DEF Within, IsState
<1>28. t.page = p /\ t.at = overflowSize /\ t.s.pages = q3 /\ w = Whole(p)
  BY <1>2, <1>4, <1>7
<1> QED
  BY <1>3, <1>6, <1>18, <1>22, <1>23, <1>25, <1>26, <1>27, <1>28 DEF Turned


LEMMA TakeSame ==
  ASSUME NEW s, IsTyped(s), NEW size
  PROVE  SameHandles(s.mem, TakeBlock(s, size).mem)
<1>1. s.mem \in Mems
  BY DEF IsTyped
<1>2. /\ FreeOfSize(s, size) = {} => TakeBlock(s, size).mem = [s.mem EXCEPT !.pageCount = @ + 1]
      /\ FreeOfSize(s, size) # {} => TakeBlock(s, size).mem = [s.mem EXCEPT !.free = @ \ {LowerBound(s, size)}]
  BY TakeBlockFields
<1>3. CASE FreeOfSize(s, size) = {}
  BY <1>1, <1>2, <1>3 DEF SameHandles, Mems
<1>4. CASE FreeOfSize(s, size) # {}
  BY <1>1, <1>2, <1>4 DEF SameHandles, Mems
<1> QED
  BY <1>3, <1>4

LEMMA SameTwice ==
  ASSUME NEW m \in Mems, NEW n \in Mems, NEW o \in Mems, SameHandles(m, n), SameHandles(n, o)
  PROVE  SameHandles(m, o)
  BY DEF SameHandles, Mems

\* A sequence with one more.
LEMMA Appended ==
  ASSUME NEW chain \in Seq(Nat), NEW p \in Nat, Injected(chain), \A i \in DOMAIN chain : chain[i] # p
  PROVE  /\ Append(chain, p) \in Seq(Nat) /\ Len(Append(chain, p)) = Len(chain) + 1
         /\ Injected(Append(chain, p)) /\ Append(chain, p)[Len(chain) + 1] = p
         /\ \A i \in 1..Len(chain) : Append(chain, p)[i] = chain[i]
         /\ DOMAIN Append(chain, p) = 1..(Len(chain) + 1) /\ Len(chain) \in Nat
<1> PICK more : more = Append(chain, p)
  OBVIOUS
<1> PICK n \in Nat : n = Len(chain) /\ DOMAIN chain = 1..n
  OBVIOUS
<1>1. /\ more \in Seq(Nat) /\ Len(more) = n + 1 /\ more[n + 1] = p
      /\ \A i \in 1..n : more[i] = chain[i]
      /\ DOMAIN more = 1..(n + 1)
  OBVIOUS
<1>2. ASSUME NEW i \in 1..(n + 1), NEW j \in 1..(n + 1), more[i] = more[j] PROVE i = j
  <2>1. CASE i \in 1..n /\ j \in 1..n
    BY <1>1, <1>2, <2>1 DEF Injected
  <2>2. CASE i = n + 1 /\ j \in 1..n
    BY <1>1, <1>2, <2>2
  <2>3. CASE j = n + 1 /\ i \in 1..n
    BY <1>1, <1>2, <2>3
  <2> QED BY <2>1, <2>2, <2>3
<1> QED
  BY <1>1, <1>2 DEF Injected

\* What the turns have done: the overflow pages of chain, each linked from the
\* one before it, the first from the place at in the block x.
Extended(C, s, d, x, at, O, E, V, B, M, F, n, a, chain) ==
  /\ chain \in Seq(Nat) /\ Len(chain) = n /\ Injected(chain)
  /\ \A i \in 1..n : Whole(chain[i]) \notin E
  /\ Within(C, a.s, O, E \cup {Whole(chain[i]) : i \in 1..n}, V, B, M, F)
  /\ \A i \in 1..n :
       /\ Has(a.s.pages, chain[i], 0, overflowSize, <<d, i>>)
       /\ Has(a.s.pages, chain[i], overflowSize, 4, IF i = n THEN NULL32 ELSE chain[i + 1])
  /\ IF n = 0 THEN a.page = x.page /\ a.at = at
     ELSE a.page = chain[n] /\ a.at = overflowSize /\ Has(a.s.pages, x.page, at, 4, chain[1])
  /\ Kept(s.pages, a.s.pages, x.page, x.offset, at)
  /\ Kept(s.pages, a.s.pages, x.page, at + 4, End(x))
  /\ SameHandles(s.mem, a.s.mem)

LEMMA ExtendedTurn ==
  ASSUME NEW C, Bounds(C), NEW s, IsTyped(s), NEW d, NEW O, NEW E, NEW V, NEW B, NEW M, NEW F,
         NEW x \in E, NEW at \in Nat, x.offset <= at, at + 4 <= End(x),
         NEW n \in Nat, NEW a, NEW chain, Extended(C, s, d, x, at, O, E, V, B, M, F, n, a, chain),
         NEW t, t = Linked(a, d, n + 1), t.s.mem.pageCount <= MaxPages
  PROVE  \E more : Extended(C, s, d, x, at, O, E, V, B, M, F, n + 1, t, more)
<1> PICK E1 : E1 = E \cup {Whole(chain[i]) : i \in 1..n}
  OBVIOUS
<1>1. Within(C, a.s, O, E1, V, B, M, F) /\ chain \in Seq(Nat) /\ Len(chain) = n /\ Injected(chain)
  BY DEF Extended
<1> PICK y : y = IF n = 0 THEN x ELSE Whole(chain[n])
  OBVIOUS
<1>2. x \in Extents /\ x.offset \in Nat /\ End(x) \in Nat
  <2>1. x \in Extents
    BY <1>1, MidPages DEF Within
  <2> QED BY <2>1 DEF Extents, End
<1>3. y \in E1 /\ a.page = y.page /\ a.at \in Nat /\ y.offset <= a.at /\ a.at + 4 <= End(y)
  <2>1. CASE n = 0
    <3>1. y = x /\ a.page = x.page /\ a.at = at
      BY <2>1 DEF Extended
    <3> QED BY <3>1
  <2>2. CASE n # 0
    <3>1. n \in 1..n /\ y = Whole(chain[n]) /\ a.page = chain[n] /\ a.at = 8188
      BY <2>2 DEF Extended, overflowSize
    <3>2. y.page = chain[n] /\ y.offset = 0 /\ End(y) = 8192
      BY <3>1 DEF Whole, End, overflowSize
    <3> QED BY <3>1, <3>2
  <2> QED BY <2>1, <2>2
<1> PICK k \in Nat : k = n + 1
  OBVIOUS
<1>4. Turned(C, a, d, k, O, E1, V, B, M, F, y, t)
  BY <1>1, <1>3, OverflowTurn
<1> PICK p \in Nat : p = t.page
  BY <1>4 DEF Turned
<1>5. /\ Within(C, t.s, O, E1 \cup {Whole(p)}, V, B, M, F) /\ Whole(p) \notin E1
      /\ t.at = overflowSize /\ t.page = p
      /\ Has(t.s.pages, p, 0, overflowSize, <<d, n + 1>>)
      /\ Has(t.s.pages, p, overflowSize, 4, NULL32)
      /\ Has(t.s.pages, y.page, a.at, 4, p)
      /\ \A z \in E1 : z # y => Kept(a.s.pages, t.s.pages, z.page, z.offset, End(z))
      /\ Kept(a.s.pages, t.s.pages, y.page, y.offset, a.at)
      /\ Kept(a.s.pages, t.s.pages, y.page, a.at + 4, End(y))
  BY <1>4 DEF Turned
<1>6. \A i \in DOMAIN chain : chain[i] # p
  <2>1. DOMAIN chain = 1..n
    BY <1>1
  <2> QED BY <1>5, <2>1
<1> PICK more : more = Append(chain, p)
  OBVIOUS
<1>7. /\ more \in Seq(Nat) /\ Len(more) = n + 1 /\ Injected(more) /\ more[n + 1] = p
      /\ \A i \in 1..n : more[i] = chain[i]
  <2>1. /\ Append(chain, p) \in Seq(Nat) /\ Len(Append(chain, p)) = Len(chain) + 1
        /\ Injected(Append(chain, p)) /\ Append(chain, p)[Len(chain) + 1] = p
        /\ \A i \in 1..Len(chain) : Append(chain, p)[i] = chain[i]
    BY ONLY p \in Nat, <1>1, <1>6, Appended
  <2> QED BY <1>1, <2>1
<1>8. {Whole(more[i]) : i \in 1..(n + 1)} = {Whole(chain[i]) : i \in 1..n} \cup {Whole(p)}
  <2>1. ASSUME NEW i \in 1..(n + 1) PROVE i = n + 1 \/ i \in 1..n
    OBVIOUS
  <2>2. n + 1 \in 1..(n + 1) /\ 1..n \subseteq 1..(n + 1)
    OBVIOUS
  <2>3. ASSUME NEW w \in {Whole(more[i]) : i \in 1..(n + 1)}
        PROVE  w \in {Whole(chain[i]) : i \in 1..n} \cup {Whole(p)}
    BY <1>7, <2>1, Zenon
  <2>4. ASSUME NEW w \in {Whole(chain[i]) : i \in 1..n} \cup {Whole(p)}
        PROVE  w \in {Whole(more[i]) : i \in 1..(n + 1)}
    BY <1>7, <2>2, Zenon
  <2> QED BY <2>3, <2>4
<1>9. Within(C, t.s, O, E \cup {Whole(more[i]) : i \in 1..(n + 1)}, V, B, M, F)
  <2>1. E1 \cup {Whole(p)} = E \cup {Whole(more[i]) : i \in 1..(n + 1)}
    BY <1>8
  <2> QED BY <1>5, <2>1
<1>10. \A i \in 1..(n + 1) : Whole(more[i]) \notin E
  <2>1. Whole(p) \notin E
    BY <1>5
  <2>2. \A i \in 1..n : Whole(chain[i]) \notin E
    BY DEF Extended
  <2>3. ASSUME NEW i \in 1..(n + 1) PROVE i = n + 1 \/ i \in 1..n
    OBVIOUS
  <2> QED BY <1>7, <2>1, <2>2, <2>3
<1>11. x \in E1 /\ (n # 0 => x # y)
  BY DEF Extended
<1>12. Kept(s.pages, t.s.pages, x.page, x.offset, at) /\ Kept(s.pages, t.s.pages, x.page, at + 4, End(x))
  <2>1. Kept(s.pages, a.s.pages, x.page, x.offset, at) /\ Kept(s.pages, a.s.pages, x.page, at + 4, End(x))
    BY DEF Extended
  <2>2. Kept(a.s.pages, t.s.pages, x.page, x.offset, at) /\ Kept(a.s.pages, t.s.pages, x.page, at + 4, End(x))
    <3>1. CASE n = 0
      <4>1. y = x /\ a.at = at
        BY <3>1 DEF Extended
      <4> QED BY <1>5, <4>1
    <3>2. CASE n # 0
      <4>1. Kept(a.s.pages, t.s.pages, x.page, x.offset, End(x))
        BY <1>5, <1>11, <3>2
      <4>2. at \in Nat /\ at + 4 \in Nat /\ x.offset <= x.offset /\ at <= End(x) /\ x.offset <= at + 4
            /\ End(x) <= End(x)
        BY <1>2
      <4> QED BY <1>2, <4>1, <4>2, KeptWithin
    <3> QED BY <3>1, <3>2
  <2> QED BY <2>1, <2>2, KeptTwice
<1>13. Has(t.s.pages, x.page, at, 4, more[1])
  <2>1. CASE n = 0
    <3>1. y = x /\ a.at = at /\ more[1] = p
      BY <1>7, <2>1 DEF Extended
    <3> QED BY <1>5, <3>1
  <2>2. CASE n # 0
    <3>1. Has(a.s.pages, x.page, at, 4, chain[1]) /\ more[1] = chain[1]
      BY <1>7, <2>2 DEF Extended
    <3>2. Kept(a.s.pages, t.s.pages, x.page, x.offset, End(x))
      BY <1>5, <1>11, <2>2
    <3>3. 4 \in Nat
      OBVIOUS
    <3> QED BY SMTT(30), <1>2, <3>1, <3>2, <3>3, KeptHas
  <2> QED BY <2>1, <2>2
<1>14. ASSUME NEW i \in 1..(n + 1)
       PROVE  /\ Has(t.s.pages, more[i], 0, overflowSize, <<d, i>>)
              /\ Has(t.s.pages, more[i], overflowSize, 4, IF i = n + 1 THEN NULL32 ELSE more[i + 1])
  <2>1. CASE i = n + 1
    BY <1>5, <1>7, <2>1
  <2>2. CASE i \in 1..n
    <3> PICK z : z = Whole(chain[i])
      OBVIOUS
    <3>0. z.page = chain[i] /\ z.offset = 0 /\ End(z) = 8192 /\ overflowSize = 8188
      BY DEF Whole, End, overflowSize
    <3>1. more[i] = chain[i] /\ z \in E1 /\ i # n + 1
      BY <1>7, <2>2
    <3>2. /\ Has(a.s.pages, chain[i], 0, overflowSize, <<d, i>>)
          /\ Has(a.s.pages, chain[i], overflowSize, 4, IF i = n THEN NULL32 ELSE chain[i + 1])
      BY <2>2 DEF Extended
    <3>3. CASE i = n
      <4>1. n # 0 /\ y = z /\ a.at = overflowSize /\ y.offset = 0 /\ y.page = chain[i]
        BY <2>2, <3>0, <3>3 DEF Extended
      <4>2. Kept(a.s.pages, t.s.pages, chain[i], 0, overflowSize)
            /\ Has(t.s.pages, chain[i], overflowSize, 4, p)
        BY <1>5, <4>1
      <4>3. Has(t.s.pages, chain[i], 0, overflowSize, <<d, i>>)
        <5>1. 0 \in Nat /\ overflowSize \in Nat /\ 0 + overflowSize <= overflowSize /\ 0 <= 0
          BY DEF overflowSize
        <5> QED BY SMTT(30), <3>2, <4>2, <5>1, KeptHas
      <4> QED BY <1>7, <3>1, <3>3, <4>2, <4>3
    <3>4. CASE i # n
      <4>1. z # y
        <5>1. CASE n = 0
          BY <2>2, <5>1
        <5>2. CASE n # 0
          <6>1. y = Whole(chain[n]) /\ chain[n] # chain[i]
            <7>1. n \in DOMAIN chain /\ i \in DOMAIN chain
              BY <1>1, <2>2, <5>2
            <7> QED BY <1>1, <3>4, <5>2, <7>1 DEF Injected
          <6> QED BY <6>1 DEF Whole
        <5> QED BY <5>1, <5>2
      <4>2. Kept(a.s.pages, t.s.pages, chain[i], 0, 8192)
        BY <1>5, <3>0, <3>1, <4>1
      <4>3. /\ Has(t.s.pages, chain[i], 0, overflowSize, <<d, i>>)
            /\ Has(t.s.pages, chain[i], overflowSize, 4, chain[i + 1])
        <5>1. 0 \in Nat /\ overflowSize \in Nat /\ 0 + overflowSize <= 8192 /\ 0 <= 0 /\ 4 \in Nat
              /\ 0 <= overflowSize /\ overflowSize + 4 <= 8192 /\ 8192 \in Nat
          BY DEF overflowSize
        <5>2. Has(a.s.pages, chain[i], overflowSize, 4, chain[i + 1])
          BY <3>2, <3>4
        <5>3. Has(t.s.pages, chain[i], 0, overflowSize, <<d, i>>)
          BY ONLY <3>2, <4>2, <5>1, KeptHas
        <5>4. Has(t.s.pages, chain[i], overflowSize, 4, chain[i + 1])
          BY ONLY <4>2, <5>1, <5>2, KeptHas
        <5> QED BY <5>3, <5>4
      <4>4. more[i + 1] = chain[i + 1]
        <5>1. i + 1 \in 1..n
          BY <2>2, <3>4
        <5> QED BY <1>7, <5>1
      <4>5. (IF i = n + 1 THEN NULL32 ELSE more[i + 1]) = chain[i + 1]
        BY <3>1, <4>4
      <4>6. more[i] = chain[i]
        BY <3>1
      <4> QED BY <4>3, <4>5, <4>6
    <3> QED BY <3>3, <3>4
  <2>3. i = n + 1 \/ i \in 1..n
    OBVIOUS
  <2> QED BY ONLY <2>1, <2>2, <2>3, Zenon
<1>15. SameHandles(s.mem, t.s.mem)
  <2>1. IsTyped(a.s) /\ IsTyped(t.s)
    BY <1>1, <1>5 DEF Within, IsState
  <2>2. t.s.mem = TakeBlock(a.s, overflowSize).mem
    BY <2>1, LinkedFields
  <2>3. SameHandles(s.mem, a.s.mem) /\ SameHandles(a.s.mem, t.s.mem)
    BY <2>1, <2>2, TakeSame DEF Extended
  <2>4. s.mem \in Mems /\ a.s.mem \in Mems /\ t.s.mem \in Mems
    BY <2>1 DEF IsTyped
  <2> QED BY <2>3, <2>4, SameTwice
<1>16. n + 1 # 0 /\ t.page = more[n + 1] /\ t.at = overflowSize
  BY <1>5, <1>7
<1>17. Extended(C, s, d, x, at, O, E, V, B, M, F, n + 1, t, more)
  BY <1>7, <1>9, <1>10, <1>12, <1>13, <1>14, <1>15, <1>16 DEF Extended
<1> QED
  BY <1>17

LEMMA OverflowPut ==
  ASSUME NEW C, Bounds(C), NEW s, NEW d, overflowPageCount(d.size) \in Nat,
         NEW O, NEW E, NEW V, NEW B, NEW M, NEW F, Within(C, s, O, E, V, B, M, F),
         NEW x \in E, NEW at \in Nat, x.offset <= at, at + 4 <= End(x),
         NEW t, t = PutOverflow(s, d, x.page, at)
  PROVE  /\ IsTyped(t) /\ SameHandles(s.mem, t.mem)
         /\ t.mem.pageCount <= MaxPages =>
              \E a, chain : a.s = t
                /\ Extended(C, s, d, x, at, O, E, V, B, M, F, overflowPageCount(d.size), a, chain)
<1> PICK N \in Nat : N = overflowPageCount(d.size)
  OBVIOUS
<1> PICK linked : LinkedUpTo(s, d, x.page, at, N, linked) /\ t = linked[N].s
  BY LinkedDefined
<1>1. linked[0] = [s |-> s, page |-> x.page, at |-> at]
      /\ \A n \in 0..N : n # 0 => linked[n] = Linked(linked[n - 1], d, n)
  BY DEF LinkedUpTo
<1>2. IsTyped(s) /\ s.mem \in Mems
  BY DEF Within, IsState, IsTyped
<1> DEFINE Good(n) == /\ IsTyped(linked[n].s) /\ SameHandles(s.mem, linked[n].s.mem)
                      /\ linked[n].s.mem.pageCount <= MaxPages =>
                           \E chain : Extended(C, s, d, x, at, O, E, V, B, M, F, n, linked[n], chain)
           S == {n \in 0..N : Good(n)}
<1>3. Good(0)
  <2>1. linked[0].s = s /\ linked[0].page = x.page /\ linked[0].at = at
    BY <1>1
  <2>2. SameHandles(s.mem, s.mem)
    BY <1>2 DEF SameHandles, Mems
  <2>3. Extended(C, s, d, x, at, O, E, V, B, M, F, 0, linked[0], <<>>)
    <3>1. {Whole(<<>>[i]) : i \in 1..0} = {}
      OBVIOUS
    <3>2. E \cup {Whole(<<>>[i]) : i \in 1..0} = E
      BY <3>1
    <3>3. <<>> \in Seq(Nat) /\ Len(<<>>) = 0 /\ Injected(<<>>)
      BY DEF Injected
    <3>4. \A i \in 1..0 : FALSE
      OBVIOUS
    <3> QED BY <2>1, <2>2, <3>2, <3>3, <3>4, KeptSame DEF Extended
  <2> QED BY <1>2, <2>1, <2>2, <2>3
<1>4. ASSUME NEW n \in 0..N, n < N, Good(n) PROVE Good(n + 1)
  <2> PICK k \in Nat : k = n + 1
    OBVIOUS
  <2>1. linked[k] = Linked(linked[n], d, n + 1)
    BY <1>1, <1>4
  <2>2. IsTyped(linked[n].s)
    BY <1>4
  <2>3. IsTyped(linked[k].s) /\ linked[k].s.mem = TakeBlock(linked[n].s, overflowSize).mem
    BY <2>1, <2>2, LinkedFields
  <2>4. SameHandles(linked[n].s.mem, linked[k].s.mem)
    BY <2>2, <2>3, TakeSame
  <2>5. linked[n].s.mem \in Mems /\ linked[k].s.mem \in Mems
    BY <2>2, <2>3 DEF IsTyped
  <2>6. SameHandles(s.mem, linked[k].s.mem)
    BY <1>2, <1>4, <2>4, <2>5, SameTwice
  <2>7. ASSUME linked[k].s.mem.pageCount <= MaxPages
        PROVE  \E chain : Extended(C, s, d, x, at, O, E, V, B, M, F, k, linked[k], chain)
    <3>1. linked[n].s.mem.pageCount <= MaxPages
      <4>1. /\ linked[n].s.mem.pageCount \in Nat /\ linked[k].s.mem.pageCount \in Nat
            /\ linked[n].s.mem.pageCount <= linked[k].s.mem.pageCount
        BY <2>4, <2>5 DEF SameHandles, Mems
      <4>2. MaxPages \in Nat
        BY SizesAssumption
      <4> QED BY ONLY <2>7, <4>1, <4>2
    <3>2. PICK chain : Extended(C, s, d, x, at, O, E, V, B, M, F, n, linked[n], chain)
      BY <1>4, <3>1
    <3>3. n \in Nat
      OBVIOUS
    <3> QED BY <1>2, <2>1, <2>7, <3>2, <3>3, ExtendedTurn
  <2> QED BY <2>3, <2>6, <2>7
<1>5. \A n \in 0..N : Good(n)
  <2> HIDE DEF Good
  <2>1. 0 \in S /\ \A n \in 0..N : n < N /\ n \in S => n + 1 \in S
    BY <1>3, <1>4
  <2> HIDE DEF S
  <2>2. \A n \in 0..N : n \in S
    BY <2>1, Upwards
  <2> QED BY <2>2 DEF S
<1> QED
  BY <1>5

-----------------------------------------------------------------------------
(* Handles, their entries and the pages of the entries.                      *)

LEMMA MasterIs ==
  ASSUME NEW index, NEW pg, NEW M, Listed(index, pg, M), NEW n \in 0..(Len(M) - 1)
  PROVE  Master(pg, n) = M[n + 1]
<1>1. M \in Seq(Nat) /\ Len(M) \in Nat /\ M[1] = 1 /\ n \in Nat
  BY DEF Listed
<1> PICK page : MasterUpTo(pg, n, n, page) /\ Master(pg, n) = page[n]
  BY <1>1, MasterDefined
<1>2. page[0] = 1 /\ \A i \in 0..n : i # 0 => page[i] = Get(pg, page[i - 1], MasterLink, 4, NULL32)
  BY <1>1 DEF MasterUpTo
<1> DEFINE S == {i \in 0..n : page[i] = M[i + 1]}
<1>3. 0 \in S
  BY <1>1, <1>2
<1>4. ASSUME NEW i \in 0..n, i < n, i \in S PROVE i + 1 \in S
  <2> PICK k \in 1..(Len(M) - 1) : k = i + 1
    BY <1>1, <1>4
  <2>1. page[k] = Get(pg, page[i], MasterLink, 4, NULL32) /\ k \in 0..n
    BY <1>2, <1>4
  <2>2. Has(pg, M[k], MasterLink, 4, M[k + 1])
    BY DEF Listed
  <2>3. page[i] = M[k]
    BY <1>4
  <2>4. page[k] = M[k + 1]
    BY <2>1, <2>2, <2>3, HasGet
  <2> QED BY <2>1, <2>4
<1>5. \A i \in 0..n : i \in S
  <2> HIDE DEF S
  <2> QED BY <1>1, <1>3, <1>4, Upwards
<1> QED
  BY <1>1, <1>5

\* The entries of two handles are apart.
LEMMA EntriesApart ==
  ASSUME NEW id \in Nat, NEW other \in Nat, id # other
  PROVE  \/ id \div handlesPerIndex # other \div handlesPerIndex
         \/ EntryAt(id) + 11 <= EntryAt(other)
         \/ EntryAt(other) + 11 <= EntryAt(id)
<1> PICK k \in Nat \ {0} : k = handlesPerIndex
  BY SizesAssumption
<1> PICK q \in Nat, r \in 0..(k - 1) : q = id \div k /\ r = id % k /\ id = k * q + r
  BY DivMod
<1> PICK p \in Nat, t \in 0..(k - 1) : p = other \div k /\ t = other % k /\ other = k * p + t
  BY ONLY other \in Nat, k \in Nat \ {0}, DivMod
<1>1. EntryAt(id) = r * 11 /\ EntryAt(other) = t * 11
  BY DEF EntryAt
<1>2. p = q => r # t
  OBVIOUS
<1>3. r < t \/ t < r => r * 11 + 11 <= t * 11 \/ t * 11 + 11 <= r * 11
  OBVIOUS
<1> QED
  BY ONLY <1>1, <1>2, <1>3, q = id \div k, p = other \div k, k = handlesPerIndex, r \in Int, t \in Int,
          r \in 0..(k - 1), t \in 0..(k - 1), k \in Nat

\* One entry is written, and nothing else.
EntryWritten(m, pg, new, id, e) ==
  /\ IsPages(new) /\ HasEntry(m, new, id, e)
  /\ \A other \in 0..(m.handleCount - 1) : other # id =>
       \A f : HasEntry(m, pg, other, f) => HasEntry(m, new, other, f)
  /\ \A q \in PageIds, from, to \in Nat : q \notin ToSet(m.index) => Kept(pg, new, q, from, to)

LEMMA EntryPut ==
  ASSUME NEW m, m \in Mems, Len(m.index) = IndexPages(m), Injected(m.index),
         NEW pg, IsPages(pg), ToSet(m.index) \subseteq PageIds,
         NEW id \in 0..(m.handleCount - 1), NEW e, NEW new,
         new = Put(pg, m.index[(id \div handlesPerIndex) + 1], EntryAt(id), 11, e)
  PROVE  EntryWritten(m, pg, new, id, e)
<1>1. m.index \in Seq(Nat) /\ m.handleCount \in Nat
  BY DEF Mems
<1> DEFINE row(i) == (i \div handlesPerIndex) + 1
<1>2. ASSUME NEW i \in 0..(m.handleCount - 1)
      PROVE  /\ row(i) \in 1..Len(m.index) /\ EntryAt(i) \in Nat
             /\ m.index[row(i)] \in ToSet(m.index) /\ m.index[row(i)] \in PageIds
  <2>1. row(i) \in 1..Len(m.index) /\ EntryAt(i) \in Nat
    BY <1>1, EntrySpot DEF IndexPages
  <2> HIDE DEF row
  <2> QED BY SMTT(30), <1>1, <2>1 DEF ToSet
<1> PICK page \in PageIds, at \in Nat : page = m.index[row(id)] /\ at = EntryAt(id)
  BY <1>2
<1>3. new = Put(pg, page, at, 11, e) /\ 11 \in Nat \ {0} /\ page \in ToSet(m.index)
  BY <1>2
<1>4. IsPages(new)
  BY <1>3, PutPages
<1>5. HasEntry(m, new, id, e)
  BY <1>3, PutHas DEF HasEntry
<1>6. ASSUME NEW other \in 0..(m.handleCount - 1), other # id, NEW f, HasEntry(m, pg, other, f)
      PROVE  HasEntry(m, new, other, f)
  <2> PICK q \in PageIds, from \in Nat : q = m.index[row(other)] /\ from = EntryAt(other)
    BY <1>2
  <2>1. id \in Nat /\ other \in Nat
    BY <1>1
  <2>2. \/ id \div handlesPerIndex # other \div handlesPerIndex
        \/ EntryAt(id) + 11 <= EntryAt(other)
        \/ EntryAt(other) + 11 <= EntryAt(id)
    BY ONLY <2>1, <1>6, EntriesApart
  <2>3. row(id) \in Int /\ row(other) \in Int /\ (row(id) = row(other) => id \div handlesPerIndex = other \div handlesPerIndex)
    BY <1>1, <2>1, SizesAssumption
  <2>4. row(id) \in DOMAIN m.index /\ row(other) \in DOMAIN m.index
    BY SMTT(30), <1>1, <1>2
  <2>5. q = page => row(id) = row(other)
    <3> HIDE DEF row
    <3> QED BY <2>4 DEF Injected
  <2>6. q # page \/ from + 11 <= at \/ at + 11 <= from
    BY <2>2, <2>3, <2>5
  <2>7. from + 11 \in Nat /\ from <= from /\ from + 11 <= from + 11
    OBVIOUS
  <2>8. Kept(pg, new, q, from, from + 11)
    BY <1>3, <2>6, <2>7, PutKeeps
  <2>9. Has(pg, q, from, 11, f)
    BY <1>6 DEF HasEntry
  <2>10. Has(new, q, from, 11, f)
    BY <1>3, <2>7, <2>8, <2>9, KeptHas
  <2> QED BY <2>10 DEF HasEntry
<1>7. ASSUME NEW q \in PageIds, NEW from \in Nat, NEW to \in Nat, q \notin ToSet(m.index)
      PROVE  Kept(pg, new, q, from, to)
  <2>1. q # page
    BY <1>3, <1>7
  <2> QED BY <1>3, <2>1, PutKeeps
<1> QED
  BY <1>4, <1>5, <1>6, <1>7 DEF EntryWritten

\* A handle that is open is given an entry.
LEMMA MidEntry ==
  ASSUME NEW C, NEW m, NEW pg, NEW O, NEW E, NEW V, NEW B, NEW M, NEW F,
         Mid(C, m, pg, O, E, V, B, M, F), NEW id \in DOMAIN O, NEW e, NEW new,
         new = Put(pg, m.index[(id \div handlesPerIndex) + 1], EntryAt(id), 11, e)
  PROVE  Mid(C, m, new, [O EXCEPT ![id] = {e}], E, V, B, M, F)
<1> DEFINE P == [O EXCEPT ![id] = {e}]
<1>0. /\ m \in Mems /\ IsPages(pg) /\ Masters(m.index, pg, M) /\ Handled(m, pg, O, B, F)
      /\ Len(m.index) = IndexPages(m) /\ Injected(m.index) /\ m.handleCount \in Nat
  BY DEF Mid, Handled, Masters, Listed, Mems
<1>1. /\ ToSet(M) \subseteq PageIds /\ ToSet(m.index) \subseteq PageIds
      /\ \A b \in m.free \cup UsedBy(B) :
           b \in Extents /\ b.page \in PageIds /\ b.page \notin ToSet(m.index)
      /\ ToSet(M) \cap ToSet(m.index) = {}
  <2>1. ToSet(M) \cap ToSet(m.index) = {}
    BY DEF Mid, Roles
  <2> QED BY <2>1, MidPages
<1>2. id \in 0..(m.handleCount - 1) /\ id \notin DOMAIN B /\ id \notin ToSet(F)
  BY <1>0 DEF Handled
<1>3. /\ IsPages(new) /\ HasEntry(m, new, id, e)
      /\ \A other \in 0..(m.handleCount - 1) : other # id =>
           \A f : HasEntry(m, pg, other, f) => HasEntry(m, new, other, f)
      /\ \A q \in PageIds, from, to \in Nat : q \notin ToSet(m.index) => Kept(pg, new, q, from, to)
  <2>1. EntryWritten(m, pg, new, id, e)
    BY <1>0, <1>1, <1>2, EntryPut
  <2> QED BY <2>1 DEF EntryWritten
<1>4. Masters(m.index, new, M)
  <2>1. \A p \in ToSet(M), to \in Nat : Kept(pg, new, p, 0, to)
    BY <1>1, <1>3
  <2> QED BY <1>0, <2>1, MastersKept
<1>5. DOMAIN P = DOMAIN O /\ P[id] = {e} /\ \A i \in DOMAIN O : i # id => P[i] = O[i]
  OBVIOUS
<1> HIDE DEF P
<1>6. Handled(m, new, P, B, F)
  <2>1. ASSUME NEW i \in DOMAIN B PROVE HasEntry(m, new, i, EntryOf(B[i]))
    <3>1. i \in 0..(m.handleCount - 1) /\ i # id /\ HasEntry(m, pg, i, EntryOf(B[i]))
      BY <1>0, <1>2 DEF Handled
    <3> QED BY <1>3, <3>1
  <2>2. ASSUME NEW i \in DOMAIN P, NEW f \in P[i] PROVE HasEntry(m, new, i, f)
    <3>1. CASE i = id
      BY <1>3, <1>5, <2>2, <3>1
    <3>2. CASE i # id
      <4>1. i \in 0..(m.handleCount - 1) /\ HasEntry(m, pg, i, f)
        BY <1>0, <1>5, <2>2, <3>2 DEF Handled
      <4> QED BY <1>3, <3>2, <4>1
    <3> QED BY <3>1, <3>2
  <2>3. ASSUME NEW i \in 1..Len(F)
        PROVE  \E f : f.status = 0 /\ f.size = Under(F, i) /\ HasEntry(m, new, F[i], f)
    <3>1. PICK f : f.status = 0 /\ f.size = Under(F, i) /\ HasEntry(m, pg, F[i], f)
      BY <1>0 DEF Handled
    <3>2. F[i] \in ToSet(F)
      BY <1>0 DEF Handled, ToSet
    <3>3. F[i] \in 0..(m.handleCount - 1) /\ F[i] # id
      BY <1>0, <1>2, <3>2 DEF Handled
    <3> QED BY <1>3, <3>1, <3>3
  <2> QED BY <1>0, <1>5, <2>1, <2>2, <2>3 DEF Handled
<1>7. ASSUME NEW y \in m.free \cup UsedBy(B)
      PROVE  y \in Extents /\ Kept(pg, new, y.page, y.offset, End(y))
  <2>1. y \in Extents /\ y.offset \in Nat /\ End(y) \in Nat
    BY <1>1 DEF Extents, End
  <2> QED BY <1>1, <1>3, <2>1
<1>8. ASSUME NEW b \in m.free PROVE Tagged(new, b, b.size)
  <2>1. Tagged(pg, b, b.size)
    BY DEF Mid
  <2> QED BY <1>7, <2>1, TaggedKept
<1>9. ASSUME NEW i \in DOMAIN B PROVE IsBlob(B[i]) /\ Placed(new, B[i])
  <2>1. IsBlob(B[i]) /\ Placed(pg, B[i])
    BY DEF Mid
  <2>2. \A y \in ExtentsOf(B[i]) : y \in UsedBy(B)
    BY DEF UsedBy
  <2>3. \A y \in ExtentsOf(B[i]) : Kept(pg, new, y.page, y.offset, End(y))
    BY <1>7, <2>2
  <2> QED BY <2>1, <2>3, PlacedKept
<1>10. Mid(C, m, new, P, E, V, B, M, F)
  BY <1>3, <1>4, <1>6, <1>8, <1>9 DEF Mid
<1> QED
  BY <1>10 DEF P

\* The index pages that the handles need, with one handle more.
LEMMA IndexGrows ==
  ASSUME NEW n \in Nat, NEW k \in Nat \ {0}
  PROVE  /\ (n + k - 1) \div k \in Nat /\ ((n + 1) + k - 1) \div k \in Nat
         /\ n % k # 0 => ((n + 1) + k - 1) \div k = (n + k - 1) \div k
         /\ n % k = 0 => ((n + 1) + k - 1) \div k = (n + k - 1) \div k + 1
<1> PICK q \in Nat, r \in 0..(k - 1) : q = n \div k /\ r = n % k /\ n = k * q + r
  BY ONLY n \in Nat, k \in Nat \ {0}, DivMod
<1> PICK kq \in Nat : kq = k * q
  OBVIOUS
<1>1. k * (q + 1) = kq + k /\ q + 1 \in Nat
  OBVIOUS
<1>2. (n + 1) + k - 1 = k * (q + 1) + r /\ (n + 1) + k - 1 \in Nat
  BY <1>1
<1>3. ((n + 1) + k - 1) \div k = q + 1
  BY ONLY <1>1, <1>2, DivUnique, k \in Nat \ {0}, r \in 0..(k - 1)
<1>4. CASE r = 0
  <2>1. n + k - 1 = k * q + (k - 1) /\ k - 1 \in 0..(k - 1) /\ n + k - 1 \in Nat
    BY <1>4
  <2>2. (n + k - 1) \div k = q
    BY ONLY <2>1, DivUnique, k \in Nat \ {0}, q \in Nat
  <2> QED BY <1>3, <1>4, <2>2
<1>5. CASE r # 0
  <2>1. n + k - 1 = k * (q + 1) + (r - 1) /\ r - 1 \in 0..(k - 1) /\ n + k - 1 \in Nat
    BY <1>1, <1>5
  <2>2. (n + k - 1) \div k = q + 1
    BY ONLY <1>1, <2>1, DivUnique, k \in Nat \ {0}
  <2> QED BY <1>3, <1>5, <2>2
<1> QED
  BY <1>4, <1>5

\* The master pages that the index pages need, with one index page more.
LEMMA MastersGrow ==
  ASSUME NEW n \in Nat
  PROVE  LET k == indexesPerMasterIndex IN
         /\ MastersFor(n + 1) = (n \div k) + 1
         /\ n % k = 0 /\ n \div k # 0 => MastersFor(n) = n \div k
         /\ n % k # 0 \/ n \div k = 0 => MastersFor(n) = (n \div k) + 1
         /\ n \div k \in Nat /\ n % k \in 0..(k - 1)
         /\ Row(n + 1) = (n \div k) + 1 /\ Place(n + 1) = (n % k) * 4
<1> PICK k \in Nat \ {0} : k = indexesPerMasterIndex
  BY SizesAssumption
<1> PICK q \in Nat, r \in 0..(k - 1) : q = n \div k /\ r = n % k /\ n = k * q + r
  BY ONLY n \in Nat, k \in Nat \ {0}, DivMod
<1> PICK kq \in Nat : kq = k * q
  OBVIOUS
<1>1. n + 1 # 0 /\ (n + 1) - 1 = n
  OBVIOUS
<1>2. MastersFor(n + 1) = q + 1 /\ Row(n + 1) = q + 1 /\ Place(n + 1) = r * 4
  BY <1>1 DEF MastersFor, Row, Place
<1>3. CASE n = 0
  <2>1. 0 = k * 0 + 0 /\ 0 \in 0..(k - 1) /\ 0 \in Nat
    OBVIOUS
  <2>2. 0 \div k = 0 /\ 0 % k = 0
    BY ONLY <2>1, DivUnique, k \in Nat \ {0}
  <2>3. MastersFor(0) = 1
    BY DEF MastersFor
  <2> QED BY <1>2, <1>3, <2>2, <2>3
<1>4. CASE n # 0 /\ r # 0
  <2>1. n - 1 = k * q + (r - 1) /\ r - 1 \in 0..(k - 1) /\ n - 1 \in Nat
    BY <1>4
  <2>2. (n - 1) \div k = q
    BY ONLY <2>1, DivUnique, k \in Nat \ {0}, q \in Nat
  <2>3. MastersFor(n) = q + 1
    BY <1>4, <2>2 DEF MastersFor
  <2> QED BY <1>2, <1>4, <2>3
<1>5. CASE n # 0 /\ r = 0
  <2>1. q # 0
    BY <1>5
  <2>2. q - 1 \in Nat /\ k * (q - 1) = kq - k
    BY <2>1
  <2>3. n - 1 = k * (q - 1) + (k - 1) /\ k - 1 \in 0..(k - 1) /\ n - 1 \in Nat
    BY <1>5, <2>2
  <2>4. (n - 1) \div k = q - 1
    BY ONLY <2>2, <2>3, DivUnique, k \in Nat \ {0}
  <2>5. MastersFor(n) = q
    BY <1>5, <2>2, <2>4 DEF MastersFor
  <2> QED BY <1>2, <1>5, <2>1, <2>5
<1> QED
  BY <1>3, <1>4, <1>5

\* A master page is linked to the last one.
LEMMA MasterAdded ==
  ASSUME NEW index, NEW pg, NEW M, Listed(index, pg, M), IsPages(pg), ToSet(M) \subseteq PageIds,
         NEW q \in Nat, q \notin ToSet(M), NEW new,
         new = Cleared(Put(pg, M[Len(M)], MasterLink, 4, q), q)
  PROVE  Listed(index, new, Append(M, q)) /\ IsPages(new)
<1> PICK put : put = Put(pg, M[Len(M)], MasterLink, 4, q)
  OBVIOUS
<1> PICK more : more = Append(M, q)
  OBVIOUS
<1>1. /\ M \in Seq(Nat) /\ Injected(M) /\ index \in Seq(Nat) /\ MastersFor(Len(index)) <= Len(M)
      /\ MastersFor(Len(index)) \in Nat \ {0} /\ Len(index) \in Nat
  BY MastersNat DEF Listed
<1> PICK n \in Nat \ {0} : n = Len(M)
  BY <1>1
<1>2. \A i \in 1..n : M[i] \in ToSet(M) /\ M[i] \in PageIds
  <2>1. DOMAIN M = 1..n
    BY <1>1
  <2> QED BY <2>1 DEF ToSet
<1>3. /\ more \in Seq(Nat) /\ Len(more) = n + 1 /\ Injected(more) /\ more[n + 1] = q
      /\ \A i \in 1..n : more[i] = M[i]
  <2>1. \A i \in DOMAIN M : M[i] # q
    BY <1>1, <1>2
  <2>2. /\ Append(M, q) \in Seq(Nat) /\ Len(Append(M, q)) = Len(M) + 1
        /\ Injected(Append(M, q)) /\ Append(M, q)[Len(M) + 1] = q
        /\ \A i \in 1..Len(M) : Append(M, q)[i] = M[i]
    BY ONLY q \in Nat, <1>1, <2>1, Appended
  <2> QED BY <2>2
<1>4. MasterLink \in Nat /\ 4 \in Nat \ {0} /\ MasterLink + 4 \in Nat /\ n \in 1..n
  BY SizesAssumption DEF MasterLink
<1> PICK last \in PageIds : last = M[n]
  BY <1>2, <1>4
<1>5. IsPages(new) /\ Has(new, last, MasterLink, 4, q)
  <2>1. IsPages(put) /\ Has(put, last, MasterLink, 4, q)
    BY <1>4, PutPages, PutHas
  <2>2. last # q
    BY <1>2, <1>4
  <2>3. IsPages(new) /\ Kept(put, new, last, MasterLink, MasterLink + 4)
    BY <2>1, <2>2, ClearedPages, ClearedKeeps
  <2>4. MasterLink <= MasterLink /\ MasterLink + 4 <= MasterLink + 4
    BY <1>4
  <2> QED BY <1>4, <2>1, <2>3, <2>4, KeptHas
<1>11. ASSUME NEW p \in PageIds, p # q, NEW from \in Nat, NEW to \in Nat,
              p # last \/ to <= MasterLink
       PROVE  Kept(pg, new, p, from, to)
  <2>1. IsPages(put) /\ Kept(pg, put, p, from, to)
    BY <1>4, <1>11, PutPages, PutKeeps
  <2>2. Kept(put, new, p, from, to)
    BY <1>11, <2>1, ClearedKeeps
  <2> QED BY <2>1, <2>2, KeptTwice
<1>6. ASSUME NEW i \in 1..n
      PROVE  Has(new, more[i], MasterLink, 4, more[i + 1])
  <2>1. CASE i = n
    <3>1. more[i] = last /\ more[i + 1] = q
      BY <1>3, <1>4, <2>1
    <3> QED BY <1>5, <3>1
  <2>2. CASE i # n
    <3>1. i \in 1..(n - 1) /\ i + 1 \in 1..n /\ more[i] = M[i] /\ more[i + 1] = M[i + 1] /\ M[i] \in PageIds
      BY <1>2, <1>3, <2>2
    <3>2. Has(pg, M[i], MasterLink, 4, M[i + 1])
      BY <3>1 DEF Listed
    <3>3. M[i] # last
      <4>1. i \in DOMAIN M /\ n \in DOMAIN M
        BY <1>1, <1>4
      <4> QED BY <1>1, <2>2, <4>1 DEF Injected
    <3>4. Kept(pg, new, M[i], MasterLink, MasterLink + 4)
      BY <1>2, <1>4, <1>11, <3>1, <3>3
    <3>5. MasterLink <= MasterLink /\ MasterLink + 4 <= MasterLink + 4
      BY <1>4
    <3>6. Has(new, M[i], MasterLink, 4, M[i + 1])
      BY <1>4, <3>2, <3>4, <3>5, KeptHas
    <3> QED BY <3>1, <3>6
  <2> QED BY <2>1, <2>2
<1>7. ASSUME NEW i \in 1..Len(index)
      PROVE  Has(new, more[Row(i)], Place(i), 4, index[i])
  <2>1. Row(i) \in 1..MastersFor(Len(index)) /\ Place(i) \in Nat /\ Place(i) + 4 <= MasterLink
    BY <1>1, RowSpot
  <2>2. Row(i) \in 1..n /\ Place(i) + 4 \in Nat
    BY <1>1, <2>1
  <2>3. Has(pg, M[Row(i)], Place(i), 4, index[i]) /\ M[Row(i)] \in PageIds
    BY <1>2, <2>2 DEF Listed
  <2>4. Kept(pg, new, M[Row(i)], Place(i), Place(i) + 4)
    BY <1>2, <1>4, <1>11, <2>1, <2>2, <2>3
  <2>5. Place(i) <= Place(i) /\ Place(i) + 4 <= Place(i) + 4
    BY <2>1
  <2>6. Has(new, M[Row(i)], Place(i), 4, index[i])
    BY <1>4, <2>1, <2>2, <2>3, <2>4, <2>5, KeptHas
  <2>7. more[Row(i)] = M[Row(i)]
    BY <1>3, <2>2
  <2> QED BY <2>6, <2>7
<1>8. more[1] = 1
  <2>1. 1 \in 1..n
    OBVIOUS
  <2> QED BY <1>3, <2>1 DEF Listed
<1>9. MastersFor(Len(index)) <= Len(more) /\ Len(more) - 1 = n
  BY <1>1, <1>3
<1>10. Listed(index, new, more)
  BY <1>1, <1>3, <1>6, <1>7, <1>8, <1>9 DEF Listed
<1> QED
  BY <1>5, <1>10

\* The places of two index pages on the master pages are apart.
LEMMA PlacesApart ==
  ASSUME NEW i \in Nat \ {0}, NEW j \in Nat \ {0}, i # j
  PROVE  Row(i) # Row(j) \/ Place(i) + 4 <= Place(j) \/ Place(j) + 4 <= Place(i)
<1> PICK k \in Nat \ {0} : k = indexesPerMasterIndex
  BY SizesAssumption
<1>1. i - 1 \in Nat /\ j - 1 \in Nat
  OBVIOUS
<1> PICK a \in Nat, r \in 0..(k - 1) : a = (i - 1) \div k /\ r = (i - 1) % k /\ i - 1 = k * a + r
  BY ONLY <1>1, k \in Nat \ {0}, DivMod
<1> PICK b \in Nat, t \in 0..(k - 1) : b = (j - 1) \div k /\ t = (j - 1) % k /\ j - 1 = k * b + t
  BY ONLY <1>1, k \in Nat \ {0}, DivMod
<1>2. Row(i) = a + 1 /\ Row(j) = b + 1 /\ Place(i) = r * 4 /\ Place(j) = t * 4
  BY DEF Row, Place
<1>3. a = b => r # t
  OBVIOUS
<1> QED
  BY ONLY <1>2, <1>3, a \in Nat, b \in Nat, r \in 0..(k - 1), t \in 0..(k - 1), k \in Nat

\* An index page is entered on the last master page.
LEMMA IndexAdded ==
  ASSUME NEW index, NEW pg, NEW M, Listed(index, pg, M), IsPages(pg), ToSet(M) \subseteq PageIds,
         Len(M) = MastersFor(Len(index) + 1),
         NEW p \in Nat, p \notin ToSet(index), NEW new,
         new = Put(pg, M[Row(Len(index) + 1)], Place(Len(index) + 1), 4, p)
  PROVE  Masters(Append(index, p), new, M) /\ IsPages(new)
<1> PICK more : more = Append(index, p)
  OBVIOUS
<1>1. M \in Seq(Nat) /\ Injected(M) /\ index \in Seq(Nat) /\ Injected(index)
  BY DEF Listed
<1> PICK n \in Nat : n = Len(index)
  BY <1>1
<1>2. /\ more \in Seq(Nat) /\ Len(more) = n + 1 /\ Injected(more) /\ more[n + 1] = p
      /\ \A i \in 1..n : more[i] = index[i]
  <2>1. \A i \in DOMAIN index : index[i] # p
    BY <1>1 DEF ToSet
  <2>2. /\ Append(index, p) \in Seq(Nat) /\ Len(Append(index, p)) = Len(index) + 1
        /\ Injected(Append(index, p)) /\ Append(index, p)[Len(index) + 1] = p
        /\ \A i \in 1..Len(index) : Append(index, p)[i] = index[i]
    BY ONLY p \in Nat, <1>1, <2>1, Appended
  <2> QED BY <2>2
<1>3. MasterLink \in Nat /\ 4 \in Nat \ {0} /\ MasterLink + 4 \in Nat /\ n + 1 \in Nat /\ n + 1 \in 1..(n + 1)
  BY SizesAssumption DEF MasterLink
<1>4. ASSUME NEW i \in 1..(n + 1)
      PROVE  /\ Row(i) \in 1..Len(M) /\ Place(i) \in Nat /\ Place(i) + 4 <= MasterLink
             /\ M[Row(i)] \in PageIds
  <2>1. Row(i) \in 1..MastersFor(n + 1) /\ Place(i) \in Nat /\ Place(i) + 4 <= MasterLink
    BY <1>3, RowSpot
  <2>2. M[Row(i)] \in ToSet(M)
    BY <1>1, <2>1 DEF ToSet
  <2> QED BY <2>1, <2>2
<1> PICK page \in PageIds, at \in Nat : page = M[Row(n + 1)] /\ at = Place(n + 1) /\ at + 4 <= MasterLink
  BY <1>3, <1>4
<1>5. IsPages(new) /\ Has(new, page, at, 4, p)
  BY <1>3, PutPages, PutHas
<1>6. ASSUME NEW k \in 1..(Len(M) - 1)
      PROVE  Has(new, M[k], MasterLink, 4, M[k + 1])
  <2>1. Has(pg, M[k], MasterLink, 4, M[k + 1])
    BY DEF Listed
  <2>2. M[k] \in PageIds
    <3>1. k \in DOMAIN M
      BY <1>1
    <3> QED BY <3>1 DEF ToSet
  <2>3. Kept(pg, new, M[k], MasterLink, MasterLink + 4)
    BY <1>3, <2>2, PutKeeps
  <2>4. MasterLink <= MasterLink /\ MasterLink + 4 <= MasterLink + 4
    BY <1>3
  <2> QED BY <1>3, <2>1, <2>3, <2>4, KeptHas
<1>7. ASSUME NEW i \in 1..(n + 1)
      PROVE  Has(new, M[Row(i)], Place(i), 4, more[i])
  <2>1. CASE i = n + 1
    BY <1>2, <1>5, <2>1
  <2>2. CASE i \in 1..n
    <3>1. Has(pg, M[Row(i)], Place(i), 4, more[i])
      BY <1>2, <2>2 DEF Listed
    <3> PICK q \in PageIds, from \in Nat : q = M[Row(i)] /\ from = Place(i)
      BY <1>4
    <3>2. q # page \/ from + 4 <= at \/ at + 4 <= from
      <4>1. i \in Nat \ {0} /\ n + 1 \in Nat \ {0} /\ i # n + 1
        BY <2>2
      <4>2. Row(i) # Row(n + 1) \/ Place(i) + 4 <= Place(n + 1) \/ Place(n + 1) + 4 <= Place(i)
        BY ONLY <4>1, PlacesApart
      <4>3. Row(i) \in DOMAIN M /\ Row(n + 1) \in DOMAIN M
        <5>1. DOMAIN M = 1..Len(M)
          BY <1>1
        <5> QED BY <1>3, <1>4, <5>1
      <4>4. q = page => Row(i) = Row(n + 1)
        BY <1>1, <4>3 DEF Injected
      <4> QED BY <4>2, <4>4
    <3>3. from + 4 \in Nat /\ from <= from /\ from + 4 <= from + 4
      OBVIOUS
    <3>4. Kept(pg, new, q, from, from + 4)
      BY <1>3, <3>2, <3>3, PutKeeps
    <3>5. Has(new, q, from, 4, more[i])
      BY SMTT(30), <1>3, <3>1, <3>3, <3>4, KeptHas
    <3> QED BY <3>5
  <2>3. i = n + 1 \/ i \in 1..n
    OBVIOUS
  <2> QED BY ONLY <2>1, <2>2, <2>3, Zenon
<1>8. M[1] = 1 /\ MastersFor(n + 1) <= Len(M) /\ Len(M) = MastersFor(n + 1)
  BY <1>1 DEF Listed
<1>9. Masters(more, new, M)
  BY <1>1, <1>2, <1>6, <1>7, <1>8 DEF Masters, Listed
<1> QED
  BY <1>5, <1>9

\* No handle is open, or one is.
None == [i \in {} |-> {}]
Opened(id, entries) == [i \in {id} |-> entries]

\* One handle more than before, which is open, and perhaps more index pages.
LEMMA MidMore ==
  ASSUME NEW C, NEW m, NEW pg, NEW E, NEW V, NEW B, NEW M, NEW F, Mid(C, m, pg, None, E, V, B, M, F),
         NEW n \in Mems, n.handleCount = m.handleCount + 1, n.fhlStart = m.fhlStart, n.free = m.free,
         m.pageCount <= n.pageCount, n.pageCount <= MaxPages,
         NEW new, IsPages(new), NEW N, Masters(n.index, new, N),
         Roles(n, N, n.free \cup V \cup UsedBy(B) \cup E),
         Len(n.index) = IndexPages(n), \A i \in 1..Len(m.index) : n.index[i] = m.index[i],
         \A q \in PageIds, from, to \in Nat : q \notin ToSet(N) => Kept(pg, new, q, from, to)
  PROVE  Mid(C, n, new, Opened(m.handleCount, {}), E, V, B, N, F)
<1>1. /\ m \in Mems /\ m.handleCount \in Nat /\ m.index \in Seq(Nat) /\ Handled(m, pg, None, B, F)
      /\ Tiles(C, m.free \cup V, UsedBy(B) \cup E, m.pageCount)
  BY DEF Mid, Mems
<1>2. n.pageCount \in 2..MaxPages /\ n.pageCount \in Nat /\ m.pageCount \in Nat
  BY SizesAssumption DEF Mid, Mems
<1>3. Tiles(C, n.free \cup V, UsedBy(B) \cup E, n.pageCount)
  BY <1>1, <1>2, GrowTiles
<1>4. \A y \in m.free \cup UsedBy(B) : y \in Extents /\ y.page \in PageIds
  BY MidPages
<1>5. ASSUME NEW y \in m.free \cup UsedBy(B)
      PROVE  y \in Extents /\ Kept(pg, new, y.page, y.offset, End(y))
  <2>1. y \in Extents /\ y.page \in PageIds /\ y.offset \in Nat /\ End(y) \in Nat
    BY <1>4 DEF Extents, End
  <2>2. y.page \in PageSet(n.free \cup V \cup UsedBy(B) \cup E)
    BY DEF PageSet
  <2>3. y.page \notin ToSet(N)
    BY <2>2 DEF Roles
  <2> QED BY <2>1, <2>3
<1>6. ASSUME NEW b \in m.free PROVE Tagged(new, b, b.size)
  <2>1. Tagged(pg, b, b.size)
    BY DEF Mid
  <2> QED BY <1>5, <2>1, TaggedKept
<1>7. ASSUME NEW i \in DOMAIN B PROVE IsBlob(B[i]) /\ Placed(new, B[i])
  <2>1. IsBlob(B[i]) /\ Placed(pg, B[i])
    BY DEF Mid
  <2>2. \A y \in ExtentsOf(B[i]) : y \in UsedBy(B)
    BY DEF UsedBy
  <2>3. \A y \in ExtentsOf(B[i]) : Kept(pg, new, y.page, y.offset, End(y))
    BY <1>5, <2>2
  <2> QED BY <2>1, <2>3, PlacedKept
<1>8. ASSUME NEW id \in 0..(m.handleCount - 1), NEW e, HasEntry(m, pg, id, e)
      PROVE  HasEntry(n, new, id, e)
  <2> PICK row, at : row = (id \div handlesPerIndex) + 1 /\ at = EntryAt(id)
    OBVIOUS
  <2>1. row \in 1..Len(m.index) /\ at \in Nat
    BY <1>1, EntrySpot DEF IndexPages, Handled
  <2>2. m.index[row] = n.index[row]
    BY <2>1
  <2> PICK page : page = m.index[row]
    OBVIOUS
  <2>3. page \in ToSet(m.index)
    BY <1>1, <2>1 DEF ToSet
  <2>4. page \in PageIds
    BY <2>3, MidPages
  <2>5. page \in ToSet(n.index)
    <3>1. row \in 1..Len(n.index)
      <4>1. Len(n.index) \in Nat /\ Len(m.index) \in Nat /\ Len(m.index) <= Len(n.index)
        <5>1. handlesPerIndex \in Nat \ {0}
          BY SizesAssumption
        <5>2. Len(n.index) = ((m.handleCount + 1) + handlesPerIndex - 1) \div handlesPerIndex
              /\ Len(m.index) = (m.handleCount + handlesPerIndex - 1) \div handlesPerIndex
          BY <1>1 DEF Handled, IndexPages
        <5>3. /\ (m.handleCount + handlesPerIndex - 1) \div handlesPerIndex \in Nat
              /\ ((m.handleCount + 1) + handlesPerIndex - 1) \div handlesPerIndex \in Nat
              /\ (m.handleCount % handlesPerIndex) # 0 =>
                   ((m.handleCount + 1) + handlesPerIndex - 1) \div handlesPerIndex
                     = (m.handleCount + handlesPerIndex - 1) \div handlesPerIndex
              /\ (m.handleCount % handlesPerIndex) = 0 =>
                   ((m.handleCount + 1) + handlesPerIndex - 1) \div handlesPerIndex
                     = (m.handleCount + handlesPerIndex - 1) \div handlesPerIndex + 1
          BY ONLY <1>1, <5>1, IndexGrows
        <5> PICK a, b : a = Len(m.index) /\ b = Len(n.index)
          OBVIOUS
        <5>4. a \in Nat /\ b \in Nat /\ (b = a \/ b = a + 1)
          BY <5>2, <5>3
        <5> QED BY ONLY <5>4, a = Len(m.index), b = Len(n.index)
      <4> QED BY <2>1, <4>1
    <3>2. n.index \in Seq(Nat)
      BY DEF Mems
    <3>3. row \in DOMAIN n.index
      BY <3>1, <3>2
    <3> QED BY <2>2, <3>3 DEF ToSet
  <2>6. page \notin ToSet(N)
    BY <2>5 DEF Roles
  <2>7. Has(pg, page, at, 11, e) /\ 11 \in Nat /\ at + 11 \in Nat /\ at <= at /\ at + 11 <= at + 11
    BY <1>8, <2>1 DEF HasEntry
  <2>8. Kept(pg, new, page, at, at + 11)
    BY <2>1, <2>4, <2>6, <2>7
  <2>9. Has(new, page, at, 11, e)
    BY <2>1, <2>7, <2>8, KeptHas
  <2> QED BY <2>2, <2>9 DEF HasEntry
<1>9. Handled(n, new, Opened(m.handleCount, {}), B, F)
  <2>1. DOMAIN Opened(m.handleCount, {}) = {m.handleCount} /\ Opened(m.handleCount, {})[m.handleCount] = {}
    BY DEF Opened
  <2>2. DOMAIN None = {}
    BY DEF None
  <2>3. DOMAIN B \cup ToSet(F) = 0..(m.handleCount - 1) /\ DOMAIN B \cap ToSet(F) = {}
    BY <1>1, <2>2 DEF Handled
  <2>4. 0..(n.handleCount - 1) = (0..(m.handleCount - 1)) \cup {m.handleCount}
        /\ m.handleCount \notin 0..(m.handleCount - 1)
    BY <1>1
  <2>5. DOMAIN B \cup ToSet(F) \cup {m.handleCount} = 0..(n.handleCount - 1)
        /\ m.handleCount \notin DOMAIN B /\ m.handleCount \notin ToSet(F)
    BY <2>3, <2>4
  <2>6. \A id \in DOMAIN B : HasEntry(n, new, id, EntryOf(B[id]))
    <3>1. \A id \in DOMAIN B : HasEntry(m, pg, id, EntryOf(B[id])) /\ id \in 0..(m.handleCount - 1)
      BY <1>1, <2>3 DEF Handled
    <3> QED BY <1>8, <3>1
  <2>7. ASSUME NEW i \in 1..Len(F)
        PROVE  \E e : e.status = 0 /\ e.size = Under(F, i) /\ HasEntry(n, new, F[i], e)
    <3>1. PICK e : e.status = 0 /\ e.size = Under(F, i) /\ HasEntry(m, pg, F[i], e)
      BY <1>1 DEF Handled
    <3>2. F[i] \in ToSet(F)
      BY <1>1 DEF Handled, ToSet
    <3> QED BY <1>8, <2>3, <3>1, <3>2
  <2>8. F \in Seq(Nat) /\ Injected(F) /\ n.fhlStart = Top(F)
    BY <1>1 DEF Handled
  <2> QED BY <2>1, <2>3, <2>5, <2>6, <2>7, <2>8 DEF Handled
<1>10. V \cap n.free = {} /\ E \cap UsedBy(B) = {} /\ Owned(B)
  BY DEF Mid
<1> QED
  BY <1>2, <1>3, <1>6, <1>7, <1>9, <1>10 DEF Mid

\* The handle freed last is opened again.
LEMMA MidPop ==
  ASSUME NEW C, NEW m, NEW pg, NEW E, NEW V, NEW B, NEW M, NEW F, Mid(C, m, pg, None, E, V, B, M, F),
         m.fhlStart # NULL32
  PROVE  \E e, G : /\ HasEntry(m, pg, m.fhlStart, e) /\ e.status = 0 /\ e.size \in Int
                   /\ m.fhlStart \in 0..(m.handleCount - 1) /\ m.fhlStart \notin DOMAIN B
                   /\ Mid(C, [m EXCEPT !.fhlStart = e.size], pg, Opened(m.fhlStart, {}), E, V, B, M, G)
<1>1. m \in Mems /\ Handled(m, pg, None, B, F)
  BY DEF Mid
<1>2. F \in Seq(Nat) /\ Injected(F) /\ m.fhlStart = Top(F) /\ F # <<>>
  BY <1>1 DEF Handled, Top
<1> PICK k \in Nat \ {0} : k = Len(F) /\ DOMAIN F = 1..k
  BY <1>2
<1>3. m.fhlStart = F[k] /\ F[k] \in ToSet(F) /\ k \in 1..k
  BY <1>2 DEF Top, ToSet
<1> PICK e : e.status = 0 /\ e.size = Under(F, k) /\ HasEntry(m, pg, F[k], e)
  BY <1>1, <1>3 DEF Handled
<1> PICK G : G = SubSeq(F, 1, k - 1)
  OBVIOUS
<1>4. G \in Seq(Nat) /\ Len(G) = k - 1 /\ DOMAIN G = 1..(k - 1) /\ \A i \in 1..(k - 1) : G[i] = F[i]
  BY <1>2
<1>5. ToSet(G) = ToSet(F) \ {F[k]}
  <2>1. ASSUME NEW x \in ToSet(G) PROVE x \in ToSet(F) /\ x # F[k]
    <3>1. PICK i \in 1..(k - 1) : x = F[i]
      BY <1>4 DEF ToSet
    <3>2. i \in 1..k /\ i # k
      OBVIOUS
    <3> QED BY <1>2, <1>3, <3>1, <3>2 DEF Injected, ToSet
  <2>2. ASSUME NEW x \in ToSet(F), x # F[k] PROVE x \in ToSet(G)
    <3>1. PICK i \in 1..k : x = F[i]
      BY DEF ToSet
    <3>2. i \in 1..(k - 1)
      BY <2>2, <3>1
    <3> QED BY <1>4, <3>1, <3>2 DEF ToSet
  <2> QED BY <2>1, <2>2
<1>6. Injected(G)
  BY <1>2, <1>4 DEF Injected
<1>7. e.size = Top(G) /\ e.size \in Int
  <2>1. CASE k = 1
    <3>1. G = <<>>
      BY <1>4, <2>1
    <3> QED BY <2>1, <3>1 DEF Top, Under, NULL32
  <2>2. CASE k # 1
    <3>1. G # <<>> /\ k - 1 \in 1..(k - 1) /\ k - 1 \in DOMAIN F
      <4>1. k - 1 \in 1..(k - 1) /\ k - 1 \in 1..k /\ k - 1 # 0
        BY <2>2
      <4>2. Len(<<>>) = 0
        OBVIOUS
      <4> QED BY <1>4, <4>1, <4>2
    <3>2. Top(G) = F[k - 1] /\ F[k - 1] \in Nat
      BY <1>2, <1>4, <3>1 DEF Top
    <3> QED BY <2>2, <3>2 DEF Under
  <2> QED BY <2>1, <2>2
<1>8. \A i \in 1..Len(G) : Under(G, i) = Under(F, i)
  BY <1>4 DEF Under
<1> PICK n : n = [m EXCEPT !.fhlStart = e.size]
  OBVIOUS
<1>9. /\ n \in Mems /\ n.fhlStart = e.size /\ n.handleCount = m.handleCount /\ n.pageCount = m.pageCount
      /\ n.free = m.free /\ n.index = m.index
  BY <1>1, <1>7 DEF Mems
<1>10. Handled(n, pg, Opened(F[k], {}), B, G)
  <2>1. DOMAIN Opened(F[k], {}) = {F[k]} /\ Opened(F[k], {})[F[k]] = {} /\ DOMAIN None = {}
    BY DEF Opened, None
  <2>2. /\ DOMAIN B \cup ToSet(G) \cup {F[k]} = 0..(n.handleCount - 1) /\ DOMAIN B \cap ToSet(G) = {}
        /\ F[k] \notin DOMAIN B /\ F[k] \notin ToSet(G)
    BY <1>1, <1>3, <1>5, <1>9, <2>1 DEF Handled
  <2>3. Len(n.index) = IndexPages(n)
    BY <1>1, <1>9 DEF Handled, IndexPages
  <2>4. \A id, f : HasEntry(m, pg, id, f) => HasEntry(n, pg, id, f)
    BY <1>9 DEF HasEntry
  <2>5. \A id \in DOMAIN B : HasEntry(n, pg, id, EntryOf(B[id]))
    BY <1>1, <2>4 DEF Handled
  <2>6. ASSUME NEW i \in 1..Len(G)
        PROVE  \E f : f.status = 0 /\ f.size = Under(G, i) /\ HasEntry(n, pg, G[i], f)
    <3>1. i \in 1..Len(F) /\ G[i] = F[i] /\ Under(G, i) = Under(F, i)
      BY <1>4, <1>8
    <3>2. PICK f : f.status = 0 /\ f.size = Under(F, i) /\ HasEntry(m, pg, F[i], f)
      BY <1>1, <3>1 DEF Handled
    <3> QED BY <2>4, <3>1, <3>2
  <2> QED BY SMTT(30), <1>4, <1>6, <1>7, <1>9, <2>1, <2>2, <2>3, <2>5, <2>6 DEF Handled
<1>11. Mid(C, n, pg, Opened(F[k], {}), E, V, B, M, G)
  BY <1>9, <1>10 DEF Mid, Roles
<1>12. F[k] \in 0..(m.handleCount - 1) /\ F[k] \notin DOMAIN B
  BY <1>1, <1>3 DEF Handled
<1> QED
  BY <1>3, <1>7, <1>11, <1>12

\* An index page is entered on the last master page, or on one that is new.
PushedHere(s, p, n, k, t) ==
  /\ t.mem = [s.mem EXCEPT !.index = Append(@, p)]
  /\ t.pages = Put(s.pages, Master(s.pages, n), k * 4, 4, p)
PushedOn(s, p, n, k, mid, t) ==
  /\ t.mem = [s.mem EXCEPT !.pageCount = @ + 1, !.index = Append(@, p)]
  /\ mid = Cleared(Put(s.pages, Master(s.pages, n - 1), MasterLink, 4, s.mem.pageCount),
                   s.mem.pageCount)
  /\ t.pages = Put(mid, Master(mid, n), k * 4, 4, p)
Pushed(s, p, n, k, t) ==
  /\ IsTyped(t) /\ t.status = s.status
  /\ k # 0 \/ n = 0 => PushedHere(s, p, n, k, t)
  /\ k = 0 /\ n # 0 => \E mid : PushedOn(s, p, n, k, mid, t)
LEMMA PushFields ==
  ASSUME NEW s, IsTyped(s), NEW p \in Nat,
         NEW n, n = Len(s.mem.index) \div indexesPerMasterIndex,
         NEW k, k = Len(s.mem.index) % indexesPerMasterIndex,
         Master(s.pages, IF k = 0 /\ n # 0 THEN n - 1 ELSE n) \in PageIds,
         NEW t, t = pushBackIndex(s, p)
  PROVE  Pushed(s, p, n, k, t)
<1>1. s = [mem |-> s.mem, pages |-> s.pages, orphan |-> s.orphan, status |-> s.status] /\ s.mem \in Mems
      /\ s.orphan \in BOOLEAN /\ s.status \in Statuses
  BY DEF IsTyped
<1> PICK m, q, o, u : m = s.mem /\ q = s.pages /\ o = s.orphan /\ u = s.status
  OBVIOUS
<1>2. m \in Mems
  BY <1>1
<1>3. CASE k # 0 \/ n = 0
  <2> PICK i : i = Append(m.index, p)
    OBVIOUS
  <2> PICK new : new = Put(q, Master(q, n), k * 4, 4, p)
    OBVIOUS
  <2> PICK m1 : m1 = [m EXCEPT !.index = i]
    OBVIOUS
  <2>1. m1 \in Mems
    <3>1. i \in Seq(Nat)
      BY <1>2 DEF Mems
    <3> QED BY <1>2, <3>1 DEF Mems
  <2>2. pushBackIndex(s, p) = [s EXCEPT !.pages = new, !.mem = m1]
    BY <1>3, Zenon DEF pushBackIndex
  <2>3. pushBackIndex(s, p) = [mem |-> m1, pages |-> new, orphan |-> o, status |-> u]
    BY <1>1, <2>2
  <2>4. pushBackIndex(s, p).mem = m1 /\ pushBackIndex(s, p).pages = new /\ pushBackIndex(s, p).status = u
        /\ IsTyped(pushBackIndex(s, p))
    BY <1>1, <2>1, <2>3 DEF IsTyped
  <2>5. m1 = [m EXCEPT !.index = Append(@, p)]
    BY <1>1 DEF Mems
  <2>6. PushedHere(s, p, n, k, t)
    BY <1>1, <2>4, <2>5 DEF PushedHere
  <2> QED BY <1>1, <1>3, <2>4, <2>6 DEF Pushed
<1>4. CASE k = 0 /\ n # 0
  <2> PICK m1 : m1 = [m EXCEPT !.pageCount = @ + 1]
    OBVIOUS
  <2> PICK mid : mid = Cleared(Put(q, Master(q, n - 1), MasterLink, 4, m.pageCount), m.pageCount)
    OBVIOUS
  <2> PICK new : new = Put(mid, Master(mid, n), k * 4, 4, p)
    OBVIOUS
  <2>1. m1 \in Mems /\ m1.index = m.index
    BY SMTT(30), <1>2 DEF Mems
  <2> PICK g : g = NewPage(s)
    OBVIOUS
  <2>2. g = [mem |-> m1, pages |-> q, orphan |-> o, status |-> u]
    <3>1. g = [s EXCEPT !.mem = m1]
      BY Zenon DEF NewPage
    <3> QED BY <1>1, <3>1
  <2> PICK h : h = [g EXCEPT !.pages = mid]
    OBVIOUS
  <2>3. h = [mem |-> m1, pages |-> mid, orphan |-> o, status |-> u]
    BY <2>2
  <2>4. h = [NewPage(s) EXCEPT !.pages = Cleared(Put(@, Master(@, n - 1), MasterLink, 4, s.mem.pageCount),
                                                 s.mem.pageCount)]
    BY <2>2
  <2> PICK i : i = Append(h.mem.index, p)
    OBVIOUS
  <2> PICK m2 : m2 = [h.mem EXCEPT !.index = i]
    OBVIOUS
  <2>5. pushBackIndex(s, p) = [h EXCEPT !.pages = Put(@, Master(@, n), k * 4, 4, p), !.mem = m2]
    BY ZenonT(30), <1>4, <2>4, Zenon DEF pushBackIndex
  <2>6. pushBackIndex(s, p) = [mem |-> m2, pages |-> new, orphan |-> o, status |-> u]
    <3>1. h.pages = mid
      BY <2>3
    <3>2. pushBackIndex(s, p) = [h EXCEPT !.pages = new, !.mem = m2]
      BY <2>5, <3>1
    <3> QED BY ONLY <2>3, <3>2
  <2>7. h.mem = m1 /\ m1.index = m.index /\ i = Append(m.index, p) /\ i \in Seq(Nat)
    <3>1. h.mem = m1
      BY <2>3
    <3>2. i = Append(m.index, p)
      BY <2>1, <3>1
    <3>3. m.index \in Seq(Nat)
      BY <1>2 DEF Mems
    <3> QED BY ONLY p \in Nat, <2>1, <3>1, <3>2, <3>3
  <2>8. m2 \in Mems /\ m2 = [m EXCEPT !.pageCount = @ + 1, !.index = Append(@, p)]
    <3>1. m2 = [m EXCEPT !.pageCount = @ + 1, !.index = Append(@, p)]
      BY <1>2, <2>7 DEF Mems
    <3>2. m2 = [m1 EXCEPT !.index = i]
      BY <2>7
    <3>3. m2 \in Mems
      BY <2>1, <2>7, <3>2 DEF Mems
    <3> QED BY <3>1, <3>3
  <2>9. pushBackIndex(s, p).mem = m2 /\ pushBackIndex(s, p).pages = new /\ pushBackIndex(s, p).status = u
        /\ IsTyped(pushBackIndex(s, p))
    BY <1>1, <2>6, <2>8 DEF IsTyped
  <2>10. PushedOn(s, p, n, k, mid, t)
    BY <1>1, <2>8, <2>9 DEF PushedOn
  <2> QED BY <1>1, <1>4, <2>9, <2>10 DEF Pushed
<1> QED
  BY <1>3, <1>4

LEMMA AppendedSet ==
  ASSUME NEW chain \in Seq(Nat), NEW p \in Nat
  PROVE  ToSet(Append(chain, p)) = ToSet(chain) \cup {p}
<1> PICK more : more = Append(chain, p)
  OBVIOUS
<1> PICK n \in Nat : n = Len(chain) /\ DOMAIN chain = 1..n
  OBVIOUS
<1>1. more[n + 1] = p /\ (\A i \in 1..n : more[i] = chain[i]) /\ DOMAIN more = 1..(n + 1)
  OBVIOUS
<1>2. ASSUME NEW x \in ToSet(more) PROVE x \in ToSet(chain) \cup {p}
  <2>1. PICK i \in 1..(n + 1) : x = more[i]
    BY <1>1 DEF ToSet
  <2>2. i = n + 1 \/ i \in 1..n
    OBVIOUS
  <2> QED BY <1>1, <2>1, <2>2 DEF ToSet
<1>3. ASSUME NEW x \in ToSet(chain) \cup {p} PROVE x \in ToSet(more)
  <2>1. x = p \/ \E i \in 1..n : x = chain[i]
    BY DEF ToSet
  <2>2. n + 1 \in 1..(n + 1) /\ \A i \in 1..n : i \in 1..(n + 1)
    OBVIOUS
  <2> QED BY <1>1, <2>1, <2>2 DEF ToSet
<1> QED
  BY <1>2, <1>3

LEMMA RolesIndex ==
  ASSUME NEW m, NEW M, NEW all, Roles(m, M, all), m.pageCount \in Nat \ {0}, m.index \in Seq(Nat),
         NEW n, n.index = Append(m.index, m.pageCount), n.pageCount = m.pageCount + 1
  PROVE  Roles(n, M, all) /\ m.pageCount \notin ToSet(m.index)
<1> PICK p \in Nat \ {0} : p = m.pageCount
  OBVIOUS
<1>1. ToSet(n.index) = ToSet(m.index) \cup {p}
  BY AppendedSet
<1>2. 0..p = (0..(p - 1)) \cup {p} /\ p \notin 0..(p - 1) /\ n.pageCount - 1 = p
  OBVIOUS
<1>3. {0} \cup ToSet(M) \cup ToSet(m.index) \cup PageSet(all) = 0..(p - 1)
  BY DEF Roles
<1>4. p \notin {0} \cup ToSet(M) \cup ToSet(m.index) \cup PageSet(all)
  BY <1>2, <1>3
<1>5. {0} \cup ToSet(M) \cup ToSet(n.index) \cup PageSet(all) = 0..(n.pageCount - 1)
  BY <1>1, <1>2, <1>3
<1> QED
  BY <1>1, <1>4, <1>5 DEF Roles

LEMMA RolesMaster ==
  ASSUME NEW m, NEW M, NEW all, Roles(m, M, all), m.pageCount \in Nat \ {0}, M \in Seq(Nat),
         NEW n, n.index = m.index, n.pageCount = m.pageCount + 1
  PROVE  Roles(n, Append(M, m.pageCount), all) /\ m.pageCount \notin ToSet(M)
<1> PICK p \in Nat \ {0} : p = m.pageCount
  OBVIOUS
<1> PICK N : N = Append(M, p)
  OBVIOUS
<1>1. ToSet(N) = ToSet(M) \cup {p}
  BY AppendedSet
<1>2. 0..p = (0..(p - 1)) \cup {p} /\ p \notin 0..(p - 1) /\ n.pageCount - 1 = p
  OBVIOUS
<1>3. {0} \cup ToSet(M) \cup ToSet(m.index) \cup PageSet(all) = 0..(p - 1)
  BY DEF Roles
<1>4. p \notin {0} \cup ToSet(M) \cup ToSet(m.index) \cup PageSet(all)
  BY <1>2, <1>3
<1>5. {0} \cup ToSet(N) \cup ToSet(n.index) \cup PageSet(all) = 0..(n.pageCount - 1)
  BY <1>1, <1>2, <1>3
<1>6. Roles(n, N, all)
  BY <1>1, <1>4, <1>5 DEF Roles
<1> QED
  BY <1>4, <1>6

\* The three ways to a handle.
Popped(s, e, h) ==
  /\ IsTyped(h) /\ h.mem = [s.mem EXCEPT !.fhlStart = e.size]
  /\ h.pages = s.pages /\ h.status = s.status
LEMMA PopFields ==
  ASSUME NEW s, IsTyped(s), s.mem.fhlStart # NULL32, NEW e, e = Entry(s, s.mem.fhlStart),
         e.status = 0, e.size \in Int
  PROVE  Popped(s, e, AllocateHandle(s))
<1> PICK m, h : m = s.mem /\ h = AllocateHandle(s)
  OBVIOUS
<1> PICK q, o, u : q = s.pages /\ o = s.orphan /\ u = s.status
  OBVIOUS
<1>1. m \in Mems /\ o \in BOOLEAN /\ u \in Statuses
      /\ s = [mem |-> m, pages |-> q, orphan |-> o, status |-> u]
  BY DEF IsTyped
<1>2. m \in Mems
  BY DEF IsTyped
<1>3. Popped(s, e, h)
  <2> PICK n : n = [m EXCEPT !.fhlStart = e.size]
    OBVIOUS
  <2>1. n \in Mems
    BY <1>1 DEF Mems
  <2>2. h = UpdateHeader([s EXCEPT !.mem = n])
    BY Zenon DEF AllocateHandle
  <2>3. h = [mem |-> n, pages |-> q, orphan |-> TRUE, status |-> u]
    BY <1>1, <2>2 DEF UpdateHeader
  <2>4. h.mem = n /\ h.pages = q /\ h.status = u
    BY <2>3
  <2>5. IsTyped(h)
    BY ONLY <1>1, <2>1, <2>3, <2>4 DEF IsTyped
  <2> QED BY <2>4, <2>5 DEF Popped
<1> QED
  BY <1>3

Counted(s, h) ==
  /\ IsTyped(h) /\ h.mem = [s.mem EXCEPT !.handleCount = @ + 1]
  /\ h.pages = s.pages /\ h.status = s.status
LEMMA CountFields ==
  ASSUME NEW s, IsTyped(s), s.mem.fhlStart = NULL32, s.mem.handleCount % handlesPerIndex # 0
  PROVE  Counted(s, AllocateHandle(s))
<1> PICK m, h : m = s.mem /\ h = AllocateHandle(s)
  OBVIOUS
<1> PICK q, o, u : q = s.pages /\ o = s.orphan /\ u = s.status
  OBVIOUS
<1>1. m \in Mems /\ o \in BOOLEAN /\ u \in Statuses
      /\ s = [mem |-> m, pages |-> q, orphan |-> o, status |-> u]
  BY DEF IsTyped
<1>2. m \in Mems
  BY DEF IsTyped
<1>3. Counted(s, h)
  <2> PICK n : n = [m EXCEPT !.handleCount = @ + 1]
    OBVIOUS
  <2>1. n \in Mems
    BY SMTT(30), <1>1 DEF Mems
  <2> PICK g : g = [s EXCEPT !.mem = n]
    OBVIOUS
  <2>2. g = [mem |-> n, pages |-> q, orphan |-> o, status |-> u]
    BY <1>1
  <2>3. g.mem = n /\ g.pages = q /\ g.status = u /\ IsTyped(g)
    BY <1>1, <2>1, <2>2 DEF IsTyped
  <2>4. h = g
    BY Zenon DEF AllocateHandle
  <2> QED BY <2>3, <2>4 DEF Counted
<1> QED
  BY <1>3

CountedUp(s, g) ==
  /\ IsTyped(g) /\ g.mem = [s.mem EXCEPT !.handleCount = @ + 1, !.pageCount = @ + 1]
  /\ g.pages = s.pages /\ g.status = s.status
LEMMA CountUpFields ==
  ASSUME NEW s, IsTyped(s), s.mem.fhlStart = NULL32, s.mem.handleCount % handlesPerIndex = 0
  PROVE  \E g : CountedUp(s, g) /\ AllocateHandle(s) = pushBackIndex(g, s.mem.pageCount)
<1> PICK m, h : m = s.mem /\ h = AllocateHandle(s)
  OBVIOUS
<1> PICK q, o, u : q = s.pages /\ o = s.orphan /\ u = s.status
  OBVIOUS
<1>1. m \in Mems /\ o \in BOOLEAN /\ u \in Statuses
      /\ s = [mem |-> m, pages |-> q, orphan |-> o, status |-> u]
  BY DEF IsTyped
<1>2. m \in Mems
  BY DEF IsTyped
<1>3. \E f : CountedUp(s, f) /\ AllocateHandle(s) = pushBackIndex(f, s.mem.pageCount)
  <2> PICK n : n = [m EXCEPT !.handleCount = @ + 1]
    OBVIOUS
  <2>1. n \in Mems
    BY SMTT(30), <1>1 DEF Mems
  <2> PICK g : g = [s EXCEPT !.mem = n]
    OBVIOUS
  <2>2. g = [mem |-> n, pages |-> q, orphan |-> o, status |-> u]
    BY <1>1
  <2>3. g.mem = n /\ g.pages = q /\ g.status = u /\ IsTyped(g)
    BY <1>1, <2>1, <2>2 DEF IsTyped
  <2>4. h = pushBackIndex(NewPage(g), m.pageCount)
    BY Zenon DEF AllocateHandle
  <2> PICK n2 : n2 = [n EXCEPT !.pageCount = @ + 1]
    OBVIOUS
  <2>5. n2 = [m EXCEPT !.handleCount = @ + 1, !.pageCount = @ + 1]
    BY <1>2 DEF Mems
  <2>6. n2 \in Mems
    <3>1. /\ m = [handleCount |-> m.handleCount, pageCount |-> m.pageCount, fhlStart |-> m.fhlStart,
                  free |-> m.free, index |-> m.index]
          /\ m.handleCount + 1 \in Nat /\ m.pageCount + 1 \in Nat /\ m.fhlStart \in Int
          /\ m.free \in SUBSET Extents /\ m.index \in Seq(Nat)
      BY <1>2 DEF Mems
    <3>2. n2 = [handleCount |-> m.handleCount + 1, pageCount |-> m.pageCount + 1, fhlStart |-> m.fhlStart,
                free |-> m.free, index |-> m.index]
      BY ONLY <2>5, <3>1
    <3> QED BY ONLY <3>1, <3>2 DEF Mems
  <2> PICK f : f = NewPage(g)
    OBVIOUS
  <2> PICK n3 : n3 = [g.mem EXCEPT !.pageCount = @ + 1]
    OBVIOUS
  <2>7. f = [g EXCEPT !.mem = n3]
    BY Zenon DEF NewPage
  <2>8. n3 = n2
    BY <2>3
  <2>9. f = [mem |-> n2, pages |-> q, orphan |-> o, status |-> u]
    BY ONLY <2>2, <2>7, <2>8
  <2>10. f.mem = n2 /\ f.pages = q /\ f.status = u /\ IsTyped(f)
    BY <1>1, <2>6, <2>9 DEF IsTyped
  <2>11. CountedUp(s, f)
    BY <2>5, <2>10 DEF CountedUp
  <2> QED BY <2>4, <2>11
<1> QED
  BY <1>3

\* No handle more is needed than the index pages have room for.
LEMMA MidSameIndex ==
  ASSUME NEW C, NEW m, NEW pg, NEW E, NEW V, NEW B, NEW M, NEW F, Mid(C, m, pg, None, E, V, B, M, F),
         m.handleCount % handlesPerIndex # 0
  PROVE  Mid(C, [m EXCEPT !.handleCount = @ + 1], pg, Opened(m.handleCount, {}), E, V, B, M, F)
<1> PICK n : n = [m EXCEPT !.handleCount = @ + 1]
  OBVIOUS
<1>1. m \in Mems
  BY DEF Mid
<1>2. /\ n \in Mems /\ n.handleCount = m.handleCount + 1 /\ n.pageCount = m.pageCount
      /\ n.free = m.free /\ n.index = m.index /\ n.fhlStart = m.fhlStart
  BY <1>1 DEF Mems
<1>3. IsPages(pg) /\ Masters(n.index, pg, M)
  BY <1>2 DEF Mid
<1>4. Roles(n, M, n.free \cup V \cup UsedBy(B) \cup E)
  BY <1>2 DEF Mid, Roles
<1>5. Len(n.index) = IndexPages(n)
  <2>1. handlesPerIndex \in Nat \ {0} /\ m.handleCount \in Nat
    BY <1>1, SizesAssumption DEF Mems
  <2>2. ((m.handleCount + 1) + handlesPerIndex - 1) \div handlesPerIndex
          = (m.handleCount + handlesPerIndex - 1) \div handlesPerIndex
    BY <2>1, IndexGrows
  <2>3. Len(m.index) = IndexPages(m)
    BY DEF Mid, Handled
  <2> QED BY <1>2, <2>2, <2>3 DEF IndexPages
<1>6. \A q \in PageIds, from, to \in Nat : q \notin ToSet(M) => Kept(pg, pg, q, from, to)
  BY KeptSame
<1>7. m.pageCount <= n.pageCount /\ n.pageCount <= MaxPages
  BY <1>2, SizesAssumption DEF Mid
<1>8. \A i \in 1..Len(m.index) : n.index[i] = m.index[i]
  BY <1>2
<1>9. Mid(C, n, pg, Opened(m.handleCount, {}), E, V, B, M, F)
  BY <1>2, <1>3, <1>4, <1>5, <1>6, <1>7, <1>8, MidMore
<1> QED
  BY <1>9

\* They have no room left: a new one is entered on the last master page.
EnteredHere(m, pg, M, N, n, new) ==
  /\ N = M /\ n.pageCount = m.pageCount + 1 /\ Len(M) = MastersFor(Len(m.index) + 1)
  /\ new = Put(pg, M[Row(Len(m.index) + 1)], Place(Len(m.index) + 1), 4, m.pageCount)
EnteredOn(m, pg, M, N, n, mid, new) ==
  /\ N = Append(M, m.pageCount + 1) /\ n.pageCount = (m.pageCount + 1) + 1
  /\ Len(M) + 1 = MastersFor(Len(m.index) + 1)
  /\ mid = Cleared(Put(pg, M[Len(M)], MasterLink, 4, m.pageCount + 1), m.pageCount + 1)
  /\ new = Put(mid, N[Row(Len(m.index) + 1)], Place(Len(m.index) + 1), 4, m.pageCount)

LEMMA MidNewIndex ==
  ASSUME NEW C, NEW m, NEW pg, NEW E, NEW V, NEW B, NEW M, NEW F, Mid(C, m, pg, None, E, V, B, M, F),
         m.handleCount % handlesPerIndex = 0, NEW new, NEW N, NEW n \in Mems,
         n.handleCount = m.handleCount + 1, n.fhlStart = m.fhlStart, n.free = m.free,
         n.index = Append(m.index, m.pageCount), n.pageCount <= MaxPages,
         EnteredHere(m, pg, M, N, n, new) \/ \E mid : EnteredOn(m, pg, M, N, n, mid, new)
  PROVE  Mid(C, n, new, Opened(m.handleCount, {}), E, V, B, N, F)
<1> PICK all : all = m.free \cup V \cup UsedBy(B) \cup E
  OBVIOUS
<1> PICK p : p = m.pageCount
  OBVIOUS
<1>1. /\ m \in Mems /\ IsPages(pg) /\ Listed(m.index, pg, M) /\ Roles(m, M, all) /\ Len(m.index) = IndexPages(m)
      /\ m.index \in Seq(Nat) /\ M \in Seq(Nat) /\ Injected(M) /\ Injected(m.index)
  BY DEF Mid, Masters, Listed, Handled
<1>2. p \in Nat \ {0} /\ p + 1 \in Nat \ {0} /\ p \in PageIds /\ p + 1 \in PageIds
  BY SizesAssumption DEF Mid, PageIds
<1> PICK L \in Nat : L = Len(m.index)
  BY <1>1
<1>3. ToSet(M) \subseteq PageIds /\ ToSet(m.index) \subseteq PageIds
  BY MidPages
<1> PICK k : k = [m EXCEPT !.index = Append(@, p), !.pageCount = @ + 1]
  OBVIOUS
<1>4. k.index = Append(m.index, p) /\ k.pageCount = p + 1
  BY <1>1 DEF Mems
<1>5. Roles(k, M, all) /\ p \notin ToSet(m.index)
  BY <1>1, <1>2, <1>4, RolesIndex
<1>6. MasterLink \in Nat /\ 4 \in Nat /\ Row(L + 1) \in 1..MastersFor(L + 1) /\ Place(L + 1) \in Nat
  <2>1. L + 1 \in Nat /\ L + 1 \in 1..(L + 1)
    OBVIOUS
  <2> QED BY <2>1, RowSpot, SizesAssumption DEF MasterLink
<1>7. /\ Masters(n.index, new, N) /\ IsPages(new) /\ Roles(n, N, all)
      /\ \A q \in PageIds, from, to \in Nat : q \notin ToSet(N) => Kept(pg, new, q, from, to)
  <2>1. CASE /\ N = M /\ n.pageCount = p + 1 /\ Len(M) = MastersFor(L + 1)
             /\ new = Put(pg, M[Row(L + 1)], Place(L + 1), 4, p)
    <3>1. Masters(Append(m.index, p), new, M) /\ IsPages(new)
      BY <1>1, <1>2, <1>3, <1>5, <2>1, IndexAdded
    <3>2. Roles(n, M, all)
      BY <1>4, <1>5, <2>1 DEF Roles
    <3>3. M[Row(L + 1)] \in ToSet(M)
      BY <1>1, <1>6, <2>1 DEF ToSet
    <3>4. ASSUME NEW q \in PageIds, NEW from \in Nat, NEW to \in Nat, q \notin ToSet(M)
          PROVE  Kept(pg, new, q, from, to)
      <4>1. q # M[Row(L + 1)] /\ M[Row(L + 1)] \in PageIds
        BY <1>3, <3>3, <3>4
      <4> QED BY <1>1, <1>6, <2>1, <4>1, PutKeeps
    <3> QED BY <2>1, <3>1, <3>2, <3>4
  <2>2. CASE /\ N = Append(M, p + 1) /\ n.pageCount = (p + 1) + 1 /\ Len(M) + 1 = MastersFor(L + 1)
             /\ \E mid : /\ mid = Cleared(Put(pg, M[Len(M)], MasterLink, 4, p + 1), p + 1)
                         /\ new = Put(mid, N[Row(L + 1)], Place(L + 1), 4, p)
    <3> PICK mid : /\ mid = Cleared(Put(pg, M[Len(M)], MasterLink, 4, p + 1), p + 1)
                   /\ new = Put(mid, N[Row(L + 1)], Place(L + 1), 4, p)
      BY <2>2
    <3>1. Roles(n, N, all) /\ p + 1 \notin ToSet(M)
      <4>1. Roles(n, Append(M, k.pageCount), all) /\ k.pageCount \notin ToSet(M)
        <5>1. k.pageCount \in Nat \ {0} /\ n.index = k.index /\ n.pageCount = k.pageCount + 1
          BY <1>2, <1>4, <2>2
        <5> QED BY ONLY <1>1, <1>5, <5>1, RolesMaster
      <4> QED BY <1>4, <2>2, <4>1
    <3>2. Listed(m.index, mid, N) /\ IsPages(mid)
      BY <1>1, <1>2, <1>3, <2>2, <3>1, MasterAdded
    <3>3. ToSet(N) = ToSet(M) \cup {p + 1} /\ ToSet(N) \subseteq PageIds
      BY <1>1, <1>2, <1>3, <2>2, AppendedSet
    <3>4. N \in Seq(Nat) /\ Len(N) = Len(M) + 1
      BY <1>1, <1>2, <2>2
    <3>5. Masters(Append(m.index, p), new, N) /\ IsPages(new)
      <4>1. /\ Len(N) = MastersFor(Len(m.index) + 1)
            /\ new = Put(mid, N[Row(Len(m.index) + 1)], Place(Len(m.index) + 1), 4, p)
        BY <2>2, <3>4
      <4>2. ToSet(N) \subseteq PageIds /\ p \in Nat
        BY <1>2, <3>3
      <4> QED BY ONLY <1>5, <3>2, <4>1, <4>2, IndexAdded
    <3>6. N[Row(L + 1)] \in ToSet(N) /\ M[Len(M)] \in ToSet(M)
      <4>1. Row(L + 1) \in DOMAIN N
        BY <1>6, <2>2, <3>4
      <4>2. MastersFor(L) \in Nat \ {0} /\ MastersFor(L) <= Len(M) /\ Len(M) \in Nat
        BY <1>1, MastersNat DEF Listed
      <4>3. Len(M) \in DOMAIN M
        BY <1>1, <4>2
      <4> QED BY <4>1, <4>3 DEF ToSet
    <3>7. ASSUME NEW q \in PageIds, NEW from \in Nat, NEW to \in Nat, q \notin ToSet(N)
          PROVE  Kept(pg, new, q, from, to)
      <4>1. q # N[Row(L + 1)] /\ N[Row(L + 1)] \in PageIds /\ q # M[Len(M)] /\ M[Len(M)] \in PageIds
            /\ q # p + 1
        BY <1>3, <3>3, <3>6, <3>7
      <4>2. Kept(pg, mid, q, from, to)
        <5> PICK put : put = Put(pg, M[Len(M)], MasterLink, 4, p + 1)
          OBVIOUS
        <5>1. IsPages(put) /\ Kept(pg, put, q, from, to)
          BY <1>1, <1>6, <4>1, PutPages, PutKeeps
        <5>2. Kept(put, mid, q, from, to)
          BY <4>1, <5>1, ClearedKeeps
        <5> QED BY <5>1, <5>2, KeptTwice
      <4>3. Kept(mid, new, q, from, to)
        BY <1>6, <3>2, <4>1, PutKeeps
      <4> QED BY <4>2, <4>3, KeptTwice
    <3> QED BY <2>2, <3>1, <3>5, <3>7
  <2> QED BY <2>1, <2>2 DEF EnteredHere, EnteredOn
<1>8. Len(n.index) = IndexPages(n)
  <2>1. handlesPerIndex \in Nat \ {0} /\ m.handleCount \in Nat
    BY <1>1, SizesAssumption DEF Mems
  <2>2. ((m.handleCount + 1) + handlesPerIndex - 1) \div handlesPerIndex
          = (m.handleCount + handlesPerIndex - 1) \div handlesPerIndex + 1
    BY <2>1, IndexGrows
  <2>3. Len(Append(m.index, p)) = L + 1
    BY <1>1, <1>2
  <2> QED BY <1>1, <2>2, <2>3 DEF IndexPages
<1>9. \A i \in 1..Len(m.index) : n.index[i] = m.index[i]
  BY <1>1, <1>2
<1>10. m.pageCount <= n.pageCount
  BY <1>2 DEF EnteredHere, EnteredOn
<1>11. Roles(n, N, n.free \cup V \cup UsedBy(B) \cup E)
  BY <1>7
<1> QED
  BY <1>7, <1>8, <1>9, <1>10, <1>11, MidMore

\* The handle of a new blob, and what the state is then.
LEMMA HandleTaken ==
  ASSUME NEW C, NEW s, NEW E, NEW V, NEW B, NEW M, NEW F, Within(C, s, None, E, V, B, M, F),
         NEW h, h = AllocateHandle(s)
  PROVE  /\ IsTyped(h) /\ h.status = "up" /\ s.mem.pageCount <= h.mem.pageCount
         /\ NextHandle(s) \in Nat /\ NextHandle(s) \notin DOMAIN B
         /\ h.mem.pageCount <= MaxPages =>
              \E N, G : Within(C, h, Opened(NextHandle(s), {}), E, V, B, N, G)
<1> PICK m, pg : m = s.mem /\ pg = s.pages
  OBVIOUS
<1>1. IsTyped(s) /\ s.status = "up" /\ IsPages(pg) /\ Mid(C, m, pg, None, E, V, B, M, F)
  BY DEF Within, IsState
<1>2. m \in Mems /\ Handled(m, pg, None, B, F) /\ Masters(m.index, pg, M)
  BY <1>1 DEF Mid
<1>3. m.handleCount \in Nat /\ m.pageCount \in Nat /\ m.index \in Seq(Nat)
  BY <1>2 DEF Mems
<1>4. CASE m.fhlStart # NULL32
  <2> PICK e, G : /\ HasEntry(m, pg, m.fhlStart, e) /\ e.status = 0 /\ e.size \in Int
                  /\ m.fhlStart \in 0..(m.handleCount - 1) /\ m.fhlStart \notin DOMAIN B
                  /\ Mid(C, [m EXCEPT !.fhlStart = e.size], pg, Opened(m.fhlStart, {}), E, V, B, M, G)
    BY <1>1, <1>4, MidPop
  <2>1. e = Entry(s, m.fhlStart)
    BY HasGet DEF HasEntry, Entry, EntryPage
  <2>2. /\ IsTyped(h) /\ h.mem = [m EXCEPT !.fhlStart = e.size] /\ h.pages = pg /\ h.status = "up"
    <3>1. Popped(s, e, AllocateHandle(s))
      BY <1>1, <1>4, <2>1, PopFields
    <3> QED BY <1>1, <3>1 DEF Popped
  <2>3. h.mem.pageCount = m.pageCount
    BY <1>2, <2>2 DEF Mems
  <2>4. NextHandle(s) = m.fhlStart /\ m.fhlStart \in Nat
    BY <1>3, <1>4 DEF NextHandle
  <2>5. Within(C, h, Opened(NextHandle(s), {}), E, V, B, M, G)
    BY <1>1, <2>2, <2>4 DEF Within, IsState
  <2> QED BY <1>3, <2>2, <2>3, <2>4, <2>5
<1>5. CASE m.fhlStart = NULL32
  <2>1. NextHandle(s) = m.handleCount /\ m.handleCount \notin DOMAIN B
    <3>1. m.handleCount \notin 0..(m.handleCount - 1)
      BY <1>3
    <3> QED BY <1>2, <1>5, <3>1 DEF NextHandle, Handled
  <2>2. CASE m.handleCount % handlesPerIndex # 0
    <3>1. /\ IsTyped(h) /\ h.mem = [m EXCEPT !.handleCount = @ + 1]
          /\ h.pages = pg /\ h.status = "up"
      <4>1. Counted(s, AllocateHandle(s))
        BY <1>1, <1>5, <2>2, CountFields
      <4> QED BY <1>1, <4>1 DEF Counted
    <3>2. h.mem.pageCount = m.pageCount
      BY <1>2, <3>1 DEF Mems
    <3>3. Mid(C, h.mem, pg, Opened(m.handleCount, {}), E, V, B, M, F)
      BY <1>1, <2>2, <3>1, MidSameIndex
    <3>4. Within(C, h, Opened(m.handleCount, {}), E, V, B, M, F)
      BY <1>1, <3>1, <3>3 DEF Within, IsState
    <3> QED BY <1>3, <2>1, <3>1, <3>2, <3>4
  <2>3. CASE m.handleCount % handlesPerIndex = 0
    <3> PICK g : /\ IsTyped(g) /\ g.mem = [m EXCEPT !.handleCount = @ + 1, !.pageCount = @ + 1]
                 /\ g.pages = pg /\ g.status = "up" /\ h = pushBackIndex(g, m.pageCount)
      <4>1. PICK g : CountedUp(s, g) /\ AllocateHandle(s) = pushBackIndex(g, s.mem.pageCount)
        BY <1>1, <1>5, <2>3, CountUpFields
      <4> QED BY <1>1, <4>1 DEF CountedUp
    <3>1. /\ g.mem \in Mems /\ g.mem.handleCount = m.handleCount + 1 /\ g.mem.pageCount = m.pageCount + 1
          /\ g.mem.fhlStart = m.fhlStart /\ g.mem.free = m.free /\ g.mem.index = m.index
      BY <1>2 DEF Mems, IsTyped
    <3> PICK L \in Nat : L = Len(m.index)
      BY <1>3
    <3> PICK n, k : n = L \div indexesPerMasterIndex /\ k = L % indexesPerMasterIndex
      OBVIOUS
    <3>2. /\ MastersFor(L + 1) = n + 1 /\ (k = 0 /\ n # 0 => MastersFor(L) = n)
          /\ (k # 0 \/ n = 0 => MastersFor(L) = n + 1)
          /\ n \in Nat /\ Row(L + 1) = n + 1 /\ Place(L + 1) = k * 4
      BY MastersGrow
    <3>3. Len(M) = MastersFor(L) /\ Listed(m.index, pg, M)
      BY <1>2 DEF Masters
    <3>4. Pushed(g, m.pageCount, n, k, h)
      <4>1. n = Len(g.mem.index) \div indexesPerMasterIndex /\ k = Len(g.mem.index) % indexesPerMasterIndex
        BY <3>1
      <4>2. (IF k = 0 /\ n # 0 THEN n - 1 ELSE n) \in 0..(Len(M) - 1)
        BY <3>2, <3>3
      <4> PICK i : i = IF k = 0 /\ n # 0 THEN n - 1 ELSE n
        OBVIOUS
      <4>3. Master(g.pages, i) = M[i + 1] /\ i + 1 \in 1..Len(M)
        BY ONLY i = (IF k = 0 /\ n # 0 THEN n - 1 ELSE n), g.pages = pg, <3>3, <4>2, MasterIs
      <4>4. M[i + 1] \in ToSet(M) /\ ToSet(M) \subseteq PageIds
        BY <1>1, <3>3, <4>3, MidPages DEF Listed, ToSet
      <4>5. Master(g.pages, IF k = 0 /\ n # 0 THEN n - 1 ELSE n) \in PageIds
        BY ONLY i = (IF k = 0 /\ n # 0 THEN n - 1 ELSE n), <4>3, <4>4
      <4> QED BY ONLY <1>3, IsTyped(g), h = pushBackIndex(g, m.pageCount), <4>1, <4>5, PushFields
    <3>5. h.mem \in Mems
      BY <3>4 DEF IsTyped, Pushed
    <3>6. h.status = "up" /\ IsTyped(h)
      BY <3>4 DEF Pushed
    <3>7. CASE k # 0 \/ n = 0
      <4>1. /\ h.mem.handleCount = m.handleCount + 1 /\ h.mem.fhlStart = m.fhlStart /\ h.mem.free = m.free
            /\ h.mem.index = Append(m.index, m.pageCount) /\ h.mem.pageCount = m.pageCount + 1
        <5>1. h.mem = [g.mem EXCEPT !.index = Append(@, m.pageCount)]
          BY <3>4, <3>7 DEF Pushed, PushedHere
        <5> QED BY ONLY <3>1, <5>1 DEF Mems
      <4>2. Master(pg, n) = M[n + 1]
        <5>1. n \in 0..(Len(M) - 1)
          BY <3>2, <3>3, <3>7
        <5> QED BY <3>3, <5>1, MasterIs
      <4>3. EnteredHere(m, pg, M, M, h.mem, h.pages)
        <5>1. h.pages = Put(pg, Master(pg, n), k * 4, 4, m.pageCount)
          BY <3>4, <3>7 DEF Pushed, PushedHere
        <5> QED BY <3>2, <3>3, <3>7, <4>1, <4>2, <5>1 DEF EnteredHere
      <4>4. ASSUME h.mem.pageCount <= MaxPages
            PROVE  Mid(C, h.mem, h.pages, Opened(m.handleCount, {}), E, V, B, M, F)
        BY <1>1, <2>3, <3>5, <4>1, <4>3, <4>4, MidNewIndex
      <4>5. ASSUME h.mem.pageCount <= MaxPages
            PROVE  Within(C, h, Opened(m.handleCount, {}), E, V, B, M, F)
        <5>1. IsPages(h.pages)
          BY <4>4, <4>5 DEF Mid
        <5> QED BY <3>6, <4>4, <4>5, <5>1 DEF Within, IsState
      <4> QED BY <1>3, <2>1, <3>6, <4>1, <4>5
    <3>8. CASE k = 0 /\ n # 0
      <4> PICK mid : PushedOn(g, m.pageCount, n, k, mid, h)
        BY <3>4, <3>8 DEF Pushed
      <4>0. /\ mid = Cleared(Put(pg, Master(pg, n - 1), MasterLink, 4, m.pageCount + 1),
                             m.pageCount + 1)
            /\ h.pages = Put(mid, Master(mid, n), k * 4, 4, m.pageCount)
        BY <3>1 DEF PushedOn
      <4> PICK N : N = Append(M, m.pageCount + 1)
        OBVIOUS
      <4>1. /\ h.mem.handleCount = m.handleCount + 1 /\ h.mem.fhlStart = m.fhlStart /\ h.mem.free = m.free
            /\ h.mem.index = Append(m.index, m.pageCount) /\ h.mem.pageCount = (m.pageCount + 1) + 1
        <5>1. h.mem = [g.mem EXCEPT !.pageCount = @ + 1, !.index = Append(@, m.pageCount)]
          BY DEF PushedOn
        <5> QED BY ONLY <3>1, <5>1 DEF Mems
      <4>2. Master(pg, n - 1) = M[Len(M)] /\ Len(M) = n
        <5>1. n - 1 \in 0..(Len(M) - 1) /\ (n - 1) + 1 = n /\ Len(M) = n
          BY <3>2, <3>3, <3>8
        <5>2. Master(pg, n - 1) = M[(n - 1) + 1]
          BY ONLY <3>3, <5>1, MasterIs
        <5> QED BY <5>1, <5>2
      <4>3. ASSUME h.mem.pageCount <= MaxPages PROVE Master(mid, n) = N[n + 1]
        <5>1. Listed(m.index, mid, N)
          <6>1. m.pageCount + 1 \in Nat /\ m.pageCount + 1 \notin ToSet(M) /\ ToSet(M) \subseteq PageIds
            <7>1. ToSet(M) \subseteq 0..(m.pageCount - 1)
              BY <1>1 DEF Mid, Roles
            <7> QED BY <1>1, <1>3, <7>1, MidPages
          <6>2. mid = Cleared(Put(pg, M[Len(M)], MasterLink, 4, m.pageCount + 1), m.pageCount + 1)
            BY <4>0, <4>2
          <6> QED BY <1>1, <3>3, <6>1, <6>2, MasterAdded
        <5>2. Len(N) = n + 1
          BY <1>3, <3>3, <4>2 DEF Listed
        <5>3. n \in 0..(Len(N) - 1)
          BY <3>2, <5>2
        <5> QED BY ONLY <5>1, <5>3, MasterIs
      <4>4. ASSUME h.mem.pageCount <= MaxPages
            PROVE  Mid(C, h.mem, h.pages, Opened(m.handleCount, {}), E, V, B, N, F)
        <5>1. EnteredOn(m, pg, M, N, h.mem, mid, h.pages)
          BY <3>2, <4>0, <4>1, <4>2, <4>3, <4>4 DEF EnteredOn
        <5> QED BY <1>1, <2>3, <3>5, <4>1, <4>4, <5>1, MidNewIndex
      <4>5. ASSUME h.mem.pageCount <= MaxPages
            PROVE  Within(C, h, Opened(m.handleCount, {}), E, V, B, N, F)
        <5>1. IsPages(h.pages)
          BY <4>4, <4>5 DEF Mid
        <5> QED BY <3>6, <4>4, <4>5, <5>1 DEF Within, IsState
      <4> QED BY SMTT(30), <1>3, <2>1, <3>6, <4>1, <4>5
    <3> QED BY <3>7, <3>8
  <2> QED BY <2>2, <2>3
<1> QED
  BY <1>4, <1>5

-----------------------------------------------------------------------------
(* Adding a blob.                                                            *)

\* However the overflow pages are put, the handles are those there were.
LEMMA OverflowSame ==
  ASSUME NEW s, IsTyped(s), NEW d, overflowPageCount(d.size) \in Nat, NEW p, NEW at
  PROVE  /\ IsTyped(PutOverflow(s, d, p, at))
         /\ SameHandles(s.mem, PutOverflow(s, d, p, at).mem)
<1> PICK N \in Nat : N = overflowPageCount(d.size)
  OBVIOUS
<1> PICK linked : LinkedUpTo(s, d, p, at, N, linked) /\ PutOverflow(s, d, p, at) = linked[N].s
  BY LinkedDefined
<1>1. linked[0] = [s |-> s, page |-> p, at |-> at]
      /\ \A n \in 0..N : n # 0 => linked[n] = Linked(linked[n - 1], d, n)
  BY DEF LinkedUpTo
<1> DEFINE Good(n) == IsTyped(linked[n].s) /\ SameHandles(s.mem, linked[n].s.mem)
           S == {n \in 0..N : Good(n)}
<1>2. s.mem \in Mems
  BY DEF IsTyped
<1>3. Good(0)
  <2>1. linked[0].s = s
    BY <1>1
  <2> QED BY <1>2, <2>1 DEF SameHandles, Mems
<1>4. ASSUME NEW n \in 0..N, n < N, Good(n) PROVE Good(n + 1)
  <2> PICK k \in Nat : k = n + 1
    OBVIOUS
  <2>1. linked[k] = Linked(linked[n], d, k)
    BY <1>1, <1>4
  <2>2. IsTyped(linked[n].s)
    BY <1>4
  <2>3. IsTyped(linked[k].s) /\ linked[k].s.mem = TakeBlock(linked[n].s, overflowSize).mem
    BY <2>1, <2>2, LinkedFields
  <2>4. SameHandles(linked[n].s.mem, linked[k].s.mem)
    BY <2>2, <2>3, TakeSame
  <2>5. linked[n].s.mem \in Mems /\ linked[k].s.mem \in Mems
    BY <2>2, <2>3 DEF IsTyped
  <2>6. SameHandles(s.mem, linked[k].s.mem)
    BY <1>2, <1>4, <2>4, <2>5, SameTwice
  <2> QED BY <2>3, <2>6
<1>5. \A n \in 0..N : Good(n)
  <2> HIDE DEF Good
  <2>1. 0 \in S /\ \A n \in 0..N : n < N /\ n \in S => n + 1 \in S
    BY <1>3, <1>4
  <2> HIDE DEF S
  <2>2. \A n \in 0..N : n \in S
    BY <2>1, Upwards
  <2> QED BY <2>2 DEF S
<1> QED
  BY <1>5

\* The first block of a blob, and what is left of the block it is taken from.
Rest(block, first) ==
  [size |-> block.size - first - 4, page |-> block.page, offset |-> block.offset + first + 4]
Left(block, first) == IF block.size = first THEN {} ELSE {Rest(block, first)}

LEMMA FirstTaken ==
  ASSUME NEW C, WellCut(C), NEW s, NEW O, NEW B, NEW M, NEW F, Within(C, s, O, {}, {}, B, M, F),
         NEW d \in Data, NEW first, first = firstBlobSize(d.size), NEW t, t = TakeBlock(s, first),
         t.mem.pageCount <= MaxPages, NEW block, block = Block(s, first),
         NEW x, x = [size |-> first, page |-> block.page, offset |-> block.offset]
  PROVE  /\ Within(C, t, O, {x}, Left(block, first), B, M, F)
         /\ x \in Extents /\ block \in Extents
         /\ block.size >= first
         /\ block.size # first => block.size - first >= 4 + minFreeBytes
         /\ block.size # first => Rest(block, first) \in Extents
<1>1. first \in Nat \ {0} /\ first <= PAGE_SIZE - 4
  <2>1. first \in Nat \ {0}
    BY SizesOfBlob
  <2>2. first + 4 <= PAGE_SIZE
    BY DEF WellCut
  <2> QED BY <2>1, <2>2 DEF PAGE_SIZE
<1>2. /\ Within(C, t, O, {block}, {}, B, M, F) /\ block \in Extents /\ block.size >= first
      /\ block.offset \in C /\ End(block) \in C
      /\ \A c \in t.mem.free \cup {} : ~Touch(block, c) /\ ~Touch(c, block)
  <2>1. Bounds(C) /\ first \in Nat /\ TakeBlock(s, first).mem.pageCount <= MaxPages
    BY <1>1 DEF WellCut
  <2>2. /\ Within(C, TakeBlock(s, first), O, {} \cup {Block(s, first)}, {}, B, M, F)
        /\ Block(s, first) \in Extents /\ Block(s, first).size >= first /\ Block(s, first) \notin {}
        /\ Block(s, first).offset \in C /\ End(Block(s, first)) \in C
        /\ \A c \in TakeBlock(s, first).mem.free \cup {} :
             ~Touch(Block(s, first), c) /\ ~Touch(c, Block(s, first))
    BY ONLY Within(C, s, O, {}, {}, B, M, F), <1>1, <2>1, BlockTaken
  <2> QED BY <2>2
<1>3. block.size \in Nat /\ block.page \in Nat /\ block.offset \in Nat
      /\ block = [size |-> block.size, page |-> block.page, offset |-> block.offset]
  BY <1>2 DEF Extents
<1>4. x \in Extents /\ x.size = first /\ x.page = block.page /\ x.offset = block.offset
  BY <1>1, <1>3 DEF Extents
<1>5. /\ End(x) = block.offset + first + 4 /\ End(block) = block.offset + block.size + 4
      /\ End(x) <= End(block)
  BY <1>1, <1>2, <1>3, <1>4 DEF End
<1>6. End(x) \in C /\ (End(x) = End(block) \/ End(x) + 4 + minFreeBytes <= End(block))
  BY <1>2, <1>5 DEF WellCut
<1>7. CASE block.size = first
  <2>1. x = block
    BY <1>3, <1>7
  <2>2. Left(block, first) = {}
    BY <1>7 DEF Left
  <2> QED BY <1>2, <1>4, <1>7, <2>1, <2>2
<1>8. CASE block.size # first
  <2>1. block.size - first >= 4 + minFreeBytes /\ block.size - first - 4 \in Nat /\ block.size - first - 4 > 0
    BY <1>1, <1>3, <1>5, <1>6, <1>8 DEF minFreeBytes
  <2> PICK r : r = Rest(block, first)
    OBVIOUS
  <2>2. /\ r \in Extents /\ r.page = block.page /\ r.offset = End(x) /\ r.size > 0
        /\ End(r) = End(block)
    BY <1>1, <1>3, <1>5, <2>1 DEF Rest, Extents, End
  <2>3. Mid(C, t.mem, t.pages, O, ({block} \ {block}) \cup {x}, {} \cup {r}, B, M, F)
    <3>1. /\ x.size > 0 /\ Bounds(C) /\ block \in {block}
          /\ Mid(C, t.mem, t.pages, O, {block}, {}, B, M, F)
      BY <1>1, <1>2, <1>4 DEF WellCut, Within
    <3> QED BY ONLY <1>2, <1>4, <1>6, <2>2, <3>1, MidCut
  <2>4. ({block} \ {block}) \cup {x} = {x} /\ {} \cup {r} = {r} /\ Left(block, first) = {r}
    BY <1>8 DEF Left
  <2>5. Within(C, t, O, {x}, {r}, B, M, F)
    BY <1>2, <2>3, <2>4 DEF Within
  <2> QED BY <1>2, <1>4, <2>1, <2>2, <2>4, <2>5
<1> QED
  BY <1>7, <1>8

\* A blob that its first block has room for has no overflow pages.
LEMMA OverflowNone ==
  ASSUME NEW s, NEW d, overflowPageCount(d.size) = 0, NEW p, NEW at
  PROVE  PutOverflow(s, d, p, at) = s
<1> PICK N \in Nat : N = overflowPageCount(d.size) /\ N = 0
  OBVIOUS
<1> PICK linked : LinkedUpTo(s, d, p, at, N, linked) /\ PutOverflow(s, d, p, at) = linked[N].s
  BY LinkedDefined
<1>1. linked[0] = [s |-> s, page |-> p, at |-> at]
  BY DEF LinkedUpTo
<1> QED
  BY <1>1

\* A blob with its start in the block x, and its overflow pages.
LEMMA BlobSpread ==
  ASSUME NEW C, Bounds(C), NEW s, NEW O, NEW V, NEW B, NEW M, NEW F, NEW x \in Extents,
         Within(C, s, O, {x}, V, B, M, F), NEW d \in Data, x.size = firstBlobSize(d.size),
         Tagged(s.pages, x, Used),
         remainder(d.size) # 0 => Has(s.pages, x.page, x.offset + 2, remainder(d.size), <<d, 0>>),
         NEW t, t = PutOverflow(s, d, x.page, x.offset + 2 + remainder(d.size)),
         t.mem.pageCount <= MaxPages
  PROVE  \E b : /\ IsBlob(b) /\ b.blob = d /\ First(b) = x /\ Placed(t.pages, b)
                /\ Within(C, t, O, ExtentsOf(b), V, B, M, F)
<1> PICK N \in Nat : N = overflowPageCount(d.size)
  BY SizesOfBlob
<1> PICK rem \in Nat : rem = remainder(d.size)
  BY SizesOfBlob
<1>1. x.size = rem + (IF N = 0 THEN 0 ELSE 4) /\ x.page \in Nat /\ x.offset \in Nat /\ x.size \in Nat
      /\ x = [size |-> x.size, page |-> x.page, offset |-> x.offset]
  BY SizesOfBlob DEF Extents
<1>2. CASE N = 0
  <2> PICK b : b = [blob |-> d, page |-> x.page, offset |-> x.offset, chain |-> <<>>]
    OBVIOUS
  <2>1. t = s
    BY <1>2, OverflowNone
  <2>2. b.blob = d /\ b.page = x.page /\ b.offset = x.offset /\ b.chain = <<>>
    OBVIOUS
  <2>3. DOMAIN b.chain = {} /\ Len(b.chain) = 0 /\ b.chain \in Seq(Nat)
    BY <2>2
  <2>4. First(b) = x
    BY <1>1, <2>2 DEF First
  <2>5. ExtentsOf(b) = {x}
    BY <2>3, <2>4 DEF ExtentsOf
  <2>6. IsBlob(b)
    BY <1>1, <1>2, <2>2, <2>3 DEF IsBlob, Injected
  <2>7. Placed(t.pages, b)
    BY <2>1, <2>2, <2>3, <2>4 DEF Placed, Started, Linking, Continued
  <2> QED BY <2>1, <2>2, <2>4, <2>5, <2>6, <2>7
<1>3. CASE N # 0
  <2> PICK at \in Nat : at = x.offset + 2 + rem
    BY <1>1
  <2>1. x.offset <= at /\ at + 4 <= End(x) /\ End(x) = x.offset + rem + 8
        /\ x.offset + 2 + rem <= at /\ at + 4 <= x.offset + x.size + 2 /\ x.offset + x.size + 4 = End(x)
    BY <1>1, <1>3 DEF End
  <2> PICK a, chain : a.s = t /\ Extended(C, s, d, x, at, O, {x}, V, B, M, F, N, a, chain)
    <3>1. x \in {x} /\ t = PutOverflow(s, d, x.page, at) /\ overflowPageCount(d.size) \in Nat
      OBVIOUS
    <3>2. \E a, chain : a.s = t
            /\ Extended(C, s, d, x, at, O, {x}, V, B, M, F, overflowPageCount(d.size), a, chain)
      BY <2>1, <3>1, OverflowPut
    <3> QED BY <3>2
  <2>2. /\ chain \in Seq(Nat) /\ Len(chain) = N /\ Injected(chain)
        /\ \A i \in 1..N : Whole(chain[i]) \notin {x}
        /\ Within(C, t, O, {x} \cup {Whole(chain[i]) : i \in 1..N}, V, B, M, F)
    BY DEF Extended
  <2>3. /\ \A i \in 1..N :
             /\ Has(t.pages, chain[i], 0, overflowSize, <<d, i>>)
             /\ Has(t.pages, chain[i], overflowSize, 4, IF i = N THEN NULL32 ELSE chain[i + 1])
        /\ Has(t.pages, x.page, at, 4, chain[1])
        /\ Kept(s.pages, t.pages, x.page, x.offset, at)
        /\ Kept(s.pages, t.pages, x.page, at + 4, End(x))
    BY <1>3 DEF Extended
  <2>4. DOMAIN chain = 1..N
    BY <2>2
  <2> PICK b : b = [blob |-> d, page |-> x.page, offset |-> x.offset, chain |-> chain]
    OBVIOUS
  <2>5. b.blob = d /\ b.page = x.page /\ b.offset = x.offset /\ b.chain = chain
    OBVIOUS
  <2>6. First(b) = x
    BY <1>1, <2>5 DEF First
  <2>7. ExtentsOf(b) = {x} \cup {Whole(chain[i]) : i \in 1..N}
    BY <2>4, <2>5, <2>6 DEF ExtentsOf
  <2>8. IsBlob(b)
    BY <1>1, <2>2, <2>4, <2>5, <2>6 DEF IsBlob
  <2>9. Tagged(t.pages, x, Used)
    <3>1. x.offset \in Nat /\ x.offset + x.size + 2 \in Nat /\ 2 \in Nat /\ x.offset + 2 <= at
          /\ End(x) \in Nat /\ at + 4 \in Nat /\ (x.offset + x.size + 2) + 2 <= End(x)
      BY <1>1, <2>1
    <3>2. Has(t.pages, x.page, x.offset, 2, Used)
      BY <2>3, <3>1, KeptHas DEF Tagged
    <3>3. Has(t.pages, x.page, x.offset + x.size + 2, 2, Used)
      BY <2>1, <2>3, <3>1, KeptHas DEF Tagged
    <3> QED BY <3>2, <3>3 DEF Tagged
  <2>10. ASSUME rem # 0 PROVE Has(t.pages, x.page, x.offset + 2, rem, <<d, 0>>)
    <3>1. x.offset + 2 \in Nat /\ x.offset <= x.offset + 2 /\ (x.offset + 2) + rem <= at /\ x.offset \in Nat
      BY <1>1, <2>1
    <3> QED BY <2>3, <2>10, <3>1, KeptHas
  <2>11. Started(t.pages, b)
    BY <2>5, <2>6, <2>9, <2>10 DEF Started
  <2>12. Linking(t.pages, b)
    BY <2>3, <2>5 DEF Linking
  <2>13. Continued(t.pages, b)
    BY <2>2, <2>3, <2>4, <2>5 DEF Continued
  <2> QED BY <2>2, <2>5, <2>6, <2>7, <2>8, <2>11, <2>12, <2>13 DEF Placed
<1> QED
  BY <1>2, <1>3

\* A blob gets the handle that is open.
Among(B, id, b) == [i \in DOMAIN B \cup {id} |-> IF i = id THEN b ELSE B[i]]

LEMMA AmongUsed ==
  ASSUME NEW B, NEW id, id \notin DOMAIN B, NEW b
  PROVE  UsedBy(Among(B, id, b)) = UsedBy(B) \cup ExtentsOf(b)
<1> PICK D : D = Among(B, id, b)
  OBVIOUS
<1>1. DOMAIN D = DOMAIN B \cup {id} /\ D[id] = b /\ \A i \in DOMAIN B : D[i] = B[i]
  BY DEF Among
<1>2. ASSUME NEW x \in UsedBy(D) PROVE x \in UsedBy(B) \cup ExtentsOf(b)
  <2>1. PICK i \in DOMAIN D : x \in ExtentsOf(D[i])
    BY DEF UsedBy
  <2>2. i = id \/ i \in DOMAIN B
    BY <1>1
  <2> QED BY <1>1, <2>1, <2>2 DEF UsedBy
<1>3. ASSUME NEW x \in UsedBy(B) \cup ExtentsOf(b) PROVE x \in UsedBy(D)
  <2>1. x \in ExtentsOf(b) \/ \E i \in DOMAIN B : x \in ExtentsOf(B[i])
    BY DEF UsedBy
  <2> QED BY <1>1, <2>1 DEF UsedBy
<1> QED
  BY <1>2, <1>3

LEMMA MidClose ==
  ASSUME NEW C, NEW m, NEW pg, NEW id, NEW b, NEW V, NEW B, NEW M, NEW F,
         Mid(C, m, pg, Opened(id, {EntryOf(b)}), ExtentsOf(b), V, B, M, F),
         IsBlob(b), Placed(pg, b)
  PROVE  id \notin DOMAIN B /\ Mid(C, m, pg, None, {}, V, Among(B, id, b), M, F)
<1> PICK D : D = Among(B, id, b)
  OBVIOUS
<1> PICK O : O = Opened(id, {EntryOf(b)})
  OBVIOUS
<1>1. DOMAIN O = {id} /\ O[id] = {EntryOf(b)} /\ DOMAIN None = {}
  BY DEF Opened, None
<1>2. Handled(m, pg, O, B, F)
  BY DEF Mid
<1>3. id \notin DOMAIN B /\ id \notin ToSet(F)
  BY <1>1, <1>2 DEF Handled
<1>4. DOMAIN D = DOMAIN B \cup {id} /\ D[id] = b /\ \A i \in DOMAIN B : D[i] = B[i]
  BY <1>3 DEF Among
<1>5. UsedBy(D) = UsedBy(B) \cup ExtentsOf(b)
  BY <1>3, AmongUsed
<1>6. UsedBy(D) \cup {} = UsedBy(B) \cup ExtentsOf(b) /\ {} \cap UsedBy(D) = {}
      /\ m.free \cup V \cup UsedBy(D) \cup {} = m.free \cup V \cup UsedBy(B) \cup ExtentsOf(b)
  BY <1>5
<1>7. /\ m \in Mems /\ m.pageCount \in 2..MaxPages /\ IsPages(pg)
      /\ V \cap m.free = {} /\ ExtentsOf(b) \cap UsedBy(B) = {}
      /\ Tiles(C, m.free \cup V, UsedBy(B) \cup ExtentsOf(b), m.pageCount)
      /\ Roles(m, M, m.free \cup V \cup UsedBy(B) \cup ExtentsOf(b))
      /\ Masters(m.index, pg, M)
      /\ \A f \in m.free : Tagged(pg, f, f.size)
  BY DEF Mid
<1>8. \A i \in DOMAIN D : IsBlob(D[i]) /\ Placed(pg, D[i])
  <2>1. \A i \in DOMAIN B : IsBlob(B[i]) /\ Placed(pg, B[i])
    BY DEF Mid
  <2> QED BY <1>4, <2>1
<1>9. Owned(D)
  <2> SUFFICES ASSUME NEW i \in DOMAIN D, NEW j \in DOMAIN D, i # j
               PROVE  ExtentsOf(D[i]) \cap ExtentsOf(D[j]) = {}
    BY DEF Owned
  <2>1. Owned(B)
    BY DEF Mid
  <2>2. \A k \in DOMAIN B : ExtentsOf(b) \cap ExtentsOf(B[k]) = {}
    BY <1>7 DEF UsedBy
  <2>3. (i = id /\ j \in DOMAIN B) \/ (j = id /\ i \in DOMAIN B) \/ (i \in DOMAIN B /\ j \in DOMAIN B)
    BY <1>4
  <2> QED BY <1>3, <1>4, <2>1, <2>2, <2>3 DEF Owned
<1>10. Handled(m, pg, None, D, F)
  <2>1. /\ F \in Seq(Nat) /\ Injected(F) /\ m.fhlStart = Top(F)
        /\ DOMAIN D \cup ToSet(F) \cup DOMAIN None = 0..(m.handleCount - 1)
        /\ DOMAIN D \cap ToSet(F) = {} /\ DOMAIN None \cap DOMAIN D = {} /\ DOMAIN None \cap ToSet(F) = {}
        /\ Len(m.index) = IndexPages(m)
        /\ \A i \in 1..Len(F) :
             \E e : e.status = 0 /\ e.size = Under(F, i) /\ HasEntry(m, pg, F[i], e)
    BY <1>1, <1>2, <1>3, <1>4 DEF Handled
  <2>2. \A i \in DOMAIN B : HasEntry(m, pg, i, EntryOf(B[i]))
    BY <1>2 DEF Handled
  <2>3. HasEntry(m, pg, id, EntryOf(b))
    BY <1>1, <1>2 DEF Handled
  <2>4. \A i \in DOMAIN D : HasEntry(m, pg, i, EntryOf(D[i]))
    BY <1>4, <2>2, <2>3
  <2> QED BY <1>1, <2>1, <2>4 DEF Handled
<1>11. Mid(C, m, pg, None, {}, V, D, M, F)
  BY <1>6, <1>7, <1>8, <1>9, <1>10 DEF Mid
<1> QED
  BY <1>3, <1>11

LEMMA AddFreeCount ==
  ASSUME NEW s, IsTyped(s), NEW x
  PROVE  /\ AddFree(s, x).mem.pageCount = s.mem.pageCount
         /\ AddFree(s, x).mem.handleCount = s.mem.handleCount
<1> PICK n : n = [s.mem EXCEPT !.free = @ \cup {x}]
  OBVIOUS
<1> PICK new : new = Put(PutTags(s.pages, x.page, x.offset, x.size, x.size), x.page, x.offset + 2, x.size, Junk)
  OBVIOUS
<1>1. AddFree(s, x) = [s EXCEPT !.mem = n, !.pages = new]
  BY Zenon DEF AddFree
<1>2. s = [mem |-> s.mem, pages |-> s.pages, orphan |-> s.orphan, status |-> s.status] /\ s.mem \in Mems
  BY DEF IsTyped
<1>3. AddFree(s, x).mem = n
  BY <1>1, <1>2
<1> QED
  BY <1>2, <1>3 DEF Mems

\* Every block that is taken has room.
LEMMA BlockRoom ==
  ASSUME NEW C, WellCut(C), NEW s, IsTyped(s), NEW d \in Data
  PROVE  Block(s, firstBlobSize(d.size)).size >= firstBlobSize(d.size)
<1> PICK f \in Nat : f = firstBlobSize(d.size)
  BY SizesOfBlob
<1>1. s.mem.free \subseteq Extents
  BY DEF IsTyped, Mems
<1>2. CASE FreeOfSize(s, f) = {}
  <2>1. Block(s, f).size = PAGE_SIZE - 4
    BY <1>2 DEF Block
  <2>2. f + 4 <= PAGE_SIZE
    BY DEF WellCut
  <2> QED BY <2>1, <2>2 DEF PAGE_SIZE
<1>3. CASE FreeOfSize(s, f) # {}
  <2>1. Block(s, f) = LowerBound(s, f)
    BY <1>3 DEF Block
  <2>2. LowerBound(s, f) \in FreeOfSize(s, f)
    BY <1>1, <1>3, LowerBoundFree
  <2> QED BY <2>1, <2>2 DEF FreeOfSize
<1> QED
  BY <1>2, <1>3

\* What addBlob makes of the state h, with the handle id.
Filled(h, d, id, block, active, e) ==
  LET g == TakeBlock(h, firstBlobSize(d.size))
      t == PutEntry(g, id, e)
  IN [t EXCEPT !.pages = Put(PutTags(@, block.page, block.offset, active, Used),
                             block.page, block.offset + 2, remainder(d.size), <<d, 0>>)]
LEMMA FilledFields ==
  ASSUME NEW h, IsTyped(h), NEW d, NEW id, NEW block, NEW e, NEW active, NEW u, u = Filled(h, d, id, block, active, e),
         NEW g, g = TakeBlock(h, firstBlobSize(d.size)), NEW pg,
         pg = Put(g.pages, g.mem.index[(id \div handlesPerIndex) + 1], EntryAt(id), 11, e)
  PROVE  /\ IsTyped(u) /\ u.mem = g.mem /\ u.status = h.status
         /\ u.pages = Put(PutTags(pg, block.page, block.offset, active, Used),
                          block.page, block.offset + 2, remainder(d.size), <<d, 0>>)
<1> PICK t : t = PutEntry(g, id, e)
  OBVIOUS
<1> PICK new : new = Put(PutTags(pg, block.page, block.offset, active, Used),
                          block.page, block.offset + 2, remainder(d.size), <<d, 0>>)
  OBVIOUS
<1>1. IsTyped(g) /\ g.status = h.status
  BY TakeBlockFields
<1>2. g = [mem |-> g.mem, pages |-> g.pages, orphan |-> g.orphan, status |-> g.status]
      /\ g.mem \in Mems /\ g.orphan \in BOOLEAN /\ g.status \in Statuses
  BY <1>1 DEF IsTyped
<1>3. t = [g EXCEPT !.pages = pg]
  <2>1. t = [g EXCEPT !.pages = Put(@, EntryPage(g, id), EntryAt(id), 11, e)]
    BY Zenon DEF PutEntry
  <2> QED BY <1>2, <2>1 DEF EntryPage
<1>4. t = [mem |-> g.mem, pages |-> pg, orphan |-> g.orphan, status |-> g.status]
  BY ONLY <1>2, <1>3
<1>5. t.pages = pg
  BY <1>4
<1>6. u = [t EXCEPT !.pages = new]
  <2>1. u = [t EXCEPT !.pages = Put(PutTags(@, block.page, block.offset, active, Used),
                             block.page, block.offset + 2, remainder(d.size), <<d, 0>>)]
    BY Zenon DEF Filled
  <2> QED BY <1>4, <1>5, <2>1
<1>7. u = [mem |-> g.mem, pages |-> new, orphan |-> g.orphan, status |-> g.status]
  BY ONLY <1>4, <1>6
<1>8. u.mem = g.mem /\ u.pages = new /\ u.status = g.status /\ IsTyped(u)
  BY <1>2, <1>7 DEF IsTyped
<1> QED
  BY <1>1, <1>8

\* The size that the entry of a blob gets is that of the blob.
LEMMA EntrySize ==
  ASSUME NEW d \in Data
  PROVE  firstBlobSize(d.size) + overflowPageCount(d.size) * overflowSize
           - (IF overflowPageCount(d.size) > 0 THEN 4 ELSE 0) = d.size
<1> PICK n \in Nat : n = overflowPageCount(d.size)
  BY SizesOfBlob
<1> PICK r \in Nat : r = remainder(d.size)
  BY SizesOfBlob
<1>1. d.size = 8188 * n + r /\ d.size \in Nat
  <2>1. /\ remainder(d.size) \in 0..(overflowSize - 1) /\ overflowPageCount(d.size) \in Nat
        /\ d.size = overflowSize * overflowPageCount(d.size) + remainder(d.size)
        /\ firstBlobSize(d.size) \in Nat \ {0}
        /\ firstBlobSize(d.size) = remainder(d.size) + IF overflowPageCount(d.size) = 0 THEN 0 ELSE 4
        /\ d.size \in Nat \ {0}
    BY ONLY d \in Data, SizesOfBlob
  <2>2. d.size = overflowSize * n + r /\ d.size \in Nat
    BY <2>1
  <2> QED BY <2>2 DEF overflowSize
<1>2. firstBlobSize(d.size) = r + IF n = 0 THEN 0 ELSE 4
  BY SizesOfBlob
<1>3. firstBlobSize(d.size) + n * 8188 - (IF n > 0 THEN 4 ELSE 0) = d.size
  <2>1. 8188 * n = n * 8188 /\ n * 8188 \in Nat
    OBVIOUS
  <2> QED BY <1>1, <1>2, <2>1
<1> QED
  BY <1>3 DEF overflowSize

\* A new blob, under the first handle that is free, within the bounds.
Grown(C, B, id, d, r) ==
  \E b, N, G : /\ IsBlob(b) /\ b.blob = d
               /\ Within(C, r, None, {}, {}, Among(B, id, b), N, G)

LEMMA AddParts ==
  ASSUME NEW s, NEW d, NEW h, h = AllocateHandle(s), h.status = "up",
         NEW first, first = firstBlobSize(d.size), NEW block, block = Block(h, first),
         NEW left, left = IF block.size - first < 4 + minFreeBytes THEN 0 ELSE block.size - first,
         NEW active, active = block.size - left, NEW extra, extra = overflowPageCount(d.size),
         NEW e, e = [status |-> 1,
                     size |-> active + extra * overflowSize - (IF extra > 0 THEN 4 ELSE 0),
                     page |-> block.page, offset |-> block.offset],
         NEW u, u = Filled(h, d, NextHandle(s), block, active, e),
         NEW v, v = PutOverflow(u, d, block.page, block.offset + 2 + remainder(d.size))
  PROVE  addBlob(s, d) =
           IF block.size < first THEN Wild(h)
           ELSE IF left = 0 THEN v
           ELSE AddFree(v, [size |-> left - 4, page |-> block.page,
                            offset |-> block.offset + active + 4])
<1> PICK t : t = PutEntry(TakeBlock(h, first), NextHandle(s), e)
  OBVIOUS
<1>1. u = [t EXCEPT !.pages = Put(PutTags(@, block.page, block.offset, active, Used),
                                   block.page, block.offset + 2, remainder(d.size), <<d, 0>>)]
  BY ZenonT(30) DEF Filled
<1> QED
  BY <1>1, ZenonT(60) DEF addBlob

\* No page is given back by what follows the choice of the block.
LEMMA AddCount ==
  ASSUME NEW C, WellCut(C), NEW s, NEW d \in Data, NEW h, h = AllocateHandle(s), IsTyped(h), h.status = "up",
         NEW g, g = TakeBlock(h, firstBlobSize(d.size)), addBlob(s, d).mem.pageCount <= MaxPages
  PROVE  g.mem.pageCount <= MaxPages
<1> PICK first, block : first = firstBlobSize(d.size) /\ block = Block(h, first)
  OBVIOUS
<1> PICK left, active : left = (IF block.size - first < 4 + minFreeBytes THEN 0 ELSE block.size - first)
                        /\ active = block.size - left
  OBVIOUS
<1> PICK extra, e : extra = overflowPageCount(d.size)
       /\ e = [status |-> 1,
               size |-> active + extra * overflowSize - (IF extra > 0 THEN 4 ELSE 0),
               page |-> block.page, offset |-> block.offset]
  OBVIOUS
<1> PICK u : u = Filled(h, d, NextHandle(s), block, active, e)
  OBVIOUS
<1> PICK v : v = PutOverflow(u, d, block.page, block.offset + 2 + remainder(d.size))
  OBVIOUS
<1> PICK x : x = [size |-> left - 4, page |-> block.page, offset |-> block.offset + active + 4]
  OBVIOUS
<1>1. addBlob(s, d) = IF block.size < first THEN Wild(h) ELSE IF left = 0 THEN v ELSE AddFree(v, x)
  BY AddParts
<1>2. IsTyped(g) /\ g.mem \in Mems
  <2>1. IsTyped(g)
    BY TakeBlockFields
  <2> QED BY <2>1 DEF IsTyped
<1>3. IsTyped(u) /\ u.mem = g.mem
  <2> PICK pg : pg = Put(g.pages, g.mem.index[(NextHandle(s) \div handlesPerIndex) + 1],
                         EntryAt(NextHandle(s)), 11, e)
    OBVIOUS
  <2>1. /\ IsTyped(h) /\ u = Filled(h, d, NextHandle(s), block, active, e)
        /\ g = TakeBlock(h, firstBlobSize(d.size))
        /\ pg = Put(g.pages, g.mem.index[(NextHandle(s) \div handlesPerIndex) + 1],
                    EntryAt(NextHandle(s)), 11, e)
    OBVIOUS
  <2>2. /\ IsTyped(u) /\ u.mem = g.mem /\ u.status = h.status
        /\ u.pages = Put(PutTags(pg, block.page, block.offset, active, Used),
                         block.page, block.offset + 2, remainder(d.size), <<d, 0>>)
    BY ONLY SMTT(30), <2>1, FilledFields
  <2> QED BY <2>2
<1>4. overflowPageCount(d.size) \in Nat
  BY SizesOfBlob
<1>5. IsTyped(v) /\ SameHandles(u.mem, v.mem)
  BY <1>3, <1>4, OverflowSame
<1>6. v.mem.pageCount \in Nat /\ g.mem.pageCount <= v.mem.pageCount /\ g.mem.pageCount \in Nat
  <2>1. v.mem \in Mems /\ g.mem \in Mems
    BY ONLY <1>2, <1>5 DEF IsTyped
  <2>2. SameHandles(g.mem, v.mem)
    BY ONLY <1>3, <1>5
  <2>3. v.mem.pageCount \in Nat /\ g.mem.pageCount \in Nat
    BY ONLY <2>1 DEF Mems
  <2> QED BY ONLY <2>2, <2>3 DEF SameHandles
<1>7. ~(block.size < first)
  <2>1. block.size >= first /\ first \in Nat
    BY BlockRoom, SizesOfBlob
  <2>2. block.size \in Nat
    <3>1. h.mem.free \subseteq Extents
      BY DEF IsTyped, Mems
    <3>2. CASE FreeOfSize(h, first) = {}
      BY <3>2 DEF Block, PAGE_SIZE
    <3>3. CASE FreeOfSize(h, first) # {}
      <4>1. block \in FreeOfSize(h, first)
        BY <3>1, <3>3, LowerBoundFree DEF Block
      <4> QED BY <3>1, <4>1 DEF FreeOfSize, Extents
    <3> QED BY <3>2, <3>3
  <2> QED BY <2>1, <2>2
<1>8. addBlob(s, d).mem.pageCount = v.mem.pageCount
  <2>1. CASE left = 0
    BY <1>1, <1>7, <2>1
  <2>2. CASE left # 0
    <3>1. addBlob(s, d) = AddFree(v, x)
      BY <1>1, <1>7, <2>2
    <3>2. IsTyped(v)
      BY <1>5
    <3>3. /\ AddFree(v, x).mem.pageCount = v.mem.pageCount
          /\ AddFree(v, x).mem.handleCount = v.mem.handleCount
      BY ONLY <3>2, AddFreeCount
    <3> QED BY ONLY <3>1, <3>3
  <2> QED BY ONLY <2>1, <2>2
<1>9. MaxPages \in Nat
  BY SizesAssumption
<1>10. addBlob(s, d).mem.pageCount <= MaxPages
  OBVIOUS
<1> QED
  BY ONLY <1>6, <1>8, <1>9, <1>10

LEMMA AddSteps ==
  ASSUME NEW C, WellCut(C), NEW s, NEW d \in Data, NEW h, h = AllocateHandle(s), IsTyped(h), h.status = "up",
         NEW first, first = firstBlobSize(d.size), NEW block, block = Block(h, first),
         block.size \in Nat, block.size = first \/ block.size - first >= 4 + minFreeBytes,
         NEW e, e = [status |-> 1, size |-> d.size, page |-> block.page, offset |-> block.offset],
         NEW u, u = Filled(h, d, NextHandle(s), block, first, e),
         NEW v, v = PutOverflow(u, d, block.page, block.offset + 2 + remainder(d.size))
  PROVE  addBlob(s, d) = IF block.size = first THEN v ELSE AddFree(v, Rest(block, first))
<1> PICK left : left = IF block.size - first < 4 + minFreeBytes THEN 0 ELSE block.size - first
  OBVIOUS
<1> PICK active : active = block.size - left
  OBVIOUS
<1> PICK extra : extra = overflowPageCount(d.size)
  OBVIOUS
<1>1. first \in Nat \ {0} /\ block.size >= first
  BY SizesOfBlob, BlockRoom
<1>2. active = first /\ (left = 0 <=> block.size = first) /\ (left # 0 => left = block.size - first)
  BY <1>1 DEF minFreeBytes
<1>3. e = [status |-> 1, size |-> active + extra * overflowSize - (IF extra > 0 THEN 4 ELSE 0),
           page |-> block.page, offset |-> block.offset]
  BY <1>2, EntrySize
<1>4. u = Filled(h, d, NextHandle(s), block, active, e)
  BY <1>2
<1>5. addBlob(s, d) =
        IF block.size < first THEN Wild(h)
        ELSE IF left = 0 THEN v
        ELSE AddFree(v, [size |-> left - 4, page |-> block.page, offset |-> block.offset + active + 4])
  BY <1>3, <1>4, AddParts
<1>6. CASE block.size = first
  BY <1>1, <1>2, <1>5, <1>6
<1>7. CASE block.size # first
  <2>1. [size |-> left - 4, page |-> block.page, offset |-> block.offset + active + 4] = Rest(block, first)
    BY <1>2, <1>7 DEF Rest
  <2>2. ~(block.size < first)
    BY <1>1
  <2> QED BY <1>2, <1>5, <1>7, <2>1, <2>2
<1> QED
  BY <1>6, <1>7

LEMMA BlobAdded ==
  ASSUME NEW C, WellCut(C), NEW s, NEW B, NEW M, NEW F, Within(C, s, None, {}, {}, B, M, F),
         NEW d \in Data, NEW r, r = addBlob(s, d), r.mem.pageCount <= MaxPages
  PROVE  /\ NextHandle(s) \in Nat /\ NextHandle(s) \notin DOMAIN B
         /\ Grown(C, B, NextHandle(s), d, r)
<1> PICK id, h : id = NextHandle(s) /\ h = AllocateHandle(s)
  OBVIOUS
<1> PICK first, n, rem : first = firstBlobSize(d.size) /\ n = overflowPageCount(d.size) /\ rem = remainder(d.size)
  OBVIOUS
<1>1. first \in Nat \ {0} /\ n \in Nat /\ rem \in Nat /\ first = rem + IF n = 0 THEN 0 ELSE 4
  BY SizesOfBlob
<1>2. /\ IsTyped(h) /\ h.status = "up" /\ s.mem.pageCount <= h.mem.pageCount
      /\ id \in Nat /\ id \notin DOMAIN B
      /\ h.mem.pageCount <= MaxPages =>
           \E N, G : Within(C, h, Opened(id, {}), {}, {}, B, N, G)
  BY HandleTaken
<1> PICK g : g = TakeBlock(h, first)
  OBVIOUS
<1>3. g.mem.pageCount <= MaxPages
  BY <1>2, AddCount
<1>4. IsTyped(g) /\ g.status = h.status /\ SameHandles(h.mem, g.mem)
  BY <1>2, TakeBlockFields, TakeSame
<1>5. h.mem.pageCount <= MaxPages
  <2>1. h.mem.pageCount \in Nat /\ g.mem.pageCount \in Nat /\ h.mem.pageCount <= g.mem.pageCount /\ MaxPages \in Nat
    BY <1>2, <1>4, SizesAssumption DEF SameHandles, IsTyped, Mems
  <2> QED BY ONLY <1>3, <2>1
<1> PICK N, G : Within(C, h, Opened(id, {}), {}, {}, B, N, G)
  BY <1>2, <1>5
<1> PICK block : block = Block(h, first)
  OBVIOUS
<1> PICK x : x = [size |-> first, page |-> block.page, offset |-> block.offset]
  OBVIOUS
<1> PICK V : V = Left(block, first)
  OBVIOUS
<1>6. /\ Within(C, g, Opened(id, {}), {x}, V, B, N, G) /\ x \in Extents /\ block \in Extents
      /\ block.size >= first /\ (block.size # first => block.size - first >= 4 + minFreeBytes)
      /\ (block.size # first => Rest(block, first) \in Extents)
  <2>1. /\ first = firstBlobSize(d.size) /\ g = TakeBlock(h, first) /\ block = Block(h, first)
        /\ x = [size |-> first, page |-> block.page, offset |-> block.offset]
        /\ Within(C, h, Opened(id, {}), {}, {}, B, N, G)
    OBVIOUS
  <2>2. /\ Within(C, g, Opened(id, {}), {x}, Left(block, first), B, N, G)
        /\ x \in Extents /\ block \in Extents
        /\ block.size >= first
        /\ block.size # first => block.size - first >= 4 + minFreeBytes
        /\ block.size # first => Rest(block, first) \in Extents
    BY ONLY ZenonT(30), WellCut(C), d \in Data, <1>3, <2>1, FirstTaken
  <2> QED BY <2>2
<1>7. x.size = first /\ x.page = block.page /\ x.offset = block.offset
      /\ block.page \in Nat /\ block.offset \in Nat /\ block.size \in Nat
  BY <1>6 DEF Extents
<1> PICK e : e = [status |-> 1, size |-> d.size, page |-> block.page, offset |-> block.offset]
  OBVIOUS
<1> PICK pg : pg = Put(g.pages, g.mem.index[(id \div handlesPerIndex) + 1], EntryAt(id), 11, e)
  OBVIOUS
<1> PICK O : O = Opened(id, {e})
  OBVIOUS
<1>8. Mid(C, g.mem, pg, O, {x}, V, B, N, G)
  <2>1. Mid(C, g.mem, g.pages, Opened(id, {}), {x}, V, B, N, G)
    BY <1>6 DEF Within
  <2>2. id \in DOMAIN Opened(id, {})
    BY DEF Opened
  <2>3. [Opened(id, {}) EXCEPT ![id] = {e}] = O
    BY DEF Opened
  <2>4. Mid(C, g.mem, pg, [Opened(id, {}) EXCEPT ![id] = {e}], {x}, V, B, N, G)
    BY <2>1, <2>2, MidEntry
  <2> QED BY <2>3, <2>4
<1> PICK u : u = Filled(h, d, id, block, first, e)
  OBVIOUS
<1>9. /\ IsTyped(u) /\ u.mem = g.mem /\ u.status = "up"
      /\ u.pages = Put(PutTags(pg, x.page, x.offset, x.size, Used), x.page, x.offset + 2, rem, <<d, 0>>)
  <2>1. /\ u.mem = g.mem /\ u.status = h.status /\ IsTyped(u)
        /\ u.pages = Put(PutTags(pg, block.page, block.offset, first, Used),
                         block.page, block.offset + 2, rem, <<d, 0>>)
    BY <1>2, FilledFields
  <2> QED BY <1>2, <1>7, <2>1
<1>10. IsPages(pg) /\ x.page \in PageIds
  <2>1. x.page \in PageIds
    BY <1>8, MidPages
  <2> QED BY <1>8, <2>1 DEF Mid
<1>11. /\ Only(pg, u.pages, x) /\ IsPages(u.pages) /\ Tagged(u.pages, x, Used)
       /\ rem # 0 => Has(u.pages, x.page, x.offset + 2, rem, <<d, 0>>)
  <2>1. rem <= x.size
    BY <1>1, <1>7
  <2> QED BY ONLY <1>1, <1>6, <1>9, <1>10, <2>1, FillBlock
<1>12. Within(C, u, O, {x}, V, B, N, G)
  <2>1. Mid(C, g.mem, u.pages, O, {x}, V, B, N, G)
    <3> PICK m, new, X : m = g.mem /\ new = u.pages /\ X = {x}
      OBVIOUS
    <3>1. Mid(C, m, pg, O, X, V, B, N, G)
      BY <1>8
    <3>2. x \in X \cup V /\ IsPages(new) /\ Only(pg, new, x)
      BY <1>11
    <3>3. Mid(C, m, new, O, X, V, B, N, G)
      BY ONLY <3>1, <3>2, MidWrite
    <3> QED BY <3>3
  <2> QED BY <1>9, <1>11, <2>1 DEF Within, IsState
<1> PICK at, v : at = x.offset + 2 + rem /\ v = PutOverflow(u, d, x.page, x.offset + 2 + rem)
  OBVIOUS
<1>13. r = IF block.size = first THEN v ELSE AddFree(v, Rest(block, first))
  <2>1. block.size = first \/ block.size - first >= 4 + minFreeBytes
    BY <1>6
  <2>2. v = PutOverflow(u, d, block.page, block.offset + 2 + remainder(d.size))
    BY <1>7
  <2>3. /\ h = AllocateHandle(s) /\ first = firstBlobSize(d.size) /\ block = Block(h, first)
        /\ e = [status |-> 1, size |-> d.size, page |-> block.page, offset |-> block.offset]
        /\ u = Filled(h, d, NextHandle(s), block, first, e)
    OBVIOUS
  <2>4. addBlob(s, d) = IF block.size = first THEN v ELSE AddFree(v, Rest(block, first))
    BY ONLY WellCut(C), d \in Data, <1>2, <1>7, <2>1, <2>2, <2>3, AddSteps
  <2> QED BY <2>4
<1>14. v.mem.pageCount <= MaxPages
  <2> PICK p, z : p = x.page /\ z = x.offset + 2 + rem
    OBVIOUS
  <2>1. IsTyped(u) /\ overflowPageCount(d.size) \in Nat /\ v = PutOverflow(u, d, p, z)
    BY <1>1, <1>9
  <2>2. IsTyped(PutOverflow(u, d, p, z)) /\ SameHandles(u.mem, PutOverflow(u, d, p, z).mem)
    BY ONLY <2>1, OverflowSame
  <2>3. IsTyped(v)
    BY ONLY <2>1, <2>2
  <2> PICK y : y = Rest(block, first)
    OBVIOUS
  <2>4. /\ AddFree(v, y).mem.pageCount = v.mem.pageCount
        /\ AddFree(v, y).mem.handleCount = v.mem.handleCount
    BY ONLY <2>3, AddFreeCount
  <2>5. r = v \/ r = AddFree(v, y)
    BY <1>13
  <2>6. r.mem.pageCount = v.mem.pageCount
    BY ONLY <2>4, <2>5
  <2> QED BY <2>6
<1>15. PICK b : IsBlob(b) /\ b.blob = d /\ First(b) = x /\ Placed(v.pages, b)
                /\ Within(C, v, O, ExtentsOf(b), V, B, N, G)
  <2>1. /\ Bounds(C) /\ x.size = firstBlobSize(d.size) /\ Tagged(u.pages, x, Used) /\ x \in Extents
        /\ (remainder(d.size) # 0 => Has(u.pages, x.page, x.offset + 2, remainder(d.size), <<d, 0>>))
        /\ v = PutOverflow(u, d, x.page, x.offset + 2 + remainder(d.size))
    <3>1. Bounds(C)
      BY ONLY WellCut(C) DEF WellCut
    <3>2. x.size = firstBlobSize(d.size) /\ x \in Extents
      BY <1>6, <1>7
    <3>3. rem = remainder(d.size) /\ v = PutOverflow(u, d, x.page, x.offset + 2 + rem)
      OBVIOUS
    <3> QED BY ONLY <1>11, <3>1, <3>2, <3>3
  <2> QED BY ONLY d \in Data, <1>12, <1>14, <2>1, BlobSpread
<1>16. EntryOf(b) = e
  BY <1>7, <1>15 DEF EntryOf, First
<1>17. Within(C, v, None, {}, V, Among(B, id, b), N, G)
  <2>1. Mid(C, v.mem, v.pages, Opened(id, {EntryOf(b)}), ExtentsOf(b), V, B, N, G)
    BY <1>15, <1>16 DEF Within
  <2> PICK m, new : m = v.mem /\ new = v.pages
    OBVIOUS
  <2>2. /\ Mid(C, m, new, Opened(id, {EntryOf(b)}), ExtentsOf(b), V, B, N, G)
        /\ IsBlob(b) /\ Placed(new, b)
    BY <1>15, <2>1
  <2>3. id \notin DOMAIN B /\ Mid(C, m, new, None, {}, V, Among(B, id, b), N, G)
    BY ONLY <2>2, MidClose
  <2>4. Mid(C, v.mem, v.pages, None, {}, V, Among(B, id, b), N, G)
    BY <2>3
  <2> QED BY <1>15, <2>4 DEF Within
<1>18. Within(C, r, None, {}, {}, Among(B, id, b), N, G)
  <2>1. CASE block.size = first
    <3>1. V = {} /\ r = v
      BY <1>13, <2>1 DEF Left
    <3> QED BY <1>17, <3>1
  <2>2. CASE block.size # first
    <3> PICK y : y = Rest(block, first)
      OBVIOUS
    <3>1. V = {y} /\ r = AddFree(v, y) /\ V \ {y} = {}
      BY <1>13, <2>2 DEF Left
    <3>2. Within(C, AddFree(v, y), None, {}, V \ {y}, Among(B, id, b), N, G)
      BY <1>17, <3>1, AddFreeWithin
    <3> QED BY <3>1, <3>2
  <2> QED BY <2>1, <2>2
<1> QED
  BY <1>2, <1>15, <1>18 DEF Grown

-----------------------------------------------------------------------------
(* Reading a blob.                                                           *)

LEMMA ChainRoom ==
  ASSUME NEW chain \in Seq(Nat), Injected(chain), NEW S, IsFiniteSet(S),
         \A i \in DOMAIN chain : chain[i] \in S
  PROVE  Len(chain) <= Cardinality(S)
<1> PICK n \in Nat : n = Len(chain) /\ DOMAIN chain = 1..n
  OBVIOUS
<1>1. chain \in [1..n -> S]
  OBVIOUS
<1>2. chain \in Injection(1..n, S)
  BY <1>1 DEF Injection, IsInjective, Injected
<1>3. Cardinality(1..n) <= Cardinality(S)
  BY <1>2, FS_Injection
<1>4. Cardinality(1..n) = n
  <2>1. 1 \in Int /\ n \in Int /\ (IF 1 > n THEN 0 ELSE n - 1 + 1) = n
    OBVIOUS
  <2>2. Cardinality(1..n) = IF 1 > n THEN 0 ELSE n - 1 + 1
    BY ONLY <2>1, FS_Interval
  <2> QED BY <2>1, <2>2
<1> QED
  BY <1>3, <1>4

\* The chain that is read from the entry of a blob is that of the blob.
LEMMA ChainIs ==
  ASSUME NEW pg, NEW b, IsBlob(b), Placed(pg, b), \A i \in DOMAIN b.chain : b.chain[i] \in PageIds
  PROVE  Chain(pg, EntryOf(b)) = b.chain /\ b.chain # <<Junk>>
<1> PICK e, chain : e = EntryOf(b) /\ chain = b.chain
  OBVIOUS
<1> PICK n \in Nat : n = Len(chain) /\ DOMAIN chain = 1..n
  BY DEF IsBlob
<1>1. /\ e.size = b.blob.size /\ e.page = b.page /\ e.offset = b.offset
      /\ n = overflowPageCount(e.size) /\ chain \in Seq(Nat)
      /\ \A i \in 1..n : chain[i] \in PageIds /\ chain[i] \in Nat
  BY DEF IsBlob, EntryOf
<1>2. chain # <<Junk>>
  <2>1. ASSUME chain = <<Junk>> PROVE FALSE
    <3>1. n = 1 /\ chain[1] = Junk
      BY <2>1
    <3> QED BY <1>1, <3>1 DEF Junk
  <2> QED BY <2>1
<1> PICK N \in Nat : N = Cardinality(PageIds)
  BY PagesCounted, SizesAssumption
<1>3. n <= N
  BY <1>1, PagesCounted, ChainRoom DEF IsBlob
<1> PICK next : ChainUpTo(pg, e, N, next) /\ Chain(pg, e) = ChainAlong(next, e)
  BY ChainDefined
<1>4. /\ DOMAIN next = 0..N
      /\ next[0] = Get(pg, e.page, e.offset + 2 + remainder(e.size), 4, 0)
      /\ \A i \in 0..N : i # 0 =>
           next[i] = IF next[i - 1] \in PageIds THEN Get(pg, next[i - 1], overflowSize, 4, 0) ELSE Junk
  BY ONLY N \in Nat, ChainUpTo(pg, e, N, next) DEF ChainUpTo
<1>5. CASE n = 0
  <2>1. chain = <<>>
    <3>1. chain \in Seq(Nat) /\ Len(chain) = 0
      BY <1>1, <1>5
    <3> QED BY ONLY <3>1
  <2>2. Chain(pg, e) = <<>>
    BY <1>1, <1>5 DEF ChainAlong
  <2> QED BY <1>2, <2>1, <2>2
<1>6. CASE n # 0
  <2>1. next[0] = chain[1]
    <3>1. Has(pg, e.page, e.offset + 2 + remainder(e.size), 4, chain[1])
      <4>1. b.chain # <<>>
        BY <1>6
      <4> QED BY <1>1, <4>1 DEF Placed, Linking
    <3> QED BY <1>4, <3>1, HasGet
  <2>2. \A i \in 1..n : Has(pg, chain[i], overflowSize, 4, IF i = n THEN NULL32 ELSE chain[i + 1])
    BY DEF Placed, Continued
  <2> DEFINE S == {i \in 0..(n - 1) : next[i] = chain[i + 1]}
  <2>3. \A i \in 0..(n - 1) : i \in S
    <3>1. 0 \in S
      BY <1>6, <2>1
    <3>2. ASSUME NEW i \in 0..(n - 1), i < n - 1, i \in S PROVE i + 1 \in S
      <4> PICK k \in 1..n : k = i + 1 /\ k # n /\ k \in 0..N /\ k \in 0..(n - 1) /\ k - 1 = i /\ k # 0
        BY <1>3, <3>2
      <4>1. next[k - 1] = chain[k]
        BY <3>2
      <4>2. next[k] = Get(pg, chain[k], overflowSize, 4, 0)
        BY <1>1, <1>4, <4>1
      <4>3. next[k] = chain[k + 1]
        BY <2>2, <4>2, HasGet
      <4> QED BY <4>3
    <3>3. n - 1 \in Nat
      BY <1>6
    <3> HIDE DEF S
    <3> QED BY <3>1, <3>2, <3>3, Upwards
  <2>4. next[n] = NULL32
    <3>1. n \in 1..n /\ n - 1 \in 0..(n - 1) /\ n \in 0..N /\ n # 0
      BY <1>3, <1>6
    <3>2. next[n - 1] = chain[n]
      BY <2>3, <3>1
    <3>3. next[n] = Get(pg, chain[n], overflowSize, 4, 0)
      BY <1>1, <1>4, <3>1, <3>2
    <3> QED BY <2>2, <3>1, <3>3, HasGet
  <2>5. NULL32 \notin PageIds /\ Junk \notin PageIds /\ Junk # NULL32
    BY DEF PageIds, NULL32, Junk
  <2> DEFINE T == {i \in 0..N : i > n => next[i] = Junk}
  <2>6. \A i \in 0..N : i \in T
    <3>1. 0 \in T
      OBVIOUS
    <3>2. ASSUME NEW i \in 0..N, i < N, i \in T PROVE i + 1 \in T
      <4> PICK k \in 0..N : k = i + 1 /\ k - 1 = i /\ k # 0
        BY <3>2
      <4>1. CASE i < n
        BY <4>1
      <4>2. CASE i >= n
        <5>1. next[k - 1] \notin PageIds
          BY <2>4, <2>5, <3>2, <4>2
        <5> QED BY <1>4, <5>1
      <4> QED BY <4>1, <4>2
    <3> HIDE DEF T
    <3> QED BY <3>1, <3>2, Upwards
  <2>7. \A i \in DOMAIN next : next[i] = NULL32 <=> i = n
    <3> SUFFICES ASSUME NEW i \in 0..N PROVE next[i] = NULL32 <=> i = n
      BY <1>4
    <3>1. CASE i < n
      <4>1. i \in 0..(n - 1) /\ i + 1 \in 1..n
        BY <3>1
      <4>2. next[i] = chain[i + 1]
        BY <2>3, <4>1
      <4> QED BY <1>1, <2>5, <3>1, <4>1, <4>2
    <3>2. CASE i = n
      BY <2>4, <3>2
    <3>3. CASE i > n
      BY <2>5, <2>6, <3>3
    <3> QED BY <3>1, <3>2, <3>3
  <2>8. {i \in DOMAIN next : next[i] = NULL32} = {n}
    <3>1. n \in DOMAIN next
      BY <1>3, <1>4
    <3> QED BY <2>7, <3>1
  <2>9. Chain(pg, e) = [i \in 1..n |-> next[i - 1]]
    <3>1. (CHOOSE k \in {n} : TRUE) = n
      OBVIOUS
    <3>2. n # 0 /\ {n} # {} /\ overflowPageCount(e.size) # 0
      BY <1>1, <1>6
    <3> QED BY ONLY Chain(pg, e) = ChainAlong(next, e), <2>8, <3>1, <3>2 DEF ChainAlong
  <2>10. \A i \in 1..n : next[i - 1] = chain[i]
    <3> SUFFICES ASSUME NEW i \in 1..n PROVE next[i - 1] = chain[i]
      OBVIOUS
    <3>1. i - 1 \in 0..(n - 1) /\ (i - 1) + 1 = i
      OBVIOUS
    <3> QED BY <2>3, <3>1
  <2>11. [i \in 1..n |-> next[i - 1]] = chain
    <3>1. chain = [i \in 1..n |-> chain[i]]
      <4>1. chain \in Seq(Nat) /\ DOMAIN chain = 1..n
        BY <1>1
      <4> QED BY ONLY <4>1
    <3> QED BY <2>10, <3>1
  <2> QED BY <1>2, <2>9, <2>11
<1> QED
  BY <1>5, <1>6

\* The handles that are live are those of blobs, and their entries say where.
Known(s, B) ==
  /\ \A id \in Nat : IsLive(s, id) <=> id \in DOMAIN B
  /\ \A id \in DOMAIN B : id \in Nat /\ Entry(s, id) = EntryOf(B[id])
  /\ Handles(s) = DOMAIN B
  /\ \A id \in DOMAIN B : Chain(s.pages, EntryOf(B[id])) = B[id].chain /\ B[id].chain # <<Junk>>

LEMMA Lives ==
  ASSUME NEW C, NEW s, NEW E, NEW V, NEW B, NEW M, NEW F,
         Mid(C, s.mem, s.pages, None, E, V, B, M, F)
  PROVE  Known(s, B)
<1>1. Handled(s.mem, s.pages, None, B, F) /\ s.mem \in Mems
  BY DEF Mid
<1>2. s.mem.handleCount \in Nat /\ DOMAIN None = {}
  BY <1>1 DEF Mems, None
<1>3. DOMAIN B \cup ToSet(F) = 0..(s.mem.handleCount - 1) /\ DOMAIN B \cap ToSet(F) = {}
  BY <1>1, <1>2 DEF Handled
<1>4. \A id, e : HasEntry(s.mem, s.pages, id, e) => Entry(s, id) = e
  BY HasGet DEF HasEntry, Entry, EntryPage
<1>5. \A id \in DOMAIN B : Entry(s, id) = EntryOf(B[id])
  BY <1>1, <1>4 DEF Handled
<1>6. \A id \in ToSet(F) : Entry(s, id).status = 0
  <2> SUFFICES ASSUME NEW id \in ToSet(F) PROVE Entry(s, id).status = 0
    OBVIOUS
  <2>1. F \in Seq(Nat) /\ DOMAIN F = 1..Len(F)
    BY <1>1 DEF Handled
  <2>2. PICK i \in 1..Len(F) : F[i] = id
    BY <2>1 DEF ToSet
  <2> QED BY <1>1, <1>4, <2>2 DEF Handled
<1>7. \A id \in Nat : IsLive(s, id) <=> id \in DOMAIN B
  <2> SUFFICES ASSUME NEW id \in Nat PROVE IsLive(s, id) <=> id \in DOMAIN B
    OBVIOUS
  <2>1. id < s.mem.handleCount <=> id \in DOMAIN B \/ id \in ToSet(F)
    BY <1>2, <1>3
  <2>2. id \in DOMAIN B => Entry(s, id).status = 1
    BY <1>5 DEF EntryOf
  <2> QED BY <1>6, <2>1, <2>2 DEF IsLive
<1>8. \A id \in DOMAIN B : id \in Nat /\ id \in 0..(s.mem.handleCount - 1)
  BY <1>2, <1>3
<1>9. Handles(s) = DOMAIN B
  <2>1. \A id \in 0..(s.mem.handleCount - 1) : id \in Nat
    BY <1>2
  <2> QED BY <1>7, <1>8, <2>1 DEF Handles
<1>10. \A id \in DOMAIN B : Chain(s.pages, EntryOf(B[id])) = B[id].chain /\ B[id].chain # <<Junk>>
  <2> SUFFICES ASSUME NEW id \in DOMAIN B
               PROVE  Chain(s.pages, EntryOf(B[id])) = B[id].chain /\ B[id].chain # <<Junk>>
    OBVIOUS
  <2> PICK b : b = B[id]
    OBVIOUS
  <2>1. IsBlob(b) /\ Placed(s.pages, b)
    BY DEF Mid
  <2>2. ASSUME NEW i \in DOMAIN b.chain PROVE b.chain[i] \in PageIds
    <3>1. Whole(b.chain[i]) \in UsedBy(B)
      BY DEF UsedBy, ExtentsOf
    <3>2. Whole(b.chain[i]).page \in PageIds
      BY <3>1, MidPages
    <3> QED BY <3>2 DEF Whole
  <2> QED BY <2>1, <2>2, ChainIs
<1> QED
  BY <1>5, <1>7, <1>8, <1>9, <1>10 DEF Known

-----------------------------------------------------------------------------
(* Deleting a blob.                                                          *)

\* The blobs without one of them.
Without(B, id) == [i \in DOMAIN B \ {id} |-> B[i]]

LEMMA WithoutUsed ==
  ASSUME NEW B, NEW id \in DOMAIN B, Owned(B)
  PROVE  /\ UsedBy(Without(B, id)) \cup ExtentsOf(B[id]) = UsedBy(B)
         /\ ExtentsOf(B[id]) \cap UsedBy(Without(B, id)) = {}
<1> PICK D : D = Without(B, id)
  OBVIOUS
<1>1. DOMAIN D = DOMAIN B \ {id} /\ \A i \in DOMAIN D : D[i] = B[i]
  BY DEF Without
<1>2. ASSUME NEW x \in UsedBy(B) PROVE x \in UsedBy(D) \cup ExtentsOf(B[id])
  <2>1. PICK i \in DOMAIN B : x \in ExtentsOf(B[i])
    BY DEF UsedBy
  <2>2. i = id \/ i \in DOMAIN D
    BY <1>1
  <2> QED BY <1>1, <2>1, <2>2 DEF UsedBy
<1>3. ASSUME NEW x \in UsedBy(D) PROVE x \in UsedBy(B) /\ x \notin ExtentsOf(B[id])
  <2>1. PICK i \in DOMAIN D : x \in ExtentsOf(D[i])
    BY DEF UsedBy
  <2>2. i \in DOMAIN B /\ i # id /\ D[i] = B[i]
    BY <1>1
  <2>3. ExtentsOf(B[i]) \cap ExtentsOf(B[id]) = {}
    BY <2>2 DEF Owned
  <2> QED BY <2>1, <2>2, <2>3 DEF UsedBy
<1>4. ExtentsOf(B[id]) \subseteq UsedBy(B)
  BY DEF UsedBy
<1> QED
  BY <1>2, <1>3, <1>4

\* A blob is taken away, and its handle is open.
LEMMA MidOpen ==
  ASSUME NEW C, NEW m, NEW pg, NEW B, NEW M, NEW F, Mid(C, m, pg, None, {}, {}, B, M, F),
         NEW id \in DOMAIN B
  PROVE  Mid(C, m, pg, Opened(id, {}), ExtentsOf(B[id]), {}, Without(B, id), M, F)
<1> PICK D, b : D = Without(B, id) /\ b = B[id]
  OBVIOUS
<1> PICK O : O = Opened(id, {})
  OBVIOUS
<1>1. DOMAIN O = {id} /\ O[id] = {} /\ DOMAIN None = {}
  BY DEF Opened, None
<1>2. DOMAIN D = DOMAIN B \ {id} /\ \A i \in DOMAIN D : D[i] = B[i] /\ i \in DOMAIN B
  BY DEF Without
<1>3. Owned(B)
  BY DEF Mid
<1>4. UsedBy(D) \cup ExtentsOf(b) = UsedBy(B) /\ ExtentsOf(b) \cap UsedBy(D) = {}
  BY <1>3, WithoutUsed
<1>5. /\ m \in Mems /\ m.pageCount \in 2..MaxPages /\ IsPages(pg)
      /\ Tiles(C, m.free \cup {}, UsedBy(B) \cup {}, m.pageCount)
      /\ Roles(m, M, m.free \cup {} \cup UsedBy(B) \cup {})
      /\ Masters(m.index, pg, M)
      /\ \A f \in m.free : Tagged(pg, f, f.size)
      /\ \A i \in DOMAIN B : IsBlob(B[i]) /\ Placed(pg, B[i])
      /\ Handled(m, pg, None, B, F)
  BY DEF Mid
<1>6. UsedBy(B) \cup {} = UsedBy(D) \cup ExtentsOf(b)
      /\ m.free \cup {} \cup UsedBy(B) \cup {} = m.free \cup {} \cup UsedBy(D) \cup ExtentsOf(b)
      /\ {} \cap m.free = {}
  BY <1>4
<1>7. Owned(D)
  BY <1>2, <1>3 DEF Owned
<1>8. Handled(m, pg, O, D, F)
  <2>1. /\ F \in Seq(Nat) /\ Injected(F) /\ m.fhlStart = Top(F)
        /\ Len(m.index) = IndexPages(m)
        /\ \A i \in 1..Len(F) :
             \E e : e.status = 0 /\ e.size = Under(F, i) /\ HasEntry(m, pg, F[i], e)
    BY <1>5 DEF Handled
  <2>2. DOMAIN B \cup ToSet(F) = 0..(m.handleCount - 1) /\ DOMAIN B \cap ToSet(F) = {}
    BY <1>1, <1>5 DEF Handled
  <2>3. /\ DOMAIN D \cup ToSet(F) \cup DOMAIN O = 0..(m.handleCount - 1)
        /\ DOMAIN D \cap ToSet(F) = {} /\ DOMAIN O \cap DOMAIN D = {} /\ DOMAIN O \cap ToSet(F) = {}
    BY <1>1, <1>2, <2>2
  <2>4. \A i \in DOMAIN D : HasEntry(m, pg, i, EntryOf(D[i]))
    BY <1>2, <1>5 DEF Handled
  <2> QED BY <1>1, <2>1, <2>3, <2>4 DEF Handled
<1>9. \A i \in DOMAIN D : IsBlob(D[i]) /\ Placed(pg, D[i])
  BY <1>2, <1>5
<1> QED
  BY <1>4, <1>5, <1>6, <1>7, <1>8, <1>9 DEF Mid

\* The handle that is open goes on top of the free ones.
LEMMA MidPush ==
  ASSUME NEW C, NEW m, NEW pg, NEW id, NEW e, NEW E, NEW V, NEW B, NEW M, NEW F,
         Mid(C, m, pg, Opened(id, {e}), E, V, B, M, F), e.status = 0, e.size = m.fhlStart
  PROVE  Mid(C, [m EXCEPT !.fhlStart = id], pg, None, E, V, B, M, Append(F, id))
<1> PICK O, G, n : O = Opened(id, {e}) /\ G = Append(F, id) /\ n = [m EXCEPT !.fhlStart = id]
  OBVIOUS
<1>1. DOMAIN O = {id} /\ O[id] = {e} /\ DOMAIN None = {}
  BY DEF Opened, None
<1>2. m \in Mems /\ Handled(m, pg, O, B, F)
  BY DEF Mid
<1>3. m.handleCount \in Nat
  BY <1>2 DEF Mems
<1>4. /\ F \in Seq(Nat) /\ Injected(F) /\ m.fhlStart = Top(F)
      /\ DOMAIN B \cup ToSet(F) \cup {id} = 0..(m.handleCount - 1)
      /\ DOMAIN B \cap ToSet(F) = {} /\ id \notin DOMAIN B /\ id \notin ToSet(F)
      /\ Len(m.index) = IndexPages(m)
      /\ \A i \in DOMAIN B : HasEntry(m, pg, i, EntryOf(B[i]))
      /\ HasEntry(m, pg, id, e)
      /\ \A i \in 1..Len(F) :
           \E f : f.status = 0 /\ f.size = Under(F, i) /\ HasEntry(m, pg, F[i], f)
  BY <1>1, <1>2 DEF Handled
<1>5. id \in 0..(m.handleCount - 1) /\ id \in Nat
  BY <1>3, <1>4
<1>6. /\ n \in Mems /\ n.fhlStart = id /\ n.handleCount = m.handleCount /\ n.pageCount = m.pageCount
      /\ n.free = m.free /\ n.index = m.index
  <2>1. /\ m = [handleCount |-> m.handleCount, pageCount |-> m.pageCount, fhlStart |-> m.fhlStart,
                free |-> m.free, index |-> m.index]
        /\ m.handleCount \in Nat /\ m.pageCount \in Nat /\ id \in Int
        /\ m.free \in SUBSET Extents /\ m.index \in Seq(Nat)
    BY <1>2, <1>5 DEF Mems
  <2>2. n = [handleCount |-> m.handleCount, pageCount |-> m.pageCount, fhlStart |-> id,
             free |-> m.free, index |-> m.index]
    BY ONLY n = [m EXCEPT !.fhlStart = id], <2>1
  <2>3. n \in Mems
    BY ONLY <2>1, <2>2 DEF Mems
  <2> QED BY <2>2, <2>3
<1> PICK k \in Nat : k = Len(F) /\ DOMAIN F = 1..k
  BY <1>4
<1>7. \A i \in DOMAIN F : F[i] # id
  BY <1>4 DEF ToSet
<1>8. /\ G \in Seq(Nat) /\ Len(G) = k + 1 /\ Injected(G) /\ G[k + 1] = id
      /\ \A i \in 1..k : G[i] = F[i]
  BY <1>4, <1>5, <1>7, Appended
<1>9. ToSet(G) = ToSet(F) \cup {id}
  BY <1>4, <1>5, AppendedSet
<1>10. Top(G) = id
  <2>1. G # <<>>
    BY <1>8
  <2> QED BY <1>8, <2>1 DEF Top
<1>11. \A i \in 1..Len(G) : \E f : f.status = 0 /\ f.size = Under(G, i) /\ HasEntry(n, pg, G[i], f)
  <2> SUFFICES ASSUME NEW i \in 1..(k + 1)
               PROVE  \E f : f.status = 0 /\ f.size = Under(G, i) /\ HasEntry(n, pg, G[i], f)
    BY <1>8
  <2>1. CASE i \in 1..k
    <3>1. Under(G, i) = Under(F, i)
      <4>1. i = 1 \/ i - 1 \in 1..k
        BY <2>1
      <4> QED BY <1>8, <4>1 DEF Under
    <3> QED BY <1>4, <1>6, <1>8, <2>1, <3>1 DEF HasEntry
  <2>2. CASE i = k + 1
    <3>1. Under(G, i) = Top(F)
      <4>1. CASE k = 0
        <5>1. F = <<>>
          <6>1. F \in Seq(Nat) /\ Len(F) = 0
            BY <1>4, <4>1
          <6> QED BY ONLY <6>1
        <5> QED BY <2>2, <4>1, <5>1 DEF Under, Top
      <4>2. CASE k # 0
        <5>1. F # <<>> /\ k \in 1..k /\ i # 1 /\ i - 1 = k
          BY <2>2, <4>2
        <5> QED BY <1>8, <5>1 DEF Under, Top
      <4> QED BY <4>1, <4>2
    <3> QED BY <1>4, <1>6, <1>8, <2>2, <3>1 DEF HasEntry
  <2> QED BY <2>1, <2>2
<1>12. Handled(n, pg, None, B, G)
  <2>1. /\ DOMAIN B \cup ToSet(G) \cup DOMAIN None = 0..(n.handleCount - 1)
        /\ DOMAIN B \cap ToSet(G) = {} /\ DOMAIN None \cap DOMAIN B = {} /\ DOMAIN None \cap ToSet(G) = {}
    BY <1>1, <1>4, <1>6, <1>9
  <2>2. Len(n.index) = IndexPages(n) /\ \A i \in DOMAIN B : HasEntry(n, pg, i, EntryOf(B[i]))
    BY <1>4, <1>6 DEF IndexPages, HasEntry
  <2> QED BY <1>1, <1>6, <1>8, <1>10, <1>11, <2>1, <2>2 DEF Handled
<1>13. Roles(n, M, n.free \cup V \cup UsedBy(B) \cup E)
  BY <1>6 DEF Mid, Roles
<1> QED
  BY <1>6, <1>12, <1>13 DEF Mid

\* A block that fills its page has no neighbours.
LEMMA WholeAlone ==
  ASSUME NEW C, Bounds(C), NEW m, NEW pg, NEW O, NEW E, NEW V, NEW B, NEW M, NEW F,
         Mid(C, m, pg, O, E, V, B, M, F), NEW p, NEW c \in m.free \cup V
  PROVE  ~Touch(Whole(p), c) /\ ~Touch(c, Whole(p))
<1>1. Shaped(C, (m.free \cup V) \cup (UsedBy(B) \cup E), m.pageCount)
  BY DEF Mid, Tiles, Covers
<1>2. c \in Extents /\ c.size > 0 /\ End(c) \in C
  BY <1>1 DEF Shaped
<1>3. End(c) <= 8192 /\ End(c) = c.offset + c.size + 4 /\ c.offset \in Nat /\ c.size \in Nat
  <2>1. \A n \in C : n \in Int /\ n <= 8192
    BY BoundsSay
  <2> QED BY <1>2, <2>1 DEF Extents, End
<1>4. End(Whole(p)) = 8192 /\ Whole(p).offset = 0
  BY DEF End, Whole, overflowSize
<1> QED
  BY <1>2, <1>3, <1>4 DEF Touch

\* The overflow pages of a blob are free blocks again.
LEMMA OverflowFreed ==
  ASSUME NEW C, Bounds(C), NEW s, NEW O, NEW B, NEW M, NEW F, NEW x,
         NEW chain \in Seq(Nat), Injected(chain), \A i \in DOMAIN chain : Whole(chain[i]) # x,
         Within(C, s, O, {x} \cup {Whole(chain[i]) : i \in DOMAIN chain}, {}, B, M, F)
  PROVE  Within(C, FreeOverflow(s, chain), O, {x}, {}, B, M, F)
<1> PICK n \in Nat : n = Len(chain) /\ DOMAIN chain = 1..n
  OBVIOUS
<1> PICK freed : FreedUpTo(s, chain, n, freed) /\ FreeOverflow(s, chain) = freed[n]
  BY FreedDefined
<1>1. freed[0] = s /\ \A i \in 0..n : i # 0 => freed[i] = AddFree(freed[i - 1], Whole(chain[i]))
  BY ONLY n \in Nat, FreedUpTo(s, chain, n, freed) DEF FreedUpTo
<1> DEFINE E(k) == {x} \cup {Whole(chain[i]) : i \in (k + 1)..n}
           S == {k \in 0..n : Within(C, freed[k], O, E(k), {}, B, M, F)}
<1>2. 0 \in S
  <2>1. E(0) = {x} \cup {Whole(chain[i]) : i \in DOMAIN chain}
    OBVIOUS
  <2> HIDE DEF E
  <2>2. Within(C, freed[0], O, E(0), {}, B, M, F) /\ 0 \in 0..n
    <3>1. Within(C, s, O, E(0), {}, B, M, F)
      BY <2>1
    <3>2. freed[0] = s /\ 0 \in 0..n
      BY <1>1
    <3> QED BY ONLY <3>1, <3>2
  <2> QED BY <2>2
<1>3. ASSUME NEW k \in 0..n, k < n, k \in S PROVE k + 1 \in S
  <2> PICK l \in 1..n : l = k + 1
    BY <1>3
  <2> PICK y : y = Whole(chain[l])
    OBVIOUS
  <2>1. E(k) \ {y} = E(l) /\ y \in E(k)
    <3>1. \A i \in (k + 1)..n : i = l \/ i \in (l + 1)..n
      OBVIOUS
    <3>2. l \in (k + 1)..n /\ \A i \in (l + 1)..n : i \in (k + 1)..n /\ i # l /\ i \in 1..n
      OBVIOUS
    <3>3. \A i \in 1..n : Whole(chain[i]) = y => i = l
      BY DEF Injected, Whole
    <3>4. y # x
      OBVIOUS
    <3>5. y \in E(k)
      BY <3>2
    <3>6. ASSUME NEW z \in E(k), z # y PROVE z \in E(l)
      <4>1. z = x \/ \E i \in (k + 1)..n : z = Whole(chain[i])
        OBVIOUS
      <4> QED BY <3>1, <3>6, <4>1
    <3>7. ASSUME NEW z \in E(l) PROVE z \in E(k) /\ z # y
      <4>1. CASE z = x
        BY <3>4, <4>1
      <4>2. CASE \E i \in (l + 1)..n : z = Whole(chain[i])
        <5> PICK i \in (l + 1)..n : z = Whole(chain[i])
          BY <4>2
        <5> QED BY <3>2, <3>3
      <4> QED BY <4>1, <4>2
    <3> HIDE DEF E
    <3> QED BY <3>5, <3>6, <3>7
  <2>2. freed[l] = AddFree(freed[k], y)
    <3>1. l \in 0..n /\ l # 0 /\ l - 1 = k
      OBVIOUS
    <3> QED BY <1>1, <3>1
  <2>3. Within(C, freed[k], O, E(k), {}, B, M, F)
    BY <1>3
  <2> HIDE DEF E
  <2>4. \A c \in freed[k].mem.free \cup {} : ~Touch(y, c) /\ ~Touch(c, y)
    BY <2>3, WholeAlone DEF Within
  <2>5. Within(C, AddFree(freed[k], y), O, E(k) \ {y}, {}, B, M, F)
    BY ONLY <2>1, <2>3, <2>4, FreeWithin
  <2>6. l \in 0..n
    OBVIOUS
  <2> QED BY <2>1, <2>2, <2>5, <2>6
<1>4. n \in S
  <2> HIDE DEF S
  <2>1. \A k \in 0..n : k \in S
    BY <1>2, <1>3, Upwards
  <2> QED BY <2>1
<1>5. E(n) = {x}
  <2>1. (n + 1)..n = {}
    OBVIOUS
  <2> QED BY <2>1
<1> HIDE DEF E
<1> QED
  BY <1>4, <1>5

\* What the tags of blocks say, and the neighbours that they have.
LEMMA TagsSay ==
  ASSUME NEW C, Bounds(C), NEW m, NEW pg, NEW O, NEW E, NEW B, NEW M, NEW F,
         Mid(C, m, pg, O, E, {}, B, M, F)
  PROVE  /\ \A c \in m.free : /\ c.size # Used /\ Tag(pg, c.page, c.offset) = c.size
                              /\ Tag(pg, c.page, c.offset + c.size + 2) = c.size
         /\ \A c \in UsedBy(B) : /\ c.offset # 0 => Tag(pg, c.page, c.offset) = Used
                                 /\ End(c) # PAGE_SIZE => Tag(pg, c.page, c.offset + c.size + 2) = Used
<1>1. \A f \in m.free : f \in Extents /\ End(f) <= PAGE_SIZE /\ Tagged(pg, f, f.size)
  <2>1. Shaped(C, (m.free \cup {}) \cup (UsedBy(B) \cup E), m.pageCount)
    BY DEF Mid, Tiles, Covers
  <2>2. \A n \in C : n <= PAGE_SIZE
    BY BoundsSay
  <2> QED BY <2>1, <2>2 DEF Shaped, Mid
<1>2. ASSUME NEW c \in m.free
      PROVE  /\ c.size # Used /\ Tag(pg, c.page, c.offset) = c.size
             /\ Tag(pg, c.page, c.offset + c.size + 2) = c.size
  <2>1. c.size # Used
    BY <1>1 DEF Extents, End, PAGE_SIZE, Used
  <2> QED BY <1>1, <2>1, HasGet DEF Tagged, Tag
<1>3. ASSUME NEW c \in UsedBy(B)
      PROVE  /\ c.offset # 0 => Tag(pg, c.page, c.offset) = Used
             /\ End(c) # PAGE_SIZE => Tag(pg, c.page, c.offset + c.size + 2) = Used
  <2> PICK id \in DOMAIN B : c \in ExtentsOf(B[id])
    BY DEF UsedBy
  <2>1. Tagged(pg, First(B[id]), Used)
    BY DEF Mid, Placed, Started
  <2>2. CASE c = First(B[id])
    BY <2>1, <2>2, HasGet DEF Tagged, Tag
  <2>3. CASE \E i \in DOMAIN B[id].chain : c = Whole(B[id].chain[i])
    BY <2>3 DEF Whole, End, overflowSize, PAGE_SIZE
  <2> QED BY <2>2, <2>3 DEF ExtentsOf
<1> QED
  BY <1>2, <1>3

Beside(free, used, x) ==
  /\ \A c \in free \cup used \cup {x} :
       c \in Extents /\ c.size > 0 /\ End(c) <= PAGE_SIZE /\ End(c) = c.offset + c.size + 4
  /\ End(x) = PAGE_SIZE \/ \E d \in free \cup used : Touch(x, d)
  /\ x.offset = 0 \/ \E d \in free \cup used : Touch(d, x)
  /\ \A c, d \in free : ~Touch(c, d)

LEMMA Neighbours ==
  ASSUME NEW C, Bounds(C), NEW m, NEW pg, NEW O, NEW x, NEW B, NEW M, NEW F,
         Mid(C, m, pg, O, {x}, {}, B, M, F)
  PROVE  Beside(m.free, UsedBy(B), x)
<1> PICK all : all = (m.free \cup {}) \cup (UsedBy(B) \cup {x})
  OBVIOUS
<1>1. Covers(C, all, m.pageCount) /\ Separate(m.free \cup {})
  BY DEF Mid, Tiles
<1>2. \A c \in all : c \in Extents /\ c.size > 0 /\ End(c) <= PAGE_SIZE /\ End(c) = c.offset + c.size + 4
  <2>1. \A n \in C : n <= PAGE_SIZE
    BY BoundsSay
  <2> QED BY <1>1, <2>1 DEF Covers, Shaped, End
<1>3. x \in all /\ \A d \in all : d # x => d \in m.free \cup UsedBy(B)
  OBVIOUS
<1>4. End(x) = PAGE_SIZE \/ \E d \in m.free \cup UsedBy(B) : Touch(x, d)
  <2>1. End(x) = PAGE_SIZE \/ \E d \in all : d.page = x.page /\ d.offset = End(x)
    BY <1>1, <1>3 DEF Covers, FilledRight
  <2>2. ~(x.offset = End(x))
    BY <1>2, <1>3 DEF Extents
  <2> QED BY <1>3, <2>1, <2>2 DEF Touch
<1>5. x.offset = 0 \/ \E d \in m.free \cup UsedBy(B) : Touch(d, x)
  <2>1. x.offset = 0 \/ \E d \in all : d.page = x.page /\ End(d) = x.offset
    BY <1>1, <1>3 DEF Covers, FilledLeft
  <2>2. ~(x.offset = End(x))
    BY <1>2, <1>3 DEF Extents
  <2> QED BY <1>3, <2>1, <2>2 DEF Touch
<1> QED
  BY <1>1, <1>2, <1>4, <1>5 DEF Separate, Beside

\* The memory without the block c in its list.
Unlisted(s, c) == [s EXCEPT !.mem.free = @ \ {c}]

LEMMA UnlistedWithin ==
  ASSUME NEW C, NEW s, NEW O, NEW B, NEW M, NEW F, NEW b, NEW c \in s.mem.free, NEW x \in Extents,
         Within(C, s, O, {b}, {}, B, M, F), x.page = b.page, x.size > 0,
         \/ Touch(c, b) /\ x.offset = c.offset /\ End(x) = End(b)
         \/ Touch(b, c) /\ x.offset = b.offset /\ End(x) = End(c)
  PROVE  /\ Within(C, Unlisted(s, c), O, {x}, {}, B, M, F)
         /\ Unlisted(s, c).mem.free = s.mem.free \ {c} /\ Unlisted(s, c).pages = s.pages
<1> PICK n, t : n = [s.mem EXCEPT !.free = @ \ {c}] /\ t = Unlisted(s, c)
  OBVIOUS
<1>1. Mid(C, n, s.pages, O, ({b} \ {b}) \cup {x}, {}, B, M, F)
  BY MidSwallow DEF Within
<1>2. ({b} \ {b}) \cup {x} = {x}
  OBVIOUS
<1>3. s = [mem |-> s.mem, pages |-> s.pages, orphan |-> s.orphan, status |-> s.status]
      /\ s.orphan \in BOOLEAN /\ s.status = "up" /\ s.status \in Statuses /\ IsPages(s.pages)
  BY DEF Within, IsState, IsTyped
<1>4. t = [s EXCEPT !.mem = n]
  BY Zenon DEF Unlisted
<1>5. t = [mem |-> n, pages |-> s.pages, orphan |-> s.orphan, status |-> s.status]
  BY <1>3, <1>4
<1>6. n \in Mems /\ n.free = s.mem.free \ {c}
  <2>1. n \in Mems
    BY <1>1 DEF Mid
  <2>2. s.mem \in Mems
    BY DEF Within, IsState, IsTyped
  <2> QED BY <2>1, <2>2 DEF Mems
<1>7. t.mem = n /\ t.pages = s.pages /\ t.status = "up" /\ IsTyped(t)
  BY <1>3, <1>5, <1>6 DEF IsTyped
<1> QED
  BY <1>1, <1>2, <1>3, <1>6, <1>7 DEF Within, IsState

\* A block that is freed swallows the free block before it.
LEMMA JoinedLeft ==
  ASSUME NEW C, Bounds(C), NEW s, NEW O, NEW B, NEW M, NEW F, NEW x,
         Within(C, s, O, {x}, {}, B, M, F), NEW j, j = JoinLeft(s, x)
  PROVE  /\ Within(C, j.s, O, {j.block}, {}, B, M, F) /\ j.s.pages = s.pages
         /\ j.block \in Extents /\ j.block.page = x.page /\ End(j.block) = End(x)
         /\ \A f \in j.s.mem.free : ~Touch(f, j.block)
<1> PICK m, pg : m = s.mem /\ pg = s.pages
  OBVIOUS
<1>1. Mid(C, m, pg, O, {x}, {}, B, M, F)
  BY DEF Within
<1>2. /\ \A c \in m.free : /\ c.size # Used /\ Tag(pg, c.page, c.offset) = c.size
                           /\ Tag(pg, c.page, c.offset + c.size + 2) = c.size
      /\ \A c \in UsedBy(B) : /\ c.offset # 0 => Tag(pg, c.page, c.offset) = Used
                              /\ End(c) # PAGE_SIZE => Tag(pg, c.page, c.offset + c.size + 2) = Used
  BY <1>1, TagsSay
<1>3. /\ \A c \in m.free \cup UsedBy(B) \cup {x} :
           c \in Extents /\ c.size > 0 /\ End(c) <= PAGE_SIZE /\ End(c) = c.offset + c.size + 4
      /\ End(x) = PAGE_SIZE \/ \E d \in m.free \cup UsedBy(B) : Touch(x, d)
      /\ x.offset = 0 \/ \E d \in m.free \cup UsedBy(B) : Touch(d, x)
      /\ \A c, d \in m.free : ~Touch(c, d)
  <2>1. Beside(m.free, UsedBy(B), x)
    BY <1>1, Neighbours
  <2> QED BY <2>1 DEF Beside
<1> PICK tag : tag = Tag(pg, x.page, x.offset - 2)
  OBVIOUS
<1>4. \A c \in m.free \cup UsedBy(B) : Touch(c, x) =>
        /\ c.page = x.page /\ c.offset + c.size + 2 = x.offset - 2 /\ x.offset # 0
        /\ End(c) # PAGE_SIZE
  <2> SUFFICES ASSUME NEW c \in m.free \cup UsedBy(B), Touch(c, x)
               PROVE  /\ c.page = x.page /\ c.offset + c.size + 2 = x.offset - 2 /\ x.offset # 0
                      /\ End(c) # PAGE_SIZE
    OBVIOUS
  <2>1. /\ c \in Extents /\ x \in Extents /\ End(c) = c.offset + c.size + 4 /\ End(x) = x.offset + x.size + 4
        /\ End(x) <= PAGE_SIZE /\ x.offset = End(c) /\ c.page = x.page
    BY <1>3 DEF Touch
  <2> QED BY <2>1 DEF Extents, PAGE_SIZE
<1> PICK c0 : c0 = [size |-> tag, page |-> x.page, offset |-> x.offset - tag - 4]
  OBVIOUS
<1>5. CASE x.offset # 0 /\ tag # Used
  <2>1. PICK c \in m.free \cup UsedBy(B) : Touch(c, x)
    BY <1>3, <1>5
  <2>2. c \in m.free /\ tag = c.size
    BY <1>2, <1>4, <1>5, <2>1
  <2>3. c.size \in Nat /\ c.offset \in Nat /\ c.page \in Nat /\ c.page = x.page /\ x.offset = c.offset + c.size + 4
        /\ c = [size |-> c.size, page |-> c.page, offset |-> c.offset] /\ x.size \in Nat /\ x.offset \in Nat
        /\ c.size > 0
    BY <1>3, <2>1 DEF Touch, Extents
  <2>4. c0 = c
    <3>1. x.offset - tag - 4 = c.offset
      BY <2>2, <2>3
    <3> QED BY <2>2, <2>3, <3>1
  <2> PICK y : y = [c EXCEPT !.size = @ + x.size + 4]
    OBVIOUS
  <2>5. y.size = c.size + x.size + 4 /\ y.page = x.page /\ y.offset = c.offset /\ y \in Extents /\ y.size > 0
    BY <2>3 DEF Extents
  <2>6. End(y) = End(x)
    BY <1>3, <2>3, <2>5 DEF End
  <2>7. j = [s |-> Unlisted(s, c), block |-> y]
    <3>1. JoinLeft(s, x) = [s |-> [s EXCEPT !.mem.free = @ \ {c0}],
                            block |-> [c0 EXCEPT !.size = @ + x.size + 4]]
      BY <1>5, Zenon DEF JoinLeft
    <3> QED BY <2>4, <3>1 DEF Unlisted
  <2>8. j.s = Unlisted(s, c) /\ j.block = y
    BY <2>7
  <2>9. /\ Within(C, Unlisted(s, c), O, {y}, {}, B, M, F)
        /\ Unlisted(s, c).mem.free = m.free \ {c} /\ Unlisted(s, c).pages = pg
    <3>1. c \in s.mem.free /\ m.free = s.mem.free /\ pg = s.pages
      BY <2>2
    <3>2. /\ Within(C, Unlisted(s, c), O, {y}, {}, B, M, F)
          /\ Unlisted(s, c).mem.free = s.mem.free \ {c} /\ Unlisted(s, c).pages = s.pages
      BY ONLY SMTT(30), Within(C, s, O, {x}, {}, B, M, F), <2>1, <2>5, <2>6, <3>1, UnlistedWithin
    <3> QED BY <3>1, <3>2
  <2>10. \A f \in m.free \ {c} : ~Touch(f, y)
    BY <1>3, <2>2, <2>3, <2>5 DEF Touch
  <2> QED BY <2>5, <2>6, <2>8, <2>9, <2>10
<1>6. CASE ~(x.offset # 0 /\ tag # Used)
  <2>1. j = [s |-> s, block |-> x]
    BY <1>6, Zenon DEF JoinLeft
  <2>2. j.s = s /\ j.block = x
    BY <2>1
  <2>3. \A f \in m.free : ~Touch(f, x)
    BY <1>2, <1>4, <1>6
  <2> QED BY <1>3, <2>2, <2>3
<1> QED
  BY <1>5, <1>6

\* A block that is freed joins its free neighbours.
LEMMA BlockFreed ==
  ASSUME NEW C, Bounds(C), NEW s, NEW O, NEW B, NEW M, NEW F, NEW x,
         Within(C, s, O, {x}, {}, B, M, F)
  PROVE  Within(C, FreeBlock(s, x), O, {}, {}, B, M, F)
<1> PICK j : j = JoinLeft(s, x)
  OBVIOUS
<1> PICK t, y : t = j.s /\ y = j.block
  OBVIOUS
<1>1. /\ Within(C, t, O, {y}, {}, B, M, F) /\ t.pages = s.pages
      /\ y \in Extents /\ y.page = x.page /\ End(y) = End(x)
      /\ \A f \in t.mem.free : ~Touch(f, y)
  BY JoinedLeft
<1> PICK m, pg : m = t.mem /\ pg = t.pages
  OBVIOUS
<1>2. Mid(C, m, pg, O, {y}, {}, B, M, F)
  BY <1>1 DEF Within
<1>3. /\ \A c \in m.free : /\ c.size # Used /\ Tag(pg, c.page, c.offset) = c.size
                           /\ Tag(pg, c.page, c.offset + c.size + 2) = c.size
      /\ \A c \in UsedBy(B) : /\ c.offset # 0 => Tag(pg, c.page, c.offset) = Used
                              /\ End(c) # PAGE_SIZE => Tag(pg, c.page, c.offset + c.size + 2) = Used
  BY <1>2, TagsSay
<1>4. /\ \A c \in m.free \cup UsedBy(B) \cup {y} :
           c \in Extents /\ c.size > 0 /\ End(c) <= PAGE_SIZE /\ End(c) = c.offset + c.size + 4
      /\ End(y) = PAGE_SIZE \/ \E d \in m.free \cup UsedBy(B) : Touch(y, d)
      /\ y.offset = 0 \/ \E d \in m.free \cup UsedBy(B) : Touch(d, y)
      /\ \A c, d \in m.free : ~Touch(c, d)
  <2>1. Beside(m.free, UsedBy(B), y)
    BY <1>2, Neighbours
  <2> QED BY <2>1 DEF Beside
<1> PICK after : after = y.offset + y.size + 4
  OBVIOUS
<1> PICK tag : tag = Tag(s.pages, x.page, after)
  OBVIOUS
<1>5. after = End(y) /\ after \in Nat /\ after # 0 /\ tag = Tag(pg, y.page, after) /\ y.size \in Nat /\ y.offset \in Nat
  BY <1>1, <1>4 DEF Extents
<1> PICK c0 : c0 = [size |-> tag, page |-> x.page, offset |-> after]
  OBVIOUS
<1>6. CASE after < PAGE_SIZE /\ tag # Used
  <2>1. PICK c \in m.free \cup UsedBy(B) : Touch(y, c)
    BY <1>4, <1>5, <1>6
  <2>2. c.page = y.page /\ c.offset = after
    BY <1>5, <2>1 DEF Touch
  <2>3. c \in m.free /\ tag = c.size
    BY <1>3, <1>5, <1>6, <2>2
  <2>4. c \in Extents /\ c.size > 0 /\ End(c) = c.offset + c.size + 4 /\ c.size \in Nat
        /\ c = [size |-> c.size, page |-> c.page, offset |-> c.offset]
    BY <1>4 DEF Extents
  <2>5. c0 = c
    BY <1>1, <2>2, <2>3, <2>4
  <2> PICK z : z = [y EXCEPT !.size = @ + tag + 4]
    OBVIOUS
  <2>6. z.size = y.size + c.size + 4 /\ z.page = y.page /\ z.offset = y.offset /\ z \in Extents /\ z.size > 0
    BY <1>1, <2>3, <2>4 DEF Extents
  <2>7. End(z) = End(c)
    BY <1>5, <2>2, <2>4, <2>6 DEF End
  <2>8. FreeBlock(s, x) = AddFree(Unlisted(t, c), z)
    <3>1. FreeBlock(s, x) = AddFree([t EXCEPT !.mem.free = @ \ {c0}], [y EXCEPT !.size = @ + tag + 4])
      BY <1>6, Zenon DEF FreeBlock
    <3> QED BY <2>5, <3>1 DEF Unlisted
  <2>9. /\ Within(C, Unlisted(t, c), O, {z}, {}, B, M, F)
        /\ Unlisted(t, c).mem.free = m.free \ {c} /\ Unlisted(t, c).pages = pg
    <3>1. c \in t.mem.free /\ m.free = t.mem.free /\ pg = t.pages
      BY <2>3
    <3>2. /\ Within(C, Unlisted(t, c), O, {z}, {}, B, M, F)
          /\ Unlisted(t, c).mem.free = t.mem.free \ {c} /\ Unlisted(t, c).pages = t.pages
      BY ONLY <1>1, <2>1, <2>6, <2>7, <3>1, UnlistedWithin
    <3> QED BY <3>1, <3>2
  <2>10. \A f \in (m.free \ {c}) \cup {} : ~Touch(z, f) /\ ~Touch(f, z)
    BY <1>1, <1>4, <2>2, <2>3, <2>6, <2>7 DEF Touch
  <2>11. Within(C, AddFree(Unlisted(t, c), z), O, {z} \ {z}, {}, B, M, F)
    <3>1. z \in {z} /\ \A f \in Unlisted(t, c).mem.free \cup {} : ~Touch(z, f) /\ ~Touch(f, z)
      BY <2>9, <2>10
    <3> QED BY ONLY <2>9, <3>1, FreeWithin
  <2>12. {z} \ {z} = {}
    OBVIOUS
  <2> QED BY <2>8, <2>11, <2>12
<1>7. CASE ~(after < PAGE_SIZE /\ tag # Used)
  <2>1. FreeBlock(s, x) = AddFree(t, y)
    BY <1>7, Zenon DEF FreeBlock
  <2>2. \A f \in m.free \cup {} : ~Touch(y, f) /\ ~Touch(f, y)
    <3> SUFFICES ASSUME NEW f \in m.free, Touch(y, f) PROVE FALSE
      BY <1>1
    <3>1. f.page = y.page /\ f.offset = after /\ tag = f.size /\ tag # Used
      BY <1>3, <1>5 DEF Touch
    <3>2. after < PAGE_SIZE
      BY <1>4, <3>1 DEF PAGE_SIZE, Extents
    <3> QED BY <1>7, <3>1, <3>2
  <2>3. Within(C, AddFree(t, y), O, {y} \ {y}, {}, B, M, F)
    <3>1. y \in {y} /\ \A f \in t.mem.free \cup {} : ~Touch(y, f) /\ ~Touch(f, y)
      BY <2>2
    <3> QED BY ONLY <1>1, <3>1, FreeWithin
  <2>4. {y} \ {y} = {}
    OBVIOUS
  <2> QED BY <2>1, <2>3, <2>4
<1> QED
  BY <1>6, <1>7

LEMMA BlobDeleted ==
  ASSUME NEW C, Bounds(C), NEW s, NEW B, NEW M, NEW F, Within(C, s, None, {}, {}, B, M, F),
         NEW id \in DOMAIN B
  PROVE  Within(C, deleteBlob(s, id), None, {}, {}, Without(B, id), M, Append(F, id))
<1> PICK b, D, G : b = B[id] /\ D = Without(B, id) /\ G = Append(F, id)
  OBVIOUS
<1> PICK e, f : e = EntryOf(b) /\ f = FreedEntry(e, s.mem.fhlStart)
  OBVIOUS
<1>1. /\ IsLive(s, id) /\ Entry(s, id) = e
      /\ Chain(s.pages, e) = b.chain /\ b.chain # <<Junk>>
  <2>1. Mid(C, s.mem, s.pages, None, {}, {}, B, M, F)
    BY DEF Within
  <2>2. Known(s, B)
    BY <2>1, Lives
  <2> QED BY <2>2 DEF Known
<1>2. f.status = 0 /\ f.size = s.mem.fhlStart
  BY DEF FreedEntry, EntryOf
<1> PICK m, pg : m = s.mem /\ pg = s.pages
  OBVIOUS
<1>3. Mid(C, m, pg, Opened(id, {}), ExtentsOf(b), {}, D, M, F)
  BY MidOpen DEF Within
<1> PICK new : new = Put(pg, m.index[(id \div handlesPerIndex) + 1], EntryAt(id), 11, f)
  OBVIOUS
<1>4. Mid(C, m, new, Opened(id, {f}), ExtentsOf(b), {}, D, M, F)
  <2>1. id \in DOMAIN Opened(id, {}) /\ [Opened(id, {}) EXCEPT ![id] = {f}] = Opened(id, {f})
    BY DEF Opened
  <2>2. Mid(C, m, new, [Opened(id, {}) EXCEPT ![id] = {f}], ExtentsOf(b), {}, D, M, F)
    BY <1>3, <2>1, MidEntry
  <2> QED BY <2>1, <2>2
<1> PICK n : n = [m EXCEPT !.fhlStart = id]
  OBVIOUS
<1>5. Mid(C, n, new, None, ExtentsOf(b), {}, D, M, G)
  BY <1>2, <1>4, MidPush
<1>6. s = [mem |-> m, pages |-> pg, orphan |-> s.orphan, status |-> "up"] /\ "up" \in Statuses
      /\ m \in Mems /\ s.orphan \in BOOLEAN
  BY DEF Within, IsState, IsTyped, Statuses
<1> PICK o \in BOOLEAN : o = s.orphan
  BY <1>6
<1> PICK h : h = UpdateHeader(PutEntry([s EXCEPT !.mem.fhlStart = id], id, f))
  OBVIOUS
<1>7. h = [mem |-> n, pages |-> new, orphan |-> TRUE, status |-> "up"]
  <2> PICK s1 : s1 = [s EXCEPT !.mem.fhlStart = id]
    OBVIOUS
  <2> PICK s2 : s2 = PutEntry(s1, id, f)
    OBVIOUS
  <2>1. s1 = [s EXCEPT !.mem = n]
    BY Zenon
  <2>2. s = [mem |-> m, pages |-> pg, orphan |-> o, status |-> "up"]
    BY ONLY <1>6, o = s.orphan
  <2>3. s1 = [mem |-> n, pages |-> pg, orphan |-> o, status |-> "up"]
    BY ONLY <2>1, <2>2
  <2>4. n.index = m.index
    BY <1>6 DEF Mems
  <2>5. s2 = [s1 EXCEPT !.pages = Put(@, EntryPage(s1, id), EntryAt(id), 11, f)]
    BY Zenon DEF PutEntry
  <2>6. EntryPage(s1, id) = m.index[(id \div handlesPerIndex) + 1] /\ s1.pages = pg
    BY <2>3, <2>4 DEF EntryPage
  <2>7. Put(s1.pages, EntryPage(s1, id), EntryAt(id), 11, f) = new
    BY <2>6
  <2>8. s2 = [s1 EXCEPT !.pages = new]
    BY <2>5, <2>7
  <2>9. s2 = [mem |-> n, pages |-> new, orphan |-> o, status |-> "up"]
    BY ONLY <2>3, <2>8
  <2>10. h = [s2 EXCEPT !.orphan = TRUE]
    BY Zenon DEF UpdateHeader
  <2> QED BY ONLY <2>9, <2>10
<1>8. h.mem = n /\ h.pages = new /\ h.status = "up"
  BY ONLY <1>7
<1>9. Within(C, h, None, ExtentsOf(b), {}, D, M, G)
  <2>1. n \in Mems /\ IsPages(new)
    BY <1>5 DEF Mid
  <2>2. IsTyped(h)
    BY ONLY <1>6, <1>7, <2>1 DEF IsTyped
  <2> QED BY <1>5, <1>8, <2>1, <2>2 DEF Within, IsState
<1>10. IsBlob(b)
  BY DEF Within, Mid
<1>11. Within(C, FreeOverflow(h, b.chain), None, {First(b)}, {}, D, M, G)
  <2>1. b.chain \in Seq(Nat) /\ Injected(b.chain) /\ \A i \in DOMAIN b.chain : Whole(b.chain[i]) # First(b)
    BY <1>10 DEF IsBlob
  <2>2. Within(C, h, None, {First(b)} \cup {Whole(b.chain[i]) : i \in DOMAIN b.chain}, {}, D, M, G)
    BY <1>9 DEF ExtentsOf
  <2> QED BY <2>1, <2>2, OverflowFreed
<1>12. Within(C, FreeBlock(FreeOverflow(h, b.chain), First(b)), None, {}, {}, D, M, G)
  BY <1>11, BlockFreed
<1>13. deleteBlob(s, id) = FreeBlock(FreeOverflow(h, b.chain), First(b))
  <2> PICK chain : chain = Chain(s.pages, e)
    OBVIOUS
  <2>1. deleteBlob(s, id) =
          CASE ~IsLive(s, id) -> s
            [] IsLive(s, id) /\ chain = <<Junk>> -> Wild(s)
            [] OTHER -> FreeBlock(FreeOverflow(h, chain), [size |-> firstBlobSize(e.size), page |-> e.page,
                                     offset |-> e.offset])
    BY <1>1, Zenon DEF deleteBlob
  <2>2. [size |-> firstBlobSize(e.size), page |-> e.page, offset |-> e.offset] = First(b)
    BY DEF First, EntryOf
  <2>3. chain = b.chain /\ chain # <<Junk>>
    BY <1>1
  <2> QED BY <1>1, <2>1, <2>2, <2>3
<1> QED
  BY <1>12, <1>13

LEMMA BlobWritten ==
  ASSUME NEW C, WellCut(C), NEW s, NEW B, NEW M, NEW F, Within(C, s, None, {}, {}, B, M, F),
         NEW id \in DOMAIN B, NEW d \in Data, writeBlob(s, id, d).mem.pageCount <= MaxPages
  PROVE  Grown(C, Without(B, id), id, d, writeBlob(s, id, d))
<1> PICK t : t = deleteBlob(s, id)
  OBVIOUS
<1>1. IsLive(s, id) /\ id \in Nat
  <2>1. Mid(C, s.mem, s.pages, None, {}, {}, B, M, F)
    BY DEF Within
  <2>2. Known(s, B)
    BY <2>1, Lives
  <2> QED BY <2>2 DEF Known
<1>2. writeBlob(s, id, d) = addBlob(t, d)
  BY <1>1 DEF writeBlob
<1>3. Within(C, t, None, {}, {}, Without(B, id), M, Append(F, id))
  BY BlobDeleted DEF WellCut
<1>4. NextHandle(t) = id
  <2> PICK G : G = Append(F, id)
    OBVIOUS
  <2>1. t.mem.fhlStart = Top(G)
    BY <1>3 DEF Within, Mid, Handled
  <2>2. F \in Seq(Nat)
    BY DEF Within, Mid, Handled
  <2>3. G # <<>> /\ G[Len(G)] = id
    BY <1>1, <2>2
  <2>4. t.mem.fhlStart = id /\ id # NULL32
    BY <1>1, <2>1, <2>3 DEF Top, NULL32
  <2> QED BY <2>4 DEF NextHandle
<1>5. /\ NextHandle(t) \in Nat /\ NextHandle(t) \notin DOMAIN Without(B, id)
      /\ Grown(C, Without(B, id), NextHandle(t), d, addBlob(t, d))
  BY <1>2, <1>3, BlobAdded
<1> QED
  BY <1>2, <1>4, <1>5

-----------------------------------------------------------------------------
(* What is read.                                                             *)

LEMMA BlobRead ==
  ASSUME NEW C, NEW s, NEW B, NEW M, NEW F, Within(C, s, None, {}, {}, B, M, F), NEW id \in DOMAIN B
  PROVE  readBlob(s, id) = B[id].blob
<1> PICK b, d : b = B[id] /\ d = b.blob
  OBVIOUS
<1> PICK e : e = EntryOf(b)
  OBVIOUS
<1> PICK chain : chain = b.chain
  OBVIOUS
<1>1. Entry(s, id) = e /\ Chain(s.pages, e) = chain /\ chain # <<Junk>>
  <2>1. Mid(C, s.mem, s.pages, None, {}, {}, B, M, F)
    BY DEF Within
  <2>2. Known(s, B)
    BY <2>1, Lives
  <2> QED BY <2>2 DEF Known
<1>2. IsBlob(b) /\ Placed(s.pages, b)
  BY DEF Within, Mid
<1>3. d \in Data /\ e.size = d.size /\ e.page = b.page /\ e.offset = b.offset
  BY <1>2 DEF IsBlob, EntryOf
<1> PICK n \in Nat : n = overflowPageCount(d.size)
  BY <1>3, SizesOfBlob
<1> PICK rem \in Nat : rem = remainder(d.size)
  BY <1>3, SizesOfBlob
<1>4. n # 0 \/ rem # 0
  <2>1. d.size = overflowSize * n + rem /\ d.size # 0
    BY <1>3, SizesOfBlob
  <2> QED BY <2>1 DEF overflowSize
<1>5. DOMAIN chain = 1..n
  BY <1>2 DEF IsBlob
<1> PICK first : first = Get(s.pages, e.page, e.offset + 2, rem, Junk)
  OBVIOUS
<1> PICK rest : rest = OverflowParts(s.pages, chain)
  OBVIOUS
<1> PICK parts : parts = rest \cup (IF rem = 0 THEN {} ELSE {first})
  OBVIOUS
<1>6. rem # 0 => first = <<d, 0>>
  BY <1>2, <1>3, HasGet DEF Placed, Started
<1>7. rest = {<<d, i>> : i \in 1..n}
  <2>1. \A i \in DOMAIN chain : Has(s.pages, chain[i], 0, overflowSize, <<d, i>>)
    BY <1>2 DEF Placed, Continued
  <2>2. \A i \in DOMAIN chain : Get(s.pages, chain[i], 0, overflowSize, Junk) = <<d, i>>
    <3> TAKE i \in DOMAIN chain
    <3> PICK p, w : p = chain[i] /\ w = <<d, i>>
      OBVIOUS
    <3>1. Has(s.pages, p, 0, overflowSize, w)
      BY <2>1
    <3>2. Get(s.pages, p, 0, overflowSize, Junk) = w
      BY ONLY <3>1, HasGet
    <3> QED BY <3>2
  <2> QED BY <1>5, <2>2 DEF OverflowParts
<1>8. parts = Parts(d)
  <2>1. Parts(d) = {<<d, i>> : i \in {j \in 0..n : j > 0 \/ rem > 0}}
    BY DEF Parts
  <2>2. CASE rem = 0
    <3>1. {j \in 0..n : j > 0 \/ rem > 0} = 1..n
      BY <2>2
    <3> QED BY <1>7, <2>1, <2>2, <3>1
  <2>3. CASE rem # 0
    <3>1. {j \in 0..n : j > 0 \/ rem > 0} = {0} \cup 1..n
      BY <2>3
    <3>2. Parts(d) = {<<d, i>> : i \in {0} \cup 1..n}
      BY <2>1, <3>1
    <3> QED BY <1>6, <1>7, <2>3, <3>2
  <2> QED BY <2>2, <2>3
<1>9. \E i \in Nat : <<d, i>> \in Parts(d)
  <2>1. PICK i \in 0..n : i > 0 \/ rem > 0
    <3>1. CASE n # 0
      <4>1. n \in 0..n /\ n > 0
        BY <3>1
      <4> QED BY <4>1
    <3>2. CASE rem # 0
      <4>1. 0 \in 0..n /\ rem > 0
        BY <3>2
      <4> QED BY <4>1
    <3> QED BY <1>4, <3>1, <3>2
  <2> QED BY <2>1 DEF Parts
<1>10. \A c \in Data : Parts(c) = parts => c = d
  <2> SUFFICES ASSUME NEW c \in Data, Parts(c) = Parts(d) PROVE c = d
    BY <1>8
  <2> PICK i \in Nat : <<d, i>> \in Parts(c)
    BY <1>9
  <2> QED BY DEF Parts
<1> PICK read : read = {c \in Data : c.size = e.size /\ Parts(c) = parts}
  OBVIOUS
<1>11. read = {d}
  BY <1>3, <1>8, <1>10
<1>12. BlobOf(e.size, parts) = d
  <2> PICK size : size = e.size
    OBVIOUS
  <2>1. {c \in Data : c.size = size /\ Parts(c) = parts} = {d}
    BY <1>11
  <2> QED BY <2>1 DEF BlobOf
<1>13. readBlob(s, id) = IF chain = <<Junk>> THEN JunkBlob ELSE BlobOf(e.size, parts)
  <2>1. remainder(e.size) = rem
    BY <1>3
  <2> QED BY <1>1, <2>1, Zenon DEF readBlob
<1> QED
  BY <1>1, <1>12, <1>13

\* The data of the blobs.
DataOf(B) == [id \in DOMAIN B |-> B[id].blob]

LEMMA AllRead ==
  ASSUME NEW C, NEW s, NEW B, NEW M, NEW F, Within(C, s, None, {}, {}, B, M, F)
  PROVE  Reads(s) = DataOf(B)
<1>1. Handles(s) = DOMAIN B
  <2>1. Mid(C, s.mem, s.pages, None, {}, {}, B, M, F)
    BY DEF Within
  <2>2. Known(s, B)
    BY <2>1, Lives
  <2> QED BY <2>2 DEF Known
<1>2. \A id \in DOMAIN B : readBlob(s, id) = B[id].blob
  BY BlobRead
<1> QED
  BY <1>1, <1>2 DEF Reads, DataOf

-----------------------------------------------------------------------------
(* The blocks of SpaceAccounted, and their tags.                             *)

Mark(x, tag) == [size |-> x.size, page |-> x.page, offset |-> x.offset, tag |-> tag]
Marks(B, free, x, tag) ==
  \/ x \in free /\ tag = x.size
  \/ \E id \in DOMAIN B : x = First(B[id]) /\ tag = Used
  \/ \E id \in DOMAIN B : \E i \in DOMAIN B[id].chain : x = Whole(B[id].chain[i]) /\ tag = Junk

\* The blocks of one blob that are in use.
MarksOf(e, chain) ==
  {[size |-> firstBlobSize(e.size), page |-> e.page, offset |-> e.offset, tag |-> Used]}
    \cup {[size |-> overflowSize, page |-> p, offset |-> 0, tag |-> Junk] : p \in ToSet(chain)}

LEMMA MarksOfIs ==
  ASSUME NEW b, IsBlob(b), NEW c
  PROVE  c \in MarksOf(EntryOf(b), b.chain) <=>
           \/ c = Mark(First(b), Used)
           \/ \E i \in DOMAIN b.chain : c = Mark(Whole(b.chain[i]), Junk)
<1>1. Mark(First(b), Used) = [size |-> firstBlobSize(EntryOf(b).size), page |-> EntryOf(b).page,
                              offset |-> EntryOf(b).offset, tag |-> Used]
  BY DEF Mark, First, EntryOf
<1>2. \A p : Mark(Whole(p), Junk) = [size |-> overflowSize, page |-> p, offset |-> 0, tag |-> Junk]
  BY DEF Mark, Whole
<1>3. ToSet(b.chain) = {b.chain[i] : i \in DOMAIN b.chain}
  BY DEF ToSet
<1> QED
  BY <1>1, <1>2, <1>3 DEF MarksOf

LEMMA UsedBlocksAre ==
  ASSUME NEW C, NEW B, NEW M, NEW F, Mid(C, mem, pages, None, {}, {}, B, M, F), NEW c
  PROVE  c \in UsedBlocks <=>
           \/ \E id \in DOMAIN B : c = Mark(First(B[id]), Used)
           \/ \E id \in DOMAIN B : \E i \in DOMAIN B[id].chain : c = Mark(Whole(B[id].chain[i]), Junk)
<1>1. Now.mem = mem /\ Now.pages = pages
  BY DEF Now
<1>2. Known(Now, B)
  <2> PICK s : s = Now
    OBVIOUS
  <2>1. Mid(C, s.mem, s.pages, None, {}, {}, B, M, F)
    BY <1>1
  <2>2. Known(s, B)
    BY ONLY <2>1, Lives
  <2> QED BY <2>2
<1>3. UsedBlocks = UNION {MarksOf(Entry(Now, id), Chain(pages, Entry(Now, id))) : id \in Handles(Now)}
  BY Zenon DEF UsedBlocks, MarksOf
<1>4. UsedBlocks = UNION {MarksOf(EntryOf(B[id]), B[id].chain) : id \in DOMAIN B}
  <2>1. Handles(Now) = DOMAIN B
    BY <1>2 DEF Known
  <2>2. ASSUME NEW id \in DOMAIN B
        PROVE  Entry(Now, id) = EntryOf(B[id]) /\ Chain(pages, Entry(Now, id)) = B[id].chain
    BY <1>1, <1>2 DEF Known
  <2>3. \A id \in DOMAIN B : MarksOf(Entry(Now, id), Chain(pages, Entry(Now, id)))
                               = MarksOf(EntryOf(B[id]), B[id].chain)
    BY <2>2
  <2> QED BY ONLY <1>3, <2>1, <2>3
<1>5. \A id \in DOMAIN B : IsBlob(B[id])
  BY DEF Mid
<1>6. c \in UsedBlocks <=> \E id \in DOMAIN B : c \in MarksOf(EntryOf(B[id]), B[id].chain)
  BY ONLY <1>4
<1>7. \A id \in DOMAIN B : c \in MarksOf(EntryOf(B[id]), B[id].chain) <=>
           \/ c = Mark(First(B[id]), Used)
           \/ \E i \in DOMAIN B[id].chain : c = Mark(Whole(B[id].chain[i]), Junk)
  <2> TAKE id \in DOMAIN B
  <2> PICK b : b = B[id]
    OBVIOUS
  <2>1. IsBlob(b)
    BY <1>5
  <2>2. c \in MarksOf(EntryOf(b), b.chain) <=>
           \/ c = Mark(First(b), Used)
           \/ \E i \in DOMAIN b.chain : c = Mark(Whole(b.chain[i]), Junk)
    BY ONLY <2>1, MarksOfIs
  <2> QED BY <2>2
<1> QED
  BY ONLY <1>6, <1>7

LEMMA BlocksAre ==
  ASSUME NEW C, NEW B, NEW M, NEW F, Mid(C, mem, pages, None, {}, {}, B, M, F), NEW c
  PROVE  /\ c \in Blocks <=> \E x, tag : Marks(B, mem.free, x, tag) /\ c = Mark(x, tag)
         /\ c \in FreeBlocks <=> \E x \in mem.free : c = Mark(x, x.size)
         /\ c \in UsedBlocks => \E x \in UsedBy(B) : \E tag : c = Mark(x, tag)
<1>1. c \in FreeBlocks <=> \E x \in mem.free : c = Mark(x, x.size)
  BY DEF FreeBlocks, Mark
<1> PICK U : U = UsedBlocks
  OBVIOUS
<1>2. c \in U <=>
           \/ \E id \in DOMAIN B : c = Mark(First(B[id]), Used)
           \/ \E id \in DOMAIN B : \E i \in DOMAIN B[id].chain : c = Mark(Whole(B[id].chain[i]), Junk)
  BY UsedBlocksAre
<1>3. c \in Blocks <=> c \in U \/ c \in FreeBlocks
  BY DEF Blocks
<1>4. c \in U => \E x \in UsedBy(B) : \E tag : c = Mark(x, tag)
  <2>1. \A id \in DOMAIN B : First(B[id]) \in UsedBy(B)
    BY DEF UsedBy, ExtentsOf
  <2>2. \A id \in DOMAIN B : \A i \in DOMAIN B[id].chain : Whole(B[id].chain[i]) \in UsedBy(B)
    BY DEF UsedBy, ExtentsOf
  <2> QED BY ONLY <1>2, <2>1, <2>2
<1>5. c \in Blocks <=> \E x, tag : Marks(B, mem.free, x, tag) /\ c = Mark(x, tag)
  BY ONLY <1>1, <1>2, <1>3 DEF Marks
<1> QED
  BY <1>1, <1>4, <1>5

\* A block has one tag, and every block has one.
OneTag(B, free, all) ==
  /\ \A x, tag : Marks(B, free, x, tag) => x \in all
  /\ \A x \in all : \E tag : Marks(B, free, x, tag)
  /\ \A x, tag, other : Marks(B, free, x, tag) /\ Marks(B, free, x, other) => tag = other

LEMMA MarksOnce ==
  ASSUME NEW C, NEW m, NEW pg, NEW B, NEW M, NEW F, Mid(C, m, pg, None, {}, {}, B, M, F)
  PROVE  OneTag(B, m.free, m.free \cup UsedBy(B))
<1>1. m.free \cap UsedBy(B) = {}
  BY DEF Mid, Tiles
<1>2. UsedBy(B) = UNION {ExtentsOf(B[id]) : id \in DOMAIN B}
  BY DEF UsedBy
<1>3. \A id \in DOMAIN B : IsBlob(B[id])
  BY DEF Mid
<1>4. Owned(B)
  BY DEF Mid
<1>5. ASSUME NEW x, NEW tag, Marks(B, m.free, x, tag) PROVE x \in m.free \cup UsedBy(B)
  BY <1>2, <1>5 DEF Marks, ExtentsOf
<1>6. ASSUME NEW x \in m.free \cup UsedBy(B) PROVE \E tag : Marks(B, m.free, x, tag)
  <2>1. CASE x \in m.free
    <3>1. Marks(B, m.free, x, x.size)
      BY <2>1 DEF Marks
    <3> QED BY <3>1
  <2>2. CASE x \in UsedBy(B)
    <3> PICK id \in DOMAIN B : x \in ExtentsOf(B[id])
      BY <1>2, <2>2
    <3>1. CASE x = First(B[id])
      <4>1. Marks(B, m.free, x, Used)
        BY <3>1 DEF Marks
      <4> QED BY <4>1
    <3>2. CASE x # First(B[id])
      <4>1. Marks(B, m.free, x, Junk)
        BY <3>2 DEF Marks, ExtentsOf
      <4> QED BY <4>1
    <3> QED BY <3>1, <3>2
  <2> QED BY <2>1, <2>2
<1>7. ASSUME NEW id \in DOMAIN B, NEW o \in DOMAIN B, NEW i \in DOMAIN B[o].chain
      PROVE  First(B[id]) # Whole(B[o].chain[i])
  <2>1. CASE id = o
    BY <1>3, <2>1 DEF IsBlob
  <2>2. CASE id # o
    <3>1. First(B[id]) \in ExtentsOf(B[id]) /\ Whole(B[o].chain[i]) \in ExtentsOf(B[o])
      BY DEF ExtentsOf
    <3>2. ExtentsOf(B[id]) \cap ExtentsOf(B[o]) = {}
      BY <1>4, <2>2 DEF Owned
    <3> QED BY <3>1, <3>2
  <2> QED BY <2>1, <2>2
<1>8. ASSUME NEW x, NEW tag, NEW other, Marks(B, m.free, x, tag), Marks(B, m.free, x, other)
      PROVE  tag = other
  <2>1. CASE x \in m.free
    <3>1. x \notin UsedBy(B)
      BY <1>1, <2>1
    <3>2. \A id \in DOMAIN B : x \notin ExtentsOf(B[id])
      BY <1>2, <3>1
    <3>3. \A t : Marks(B, m.free, x, t) => t = x.size
      BY <3>2 DEF Marks, ExtentsOf
    <3> QED BY <1>8, <3>3
  <2>2. CASE x \notin m.free
    BY <1>7, <1>8, <2>2 DEF Marks
  <2> QED BY <2>1, <2>2
<1> QED
  BY <1>5, <1>6, <1>8 DEF OneTag

-----------------------------------------------------------------------------
(* What the invariant says of the properties.                                *)

LEMMA TaggedSays ==
  ASSUME NEW pg, NEW x, NEW tag, Tagged(pg, x, tag)
  PROVE  Tag(pg, x.page, x.offset) = tag /\ Tag(pg, x.page, x.offset + x.size + 2) = tag
<1> PICK p, a, z : p = x.page /\ a = x.offset /\ z = x.offset + x.size + 2
  OBVIOUS
<1>1. Has(pg, p, a, 2, tag) /\ Has(pg, p, z, 2, tag)
  BY DEF Tagged
<1>2. Get(pg, p, a, 2, 0) = tag
  BY ONLY <1>1, HasGet
<1>3. Get(pg, p, z, 2, 0) = tag
  BY ONLY <1>1, HasGet
<1> QED
  BY <1>2, <1>3 DEF Tag

LEMMA TiledHolds ==
  ASSUME NEW C, Bounds(C), NEW B, NEW M, NEW F, Mid(C, mem, pages, None, {}, {}, B, M, F)
  PROVE  Tiled
<1> PICK m, pg : m = mem /\ pg = pages
  OBVIOUS
<1> PICK all : all = m.free \cup UsedBy(B)
  OBVIOUS
<1>1. Mid(C, m, pg, None, {}, {}, B, M, F)
  OBVIOUS
<1>2. Covers(C, all, m.pageCount) /\ Separate(m.free)
  <2>1. m.free \cup {} = m.free /\ UsedBy(B) \cup {} = UsedBy(B)
    OBVIOUS
  <2> QED BY <1>1, <2>1 DEF Mid, Tiles
<1>3. \A n \in C : n \in Int /\ n <= 8192
  BY BoundsSay
<1>4. \A x \in all : x \in Extents /\ End(x) = x.offset + x.size + 4 /\ End(x) <= PAGE_SIZE
  BY <1>2, <1>3 DEF Covers, Shaped, End, PAGE_SIZE
<1>5. /\ \A x, tag : Marks(B, m.free, x, tag) => x \in all
      /\ \A x \in all : \E tag : Marks(B, m.free, x, tag)
      /\ \A x, tag, other : Marks(B, m.free, x, tag) /\ Marks(B, m.free, x, other) => tag = other
  <2>1. OneTag(B, m.free, all)
    BY ONLY <1>1, all = m.free \cup UsedBy(B), MarksOnce
  <2> QED BY ONLY <2>1 DEF OneTag
<1>6. \A c : c \in Blocks <=> \E x, tag : Marks(B, m.free, x, tag) /\ c = Mark(x, tag)
  BY BlocksAre
<1>7. \A c : c \in FreeBlocks <=> \E x \in m.free : c = Mark(x, x.size)
  BY BlocksAre
<1>8. \A x, tag : Mark(x, tag).page = x.page /\ Mark(x, tag).offset = x.offset
                  /\ Mark(x, tag).size = x.size /\ Mark(x, tag).tag = tag
  BY DEF Mark
<1>9. ASSUME NEW b \in Blocks
      PROVE  /\ b.offset + b.size + 4 <= PAGE_SIZE
             /\ b.tag # Junk => Tag(pages, b.page, b.offset) = b.tag
                                /\ Tag(pages, b.page, b.offset + b.size + 2) = b.tag
             /\ b.offset + b.size + 4 < PAGE_SIZE =>
                  Cardinality({c \in Blocks : c.page = b.page
                                              /\ c.offset = b.offset + b.size + 4}) = 1
  <2> PICK x, tag : Marks(B, m.free, x, tag) /\ b = Mark(x, tag)
    BY <1>6
  <2>1. b.page = x.page /\ b.offset = x.offset /\ b.size = x.size /\ b.tag = tag
    BY <1>8
  <2>2. x \in all /\ x \in Extents /\ End(x) = x.offset + x.size + 4 /\ End(x) <= PAGE_SIZE
    BY <1>4, <1>5
  <2>3. ASSUME tag # Junk
        PROVE  Tag(pg, x.page, x.offset) = tag /\ Tag(pg, x.page, x.offset + x.size + 2) = tag
    <3>1. Tagged(pg, x, tag)
      <4>1. CASE x \in m.free /\ tag = x.size
        BY <1>1, <4>1 DEF Mid
      <4>2. CASE \E id \in DOMAIN B : x = First(B[id]) /\ tag = Used
        BY <1>1, <4>2 DEF Mid, Placed, Started
      <4> QED BY <2>3, <4>1, <4>2 DEF Marks
    <3> QED BY <3>1, TaggedSays
  <2>4. ASSUME End(x) < PAGE_SIZE
        PROVE  Cardinality({c \in Blocks : c.page = x.page /\ c.offset = End(x)}) = 1
    <3> PICK y \in all : y.page = x.page /\ y.offset = End(x)
      BY <1>2, <2>2, <2>4 DEF Covers, FilledRight, PAGE_SIZE
    <3> PICK other : Marks(B, m.free, y, other)
      BY <1>5
    <3> PICK z : z = Mark(y, other)
      OBVIOUS
    <3>1. z \in Blocks /\ z.page = x.page /\ z.offset = End(x)
      BY <1>6, <1>8
    <3>2. ASSUME NEW c \in Blocks, c.page = x.page, c.offset = End(x) PROVE c = z
      <4> PICK w, t : Marks(B, m.free, w, t) /\ c = Mark(w, t)
        BY <1>6
      <4>1. w.page = y.page /\ w.offset = y.offset /\ w \in all
        BY <1>5, <1>8, <3>2
      <4>2. w = y
        BY <1>2, <4>1, SameStart
      <4>3. t = other
        BY <1>5, <4>2
      <4> QED BY <4>2, <4>3
    <3>3. {c \in Blocks : c.page = x.page /\ c.offset = End(x)} = {z}
      BY <3>1, <3>2
    <3> QED BY <3>3, FS_Singleton
  <2> QED BY <2>1, <2>2, <2>3, <2>4
<1>10. ASSUME NEW b \in FreeBlocks, NEW c \in FreeBlocks, b.page = c.page
       PROVE  c.offset # b.offset + b.size + 4
  <2> PICK x \in m.free : b = Mark(x, x.size)
    BY <1>7
  <2> PICK y \in m.free : c = Mark(y, y.size)
    BY <1>7
  <2>1. ~Touch(x, y)
    BY <1>2 DEF Separate
  <2> QED BY <1>8, <1>10, <2>1 DEF Touch, End
<1>11. ASSUME NEW b \in Blocks, NEW c \in Blocks, b.page = c.page, b # c
       PROVE  c.offset >= b.offset + b.size + 4 \/ b.offset >= c.offset + c.size + 4
  <2> PICK x, tag : Marks(B, m.free, x, tag) /\ b = Mark(x, tag)
    BY <1>6
  <2> PICK y, other : Marks(B, m.free, y, other) /\ c = Mark(y, other)
    BY <1>6
  <2>1. x \in all /\ y \in all /\ x # y
    BY <1>5, <1>11
  <2>2. Clear(x, y)
    BY <1>2, <2>1 DEF Covers, Disjoint
  <2>3. x.page = y.page
    BY <1>8, <1>11
  <2>4. /\ x.offset = b.offset /\ x.size = b.size /\ y.offset = c.offset /\ y.size = c.size
        /\ x \in Extents /\ y \in Extents
    BY <1>4, <1>8, <2>1
  <2> QED BY <2>2, <2>3, <2>4 DEF Clear, End, Extents
<1> QED
  BY <1>9, <1>10, <1>11 DEF Tiled

LEMMA DivOrder ==
  ASSUME NEW i \in Nat, NEW n \in Nat, i <= n, NEW per \in Nat \ {0}
  PROVE  i \div per <= n \div per
<1> PICK q, o, r, t : q = i \div per /\ o = n \div per /\ r = i % per /\ t = n % per
  OBVIOUS
<1>1. q \in Nat /\ r \in 0..(per - 1) /\ i = per * q + r
  BY DivMod
<1>2. o \in Nat /\ t \in 0..(per - 1) /\ n = per * o + t
  BY DivMod
<1>3. ASSUME q >= o + 1 PROVE FALSE
  <2>1. per * q >= per * (o + 1)
    BY ONLY <1>1, <1>2, <1>3, per \in Nat \ {0}
  <2>2. per * (o + 1) = per * o + per /\ per * o \in Nat /\ per * q \in Nat
    BY ONLY <1>1, <1>2, per \in Nat \ {0}
  <2> PICK a, b \in Nat : a = per * o /\ b = per * q
    BY <2>2
  <2> QED BY ONLY <1>1, <1>2, <2>1, <2>2, i <= n, a = per * o, b = per * q, a \in Nat, b \in Nat,
             per \in Nat \ {0}
<1>4. q <= o
  BY ONLY <1>1, <1>2, <1>3
<1> QED
  BY <1>4

LEMMA PagesAccountedHolds ==
  ASSUME NEW C, NEW B, NEW M, NEW F, Mid(C, mem, pages, None, {}, {}, B, M, F)
  PROVE  PagesAccounted
<1> PICK m, pg : m = mem /\ pg = pages
  OBVIOUS
<1> PICK all : all = m.free \cup UsedBy(B)
  OBVIOUS
<1>1. Mid(C, m, pg, None, {}, {}, B, M, F)
  OBVIOUS
<1>2. Roles(m, M, all) /\ Masters(m.index, pg, M) /\ Handled(m, pg, None, B, F)
  <2>1. m.free \cup {} \cup UsedBy(B) \cup {} = all
    OBVIOUS
  <2> QED BY <1>1, <2>1 DEF Mid
<1>3. /\ Listed(m.index, pg, M) /\ m.index \in Seq(Nat) /\ M \in Seq(Nat) /\ M[1] = 1
      /\ Len(M) = MastersFor(Len(m.index)) /\ Len(m.index) = IndexPages(m)
  BY <1>2 DEF Masters, Listed, Handled
<1> PICK n \in Nat : n = Len(m.index) /\ DOMAIN m.index = 1..n
  BY <1>3
<1> PICK k \in Nat : k = Len(M) /\ DOMAIN M = 1..k
  BY <1>3
<1> PICK per \in Nat \ {0} : per = indexesPerMasterIndex
  BY SizesAssumption
<1>4. n = 0 => k = 1
  BY <1>3 DEF MastersFor
<1>5. n # 0 => k = ((n - 1) \div per) + 1 /\ (n - 1) \div per \in Nat
  <2> SUFFICES ASSUME n # 0 PROVE k = ((n - 1) \div per) + 1 /\ (n - 1) \div per \in Nat
    OBVIOUS
  <2>1. n - 1 \in Nat
    OBVIOUS
  <2>2. (n - 1) \div per \in Nat
    BY ONLY <2>1, per \in Nat \ {0}, DivMod
  <2> QED BY <1>3, <2>2 DEF MastersFor
<1>6. \A i \in 0..(k - 1) : Master(pg, i) = M[i + 1]
  BY <1>3, MasterIs
<1>7. (IF m.index = <<>> THEN {1} ELSE MasterPages) = ToSet(M)
  <2>1. ToSet(M) = {M[i] : i \in 1..k}
    BY DEF ToSet
  <2>2. CASE n = 0
    BY <1>3, <1>4, <2>1, <2>2
  <2>3. CASE n # 0
    <3>1. MasterPages = {Master(pg, i) : i \in 0..(k - 1)}
      <4>1. (Len(mem.index) - 1) \div indexesPerMasterIndex = k - 1
        <5>1. Len(mem.index) = n /\ indexesPerMasterIndex = per
          OBVIOUS
        <5>2. (n - 1) \div per = k - 1
          BY ONLY <1>5, <2>3
        <5> QED BY <5>1, <5>2
      <4> QED BY <4>1 DEF MasterPages
    <3>2. MasterPages = {M[i + 1] : i \in 0..(k - 1)}
      BY <1>6, <3>1
    <3>3. {M[i + 1] : i \in 0..(k - 1)} = {M[i] : i \in 1..k}
      <4>1. ASSUME NEW x \in {M[i + 1] : i \in 0..(k - 1)} PROVE x \in {M[i] : i \in 1..k}
        <5> PICK i \in 0..(k - 1) : x = M[i + 1]
          BY <4>1
        <5>1. i + 1 \in 1..k
          OBVIOUS
        <5> QED BY <5>1
      <4>2. ASSUME NEW x \in {M[i] : i \in 1..k} PROVE x \in {M[i + 1] : i \in 0..(k - 1)}
        <5> PICK i \in 1..k : x = M[i]
          BY <4>2
        <5> PICK j \in 0..(k - 1) : i = j + 1
          <6>1. i - 1 \in 0..(k - 1) /\ i = (i - 1) + 1
            OBVIOUS
          <6> QED BY <6>1
        <5>1. x = M[j + 1]
          OBVIOUS
        <5> QED BY <5>1
      <4> QED BY <4>1, <4>2
    <3>4. m.index # <<>>
      BY <2>3
    <3> QED BY <2>1, <3>2, <3>3, <3>4
  <2> QED BY <2>2, <2>3
<1>8. {b.page : b \in Blocks} = PageSet(all)
  <2>1. \A c : c \in Blocks <=> \E x, tag : Marks(B, m.free, x, tag) /\ c = Mark(x, tag)
    BY BlocksAre
  <2>2. OneTag(B, m.free, all)
    BY ONLY <1>1, all = m.free \cup UsedBy(B), MarksOnce
  <2>3. \A x, tag : Mark(x, tag).page = x.page
    BY DEF Mark
  <2> QED BY ONLY <2>1, <2>2, <2>3 DEF PageSet, OneTag
<1>9. ASSUME NEW i \in 1..n
      PROVE  EntryOnMaster(i - 1) = m.index[i]
  <2>1. Has(pg, M[Row(i)], Place(i), 4, m.index[i])
    BY <1>3 DEF Listed
  <2> PICK q \in Nat : q = (i - 1) \div per
    <3>1. i - 1 \in Nat
      OBVIOUS
    <3>2. (i - 1) \div per \in Nat
      BY ONLY <3>1, per \in Nat \ {0}, DivMod
    <3> QED BY <3>2
  <2>2. q \in 0..(k - 1)
    <3>1. i - 1 \in Nat /\ n - 1 \in Nat /\ i - 1 <= n - 1 /\ n # 0
      BY ONLY i \in 1..n, n \in Nat
    <3> PICK h, l : h = i - 1 /\ l = n - 1
      OBVIOUS
    <3>2. h \in Nat /\ l \in Nat /\ h <= l
      BY <3>1
    <3>3. h \div per <= l \div per
      BY ONLY <3>2, per \in Nat \ {0}, DivOrder
    <3>4. q = h \div per /\ k = (l \div per) + 1 /\ l \div per \in Nat
      BY ONLY <1>5, <3>1, q = (i - 1) \div per, h = i - 1 /\ l = n - 1
    <3> QED BY ONLY <3>3, <3>4, q \in Nat
  <2>3. Master(pg, q) = M[Row(i)]
    BY <1>6, <2>2 DEF Row
  <2> PICK p, at, w : p = M[Row(i)] /\ at = Place(i) /\ w = m.index[i]
    OBVIOUS
  <2>4. Get(pg, p, at, 4, NULL32) = w
    BY ONLY <2>1, p = M[Row(i)], at = Place(i), w = m.index[i], HasGet
  <2> QED BY <2>3, <2>4 DEF Place, EntryOnMaster
<1> QED
  BY <1>2, <1>7, <1>8, <1>9 DEF PagesAccounted, Roles

\* The chain of the handles that are not in use: F, from its end.
LEMMA HandlesChainedHolds ==
  ASSUME NEW C, NEW B, NEW M, NEW F, Mid(C, mem, pages, None, {}, {}, B, M, F)
  PROVE  HandlesChained
<1> PICK m, pg, s : m = mem /\ pg = pages /\ s = Now
  OBVIOUS
<1>1. s.mem = m /\ s.pages = pg
  BY DEF Now
<1>2. Mid(C, s.mem, s.pages, None, {}, {}, B, M, F)
  BY <1>1
<1>3. Handled(m, pg, None, B, F) /\ m \in Mems
  BY <1>1, <1>2 DEF Mid
<1> PICK n \in Nat : n = m.handleCount
  BY <1>3 DEF Mems
<1> PICK k \in Nat : k = Len(F) /\ DOMAIN F = 1..k
  BY <1>3 DEF Handled
<1>4. /\ F \in Seq(Nat) /\ Injected(F) /\ m.fhlStart = Top(F)
      /\ DOMAIN B \cup ToSet(F) = 0..(n - 1) /\ DOMAIN B \cap ToSet(F) = {}
  <2>1. DOMAIN None = {}
    BY DEF None
  <2> QED BY <1>3, <2>1 DEF Handled
<1>5. ToSet(F) = {F[i] : i \in 1..k}
  BY DEF ToSet
<1>6. Handles(s) = DOMAIN B
  <2>1. Known(s, B)
    BY ONLY <1>2, Lives
  <2> QED BY <2>1 DEF Known
<1>7. k <= n
  <2>1. \A i \in DOMAIN F : F[i] \in 0..(n - 1)
    BY <1>4, <1>5
  <2>2. IsFiniteSet(0..(n - 1)) /\ Cardinality(0..(n - 1)) = n
    <3> PICK z \in Int : z = n - 1
      OBVIOUS
    <3>1. 0 \in Int /\ z \in Int /\ (IF 0 > z THEN 0 ELSE z - 0 + 1) = n
      OBVIOUS
    <3>2. IsFiniteSet(0..z) /\ Cardinality(0..z) = IF 0 > z THEN 0 ELSE z - 0 + 1
      BY ONLY <3>1, FS_Interval
    <3> QED BY <3>1, <3>2
  <2> PICK S : S = 0..(n - 1)
    OBVIOUS
  <2>3. Len(F) <= Cardinality(S)
    BY ONLY <1>4, <2>1, <2>2, S = 0..(n - 1), ChainRoom
  <2> QED BY <2>2, <2>3
<1>8. s.mem.handleCount \in Nat
  BY <1>1
<1> PICK handle : HandleUpTo(s, s.mem.handleCount, handle) /\ FreeHandles(s) = handle
  BY <1>8, HandleDefined
<1>9. /\ DOMAIN handle = 0..n /\ handle[0] = Top(F)
      /\ \A i \in 0..n : i # 0 =>
           handle[i] = IF handle[i - 1] = NULL32 THEN NULL32 ELSE Entry(s, handle[i - 1]).size
  BY <1>1, <1>4 DEF HandleUpTo
<1> DEFINE At(i) == IF i < k THEN F[k - i] ELSE NULL32
<1>10. ASSUME NEW i \in 1..k PROVE F[i] \in Nat /\ F[i] # NULL32 /\ Entry(s, F[i]).size = Under(F, i)
  <2>1. F[i] \in Nat
    BY <1>4
  <2>2. PICK e : e.status = 0 /\ e.size = Under(F, i) /\ HasEntry(m, pg, F[i], e)
    BY <1>3 DEF Handled
  <2> PICK p, a, id : p = m.index[(id \div handlesPerIndex) + 1] /\ a = EntryAt(id) /\ id = F[i]
    OBVIOUS
  <2>3. Has(pg, p, a, 11, e)
    BY <2>2 DEF HasEntry
  <2>4. Get(pg, p, a, 11, NoEntry) = e
    BY ONLY <2>3, HasGet
  <2>5. Entry(s, F[i]) = e
    BY <1>1, <2>4 DEF Entry, EntryPage
  <2> QED BY <2>1, <2>2, <2>5 DEF NULL32
<1>11. \A i \in 0..n : i \in {j \in 0..n : handle[j] = At(j)}
  <2> PICK S : S = {j \in 0..n : handle[j] = At(j)}
    OBVIOUS
  <2>1. 0 \in S
    <3>1. Top(F) = At(0)
      BY <1>4 DEF Top
    <3> QED BY <1>9, <3>1
  <2>2. ASSUME NEW i \in 0..n, i < n, i \in S PROVE i + 1 \in S
    <3>1. i + 1 \in 0..n /\ (i + 1) - 1 = i /\ i + 1 # 0
      BY <2>2
    <3>2. handle[i] = At(i)
      BY <2>2
    <3>3. handle[i + 1] = IF At(i) = NULL32 THEN NULL32 ELSE Entry(s, At(i)).size
      BY <1>9, <3>1, <3>2
    <3>4. CASE i < k
      <4> PICK j \in 1..k : j = k - i
        BY <3>4
      <4>1. At(i) = F[j] /\ At(i) # NULL32
        BY <1>10, <3>4
      <4>2. handle[i + 1] = Under(F, j)
        BY <1>10, <3>3, <4>1
      <4>3. Under(F, j) = At(i + 1)
        <5>1. CASE j = 1
          BY <5>1 DEF Under
        <5>2. CASE j # 1
          <6>1. i + 1 < k /\ k - (i + 1) = j - 1
            BY <5>2
          <6> QED BY <5>2, <6>1 DEF Under
        <5> QED BY <5>1, <5>2
      <4> QED BY <3>1, <4>2, <4>3
    <3>5. CASE ~(i < k)
      BY <3>1, <3>3, <3>5
    <3> QED BY <3>4, <3>5
  <2>3. \A i \in 0..n : i \in S
    <3>1. \A i \in 0..n : i < n /\ i \in S => i + 1 \in S
      BY <2>2
    <3> QED BY ONLY <2>1, <3>1, n \in Nat, Upwards
  <2> QED BY <2>3
<1>12. \A i \in 0..n : handle[i] = At(i)
  BY <1>11
<1>13. handle[n] = NULL32
  BY <1>7, <1>12
<1>14. ToSet(handle) \ {NULL32} = ToSet(F)
  <2>1. ToSet(handle) = {handle[i] : i \in 0..n}
    BY <1>9 DEF ToSet
  <2>2. ASSUME NEW x \in ToSet(handle), x # NULL32 PROVE x \in ToSet(F)
    <3> PICK i \in 0..n : x = At(i)
      BY <1>12, <2>1
    <3>1. i < k /\ x = F[k - i] /\ k - i \in 1..k
      BY <2>2
    <3> QED BY <1>5, <3>1
  <2>3. ASSUME NEW x \in ToSet(F) PROVE x \in ToSet(handle) /\ x # NULL32
    <3> PICK i \in 1..k : x = F[i]
      BY <1>5
    <3>1. k - i \in 0..n /\ k - i < k /\ k - (k - i) = i
      BY <1>7
    <3>2. handle[k - i] = F[i]
      BY <1>12, <3>1
    <3> QED BY <1>10, <2>1, <3>1, <3>2
  <2> QED BY <2>2, <2>3
<1>15. (0..(n - 1)) \ DOMAIN B = ToSet(F)
  BY <1>4
<1>16. mem.handleCount = n /\ FreeHandles(Now) = handle /\ Handles(Now) = DOMAIN B
  BY <1>6
<1> QED
  BY <1>13, <1>14, <1>15, <1>16 DEF HandlesChained

LEMMA TypeHolds ==
  ASSUME NEW C, Bounds(C), NEW B, NEW M, NEW F, Mid(C, mem, pages, None, {}, {}, B, M, F),
         mem.handleCount <= MaxHandles, orphan \in BOOLEAN, status \in Statuses
  PROVE  TypeOK
<1> PICK m : m = mem
  OBVIOUS
<1>1. /\ m \in Mems /\ m.pageCount \in 2..MaxPages /\ Handled(m, pages, None, B, F)
      /\ Tiles(C, m.free, UsedBy(B), m.pageCount)
  <2>1. m.free \cup {} = m.free /\ UsedBy(B) \cup {} = UsedBy(B)
    OBVIOUS
  <2> QED BY <2>1 DEF Mid
<1>2. m.handleCount \in 0..MaxHandles
  BY <1>1, SizesAssumption DEF Mems
<1>3. m.fhlStart \in 0..(MaxHandles - 1) \cup {NULL32}
  <2>1. F \in Seq(Nat) /\ m.fhlStart = Top(F) /\ ToSet(F) \subseteq 0..(m.handleCount - 1)
    BY <1>1 DEF Handled
  <2>2. F # <<>> => F[Len(F)] \in ToSet(F)
    BY <2>1 DEF ToSet
  <2>3. F # <<>> => F[Len(F)] \in 0..(MaxHandles - 1)
    BY <1>2, <2>1, <2>2, SizesAssumption
  <2> QED BY <2>1, <2>3 DEF Top
<1>4. \A n \in C : n \in Int /\ n <= 8192
  BY BoundsSay
<1>5. ASSUME NEW b \in m.free PROVE b.page \in PageIds /\ b.offset \in 0..(PAGE_SIZE - 1)
  <2>1. b \in Extents /\ b.size > 0 /\ b.page < m.pageCount /\ End(b) \in C
    BY <1>1 DEF Tiles, Covers, Shaped
  <2>2. b.page \in Nat /\ b.offset \in Nat /\ b.size \in Nat
    BY <2>1 DEF Extents
  <2>3. b.offset + b.size + 4 <= 8192
    BY <1>4, <2>1 DEF End
  <2>4. m.pageCount \in Nat /\ m.pageCount <= MaxPages /\ MaxPages \in Nat
    BY <1>1, SizesAssumption
  <2>5. b.page \in 0..(MaxPages + 4)
    BY ONLY <2>1, <2>2, <2>4
  <2> PICK o \in Nat, z \in Nat : o = b.offset /\ z = b.size
    BY <2>2
  <2>6. o + z + 4 <= 8192
    BY <2>3
  <2>7. o <= 8191
    BY ONLY <2>6, o \in Nat, z \in Nat
  <2> PICK top \in Nat : top = PAGE_SIZE - 1 /\ top = 8191
    BY DEF PAGE_SIZE
  <2>8. o \in 0..top
    BY ONLY <2>7, top = PAGE_SIZE - 1 /\ top = 8191, o \in Nat
  <2> QED BY <2>5, <2>8 DEF PageIds
<1> QED
  BY <1>1, <1>2, <1>3, <1>5 DEF TypeOK

-----------------------------------------------------------------------------
(* The invariant: the pages and the counters are those of some blobs B, in   *)
(* master pages M and free handles F, and B is what is read; what the file    *)
(* has since the last commit never has a header but the first.                *)
Sound(C) ==
  /\ "rollback" \notin Ends /\ orphan \in BOOLEAN /\ status \in Statuses
  /\ stored.header = NewHeader /\ IsPages(stored.pages)
  /\ stored = [header |-> stored.header, pages |-> stored.pages]
  /\ mem.handleCount <= MaxHandles
  /\ \E B, M, F : Mid(C, mem, pages, None, {}, {}, B, M, F) /\ reads = DataOf(B)

\* A file without blobs.
LEMMA NothingWithin ==
  ASSUME NEW C, NEW pg, IsPages(pg), NEW m, m = NewMem(NewHeader, <<>>)
  PROVE  Mid(C, m, pg, None, {}, {}, None, <<1>>, <<>>)
<1>1. m = [handleCount |-> 0, pageCount |-> 2, fhlStart |-> NULL32, free |-> {}, index |-> <<>>]
  BY DEF NewMem, NewHeader
<1>2. m \in Mems /\ m.pageCount \in 2..MaxPages
  <2>1. 2 \in 2..MaxPages
    BY SizesAssumption
  <2>2. <<>> \in Seq(Nat) /\ {} \in SUBSET Extents /\ NULL32 \in Int
    BY DEF NULL32
  <2>3. m.pageCount = 2
    BY ONLY <1>1
  <2> PICK none : none = NULL32 /\ none \in Int
    BY DEF NULL32
  <2>4. m = [handleCount |-> 0, pageCount |-> 2, fhlStart |-> none, free |-> {}, index |-> <<>>]
    BY ONLY <1>1, none = NULL32 /\ none \in Int
  <2>5. m \in Mems
    BY ONLY <2>2, <2>4, none = NULL32 /\ none \in Int DEF Mems
  <2> QED BY ONLY <2>1, <2>3, <2>5
<1>3. DOMAIN None = {} /\ UsedBy(None) = {}
  BY DEF None, UsedBy
<1>4. m.free \cup {} = {} /\ UsedBy(None) \cup {} = {} /\ m.free = {} /\ m.pageCount = 2
  BY <1>1, <1>3
<1>5. Tiles(C, {}, {}, 2)
  BY DEF Tiles, Covers, Shaped, FilledLeft, FilledRight, Disjoint, Separate
<1> PICK M : M = <<1>>
  OBVIOUS
<1>6. M \in Seq(Nat) /\ Len(M) = 1 /\ M[1] = 1 /\ DOMAIN M = {1} /\ ToSet(M) = {1}
  BY DEF ToSet
<1>7. m.index = <<>> /\ <<>> \in Seq(Nat) /\ Len(<<>>) = 0 /\ DOMAIN <<>> = {} /\ ToSet(<<>>) = {}
  BY <1>1 DEF ToSet
<1>8. Roles(m, M, {})
  BY <1>4, <1>6, <1>7 DEF Roles, PageSet
<1>9. Masters(m.index, pg, M)
  <2>1. MastersFor(0) = 1
    BY DEF MastersFor
  <2>2. Injected(M) /\ Injected(<<>>)
    BY <1>6, <1>7 DEF Injected
  <2>3. 1..(Len(M) - 1) = {} /\ 1..Len(<<>>) = {} /\ MastersFor(Len(<<>>)) <= Len(M)
    BY <1>6, <1>7, <2>1
  <2>4. Listed(<<>>, pg, M)
    BY ONLY <1>6, <1>7, <2>2, <2>3 DEF Listed
  <2> QED BY ONLY <1>6, <1>7, <2>1, <2>4 DEF Masters
<1>10. IndexPages(m) = 0
  <2> PICK h \in Nat \ {0} : h = handlesPerIndex
    BY SizesAssumption
  <2>1. h - 1 \in Nat /\ h - 1 \in 0..(h - 1) /\ 0 \in Nat /\ h - 1 = h * 0 + (h - 1)
    OBVIOUS
  <2> PICK r : r = h - 1
    OBVIOUS
  <2>2. r \in Nat /\ r \in 0..(h - 1) /\ 0 \in Nat /\ r = h * 0 + r
    BY <2>1
  <2>3. r \div h = 0 /\ r % h = r
    BY ONLY <2>2, h \in Nat \ {0}, DivUnique
  <2>4. m.handleCount + handlesPerIndex - 1 = r
    BY <1>1
  <2> QED BY <2>3, <2>4 DEF IndexPages
<1>11. Handled(m, pg, None, None, <<>>)
  <2>1. m.handleCount = 0 /\ m.fhlStart = NULL32 /\ 0..(0 - 1) = {}
    BY <1>1
  <2>2. Injected(<<>>) /\ Top(<<>>) = NULL32
    BY <1>7 DEF Injected, Top
  <2>3. 1..Len(<<>>) = {} /\ Len(m.index) = IndexPages(m)
    BY <1>7, <1>10
  <2>4. DOMAIN None \cup ToSet(<<>>) \cup DOMAIN None = 0..(m.handleCount - 1)
    BY ONLY <1>3, <1>7, <2>1
  <2> QED BY ONLY <1>3, <1>7, <2>1, <2>2, <2>3, <2>4 DEF Handled
<1>12. Owned(None)
  BY <1>3 DEF Owned
<1> QED
  BY <1>2, <1>3, <1>4, <1>5, <1>6, <1>8, <1>9, <1>11, <1>12 DEF Mid

LEMMA EmptyPages == IsPages(NewPages)
  BY DEF NewPages, Cleared, IsPages

LEMMA SoundInit ==
  ASSUME NEW C, Init, "rollback" \notin Ends
  PROVE  Sound(C)
<1>1. /\ mem = NewMem(NewHeader, <<>>) /\ pages = NewPages /\ orphan = FALSE /\ status = "up"
      /\ stored = [header |-> NewHeader, pages |-> NewPages] /\ reads = <<>>
  BY DEF Init
<1>2. Mid(C, mem, pages, None, {}, {}, None, <<1>>, <<>>)
  BY <1>1, EmptyPages, NothingWithin
<1>3. reads = DataOf(None)
  <2>1. DOMAIN None = {}
    BY DEF None
  <2>2. DataOf(None) = [id \in {} |-> None[id].blob]
    BY <2>1 DEF DataOf
  <2>3. [id \in {} |-> None[id].blob] = <<>>
    OBVIOUS
  <2> QED BY <1>1, <2>2, <2>3
<1>4. mem.handleCount <= MaxHandles
  BY <1>1, SizesAssumption DEF NewMem, NewHeader
<1> QED
  BY <1>1, <1>2, <1>3, <1>4, EmptyPages DEF Sound, Statuses

\* The state of the two that a call is given.
LEMMA NowSound ==
  ASSUME NEW C, Sound(C), status = "up"
  PROVE  \E B, M, F : Within(C, Now, None, {}, {}, B, M, F) /\ reads = DataOf(B)
<1> PICK B, M, F : Mid(C, mem, pages, None, {}, {}, B, M, F) /\ reads = DataOf(B)
  BY DEF Sound
<1> PICK s : s = Now
  OBVIOUS
<1>1. s = [mem |-> mem, pages |-> pages, orphan |-> orphan, status |-> status]
  BY DEF Now
<1>2. mem \in Mems /\ IsPages(pages) /\ orphan \in BOOLEAN /\ status \in Statuses
  BY DEF Mid, Sound, Statuses
<1>3. s.mem = mem /\ s.pages = pages /\ s.status = "up"
  BY <1>1
<1>4. IsTyped(s)
  BY ONLY <1>1, <1>2, <1>3 DEF IsTyped
<1>5. Within(C, s, None, {}, {}, B, M, F)
  BY <1>2, <1>3, <1>4 DEF Within, IsState
<1> QED
  BY <1>5

\* A call that ends within the bounds leaves a state that is read as its blobs.
LEMMA ChangeSound ==
  ASSUME NEW C, Sound(C), UNCHANGED usage, NEW s, Change(s),
         NEW B, NEW M, NEW F, Within(C, s, None, {}, {}, B, M, F)
  PROVE  Sound(C)' /\ reads' = DataOf(B) /\ DOMAIN B \subseteq 0..MaxHandles
<1>1. s.status = "up" /\ Mid(C, s.mem, s.pages, None, {}, {}, B, M, F) /\ s.orphan \in BOOLEAN
  BY DEF Within, IsState, IsTyped
<1>2. /\ mem' = s.mem /\ pages' = s.pages /\ orphan' = s.orphan /\ status' = "up"
      /\ stored' = stored /\ s.mem.handleCount <= MaxHandles
      /\ reads' = Reads(s)
  BY <1>1 DEF Change
<1>3. reads' = DataOf(B)
  BY <1>2, AllRead
<1>4. DOMAIN B \subseteq 0..MaxHandles
  <2>1. DOMAIN B \subseteq 0..(s.mem.handleCount - 1) /\ s.mem \in Mems
    BY <1>1 DEF Mid, Handled
  <2>2. s.mem.handleCount \in Nat
    BY <2>1 DEF Mems
  <2> QED BY <1>2, <2>1, <2>2, SizesAssumption
<1>5. Ends' = Ends
  BY DEF Ends
<1>6. Mid(C, mem', pages', None, {}, {}, B, M, F)
  BY <1>1, <1>2
<1> QED
  BY <1>1, <1>2, <1>3, <1>4, <1>5, <1>6 DEF Sound, Statuses

-----------------------------------------------------------------------------
(* The steps.                                                                *)

\* What a step does, and what it looks like to who uses the blobs.
LEMMA AddSound ==
  ASSUME NEW C, WellCut(C), Sound(C), status = "up", UNCHANGED usage, Add
  PROVE  Sound(C)' /\ Store!Next
<1> PICK B, M, F : Within(C, Now, None, {}, {}, B, M, F) /\ reads = DataOf(B)
  BY NowSound
<1> PICK d \in Data : \E t : t = addBlob(Now, d) /\ Change(t)
  BY DEF Add
<1> PICK s : s = addBlob(Now, d) /\ Change(s)
  OBVIOUS
<1> PICK id : id = NextHandle(Now)
  OBVIOUS
<1>1. s.mem.pageCount <= MaxPages
  BY DEF Change
<1>2. /\ NextHandle(Now) \in Nat /\ NextHandle(Now) \notin DOMAIN B
      /\ Grown(C, B, NextHandle(Now), d, s)
  BY <1>1, BlobAdded
<1> PICK b, N, G : b.blob = d /\ Within(C, s, None, {}, {}, Among(B, id, b), N, G)
  BY <1>2 DEF Grown
<1> PICK D : D = Among(B, id, b)
  OBVIOUS
<1>3. Within(C, s, None, {}, {}, D, N, G)
  OBVIOUS
<1>4. Sound(C)' /\ reads' = DataOf(D) /\ DOMAIN D \subseteq 0..MaxHandles
  BY <1>3, ChangeSound
<1>5. DOMAIN reads = DOMAIN B /\ DOMAIN D = DOMAIN B \cup {id}
  BY DEF DataOf, Among
<1>6. reads' = [i \in DOMAIN reads \cup {id} |-> IF i = id THEN d ELSE reads[i]]
  BY <1>4, <1>5 DEF DataOf, Among
<1>7. id \in (0..MaxHandles) \ DOMAIN reads
  BY <1>2, <1>4, <1>5
<1>8. Store!addBlob(d)
  BY <1>6, <1>7 DEF Store!addBlob
<1> QED
  BY <1>4, <1>8 DEF Store!Next

LEMMA WriteSound ==
  ASSUME NEW C, WellCut(C), Sound(C), status = "up", UNCHANGED usage, Write
  PROVE  Sound(C)' /\ (Store!Next \/ reads' = reads)
<1> PICK B, M, F : Within(C, Now, None, {}, {}, B, M, F) /\ reads = DataOf(B)
  BY NowSound
<1> PICK id \in 0..(MaxHandles - 1), d \in Data : \E t : t = writeBlob(Now, id, d) /\ Change(t)
  BY DEF Write
<1> PICK s : s = writeBlob(Now, id, d) /\ Change(s)
  OBVIOUS
<1>1. id \in Nat
  BY SizesAssumption
<1>2. Known(Now, B)
  <2> PICK t : t = Now
    OBVIOUS
  <2>1. Mid(C, t.mem, t.pages, None, {}, {}, B, M, F)
    BY DEF Within
  <2>2. Known(t, B)
    BY ONLY <2>1, Lives
  <2> QED BY <2>2
<1>3. CASE IsLive(Now, id)
  <2>1. id \in DOMAIN B
    BY <1>1, <1>2, <1>3 DEF Known
  <2>2. s.mem.pageCount <= MaxPages
    BY DEF Change
  <2>3. Grown(C, Without(B, id), id, d, s)
    BY <2>1, <2>2, BlobWritten
  <2> PICK b, N, G : b.blob = d /\ Within(C, s, None, {}, {}, Among(Without(B, id), id, b), N, G)
    BY <2>3 DEF Grown
  <2> PICK D : D = Among(Without(B, id), id, b)
    OBVIOUS
  <2>4. Within(C, s, None, {}, {}, D, N, G)
    OBVIOUS
  <2>5. Sound(C)' /\ reads' = DataOf(D)
    BY <2>4, ChangeSound
  <2>6. DOMAIN reads = DOMAIN B /\ DOMAIN D = DOMAIN B
    BY <2>1 DEF DataOf, Among, Without
  <2>7. reads' = [reads EXCEPT ![id] = d]
    BY <2>1, <2>5, <2>6 DEF DataOf, Among, Without
  <2>8. Store!writeBlob(id, d)
    BY <2>7 DEF Store!writeBlob
  <2> QED BY <2>1, <2>5, <2>6, <2>8 DEF Store!Next
<1>4. CASE ~IsLive(Now, id)
  <2>1. s = Now
    BY <1>4 DEF writeBlob
  <2>2. Within(C, s, None, {}, {}, B, M, F)
    BY <2>1
  <2> QED BY <2>2, ChangeSound
<1> QED
  BY <1>3, <1>4

LEMMA DeleteSound ==
  ASSUME NEW C, WellCut(C), Sound(C), status = "up", UNCHANGED usage, Delete
  PROVE  Sound(C)' /\ (Store!Next \/ reads' = reads)
<1> PICK B, M, F : Within(C, Now, None, {}, {}, B, M, F) /\ reads = DataOf(B)
  BY NowSound
<1> PICK id \in 0..MaxHandles : \E t : t = deleteBlob(Now, id) /\ Change(t)
  BY DEF Delete
<1> PICK s : s = deleteBlob(Now, id) /\ Change(s)
  OBVIOUS
<1>1. id \in Nat
  BY SizesAssumption
<1>2. Known(Now, B)
  <2> PICK t : t = Now
    OBVIOUS
  <2>1. Mid(C, t.mem, t.pages, None, {}, {}, B, M, F)
    BY DEF Within
  <2>2. Known(t, B)
    BY ONLY <2>1, Lives
  <2> QED BY <2>2
<1>3. CASE IsLive(Now, id)
  <2>1. id \in DOMAIN B
    BY <1>1, <1>2, <1>3 DEF Known
  <2> PICK D : D = Without(B, id)
    OBVIOUS
  <2>2. Within(C, s, None, {}, {}, D, M, Append(F, id))
    BY <2>1, BlobDeleted DEF WellCut
  <2>3. Sound(C)' /\ reads' = DataOf(D)
    BY <2>2, ChangeSound
  <2>4. DOMAIN reads = DOMAIN B /\ DOMAIN D = DOMAIN B \ {id}
    BY DEF DataOf, Without
  <2>5. reads' = [i \in DOMAIN reads \ {id} |-> reads[i]]
    BY <2>3, <2>4 DEF DataOf, Without
  <2>6. Store!deleteBlob(id)
    BY <2>5 DEF Store!deleteBlob
  <2> QED BY <2>1, <2>3, <2>4, <2>6 DEF Store!Next
<1>4. CASE ~IsLive(Now, id)
  <2>1. s = Now
    BY <1>4, Zenon DEF deleteBlob
  <2>2. Within(C, s, None, {}, {}, B, M, F)
    BY <2>1
  <2> QED BY <2>2, ChangeSound
<1> QED
  BY <1>3, <1>4

\* The pages of the transaction are those of the file from then on, or the
\* program ends.
LEMMA CommitSound ==
  ASSUME NEW C, Sound(C), status = "up", UNCHANGED usage, Commit
  PROVE  Sound(C)' /\ reads' = reads
<1> PICK B, M, F : Mid(C, mem, pages, None, {}, {}, B, M, F) /\ reads = DataOf(B)
  BY DEF Sound
<1>1. mem' = mem /\ pages' = pages /\ reads' = reads /\ orphan' = orphan /\ Ends' = Ends
  BY DEF Commit, Ends
<1>2. Mid(C, mem', pages', None, {}, {}, B, M, F) /\ reads' = DataOf(B)
  BY <1>1
<1>3. IsPages(pages)
  BY DEF Mid
<1>4. /\ stored'.header = NewHeader /\ IsPages(stored'.pages) /\ status' \in Statuses
      /\ stored' = [header |-> stored'.header, pages |-> stored'.pages]
  <2>1. /\ stored.header = NewHeader /\ IsPages(stored.pages)
        /\ stored = [header |-> stored.header, pages |-> stored.pages]
    BY DEF Sound
  <2>2. CASE orphan
    <3>1. stored' = stored /\ status' = "dead"
      BY <2>2 DEF Commit
    <3> QED BY ONLY <2>1, <3>1 DEF Statuses
  <2>3. CASE ~orphan
    <3>1. stored' = [stored EXCEPT !.pages = pages] /\ status' = status
      BY <2>3 DEF Commit
    <3>2. stored' = [header |-> NewHeader, pages |-> pages]
      BY ONLY <2>1, <3>1
    <3>3. status' \in Statuses
      BY <3>1 DEF Statuses
    <3> QED BY ONLY <1>3, <3>2, <3>3
  <2> QED BY <2>2, <2>3
<1> QED
  BY <1>1, <1>2, <1>4 DEF Sound

\* The header of the file is the first one: no blob is found after a start,
\* wherever the chain of master pages leads.
LEMMA NoIndexLoaded ==
  ASSUME NEW pg
  PROVE  loadLists(NewHeader, pg) = <<>> \/ MasterChain(pg) = <<Junk>>
<1> SUFFICES ASSUME MasterChain(pg) # <<Junk>> PROVE loadLists(NewHeader, pg) = <<>>
  OBVIOUS
<1> PICK per \in 1..2047 : per = indexesPerMasterIndex
  BY SizesAssumption
<1>1. IndexPages(NewHeader) = 0
  <2> PICK h \in Nat \ {0} : h = handlesPerIndex
    BY SizesAssumption
  <2> PICK r \in Nat : r = h - 1
    OBVIOUS
  <2>1. r \in 0..(h - 1) /\ 0 \in Nat /\ r = h * 0 + r
    OBVIOUS
  <2>2. r \div h = 0 /\ r % h = r
    BY ONLY <2>1, r \in Nat, h \in Nat \ {0}, DivUnique
  <2>3. NewHeader.handleCount + handlesPerIndex - 1 = r
    BY DEF NewHeader
  <2> QED BY <2>2, <2>3 DEF IndexPages
<1>2. Min({0, per}) = 0
  BY DEF Min
<1>3. Len(MasterChain(pg)) \in Nat
  BY PageChainIsSeq DEF MasterChain
<1>4. 1..(0 * Len(MasterChain(pg))) = {}
  BY ONLY <1>3
<1>5. Min({IndexPages(NewHeader), indexesPerMasterIndex}) = 0
  BY ONLY <1>1, <1>2, per = indexesPerMasterIndex
<1> DEFINE count == Min({IndexPages(NewHeader), indexesPerMasterIndex})
           entry(i) == Get(pg, MasterChain(pg)[(i \div count) + 1], (i % count) * 4, 4, NULL32)
<1>6. loadLists(NewHeader, pg) = [i \in 1..(count * Len(MasterChain(pg))) |-> entry(i - 1)]
  BY DEF loadLists
<1>7. 1..(count * Len(MasterChain(pg))) = {}
  BY <1>4, <1>5
<1> HIDE DEF count, entry
<1>8. [i \in {} |-> entry(i - 1)] = <<>>
  OBVIOUS
<1> QED
  BY ONLY <1>6, <1>7, <1>8

LEMMA RestartSound ==
  ASSUME NEW C, Sound(C), status = "up", UNCHANGED usage, Restart
  PROVE  Sound(C)' /\ Store!Forget
<1>1. stored.header = NewHeader /\ IsPages(stored.pages)
  BY DEF Sound
<1> PICK m, pg : m = NewMem(NewHeader, <<>>) /\ pg = stored.pages
  OBVIOUS
<1> PICK s : /\ Change(s)
             /\ s = Start(<<>>) \/ s = Wild(Start(<<>>))
  BY <1>1, NoIndexLoaded DEF Restart
<1>2. \E up \in Statuses : s = [mem |-> m, pages |-> pg, orphan |-> FALSE, status |-> up]
  BY <1>1 DEF Now, Start, Wild, Statuses
<1>3. Mid(C, m, pg, None, {}, {}, None, <<1>>, <<>>)
  BY <1>1, NothingWithin
<1>4. IsTyped(s) /\ IsPages(pg) /\ s.mem = m /\ s.pages = pg /\ s.status \in Statuses
  <2>1. m \in Mems /\ FALSE \in BOOLEAN
    BY <1>3 DEF Mid
  <2>2. s.pages = pg /\ s.mem = m /\ s.status \in Statuses
    BY ONLY <1>2
  <2>3. IsTyped(s)
    BY ONLY <1>2, <2>1, <2>2 DEF IsTyped
  <2> QED BY <1>1, <2>2, <2>3
<1>5. Sound(C)' /\ reads' = DataOf(None)
  <2>1. CASE s.status = "up"
    <3>1. Within(C, s, None, {}, {}, None, <<1>>, <<>>)
      BY <1>3, <1>4, <2>1 DEF Within, IsState
    <3> QED BY <3>1, ChangeSound
  <2>2. CASE s.status # "up"
    <3>1. /\ mem' = m /\ pages' = pg /\ orphan' = FALSE /\ status' \in Statuses
          /\ stored' = stored /\ reads' = <<>> /\ m.handleCount <= MaxHandles /\ Ends' = Ends
      BY <1>2, <1>4, <2>2 DEF Change, Ends
    <3>2. reads' = DataOf(None)
      <4>1. DOMAIN None = {}
        BY DEF None
      <4>2. [id \in {} |-> None[id].blob] = <<>>
        OBVIOUS
      <4> QED BY <3>1, <4>1, <4>2 DEF DataOf
    <3>3. Mid(C, mem', pages', None, {}, {}, None, <<1>>, <<>>)
      BY <1>3, <3>1
    <3> QED BY <3>1, <3>2, <3>3 DEF Sound
  <2> QED BY <2>1, <2>2
<1>6. reads' = [i \in {} |-> reads[i]]
  <2>1. DOMAIN None = {}
    BY DEF None
  <2> QED BY <1>5, <2>1 DEF DataOf
<1>7. Store!Forget
  <2>1. {} \in SUBSET DOMAIN reads
    OBVIOUS
  <2> QED BY <1>6, <2>1 DEF Store!Forget
<1> QED
  BY <1>5, <1>7

LEMMA SoundNext ==
  ASSUME NEW C, WellCut(C), Sound(C), [Next]_vars
  PROVE  /\ Sound(C)'
         /\ Store!Next \/ ((Rollback \/ Restart) /\ Store!Forget) \/ UNCHANGED reads
<1>1. CASE Next /\ Add
  BY <1>1, AddSound DEF Next
<1>2. CASE Next /\ Write
  BY <1>2, WriteSound DEF Next
<1>3. CASE Next /\ Delete
  BY <1>3, DeleteSound DEF Next
<1>4. CASE Next /\ Commit
  BY <1>4, CommitSound DEF Next
<1>5. CASE Next /\ Rollback
  BY <1>5 DEF Rollback, Sound
<1>6. CASE Next /\ Restart
  BY <1>6, RestartSound DEF Next
<1>7. CASE UNCHANGED vars
  <2>1. /\ usage' = usage /\ mem' = mem /\ pages' = pages /\ stored' = stored /\ orphan' = orphan
        /\ status' = status /\ reads' = reads
    BY <1>7 DEF vars
  <2>2. Ends' = Ends
    BY <2>1 DEF Ends
  <2> QED BY <2>1, <2>2 DEF Sound
<1> QED
  BY <1>1, <1>2, <1>3, <1>4, <1>5, <1>6, <1>7 DEF Next

-----------------------------------------------------------------------------
(* No byte, page or handle is lost, and none is given out twice, for blobs    *)
(* that leave no block too small to be used, as long as nothing is rolled     *)
(* back: addBlob(), writeBlob() and deleteBlob() between any commits and      *)
(* restarts.                                                                  *)
THEOREM SpaceIsAccounted ==
  ASSUME NEW C, WellCut(C)
  PROVE  Spec /\ "rollback" \notin Ends => []SpaceAccounted
<1>1. Init /\ "rollback" \notin Ends => Sound(C)
  BY SoundInit
<1>2. Sound(C) /\ [Next]_vars => Sound(C)'
  BY SoundNext
<1>3. Sound(C) => SpaceAccounted
  <2> SUFFICES ASSUME Sound(C) PROVE SpaceAccounted
    OBVIOUS
  <2> PICK B, M, F : Mid(C, mem, pages, None, {}, {}, B, M, F)
    BY DEF Sound
  <2>1. Bounds(C) /\ mem.handleCount <= MaxHandles /\ orphan \in BOOLEAN /\ status \in Statuses
    BY DEF WellCut, Sound, Statuses
  <2>2. TypeOK
    BY <2>1, TypeHolds
  <2>3. Tiled
    BY <2>1, TiledHolds
  <2>4. PagesAccounted
    BY PagesAccountedHolds
  <2>5. HandlesChained
    BY HandlesChainedHolds
  <2> QED BY <2>2, <2>3, <2>4, <2>5 DEF SpaceAccounted
<1> QED
  BY <1>1, <1>2, <1>3, PTL DEF Spec

(* Every blob in use reads as a blob that was given to addBlob() or           *)
(* writeBlob(), under the premises of SpaceIsAccounted.                       *)
THEOREM BlobsAreReadable ==
  ASSUME NEW C, WellCut(C)
  PROVE  Spec /\ "rollback" \notin Ends => []BlobsReadable
<1>1. Init /\ "rollback" \notin Ends => Sound(C)
  BY SoundInit
<1>2. Sound(C) /\ [Next]_vars => Sound(C)'
  BY SoundNext
<1>3. Sound(C) => BlobsReadable
  <2> SUFFICES ASSUME Sound(C), NEW id \in DOMAIN reads PROVE reads[id] # JunkBlob
    BY DEF BlobsReadable
  <2> PICK B, M, F : Mid(C, mem, pages, None, {}, {}, B, M, F) /\ reads = DataOf(B)
    BY DEF Sound
  <2>1. id \in DOMAIN B /\ reads[id] = B[id].blob
    BY DEF DataOf
  <2>2. B[id].blob \in Data
    BY <2>1 DEF Mid, IsBlob
  <2>3. B[id].blob.size # 0 /\ JunkBlob.size = 0
    BY <2>2, DataAssumption DEF JunkBlob
  <2> QED BY <2>1, <2>3
<1> QED
  BY <1>1, <1>2, <1>3, PTL DEF Spec

(* A file of blobs is a BlobStore: addBlob() gives a handle that is not in    *)
(* use, and no call changes the blob of another handle; under the premises of *)
(* SpaceIsAccounted.                                                          *)
THEOREM BlobsAreKept ==
  ASSUME NEW C, WellCut(C)
  PROVE  Spec /\ "rollback" \notin Ends => StoreSpec
<1>1. Init /\ "rollback" \notin Ends => Sound(C)
  BY SoundInit
<1>2. Init => Store!Init
  BY DEF Init, Store!Init
<1>3. Sound(C) /\ [Next]_vars =>
        /\ Sound(C)'
        /\ [Store!Next \/ ((Rollback \/ Restart) /\ Store!Forget)]_reads
  BY SoundNext
<1> QED
  BY <1>1, <1>2, <1>3, PTL DEF Spec, StoreSpec
=============================================================================
